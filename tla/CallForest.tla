----------------------------- MODULE CallForest -----------------------------
(***************************************************************************)
(* rrtrace/format.py, _assemble: the events of a file are read one by one  *)
(* and paired with a stack per thread into a call forest.  The input is    *)
(* any sequence of events a file can hold, so every decision the reader    *)
(* takes is compared with the interval definition of TraceEvents.          *)
(***************************************************************************)
EXTENDS TraceEvents

CONSTANTS
  Tids,        \* thread ids that occur in the file
  Ids,         \* correlation ids that occur in the file
  Kinds,       \* probe kinds that occur in the file
  MaxEvents,   \* bound: events in the file
  NoParent     \* Call.parent is None

ASSUME IdsAssumption == Ids \subseteq Nat \ {0}
ASSUME NoParentAssumption == NoParent \notin Nat

VARIABLES
  read,        \* the events consumed so far
  parent,      \* calls: correlation id -> Call.parent
  children,    \* calls: correlation id -> Call.children
  instructions,\* calls: correlation id -> positions of Call.instructions
  left,        \* calls whose Call.leave is set
  roots,       \* Trace.roots
  stacks,      \* the local stacks of _assemble
  unscoped,    \* positions of Trace.unscoped_instructions
  verdict      \* "reading", "parsed", or "malformed" after a TraceError

vars == <<read, parent, children, instructions, left, roots, stacks, unscoped,
          verdict>>

Calls == DOMAIN parent

Init ==
  /\ read = <<>>
  /\ parent = <<>> /\ children = <<>> /\ instructions = <<>>
  /\ left = {}
  /\ roots = [t \in Tids |-> <<>>]
  /\ stacks = [t \in Tids |-> <<>>]
  /\ unscoped = <<>>
  /\ verdict = "reading"

Bind(f, x, v) == [y \in DOMAIN f \cup {x} |-> IF y = x THEN v ELSE f[y]]

(* Mutants: the stacks of the threads are confused; the outermost call is  *)
(* taken instead of the innermost.                                         *)
TopOfAnyThread(t) ==
  LET u == CHOOSE u \in Tids : stacks[u] # <<>> IN stacks[u][Len(stacks[u])]
Outermost(t) == stacks[t][1]

Top(t) == stacks[t][Len(stacks[t])]

Reads(phase, t, k, c) ==
  /\ verdict = "reading"
  /\ Len(read) < MaxEvents
  /\ read' = Append(read, Event(k, phase, t, Len(read) + 1, c))

Instruction(t, k) ==
  /\ Reads("instruction", t, k, 0)
  /\ IF stacks[t] # <<>>
       THEN /\ instructions' =
                 [instructions EXCEPT ![Top(t)] = Append(@, Len(read'))]
            /\ UNCHANGED unscoped
       ELSE /\ unscoped' = Append(unscoped, Len(read'))
            /\ UNCHANGED instructions
  /\ UNCHANGED <<parent, children, left, roots, stacks, verdict>>

(* Mutant: the newest child comes first.                                   *)
AdoptsFirst(under, c) == [children EXCEPT ![under] = <<c>> \o @]

Adopts(under, c) == [children EXCEPT ![under] = Append(@, c)]

Enter(t, k, c) ==
  /\ c \notin Calls
  /\ Reads("enter", t, k, c)
  /\ LET under == IF stacks[t] = <<>> THEN NoParent ELSE Top(t)
     IN  /\ parent' = Bind(parent, c, under)
         /\ IF under = NoParent
              THEN /\ roots' = [roots EXCEPT ![t] = Append(@, c)]
                   /\ children' = Bind(children, c, <<>>)
              ELSE /\ children' = Bind(Adopts(under, c), c, <<>>)
                   /\ UNCHANGED roots
  /\ instructions' = Bind(instructions, c, <<>>)
  /\ stacks' = [stacks EXCEPT ![t] = Append(@, c)]
  /\ UNCHANGED <<left, unscoped, verdict>>

(* Mutant: a leave may close any open call of its thread.                  *)
MatchesAnywhere(t, c) == \E i \in DOMAIN stacks[t] : stacks[t][i] = c

Matches(t, c) == stacks[t] # <<>> /\ Top(t) = c

Leave(t, k, c) ==
  /\ Matches(t, c)
  /\ Reads("leave", t, k, c)
  /\ left' = left \cup {c}
  /\ stacks' = [stacks EXCEPT ![t] = SubSeq(@, 1, Len(@) - 1)]
  /\ UNCHANGED <<parent, children, instructions, roots, unscoped, verdict>>

Fails ==
  /\ verdict' = "malformed"
  /\ UNCHANGED <<parent, children, instructions, left, roots, stacks, unscoped>>

DuplicateCorrelation(t, k, c) ==
  c \in Calls /\ Reads("enter", t, k, c) /\ Fails

UnmatchedLeave(t, k, c) ==
  ~Matches(t, c) /\ Reads("leave", t, k, c) /\ Fails

(* Mutant: calls still open at the end of the file are not noticed.        *)
EndOfFileUnchecked ==
  /\ verdict = "reading"
  /\ verdict' = "parsed"
  /\ UNCHANGED <<read, parent, children, instructions, left, roots, stacks,
                 unscoped>>

EndOfFile ==
  /\ verdict = "reading"
  /\ verdict' = IF \A t \in Tids : stacks[t] = <<>> THEN "parsed" ELSE "malformed"
  /\ UNCHANGED <<read, parent, children, instructions, left, roots, stacks,
                 unscoped>>

Next ==
  \/ \E t \in Tids, k \in Kinds : Instruction(t, k)
  \/ \E t \in Tids, k \in Kinds, c \in Ids :
       \/ Enter(t, k, c)
       \/ Leave(t, k, c)
       \/ DuplicateCorrelation(t, k, c)
       \/ UnmatchedLeave(t, k, c)
  \/ EndOfFile

Spec == Init /\ [][Next]_vars

(* validate.py, single_probe, without the metadata it looks at first.      *)
(* Mutant: instructions outside every call are let through.                *)
SingleProbeWithStrays(count) ==
  /\ verdict = "parsed"
  /\ \E t \in Tids : /\ {u \in Tids : roots[u] # <<>>} = {t}
                     /\ Len(roots[t]) = count
  /\ Cardinality(Calls) = count
  /\ \A c \in Calls : c \in left /\ children[c] = <<>>

SingleProbe(count) ==
  /\ verdict = "parsed"
  /\ \E t \in Tids : /\ {u \in Tids : roots[u] # <<>>} = {t}
                     /\ Len(roots[t]) = count
  /\ Cardinality(Calls) = count
  /\ unscoped = <<>>
  /\ \A c \in Calls : c \in left /\ children[c] = <<>>

-----------------------------------------------------------------------------
(* The maps of _assemble have the same calls as keys, and a thread's stack *)
(* holds distinct open calls.                                              *)
TypeOK ==
  /\ verdict \in {"reading", "parsed", "malformed"}
  /\ Calls \subseteq Ids
  /\ DOMAIN children = Calls /\ DOMAIN instructions = Calls /\ left \subseteq Calls
  /\ \A t \in Tids : \A i, j \in DOMAIN stacks[t] :
       stacks[t][i] \in Calls \ left /\ (stacks[t][i] = stacks[t][j] => i = j)

(* A file is parsed exactly when its intervals form a forest: _assemble    *)
(* neither accepts a crossing, orphaned, repeated or unterminated call nor *)
(* refuses a file that nests.                                              *)
ParsedIffForest ==
  /\ verdict = "parsed" => Forest(read)
  /\ verdict = "malformed" => ~Forest(read)
  /\ verdict = "reading" => Nests(read)

EnterOf(c) == CHOOSE i \in Enters(read) : read[i].id = c

(* Call.parent is the innermost interval of the same thread around the     *)
(* call, across threads that interleave in the file, and Trace.roots are   *)
(* the calls with no such interval.                                        *)
ParentIsInnermost ==
  verdict # "malformed" =>
    \A c \in Calls :
      LET around == {i \in Enters(read) : Encloses(read, i, EnterOf(c))}
      IN  IF around = {}
            THEN /\ parent[c] = NoParent
                 /\ \E n \in DOMAIN roots[read[EnterOf(c)].tid] :
                      roots[read[EnterOf(c)].tid][n] = c
            ELSE /\ EnterOf(parent[c]) \in around
                 /\ \A i \in around : i <= EnterOf(parent[c])

(* Every instruction event is attached once: to the innermost call that    *)
(* is open on its own thread, or to the unscoped list when there is none.  *)
InstructionsAttachedOnce ==
  verdict # "malformed" =>
    \A n \in At(read, "instruction") :
      LET around == {i \in Enters(read) : Encloses(read, i, n)}
          owners == {c \in Calls : \E m \in DOMAIN instructions[c] :
                                     instructions[c][m] = n}
      IN  /\ (around = {}) = (\E m \in DOMAIN unscoped : unscoped[m] = n)
          /\ Cardinality(owners) = (IF around = {} THEN 0 ELSE 1)
          /\ \A c \in owners : /\ EnterOf(c) \in around
                               /\ \A i \in around : i <= EnterOf(c)

(* Call.children lists the calls whose parent it is, each once, in the     *)
(* order in which they were entered; expect_children compares that order.  *)
ChildrenInEntryOrder ==
  verdict # "malformed" =>
    \A c \in Calls :
      /\ {children[c][n] : n \in DOMAIN children[c]} = {d \in Calls : parent[d] = c}
      /\ \A m, n \in DOMAIN children[c] :
           m < n => EnterOf(children[c][m]) < EnterOf(children[c][n])

(* What an adapter relies on when single_probe lets a recording pass: all  *)
(* of the file happened on one thread, in exactly so many calls that do    *)
(* not overlap, and nothing happened outside them (validate.py:42-45).     *)
SingleProbeIsFlat ==
  \A count \in 1..Cardinality(Ids) :
    SingleProbe(count) <=>
      /\ verdict = "parsed" /\ Cardinality(Enters(read)) = count
      /\ \A i, k \in DOMAIN read : read[i].tid = read[k].tid
      /\ \A k \in Enters(read) : \A i \in Enters(read) : ~Encloses(read, i, k)
      /\ \A k \in At(read, "instruction") :
           \E i \in Enters(read) : Encloses(read, i, k)
=============================================================================
