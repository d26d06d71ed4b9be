------------------------------ MODULE Snapshots ------------------------------
(***************************************************************************)
(* What a probe's snapshot declarations mean: the agent captures them into *)
(* one run of bytes (agent.js, captureSnapshots and the sizes recordEvent  *)
(* writes), and the reader cuts that run up again from the declarations    *)
(* and the recorded registers alone (rrtrace/format.py, _decode_events and *)
(* snapshot_parts).  Nothing in an event says where one snapshot ends.     *)
(*                                                                         *)
(* One probe is hit once: a function probe on enter and on leave, an       *)
(* instruction probe on its instruction.  A pointer is named by the moment *)
(* and the source it was taken from; a byte by its pointer and position.   *)
(***************************************************************************)
EXTENDS Integers, SequencesExt, Comprehension

CONSTANTS
  Declarations,  \* the snapshot lists a probe may declare, as sequences
  ArgSources,    \* sources argN and entry_<reg>: their value at the entry counts
  Arguments,     \* integer arguments of a call, [0..LastArg -> Nat]
  LastArg,       \* bound: the last argument a call has a value for
  Word,          \* values of an unsigned word, 2^32
  LinkRegister,  \* the value of lr at the entry
  FlagBits       \* snapshots the flags byte of an event has room for

VARIABLES
  defs,          \* definition.snapshots, in order
  readable,      \* positions in defs whose memory or register can be read
  args,          \* integer arguments of the call
  moment,        \* "before", "entered", "over", or "thrown"
  invocation,    \* pointers captureSnapshots keeps from the entry
  event,         \* phase -> event recorded
  parts          \* phase -> what snapshot_parts returned, or Rejected

vars == <<defs, readable, args, moment, invocation, event, parts>>

RegisterBytes == 8
Zero == [from |-> "zeros", n |-> 0]
Nowhere == <<"nowhere", "undefined">>
Part(valid, bytes) == [valid |-> valid, bytes |-> bytes]
Failed == Part(FALSE, <<>>)                 \* None: a failed optional capture
Returned(list) == [refused |-> FALSE, list |-> list]
Rejected == [refused |-> TRUE, list |-> <<>>]   \* TraceError

Bytes(from, size) == [n \in 1..size |-> [from |-> from, n |-> n]]
Zeros(size) == [n \in 1..size |-> Zero]

(***************************************************************************)
(* probes.py, _validate_snapshot: a register has no size, a length from an *)
(* argument has a maximum and is captured on enter.  Two parts are the     *)
(* model's own: registers have names that are no pointer source, and a     *)
(* multiplier, which nobody validates, is not negative (every capture      *)
(* would throw).                                                           *)
(***************************************************************************)
ValidSnapshot(d) ==
  /\ d.phase \in {"enter", "leave", "instruction"}
  /\ d.shape \in {"register", "memory", "dynamic"}
  /\ d.shape = "register" => d.source \notin ArgSources
  /\ d.shape = "memory" => d.size \in Nat
  /\ d.shape = "dynamic" =>
       /\ d.max \in Nat \ {0} /\ d.multiplier \in Nat /\ d.sizeArg \in Nat
       /\ d.phase = "enter"

ASSUME DeclarationsAssumption ==
  \A ds \in Declarations :
    /\ ds \in Seq(Range(ds))
    /\ \A i \in DOMAIN ds :
         /\ ValidSnapshot(ds[i])
         /\ ds[i].shape = "dynamic" => ds[i].sizeArg <= LastArg
ASSUME ArgumentsAssumption ==
  /\ LastArg \in Nat /\ LastArg >= 4 /\ Arguments \subseteq [0..LastArg -> Nat]
  /\ Word \in Nat \ {0} /\ LinkRegister \in Nat /\ FlagBits \in Nat

With(f, key, value) ==
  [x \in DOMAIN f \cup {key} |-> IF x = key THEN value ELSE f[x]]

Init ==
  /\ defs \in Declarations
  /\ readable \in SUBSET (DOMAIN defs)
  /\ args \in Arguments
  /\ moment = "before"
  /\ invocation = <<>> /\ event = <<>> /\ parts = <<>>

(* Positions of the snapshots of a phase, in the order of the declaration. *)
Selected(phase) ==
  Picked([i \in 1..Len(defs) |-> i], {i \in DOMAIN defs : defs[i].phase = phase})

Smaller(a, b) == IF a < b THEN a ELSE b

(* toUInt32() in the agent, & 0xFFFFFFFF in the reader.                    *)
Length(d, value) == Smaller(d.max, (value % Word) * d.multiplier)

-----------------------------------------------------------------------------
(* The agent.                                                              *)

Keeps(phase) ==
  {defs[i].source : i \in {j \in DOMAIN defs :
     /\ defs[j].shape # "register" /\ defs[j].source \in ArgSources
     /\ phase = "enter" /\ defs[j].phase \in {"enter", "leave"}}}

(* Mutant: pointers are resolved when they are read.                       *)
PointerNow(phase, source) == <<phase, source>>

Pointer(phase, source) ==
  IF source \notin ArgSources \/ phase = "enter" THEN <<phase, source>>
  ELSE IF source \in DOMAIN invocation THEN invocation[source]
  ELSE Nowhere

Reads(phase, i) ==
  /\ i \in readable
  /\ defs[i].shape # "register" => Pointer(phase, defs[i].source) # Nowhere

CapturedSize(i) ==
  CASE defs[i].shape = "register" -> RegisterBytes
    [] defs[i].shape = "dynamic"  -> Length(defs[i], args[defs[i].sizeArg])
    [] OTHER                      -> defs[i].size

(* A failed register snapshot has no size of its own to be filled.         *)
FilledSize(i) == IF defs[i].shape = "register" THEN 0 ELSE CapturedSize(i)

(* Mutant: a failed capture leaves nothing.                                *)
ChunkOrNothing(phase, i) ==
  IF Reads(phase, i) THEN Bytes(Pointer(phase, defs[i].source), CapturedSize(i))
                     ELSE <<>>

Chunk(phase, i) ==
  IF Reads(phase, i) THEN Bytes(Pointer(phase, defs[i].source), CapturedSize(i))
                     ELSE Zeros(FilledSize(i))

Throws(phase) ==
  \E i \in Range(Selected(phase)) : ~Reads(phase, i) /\ ~defs[i].optional

(* payload_size covers the padding of the record to eight bytes.           *)
Padded(raw) == raw \o Zeros((8 - (Len(raw) % 8)) % 8)

(* A record of the agent: the flags byte has a bit per snapshot, and the   *)
(* five registers are arg0 .. arg3 and lr on enter.                        *)
RecordedRegisters == 0..4
Recorded(phase) ==
  LET sel == Selected(phase)
  IN  [flags     |-> {n \in DOMAIN sel : n <= FlagBits /\ Reads(phase, sel[n])},
       registers |-> [r \in RecordedRegisters |-> IF r = 4 THEN LinkRegister ELSE args[r]],
       snapshot  |-> Padded(FlattenSeq([n \in DOMAIN sel |-> Chunk(phase, sel[n])]))]

Capture(phase, from, to) ==
  /\ moment = from
  /\ invocation' = [s \in DOMAIN invocation \cup Keeps(phase) |->
                      IF s \in Keeps(phase) THEN Pointer(phase, s) ELSE invocation[s]]
  /\ IF Throws(phase)
       THEN moment' = "thrown" /\ UNCHANGED event
       ELSE /\ moment' = to
            /\ event' = With(event, phase, Recorded(phase))
  /\ UNCHANGED <<defs, readable, args, parts>>

-----------------------------------------------------------------------------
(* The reader.                                                             *)

(* A length is read back from the registers recorded on enter.             *)
PartSize(i) ==
  IF defs[i].shape = "dynamic"
    THEN Length(defs[i], event["enter"].registers[defs[i].sizeArg])
    ELSE CapturedSize(i)

Cursor(sel, n) ==
  LET cursor[m \in 1..(Len(sel) + 1)] ==
        IF m = 1 THEN 0 ELSE cursor[m - 1] + PartSize(sel[m - 1])
  IN  cursor[n]

(* The size of a part is wanted of a register that is not recorded.        *)
Outside(phase) ==
  \E i \in Range(Selected(phase)) :
    defs[i].shape = "dynamic" /\ defs[i].sizeArg \notin RecordedRegisters

Refused(phase) ==
  LET sel == Selected(phase)
  IN  \/ Len(sel) > FlagBits
      \/ Outside(phase)
      \/ Cursor(sel, Len(sel) + 1) > Len(event[phase].snapshot)
      \/ \E n \in DOMAIN sel : n \notin event[phase].flags /\ ~defs[sel[n]].optional

Parts(phase) ==
  LET sel == Selected(phase)
  IN  [n \in DOMAIN sel |->
         IF n \in event[phase].flags
           THEN Part(TRUE, SubSeq(event[phase].snapshot, Cursor(sel, n) + 1,
                                  Cursor(sel, n) + PartSize(sel[n])))
           ELSE Failed]

Decode(phase) ==
  /\ phase \in DOMAIN event \ DOMAIN parts
  /\ parts' = With(parts, phase,
                   IF Refused(phase) THEN Rejected ELSE Returned(Parts(phase)))
  /\ UNCHANGED <<defs, readable, args, moment, invocation, event>>

Next ==
  \/ Capture("enter", "before", "entered")
  \/ Capture("leave", "entered", "over")
  \/ Capture("instruction", "before", "over")
  \/ \E phase \in {"enter", "leave", "instruction"} : Decode(phase)

Spec == Init /\ [][Next]_vars

-----------------------------------------------------------------------------
(* snapshot_parts gives back what captureSnapshots read, part by part, and *)
(* None for an optional capture that failed (format.py:216-217), although  *)
(* no size of a part is written in the event: it never takes the bytes of  *)
(* one part for another's.  It may refuse an event, but only one with more *)
(* snapshots than flags, with a length outside the recorded registers, or  *)
(* with a register that could not be read.  Left out: a length taken from  *)
(* the fifth argument, which the reader looks up in lr and, when lr says   *)
(* otherwise, misreads.                                                    *)
Captured(phase) ==
  LET sel == Selected(phase)
  IN  [n \in DOMAIN sel |->
         IF Reads(phase, sel[n])
           THEN Part(TRUE, Bytes(Pointer(phase, defs[sel[n]].source),
                                 CapturedSize(sel[n])))
           ELSE Failed]
FailedRegister(phase) ==
  \E i \in Range(Selected(phase)) : defs[i].shape = "register" /\ ~Reads(phase, i)
LinkMistaken(phase) ==
  \E i \in Range(Selected(phase)) :
    /\ defs[i].shape = "dynamic" /\ defs[i].sizeArg = 4
    /\ Length(defs[i], LinkRegister) # Length(defs[i], args[4])
PartsAreCaptured ==
  \A phase \in DOMAIN parts : ~LinkMistaken(phase) =>
    \/ parts[phase] = Returned(Captured(phase))
    \/ /\ parts[phase] = Rejected
       /\ \/ Len(Selected(phase)) > FlagBits
          \/ Outside(phase) \/ FailedRegister(phase)

(* A buffer captured on return is the one the call was given: argument     *)
(* registers are no longer the arguments by then (agent.js:245-246).       *)
LeaveReadsEntryBuffers ==
  "leave" \in DOMAIN event =>
    \A n \in DOMAIN event["leave"].snapshot :
      LET byte == event["leave"].snapshot[n]
      IN  byte # Zero /\ byte.from[2] \in ArgSources => byte.from[1] = "enter"
=============================================================================
