----------------------------- MODULE TraceEvents -----------------------------
(***************************************************************************)
(* What a trace is made of, and the judgements the tools pass on a stream  *)
(* of events.  An event keeps the header fields the tools compare (kind,   *)
(* phase, tid, sequence, correlation); registers, snapshot bytes and the   *)
(* timestamp, which nobody compares across events, are left out.           *)
(***************************************************************************)
EXTENDS Naturals, FiniteSets, Sequences

Phases == {"enter", "leave", "instruction"}

Event(kind, phase, tid, seq, id) ==
  [kind |-> kind, phase |-> phase, tid |-> tid, seq |-> seq, id |-> id]

EventSet(kinds, tids) ==
  [kind : kinds, phase : Phases, tid : tids, seq : Nat \ {0}, id : Nat]

At(es, phase) == {i \in DOMAIN es : es[i].phase = phase}

Enters(es) == At(es, "enter")
Leaves(es) == At(es, "leave")

(***************************************************************************)
(* trace_writer.py: the two checks finish() makes before the file exists,  *)
(* and the per-kind counts it returns.                                     *)
(***************************************************************************)
Orphans(es) ==
  {j \in Leaves(es) : \A i \in Enters(es) : i < j => es[i].id # es[j].id}

Contiguous(es) ==
  \A i \in DOMAIN es :
    es[i].seq = Cardinality({j \in 1..i : es[j].tid = es[i].tid})

(* Against the events the threads numbered: logs[t][n] is event n of t.    *)
NumberedIn(logs, e) == e.seq <= Len(logs[e.tid]) /\ logs[e.tid][e.seq] = e
GenuineIn(logs, es) == \A i \in DOMAIN es : NumberedIn(logs, es[i])

Count(es, kind, phase) == Cardinality({i \in At(es, phase) : es[i].kind = kind})

(***************************************************************************)
(* A reference definition of "the events form a call forest", by intervals *)
(* instead of a stack: an enter owns the interval up to its leave, or to   *)
(* the end of the stream while it is open, and the intervals of one thread *)
(* are disjoint or nested.                                                 *)
(***************************************************************************)
LeavesOf(es, i) ==
  {j \in Leaves(es) : i < j /\ es[j].tid = es[i].tid /\ es[j].id = es[i].id}

End(es, i) ==
  IF LeavesOf(es, i) = {} THEN Len(es) + 1
                          ELSE CHOOSE j \in LeavesOf(es, i) : TRUE

Encloses(es, i, k) == es[i].tid = es[k].tid /\ i < k /\ k < End(es, i)

Nests(es) ==
  /\ \A i, k \in Enters(es) : i # k => es[i].id # es[k].id
  /\ \A i \in Enters(es) : Cardinality(LeavesOf(es, i)) <= 1
  /\ \A j \in Leaves(es) : \E i \in Enters(es) : j \in LeavesOf(es, i)
  /\ \A i, k \in Enters(es) :
       Encloses(es, i, k) => LeavesOf(es, i) = {} \/ End(es, k) < End(es, i)

Complete(es) == \A i \in Enters(es) : LeavesOf(es, i) # {}

Forest(es) == Nests(es) /\ Complete(es)
=============================================================================
