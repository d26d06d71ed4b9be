---------------------------- MODULE MCBatchStream ----------------------------
(* Five batches of two threads, a call of t1 spanning batches 1, 3 and 5.  *)
(* Up to two are not well formed: torn after the first event, of another   *)
(* length than declared, without records, miscounted, or without data.     *)
EXTENDS BatchStream
CONSTANTS t1, t2
MCKinds == {"k"}
MCTids == {t1, t2}
E(phase, t, s, id) == Event("k", phase, t, s, id)
Carried ==
  << <<E("enter", t1, 1, 1)>>,
     <<E("enter", t2, 1, 2), E("leave", t2, 2, 2)>>,
     <<E("enter", t1, 2, 3), E("leave", t1, 3, 3)>>,
     <<E("enter", t2, 3, 4), E("leave", t2, 4, 4)>>,
     <<E("leave", t1, 4, 1)>> >>
MCEventBytes == [phase \in Phases |-> IF phase = "enter" THEN 96 ELSE 80]
Shapes == {"whole", "torn", "unsized", "empty", "miscounted", "bare"}
Shaped(n, shape) ==
  [type |-> "batch", data |-> shape # "bare", number |-> n,
   recs |-> IF shape = "torn" THEN SubSeq(Carried[n], 1, 1) ELSE Carried[n],
   declared |-> IF shape = "empty" THEN 0
                ELSE Len(Carried[n]) + (IF shape = "miscounted" THEN 1 ELSE 0),
   sized |-> shape # "unsized", torn |-> shape = "torn"]
MCStreams ==
  {[n \in DOMAIN Carried |-> Shaped(n, shape[n])] :
     shape \in {sh \in [DOMAIN Carried -> Shapes] :
                  Cardinality({n \in DOMAIN Carried : sh[n] # "whole"}) <= 2}}
=============================================================================
