------------------------------- MODULE MCAgent -------------------------------
(* Instances of the agent: one or two threads that call "outer", which two *)
(* probes hook, and "inner", nested or recursively; one instruction probe. *)
EXTENDS Agent
CONSTANTS t1, t2
OneThread == {t1}
TwoThreads == {t1, t2}
OuterInner == {"outer", "inner"}
OuterInnerProbes ==
  [a \in OuterInner |-> IF a = "outer" THEN <<"process", "audit">> ELSE <<"helper">>]
Outer == {"outer"}
OuterProbes == [a \in Outer |-> <<"process", "audit">>]
Single == {"outer"}
SingleProbes == [a \in Single |-> <<"process">>]
MCKindOf == [p \in {"process", "audit", "helper", "point"} |-> p]
Symmetry == Permutations(TwoThreads)
=============================================================================
