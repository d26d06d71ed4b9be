----------------------------- MODULE MCRecorder -----------------------------
EXTENDS Recorder
CONSTANTS t1, t2
OneThread == {t1}
TwoThreads == {t1, t2}
Outer == {"outer"}
OuterProbes == [a \in Outer |-> <<"process", "audit">>]
OneProbe == [a \in Outer |-> <<"process">>]
MCKindOf == [p \in {"process", "audit", "point"} |-> p]
Symmetry == Permutations(TwoThreads)
=============================================================================
