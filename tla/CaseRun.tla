------------------------------- MODULE CaseRun -------------------------------
(***************************************************************************)
(* A case from the command line to the verdict: rrfrida/run.py looks it up *)
(* and starts the adapter, which loads, checks and encodes the recording,  *)
(* runs the replay (NativeReplay) and compares.  Every check that fails    *)
(* raises, and the adapter's exit status is the runner's.                  *)
(***************************************************************************)
EXTENDS NativeReplay

CONSTANTS
  Jobs,      \* what the sessions may be asked to do
  Oracle     \* the program the recordings were made of

Output == [1..3 -> Numbers]

(* What is known of the recordings: the calls in them are the oracle's.  A *)
(* captured output has all its floats, and the first helper process calls  *)
(* works on a buffer of its own, which is not the output.                  *)
SameCall(k, m, at) ==
  \E values, out \in DOMAIN at :
    /\ at[values] = k.x0
    /\ k.kind = "summarize" => at[out] = k.x3
    /\ m = ChildCall(k.kind, values, k.count, out)
OfOracle(c) ==
  IF c.kind = "process"
    THEN /\ c.complete /\ c.config \in Configs /\ c.count <= Len(c.samples)
         /\ \A k \in Range(c.children) : k.kind \in DOMAIN Arity
         => LET made == Oracle["process"][c.config][Samples(c)].children
                at == [work |-> c.children[1].x0, out |-> c.x3]
            IN  /\ made \in [DOMAIN c.children -> Range(made)]
                /\ c.children # <<>> => at.work # at.out
                /\ \A n \in DOMAIN made : SameCall(c.children[n], made[n], at)
    ELSE c.captured => /\ c.arg \in [1..Floats[c.kind] -> Numbers]
                       /\ c.out = Oracle[c.kind][c.arg] /\ c.out \in Output

(* A program answers every call it may be asked about; a usable recording  *)
(* is one the adapter accepts, of calls the replay program has room for.   *)
JobOK(j) ==
  /\ j.case \in DOMAIN ProbeSet /\ j.target \in {"host", "device"}
  /\ j.trace.calls \in Seq(Range(j.trace.calls))
  /\ j.trace.claims \in Seq(Range(j.trace.claims))
  /\ \A c \in Range(j.trace.calls) :
       /\ OfOracle(c)
       /\ c.kind # "process" => j.program[c.kind][c.arg] \in Output
       /\ c.kind = "process" /\ c.config \in Configs /\ c.count <= Len(c.samples) =>
            Made(j.program, [config |-> c.config, samples |-> Samples(c)]).floats
              \in Seq(Numbers) \ {<<>>}
  /\ j.usable => /\ j.registered /\ Encoded(j.case, j.trace) # Refused
                 /\ \A c \in Range(Chosen(j.trace)) : c.count \in 0..MaxSamples
ASSUME JobsAssumption == \A js \in Jobs : \A s \in Sessions : JobOK(js[s])

vars == replayVars

Init == jobs \in Jobs /\ ReplayInit

Input(s) == Encoded(jobs[s].case, jobs[s].trace)

(* run.main and the checks of the adapter.  A device needs a compiler.     *)
Starts(s) ==
  /\ Goes(s, "starting",
          IF /\ jobs[s].registered /\ Input(s) # Refused
             /\ jobs[s].target = "device" => jobs[s].compiler # "none"
            THEN "compiling" ELSE "FAIL")
  /\ input' = [input EXCEPT ![s] = Input(s)]
  /\ UNCHANGED <<jobs, output, failed, device, troubles, troubled, unclean>>

Compares(s) ==
  /\ Goes(s, "comparing",
          IF Passes(jobs[s].case, jobs[s].trace, output[s]) THEN "PASS" ELSE "FAIL")
  /\ UNCHANGED <<output, device>> /\ Quiet

Terminated == (\A s \in Sessions : Over(s)) /\ UNCHANGED vars

Next == Terminated \/ \E s \in Sessions : Starts(s) \/ ReplayStep(s) \/ Compares(s)

Spec == Init /\ [][Next]_vars

-----------------------------------------------------------------------------
Program(s) == jobs[s].program
Case(s) == jobs[s].case
Recorded(s, kind) == OfKind(jobs[s].trace.calls, kind)
Passed(s) == pc[s] = "PASS"

(* A PASS of geom or fixture: the implementation returns what the oracle   *)
(* returned, for every recorded call up to the limit geom puts on a kind.  *)
PassMeansAgreement ==
  \A s \in Sessions : Passed(s) /\ Case(s) # "pipeline" =>
    \A kind \in {"scale", "direction"} : \A n \in DOMAIN Recorded(s, kind) :
      Case(s) = "fixture" \/ n <= CasesPerKind =>
        LET c == Recorded(s, kind)[n] IN Program(s)[kind][c.arg] = c.out

(* A PASS of pipeline: for the first calls of every config, and there is   *)
(* one, the implementation makes the oracle's child calls on the recorded  *)
(* samples, in its order, on buffers of the same roles, although addresses *)
(* cannot be compared.                                                     *)
First(calls, n) ==
  Cardinality({m \in 1..(n - 1) : calls[m].config = calls[n].config}) < CasesPerConfig
PassMeansSameCalls ==
  \A s \in Sessions : Passed(s) /\ Case(s) = "pipeline" =>
    LET calls == Recorded(s, "process")
        Same(c) == LET case == [config |-> c.config, samples |-> Samples(c)]
                   IN  Made(Program(s), case).children = Made(Oracle, case).children
    IN  /\ \A config \in Configs : \E c \in Range(calls) : c.config = config
        /\ \A n \in DOMAIN calls :
             calls[n].config \in Configs /\ First(calls, n) => Same(calls[n])

(* A fixture is taken at its word only where it is right: a claim that     *)
(* names the function called in its place (directions first, as in         *)
(* fixture_geom.js) is what that call wrote, and what the implementation   *)
(* writes, which answers in another order.  A claim that names another     *)
(* function is compared in part, one that names none not at all            *)
(* (compare_fixture.py:138-146).                                           *)
ClaimsHold ==
  \A s \in Sessions : Passed(s) /\ Case(s) = "fixture" =>
    LET made == BySequence(Recorded(s, "direction")) \o BySequence(Recorded(s, "scale"))
    IN  \A n \in DOMAIN made :
          LET c == made[n]
              claim == jobs[s].trace.claims[n]
          IN  claim.kind = c.kind =>
                /\ claim.output = Buffer(c.kind, c.out)
                /\ claim.output = Buffer(c.kind, Program(s)[c.kind][c.arg])

(* A usable recording and a correct implementation, built for where it     *)
(* runs, pass unless a tool fails: no adapter confuses its own order of    *)
(* cases, and a caller that passes one buffer as input and output is no    *)
(* mismatch.                                                               *)
CorrectPasses ==
  \A s \in Sessions :
    /\ jobs[s].usable /\ Program(s) = Oracle
    /\ jobs[s].target = "device" <=> ForDevice(s)
    /\ s \notin troubled
    => pc[s] # "FAIL"
=============================================================================
