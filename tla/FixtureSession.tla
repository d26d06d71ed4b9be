--------------------------- MODULE FixtureSession ---------------------------
(***************************************************************************)
(* A fixture run with clock capture, from the declarations to the verdict  *)
(* of the adapter: run_fixture() of fixture.py drives the agent, the       *)
(* fixture calls pipeline_predict on its own thread while other threads of *)
(* the target may call it too, and compare_predict.py turns the recorded   *)
(* clock readings into the elapsed times it feeds to a reimplementation.   *)
(*                                                                         *)
(* The recording of one call, its batches and its faults are Agent and     *)
(* Recorder; here a call is recorded when it returns.  The elapsed time    *)
(* stands for the output: both sides narrow and multiply it alike, by the  *)
(* same magnitude, which is not zero.                                      *)
(***************************************************************************)
EXTENDS Install, Integers

CONSTANTS
  Fixture,         \* the thread run() calls the oracle on
  Workers,         \* other threads of the target
  FixtureCalls,    \* how often run() calls pipeline_predict
  MaxWorkerCalls,  \* bound
  MaxClock         \* bound: the last value of CLOCK_MONOTONIC

Callers == {Fixture} \cup Workers

VARIABLES
  alive,           \* the target process
  bound, capturing, accepting,   \* agent.js: fixtureMemory, clockCapture, acceptingEntries
  clock,           \* CLOCK_MONOTONIC, from 1
  previous,        \* pipeline_official.cpp: g_previous_ns
  entry,           \* module.base of the fixture, from setup(), or Absent
  agentError,      \* TraceWriter.error is set
  call,            \* caller -> its call of pipeline_predict
  workerCalls,     \* bound and history
  readings,        \* clockCapture.readings
  calls,           \* the recorded calls, by their order
  claims,          \* what run() returns
  collected        \* clock_readings of the metadata

agentVars == <<bound, capturing, accepting>>
oracleVars == <<clock, previous, call, workerCalls, readings, calls, claims>>
vars == <<installVars, host, alive, agentVars, oracleVars, entry, agentError, collected>>

Idle == [pc |-> "idle", tracked |-> FALSE, at |-> 0, hooked |-> FALSE, first |-> 0, seen |-> 0]

Init ==
  /\ InstallInit /\ host = "declaring" /\ alive = TRUE
  /\ bound = FALSE /\ capturing = FALSE /\ accepting = FALSE
  /\ clock = 1 /\ previous = 0 /\ entry = Absent /\ agentError = FALSE
  /\ call = [u \in Callers |-> Idle] /\ workerCalls = 0
  /\ readings = <<>> /\ calls = <<>> /\ claims = <<>> /\ collected = <<>>

Over == host \in {"PASS", "FAIL", "failed"}

-----------------------------------------------------------------------------
(* pipeline_predict on thread u, with the agent's hooks around it and      *)
(* around the clock_gettime it calls.                                      *)

At(u, pc) == call[u].pc = pc

(* Mutant: a bound fixture does not confine the recording to its thread.   *)
PassesAll(u) == TRUE

PassesFixture(u) == bound => u = Fixture

Called(u) ==
  /\ At(u, "idle")
  /\ IF u = Fixture
       THEN /\ host = "running" /\ Len(claims) < FixtureCalls /\ entry = module.base
            /\ UNCHANGED workerCalls
       ELSE /\ ~Over /\ workerCalls < MaxWorkerCalls
            /\ workerCalls' = workerCalls + 1
  /\ call' = [call EXCEPT ![u] =
       [Idle EXCEPT !.pc = "clock",
                    !.tracked = Hooked /\ accepting /\ PassesFixture(u)]]
  /\ UNCHANGED <<clock, previous, readings, calls, claims, agentError>>

ReadsClock(u) ==
  /\ At(u, "clock")
  /\ call' = [call EXCEPT ![u].pc = "hook", ![u].at = clock, ![u].hooked = capturing]
  /\ UNCHANGED <<clock, previous, workerCalls, readings, calls, claims, agentError>>

(* The clock hook keeps the reading of any thread that came from the       *)
(* module, when clock_gettime returns: not in the order of the readings.   *)
ClockReturns(u) ==
  /\ At(u, "hook")
  /\ readings' = IF call[u].hooked /\ capturing THEN Append(readings, call[u].at)
                                                ELSE readings
  /\ call' = [call EXCEPT ![u].pc = "load"]
  /\ UNCHANGED <<clock, previous, workerCalls, calls, claims, agentError>>

(* The previous time is one word for all threads, read and written without *)
(* a lock: read for the test, and again for the difference unless the      *)
(* compiler keeps the first value.                                         *)
TestsPrevious(u) ==
  /\ At(u, "load")
  /\ call' = [call EXCEPT ![u].pc = IF previous = 0 THEN "store" ELSE "again",
                          ![u].first = previous]
  /\ UNCHANGED <<clock, previous, workerCalls, readings, calls, claims, agentError>>

LoadsPrevious(u) ==
  /\ At(u, "again")
  /\ \E seen \in {previous, call[u].first} :
       call' = [call EXCEPT ![u].pc = "store", ![u].seen = seen]
  /\ UNCHANGED <<clock, previous, workerCalls, readings, calls, claims, agentError>>

StoresPrevious(u) ==
  /\ At(u, "store")
  /\ previous' = call[u].at
  /\ call' = [call EXCEPT ![u].pc = "leave"]
  /\ UNCHANGED <<clock, workerCalls, readings, calls, claims, agentError>>

Elapsed(u) == IF call[u].first = 0 THEN 0 ELSE call[u].at - call[u].seen

(* The agent records the call, or reports an error and drops it; run()     *)
(* reads the output buffer.                                                *)
Returns(u) ==
  /\ At(u, "leave")
  /\ \/ /\ calls' = IF call[u].tracked
                     THEN Append(calls, [at |-> call[u].at, elapsed |-> Elapsed(u)])
                     ELSE calls
        /\ UNCHANGED agentError
     \/ call[u].tracked /\ agentError' = TRUE /\ UNCHANGED calls
  /\ claims' = IF u = Fixture THEN Append(claims, Elapsed(u)) ELSE claims
  /\ call' = [call EXCEPT ![u] = Idle]
  /\ UNCHANGED <<clock, previous, workerCalls, readings>>

Predict(u) ==
  \/ Called(u) \/ ReadsClock(u) \/ ClockReturns(u)
  \/ TestsPrevious(u) \/ LoadsPrevious(u) \/ StoresPrevious(u) \/ Returns(u)

Oracle(u) ==
  /\ alive /\ module # Absent
  /\ Predict(u)
  /\ UNCHANGED <<installVars, host, alive, agentVars, entry, collected>>

Ticks ==
  /\ clock < MaxClock /\ ~Over
  /\ clock' = clock + 1
  /\ UNCHANGED <<installVars, host, alive, agentVars, previous, call, workerCalls,
                 readings, calls, claims, entry, agentError, collected>>

-----------------------------------------------------------------------------
(* The module may come and go at any time.  Its data starts afresh with    *)
(* every load, and nobody runs in a module that is unloaded.               *)
Loader ==
  /\ alive /\ ~Over
  /\ \A u \in Callers : At(u, "idle")
  /\ ModuleUnloads \/ \E m \in Modules : ModuleLoads(m)
  /\ previous' = 0
  /\ UNCHANGED <<host, alive, agentVars, clock, call, workerCalls, readings, calls,
                 claims, entry, agentError, collected>>

(* The script is evaluated by script.load(), and gone with the host.       *)
Script ==
  /\ alive /\ host \notin {"declaring", "failed", "PASS", "FAIL"}
  /\ InstallStep
  /\ UNCHANGED <<host, alive, agentVars, oracleVars, entry, agentError, collected>>

TargetDies ==
  /\ alive /\ ~Over
  /\ alive' = FALSE
  /\ UNCHANGED <<installVars, host, agentVars, oracleVars, entry, agentError, collected>>

-----------------------------------------------------------------------------
(* run_fixture().  A host that fails exits, and the agent goes with it.    *)

Goes(from, to) ==
  host = from /\ host' = to /\ UNCHANGED <<installVars, alive, oracleVars, agentError>>
Keeps(from, to) == Goes(from, to) /\ UNCHANGED <<agentVars, entry, collected>>
Calls(from, to) ==                                  \* an RPC
  alive /\ Goes(from, to)

LoadsDeclarations ==
  Keeps("declaring", IF DeclarationsLoad THEN "loading" ELSE "failed")

(* script.load() returns when the top level has run, and with it the       *)
(* install of a module that is there.                                      *)
LoadReturns ==
  /\ scripted /\ (observing \/ ~Installing)
  /\ alive /\ Keeps("loading", "installing")

InstallReported ==
  reports # <<>> /\ Keeps("installing", IF Ready THEN "ready" ELSE "failed")

(* Mutant: the wait for the agent has no deadline.                         *)
NoDeadline == reports = <<>> /\ host = "installing" /\ UNCHANGED vars

InstallTimeout == reports = <<>> /\ Keeps("installing", "failed")

(* The fixture's setup() looks the module up.                              *)
SetupFails == module = Absent /\ alive /\ Keeps("ready", "failed")

SetsUp ==
  /\ module # Absent
  /\ Calls("ready", "prepared") /\ entry' = module.base
  /\ UNCHANGED <<agentVars, collected>>

Binds ==
  /\ Calls("prepared", "bound") /\ bound' = TRUE
  /\ UNCHANGED <<capturing, accepting, entry, collected>>

EnablesCapture ==
  /\ Calls("bound", "enabled") /\ capturing' = TRUE
  /\ UNCHANGED <<bound, accepting, entry, collected>>

Begins ==
  /\ Calls("enabled", "running") /\ accepting' = TRUE
  /\ UNCHANGED <<bound, capturing, entry, collected>>

RunReturns ==
  /\ Len(claims) = FixtureCalls /\ At(Fixture, "idle")
  /\ alive /\ Keeps("running", "collecting")

(* A call of an address where the module no longer is raises.              *)
RunFails ==
  /\ host = "running" /\ Len(claims) < FixtureCalls /\ At(Fixture, "idle")
  /\ module # Absent => module.base # entry
  /\ alive /\ Keeps("running", "failed")

Collects ==
  /\ Calls("collecting", "finishing") /\ collected' = readings
  /\ UNCHANGED <<agentVars, entry>>

(* finishobservation clears the flag, then waits for the recorded calls in *)
(* flight, for five seconds at most.                                       *)
Stops ==
  /\ Calls("finishing", "waiting") /\ accepting' = FALSE
  /\ UNCHANGED <<bound, capturing, entry, collected>>

InFlight == \E u \in Callers : call[u].tracked
Finishes == alive /\ Keeps("waiting", IF InFlight THEN "failed" ELSE "checking")

AgentErrorCheck == Keeps("checking", IF agentError THEN "failed" ELSE "unloading")

Unloads ==
  /\ Calls("unloading", "writing") /\ capturing' = FALSE
  /\ UNCHANGED <<bound, accepting, entry, collected>>

Writes == Keeps("writing", IF calls = <<>> THEN "failed" ELSE "written")

(* An RPC on a process that is gone raises.                                *)
TargetGone ==
  /\ ~alive
  /\ \E from \in {"loading", "ready", "prepared", "bound", "enabled", "running",
                  "collecting", "finishing", "waiting", "unloading"} : Keeps(from, "failed")

-----------------------------------------------------------------------------
(* compare_predict.py: the elapsed values, one per recorded call, and a    *)
(* replay that returns what it is fed, against the claims of the fixture.  *)

(* Mutant: times since the first reading.                                  *)
SinceFirst(rs) == [n \in DOMAIN rs |-> rs[n] - rs[1]]

ElapsedValues(rs) == [n \in DOMAIN rs |-> IF n = 1 THEN 0 ELSE rs[n] - rs[n - 1]]

(* Mutant: surplus readings are cut off.                                   *)
EnoughReadings(gaps) == Len(gaps) >= Len(calls)

OneReadingPerCall(gaps) == Len(gaps) = Len(calls)

Replayed(gaps) == SubSeq(gaps, 1, Len(calls))
ExpectedBytes == claims

Compares ==
  LET gaps == ElapsedValues(collected)
  IN  Keeps("written",
            IF collected # <<>> /\ OneReadingPerCall(gaps) /\ Replayed(gaps) = ExpectedBytes
              THEN "PASS" ELSE "FAIL")

-----------------------------------------------------------------------------
HostStep ==
  \/ LoadsDeclarations \/ LoadReturns \/ InstallReported \/ InstallTimeout
  \/ SetupFails \/ SetsUp \/ Binds \/ EnablesCapture \/ Begins \/ RunReturns \/ RunFails
  \/ Collects \/ Stops \/ Finishes \/ AgentErrorCheck \/ Unloads
  \/ Writes \/ TargetGone \/ Compares

Terminated == Over /\ UNCHANGED vars

Next ==
  \/ HostStep \/ Script \/ Loader \/ Ticks \/ TargetDies \/ Terminated
  \/ \E u \in Callers : Oracle(u)

Fairness == WF_vars(HostStep) /\ WF_vars(Script) /\ WF_vars(Oracle(Fixture))

Spec == Init /\ [][Next]_vars /\ Fairness

-----------------------------------------------------------------------------
(* In a file that is kept, the recorded calls are the first the fixture    *)
(* claims (fixture.py:26-28), although other threads call the oracle at    *)
(* the same time.  A module that is loaded again has no probes, and the    *)
(* fixture goes on with it: only then are claims without a recorded call,  *)
(* and the comparison does not pass.                                       *)
ClaimsAreRecorded ==
  host \in {"written", "PASS", "FAIL"} =>
    /\ IsPrefix([n \in DOMAIN calls |-> calls[n].elapsed], claims)
    /\ Hooked \/ host = "PASS" => Len(calls) = Len(claims)

(* A fixture alone in a process that has never called the predictor, with  *)
(* the module it was attached to still there, passes with a correct        *)
(* reimplementation, however the time goes by: the readings and the origin *)
(* rule of the adapter give back what the oracle saw                       *)
(* (compare_predict.py:53-68).                                             *)
AlonePasses == workerCalls = 0 /\ Hooked => host # "FAIL"

(* A PASS rests on the readings of the recorded calls, one each and in     *)
(* their order, never on readings of other threads, although the hook      *)
(* keeps those too and the list is fetched after run() (fixture.py:94).    *)
PassUsesOwnReadings ==
  host = "PASS" => collected = [n \in DOMAIN calls |-> calls[n].at]

(* Every session ends, in a verdict or with an error: the module may never *)
(* load, the install may fail and the target may die.                      *)
SessionEnds == <>Over
=============================================================================
