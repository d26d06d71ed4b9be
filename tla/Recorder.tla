------------------------------ MODULE Recorder ------------------------------
(***************************************************************************)
(* rrfrida/record.py, record(): one recording, from the load of the agent  *)
(* to the verdict.  The host's main thread drives the agent over RPC,      *)
(* Frida's thread hands the agent's messages to the TraceWriter in the     *)
(* order they were posted, and RPC replies travel on the same channel.     *)
(***************************************************************************)
EXTENDS Agent, TraceWriter

CONSTANTS
  NoFile,        \* the output path does not exist
  LateMessages   \* Frida may hand over a message after unload() has returned

ASSUME LateMessagesAssumption == LateMessages \in BOOLEAN
ASSUME NoFileAssumption == NoFile \notin Seq(EventSet(Kinds, Threads))

VARIABLES
  host,      \* where record() is
  handled,   \* how many of the posted messages have reached the host
  summary,   \* drop_count of the status finishobservation returned
  file       \* the events in the output file

hostVars == <<host, handled, summary, file>>
vars == <<agentVars, writerVars, hostVars>>

Init ==
  /\ AgentInit /\ WriterInit
  /\ host = "installing" /\ handled = 0 /\ summary = 0 /\ file = NoFile

Over == host \in {"ok", "failed"}

-----------------------------------------------------------------------------
(* record() gives up: the process exits, Frida detaches, the agent is gone. *)
(* Mutant: the agent is left running.                                      *)
FailsAttached == host' = "failed" /\ UNCHANGED loaded

Fail ==
  /\ host' = "failed" /\ loaded' = FALSE

agentButLoaded ==
  <<installed, accepting, fixture, callVars, batchVars, dropCount, posted, holder,
    threadVars, rpcVars, stimuli, faults>>

Fails == Fail /\ UNCHANGED <<agentButLoaded, writerVars, handled, summary, file>>

Goes(from, to) ==
  /\ host = from /\ host' = to
  /\ UNCHANGED <<agentVars, writerVars, handled, summary, file>>

InstallReported ==
  /\ installedStatus \/ installError
  /\ IF installError THEN host = "installing" /\ Fails
                     ELSE Goes("installing", "ready")

InstallTimeout ==
  /\ host = "installing" /\ ~installedStatus /\ ~installError
  /\ Fails

Begin ==
  /\ host = "ready" /\ host' = "beginning"
  /\ BeginObservation
  /\ UNCHANGED <<stimuli, writerVars, handled, summary, file>>

(* time.sleep(duration) is over.                                           *)
Finish ==
  /\ host = "observing" /\ host' = "finishing"
  /\ FinishObservation
  /\ UNCHANGED <<stimuli, writerVars, handled, summary, file>>

(* An RPC, or unload(), on a process that is gone raises.                  *)
TargetGone ==
  /\ ~loaded
  /\ host \in {"ready", "beginning", "observing", "finishing", "unloading"}
  /\ Fails

AgentErrorCheck ==
  IF agentError THEN host = "checking" /\ Fails ELSE Goes("checking", "unloading")

(* Mutant: the script is not unloaded before the file is written.          *)
Lingers ==
  /\ host = "unloading" /\ loaded
  /\ host' = "draining"
  /\ UNCHANGED <<agentVars, writerVars, handled, summary, file>>

Unload ==
  /\ host = "unloading" /\ loaded
  /\ host' = "draining" /\ loaded' = FALSE
  /\ UNCHANGED <<agentButLoaded, writerVars, handled, summary, file>>

(* unload() returns.  Its answer comes after every message of the script   *)
(* if Frida keeps the order of a session; record() itself does not wait.   *)
UnloadReturns ==
  /\ handled = Len(posted) \/ LateMessages
  /\ Goes("draining", "balancing")

(* finish() walks the buffer once per check, and Frida's thread may append *)
(* to it in between.                                                       *)
(* Mutant: the numbers of the events are not checked.                      *)
SkipsSequence == Goes("sequencing", "writing")

BalanceCheck ==
  IF Orphans(events) # {} THEN host = "balancing" /\ Fails
                          ELSE Goes("balancing", "sequencing")

SequenceCheck ==
  IF ~Contiguous(events) THEN host = "sequencing" /\ Fails
                         ELSE Goes("sequencing", "writing")

WriteFile ==
  /\ host = "writing" /\ host' = "counting"
  /\ file' = events
  /\ UNCHANGED <<agentVars, writerVars, handled, summary>>

DropCheck ==
  IF summary > 0 THEN host = "counting" /\ Fails ELSE Goes("counting", "requiring")

RequiredCheck ==
  IF ~RequiredFired(events) THEN host = "requiring" /\ Fails
                            ELSE Goes("requiring", "ok")

-----------------------------------------------------------------------------
(* Frida's thread.                                                         *)

Next1 == posted[handled + 1]

(* The agent declares what a batch carries and never cuts an event.        *)
Wire(m) ==
  IF m.type = "batch"
    THEN [type |-> m.type, data |-> TRUE, number |-> m.number, declared |-> m.declared,
          recs |-> m.recs, sized |-> TRUE, torn |-> FALSE]
    ELSE m

DeliverMessage ==
  /\ ~Over /\ handled < Len(posted) /\ Next1.type # "reply"
  /\ handled' = handled + 1
  /\ OnMessage(Wire(Next1))
  /\ UNCHANGED <<agentVars, host, summary, file>>

(* A reply ends the RPC the main thread waits for; an error reply raises.  *)
DeliverReply ==
  /\ ~Over /\ handled < Len(posted) /\ Next1.type = "reply"
  /\ handled' = handled + 1
  /\ host \in {"beginning", "finishing"}
  /\ IF Next1.ok
       THEN /\ host' = IF host = "beginning" THEN "observing" ELSE "checking"
            /\ summary' = Next1.drops
            /\ UNCHANGED loaded
       ELSE Fail /\ UNCHANGED summary
  /\ UNCHANGED <<agentButLoaded, writerVars, file>>

-----------------------------------------------------------------------------
TargetDies ==
  /\ loaded /\ ~Over
  /\ Fault("death")
  /\ loaded' = FALSE
  /\ UNCHANGED <<installed, accepting, fixture, callVars, batchVars, dropCount,
                 posted, holder, threadVars, rpcVars, stimuli, writerVars, hostVars>>

HostStep ==
  \/ InstallReported \/ InstallTimeout \/ Begin \/ Finish \/ TargetGone
  \/ AgentErrorCheck \/ Unload \/ UnloadReturns
  \/ BalanceCheck \/ SequenceCheck \/ WriteFile \/ DropCheck \/ RequiredCheck

Deliver == DeliverMessage \/ DeliverReply

Target == AgentStep /\ UNCHANGED <<writerVars, hostVars>>

Terminated == Over /\ UNCHANGED vars

Next == HostStep \/ Deliver \/ Target \/ TargetDies \/ Terminated

Fairness ==
  /\ WF_vars(HostStep) /\ WF_vars(Deliver)
  /\ \A t \in Threads : WF_vars(CallbackStep(t) /\ UNCHANGED <<writerVars, hostVars>>)
  /\ WF_vars(RpcStep /\ UNCHANGED <<writerVars, hostVars>>)

Spec == Init /\ [][Next]_vars /\ Fairness

-----------------------------------------------------------------------------
Hosts == {"installing", "ready", "beginning", "observing", "finishing", "checking",
          "unloading", "draining", "balancing", "sequencing", "writing", "counting",
          "requiring", "ok", "failed"}

WriterTypeOK ==
  /\ events \in Seq(AgentEvents)
  /\ nextBatch \in Nat \ {0} /\ records \in Nat /\ raised \in Nat
  /\ installedStatus \in BOOLEAN /\ installError \in BOOLEAN
  /\ agentError \in BOOLEAN

(* Types, and a host that gave up or finished has no agent left running.   *)
TypeOK ==
  /\ AgentTypeOK /\ WriterTypeOK
  /\ host \in Hosts
  /\ handled \in 0..Len(posted)
  /\ summary \in Nat
  /\ file \in Seq(AgentEvents) \cup {NoFile}
  /\ host \in {"draining", "balancing", "sequencing", "writing", "counting",
               "requiring", "ok", "failed"} => ~loaded

(* The events of a thread in a file are exactly the first so many events   *)
(* the thread numbered: event n of the thread in the file is event n of    *)
(* its log.  Yields, flushes that repeat or lose a batch, batches posted   *)
(* out of order and a target that dies never put a hole, a repetition or   *)
(* a foreign event in a file.                                              *)
FileIsPrefix ==
  file # NoFile => GenuineIn(log, file) /\ Contiguous(file)

(* The recorder implements RecordingContract.                              *)
verdict ==
  CASE host = "ok" -> "accepted" [] host = "failed" -> "refused"
    [] OTHER -> "recording"
Contract == INSTANCE RecordingContract
  WITH Threads <- Threads, NoFile <- NoFile,
       log <- log, file <- file, verdict <- verdict
KeepsContract == Contract!Spec

(* What the recorder accepts, every reader can parse.                      *)
AcceptedParses == host = "ok" => Forest(file)

(* An accepted file holds every event the target counted: per kind, as     *)
(* many enters, leaves and hits as the agent's counters say.               *)
Counted(kind, counter, probes) ==
  MapThenSumSet(LAMBDA p : counter[p], {p \in probes : KindOf[p] = kind})
AcceptedComplete ==
  host = "ok" =>
    \A k \in Kinds :
      /\ Count(file, k, "enter") = Counted(k, enters, FnProbes)
      /\ Count(file, k, "leave") = Counted(k, leaves, FnProbes)
      /\ Count(file, k, "instruction") = Counted(k, hits, InsProbes)

(* With the lock given up anywhere and any callback failing: an accepted   *)
(* file parses and is complete unless an event was still in recordEvent or *)
(* in a buffer when the script was unloaded, or one was dropped, or the    *)
(* writer raised.  No other race costs an event: what a flush loses by     *)
(* sending a buffer its thread has already replaced, it repeats, and the   *)
(* repetition is refused (agent.js:150-199, 333-400, record.py:121-152).   *)
LeftNothing ==
  /\ raised = 0 /\ dropCount = 0
  /\ \A t \in Threads : ~Recording(t) /\ threadBatches[t] = <<>>
AcceptedWhole == LeftNothing => AcceptedParses /\ AcceptedComplete

(* No recording is accepted when the writer rejected one of its batches or *)
(* Frida reported an exception of the agent.                               *)
AcceptedUnraised == host = "ok" => raised = 0

(* No batch that reached the host is missing from an accepted file: the    *)
(* check that batches arrive in sequence refuses the recording.            *)
Delivered == {n \in 1..handled : posted[n].type = "batch"}
AcceptedKeepsDelivered ==
  host = "ok" => Len(file) = MapThenSumSet(LAMBDA n : Len(posted[n].recs), Delivered)

(* record() ends, one way or the other: an RPC is answered, an unfinished  *)
(* call runs into the deadline, a dead target is noticed.                  *)
HostTerminates == <>Over
=============================================================================
