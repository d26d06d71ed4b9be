--------------------------- MODULE RecorderProofs ---------------------------
(***************************************************************************)
(* Proofs about record(), for any threads, probes, capacity and required   *)
(* kinds, and whatever yields or fails.                                    *)
(*                                                                         *)
(* When Frida hands over no message after unload() has returned, a file    *)
(* holds a prefix of what each thread has numbered and the recorder        *)
(* implements RecordingContract: RecorderInv is inductive; it rests on     *)
(* AgentInv, which says that what arrives is genuine.  Types hold with     *)
(* late messages too.                                                      *)
(*                                                                         *)
(* A recording that left nothing behind is whole: WholeInv says where      *)
(* every numbered event is on its way to the file (CoverInv), that every   *)
(* count of the agent stands for one event (MadeInv), and what the writer  *)
(* has taken (TakenInv).                                                   *)
(***************************************************************************)
EXTENDS Recorder, AgentProofs, SequenceLemmas, FiniteSetTheorems

Unloaded == {"draining", "balancing", "sequencing", "writing", "counting",
             "requiring", "ok", "failed"}
Checking == {"balancing", "sequencing", "writing"}
Written == {"counting", "requiring", "ok"}

(* What is in the writer's buffer and in the file.                         *)
BufferInv == events \in Seq(AgentEvents) /\ GenuineIn(log, events)
FileInv ==
  file # NoFile =>
    file \in Seq(AgentEvents) /\ GenuineIn(log, file) /\ Contiguous(file)

(* Where record() is decides what may still change: the agent is gone from *)
(* unload() on, no message is on its way once unload() has returned, so    *)
(* the buffer that is written is the one that was checked.                 *)
HostInv ==
  /\ handled \in Nat
  /\ host \in Unloaded => ~loaded
  /\ host \in Checking => handled = Len(posted)
  /\ host = "writing" => Contiguous(events)
  /\ host \in Written => file # NoFile
  /\ host \notin Written \cup {"failed"} => file = NoFile

RecorderInv == AgentInv /\ BufferInv /\ FileInv /\ HostInv

-----------------------------------------------------------------------------
(* A step of the agent numbers one event at most, and needs the script.    *)

NumbersOne(t) ==
  /\ Numbered(t) \in AgentEvents
  /\ Numbered(t).tid = t /\ Numbered(t).seq = Len(log[t]) + 1
  /\ log' = [log EXCEPT ![t] = Append(@, Numbered(t))]

LEMMA NumbersOneEvent ==
  ASSUME AgentInv, NEW t \in Threads, stage[t] = "clock", Number(t)
  PROVE  NumbersOne(t) /\ log \in Logs /\ log' \in Logs /\ Grows(log, log')
<1>1. /\ log \in Logs /\ log' \in Logs /\ Grows(log, log')
      /\ Numbered(t) \in AgentEvents
  BY NumberGrows DEF Recording
<1>2. threadSequences[t] = Len(log[t])
  BY DEF AgentInv, BufferOK
<1> QED BY <1>1, <1>2 DEF NumbersOne, Number, Numbered, Event

LEMMA CallbackLog ==
  ASSUME AgentInv, NEW t \in Threads, CallbackStep(t)
  PROVE  loaded /\ (UNCHANGED log \/ (stage[t] = "clock" /\ Number(t)))
<1>1. CASE EnterSkipped(t) \/ EnterRecorded(t) \/ EnterThrows(t)
  BY <1>1 DEF EnterSkipped, EnterRecorded, EnterThrows, batchVars
<1>2. CASE LeaveUnmatched(t) \/ LeaveSkipped(t) \/ LeaveRecorded(t) \/ LeaveThrows(t)
  BY <1>2 DEF LeaveUnmatched, LeaveSkipped, LeaveRecorded, LeaveThrows, batchVars
<1>3. CASE EventDropped(t) \/ EventBuffered(t) \/ BatchFull(t)
  BY <1>3 DEF EventDropped, EventBuffered, BatchFull, batchVars
<1>4. CASE BatchPosted(t) \/ SendReturns(t) \/ SendThrows(t)
  BY <1>4 DEF BatchPosted, SendReturns, SendThrows, batchVars
<1> QED BY <1>1, <1>2, <1>3, <1>4 DEF CallbackStep

LEMMA NativeLog ==
  ASSUME NEW t \in Threads, NativeStep(t)
  PROVE  loaded /\ UNCHANGED log
BY DEF NativeStep, Call, Return, Hit, HitThrows, HitCounted, batchVars

LEMMA RpcLog ==
  ASSUME RpcStep
  PROVE  loaded /\ UNCHANGED log
BY DEF RpcStep, PollFinished, DeadlinePassed, FlushNothing, FlushThread,
       RpcBatchPosted, RpcSendReturns, RpcSendThrows, FlushDone, batchVars

LEMMA AgentLog ==
  ASSUME AgentInv, AgentStep
  PROVE  /\ loaded
         /\ \/ UNCHANGED log
            \/ /\ log \in Logs /\ log' \in Logs /\ Grows(log, log')
               /\ \E t \in Threads : NumbersOne(t)
<1>1. CASE \E t \in Threads : CallbackStep(t) \/ NativeStep(t)
  BY <1>1, CallbackLog, NativeLog, NumbersOneEvent
<1>2. CASE RpcStep
  BY <1>2, RpcLog
<1>3. CASE Install \/ InstallFails
  BY <1>3 DEF Install, InstallFails, batchVars
<1> QED BY <1>1, <1>2, <1>3 DEF AgentStep

(* The death of the script changes nothing else of the agent.              *)
LEMMA UnloadedInv ==
  ASSUME AgentInv, loaded' = FALSE, UNCHANGED agentButLoaded
  PROVE  AgentInv' /\ UNCHANGED <<log, posted>>
<1>1. UNCHANGED <<installed, accepting, fixture, callVars, batchVars, dropCount, posted,
                  holder, threadVars, rpcVars>>
  BY DEF agentButLoaded
<1>2. ModeTypeOK' /\ RpcTypeOK' /\ holder' \in Threads \cup {JS, Nobody}
  BY <1>1, RpcFrame DEF AgentInv, AgentTypeOK, ModeTypeOK, ThreadTypeOK
<1>3. AgentInv'
  BY <1>1, <1>2, AnswerInv DEF rpcVars
<1> QED BY <1>1, <1>3 DEF batchVars

-----------------------------------------------------------------------------
LEMMA InitRecorder == Init => RecorderInv
<1> SUFFICES ASSUME Init PROVE RecorderInv
  OBVIOUS
<1>1. AgentInv
  BY InitInv DEF Init
<1>2. BufferInv /\ FileInv /\ HostInv
  BY DEF Init, WriterInit, BufferInv, FileInv, HostInv, GenuineIn, Unloaded, Checking,
         Written
<1> QED BY <1>1, <1>2 DEF RecorderInv

LEMMA TargetKeeps ==
  ASSUME RecorderInv, Target
  PROVE  RecorderInv'
<1>1. AgentInv /\ AgentStep /\ UNCHANGED <<writerVars, hostVars>>
  BY DEF RecorderInv, Target
<1>2. AgentInv' /\ loaded
  BY <1>1, AgentStepInv, AgentLog
<1>3. host \notin Unloaded /\ file = NoFile
  BY <1>2 DEF RecorderInv, HostInv, Unloaded, Written
<1>4. HostInv' /\ FileInv'
  BY <1>1, <1>3 DEF RecorderInv, HostInv, FileInv, hostVars, Unloaded, Checking, Written
<1>5. BufferInv'
  BY <1>1, AgentLog, GenuineGrows DEF RecorderInv, BufferInv, writerVars
<1> QED BY <1>2, <1>4, <1>5 DEF RecorderInv

(* A step of the host alone that moves record() on, or ends it.            *)
LEMMA BufferStays ==
  ASSUME BufferInv, FileInv, UNCHANGED <<events, file, log>>
  PROVE  BufferInv' /\ FileInv'
BY DEF BufferInv, FileInv

LEMMA FailsKeeps ==
  ASSUME RecorderInv, Fails
  PROVE  RecorderInv'
<1>1. /\ loaded' = FALSE /\ UNCHANGED agentButLoaded /\ host' = "failed"
      /\ UNCHANGED <<events, handled, file>>
  BY DEF Fails, Fail, writerVars
<1>2. AgentInv' /\ UNCHANGED <<log, posted>>
  BY <1>1, UnloadedInv DEF RecorderInv
<1>3. HostInv'
  BY <1>1 DEF RecorderInv, HostInv, Unloaded, Checking, Written
<1> QED BY <1>1, <1>2, <1>3, BufferStays DEF RecorderInv

LEMMA GoesKeeps ==
  ASSUME RecorderInv, NEW from, NEW to, Goes(from, to),
         to \in Unloaded => from \in Unloaded,
         to \in Checking => from \in Checking \/ handled = Len(posted),
         to = "writing" => Contiguous(events),
         to \in Written => from \in Written,
         from \in Written \cup {"failed"} => to \in Written \cup {"failed"}
  PROVE  RecorderInv'
<1>1. /\ host = from /\ host' = to
      /\ UNCHANGED <<agentVars, events, handled, file>>
  BY DEF Goes, writerVars
<1>2. UNCHANGED <<log, posted, loaded>>
  BY <1>1 DEF agentVars, batchVars, modeVars
<1>3. AgentInv'
  BY <1>1, AgentStutterInv DEF RecorderInv
<1>4. HostInv'
  BY <1>1, <1>2 DEF RecorderInv, HostInv
<1> QED BY <1>1, <1>2, <1>3, <1>4, BufferStays DEF RecorderInv

(* Begin and Finish call an RPC; the answer comes as a message.            *)
LEMMA RequestKeeps ==
  ASSUME RecorderInv, Begin \/ Finish
  PROVE  RecorderInv'
<1>1. /\ AgentInv' /\ UNCHANGED <<events, handled, file, log>>
      /\ host \in {"ready", "observing"} /\ host' \in {"beginning", "finishing"}
  BY BeginInv, FinishInv
     DEF RecorderInv, Begin, Finish, BeginObservation, FinishObservation, batchVars,
         writerVars
<1>2. HostInv'
  BY <1>1 DEF RecorderInv, HostInv, Unloaded, Checking, Written
<1> QED BY <1>1, <1>2, BufferStays DEF RecorderInv

LEMMA UnloadKeeps ==
  ASSUME RecorderInv, Unload
  PROVE  RecorderInv'
<1>1. /\ loaded' = FALSE /\ UNCHANGED agentButLoaded
      /\ host = "unloading" /\ host' = "draining"
      /\ UNCHANGED <<events, handled, file>>
  BY DEF Unload, writerVars
<1>2. AgentInv' /\ UNCHANGED <<log, posted>>
  BY <1>1, UnloadedInv DEF RecorderInv
<1>3. HostInv'
  BY <1>1 DEF RecorderInv, HostInv, Unloaded, Checking, Written
<1> QED BY <1>1, <1>2, <1>3, BufferStays DEF RecorderInv

(* What is written is what was checked.                                    *)
LEMMA WriteKeeps ==
  ASSUME RecorderInv, WriteFile
  PROVE  RecorderInv'
<1>1. /\ host = "writing" /\ host' = "counting" /\ file' = events
      /\ UNCHANGED <<agentVars, events, handled>>
  BY DEF WriteFile, writerVars
<1>2. UNCHANGED <<log, posted, loaded>>
  BY <1>1 DEF agentVars, batchVars, modeVars
<1>3. AgentInv'
  BY <1>1, AgentStutterInv DEF RecorderInv
<1>4. BufferInv' /\ FileInv'
  BY <1>1, <1>2 DEF RecorderInv, HostInv, BufferInv, FileInv
<1>5. file' # NoFile
  BY <1>1, NoFileAssumption DEF RecorderInv, BufferInv, AgentEvents
<1>6. HostInv'
  BY <1>1, <1>2, <1>5 DEF RecorderInv, HostInv, Unloaded, Checking, Written
<1> QED BY <1>3, <1>4, <1>6 DEF RecorderInv

LEMMA HostStepKeeps ==
  ASSUME ~LateMessages, RecorderInv, HostStep
  PROVE  RecorderInv'
<1> USE DEF Unloaded, Checking, Written
<1>1. CASE InstallReported
  BY <1>1, FailsKeeps, GoesKeeps DEF InstallReported
<1>2. CASE InstallTimeout \/ TargetGone
  BY <1>2, FailsKeeps DEF InstallTimeout, TargetGone
<1>3. CASE AgentErrorCheck
  BY <1>3, FailsKeeps, GoesKeeps DEF AgentErrorCheck
<1>4. CASE UnloadReturns
  BY <1>4, GoesKeeps DEF UnloadReturns
<1>5. CASE BalanceCheck
  BY <1>5, FailsKeeps, GoesKeeps DEF BalanceCheck
<1>6. CASE SequenceCheck
  BY <1>6, FailsKeeps, GoesKeeps DEF SequenceCheck
<1>7. CASE DropCheck
  BY <1>7, FailsKeeps, GoesKeeps DEF DropCheck
<1>8. CASE RequiredCheck
  BY <1>8, FailsKeeps, GoesKeeps DEF RequiredCheck
<1> QED BY <1>1, <1>2, <1>3, <1>4, <1>5, <1>6, <1>7, <1>8, RequestKeeps, UnloadKeeps,
           WriteKeeps DEF HostStep

-----------------------------------------------------------------------------
(* Frida's thread.                                                         *)

(* Whatever it makes of a message, on_message appends its events or none.  *)
LEMMA OnMessageEvents ==
  ASSUME NEW m, OnMessage(m)
  PROVE  events' = events \/ (m.type = "batch" /\ events' = events \o m.recs)
BY DEF OnMessage, AppendBatch, WithoutData, OutOfOrder, Misshapen, Torn, Appended,
   Consumed, writerVars

LEMMA GenuineConcat ==
  ASSUME NEW L, NEW es \in Seq(AgentEvents), NEW fs \in Seq(AgentEvents),
         GenuineIn(L, es), GenuineIn(L, fs)
  PROVE  GenuineIn(L, es \o fs) /\ es \o fs \in Seq(AgentEvents)
<1>1. /\ es \o fs \in Seq(AgentEvents)
      /\ \A i \in DOMAIN (es \o fs) :
            \/ i \in DOMAIN es /\ (es \o fs)[i] = es[i]
            \/ i - Len(es) \in DOMAIN fs /\ (es \o fs)[i] = fs[i - Len(es)]
  OBVIOUS
<1> QED BY <1>1 DEF GenuineIn

LEMMA MessageKeeps ==
  ASSUME RecorderInv, DeliverMessage
  PROVE  RecorderInv'
<1>1. /\ handled < Len(posted) /\ handled' = handled + 1
      /\ OnMessage(Wire(Next1)) /\ UNCHANGED <<agentVars, host, file>>
  BY DEF DeliverMessage
<1>2. UNCHANGED <<log, posted, loaded>>
  BY <1>1 DEF agentVars, batchVars, modeVars
<1>3. AgentInv'
  BY <1>1, AgentStutterInv DEF RecorderInv
<1>4. handled + 1 \in DOMAIN posted /\ posted \in Seq(MessageSet) /\ PostedAuthentic
  BY <1>1 DEF RecorderInv, HostInv, AgentInv, AgentTypeOK, BatchTypeOK, Authentic
<1>5. ASSUME Wire(Next1).type = "batch"
      PROVE  /\ Wire(Next1).recs \in Seq(AgentEvents)
             /\ GenuineIn(log, Wire(Next1).recs)
  <2>1. Next1.type = "batch" /\ Wire(Next1).recs = Next1.recs
    BY <1>5 DEF Wire
  <2>2. Next1 \in MessageSet /\ GenuineIn(log, Next1.recs)
    BY <1>4, <2>1 DEF Next1, PostedAuthentic
  <2> QED BY <2>1, <2>2 DEF MessageSet
<1>6. BufferInv'
  <2> DEFINE m == Wire(Next1)
  <2>1. OnMessage(m) /\ (m.type = "batch" =>
                            m.recs \in Seq(AgentEvents) /\ GenuineIn(log, m.recs))
    BY <1>1, <1>5
  <2> HIDE DEF m
  <2>2. CASE events' = events
    BY <2>2, <1>2 DEF RecorderInv, BufferInv
  <2>3. CASE m.type = "batch" /\ events' = events \o m.recs
    BY <2>1, <2>3, <1>2, GenuineConcat DEF RecorderInv, BufferInv
  <2> QED BY <2>1, <2>2, <2>3, OnMessageEvents
<1>7. FileInv'
  BY <1>1, <1>2 DEF RecorderInv, FileInv
<1>8. HostInv'
  BY <1>1, <1>2 DEF RecorderInv, HostInv, Checking
<1> QED BY <1>3, <1>6, <1>7, <1>8 DEF RecorderInv

LEMMA ReplyKeeps ==
  ASSUME RecorderInv, DeliverReply
  PROVE  RecorderInv'
<1>1. /\ handled' = handled + 1 /\ host \in {"beginning", "finishing"}
      /\ UNCHANGED <<agentButLoaded, events, file>>
      /\ \/ host' \in {"observing", "checking"} /\ UNCHANGED loaded
         \/ host' = "failed" /\ loaded' = FALSE
  BY DEF DeliverReply, Fail, writerVars
<1>2. AgentInv' /\ UNCHANGED <<log, posted>>
  <2>1. CASE UNCHANGED loaded
    BY <2>1, <1>1, AgentStutterInv
       DEF RecorderInv, agentButLoaded, agentVars, modeVars, batchVars
  <2>2. CASE loaded' = FALSE
    BY <2>2, <1>1, UnloadedInv DEF RecorderInv
  <2> QED BY <1>1, <2>1, <2>2
<1>3. HostInv'
  BY <1>1 DEF RecorderInv, HostInv, Unloaded, Checking, Written
<1> QED BY <1>1, <1>2, <1>3, BufferStays DEF RecorderInv

LEMMA DeathKeeps ==
  ASSUME RecorderInv, TargetDies
  PROVE  RecorderInv'
<1>1. /\ loaded' = FALSE
      /\ UNCHANGED <<installed, accepting, fixture, callVars, batchVars, dropCount, posted,
                     holder, threadVars, rpcVars>>
      /\ UNCHANGED <<host, handled, file, events>>
  BY DEF TargetDies, hostVars, writerVars
<1>2. ModeTypeOK' /\ RpcTypeOK' /\ holder' \in Threads \cup {JS, Nobody}
  BY <1>1, RpcFrame DEF RecorderInv, AgentInv, AgentTypeOK, ModeTypeOK, ThreadTypeOK
<1>3. AgentInv' /\ UNCHANGED <<log, posted>>
  BY <1>1, <1>2, AnswerInv DEF RecorderInv, rpcVars, batchVars
<1>4. HostInv'
  BY <1>1 DEF RecorderInv, HostInv
<1> QED BY <1>1, <1>3, <1>4, BufferStays DEF RecorderInv

LEMMA RecorderNext ==
  ASSUME ~LateMessages, RecorderInv, [Next]_vars
  PROVE  RecorderInv'
<1>1. CASE UNCHANGED vars
  <2>1. UNCHANGED <<agentVars, events, host, handled, file>>
    BY <1>1 DEF vars, writerVars, hostVars
  <2>2. AgentInv' /\ UNCHANGED <<log, posted, loaded>>
    BY <2>1, AgentStutterInv DEF RecorderInv, agentVars, batchVars, modeVars
  <2> QED BY <2>1, <2>2, BufferStays DEF RecorderInv, HostInv
<1> QED BY <1>1, HostStepKeeps, MessageKeeps, ReplyKeeps, TargetKeeps, DeathKeeps
        DEF Next, Deliver, Terminated

-----------------------------------------------------------------------------
(* A file is a prefix of every thread's log, whatever batches were lost,   *)
(* repeated or posted out of order (record.py:149, trace_writer.py).       *)
THEOREM FilesArePrefixes ==
  ASSUME ~LateMessages
  PROVE  Spec => []FileIsPrefix
<1>1. RecorderInv => FileIsPrefix
  BY DEF RecorderInv, FileInv, FileIsPrefix
<1>2. RecorderInv /\ [Next]_vars => RecorderInv'
  BY RecorderNext
<1> QED BY InitRecorder, <1>1, <1>2, PTL DEF Spec

-----------------------------------------------------------------------------
(* The types of the recorder, whether or not Frida hands over messages     *)
(* after unload(): the invariant is AgentInv with the types themselves.    *)

HostTypeOK ==
  /\ host \in Hosts
  /\ handled \in Nat /\ handled <= Len(posted)
  /\ summary \in Nat
  /\ file \in Seq(AgentEvents) \cup {NoFile}
  /\ host \in Unloaded => ~loaded

RecorderTypes == AgentInv /\ WriterTypeOK /\ HostTypeOK

(* What the steps have in common: the writer's and the host's variables    *)
(* keep their types when they change.                                      *)
LEMMA TypesKept ==
  ASSUME RecorderTypes, AgentInv', WriterTypeOK', Posts, host' \in Hosts,
         handled' \in {handled, handled + 1}, handled' <= Len(posted'),
         summary' \in Nat, file' \in {file, events},
         host' \in Unloaded => ~loaded'
  PROVE  RecorderTypes'
BY DEF RecorderTypes, HostTypeOK, WriterTypeOK

LEMMA ChannelGrows ==
  ASSUME RecorderTypes, Posts
  PROVE  handled <= Len(posted')
<1>1. posted \in Seq(MessageSet) /\ handled \in Nat /\ handled <= Len(posted)
  BY DEF RecorderTypes, HostTypeOK, AgentInv, AgentTypeOK, BatchTypeOK
<1> QED BY <1>1 DEF Posts, Post

LEMMA WriterTypeFrame ==
  ASSUME WriterTypeOK, UNCHANGED writerVars
  PROVE  WriterTypeOK'
BY DEF WriterTypeOK, writerVars

LEMMA FailsTypes ==
  ASSUME RecorderTypes, Fails
  PROVE  RecorderTypes'
<1>1. /\ loaded' = FALSE /\ UNCHANGED agentButLoaded /\ host' = "failed"
      /\ UNCHANGED <<writerVars, handled, summary, file>>
  BY DEF Fails, Fail
<1>2. AgentInv' /\ UNCHANGED posted
  BY <1>1, UnloadedInv DEF RecorderTypes
<1> QED BY <1>1, <1>2, TypesKept, ChannelGrows, WriterTypeFrame
        DEF RecorderTypes, HostTypeOK, Posts, Hosts

LEMMA GoesTypes ==
  ASSUME RecorderTypes, NEW from, NEW to \in Hosts, Goes(from, to),
         to \in Unloaded => from \in Unloaded
  PROVE  RecorderTypes'
<1>1. /\ host = from /\ host' = to
      /\ UNCHANGED <<agentVars, writerVars, handled, summary, file>>
  BY DEF Goes
<1>2. UNCHANGED <<posted, loaded>>
  BY <1>1 DEF agentVars, modeVars
<1>3. AgentInv'
  BY <1>1, AgentStutterInv DEF RecorderTypes
<1> QED BY <1>1, <1>2, <1>3, TypesKept, ChannelGrows, WriterTypeFrame
        DEF RecorderTypes, HostTypeOK, Posts

LEMMA HostStepTypes ==
  ASSUME RecorderTypes, HostStep
  PROVE  RecorderTypes'
<1> USE DEF Unloaded, Hosts
<1>1. CASE InstallReported \/ InstallTimeout \/ TargetGone
  BY <1>1, FailsTypes, GoesTypes DEF InstallReported, InstallTimeout, TargetGone
<1>2. CASE Begin \/ Finish
  <2>1. /\ AgentInv' /\ UNCHANGED <<writerVars, handled, summary, file>>
        /\ host' \in {"beginning", "finishing"}
    BY <1>2, BeginInv, FinishInv DEF RecorderTypes, Begin, Finish
  <2>2. Posts
    BY <1>2 DEF Posts, Begin, Finish, BeginObservation, FinishObservation
  <2> QED BY <2>1, <2>2, TypesKept, ChannelGrows, WriterTypeFrame
          DEF RecorderTypes, HostTypeOK
<1>3. CASE AgentErrorCheck \/ BalanceCheck \/ SequenceCheck
  BY <1>3, FailsTypes, GoesTypes DEF AgentErrorCheck, BalanceCheck, SequenceCheck
<1>4. CASE DropCheck \/ RequiredCheck \/ UnloadReturns
  BY <1>4, FailsTypes, GoesTypes DEF DropCheck, RequiredCheck, UnloadReturns
<1>5. CASE Unload
  <2>1. /\ loaded' = FALSE /\ UNCHANGED agentButLoaded /\ host' = "draining"
        /\ UNCHANGED <<writerVars, handled, summary, file>>
    BY <1>5 DEF Unload
  <2>2. AgentInv' /\ UNCHANGED posted
    BY <2>1, UnloadedInv DEF RecorderTypes
  <2> QED BY <2>1, <2>2, TypesKept, ChannelGrows, WriterTypeFrame
          DEF RecorderTypes, HostTypeOK, Posts
<1>6. CASE WriteFile
  <2>1. /\ host = "writing" /\ host' = "counting" /\ file' = events
        /\ UNCHANGED <<agentVars, writerVars, handled, summary>>
    BY <1>6 DEF WriteFile
  <2>2. AgentInv' /\ UNCHANGED <<posted, loaded>>
    BY <2>1, AgentStutterInv DEF RecorderTypes, agentVars, modeVars
  <2> QED BY <2>1, <2>2, TypesKept, ChannelGrows, WriterTypeFrame
          DEF RecorderTypes, HostTypeOK, Posts
<1> QED BY <1>1, <1>2, <1>3, <1>4, <1>5, <1>6 DEF HostStep

(* on_message keeps the types of the writer, whatever it makes of a batch. *)
LEMMA OnMessageTypes ==
  ASSUME WriterTypeOK, NEW m, OnMessage(m),
         m.type = "batch" => m.recs \in Seq(AgentEvents)
  PROVE  WriterTypeOK'
<1> USE DEF WriterTypeOK
<1>1. CASE m.type # "batch"
  <2>1. /\ UNCHANGED <<events, nextBatch, records>>
        /\ raised' \in {raised, raised + 1}
    BY <1>1 DEF OnMessage, Raise, writerVars
  <2>2. /\ installedStatus' \in {installedStatus, TRUE}
        /\ installError' \in {installError, TRUE}
        /\ agentError' \in {agentError, TRUE}
    <3>1. \/ UNCHANGED <<installedStatus, installError, agentError>>
          \/ /\ installedStatus' = TRUE /\ UNCHANGED <<installError, agentError>>
          \/ /\ installError' = TRUE /\ UNCHANGED <<installedStatus, agentError>>
          \/ /\ agentError' = TRUE /\ UNCHANGED <<installedStatus, installError>>
      BY <1>1, Zenon DEF OnMessage, Raise, writerVars
    <3> QED BY <3>1, Zenon
  <2>3. installedStatus' \in BOOLEAN /\ installError' \in BOOLEAN /\ agentError' \in BOOLEAN
    BY <2>2, Zenon
  <2> QED BY <2>1, <2>3
<1>2. CASE m.type = "batch"
  <2>1. AppendBatch(m) /\ m.recs \in Seq(AgentEvents)
    BY <1>2 DEF OnMessage, PayloadTypes
  <2>2. CASE WithoutData(m) \/ OutOfOrder(m) \/ Misshapen(m)
    BY <2>2 DEF WithoutData, OutOfOrder, Misshapen, Raise
  <2>3. CASE Torn(m) \/ Appended(m)
    <3>0. Consumed(m) /\ (records' = records \/ records' = records + Len(m.recs))
      BY <2>3, Zenon DEF Torn, Appended
    <3>1. events' \in Seq(AgentEvents) /\ nextBatch' = nextBatch + 1
      <4>1. events' = events \o m.recs /\ nextBatch' = nextBatch + 1
        BY <3>0, Zenon DEF Consumed
      <4> QED BY <2>1, <4>1
    <3>2. raised' \in {raised, raised + 1}
      BY <2>3 DEF Torn, Appended, Raise
    <3>3. UNCHANGED <<installedStatus, installError, agentError>>
      BY <2>3 DEF Torn, Appended, Raise
    <3>4. Len(m.recs) \in Nat
      BY <2>1
    <3> QED BY <3>0, <3>1, <3>2, <3>3, <3>4
  <2> QED BY <2>1, <2>2, <2>3 DEF AppendBatch
<1> QED BY <1>1, <1>2

LEMMA DeliverTypes ==
  ASSUME RecorderTypes, Deliver
  PROVE  RecorderTypes'
<1>1. /\ handled \in Nat /\ handled < Len(posted) /\ handled' = handled + 1
      /\ posted \in Seq(MessageSet) /\ Next1 \in MessageSet
  BY DEF Deliver, DeliverMessage, DeliverReply, RecorderTypes, HostTypeOK, AgentInv,
         AgentTypeOK, BatchTypeOK, Next1
<1>2. CASE DeliverMessage
  <2>1. OnMessage(Wire(Next1)) /\ UNCHANGED <<agentVars, host, summary, file>>
    BY <1>2 DEF DeliverMessage
  <2>2. AgentInv' /\ UNCHANGED <<posted, loaded>>
    BY <2>1, AgentStutterInv DEF RecorderTypes, agentVars, modeVars
  <2>3. Wire(Next1).type = "batch" => Wire(Next1).recs \in Seq(AgentEvents)
    BY <1>1 DEF Wire, MessageSet
  <2>4. WriterTypeOK'
    <3> DEFINE m == Wire(Next1)
    <3>1. OnMessage(m) /\ (m.type = "batch" => m.recs \in Seq(AgentEvents))
      BY <2>1, <2>3
    <3> HIDE DEF m
    <3> QED BY <3>1, OnMessageTypes DEF RecorderTypes
  <2> QED BY <1>1, <2>1, <2>2, <2>4, TypesKept DEF RecorderTypes, HostTypeOK, Posts
<1>3. CASE DeliverReply
  <2>1. /\ UNCHANGED <<agentButLoaded, writerVars, file>> /\ host \notin Unloaded
        /\ \/ /\ host' \in {"observing", "checking"} /\ UNCHANGED loaded
              /\ summary' = Next1.drops
           \/ host' = "failed" /\ loaded' = FALSE /\ UNCHANGED summary
    BY <1>3 DEF DeliverReply, Fail, Unloaded
  <2>2. AgentInv' /\ UNCHANGED posted
    <3>1. CASE UNCHANGED loaded
      BY <3>1, <2>1, AgentStutterInv
         DEF RecorderTypes, agentButLoaded, agentVars, modeVars, batchVars
    <3>2. CASE loaded' = FALSE
      BY <3>2, <2>1, UnloadedInv DEF RecorderTypes
    <3> QED BY <2>1, <3>1, <3>2
  <2>3. Next1.type = "reply" => Next1.drops \in Nat
    BY <1>1 DEF MessageSet
  <2>4. summary' \in Nat
    BY <1>3, <2>1, <2>3 DEF DeliverReply, RecorderTypes, HostTypeOK
  <2> QED BY <1>1, <2>1, <2>2, <2>4, TypesKept, WriterTypeFrame
          DEF RecorderTypes, HostTypeOK, Posts, Hosts, Unloaded
<1> QED BY <1>2, <1>3 DEF Deliver

LEMMA TargetTypes ==
  ASSUME RecorderTypes, Target \/ TargetDies
  PROVE  RecorderTypes'
<1>1. UNCHANGED <<writerVars, host, handled, summary, file>>
  BY DEF Target, TargetDies, hostVars
<1>2. CASE Target
  <2>1. AgentStep /\ AgentInv /\ AgentMove
    BY <1>2 DEF Target, RecorderTypes, AgentStep, AgentMove, Service
  <2>2. AgentInv' /\ loaded /\ Posts
    BY <2>1, AgentStepInv, AgentLog, MovePosts
  <2> QED BY <1>1, <2>2, TypesKept, ChannelGrows, WriterTypeFrame
          DEF RecorderTypes, HostTypeOK
<1>3. CASE TargetDies
  <2>1. loaded' = FALSE
        /\ UNCHANGED <<installed, accepting, fixture, callVars, batchVars, dropCount,
                       posted, holder, threadVars, rpcVars>>
    BY <1>3 DEF TargetDies
  <2>2. ModeTypeOK' /\ RpcTypeOK' /\ holder' \in Threads \cup {JS, Nobody}
    BY <2>1, RpcFrame DEF RecorderTypes, AgentInv, AgentTypeOK, ModeTypeOK, ThreadTypeOK
  <2>3. AgentInv'
    BY <2>1, <2>2, AnswerInv DEF RecorderTypes, rpcVars
  <2> QED BY <1>1, <2>1, <2>3, TypesKept, ChannelGrows, WriterTypeFrame
          DEF RecorderTypes, HostTypeOK, Posts
<1> QED BY <1>2, <1>3

LEMMA InitTypes == Init => RecorderTypes
<1> SUFFICES ASSUME Init PROVE RecorderTypes
  OBVIOUS
<1>1. AgentInv
  BY InitInv DEF Init
<1>2. WriterTypeOK
  <2>1. events = <<>> /\ nextBatch = 1 /\ records = 0 /\ raised = 0
    BY DEF Init, WriterInit
  <2>2. events \in Seq(AgentEvents) /\ nextBatch \in Nat \ {0} /\ records \in Nat
        /\ raised \in Nat
    BY <2>1
  <2>3. installedStatus \in BOOLEAN /\ installError \in BOOLEAN /\ agentError \in BOOLEAN
    BY Zenon DEF Init, WriterInit
  <2> QED BY <2>2, <2>3 DEF WriterTypeOK
<1>3. host = "installing" /\ handled = 0 /\ posted = <<>> /\ summary = 0 /\ file = NoFile
  BY DEF Init, AgentInit
<1>4. HostTypeOK
  BY <1>3, NoFileAssumption DEF HostTypeOK, Hosts, Unloaded
<1> QED BY <1>1, <1>2, <1>4 DEF RecorderTypes

LEMMA TypesNext ==
  ASSUME RecorderTypes, [Next]_vars
  PROVE  RecorderTypes'
<1>1. CASE UNCHANGED vars
  <2>1. UNCHANGED <<agentVars, writerVars, host, handled, summary, file>>
    BY <1>1 DEF vars, hostVars
  <2>2. AgentInv' /\ UNCHANGED <<posted, loaded>>
    BY <2>1, AgentStutterInv DEF RecorderTypes, agentVars, modeVars
  <2> QED BY <2>1, <2>2, WriterTypeFrame DEF RecorderTypes, HostTypeOK
<1> QED BY <1>1, HostStepTypes, DeliverTypes, TargetTypes DEF Next, Terminated

(* Every state is typed, with the agent's invariant, and no agent is left  *)
(* running: the invariant the other proofs about record() start from.      *)
THEOREM RecorderInvariant == Spec => []RecorderTypes
BY InitTypes, TypesNext, PTL DEF Spec

(* The types, and no agent is left running by a record() that gave up or   *)
(* finished, even if Frida hands over messages after unload()              *)
(* (record.py:139-147, trace_writer.py:52-69).                             *)
THEOREM RecorderTypesHold == Spec => []TypeOK
<1>1. RecorderTypes => TypeOK
  BY DEF RecorderTypes, HostTypeOK, Unloaded, AgentInv, TypeOK
<1> QED BY <1>1, RecorderInvariant, PTL

-----------------------------------------------------------------------------
(* The refinement: initial states map to initial states, and a step to a   *)
(* step of the contract or to a stutter.                                   *)

LEMMA ContractInit == Init => Contract!Init
BY DEF Init, AgentInit, WriterInit, Contract!Init, verdict

(* While the script is loaded the recording is not over.                   *)
LEMMA LoadedRecords ==
  ASSUME RecorderInv, loaded
  PROVE  verdict = "recording" /\ file = NoFile
BY DEF RecorderInv, HostInv, Unloaded, Written, verdict

LEMMA TargetImplements ==
  ASSUME RecorderInv, Target
  PROVE  [Contract!Next]_<<log, file, verdict>>
<1>1. AgentInv /\ AgentStep /\ UNCHANGED <<host, file>>
  BY DEF RecorderInv, Target, hostVars
<1>2. UNCHANGED verdict
  BY <1>1 DEF verdict
<1>3. verdict = "recording" /\ file = NoFile
  BY <1>1, AgentLog, LoadedRecords
<1>4. ASSUME NEW t \in Threads, log \in Logs, NumbersOne(t) PROVE Contract!Record(t)
  <2> DEFINE e == Numbered(t)
  <2>1. /\ e \in AgentEvents /\ e.tid = t /\ e.seq = Len(log[t]) + 1
        /\ log' = [log EXCEPT ![t] = Append(@, e)]
    BY <1>4 DEF NumbersOne
  <2> HIDE DEF e
  <2>2. log'[t] = Append(log[t], e) /\ log[t] \in Seq(AgentEvents)
    BY <1>4, <2>1 DEF Logs
  <2>3. Len(log'[t]) = Len(log[t]) + 1 /\ log'[t][Len(log'[t])] = e
    BY <2>1, <2>2
  <2> QED BY <1>1, <1>2, <1>3, <2>1, <2>3 DEF Contract!Record
<1> QED BY <1>1, <1>2, <1>4, AgentLog DEF Contract!Next

(* A step of record() that gives up, accepts, or goes on.                  *)
LEMMA HostImplements ==
  ASSUME RecorderInv, UNCHANGED <<log, file>>,
         verdict' # verdict => verdict = "recording",
         host' = "ok" => host \in {"requiring", "ok"}
  PROVE  [Contract!Next]_<<log, file, verdict>>
<1>1. CASE UNCHANGED verdict
  BY <1>1
<1>2. CASE verdict = "recording" /\ verdict' = "refused"
  BY <1>2 DEF Contract!Next, Contract!Refuse
<1>3. CASE verdict = "recording" /\ verdict' = "accepted"
  <2>1. host' = "ok" /\ host # "ok"
    BY <1>3 DEF verdict
  <2>2. file # NoFile
    BY <2>1 DEF RecorderInv, HostInv, Written
  <2> QED BY <1>3, <2>2 DEF Contract!Next, Contract!Accept
<1>4. verdict' \in {"recording", "accepted", "refused"}
  BY DEF verdict
<1> QED BY <1>1, <1>2, <1>3, <1>4

LEMMA WriteImplements ==
  ASSUME RecorderInv, WriteFile, RecorderInv'
  PROVE  Contract!Next
<1>1. host = "writing" /\ host' = "counting" /\ UNCHANGED log
  BY DEF WriteFile, agentVars, batchVars
<1>2. verdict = "recording" /\ UNCHANGED verdict /\ file = NoFile /\ file' # NoFile
  BY <1>1 DEF verdict, RecorderInv, HostInv, Written
<1>3. GenuineIn(log, file') /\ Contiguous(file')
  BY <1>1, <1>2 DEF RecorderInv, FileInv
<1>4. Contract!PrefixOfLogs(file')
  <2>1. Contract!Contiguous(file')
    BY <1>3 DEF Contract!Contiguous, Contiguous, Contract!Cardinality, Cardinality
  <2>2. Contract!GenuineIn(log, file')
    BY <1>3 DEF Contract!GenuineIn, Contract!NumberedIn, GenuineIn, NumberedIn
  <2> QED BY <2>1, <2>2 DEF Contract!PrefixOfLogs
<1> QED BY <1>1, <1>2, <1>4 DEF Contract!Next, Contract!Write

(* What the steps of the host that write no file do to the verdict.        *)
LEMMA HostVerdicts ==
  ASSUME RecorderInv, HostStep, ~WriteFile
  PROVE  /\ UNCHANGED <<log, file>> /\ host \notin {"ok", "failed"}
         /\ host' = "ok" => host = "requiring"
<1> USE DEF agentVars, batchVars, agentButLoaded, Fails, Fail, Goes
<1>1. CASE InstallReported \/ InstallTimeout \/ TargetGone
  BY <1>1 DEF InstallReported, InstallTimeout, TargetGone
<1>2. CASE Begin \/ Finish
  BY <1>2 DEF Begin, Finish, BeginObservation, FinishObservation
<1>3. CASE AgentErrorCheck \/ Unload \/ UnloadReturns
  BY <1>3 DEF AgentErrorCheck, Unload, UnloadReturns
<1>4. CASE BalanceCheck \/ SequenceCheck \/ DropCheck \/ RequiredCheck
  BY <1>4 DEF BalanceCheck, SequenceCheck, DropCheck, RequiredCheck
<1> QED BY <1>1, <1>2, <1>3, <1>4 DEF HostStep

LEMMA NextImplements ==
  ASSUME RecorderInv, [Next]_vars, RecorderInv'
  PROVE  [Contract!Next]_<<log, file, verdict>>
<1>1. CASE UNCHANGED vars
  BY <1>1 DEF vars, agentVars, batchVars, hostVars, verdict
<1>2. CASE Target
  BY <1>2, TargetImplements
<1>3. CASE WriteFile
  BY <1>3, WriteImplements
<1>4. CASE HostStep /\ ~WriteFile
  BY <1>4, HostVerdicts, HostImplements DEF verdict
<1>5. CASE DeliverMessage
  BY <1>5 DEF DeliverMessage, agentVars, batchVars, verdict
<1>6. CASE DeliverReply
  <2>1. /\ UNCHANGED <<log, file>> /\ host \in {"beginning", "finishing"}
        /\ host' \in {"observing", "checking", "failed"}
    BY <1>6 DEF DeliverReply, Fail, agentButLoaded, batchVars
  <2> QED BY <2>1, HostImplements DEF verdict
<1>7. CASE TargetDies
  BY <1>7 DEF TargetDies, hostVars, batchVars, verdict
<1> QED BY <1>1, <1>2, <1>3, <1>4, <1>5, <1>6, <1>7 DEF Next, Deliver, Terminated

(* The recorder implements RecordingContract: events are numbered only     *)
(* while it records, one file is written at most, it holds a prefix of     *)
(* every thread's events, and only a recording with a file is accepted     *)
(* (record.py:84-155).                                                     *)
THEOREM ContractIsKept ==
  ASSUME ~LateMessages
  PROVE  Spec => KeepsContract
<1>1. RecorderInv /\ [Next]_vars => RecorderInv'
  BY RecorderNext
<1>2. RecorderInv /\ [Next]_vars /\ RecorderInv' => [Contract!Next]_<<log, file, verdict>>
  BY NextImplements
<1>3. [Contract!Next]_<<log, file, verdict>> => [Contract!Next]_(Contract!contractVars)
  BY DEF Contract!contractVars
<1> QED BY InitRecorder, ContractInit, <1>1, <1>2, <1>3, PTL
        DEF Spec, KeepsContract, Contract!Spec

-----------------------------------------------------------------------------
(* Whatever the host does, the agent makes a move of its own or none.      *)
LEMMA NextIsMove == [Next]_vars => AgentMove
<1> SUFFICES ASSUME [Next]_vars PROVE AgentMove
  OBVIOUS
<1>1. CASE Target
  BY <1>1 DEF Target, AgentStep, AgentMove, Service
<1>2. CASE Begin \/ Finish
  BY <1>2 DEF Begin, Finish, AgentMove, Service
<1>3. CASE HostStep /\ ~Begin /\ ~Finish
  <2>1. Still
    BY <1>3 DEF HostStep, InstallReported, InstallTimeout, TargetGone, AgentErrorCheck,
       Unload, UnloadReturns, BalanceCheck, SequenceCheck, WriteFile, DropCheck,
       RequiredCheck, Fails, Fail, Goes, agentButLoaded, agentVars, modeVars, Still
  <2> QED BY <2>1 DEF AgentMove
<1>4. CASE Deliver \/ TargetDies \/ Terminated \/ UNCHANGED vars
  <2>1. Still
    BY <1>4 DEF Deliver, DeliverMessage, DeliverReply, Fail, TargetDies, Terminated,
       agentButLoaded, agentVars, modeVars, Still, vars
  <2> QED BY <2>1 DEF AgentMove
<1> QED BY <1>1, <1>2, <1>3, <1>4 DEF Next

-----------------------------------------------------------------------------
(* Once the counters agree and the agent does not accept, no call is       *)
(* counted any more: a leave is counted only for a call on a stack.        *)
LEMMA NothingOpen ==
  ASSUME AgentInv, CountInv, ~Unfinished, NEW p \in FnProbes, NEW t \in Threads,
         NEW i \in DOMAIN invocations[p][t]
  PROVE  invocations[p][t][i] = Skipped
<1>1. /\ IsFiniteSet(OpenCalls(p)) /\ enters[p] = leaves[p] + Cardinality(OpenCalls(p))
      /\ enters[p] = leaves[p] /\ leaves[p] \in Nat
  BY DEF CountInv, CountedOK, Unfinished, AgentInv, AgentTypeOK, CallTypeOK
<1>2. Cardinality(OpenCalls(p)) \in Nat
  BY <1>1, FS_CardinalityType
<1>3. Cardinality(OpenCalls(p)) = 0
  BY <1>1, <1>2
<1>4. OpenCalls(p) = {}
  BY <1>1, <1>3, FS_EmptySet
<1>5. ~CallOpen(p, <<t, i>>)
  BY <1>4, OpenCallsMembers
<1> QED BY <1>5 DEF CallOpen

LEMMA NoLeaveCounted ==
  ASSUME AgentInv, CountInv, ~Unfinished, NEW t \in Threads, stage[t] = "leave"
  PROVE  ~LeaveCounted(t)
<1>1. Head(todo[t]) \in FnProbes
  BY ListenerTodo DEF AgentInv, AgentTypeOK
<1>2. PICK p \in FnProbes : p = Head(todo[t])
  BY <1>1
<1>3. invocations[p][t] \in Seq(Nat) /\ Invocations(t) = invocations[p][t]
  BY <1>2 DEF AgentInv, AgentTypeOK, CallTypeOK, Invocations
<1>4. \A i \in DOMAIN invocations[p][t] : invocations[p][t][i] = Skipped
  BY NothingOpen
<1>5. invocations[p][t] # <<>> => Last(invocations[p][t]) = Skipped
  <2> SUFFICES ASSUME invocations[p][t] # <<>> PROVE Last(invocations[p][t]) = Skipped
    OBVIOUS
  <2>1. /\ Last(invocations[p][t]) = invocations[p][t][Len(invocations[p][t])]
        /\ Len(invocations[p][t]) \in Nat /\ Len(invocations[p][t]) > 0
    BY <1>3, FrontFacts
  <2>2. Len(invocations[p][t]) \in DOMAIN invocations[p][t]
    BY <1>3, <2>1
  <2> QED BY <1>4, <2>1, <2>2
<1> QED BY <1>3, <1>5 DEF LeaveCounted

(* Then the only steps that remain for a callback touch no counter and     *)
(* start no event.                                                         *)
LEMMA SettledCallback ==
  ASSUME AgentInv, CountInv, ~accepting, ~Unfinished, NEW t \in Threads,
         CallbackStep(t) \/ NativeStep(t)
  PROVE  /\ ~EnterRecorded(t) /\ ~EnterThrows(t) /\ ~LeaveRecorded(t) /\ ~LeaveThrows(t)
         /\ \A p \in InsProbes : ~Hit(t, p) /\ ~HitThrows(t, p)
BY NoLeaveCounted DEF EnterRecorded, EnterThrows, EnterCounted, LeaveRecorded, LeaveThrows,
   Hit, HitThrows, HitCounted

LEMMA CallsSettled ==
  ASSUME AgentInv, CountInv, AgentMove, ~accepting, ~Unfinished
  PROVE  ~Unfinished'
<1>1. ASSUME NEW t \in Threads, CallbackStep(t) PROVE UNCHANGED <<enters, leaves>>
  <2>1. CASE EnterSkipped(t) \/ LeaveUnmatched(t) \/ LeaveSkipped(t) \/ EventDropped(t)
             \/ EventBuffered(t) \/ BatchFull(t)
    BY <2>1 DEF EnterSkipped, LeaveUnmatched, LeaveSkipped, EventDropped, EventBuffered,
       BatchFull, callVars
  <2>2. CASE BatchPosted(t) \/ SendReturns(t) \/ SendThrows(t)
    BY <2>2 DEF BatchPosted, SendReturns, SendThrows, callVars
  <2> QED BY <1>1, <2>1, <2>2, SettledCallback DEF CallbackStep
<1>2. ASSUME NEW t \in Threads, NativeStep(t) PROVE UNCHANGED <<enters, leaves>>
  <2>1. (\E a \in Addresses : Call(t, a)) \/ Return(t)
    BY <1>2, SettledCallback DEF NativeStep
  <2> QED BY <2>1 DEF Call, Return, callVars
<1>3. ASSUME RpcStep \/ Service \/ Still PROVE UNCHANGED <<enters, leaves>>
  BY <1>3 DEF RpcStep, PollFinished, DeadlinePassed, FlushNothing, FlushThread,
     RpcBatchPosted, RpcSendReturns, RpcSendThrows, FlushDone, Service, Still, Install,
     InstallFails, BeginObservation, FinishObservation, Flush, BindFixtureMemory, callVars
<1>4. UNCHANGED <<enters, leaves>>
  BY <1>1, <1>2, <1>3 DEF AgentMove
<1> QED BY <1>4 DEF Unfinished

-----------------------------------------------------------------------------
(* Where record() is and what the RPCs have answered.  A reply that is on  *)
(* its way is the one record() waits for, and from the reply to            *)
(* finishobservation on no call is unfinished, none is accepted and no RPC *)
(* is served.                                                              *)
Awaited(n) == handled < n /\ posted[n].type = "reply"
Answered == \A n \in DOMAIN posted : ~Awaited(n)
AfterFinish == {"checking", "unloading", "draining", "balancing", "sequencing",
                "writing", "counting", "requiring", "ok"}
FinishPhase ==
  /\ ~accepting
  /\ rpc # "idle" => Answered
  /\ rpc \in {"flushing", "sending"} => ~Unfinished
  /\ \A n \in DOMAIN posted : Awaited(n) /\ posted[n].ok => ~Unfinished
CallPhase ==
  /\ host \in {"installing", "ready", "beginning", "observing"} => rpc = "idle"
  /\ host \in {"installing", "ready", "observing"} => Answered
  /\ host \in {"beginning", "finishing"} =>
       \A m, n \in DOMAIN posted : Awaited(m) /\ Awaited(n) => m = n
  /\ host = "finishing" => FinishPhase
  /\ host \in AfterFinish => rpc = "idle" /\ ~accepting /\ ~Unfinished

(* No reply is posted, and none that is awaited changes.                   *)
NoReply == \A n \in DOMAIN posted' : Awaited(n)' =>
             n \in DOMAIN posted /\ Awaited(n) /\ posted'[n] = posted[n]
RpcGoesOn ==
  \/ UNCHANGED rpc
  \/ /\ rpc # "idle" /\ rpc' # "idle"
     /\ rpc' \in {"flushing", "sending"} => ~Unfinished'

LEMMA PhaseKept ==
  ASSUME CallPhase, UNCHANGED <<host, accepting>>, NoReply, RpcGoesOn,
         ~accepting /\ ~Unfinished => ~Unfinished'
  PROVE  CallPhase'
<1>1. Answered => Answered'
  BY DEF Answered, NoReply
<1>2. host = "finishing" => FinishPhase'
  BY <1>1 DEF CallPhase, FinishPhase, NoReply, RpcGoesOn
<1>3. host \in {"beginning", "finishing"} =>
        \A m, n \in DOMAIN posted' : Awaited(m)' /\ Awaited(n)' => m = n
  BY DEF CallPhase, NoReply
<1> QED BY <1>1, <1>2, <1>3 DEF CallPhase, RpcGoesOn

LEMMA PlainNoReply ==
  ASSUME RecorderTypes, UNCHANGED handled,
         \/ UNCHANGED posted
         \/ \E m : m.type # "reply" /\ Post(m)
  PROVE  NoReply
<1>1. posted \in Seq(MessageSet) /\ handled \in Nat
  BY DEF RecorderTypes, HostTypeOK, AgentInv, AgentTypeOK, BatchTypeOK
<1>2. CASE UNCHANGED posted
  BY <1>2 DEF NoReply, Awaited
<1>3. CASE \E m : m.type # "reply" /\ Post(m)
  <2>1. PICK m : m.type # "reply" /\ posted' = Append(posted, m)
    BY <1>3 DEF Post
  <2>2. \A n \in DOMAIN posted' : \/ n \in DOMAIN posted /\ posted'[n] = posted[n]
                                  \/ posted'[n] = m
    BY <1>1, <2>1
  <2> QED BY <2>1, <2>2 DEF NoReply, Awaited
<1> QED BY <1>2, <1>3

(* The only reply that is awaited is the one just posted.                  *)
LEMMA OneReply ==
  ASSUME RecorderTypes, UNCHANGED handled, Answered, NEW m, Post(m)
  PROVE  \A n \in DOMAIN posted' : Awaited(n)' => n = Len(posted) + 1 /\ posted'[n] = m
<1>1. posted \in Seq(MessageSet) /\ handled \in Nat
  BY DEF RecorderTypes, HostTypeOK, AgentInv, AgentTypeOK, BatchTypeOK
<1>2. \A n \in DOMAIN posted' : \/ n \in DOMAIN posted /\ posted'[n] = posted[n]
                                \/ n = Len(posted) + 1 /\ posted'[n] = m
  BY <1>1 DEF Post
<1> QED BY <1>2 DEF Answered, Awaited

LEMMA CallbackNoReply ==
  ASSUME NEW t \in Threads, CallbackStep(t) \/ NativeStep(t)
  PROVE  /\ UNCHANGED <<accepting, rpc>>
         /\ UNCHANGED posted \/ \E m : m.type # "reply" /\ Post(m)
<1>1. CASE CallbackStep(t)
  <2>1. CASE EnterSkipped(t) \/ EnterRecorded(t) \/ EnterThrows(t) \/ LeaveUnmatched(t)
             \/ LeaveSkipped(t) \/ LeaveRecorded(t) \/ LeaveThrows(t)
    BY <2>1 DEF EnterSkipped, EnterRecorded, EnterThrows, LeaveUnmatched, LeaveSkipped,
       LeaveRecorded, LeaveThrows, Throw, Message, modeVars, rpcVars
  <2>2. CASE EventDropped(t) \/ EventBuffered(t) \/ BatchFull(t)
    BY <2>2 DEF EventDropped, EventBuffered, BatchFull, Message, modeVars, rpcVars
  <2>3. CASE BatchPosted(t) \/ SendReturns(t) \/ SendThrows(t)
    BY <2>3 DEF BatchPosted, SendReturns, SendThrows, Message, BatchMessage, modeVars,
       rpcVars
  <2> QED BY <1>1, <2>1, <2>2, <2>3 DEF CallbackStep
<1>2. CASE NativeStep(t)
  BY <1>2 DEF NativeStep, Call, Return, Hit, HitThrows, HitCounted, Message, modeVars,
     rpcVars
<1> QED BY <1>1, <1>2

LEMMA RpcPhase ==
  ASSUME RecorderTypes, CountInv, CallPhase, RpcStep, UNCHANGED <<host, handled>>
  PROVE  CallPhase'
<1>0. AgentInv /\ UNCHANGED accepting /\ rpc # "idle"
  BY DEF RecorderTypes, RpcStep, PollFinished, DeadlinePassed, FlushNothing, FlushThread,
     RpcBatchPosted, RpcSendReturns, RpcSendThrows, FlushDone, modeVars
<1>1. ~accepting /\ ~Unfinished => ~Unfinished'
  BY <1>0, CallsSettled DEF AgentMove
<1>2. host = "finishing" => FinishPhase
  BY DEF CallPhase
<1>3. Unfinished' <=> Unfinished
  BY DEF RpcStep, PollFinished, DeadlinePassed, FlushNothing, FlushThread,
     RpcBatchPosted, RpcSendReturns, RpcSendThrows, FlushDone, callVars, Unfinished
<1>4. host \notin {"installing", "ready", "beginning", "observing"} \cup AfterFinish
  BY <1>0 DEF CallPhase
<1>5. CASE host # "finishing"
  BY <1>0, <1>1, <1>4, <1>5 DEF CallPhase
<1>6. CASE host = "finishing" /\ (DeadlinePassed \/ FlushDone)
  <2>1. /\ Answered /\ ~accepting /\ rpc' = "idle"
        /\ Post(Reply(FALSE)) \/ (Post(Reply(TRUE)) /\ ~Unfinished)
    BY <1>0, <1>2, <1>6 DEF FinishPhase, DeadlinePassed, FlushDone
  <2>2. PICK m : /\ Post(m) /\ (m.ok => ~Unfinished)
    BY <2>1 DEF Reply
  <2>3. \A n \in DOMAIN posted' : Awaited(n)' => n = Len(posted) + 1 /\ posted'[n] = m
    BY <2>1, <2>2, OneReply
  <2>4. FinishPhase'
    BY <1>0, <1>3, <2>1, <2>2, <2>3 DEF FinishPhase
  <2> QED BY <1>6, <2>3, <2>4 DEF CallPhase, AfterFinish
<1>7. CASE host = "finishing" /\ ~DeadlinePassed /\ ~FlushDone
  <2>1. UNCHANGED posted \/ \E m : m.type # "reply" /\ Post(m)
    BY <1>7 DEF RpcStep, PollFinished, FlushNothing, FlushThread,
       RpcBatchPosted, RpcSendReturns, RpcSendThrows, Message, BatchMessage
  <2>2. /\ rpc' # "idle"
        /\ rpc' \in {"flushing", "sending"} => rpc \in {"flushing", "sending"} \/ ~Unfinished
    BY <1>0, <1>7 DEF RpcStep, PollFinished, StartFlush, FlushNothing, FlushThread,
       RpcBatchPosted, RpcSendReturns, RpcSendThrows
  <2>3. RpcGoesOn
    BY <1>0, <1>2, <1>3, <1>7, <2>2 DEF RpcGoesOn, FinishPhase
  <2> QED BY <1>0, <1>1, <2>1, <2>3, PlainNoReply, PhaseKept
<1> QED BY <1>5, <1>6, <1>7

LEMMA TargetPhase ==
  ASSUME RecorderTypes, CountInv, CallPhase, Target
  PROVE  CallPhase'
<1>1. AgentInv /\ AgentStep /\ UNCHANGED <<host, handled>>
  BY DEF RecorderTypes, Target, hostVars
<1>2. CASE RpcStep
  BY <1>1, <1>2, RpcPhase
<1>3. CASE ~RpcStep
  <2>1. /\ UNCHANGED <<accepting, rpc>>
        /\ UNCHANGED posted \/ \E m : m.type # "reply" /\ Post(m)
    BY <1>1, <1>3, CallbackNoReply
       DEF AgentStep, Install, InstallFails, Message, modeVars, rpcVars
  <2>2. ~accepting /\ ~Unfinished => ~Unfinished'
    BY <1>1, CallsSettled DEF AgentStep, AgentMove, Service
  <2> QED BY <1>1, <2>1, <2>2, PlainNoReply, PhaseKept DEF RpcGoesOn
<1> QED BY <1>2, <1>3

LEMMA BeginPhase ==
  ASSUME RecorderTypes, CallPhase, Begin
  PROVE  CallPhase'
<1>1. /\ host' = "beginning" /\ rpc' = "idle" /\ Answered /\ Post(Reply(TRUE))
      /\ UNCHANGED handled
  BY DEF CallPhase, Begin, BeginObservation, Serves, rpcVars
<1>2. \A n \in DOMAIN posted' : Awaited(n)' => n = Len(posted) + 1
  BY <1>1, OneReply
<1> QED BY <1>1, <1>2 DEF CallPhase, AfterFinish

LEMMA FinishPhaseStarts ==
  ASSUME RecorderTypes, CallPhase, Finish
  PROVE  CallPhase'
<1>1. /\ host' = "finishing" /\ ~accepting' /\ Answered
      /\ UNCHANGED <<handled, posted, enters, leaves>>
      /\ rpc' \in {"flushing", "sending"} => ~Unfinished
  BY DEF CallPhase, Finish, FinishObservation, Polls, StartFlush, callVars
<1>2. Answered' /\ (Unfinished' <=> Unfinished)
  BY <1>1 DEF Answered, Awaited, Unfinished
<1>3. FinishPhase'
  BY <1>1, <1>2 DEF FinishPhase, Answered
<1> QED BY <1>1, <1>2, <1>3 DEF CallPhase, AfterFinish, Answered

LEMMA HostPhase ==
  ASSUME RecorderTypes, CallPhase, HostStep, ~Begin, ~Finish
  PROVE  CallPhase'
<1>1. /\ UNCHANGED <<posted, handled, rpc, accepting, enters, leaves>>
      /\ \/ host' = "failed"
         \/ host = "installing" /\ host' = "ready"
         \/ host \in AfterFinish /\ host' \in AfterFinish
  BY DEF HostStep, InstallReported, InstallTimeout, TargetGone, AgentErrorCheck,
     Unload, UnloadReturns, BalanceCheck, SequenceCheck, WriteFile, DropCheck,
     RequiredCheck, Fails, Fail, Goes, agentButLoaded, agentVars, modeVars, callVars,
     rpcVars, AfterFinish
<1>2. (Answered' <=> Answered) /\ (Unfinished' <=> Unfinished)
  BY <1>1 DEF Answered, Awaited, Unfinished
<1> QED BY <1>1, <1>2 DEF CallPhase, AfterFinish

LEMMA DeliverPhase ==
  ASSUME RecorderTypes, CallPhase, Deliver
  PROVE  CallPhase'
<1>1. /\ handled \in Nat /\ handled' = handled + 1 /\ handled + 1 \in DOMAIN posted
      /\ posted \in Seq(MessageSet)
      /\ UNCHANGED <<posted, rpc, accepting, enters, leaves>>
  BY DEF Deliver, DeliverMessage, DeliverReply, RecorderTypes, HostTypeOK, AgentInv,
     AgentTypeOK, BatchTypeOK, agentVars, agentButLoaded, modeVars, callVars, rpcVars
<1>2. (Unfinished' <=> Unfinished)
  BY <1>1 DEF Unfinished
<1>3. \A n \in DOMAIN posted : Awaited(n)' => Awaited(n) /\ n # handled + 1
  BY <1>1 DEF Awaited
<1>4. CASE DeliverMessage
  BY <1>1, <1>2, <1>3, <1>4, PhaseKept DEF DeliverMessage, NoReply, RpcGoesOn
<1>5. CASE DeliverReply
  <2>1. /\ Awaited(handled + 1) /\ host \in {"beginning", "finishing"}
        /\ \/ /\ posted[handled + 1].ok
              /\ host' = IF host = "beginning" THEN "observing" ELSE "checking"
           \/ host' = "failed"
    BY <1>1, <1>5 DEF DeliverReply, Next1, Awaited, Fail
  <2>2. Answered' /\ (host = "finishing" => rpc = "idle")
    BY <1>1, <1>3, <2>1 DEF CallPhase, FinishPhase, Answered
  <2> QED BY <1>1, <1>2, <2>1, <2>2 DEF CallPhase, FinishPhase, AfterFinish
<1> QED BY <1>4, <1>5 DEF Deliver

LEMMA PhaseNext ==
  ASSUME RecorderTypes, CountInv, CallPhase, [Next]_vars
  PROVE  CallPhase'
<1>1. CASE TargetDies \/ Terminated \/ UNCHANGED vars
  <2>1. UNCHANGED <<host, handled, posted, rpc, accepting, enters, leaves>>
    BY <1>1 DEF TargetDies, Terminated, vars, hostVars, agentVars, modeVars, callVars, rpcVars
  <2>2. (Answered' <=> Answered) /\ (Unfinished' <=> Unfinished)
    BY <2>1 DEF Answered, Awaited, Unfinished
  <2> QED BY <2>1, <2>2, PhaseKept DEF NoReply, RpcGoesOn, Awaited
<1> QED BY <1>1, TargetPhase, BeginPhase, FinishPhaseStarts, HostPhase, DeliverPhase
        DEF Next

LEMMA PhaseInit == Init => CallPhase
BY DEF Init, AgentInit, CallPhase, AfterFinish, Answered

-----------------------------------------------------------------------------
(* Nothing is ever taken back: what was dropped stays counted.             *)
DropsGrow == dropCount \in Nat /\ dropCount' \in Nat /\ dropCount <= dropCount'

(* What sends in vain drops at least one event.                            *)
LEMMA VainSend ==
  ASSUME AgentInv, RunInv, NEW b \in BatchSet, IsRun(b.recs),
         dropCount' = dropCount + Len(b.recs)
  PROVE  DropsGrow /\ dropCount' # 0
<1>1. b.recs \in Seq(AgentEvents) /\ b.recs # <<>> /\ dropCount \in Nat
  BY DEF BatchSet, IsRun, AgentInv, AgentTypeOK, BatchTypeOK
<1>2. Len(b.recs) \in Nat /\ Len(b.recs) # 0
  BY <1>1, EmptySeq
<1> QED BY <1>1, <1>2 DEF DropsGrow

LEMMA SendDrops ==
  ASSUME AgentInv, RunInv, RpcSendThrows \/ \E t \in Threads : SendThrows(t)
  PROVE  DropsGrow /\ dropCount' # 0
<1>1. CASE RpcSendThrows
  <2>1. PICK b \in BatchSet : b = rpcSending /\ IsRun(b.recs)
    BY <1>1, FlightTyped DEF RpcSendThrows, RunInv, FlightRun
  <2> QED BY <1>1, <2>1, VainSend DEF RpcSendThrows
<1>2. CASE \E t \in Threads : SendThrows(t)
  <2>1. PICK t \in Threads : SendThrows(t)
    BY <1>2
  <2>2. PICK b \in BatchSet : b = sending[t] /\ IsRun(b.recs)
    BY <2>1, FlightTyped DEF SendThrows, RunInv, FlightRun
  <2> QED BY <2>1, <2>2, VainSend DEF SendThrows
<1> QED BY <1>1, <1>2

LEMMA MoveDrops ==
  ASSUME AgentInv, RunInv, AgentMove
  PROVE  /\ DropsGrow
         /\ dropCount' # dropCount =>
              RpcSendThrows \/ \E t \in Threads : EventDropped(t) \/ SendThrows(t)
<1>0. dropCount \in Nat
  BY DEF AgentInv, AgentTypeOK, BatchTypeOK
<1>1. CASE RpcSendThrows \/ \E t \in Threads : SendThrows(t)
  BY <1>1, SendDrops
<1>2. CASE \E t \in Threads : EventDropped(t)
  <2>1. dropCount' = dropCount + 1
    BY <1>2 DEF EventDropped
  <2>2. DropsGrow
    BY <1>0, <2>1 DEF DropsGrow
  <2> QED BY <1>2, <2>2
<1>3. CASE ~RpcSendThrows /\ \A t \in Threads : ~EventDropped(t) /\ ~SendThrows(t)
  <2>1. UNCHANGED dropCount
    <3>1. ASSUME NEW t \in Threads, CallbackStep(t) PROVE UNCHANGED dropCount
      BY <1>3, <3>1 DEF CallbackStep, EnterSkipped, EnterRecorded, EnterThrows,
         LeaveUnmatched, LeaveSkipped, LeaveRecorded, LeaveThrows, EventBuffered,
         BatchFull, BatchPosted, SendReturns
    <3>2. ASSUME NEW t \in Threads, NativeStep(t) PROVE UNCHANGED dropCount
      BY <3>2 DEF NativeStep, Call, Return, Hit, HitThrows, HitCounted
    <3>3. ASSUME RpcStep PROVE UNCHANGED dropCount
      BY <1>3, <3>3 DEF RpcStep, PollFinished, DeadlinePassed, FlushNothing, FlushThread,
         RpcBatchPosted, RpcSendReturns, FlushDone
    <3>4. ASSUME Service \/ Still PROVE UNCHANGED dropCount
      BY <3>4 DEF Service, Still, Install, InstallFails, BeginObservation,
         FinishObservation, Flush, BindFixtureMemory
    <3> QED BY <3>1, <3>2, <3>3, <3>4 DEF AgentMove
  <2> QED BY <1>0, <2>1 DEF DropsGrow
<1> QED BY <1>1, <1>2, <1>3


LEMMA PendingPhase ==
  ASSUME AgentInv, NEW t \in Threads, Recording(t)
  PROVE  pending[t].phase \in Phases
<1>1. pending[t] \in PendingSet
  BY DEF AgentInv, AgentTypeOK, ThreadTypeOK, StageOK
<1> QED BY <1>1 DEF PendingSet

-----------------------------------------------------------------------------
(* Until something is dropped, every event that was numbered is in a       *)
(* buffer, in the hand of the thread that sends its buffer, or carried by  *)
(* a batch in flight or posted; unless flushAllBatches has sent a buffer   *)
(* its thread had already sent: that loses the buffer that replaced it,    *)
(* and two batches carry the events of the first.                          *)
Has(es, e) == \E i \in DOMAIN es : es[i] = e
WireCarries(k, e) ==
  \E n \in DOMAIN posted : IsBatch(n) /\ posted[n].number = k /\ Has(posted[n].recs, e)
ThreadCarries(k, e) ==
  \E t \in Threads : sending[t] # None /\ sending[t].number = k /\ Has(sending[t].recs, e)
RpcCarries(k, e) ==
  rpcSending # None /\ rpcSending.number = k /\ Has(rpcSending.recs, e)
Carries(k, e) == WireCarries(k, e) \/ ThreadCarries(k, e) \/ RpcCarries(k, e)
Carried(e) == \E k \in Nat : Carries(k, e)
Buffered(e) == Has(threadBatches[e.tid], e)
InHand(e) == stage[e.tid] = "send" /\ e = PendingEvent(e.tid)
Somewhere(e) == Buffered(e) \/ InHand(e) \/ Carried(e)
Logged(e) == \E t \in Threads : \E n \in DOMAIN log[t] : log[t][n] = e
Covered == \A e \in AgentEvents : Logged(e) => Somewhere(e)
Repeated ==
  \E e \in AgentEvents : \E j, k \in Nat : j # k /\ Carries(j, e) /\ Carries(k, e)
StaleCarried ==
  \A t \in Threads : \A e \in AgentEvents : Has(rpcStale[t], e) => Carried(e)
RpcOK == rpcSending # None => rpc = "sending"
CoverInv ==
  /\ RpcOK
  /\ dropCount = 0 => StaleCarried /\ (Repeated \/ Covered)

LEMMA HasAppended ==
  ASSUME NEW S, NEW es \in Seq(S), NEW d \in S, NEW e
  PROVE  /\ Has(es, e) => Has(Append(es, d), e)
         /\ Has(Append(es, d), d)
<1>1. /\ DOMAIN Append(es, d) = 1..(Len(es) + 1) /\ Append(es, d)[Len(es) + 1] = d
      /\ \A i \in DOMAIN es : i \in DOMAIN Append(es, d) /\ Append(es, d)[i] = es[i]
      /\ Len(es) \in Nat
  OBVIOUS
<1> QED BY <1>1 DEF Has

(* An event appended to the buffer of its thread is there, and the events  *)
(* that are in a buffer stay.                                              *)
LEMMA BufferGrows ==
  ASSUME AgentInv, NEW t \in Threads, NEW d \in AgentEvents, d.tid = t,
         threadBatches' = [threadBatches EXCEPT ![t] = Append(@, d)],
         NEW e \in AgentEvents, Buffered(e) \/ e = d
  PROVE  Buffered(e)'
<1>1. threadBatches[t] \in Seq(AgentEvents) /\ e.tid \in Threads
  BY BuffersTyped DEF AgentEvents, EventSet
<1>2. PICK es \in Seq(AgentEvents) : es = threadBatches[t]
  BY <1>1
<1>3. (Has(es, e) => Has(Append(es, d), e)) /\ Has(Append(es, d), d)
  BY HasAppended
<1>4. /\ threadBatches'[t] = Append(es, d)
      /\ \A u \in Threads \ {t} : threadBatches'[u] = threadBatches[u]
  BY <1>2, BuffersTyped
<1>5. CASE e.tid = t
  <2>1. e = d \/ Has(es, e)
    BY <1>2, <1>5 DEF Buffered
  <2>2. Has(Append(es, d), e)
    BY <1>3, <2>1
  <2> QED BY <1>4, <1>5, <2>2 DEF Buffered
<1>6. CASE e.tid # t
  BY <1>1, <1>4, <1>6 DEF Buffered
<1> QED BY <1>5, <1>6

LEMMA WireGrows ==
  ASSUME AgentInv, Posts, NEW k, NEW e, WireCarries(k, e)
  PROVE  WireCarries(k, e)'
<1>1. \A n \in DOMAIN posted : n \in DOMAIN posted' /\ posted'[n] = posted[n]
  BY FlightTyped DEF Posts, Post
<1> QED BY <1>1 DEF WireCarries, IsBatch

(* What is posted is on the wire.                                          *)
LEMMA Wired ==
  ASSUME AgentInv, NEW b \in BatchSet, Post(BatchMessage(b)), NEW e, Has(b.recs, e)
  PROVE  WireCarries(b.number, e)'
<1>1. /\ Len(posted) + 1 \in DOMAIN posted'
      /\ posted'[Len(posted) + 1] = BatchMessage(b)
  BY FlightTyped DEF Post
<1> QED BY <1>1 DEF WireCarries, IsBatch, BatchMessage

(* What neither numbers nor sends an event leaves all of them where they   *)
(* are.                                                                    *)
Quiet ==
  /\ UNCHANGED <<log, threadBatches, sending, rpcSending>>
  /\ \A t \in Threads : stage[t] = "send" => stage'[t] = "send" /\ pending'[t] = pending[t]

LEMMA QuietCallback ==
  ASSUME AgentInv, NEW t \in Threads, CallbackStep(t), ~EventBuffered(t), ~BatchFull(t),
         ~SendReturns(t), ~BatchPosted(t), ~EventDropped(t), ~SendThrows(t)
  PROVE  Quiet
<1>0. /\ stage \in [Threads -> {"native", "enter", "leave", "clock", "send"}]
      /\ pending \in [Threads -> PendingSet \cup {None}]
  BY DEF AgentInv, AgentTypeOK, ThreadTypeOK
<1>1. CASE EnterSkipped(t) \/ LeaveSkipped(t)
  BY <1>0, <1>1 DEF EnterSkipped, LeaveSkipped, Continue, Quiet, batchVars, rpcVars
<1>2. CASE EnterRecorded(t) \/ LeaveRecorded(t)
  BY <1>0, <1>2 DEF EnterRecorded, LeaveRecorded, RecordEvent, Quiet, batchVars, rpcVars
<1>3. CASE EnterThrows(t) \/ LeaveUnmatched(t) \/ LeaveThrows(t)
  BY <1>0, <1>3 DEF EnterThrows, LeaveUnmatched, LeaveThrows, Throw, Quiet, batchVars,
     rpcVars
<1> QED BY <1>1, <1>2, <1>3 DEF CallbackStep

LEMMA QuietNative ==
  ASSUME AgentInv, NEW t \in Threads, NativeStep(t)
  PROVE  Quiet
<1>0. /\ stage \in [Threads -> {"native", "enter", "leave", "clock", "send"}]
      /\ pending \in [Threads -> PendingSet \cup {None}]
  BY DEF AgentInv, AgentTypeOK, ThreadTypeOK
<1>1. CASE \E a \in Addresses : Call(t, a)
  BY <1>0, <1>1 DEF Call, Quiet, batchVars, rpcVars
<1>2. CASE Return(t)
  BY <1>0, <1>2 DEF Return, Quiet, batchVars, rpcVars
<1>3. CASE \E p \in InsProbes : Hit(t, p)
  BY <1>0, <1>3 DEF Hit, HitCounted, RecordEvent, Quiet, batchVars, rpcVars
<1>4. CASE \E p \in InsProbes : HitThrows(t, p)
  BY <1>4 DEF HitThrows, Quiet, batchVars, threadVars, rpcVars
<1> QED BY <1>1, <1>2, <1>3, <1>4 DEF NativeStep

LEMMA QuietOthers ==
  ASSUME \/ Service \/ Still
         \/ RpcStep /\ ~RpcBatchPosted /\ ~RpcSendThrows /\ \A t \in Threads : ~FlushThread(t)
  PROVE  Quiet
<1> USE DEF Quiet, batchVars, threadVars, rpcVars
<1>1. CASE RpcStep /\ ~RpcBatchPosted /\ ~RpcSendThrows /\ \A t \in Threads : ~FlushThread(t)
  BY <1>1 DEF RpcStep, PollFinished, DeadlinePassed, FlushNothing, RpcSendReturns, FlushDone
<1>2. CASE Service \/ Still
  BY <1>2 DEF Service, Still, Install, InstallFails, BeginObservation, FinishObservation,
     Flush, BindFixtureMemory
<1> QED BY <1>1, <1>2

(* What is in flight stays there or is posted, and what flushAllBatches    *)
(* holds stays, is let go, or is the buffer that its thread sends.         *)
NoDrop ==
  ~RpcSendThrows /\ \A t \in Threads : ~SendThrows(t) /\ ~EventDropped(t)
FlightStays ==
  /\ \A t \in Threads : sending[t] # None =>
       sending'[t] = sending[t] \/ Post(BatchMessage(sending[t]))
  /\ rpcSending # None =>
       rpcSending' = rpcSending \/ Post(BatchMessage(rpcSending))
StaleStays ==
  \A t \in Threads : \/ rpcStale'[t] \in {rpcStale[t], <<>>}
                     \/ BatchFull(t) /\ rpcStale'[t] = threadBatches[t]

LEMMA FlightMoves ==
  ASSUME AgentInv, RpcOK, AgentMove, NoDrop
  PROVE  FlightStays
<1>1. ASSUME NEW t \in Threads, BatchFull(t) PROVE FlightStays
  <2>1. sending[t] = None /\ rpcSending' = rpcSending
    BY <1>1 DEF BatchFull, AgentInv, AgentTypeOK, StageOK
  <2>2. \A u \in Threads \ {t} : sending'[u] = sending[u]
    BY <1>1, FlightTyped DEF BatchFull
  <2> QED BY <2>1, <2>2 DEF FlightStays
<1>2. ASSUME NEW t \in Threads, BatchPosted(t) PROVE FlightStays
  <2>1. Post(BatchMessage(sending[t])) /\ rpcSending' = rpcSending
    BY <1>2 DEF BatchPosted, rpcVars
  <2>2. \A u \in Threads \ {t} : sending'[u] = sending[u]
    BY <1>2, FlightTyped DEF BatchPosted
  <2> QED BY <2>1, <2>2 DEF FlightStays
<1>3. ASSUME NEW t \in Threads, FlushThread(t) PROVE FlightStays
  BY <1>3 DEF FlushThread, threadVars, RpcOK, FlightStays
<1>4. CASE RpcBatchPosted
  BY <1>4 DEF RpcBatchPosted, threadVars, FlightStays
<1>5. ASSUME NEW t \in Threads, EventBuffered(t) \/ SendReturns(t) PROVE FlightStays
  BY <1>5 DEF EventBuffered, SendReturns, rpcVars, FlightStays
<1>6. CASE /\ ~RpcBatchPosted
           /\ \A t \in Threads : ~EventBuffered(t) /\ ~BatchFull(t) /\ ~SendReturns(t)
                                /\ ~BatchPosted(t) /\ ~FlushThread(t)
  <2>1. Quiet
    BY <1>6, QuietCallback, QuietNative, QuietOthers DEF AgentMove, NoDrop
  <2> QED BY <2>1 DEF Quiet, FlightStays
<1> QED BY <1>1, <1>2, <1>3, <1>4, <1>5, <1>6

LEMMA StaleMoves ==
  ASSUME AgentInv, AgentMove
  PROVE  StaleStays
<1>0. rpcStale \in [Threads -> Seq(AgentEvents)]
  BY BuffersTyped
<1>1. ASSUME NEW t \in Threads, CallbackStep(t) PROVE StaleStays
  <2>1. CASE BatchFull(t)
    BY <1>0, <2>1 DEF BatchFull, Detach, StaleStays
  <2>2. CASE ~BatchFull(t)
    BY <1>1, <2>2 DEF CallbackStep, EnterSkipped, EnterRecorded, EnterThrows, LeaveUnmatched,
       LeaveSkipped, LeaveRecorded, LeaveThrows, EventDropped, EventBuffered, BatchPosted,
       SendReturns, SendThrows, rpcVars, StaleStays
  <2> QED BY <2>1, <2>2
<1>2. ASSUME NEW t \in Threads, NativeStep(t) PROVE StaleStays
  BY <1>2 DEF NativeStep, Call, Return, Hit, HitThrows, rpcVars, StaleStays
<1>3. CASE RpcStep
  BY <1>0, <1>3 DEF RpcStep, PollFinished, StartFlush, NoBatches, DeadlinePassed,
     FlushNothing, FlushThread, RpcBatchPosted, RpcSendReturns, RpcSendThrows, FlushDone,
     StaleStays
<1>4. CASE Service \/ Still
  BY <1>4 DEF Service, Still, Install, InstallFails, BeginObservation, FinishObservation,
     Flush, BindFixtureMemory, StartFlush, Polls, NoBatches, rpcVars, StaleStays
<1> QED BY <1>1, <1>2, <1>3, <1>4 DEF AgentMove

LEMMA RpcKept ==
  ASSUME AgentInv, RpcOK, AgentMove
  PROVE  RpcOK'
<1>1. ASSUME NEW t \in Threads, CallbackStep(t) \/ NativeStep(t)
      PROVE  UNCHANGED <<rpc, rpcSending>>
  <2>1. CASE BatchFull(t)
    BY <2>1 DEF BatchFull
  <2>2. CASE CallbackStep(t) /\ ~BatchFull(t)
    BY <2>2 DEF CallbackStep, EnterSkipped, EnterRecorded, EnterThrows, LeaveUnmatched,
       LeaveSkipped, LeaveRecorded, LeaveThrows, EventDropped, EventBuffered, BatchPosted,
       SendReturns, SendThrows, rpcVars
  <2>3. CASE NativeStep(t)
    BY <2>3 DEF NativeStep, Call, Return, Hit, HitThrows, rpcVars
  <2> QED BY <1>1, <2>1, <2>2, <2>3
<1>2. CASE RpcStep
  BY <1>2 DEF RpcStep, PollFinished, StartFlush, DeadlinePassed,
     FlushNothing, FlushThread, RpcBatchPosted, RpcSendReturns, RpcSendThrows, FlushDone,
     RpcOK
<1>3. CASE Service \/ Still
  BY <1>3 DEF Service, Still, Install, InstallFails, BeginObservation, FinishObservation,
     Flush, BindFixtureMemory, StartFlush, Polls, Serves, rpcVars, RpcOK
<1> QED BY <1>1, <1>2, <1>3 DEF AgentMove, RpcOK

(* What a batch carries it carries as long as nothing is dropped.          *)
LEMMA CarriesStays ==
  ASSUME AgentInv, RpcOK, AgentMove, NoDrop
  PROVE  \A k, e : Carries(k, e) => Carries(k, e)'
<1>1. SUFFICES ASSUME NEW k, NEW e, Carries(k, e) PROVE Carries(k, e)'
  OBVIOUS
<1>2. CASE WireCarries(k, e)
  BY <1>2, MovePosts, WireGrows DEF Carries
<1>3. CASE ThreadCarries(k, e)
  <2>1. PICK t \in Threads : sending[t] # None /\ sending[t].number = k /\ Has(sending[t].recs, e)
    BY <1>3 DEF ThreadCarries
  <2>2. PICK b \in BatchSet : b = sending[t]
    BY <2>1, FlightTyped
  <2>3. sending'[t] = b \/ Post(BatchMessage(b))
    BY <2>1, <2>2, FlightMoves DEF FlightStays
  <2>4. b # None /\ b.number = k /\ Has(b.recs, e)
    BY <2>1, <2>2
  <2>5. CASE sending'[t] = b
    BY <2>4, <2>5 DEF ThreadCarries, Carries
  <2>6. CASE Post(BatchMessage(b))
    BY <2>4, <2>6, Wired DEF Carries
  <2> QED BY <2>3, <2>5, <2>6
<1>4. CASE RpcCarries(k, e)
  <2>1. rpcSending # None /\ rpcSending.number = k /\ Has(rpcSending.recs, e)
    BY <1>4 DEF RpcCarries
  <2>2. PICK b \in BatchSet : b = rpcSending
    BY <2>1, FlightTyped
  <2>3. rpcSending' = b \/ Post(BatchMessage(b))
    BY <2>1, <2>2, FlightMoves DEF FlightStays
  <2>4. b # None /\ b.number = k /\ Has(b.recs, e)
    BY <2>1, <2>2
  <2>5. CASE rpcSending' = b
    BY <2>4, <2>5 DEF RpcCarries, Carries
  <2>6. CASE Post(BatchMessage(b))
    BY <2>4, <2>6, Wired DEF Carries
  <2> QED BY <2>3, <2>5, <2>6
<1> QED BY <1>1, <1>2, <1>3, <1>4 DEF Carries

LEMMA RepetitionStays ==
  ASSUME AgentInv, RpcOK, AgentMove, NoDrop
  PROVE  /\ Repeated => Repeated'
         /\ \A e : Carried(e) => Carried(e)'
<1>1. AgentEvents' = AgentEvents
  BY DEF AgentEvents, Kinds, FnProbes
<1> QED BY <1>1, CarriesStays DEF Repeated, Carried

(* The steps that move an event that is in no batch yet.                   *)
Unsent(e) == Buffered(e) \/ InHand(e)

LEMMA QuietKept ==
  ASSUME Quiet, NEW e \in AgentEvents, Unsent(e)
  PROVE  Unsent(e)'
<1>1. e.tid \in Threads
  BY DEF AgentEvents, EventSet
<1>2. Buffered(e) => Buffered(e)'
  BY DEF Buffered, Quiet
<1>3. InHand(e) => InHand(e)'
  <2> SUFFICES ASSUME InHand(e) PROVE InHand(e)'
    OBVIOUS
  <2>1. stage'[e.tid] = "send" /\ pending'[e.tid] = pending[e.tid] /\ e = PendingEvent(e.tid)
    BY <1>1 DEF InHand, Quiet
  <2> QED BY <2>1 DEF InHand, PendingEvent
<1> QED BY <1>2, <1>3 DEF Unsent

LEMMA BufferedKept ==
  ASSUME AgentInv, NEW t \in Threads, EventBuffered(t), NEW e \in AgentEvents,
         Unsent(e) \/ e = Numbered(t)
  PROVE  Unsent(e)'
<1>1. /\ threadBatches' = [threadBatches EXCEPT ![t] = Append(@, Numbered(t))]
      /\ stage[t] = "clock"
      /\ Continue(t, pending[t].phase) /\ pending' = [pending EXCEPT ![t] = None]
  BY DEF EventBuffered
<1>2. Numbered(t) \in AgentEvents /\ Numbered(t).tid = t
  BY <1>1, RecordingEvent DEF Recording
<1>3. PICK d \in AgentEvents : d = Numbered(t)
  BY <1>2
<1>5. e.tid \in Threads
  BY DEF AgentEvents, EventSet
<1>6. threadBatches' = [threadBatches EXCEPT ![t] = Append(@, d)] /\ d.tid = t
  BY <1>1, <1>2, <1>3
<1>7. Buffered(e) \/ e = d => Buffered(e)'
  BY <1>6, BufferGrows
<1>8. InHand(e) => InHand(e)'
  <2> SUFFICES ASSUME InHand(e) PROVE InHand(e)'
    OBVIOUS
  <2>1. e.tid # t
    BY <1>1 DEF InHand
  <2>2. stage'[e.tid] = stage[e.tid] /\ pending'[e.tid] = pending[e.tid]
    BY <1>1, <1>5, <2>1, BuffersTyped DEF Continue
  <2> QED BY <2>2 DEF InHand, PendingEvent
<1> QED BY <1>3, <1>7, <1>8 DEF Unsent

LEMMA FullSomewhere ==
  ASSUME AgentInv, NEW t \in Threads, BatchFull(t), NEW e \in AgentEvents,
         Unsent(e) \/ e = Numbered(t) \/ Has(threadBatches[t], e)
  PROVE  /\ Somewhere(e)'
         /\ Has(threadBatches[t], e) => Carried(e)'
<1>1. /\ threadBatches' = [threadBatches EXCEPT ![t] = <<>>]
      /\ stage[t] = "clock"
      /\ sending' = [sending EXCEPT ![t] = Batch(batchSequence', threadBatches[t])]
      /\ pending' = [pending EXCEPT ![t].seq = threadSequences'[t]]
      /\ stage' = [stage EXCEPT ![t] = "send"]
      /\ batchSequence' = batchSequence + 1 /\ Number(t)
  BY DEF BatchFull, FreshBatch
<1>2. e.tid \in Threads /\ pending[t] \in PendingSet
  BY <1>1 DEF AgentEvents, EventSet, AgentInv, AgentTypeOK, ThreadTypeOK, StageOK, Recording
<1>3. threadBatches[t] \in Seq(AgentEvents) /\ BatchTypeOK
  BY BuffersTyped DEF AgentInv, AgentTypeOK
<1>4. PICK b \in BatchSet : b = Batch(batchSequence', threadBatches[t])
  BY <1>1, <1>3, BatchTyped
<1>5. b.recs = threadBatches[t] /\ b # None /\ b.number \in Nat
  BY <1>4, NoneAssumption DEF Batch, BatchSet, AgentEvents
<1>6. sending'[t] = b
  BY <1>1, <1>4, FlightTyped
<1>7. Has(threadBatches[t], e) => Carried(e)'
  BY <1>5, <1>6 DEF ThreadCarries, Carries, Carried
<1>8. Buffered(e) => Somewhere(e)'
  <2>1. CASE e.tid = t
    BY <1>7, <2>1 DEF Buffered, Somewhere
  <2>2. CASE e.tid # t
    BY <1>1, <1>2, <2>2, BuffersTyped DEF Buffered, Somewhere
  <2> QED BY <2>1, <2>2
<1>9. e = Numbered(t) => InHand(e)'
  <2>1. /\ pending'[t].kind = pending[t].kind /\ pending'[t].phase = pending[t].phase
        /\ pending'[t].id = pending[t].id /\ pending'[t].seq = threadSequences'[t]
    BY <1>1, <1>2, BuffersTyped DEF PendingSet
  <2>2. threadSequences'[t] = threadSequences[t] + 1 /\ stage'[t] = "send"
    BY <1>1, BuffersTyped DEF Number
  <2>3. Numbered(t).tid = t
    BY DEF Numbered, Event
  <2> QED BY <2>1, <2>2, <2>3 DEF InHand, PendingEvent, Numbered
<1>10. InHand(e) => InHand(e)'
  <2> SUFFICES ASSUME InHand(e) PROVE InHand(e)'
    OBVIOUS
  <2>1. e.tid # t
    BY <1>1 DEF InHand
  <2>2. stage'[e.tid] = stage[e.tid] /\ pending'[e.tid] = pending[e.tid]
    BY <1>1, <1>2, <2>1, BuffersTyped
  <2> QED BY <2>2 DEF InHand, PendingEvent
<1> QED BY <1>7, <1>8, <1>9, <1>10 DEF Unsent, Somewhere

LEMMA SentKept ==
  ASSUME AgentInv, NEW t \in Threads, SendReturns(t), NEW e \in AgentEvents, Unsent(e)
  PROVE  Unsent(e)'
<1>1. /\ threadBatches' = [threadBatches EXCEPT ![t] = Append(@, PendingEvent(t))]
      /\ stage[t] = "send"
      /\ Continue(t, pending[t].phase) /\ pending' = [pending EXCEPT ![t] = None]
  BY DEF SendReturns, AppendPending
<1>2. PICK d \in AgentEvents : d = PendingEvent(t) /\ d.tid = t
  BY <1>1, RecordingEvent DEF Recording
<1>4. e.tid \in Threads
  BY DEF AgentEvents, EventSet
<1>5. Buffered(e) \/ e = d => Buffered(e)'
  <2>1. threadBatches' = [threadBatches EXCEPT ![t] = Append(@, d)]
    BY <1>1, <1>2
  <2> QED BY <1>2, <2>1, BufferGrows
<1>6. InHand(e) => Unsent(e)'
  <2>1. CASE e.tid = t
    BY <1>2, <1>5, <2>1 DEF InHand, Unsent
  <2>2. CASE e.tid # t
    <3>1. stage'[e.tid] = stage[e.tid] /\ pending'[e.tid] = pending[e.tid]
      BY <1>1, <1>4, <2>2, BuffersTyped DEF Continue
    <3> QED BY <3>1 DEF InHand, PendingEvent, Unsent
  <2> QED BY <2>1, <2>2
<1> QED BY <1>5, <1>6 DEF Unsent

(* flushAllBatches sends what it holds.                                    *)
LEMMA FlushCarries ==
  ASSUME AgentInv, NEW t \in Threads, FlushThread(t), NEW e, Has(Held(t), e),
         NEW k \in Nat, k = batchSequence + 1
  PROVE  Carries(k, e)'
<1>1. rpcSending' = Batch(batchSequence + 1, Held(t))
  BY DEF FlushThread
<1>2. Held(t) \in Seq(AgentEvents) /\ BatchTypeOK
  BY BuffersTyped DEF Held, AgentInv, AgentTypeOK
<1>3. PICK b \in BatchSet : b = Batch(batchSequence + 1, Held(t))
  BY <1>2, BatchTyped
<1>4. b # None /\ b.recs = Held(t) /\ b.number = k
  BY <1>3, NoneAssumption DEF BatchSet, AgentEvents, Batch
<1> QED BY <1>1, <1>3, <1>4 DEF RpcCarries, Carries

LEMMA FlushedSomewhere ==
  ASSUME AgentInv, NEW t \in Threads, FlushThread(t), rpcStale[t] = <<>>,
         NEW e \in AgentEvents, Unsent(e)
  PROVE  Somewhere(e)'
<1>1. /\ threadBatches' = [threadBatches EXCEPT ![t] = <<>>]
      /\ UNCHANGED <<stage, pending>>
  BY DEF FlushThread, FreshBatch, threadVars
<1>2. Held(t) = threadBatches[t] /\ e.tid \in Threads
  BY DEF Held, AgentEvents, EventSet
<1>5. PICK k \in Nat : k = batchSequence + 1
  BY FlightTyped
<1>3. InHand(e) => InHand(e)'
  BY <1>1 DEF InHand, PendingEvent
<1>4. Buffered(e) => Somewhere(e)'
  <2>1. CASE e.tid = t
    BY <1>2, <1>5, <2>1, FlushCarries DEF Buffered, Carried, Somewhere
  <2>2. CASE e.tid # t
    BY <1>1, <1>2, <2>2, BuffersTyped DEF Buffered, Somewhere
  <2> QED BY <2>1, <2>2
<1> QED BY <1>3, <1>4 DEF Unsent, Somewhere

(* No batch carries anything under a number not given yet.                 *)
LEMMA NothingNew ==
  ASSUME AgentInv, NumberInv, NEW e
  PROVE  ~Carries(batchSequence + 1, e)
BY NewNumber DEF Carries, WireCarries, ThreadCarries, RpcCarries, Unposted

(* What it holds of a thread that has replaced its buffer was sent before. *)
LEMMA FlushRepeats ==
  ASSUME AgentInv, NumberInv, RpcOK, AgentMove, NoDrop, StaleCarried,
         NEW t \in Threads, FlushThread(t), rpcStale[t] # <<>>
  PROVE  Repeated'
<1>1. PICK es \in Seq(AgentEvents) : es = rpcStale[t]
  BY BuffersTyped
<1>2. Held(t) = es /\ 1 \in DOMAIN es /\ es[1] \in AgentEvents
  <2>1. es # <<>> /\ Held(t) = es
    BY <1>1 DEF Held
  <2>2. Len(es) \in Nat /\ Len(es) # 0
    BY <2>1, EmptySeq
  <2> QED BY <2>1, <2>2
<1>3. PICK e \in AgentEvents : e = es[1]
  BY <1>2
<1>4. Has(es, e)
  BY <1>2, <1>3 DEF Has
<1>5. PICK j \in Nat : Carries(j, e)
  BY <1>1, <1>4 DEF StaleCarried, Carried
<1>6. PICK k \in Nat : k = batchSequence + 1
  BY FlightTyped
<1>7. j # k
  BY <1>5, <1>6, NothingNew
<1>8. Carries(j, e)'
  BY <1>5, CarriesStays
<1>9. Carries(k, e)'
  BY <1>2, <1>4, <1>6, FlushCarries
<1>10. AgentEvents' = AgentEvents
  BY DEF AgentEvents, Kinds, FnProbes
<1> QED BY <1>7, <1>8, <1>9, <1>10 DEF Repeated

LEMMA NumberedLog ==
  ASSUME AgentInv, NEW t \in Threads, stage[t] = "clock", Number(t), NEW e, Logged(e)'
  PROVE  Logged(e) \/ e = Numbered(t)
<1>1. log \in Logs /\ log' = [log EXCEPT ![t] = Append(@, Numbered(t))]
  BY NumbersOneEvent DEF NumbersOne
<1>2. PICK d : d = Numbered(t)
  OBVIOUS
<1>3. log[t] \in Seq(AgentEvents) /\ log'[t] = Append(log[t], d)
      /\ \A u \in Threads \ {t} : log'[u] = log[u]
  BY <1>1, <1>2 DEF Logs
<1>4. \A n \in DOMAIN log'[t] : \/ n \in DOMAIN log[t] /\ log'[t][n] = log[t][n]
                               \/ log'[t][n] = d
  BY <1>3
<1> QED BY <1>2, <1>3, <1>4 DEF Logged

LEMMA StaleNext ==
  ASSUME AgentInv, RpcOK, StaleCarried, AgentMove, NoDrop
  PROVE  StaleCarried'
<1>1. AgentEvents' = AgentEvents
  BY DEF AgentEvents, Kinds, FnProbes
<1>2. SUFFICES ASSUME NEW t \in Threads, NEW e \in AgentEvents, Has(rpcStale'[t], e)
               PROVE  Carried(e)'
  BY <1>1 DEF StaleCarried
<1>3. CASE rpcStale'[t] = rpcStale[t]
  <2>1. Carried(e)
    BY <1>2, <1>3 DEF StaleCarried
  <2> QED BY <2>1, RepetitionStays
<1>4. CASE rpcStale'[t] = <<>>
  BY <1>2, <1>4 DEF Has
<1>5. CASE BatchFull(t) /\ rpcStale'[t] = threadBatches[t]
  <2>1. Has(threadBatches[t], e)
    BY <1>2, <1>5
  <2> QED BY <1>5, <2>1, FullSomewhere
<1> QED BY <1>3, <1>4, <1>5, StaleMoves DEF StaleStays

LEMMA CoveredNext ==
  ASSUME AgentInv, NumberInv, RpcOK, StaleCarried, Covered, AgentMove, NoDrop
  PROVE  Repeated' \/ Covered'
<1>0. AgentEvents' = AgentEvents
  BY DEF AgentEvents, Kinds, FnProbes
<1>1. CASE \E t \in Threads : FlushThread(t) /\ rpcStale[t] # <<>>
  BY <1>1, FlushRepeats
<1>2. CASE \A t \in Threads : FlushThread(t) => rpcStale[t] = <<>>
  <2>1. SUFFICES ASSUME NEW e \in AgentEvents, Logged(e)' PROVE Somewhere(e)'
    BY <1>0 DEF Covered
  <2>2. Carried(e) => Somewhere(e)'
    BY RepetitionStays DEF Somewhere
  <2>3. Unsent(e)' => Somewhere(e)'
    BY DEF Unsent, Somewhere
  <2>4. Logged(e) => Unsent(e) \/ Carried(e)
    BY DEF Covered, Somewhere, Unsent
  <2>5. CASE \E t \in Threads : EventBuffered(t) \/ BatchFull(t)
    <3>1. PICK t \in Threads : EventBuffered(t) \/ BatchFull(t)
      BY <2>5
    <3>2. stage[t] = "clock" /\ Number(t)
      BY <3>1 DEF EventBuffered, BatchFull
    <3>3. Logged(e) \/ e = Numbered(t)
      BY <2>1, <3>2, NumberedLog
    <3> QED BY <2>2, <2>3, <2>4, <3>1, <3>3, BufferedKept, FullSomewhere
  <2>6. CASE \E t \in Threads : SendReturns(t) \/ BatchPosted(t) \/ FlushThread(t)
    <3>1. PICK t \in Threads : SendReturns(t) \/ BatchPosted(t) \/ FlushThread(t)
      BY <2>6
    <3>2. UNCHANGED log
      BY <3>1 DEF SendReturns, BatchPosted, FlushThread, batchVars
    <3>3. Unsent(e) \/ Carried(e)
      BY <2>1, <2>4, <3>2 DEF Logged
    <3>4. BatchPosted(t) /\ Unsent(e) => Unsent(e)'
      BY DEF BatchPosted, batchVars, Unsent, Buffered, InHand, PendingEvent
    <3> QED BY <1>2, <2>2, <2>3, <3>1, <3>3, <3>4, SentKept, FlushedSomewhere
  <2>7. CASE RpcBatchPosted
    <3>1. UNCHANGED <<log, threadBatches, stage, pending>>
      BY <2>7 DEF RpcBatchPosted, batchVars, threadVars
    <3>2. Unsent(e) \/ Carried(e)
      BY <2>1, <2>4, <3>1 DEF Logged
    <3>3. Unsent(e) => Unsent(e)'
      BY <3>1 DEF Unsent, Buffered, InHand, PendingEvent
    <3> QED BY <2>2, <2>3, <3>2, <3>3
  <2>8. CASE /\ ~RpcBatchPosted
             /\ \A t \in Threads : ~EventBuffered(t) /\ ~BatchFull(t) /\ ~SendReturns(t)
                                  /\ ~BatchPosted(t) /\ ~FlushThread(t)
    <3>1. Quiet
      BY <2>8, QuietCallback, QuietNative, QuietOthers DEF AgentMove, NoDrop
    <3>2. Unsent(e) \/ Carried(e)
      BY <2>1, <2>4, <3>1 DEF Logged, Quiet
    <3> QED BY <2>2, <2>3, <3>1, <3>2, QuietKept
  <2> QED BY <2>5, <2>6, <2>7, <2>8
<1> QED BY <1>1, <1>2

LEMMA NothingDropped ==
  ASSUME AgentInv, RunInv, AgentMove, dropCount' = 0
  PROVE  dropCount = 0 /\ NoDrop
<1>1. dropCount = 0 /\ ~RpcSendThrows /\ \A t \in Threads : ~SendThrows(t)
  BY MoveDrops, SendDrops DEF DropsGrow
<1>2. \A t \in Threads : ~EventDropped(t)
  BY <1>1 DEF EventDropped
<1> QED BY <1>1, <1>2 DEF NoDrop

LEMMA CoverNext ==
  ASSUME AgentInv, RunInv, NumberInv, CoverInv, AgentMove
  PROVE  CoverInv'
<1>1. RpcOK'
  BY RpcKept DEF CoverInv
<1>2. ASSUME dropCount' = 0 PROVE StaleCarried' /\ (Repeated' \/ Covered')
  <2>1. RpcOK /\ NoDrop /\ StaleCarried /\ (Repeated \/ Covered)
    BY <1>2, NothingDropped DEF CoverInv
  <2> QED BY <2>1, StaleNext, RepetitionStays, CoveredNext
<1> QED BY <1>1, <1>2 DEF CoverInv

LEMMA CoverInit == AgentInit => CoverInv
BY DEF AgentInit, CoverInv, RpcOK, StaleCarried, Covered, Logged, NoBatches, Has

-----------------------------------------------------------------------------
(* An id stands for one call of one thread: the enter that is logged or    *)
(* being recorded with it is the only one.                                 *)
Passed(phase, t, id) ==
  \/ \E n \in DOMAIN log[t] : log[t][n].phase = phase /\ log[t][n].id = id
  \/ stage[t] = "clock" /\ pending[t].phase = phase /\ pending[t].id = id
Entered(t, id) == Passed("enter", t, id)
IdsInv ==
  \A t \in Threads : \A id : Entered(t, id) =>
    id \in 1..correlation /\ \A u \in Threads \ {t} : ~Entered(u, id)

PassedSame ==
  \A t \in Threads : \A phase \in Phases : \A id : Passed(phase, t, id)' <=> Passed(phase, t, id)
NoNewId == \A t \in Threads : \A id : Entered(t, id)' => Entered(t, id)
IdsGrow == correlation \in Nat /\ correlation' \in Nat /\ correlation <= correlation'

LEMMA IdsKept ==
  ASSUME IdsInv, NoNewId, IdsGrow
  PROVE  IdsInv'
BY DEF IdsInv, NoNewId, IdsGrow

LEMMA NoClock ==
  ASSUME UNCHANGED log, NEW t \in Threads, stage[t] # "clock", stage'[t] # "clock",
         \A u \in Threads \ {t} : stage'[u] = stage[u] /\ pending'[u] = pending[u]
  PROVE  PassedSame
BY DEF PassedSame, Passed

LEMMA NumberPassed ==
  ASSUME AgentInv, NEW t \in Threads, stage[t] = "clock", stage'[t] # "clock", Number(t),
         \A u \in Threads \ {t} : stage'[u] = stage[u] /\ pending'[u] = pending[u]
  PROVE  PassedSame
<1>1. log \in Logs /\ log' = [log EXCEPT ![t] = Append(@, Numbered(t))]
  BY NumbersOneEvent DEF NumbersOne
<1>2. PICK d : d = Numbered(t)
  OBVIOUS
<1>3. /\ log[t] \in Seq(AgentEvents) /\ log'[t] = Append(log[t], d)
      /\ \A u \in Threads \ {t} : log'[u] = log[u]
  BY <1>1, <1>2 DEF Logs
<1>4. d.phase = pending[t].phase /\ d.id = pending[t].id
  BY <1>2 DEF Numbered, Event
<1>5. /\ DOMAIN log'[t] = 1..(Len(log[t]) + 1) /\ log'[t][Len(log[t]) + 1] = d
      /\ \A n \in DOMAIN log[t] : n \in DOMAIN log'[t] /\ log'[t][n] = log[t][n]
      /\ \A n \in DOMAIN log'[t] : n \in DOMAIN log[t] \/ n = Len(log[t]) + 1
      /\ Len(log[t]) + 1 \in DOMAIN log'[t]
  BY <1>3
<1>6. ASSUME NEW phase, NEW id PROVE Passed(phase, t, id)' <=> Passed(phase, t, id)
  BY <1>4, <1>5 DEF Passed
<1>7. ASSUME NEW u \in Threads \ {t}, NEW phase, NEW id
      PROVE  Passed(phase, u, id)' <=> Passed(phase, u, id)
  BY <1>3 DEF Passed
<1> QED BY <1>6, <1>7 DEF PassedSame

LEMMA RecordPassed ==
  ASSUME AgentInv, NEW t \in Threads, stage[t] # "clock", UNCHANGED log, NEW p, NEW phase,
         NEW new, RecordEvent(t, p, phase, new), NEW u \in Threads, NEW ph, NEW id
  PROVE  Passed(ph, u, id)' <=> Passed(ph, u, id) \/ (u = t /\ ph = phase /\ id = new)
<1>1. /\ stage \in [Threads -> {"native", "enter", "leave", "clock", "send"}]
      /\ pending \in [Threads -> PendingSet \cup {None}]
  BY DEF AgentInv, AgentTypeOK, ThreadTypeOK
<1>2. /\ stage'[t] = "clock" /\ pending'[t].phase = phase /\ pending'[t].id = new
      /\ \A v \in Threads \ {t} : stage'[v] = stage[v] /\ pending'[v] = pending[v]
  BY <1>1 DEF RecordEvent
<1> QED BY <1>2 DEF Passed

(* The steps that give no id: nothing is recorded or numbered, or what was *)
(* recorded is numbered or dropped.                                        *)
LEMMA QuietCalls ==
  ASSUME AgentInv, NEW t \in Threads, CallbackStep(t), ~EnterRecorded(t), ~EnterThrows(t),
         ~LeaveRecorded(t)
  PROVE  NoNewId /\ UNCHANGED correlation
<1>0. /\ stage \in [Threads -> {"native", "enter", "leave", "clock", "send"}]
      /\ pending \in [Threads -> PendingSet \cup {None}]
      /\ Recording(t) => pending[t].phase \in Phases
  BY PendingPhase DEF AgentInv, AgentTypeOK, ThreadTypeOK
<1> USE DEF NoNewId, Entered
<1>1. CASE EnterSkipped(t) \/ LeaveSkipped(t)
  <2>1. /\ UNCHANGED <<log, correlation>> /\ stage[t] \in {"enter", "leave"}
        /\ stage'[t] \in {"native", "enter", "leave"}
        /\ \A u \in Threads \ {t} : stage'[u] = stage[u] /\ pending'[u] = pending[u]
    BY <1>0, <1>1 DEF EnterSkipped, LeaveSkipped, Continue, batchVars
  <2> QED BY <2>1, NoClock DEF PassedSame, Phases
<1>2. CASE LeaveUnmatched(t) \/ LeaveThrows(t)
  <2>1. /\ UNCHANGED <<log, correlation>> /\ stage[t] = "leave" /\ stage'[t] = "native"
        /\ \A u \in Threads \ {t} : stage'[u] = stage[u] /\ pending'[u] = pending[u]
    BY <1>0, <1>2 DEF LeaveUnmatched, LeaveThrows, Throw, batchVars, callVars
  <2> QED BY <2>1, NoClock DEF PassedSame, Phases
<1>3. CASE EventBuffered(t) \/ BatchFull(t)
  <2>1. /\ Number(t) /\ UNCHANGED correlation /\ stage[t] = "clock"
        /\ stage'[t] # "clock"
        /\ \A u \in Threads \ {t} : stage'[u] = stage[u] /\ pending'[u] = pending[u]
    BY <1>0, <1>3 DEF EventBuffered, BatchFull, Continue, callVars, Recording, Phases
  <2> QED BY <2>1, NumberPassed DEF PassedSame, Phases
<1>4. CASE BatchPosted(t)
  BY <1>4 DEF BatchPosted, Passed, batchVars, callVars
<1>5. CASE SendReturns(t) \/ SendThrows(t)
  <2>1. /\ UNCHANGED <<log, correlation>> /\ stage[t] = "send"
        /\ stage'[t] # "clock"
        /\ \A u \in Threads \ {t} : stage'[u] = stage[u] /\ pending'[u] = pending[u]
    BY <1>0, <1>5 DEF SendReturns, SendThrows, AppendPending, Continue, callVars, Recording,
       Phases
  <2> QED BY <2>1, NoClock DEF PassedSame, Phases
<1>6. CASE EventDropped(t)
  <2>1. /\ UNCHANGED <<log, correlation>> /\ stage'[t] # "clock"
        /\ \A u \in Threads \ {t} : stage'[u] = stage[u] /\ pending'[u] = pending[u]
    BY <1>0, <1>6 DEF EventDropped, Continue, batchVars, callVars, Recording, Phases
  <2> QED BY <2>1 DEF Passed
<1> QED BY <1>1, <1>2, <1>3, <1>4, <1>5, <1>6 DEF CallbackStep

LEMMA QuietNativeCalls ==
  ASSUME AgentInv, NEW t \in Threads, NativeStep(t)
  PROVE  NoNewId /\ UNCHANGED correlation
<1>0. /\ stage \in [Threads -> {"native", "enter", "leave", "clock", "send"}]
      /\ pending \in [Threads -> PendingSet \cup {None}]
  BY DEF AgentInv, AgentTypeOK, ThreadTypeOK
<1> USE DEF NoNewId, Entered
<1>1. CASE (\E a \in Addresses : Call(t, a)) \/ Return(t)
  <2>1. /\ UNCHANGED <<log, correlation>> /\ stage[t] = "native"
        /\ stage'[t] \in {"enter", "leave"}
        /\ \A u \in Threads \ {t} : stage'[u] = stage[u] /\ pending'[u] = pending[u]
    BY <1>0, <1>1 DEF Call, Return, batchVars, callVars
  <2> QED BY <2>1, NoClock DEF PassedSame, Phases
<1>2. CASE \E p \in InsProbes : Hit(t, p)
  <2>1. PICK p \in InsProbes : Hit(t, p)
    BY <1>2
  <2>2. /\ UNCHANGED <<log, correlation>> /\ stage[t] = "native"
        /\ RecordEvent(t, p, "instruction", 0)
    BY <2>1 DEF Hit, HitCounted, batchVars
  <2> QED BY <2>2, RecordPassed
<1>3. CASE \E p \in InsProbes : HitThrows(t, p)
  BY <1>3 DEF HitThrows, batchVars, threadVars, Passed
<1> QED BY <1>1, <1>2, <1>3 DEF NativeStep

LEMMA QuietOtherCalls ==
  ASSUME RpcStep \/ Service \/ Still
  PROVE  NoNewId /\ UNCHANGED correlation
<1>1. UNCHANGED <<log, stage, pending, correlation>>
  BY DEF RpcStep, PollFinished, DeadlinePassed, FlushNothing, FlushThread,
     RpcBatchPosted, RpcSendReturns, RpcSendThrows, FlushDone, Service, Still, Install,
     InstallFails, BeginObservation, FinishObservation, Flush, BindFixtureMemory,
     threadVars, batchVars, callVars
<1> QED BY <1>1 DEF NoNewId, Entered, Passed

(* A call is entered: it gets the next id.                                 *)
LEMMA EnteredCalls ==
  ASSUME AgentInv, NEW t \in Threads, EnterRecorded(t) \/ EnterThrows(t)
  PROVE  /\ correlation' = correlation + 1 /\ IdsGrow
         /\ UNCHANGED log /\ stage[t] = "enter"
<1>1. stage[t] = "enter" /\ EnterCounted(t, Head(todo[t])) /\ UNCHANGED log
  BY DEF EnterRecorded, EnterThrows, batchVars
<1>2. correlation \in Nat /\ correlation' = correlation + 1
  BY <1>1 DEF EnterCounted, AgentInv, AgentTypeOK, CallTypeOK
<1> QED BY <1>1, <1>2 DEF IdsGrow

LEMMA EnterRecordedCalls ==
  ASSUME AgentInv, IdsInv, NEW t \in Threads, EnterRecorded(t)
  PROVE  IdsInv'
<1>1. /\ correlation' = correlation + 1 /\ IdsGrow /\ UNCHANGED log /\ stage[t] = "enter"
  BY EnteredCalls
<1>2. PICK new \in Nat : new = correlation'
  BY <1>1 DEF IdsGrow
<1>3. RecordEvent(t, Head(todo[t]), "enter", new)
  BY <1>2 DEF EnterRecorded
<1>4. \A u \in Threads : \A id :
        Entered(u, id)' <=> Entered(u, id) \/ (u = t /\ id = new)
  BY <1>1, <1>3, RecordPassed DEF Entered
<1>5. new \in 1..correlation' /\ new \notin 1..correlation
      /\ \A id \in 1..correlation : id \in 1..correlation' /\ id # new
  BY <1>1, <1>2 DEF IdsGrow
<1> SUFFICES ASSUME NEW u \in Threads, NEW id, Entered(u, id)'
             PROVE  id \in 1..correlation' /\ \A v \in Threads \ {u} : ~Entered(v, id)'
  BY DEF IdsInv
<1> QED BY <1>4, <1>5 DEF IdsInv

LEMMA IdsNext ==
  ASSUME AgentInv, IdsInv, AgentMove
  PROVE  IdsInv'
<1>0. UNCHANGED correlation => IdsGrow
  BY DEF IdsGrow, AgentInv, AgentTypeOK, CallTypeOK
<1>1. ASSUME NEW t \in Threads, CallbackStep(t) PROVE IdsInv'
  <2>1. CASE EnterRecorded(t)
    BY <2>1, EnterRecordedCalls
  <2>2. CASE EnterThrows(t)
    <3>1. /\ stage'[t] = "native"
          /\ \A u \in Threads \ {t} : stage'[u] = stage[u] /\ pending'[u] = pending[u]
      BY <2>2 DEF EnterThrows, Throw, AgentInv, AgentTypeOK, ThreadTypeOK
    <3>2. NoNewId
      BY <2>2, <3>1, EnteredCalls, NoClock DEF PassedSame, NoNewId, Entered, Phases
    <3> QED BY <2>2, <3>2, EnteredCalls, IdsKept
  <2>3. CASE LeaveRecorded(t)
    <3>1. /\ UNCHANGED <<log, correlation>> /\ stage[t] = "leave"
          /\ RecordEvent(t, Head(todo[t]), "leave", Last(Invocations(t)))
      BY <2>3 DEF LeaveRecorded, batchVars
    <3>2. NoNewId
      BY <3>1, RecordPassed DEF NoNewId, Entered
    <3> QED BY <1>0, <3>1, <3>2, IdsKept
  <2>4. CASE ~EnterRecorded(t) /\ ~EnterThrows(t) /\ ~LeaveRecorded(t)
    BY <1>0, <1>1, <2>4, QuietCalls, IdsKept
  <2> QED BY <2>1, <2>2, <2>3, <2>4
<1> QED BY <1>0, <1>1, QuietNativeCalls, QuietOtherCalls, IdsKept DEF AgentMove

LEMMA IdsInit == AgentInit => IdsInv
BY DEF AgentInit, IdsInv, Entered, Passed

-----------------------------------------------------------------------------
(* Until the writer raises, it takes every batch that reaches it, and      *)
(* takes an event twice that two batches carry.                            *)
HasTwice(es, e) == \E p, q \in DOMAIN es : p # q /\ es[p] = e /\ es[q] = e
NoErrorHandled == \A n \in DOMAIN posted : n <= handled => posted[n].type # "error"
HandledTaken ==
  \A n \in DOMAIN posted : IsBatch(n) /\ n <= handled =>
    \A e \in AgentEvents : Has(posted[n].recs, e) => Has(events, e)
TakenTwice ==
  \A m, n \in DOMAIN posted :
    IsBatch(m) /\ IsBatch(n) /\ m # n /\ m <= handled /\ n <= handled =>
      \A e \in AgentEvents :
        Has(posted[m].recs, e) /\ Has(posted[n].recs, e) => HasTwice(events, e)
TakenInv == raised = 0 => NoErrorHandled /\ HandledTaken /\ TakenTwice

LEMMA TakenGrows ==
  ASSUME RecorderTypes, TakenInv, Posts, UNCHANGED <<events, raised, handled>>
  PROVE  TakenInv'
<1>1. /\ posted \in Seq(MessageSet) /\ handled \in 0..Len(posted)
  BY DEF RecorderTypes, HostTypeOK, AgentInv, AgentTypeOK, BatchTypeOK
<1>2. \A n \in DOMAIN posted' : n <= handled => n \in DOMAIN posted /\ posted'[n] = posted[n]
  <2>1. CASE UNCHANGED posted
    BY <2>1
  <2>2. ASSUME NEW m, posted' = Append(posted, m)
        PROVE  \A n \in DOMAIN posted' : n <= handled =>
                 n \in DOMAIN posted /\ posted'[n] = posted[n]
    BY <1>1, <2>2
  <2> QED BY <2>1, <2>2 DEF Posts, Post
<1>3. AgentEvents' = AgentEvents
  BY DEF AgentEvents, Kinds, FnProbes
<1>4. SUFFICES ASSUME raised = 0 PROVE NoErrorHandled' /\ HandledTaken' /\ TakenTwice'
  BY DEF TakenInv
<1>5. NoErrorHandled /\ HandledTaken /\ TakenTwice
  BY <1>4 DEF TakenInv
<1>6. NoErrorHandled'
  BY <1>2, <1>5 DEF NoErrorHandled
<1>7. HandledTaken'
  BY <1>2, <1>3, <1>5 DEF HandledTaken, IsBatch
<1>8. TakenTwice'
  BY <1>2, <1>3, <1>5 DEF TakenTwice, IsBatch
<1> QED BY <1>6, <1>7, <1>8

LEMMA HasConcat ==
  ASSUME NEW S, NEW a \in Seq(S), NEW b \in Seq(S), NEW e
  PROVE  /\ Has(a, e) \/ Has(b, e) => Has(a \o b, e)
         /\ Has(a, e) /\ Has(b, e) => HasTwice(a \o b, e)
         /\ HasTwice(a, e) => HasTwice(a \o b, e)
<1>1. /\ \A i \in DOMAIN a : i \in DOMAIN (a \o b) /\ (a \o b)[i] = a[i]
      /\ \A i \in DOMAIN b : Len(a) + i \in DOMAIN (a \o b) /\ (a \o b)[Len(a) + i] = b[i]
  OBVIOUS
<1>2. \A i \in DOMAIN a : \A k \in DOMAIN b : i # Len(a) + k
  OBVIOUS
<1>3. Has(a, e) /\ Has(b, e) => HasTwice(a \o b, e)
  <2> SUFFICES ASSUME NEW i \in DOMAIN a, NEW k \in DOMAIN b, a[i] = e, b[k] = e
               PROVE  HasTwice(a \o b, e)
    BY DEF Has
  <2>1. PICK q : q = Len(a) + k
    OBVIOUS
  <2>2. /\ i \in DOMAIN (a \o b) /\ (a \o b)[i] = e
        /\ q \in DOMAIN (a \o b) /\ (a \o b)[q] = e /\ i # q
    BY <1>1, <1>2, <2>1
  <2> QED BY <2>2 DEF HasTwice
<1>4. HasTwice(a, e) => HasTwice(a \o b, e)
  BY <1>1 DEF HasTwice
<1> QED BY <1>1, <1>3, <1>4 DEF Has

(* A writer that does not raise has appended the batch it was handed, and  *)
(* was handed no "error".                                                  *)
LEMMA TakesWhole ==
  ASSUME RecorderTypes, DeliverMessage, raised' = 0
  PROVE  /\ raised = 0 /\ posted[handled + 1].type # "error"
         /\ IF IsBatch(handled + 1) THEN events' = events \o posted[handled + 1].recs
                                    ELSE UNCHANGED events
<1>1. /\ handled < Len(posted) /\ OnMessage(Wire(Next1)) /\ raised \in Nat
      /\ posted \in Seq(MessageSet) /\ handled + 1 \in DOMAIN posted
  BY DEF DeliverMessage, RecorderTypes, HostTypeOK, WriterTypeOK, AgentInv, AgentTypeOK,
     BatchTypeOK
<1>2. /\ Next1 = posted[handled + 1] /\ (IsBatch(handled + 1) <=> Next1.type = "batch")
  BY DEF Next1, IsBatch
<1>3. PICK m : m = Wire(Next1)
  OBVIOUS
<1>4. /\ m.type = Next1.type /\ (Next1.type = "batch" => m.recs = Next1.recs)
  BY <1>3 DEF Wire
<1>5. raised' # raised + 1
  BY <1>1
<1>6. CASE m.type = "batch"
  <2>1. AppendBatch(m)
    BY <1>1, <1>3, <1>6 DEF OnMessage, PayloadTypes
  <2>2. Appended(m)
    BY <1>5, <2>1 DEF AppendBatch, WithoutData, OutOfOrder, Misshapen, Torn, Raise
  <2> QED BY <1>2, <1>4, <1>6, <2>2 DEF Appended, Consumed
<1>7. CASE m.type # "batch"
  <2>1. m.type \in PayloadTypes
    BY <1>1, <1>3, <1>5, <1>7 DEF OnMessage, Raise, PayloadTypes
  <2>2. m.type # "error"
    BY <2>1 DEF PayloadTypes
  <2>3. UNCHANGED <<events, raised>>
    BY <1>1, <1>3, <1>7, <2>1 DEF OnMessage, writerVars
  <2> QED BY <1>2, <1>4, <1>7, <2>2, <2>3
<1> QED BY <1>6, <1>7

LEMMA TakenDelivers ==
  ASSUME RecorderTypes, TakenInv, DeliverMessage
  PROVE  TakenInv'
<1>1. /\ UNCHANGED posted /\ handled' = handled + 1 /\ handled \in Nat
      /\ posted \in Seq(MessageSet) /\ events \in Seq(AgentEvents)
      /\ handled + 1 \in DOMAIN posted
  BY DEF DeliverMessage, RecorderTypes, HostTypeOK, WriterTypeOK, AgentInv, AgentTypeOK,
     BatchTypeOK, agentVars
<1>2. AgentEvents' = AgentEvents
  BY DEF AgentEvents, Kinds, FnProbes
<1>3. SUFFICES ASSUME raised' = 0 PROVE NoErrorHandled' /\ HandledTaken' /\ TakenTwice'
  BY DEF TakenInv
<1>4. /\ raised = 0 /\ posted[handled + 1].type # "error"
      /\ IF IsBatch(handled + 1) THEN events' = events \o posted[handled + 1].recs
                                 ELSE UNCHANGED events
  BY <1>3, TakesWhole
<1>5. NoErrorHandled /\ HandledTaken /\ TakenTwice
  BY <1>4 DEF TakenInv
<1>6. \A n \in DOMAIN posted : n <= handled + 1 => n <= handled \/ n = handled + 1
  BY <1>1
<1>7. NoErrorHandled'
  BY <1>1, <1>4, <1>5, <1>6 DEF NoErrorHandled
<1>8. CASE ~IsBatch(handled + 1)
  <2>1. \A n \in DOMAIN posted : IsBatch(n) /\ n <= handled + 1 => n <= handled
    BY <1>6, <1>8
  <2>2. UNCHANGED events
    BY <1>4, <1>8
  <2>3. HandledTaken'
    BY <1>1, <1>2, <1>5, <2>1, <2>2 DEF HandledTaken, IsBatch
  <2>4. TakenTwice'
    BY <1>1, <1>2, <1>5, <2>1, <2>2 DEF TakenTwice, IsBatch
  <2> QED BY <1>7, <2>3, <2>4
<1>9. CASE IsBatch(handled + 1)
  <2>1. posted[handled + 1] \in MessageSet
    BY <1>1
  <2>2. PICK b \in Seq(AgentEvents) : b = posted[handled + 1].recs
    BY <1>9, <2>1 DEF IsBatch, MessageSet
  <2>3. PICK a \in Seq(AgentEvents) : a = events
    BY <1>1
  <2>4. events' = a \o b
    BY <1>4, <1>9, <2>2, <2>3
  <2>5. HandledTaken'
    <3> SUFFICES ASSUME NEW n \in DOMAIN posted, IsBatch(n), n <= handled + 1,
                        NEW e \in AgentEvents, Has(posted[n].recs, e)
                 PROVE  Has(a \o b, e)
      BY <1>1, <1>2, <2>4 DEF HandledTaken, IsBatch
    <3>1. Has(a, e) \/ Has(b, e)
      BY <1>5, <1>6, <2>2, <2>3 DEF HandledTaken
    <3> QED BY <3>1, HasConcat
  <2>6. TakenTwice'
    <3> SUFFICES ASSUME NEW m \in DOMAIN posted, NEW n \in DOMAIN posted, IsBatch(m), IsBatch(n),
                        m # n, m <= handled + 1, n <= handled + 1,
                        NEW e \in AgentEvents, Has(posted[m].recs, e), Has(posted[n].recs, e)
                 PROVE  HasTwice(a \o b, e)
      BY <1>1, <1>2, <2>4 DEF TakenTwice, IsBatch
    <3>1. CASE m <= handled /\ n <= handled
      <4>1. HasTwice(a, e)
        BY <1>5, <2>3, <3>1 DEF TakenTwice
      <4> QED BY <4>1, HasConcat
    <3>2. CASE ~(m <= handled /\ n <= handled)
      <4>1. Has(a, e) /\ Has(b, e)
        BY <1>5, <1>6, <2>2, <2>3, <3>2 DEF HandledTaken
      <4> QED BY <4>1, HasConcat
    <3> QED BY <3>1, <3>2
  <2> QED BY <1>7, <2>5, <2>6
<1> QED BY <1>8, <1>9

LEMMA TakenReplies ==
  ASSUME RecorderTypes, TakenInv, DeliverReply
  PROVE  TakenInv'
<1>1. /\ UNCHANGED <<posted, events, raised>> /\ handled' = handled + 1
      /\ posted \in Seq(MessageSet) /\ handled \in Nat
      /\ posted[handled + 1].type = "reply"
  BY DEF DeliverReply, RecorderTypes, HostTypeOK, AgentInv, AgentTypeOK, BatchTypeOK,
     agentButLoaded, writerVars, Next1
<1>2. \A n \in DOMAIN posted : n <= handled + 1 => n <= handled \/ posted[n].type = "reply"
  BY <1>1
<1>3. AgentEvents' = AgentEvents
  BY DEF AgentEvents, Kinds, FnProbes
<1>4. NoErrorHandled => NoErrorHandled'
  BY <1>1, <1>2 DEF NoErrorHandled
<1>5. HandledTaken => HandledTaken'
  BY <1>1, <1>2, <1>3 DEF HandledTaken, IsBatch
<1>6. TakenTwice => TakenTwice'
  BY <1>1, <1>2, <1>3 DEF TakenTwice, IsBatch
<1> QED BY <1>1, <1>4, <1>5, <1>6 DEF TakenInv

LEMMA TakenNext ==
  ASSUME RecorderTypes, TakenInv, [Next]_vars
  PROVE  TakenInv'
<1>1. CASE Deliver
  BY <1>1, TakenDelivers, TakenReplies DEF Deliver
<1>2. CASE ~Deliver
  <2>1. UNCHANGED <<events, raised, handled>>
    <3>1. CASE HostStep
      BY <3>1 DEF HostStep, InstallReported, InstallTimeout, TargetGone, AgentErrorCheck,
         Begin, Finish, Unload, UnloadReturns, BalanceCheck, SequenceCheck, WriteFile,
         DropCheck, RequiredCheck, Fails, Fail, Goes, writerVars
    <3>2. CASE Target \/ TargetDies \/ Terminated \/ UNCHANGED vars
      BY <3>2 DEF Target, TargetDies, Terminated, vars, writerVars, hostVars
    <3> QED BY <1>2, <3>1, <3>2 DEF Next
  <2> QED BY <2>1, NextIsMove, MovePosts, TakenGrows
<1> QED BY <1>1, <1>2

LEMMA TakenInit == Init => TakenInv
<1> SUFFICES ASSUME Init PROVE TakenInv
  OBVIOUS
<1>1. posted = <<>>
  BY DEF Init, AgentInit
<1> QED BY <1>1 DEF TakenInv, NoErrorHandled, HandledTaken, TakenTwice

-----------------------------------------------------------------------------
(* No message is still to come when unload() has returned, so what is      *)
(* written is all there is.                                                *)
WrittenInv ==
  /\ host \in Checking \cup Written => handled = Len(posted)
  /\ host \in Written => file = events /\ ~loaded

(* The script takes no step once it is gone.                               *)
LEMMA AgentLoaded ==
  ASSUME AgentStep
  PROVE  loaded
<1>1. CASE RpcStep \/ Install \/ InstallFails
  BY <1>1, Zenon DEF RpcStep, PollFinished, DeadlinePassed, FlushNothing, FlushThread,
     RpcBatchPosted, RpcSendReturns, RpcSendThrows, FlushDone, Install, InstallFails
<1>2. ASSUME NEW t \in Threads, CallbackStep(t) PROVE loaded
  BY <1>2, Zenon DEF CallbackStep, EnterSkipped, EnterRecorded, EnterThrows, LeaveUnmatched,
     LeaveSkipped, LeaveRecorded, LeaveThrows, EventDropped, EventBuffered, BatchFull,
     BatchPosted, SendReturns, SendThrows
<1>3. ASSUME NEW t \in Threads, NativeStep(t) PROVE loaded
  BY <1>3, Zenon DEF NativeStep, Call, Return, Hit, HitThrows, HitCounted
<1> QED BY <1>1, <1>2, <1>3 DEF AgentStep

LEMMA WrittenNext ==
  ASSUME ~LateMessages, RecorderInv, RecorderTypes, WrittenInv, [Next]_vars
  PROVE  WrittenInv'
<1> USE DEF Checking, Written
<1>0. /\ host \in Checking => ~loaded
      /\ posted \in Seq(MessageSet) /\ handled \in 0..Len(posted)
  BY DEF RecorderInv, HostInv, Unloaded, RecorderTypes, HostTypeOK, AgentInv, AgentTypeOK,
     BatchTypeOK
<1>1. CASE host \notin Checking \cup Written /\ ~UnloadReturns
  <2>1. host' \notin Checking \cup Written
    <3>1. CASE HostStep
      BY <1>1, <3>1 DEF HostStep, InstallReported, InstallTimeout, TargetGone, AgentErrorCheck,
         Begin, Finish, Unload, UnloadReturns, BalanceCheck, SequenceCheck, WriteFile,
         DropCheck, RequiredCheck, Fails, Fail, Goes
    <3>2. CASE Deliver
      BY <1>1, <3>2 DEF Deliver, DeliverMessage, DeliverReply, Fail
    <3>3. CASE Target \/ TargetDies \/ Terminated \/ UNCHANGED vars
      BY <1>1, <3>3 DEF Target, TargetDies, Terminated, vars, hostVars
    <3> QED BY <3>1, <3>2, <3>3 DEF Next
  <2> QED BY <2>1 DEF WrittenInv
<1>2. CASE UnloadReturns
  BY <1>2 DEF UnloadReturns, Goes, WrittenInv, agentVars
<1>3. CASE host \in Checking \cup Written
  <2>1. handled = Len(posted) /\ ~loaded
    BY <1>0, <1>3 DEF WrittenInv
  <2>2. CASE HostStep
    <3>1. UNCHANGED <<handled, posted, loaded, events>> \/ host' = "failed"
      BY <1>3, <2>2 DEF HostStep, InstallReported, InstallTimeout, TargetGone,
         AgentErrorCheck, Begin, Finish, Unload, UnloadReturns, BalanceCheck, SequenceCheck,
         WriteFile, DropCheck, RequiredCheck, Fails, Fail, Goes, agentVars, modeVars,
         writerVars
    <3>2. \/ host' = "failed" \/ host' \in Checking
          \/ host' = "counting" /\ file' = events
          \/ host \in Written /\ host' \in Written /\ UNCHANGED file
      BY <1>3, <2>2 DEF HostStep, InstallReported, InstallTimeout, TargetGone,
         AgentErrorCheck, Begin, Finish, Unload, UnloadReturns, BalanceCheck, SequenceCheck,
         WriteFile, DropCheck, RequiredCheck, Fails, Fail, Goes
    <3> QED BY <2>1, <3>1, <3>2 DEF WrittenInv
  <2>3. ~Deliver
    BY <1>0, <2>1 DEF Deliver, DeliverMessage, DeliverReply
  <2>4. ~Target
    BY <2>1, AgentLoaded DEF Target
  <2>5. CASE TargetDies \/ Terminated \/ UNCHANGED vars
    BY <2>1, <2>5 DEF TargetDies, Terminated, vars, agentVars, modeVars, writerVars, hostVars,
       WrittenInv
  <2> QED BY <2>2, <2>3, <2>4, <2>5 DEF Next
<1> QED BY <1>1, <1>2, <1>3

LEMMA WrittenInit == Init => WrittenInv
BY DEF Init, WrittenInv, Checking, Written


-----------------------------------------------------------------------------
(* A file that holds all of every thread's log, in the order of the        *)
(* numbers, nests when the logs do.                                        *)
LEMMA SameOrder ==
  ASSUME NEW es \in Seq(AgentEvents), Contiguous(es),
         NEW i \in DOMAIN es, NEW k \in DOMAIN es, es[i].tid = es[k].tid, i < k
  PROVE  es[i].seq < es[k].seq
<1>0. i \in Nat /\ k \in Nat /\ es[i] \in AgentEvents /\ es[k] \in AgentEvents
  OBVIOUS
<1>1. i \in Nat /\ k \in Nat /\ es[i].seq \in Nat /\ es[k].seq \in Nat
  BY <1>0 DEF AgentEvents, EventSet
<1> DEFINE A == {j \in 1..i : es[j].tid = es[i].tid}
           B == {j \in 1..k : es[j].tid = es[k].tid}
<1>2. Cardinality(A) = es[i].seq /\ Cardinality(B) = es[k].seq
  BY DEF Contiguous
<1>3. k \in B /\ k \notin A /\ A \in SUBSET B
  BY <1>1
<1>4. IsFiniteSet(1..k) /\ B \in SUBSET (1..k)
  BY <1>1, FS_Interval
<1> HIDE DEF A, B
<1>5. IsFiniteSet(B)
  BY <1>4, FS_Subset
<1>6. Cardinality(A) <= Cardinality(B) /\ (Cardinality(B) = Cardinality(A) => B = A)
  BY <1>3, <1>5, FS_Subset
<1>7. Cardinality(A) # Cardinality(B)
  BY <1>3, <1>6
<1> QED BY <1>1, <1>2, <1>6, <1>7

(* es holds the whole of the log L of thread t, in order.                  *)
Holds(es, L, t, c) ==
  /\ LogOK(L, t, c)
  /\ \A i \in DOMAIN es : es[i].tid = t => es[i].seq \in DOMAIN L /\ L[es[i].seq] = es[i]
  /\ \A n \in DOMAIN L : Has(es, L[n])
  /\ \A i, k \in DOMAIN es :
       es[i].tid = t /\ es[k].tid = t => (i < k <=> es[i].seq < es[k].seq)

LEMMA LogIds ==
  ASSUME NEW L, NEW t, NEW c \in Nat, LogOK(L, t, c), NEW i \in Enters(L), NEW k \in Enters(L)
  PROVE  L[i].id \in Nat /\ (i < k => L[i].id < L[k].id) /\ (k < i => L[k].id < L[i].id)
BY DEF LogOK

LEMMA LogLeaves ==
  ASSUME NEW L, NEW t, NEW c, LogOK(L, t, c), NEW i \in Enters(L),
         NEW j \in Leaves(L), NEW k \in Leaves(L), i < j, i < k,
         L[j].id = L[i].id, L[k].id = L[i].id
  PROVE  j = k
BY DEF LogOK

LEMMA LogUnique ==
  ASSUME NEW L, NEW t, NEW c \in Nat, LogOK(L, t, c),
         NEW m \in DOMAIN L, NEW n \in DOMAIN L, L[m] = L[n],
         L[m].phase \in {"enter", "leave"}
  PROVE  m = n
<1>1. DOMAIN L = 1..Len(L) /\ Len(L) \in Nat
  BY DEF LogOK
<1>2. ASSUME NEW i \in Enters(L), NEW k \in Enters(L), L[i].id = L[k].id PROVE i = k
  <2>1. i \in Nat /\ k \in Nat /\ L[i].id \in Nat
    BY <1>1 DEF Enters, At, LogOK
  <2>2. (i < k => L[i].id < L[k].id) /\ (k < i => L[k].id < L[i].id)
    BY DEF LogOK
  <2>3. ~(i < k) /\ ~(k < i)
    BY <1>2, <2>1, <2>2
  <2> QED BY <2>1, <2>3
<1>3. CASE L[m].phase = "enter"
  BY <1>2, <1>3 DEF Enters, At
<1>4. CASE L[m].phase = "leave"
  <2>1. m \in Leaves(L) /\ n \in Leaves(L)
    BY <1>4 DEF Leaves, At
  <2>2. PICK i \in Enters(L) : i < m /\ L[i].id = L[m].id
    BY <2>1 DEF LogOK
  <2>3. PICK k \in Enters(L) : k < n /\ L[k].id = L[n].id
    BY <2>1 DEF LogOK
  <2>4. i = k
    BY <1>2, <2>2, <2>3
  <2> QED BY <2>1, <2>2, <2>3, <2>4 DEF LogOK
<1> QED BY <1>3, <1>4

LEMMA Placed ==
  ASSUME NEW es \in Seq(AgentEvents), NEW L, NEW t, NEW c \in Nat, Holds(es, L, t, c),
         NEW n \in Enters(L) \cup Leaves(L)
  PROVE  \E q \in DOMAIN es : es[q] = L[n] /\ es[q].tid = t /\ es[q].seq = n
<1>1. n \in DOMAIN L /\ L[n].phase \in {"enter", "leave"} /\ L[n].tid = t
  BY DEF Enters, Leaves, At, Holds, LogOK
<1>2. PICK q \in DOMAIN es : es[q] = L[n]
  BY <1>1 DEF Holds, Has
<1>3. es[q].seq \in DOMAIN L /\ L[es[q].seq] = L[n]
  BY <1>1, <1>2 DEF Holds
<1>4. es[q].seq = n
  BY <1>1, <1>3, LogUnique DEF Holds
<1> QED BY <1>1, <1>2, <1>4

(* The file and the log tell of the same enters and leaves.                *)
LEMMA EventOf ==
  ASSUME NEW es \in Seq(AgentEvents), NEW L, NEW t, NEW c, Holds(es, L, t, c),
         NEW i \in DOMAIN es, es[i].tid = t
  PROVE  /\ es[i].seq \in DOMAIN L /\ es[i].seq \in Nat /\ i \in Nat
         /\ L[es[i].seq] = es[i]
         /\ i \in Enters(es) <=> es[i].seq \in Enters(L)
         /\ i \in Leaves(es) <=> es[i].seq \in Leaves(L)
<1>1. es[i].seq \in DOMAIN L /\ L[es[i].seq] = es[i]
  BY DEF Holds
<1>2. es[i] \in AgentEvents /\ i \in Nat
  OBVIOUS
<1>3. es[i].seq \in Nat
  BY <1>2 DEF AgentEvents, EventSet
<1> QED BY <1>1, <1>2, <1>3 DEF Enters, Leaves, At

Balances(L) == \A i \in Enters(L) : HasLeave(L, i)
Apart(logs) ==
  \A t, u \in Threads : t # u =>
    \A i \in Enters(logs[t]) : \A k \in Enters(logs[u]) : logs[t][i].id # logs[u][k].id

LEMMA AllHeldNest ==
  ASSUME NEW es \in Seq(AgentEvents), NEW logs, NEW c \in Nat, Apart(logs),
         \A t \in Threads : Holds(es, logs[t], t, c) /\ Balances(logs[t])
  PROVE  Forest(es)
<1>1. ASSUME NEW i \in DOMAIN es PROVE es[i].tid \in Threads
  <2>1. es[i] \in AgentEvents
    OBVIOUS
  <2> QED BY <2>1 DEF AgentEvents, EventSet
<1>2. Enters(es) \subseteq DOMAIN es /\ Leaves(es) \subseteq DOMAIN es
      /\ \A i \in DOMAIN es : i \in Nat
  BY DEF Enters, Leaves, At
<1>3. \A i, k \in Enters(es) : i # k => es[i].id # es[k].id
  <2> SUFFICES ASSUME NEW i \in Enters(es), NEW k \in Enters(es), es[i].id = es[k].id
               PROVE  i = k
    OBVIOUS
  <2>1. PICK t \in Threads : t = es[i].tid
    BY <1>1, <1>2
  <2>2. PICK u \in Threads : u = es[k].tid
    BY <1>1, <1>2
  <2>3. PICK L : L = logs[t]
    OBVIOUS
  <2>4. PICK K : K = logs[u]
    OBVIOUS
  <2>5. Holds(es, L, t, c) /\ Holds(es, K, u, c)
    BY <2>3, <2>4
  <2>6. es[i].seq \in Enters(L) /\ L[es[i].seq] = es[i] /\ es[i].seq \in Nat /\ i \in Nat
    BY <1>2, <2>1, <2>5, EventOf
  <2>7. es[k].seq \in Enters(K) /\ K[es[k].seq] = es[k] /\ es[k].seq \in Nat /\ k \in Nat
    BY <1>2, <2>2, <2>5, EventOf
  <2>8. t = u
    BY <2>3, <2>4, <2>6, <2>7 DEF Apart
  <2>9. /\ es[i].seq < es[k].seq => es[i].id < es[k].id
        /\ es[k].seq < es[i].seq => es[k].id < es[i].id
        /\ es[i].id \in Nat
    <3>1. LogOK(L, t, c) /\ L = K
      BY <2>3, <2>4, <2>5, <2>8 DEF Holds
    <3>2. PICK m \in Enters(L) : m = es[i].seq /\ L[m] = es[i]
      BY <2>6
    <3>3. PICK n \in Enters(L) : n = es[k].seq /\ L[n] = es[k]
      BY <2>7, <3>1
    <3> QED BY <3>1, <3>2, <3>3, LogIds
  <2>10. es[i].seq = es[k].seq
    BY <2>6, <2>7, <2>9
  <2>11. i < k <=> es[i].seq < es[k].seq
    BY <1>2, <2>1, <2>2, <2>5, <2>8 DEF Holds
  <2>12. k < i <=> es[k].seq < es[i].seq
    BY <1>2, <2>1, <2>2, <2>5, <2>8 DEF Holds
  <2> QED BY <2>6, <2>7, <2>10, <2>11, <2>12
<1>4. ASSUME NEW i \in Enters(es), NEW j \in LeavesOf(es, i), NEW k \in LeavesOf(es, i)
      PROVE  j = k
  <2>1. PICK t \in Threads : t = es[i].tid
    BY <1>1, <1>2
  <2>2. PICK L : L = logs[t]
    OBVIOUS
  <2>3. /\ j \in Leaves(es) /\ k \in Leaves(es) /\ i < j /\ i < k
        /\ es[j].tid = t /\ es[k].tid = t /\ es[j].id = es[i].id /\ es[k].id = es[i].id
        /\ Holds(es, L, t, c)
    BY <2>1, <2>2 DEF LeavesOf
  <2>4. es[i].seq \in Enters(L) /\ L[es[i].seq] = es[i]
    BY <1>2, <2>1, <2>3, EventOf
  <2>5. es[j].seq \in Leaves(L) /\ L[es[j].seq] = es[j] /\ es[j].seq \in Nat /\ j \in Nat
    BY <1>2, <2>3, EventOf
  <2>6. es[k].seq \in Leaves(L) /\ L[es[k].seq] = es[k] /\ es[k].seq \in Nat /\ k \in Nat
    BY <1>2, <2>3, EventOf
  <2>7. es[i].seq < es[j].seq /\ es[i].seq < es[k].seq
    BY <1>2, <2>1, <2>3 DEF Holds
  <2>8. es[j].seq = es[k].seq
    <3>1. LogOK(L, t, c)
      BY <2>3 DEF Holds
    <3> QED BY <2>3, <2>4, <2>5, <2>6, <2>7, <3>1, LogLeaves
  <2>9. (j < k <=> es[j].seq < es[k].seq) /\ (k < j <=> es[k].seq < es[j].seq)
    BY <1>2, <2>3 DEF Holds
  <2> QED BY <2>5, <2>6, <2>8, <2>9
<1>5. ASSUME NEW i \in Enters(es)
      PROVE  /\ Cardinality(LeavesOf(es, i)) <= 1
             /\ LeavesOf(es, i) # {} => End(es, i) \in LeavesOf(es, i)
  <2>1. CASE LeavesOf(es, i) = {}
    BY <2>1, FS_EmptySet
  <2>2. CASE LeavesOf(es, i) # {}
    <3>1. PICK j : j \in LeavesOf(es, i)
      BY <2>2
    <3>2. LeavesOf(es, i) = {j}
      BY <1>4, <3>1
    <3>3. Cardinality(LeavesOf(es, i)) = 1
      BY <3>2, FS_Singleton
    <3> QED BY <2>2, <3>3 DEF End
  <2> QED BY <2>1, <2>2
(* A leave of the log that follows an enter of the file is its leave.      *)
<1>6. ASSUME NEW i \in Enters(es), NEW t \in Threads, t = es[i].tid,
             NEW l \in Leaves(logs[t]), es[i].seq < l, logs[t][l].id = es[i].id
      PROVE  \E q \in LeavesOf(es, i) : es[q].seq = l
  <2>1. PICK L : L = logs[t]
    OBVIOUS
  <2>2. Holds(es, L, t, c) /\ l \in Leaves(L)
    BY <2>1
  <2>3. PICK q \in DOMAIN es : es[q] = L[l] /\ es[q].tid = t /\ es[q].seq = l
    BY <2>2, Placed
  <2>4. q \in Leaves(es)
    BY <2>2, <2>3, EventOf
  <2>5. i < q
    BY <1>2, <1>6, <2>2, <2>3 DEF Holds
  <2> QED BY <1>6, <2>1, <2>3, <2>4, <2>5 DEF LeavesOf
<1>7. \A j \in Leaves(es) : \E i \in Enters(es) : j \in LeavesOf(es, i)
  <2> SUFFICES ASSUME NEW j \in Leaves(es) PROVE \E i \in Enters(es) : j \in LeavesOf(es, i)
    OBVIOUS
  <2>1. PICK t \in Threads : t = es[j].tid
    BY <1>1, <1>2
  <2>2. PICK L : L = logs[t]
    OBVIOUS
  <2>3. Holds(es, L, t, c)
    BY <2>2
  <2>4. es[j].seq \in Leaves(L) /\ L[es[j].seq] = es[j]
    BY <1>2, <2>1, <2>3, EventOf
  <2>5. PICK n \in Enters(L) : n < es[j].seq /\ L[n].id = es[j].id
    BY <2>3, <2>4 DEF Holds, LogOK
  <2>6. PICK i \in DOMAIN es : es[i] = L[n] /\ es[i].tid = t /\ es[i].seq = n
    BY <2>3, <2>5, Placed
  <2>7. i \in Enters(es)
    BY <2>3, <2>5, <2>6, EventOf
  <2>8. i < j
    BY <1>2, <2>1, <2>3, <2>5, <2>6 DEF Holds
  <2> QED BY <2>1, <2>5, <2>6, <2>7, <2>8 DEF LeavesOf
<1>8. ASSUME NEW i \in Enters(es), NEW k \in Enters(es), Encloses(es, i, k),
             LeavesOf(es, i) # {}
      PROVE  End(es, k) < End(es, i)
  <2>1. PICK j \in LeavesOf(es, i) : j = End(es, i) /\ i < k /\ k < j /\ es[i].tid = es[k].tid
    BY <1>5, <1>8 DEF Encloses
  <2>2. PICK t \in Threads : t = es[i].tid
    BY <1>1, <1>2
  <2>3. PICK L : L = logs[t]
    OBVIOUS
  <2>4. /\ Holds(es, L, t, c) /\ j \in Leaves(es) /\ es[j].tid = t /\ es[k].tid = t
        /\ es[j].id = es[i].id
    BY <2>1, <2>2, <2>3 DEF LeavesOf
  <2>5. es[i].seq \in Enters(L) /\ L[es[i].seq] = es[i]
    BY <1>2, <2>2, <2>4, EventOf
  <2>6. es[k].seq \in Enters(L) /\ L[es[k].seq] = es[k]
    BY <1>2, <2>4, EventOf
  <2>7. es[j].seq \in Leaves(L) /\ L[es[j].seq] = es[j]
    BY <1>2, <2>4, EventOf
  <2>8. es[i].seq < es[k].seq /\ es[k].seq < es[j].seq
    BY <1>2, <2>1, <2>2, <2>4 DEF Holds
  <2>9. PICK l \in Leaves(L) : es[k].seq < l /\ l < es[j].seq /\ L[l].id = es[k].id
    BY <2>4, <2>5, <2>6, <2>7, <2>8 DEF Holds, LogOK
  <2>10. PICK q \in LeavesOf(es, k) : es[q].seq = l
    BY <1>6, <2>3, <2>4, <2>9
  <2>11. q \in DOMAIN es /\ es[q].tid = t
    BY <1>2, <2>4, <2>10 DEF LeavesOf
  <2>12. q < j
    BY <1>2, <2>4, <2>9, <2>10, <2>11 DEF Holds
  <2>13. End(es, k) = q
    BY <1>4, <1>5, <2>10
  <2> QED BY <2>1, <2>12, <2>13
<1>9. Complete(es)
  <2> SUFFICES ASSUME NEW i \in Enters(es) PROVE LeavesOf(es, i) # {}
    BY DEF Complete
  <2>1. PICK t \in Threads : t = es[i].tid
    BY <1>1, <1>2
  <2>2. PICK L : L = logs[t]
    OBVIOUS
  <2>3. Holds(es, L, t, c) /\ Balances(L)
    BY <2>2
  <2>4. es[i].seq \in Enters(L) /\ L[es[i].seq] = es[i]
    BY <1>2, <2>1, <2>3, EventOf
  <2>5. PICK l \in Leaves(L) : es[i].seq < l /\ L[l].id = es[i].id
    BY <2>3, <2>4 DEF Balances, HasLeave
  <2> QED BY <1>6, <2>1, <2>2, <2>5
<1>10. Nests(es)
  BY <1>3, <1>5, <1>7, <1>8 DEF Nests
<1> QED BY <1>9, <1>10 DEF Forest

-----------------------------------------------------------------------------
-----------------------------------------------------------------------------
(* A sum over a finite set is the number of elements of a set of pairs:    *)
(* what each counter counts, told apart.                                   *)

Tallied(c, S) == UNION {{x} \X (1..c[x]) : x \in S}

LEMMA TallyEmpty ==
  ASSUME NEW c
  PROVE  IsFiniteSet(Tallied(c, {})) /\ Cardinality(Tallied(c, {})) = 0
<1>1. Tallied(c, {}) = {}
  BY DEF Tallied
<1> QED BY <1>1, FS_EmptySet

LEMMA TallyOne ==
  ASSUME NEW x, NEW n \in Nat
  PROVE  IsFiniteSet({x} \X (1..n)) /\ Cardinality({x} \X (1..n)) = n
<1> DEFINE f == [i \in 1..n |-> <<x, i>>]
<1>1. f \in Bijection(1..n, {x} \X (1..n))
  <2>1. f \in [1..n -> {x} \X (1..n)]
    OBVIOUS
  <2>2. ASSUME NEW i \in 1..n, NEW k \in 1..n, f[i] = f[k] PROVE i = k
    BY <2>2
  <2>3. ASSUME NEW y \in {x} \X (1..n) PROVE \E i \in 1..n : f[i] = y
    <3>1. y[2] \in 1..n /\ y = <<x, y[2]>>
      OBVIOUS
    <3> QED BY <3>1
  <2> HIDE DEF f
  <2> QED BY <2>1, <2>2, <2>3 DEF Bijection, Injection, Surjection, IsInjective
<1>2. IsFiniteSet(1..n) /\ Cardinality(1..n) = n
  BY FS_Interval
<1> QED BY <1>1, <1>2, FS_Bijection DEF ExistsBijection

LEMMA TallyFinite ==
  ASSUME NEW S, IsFiniteSet(S), NEW c, \A x \in S : c[x] \in Nat
  PROVE  IsFiniteSet(Tallied(c, S))
<1> DEFINE Of(x) == {x} \X (1..c[x])
<1> DEFINE I == {Of(x) : x \in S}
           f == [x \in S |-> Of(x)]
<1>1. IsFiniteSet(I)
  <2>1. f \in Surjection(S, I)
    BY DEF Surjection
  <2> QED BY <2>1, FS_Surjection
<1>2. \A x \in S : IsFiniteSet(Of(x))
  BY TallyOne
<1>3. \A T \in I : IsFiniteSet(T)
  BY <1>2
<1>4. IsFiniteSet(UNION I)
  BY <1>1, <1>3, FS_UNION
<1> QED BY <1>4 DEF Tallied

LEMMA TallyStep ==
  ASSUME NEW S, IsFiniteSet(S), NEW c, \A x \in S : c[x] \in Nat, NEW x \in S
  PROVE  Cardinality(Tallied(c, S)) = c[x] + Cardinality(Tallied(c, S \ {x}))
<1> DEFINE A == {x} \X (1..c[x])
           B == Tallied(c, S \ {x})
<1>1. IsFiniteSet(A) /\ Cardinality(A) = c[x]
  BY TallyOne
<1>2. IsFiniteSet(B) /\ Cardinality(B) \in Nat
  BY TallyFinite, FS_RemoveElement, FS_CardinalityType
<1>3. A \cap B = {}
  BY DEF Tallied
<1>4. A \cup B = Tallied(c, S)
  BY DEF Tallied
<1>5. Cardinality(A \cup B) = Cardinality(A) + Cardinality(B) - Cardinality(A \cap B)
  BY <1>1, <1>2, FS_Union
<1>6. Cardinality(A \cap B) = 0
  BY <1>3, FS_EmptySet
<1> HIDE DEF A, B
<1>7. Cardinality(A \cup B) = c[x] + Cardinality(B)
  BY <1>1, <1>2, <1>5, <1>6
<1> QED BY <1>4, <1>7 DEF B

SumOf(c, f, s) ==
  IF s = {} THEN 0 ELSE LET x == CHOOSE x \in s : TRUE IN c[x] + f[s \ {x}]
Sums(c, S, f) == f = [s \in SUBSET S |-> SumOf(c, f, s)]

LEMMA SumExists ==
  ASSUME NEW S, IsFiniteSet(S), NEW c, \A x \in S : c[x] \in Nat
  PROVE  \E f : Sums(c, S, f) /\ f = [s \in SUBSET S |-> Cardinality(Tallied(c, s))]
<1> DEFINE f == [s \in SUBSET S |-> Cardinality(Tallied(c, s))]
<1>1. ASSUME NEW s \in SUBSET S PROVE f[s] = SumOf(c, f, s)
  <2>1. CASE s = {}
    BY <2>1, TallyEmpty DEF SumOf
  <2>2. CASE s # {}
    <3> DEFINE x == CHOOSE x \in s : TRUE
    <3>1. x \in s
      BY <2>2
    <3> HIDE DEF x
    <3>2. IsFiniteSet(s) /\ \A y \in s : c[y] \in Nat
      BY FS_Subset
    <3>3. Cardinality(Tallied(c, s)) = c[x] + Cardinality(Tallied(c, s \ {x}))
      BY <3>1, <3>2, TallyStep
    <3>4. s \ {x} \in SUBSET S
      OBVIOUS
    <3>5. f[s] = c[x] + f[s \ {x}]
      BY <3>3, <3>4
    <3> QED BY <2>2, <3>5 DEF x, SumOf
  <2> QED BY <2>1, <2>2
<1>2. f = [s \in SUBSET S |-> f[s]]
  OBVIOUS
<1> HIDE DEF f
<1>3. [s \in SUBSET S |-> f[s]] = [s \in SUBSET S |-> SumOf(c, f, s)]
  BY <1>1
<1>4. Sums(c, S, f)
  BY <1>2, <1>3 DEF Sums
<1> QED BY <1>4 DEF f

LEMMA SumIs ==
  ASSUME NEW S, IsFiniteSet(S), NEW c, \A x \in S : c[x] \in Nat,
         NEW f, Sums(c, S, f)
  PROVE  \A s \in SUBSET S : f[s] = Cardinality(Tallied(c, s))
<1> DEFINE Good == {n \in Nat : \A s \in SUBSET S :
                      Cardinality(s) = n => f[s] = Cardinality(Tallied(c, s))}
<1>0. ASSUME NEW s \in SUBSET S PROVE f[s] = SumOf(c, f, s)
  BY DEF Sums
<1>1. 0 \in Good
  <2> SUFFICES ASSUME NEW s \in SUBSET S, Cardinality(s) = 0
               PROVE  f[s] = Cardinality(Tallied(c, s))
    OBVIOUS
  <2>1. s = {}
    BY FS_Subset, FS_EmptySet
  <2> QED BY <1>0, <2>1, TallyEmpty DEF SumOf
<1>2. ASSUME NEW n \in Nat, n \in Good PROVE n + 1 \in Good
  <2> SUFFICES ASSUME NEW s \in SUBSET S, Cardinality(s) = n + 1
               PROVE  f[s] = Cardinality(Tallied(c, s))
    OBVIOUS
  <2> DEFINE x == CHOOSE x \in s : TRUE
  <2>1. IsFiniteSet(s) /\ \A y \in s : c[y] \in Nat
    BY FS_Subset
  <2>2. s # {}
    BY FS_EmptySet
  <2>3. x \in s
    BY <2>2
  <2>4. f[s] = c[x] + f[s \ {x}]
    BY <1>0, <2>2 DEF SumOf
  <2> HIDE DEF x
  <2>5. Cardinality(s \ {x}) = n
    <3>1. Cardinality(s \ {x}) = Cardinality(s) - 1
      BY <2>1, <2>3, FS_RemoveElement
    <3> QED BY <3>1
  <2>6. s \ {x} \in SUBSET S
    OBVIOUS
  <2>7. f[s \ {x}] = Cardinality(Tallied(c, s \ {x}))
    BY <1>2, <2>5, <2>6
  <2>8. Cardinality(Tallied(c, s)) = c[x] + Cardinality(Tallied(c, s \ {x}))
    BY <2>1, <2>3, TallyStep
  <2> QED BY <2>4, <2>7, <2>8
<1> HIDE DEF Good
<1>3. Nat \subseteq Good
  BY <1>1, <1>2, NatInd
<1> SUFFICES ASSUME NEW s \in SUBSET S PROVE f[s] = Cardinality(Tallied(c, s))
  OBVIOUS
<1>4. Cardinality(s) \in Nat
  BY FS_Subset, FS_CardinalityType
<1> QED BY <1>3, <1>4 DEF Good

LEMMA SumIsTally ==
  ASSUME NEW S, IsFiniteSet(S), NEW c, \A x \in S : c[x] \in Nat
  PROVE  MapThenSumSet(LAMBDA x : c[x], S) = Cardinality(Tallied(c, S))
<1> DEFINE h == CHOOSE f : Sums(c, S, f)
<1>1. \E f : Sums(c, S, f)
  BY SumExists
<1>2. Sums(c, S, h)
  BY <1>1
<1>3. MapThenSumSet(LAMBDA x : c[x], S) = h[S]
  BY DEF MapThenSumSet, MapThenFoldSet, Sums, SumOf
<1> HIDE DEF h
<1>4. h[S] = Cardinality(Tallied(c, S))
  BY <1>2, SumIs
<1> QED BY <1>3, <1>4

-----------------------------------------------------------------------------
(* Every count stands for an event: an event of a kind and phase that was  *)
(* numbered, or that a thread is about to number (number 0), for each call *)
(* that a counter of a probe of that kind has counted.                     *)

Made(k, phase) ==
  {tn \in Threads \X Nat :
     \/ /\ tn[2] \in DOMAIN log[tn[1]]
        /\ log[tn[1]][tn[2]].kind = k /\ log[tn[1]][tn[2]].phase = phase
     \/ /\ tn[2] = 0 /\ stage[tn[1]] = "clock"
        /\ pending[tn[1]].kind = k /\ pending[tn[1]].phase = phase}

OfKind(k, probes) == {p \in probes : KindOf[p] = k}
Even(A, B) == IsFiniteSet(A) /\ IsFiniteSet(B) /\ Cardinality(A) = Cardinality(B)

EntersMade(k) == Even(Made(k, "enter"), Tallied(enters, OfKind(k, FnProbes)))
LeavesMade(k) == Even(Made(k, "leave"), Tallied(leaves, OfKind(k, FnProbes)))
HitsMade(k) == Even(Made(k, "instruction"), Tallied(hits, OfKind(k, InsProbes)))
CountsMade == \A k \in Kinds : EntersMade(k) /\ LeavesMade(k) /\ HitsMade(k)
MadeInv == Clean => CountsMade

LEMMA EvenGrows ==
  ASSUME NEW A, NEW B, Even(A, B), NEW x, x \notin A, NEW y, y \notin B
  PROVE  Even(A \cup {x}, B \cup {y})
<1>1. /\ IsFiniteSet(A \cup {x}) /\ Cardinality(A \cup {x}) = Cardinality(A) + 1
      /\ IsFiniteSet(B \cup {y}) /\ Cardinality(B \cup {y}) = Cardinality(B) + 1
  BY FS_AddElement DEF Even
<1> QED BY <1>1 DEF Even

LEMMA EvenSwaps ==
  ASSUME NEW A, NEW B, Even(A, B), NEW x \in A, NEW y, y \notin A
  PROVE  Even((A \ {x}) \cup {y}, B)
<1>1. /\ IsFiniteSet(A \ {x}) /\ Cardinality(A \ {x}) = Cardinality(A) - 1
      /\ Cardinality(A) \in Nat
  BY FS_RemoveElement, FS_CardinalityType DEF Even
<1>2. /\ IsFiniteSet((A \ {x}) \cup {y})
      /\ Cardinality((A \ {x}) \cup {y}) = Cardinality(A \ {x}) + 1
  BY <1>1, FS_AddElement
<1>3. Cardinality((A \ {x}) \cup {y}) = Cardinality(A)
  BY <1>1, <1>2
<1> QED BY <1>2, <1>3 DEF Even

LEMMA TallyGrows ==
  ASSUME NEW P, NEW c \in [P -> Nat], NEW p \in P, NEW S, S \subseteq P, p \in S,
         NEW d, d[p] = c[p] + 1, \A q \in P \ {p} : d[q] = c[q]
  PROVE  /\ Tallied(d, S) = Tallied(c, S) \cup {<<p, c[p] + 1>>}
         /\ <<p, c[p] + 1>> \notin Tallied(c, S)
<1>1. d[p] = c[p] + 1 /\ \A q \in P \ {p} : d[q] = c[q]
  OBVIOUS
<1>2. \A e : \A q \in S : \A i : <<q, i>> \in Tallied(e, S) <=> i \in 1..e[q]
  BY DEF Tallied
<1>3. \A e : \A z : z \in Tallied(e, S) <=> \E q \in S : \E i \in 1..e[q] : z = <<q, i>>
  BY DEF Tallied
<1>4. c[p] \in Nat
  OBVIOUS
<1>5. 1..(c[p] + 1) = (1..c[p]) \cup {c[p] + 1} /\ c[p] + 1 \notin 1..c[p]
  BY <1>4
<1>6. <<p, c[p] + 1>> \notin Tallied(c, S)
  BY <1>2, <1>5
<1>7. ASSUME NEW z
      PROVE  z \in Tallied(d, S) <=> z \in Tallied(c, S) \/ z = <<p, c[p] + 1>>
  <2>1. ASSUME NEW q \in S, NEW i, z = <<q, i>>
        PROVE  i \in 1..d[q] <=> i \in 1..c[q] \/ (q = p /\ i = c[p] + 1)
    BY <1>1, <1>5
  <2>2. \A q \in S : \A i : z = <<q, i>> =>
          (z \in Tallied(d, S) <=> z \in Tallied(c, S) \/ z = <<p, c[p] + 1>>)
    BY <1>2, <2>1
  <2> QED BY <1>3, <2>2
<1> QED BY <1>6, <1>7

LEMMA CountedEven ==
  ASSUME NEW P, NEW c \in [P -> Nat], NEW p \in P, NEW S, S \subseteq P, p \in S,
         NEW A, Even(A, Tallied(c, S)), NEW x, x \notin A,
         NEW d, d[p] = c[p] + 1, \A q \in P \ {p} : d[q] = c[q]
  PROVE  Even(A \cup {x}, Tallied(d, S))
<1>1. PICK y : y = <<p, c[p] + 1>>
  OBVIOUS
<1>2. Tallied(d, S) = Tallied(c, S) \cup {y} /\ y \notin Tallied(c, S)
  BY <1>1, TallyGrows
<1>3. PICK B : B = Tallied(c, S)
  OBVIOUS
<1>4. Even(A \cup {x}, B \cup {y})
  BY <1>2, <1>3, EvenGrows
<1> QED BY <1>2, <1>3, <1>4

LEMMA UncountedEven ==
  ASSUME NEW P, NEW c \in [P -> Nat], NEW p \in P, NEW S, S \subseteq P, p \notin S,
         NEW A, Even(A, Tallied(c, S)),
         NEW d, d[p] = c[p] + 1, \A q \in P \ {p} : d[q] = c[q]
  PROVE  Even(A, Tallied(d, S))
<1>1. \A q \in S : d[q] = c[q]
  OBVIOUS
<1>2. Tallied(d, S) = Tallied(c, S)
  BY <1>1 DEF Tallied
<1> QED BY <1>2

-----------------------------------------------------------------------------
(* What a step does to the events that are made.                           *)
MadeStays == \A k : \A phase \in Phases : Made(k, phase)' = Made(k, phase)

LEMMA StillMade ==
  ASSUME UNCHANGED log,
         \A t \in Threads : \/ stage[t] # "clock" /\ stage'[t] # "clock"
                            \/ stage'[t] = stage[t] /\ pending'[t] = pending[t]
  PROVE  MadeStays
BY DEF MadeStays, Made

LEMMA RecordMade ==
  ASSUME AgentInv, UNCHANGED log, NEW t \in Threads, stage[t] # "clock",
         NEW p \in FnProbes \cup InsProbes, NEW phase \in Phases, NEW id,
         RecordEvent(t, p, phase, id), NEW k, NEW ph
  PROVE  /\ <<t, 0>> \notin Made(k, ph)
         /\ IF k = KindOf[p] /\ ph = phase
              THEN Made(k, ph)' = Made(k, ph) \cup {<<t, 0>>}
              ELSE Made(k, ph)' = Made(k, ph)
<1>1. /\ stage \in [Threads -> {"native", "enter", "leave", "clock", "send"}]
      /\ pending \in [Threads -> PendingSet \cup {None}]
      /\ log \in [Threads -> Seq(AgentEvents)]
  BY DEF AgentInv, AgentTypeOK, ThreadTypeOK, BatchTypeOK
<1>2. /\ stage'[t] = "clock" /\ pending'[t].phase = phase /\ pending'[t].kind = KindOf[p]
      /\ \A u \in Threads \ {t} : stage'[u] = stage[u] /\ pending'[u] = pending[u]
  BY <1>1 DEF RecordEvent
<1>3. \A u \in Threads : 0 \notin DOMAIN log[u]
  BY <1>1
<1>4. <<t, 0>> \notin Made(k, ph)
  BY <1>3 DEF Made
<1>5. ASSUME NEW u \in Threads, NEW n \in Nat, ~(u = t /\ n = 0)
      PROVE  <<u, n>> \in Made(k, ph)' <=> <<u, n>> \in Made(k, ph)
  BY <1>2, <1>5 DEF Made
<1>6. <<t, 0>> \in Made(k, ph)' <=> k = KindOf[p] /\ ph = phase
  BY <1>2, <1>3 DEF Made
<1>7. Made(k, ph) \subseteq Threads \X Nat /\ Made(k, ph)' \subseteq Threads \X Nat
  BY DEF Made
<1>8. PICK A : A = Made(k, ph)
  OBVIOUS
<1>9. PICK B : B = Made(k, ph)'
  OBVIOUS
<1>10. \A z \in Threads \X Nat : z # <<t, 0>> => (z \in B <=> z \in A)
  BY <1>5, <1>8, <1>9
<1>11. /\ k = KindOf[p] /\ ph = phase => B = A \cup {<<t, 0>>}
       /\ ~(k = KindOf[p] /\ ph = phase) => B = A
  BY <1>4, <1>6, <1>7, <1>8, <1>9, <1>10
<1> QED BY <1>4, <1>8, <1>9, <1>11

LEMMA NumberMade ==
  ASSUME AgentInv, NEW t \in Threads, stage[t] = "clock", stage'[t] # "clock", Number(t),
         \A u \in Threads \ {t} : stage'[u] = stage[u] /\ pending'[u] = pending[u],
         NEW k, NEW ph
  PROVE  IF pending[t].kind = k /\ pending[t].phase = ph
           THEN /\ <<t, 0>> \in Made(k, ph) /\ <<t, Len(log[t]) + 1>> \notin Made(k, ph)
                /\ Made(k, ph)' = (Made(k, ph) \ {<<t, 0>>}) \cup {<<t, Len(log[t]) + 1>>}
           ELSE Made(k, ph)' = Made(k, ph)
<1>1. log \in Logs /\ log' = [log EXCEPT ![t] = Append(@, Numbered(t))]
  BY NumbersOneEvent DEF NumbersOne
<1>2. PICK d : d = Numbered(t)
  OBVIOUS
<1>3. /\ log[t] \in Seq(AgentEvents) /\ log'[t] = Append(log[t], d)
      /\ \A u \in Threads \ {t} : log'[u] = log[u]
      /\ \A u \in Threads : log[u] \in Seq(AgentEvents)
  BY <1>1, <1>2 DEF Logs
<1>4. d.phase = pending[t].phase /\ d.kind = pending[t].kind
  BY <1>2 DEF Numbered, Event
<1>5. PICK m : m = Len(log[t]) + 1
  OBVIOUS
<1>6. /\ DOMAIN log'[t] = 1..m /\ log'[t][m] = d /\ m \in Nat /\ m # 0
      /\ \A n \in DOMAIN log[t] : n \in DOMAIN log'[t] /\ log'[t][n] = log[t][n] /\ n # 0
      /\ \A n \in DOMAIN log'[t] : n \in DOMAIN log[t] \/ n = m
      /\ m \in DOMAIN log'[t] /\ m \notin DOMAIN log[t] /\ 0 \notin DOMAIN log'[t]
  BY <1>3, <1>5
<1>7. PICK A : A = Made(k, ph)
  OBVIOUS
<1>8. PICK B : B = Made(k, ph)'
  OBVIOUS
<1>9. A \subseteq Threads \X Nat /\ B \subseteq Threads \X Nat
  BY <1>7, <1>8 DEF Made
<1>10. ASSUME NEW u \in Threads, NEW n \in Nat, ~(u = t /\ n \in {0, m})
       PROVE  <<u, n>> \in B <=> <<u, n>> \in A
  <2>1. CASE u # t
    BY <1>3, <1>7, <1>8, <2>1 DEF Made
  <2>2. CASE u = t
    BY <1>6, <1>7, <1>8, <1>10, <2>2 DEF Made
  <2> QED BY <2>1, <2>2
<1>11. <<t, m>> \notin A /\ <<t, 0>> \notin B
  BY <1>6, <1>7, <1>8 DEF Made
<1>12. /\ <<t, 0>> \in A <=> pending[t].kind = k /\ pending[t].phase = ph
       /\ <<t, m>> \in B <=> pending[t].kind = k /\ pending[t].phase = ph
  BY <1>4, <1>6, <1>7, <1>8 DEF Made
<1>13. \A z \in Threads \X Nat : z # <<t, 0>> /\ z # <<t, m>> => (z \in B <=> z \in A)
  BY <1>10
<1>14. /\ <<t, 0>> \in A => B = (A \ {<<t, 0>>}) \cup {<<t, m>>}
       /\ <<t, 0>> \notin A => B = A
  BY <1>9, <1>11, <1>12, <1>13
<1> QED BY <1>5, <1>7, <1>8, <1>11, <1>12, <1>14

-----------------------------------------------------------------------------
(* An event of one kind more, a count of a probe of that kind more: each   *)
(* recorded callback makes both.                                           *)
LEMMA EvenCounts ==
  ASSUME NEW P, NEW c \in [P -> Nat], NEW p \in P,
         NEW d, d[p] = c[p] + 1, \A q \in P \ {p} : d[q] = c[q],
         NEW k, NEW A, Even(A, Tallied(c, OfKind(k, P))), NEW x, x \notin A,
         NEW B, KindOf[p] = k => B = A \cup {x}, KindOf[p] # k => B = A
  PROVE  Even(B, Tallied(d, OfKind(k, P)))
<1>1. PICK S : S = OfKind(k, P)
  OBVIOUS
<1>2. S \subseteq P /\ (p \in S <=> KindOf[p] = k)
  BY <1>1 DEF OfKind
<1>3. CASE KindOf[p] = k
  <2>1. Even(A \cup {x}, Tallied(d, S))
    BY <1>1, <1>2, <1>3, CountedEven
  <2> QED BY <1>1, <1>3, <2>1
<1>4. CASE KindOf[p] # k
  <2>1. Even(A, Tallied(d, S))
    BY <1>1, <1>2, <1>4, UncountedEven
  <2> QED BY <1>1, <1>4, <2>1
<1> QED BY <1>3, <1>4

LEMMA MadeFrame ==
  ASSUME CountsMade, MadeStays, UNCHANGED <<enters, leaves, hits>>
  PROVE  CountsMade'
<1> SUFFICES ASSUME NEW k \in Kinds PROVE EntersMade(k)' /\ LeavesMade(k)' /\ HitsMade(k)'
  BY DEF CountsMade
<1>1. EntersMade(k) /\ LeavesMade(k) /\ HitsMade(k)
  BY DEF CountsMade
<1>2. /\ Made(k, "enter")' = Made(k, "enter") /\ Made(k, "leave")' = Made(k, "leave")
      /\ Made(k, "instruction")' = Made(k, "instruction")
  BY DEF MadeStays, Phases
<1> QED BY <1>1, <1>2 DEF EntersMade, LeavesMade, HitsMade

LEMMA EnterMade ==
  ASSUME AgentInv, CountsMade, NEW t \in Threads, EnterRecorded(t)
  PROVE  CountsMade'
<1>1. PICK p \in FnProbes : p = Head(todo[t])
  BY ListenerTodo DEF EnterRecorded, AgentInv, AgentTypeOK
<1>2. PICK id : id = correlation'
  OBVIOUS
<1>3. /\ UNCHANGED <<log, leaves, hits>> /\ stage[t] # "clock"
      /\ RecordEvent(t, p, "enter", id) /\ enters' = [enters EXCEPT ![p] = @ + 1]
      /\ enters \in [FnProbes -> Nat]
  BY <1>1, <1>2 DEF EnterRecorded, EnterCounted, batchVars, AgentInv, AgentTypeOK, CallTypeOK
<1>4. enters'[p] = enters[p] + 1 /\ \A q \in FnProbes \ {p} : enters'[q] = enters[q]
  BY <1>3
<1> SUFFICES ASSUME NEW k \in Kinds PROVE EntersMade(k)' /\ LeavesMade(k)' /\ HitsMade(k)'
  BY DEF CountsMade
<1>5. EntersMade(k) /\ LeavesMade(k) /\ HitsMade(k)
  BY DEF CountsMade
<1>6. PICK x : x = <<t, 0>>
  OBVIOUS
<1>7. p \in FnProbes \cup InsProbes /\ "enter" \in Phases
  BY DEF Phases
<1>8. ASSUME NEW ph
      PROVE  /\ x \notin Made(k, ph)
             /\ KindOf[p] = k /\ ph = "enter" => Made(k, ph)' = Made(k, ph) \cup {x}
             /\ ~(KindOf[p] = k /\ ph = "enter") => Made(k, ph)' = Made(k, ph)
  BY <1>3, <1>6, <1>7, RecordMade
<1>9. LeavesMade(k)' /\ HitsMade(k)'
  BY <1>3, <1>5, <1>8 DEF LeavesMade, HitsMade
<1>10. PICK A : A = Made(k, "enter")
  OBVIOUS
<1>11. PICK B : B = Made(k, "enter")'
  OBVIOUS
<1>12. PICK d : d = enters'
  OBVIOUS
<1>13. PICK c : c = enters
  OBVIOUS
<1>14. /\ Even(A, Tallied(c, OfKind(k, FnProbes))) /\ x \notin A
       /\ KindOf[p] = k => B = A \cup {x}
       /\ KindOf[p] # k => B = A
  BY <1>5, <1>8, <1>10, <1>11, <1>13 DEF EntersMade
<1>15. c \in [FnProbes -> Nat] /\ d[p] = c[p] + 1 /\ \A q \in FnProbes \ {p} : d[q] = c[q]
  BY <1>3, <1>4, <1>12, <1>13
<1>16. Even(B, Tallied(d, OfKind(k, FnProbes)))
  BY <1>14, <1>15, EvenCounts
<1>17. EntersMade(k)'
  BY <1>11, <1>12, <1>16 DEF EntersMade
<1> QED BY <1>9, <1>17

LEMMA LeaveMade ==
  ASSUME AgentInv, CountsMade, NEW t \in Threads, LeaveRecorded(t)
  PROVE  CountsMade'
<1>1. PICK p \in FnProbes : p = Head(todo[t])
  BY ListenerTodo DEF LeaveRecorded, AgentInv, AgentTypeOK
<1>2. PICK id : id = Last(Invocations(t))
  OBVIOUS
<1>3. /\ UNCHANGED <<log, enters, hits>> /\ stage[t] # "clock"
      /\ RecordEvent(t, p, "leave", id) /\ leaves' = [leaves EXCEPT ![p] = @ + 1]
      /\ leaves \in [FnProbes -> Nat]
  BY <1>1, <1>2 DEF LeaveRecorded, LeaveCounted, batchVars, AgentInv, AgentTypeOK, CallTypeOK
<1>4. leaves'[p] = leaves[p] + 1 /\ \A q \in FnProbes \ {p} : leaves'[q] = leaves[q]
  BY <1>3
<1> SUFFICES ASSUME NEW k \in Kinds PROVE EntersMade(k)' /\ LeavesMade(k)' /\ HitsMade(k)'
  BY DEF CountsMade
<1>5. EntersMade(k) /\ LeavesMade(k) /\ HitsMade(k)
  BY DEF CountsMade
<1>6. PICK x : x = <<t, 0>>
  OBVIOUS
<1>7. p \in FnProbes \cup InsProbes /\ "leave" \in Phases
  BY DEF Phases
<1>8. ASSUME NEW ph
      PROVE  /\ x \notin Made(k, ph)
             /\ KindOf[p] = k /\ ph = "leave" => Made(k, ph)' = Made(k, ph) \cup {x}
             /\ ~(KindOf[p] = k /\ ph = "leave") => Made(k, ph)' = Made(k, ph)
  BY <1>3, <1>6, <1>7, RecordMade
<1>9. EntersMade(k)' /\ HitsMade(k)'
  BY <1>3, <1>5, <1>8 DEF EntersMade, HitsMade
<1>10. PICK A : A = Made(k, "leave")
  OBVIOUS
<1>11. PICK B : B = Made(k, "leave")'
  OBVIOUS
<1>12. PICK d : d = leaves'
  OBVIOUS
<1>13. PICK c : c = leaves
  OBVIOUS
<1>14. /\ Even(A, Tallied(c, OfKind(k, FnProbes))) /\ x \notin A
       /\ KindOf[p] = k => B = A \cup {x}
       /\ KindOf[p] # k => B = A
  BY <1>5, <1>8, <1>10, <1>11, <1>13 DEF LeavesMade
<1>15. c \in [FnProbes -> Nat] /\ d[p] = c[p] + 1 /\ \A q \in FnProbes \ {p} : d[q] = c[q]
  BY <1>3, <1>4, <1>12, <1>13
<1>16. Even(B, Tallied(d, OfKind(k, FnProbes)))
  BY <1>14, <1>15, EvenCounts
<1>17. LeavesMade(k)'
  BY <1>11, <1>12, <1>16 DEF LeavesMade
<1> QED BY <1>9, <1>17

LEMMA HitMade ==
  ASSUME AgentInv, CountsMade, NEW t \in Threads, NEW p \in InsProbes, Hit(t, p)
  PROVE  CountsMade'
<1>3. /\ UNCHANGED <<log, enters, leaves>> /\ stage[t] # "clock"
      /\ RecordEvent(t, p, "instruction", 0) /\ hits' = [hits EXCEPT ![p] = @ + 1]
      /\ hits \in [InsProbes -> Nat]
  BY DEF Hit, HitCounted, batchVars, AgentInv, AgentTypeOK, CallTypeOK
<1>4. hits'[p] = hits[p] + 1 /\ \A q \in InsProbes \ {p} : hits'[q] = hits[q]
  BY <1>3
<1> SUFFICES ASSUME NEW k \in Kinds PROVE EntersMade(k)' /\ LeavesMade(k)' /\ HitsMade(k)'
  BY DEF CountsMade
<1>5. EntersMade(k) /\ LeavesMade(k) /\ HitsMade(k)
  BY DEF CountsMade
<1>6. PICK x : x = <<t, 0>>
  OBVIOUS
<1>7. p \in FnProbes \cup InsProbes /\ "instruction" \in Phases
  BY DEF Phases
<1>8. ASSUME NEW ph
      PROVE  /\ x \notin Made(k, ph)
             /\ KindOf[p] = k /\ ph = "instruction" => Made(k, ph)' = Made(k, ph) \cup {x}
             /\ ~(KindOf[p] = k /\ ph = "instruction") => Made(k, ph)' = Made(k, ph)
  BY <1>3, <1>6, <1>7, RecordMade
<1>9. EntersMade(k)' /\ LeavesMade(k)'
  BY <1>3, <1>5, <1>8 DEF EntersMade, LeavesMade
<1>10. PICK A : A = Made(k, "instruction")
  OBVIOUS
<1>11. PICK B : B = Made(k, "instruction")'
  OBVIOUS
<1>12. PICK d : d = hits'
  OBVIOUS
<1>13. PICK c : c = hits
  OBVIOUS
<1>14. /\ Even(A, Tallied(c, OfKind(k, InsProbes))) /\ x \notin A
       /\ KindOf[p] = k => B = A \cup {x}
       /\ KindOf[p] # k => B = A
  BY <1>5, <1>8, <1>10, <1>11, <1>13 DEF HitsMade
<1>15. c \in [InsProbes -> Nat] /\ d[p] = c[p] + 1 /\ \A q \in InsProbes \ {p} : d[q] = c[q]
  BY <1>3, <1>4, <1>12, <1>13
<1>16. Even(B, Tallied(d, OfKind(k, InsProbes)))
  BY <1>14, <1>15, EvenCounts
<1>17. HitsMade(k)'
  BY <1>11, <1>12, <1>16 DEF HitsMade
<1> QED BY <1>9, <1>17

LEMMA NumbersMade ==
  ASSUME AgentInv, CountsMade, NEW t \in Threads, stage[t] = "clock", stage'[t] # "clock",
         Number(t), UNCHANGED <<enters, leaves, hits>>,
         \A u \in Threads \ {t} : stage'[u] = stage[u] /\ pending'[u] = pending[u]
  PROVE  CountsMade'
<1> SUFFICES ASSUME NEW k \in Kinds PROVE EntersMade(k)' /\ LeavesMade(k)' /\ HitsMade(k)'
  BY DEF CountsMade
<1>1. EntersMade(k) /\ LeavesMade(k) /\ HitsMade(k)
  BY DEF CountsMade
<1>2. ASSUME NEW ph, NEW T, Even(Made(k, ph), T), NEW B, B = Made(k, ph)'
      PROVE  Even(B, T)
  <2>1. PICK A : A = Made(k, ph)
    OBVIOUS
  <2>2. PICK x : x = <<t, 0>>
    OBVIOUS
  <2>3. PICK y : y = <<t, Len(log[t]) + 1>>
    OBVIOUS
  <2>4. \/ B = A
        \/ x \in A /\ y \notin A /\ B = (A \ {x}) \cup {y}
    BY <1>2, <2>1, <2>2, <2>3, NumberMade
  <2>5. Even(A, T)
    BY <1>2, <2>1
  <2>6. CASE B = A
    BY <2>5, <2>6
  <2>7. CASE x \in A /\ y \notin A /\ B = (A \ {x}) \cup {y}
    BY <2>5, <2>7, EvenSwaps
  <2> QED BY <2>4, <2>6, <2>7
<1>3. PICK E : E = Made(k, "enter")'
  OBVIOUS
<1>4. PICK L : L = Made(k, "leave")'
  OBVIOUS
<1>5. PICK I : I = Made(k, "instruction")'
  OBVIOUS
<1>6. /\ Even(E, Tallied(enters, OfKind(k, FnProbes)))
      /\ Even(L, Tallied(leaves, OfKind(k, FnProbes)))
      /\ Even(I, Tallied(hits, OfKind(k, InsProbes)))
  BY <1>1, <1>2, <1>3, <1>4, <1>5 DEF EntersMade, LeavesMade, HitsMade
<1> QED BY <1>3, <1>4, <1>5, <1>6 DEF EntersMade, LeavesMade, HitsMade

-----------------------------------------------------------------------------
(* Every step of the recorder keeps the counts and the events even.        *)
LEMMA CallbackMade ==
  ASSUME AgentInv, RunInv, CountsMade, NEW t \in Threads, CallbackStep(t), Clean'
  PROVE  CountsMade'
<1>0. /\ stage \in [Threads -> {"native", "enter", "leave", "clock", "send"}]
      /\ pending \in [Threads -> PendingSet \cup {None}]
      /\ Recording(t) => pending[t].phase \in Phases
  BY PendingPhase DEF AgentInv, AgentTypeOK, ThreadTypeOK
<1>1. CASE EnterSkipped(t) \/ LeaveSkipped(t)
  <2>1. /\ UNCHANGED <<log, enters, leaves, hits>> /\ stage[t] \in {"enter", "leave"}
        /\ stage'[t] \in {"native", "enter", "leave"}
        /\ \A u \in Threads \ {t} : stage'[u] = stage[u] /\ pending'[u] = pending[u]
    BY <1>0, <1>1 DEF EnterSkipped, LeaveSkipped, Continue, batchVars
  <2>2. MadeStays
    BY <2>1, StillMade
  <2> QED BY <2>1, <2>2, MadeFrame
<1>2. CASE EnterThrows(t) \/ LeaveThrows(t) \/ LeaveUnmatched(t)
  BY <1>2, ErrorPosted DEF EnterThrows, LeaveThrows, LeaveUnmatched, Throw
<1>3. CASE EventBuffered(t) \/ BatchFull(t)
  <2>1. /\ Number(t) /\ UNCHANGED <<enters, leaves, hits>> /\ stage[t] = "clock"
        /\ stage'[t] # "clock"
        /\ \A u \in Threads \ {t} : stage'[u] = stage[u] /\ pending'[u] = pending[u]
    BY <1>0, <1>3 DEF EventBuffered, BatchFull, Continue, callVars, Recording, Phases
  <2> QED BY <2>1, NumbersMade
<1>4. CASE BatchPosted(t)
  <2>1. UNCHANGED <<log, enters, leaves, hits, stage, pending>>
    BY <1>4 DEF BatchPosted, batchVars, callVars
  <2> QED BY <2>1, StillMade, MadeFrame
<1>5. CASE SendReturns(t) \/ SendThrows(t)
  <2>1. /\ UNCHANGED <<log, enters, leaves, hits>> /\ stage[t] = "send"
        /\ stage'[t] # "clock"
        /\ \A u \in Threads \ {t} : stage'[u] = stage[u] /\ pending'[u] = pending[u]
    BY <1>0, <1>5 DEF SendReturns, SendThrows, AppendPending, Continue, callVars, Recording,
       Phases
  <2>2. MadeStays
    BY <2>1, StillMade
  <2> QED BY <2>1, <2>2, MadeFrame
<1>6. CASE EventDropped(t)
  <2>1. dropCount \in Nat /\ dropCount' = dropCount + 1
    BY <1>6 DEF EventDropped, AgentInv, AgentTypeOK, BatchTypeOK
  <2> QED BY <2>1 DEF Clean
<1> QED BY <1>1, <1>2, <1>3, <1>4, <1>5, <1>6, EnterMade, LeaveMade DEF CallbackStep

LEMMA NativeMade ==
  ASSUME AgentInv, CountsMade, NEW t \in Threads, NativeStep(t), Clean'
  PROVE  CountsMade'
<1>0. /\ stage \in [Threads -> {"native", "enter", "leave", "clock", "send"}]
      /\ pending \in [Threads -> PendingSet \cup {None}]
  BY DEF AgentInv, AgentTypeOK, ThreadTypeOK
<1>1. CASE (\E a \in Addresses : Call(t, a)) \/ Return(t)
  <2>1. /\ UNCHANGED <<log, enters, leaves, hits>> /\ stage[t] = "native"
        /\ stage'[t] \in {"enter", "leave"}
        /\ \A u \in Threads \ {t} : stage'[u] = stage[u] /\ pending'[u] = pending[u]
    BY <1>0, <1>1 DEF Call, Return, batchVars, callVars
  <2>2. MadeStays
    BY <2>1, StillMade
  <2> QED BY <2>1, <2>2, MadeFrame
<1>2. CASE \E p \in InsProbes : HitThrows(t, p)
  BY <1>2, ErrorPosted DEF HitThrows
<1> QED BY <1>1, <1>2, HitMade DEF NativeStep

LEMMA MadeNext ==
  ASSUME AgentInv, RunInv, MadeInv, AgentMove
  PROVE  MadeInv'
<1> SUFFICES ASSUME Clean' PROVE CountsMade'
  BY DEF MadeInv
<1>1. Clean
  BY MovePosts, MoveDrops, CleanBefore DEF DropsGrow
<1>2. CountsMade
  BY <1>1 DEF MadeInv
<1>3. CASE RpcStep \/ Service \/ Still
  <2>1. UNCHANGED <<log, enters, leaves, hits, stage, pending>>
    BY <1>3 DEF RpcStep, PollFinished, DeadlinePassed, FlushNothing, FlushThread,
       RpcBatchPosted, RpcSendReturns, RpcSendThrows, FlushDone, Service, Still, Install,
       InstallFails, BeginObservation, FinishObservation, Flush, BindFixtureMemory,
       threadVars, batchVars, callVars
  <2> QED BY <1>2, <2>1, StillMade, MadeFrame
<1> QED BY <1>2, <1>3, CallbackMade, NativeMade DEF AgentMove

LEMMA MadeInit == AgentInit => MadeInv
<1> SUFFICES ASSUME AgentInit, NEW k \in Kinds
             PROVE  EntersMade(k) /\ LeavesMade(k) /\ HitsMade(k)
  BY DEF MadeInv, CountsMade
<1>1. ASSUME NEW ph PROVE Made(k, ph) = {}
  BY DEF AgentInit, Made
<1>2. /\ \A p \in FnProbes : enters[p] = 0 /\ leaves[p] = 0
      /\ \A p \in InsProbes : hits[p] = 0
  BY DEF AgentInit
<1>3. ASSUME NEW c, NEW S, \A p \in S : c[p] = 0 PROVE Tallied(c, S) = {}
  <2>1. \A p \in S : 1..c[p] = {}
    BY <1>3
  <2> QED BY <2>1 DEF Tallied
<1>4. Even({}, {})
  BY FS_EmptySet DEF Even
<1>5. /\ Tallied(enters, OfKind(k, FnProbes)) = {} /\ Tallied(leaves, OfKind(k, FnProbes)) = {}
      /\ Tallied(hits, OfKind(k, InsProbes)) = {}
  BY <1>2, <1>3 DEF OfKind
<1> QED BY <1>1, <1>4, <1>5 DEF EntersMade, LeavesMade, HitsMade

-----------------------------------------------------------------------------
(* An event is where its number says.                                      *)
LogNumbered == \A t \in Threads : \A n \in DOMAIN log[t] : log[t][n].seq = n

LEMMA NumberedNext ==
  ASSUME AgentInv, LogNumbered, AgentMove
  PROVE  LogNumbered'
<1>1. CASE UNCHANGED log
  BY <1>1 DEF LogNumbered
<1>2. ASSUME NEW t \in Threads, stage[t] = "clock", Number(t) PROVE LogNumbered'
  <2>1. log \in Logs /\ log' = [log EXCEPT ![t] = Append(@, Numbered(t))]
    BY <1>2, NumbersOneEvent DEF NumbersOne
  <2>2. PICK d : d = Numbered(t)
    OBVIOUS
  <2>3. /\ log[t] \in Seq(AgentEvents) /\ log'[t] = Append(log[t], d)
        /\ \A u \in Threads \ {t} : log'[u] = log[u]
    BY <2>1, <2>2 DEF Logs
  <2>4. d.seq = Len(log[t]) + 1
    BY <2>2 DEF Numbered, Event, AgentInv, BufferOK
  <2>5. ASSUME NEW n \in DOMAIN log'[t] PROVE log'[t][n].seq = n
    BY <2>3, <2>4 DEF LogNumbered
  <2> QED BY <2>3, <2>5 DEF LogNumbered
<1>3. CASE \E t \in Threads : CallbackStep(t) \/ NativeStep(t)
  BY <1>1, <1>2, <1>3, CallbackLog, NativeLog
<1>4. CASE RpcStep \/ Service \/ Still
  BY <1>1, <1>4, RpcLog DEF Service, Still, Install, InstallFails, BeginObservation,
     FinishObservation, Flush, BindFixtureMemory, batchVars
<1> QED BY <1>3, <1>4 DEF AgentMove

-----------------------------------------------------------------------------
(* A file that holds all of every thread's log holds as many events of a   *)
(* kind and phase as were numbered: the number of an event and its thread  *)
(* say which one it is.                                                    *)
LEMMA AllHeldCounted ==
  ASSUME NEW es \in Seq(AgentEvents), NEW c \in Nat, NEW logs,
         \A t \in Threads : Holds(es, logs[t], t, c),
         \A t \in Threads : \A n \in DOMAIN logs[t] : logs[t][n].seq = n,
         NEW k, NEW phase, NEW A,
         A = {tn \in Threads \X Nat : /\ tn[2] \in DOMAIN logs[tn[1]]
                                      /\ logs[tn[1]][tn[2]].kind = k
                                      /\ logs[tn[1]][tn[2]].phase = phase}
  PROVE  Count(es, k, phase) = Cardinality(A)
<1> DEFINE F == {i \in At(es, phase) : es[i].kind = k}
           f == [i \in F |-> <<es[i].tid, es[i].seq>>]
<1>1. DOMAIN es = 1..Len(es) /\ Len(es) \in Nat
  OBVIOUS
<1>2. IsFiniteSet(F)
  <2>1. PICK n \in Nat : n = Len(es)
    BY <1>1
  <2>2. IsFiniteSet(1..n)
    BY FS_Interval
  <2>3. F \subseteq DOMAIN es
    BY DEF At
  <2> QED BY <1>1, <2>1, <2>2, <2>3, FS_Subset
<1>3. ASSUME NEW i \in F
      PROVE  /\ i \in DOMAIN es /\ es[i].kind = k /\ es[i].phase = phase
             /\ es[i].tid \in Threads /\ es[i].seq \in Nat
             /\ es[i].seq \in DOMAIN logs[es[i].tid]
             /\ logs[es[i].tid][es[i].seq] = es[i]
  <2>1. i \in DOMAIN es /\ es[i].kind = k /\ es[i].phase = phase
    BY DEF At
  <2>2. es[i] \in AgentEvents
    BY <2>1
  <2>3. es[i].tid \in Threads /\ es[i].seq \in Nat
    BY <2>2 DEF AgentEvents, EventSet
  <2> QED BY <2>1, <2>3 DEF Holds
<1>4. ASSUME NEW i \in F PROVE f[i] \in A
  <2>1. PICK t \in Threads, s \in Nat : t = es[i].tid /\ s = es[i].seq
    BY <1>3
  <2>2. s \in DOMAIN logs[t] /\ logs[t][s].kind = k /\ logs[t][s].phase = phase
    BY <1>3, <2>1
  <2>3. f[i] = <<t, s>>
    BY <2>1
  <2> HIDE DEF f
  <2> QED BY <2>2, <2>3
<1>5. ASSUME NEW i \in F, NEW j \in F, f[i] = f[j] PROVE i = j
  <2>1. es[i].tid = es[j].tid /\ es[i].seq = es[j].seq
    BY <1>5
  <2>2. PICK t \in Threads : t = es[i].tid
    BY <1>3
  <2>3. PICK s \in Nat : s = es[i].seq
    BY <1>3
  <2>4. /\ i \in DOMAIN es /\ j \in DOMAIN es /\ es[i].tid = t /\ es[j].tid = t
        /\ es[i].seq = s /\ es[j].seq = s
    BY <1>3, <2>1, <2>2, <2>3
  <2>5. (i < j <=> s < s) /\ (j < i <=> s < s)
    BY <2>4 DEF Holds
  <2>6. i \in Nat /\ j \in Nat /\ ~(s < s)
    BY <1>1, <2>4
  <2> QED BY <2>5, <2>6
<1>6. ASSUME NEW z \in A PROVE \E i \in F : f[i] = z
  <2>1. PICK t \in Threads, n \in Nat : z = <<t, n>>
    OBVIOUS
  <2>2. n \in DOMAIN logs[t] /\ logs[t][n].kind = k /\ logs[t][n].phase = phase
    BY <2>1
  <2>3. PICK i \in DOMAIN es : es[i] = logs[t][n]
    BY <2>2 DEF Holds, Has
  <2>4. es[i].tid = t /\ es[i].seq = n
    BY <2>2, <2>3 DEF Holds, LogOK
  <2>5. i \in F
    BY <2>2, <2>3 DEF At
  <2> QED BY <2>1, <2>4, <2>5
<1>7. f \in [F -> A]
  BY <1>4
<1> HIDE DEF f, F
<1>8. f \in Injection(F, A) /\ f \in Surjection(F, A)
  BY <1>5, <1>6, <1>7 DEF Injection, Surjection, IsInjective
<1>9. ExistsBijection(F, A)
  BY <1>8 DEF ExistsBijection, Bijection
<1>10. Cardinality(A) = Cardinality(F)
  BY <1>2, <1>9, FS_Bijection
<1> QED BY <1>10 DEF F, Count

-----------------------------------------------------------------------------
(* What left nothing behind is whole.                                      *)
WholeInv ==
  /\ RecorderInv /\ RecorderTypes /\ CountInv /\ NumberInv /\ RunInv /\ NestInv
  /\ CallPhase /\ CoverInv /\ IdsInv /\ TakenInv /\ WrittenInv /\ MadeInv /\ LogNumbered
Whole == WholeInv /\ host = "ok" /\ LeftNothing

(* Everything has reached the writer, which raised on none of it, and no   *)
(* call is open.                                                           *)
LEMMA WholeArrived ==
  ASSUME Whole
  PROVE  /\ handled = Len(posted) /\ posted \in Seq(MessageSet)
         /\ file = events /\ events \in Seq(AgentEvents)
         /\ GenuineIn(log, events) /\ Contiguous(events)
         /\ NoErrorHandled /\ HandledTaken /\ TakenTwice
         /\ dropCount = 0 /\ ~Unfinished
<1>1. file = events /\ handled = Len(posted)
  BY DEF Whole, WholeInv, WrittenInv, Written
<1>2. file # NoFile
  BY DEF Whole, WholeInv, RecorderInv, HostInv, Written
<1>3. file \in Seq(AgentEvents) /\ GenuineIn(log, file) /\ Contiguous(file)
  BY <1>2 DEF Whole, WholeInv, RecorderInv, FileInv
<1>4. NoErrorHandled /\ HandledTaken /\ TakenTwice /\ dropCount = 0
  BY DEF Whole, WholeInv, TakenInv, LeftNothing
<1>5. posted \in Seq(MessageSet) /\ ~Unfinished
  BY FlightTyped DEF Whole, WholeInv, RecorderInv, CallPhase, AfterFinish
<1> QED BY <1>1, <1>3, <1>4, <1>5

(* No batch is in flight.                                                  *)
LEMMA WholeSent ==
  ASSUME Whole
  PROVE  /\ AgentInv /\ rpcSending = None
         /\ \A t \in Threads : /\ sending[t] = None /\ threadBatches[t] = <<>>
                               /\ stage[t] \notin {"clock", "send"}
<1>1. rpc = "idle"
  BY DEF Whole, WholeInv, CallPhase, AfterFinish
<1>2. AgentInv /\ rpcSending = None
  BY <1>1 DEF Whole, WholeInv, RecorderInv, CoverInv, RpcOK
<1>3. \A t \in Threads : threadBatches[t] = <<>> /\ stage[t] \notin {"clock", "send"}
  BY DEF Whole, LeftNothing, Recording
<1>4. \A t \in Threads : sending[t] = None
  BY <1>2, <1>3 DEF AgentInv, AgentTypeOK, StageOK
<1> QED BY <1>2, <1>3, <1>4

LEMMA WholeCarries ==
  ASSUME Whole, NEW k, NEW e, Carries(k, e)
  PROVE  \E n \in DOMAIN posted : IsBatch(n) /\ posted[n].number = k /\ Has(posted[n].recs, e)
BY WholeSent DEF Carries, ThreadCarries, RpcCarries, WireCarries

(* No event has been sent twice: its number would be twice in the file.    *)
LEMMA WholeOnce ==
  ASSUME Whole
  PROVE  ~Repeated
<1> SUFFICES ASSUME Repeated PROVE FALSE
  OBVIOUS
<1>1. PICK e \in AgentEvents, j \in Nat, k \in Nat : j # k /\ Carries(j, e) /\ Carries(k, e)
  BY DEF Repeated
<1>2. PICK m \in DOMAIN posted : IsBatch(m) /\ posted[m].number = j /\ Has(posted[m].recs, e)
  BY <1>1, WholeCarries
<1>3. PICK n \in DOMAIN posted : IsBatch(n) /\ posted[n].number = k /\ Has(posted[n].recs, e)
  BY <1>1, WholeCarries
<1>4. m # n /\ m <= handled /\ n <= handled
  BY <1>1, <1>2, <1>3, WholeArrived
<1>5. HasTwice(events, e)
  BY <1>1, <1>2, <1>3, <1>4, WholeArrived DEF TakenTwice
<1>6. PICK p \in DOMAIN events, q \in DOMAIN events :
        p # q /\ events[p] = e /\ events[q] = e
  BY <1>5 DEF HasTwice
<1>7. PICK es \in Seq(AgentEvents) : es = events
  BY WholeArrived
<1>8. p \in DOMAIN es /\ q \in DOMAIN es /\ es[p] = e /\ es[q] = e /\ Contiguous(es)
  BY <1>6, <1>7, WholeArrived
<1>9. (p < q => e.seq < e.seq) /\ (q < p => e.seq < e.seq)
  BY <1>8, SameOrder
<1>10. p \in Nat /\ q \in Nat /\ e.seq \in Nat
  BY <1>1, <1>8 DEF AgentEvents, EventSet
<1> QED BY <1>6, <1>9, <1>10

LEMMA WholeHas ==
  ASSUME Whole, NEW e \in AgentEvents, Logged(e)
  PROVE  Has(events, e)
<1>1. Somewhere(e)
  BY WholeOnce, WholeArrived DEF Whole, WholeInv, CoverInv, Covered
<1>2. e.tid \in Threads
  BY DEF AgentEvents, EventSet
<1>3. ~Buffered(e) /\ ~InHand(e)
  BY <1>2, WholeSent DEF Buffered, Has, InHand
<1>4. PICK k \in Nat : Carries(k, e)
  BY <1>1, <1>3 DEF Somewhere, Carried
<1>5. PICK n \in DOMAIN posted : IsBatch(n) /\ posted[n].number = k /\ Has(posted[n].recs, e)
  BY <1>4, WholeCarries
<1>6. n <= handled
  BY WholeArrived
<1> QED BY <1>5, <1>6, WholeArrived DEF HandledTaken

(* No exception has left a callback: the writer would have raised on it.   *)
LEMMA WholeClean ==
  ASSUME Whole
  PROVE  Clean
BY WholeArrived DEF Clean, NoErrorHandled

(* The logs of a whole recording are balanced: no call is on a stack.  *)
LEMMA WholeNested ==
  ASSUME Whole, NEW t \in Threads
  PROVE  LogOK(log[t], t, correlation) /\ Balances(log[t])
<1>1. /\ AgentInv /\ CountInv /\ ~Unfinished
      /\ stage[t] # "clock"
  BY WholeArrived, WholeSent DEF Whole, WholeInv
<1>2. NestOK(t)
  BY WholeClean DEF Whole, WholeInv, NestInv
<1>3. Hand(t) = "none"
  BY <1>1 DEF Hand
<1>4. PICK n, P, M, B : NestAt(n, P, M, B, invocations, correlation, t, frames[t], todo[t],
                               Where(t), Half(t), log[t], "none", HandId(t))
  BY <1>2, <1>3 DEF NestOK, Nesting
<1>5. /\ Merges(n, P, M, invocations, t) /\ LogOK(log[t], t, correlation)
      /\ Listed(OnStack(n, P, M, invocations, t), log[t], "none", HandId(t))
  BY <1>4 DEF NestAt
<1>6. \A p \in FnProbes : \A i \in DOMAIN invocations[p][t] : invocations[p][t][i] = Skipped
  BY <1>1, NothingOpen
<1>7. OnStack(n, P, M, invocations, t) = {}
  <2> SUFFICES ASSUME NEW k \in 1..n PROVE IdAt(P, M, invocations, t, k) = Skipped
    BY DEF OnStack
  <2>1. P[k] \in FnProbes /\ M[k] \in DOMAIN invocations[P[k]][t]
    BY <1>5 DEF Merges
  <2> QED BY <1>6, <2>1 DEF IdAt
<1>8. \A i \in Enters(log[t]) : HasLeave(log[t], i)
  BY <1>5, <1>7 DEF Listed
<1> QED BY <1>5, <1>8 DEF Balances

LEMMA WholeHolds ==
  ASSUME Whole, NEW t \in Threads
  PROVE  Holds(events, log[t], t, correlation)
<1>1. /\ events \in Seq(AgentEvents) /\ GenuineIn(log, events) /\ Contiguous(events)
      /\ log[t] \in Seq(AgentEvents)
  BY WholeArrived, WholeSent DEF AgentInv, AgentTypeOK, BatchTypeOK
<1>2. LogOK(log[t], t, correlation)
  BY WholeNested
<1>3. ASSUME NEW i \in DOMAIN events
      PROVE  events[i] \in AgentEvents /\ i \in Nat /\ events[i].seq \in Nat \ {0}
  <2>1. events[i] \in AgentEvents /\ i \in Nat
    BY <1>1
  <2> QED BY <2>1 DEF AgentEvents, EventSet
<1>4. ASSUME NEW i \in DOMAIN events, events[i].tid = t
      PROVE  events[i].seq \in DOMAIN log[t] /\ log[t][events[i].seq] = events[i]
  <2>1. PICK s \in Nat \ {0} : s = events[i].seq
    BY <1>3
  <2>2. s <= Len(log[t]) /\ log[t][s] = events[i]
    BY <1>1, <1>4, <2>1 DEF GenuineIn, NumberedIn
  <2>3. s \in DOMAIN log[t]
    BY <1>1, <2>1, <2>2
  <2> QED BY <2>1, <2>2, <2>3
<1>5. ASSUME NEW n \in DOMAIN log[t] PROVE Has(events, log[t][n])
  <2>1. PICK e \in AgentEvents : e = log[t][n]
    BY <1>1
  <2> QED BY <2>1, WholeHas DEF Logged
<1>6. ASSUME NEW i \in DOMAIN events, NEW k \in DOMAIN events,
             events[i].tid = t, events[k].tid = t
      PROVE  i < k <=> events[i].seq < events[k].seq
  <2>1. PICK es \in Seq(AgentEvents) : es = events
    BY <1>1
  <2>2. (i < k => es[i].seq < es[k].seq) /\ (k < i => es[k].seq < es[i].seq)
    BY <1>1, <1>6, <2>1, SameOrder
  <2>3. i \in Nat /\ k \in Nat /\ es[i].seq \in Nat /\ es[k].seq \in Nat
    BY <1>3, <2>1
  <2>4. i = k => es[i].seq = es[k].seq
    OBVIOUS
  <2> QED BY <2>1, <2>2, <2>3, <2>4
<1> QED BY <1>2, <1>4, <1>5, <1>6 DEF Holds

(* Every reader can parse what is accepted: the calls of each thread nest, *)
(* every one has its enter and its leave, and no two calls have one id     *)

LEMMA WholeNests ==
  ASSUME Whole
  PROVE  Forest(file)
<1>1. file = events /\ events \in Seq(AgentEvents) /\ correlation \in Nat /\ IdsInv
  BY WholeArrived, WholeSent DEF Whole, WholeInv, AgentInv, AgentTypeOK, CallTypeOK
<1>2. Apart(log)
  <2> SUFFICES ASSUME NEW t \in Threads, NEW u \in Threads, t # u,
                      NEW i \in Enters(log[t]), NEW k \in Enters(log[u]),
                      log[t][i].id = log[u][k].id
               PROVE  FALSE
    BY DEF Apart
  <2>1. Entered(t, log[t][i].id) /\ Entered(u, log[t][i].id)
    BY DEF Entered, Passed, Enters, At
  <2> QED BY <1>1, <2>1 DEF IdsInv
<1>3. \A t \in Threads : Holds(events, log[t], t, correlation) /\ Balances(log[t])
  BY WholeHolds, WholeNested
<1>4. PICK es \in Seq(AgentEvents), c \in Nat : es = events /\ c = correlation
  BY <1>1
<1>5. \A t \in Threads : Holds(es, log[t], t, c) /\ Balances(log[t])
  BY <1>3, <1>4
<1>6. Forest(es)
  BY <1>2, <1>5, AllHeldNest
<1> QED BY <1>1, <1>4, <1>6

LEMMA WholeCounts ==
  ASSUME Whole, NEW k \in Kinds, NEW phase
  PROVE  Count(file, k, phase) = Cardinality(Made(k, phase))
<1>1. /\ file = events /\ events \in Seq(AgentEvents) /\ correlation \in Nat
      /\ \A t \in Threads : stage[t] # "clock"
  BY WholeArrived, WholeSent DEF AgentInv, AgentTypeOK, CallTypeOK
<1>2. \A t \in Threads : Holds(events, log[t], t, correlation)
  BY WholeHolds
<1>3. \A t \in Threads : \A n \in DOMAIN log[t] : log[t][n].seq = n
  BY DEF Whole, WholeInv, LogNumbered
<1>4. PICK es \in Seq(AgentEvents), c \in Nat : es = events /\ c = correlation
  BY <1>1
<1>5. \A t \in Threads : Holds(es, log[t], t, c)
  BY <1>2, <1>4
<1>6. PICK A : A = Made(k, phase)
  OBVIOUS
<1>7. A = {tn \in Threads \X Nat : /\ tn[2] \in DOMAIN log[tn[1]]
                                   /\ log[tn[1]][tn[2]].kind = k
                                   /\ log[tn[1]][tn[2]].phase = phase}
  BY <1>1, <1>6 DEF Made
<1>8. PICK logs : logs = log
  OBVIOUS
<1>9. Count(es, k, phase) = Cardinality(A)
  BY <1>3, <1>5, <1>7, <1>8, AllHeldCounted
<1> QED BY <1>1, <1>4, <1>6, <1>9

(* A probe set lists its probes in JSON arrays (probes.py:99-103).         *)
ProbesFinite == IsFiniteSet(FnProbes) /\ IsFiniteSet(InsProbes)

LEMMA CountedIsTally ==
  ASSUME NEW P, IsFiniteSet(P), NEW c \in [P -> Nat], NEW k
  PROVE  Counted(k, c, P) = Cardinality(Tallied(c, OfKind(k, P)))
<1>1. PICK S : S = OfKind(k, P)
  OBVIOUS
<1>2. S \in SUBSET P /\ S = {p \in P : KindOf[p] = k}
  BY <1>1 DEF OfKind
<1>3. IsFiniteSet(S) /\ \A p \in S : c[p] \in Nat
  BY <1>2, FS_Subset
<1>4. MapThenSumSet(LAMBDA x : c[x], S) = Cardinality(Tallied(c, S))
  BY <1>3, SumIsTally
<1> QED BY <1>1, <1>2, <1>4 DEF Counted

(* Nothing the target counted is missing from an accepted file, and        *)
(* nothing is there twice: the numbers of the enters, leaves and hits of   *)
(* every kind are what the counters of its probes add up to, if callbacks  *)
(* keep the lock and a leave or a hit never fails (agent.js:333-400,       *)

LEMMA WholeComplete ==
  ASSUME ProbesFinite, Whole, NEW k \in Kinds
  PROVE  /\ Count(file, k, "enter") = Counted(k, enters, FnProbes)
         /\ Count(file, k, "leave") = Counted(k, leaves, FnProbes)
         /\ Count(file, k, "instruction") = Counted(k, hits, InsProbes)
<1>1. EntersMade(k) /\ LeavesMade(k) /\ HitsMade(k)
  BY WholeClean DEF Whole, WholeInv, MadeInv, CountsMade
<1>2. /\ enters \in [FnProbes -> Nat] /\ leaves \in [FnProbes -> Nat]
      /\ hits \in [InsProbes -> Nat]
  BY WholeSent DEF AgentInv, AgentTypeOK, CallTypeOK
<1>3. PICK e, l, h : e = enters /\ l = leaves /\ h = hits
  OBVIOUS
<1>4. /\ Counted(k, e, FnProbes) = Cardinality(Tallied(e, OfKind(k, FnProbes)))
      /\ Counted(k, l, FnProbes) = Cardinality(Tallied(l, OfKind(k, FnProbes)))
      /\ Counted(k, h, InsProbes) = Cardinality(Tallied(h, OfKind(k, InsProbes)))
  BY <1>2, <1>3, CountedIsTally DEF ProbesFinite
<1> QED BY <1>1, <1>3, <1>4, WholeCounts DEF EntersMade, LeavesMade, HitsMade, Even

LEMMA WholeInvNext ==
  ASSUME ~LateMessages, WholeInv, [Next]_vars
  PROVE  WholeInv'
<1>1. AgentMove /\ AgentInv
  BY NextIsMove DEF WholeInv, RecorderInv
<1>2. RecorderInv' /\ RecorderTypes' /\ CountInv' /\ NumberInv' /\ RunInv' /\ NestInv'
  BY <1>1, RecorderNext, TypesNext, CountNext, NumberNext, RunNext, NestNext DEF WholeInv
<1>3. CallPhase' /\ CoverInv' /\ IdsInv' /\ MadeInv' /\ LogNumbered'
  BY <1>1, PhaseNext, CoverNext, IdsNext, MadeNext, NumberedNext DEF WholeInv
<1>4. TakenInv' /\ WrittenInv'
  BY TakenNext, WrittenNext DEF WholeInv
<1> QED BY <1>2, <1>3, <1>4 DEF WholeInv

LEMMA WholeInvInit == Init => WholeInv
<1>1. AgentInit => NumberInv
  BY DEF AgentInit, NumberInv, PostedApart, PostedTaken, SendingApart, RpcSendingApart
<1>2. AgentInit => RunInv
  BY DEF AgentInit, NoBatches, RunInv, BuffersRun, RunTo, StaleRun, FlightRun, BatchesAreRuns
<1>3. AgentInit => LogNumbered
  BY DEF AgentInit, LogNumbered
<1>4. Init => AgentInit
  BY DEF Init
<1> QED BY <1>1, <1>2, <1>3, <1>4, InitRecorder, InitTypes, InitCounts, NestInit, PhaseInit,
       CoverInit, IdsInit, TakenInit, WrittenInit, MadeInit DEF WholeInv

(* Wherever callbacks give up the lock and whatever throws: an accepted    *)
(* file nests and holds every event the target counted, unless a thread    *)
(* was inside recordEvent or had events in its buffer when the script was  *)
(* unloaded, an event was dropped, or the writer raised (agent.js:150-199, *)
(* 333-400, 515-545, trace_writer.py:37-119, record.py:121-152).           *)
THEOREM AcceptedIsWhole ==
  ASSUME ~LateMessages, ProbesFinite
  PROVE  Spec => []AcceptedWhole
<1>1. WholeInv => AcceptedWhole
  <2>1. Whole => Forest(file)
    BY WholeNests
  <2>2. ASSUME Whole, NEW k \in Kinds
        PROVE  /\ Count(file, k, "enter") = Counted(k, enters, FnProbes)
               /\ Count(file, k, "leave") = Counted(k, leaves, FnProbes)
               /\ Count(file, k, "instruction") = Counted(k, hits, InsProbes)
    BY <2>2, WholeComplete
  <2> QED BY <2>1, <2>2 DEF Whole, AcceptedWhole, AcceptedParses, AcceptedComplete
<1>2. WholeInv /\ [Next]_vars => WholeInv'
  BY WholeInvNext
<1> QED BY <1>1, <1>2, WholeInvInit, PTL DEF Spec
=============================================================================
