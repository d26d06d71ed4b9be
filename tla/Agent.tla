-------------------------------- MODULE Agent --------------------------------
(***************************************************************************)
(* rrfrida/agent.js: the recording core inside the target process.         *)
(*                                                                         *)
(* Native threads call hooked functions; Frida runs the agent's JavaScript *)
(* on the calling thread, one thread at a time (the JS lock, holder).  The *)
(* lock is given up inside a native call the agent makes:                  *)
(*   "clock": clock_gettime through a NativeFunction, once per event;      *)
(*   "send":  send() of a full batch ("host message delivery can let       *)
(*            callbacks from another native thread enter the agent").      *)
(* YieldPoints names the calls that give it up, so that an instance can    *)
(* say what each of them costs.  RPCs run on one more thread, JS.          *)
(*                                                                         *)
(* Registers, snapshot bytes and timestamps are abstracted away; a batch   *)
(* holds BatchCapacity events instead of a number of bytes.                *)
(***************************************************************************)
EXTENDS TraceEvents, SequencesExt

CONSTANTS
  Threads,       \* native threads of the target process
  JS,            \* the thread that serves RPCs and timers
  Nobody,        \* the JS lock is free; no fixture is bound
  None,          \* nothing in flight
  Addresses,     \* hooked function addresses
  ProbesAt,      \* address -> sequence of logical probes, as installed
  InsProbes,     \* instruction probes
  KindOf,        \* probe -> kind
  Filtered,      \* function probes with callerReturnRvas
  AnyThread,     \* function probes with fixtureThreadOnly === false
  BatchCapacity, \* events that fit layouts.batchBytes
  YieldPoints,   \* calls that give up the JS lock
  Faults,        \* faults that may occur
  MaxDepth,      \* bound: nested hooked calls of a thread
  MaxStimuli,    \* bound: calls, instruction hits and RPCs
  MaxFaults      \* bound: faults that occur

FnProbes == UNION {Range(ProbesAt[a]) : a \in Addresses}
Kinds == {KindOf[p] : p \in FnProbes \cup InsProbes}

ASSUME ThreadsAssumption ==
  /\ JS \notin Threads /\ Nobody \notin Threads /\ JS # Nobody
ASSUME ProbesAssumption ==
  /\ \A a \in Addresses : ProbesAt[a] \in Seq(FnProbes) /\ ProbesAt[a] # <<>>
  /\ FnProbes \cap InsProbes = {}
  /\ FnProbes \cup InsProbes \subseteq DOMAIN KindOf
ASSUME NoneAssumption ==
  /\ None \notin [kind : Kinds, phase : Phases, seq : Nat, id : Nat]
  /\ None \notin [number : Nat \ {0}, recs : Seq(EventSet(Kinds, Threads))]
ASSUME CapacityAssumption == BatchCapacity \in Nat \ {0}
ASSUME PointsAssumption ==
  /\ YieldPoints \subseteq {"clock", "send"}
  /\ Faults \subseteq 
       {"install", "capture_enter", "capture_leave", "capture_hit", "drop", "send",
        "death"}

VARIABLES
  loaded,          \* the script is loaded
  installed, accepting, fixture,                      \* agent.js flags
  enters, leaves, hits,                               \* counters
  correlation, invocations,                           \* invocation stacks
  threadSequences, threadBatches, batchSequence,      \* batching
  eventCount, dropCount,
  posted,          \* messages handed to Frida, in order: the channel to the host
  holder,          \* who runs JavaScript: a thread, JS or Nobody
  stage,           \* where each thread is: "native", "enter", "leave", "clock", "send"
  frames,          \* hooked calls each thread is inside of
  todo,            \* probes whose callback has still to run in this listener call
  pending,         \* the event a thread is recording
  sending,         \* the batch a thread is sending
  rpc,             \* "idle", "polling", "flushing" or "sending"
  rpcTodo,         \* entries flushAllBatches has still to visit
  rpcStale,        \* records of a batch object that left the map while
                   \* flushAllBatches still refers to it; <<>> when it has not
  rpcSending,      \* the batch the RPC is sending
  log,             \* history: the events each thread has numbered
  stimuli, faults  \* bounds

callVars  == <<enters, leaves, hits, correlation, invocations>>
batchVars == <<threadSequences, threadBatches, batchSequence, eventCount, log>>
threadVars == <<stage, frames, todo, pending, sending>>
rpcVars   == <<rpc, rpcTodo, rpcStale, rpcSending>>
modeVars  == <<loaded, installed, accepting, fixture>>
agentVars == <<modeVars, callVars, batchVars, dropCount, posted, holder,
               threadVars, rpcVars, stimuli, faults>>

Skipped == 0     \* {skip: true} on an invocation stack; ids start at 1

NoBatches == [t \in Threads |-> <<>>]

AgentInit ==
  /\ loaded = TRUE /\ installed = FALSE /\ accepting = FALSE /\ fixture = Nobody
  /\ enters = [p \in FnProbes |-> 0] /\ leaves = enters
  /\ hits = [p \in InsProbes |-> 0]
  /\ correlation = 0
  /\ invocations = [p \in FnProbes |-> [t \in Threads |-> <<>>]]
  /\ threadSequences = [t \in Threads |-> 0]
  /\ threadBatches = NoBatches
  /\ batchSequence = 0 /\ eventCount = 0 /\ dropCount = 0
  /\ posted = <<>>
  /\ holder = Nobody
  /\ stage = [t \in Threads |-> "native"]
  /\ frames = [t \in Threads |-> <<>>]
  /\ todo = [t \in Threads |-> <<>>]
  /\ pending = [t \in Threads |-> None]
  /\ sending = [t \in Threads |-> None]
  /\ rpc = "idle" /\ rpcTodo = {} /\ rpcStale = NoBatches /\ rpcSending = None
  /\ log = [t \in Threads |-> <<>>]
  /\ stimuli = 0 /\ faults = 0

-----------------------------------------------------------------------------
(* Messages and the JS lock.                                               *)

Message(type) == [type |-> type]
BatchMessage(b) ==
  [type |-> "batch", number |-> b.number, declared |-> Len(b.recs), recs |-> b.recs]
Reply(ok) ==
  [type |-> "reply", ok |-> ok, events |-> eventCount, drops |-> dropCount]

Post(m) == posted' = Append(posted, m)

Runs(u) == holder \in {Nobody, u}

Stimulus == stimuli < MaxStimuli /\ stimuli' = stimuli + 1

Fault(f) == f \in Faults /\ faults < MaxFaults /\ faults' = faults + 1

AfterYield(point, u) == IF point \in YieldPoints THEN Nobody ELSE u

(* The callback of one probe is over: the listener goes on with the next   *)
(* probe of the group, or returns to native code and the lock is free.     *)
Continue(t, phase) ==
  LET rest == Tail(todo[t])
  IN  /\ todo' = [todo EXCEPT ![t] = rest]
      /\ stage' = [stage EXCEPT ![t] = IF rest = <<>> THEN "native" ELSE phase]
      /\ holder' = IF rest = <<>> THEN Nobody ELSE t

(* An exception leaves the listener: Frida posts its own "error" envelope  *)
(* and the remaining probes of the group are not called.                   *)
Throw(t) ==
  /\ Post(Message("error"))
  /\ todo' = [todo EXCEPT ![t] = <<>>]
  /\ stage' = [stage EXCEPT ![t] = "native"]
  /\ holder' = Nobody

(* recordEvent up to the clock reading, where the lock may be given up.    *)
RecordEvent(t, p, phase, id) ==
  /\ pending' = [pending EXCEPT ![t] =
                   [kind |-> KindOf[p], phase |-> phase, seq |-> 0, id |-> id]]
  /\ stage' = [stage EXCEPT ![t] = "clock"]
  /\ holder' = AfterYield("clock", t)

-----------------------------------------------------------------------------
(* Function probes: the listener of an address and its fan-out.            *)

Call(t, a) ==
  /\ loaded /\ installed /\ stage[t] = "native" /\ holder = Nobody
  /\ Len(frames[t]) < MaxDepth
  /\ Stimulus
  /\ frames' = [frames EXCEPT ![t] = Append(@, a)]
  /\ todo' = [todo EXCEPT ![t] = ProbesAt[a]]
  /\ stage' = [stage EXCEPT ![t] = "enter"]
  /\ holder' = t
  /\ UNCHANGED <<modeVars, callVars, batchVars, dropCount, posted, pending,
                 sending, rpcVars, faults>>

(* Mutant: the probes of an address leave in the order they entered.       *)
LeaveAsEntered(a) == ProbesAt[a]

(* "Reverse the exits so nested correlations unwind in order."             *)
LeaveOrder(a) == Reverse(ProbesAt[a])

Return(t) ==
  /\ loaded /\ stage[t] = "native" /\ holder = Nobody /\ frames[t] # <<>>
  /\ todo' = [todo EXCEPT ![t] = LeaveOrder(Last(frames[t]))]
  /\ frames' = [frames EXCEPT ![t] = Front(@)]
  /\ stage' = [stage EXCEPT ![t] = "leave"]
  /\ holder' = t
  /\ UNCHANGED <<modeVars, callVars, batchVars, dropCount, posted, pending,
                 sending, rpcVars, stimuli, faults>>

PassesFixture(t, p) == fixture = Nobody \/ p \in AnyThread \/ t = fixture

Push(t, p, id) ==
  invocations' = [invocations EXCEPT ![p][t] = Append(@, id)]

EnterSkipped(t) ==
  /\ loaded /\ stage[t] = "enter" /\ holder = t
  /\ LET p == Head(todo[t])
     IN  /\ ~accepting \/ ~PassesFixture(t, p) \/ p \in Filtered
         /\ Push(t, p, Skipped)
  /\ Continue(t, "enter")
  /\ UNCHANGED <<modeVars, enters, leaves, hits, correlation, batchVars, dropCount,
                 posted, frames, pending, sending, rpcVars, stimuli, faults>>

(* The bookkeeping onEnter does before it captures anything.               *)
EnterCounted(t, p) ==
  /\ accepting /\ PassesFixture(t, p)
  /\ correlation' = correlation + 1
  /\ Push(t, p, correlation')
  /\ enters' = [enters EXCEPT ![p] = @ + 1]

EnterRecorded(t) ==
  /\ loaded /\ stage[t] = "enter" /\ holder = t
  /\ EnterCounted(t, Head(todo[t]))
  /\ RecordEvent(t, Head(todo[t]), "enter", correlation')
  /\ UNCHANGED <<modeVars, leaves, hits, batchVars, dropCount, posted, frames,
                 todo, sending, rpcVars, stimuli, faults>>

(* Mutant: the call is pushed and counted after its snapshots.             *)
EnterThrowsUncounted(t) ==
  /\ loaded /\ stage[t] = "enter" /\ holder = t
  /\ Fault("capture_enter")
  /\ accepting /\ PassesFixture(t, Head(todo[t]))
  /\ Throw(t)
  /\ UNCHANGED <<modeVars, callVars, batchVars, dropCount, frames, pending, sending,
                 rpcVars, stimuli>>

EnterThrows(t) ==
  /\ loaded /\ stage[t] = "enter" /\ holder = t
  /\ Fault("capture_enter")
  /\ EnterCounted(t, Head(todo[t]))
  /\ Throw(t)
  /\ UNCHANGED <<modeVars, leaves, hits, batchVars, dropCount, frames, pending,
                 sending, rpcVars, stimuli>>

Invocations(t) == invocations[Head(todo[t])][t]

(* Mutant: the invocation is read but stays on the stack.                  *)
Peek(t) == UNCHANGED invocations

Pop(t) == invocations' = [invocations EXCEPT ![Head(todo[t])][t] = Front(@)]

LeaveUnmatched(t) ==
  /\ loaded /\ stage[t] = "leave" /\ holder = t
  /\ Invocations(t) = <<>>
  /\ Throw(t)
  /\ UNCHANGED <<modeVars, callVars, batchVars, dropCount, frames, pending,
                 sending, rpcVars, stimuli, faults>>

LeaveSkipped(t) ==
  /\ loaded /\ stage[t] = "leave" /\ holder = t
  /\ Invocations(t) # <<>> /\ Last(Invocations(t)) = Skipped
  /\ Pop(t)
  /\ Continue(t, "leave")
  /\ UNCHANGED <<modeVars, enters, leaves, hits, correlation, batchVars, dropCount,
                 posted, frames, pending, sending, rpcVars, stimuli, faults>>

(* The leave is counted before it is captured and recorded.                *)
LeaveCounted(t) ==
  /\ Invocations(t) # <<>> /\ Last(Invocations(t)) # Skipped
  /\ Pop(t)
  /\ leaves' = [leaves EXCEPT ![Head(todo[t])] = @ + 1]

LeaveRecorded(t) ==
  /\ loaded /\ stage[t] = "leave" /\ holder = t
  /\ LeaveCounted(t)
  /\ RecordEvent(t, Head(todo[t]), "leave", Last(Invocations(t)))
  /\ UNCHANGED <<modeVars, enters, hits, correlation, batchVars, dropCount, posted,
                 frames, todo, sending, rpcVars, stimuli, faults>>

LeaveThrows(t) ==
  /\ loaded /\ stage[t] = "leave" /\ holder = t
  /\ Fault("capture_leave")
  /\ LeaveCounted(t)
  /\ Throw(t)
  /\ UNCHANGED <<modeVars, enters, hits, correlation, batchVars, dropCount, frames,
                 pending, sending, rpcVars, stimuli>>

-----------------------------------------------------------------------------
(* Instruction probes.                                                     *)

HitCounted(t, p) ==
  /\ loaded /\ installed /\ stage[t] = "native" /\ holder = Nobody
  /\ accepting
  /\ Stimulus
  /\ hits' = [hits EXCEPT ![p] = @ + 1]

Hit(t, p) ==
  /\ HitCounted(t, p)
  /\ RecordEvent(t, p, "instruction", 0)
  /\ todo' = [todo EXCEPT ![t] = <<p>>]
  /\ UNCHANGED <<modeVars, enters, leaves, correlation, invocations, batchVars,
                 dropCount, posted, frames, sending, rpcVars, faults>>

HitThrows(t, p) ==
  /\ HitCounted(t, p)
  /\ Fault("capture_hit")
  /\ Post(Message("error"))
  /\ UNCHANGED <<modeVars, enters, leaves, correlation, invocations, batchVars,
                 dropCount, holder, threadVars, rpcVars>>

-----------------------------------------------------------------------------
(* recordEvent from the clock reading on.                                  *)

(* Mutant: an event that cannot be recorded is dropped without a word.     *)
EventLost(t) ==
  /\ loaded /\ stage[t] = "clock" /\ Runs(t)
  /\ Fault("drop")
  /\ pending' = [pending EXCEPT ![t] = None]
  /\ Continue(t, pending[t].phase)
  /\ UNCHANGED <<modeVars, callVars, batchVars, dropCount, posted, frames, sending,
                 rpcVars, stimuli>>

(* clock_gettime failed, or the event is larger than a batch.              *)
EventDropped(t) ==
  /\ loaded /\ stage[t] = "clock" /\ Runs(t)
  /\ Fault("drop")
  /\ dropCount' = dropCount + 1
  /\ Post(Message("agent_error"))
  /\ pending' = [pending EXCEPT ![t] = None]
  /\ Continue(t, pending[t].phase)
  /\ UNCHANGED <<modeVars, callVars, batchVars, frames, sending, rpcVars, stimuli>>

(* Mutants: a number is taken before it is incremented; the threads share  *)
(* one counter.                                                            *)
NumberedFromZero(t) ==
  Event(pending[t].kind, pending[t].phase, t, threadSequences[t], pending[t].id)
NumberedByCount(t) ==
  Event(pending[t].kind, pending[t].phase, t, eventCount + 1, pending[t].id)

Numbered(t) ==
  Event(pending[t].kind, pending[t].phase, t, threadSequences[t] + 1, pending[t].id)

Number(t) ==
  /\ threadSequences' = [threadSequences EXCEPT ![t] = @ + 1]
  /\ log' = [log EXCEPT ![t] = Append(@, Numbered(t))]

EventBuffered(t) ==
  /\ loaded /\ stage[t] = "clock" /\ Runs(t)
  /\ Len(threadBatches[t]) < BatchCapacity
  /\ Number(t)
  /\ threadBatches' = [threadBatches EXCEPT ![t] = Append(@, Numbered(t))]
  /\ eventCount' = eventCount + 1
  /\ pending' = [pending EXCEPT ![t] = None]
  /\ Continue(t, pending[t].phase)
  /\ UNCHANGED <<modeVars, callVars, batchSequence, dropCount, posted, frames,
                 sending, rpcVars, stimuli, faults>>

Batch(number, recs) == [number |-> number, recs |-> recs]

(* The batch object that flushAllBatches holds for thread t leaves the map. *)
Detach(t) ==
  rpcStale' = IF t \in rpcTodo /\ rpcStale[t] = <<>>
                THEN [rpcStale EXCEPT ![t] = threadBatches[t]] ELSE rpcStale

(* Mutant: the buffer stays the thread's while it is sent.                 *)
KeptBatch(t) == threadBatches

FreshBatch(t) == [threadBatches EXCEPT ![t] = <<>>]

(* The batch is full: it is replaced by a new one, numbered and sent.      *)
BatchFull(t) ==
  /\ loaded /\ stage[t] = "clock" /\ Runs(t)
  /\ Len(threadBatches[t]) >= BatchCapacity
  /\ Number(t)
  /\ Detach(t)
  /\ threadBatches' = FreshBatch(t)
  /\ batchSequence' = batchSequence + 1
  /\ sending' = [sending EXCEPT ![t] = Batch(batchSequence', threadBatches[t])]
  /\ pending' = [pending EXCEPT ![t].seq = threadSequences'[t]]
  /\ stage' = [stage EXCEPT ![t] = "send"]
  /\ holder' = AfterYield("send", t)
  /\ UNCHANGED <<modeVars, callVars, eventCount, dropCount, posted, frames, todo,
                 rpc, rpcTodo, rpcSending, stimuli, faults>>

(* send() hands the batch to Frida; it needs no lock to do so.             *)
BatchPosted(t) ==
  /\ loaded /\ stage[t] = "send" /\ sending[t] # None
  /\ Post(BatchMessage(sending[t]))
  /\ sending' = [sending EXCEPT ![t] = None]
  /\ UNCHANGED <<modeVars, callVars, batchVars, dropCount, holder, stage, frames,
                 todo, pending, rpcVars, stimuli, faults>>

PendingEvent(t) ==
  Event(pending[t].kind, pending[t].phase, t, pending[t].seq, pending[t].id)

(* Back in recordEvent, the event goes into whatever batch is now the      *)
(* thread's: the code fetches it again after the flush.                    *)
AppendPending(t) ==
  /\ threadBatches' =
       [threadBatches EXCEPT ![t] = Append(@, PendingEvent(t))]
  /\ eventCount' = eventCount + 1
  /\ pending' = [pending EXCEPT ![t] = None]
  /\ Continue(t, pending[t].phase)

SendReturns(t) ==
  /\ loaded /\ stage[t] = "send" /\ Runs(t) /\ sending[t] = None
  /\ AppendPending(t)
  /\ UNCHANGED <<modeVars, callVars, threadSequences, batchSequence, log, dropCount,
                 posted, frames, sending, rpcVars, stimuli, faults>>

(* Mutant: the number of a batch that could not be sent is used again.     *)
SendThrowsGivesBack(t) ==
  /\ loaded /\ stage[t] = "send" /\ Runs(t) /\ sending[t] # None
  /\ Fault("send")
  /\ dropCount' = dropCount + Len(sending[t].recs)
  /\ Post(Message("agent_error"))
  /\ sending' = [sending EXCEPT ![t] = None]
  /\ batchSequence' = batchSequence - 1
  /\ AppendPending(t)
  /\ UNCHANGED <<modeVars, callVars, threadSequences, log, frames, rpcVars, stimuli>>

SendThrows(t) ==
  /\ loaded /\ stage[t] = "send" /\ Runs(t) /\ sending[t] # None
  /\ Fault("send")
  /\ dropCount' = dropCount + Len(sending[t].recs)
  /\ Post(Message("agent_error"))
  /\ sending' = [sending EXCEPT ![t] = None]
  /\ AppendPending(t)
  /\ UNCHANGED <<modeVars, callVars, threadSequences, batchSequence, log, frames,
                 rpcVars, stimuli>>

-----------------------------------------------------------------------------
(* RPCs and installation, on the JS thread.                                *)

Install ==
  /\ loaded /\ ~installed /\ holder = Nobody
  /\ installed' = TRUE
  /\ Post(Message("installed"))
  /\ UNCHANGED <<loaded, accepting, fixture, callVars, batchVars, dropCount, holder,
                 threadVars, rpcVars, stimuli, faults>>

InstallFails ==
  /\ loaded /\ ~installed /\ holder = Nobody
  /\ Fault("install")
  /\ Post(Message("install_error"))
  /\ UNCHANGED <<modeVars, callVars, batchVars, dropCount, holder, threadVars,
                 rpcVars, stimuli>>

Serves == loaded /\ rpc = "idle" /\ holder = Nobody

BeginObservation ==
  /\ Serves
  /\ accepting' = TRUE
  /\ Post(Reply(TRUE))
  /\ UNCHANGED <<loaded, installed, fixture, callVars, batchVars, dropCount, holder,
                 threadVars, rpcVars, faults>>

BindFixtureMemory(t) ==
  /\ Serves
  /\ IF fixture = Nobody THEN fixture' = t /\ Post(Reply(TRUE))
                         ELSE UNCHANGED fixture /\ Post(Reply(FALSE))
  /\ UNCHANGED <<loaded, installed, accepting, callVars, batchVars, dropCount,
                 holder, threadVars, rpcVars, faults>>

Unfinished == \E p \in FnProbes : enters[p] # leaves[p]

(* Array.from(threadBatches.entries()): a thread has an entry once it has  *)
(* numbered an event.                                                      *)
StartFlush ==
  /\ rpc' = "flushing"
  /\ rpcTodo' = {t \in Threads : threadSequences[t] > 0}
  /\ rpcStale' = NoBatches
  /\ holder' = JS

(* Mutant: "a busy spin on Frida's JS thread".                             *)
Spins == rpc' = "polling" /\ holder' = JS /\ UNCHANGED <<rpcTodo, rpcStale>>

Polls == rpc' = "polling" /\ UNCHANGED <<rpcTodo, rpcStale, holder>>

FinishObservation ==
  /\ Serves
  /\ accepting' = FALSE
  /\ IF Unfinished THEN Polls ELSE StartFlush
  /\ UNCHANGED <<loaded, installed, fixture, callVars, batchVars, dropCount, posted,
                 threadVars, rpcSending, faults>>

PollFinished ==
  /\ loaded /\ rpc = "polling" /\ holder = Nobody
  /\ ~Unfinished
  /\ StartFlush
  /\ UNCHANGED <<modeVars, callVars, batchVars, dropCount, posted, threadVars,
                 rpcSending, stimuli, faults>>

(* Five seconds have passed with calls still unfinished.                   *)
(* Mutant: no deadline.                                                    *)
NoDeadline == FALSE

DeadlinePassed ==
  /\ loaded /\ rpc = "polling" /\ holder = Nobody
  /\ Unfinished
  /\ rpc' = "idle"
  /\ Post(Reply(FALSE))
  /\ UNCHANGED <<modeVars, callVars, batchVars, dropCount, holder, threadVars,
                 rpcTodo, rpcStale, rpcSending, stimuli, faults>>

Flush ==
  /\ Serves
  /\ StartFlush
  /\ UNCHANGED <<modeVars, callVars, batchVars, dropCount, posted, threadVars,
                 rpcSending, faults>>

(* The records of the batch object flushAllBatches holds for t.            *)
Held(t) == IF rpcStale[t] = <<>> THEN threadBatches[t] ELSE rpcStale[t]

FlushNothing(t) ==
  /\ loaded /\ rpc = "flushing" /\ Runs(JS) /\ t \in rpcTodo
  /\ Held(t) = <<>>
  /\ rpcTodo' = rpcTodo \ {t}
  /\ holder' = JS
  /\ UNCHANGED <<modeVars, callVars, batchVars, dropCount, posted, threadVars, rpc,
                 rpcStale, rpcSending, stimuli, faults>>

(* Mutant: an empty buffer is sent too.                                    *)
FlushThreadEvenEmpty(t) ==
  /\ loaded /\ rpc = "flushing" /\ Runs(JS) /\ t \in rpcTodo
  /\ rpcTodo' = rpcTodo \ {t}
  /\ threadBatches' = FreshBatch(t)
  /\ batchSequence' = batchSequence + 1
  /\ rpcSending' = Batch(batchSequence', Held(t))
  /\ rpcStale' = [rpcStale EXCEPT ![t] = <<>>]
  /\ rpc' = "sending"
  /\ holder' = AfterYield("send", JS)
  /\ UNCHANGED <<modeVars, callVars, threadSequences, eventCount, log, dropCount,
                 posted, threadVars, stimuli, faults>>

FlushThread(t) ==
  /\ loaded /\ rpc = "flushing" /\ Runs(JS) /\ t \in rpcTodo
  /\ Held(t) # <<>>
  /\ rpcTodo' = rpcTodo \ {t}
  /\ threadBatches' = FreshBatch(t)
  /\ batchSequence' = batchSequence + 1
  /\ rpcSending' = Batch(batchSequence', Held(t))
  /\ rpcStale' = [rpcStale EXCEPT ![t] = <<>>]
  /\ rpc' = "sending"
  /\ holder' = AfterYield("send", JS)
  /\ UNCHANGED <<modeVars, callVars, threadSequences, eventCount, log, dropCount,
                 posted, threadVars, stimuli, faults>>

RpcBatchPosted ==
  /\ loaded /\ rpc = "sending" /\ rpcSending # None
  /\ Post(BatchMessage(rpcSending))
  /\ rpcSending' = None
  /\ UNCHANGED <<modeVars, callVars, batchVars, dropCount, holder, threadVars, rpc,
                 rpcTodo, rpcStale, stimuli, faults>>

RpcSendReturns ==
  /\ loaded /\ rpc = "sending" /\ Runs(JS) /\ rpcSending = None
  /\ rpc' = "flushing" /\ holder' = JS
  /\ UNCHANGED <<modeVars, callVars, batchVars, dropCount, posted, threadVars,
                 rpcTodo, rpcStale, rpcSending, stimuli, faults>>

RpcSendThrows ==
  /\ loaded /\ rpc = "sending" /\ Runs(JS) /\ rpcSending # None
  /\ Fault("send")
  /\ dropCount' = dropCount + Len(rpcSending.recs)
  /\ Post(Message("agent_error"))
  /\ rpcSending' = None
  /\ rpc' = "flushing" /\ holder' = JS
  /\ UNCHANGED <<modeVars, callVars, batchVars, threadVars, rpcTodo, rpcStale,
                 stimuli>>

FlushDone ==
  /\ loaded /\ rpc = "flushing" /\ Runs(JS) /\ rpcTodo = {}
  /\ rpc' = "idle" /\ holder' = Nobody
  /\ Post(Reply(TRUE))
  /\ UNCHANGED <<modeVars, callVars, batchVars, dropCount, threadVars, rpcTodo,
                 rpcStale, rpcSending, stimuli, faults>>

-----------------------------------------------------------------------------
(* What happens whether or not a host asks for it.                         *)

CallbackStep(t) ==
  \/ EnterSkipped(t) \/ EnterRecorded(t) \/ EnterThrows(t)
  \/ LeaveUnmatched(t) \/ LeaveSkipped(t) \/ LeaveRecorded(t) \/ LeaveThrows(t)
  \/ EventDropped(t) \/ EventBuffered(t) \/ BatchFull(t)
  \/ BatchPosted(t) \/ SendReturns(t) \/ SendThrows(t)

NativeStep(t) ==
  \/ \E a \in Addresses : Call(t, a)
  \/ Return(t)
  \/ \E p \in InsProbes : Hit(t, p) \/ HitThrows(t, p)

RpcStep ==
  \/ PollFinished \/ DeadlinePassed
  \/ \E t \in Threads : FlushNothing(t) \/ FlushThread(t)
  \/ RpcBatchPosted \/ RpcSendReturns \/ RpcSendThrows \/ FlushDone

AgentStep ==
  \/ \E t \in Threads : CallbackStep(t) \/ NativeStep(t)
  \/ RpcStep
  \/ Install \/ InstallFails

-----------------------------------------------------------------------------
(* The agent by itself, with a client that calls its RPCs in any order.    *)

Request ==
  /\ Stimulus
  /\ \/ BeginObservation \/ FinishObservation \/ Flush
     \/ \E t \in Threads \cup {JS} : BindFixtureMemory(t)

AgentNext == AgentStep \/ Request

AgentFairness ==
  /\ \A t \in Threads : WF_agentVars(CallbackStep(t))
  /\ WF_agentVars(RpcStep)

AgentSpec == AgentInit /\ [][AgentNext]_agentVars /\ AgentFairness

-----------------------------------------------------------------------------
AgentEvents == EventSet(Kinds, Threads)
PendingSet == [kind : Kinds, phase : Phases, seq : Nat, id : Nat]
BatchSet == [number : Nat \ {0}, recs : Seq(AgentEvents)]
MessageSet ==
  [type : {"installed", "install_error", "error", "agent_error"}]
    \cup [type : {"batch"}, number : Nat \ {0}, declared : Nat, recs : Seq(AgentEvents)]
    \cup [type : {"reply"}, ok : BOOLEAN, events : Nat, drops : Nat]

ModeTypeOK ==
  /\ loaded \in BOOLEAN /\ installed \in BOOLEAN /\ accepting \in BOOLEAN
  /\ fixture \in Threads \cup {JS, Nobody}
CallTypeOK ==
  /\ enters \in [FnProbes -> Nat] /\ leaves \in [FnProbes -> Nat]
  /\ hits \in [InsProbes -> Nat]
  /\ correlation \in Nat
  /\ invocations \in [FnProbes -> [Threads -> Seq(Nat)]]
BatchTypeOK ==
  /\ threadSequences \in [Threads -> Nat]
  /\ threadBatches \in [Threads -> Seq(AgentEvents)]
  /\ log \in [Threads -> Seq(AgentEvents)]
  /\ batchSequence \in Nat /\ eventCount \in Nat /\ dropCount \in Nat
  /\ posted \in Seq(MessageSet)
ThreadTypeOK ==
  /\ holder \in Threads \cup {JS, Nobody}
  /\ stage \in [Threads -> {"native", "enter", "leave", "clock", "send"}]
  /\ frames \in [Threads -> Seq(Addresses)]
  /\ todo \in [Threads -> Seq(FnProbes \cup InsProbes)]
  /\ pending \in [Threads -> PendingSet \cup {None}]
  /\ sending \in [Threads -> BatchSet \cup {None}]
RpcTypeOK ==
  /\ rpc \in {"idle", "polling", "flushing", "sending"}
  /\ rpcTodo \subseteq Threads
  /\ rpcStale \in [Threads -> Seq(AgentEvents)]
  /\ rpcSending \in BatchSet \cup {None}

(* Where a thread is decides what it has in hand: probes still to call in  *)
(* a listener, one event in recordEvent, one batch at most in send().      *)
Recording(t) == stage[t] \in {"clock", "send"}
StageOK(t) ==
  /\ stage[t] = "native" <=> todo[t] = <<>>
  /\ Recording(t) <=> pending[t] # None
  /\ sending[t] # None => stage[t] = "send"
  /\ IF Recording(t) /\ pending[t].phase = "instruction"
       THEN \E p \in InsProbes : todo[t] = <<p>>
       ELSE todo[t] \in Seq(FnProbes)

AgentTypeOK ==
  /\ ModeTypeOK /\ CallTypeOK /\ BatchTypeOK /\ ThreadTypeOK /\ RpcTypeOK
  /\ \A t \in Threads : StageOK(t)

(* Wherever an event is, in a batch object of a thread, in one that an RPC *)
(* still holds, in a send in flight or in a posted message, it is the      *)
(* event its thread gave that number to: batching, replacing buffers and   *)
(* concurrent flushes never mix threads, renumber or alter a record.       *)
BufferedAuthentic ==
  \A t \in Threads : GenuineIn(log, threadBatches[t]) /\ GenuineIn(log, rpcStale[t])
InFlightAuthentic ==
  /\ \A t \in Threads : sending[t] # None => GenuineIn(log, sending[t].recs)
  /\ rpcSending # None => GenuineIn(log, rpcSending.recs)
PostedAuthentic ==
  \A n \in DOMAIN posted : posted[n].type = "batch" => GenuineIn(log, posted[n].recs)
Authentic == BufferedAuthentic /\ InFlightAuthentic /\ PostedAuthentic

(* The inductive strengthening of the two: a batch never outgrows its      *)
(* buffer, the counter of a thread is the length of its log, and while a   *)
(* full batch is being sent the thread's new batch is empty and the event  *)
(* in hand is the last one the thread has numbered.                        *)
BufferOK(t) ==
  /\ Len(threadBatches[t]) <= BatchCapacity
  /\ threadSequences[t] = Len(log[t])
  /\ stage[t] = "send" => /\ threadBatches[t] = <<>>
                          /\ pending[t].seq # 0 /\ NumberedIn(log, PendingEvent(t))
AgentInv == AgentTypeOK /\ Authentic /\ \A t \in Threads : BufferOK(t)

(* A batch on the wire is never empty and is a run of consecutive events   *)
(* of one thread, even when flushAllBatches sends a batch object that its  *)
(* thread has already replaced (agent.js:156, 166).                        *)
IsRun(es) ==
  /\ es # <<>>
  /\ \A i \in DOMAIN es : es[i].tid = es[1].tid /\ es[i].seq = es[1].seq + i - 1
BatchesAreRuns ==
  \A n \in DOMAIN posted : posted[n].type = "batch" =>
    /\ IsRun(posted[n].recs)
    /\ posted[n].declared = Len(posted[n].recs)

OpenCalls(p) ==
  UNION {{t} \X {i \in DOMAIN invocations[p][t] : invocations[p][t][i] # Skipped} :
           t \in Threads}

(* The counters finishobservation waits on are exact: whatever throws, is  *)
(* skipped or recurses, enters minus leaves is the number of counted calls *)
(* still on the invocation stacks.                                         *)
CountersExact == \A p \in FnProbes : enters[p] = leaves[p] + Cardinality(OpenCalls(p))

(* Nothing was dropped and no exception has left a callback.               *)
Clean == dropCount = 0 /\ \A n \in DOMAIN posted : posted[n].type # "error"

(* What a thread records nests: probes of one address leave in reverse,    *)
(* skipped calls keep their place on the stack, and recursion, a fixture   *)
(* bound or a recording begun in the middle of a call never yields a leave *)
(* whose enter is missing (agent.js:39-42, 373-374), unless an event was   *)
(* dropped or an exception reported.                                       *)
LogsNest == Clean => \A t \in Threads : Nests(log[t])

(* No number is given to two batches, in flight or posted, so the host     *)
(* can tell a lost batch from a late one.                                  *)
InFlight == {sending[t].number : t \in {u \in Threads : sending[u] # None}}
              \cup (IF rpcSending = None THEN {} ELSE {rpcSending.number})
PostedNumbers == {posted[n].number : n \in {m \in DOMAIN posted : posted[m].type = "batch"}}
NumbersUsedOnce ==
  /\ \A m, n \in DOMAIN posted :
       posted[m].type = "batch" /\ posted[n].type = "batch" /\ m # n
         => posted[m].number # posted[n].number
  /\ InFlight \cap PostedNumbers = {}
  /\ \A k \in InFlight \cup PostedNumbers : k <= batchSequence

(* Every callback returns to the program: no order of yields, flushes and  *)
(* throws leaves a thread waiting for the JS lock forever.                 *)
CallbackReturns ==
  \A t \in Threads : stage[t] # "native" ~> stage[t] = "native"

=============================================================================
