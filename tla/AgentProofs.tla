----------------------------- MODULE AgentProofs -----------------------------
(***************************************************************************)
(* Proofs about the agent, for any threads, probes, capacity, yield points *)
(* and faults, in three parts.  AgentInv is inductive, hence the types and *)
(* Authentic hold in every behaviour: one lemma per action, and what an    *)
(* action leaves alone is dealt with by the frame lemmas.  On top of it,   *)
(* the batches (NumberInv, RunInv) and the invocation stacks (CountInv,    *)
(* NestInv).                                                               *)
(***************************************************************************)
EXTENDS Agent, FiniteSetTheorems, TLAPS

-----------------------------------------------------------------------------
(* Frame lemmas: a part of the invariant whose variables do not change.    *)

LEMMA ModeFrame ==
  ASSUME ModeTypeOK, UNCHANGED modeVars PROVE ModeTypeOK'
BY DEF ModeTypeOK, modeVars

LEMMA CallFrame ==
  ASSUME CallTypeOK, UNCHANGED callVars PROVE CallTypeOK'
BY DEF CallTypeOK, callVars

LEMMA RpcFrame ==
  ASSUME RpcTypeOK, UNCHANGED rpcVars PROVE RpcTypeOK'
BY DEF RpcTypeOK, rpcVars

LEMMA ThreadFrame ==
  ASSUME ThreadTypeOK, \A t \in Threads : StageOK(t), UNCHANGED threadVars,
         holder' \in Threads \cup {JS, Nobody}
  PROVE  ThreadTypeOK' /\ \A t \in Threads : StageOK(t)'
BY DEF ThreadTypeOK, StageOK, Recording, threadVars

LEMMA BufferFrame ==
  ASSUME \A t \in Threads : BufferOK(t), UNCHANGED batchVars,
         UNCHANGED <<stage, pending>>
  PROVE  \A t \in Threads : BufferOK(t)'
BY DEF BufferOK, batchVars, PendingEvent

-----------------------------------------------------------------------------
(* Logs only grow, so what is genuine stays genuine.                       *)

Grows(L, M) ==
  \A t \in Threads : /\ Len(L[t]) <= Len(M[t])
                     /\ \A n \in 1..Len(L[t]) : M[t][n] = L[t][n]

Logs == [Threads -> Seq(AgentEvents)]

LEMMA GenuineGrows ==
  ASSUME NEW L \in Logs, NEW M \in Logs, Grows(L, M),
         NEW es \in Seq(AgentEvents), GenuineIn(L, es)
  PROVE  GenuineIn(M, es)
<1> SUFFICES ASSUME NEW i \in DOMAIN es PROVE NumberedIn(M, es[i])
  BY DEF GenuineIn
<1>1. es[i] \in AgentEvents /\ NumberedIn(L, es[i])
  BY DEF GenuineIn
<1>2. es[i].tid \in Threads /\ es[i].seq \in Nat /\ es[i].seq >= 1
  BY <1>1 DEF AgentEvents, EventSet
<1> QED BY <1>1, <1>2 DEF NumberedIn, Grows, Logs

LEMMA PostedStaysAuthentic ==
  ASSUME PostedAuthentic, posted \in Seq(MessageSet), UNCHANGED <<posted, log>>
  PROVE  PostedAuthentic'
BY DEF PostedAuthentic

(* A message that is no batch carries no event.                            *)
LEMMA PostPlain ==
  ASSUME PostedAuthentic, posted \in Seq(MessageSet),
         NEW m \in MessageSet, m.type # "batch", Post(m), UNCHANGED log
  PROVE  PostedAuthentic' /\ posted' \in Seq(MessageSet)
<1>1. posted' \in Seq(MessageSet) /\ posted' = Append(posted, m)
  BY DEF Post
<1> SUFFICES ASSUME NEW n \in DOMAIN posted', posted'[n].type = "batch"
             PROVE  GenuineIn(log, posted'[n].recs)
  BY <1>1 DEF PostedAuthentic
<1>2. n \in DOMAIN posted /\ posted'[n] = posted[n]
  BY <1>1
<1> QED BY <1>2 DEF PostedAuthentic

LEMMA PlainMessages ==
  ASSUME NEW type \in {"installed", "install_error", "error", "agent_error"}
  PROVE  Message(type) \in MessageSet /\ Message(type).type # "batch"
BY DEF Message, MessageSet

LEMMA ReplyMessage ==
  ASSUME BatchTypeOK, NEW ok \in BOOLEAN
  PROVE  Reply(ok) \in MessageSet /\ Reply(ok).type # "batch"
BY DEF Reply, MessageSet, BatchTypeOK

LEMMA BatchTypeFrame ==
  ASSUME BatchTypeOK, UNCHANGED batchVars, dropCount' \in Nat,
         posted' \in Seq(MessageSet)
  PROVE  BatchTypeOK'
BY DEF BatchTypeOK, batchVars

LEMMA AuthenticFrame ==
  ASSUME Authentic, PostedAuthentic',
         UNCHANGED <<threadBatches, log, rpcStale, sending, rpcSending>>
  PROVE  Authentic'
BY DEF Authentic, BufferedAuthentic, InFlightAuthentic

-----------------------------------------------------------------------------
(* The control state of a thread.                                          *)

LEMMA ListenerTodo ==
  ASSUME ThreadTypeOK, NEW t \in Threads, StageOK(t),
         stage[t] \in {"enter", "leave"}
  PROVE  /\ todo[t] # <<>> /\ todo[t] \in Seq(FnProbes)
         /\ Head(todo[t]) \in FnProbes
         /\ pending[t] = None /\ sending[t] = None
<1>1. stage[t] # "native" /\ ~Recording(t) /\ stage[t] # "send"
  BY DEF Recording
<1>2. todo[t] # <<>> /\ todo[t] \in Seq(FnProbes)
  BY <1>1 DEF StageOK
<1> QED BY <1>1, <1>2 DEF StageOK

LEMMA RecordingTodo ==
  ASSUME ThreadTypeOK, NEW t \in Threads, StageOK(t), Recording(t)
  PROVE  /\ todo[t] # <<>> /\ pending[t] \in PendingSet
         /\ \/ todo[t] \in Seq(FnProbes) /\ pending[t].phase \in {"enter", "leave"}
            \/ \E p \in InsProbes : todo[t] = <<p>>
<1>1. stage[t] # "native" /\ pending[t] # None
  BY DEF Recording, StageOK
<1>2. todo[t] # <<>> /\ pending[t] \in PendingSet
  BY <1>1 DEF StageOK, ThreadTypeOK
<1>3. pending[t].phase \in {"enter", "leave", "instruction"}
  BY <1>2 DEF PendingSet, Phases
<1> QED BY <1>2, <1>3 DEF StageOK

(* A probe's callback is over.                                             *)
LEMMA ContinueStage ==
  ASSUME ThreadTypeOK, \A u \in Threads : StageOK(u),
         NEW t \in Threads, NEW phase,
         todo[t] # <<>>,
         \/ todo[t] \in Seq(FnProbes) /\ phase \in {"enter", "leave"}
         \/ \E p \in InsProbes : todo[t] = <<p>>,
         Continue(t, phase),
         frames' = frames,
         pending' = [pending EXCEPT ![t] = None],
         sending' = [sending EXCEPT ![t] = None]
  PROVE  /\ ThreadTypeOK' /\ \A u \in Threads : StageOK(u)'
         /\ stage' = [stage EXCEPT ![t] = stage'[t]]
         /\ stage'[t] \notin {"clock", "send"}
<1> DEFINE rest == Tail(todo[t])
<1>1. /\ rest \in Seq(FnProbes)
      /\ rest # <<>> => phase \in {"enter", "leave"}
  <2>1. CASE todo[t] \in Seq(FnProbes) /\ phase \in {"enter", "leave"}
    BY <2>1
  <2>2. CASE \E p \in InsProbes : todo[t] = <<p>>
    BY <2>2
  <2> QED BY <2>1, <2>2
<1>2. /\ todo' = [todo EXCEPT ![t] = rest]
      /\ stage' = [stage EXCEPT ![t] = IF rest = <<>> THEN "native" ELSE phase]
      /\ holder' \in Threads \cup {JS, Nobody}
  BY DEF Continue
<1> HIDE DEF rest
<1>3. ThreadTypeOK'
  BY <1>1, <1>2 DEF ThreadTypeOK
<1>4. StageOK(t)'
  BY <1>1, <1>2 DEF StageOK, ThreadTypeOK, Recording
<1>5. ASSUME NEW u \in Threads, u # t PROVE StageOK(u)'
  BY <1>2, <1>5 DEF StageOK, ThreadTypeOK, Recording
<1>6. stage'[t] \notin {"clock", "send"} /\ stage' = [stage EXCEPT ![t] = stage'[t]]
  BY <1>1, <1>2 DEF ThreadTypeOK
<1> QED BY <1>3, <1>4, <1>5, <1>6

(* A callback throws.                                                      *)
LEMMA ThrowStage ==
  ASSUME ThreadTypeOK, \A u \in Threads : StageOK(u),
         NEW t \in Threads, ~Recording(t),
         Throw(t), frames' = frames, UNCHANGED <<pending, sending>>
  PROVE  /\ ThreadTypeOK' /\ \A u \in Threads : StageOK(u)'
         /\ stage' = [stage EXCEPT ![t] = "native"]
<1>1. /\ todo' = [todo EXCEPT ![t] = <<>>]
      /\ stage' = [stage EXCEPT ![t] = "native"]
      /\ holder' = Nobody
  BY DEF Throw
<1>2. pending[t] = None /\ sending[t] = None
  BY DEF StageOK, Recording
<1>3. ThreadTypeOK'
  BY <1>1 DEF ThreadTypeOK
<1>4. StageOK(t)'
  BY <1>1, <1>2 DEF StageOK, ThreadTypeOK, Recording
<1>5. ASSUME NEW u \in Threads, u # t PROVE StageOK(u)'
  BY <1>1, <1>5 DEF StageOK, ThreadTypeOK, Recording
<1> QED BY <1>1, <1>3, <1>4, <1>5

(* recordEvent reaches the clock.                                          *)
LEMMA RecordStage ==
  ASSUME ThreadTypeOK, \A u \in Threads : StageOK(u),
         NEW t \in Threads, ~Recording(t),
         NEW p \in FnProbes \cup InsProbes, NEW phase \in Phases, NEW id \in Nat,
         RecordEvent(t, p, phase, id),
         todo' \in [Threads -> Seq(FnProbes \cup InsProbes)], todo'[t] # <<>>,
         \A u \in Threads \ {t} : todo'[u] = todo[u],
         IF phase = "instruction" THEN \E q \in InsProbes : todo'[t] = <<q>>
                                  ELSE todo'[t] \in Seq(FnProbes),
         UNCHANGED <<frames, sending>>
  PROVE  /\ ThreadTypeOK' /\ \A u \in Threads : StageOK(u)'
         /\ stage' = [stage EXCEPT ![t] = "clock"]
         /\ \A u \in Threads \ {t} : pending'[u] = pending[u]
<1> DEFINE e == [kind |-> KindOf[p], phase |-> phase, seq |-> 0, id |-> id]
<1>1. e \in PendingSet /\ e # None /\ e.phase = phase
  BY NoneAssumption DEF PendingSet, Kinds
<1>2. /\ pending' = [pending EXCEPT ![t] = e]
      /\ stage' = [stage EXCEPT ![t] = "clock"]
      /\ holder' \in Threads \cup {JS, Nobody}
  BY DEF RecordEvent, AfterYield
<1> HIDE DEF e
<1>3. ThreadTypeOK'
  BY <1>1, <1>2 DEF ThreadTypeOK
<1>4. sending[t] = None
  BY DEF StageOK, Recording
<1>5. StageOK(t)'
  BY <1>1, <1>2, <1>4 DEF StageOK, ThreadTypeOK, Recording
<1>6. ASSUME NEW u \in Threads, u # t PROVE StageOK(u)'
  BY <1>2, <1>6 DEF StageOK, ThreadTypeOK, Recording
<1> QED BY <1>2, <1>3, <1>5, <1>6 DEF ThreadTypeOK

LEMMA BufferAway ==
  ASSUME \A u \in Threads : BufferOK(u), UNCHANGED batchVars, NEW t \in Threads,
         \A u \in Threads \ {t} : stage'[u] = stage[u] /\ pending'[u] = pending[u],
         stage'[t] # "send"
  PROVE  \A u \in Threads : BufferOK(u)'
<1>1. BufferOK(t)'
  BY DEF BufferOK, batchVars
<1>2. ASSUME NEW u \in Threads, u # t PROVE BufferOK(u)'
  BY <1>2 DEF BufferOK, batchVars, PendingEvent
<1> QED BY <1>1, <1>2

-----------------------------------------------------------------------------
(* Function and instruction probes: the callbacks touch no batch.          *)

(* What the actions of this section have in common.                        *)
LEMMA CallbackInv ==
  ASSUME AgentInv, NEW t \in Threads,
         UNCHANGED <<modeVars, batchVars, sending, rpcVars>>,
         UNCHANGED dropCount \/ dropCount' = dropCount + 1,
         \/ UNCHANGED posted
         \/ Post(Message("error")) \/ Post(Message("agent_error")),
         CallTypeOK', ThreadTypeOK', \A u \in Threads : StageOK(u)',
         \A u \in Threads \ {t} : stage'[u] = stage[u] /\ pending'[u] = pending[u],
         stage'[t] # "send"
  PROVE  AgentInv'
<1>1. /\ ModeTypeOK /\ BatchTypeOK /\ RpcTypeOK /\ Authentic /\ PostedAuthentic
      /\ \A u \in Threads : BufferOK(u)
      /\ posted \in Seq(MessageSet) /\ dropCount \in Nat
  BY DEF AgentInv, AgentTypeOK, Authentic, BatchTypeOK
<1>2. ModeTypeOK' /\ RpcTypeOK'
  BY <1>1, ModeFrame, RpcFrame
<1>3. UNCHANGED log
  BY DEF batchVars
<1>4. PostedAuthentic' /\ posted' \in Seq(MessageSet)
  <2>1. CASE UNCHANGED posted
    BY <2>1, <1>1, <1>3, PostedStaysAuthentic
  <2>2. CASE Post(Message("error"))
    BY <2>2, <1>1, <1>3, PostPlain, PlainMessages
  <2>3. CASE Post(Message("agent_error"))
    BY <2>3, <1>1, <1>3, PostPlain, PlainMessages
  <2> QED BY <2>1, <2>2, <2>3
<1>5. BatchTypeOK'
  BY <1>1, <1>4, BatchTypeFrame
<1>6. Authentic'
  BY <1>1, <1>4, AuthenticFrame DEF batchVars, rpcVars
<1>7. \A u \in Threads : BufferOK(u)'
  BY <1>1, BufferAway
<1> QED BY <1>2, <1>5, <1>6, <1>7 DEF AgentInv, AgentTypeOK

LEMMA CallInv ==
  ASSUME AgentInv, NEW t \in Threads, NEW a \in Addresses, Call(t, a)
  PROVE  AgentInv'
<1>1. /\ ThreadTypeOK /\ CallTypeOK /\ \A u \in Threads : StageOK(u)
      /\ ProbesAt[a] \in Seq(FnProbes) /\ ProbesAt[a] # <<>>
  BY ProbesAssumption DEF AgentInv, AgentTypeOK
<1>2. /\ stage[t] = "native" /\ holder' = t
      /\ frames' = [frames EXCEPT ![t] = Append(@, a)]
      /\ todo' = [todo EXCEPT ![t] = ProbesAt[a]]
      /\ stage' = [stage EXCEPT ![t] = "enter"]
      /\ UNCHANGED <<pending, sending>>
  BY DEF Call
<1>3. ThreadTypeOK'
  BY <1>1, <1>2 DEF ThreadTypeOK
<1>4. StageOK(t)'
  BY <1>1, <1>2 DEF StageOK, ThreadTypeOK, Recording
<1>5. ASSUME NEW u \in Threads, u # t PROVE StageOK(u)' /\ stage'[u] = stage[u]
  BY <1>1, <1>2, <1>5 DEF StageOK, ThreadTypeOK, Recording
<1>6. stage'[t] # "send"
  BY <1>1, <1>2 DEF ThreadTypeOK
<1>7. CallTypeOK'
  BY <1>1, CallFrame DEF Call
<1> QED BY <1>2, <1>3, <1>4, <1>5, <1>6, <1>7, CallbackInv DEF Call

LEMMA ReverseProbes ==
  ASSUME NEW ps \in Seq(FnProbes), ps # <<>>
  PROVE  Reverse(ps) \in Seq(FnProbes) /\ Reverse(ps) # <<>>
BY DEF Reverse

LEMMA ReturnInv ==
  ASSUME AgentInv, NEW t \in Threads, Return(t)
  PROVE  AgentInv'
<1> DEFINE rev == Reverse(ProbesAt[Last(frames[t])])
<1>1. ThreadTypeOK /\ CallTypeOK /\ \A u \in Threads : StageOK(u)
  BY DEF AgentInv, AgentTypeOK
<1>2. /\ stage[t] = "native" /\ holder' = t /\ frames[t] # <<>>
      /\ frames' = [frames EXCEPT ![t] = Front(@)]
      /\ todo' = [todo EXCEPT ![t] = rev]
      /\ stage' = [stage EXCEPT ![t] = "leave"]
      /\ UNCHANGED <<pending, sending>>
  BY DEF Return, LeaveOrder
<1>3. frames[t] \in Seq(Addresses)
  BY <1>1 DEF ThreadTypeOK
<1>4. Last(frames[t]) \in Addresses /\ Front(frames[t]) \in Seq(Addresses)
  BY <1>2, <1>3 DEF Last, Front
<1>5. rev \in Seq(FnProbes) /\ rev # <<>>
  BY <1>4, ReverseProbes, ProbesAssumption
<1> HIDE DEF rev
<1>6. ThreadTypeOK'
  BY <1>1, <1>2, <1>4, <1>5 DEF ThreadTypeOK
<1>7. StageOK(t)'
  BY <1>1, <1>2, <1>5 DEF StageOK, ThreadTypeOK, Recording
<1>8. ASSUME NEW u \in Threads, u # t PROVE StageOK(u)' /\ stage'[u] = stage[u]
  BY <1>1, <1>2, <1>8 DEF StageOK, ThreadTypeOK, Recording
<1>9. stage'[t] # "send"
  BY <1>1, <1>2 DEF ThreadTypeOK
<1>10. CallTypeOK'
  BY <1>1, CallFrame DEF Return
<1> QED BY <1>2, <1>6, <1>7, <1>8, <1>9, <1>10, CallbackInv DEF Return

LEMMA PushTyped ==
  ASSUME CallTypeOK, NEW t \in Threads, NEW p \in FnProbes, NEW id \in Nat,
         Push(t, p, id)
  PROVE  invocations' \in [FnProbes -> [Threads -> Seq(Nat)]]
BY DEF CallTypeOK, Push

LEMMA EnterSkippedInv ==
  ASSUME AgentInv, NEW t \in Threads, EnterSkipped(t)
  PROVE  AgentInv'
<1>1. /\ ThreadTypeOK /\ CallTypeOK /\ \A u \in Threads : StageOK(u)
      /\ stage[t] = "enter"
  BY DEF AgentInv, AgentTypeOK, EnterSkipped
<1>2. /\ todo[t] # <<>> /\ todo[t] \in Seq(FnProbes) /\ Head(todo[t]) \in FnProbes
      /\ pending[t] = None /\ sending[t] = None
  BY <1>1, ListenerTodo
<1>3. UNCHANGED <<frames, pending, sending>> /\ Continue(t, "enter")
  BY DEF EnterSkipped
<1>4. pending' = [pending EXCEPT ![t] = None] /\ sending' = [sending EXCEPT ![t] = None]
  BY <1>1, <1>2, <1>3 DEF ThreadTypeOK
<1>5. /\ ThreadTypeOK' /\ \A u \in Threads : StageOK(u)'
      /\ stage' = [stage EXCEPT ![t] = stage'[t]]
      /\ stage'[t] \notin {"clock", "send"}
  BY <1>1, <1>2, <1>3, <1>4, ContinueStage
<1>6. \A u \in Threads \ {t} : stage'[u] = stage[u] /\ pending'[u] = pending[u]
  BY <1>1, <1>3, <1>5 DEF ThreadTypeOK
<1>7. invocations' \in [FnProbes -> [Threads -> Seq(Nat)]]
  BY <1>1, <1>2, PushTyped DEF EnterSkipped, Skipped
<1>8. CallTypeOK'
  BY <1>1, <1>7 DEF CallTypeOK, EnterSkipped
<1> QED BY <1>5, <1>6, <1>8, CallbackInv DEF EnterSkipped

LEMMA EnterCountedTyped ==
  ASSUME CallTypeOK, NEW t \in Threads, NEW p \in FnProbes, EnterCounted(t, p),
         UNCHANGED <<leaves, hits>>
  PROVE  CallTypeOK' /\ correlation' \in Nat
<1>1. correlation' \in Nat /\ enters' = [enters EXCEPT ![p] = @ + 1]
  BY DEF EnterCounted, CallTypeOK
<1>2. invocations' \in [FnProbes -> [Threads -> Seq(Nat)]]
  BY <1>1, PushTyped DEF EnterCounted
<1>3. enters' \in [FnProbes -> Nat]
  BY <1>1 DEF CallTypeOK
<1> QED BY <1>1, <1>2, <1>3 DEF CallTypeOK

LEMMA EnterRecordedInv ==
  ASSUME AgentInv, NEW t \in Threads, EnterRecorded(t)
  PROVE  AgentInv'
<1> DEFINE p == Head(todo[t])
<1>1. /\ ThreadTypeOK /\ CallTypeOK /\ \A u \in Threads : StageOK(u)
      /\ stage[t] = "enter" /\ ~Recording(t)
  BY DEF AgentInv, AgentTypeOK, EnterRecorded, Recording
<1>2. todo[t] # <<>> /\ todo[t] \in Seq(FnProbes) /\ p \in FnProbes
  BY <1>1, ListenerTodo
<1>3. /\ EnterCounted(t, p) /\ RecordEvent(t, p, "enter", correlation')
      /\ UNCHANGED <<leaves, hits, todo, frames, sending>>
  BY DEF EnterRecorded
<1>4. CallTypeOK' /\ correlation' \in Nat
  BY <1>1, <1>2, <1>3, EnterCountedTyped
<1>5. todo' \in [Threads -> Seq(FnProbes \cup InsProbes)]
  BY <1>1, <1>3 DEF ThreadTypeOK
<1> HIDE DEF p
<1>6. /\ ThreadTypeOK' /\ \A u \in Threads : StageOK(u)'
      /\ stage' = [stage EXCEPT ![t] = "clock"]
      /\ \A u \in Threads \ {t} : pending'[u] = pending[u]
  BY <1>1, <1>2, <1>3, <1>4, <1>5, RecordStage DEF Phases
<1>7. stage'[t] # "send" /\ \A u \in Threads \ {t} : stage'[u] = stage[u]
  BY <1>1, <1>6 DEF ThreadTypeOK
<1> QED BY <1>4, <1>6, <1>7, CallbackInv DEF EnterRecorded

LEMMA EnterThrowsInv ==
  ASSUME AgentInv, NEW t \in Threads, EnterThrows(t)
  PROVE  AgentInv'
<1>1. /\ ThreadTypeOK /\ CallTypeOK /\ \A u \in Threads : StageOK(u)
      /\ stage[t] = "enter" /\ ~Recording(t)
  BY DEF AgentInv, AgentTypeOK, EnterThrows, Recording
<1>2. Head(todo[t]) \in FnProbes
  BY <1>1, ListenerTodo
<1>3. CallTypeOK'
  BY <1>1, <1>2, EnterCountedTyped DEF EnterThrows
<1>4. /\ ThreadTypeOK' /\ \A u \in Threads : StageOK(u)'
      /\ stage' = [stage EXCEPT ![t] = "native"]
  BY <1>1, ThrowStage DEF EnterThrows
<1>5. /\ stage'[t] # "send"
      /\ \A u \in Threads \ {t} : stage'[u] = stage[u] /\ pending'[u] = pending[u]
  BY <1>1, <1>4 DEF ThreadTypeOK, EnterThrows
<1> QED BY <1>3, <1>4, <1>5, CallbackInv DEF EnterThrows, Throw

LEMMA LeaveUnmatchedInv ==
  ASSUME AgentInv, NEW t \in Threads, LeaveUnmatched(t)
  PROVE  AgentInv'
<1>1. /\ ThreadTypeOK /\ CallTypeOK /\ \A u \in Threads : StageOK(u)
      /\ ~Recording(t)
  BY DEF AgentInv, AgentTypeOK, LeaveUnmatched, Recording
<1>2. CallTypeOK'
  BY <1>1, CallFrame DEF LeaveUnmatched
<1>3. /\ ThreadTypeOK' /\ \A u \in Threads : StageOK(u)'
      /\ stage' = [stage EXCEPT ![t] = "native"]
  BY <1>1, ThrowStage DEF LeaveUnmatched
<1>4. /\ stage'[t] # "send"
      /\ \A u \in Threads \ {t} : stage'[u] = stage[u] /\ pending'[u] = pending[u]
  BY <1>1, <1>3 DEF ThreadTypeOK, LeaveUnmatched
<1> QED BY <1>2, <1>3, <1>4, CallbackInv DEF LeaveUnmatched, Throw

LEMMA PopTyped ==
  ASSUME CallTypeOK, NEW t \in Threads, Head(todo[t]) \in FnProbes,
         Invocations(t) # <<>>, Pop(t)
  PROVE  /\ invocations' \in [FnProbes -> [Threads -> Seq(Nat)]]
         /\ Last(Invocations(t)) \in Nat
<1>1. Invocations(t) \in Seq(Nat)
  BY DEF Invocations, CallTypeOK
<1>2. Front(Invocations(t)) \in Seq(Nat) /\ Last(Invocations(t)) \in Nat
  BY <1>1 DEF Front, Last
<1> QED BY <1>2 DEF Pop, Invocations, CallTypeOK

LEMMA LeaveSkippedInv ==
  ASSUME AgentInv, NEW t \in Threads, LeaveSkipped(t)
  PROVE  AgentInv'
<1>1. /\ ThreadTypeOK /\ CallTypeOK /\ \A u \in Threads : StageOK(u)
      /\ stage[t] = "leave"
  BY DEF AgentInv, AgentTypeOK, LeaveSkipped
<1>2. /\ todo[t] # <<>> /\ todo[t] \in Seq(FnProbes) /\ Head(todo[t]) \in FnProbes
      /\ pending[t] = None /\ sending[t] = None
  BY <1>1, ListenerTodo
<1>3. UNCHANGED <<frames, pending, sending>> /\ Continue(t, "leave")
  BY DEF LeaveSkipped
<1>4. pending' = [pending EXCEPT ![t] = None] /\ sending' = [sending EXCEPT ![t] = None]
  BY <1>1, <1>2, <1>3 DEF ThreadTypeOK
<1>5. /\ ThreadTypeOK' /\ \A u \in Threads : StageOK(u)'
      /\ stage' = [stage EXCEPT ![t] = stage'[t]]
      /\ stage'[t] \notin {"clock", "send"}
  BY <1>1, <1>2, <1>3, <1>4, ContinueStage
<1>6. \A u \in Threads \ {t} : stage'[u] = stage[u] /\ pending'[u] = pending[u]
  BY <1>1, <1>3, <1>5 DEF ThreadTypeOK
<1>7. invocations' \in [FnProbes -> [Threads -> Seq(Nat)]]
  BY <1>1, <1>2, PopTyped DEF LeaveSkipped
<1>8. CallTypeOK'
  BY <1>1, <1>7 DEF CallTypeOK, LeaveSkipped
<1> QED BY <1>5, <1>6, <1>8, CallbackInv DEF LeaveSkipped

LEMMA LeaveCountedTyped ==
  ASSUME CallTypeOK, NEW t \in Threads, Head(todo[t]) \in FnProbes,
         LeaveCounted(t), UNCHANGED <<enters, hits, correlation>>
  PROVE  CallTypeOK' /\ Last(Invocations(t)) \in Nat
<1>1. /\ invocations' \in [FnProbes -> [Threads -> Seq(Nat)]]
      /\ Last(Invocations(t)) \in Nat
  BY PopTyped DEF LeaveCounted
<1>2. leaves' \in [FnProbes -> Nat]
  BY DEF CallTypeOK, LeaveCounted
<1> QED BY <1>1, <1>2 DEF CallTypeOK

LEMMA LeaveRecordedInv ==
  ASSUME AgentInv, NEW t \in Threads, LeaveRecorded(t)
  PROVE  AgentInv'
<1> DEFINE p == Head(todo[t])
           id == Last(Invocations(t))
<1>1. /\ ThreadTypeOK /\ CallTypeOK /\ \A u \in Threads : StageOK(u)
      /\ stage[t] = "leave" /\ ~Recording(t)
  BY DEF AgentInv, AgentTypeOK, LeaveRecorded, Recording
<1>2. todo[t] # <<>> /\ todo[t] \in Seq(FnProbes) /\ p \in FnProbes
  BY <1>1, ListenerTodo
<1>3. /\ LeaveCounted(t) /\ RecordEvent(t, p, "leave", id)
      /\ UNCHANGED <<enters, hits, correlation, todo, frames, sending>>
  BY DEF LeaveRecorded
<1>4. CallTypeOK' /\ id \in Nat
  BY <1>1, <1>2, <1>3, LeaveCountedTyped
<1>5. todo' \in [Threads -> Seq(FnProbes \cup InsProbes)]
  BY <1>1, <1>3 DEF ThreadTypeOK
<1> HIDE DEF p, id
<1>6. /\ ThreadTypeOK' /\ \A u \in Threads : StageOK(u)'
      /\ stage' = [stage EXCEPT ![t] = "clock"]
      /\ \A u \in Threads \ {t} : pending'[u] = pending[u]
  BY <1>1, <1>2, <1>3, <1>4, <1>5, RecordStage DEF Phases
<1>7. stage'[t] # "send" /\ \A u \in Threads \ {t} : stage'[u] = stage[u]
  BY <1>1, <1>6 DEF ThreadTypeOK
<1> QED BY <1>4, <1>6, <1>7, CallbackInv DEF LeaveRecorded

LEMMA LeaveThrowsInv ==
  ASSUME AgentInv, NEW t \in Threads, LeaveThrows(t)
  PROVE  AgentInv'
<1>1. /\ ThreadTypeOK /\ CallTypeOK /\ \A u \in Threads : StageOK(u)
      /\ stage[t] = "leave" /\ ~Recording(t)
  BY DEF AgentInv, AgentTypeOK, LeaveThrows, Recording
<1>2. Head(todo[t]) \in FnProbes
  BY <1>1, ListenerTodo
<1>3. CallTypeOK'
  BY <1>1, <1>2, LeaveCountedTyped DEF LeaveThrows
<1>4. /\ ThreadTypeOK' /\ \A u \in Threads : StageOK(u)'
      /\ stage' = [stage EXCEPT ![t] = "native"]
  BY <1>1, ThrowStage DEF LeaveThrows
<1>5. /\ stage'[t] # "send"
      /\ \A u \in Threads \ {t} : stage'[u] = stage[u] /\ pending'[u] = pending[u]
  BY <1>1, <1>4 DEF ThreadTypeOK, LeaveThrows
<1> QED BY <1>3, <1>4, <1>5, CallbackInv DEF LeaveThrows, Throw

LEMMA HitInv ==
  ASSUME AgentInv, NEW t \in Threads, NEW p \in InsProbes, Hit(t, p)
  PROVE  AgentInv'
<1>1. /\ ThreadTypeOK /\ CallTypeOK /\ \A u \in Threads : StageOK(u)
      /\ stage[t] = "native" /\ ~Recording(t)
  BY DEF AgentInv, AgentTypeOK, Hit, HitCounted, Recording
<1>2. /\ RecordEvent(t, p, "instruction", 0)
      /\ todo' = [todo EXCEPT ![t] = <<p>>]
      /\ UNCHANGED <<frames, sending>>
  BY DEF Hit
<1>3. CallTypeOK'
  BY <1>1 DEF CallTypeOK, Hit, HitCounted
<1>4. /\ todo' \in [Threads -> Seq(FnProbes \cup InsProbes)]
      /\ todo'[t] = <<p>> /\ todo'[t] # <<>>
      /\ \A u \in Threads \ {t} : todo'[u] = todo[u]
  BY <1>1, <1>2 DEF ThreadTypeOK
<1>5. /\ ThreadTypeOK' /\ \A u \in Threads : StageOK(u)'
      /\ stage' = [stage EXCEPT ![t] = "clock"]
      /\ \A u \in Threads \ {t} : pending'[u] = pending[u]
  BY <1>1, <1>2, <1>4, RecordStage DEF Phases
<1>6. stage'[t] # "send" /\ \A u \in Threads \ {t} : stage'[u] = stage[u]
  BY <1>1, <1>5 DEF ThreadTypeOK
<1> QED BY <1>3, <1>5, <1>6, CallbackInv DEF Hit

LEMMA HitThrowsInv ==
  ASSUME AgentInv, NEW t \in Threads, NEW p \in InsProbes, HitThrows(t, p)
  PROVE  AgentInv'
<1>1. /\ ThreadTypeOK /\ CallTypeOK /\ \A u \in Threads : StageOK(u)
      /\ stage[t] = "native"
      /\ holder' \in Threads \cup {JS, Nobody}
  BY DEF AgentInv, AgentTypeOK, HitThrows, HitCounted, ThreadTypeOK
<1>2. CallTypeOK'
  BY <1>1 DEF CallTypeOK, HitThrows, HitCounted
<1>3. ThreadTypeOK' /\ \A u \in Threads : StageOK(u)'
  BY <1>1, ThreadFrame DEF HitThrows
<1>4. UNCHANGED <<stage, pending, sending>>
  BY DEF HitThrows, threadVars
<1> QED BY <1>1, <1>2, <1>3, <1>4, CallbackInv DEF HitThrows

-----------------------------------------------------------------------------
(* recordEvent after the clock reading.                                    *)

LEMMA EventDroppedInv ==
  ASSUME AgentInv, NEW t \in Threads, EventDropped(t)
  PROVE  AgentInv'
<1>1. /\ ThreadTypeOK /\ CallTypeOK /\ \A u \in Threads : StageOK(u)
      /\ stage[t] = "clock" /\ Recording(t)
  BY DEF AgentInv, AgentTypeOK, EventDropped, Recording
<1>2. /\ todo[t] # <<>> /\ sending[t] = None
      /\ \/ todo[t] \in Seq(FnProbes) /\ pending[t].phase \in {"enter", "leave"}
         \/ \E p \in InsProbes : todo[t] = <<p>>
  BY <1>1, RecordingTodo DEF StageOK
<1>3. /\ UNCHANGED <<frames, sending>> /\ Continue(t, pending[t].phase)
      /\ pending' = [pending EXCEPT ![t] = None]
  BY DEF EventDropped
<1>4. sending' = [sending EXCEPT ![t] = None]
  BY <1>1, <1>2, <1>3 DEF ThreadTypeOK
<1>5. /\ ThreadTypeOK' /\ \A u \in Threads : StageOK(u)'
      /\ stage' = [stage EXCEPT ![t] = stage'[t]]
      /\ stage'[t] \notin {"clock", "send"}
  BY <1>1, <1>2, <1>3, <1>4, ContinueStage
<1>6. \A u \in Threads \ {t} : stage'[u] = stage[u] /\ pending'[u] = pending[u]
  BY <1>1, <1>3, <1>5 DEF ThreadTypeOK
<1>7. CallTypeOK'
  BY <1>1, CallFrame DEF EventDropped
<1> QED BY <1>5, <1>6, <1>7, CallbackInv DEF EventDropped

LEMMA NumberGrows ==
  ASSUME AgentInv, NEW t \in Threads, Recording(t), Number(t)
  PROVE  /\ log \in Logs /\ log' \in Logs /\ Grows(log, log')
         /\ threadSequences' = [threadSequences EXCEPT ![t] = @ + 1]
         /\ threadSequences' \in [Threads -> Nat]
         /\ \A u \in Threads : threadSequences'[u] = Len(log'[u])
         /\ Numbered(t) \in AgentEvents /\ NumberedIn(log', Numbered(t))
<1>1. /\ log \in Logs /\ threadSequences \in [Threads -> Nat]
      /\ \A u \in Threads : threadSequences[u] = Len(log[u])
      /\ pending[t] \in PendingSet
  BY RecordingTodo DEF AgentInv, AgentTypeOK, BatchTypeOK, BufferOK, Logs
<1>2. /\ Numbered(t) \in AgentEvents
      /\ Numbered(t).tid = t /\ Numbered(t).seq = Len(log[t]) + 1
  BY <1>1 DEF Numbered, Event, AgentEvents, EventSet, PendingSet
<1>3. /\ threadSequences' = [threadSequences EXCEPT ![t] = @ + 1]
      /\ log' = [log EXCEPT ![t] = Append(@, Numbered(t))]
  BY DEF Number
<1> DEFINE e == Numbered(t)
<1> HIDE DEF e
<1>4. log[t] \in Seq(AgentEvents) /\ e \in AgentEvents
  BY <1>1, <1>2 DEF Logs, e
<1>5. /\ Append(log[t], e) \in Seq(AgentEvents)
      /\ Len(Append(log[t], e)) = Len(log[t]) + 1
      /\ Append(log[t], e)[Len(log[t]) + 1] = e
      /\ \A n \in 1..Len(log[t]) : Append(log[t], e)[n] = log[t][n]
  BY <1>4
<1>6. log' = [log EXCEPT ![t] = Append(log[t], e)]
  BY <1>3 DEF e
<1>7. log' \in Logs
  BY <1>1, <1>5, <1>6 DEF Logs
<1>8. Grows(log, log')
  BY <1>1, <1>5, <1>6 DEF Logs, Grows
<1>9. \A u \in Threads : threadSequences'[u] = Len(log'[u])
  BY <1>1, <1>3, <1>5, <1>6 DEF Logs
<1>10. threadSequences' \in [Threads -> Nat]
  BY <1>1, <1>3
<1>11. NumberedIn(log', e)
  BY <1>1, <1>2, <1>5, <1>6 DEF NumberedIn, Logs, e
<1> QED BY <1>1, <1>2, <1>3, <1>7, <1>8, <1>9, <1>10, <1>11 DEF e

(* Everything that is somewhere stays genuine when a thread numbers one.   *)
LEMMA AuthenticGrows ==
  ASSUME AgentInv, log' \in Logs, Grows(log, log')
  PROVE  /\ \A u \in Threads : /\ GenuineIn(log', threadBatches[u])
                               /\ GenuineIn(log', rpcStale[u])
                               /\ sending[u] # None => GenuineIn(log', sending[u].recs)
         /\ rpcSending # None => GenuineIn(log', rpcSending.recs)
         /\ \A n \in DOMAIN posted :
              posted[n].type = "batch" => GenuineIn(log', posted[n].recs)
<1>1. /\ log \in Logs /\ Authentic /\ BatchTypeOK /\ ThreadTypeOK /\ RpcTypeOK
  BY DEF AgentInv, AgentTypeOK, BatchTypeOK, Logs
<1>2. ASSUME NEW u \in Threads
      PROVE  /\ GenuineIn(log', threadBatches[u]) /\ GenuineIn(log', rpcStale[u])
             /\ sending[u] # None => GenuineIn(log', sending[u].recs)
  <2>1. /\ threadBatches[u] \in Seq(AgentEvents) /\ rpcStale[u] \in Seq(AgentEvents)
        /\ sending[u] # None => sending[u].recs \in Seq(AgentEvents)
    BY <1>1 DEF BatchTypeOK, RpcTypeOK, ThreadTypeOK, BatchSet
  <2> QED BY <1>1, <2>1, GenuineGrows
            DEF Authentic, BufferedAuthentic, InFlightAuthentic
<1>3. rpcSending # None => GenuineIn(log', rpcSending.recs)
  <2>1. rpcSending # None => rpcSending.recs \in Seq(AgentEvents)
    BY <1>1 DEF RpcTypeOK, BatchSet
  <2> QED BY <1>1, <2>1, GenuineGrows DEF Authentic, InFlightAuthentic
<1>4. ASSUME NEW n \in DOMAIN posted, posted[n].type = "batch"
      PROVE  GenuineIn(log', posted[n].recs)
  <2>1. posted[n] \in MessageSet
    BY <1>1 DEF BatchTypeOK
  <2>2. posted[n].recs \in Seq(AgentEvents)
    BY <1>4, <2>1 DEF MessageSet
  <2> QED BY <1>1, <1>4, <2>2, GenuineGrows DEF Authentic, PostedAuthentic
<1> QED BY <1>2, <1>3, <1>4

LEMMA GenuineAppend ==
  ASSUME NEW L, NEW es \in Seq(AgentEvents), NEW e \in AgentEvents,
         GenuineIn(L, es), NumberedIn(L, e)
  PROVE  GenuineIn(L, Append(es, e)) /\ Append(es, e) \in Seq(AgentEvents)
<1>1. /\ Append(es, e) \in Seq(AgentEvents)
      /\ \A i \in DOMAIN Append(es, e) :
            Append(es, e)[i] = e \/ (i \in DOMAIN es /\ Append(es, e)[i] = es[i])
  OBVIOUS
<1> QED BY <1>1 DEF GenuineIn

LEMMA EventBufferedInv ==
  ASSUME AgentInv, NEW t \in Threads, EventBuffered(t)
  PROVE  AgentInv'
<1> DEFINE e == Numbered(t)
<1>1. /\ ThreadTypeOK /\ CallTypeOK /\ ModeTypeOK /\ RpcTypeOK /\ BatchTypeOK
      /\ \A u \in Threads : StageOK(u) /\ BufferOK(u)
      /\ stage[t] = "clock" /\ Recording(t) /\ Authentic
  BY DEF AgentInv, AgentTypeOK, EventBuffered, Recording
<1>2. /\ todo[t] # <<>> /\ sending[t] = None
      /\ \/ todo[t] \in Seq(FnProbes) /\ pending[t].phase \in {"enter", "leave"}
         \/ \E p \in InsProbes : todo[t] = <<p>>
  BY <1>1, RecordingTodo DEF StageOK
<1>3. /\ UNCHANGED <<frames, sending, rpcVars, modeVars, callVars, posted>>
      /\ Continue(t, pending[t].phase)
      /\ pending' = [pending EXCEPT ![t] = None]
      /\ threadBatches' = [threadBatches EXCEPT ![t] = Append(@, e)]
      /\ Len(threadBatches[t]) < BatchCapacity
  BY DEF EventBuffered
<1>4. sending' = [sending EXCEPT ![t] = None]
  BY <1>1, <1>2, <1>3 DEF ThreadTypeOK
<1>5. /\ ThreadTypeOK' /\ \A u \in Threads : StageOK(u)'
      /\ stage' = [stage EXCEPT ![t] = stage'[t]]
      /\ stage'[t] \notin {"clock", "send"}
  BY <1>1, <1>2, <1>3, <1>4, ContinueStage
<1>6. /\ log' \in Logs /\ Grows(log, log')
      /\ threadSequences' = [threadSequences EXCEPT ![t] = @ + 1]
      /\ threadSequences' \in [Threads -> Nat]
      /\ \A u \in Threads : threadSequences'[u] = Len(log'[u])
      /\ e \in AgentEvents /\ NumberedIn(log', e)
      /\ \A u \in Threads \ {t} : log'[u] = log[u]
  BY <1>1, NumberGrows DEF EventBuffered, Number, BatchTypeOK
<1> HIDE DEF e
<1>7. /\ GenuineIn(log', Append(threadBatches[t], e))
      /\ Append(threadBatches[t], e) \in Seq(AgentEvents)
      /\ Len(Append(threadBatches[t], e)) = Len(threadBatches[t]) + 1
  BY <1>1, <1>6, GenuineAppend, AuthenticGrows DEF BatchTypeOK
<1>8. ModeTypeOK' /\ CallTypeOK' /\ RpcTypeOK'
  BY <1>1, <1>3, ModeFrame, CallFrame, RpcFrame
<1>9. BatchTypeOK'
  BY <1>1, <1>3, <1>6, <1>7 DEF BatchTypeOK, EventBuffered, Logs
<1>10. Authentic'
  <2>1. \A u \in Threads : GenuineIn(log', threadBatches'[u])
    BY <1>1, <1>3, <1>6, <1>7, AuthenticGrows DEF BatchTypeOK
  <2>2. UNCHANGED <<rpcStale, rpcSending, sending, posted>>
    BY <1>3 DEF rpcVars
  <2> QED BY <1>6, <2>1, <2>2, AuthenticGrows
            DEF Authentic, BufferedAuthentic, InFlightAuthentic, PostedAuthentic
<1>11. BufferOK(t)'
  <2>1. threadBatches'[t] = Append(threadBatches[t], e)
    BY <1>1, <1>3 DEF BatchTypeOK
  <2> QED BY <1>1, <1>3, <1>5, <1>6, <1>7, <2>1, CapacityAssumption
            DEF BufferOK, BatchTypeOK
<1>12. ASSUME NEW u \in Threads, u # t PROVE BufferOK(u)'
  <2>1. /\ stage'[u] = stage[u] /\ pending'[u] = pending[u]
        /\ threadBatches'[u] = threadBatches[u] /\ log'[u] = log[u]
    BY <1>1, <1>3, <1>5, <1>6, <1>12 DEF ThreadTypeOK, BatchTypeOK
  <2>2. stage[u] = "send" => NumberedIn(log, PendingEvent(u)) /\ pending[u].seq # 0
    BY <1>1 DEF BufferOK
  <2>3. stage[u] = "send" => NumberedIn(log', PendingEvent(u)')
    BY <2>1, <2>2 DEF NumberedIn, PendingEvent, Event
  <2> QED BY <1>1, <1>6, <2>1, <2>2, <2>3 DEF BufferOK
<1> QED BY <1>5, <1>8, <1>9, <1>10, <1>11, <1>12 DEF AgentInv, AgentTypeOK

LEMMA BatchTyped ==
  ASSUME BatchTypeOK, NEW recs \in Seq(AgentEvents)
  PROVE  /\ Batch(batchSequence + 1, recs) \in BatchSet
         /\ Batch(batchSequence + 1, recs).recs = recs
BY DEF Batch, BatchSet, BatchTypeOK

LEMMA BatchFullInv ==
  ASSUME AgentInv, NEW t \in Threads, BatchFull(t)
  PROVE  AgentInv'
<1> DEFINE b == Batch(batchSequence + 1, threadBatches[t])
           e == Numbered(t)
           q == [pending[t] EXCEPT !.seq = Len(log[t]) + 1]
<1>1. /\ ThreadTypeOK /\ CallTypeOK /\ ModeTypeOK /\ RpcTypeOK /\ BatchTypeOK
      /\ \A u \in Threads : StageOK(u) /\ BufferOK(u)
      /\ stage[t] = "clock" /\ Recording(t) /\ Authentic
  BY DEF AgentInv, AgentTypeOK, BatchFull, Recording
<1>2. /\ todo[t] # <<>> /\ pending[t] \in PendingSet
      /\ \/ todo[t] \in Seq(FnProbes) /\ pending[t].phase \in {"enter", "leave"}
         \/ \E p \in InsProbes : todo[t] = <<p>>
  BY <1>1, RecordingTodo
<1>3. /\ log' \in Logs /\ Grows(log, log')
      /\ threadSequences' = [threadSequences EXCEPT ![t] = @ + 1]
      /\ threadSequences' \in [Threads -> Nat]
      /\ \A u \in Threads : threadSequences'[u] = Len(log'[u])
      /\ e \in AgentEvents /\ NumberedIn(log', e)
      /\ \A u \in Threads \ {t} : log'[u] = log[u]
  BY <1>1, NumberGrows DEF BatchFull, FreshBatch, Number, BatchTypeOK
<1>4. threadSequences[t] = Len(log[t]) /\ threadSequences'[t] = Len(log[t]) + 1
  BY <1>1, <1>3 DEF BufferOK, BatchTypeOK
<1>5. /\ UNCHANGED <<frames, todo, rpc, rpcTodo, rpcSending, modeVars, callVars,
                     posted, eventCount, dropCount>>
      /\ stage' = [stage EXCEPT ![t] = "send"]
      /\ pending' = [pending EXCEPT ![t] = q]
      /\ threadBatches' = [threadBatches EXCEPT ![t] = <<>>]
      /\ batchSequence' = batchSequence + 1
      /\ sending' = [sending EXCEPT ![t] = b]
      /\ holder' \in Threads \cup {JS, Nobody}
  BY <1>4 DEF BatchFull, FreshBatch, AfterYield
<1>6. /\ threadBatches[t] \in Seq(AgentEvents)
      /\ b \in BatchSet /\ b.recs = threadBatches[t]
  BY <1>1, BatchTyped DEF BatchTypeOK
<1>7. /\ q \in PendingSet /\ q # None /\ q.phase = pending[t].phase
      /\ q.seq # 0 /\ Event(q.kind, q.phase, t, q.seq, q.id) = e
  <2>1. Len(log[t]) \in Nat
    BY <1>1 DEF BatchTypeOK
  <2>2. /\ q.kind = pending[t].kind /\ q.phase = pending[t].phase
        /\ q.id = pending[t].id /\ q.seq = Len(log[t]) + 1
        /\ q \in PendingSet
    BY <1>2, <2>1 DEF PendingSet
  <2>3. q # None
    BY <2>2, NoneAssumption DEF PendingSet
  <2>4. Event(q.kind, q.phase, t, q.seq, q.id) = e
    BY <1>4, <2>2 DEF Numbered
  <2> QED BY <2>1, <2>2, <2>3, <2>4
<1> HIDE DEF b, e, q
<1>8. ThreadTypeOK'
  BY <1>1, <1>5, <1>6, <1>7 DEF ThreadTypeOK
<1>9. StageOK(t)'
  <2>1. /\ stage'[t] = "send" /\ pending'[t] = q /\ todo'[t] = todo[t]
        /\ Recording(t)'
    BY <1>1, <1>5 DEF ThreadTypeOK, Recording
  <2> QED BY <1>1, <1>2, <1>7, <2>1 DEF StageOK
<1>10. ASSUME NEW u \in Threads, u # t
       PROVE  /\ StageOK(u)' /\ stage'[u] = stage[u] /\ pending'[u] = pending[u]
              /\ threadBatches'[u] = threadBatches[u] /\ log'[u] = log[u]
  BY <1>1, <1>3, <1>5, <1>10 DEF StageOK, ThreadTypeOK, Recording, BatchTypeOK
<1>11. ModeTypeOK' /\ CallTypeOK'
  BY <1>1, <1>5, ModeFrame, CallFrame
<1>12. rpcStale' \in [Threads -> Seq(AgentEvents)] /\ RpcTypeOK'
  BY <1>1, <1>5, <1>6 DEF RpcTypeOK, BatchFull, Detach
<1>13. BatchTypeOK'
  BY <1>1, <1>3, <1>5 DEF BatchTypeOK, Logs
<1>14. Authentic'
  <2>1. \A u \in Threads : GenuineIn(log', threadBatches'[u])
    BY <1>1, <1>3, <1>5, AuthenticGrows DEF BatchTypeOK, GenuineIn
  <2>2. \A u \in Threads : GenuineIn(log', rpcStale'[u])
    BY <1>1, <1>3, AuthenticGrows DEF RpcTypeOK, BatchFull, Detach
  <2>3. \A u \in Threads : sending'[u] # None => GenuineIn(log', sending'[u].recs)
    BY <1>1, <1>3, <1>5, <1>6, AuthenticGrows DEF ThreadTypeOK
  <2> QED BY <1>3, <1>5, <2>1, <2>2, <2>3, AuthenticGrows
            DEF Authentic, BufferedAuthentic, InFlightAuthentic, PostedAuthentic
<1>15. BufferOK(t)'
  <2>1. threadBatches'[t] = <<>> /\ pending'[t] = q
    BY <1>1, <1>5 DEF BatchTypeOK, ThreadTypeOK
  <2> QED BY <1>3, <1>7, <2>1, CapacityAssumption DEF BufferOK, PendingEvent
<1>16. ASSUME NEW u \in Threads, u # t PROVE BufferOK(u)'
  <2>1. stage[u] = "send" => NumberedIn(log, PendingEvent(u)) /\ pending[u].seq # 0
    BY <1>1 DEF BufferOK
  <2>2. stage[u] = "send" => NumberedIn(log', PendingEvent(u)')
    BY <1>10, <1>16, <2>1 DEF NumberedIn, PendingEvent, Event
  <2> QED BY <1>1, <1>3, <1>10, <1>16, <2>1, <2>2 DEF BufferOK
<1> QED BY <1>8, <1>9, <1>10, <1>11, <1>12, <1>13, <1>14, <1>15, <1>16
      DEF AgentInv, AgentTypeOK

(* A posted batch carries what its sender had in flight.                   *)
LEMMA PostBatch ==
  ASSUME AgentInv, NEW b \in BatchSet, GenuineIn(log, b.recs),
         Post(BatchMessage(b)), UNCHANGED log
  PROVE  PostedAuthentic' /\ posted' \in Seq(MessageSet)
<1> DEFINE m == BatchMessage(b)
<1>1. m \in MessageSet /\ m.recs = b.recs
  BY DEF BatchMessage, MessageSet, BatchSet
<1>2. posted \in Seq(MessageSet) /\ PostedAuthentic
  BY DEF AgentInv, AgentTypeOK, BatchTypeOK, Authentic
<1>3. posted' = Append(posted, m)
  BY DEF Post
<1> HIDE DEF m
<1>4. posted' \in Seq(MessageSet)
  BY <1>1, <1>2, <1>3
<1>5. ASSUME NEW n \in DOMAIN posted', posted'[n].type = "batch"
      PROVE  GenuineIn(log, posted'[n].recs)
  <2>1. posted'[n] = m \/ (n \in DOMAIN posted /\ posted'[n] = posted[n])
    BY <1>1, <1>2, <1>3
  <2> QED BY <1>1, <1>2, <1>5, <2>1 DEF PostedAuthentic
<1> QED BY <1>4, <1>5 DEF PostedAuthentic

LEMMA BatchPostedInv ==
  ASSUME AgentInv, NEW t \in Threads, BatchPosted(t)
  PROVE  AgentInv'
<1>1. /\ ThreadTypeOK /\ CallTypeOK /\ ModeTypeOK /\ RpcTypeOK /\ BatchTypeOK
      /\ \A u \in Threads : StageOK(u) /\ BufferOK(u)
      /\ Authentic /\ sending[t] # None /\ dropCount \in Nat
  BY DEF AgentInv, AgentTypeOK, BatchPosted, BatchTypeOK
<1>2. /\ UNCHANGED <<modeVars, callVars, batchVars, dropCount, holder, stage,
                     frames, todo, pending, rpcVars>>
      /\ Post(BatchMessage(sending[t]))
      /\ sending' = [sending EXCEPT ![t] = None]
  BY DEF BatchPosted
<1>3. sending[t] \in BatchSet /\ GenuineIn(log, sending[t].recs)
  BY <1>1 DEF ThreadTypeOK, Authentic, InFlightAuthentic
<1>4. PostedAuthentic' /\ posted' \in Seq(MessageSet)
  BY <1>2, <1>3, PostBatch DEF batchVars
<1>5. ModeTypeOK' /\ CallTypeOK' /\ RpcTypeOK'
  BY <1>1, <1>2, ModeFrame, CallFrame, RpcFrame
<1>6. BatchTypeOK'
  BY <1>1, <1>2, <1>4, BatchTypeFrame
<1>7. ThreadTypeOK' /\ \A u \in Threads : StageOK(u)'
  BY <1>1, <1>2 DEF ThreadTypeOK, StageOK, Recording
<1>8. Authentic'
  BY <1>1, <1>2, <1>4 DEF Authentic, BufferedAuthentic, InFlightAuthentic, batchVars,
                          rpcVars, ThreadTypeOK
<1>9. \A u \in Threads : BufferOK(u)'
  BY <1>1, <1>2, BufferFrame
<1> QED BY <1>5, <1>6, <1>7, <1>8, <1>9 DEF AgentInv, AgentTypeOK

(* What SendReturns and SendThrows share once the message is dealt with.   *)
LEMMA AppendPendingInv ==
  ASSUME AgentInv, NEW t \in Threads, stage[t] = "send", AppendPending(t),
         UNCHANGED <<modeVars, callVars, threadSequences, batchSequence, log,
                     frames, rpcVars>>,
         sending' = [sending EXCEPT ![t] = None],
         dropCount' \in Nat, posted' \in Seq(MessageSet), PostedAuthentic'
  PROVE  AgentInv'
<1> DEFINE e == PendingEvent(t)
<1>1. /\ ThreadTypeOK /\ CallTypeOK /\ ModeTypeOK /\ RpcTypeOK /\ BatchTypeOK
      /\ \A u \in Threads : StageOK(u) /\ BufferOK(u)
      /\ Recording(t) /\ Authentic
  BY DEF AgentInv, AgentTypeOK, Recording
<1>2. /\ todo[t] # <<>> /\ pending[t] \in PendingSet
      /\ \/ todo[t] \in Seq(FnProbes) /\ pending[t].phase \in {"enter", "leave"}
         \/ \E p \in InsProbes : todo[t] = <<p>>
  BY <1>1, RecordingTodo
<1>3. /\ Continue(t, pending[t].phase)
      /\ pending' = [pending EXCEPT ![t] = None]
      /\ threadBatches' = [threadBatches EXCEPT ![t] = Append(@, e)]
      /\ eventCount' = eventCount + 1
  BY DEF AppendPending
<1>4. /\ ThreadTypeOK' /\ \A u \in Threads : StageOK(u)'
      /\ stage' = [stage EXCEPT ![t] = stage'[t]]
      /\ stage'[t] \notin {"clock", "send"}
  BY <1>1, <1>2, <1>3, ContinueStage
<1>5. threadBatches[t] = <<>> /\ NumberedIn(log, e) /\ pending[t].seq # 0
  BY <1>1 DEF BufferOK
<1>6. e \in AgentEvents
  BY <1>2, <1>5 DEF PendingEvent, Event, AgentEvents, EventSet, PendingSet
<1> HIDE DEF e
<1>7. /\ GenuineIn(log, Append(threadBatches[t], e))
      /\ Append(threadBatches[t], e) \in Seq(AgentEvents)
      /\ Len(Append(threadBatches[t], e)) = 1
  <2>1. threadBatches[t] \in Seq(AgentEvents) /\ GenuineIn(log, threadBatches[t])
    BY <1>1 DEF BatchTypeOK, Authentic, BufferedAuthentic
  <2>2. Len(Append(threadBatches[t], e)) = Len(threadBatches[t]) + 1
    BY <2>1
  <2>3. Len(threadBatches[t]) = 0
    BY <1>5
  <2>4. /\ GenuineIn(log, Append(threadBatches[t], e))
        /\ Append(threadBatches[t], e) \in Seq(AgentEvents)
    BY <1>5, <1>6, <2>1, GenuineAppend
  <2> QED BY <2>2, <2>3, <2>4
<1>8. ModeTypeOK' /\ CallTypeOK' /\ RpcTypeOK'
  BY <1>1, ModeFrame, CallFrame, RpcFrame
<1>9. BatchTypeOK'
  BY <1>1, <1>3, <1>7 DEF BatchTypeOK
<1>10. Authentic'
  BY <1>1, <1>3, <1>7 DEF Authentic, BufferedAuthentic, InFlightAuthentic, rpcVars,
                          ThreadTypeOK, BatchTypeOK
<1>11. BufferOK(t)'
  BY <1>1, <1>3, <1>4, <1>7, CapacityAssumption DEF BufferOK, BatchTypeOK
<1>12. ASSUME NEW u \in Threads, u # t PROVE BufferOK(u)'
  BY <1>1, <1>3, <1>4, <1>12 DEF BufferOK, BatchTypeOK, ThreadTypeOK, PendingEvent
<1> QED BY <1>4, <1>8, <1>9, <1>10, <1>11, <1>12 DEF AgentInv, AgentTypeOK

LEMMA SendReturnsInv ==
  ASSUME AgentInv, NEW t \in Threads, SendReturns(t)
  PROVE  AgentInv'
<1>1. /\ ThreadTypeOK /\ BatchTypeOK /\ PostedAuthentic
      /\ posted \in Seq(MessageSet) /\ dropCount \in Nat
  BY DEF AgentInv, AgentTypeOK, BatchTypeOK, Authentic
<1>2. PostedAuthentic'
  BY <1>1, PostedStaysAuthentic DEF SendReturns
<1>3. sending' = [sending EXCEPT ![t] = None]
  BY <1>1 DEF SendReturns, ThreadTypeOK
<1> QED BY <1>1, <1>2, <1>3, AppendPendingInv DEF SendReturns

LEMMA SendThrowsInv ==
  ASSUME AgentInv, NEW t \in Threads, SendThrows(t)
  PROVE  AgentInv'
<1>1. /\ BatchTypeOK /\ PostedAuthentic /\ ThreadTypeOK
      /\ posted \in Seq(MessageSet) /\ dropCount \in Nat
  BY DEF AgentInv, AgentTypeOK, BatchTypeOK, Authentic
<1>2. sending[t] \in BatchSet
  BY <1>1 DEF SendThrows, ThreadTypeOK
<1>3. Len(sending[t].recs) \in Nat
  BY <1>2 DEF BatchSet
<1>4. dropCount' \in Nat
  BY <1>1, <1>3 DEF SendThrows
<1>5. PostedAuthentic' /\ posted' \in Seq(MessageSet)
  BY <1>1, PostPlain, PlainMessages DEF SendThrows
<1> QED BY <1>4, <1>5, AppendPendingInv DEF SendThrows

-----------------------------------------------------------------------------
(* Installation, RPCs and flushes: the control of the threads stays.       *)

(* What the actions of this section that touch no batch have in common.    *)
LEMMA ServerInv ==
  ASSUME AgentInv, UNCHANGED <<callVars, batchVars, dropCount, threadVars>>,
         ModeTypeOK', RpcTypeOK', holder' \in Threads \cup {JS, Nobody},
         \A t \in Threads : GenuineIn(log, rpcStale'[t]),
         rpcSending' # None => GenuineIn(log, rpcSending'.recs),
         PostedAuthentic', posted' \in Seq(MessageSet)
  PROVE  AgentInv'
<1>1. /\ ThreadTypeOK /\ CallTypeOK /\ BatchTypeOK
      /\ \A u \in Threads : StageOK(u) /\ BufferOK(u)
      /\ Authentic /\ dropCount \in Nat
  BY DEF AgentInv, AgentTypeOK, BatchTypeOK
<1>2. CallTypeOK' /\ BatchTypeOK'
  BY <1>1, CallFrame, BatchTypeFrame
<1>3. ThreadTypeOK' /\ \A u \in Threads : StageOK(u)'
  BY <1>1, ThreadFrame
<1>4. Authentic'
  BY <1>1 DEF Authentic, BufferedAuthentic, InFlightAuthentic, batchVars, threadVars
<1>5. \A u \in Threads : BufferOK(u)'
  BY <1>1, BufferFrame DEF threadVars
<1> QED BY <1>2, <1>3, <1>4, <1>5 DEF AgentInv, AgentTypeOK

(* The same when the RPC's variables do not change either.                 *)
LEMMA AnswerInv ==
  ASSUME AgentInv, UNCHANGED <<callVars, batchVars, dropCount, threadVars>>,
         ModeTypeOK', RpcTypeOK', UNCHANGED <<rpcStale, rpcSending>>,
         holder' \in Threads \cup {JS, Nobody},
         \/ UNCHANGED posted
         \/ \E m \in MessageSet : m.type # "batch" /\ Post(m)
  PROVE  AgentInv'
<1>1. /\ Authentic /\ PostedAuthentic /\ posted \in Seq(MessageSet) /\ UNCHANGED log
  BY DEF AgentInv, AgentTypeOK, BatchTypeOK, Authentic, batchVars
<1>2. PostedAuthentic' /\ posted' \in Seq(MessageSet)
  BY <1>1, PostPlain, PostedStaysAuthentic
<1> QED BY <1>1, <1>2, ServerInv DEF Authentic, BufferedAuthentic, InFlightAuthentic

LEMMA InstallInv ==
  ASSUME AgentInv, Install \/ InstallFails
  PROVE  AgentInv'
<1>1. ModeTypeOK /\ RpcTypeOK /\ ThreadTypeOK
  BY DEF AgentInv, AgentTypeOK
<1>2. /\ UNCHANGED <<callVars, batchVars, dropCount, threadVars, rpcVars, holder>>
      /\ Post(Message("installed")) \/ Post(Message("install_error"))
  BY DEF Install, InstallFails
<1>3. ModeTypeOK' /\ RpcTypeOK' /\ holder' \in Threads \cup {JS, Nobody}
  BY <1>1, <1>2, RpcFrame DEF Install, InstallFails, ModeTypeOK, modeVars, ThreadTypeOK
<1> QED BY <1>2, <1>3, PlainMessages, AnswerInv DEF rpcVars

LEMMA BeginInv ==
  ASSUME AgentInv, BeginObservation
  PROVE  AgentInv'
<1>1. ModeTypeOK /\ RpcTypeOK /\ ThreadTypeOK /\ BatchTypeOK
  BY DEF AgentInv, AgentTypeOK
<1>2. ModeTypeOK' /\ RpcTypeOK' /\ holder' \in Threads \cup {JS, Nobody}
  BY <1>1, RpcFrame DEF BeginObservation, ModeTypeOK, ThreadTypeOK
<1> QED BY <1>1, <1>2, ReplyMessage, AnswerInv DEF BeginObservation, rpcVars

LEMMA BindInv ==
  ASSUME AgentInv, NEW t \in Threads \cup {JS}, BindFixtureMemory(t)
  PROVE  AgentInv'
<1>1. ModeTypeOK /\ RpcTypeOK /\ ThreadTypeOK /\ BatchTypeOK
  BY DEF AgentInv, AgentTypeOK
<1>2. ModeTypeOK' /\ RpcTypeOK' /\ holder' \in Threads \cup {JS, Nobody}
  BY <1>1, RpcFrame DEF BindFixtureMemory, ModeTypeOK, ThreadTypeOK
<1> QED BY <1>1, <1>2, ReplyMessage, AnswerInv DEF BindFixtureMemory, rpcVars

LEMMA StartFlushTyped ==
  ASSUME RpcTypeOK, StartFlush, UNCHANGED rpcSending
  PROVE  /\ RpcTypeOK' /\ holder' \in Threads \cup {JS, Nobody}
         /\ \A t \in Threads : GenuineIn(log, rpcStale'[t])
BY DEF RpcTypeOK, StartFlush, NoBatches, GenuineIn

LEMMA FlushStartsInv ==
  ASSUME AgentInv, ModeTypeOK', StartFlush,
         UNCHANGED <<callVars, batchVars, dropCount, posted, threadVars, rpcSending>>
  PROVE  AgentInv'
<1>1. /\ RpcTypeOK /\ PostedAuthentic /\ posted \in Seq(MessageSet)
      /\ rpcSending # None => GenuineIn(log, rpcSending.recs)
  BY DEF AgentInv, AgentTypeOK, BatchTypeOK, Authentic, InFlightAuthentic
<1>2. PostedAuthentic'
  BY <1>1, PostedStaysAuthentic DEF batchVars
<1> QED BY <1>1, <1>2, StartFlushTyped, ServerInv

LEMMA FinishInv ==
  ASSUME AgentInv, FinishObservation
  PROVE  AgentInv'
<1>1. ModeTypeOK /\ RpcTypeOK /\ ThreadTypeOK
  BY DEF AgentInv, AgentTypeOK
<1>2. ModeTypeOK'
  BY <1>1 DEF FinishObservation, ModeTypeOK
<1>3. CASE StartFlush
  BY <1>2, <1>3, FlushStartsInv DEF FinishObservation
<1>4. CASE rpc' = "polling" /\ UNCHANGED <<rpcTodo, rpcStale, holder>>
  <2>1. RpcTypeOK' /\ holder' \in Threads \cup {JS, Nobody}
    BY <1>1, <1>4 DEF FinishObservation, RpcTypeOK, ThreadTypeOK
  <2> QED BY <1>2, <1>4, <2>1, AnswerInv DEF FinishObservation
<1> QED BY <1>3, <1>4 DEF FinishObservation, Polls

LEMMA PollOrFlushInv ==
  ASSUME AgentInv, PollFinished \/ Flush
  PROVE  AgentInv'
<1>1. ModeTypeOK'
  BY ModeFrame DEF AgentInv, AgentTypeOK, PollFinished, Flush
<1> QED BY <1>1, FlushStartsInv DEF PollFinished, Flush

LEMMA DeadlinePassedInv ==
  ASSUME AgentInv, DeadlinePassed
  PROVE  AgentInv'
<1>1. ModeTypeOK /\ RpcTypeOK /\ ThreadTypeOK /\ BatchTypeOK
  BY DEF AgentInv, AgentTypeOK
<1>2. ModeTypeOK' /\ RpcTypeOK' /\ holder' \in Threads \cup {JS, Nobody}
  BY <1>1, ModeFrame DEF DeadlinePassed, RpcTypeOK, ThreadTypeOK
<1> QED BY <1>1, <1>2, ReplyMessage, AnswerInv DEF DeadlinePassed

LEMMA FlushDoneInv ==
  ASSUME AgentInv, FlushDone
  PROVE  AgentInv'
<1>1. ModeTypeOK /\ RpcTypeOK /\ ThreadTypeOK /\ BatchTypeOK
  BY DEF AgentInv, AgentTypeOK
<1>2. ModeTypeOK' /\ RpcTypeOK' /\ holder' \in Threads \cup {JS, Nobody}
  BY <1>1, ModeFrame DEF FlushDone, RpcTypeOK, ThreadTypeOK
<1> QED BY <1>1, <1>2, ReplyMessage, AnswerInv DEF FlushDone

LEMMA FlushNothingInv ==
  ASSUME AgentInv, NEW t \in Threads, FlushNothing(t)
  PROVE  AgentInv'
<1>1. ModeTypeOK /\ RpcTypeOK /\ ThreadTypeOK
  BY DEF AgentInv, AgentTypeOK
<1>2. ModeTypeOK' /\ RpcTypeOK' /\ holder' \in Threads \cup {JS, Nobody}
  BY <1>1, ModeFrame DEF FlushNothing, RpcTypeOK
<1> QED BY <1>1, <1>2, AnswerInv DEF FlushNothing

LEMMA RpcSendReturnsInv ==
  ASSUME AgentInv, RpcSendReturns
  PROVE  AgentInv'
<1>1. ModeTypeOK /\ RpcTypeOK /\ ThreadTypeOK
  BY DEF AgentInv, AgentTypeOK
<1>2. ModeTypeOK' /\ RpcTypeOK' /\ holder' \in Threads \cup {JS, Nobody}
  BY <1>1, ModeFrame DEF RpcSendReturns, RpcTypeOK
<1> QED BY <1>1, <1>2, AnswerInv DEF RpcSendReturns

LEMMA RpcBatchPostedInv ==
  ASSUME AgentInv, RpcBatchPosted
  PROVE  AgentInv'
<1>1. /\ ModeTypeOK /\ RpcTypeOK /\ ThreadTypeOK /\ Authentic
      /\ rpcSending # None
  BY DEF AgentInv, AgentTypeOK, RpcBatchPosted
<1>2. rpcSending \in BatchSet /\ GenuineIn(log, rpcSending.recs)
  BY <1>1 DEF RpcTypeOK, Authentic, InFlightAuthentic
<1>3. PostedAuthentic' /\ posted' \in Seq(MessageSet)
  BY <1>2, PostBatch DEF RpcBatchPosted, batchVars
<1>4. ModeTypeOK' /\ RpcTypeOK' /\ holder' \in Threads \cup {JS, Nobody}
  BY <1>1, ModeFrame DEF RpcBatchPosted, RpcTypeOK, ThreadTypeOK
<1>5. \A t \in Threads : GenuineIn(log, rpcStale'[t])
  BY <1>1 DEF RpcBatchPosted, Authentic, BufferedAuthentic
<1> QED BY <1>3, <1>4, <1>5, ServerInv DEF RpcBatchPosted

LEMMA FlushThreadInv ==
  ASSUME AgentInv, NEW t \in Threads, FlushThread(t)
  PROVE  AgentInv'
<1> DEFINE b == Batch(batchSequence + 1, Held(t))
<1>1. /\ ThreadTypeOK /\ CallTypeOK /\ ModeTypeOK /\ RpcTypeOK /\ BatchTypeOK
      /\ \A u \in Threads : StageOK(u) /\ BufferOK(u)
      /\ Authentic
  BY DEF AgentInv, AgentTypeOK
<1>2. Held(t) \in Seq(AgentEvents) /\ GenuineIn(log, Held(t))
  BY <1>1 DEF Held, BatchTypeOK, RpcTypeOK, Authentic, BufferedAuthentic
<1>3. b \in BatchSet /\ b.recs = Held(t)
  BY <1>1, <1>2, BatchTyped
<1>4. /\ UNCHANGED <<modeVars, callVars, threadSequences, eventCount, log, dropCount,
                     posted, threadVars>>
      /\ rpcTodo' = rpcTodo \ {t} /\ rpc' = "sending"
      /\ threadBatches' = [threadBatches EXCEPT ![t] = <<>>]
      /\ batchSequence' = batchSequence + 1
      /\ rpcSending' = b
      /\ rpcStale' = [rpcStale EXCEPT ![t] = <<>>]
      /\ holder' \in Threads \cup {JS, Nobody}
  BY DEF FlushThread, FreshBatch, AfterYield
<1> HIDE DEF b
<1>5. ModeTypeOK' /\ CallTypeOK'
  BY <1>1, <1>4, ModeFrame, CallFrame
<1>6. BatchTypeOK' /\ RpcTypeOK'
  BY <1>1, <1>3, <1>4 DEF BatchTypeOK, RpcTypeOK
<1>7. ThreadTypeOK' /\ \A u \in Threads : StageOK(u)'
  BY <1>1, <1>4, ThreadFrame
<1>8. Authentic'
  <2>1. \A u \in Threads : /\ GenuineIn(log, threadBatches'[u])
                          /\ GenuineIn(log, rpcStale'[u])
    BY <1>1, <1>4 DEF Authentic, BufferedAuthentic, BatchTypeOK, RpcTypeOK, GenuineIn
  <2>2. GenuineIn(log, rpcSending'.recs)
    BY <1>2, <1>3, <1>4
  <2> QED BY <1>1, <1>4, <2>1, <2>2
       DEF Authentic, BufferedAuthentic, InFlightAuthentic, PostedAuthentic, threadVars
<1>9. \A u \in Threads : BufferOK(u)'
  <2> TAKE u \in Threads
  <2>1. threadBatches'[u] = <<>> \/ threadBatches'[u] = threadBatches[u]
    BY <1>1, <1>4 DEF BatchTypeOK
  <2> QED BY <1>1, <1>4, <2>1, CapacityAssumption
       DEF BufferOK, threadVars, PendingEvent
<1> QED BY <1>5, <1>6, <1>7, <1>8, <1>9 DEF AgentInv, AgentTypeOK

LEMMA RpcSendThrowsInv ==
  ASSUME AgentInv, RpcSendThrows
  PROVE  AgentInv'
<1>1. /\ ThreadTypeOK /\ CallTypeOK /\ ModeTypeOK /\ RpcTypeOK /\ BatchTypeOK
      /\ \A u \in Threads : StageOK(u) /\ BufferOK(u)
      /\ Authentic /\ PostedAuthentic
      /\ posted \in Seq(MessageSet) /\ dropCount \in Nat
  BY DEF AgentInv, AgentTypeOK, BatchTypeOK, Authentic
<1>2. /\ UNCHANGED <<modeVars, callVars, batchVars, threadVars, rpcTodo, rpcStale>>
      /\ dropCount' = dropCount + Len(rpcSending.recs)
      /\ Post(Message("agent_error"))
      /\ rpcSending' = None /\ rpc' = "flushing" /\ holder' = JS
      /\ rpcSending # None
  BY DEF RpcSendThrows
<1>3. dropCount' \in Nat
  BY <1>1, <1>2 DEF RpcTypeOK, BatchSet
<1>4. PostedAuthentic' /\ posted' \in Seq(MessageSet)
  BY <1>1, <1>2, PostPlain, PlainMessages DEF batchVars
<1>5. ModeTypeOK' /\ CallTypeOK' /\ BatchTypeOK' /\ RpcTypeOK'
  BY <1>1, <1>2, <1>3, <1>4, ModeFrame, CallFrame, BatchTypeFrame DEF RpcTypeOK
<1>6. ThreadTypeOK' /\ \A u \in Threads : StageOK(u)'
  BY <1>1, <1>2, ThreadFrame
<1>7. Authentic'
  BY <1>1, <1>2, <1>4
     DEF Authentic, BufferedAuthentic, InFlightAuthentic, batchVars, threadVars
<1>8. \A u \in Threads : BufferOK(u)'
  BY <1>1, <1>2, BufferFrame DEF threadVars
<1> QED BY <1>5, <1>6, <1>7, <1>8 DEF AgentInv, AgentTypeOK

-----------------------------------------------------------------------------
LEMMA InitInv == AgentInit => AgentInv
<1> SUFFICES ASSUME AgentInit PROVE AgentInv
  OBVIOUS
<1>1. ModeTypeOK /\ CallTypeOK /\ BatchTypeOK /\ RpcTypeOK
  <2>1. ModeTypeOK
    BY DEF AgentInit, ModeTypeOK
  <2>2. enters \in [FnProbes -> Nat] /\ leaves \in [FnProbes -> Nat]
    BY DEF AgentInit
  <2>3. hits \in [InsProbes -> Nat] /\ correlation \in Nat
    BY DEF AgentInit
  <2>4. invocations \in [FnProbes -> [Threads -> Seq(Nat)]]
    BY DEF AgentInit
  <2>5. BatchTypeOK
    BY DEF AgentInit, NoBatches, BatchTypeOK
  <2>6. RpcTypeOK
    BY DEF AgentInit, NoBatches, RpcTypeOK
  <2> QED BY <2>1, <2>2, <2>3, <2>4, <2>5, <2>6 DEF CallTypeOK
<1>2. ThreadTypeOK /\ \A t \in Threads : StageOK(t)
  BY DEF AgentInit, ThreadTypeOK, StageOK, Recording
<1>3. Authentic
  BY DEF AgentInit, NoBatches, Authentic, BufferedAuthentic, InFlightAuthentic,
         PostedAuthentic, GenuineIn
<1>4. \A t \in Threads : BufferOK(t)
  BY CapacityAssumption DEF AgentInit, NoBatches, BufferOK
<1> QED BY <1>1, <1>2, <1>3, <1>4 DEF AgentInv, AgentTypeOK

LEMMA AgentStepInv == AgentInv /\ AgentStep => AgentInv'
<1> SUFFICES ASSUME AgentInv, AgentStep PROVE AgentInv'
  OBVIOUS
<1>1. ASSUME NEW t \in Threads, CallbackStep(t) PROVE AgentInv'
  BY <1>1, EnterSkippedInv, EnterRecordedInv, EnterThrowsInv, LeaveUnmatchedInv,
     LeaveSkippedInv, LeaveRecordedInv, LeaveThrowsInv, EventDroppedInv,
     EventBufferedInv, BatchFullInv, BatchPostedInv, SendReturnsInv, SendThrowsInv
     DEF CallbackStep
<1>2. ASSUME NEW t \in Threads, NativeStep(t) PROVE AgentInv'
  BY <1>2, CallInv, ReturnInv, HitInv, HitThrowsInv DEF NativeStep
<1>3. CASE RpcStep
  BY <1>3, PollOrFlushInv, DeadlinePassedInv, FlushNothingInv, FlushThreadInv,
     RpcBatchPostedInv, RpcSendReturnsInv, RpcSendThrowsInv, FlushDoneInv DEF RpcStep
<1>4. CASE Install \/ InstallFails
  BY <1>4, InstallInv
<1> QED BY <1>1, <1>2, <1>3, <1>4 DEF AgentStep

LEMMA AgentStutterInv == AgentInv /\ UNCHANGED agentVars => AgentInv'
<1> SUFFICES ASSUME AgentInv, UNCHANGED agentVars PROVE AgentInv'
  OBVIOUS
<1>1. /\ UNCHANGED <<callVars, batchVars, dropCount, threadVars, posted, holder,
                     rpcVars, modeVars>>
  BY DEF agentVars
<1>2. ModeTypeOK' /\ RpcTypeOK' /\ holder' \in Threads \cup {JS, Nobody}
  BY <1>1, ModeFrame, RpcFrame DEF AgentInv, AgentTypeOK, ThreadTypeOK
<1> QED BY <1>1, <1>2, AnswerInv DEF rpcVars

(* What may happen to the agent, whoever drives it: a step of its own, a   *)
(* request, or nothing but that it is unloaded or the bounds move.         *)
Service ==
  \/ Install \/ InstallFails \/ BeginObservation \/ FinishObservation \/ Flush
  \/ \E t \in Threads \cup {JS} : BindFixtureMemory(t)
Still ==
  UNCHANGED <<installed, accepting, fixture, callVars, batchVars, dropCount, posted,
              holder, threadVars, rpcVars>>
AgentMove ==
  \/ \E t \in Threads : CallbackStep(t) \/ NativeStep(t)
  \/ RpcStep \/ Service \/ Still

LEMMA NextMoves == [AgentNext]_agentVars => AgentMove
BY DEF AgentNext, AgentStep, Request, Service, Still, AgentMove, agentVars, modeVars

(* Messages are only added to the channel.                                 *)
Posts == UNCHANGED posted \/ \E m : Post(m)

LEMMA CallbackPosts ==
  ASSUME NEW t \in Threads, CallbackStep(t)
  PROVE  Posts
<1> USE DEF Posts
<1>1. CASE EnterSkipped(t) \/ EnterRecorded(t) \/ EnterThrows(t)
  BY <1>1 DEF EnterSkipped, EnterRecorded, EnterThrows, Throw
<1>2. CASE LeaveUnmatched(t) \/ LeaveSkipped(t) \/ LeaveRecorded(t) \/ LeaveThrows(t)
  BY <1>2 DEF LeaveUnmatched, LeaveSkipped, LeaveRecorded, LeaveThrows, Throw
<1>3. CASE EventDropped(t) \/ EventBuffered(t) \/ BatchFull(t)
  BY <1>3 DEF EventDropped, EventBuffered, BatchFull
<1>4. CASE BatchPosted(t) \/ SendReturns(t) \/ SendThrows(t)
  BY <1>4 DEF BatchPosted, SendReturns, SendThrows
<1> QED BY <1>1, <1>2, <1>3, <1>4 DEF CallbackStep

LEMMA MovePosts ==
  ASSUME AgentMove
  PROVE  Posts
<1>1. CASE \E t \in Threads : CallbackStep(t)
  BY <1>1, CallbackPosts
<1>2. CASE \E t \in Threads : NativeStep(t)
  BY <1>2 DEF Posts, NativeStep, Call, Return, Hit, HitThrows
<1>3. CASE RpcStep
  BY <1>3 DEF Posts, RpcStep, PollFinished, DeadlinePassed, FlushNothing, FlushThread,
              RpcBatchPosted, RpcSendReturns, RpcSendThrows, FlushDone
<1>4. CASE Service
  BY <1>4 DEF Posts, Service, Install, InstallFails, BeginObservation, FinishObservation,
              Flush, BindFixtureMemory
<1>5. CASE Still
  BY <1>5 DEF Posts, Still
<1> QED BY <1>1, <1>2, <1>3, <1>4, <1>5 DEF AgentMove

(* The inductive invariant holds in every behaviour of the agent.          *)
THEOREM AgentInvariant == AgentSpec => []AgentInv
<1>1. AgentInv /\ [AgentNext]_agentVars => AgentInv'
  <2>1. ASSUME AgentInv, Request PROVE AgentInv'
    BY <2>1, BeginInv, FinishInv, PollOrFlushInv, BindInv DEF Request
  <2> QED BY <2>1, AgentStepInv, AgentStutterInv DEF AgentNext
<1> QED BY <1>1, InitInv, PTL DEF AgentSpec

(* Types: in particular a thread in recordEvent has exactly one event in   *)
(* hand, and no callback is left half way when its thread is in the        *)
(* program (agent.js:175-218, 333-385).                                    *)
THEOREM AgentTypes == AgentSpec => []AgentTypeOK
BY AgentInvariant, PTL DEF AgentInv

(* Whatever the threads, the capacity of a batch, the calls that yield and *)
(* the faults, no batch ever carries an event that is not the one its      *)
(* thread gave that number (agent.js:149-169, 183-212).                    *)
THEOREM EventsAuthentic == AgentSpec => []Authentic
BY AgentInvariant, PTL DEF AgentInv

-----------------------------------------------------------------------------
(* Batches.  No number is given to two batches: neither a send() that      *)
(* fails or yields nor a flush beside it takes a number again.             *)
(* NumbersUsedOnce speaks of sets of numbers; NumberInv also keeps the     *)
(* batches in flight apart.  And every batch is a run of one thread's      *)
(* events, because its buffer always ends with the number the thread gave  *)
(* last.                                                                   *)

IsBatch(n) == posted[n].type = "batch"
Unposted(k) == \A n \in DOMAIN posted : IsBatch(n) => posted[n].number # k

PostedApart ==
  \A m, n \in DOMAIN posted :
    IsBatch(m) /\ IsBatch(n) /\ m # n => posted[m].number # posted[n].number
PostedTaken == \A n \in DOMAIN posted : IsBatch(n) => posted[n].number <= batchSequence
SendingApart ==
  \A t \in Threads : sending[t] # None =>
    /\ sending[t].number <= batchSequence
    /\ Unposted(sending[t].number)
    /\ \A u \in Threads \ {t} : sending[u] # None => sending[u].number # sending[t].number
    /\ rpcSending # None => rpcSending.number # sending[t].number
RpcSendingApart ==
  rpcSending # None =>
    rpcSending.number <= batchSequence /\ Unposted(rpcSending.number)

NumberInv == PostedApart /\ PostedTaken /\ SendingApart /\ RpcSendingApart

(* What is in flight has a number.                                         *)
LEMMA FlightTyped ==
  ASSUME AgentInv
  PROVE  /\ batchSequence \in Nat /\ posted \in Seq(MessageSet)
         /\ sending \in [Threads -> BatchSet \cup {None}]
         /\ rpcSending \in BatchSet \cup {None}
BY DEF AgentInv, AgentTypeOK, BatchTypeOK, ThreadTypeOK, RpcTypeOK

(* Nothing is posted but plain messages, and nothing new is in flight.     *)
PostsPlain == \E m \in MessageSet : m.type # "batch" /\ Post(m)
Dwindles ==
  /\ UNCHANGED batchSequence
  /\ \A t \in Threads : sending'[t] \in {sending[t], None}
  /\ rpcSending' \in {rpcSending, None}
  /\ UNCHANGED posted \/ PostsPlain

LEMMA PlainPosted ==
  ASSUME posted \in Seq(MessageSet), UNCHANGED posted \/ PostsPlain
  PROVE  /\ posted' \in Seq(MessageSet)
         /\ \A n \in DOMAIN posted' :
              IsBatch(n)' => n \in DOMAIN posted /\ IsBatch(n) /\ posted'[n] = posted[n]
<1>1. CASE UNCHANGED posted
  BY <1>1 DEF IsBatch
<1>2. ASSUME NEW m \in MessageSet, m.type # "batch", Post(m)
      PROVE  /\ posted' \in Seq(MessageSet)
             /\ \A n \in DOMAIN posted' :
                  IsBatch(n)' => n \in DOMAIN posted /\ IsBatch(n) /\ posted'[n] = posted[n]
  BY <1>2 DEF Post, IsBatch
<1> QED BY <1>1, <1>2 DEF PostsPlain

LEMMA DwindlingKeeps ==
  ASSUME AgentInv, NumberInv, Dwindles
  PROVE  NumberInv'
<1>1. \A n \in DOMAIN posted' :
        IsBatch(n)' => n \in DOMAIN posted /\ IsBatch(n) /\ posted'[n] = posted[n]
  BY FlightTyped, PlainPosted DEF Dwindles
<1>2. \A k : Unposted(k) => Unposted(k)'
  BY <1>1 DEF Unposted
<1>3. PostedApart' /\ PostedTaken'
  BY <1>1 DEF NumberInv, PostedApart, PostedTaken, Dwindles
<1>4. SendingApart' /\ RpcSendingApart'
  BY <1>2 DEF NumberInv, SendingApart, RpcSendingApart, Dwindles
<1> QED BY <1>3, <1>4 DEF NumberInv

-----------------------------------------------------------------------------
(* A new number: no batch posted or in flight has it.                      *)

LEMMA NewNumber ==
  ASSUME AgentInv, NumberInv
  PROVE  /\ Unposted(batchSequence + 1)
         /\ \A t \in Threads : sending[t] # None => sending[t].number # batchSequence + 1
         /\ rpcSending # None => rpcSending.number # batchSequence + 1
<1>1. \A n \in DOMAIN posted : IsBatch(n) => posted[n].number \in Nat
  BY FlightTyped DEF IsBatch, MessageSet
<1>2. /\ \A t \in Threads : sending[t] # None => sending[t].number \in Nat
      /\ rpcSending # None => rpcSending.number \in Nat
  BY FlightTyped DEF BatchSet
<1> QED BY <1>1, <1>2, FlightTyped
        DEF NumberInv, PostedTaken, SendingApart, RpcSendingApart, Unposted

(* What was taken stays taken.                                             *)
LEMMA TakenStays ==
  ASSUME AgentInv, NumberInv, batchSequence' = batchSequence + 1
  PROVE  /\ \A n \in DOMAIN posted : IsBatch(n) => posted[n].number <= batchSequence'
         /\ \A t \in Threads : sending[t] # None => sending[t].number <= batchSequence'
         /\ rpcSending # None => rpcSending.number <= batchSequence'
<1>1. \A n \in DOMAIN posted : IsBatch(n) => posted[n].number \in Nat
  BY FlightTyped DEF IsBatch, MessageSet
<1>2. /\ \A t \in Threads : sending[t] # None => sending[t].number \in Nat
      /\ rpcSending # None => rpcSending.number \in Nat
  BY FlightTyped DEF BatchSet
<1> QED BY <1>1, <1>2, FlightTyped
        DEF NumberInv, PostedTaken, SendingApart, RpcSendingApart

LEMMA BatchFullNumbers ==
  ASSUME AgentInv, NumberInv, NEW t \in Threads, BatchFull(t)
  PROVE  NumberInv'
<1>1. /\ batchSequence' = batchSequence + 1
      /\ sending' = [sending EXCEPT ![t] = Batch(batchSequence + 1, threadBatches[t])]
      /\ UNCHANGED <<posted, rpcSending>>
  BY DEF BatchFull
<1>2. /\ sending'[t].number = batchSequence + 1
      /\ \A u \in Threads \ {t} : sending'[u] = sending[u]
  BY <1>1, FlightTyped DEF Batch
<1>3. PostedApart' /\ PostedTaken' /\ RpcSendingApart'
  BY <1>1, TakenStays
     DEF NumberInv, PostedApart, PostedTaken, RpcSendingApart, IsBatch, Unposted
<1>4. SendingApart'
  BY <1>1, <1>2, TakenStays, NewNumber, FlightTyped
     DEF NumberInv, SendingApart, IsBatch, Unposted
<1> QED BY <1>3, <1>4 DEF NumberInv

LEMMA FlushThreadNumbers ==
  ASSUME AgentInv, NumberInv, NEW t \in Threads, FlushThread(t)
  PROVE  NumberInv'
<1>1. /\ batchSequence' = batchSequence + 1 /\ rpcSending'.number = batchSequence + 1
      /\ UNCHANGED <<posted, sending>>
  BY DEF FlushThread, Batch, threadVars
<1>2. PostedApart' /\ PostedTaken'
  BY <1>1, TakenStays DEF NumberInv, PostedApart, PostedTaken, IsBatch
<1>3. SendingApart' /\ RpcSendingApart'
  BY <1>1, TakenStays, NewNumber, FlightTyped
     DEF NumberInv, SendingApart, RpcSendingApart, IsBatch, Unposted
<1> QED BY <1>2, <1>3 DEF NumberInv

-----------------------------------------------------------------------------
(* A batch in flight is posted.                                            *)

LEMMA PostedNumber ==
  ASSUME posted \in Seq(MessageSet), NEW b, Post(BatchMessage(b))
  PROVE  \A n \in DOMAIN posted' :
           \/ n = Len(posted) + 1 /\ IsBatch(n)' /\ posted'[n].number = b.number
           \/ n \in DOMAIN posted /\ posted'[n] = posted[n] /\ (IsBatch(n)' <=> IsBatch(n))
<1> DEFINE m == BatchMessage(b)
<1>1. m.type = "batch" /\ m.number = b.number /\ posted' = Append(posted, m)
  BY DEF BatchMessage, Post
<1> HIDE DEF m
<1> QED BY <1>1 DEF IsBatch

LEMMA BatchPostedNumbers ==
  ASSUME AgentInv, NumberInv, NEW t \in Threads, BatchPosted(t)
  PROVE  NumberInv'
<1> DEFINE b == sending[t]
<1>1. /\ Post(BatchMessage(b)) /\ b # None
      /\ sending' = [sending EXCEPT ![t] = None]
      /\ UNCHANGED <<batchSequence, rpcSending>>
  BY DEF BatchPosted, batchVars, rpcVars
<1>2. /\ sending'[t] = None
      /\ \A u \in Threads \ {t} : sending'[u] = sending[u]
  BY <1>1, FlightTyped
<1>3. /\ b.number <= batchSequence /\ Unposted(b.number)
      /\ \A u \in Threads \ {t} : sending[u] # None => sending[u].number # b.number
      /\ rpcSending # None => rpcSending.number # b.number
  BY <1>1 DEF NumberInv, SendingApart
<1>4. \A n \in DOMAIN posted' :
        \/ n = Len(posted) + 1 /\ IsBatch(n)' /\ posted'[n].number = b.number
        \/ n \in DOMAIN posted /\ posted'[n] = posted[n] /\ (IsBatch(n)' <=> IsBatch(n))
  BY <1>1, FlightTyped, PostedNumber
<1> HIDE DEF b
<1>5. PostedApart' /\ PostedTaken'
  BY <1>1, <1>3, <1>4 DEF NumberInv, PostedApart, PostedTaken, Unposted
<1>6. \A k : Unposted(k) /\ k # b.number => Unposted(k)'
  BY <1>4 DEF Unposted
<1>7. SendingApart' /\ RpcSendingApart'
  BY <1>1, <1>2, <1>3, <1>6 DEF NumberInv, SendingApart, RpcSendingApart
<1> QED BY <1>5, <1>7 DEF NumberInv

LEMMA RpcBatchPostedNumbers ==
  ASSUME AgentInv, NumberInv, RpcBatchPosted
  PROVE  NumberInv'
<1> DEFINE b == rpcSending
<1>1. /\ Post(BatchMessage(b)) /\ b # None /\ rpcSending' = None
      /\ UNCHANGED <<batchSequence, sending>>
  BY DEF RpcBatchPosted, batchVars, threadVars
<1>2. /\ b.number <= batchSequence /\ Unposted(b.number)
      /\ \A u \in Threads : sending[u] # None => sending[u].number # b.number
  BY <1>1 DEF NumberInv, SendingApart, RpcSendingApart
<1>3. \A n \in DOMAIN posted' :
        \/ n = Len(posted) + 1 /\ IsBatch(n)' /\ posted'[n].number = b.number
        \/ n \in DOMAIN posted /\ posted'[n] = posted[n] /\ (IsBatch(n)' <=> IsBatch(n))
  BY <1>1, FlightTyped, PostedNumber
<1>4. PostedApart' /\ PostedTaken'
  BY <1>1, <1>2, <1>3 DEF NumberInv, PostedApart, PostedTaken, Unposted
<1>5. \A k : Unposted(k) /\ k # b.number => Unposted(k)'
  BY <1>3 DEF Unposted
<1>6. SendingApart' /\ RpcSendingApart'
  BY <1>1, <1>2, <1>5 DEF NumberInv, SendingApart, RpcSendingApart
<1> QED BY <1>4, <1>6 DEF NumberInv

-----------------------------------------------------------------------------
(* Every other step takes no number.                                       *)

LEMMA PlainPosts ==
  ASSUME AgentInv
  PROVE  /\ \A type \in {"installed", "install_error", "error", "agent_error"} :
              Post(Message(type)) => PostsPlain
         /\ \A ok \in BOOLEAN : Post(Reply(ok)) => PostsPlain
BY PlainMessages, ReplyMessage DEF PostsPlain, AgentInv, AgentTypeOK

LEMMA CallbackDwindles ==
  ASSUME AgentInv, NEW t \in Threads, CallbackStep(t), ~BatchFull(t), ~BatchPosted(t)
  PROVE  Dwindles
<1> USE DEF Dwindles, batchVars, rpcVars
<1>1. CASE EnterSkipped(t) \/ EnterRecorded(t) \/ EnterThrows(t)
  BY <1>1, PlainPosts DEF EnterSkipped, EnterRecorded, EnterThrows, Throw
<1>2. CASE LeaveUnmatched(t) \/ LeaveSkipped(t) \/ LeaveRecorded(t) \/ LeaveThrows(t)
  BY <1>2, PlainPosts DEF LeaveUnmatched, LeaveSkipped, LeaveRecorded, LeaveThrows, Throw
<1>3. CASE EventDropped(t) \/ EventBuffered(t)
  BY <1>3, PlainPosts DEF EventDropped, EventBuffered
<1>4. CASE SendReturns(t)
  BY <1>4 DEF SendReturns
<1>5. CASE SendThrows(t)
  BY <1>5, PlainPosts, FlightTyped DEF SendThrows
<1> QED BY <1>1, <1>2, <1>3, <1>4, <1>5 DEF CallbackStep

LEMMA NativeDwindles ==
  ASSUME AgentInv, NEW t \in Threads, NativeStep(t)
  PROVE  Dwindles
BY PlainPosts DEF Dwindles, batchVars, rpcVars, threadVars, NativeStep, Call, Return,
   Hit, HitThrows

LEMMA RpcDwindles ==
  ASSUME AgentInv, RpcStep, ~RpcBatchPosted, \A t \in Threads : ~FlushThread(t)
  PROVE  Dwindles
<1> USE DEF Dwindles, batchVars, rpcVars, threadVars
<1>1. CASE PollFinished \/ DeadlinePassed \/ FlushDone
  BY <1>1, PlainPosts DEF PollFinished, DeadlinePassed, FlushDone
<1>2. CASE \E t \in Threads : FlushNothing(t)
  BY <1>2 DEF FlushNothing
<1>3. CASE RpcSendReturns \/ RpcSendThrows
  BY <1>3, PlainPosts DEF RpcSendReturns, RpcSendThrows
<1> QED BY <1>1, <1>2, <1>3 DEF RpcStep

LEMMA ServiceDwindles ==
  ASSUME AgentInv, Service
  PROVE  Dwindles
<1> USE DEF Dwindles, batchVars, rpcVars, threadVars
<1>1. CASE Install \/ InstallFails
  BY <1>1, PlainPosts DEF Install, InstallFails
<1>2. CASE BeginObservation \/ FinishObservation \/ Flush
  BY <1>2, PlainPosts DEF BeginObservation, FinishObservation, Flush
<1>3. CASE \E t \in Threads \cup {JS} : BindFixtureMemory(t)
  BY <1>3, PlainPosts DEF BindFixtureMemory
<1> QED BY <1>1, <1>2, <1>3 DEF Service

LEMMA NumberNext ==
  ASSUME AgentInv, NumberInv, AgentMove
  PROVE  NumberInv'
<1>1. CASE Still
  BY <1>1, DwindlingKeeps DEF Dwindles, Still, batchVars, threadVars, rpcVars
<1>2. ASSUME NEW t \in Threads, CallbackStep(t) \/ NativeStep(t)
      PROVE  NumberInv'
  BY <1>2, CallbackDwindles, NativeDwindles, DwindlingKeeps, BatchFullNumbers,
     BatchPostedNumbers
<1>3. CASE RpcStep
  BY <1>3, RpcDwindles, DwindlingKeeps, FlushThreadNumbers, RpcBatchPostedNumbers
<1>4. CASE Service
  BY <1>4, ServiceDwindles, DwindlingKeeps
<1> QED BY <1>1, <1>2, <1>3, <1>4 DEF AgentMove

(* A number is used once, whatever yields, fails or flushes: the host can  *)
(* tell a batch that is lost from one that is late (agent.js:149-163).     *)
THEOREM NumbersAreUsedOnce == AgentSpec => []NumbersUsedOnce
<1>1. AgentInit => NumberInv
  BY DEF AgentInit, NumberInv, PostedApart, PostedTaken, SendingApart, RpcSendingApart
<1>2. NumberInv => NumbersUsedOnce
  BY DEF NumberInv, PostedApart, PostedTaken, SendingApart, RpcSendingApart, Unposted,
         IsBatch, NumbersUsedOnce, InFlight, PostedNumbers
<1>3. AgentInv /\ NumberInv /\ [AgentNext]_agentVars => NumberInv'
  BY NumberNext, NextMoves
<1> QED BY <1>1, <1>2, <1>3, AgentInvariant, PTL DEF AgentSpec

-----------------------------------------------------------------------------
(* Every batch is a run of one thread's numbers.  The buffer of a thread   *)
(* ends with the number the thread gave last, except between the two halves*)
(* of recordEvent, when it is empty and that number is in hand.            *)

RunTo(es, t, last) ==
  \A i \in DOMAIN es : es[i].tid = t /\ es[i].seq + Len(es) = last + i
BuffersRun ==
  \A t \in Threads : /\ RunTo(threadBatches[t], t, threadSequences[t])
                     /\ stage[t] = "send" => pending[t].seq = threadSequences[t]
StaleRun == \A t \in Threads : rpcStale[t] # <<>> => IsRun(rpcStale[t])
FlightRun ==
  /\ \A t \in Threads : sending[t] # None => IsRun(sending[t].recs)
  /\ rpcSending # None => IsRun(rpcSending.recs)

RunInv == BuffersRun /\ StaleRun /\ FlightRun /\ BatchesAreRuns

LEMMA BuffersTyped ==
  ASSUME AgentInv
  PROVE  /\ threadBatches \in [Threads -> Seq(AgentEvents)]
         /\ threadSequences \in [Threads -> Nat]
         /\ rpcStale \in [Threads -> Seq(AgentEvents)]
         /\ stage \in [Threads -> {"native", "enter", "leave", "clock", "send"}]
         /\ pending \in [Threads -> PendingSet \cup {None}]
BY DEF AgentInv, AgentTypeOK, BatchTypeOK, ThreadTypeOK, RpcTypeOK

LEMMA RunToIsRun ==
  ASSUME NEW es \in Seq(AgentEvents), es # <<>>, NEW t, NEW last \in Nat, RunTo(es, t, last)
  PROVE  IsRun(es)
<1> PICK n \in Nat : n = Len(es)
  OBVIOUS
<1>1. /\ DOMAIN es = 1..n /\ 1 \in DOMAIN es
      /\ \A i \in DOMAIN es : es[i] \in AgentEvents
  OBVIOUS
<1>2. \A i \in DOMAIN es : es[i].seq \in Nat
  BY <1>1 DEF AgentEvents, EventSet
<1>3. \A i \in DOMAIN es : es[i].tid = t /\ es[i].seq + n = last + i
  BY DEF RunTo
<1>4. \A i \in DOMAIN es : es[i].tid = es[1].tid
  BY <1>1, <1>3
<1>5. ASSUME NEW i \in DOMAIN es PROVE es[i].seq = es[1].seq + i - 1
  <2>1. PICK a \in Nat : a = es[i].seq
    BY <1>2
  <2>2. PICK b \in Nat : b = es[1].seq
    BY <1>1, <1>2
  <2>3. i \in Nat /\ a + n = last + i /\ b + n = last + 1
    <3>1. i \in Nat /\ 1 \in DOMAIN es
      BY <1>1
    <3> QED BY <1>3, <2>1, <2>2, <3>1
  <2>4. a = b + i - 1
    BY ONLY <2>3, a \in Nat, b \in Nat, n \in Nat, last \in Nat
  <2> QED BY <2>1, <2>2, <2>4
<1> QED BY <1>4, <1>5 DEF IsRun

LEMMA RunToAppends ==
  ASSUME NEW es \in Seq(AgentEvents), NEW t, NEW last \in Nat, RunTo(es, t, last),
         NEW e \in AgentEvents, e.tid = t, e.seq = last + 1
  PROVE  RunTo(Append(es, e), t, last + 1)
<1> DEFINE fs == Append(es, e)
<1> PICK n \in Nat : n = Len(es)
  OBVIOUS
<1>1. /\ DOMAIN fs = 1..(n + 1) /\ Len(fs) = n + 1 /\ fs[n + 1] = e
      /\ \A i \in 1..n : fs[i] = es[i] /\ es[i] \in AgentEvents
  OBVIOUS
<1> HIDE DEF fs
<1>2. ASSUME NEW i \in DOMAIN fs PROVE fs[i].tid = t /\ fs[i].seq + Len(fs) = last + 1 + i
  <2>1. CASE i = n + 1
    BY <1>1, <2>1
  <2>2. CASE i \in 1..n
    <3>1. fs[i].seq = es[i].seq /\ es[i].seq \in Nat /\ fs[i].tid = es[i].tid
      BY <1>1, <2>2 DEF AgentEvents, EventSet
    <3>2. es[i].tid = t /\ es[i].seq + n = last + i
      BY <2>2 DEF RunTo
    <3>3. i \in Nat
      BY <2>2
    <3>4. PICK a \in Nat : a = es[i].seq
      BY <3>1
    <3>5. a + (n + 1) = last + 1 + i
      <4>1. a + n = last + i
        BY <3>2, <3>4
      <4> QED BY ONLY <3>3, <4>1, a \in Nat, n \in Nat, last \in Nat
    <3> QED BY <1>1, <3>1, <3>2, <3>4, <3>5
  <2> QED BY <1>1, <2>1, <2>2
<1> QED BY <1>2 DEF RunTo, fs

(* Nothing is added to a buffer, and no thread comes to hold an event      *)
(* between two batches.                                                    *)
BuffersStay ==
  /\ UNCHANGED <<threadBatches, threadSequences>>
  /\ \A t \in Threads : /\ rpcStale'[t] \in {rpcStale[t], <<>>}
                        /\ stage'[t] = "send" => stage[t] = "send" /\ pending'[t] = pending[t]

LEMMA PlainRuns ==
  ASSUME AgentInv, BatchesAreRuns, Dwindles
  PROVE  BatchesAreRuns'
<1>1. \A n \in DOMAIN posted' :
        IsBatch(n)' => n \in DOMAIN posted /\ IsBatch(n) /\ posted'[n] = posted[n]
  BY FlightTyped, PlainPosted DEF Dwindles
<1> QED BY <1>1 DEF BatchesAreRuns, IsBatch

LEMMA StayingRuns ==
  ASSUME AgentInv, RunInv, Dwindles, BuffersStay
  PROVE  RunInv'
<1>1. BatchesAreRuns'
  BY PlainRuns DEF RunInv
<1>2. BuffersRun' /\ StaleRun'
  BY DEF RunInv, BuffersRun, StaleRun, BuffersStay
<1>3. FlightRun'
  BY DEF RunInv, FlightRun, Dwindles
<1> QED BY <1>1, <1>2, <1>3 DEF RunInv

(* A buffer grows by the event its thread has just numbered.               *)
LEMMA GrowingRuns ==
  ASSUME AgentInv, RunInv, Dwindles, NEW t \in Threads,
         NEW e \in AgentEvents, e.tid = t,
         threadBatches' = [threadBatches EXCEPT ![t] = Append(@, e)],
         \/ /\ e.seq = threadSequences[t] + 1
            /\ threadSequences' = [threadSequences EXCEPT ![t] = @ + 1]
         \/ /\ threadBatches[t] = <<>> /\ e.seq = threadSequences[t]
            /\ UNCHANGED threadSequences,
         stage'[t] # "send",
         \A u \in Threads \ {t} : stage'[u] = stage[u] /\ pending'[u] = pending[u],
         UNCHANGED rpcStale
  PROVE  RunInv'
<1>1. /\ threadBatches[t] \in Seq(AgentEvents) /\ threadSequences[t] \in Nat
      /\ RunTo(threadBatches[t], t, threadSequences[t])
  BY BuffersTyped DEF RunInv, BuffersRun
<1>2. /\ threadBatches'[t] = Append(threadBatches[t], e)
      /\ \A u \in Threads \ {t} : threadBatches'[u] = threadBatches[u]
      /\ \A u \in Threads \ {t} : threadSequences'[u] = threadSequences[u]
  BY BuffersTyped
<1>3. RunTo(threadBatches'[t], t, threadSequences'[t])
  <2>1. CASE e.seq = threadSequences[t] + 1
             /\ threadSequences' = [threadSequences EXCEPT ![t] = @ + 1]
    <3>1. RunTo(Append(threadBatches[t], e), t, threadSequences[t] + 1)
      BY <1>1, <2>1, RunToAppends
    <3>2. threadSequences'[t] = threadSequences[t] + 1
      BY <2>1, BuffersTyped
    <3> QED BY <1>2, <3>1, <3>2
  <2>2. CASE threadBatches[t] = <<>> /\ e.seq = threadSequences[t]
             /\ UNCHANGED threadSequences
    BY <1>1, <1>2, <2>2 DEF RunTo
  <2> QED BY <2>1, <2>2
<1>4. BuffersRun'
  <2> SUFFICES ASSUME NEW u \in Threads
               PROVE  /\ RunTo(threadBatches'[u], u, threadSequences'[u])
                      /\ stage'[u] = "send" => pending'[u].seq = threadSequences'[u]
    BY DEF BuffersRun, RunTo
  <2>1. CASE u = t
    BY <1>3, <2>1
  <2>2. CASE u # t
    BY <1>2, <2>2 DEF RunInv, BuffersRun
  <2> QED BY <2>1, <2>2
<1>5. BatchesAreRuns' /\ StaleRun'
  BY PlainRuns DEF RunInv, StaleRun
<1>6. FlightRun'
  BY DEF RunInv, FlightRun, Dwindles
<1> QED BY <1>4, <1>5, <1>6 DEF RunInv

LEMMA RecordingEvent ==
  ASSUME AgentInv, NEW t \in Threads, Recording(t)
  PROVE  /\ Numbered(t) \in AgentEvents /\ Numbered(t).tid = t
         /\ Numbered(t).seq = threadSequences[t] + 1
         /\ stage[t] = "send" => PendingEvent(t) \in AgentEvents
         /\ PendingEvent(t).tid = t /\ PendingEvent(t).seq = pending[t].seq
         /\ pending[t].phase # "send"
<1>1. pending[t] \in PendingSet /\ threadSequences[t] \in Nat
  BY RecordingTodo, BuffersTyped DEF AgentInv, AgentTypeOK
<1>2. stage[t] = "send" => pending[t].seq # 0
  BY DEF AgentInv, BufferOK
<1> QED BY <1>1, <1>2
        DEF Numbered, PendingEvent, Event, AgentEvents, EventSet, PendingSet, Phases

(* The callback that recorded is over, or the next probe of the group is   *)
(* called: no event is in hand.                                            *)
LEMMA ContinueLeavesSend ==
  ASSUME AgentInv, NEW t \in Threads, Recording(t), Continue(t, pending[t].phase),
         pending' = [pending EXCEPT ![t] = None]
  PROVE  /\ stage'[t] # "send"
         /\ \A u \in Threads \ {t} : stage'[u] = stage[u] /\ pending'[u] = pending[u]
<1>1. pending[t].phase # "send"
  BY RecordingEvent
<1> QED BY <1>1, BuffersTyped DEF Continue

LEMMA EventBufferedRuns ==
  ASSUME AgentInv, RunInv, NEW t \in Threads, EventBuffered(t)
  PROVE  RunInv'
<1>1. Recording(t) /\ Dwindles /\ UNCHANGED rpcStale
  BY DEF EventBuffered, Recording, Dwindles, rpcVars
<1>2. /\ threadBatches' = [threadBatches EXCEPT ![t] = Append(@, Numbered(t))]
      /\ threadSequences' = [threadSequences EXCEPT ![t] = @ + 1]
      /\ Continue(t, pending[t].phase) /\ pending' = [pending EXCEPT ![t] = None]
  BY DEF EventBuffered, Number
<1> QED BY <1>1, <1>2, RecordingEvent, ContinueLeavesSend, GrowingRuns

LEMMA AppendPendingRuns ==
  ASSUME AgentInv, RunInv, Dwindles, NEW t \in Threads, stage[t] = "send",
         AppendPending(t), UNCHANGED <<threadSequences, rpcStale>>
  PROVE  RunInv'
<1>1. Recording(t) /\ threadBatches[t] = <<>> /\ pending[t].seq = threadSequences[t]
  BY DEF Recording, AgentInv, BufferOK, RunInv, BuffersRun
<1>2. /\ threadBatches' = [threadBatches EXCEPT ![t] = Append(@, PendingEvent(t))]
      /\ Continue(t, pending[t].phase) /\ pending' = [pending EXCEPT ![t] = None]
  BY DEF AppendPending
<1>3. /\ PendingEvent(t) \in AgentEvents /\ PendingEvent(t).tid = t
      /\ PendingEvent(t).seq = threadSequences[t]
  BY <1>1, RecordingEvent
<1>4. /\ stage'[t] # "send"
      /\ \A u \in Threads \ {t} : stage'[u] = stage[u] /\ pending'[u] = pending[u]
  BY <1>1, <1>2, ContinueLeavesSend
<1>5. /\ UNCHANGED threadSequences /\ UNCHANGED rpcStale
  OBVIOUS
<1> QED BY <1>1, <1>2, <1>3, <1>4, <1>5, GrowingRuns

LEMMA SendEndsRuns ==
  ASSUME AgentInv, RunInv, NEW t \in Threads, SendReturns(t) \/ SendThrows(t)
  PROVE  RunInv'
<1>1. /\ stage[t] = "send" /\ AppendPending(t) /\ UNCHANGED <<threadSequences, rpcStale>>
  BY DEF SendReturns, SendThrows, rpcVars
<1>2. Dwindles
  BY PlainPosts, FlightTyped DEF SendReturns, SendThrows, Dwindles, rpcVars
<1> QED BY <1>1, <1>2, AppendPendingRuns


LEMMA BatchFullRuns ==
  ASSUME AgentInv, RunInv, NEW t \in Threads, BatchFull(t)
  PROVE  RunInv'
<1> DEFINE recs == threadBatches[t]
<1>1. /\ Recording(t) /\ Len(recs) >= BatchCapacity /\ recs \in Seq(AgentEvents)
      /\ threadSequences[t] \in Nat /\ RunTo(recs, t, threadSequences[t])
  BY BuffersTyped DEF BatchFull, Recording, RunInv, BuffersRun
<1>2. recs # <<>>
  BY <1>1, CapacityAssumption
<1>3. IsRun(recs)
  BY <1>1, <1>2, RunToIsRun
<1>4. /\ threadBatches' = [threadBatches EXCEPT ![t] = <<>>]
      /\ threadSequences' = [threadSequences EXCEPT ![t] = @ + 1]
      /\ sending' = [sending EXCEPT ![t] = Batch(batchSequence + 1, recs)]
      /\ pending' = [pending EXCEPT ![t].seq = threadSequences'[t]]
      /\ stage' = [stage EXCEPT ![t] = "send"]
      /\ rpcStale' \in {rpcStale, [rpcStale EXCEPT ![t] = recs]}
      /\ UNCHANGED <<posted, rpcSending>>
  BY DEF BatchFull, Number, Detach, FreshBatch
<1>5. pending[t] \in PendingSet
  BY <1>1, RecordingTodo DEF AgentInv, AgentTypeOK
<1>6. pending'[t].seq = threadSequences'[t]
  BY <1>4, <1>5, BuffersTyped DEF PendingSet
<1> HIDE DEF recs
<1>7. BuffersRun'
  <2> SUFFICES ASSUME NEW u \in Threads
               PROVE  /\ RunTo(threadBatches'[u], u, threadSequences'[u])
                      /\ stage'[u] = "send" => pending'[u].seq = threadSequences'[u]
    BY DEF BuffersRun, RunTo
  <2>1. CASE u = t
    BY <1>4, <1>6, <2>1, BuffersTyped DEF RunTo
  <2>2. CASE u # t
    <3>1. /\ threadBatches'[u] = threadBatches[u] /\ threadSequences'[u] = threadSequences[u]
          /\ stage'[u] = stage[u] /\ pending'[u] = pending[u]
      BY <1>4, <2>2, BuffersTyped
    <3> QED BY <3>1 DEF RunInv, BuffersRun
  <2> QED BY <2>1, <2>2
<1>8. StaleRun'
  BY <1>3, <1>4, BuffersTyped DEF RunInv, StaleRun
<1>9. FlightRun'
  BY <1>3, <1>4, FlightTyped DEF RunInv, FlightRun, Batch
<1>10. BatchesAreRuns'
  BY <1>4 DEF RunInv, BatchesAreRuns
<1> QED BY <1>7, <1>8, <1>9, <1>10 DEF RunInv

LEMMA FlushThreadRuns ==
  ASSUME AgentInv, RunInv, NEW t \in Threads, FlushThread(t)
  PROVE  RunInv'
<1>1. /\ threadBatches' = [threadBatches EXCEPT ![t] = <<>>]
      /\ rpcSending' = Batch(batchSequence + 1, Held(t)) /\ Held(t) # <<>>
      /\ rpcStale' = [rpcStale EXCEPT ![t] = <<>>]
      /\ UNCHANGED <<posted, threadSequences, stage, pending, sending>>
  BY DEF FlushThread, FreshBatch, threadVars
<1>2. IsRun(Held(t))
  <2>1. CASE rpcStale[t] # <<>>
    BY <2>1 DEF Held, RunInv, StaleRun
  <2>2. CASE rpcStale[t] = <<>>
    <3>1. threadBatches[t] # <<>> /\ Held(t) = threadBatches[t]
      BY <1>1, <2>2 DEF Held
    <3>2. /\ threadBatches[t] \in Seq(AgentEvents) /\ threadSequences[t] \in Nat
          /\ RunTo(threadBatches[t], t, threadSequences[t])
      BY BuffersTyped DEF RunInv, BuffersRun
    <3> QED BY <3>1, <3>2, RunToIsRun
  <2> QED BY <2>1, <2>2
<1>3. BuffersRun'
  <2> SUFFICES ASSUME NEW u \in Threads
               PROVE  /\ RunTo(threadBatches'[u], u, threadSequences'[u])
                      /\ stage'[u] = "send" => pending'[u].seq = threadSequences'[u]
    BY DEF BuffersRun, RunTo
  <2>1. threadBatches'[u] \in {threadBatches[u], <<>>}
    BY <1>1, BuffersTyped
  <2> QED BY <1>1, <2>1 DEF RunInv, BuffersRun, RunTo
<1>4. StaleRun'
  BY <1>1, BuffersTyped DEF RunInv, StaleRun
<1>5. FlightRun' /\ BatchesAreRuns'
  BY <1>1, <1>2 DEF RunInv, FlightRun, BatchesAreRuns, Batch
<1> QED BY <1>3, <1>4, <1>5 DEF RunInv

LEMMA PostedRun ==
  ASSUME AgentInv, BatchesAreRuns, NEW b \in BatchSet, IsRun(b.recs), Post(BatchMessage(b))
  PROVE  BatchesAreRuns'
<1> DEFINE m == BatchMessage(b)
<1>1. /\ posted' = Append(posted, m) /\ posted \in Seq(MessageSet)
      /\ m.recs = b.recs /\ m.declared = Len(b.recs)
  BY FlightTyped DEF Post, BatchMessage
<1> HIDE DEF m
<1>2. \A n \in DOMAIN posted' :
        posted'[n] = m \/ (n \in DOMAIN posted /\ posted'[n] = posted[n])
  BY <1>1
<1> QED BY <1>1, <1>2 DEF BatchesAreRuns

LEMMA PostingRuns ==
  ASSUME AgentInv, RunInv,
         RpcBatchPosted \/ \E t \in Threads : BatchPosted(t)
  PROVE  RunInv'
<1>1. /\ UNCHANGED <<threadBatches, threadSequences, rpcStale, stage, pending>>
      /\ \A t \in Threads : sending'[t] \in {sending[t], None}
      /\ rpcSending' \in {rpcSending, None}
  BY FlightTyped DEF RpcBatchPosted, BatchPosted, batchVars, threadVars, rpcVars
<1>2. PICK b \in BatchSet : IsRun(b.recs) /\ Post(BatchMessage(b))
  BY FlightTyped DEF RpcBatchPosted, BatchPosted, RunInv, FlightRun
<1>3. BatchesAreRuns'
  BY <1>2, PostedRun DEF RunInv
<1>4. BuffersRun' /\ StaleRun'
  BY <1>1 DEF RunInv, BuffersRun, StaleRun
<1>5. FlightRun'
  BY <1>1 DEF RunInv, FlightRun
<1> QED BY <1>3, <1>4, <1>5 DEF RunInv

-----------------------------------------------------------------------------
(* Every other step leaves the buffers as they are.                        *)

LEMMA ContinueStays ==
  ASSUME AgentInv, NEW t \in Threads, NEW phase \in {"enter", "leave", "instruction"},
         Continue(t, phase)
  PROVE  /\ stage'[t] # "send"
         /\ \A u \in Threads \ {t} : stage'[u] = stage[u]
BY BuffersTyped DEF Continue

LEMMA CallbackStays ==
  ASSUME AgentInv, NEW t \in Threads, CallbackStep(t), ~BatchFull(t), ~BatchPosted(t),
         ~EventBuffered(t), ~SendReturns(t), ~SendThrows(t)
  PROVE  BuffersStay
<1> USE DEF BuffersStay, batchVars, rpcVars
<1>1. CASE EnterSkipped(t) \/ LeaveSkipped(t)
  BY <1>1, ContinueStays DEF EnterSkipped, LeaveSkipped
<1>2. CASE EnterThrows(t) \/ LeaveUnmatched(t) \/ LeaveThrows(t)
  BY <1>2, BuffersTyped DEF EnterThrows, LeaveUnmatched, LeaveThrows, Throw
<1>3. CASE EnterRecorded(t) \/ LeaveRecorded(t)
  BY <1>3, BuffersTyped DEF EnterRecorded, LeaveRecorded, RecordEvent
<1>4. CASE EventDropped(t)
  <2>1. Recording(t)
    BY <1>4 DEF EventDropped, Recording
  <2>2. /\ Continue(t, pending[t].phase) /\ pending' = [pending EXCEPT ![t] = None]
        /\ UNCHANGED <<threadBatches, threadSequences, rpcStale>>
    BY <1>4 DEF EventDropped
  <2> QED BY <2>1, <2>2, ContinueLeavesSend
<1> QED BY <1>1, <1>2, <1>3, <1>4 DEF CallbackStep

LEMMA NativeStays ==
  ASSUME AgentInv, NEW t \in Threads, NativeStep(t)
  PROVE  BuffersStay
BY BuffersTyped
   DEF BuffersStay, batchVars, rpcVars, threadVars, NativeStep, Call, Return, Hit,
       HitThrows, RecordEvent

LEMMA StartFlushStays ==
  ASSUME StartFlush
  PROVE  \A t \in Threads : rpcStale'[t] = <<>>
BY DEF StartFlush, NoBatches

LEMMA RpcStays ==
  ASSUME AgentInv, RpcStep, ~RpcBatchPosted, \A t \in Threads : ~FlushThread(t)
  PROVE  BuffersStay
<1> USE DEF BuffersStay, batchVars, rpcVars, threadVars
<1>1. CASE PollFinished \/ DeadlinePassed \/ FlushDone
  BY <1>1, StartFlushStays DEF PollFinished, DeadlinePassed, FlushDone
<1>2. CASE \E t \in Threads : FlushNothing(t)
  BY <1>2 DEF FlushNothing
<1>3. CASE RpcSendReturns \/ RpcSendThrows
  BY <1>3 DEF RpcSendReturns, RpcSendThrows
<1> QED BY <1>1, <1>2, <1>3 DEF RpcStep

LEMMA ServiceStays ==
  ASSUME AgentInv, Service
  PROVE  BuffersStay
<1> USE DEF BuffersStay, batchVars, rpcVars, threadVars
<1>1. CASE Install \/ InstallFails
  BY <1>1 DEF Install, InstallFails
<1>2. CASE BeginObservation \/ FinishObservation \/ Flush
  BY <1>2, StartFlushStays DEF BeginObservation, FinishObservation, Flush, Polls
<1>3. CASE \E t \in Threads \cup {JS} : BindFixtureMemory(t)
  BY <1>3 DEF BindFixtureMemory
<1> QED BY <1>1, <1>2, <1>3 DEF Service

LEMMA RunNext ==
  ASSUME AgentInv, RunInv, AgentMove
  PROVE  RunInv'
<1>1. CASE Still
  <2>1. Dwindles /\ BuffersStay
    BY <1>1 DEF Dwindles, BuffersStay, Still, batchVars, threadVars, rpcVars
  <2> QED BY <2>1, StayingRuns
<1>2. ASSUME NEW t \in Threads, CallbackStep(t)
      PROVE  RunInv'
  <2>1. CASE BatchFull(t) \/ EventBuffered(t) \/ SendReturns(t) \/ SendThrows(t)
    BY <2>1, BatchFullRuns, EventBufferedRuns, SendEndsRuns
  <2>2. CASE BatchPosted(t)
    BY <2>2, PostingRuns
  <2>3. CASE /\ ~BatchFull(t) /\ ~EventBuffered(t) /\ ~SendReturns(t)
             /\ ~SendThrows(t) /\ ~BatchPosted(t)
    BY <1>2, <2>3, CallbackDwindles, CallbackStays, StayingRuns
  <2> QED BY <2>1, <2>2, <2>3
<1>3. ASSUME NEW t \in Threads, NativeStep(t)
      PROVE  RunInv'
  BY <1>3, NativeDwindles, NativeStays, StayingRuns
<1>4. CASE RpcStep
  BY <1>4, RpcDwindles, RpcStays, StayingRuns, FlushThreadRuns, PostingRuns
<1>5. CASE Service
  BY <1>5, ServiceDwindles, ServiceStays, StayingRuns
<1> QED BY <1>1, <1>2, <1>3, <1>4, <1>5 DEF AgentMove

(* A batch on the wire is a run of consecutive events of one thread and    *)
(* declares its length, though a flush may send the batch object that its  *)
(* thread has already replaced (agent.js:149-170).                         *)
THEOREM BatchesAreAlwaysRuns == AgentSpec => []BatchesAreRuns
<1>1. AgentInit => RunInv
  BY DEF AgentInit, NoBatches, RunInv, BuffersRun, RunTo, StaleRun, FlightRun,
         BatchesAreRuns
<1>2. AgentInv /\ RunInv /\ [AgentNext]_agentVars => RunInv'
  BY RunNext, NextMoves
<1>3. RunInv => BatchesAreRuns
  BY DEF RunInv
<1> QED BY <1>1, <1>2, <1>3, AgentInvariant, PTL DEF AgentSpec

-----------------------------------------------------------------------------
(* Invocation stacks.  The counters finishobservation waits on are exact   *)
(* whatever throws, and what a thread records nests until an event is      *)
(* dropped or an exception is reported (Clean).  Nesting needs the stacks  *)
(* of a thread, one per probe, merged into the one the code means: the     *)
(* order of the merge follows the frames of the thread, and what is on it  *)
(* is what is open in the thread's log.                                    *)

(* One stack pushed or popped, and the counted calls open on all of them.  *)

CallOpen(p, x) ==
  \E t \in Threads : \E i \in DOMAIN invocations[p][t] :
    x = <<t, i>> /\ invocations[p][t][i] # Skipped

LEMMA OpenCallsMembers ==
  ASSUME NEW p, NEW x
  PROVE  x \in OpenCalls(p) <=> CallOpen(p, x)
BY DEF OpenCalls, CallOpen

CountedOK(p) ==
  IsFiniteSet(OpenCalls(p)) /\ enters[p] = leaves[p] + Cardinality(OpenCalls(p))

(* What happens to the stacks of other probes and threads: nothing.        *)
StackStep(p, t, stack) ==
  /\ invocations'[p][t] = stack
  /\ \A q \in FnProbes, u \in Threads :
       q # p \/ u # t => invocations'[q][u] = invocations[q][u]

LEMMA OtherProbes ==
  ASSUME NEW p \in FnProbes, NEW t \in Threads, NEW stack, StackStep(p, t, stack),
         NEW q \in FnProbes, q # p
  PROVE  OpenCalls(q)' = OpenCalls(q)
<1>1. \A u \in Threads : invocations'[q][u] = invocations[q][u]
  BY DEF StackStep
<1> QED BY <1>1 DEF OpenCalls

LEMMA PushOpens ==
  ASSUME NEW p \in FnProbes, NEW t \in Threads, NEW id \in Nat,
         invocations[p][t] \in Seq(Nat),
         StackStep(p, t, Append(invocations[p][t], id))
  PROVE  OpenCalls(p)' = IF id = Skipped THEN OpenCalls(p)
                           ELSE OpenCalls(p) \cup {<<t, Len(invocations[p][t]) + 1>>}
<1> DEFINE old == invocations[p][t]
           new == Append(old, id)
<1>1. old \in Seq(Nat) /\ DOMAIN old = 1..Len(old) /\ Len(old) \in Nat
  OBVIOUS
<1>2. /\ DOMAIN new = 1..(Len(old) + 1) /\ new[Len(old) + 1] = id
      /\ \A i \in 1..Len(old) : new[i] = old[i]
  BY <1>1
<1>3. invocations'[p][t] = new /\ \A u \in Threads \ {t} : invocations'[p][u] = invocations[p][u]
  BY DEF StackStep
<1> HIDE DEF old, new
<1>4. ASSUME NEW x
      PROVE  CallOpen(p, x)' <=>
               CallOpen(p, x) \/ (id # Skipped /\ x = <<t, Len(old) + 1>>)
  <2>1. ASSUME NEW u \in Threads, u # t
        PROVE  (\E i \in DOMAIN invocations'[p][u] :
                  x = <<u, i>> /\ invocations'[p][u][i] # Skipped)
               <=> (\E i \in DOMAIN invocations[p][u] :
                  x = <<u, i>> /\ invocations[p][u][i] # Skipped)
    BY <1>3, <2>1
  <2>2. (\E i \in DOMAIN invocations'[p][t] : x = <<t, i>> /\ invocations'[p][t][i] # Skipped)
        <=> (\E i \in DOMAIN invocations[p][t] :
               x = <<t, i>> /\ invocations[p][t][i] # Skipped)
            \/ (id # Skipped /\ x = <<t, Len(old) + 1>>)
    <3>1. (\E i \in DOMAIN new : x = <<t, i>> /\ new[i] # Skipped)
          <=> (\E i \in DOMAIN old : x = <<t, i>> /\ old[i] # Skipped)
              \/ (id # Skipped /\ x = <<t, Len(old) + 1>>)
      BY <1>1, <1>2
    <3> QED BY <1>3, <3>1 DEF old
  <2> QED BY <2>1, <2>2 DEF CallOpen
<1>5. ASSUME NEW x
      PROVE  x \in OpenCalls(p)' <=>
               x \in OpenCalls(p) \/ (id # Skipped /\ x = <<t, Len(old) + 1>>)
  <2>1. x \in OpenCalls(p)' <=> CallOpen(p, x)'
    BY DEF OpenCalls, CallOpen
  <2> QED BY <1>4, <2>1, OpenCallsMembers
<1> QED BY <1>5 DEF old

LEMMA PopCloses ==
  ASSUME NEW p \in FnProbes, NEW t \in Threads,
         invocations[p][t] \in Seq(Nat), invocations[p][t] # <<>>,
         StackStep(p, t, Front(invocations[p][t]))
  PROVE  /\ OpenCalls(p)' = OpenCalls(p) \ {<<t, Len(invocations[p][t])>>}
         /\ <<t, Len(invocations[p][t])>> \in OpenCalls(p)
              <=> Last(invocations[p][t]) # Skipped
<1> DEFINE old == invocations[p][t]
           new == Front(old)
           top == <<t, Len(old)>>
<1>1. old \in Seq(Nat) /\ DOMAIN old = 1..Len(old) /\ Len(old) \in Nat \ {0}
  OBVIOUS
<1>2. /\ DOMAIN new = 1..(Len(old) - 1) /\ Last(old) = old[Len(old)]
      /\ \A i \in 1..(Len(old) - 1) : new[i] = old[i]
  BY <1>1 DEF Front, Last
<1>3. invocations'[p][t] = new /\ \A u \in Threads \ {t} : invocations'[p][u] = invocations[p][u]
  BY DEF StackStep
<1>4. \A u, i : <<u, i>> = top <=> u = t /\ i = Len(old)
  OBVIOUS
<1> HIDE DEF old, new, top
<1>5. ASSUME NEW x PROVE CallOpen(p, x)' <=> CallOpen(p, x) /\ x # top
  <2>1. ASSUME NEW u \in Threads, u # t
        PROVE  (\E i \in DOMAIN invocations'[p][u] :
                  x = <<u, i>> /\ invocations'[p][u][i] # Skipped)
               <=> (\E i \in DOMAIN invocations[p][u] :
                  x = <<u, i>> /\ invocations[p][u][i] # Skipped) /\ x # top
    BY <1>3, <1>4, <2>1
  <2>2. (\E i \in DOMAIN invocations'[p][t] : x = <<t, i>> /\ invocations'[p][t][i] # Skipped)
        <=> (\E i \in DOMAIN invocations[p][t] :
               x = <<t, i>> /\ invocations[p][t][i] # Skipped) /\ x # top
    <3>1. (\E i \in DOMAIN new : x = <<t, i>> /\ new[i] # Skipped)
          <=> (\E i \in DOMAIN old : x = <<t, i>> /\ old[i] # Skipped /\ i # Len(old))
      BY <1>1, <1>2
    <3>2. ASSUME NEW i, x = <<t, i>> PROVE x # top <=> i # Len(old)
      <4>1. <<t, i>> = top <=> t = t /\ i = Len(old)
        BY <1>4
      <4> QED BY <3>2, <4>1
    <3>3. (\E i \in DOMAIN new : x = <<t, i>> /\ new[i] # Skipped)
          <=> (\E i \in DOMAIN old : x = <<t, i>> /\ old[i] # Skipped) /\ x # top
      BY <3>1, <3>2
    <3> QED BY <1>3, <3>3 DEF old
  <2> QED BY <2>1, <2>2 DEF CallOpen
<1>6. ASSUME NEW x PROVE x \in OpenCalls(p)' <=> x \in OpenCalls(p) /\ x # top
  <2>1. x \in OpenCalls(p)' <=> CallOpen(p, x)'
    BY DEF OpenCalls, CallOpen
  <2> QED BY <1>5, <2>1, OpenCallsMembers
<1>7. OpenCalls(p)' = OpenCalls(p) \ {top}
  BY <1>6
<1>8. CallOpen(p, top) <=> Last(old) # Skipped
  BY <1>1, <1>2, <1>4 DEF CallOpen, old, top
<1>9. top \in OpenCalls(p) <=> Last(old) # Skipped
  BY <1>8, OpenCallsMembers
<1> QED BY <1>7, <1>9 DEF old, top

-----------------------------------------------------------------------------
(* Enters less leaves.                                                     *)

CountInv == \A p \in FnProbes : CountedOK(p)

LEMMA CountFrame ==
  ASSUME CountInv, UNCHANGED <<enters, leaves, invocations>>
  PROVE  CountInv'
BY DEF CountInv, CountedOK, OpenCalls

LEMMA Steps ==
  ASSUME CallTypeOK, NEW p \in FnProbes, NEW t \in Threads, NEW stack,
         invocations' = [invocations EXCEPT ![p][t] = stack]
  PROVE  StackStep(p, t, stack)
BY DEF CallTypeOK, StackStep

LEMMA EnterSkippedCounts ==
  ASSUME AgentInv, CountInv, NEW t \in Threads, EnterSkipped(t)
  PROVE  CountInv'
<1>0. Head(todo[t]) \in FnProbes /\ CallTypeOK
  BY ListenerTodo DEF AgentInv, AgentTypeOK, EnterSkipped
<1>1. PICK p \in FnProbes : p = Head(todo[t])
  BY <1>0
<1>2. invocations' = [invocations EXCEPT ![p][t] = Append(invocations[p][t], Skipped)]
  BY <1>1 DEF EnterSkipped, Push
<1>3. StackStep(p, t, Append(invocations[p][t], Skipped))
  BY <1>0, <1>2, Steps
<1>4. OpenCalls(p)' = OpenCalls(p)
  BY <1>0, <1>3, PushOpens DEF CallTypeOK, Skipped
<1>5. \A q \in FnProbes : OpenCalls(q)' = OpenCalls(q)
  BY <1>1, <1>3, <1>4, OtherProbes
<1>6. UNCHANGED <<enters, leaves>>
  BY DEF EnterSkipped
<1> QED BY <1>5, <1>6 DEF CountInv, CountedOK

LEMMA EnterCounts ==
  ASSUME AgentInv, CountInv, NEW t \in Threads, stage[t] = "enter",
         EnterCounted(t, Head(todo[t])), UNCHANGED leaves
  PROVE  CountInv'
<1>0. Head(todo[t]) \in FnProbes /\ CallTypeOK /\ correlation \in Nat
  BY ListenerTodo DEF AgentInv, AgentTypeOK, CallTypeOK
<1>1. PICK p \in FnProbes : p = Head(todo[t])
  BY <1>0
<1>a. PICK id \in Nat : id = correlation + 1
  BY <1>0
<1>b. PICK top : top = <<t, Len(invocations[p][t]) + 1>>
  OBVIOUS
<1>2. /\ invocations' = [invocations EXCEPT ![p][t] = Append(invocations[p][t], id)]
      /\ enters' = [enters EXCEPT ![p] = @ + 1]
  BY <1>1, <1>a DEF EnterCounted, Push
<1>3. id \in Nat /\ id # Skipped
  BY <1>0, <1>a DEF Skipped
<1>4. StackStep(p, t, Append(invocations[p][t], id)) /\ invocations[p][t] \in Seq(Nat)
  BY <1>0, <1>2, Steps DEF CallTypeOK
<1>5. OpenCalls(p)' = OpenCalls(p) \cup {top}
  BY <1>b, <1>3, <1>4, PushOpens
<1>6. top \notin OpenCalls(p)
  <2>1. ~CallOpen(p, top)
    <3> SUFFICES ASSUME NEW u \in Threads, NEW i \in DOMAIN invocations[p][u],
                        top = <<u, i>>
                 PROVE  FALSE
      BY DEF CallOpen
    <3>1. u = t /\ i = Len(invocations[p][t]) + 1
      BY <1>b
    <3>2. i \in 1..Len(invocations[p][t]) /\ Len(invocations[p][t]) \in Nat
      BY <1>4, <3>1
    <3> QED BY <3>1, <3>2
  <2> QED BY <2>1, OpenCallsMembers
<1>7. CountedOK(p)'
  <2>1. IsFiniteSet(OpenCalls(p)) /\ enters[p] = leaves[p] + Cardinality(OpenCalls(p))
    BY <1>1 DEF CountInv, CountedOK
  <2>2. /\ IsFiniteSet(OpenCalls(p)')
        /\ Cardinality(OpenCalls(p)') = Cardinality(OpenCalls(p)) + 1
    BY <1>5, <1>6, <2>1, FS_AddElement
  <2>3. Cardinality(OpenCalls(p)) \in Nat
    BY <2>1, FS_CardinalityType
  <2>4. enters'[p] = enters[p] + 1 /\ leaves'[p] = leaves[p] /\ leaves[p] \in Nat
    BY <1>0, <1>2 DEF CallTypeOK
  <2>5. enters'[p] = leaves'[p] + Cardinality(OpenCalls(p)')
    BY <2>1, <2>2, <2>3, <2>4
  <2> QED BY <2>2, <2>5 DEF CountedOK
<1>8. ASSUME NEW q \in FnProbes, q # p PROVE CountedOK(q)'
  <2>1. OpenCalls(q)' = OpenCalls(q)
    BY <1>1, <1>4, <1>8, OtherProbes
  <2>2. enters'[q] = enters[q] /\ leaves'[q] = leaves[q]
    BY <1>0, <1>2, <1>8 DEF CallTypeOK
  <2> QED BY <2>1, <2>2 DEF CountInv, CountedOK
<1> QED BY <1>7, <1>8 DEF CountInv

LEMMA LeaveSkippedCounts ==
  ASSUME AgentInv, CountInv, NEW t \in Threads, LeaveSkipped(t)
  PROVE  CountInv'
<1>0. Head(todo[t]) \in FnProbes /\ CallTypeOK
  BY ListenerTodo DEF AgentInv, AgentTypeOK, LeaveSkipped
<1>1. PICK p \in FnProbes : p = Head(todo[t])
  BY <1>0
<1>2. /\ invocations' = [invocations EXCEPT ![p][t] = Front(invocations[p][t])]
      /\ invocations[p][t] # <<>> /\ Last(invocations[p][t]) = Skipped
  BY <1>1 DEF LeaveSkipped, Pop, Invocations
<1>3. StackStep(p, t, Front(invocations[p][t])) /\ invocations[p][t] \in Seq(Nat)
  BY <1>0, <1>2, Steps DEF CallTypeOK
<1>4. OpenCalls(p)' = OpenCalls(p)
  <2>1. PICK top : top = <<t, Len(invocations[p][t])>>
    OBVIOUS
  <2>2. OpenCalls(p)' = OpenCalls(p) \ {top} /\ top \notin OpenCalls(p)
    BY <1>2, <1>3, <2>1, PopCloses
  <2> QED BY <2>2
<1>5. \A q \in FnProbes : OpenCalls(q)' = OpenCalls(q)
  BY <1>1, <1>3, <1>4, OtherProbes
<1>6. UNCHANGED <<enters, leaves>>
  BY DEF LeaveSkipped
<1> QED BY <1>5, <1>6 DEF CountInv, CountedOK

LEMMA LeaveCounts ==
  ASSUME AgentInv, CountInv, NEW t \in Threads, stage[t] = "leave",
         LeaveCounted(t), UNCHANGED enters
  PROVE  CountInv'
<1>0. Head(todo[t]) \in FnProbes /\ CallTypeOK
  BY ListenerTodo DEF AgentInv, AgentTypeOK
<1>1. PICK p \in FnProbes : p = Head(todo[t])
  BY <1>0
<1>b. PICK top : top = <<t, Len(invocations[p][t])>>
  OBVIOUS
<1>2. /\ invocations' = [invocations EXCEPT ![p][t] = Front(invocations[p][t])]
      /\ invocations[p][t] # <<>> /\ Last(invocations[p][t]) # Skipped
      /\ leaves' = [leaves EXCEPT ![p] = @ + 1]
  BY <1>1 DEF LeaveCounted, Pop, Invocations
<1>3. StackStep(p, t, Front(invocations[p][t])) /\ invocations[p][t] \in Seq(Nat)
  BY <1>0, <1>2, Steps DEF CallTypeOK
<1>4. OpenCalls(p)' = OpenCalls(p) \ {top} /\ top \in OpenCalls(p)
  BY <1>b, <1>2, <1>3, PopCloses
<1>5. CountedOK(p)'
  <2>1. IsFiniteSet(OpenCalls(p)) /\ enters[p] = leaves[p] + Cardinality(OpenCalls(p))
    BY <1>1 DEF CountInv, CountedOK
  <2>2. /\ IsFiniteSet(OpenCalls(p)')
        /\ Cardinality(OpenCalls(p)') = Cardinality(OpenCalls(p)) - 1
    BY <1>4, <2>1, FS_RemoveElement
  <2>3. Cardinality(OpenCalls(p)) \in Nat
    BY <2>1, FS_CardinalityType
  <2>4. enters'[p] = enters[p] /\ leaves'[p] = leaves[p] + 1 /\ leaves[p] \in Nat
    BY <1>0, <1>2 DEF CallTypeOK
  <2>5. enters'[p] = leaves'[p] + Cardinality(OpenCalls(p)')
    BY <2>1, <2>2, <2>3, <2>4
  <2> QED BY <2>2, <2>5 DEF CountedOK
<1>6. ASSUME NEW q \in FnProbes, q # p PROVE CountedOK(q)'
  <2>1. OpenCalls(q)' = OpenCalls(q)
    BY <1>1, <1>3, <1>6, OtherProbes
  <2>2. enters'[q] = enters[q] /\ leaves'[q] = leaves[q]
    BY <1>0, <1>2, <1>6 DEF CallTypeOK
  <2> QED BY <2>1, <2>2 DEF CountInv, CountedOK
<1> QED BY <1>5, <1>6 DEF CountInv

LEMMA CountNext ==
  ASSUME AgentInv, CountInv, AgentMove
  PROVE  CountInv'
<1>1. ASSUME NEW t \in Threads, EnterSkipped(t) \/ LeaveSkipped(t) PROVE CountInv'
  BY <1>1, EnterSkippedCounts, LeaveSkippedCounts
<1>2. ASSUME NEW t \in Threads, EnterRecorded(t) \/ EnterThrows(t) PROVE CountInv'
  BY <1>2, EnterCounts DEF EnterRecorded, EnterThrows
<1>3. ASSUME NEW t \in Threads, LeaveRecorded(t) \/ LeaveThrows(t) PROVE CountInv'
  BY <1>3, LeaveCounts DEF LeaveRecorded, LeaveThrows
<1>4. ASSUME NEW t \in Threads,
             \/ LeaveUnmatched(t) \/ EventDropped(t) \/ EventBuffered(t) \/ BatchFull(t)
             \/ BatchPosted(t) \/ SendReturns(t) \/ SendThrows(t)
      PROVE  CountInv'
  BY <1>4, CountFrame DEF LeaveUnmatched, EventDropped, EventBuffered, BatchFull,
     BatchPosted, SendReturns, SendThrows, callVars
<1>5. ASSUME NEW t \in Threads, NativeStep(t) PROVE CountInv'
  BY <1>5, CountFrame DEF NativeStep, Call, Return, Hit, HitThrows, HitCounted, callVars
<1>6. CASE RpcStep
  BY <1>6, CountFrame DEF RpcStep, PollFinished, DeadlinePassed, FlushNothing, FlushThread,
     RpcBatchPosted, RpcSendReturns, RpcSendThrows, FlushDone, callVars
<1>7. CASE Service
  BY <1>7, CountFrame DEF Install, InstallFails, Service, BeginObservation,
     FinishObservation, Flush, BindFixtureMemory, callVars
<1>8. CASE Still
  BY <1>8, CountFrame DEF Still, callVars
<1> QED BY <1>1, <1>2, <1>3, <1>4, <1>5, <1>6, <1>7, <1>8 DEF AgentMove, CallbackStep

LEMMA InitCounts == AgentInit => CountInv
<1> SUFFICES ASSUME AgentInit, NEW p \in FnProbes PROVE CountedOK(p)
  BY DEF CountInv
<1>1. /\ enters = [q \in FnProbes |-> 0] /\ leaves = enters
      /\ invocations = [q \in FnProbes |-> [t \in Threads |-> <<>>]]
  BY DEF AgentInit
<1>2. enters[p] = 0 /\ leaves[p] = 0 /\ \A t \in Threads : invocations[p][t] = <<>>
  BY <1>1
<1>3. OpenCalls(p) = {}
  BY <1>2, OpenCallsMembers DEF CallOpen
<1> QED BY <1>2, <1>3, FS_EmptySet DEF CountedOK

(* The counters finishobservation waits on are exact, for any threads,     *)
(* probes, nesting and faults (agent.js:356-385, 504-521).                 *)
THEOREM CountersAreExact == AgentSpec => []CountersExact
<1>1. AgentInv /\ CountInv /\ [AgentNext]_agentVars => CountInv'
  BY CountNext, NextMoves
<1>2. AgentInv /\ CountInv => CountersExact
  BY DEF CountInv, CountedOK, CountersExact
<1> QED BY <1>1, <1>2, InitCounts, AgentInvariant, PTL DEF AgentSpec

-----------------------------------------------------------------------------
(* Nesting: Nests(L) said of single events instead of intervals, so that   *)
(* one more event can be seen to keep it.                                  *)

HasLeave(L, i) == \E j \in Leaves(L) : i < j /\ L[j].id = L[i].id

LogOK(L, t, c) ==
  /\ L \in Seq(AgentEvents)
  /\ \A n \in DOMAIN L : L[n].tid = t
  /\ \A i \in Enters(L) : L[i].id \in 1..c
  /\ \A i, k \in Enters(L) : i < k => L[i].id < L[k].id
  /\ \A i \in Enters(L) : \A j, k \in Leaves(L) :
       i < j /\ i < k /\ L[j].id = L[i].id /\ L[k].id = L[i].id => j = k
  /\ \A j \in Leaves(L) : \E i \in Enters(L) : i < j /\ L[i].id = L[j].id
  /\ \A i, k \in Enters(L) : \A j \in Leaves(L) :
       i < k /\ k < j /\ L[j].id = L[i].id =>
         \E l \in Leaves(L) : k < l /\ l < j /\ L[l].id = L[k].id

LEMMA LogNests ==
  ASSUME NEW L, NEW t, NEW c \in Nat, LogOK(L, t, c)
  PROVE  Nests(L)
<1>1. DOMAIN L = 1..Len(L) /\ Len(L) \in Nat
  BY DEF LogOK
<1>2. Enters(L) \in SUBSET (1..Len(L)) /\ Leaves(L) \in SUBSET (1..Len(L))
  BY <1>1 DEF Enters, Leaves, At
<1>3. ASSUME NEW i \in Enters(L), NEW j
      PROVE  j \in LeavesOf(L, i) <=> j \in Leaves(L) /\ i < j /\ L[j].id = L[i].id
  BY <1>1, <1>2 DEF LeavesOf, LogOK
<1>4. ASSUME NEW i \in Enters(L)
      PROVE  /\ Cardinality(LeavesOf(L, i)) <= 1
             /\ LeavesOf(L, i) = {} => End(L, i) = Len(L) + 1
             /\ LeavesOf(L, i) # {} => End(L, i) \in LeavesOf(L, i)
  <2>1. \A j, k \in LeavesOf(L, i) : j = k
    BY <1>3 DEF LogOK
  <2>2. CASE LeavesOf(L, i) = {}
    BY <2>2, FS_EmptySet DEF End
  <2>3. CASE LeavesOf(L, i) # {}
    <3>1. PICK j : j \in LeavesOf(L, i)
      BY <2>3
    <3>2. LeavesOf(L, i) = {j}
      BY <2>1, <3>1
    <3>3. Cardinality(LeavesOf(L, i)) = 1
      BY <3>2, FS_Singleton
    <3> QED BY <2>3, <3>3 DEF End
  <2> QED BY <2>2, <2>3
<1>5. \A i, k \in Enters(L) : i # k => L[i].id # L[k].id
  <2> SUFFICES ASSUME NEW i \in Enters(L), NEW k \in Enters(L), i # k
               PROVE  L[i].id # L[k].id
    OBVIOUS
  <2>1. i \in Nat /\ k \in Nat /\ L[i].id \in Nat /\ L[k].id \in Nat
    BY <1>1, <1>2 DEF LogOK
  <2>2. i < k \/ k < i
    BY <2>1
  <2>3. (i < k => L[i].id < L[k].id) /\ (k < i => L[k].id < L[i].id)
    BY DEF LogOK
  <2> QED BY <2>1, <2>2, <2>3
<1>6. \A j \in Leaves(L) : \E i \in Enters(L) : j \in LeavesOf(L, i)
  BY <1>3 DEF LogOK
<1>7. ASSUME NEW i \in Enters(L), NEW k \in Enters(L), Encloses(L, i, k),
             LeavesOf(L, i) # {}
      PROVE  End(L, k) < End(L, i)
  <2>1. PICK j : j = End(L, i) /\ j \in LeavesOf(L, i) /\ i < k /\ k < j
    BY <1>4, <1>7 DEF Encloses
  <2>2. j \in Leaves(L) /\ L[j].id = L[i].id
    BY <1>3, <2>1
  <2>3. PICK l \in Leaves(L) : k < l /\ l < j /\ L[l].id = L[k].id
    BY <2>1, <2>2 DEF LogOK
  <2>4. l \in LeavesOf(L, k)
    BY <1>3, <2>3
  <2>5. End(L, k) \in LeavesOf(L, k)
    BY <1>4, <2>4
  <2>6. End(L, k) = l
    BY <1>3, <2>4, <2>5 DEF LogOK
  <2> QED BY <2>1, <2>3, <2>6
<1> QED BY <1>4, <1>5, <1>6, <1>7 DEF Nests

LEMMA AppendedLog ==
  ASSUME NEW L \in Seq(AgentEvents), NEW e \in AgentEvents
  PROVE  /\ Append(L, e) \in Seq(AgentEvents)
         /\ DOMAIN Append(L, e) = 1..(Len(L) + 1) /\ Len(L) \in Nat
         /\ Append(L, e)[Len(L) + 1] = e
         /\ \A n \in 1..Len(L) : Append(L, e)[n] = L[n]
         /\ Enters(L) \in SUBSET (1..Len(L)) /\ Leaves(L) \in SUBSET (1..Len(L))
         /\ Enters(Append(L, e)) =
              IF e.phase = "enter" THEN Enters(L) \cup {Len(L) + 1} ELSE Enters(L)
         /\ Leaves(Append(L, e)) =
              IF e.phase = "leave" THEN Leaves(L) \cup {Len(L) + 1} ELSE Leaves(L)
<1> DEFINE K == Append(L, e)
<1>1. /\ K \in Seq(AgentEvents) /\ DOMAIN K = 1..(Len(L) + 1) /\ Len(L) \in Nat
      /\ K[Len(L) + 1] = e /\ \A n \in 1..Len(L) : K[n] = L[n]
      /\ DOMAIN L = 1..Len(L)
  OBVIOUS
<1> HIDE DEF K
<1>2. Enters(L) \in SUBSET (1..Len(L)) /\ Leaves(L) \in SUBSET (1..Len(L))
  BY <1>1 DEF Enters, Leaves, At
<1>3. ASSUME NEW ph
      PROVE  At(K, ph) = IF e.phase = ph THEN At(L, ph) \cup {Len(L) + 1} ELSE At(L, ph)
  <2>1. \A i : i \in 1..(Len(L) + 1) <=> i \in 1..Len(L) \/ i = Len(L) + 1
    BY <1>1
  <2> QED BY <1>1, <2>1 DEF At
<1> QED BY <1>1, <1>2, <1>3 DEF K, Enters, Leaves

(* What an event does to the log of its thread.                            *)
LEMMA LogInstruction ==
  ASSUME NEW L, NEW t, NEW c \in Nat, LogOK(L, t, c),
         NEW e \in AgentEvents, e.tid = t, e.phase = "instruction"
  PROVE  /\ LogOK(Append(L, e), t, c)
         /\ \A i \in Enters(L) : HasLeave(Append(L, e), i) <=> HasLeave(L, i)
         /\ Enters(Append(L, e)) = Enters(L)
         /\ \A i \in Enters(L) : Append(L, e)[i] = L[i]
<1> DEFINE K == Append(L, e)
<1>0. L \in Seq(AgentEvents)
  BY DEF LogOK
<1>1. /\ K \in Seq(AgentEvents) /\ DOMAIN K = 1..(Len(L) + 1) /\ Len(L) \in Nat
      /\ DOMAIN L = 1..Len(L)
      /\ K[Len(L) + 1] = e /\ \A n \in 1..Len(L) : K[n] = L[n]
      /\ Enters(L) \in SUBSET (1..Len(L)) /\ Leaves(L) \in SUBSET (1..Len(L))
      /\ Enters(K) = Enters(L) /\ Leaves(K) = Leaves(L)
  BY <1>0, AppendedLog
<1> HIDE DEF K
<1>2. \A i \in Enters(L) \cup Leaves(L) : K[i] = L[i]
  BY <1>1
<1>3. \A n \in DOMAIN K : K[n].tid = t
  <2>1. \A n \in DOMAIN K : n \in DOMAIN L \/ n = Len(L) + 1
    BY <1>1
  <2> QED BY <1>1, <2>1 DEF LogOK
<1>4. LogOK(K, t, c)
  <2>1. \A i \in Enters(K) : K[i] = L[i] /\ i \in Enters(L)
    BY <1>1, <1>2
  <2>2. \A j \in Leaves(K) : K[j] = L[j] /\ j \in Leaves(L)
    BY <1>1, <1>2
  <2>3. /\ \A i \in Enters(K) : K[i].id \in 1..c
        /\ \A i, k \in Enters(K) : i < k => K[i].id < K[k].id
    BY <2>1 DEF LogOK
  <2>4. \A i \in Enters(K) : \A j, k \in Leaves(K) :
          i < j /\ i < k /\ K[j].id = K[i].id /\ K[k].id = K[i].id => j = k
    BY <2>1, <2>2 DEF LogOK
  <2>5. \A j \in Leaves(K) : \E i \in Enters(K) : i < j /\ K[i].id = K[j].id
    <3> SUFFICES ASSUME NEW j \in Leaves(K)
                 PROVE  \E i \in Enters(K) : i < j /\ K[i].id = K[j].id
      OBVIOUS
    <3>1. PICK i \in Enters(L) : i < j /\ L[i].id = L[j].id
      BY <2>2 DEF LogOK
    <3> QED BY <1>1, <2>1, <2>2, <3>1
  <2>6. ASSUME NEW i \in Enters(K), NEW k \in Enters(K), NEW j \in Leaves(K),
               i < k, k < j, K[j].id = K[i].id
        PROVE  \E l \in Leaves(K) : k < l /\ l < j /\ K[l].id = K[k].id
    <3>1. PICK l \in Leaves(L) : k < l /\ l < j /\ L[l].id = L[k].id
      BY <2>1, <2>2, <2>6 DEF LogOK
    <3> QED BY <1>1, <2>1, <2>2, <3>1
  <2> QED BY <1>1, <1>3, <2>3, <2>4, <2>5, <2>6 DEF LogOK
<1>5. \A i \in Enters(L) : HasLeave(K, i) <=> HasLeave(L, i)
  BY <1>1, <1>2 DEF HasLeave
<1> QED BY <1>1, <1>2, <1>4, <1>5 DEF K

LEMMA LogEnter ==
  ASSUME NEW L, NEW t, NEW c \in Nat, LogOK(L, t, c),
         NEW e \in AgentEvents, e.tid = t, e.phase = "enter", e.id \in 1..c,
         \A i \in Enters(L) : L[i].id < e.id
  PROVE  /\ LogOK(Append(L, e), t, c)
         /\ \A i \in Enters(L) : HasLeave(Append(L, e), i) <=> HasLeave(L, i)
         /\ Enters(Append(L, e)) = Enters(L) \cup {Len(L) + 1}
         /\ \A i \in Enters(L) : Append(L, e)[i] = L[i]
         /\ Append(L, e)[Len(L) + 1] = e
         /\ ~HasLeave(Append(L, e), Len(L) + 1)
<1> DEFINE K == Append(L, e)
           new == Len(L) + 1
<1>0. L \in Seq(AgentEvents)
  BY DEF LogOK
<1>1. /\ K \in Seq(AgentEvents) /\ DOMAIN K = 1..new /\ Len(L) \in Nat
      /\ DOMAIN L = 1..Len(L)
      /\ K[new] = e /\ \A n \in 1..Len(L) : K[n] = L[n]
      /\ Enters(L) \in SUBSET (1..Len(L)) /\ Leaves(L) \in SUBSET (1..Len(L))
      /\ Enters(K) = Enters(L) \cup {new} /\ Leaves(K) = Leaves(L)
  BY <1>0, AppendedLog
<1>a. \A i \in Enters(L) \cup Leaves(L) : i \in Nat /\ i < new
  BY <1>1
<1>b. new \in Nat /\ \A n \in DOMAIN K : n \in DOMAIN L \/ n = new
  BY <1>1
<1> HIDE DEF K, new
<1>2. \A i \in Enters(L) \cup Leaves(L) : K[i] = L[i]
  BY <1>1
<1>3. \A n \in DOMAIN K : K[n].tid = t
  BY <1>1, <1>b DEF LogOK
<1>4. \A i \in Enters(K) : K[i].id \in 1..c
  BY <1>1, <1>2 DEF LogOK
<1>5. \A i, k \in Enters(K) : i < k => K[i].id < K[k].id
  <2> SUFFICES ASSUME NEW i \in Enters(K), NEW k \in Enters(K), i < k
               PROVE  K[i].id < K[k].id
    OBVIOUS
  <2>1. CASE i = new
    BY <1>1, <1>a, <1>b, <2>1
  <2>2. CASE i \in Enters(L) /\ k = new
    BY <1>1, <1>2, <2>2
  <2>3. CASE i \in Enters(L) /\ k \in Enters(L)
    BY <1>2, <2>3 DEF LogOK
  <2> QED BY <1>1, <2>1, <2>2, <2>3
<1>6. \A j \in Leaves(L) : ~(new < j)
  BY <1>a, <1>b
<1>7. \A i \in Enters(K) : \A j, k \in Leaves(K) :
       i < j /\ i < k /\ K[j].id = K[i].id /\ K[k].id = K[i].id => j = k
  <2> SUFFICES ASSUME NEW i \in Enters(L), NEW j \in Leaves(L), NEW k \in Leaves(L),
                      i < j, i < k, K[j].id = K[i].id, K[k].id = K[i].id
               PROVE  j = k
    BY <1>1, <1>6
  <2> QED BY <1>2 DEF LogOK
<1>8. \A j \in Leaves(K) : \E i \in Enters(K) : i < j /\ K[i].id = K[j].id
  BY <1>1, <1>2 DEF LogOK
<1>9. \A i, k \in Enters(K) : \A j \in Leaves(K) :
       i < k /\ k < j /\ K[j].id = K[i].id =>
         \E l \in Leaves(K) : k < l /\ l < j /\ K[l].id = K[k].id
  <2> SUFFICES ASSUME NEW i \in Enters(K), NEW k \in Enters(K), NEW j \in Leaves(K),
                      i < k, k < j, K[j].id = K[i].id
               PROVE  \E l \in Leaves(K) : k < l /\ l < j /\ K[l].id = K[k].id
    OBVIOUS
  <2>1. k \in Enters(L) /\ j \in Leaves(L)
    BY <1>1, <1>6
  <2>2. i \in Enters(L)
    BY <1>1, <1>a, <1>b, <2>1
  <2>3. \E l \in Leaves(L) : k < l /\ l < j /\ L[l].id = L[k].id
    BY <1>2, <2>1, <2>2 DEF LogOK
  <2> QED BY <1>1, <1>2, <2>1, <2>3
<1>10. LogOK(K, t, c)
  BY <1>1, <1>3, <1>4, <1>5, <1>7, <1>8, <1>9 DEF LogOK
<1>11. \A i \in Enters(L) : HasLeave(K, i) <=> HasLeave(L, i)
  BY <1>1, <1>2 DEF HasLeave
<1>12. ~HasLeave(K, new)
  BY <1>1, <1>6 DEF HasLeave
<1> QED BY <1>1, <1>2, <1>10, <1>11, <1>12 DEF K, new

OpenIn(L, id) == \E i \in Enters(L) : L[i].id = id /\ ~HasLeave(L, i)
LastOpen(L, id) ==
  \E i \in Enters(L) : /\ L[i].id = id /\ ~HasLeave(L, i)
                       /\ \A k \in Enters(L) : i < k => HasLeave(L, k)

LEMMA LogLeave ==
  ASSUME NEW L, NEW t, NEW c \in Nat, LogOK(L, t, c),
         NEW e \in AgentEvents, e.tid = t, e.phase = "leave", LastOpen(L, e.id)
  PROVE  /\ LogOK(Append(L, e), t, c)
         /\ \A i \in Enters(L) :
              HasLeave(Append(L, e), i) <=> HasLeave(L, i) \/ L[i].id = e.id
         /\ Enters(Append(L, e)) = Enters(L)
         /\ \A i \in Enters(L) : Append(L, e)[i] = L[i]
<1> DEFINE K == Append(L, e)
           new == Len(L) + 1
<1>0. L \in Seq(AgentEvents)
  BY DEF LogOK
<1>1. /\ K \in Seq(AgentEvents) /\ DOMAIN K = 1..new /\ Len(L) \in Nat
      /\ DOMAIN L = 1..Len(L)
      /\ K[new] = e /\ \A n \in 1..Len(L) : K[n] = L[n]
      /\ Enters(L) \in SUBSET (1..Len(L)) /\ Leaves(L) \in SUBSET (1..Len(L))
      /\ Leaves(K) = Leaves(L) \cup {new} /\ Enters(K) = Enters(L)
  BY <1>0, AppendedLog
<1>a. \A i \in Enters(L) \cup Leaves(L) : i \in Nat /\ i < new
  BY <1>1
<1>b. new \in Nat /\ new \notin Leaves(L) /\ \A n \in DOMAIN K : n \in DOMAIN L \/ n = new
  BY <1>1
<1> HIDE DEF K, new
<1>2. \A i \in Enters(L) \cup Leaves(L) : K[i] = L[i]
  BY <1>1
<1>3. \A n \in DOMAIN K : K[n].tid = t
  BY <1>1, <1>b DEF LogOK
<1>4. PICK o \in Enters(L) : /\ L[o].id = e.id /\ ~HasLeave(L, o)
                             /\ \A k \in Enters(L) : o < k => HasLeave(L, k)
  BY DEF LastOpen
<1>5. \A i \in Enters(L) : L[i].id = e.id => i = o
  <2> SUFFICES ASSUME NEW i \in Enters(L), L[i].id = e.id, i # o PROVE FALSE
    OBVIOUS
  <2>1. i < o \/ o < i
    BY <1>a
  <2>2. (i < o => L[i].id < L[o].id) /\ (o < i => L[o].id < L[i].id)
    BY DEF LogOK
  <2>3. L[o].id \in Nat
    BY DEF LogOK
  <2> QED BY <1>4, <2>1, <2>2, <2>3
<1>6. \A i \in Enters(K) : \A j, k \in Leaves(K) :
       i < j /\ i < k /\ K[j].id = K[i].id /\ K[k].id = K[i].id => j = k
  <2> SUFFICES ASSUME NEW i \in Enters(L), NEW j \in Leaves(K), NEW k \in Leaves(K),
                      i < j, i < k, K[j].id = K[i].id, K[k].id = K[i].id
               PROVE  j = k
    BY <1>1
  <2>1. CASE i = o
    <3>1. \A l \in Leaves(L) : ~(o < l /\ L[l].id = L[o].id)
      BY <1>4 DEF HasLeave
    <3> QED BY <1>1, <1>2, <2>1, <3>1
  <2>2. CASE i # o
    <3>1. j # new /\ k # new
      BY <1>1, <1>2, <1>5, <2>2
    <3> QED BY <1>1, <1>2, <3>1 DEF LogOK
  <2> QED BY <2>1, <2>2
<1>7. \A j \in Leaves(K) : \E i \in Enters(K) : i < j /\ K[i].id = K[j].id
  <2> SUFFICES ASSUME NEW j \in Leaves(K)
               PROVE  \E i \in Enters(K) : i < j /\ K[i].id = K[j].id
    OBVIOUS
  <2>1. CASE j = new
    BY <1>1, <1>2, <1>4, <1>a, <2>1
  <2>2. CASE j \in Leaves(L)
    BY <1>1, <1>2, <2>2 DEF LogOK
  <2> QED BY <1>1, <2>1, <2>2
<1>8. \A i, k \in Enters(K) : \A j \in Leaves(K) :
       i < k /\ k < j /\ K[j].id = K[i].id =>
         \E l \in Leaves(K) : k < l /\ l < j /\ K[l].id = K[k].id
  <2> SUFFICES ASSUME NEW i \in Enters(L), NEW k \in Enters(L), NEW j \in Leaves(K),
                      i < k, k < j, K[j].id = K[i].id
               PROVE  \E l \in Leaves(K) : k < l /\ l < j /\ K[l].id = K[k].id
    BY <1>1
  <2>1. CASE j = new
    <3>1. i = o
      BY <1>1, <1>2, <1>5, <2>1
    <3>2. HasLeave(L, k)
      BY <1>4, <3>1
    <3> QED BY <1>1, <1>2, <1>a, <2>1, <3>2 DEF HasLeave
  <2>2. CASE j \in Leaves(L)
    <3>1. \E l \in Leaves(L) : k < l /\ l < j /\ L[l].id = L[k].id
      BY <1>2, <2>2 DEF LogOK
    <3> QED BY <1>1, <1>2, <3>1
  <2> QED BY <1>1, <2>1, <2>2
<1>9. LogOK(K, t, c)
  <2>1. \A i \in Enters(K) : K[i].id \in 1..c
    BY <1>1, <1>2 DEF LogOK
  <2>2. \A i, k \in Enters(K) : i < k => K[i].id < K[k].id
    BY <1>1, <1>2 DEF LogOK
  <2> QED BY <1>1, <1>3, <1>6, <1>7, <1>8, <2>1, <2>2 DEF LogOK
<1>10. \A i \in Enters(L) : HasLeave(K, i) <=> HasLeave(L, i) \/ L[i].id = e.id
  BY <1>1, <1>2, <1>a DEF HasLeave
<1> QED BY <1>1, <1>2, <1>9, <1>10 DEF K, new

-----------------------------------------------------------------------------
(* The invocation stacks of thread t, merged: n entries in the order in    *)
(* which they were pushed, entry k being entry M[k] of probe P[k].         *)

IdAt(P, M, stacks, t, k) == stacks[P[k]][t][M[k]]

Merges(n, P, M, stacks, t) ==
  /\ n \in Nat
  /\ \A k \in 1..n : P[k] \in FnProbes /\ M[k] \in 1..Len(stacks[P[k]][t])
  /\ \A p \in FnProbes : \A m \in 1..Len(stacks[p][t]) :
       \E k \in 1..n : P[k] = p /\ M[k] = m
  /\ \A k, l \in 1..n : k < l /\ P[k] = P[l] => M[k] < M[l]

Rising(n, P, M, stacks, t, c) ==
  /\ \A k \in 1..n : IdAt(P, M, stacks, t, k) \in 0..c
  /\ \A k, l \in 1..n :
       /\ k < l
       /\ IdAt(P, M, stacks, t, k) # Skipped /\ IdAt(P, M, stacks, t, l) # Skipped
       => IdAt(P, M, stacks, t, k) < IdAt(P, M, stacks, t, l)

Stacks == [FnProbes -> [Threads -> Seq(Nat)]]

(* The stacks of a thread before and after a change of one of them.        *)
Changed(A, B, p, t, stack) ==
  B[p][t] = stack /\ \A q \in FnProbes \ {p} : B[q][t] = A[q][t]

Kept(n, P, M, A, P2, M2, B, t) ==
  \A k \in 1..n : IdAt(P2, M2, B, t, k) = IdAt(P, M, A, t, k)
TopIs(n, P, M, stacks, t, id) == IdAt(P, M, stacks, t, n) = id
Extended(n, P, M, P2, M2, p, m) ==
  (\A k \in 1..n : P2[k] = P[k] /\ M2[k] = M[k]) /\ P2[n + 1] = p /\ M2[n + 1] = m

LEMMA MergePush ==
  ASSUME NEW A \in Stacks, NEW B \in Stacks, NEW p \in FnProbes, NEW t \in Threads,
         NEW id \in Nat, Changed(A, B, p, t, Append(A[p][t], id)),
         NEW n, NEW P, NEW M, Merges(n, P, M, A, t),
         NEW P2, NEW M2,
         Extended(n, P, M, P2, M2, p, Len(A[p][t]) + 1)
  PROVE  /\ Merges(n + 1, P2, M2, B, t)
         /\ Kept(n, P, M, A, P2, M2, B, t)
         /\ TopIs(n + 1, P2, M2, B, t, id)
<1> USE DEF Extended
<1> DEFINE old == A[p][t]
           new == Append(old, id)
<1>1. old \in Seq(Nat) /\ Len(old) \in Nat /\ n \in Nat
  BY DEF Stacks, Merges
<1>2. /\ Len(new) = Len(old) + 1 /\ new[Len(old) + 1] = id
      /\ \A i \in 1..Len(old) : new[i] = old[i]
  BY <1>1
<1>3. B[p][t] = new /\ \A q \in FnProbes \ {p} : B[q][t] = A[q][t]
  BY DEF Changed
<1> HIDE DEF old, new
<1>4. \A k \in 1..(n + 1) : k \in 1..n \/ k = n + 1
  BY <1>1
<1>5. \A k \in 1..n : /\ k \in 1..(n + 1) /\ k \in Nat /\ k < n + 1
                     /\ P[k] \in FnProbes /\ M[k] \in 1..Len(A[P[k]][t])
  BY <1>1 DEF Merges
<1>6. ASSUME NEW k \in 1..n
      PROVE  M2[k] \in 1..Len(B[P2[k]][t]) /\ B[P2[k]][t][M2[k]] = A[P[k]][t][M[k]]
  <2>1. CASE P[k] = p
    <3>1. P2[k] = p /\ M2[k] = M[k] /\ M[k] \in 1..Len(old)
      BY <1>5, <2>1 DEF old
    <3>2. M[k] \in 1..Len(new) /\ new[M[k]] = old[M[k]]
      BY <1>1, <1>2, <3>1
    <3> QED BY <1>3, <2>1, <3>1, <3>2 DEF old
  <2>2. CASE P[k] # p
    BY <1>3, <1>5, <2>2
  <2> QED BY <2>1, <2>2
<1>7. P2[n + 1] = p /\ M2[n + 1] = Len(old) + 1 /\ n + 1 \in 1..(n + 1)
  BY <1>1 DEF old
<1>8. \A k \in 1..(n + 1) : P2[k] \in FnProbes /\ M2[k] \in 1..Len(B[P2[k]][t])
  BY <1>1, <1>2, <1>3, <1>4, <1>5, <1>6, <1>7
<1>9. ASSUME NEW q \in FnProbes, NEW m \in 1..Len(B[q][t])
      PROVE  \E k \in 1..(n + 1) : P2[k] = q /\ M2[k] = m
  <2>1. CASE q = p /\ m = Len(old) + 1
    BY <1>7, <2>1
  <2>2. CASE ~(q = p /\ m = Len(old) + 1)
    <3>1. m \in 1..Len(A[q][t])
      <4>1. CASE q = p
        BY <1>1, <1>2, <1>3, <2>2, <4>1 DEF old
      <4>2. CASE q # p
        BY <1>3, <4>2
      <4> QED BY <4>1, <4>2
    <3>2. PICK k \in 1..n : P[k] = q /\ M[k] = m
      BY <3>1 DEF Merges
    <3> QED BY <1>5, <3>2
  <2> QED BY <2>1, <2>2
<1>10. \A k, l \in 1..(n + 1) : k < l /\ P2[k] = P2[l] => M2[k] < M2[l]
  <2> SUFFICES ASSUME NEW k \in 1..(n + 1), NEW l \in 1..(n + 1), k < l, P2[k] = P2[l]
               PROVE  M2[k] < M2[l]
    OBVIOUS
  <2>1. k \in 1..n
    BY <1>1
  <2>2. CASE l = n + 1
    <3>1. P[k] = p /\ M[k] \in 1..Len(old)
      BY <1>5, <1>7, <2>1, <2>2 DEF old
    <3> QED BY <1>1, <1>7, <2>1, <2>2, <3>1
  <2>3. CASE l \in 1..n
    BY <2>1, <2>3 DEF Merges
  <2> QED BY <1>4, <2>2, <2>3
<1>11. Merges(n + 1, P2, M2, B, t)
  BY <1>1, <1>8, <1>9, <1>10 DEF Merges
<1>12. B[P2[n + 1]][t][M2[n + 1]] = id
  BY <1>2, <1>3, <1>7
<1> QED BY <1>6, <1>11, <1>12 DEF IdAt, Kept, TopIs

LEMMA RisingPush ==
  ASSUME NEW A \in Stacks, NEW B \in Stacks, NEW t \in Threads,
         NEW id \in Nat, NEW n \in Nat, NEW P, NEW M, NEW P2, NEW M2,
         NEW c \in Nat, NEW d \in Nat, c <= d, Rising(n, P, M, A, t, c),
         Kept(n, P, M, A, P2, M2, B, t), TopIs(n + 1, P2, M2, B, t, id),
         id = Skipped \/ id \in (c + 1)..d
  PROVE  Rising(n + 1, P2, M2, B, t, d)
<1> DEFINE old(k) == IdAt(P, M, A, t, k)
           new(k) == IdAt(P2, M2, B, t, k)
<1>1. /\ \A k \in 1..n : old(k) \in 0..c /\ new(k) = old(k)
      /\ \A k, l \in 1..n : k < l /\ old(k) # Skipped /\ old(l) # Skipped => old(k) < old(l)
      /\ new(n + 1) = id
  BY DEF Rising, Kept, TopIs
<1> HIDE DEF old, new
<1>2. \A k \in 1..(n + 1) : k \in 1..n \/ k = n + 1
  OBVIOUS
<1>3. \A k \in 1..(n + 1) : new(k) \in 0..d
  BY <1>1, <1>2 DEF Skipped
<1>4. ASSUME NEW k \in 1..(n + 1), NEW l \in 1..(n + 1), k < l,
             new(k) # Skipped, new(l) # Skipped
      PROVE  new(k) < new(l)
  <2>1. k \in 1..n
    BY <1>4
  <2>2. CASE l = n + 1
    BY <1>1, <1>4, <2>1, <2>2
  <2>3. CASE l \in 1..n
    BY <1>1, <1>4, <2>1, <2>3
  <2> QED BY <1>2, <2>2, <2>3
<1> QED BY <1>3, <1>4 DEF Rising, new

LEMMA MergePop ==
  ASSUME NEW A \in Stacks, NEW B \in Stacks, NEW t \in Threads,
         NEW n, NEW P, NEW M, Merges(n, P, M, A, t), n > 0,
         A[P[n]][t] # <<>> => Changed(A, B, P[n], t, Front(A[P[n]][t]))
  PROVE  /\ A[P[n]][t] # <<>> /\ TopIs(n, P, M, A, t, Last(A[P[n]][t]))
         /\ Merges(n - 1, P, M, B, t)
         /\ Kept(n - 1, P, M, A, P, M, B, t)
<1> DEFINE p == P[n]
           old == A[p][t]
           new == Front(old)
<1>0. n \in Nat /\ n \in 1..n /\ p \in FnProbes
  BY DEF Merges
<1>1. old \in Seq(Nat) /\ Len(old) \in Nat /\ M[n] \in 1..Len(old)
  BY <1>0 DEF Stacks, Merges
<1>a. old # <<>> /\ Len(old) > 0
  BY <1>1
<1>2. /\ Len(new) = Len(old) - 1 /\ Last(old) = old[Len(old)]
      /\ \A i \in 1..(Len(old) - 1) : new[i] = old[i]
  BY <1>1, <1>a DEF Front, Last
<1>3. B[p][t] = new /\ \A q \in FnProbes \ {p} : B[q][t] = A[q][t]
  BY <1>a DEF Changed
<1>4. M[n] = Len(old)
  <2>1. PICK k \in 1..n : P[k] = p /\ M[k] = Len(old)
    <3>1. Len(old) \in 1..Len(old)
      BY <1>1
    <3> QED BY <1>0, <3>1 DEF Merges
  <2>2. k < n => M[k] < M[n]
    BY <1>0, <2>1 DEF Merges
  <2>3. k = n \/ k < n
    BY <1>0
  <2> QED BY <1>1, <2>1, <2>2, <2>3
<1> HIDE DEF p, old, new
<1>5. \A k \in 1..(n - 1) : /\ k \in 1..n /\ k < n
                           /\ P[k] \in FnProbes /\ M[k] \in 1..Len(A[P[k]][t])
  BY <1>0 DEF Merges
<1>6. ASSUME NEW k \in 1..(n - 1)
      PROVE  M[k] \in 1..Len(B[P[k]][t]) /\ B[P[k]][t][M[k]] = A[P[k]][t][M[k]]
  <2>1. CASE P[k] = p
    <3>1. M[k] < M[n] /\ M[k] \in 1..Len(old)
      BY <1>0, <1>5, <2>1 DEF Merges, p, old
    <3>2. M[k] \in 1..(Len(old) - 1)
      BY <1>1, <1>4, <3>1
    <3> QED BY <1>1, <1>2, <1>3, <2>1, <3>2 DEF old
  <2>2. CASE P[k] # p
    BY <1>3, <1>5, <2>2
  <2> QED BY <2>1, <2>2
<1>7. ASSUME NEW q \in FnProbes, NEW m \in 1..Len(B[q][t])
      PROVE  \E k \in 1..(n - 1) : P[k] = q /\ M[k] = m
  <2>1. m \in 1..Len(A[q][t]) /\ ~(q = p /\ m = Len(old))
    <3>1. CASE q = p
      BY <1>1, <1>2, <1>3, <3>1 DEF old
    <3>2. CASE q # p
      BY <1>3, <3>2
    <3> QED BY <3>1, <3>2
  <2>2. PICK k \in 1..n : P[k] = q /\ M[k] = m
    BY <2>1 DEF Merges
  <2>3. k # n
    BY <1>4, <2>1, <2>2 DEF p
  <2>4. k \in 1..(n - 1)
    BY <1>0, <2>3
  <2> QED BY <2>2, <2>4
<1>8. \A k, l \in 1..(n - 1) : k < l /\ P[k] = P[l] => M[k] < M[l]
  BY <1>5 DEF Merges
<1>9. Merges(n - 1, P, M, B, t)
  BY <1>0, <1>5, <1>6, <1>7, <1>8 DEF Merges
<1>10. A[P[n]][t][M[n]] = Last(old)
  BY <1>2, <1>4 DEF old, p
<1> QED BY <1>a, <1>6, <1>9, <1>10 DEF IdAt, Kept, TopIs, old, p

LEMMA RisingPop ==
  ASSUME NEW A \in Stacks, NEW B \in Stacks, NEW t \in Threads,
         NEW n \in Nat, n > 0, NEW P, NEW M, NEW c \in Nat, Rising(n, P, M, A, t, c),
         Kept(n - 1, P, M, A, P, M, B, t)
  PROVE  Rising(n - 1, P, M, B, t, c)
<1> DEFINE old(k) == IdAt(P, M, A, t, k)
           new(k) == IdAt(P, M, B, t, k)
<1>1. /\ \A k \in 1..n : old(k) \in 0..c
      /\ \A k, l \in 1..n : k < l /\ old(k) # Skipped /\ old(l) # Skipped => old(k) < old(l)
      /\ \A k \in 1..(n - 1) : new(k) = old(k)
  BY DEF Rising, Kept
<1> HIDE DEF old, new
<1>2. \A k \in 1..(n - 1) : k \in 1..n
  OBVIOUS
<1>3. /\ \A k \in 1..(n - 1) : new(k) \in 0..c
      /\ \A k, l \in 1..(n - 1) :
           k < l /\ new(k) # Skipped /\ new(l) # Skipped => new(k) < new(l)
  BY <1>1, <1>2
<1> QED BY <1>3 DEF Rising, new

-----------------------------------------------------------------------------
(* The merged stack follows the frames: frame f owns the entries from      *)
(* B[f - 1] + 1 to B[f], one per probe of its address; those of the frame  *)
(* a listener is entering are still being pushed, and those of the one it  *)
(* is leaving, no frame any more, are still being popped.  hand is 1 while *)
(* the head of todo has been pushed or popped and its event is in hand.    *)

FrameOK(n, P, B, frs, f) ==
  LET ps == ProbesAt[frs[f]]
  IN  /\ B[f] = B[f - 1] + Len(ps)
      /\ \A j \in 1..Len(ps) : B[f - 1] + j <= n => P[B[f - 1] + j] = ps[j]

EnterShape(n, B, frs, td, hand) ==
  LET ps == ProbesAt[frs[Len(frs)]]
  IN  /\ Len(frs) > 0 /\ Len(td) <= Len(ps)
      /\ \A j \in 1..Len(td) : td[j] = ps[Len(ps) - Len(td) + j]
      /\ n = B[Len(frs)] - Len(td) + hand

LeaveShape(n, P, B, frs, td, hand) ==
  /\ n = B[Len(frs)] + Len(td) - hand
  /\ \A j \in 1..(Len(td) - hand) : P[B[Len(frs)] + j] = td[Len(td) + 1 - j]

Shape(n, P, B, frs, td, phase, hand) ==
  /\ \A f \in 0..Len(frs) : B[f] \in Nat
  /\ \A f, g \in 0..Len(frs) : f <= g => B[f] <= B[g]
  /\ \A f \in 1..Len(frs) : FrameOK(n, P, B, frs, f)
  /\ \/ phase = "flat" /\ n = B[Len(frs)]
     \/ phase = "enter" /\ EnterShape(n, B, frs, td, hand)
     \/ phase = "leave" /\ LeaveShape(n, P, B, frs, td, hand)

LEMMA Cancel ==
  ASSUME NEW b \in Nat, NEW x \in Nat, NEW y \in Nat, y <= x
  PROVE  ~(b + (x - y + 1) <= b)
OBVIOUS

LEMMA EmptyIsShort ==
  ASSUME NEW S, NEW s \in Seq(S) PROVE s = <<>> <=> Len(s) = 0
OBVIOUS

LEMMA FrontFacts ==
  ASSUME NEW S, NEW s \in Seq(S), s # <<>>
  PROVE  /\ Front(s) \in Seq(S) /\ Len(s) \in Nat /\ Len(s) > 0
         /\ Len(Front(s)) = Len(s) - 1
         /\ \A i \in 1..(Len(s) - 1) : Front(s)[i] = s[i]
         /\ Last(s) = s[Len(s)] /\ Last(s) \in S
<1>1. Len(s) \in Nat /\ Len(s) > 0
  OBVIOUS
<1>2. Front(s) \in Seq(S) /\ Last(s) = s[Len(s)] /\ Last(s) \in S
  BY <1>1 DEF Front, Last
<1>3. Len(Front(s)) = Len(s) - 1
  <2>1. PICK k \in Nat : k = Len(s) - 1
    BY <1>1
  <2>2. Front(s) = SubSeq(s, 1, k)
    BY <2>1 DEF Front
  <2>3. Len(SubSeq(s, 1, k)) = k
    BY <2>1
  <2> QED BY <2>1, <2>2, <2>3
<1>4. \A i \in 1..(Len(s) - 1) : Front(s)[i] = s[i]
  BY <1>1 DEF Front
<1> QED BY <1>1, <1>2, <1>3, <1>4

LEMMA ShapePush ==
  ASSUME NEW n \in Nat, NEW P, NEW B, NEW frs \in Seq(Addresses),
         NEW td \in Seq(FnProbes), td # <<>>, Shape(n, P, B, frs, td, "enter", 0),
         NEW P2, \A k \in 1..n : P2[k] = P[k], P2[n + 1] = td[1]
  PROVE  Shape(n + 1, P2, B, frs, td, "enter", 1)
<1> DEFINE last == Len(frs)
           ps == ProbesAt[frs[last]]
<1>1. /\ Len(frs) \in Nat /\ Len(td) \in Nat /\ Len(td) > 0
      /\ \A f \in 1..Len(frs) : frs[f] \in Addresses
  OBVIOUS
<1>2. \A f \in 1..Len(frs) : ProbesAt[frs[f]] \in Seq(FnProbes)
  BY <1>1, ProbesAssumption
<1>3. /\ \A f \in 0..Len(frs) : B[f] \in Nat
      /\ \A f, g \in 0..Len(frs) : f <= g => B[f] <= B[g]
      /\ \A f \in 1..Len(frs) : FrameOK(n, P, B, frs, f)
      /\ EnterShape(n, B, frs, td, 0)
  BY DEF Shape
<1>4. /\ last > 0 /\ Len(td) <= Len(ps) /\ n = B[last] - Len(td)
      /\ \A j \in 1..Len(td) : td[j] = ps[Len(ps) - Len(td) + j]
  BY <1>3 DEF EnterShape
<1>5. last \in 1..Len(frs) /\ last - 1 \in 0..Len(frs) /\ Len(ps) \in Nat
  BY <1>1, <1>2, <1>4
<1>6. B[last] = B[last - 1] + Len(ps) /\ B[last] \in Nat /\ B[last - 1] \in Nat
  BY <1>3, <1>5 DEF FrameOK
<1>7. P2[n + 1] = ps[Len(ps) - Len(td) + 1] /\ n + 1 = B[last - 1] + (Len(ps) - Len(td) + 1)
  <2>1. td[1] = ps[Len(ps) - Len(td) + 1]
    <3>1. 1 \in 1..Len(td)
      BY <1>1
    <3> QED BY <1>4, <3>1
  <2>2. n + 1 = B[last - 1] + (Len(ps) - Len(td) + 1)
    <3>1. PICK x \in Nat, y \in Nat, b \in Nat : x = Len(ps) /\ y = Len(td) /\ b = B[last - 1]
      BY <1>1, <1>5, <1>6
    <3>2. B[last] = b + x /\ n = B[last] - y
      BY <1>4, <1>6, <3>1
    <3>3. n = (b + x) - y
      BY <3>2
    <3>4. n + 1 = b + (x - y + 1)
      BY ONLY <3>3, x \in Nat, y \in Nat, b \in Nat, n \in Nat
    <3> QED BY <3>1, <3>4
  <2> QED BY <2>1, <2>2
<1>8. EnterShape(n + 1, B, frs, td, 1)
  BY <1>1, <1>4, <1>6 DEF EnterShape
<1>9. ASSUME NEW f \in 1..Len(frs) PROVE FrameOK(n + 1, P2, B, frs, f)
  <2> DEFINE qs == ProbesAt[frs[f]]
  <2>1. /\ B[f] = B[f - 1] + Len(qs) /\ Len(qs) \in Nat
        /\ \A j \in 1..Len(qs) : B[f - 1] + j <= n => P[B[f - 1] + j] = qs[j]
        /\ B[f] \in Nat /\ B[f - 1] \in Nat
    BY <1>1, <1>2, <1>3 DEF FrameOK
  <2> SUFFICES ASSUME NEW j \in 1..Len(qs), B[f - 1] + j <= n + 1
               PROVE  P2[B[f - 1] + j] = qs[j]
    BY <2>1 DEF FrameOK
  <2>2. CASE B[f - 1] + j <= n
    <3>1. B[f - 1] + j \in 1..n
      BY <2>1, <2>2
    <3> QED BY <2>1, <2>2, <3>1
  <2>3. CASE B[f - 1] + j = n + 1
    <3>1. CASE f = last
      <4>1. j \in Nat /\ B[last - 1] + j = n + 1
        BY <2>1, <2>3, <3>1
      <4>2. j = Len(ps) - Len(td) + 1
        <5>1. /\ Len(ps) \in Nat /\ Len(td) \in Nat /\ Len(td) <= Len(ps)
              /\ B[last - 1] \in Nat
          BY <1>1, <1>4, <1>5, <1>6
        <5>2. PICK x \in Nat, y \in Nat, b \in Nat, i \in Nat :
                x = Len(ps) /\ y = Len(td) /\ b = B[last - 1] /\ i = j
          BY <4>1, <5>1
        <5>3. b + i = b + (x - y + 1)
          BY <1>7, <4>1, <5>2
        <5>4. i = x - y + 1
          BY ONLY <5>3
        <5> QED BY <5>2, <5>4
      <4> QED BY <1>7, <2>3, <3>1, <4>2
    <3>2. CASE f # last
      <4>1. f \in 0..Len(frs) /\ f <= last - 1
        BY <1>1, <3>2
      <4>2. B[f] <= B[last - 1]
        BY <1>3, <1>5, <4>1
      <4>3. B[f - 1] + j <= B[f]
        BY <2>1
      <4>4. n + 1 <= B[last - 1]
        <5>1. PICK x \in Nat, y \in Nat : x = B[f] /\ y = B[last - 1]
          BY <1>6, <2>1
        <5>2. n + 1 <= x /\ x <= y
          BY <2>3, <4>2, <4>3, <5>1
        <5>3. n + 1 <= y
          BY <5>2
        <5> QED BY <5>1, <5>3
      <4>5. ~(n + 1 <= B[last - 1])
        <5>1. /\ Len(ps) \in Nat /\ Len(td) \in Nat /\ Len(td) <= Len(ps)
              /\ B[last - 1] \in Nat
          BY <1>1, <1>4, <1>5, <1>6
        <5>2. ~(B[last - 1] + (Len(ps) - Len(td) + 1) <= B[last - 1])
          BY <5>1, Cancel
        <5> QED BY <1>7, <5>2
      <4> QED BY <4>4, <4>5
    <3> QED BY <3>1, <3>2
  <2>4. B[f - 1] + j \in Nat
    BY <2>1
  <2>5. B[f - 1] + j <= n \/ B[f - 1] + j = n + 1
    BY <2>4
  <2> QED BY <2>2, <2>3, <2>5
<1> QED BY <1>3, <1>8, <1>9 DEF Shape

(* The rest of todo after its head.                                        *)
LEMMA TailFacts ==
  ASSUME NEW S, NEW td \in Seq(S), td # <<>>
  PROVE  /\ Tail(td) \in Seq(S) /\ Len(td) \in Nat /\ Len(td) > 0
         /\ Len(Tail(td)) = Len(td) - 1
         /\ \A j \in 1..Len(Tail(td)) : Tail(td)[j] = td[j + 1]
         /\ Tail(td) = <<>> <=> Len(td) = 1
<1>1. Len(td) \in Nat /\ Len(td) > 0 /\ Tail(td) \in Seq(S)
  OBVIOUS
<1>2. /\ Len(Tail(td)) = Len(td) - 1
      /\ \A j \in 1..(Len(td) - 1) : Tail(td)[j] = td[j + 1]
  BY <1>1
<1>3. Tail(td) = <<>> <=> Len(Tail(td)) = 0
  BY <1>1, EmptyIsShort
<1> QED BY <1>1, <1>2, <1>3

LEMMA ShapeEntered ==
  ASSUME NEW n \in Nat, NEW P, NEW B, NEW frs \in Seq(Addresses),
         NEW td \in Seq(FnProbes), td # <<>>, Shape(n, P, B, frs, td, "enter", 1),
         NEW h
  PROVE  /\ Tail(td) = <<>> => Shape(n, P, B, frs, Tail(td), "flat", h)
         /\ Shape(n, P, B, frs, Tail(td), "enter", 0)
<1> DEFINE rest == Tail(td)
           ps == ProbesAt[frs[Len(frs)]]
<1>1. /\ Len(td) \in Nat /\ Len(td) > 0 /\ Len(rest) = Len(td) - 1
      /\ \A j \in 1..Len(rest) : rest[j] = td[j + 1]
      /\ rest = <<>> <=> Len(td) = 1
  BY TailFacts
<1>2. EnterShape(n, B, frs, td, 1) /\ Len(frs) \in Nat
  BY DEF Shape
<1>3. B[Len(frs)] \in Nat
  BY <1>2 DEF Shape
<1>a. Len(ps) \in Nat
  BY <1>2, ProbesAssumption DEF EnterShape
<1> HIDE DEF rest
<1>4. n = B[Len(frs)] - Len(rest)
  BY <1>1, <1>2, <1>3 DEF EnterShape
<1>5. \A j \in 1..Len(rest) : rest[j] = ps[Len(ps) - Len(rest) + j]
  <2> SUFFICES ASSUME NEW j \in 1..Len(rest)
               PROVE  rest[j] = ps[Len(ps) - Len(rest) + j]
    OBVIOUS
  <2>1. j + 1 \in 1..Len(td) /\ rest[j] = td[j + 1]
    BY <1>1
  <2>2. td[j + 1] = ps[Len(ps) - Len(td) + (j + 1)]
    BY <1>2, <2>1 DEF EnterShape
  <2>a. /\ j \in Nat /\ Len(td) \in Nat /\ Len(td) > 0 /\ Len(rest) = Len(td) - 1
        /\ Len(td) <= Len(ps)
    BY <1>1, <1>2 DEF EnterShape
  <2>b. Len(ps) - Len(td) + (j + 1) = Len(ps) - (Len(td) - 1) + j
    <3>1. /\ j \in Nat /\ Len(ps) \in Nat /\ Len(td) \in Nat /\ Len(td) <= Len(ps)
          /\ 0 \in Nat
      BY <1>a, <2>a
    <3>2. PICK x \in Nat, y \in Nat, i \in Nat : x = Len(ps) /\ y = Len(td) /\ i = j
      BY <3>1
    <3>3. x - y + (i + 1) = x - (y - 1) + i
      BY ONLY x \in Nat, y \in Nat, i \in Nat
    <3> QED BY <3>2, <3>3
  <2>3. Len(ps) - Len(td) + (j + 1) = Len(ps) - Len(rest) + j
    BY <2>a, <2>b
  <2> QED BY <2>1, <2>2, <2>3
<1>6. EnterShape(n, B, frs, rest, 0)
  <2>1. Len(frs) > 0 /\ Len(rest) <= Len(ps)
    BY <1>1, <1>2, <1>a DEF EnterShape
  <2>2. n = B[Len(frs)] - Len(rest) + 0
    BY <1>1, <1>3, <1>4
  <2> QED BY <1>5, <2>1, <2>2 DEF EnterShape
<1>7. rest = <<>> => n = B[Len(frs)]
  <2>1. rest = <<>> => Len(rest) = 0
    BY <1>1
  <2> QED BY <1>3, <1>4, <2>1
<1> QED BY <1>6, <1>7 DEF Shape, rest

LEMMA ShapeTop ==
  ASSUME NEW n \in Nat, NEW P, NEW B, NEW frs \in Seq(Addresses),
         NEW td \in Seq(FnProbes), td # <<>>, Shape(n, P, B, frs, td, "leave", 0)
  PROVE  /\ n > 0 /\ P[n] = td[1]
         /\ Shape(n - 1, P, B, frs, td, "leave", 1)
<1> DEFINE b == B[Len(frs)]
<1>1. /\ Len(td) \in Nat /\ Len(td) > 0 /\ Len(frs) \in Nat
      /\ \A f \in 1..Len(frs) : frs[f] \in Addresses
  OBVIOUS
<1>2. b \in Nat /\ LeaveShape(n, P, B, frs, td, 0)
  BY <1>1 DEF Shape
<1>3. n = b + Len(td) /\ \A j \in 1..Len(td) : P[b + j] = td[Len(td) + 1 - j]
  BY <1>1, <1>2 DEF LeaveShape
<1>4. n > 0 /\ P[n] = td[1]
  <2>1. Len(td) \in 1..Len(td) /\ Len(td) + 1 - Len(td) = 1
    BY <1>1
  <2> QED BY <1>1, <1>2, <1>3, <2>1
<1>5. LeaveShape(n - 1, P, B, frs, td, 1)
  BY <1>1, <1>2, <1>3 DEF LeaveShape
<1>6. ASSUME NEW f \in 1..Len(frs) PROVE FrameOK(n - 1, P, B, frs, f)
  <2>1. FrameOK(n, P, B, frs, f) /\ ProbesAt[frs[f]] \in Seq(FnProbes)
    BY <1>1, ProbesAssumption DEF Shape
  <2>2. B[f - 1] \in Nat
    BY <1>1 DEF Shape
  <2> QED BY <2>1, <2>2 DEF FrameOK
<1> QED BY <1>4, <1>5, <1>6 DEF Shape

LEMMA ShapeLeft ==
  ASSUME NEW n \in Nat, NEW P, NEW B, NEW frs \in Seq(Addresses),
         NEW td \in Seq(FnProbes), td # <<>>, Shape(n, P, B, frs, td, "leave", 1),
         NEW h
  PROVE  /\ Tail(td) = <<>> => Shape(n, P, B, frs, Tail(td), "flat", h)
         /\ Shape(n, P, B, frs, Tail(td), "leave", 0)
<1> DEFINE rest == Tail(td)
           b == B[Len(frs)]
<1>1. /\ Len(td) \in Nat /\ Len(td) > 0 /\ Len(rest) = Len(td) - 1
      /\ \A j \in 1..Len(rest) : rest[j] = td[j + 1]
      /\ rest = <<>> <=> Len(td) = 1
  BY TailFacts
<1>2. LeaveShape(n, P, B, frs, td, 1) /\ b \in Nat
  BY DEF Shape
<1>3. n = b + Len(td) - 1 /\ \A j \in 1..(Len(td) - 1) : P[b + j] = td[Len(td) + 1 - j]
  BY <1>2 DEF LeaveShape
<1> HIDE DEF rest
<1>4. n = b + Len(rest)
  BY <1>1, <1>2, <1>3
<1>5. \A j \in 1..Len(rest) : P[b + j] = rest[Len(rest) + 1 - j]
  <2> SUFFICES ASSUME NEW j \in 1..Len(rest) PROVE P[b + j] = rest[Len(rest) + 1 - j]
    OBVIOUS
  <2>1. P[b + j] = td[Len(td) + 1 - j]
    BY <1>1, <1>3
  <2>2. /\ Len(rest) + 1 - j \in 1..Len(rest)
        /\ (Len(rest) + 1 - j) + 1 = Len(td) + 1 - j
    BY <1>1
  <2>3. rest[Len(rest) + 1 - j] = td[(Len(rest) + 1 - j) + 1]
    BY <1>1, <2>2
  <2> QED BY <2>1, <2>2, <2>3
<1>6. LeaveShape(n, P, B, frs, rest, 0)
  BY <1>1, <1>2, <1>4, <1>5 DEF LeaveShape
<1>7. rest = <<>> => n = b
  <2>1. rest = <<>> => Len(rest) = 0
    BY <1>1
  <2> QED BY <1>2, <1>4, <2>1
<1> QED BY <1>6, <1>7 DEF Shape, rest

LEMMA ShapeCall ==
  ASSUME NEW n \in Nat, NEW P, NEW B, NEW frs \in Seq(Addresses), NEW a \in Addresses,
         NEW td, NEW h, Shape(n, P, B, frs, td, "flat", h)
  PROVE  \E B2 : Shape(n, P, B2, Append(frs, a), ProbesAt[a], "enter", 0)
<1> DEFINE last == Len(frs)
           ps == ProbesAt[a]
           more == Append(frs, a)
           B2 == [f \in 0..(last + 1) |-> IF f <= last THEN B[f] ELSE B[last] + Len(ps)]
<1>1. /\ last \in Nat /\ Len(more) = last + 1 /\ more[last + 1] = a
      /\ \A f \in 1..last : more[f] = frs[f] /\ frs[f] \in Addresses
      /\ ps \in Seq(FnProbes) /\ Len(ps) \in Nat
  BY ProbesAssumption
<1>2. /\ \A f \in 0..last : B[f] \in Nat
      /\ \A f, g \in 0..last : f <= g => B[f] <= B[g]
      /\ \A f \in 1..last : FrameOK(n, P, B, frs, f)
      /\ n = B[last] /\ last \in 0..last
  BY <1>1 DEF Shape
<1>3. /\ \A f \in 0..last : B2[f] = B[f]
      /\ B2[last + 1] = B[last] + Len(ps)
  BY <1>1
<1> HIDE DEF B2, ps, more, last
<1>4. \A f \in 0..(last + 1) : f \in 0..last \/ f = last + 1
  BY <1>1
<1>5. \A f \in 0..(last + 1) : B2[f] \in Nat
  BY <1>1, <1>2, <1>3, <1>4
<1>6. ASSUME NEW f \in 0..(last + 1), NEW g \in 0..(last + 1), f <= g
      PROVE  B2[f] <= B2[g]
  <2>1. CASE g = last + 1
    <3>1. ASSUME f \in 0..last PROVE B[f] <= B[last] /\ B[f] \in Nat /\ B[last] \in Nat
      BY <1>1, <1>2, <3>1
    <3>2. CASE f \in 0..last
      <4>1. B2[f] = B[f] /\ B2[g] = B[last] + Len(ps)
        BY <1>3, <2>1, <3>2
      <4> QED BY <1>1, <3>1, <3>2, <4>1
    <3>3. CASE f = last + 1
      <4>1. B2[f] = B2[g] /\ B2[g] \in Nat
        BY <1>5, <2>1, <3>3
      <4> QED BY <4>1
    <3> QED BY <1>4, <3>2, <3>3
  <2>2. CASE g \in 0..last
    <3>1. f \in 0..last
      BY <1>1, <1>6, <2>2
    <3> QED BY <1>2, <1>3, <1>6, <2>2, <3>1
  <2> QED BY <1>4, <2>1, <2>2
<1>7. ASSUME NEW f \in 1..(last + 1) PROVE FrameOK(n, P, B2, more, f)
  <2>1. CASE f = last + 1
    <3>0. f - 1 = last /\ B2[last] = B[last]
      BY <1>1, <1>2, <1>3, <2>1
    <3>1. f - 1 = last /\ B2[f - 1] = B[last] /\ more[f] = a
      BY <1>1, <2>1, <3>0
    <3>2. \A j \in 1..Len(ps) : ~(B2[f - 1] + j <= n)
      BY <1>1, <1>2, <3>1
    <3> QED BY <1>3, <2>1, <3>1, <3>2 DEF FrameOK, ps
  <2>2. CASE f \in 1..last
    <3>1. f \in 0..last /\ f - 1 \in 0..last
      BY <1>1, <2>2
    <3>2. B2[f] = B[f] /\ B2[f - 1] = B[f - 1] /\ more[f] = frs[f] /\ FrameOK(n, P, B, frs, f)
      BY <1>1, <1>2, <1>3, <2>2, <3>1
    <3> QED BY <3>2 DEF FrameOK
  <2> QED BY <1>1, <2>1, <2>2
<1>8. EnterShape(n, B2, more, ps, 0)
  <2>1. n = B2[last + 1] - Len(ps) + 0
    BY <1>1, <1>2, <1>3
  <2>2. \A j \in 1..Len(ps) : ps[j] = ps[Len(ps) - Len(ps) + j]
    BY <1>1
  <2> QED BY <1>1, <2>1, <2>2 DEF EnterShape, ps
<1>9. Shape(n, P, B2, more, ps, "enter", 0)
  BY <1>1, <1>5, <1>6, <1>7, <1>8 DEF Shape
<1> QED BY <1>9 DEF more, ps

LEMMA ShapeReturn ==
  ASSUME NEW n \in Nat, NEW P, NEW B, NEW frs \in Seq(Addresses), frs # <<>>,
         NEW td, NEW h, Shape(n, P, B, frs, td, "flat", h)
  PROVE  Shape(n, P, B, Front(frs), Reverse(ProbesAt[Last(frs)]), "leave", 0)
<1> DEFINE last == Len(frs)
           ps == ProbesAt[Last(frs)]
           rev == Reverse(ps)
           less == Front(frs)
<1>b. /\ last \in Nat /\ last > 0 /\ Last(frs) = frs[last]
      /\ \A f \in 1..last : frs[f] \in Addresses
  BY DEF Last
<1>c. Len(less) = last - 1 /\ \A f \in 1..(last - 1) : less[f] = frs[f]
  BY FrontFacts
<1>1. /\ last \in Nat /\ last > 0 /\ Last(frs) = frs[last] /\ Len(less) = last - 1
      /\ \A f \in 1..(last - 1) : less[f] = frs[f]
      /\ \A f \in 1..last : frs[f] \in Addresses
  BY <1>b, <1>c
<1>a. ps \in Seq(FnProbes) /\ Len(ps) \in Nat
  BY <1>1, ProbesAssumption
<1>2. Len(rev) = Len(ps) /\ \A j \in 1..Len(ps) : rev[j] = ps[Len(ps) - j + 1]
  BY <1>a DEF Reverse
<1>3. /\ \A f \in 0..last : B[f] \in Nat
      /\ \A f, g \in 0..last : f <= g => B[f] <= B[g]
      /\ \A f \in 1..last : FrameOK(n, P, B, frs, f)
      /\ n = B[last]
  BY DEF Shape
<1> HIDE DEF ps, rev, less
<1>4. /\ B[last] = B[last - 1] + Len(ps) /\ B[last - 1] \in Nat
      /\ \A j \in 1..Len(ps) : B[last - 1] + j <= n => P[B[last - 1] + j] = ps[j]
  BY <1>1, <1>3 DEF FrameOK, ps
<1>5. n = B[last - 1] + Len(rev) - 0
  BY <1>2, <1>3, <1>4, <1>a
<1>6. \A j \in 1..(Len(rev) - 0) : P[B[last - 1] + j] = rev[Len(rev) + 1 - j]
  <2> SUFFICES ASSUME NEW j \in 1..Len(ps) PROVE P[B[last - 1] + j] = rev[Len(ps) + 1 - j]
    BY <1>2, <1>a
  <2>1. P[B[last - 1] + j] = ps[j]
    BY <1>3, <1>4, <1>a
  <2>2. Len(ps) + 1 - j \in 1..Len(ps) /\ Len(ps) - (Len(ps) + 1 - j) + 1 = j
    BY <1>a
  <2> QED BY <1>2, <2>1, <2>2
<1>7. LeaveShape(n, P, B, less, rev, 0)
  BY <1>1, <1>5, <1>6 DEF LeaveShape
<1>8. ASSUME NEW f \in 1..Len(less) PROVE FrameOK(n, P, B, less, f)
  <2>1. FrameOK(n, P, B, frs, f) /\ less[f] = frs[f]
    BY <1>1, <1>3
  <2> QED BY <2>1 DEF FrameOK
<1>9. /\ \A f \in 0..Len(less) : B[f] \in Nat
      /\ \A f, g \in 0..Len(less) : f <= g => B[f] <= B[g]
  BY <1>1, <1>3
<1>10. Shape(n, P, B, less, rev, "leave", 0)
  BY <1>7, <1>8, <1>9 DEF Shape
<1> QED BY <1>10 DEF less, rev, ps

-----------------------------------------------------------------------------
(* What the log says of the calls on the stacks.  OnStack: the counted     *)
(* calls a thread is inside of.  Each of them is open in the log of the    *)
(* thread, and the other way round, but for the event in hand.             *)

OnStack(n, P, M, stacks, t) ==
  {v \in Nat \ {Skipped} : \E k \in 1..n : IdAt(P, M, stacks, t, k) = v}

Grown(new, old, id) ==
  (id = Skipped => new = old) /\ (id # Skipped => new = old \cup {id})
Newest(ids, id) == id \in ids /\ \A v \in ids : v = id \/ v < id
Shrunk(new, old, id) ==
  (id = Skipped => new = old) /\ (id # Skipped => new = old \ {id} /\ Newest(old, id))

LEMMA OnStackPush ==
  ASSUME NEW A, NEW B, NEW t, NEW n \in Nat, NEW P, NEW M, NEW P2, NEW M2, NEW id \in Nat,
         Kept(n, P, M, A, P2, M2, B, t), TopIs(n + 1, P2, M2, B, t, id)
  PROVE  Grown(OnStack(n + 1, P2, M2, B, t), OnStack(n, P, M, A, t), id)
<1> DEFINE old(k) == IdAt(P, M, A, t, k)
           new(k) == IdAt(P2, M2, B, t, k)
<1>1. (\A k \in 1..n : new(k) = old(k)) /\ new(n + 1) = id
  BY DEF Kept, TopIs
<1> HIDE DEF old, new
<1>2. \A k : k \in 1..(n + 1) <=> k \in 1..n \/ k = n + 1
  OBVIOUS
<1>3. \A v : (\E k \in 1..(n + 1) : new(k) = v) <=> (\E k \in 1..n : old(k) = v) \/ v = id
  BY <1>1, <1>2
<1> QED BY <1>3 DEF Grown, OnStack, old, new

LEMMA OnStackPop ==
  ASSUME NEW A, NEW B, NEW t, NEW n \in Nat, n > 0, NEW P, NEW M, NEW c \in Nat,
         Rising(n, P, M, A, t, c),
         Kept(n - 1, P, M, A, P, M, B, t), NEW id, TopIs(n, P, M, A, t, id)
  PROVE  Shrunk(OnStack(n - 1, P, M, B, t), OnStack(n, P, M, A, t), id)
<1> DEFINE old(k) == IdAt(P, M, A, t, k)
           new(k) == IdAt(P, M, B, t, k)
<1>1. /\ \A k \in 1..n : old(k) \in 0..c
      /\ \A k, l \in 1..n : k < l /\ old(k) # Skipped /\ old(l) # Skipped => old(k) < old(l)
      /\ \A k \in 1..(n - 1) : new(k) = old(k)
      /\ id = old(n)
  BY DEF Rising, Kept, TopIs
<1> HIDE DEF old, new
<1>2. /\ \A k : k \in 1..n <=> k \in 1..(n - 1) \/ k = n
      /\ \A k \in 1..(n - 1) : k < n
      /\ n \in 1..n
  OBVIOUS
<1>3. \A v : (\E k \in 1..n : old(k) = v) <=> (\E k \in 1..(n - 1) : new(k) = v) \/ v = id
  BY <1>1, <1>2
<1>4. ASSUME id # Skipped, NEW k \in 1..(n - 1), new(k) # Skipped
      PROVE  new(k) # id /\ new(k) < id
  <2>1. new(k) = old(k) /\ k \in 1..n /\ k < n
    BY <1>1, <1>2
  <2>2. old(k) < old(n) /\ old(k) \in Nat /\ old(n) \in Nat
    BY <1>1, <1>2, <1>4, <2>1
  <2> QED BY <1>1, <2>1, <2>2
<1>5. id \in Nat
  BY <1>1, <1>2
<1>6. id = Skipped => OnStack(n - 1, P, M, B, t) = OnStack(n, P, M, A, t)
  BY <1>3 DEF OnStack, old, new
<1>7. ASSUME id # Skipped
      PROVE  /\ OnStack(n - 1, P, M, B, t) = OnStack(n, P, M, A, t) \ {id}
             /\ Newest(OnStack(n, P, M, A, t), id)
  <2>1. ASSUME NEW v \in Nat \ {Skipped}
        PROVE  (\E k \in 1..(n - 1) : new(k) = v) <=> (\E k \in 1..n : old(k) = v) /\ v # id
    BY <1>3, <1>4, <1>7
  <2>2. OnStack(n - 1, P, M, B, t) = OnStack(n, P, M, A, t) \ {id}
    BY <2>1 DEF OnStack, old, new
  <2>3. id \in OnStack(n, P, M, A, t)
    BY <1>3, <1>5, <1>7 DEF OnStack, old
  <2>4. ASSUME NEW v \in OnStack(n, P, M, A, t) PROVE v = id \/ v < id
    <3>1. v # Skipped /\ \E k \in 1..n : old(k) = v
      BY DEF OnStack, old
    <3>2. v = id \/ \E k \in 1..(n - 1) : new(k) = v
      BY <1>3, <3>1
    <3> QED BY <1>4, <1>7, <3>1, <3>2
  <2> QED BY <2>2, <2>3, <2>4 DEF Newest
<1> QED BY <1>6, <1>7 DEF Shrunk

Listed(ids, L, hand, id) ==
  /\ \A v \in ids : OpenIn(L, v) \/ (hand = "enter" /\ v = id)
  /\ \A i \in Enters(L) : ~HasLeave(L, i) =>
       L[i].id \in ids \/ (hand = "leave" /\ L[i].id = id)
  /\ hand = "enter" => id \in ids
  /\ hand = "leave" => id \notin ids

InHandOK(L, c, hand, id) ==
  /\ hand = "enter" => id \in 1..c /\ \A i \in Enters(L) : L[i].id < id
  /\ hand = "leave" => LastOpen(L, id)

Idle(hand) == hand \notin {"enter", "leave"}

LEMMA ListedIdle ==
  ASSUME NEW ids, NEW L, NEW hand, NEW id, Listed(ids, L, hand, id), Idle(hand),
         NEW other, NEW any, Idle(other)
  PROVE  Listed(ids, L, other, any)
BY DEF Listed, Idle

LEMMA ListedEntering ==
  ASSUME NEW ids, NEW L, NEW t, NEW c \in Nat, LogOK(L, t, c),
         NEW hand, NEW id, Listed(ids, L, hand, id), Idle(hand)
  PROVE  /\ Listed(ids \cup {c + 1}, L, "enter", c + 1)
         /\ InHandOK(L, c + 1, "enter", c + 1)
<1>1. Listed(ids \cup {c + 1}, L, "enter", c + 1)
  BY DEF Listed, Idle
<1>2. \A i \in Enters(L) : L[i].id < c + 1
  BY DEF LogOK
<1> QED BY <1>1, <1>2 DEF InHandOK

LEMMA ListedLeaving ==
  ASSUME NEW ids \in SUBSET Nat, NEW L, NEW t, NEW c \in Nat, LogOK(L, t, c),
         NEW hand, NEW any, Listed(ids, L, hand, any), Idle(hand),
         NEW id, Newest(ids, id)
  PROVE  /\ Listed(ids \ {id}, L, "leave", id)
         /\ InHandOK(L, c, "leave", id)
<1>1. Listed(ids \ {id}, L, "leave", id)
  BY DEF Listed, Idle, Newest
<1>2. PICK i \in Enters(L) : L[i].id = id /\ ~HasLeave(L, i)
  BY DEF Listed, Idle, OpenIn, Newest
<1>3. ASSUME NEW k \in Enters(L), i < k, ~HasLeave(L, k) PROVE FALSE
  <2>1. L[k].id \in ids
    BY <1>3 DEF Listed, Idle
  <2>2. L[i].id < L[k].id /\ L[i].id \in Nat /\ L[k].id \in Nat
    BY <1>3 DEF LogOK
  <2> QED BY <1>2, <2>1, <2>2 DEF Newest
<1>4. LastOpen(L, id)
  BY <1>2, <1>3 DEF LastOpen
<1> QED BY <1>1, <1>4 DEF InHandOK

(* The event in hand is logged.                                            *)
LEMMA ListedLogged ==
  ASSUME NEW ids, NEW L, NEW t, NEW c \in Nat, LogOK(L, t, c),
         NEW e \in AgentEvents, e.tid = t,
         Listed(ids, L, e.phase, e.id), InHandOK(L, c, e.phase, e.id),
         NEW hand, NEW any, Idle(hand)
  PROVE  LogOK(Append(L, e), t, c) /\ Listed(ids, Append(L, e), hand, any)
<1> DEFINE K == Append(L, e)
           new == Len(L) + 1
<1>0. e.phase \in {"enter", "leave", "instruction"}
  BY DEF AgentEvents, EventSet, Phases
<1>1. CASE e.phase = "enter"
  <2>1. e.id \in 1..c /\ \A i \in Enters(L) : L[i].id < e.id
    BY <1>1 DEF InHandOK
  <2>2. /\ LogOK(K, t, c)
        /\ \A i \in Enters(L) : HasLeave(K, i) <=> HasLeave(L, i)
        /\ Enters(K) = Enters(L) \cup {new}
        /\ \A i \in Enters(L) : K[i] = L[i]
        /\ K[new] = e /\ ~HasLeave(K, new)
    <3>1. LogOK(K, t, c) /\ K[new] = e /\ ~HasLeave(K, new)
      BY <1>1, <2>1, LogEnter
    <3>2. \A i \in Enters(L) : HasLeave(K, i) <=> HasLeave(L, i)
      BY <1>1, <2>1, LogEnter
    <3>3. Enters(K) = Enters(L) \cup {new} /\ \A i \in Enters(L) : K[i] = L[i]
      BY <1>1, <2>1, LogEnter
    <3> QED BY <3>1, <3>2, <3>3
  <2> HIDE DEF K, new
  <2>3. \A v : OpenIn(L, v) => OpenIn(K, v)
    BY <2>2 DEF OpenIn
  <2>4. OpenIn(K, e.id)
    BY <2>2 DEF OpenIn
  <2>5. Listed(ids, K, hand, any)
    BY <1>1, <2>2, <2>3, <2>4 DEF Listed, Idle
  <2> QED BY <2>2, <2>5 DEF K
<1>2. CASE e.phase = "leave"
  <2>1. LastOpen(L, e.id)
    BY <1>2 DEF InHandOK
  <2>2. /\ LogOK(K, t, c)
        /\ \A i \in Enters(L) : HasLeave(K, i) <=> HasLeave(L, i) \/ L[i].id = e.id
        /\ Enters(K) = Enters(L)
        /\ \A i \in Enters(L) : K[i] = L[i]
    BY <1>2, <2>1, LogLeave
  <2> HIDE DEF K, new
  <2>3. \A v : OpenIn(L, v) /\ v # e.id => OpenIn(K, v)
    BY <2>2 DEF OpenIn
  <2>5. Listed(ids, K, hand, any)
    BY <1>2, <2>2, <2>3 DEF Listed, Idle
  <2> QED BY <2>2, <2>5 DEF K
<1>3. CASE e.phase = "instruction"
  <2>2. /\ LogOK(K, t, c)
        /\ \A i \in Enters(L) : HasLeave(K, i) <=> HasLeave(L, i)
        /\ Enters(K) = Enters(L)
        /\ \A i \in Enters(L) : K[i] = L[i]
    <3>1. LogOK(K, t, c)
      BY <1>3, LogInstruction
    <3>2. \A i \in Enters(L) : HasLeave(K, i) <=> HasLeave(L, i)
      BY <1>3, LogInstruction
    <3>3. Enters(K) = Enters(L)
      BY <1>3, LogInstruction
    <3>4. \A i \in Enters(L) : K[i] = L[i]
      BY AppendedLog DEF LogOK
    <3> QED BY <3>1, <3>2, <3>3, <3>4
  <2> HIDE DEF K, new
  <2>3. \A v : OpenIn(L, v) => OpenIn(K, v)
    BY <2>2 DEF OpenIn
  <2>5. Listed(ids, K, hand, any)
    BY <1>3, <2>2, <2>3 DEF Listed, Idle
  <2> QED BY <2>2, <2>5 DEF K
<1> QED BY <1>0, <1>1, <1>2, <1>3

-----------------------------------------------------------------------------
(* All of it for one thread: n, P and M merge its stacks, B follows its    *)
(* frames.                                                                 *)

NestAt(n, P, M, B, S, c, t, frs, td, ph, h, L, hand, id) ==
  /\ Merges(n, P, M, S, t) /\ Rising(n, P, M, S, t, c)
  /\ Shape(n, P, B, frs, td, ph, h)
  /\ Listed(OnStack(n, P, M, S, t), L, hand, id)
  /\ LogOK(L, t, c) /\ InHandOK(L, c, hand, id)

Nesting(S, c, t, frs, td, ph, h, L, hand, id) ==
  \E n, P, M, B : NestAt(n, P, M, B, S, c, t, frs, td, ph, h, L, hand, id)

LEMMA IdleInHand ==
  ASSUME NEW hand, Idle(hand), NEW L, NEW c, NEW id PROVE InHandOK(L, c, hand, id)
BY DEF Idle, InHandOK

LEMMA LogLater ==
  ASSUME NEW L, NEW t, NEW c \in Nat, NEW d \in Nat, c <= d, LogOK(L, t, c)
  PROVE  LogOK(L, t, d)
<1>1. \A i \in Enters(L) : L[i].id \in 1..d
  BY DEF LogOK
<1> QED BY <1>1 DEF LogOK

LEMMA NestPush ==
  ASSUME NEW S \in Stacks, NEW S2 \in Stacks, NEW p \in FnProbes, NEW t \in Threads,
         NEW id \in Nat, Changed(S, S2, p, t, Append(S[p][t], id)),
         NEW c \in Nat, NEW frs \in Seq(Addresses),
         NEW td \in Seq(FnProbes), td # <<>>, td[1] = p,
         NEW L, NEW hand, NEW any, Idle(hand),
         Nesting(S, c, t, frs, td, "enter", 0, L, hand, any)
  PROVE  /\ id = Skipped => Nesting(S2, c, t, frs, td, "enter", 1, L, "none", 0)
         /\ id = c + 1 => Nesting(S2, c + 1, t, frs, td, "enter", 1, L, "enter", c + 1)
<1>1. PICK n, P, M, B : NestAt(n, P, M, B, S, c, t, frs, td, "enter", 0, L, hand, any)
  BY DEF Nesting
<1> DEFINE P2 == [k \in 1..(n + 1) |-> IF k <= n THEN P[k] ELSE p]
           M2 == [k \in 1..(n + 1) |-> IF k <= n THEN M[k] ELSE Len(S[p][t]) + 1]
<1>2. /\ n \in Nat /\ Merges(n, P, M, S, t) /\ Rising(n, P, M, S, t, c)
      /\ Shape(n, P, B, frs, td, "enter", 0)
      /\ Listed(OnStack(n, P, M, S, t), L, hand, any) /\ LogOK(L, t, c)
  BY <1>1 DEF NestAt, Merges
<1>3. Extended(n, P, M, P2, M2, p, Len(S[p][t]) + 1)
  BY <1>2 DEF Extended
<1> HIDE DEF P2, M2
<1>4. /\ Merges(n + 1, P2, M2, S2, t)
      /\ Kept(n, P, M, S, P2, M2, S2, t) /\ TopIs(n + 1, P2, M2, S2, t, id)
  BY <1>2, <1>3, MergePush
<1>5. Shape(n + 1, P2, B, frs, td, "enter", 1)
  <2>1. (\A k \in 1..n : P2[k] = P[k]) /\ P2[n + 1] = td[1]
    BY <1>3 DEF Extended
  <2> QED BY <1>2, <2>1, ShapePush
<1>6. Grown(OnStack(n + 1, P2, M2, S2, t), OnStack(n, P, M, S, t), id)
  BY <1>2, <1>4, OnStackPush
<1>7. ASSUME id = Skipped PROVE Nesting(S2, c, t, frs, td, "enter", 1, L, "none", 0)
  <2>1. Rising(n + 1, P2, M2, S2, t, c)
    BY <1>2, <1>4, <1>7, RisingPush
  <2>2. OnStack(n + 1, P2, M2, S2, t) = OnStack(n, P, M, S, t)
    BY <1>6, <1>7 DEF Grown
  <2>3. Idle("none")
    BY DEF Idle
  <2>4. Listed(OnStack(n + 1, P2, M2, S2, t), L, "none", 0) /\ InHandOK(L, c, "none", 0)
    BY <1>2, <2>2, <2>3, ListedIdle, IdleInHand
  <2>5. NestAt(n + 1, P2, M2, B, S2, c, t, frs, td, "enter", 1, L, "none", 0)
    BY <1>2, <1>4, <1>5, <2>1, <2>4 DEF NestAt
  <2> QED BY <2>5 DEF Nesting
<1>8. ASSUME id = c + 1
      PROVE  Nesting(S2, c + 1, t, frs, td, "enter", 1, L, "enter", c + 1)
  <2>0. c + 1 \in Nat /\ c <= c + 1 /\ id \in (c + 1)..(c + 1) /\ id # Skipped
    BY <1>8 DEF Skipped
  <2>1. Rising(n + 1, P2, M2, S2, t, c + 1)
    BY <1>2, <1>4, <2>0, RisingPush
  <2>2. OnStack(n + 1, P2, M2, S2, t) = OnStack(n, P, M, S, t) \cup {c + 1}
    BY <1>6, <1>8, <2>0 DEF Grown
  <2>3. /\ Listed(OnStack(n + 1, P2, M2, S2, t), L, "enter", c + 1)
        /\ InHandOK(L, c + 1, "enter", c + 1)
    <3>1. PICK ids \in SUBSET Nat : ids = OnStack(n, P, M, S, t)
      BY DEF OnStack
    <3>2. Listed(ids, L, hand, any) /\ LogOK(L, t, c)
      BY <1>2, <3>1
    <3>3. Listed(ids \cup {c + 1}, L, "enter", c + 1) /\ InHandOK(L, c + 1, "enter", c + 1)
      BY <3>2, ListedEntering
    <3> QED BY <2>2, <3>1, <3>3
  <2>4. LogOK(L, t, c + 1)
    BY <1>2, <2>0, LogLater
  <2>5. NestAt(n + 1, P2, M2, B, S2, c + 1, t, frs, td, "enter", 1, L, "enter", c + 1)
    BY <1>4, <1>5, <2>1, <2>3, <2>4 DEF NestAt
  <2> QED BY <2>5 DEF Nesting
<1> QED BY <1>7, <1>8

LEMMA NestPop ==
  ASSUME NEW S \in Stacks, NEW S2 \in Stacks, NEW p \in FnProbes, NEW t \in Threads,
         Changed(S, S2, p, t, Front(S[p][t])),
         NEW c \in Nat, NEW frs \in Seq(Addresses),
         NEW td \in Seq(FnProbes), td # <<>>, td[1] = p,
         NEW L, NEW hand, NEW any, Idle(hand), NEW id, id = Last(S[p][t]),
         Nesting(S, c, t, frs, td, "leave", 0, L, hand, any)
  PROVE  /\ id = Skipped => Nesting(S2, c, t, frs, td, "leave", 1, L, "none", 0)
         /\ id # Skipped => Nesting(S2, c, t, frs, td, "leave", 1, L, "leave", id)
<1>1. PICK n, P, M, B : NestAt(n, P, M, B, S, c, t, frs, td, "leave", 0, L, hand, any)
  BY DEF Nesting
<1>2. /\ n \in Nat /\ Merges(n, P, M, S, t) /\ Rising(n, P, M, S, t, c)
      /\ Shape(n, P, B, frs, td, "leave", 0)
      /\ Listed(OnStack(n, P, M, S, t), L, hand, any) /\ LogOK(L, t, c)
  BY <1>1 DEF NestAt, Merges
<1>3. n > 0 /\ P[n] = p /\ Shape(n - 1, P, B, frs, td, "leave", 1)
  BY <1>2, ShapeTop
<1>4. /\ TopIs(n, P, M, S, t, id)
      /\ Merges(n - 1, P, M, S2, t)
      /\ Kept(n - 1, P, M, S, P, M, S2, t)
  BY <1>2, <1>3, MergePop
<1>5. Rising(n - 1, P, M, S2, t, c)
  BY <1>2, <1>3, <1>4, RisingPop
<1>6. Shrunk(OnStack(n - 1, P, M, S2, t), OnStack(n, P, M, S, t), id)
  BY <1>2, <1>3, <1>4, OnStackPop
<1>7. ASSUME id = Skipped PROVE Nesting(S2, c, t, frs, td, "leave", 1, L, "none", 0)
  <2>1. Idle("none")
    BY DEF Idle
  <2>2. Listed(OnStack(n - 1, P, M, S2, t), L, "none", 0) /\ InHandOK(L, c, "none", 0)
    BY <1>2, <1>6, <1>7, <2>1, ListedIdle, IdleInHand DEF Shrunk
  <2>3. NestAt(n - 1, P, M, B, S2, c, t, frs, td, "leave", 1, L, "none", 0)
    BY <1>2, <1>3, <1>4, <1>5, <2>2 DEF NestAt
  <2> QED BY <2>3 DEF Nesting
<1>8. ASSUME id # Skipped PROVE Nesting(S2, c, t, frs, td, "leave", 1, L, "leave", id)
  <2>1. OnStack(n, P, M, S, t) \in SUBSET Nat
    BY DEF OnStack
  <2>2. /\ Listed(OnStack(n - 1, P, M, S2, t), L, "leave", id)
        /\ InHandOK(L, c, "leave", id)
    <3>0. PICK ids \in SUBSET Nat : ids = OnStack(n, P, M, S, t)
      BY <2>1
    <3>1. PICK less : ids = OnStack(n, P, M, S, t) /\ less = OnStack(n - 1, P, M, S2, t)
      BY <3>0
    <3>2. less = ids \ {id} /\ Newest(ids, id)
      BY <1>6, <1>8, <3>1 DEF Shrunk
    <3>3. Listed(ids, L, hand, any) /\ LogOK(L, t, c)
      BY <1>2, <3>1
    <3>4. Listed(ids \ {id}, L, "leave", id) /\ InHandOK(L, c, "leave", id)
      BY <3>2, <3>3, ListedLeaving
    <3> QED BY <3>1, <3>2, <3>4
  <2>3. NestAt(n - 1, P, M, B, S2, c, t, frs, td, "leave", 1, L, "leave", id)
    BY <1>2, <1>3, <1>4, <1>5, <2>2 DEF NestAt
  <2> QED BY <2>3 DEF Nesting
<1> QED BY <1>7, <1>8

(* The callback of the probe at the head of todo is over.                  *)
LEMMA NestOver ==
  ASSUME NEW S, NEW c, NEW t, NEW frs \in Seq(Addresses),
         NEW td \in Seq(FnProbes), td # <<>>, NEW ph \in {"enter", "leave"},
         NEW L, NEW hand, NEW id, Idle(hand),
         Nesting(S, c, t, frs, td, ph, 1, L, hand, id)
  PROVE  Nesting(S, c, t, frs, Tail(td), IF Tail(td) = <<>> THEN "flat" ELSE ph, 0,
                 L, "none", 0)
<1> DEFINE next == IF Tail(td) = <<>> THEN "flat" ELSE ph
<1>1. PICK n, P, M, B : NestAt(n, P, M, B, S, c, t, frs, td, ph, 1, L, hand, id)
  BY DEF Nesting
<1>2. /\ n \in Nat /\ Merges(n, P, M, S, t) /\ Rising(n, P, M, S, t, c)
      /\ Shape(n, P, B, frs, td, ph, 1)
      /\ Listed(OnStack(n, P, M, S, t), L, hand, id) /\ LogOK(L, t, c)
  BY <1>1 DEF NestAt, Merges
<1>3. /\ Tail(td) = <<>> => Shape(n, P, B, frs, Tail(td), "flat", 0)
      /\ Shape(n, P, B, frs, Tail(td), ph, 0)
  <2>1. CASE ph = "enter"
    BY <1>2, <2>1, ShapeEntered
  <2>2. CASE ph = "leave"
    BY <1>2, <2>2, ShapeLeft
  <2> QED BY <2>1, <2>2
<1>4. Shape(n, P, B, frs, Tail(td), next, 0)
  BY <1>3
<1>5. Idle("none")
  BY DEF Idle
<1>6. Listed(OnStack(n, P, M, S, t), L, "none", 0) /\ InHandOK(L, c, "none", 0)
  BY <1>2, <1>5, ListedIdle, IdleInHand
<1> HIDE DEF next
<1>7. NestAt(n, P, M, B, S, c, t, frs, Tail(td), next, 0, L, "none", 0)
  BY <1>2, <1>4, <1>6 DEF NestAt
<1>8. Nesting(S, c, t, frs, Tail(td), next, 0, L, "none", 0)
  BY <1>7 DEF Nesting
<1> QED BY <1>8 DEF next

LEMMA NestLogged ==
  ASSUME NEW S, NEW c \in Nat, NEW t, NEW frs, NEW td, NEW ph, NEW h, NEW L,
         NEW e \in AgentEvents, e.tid = t,
         Nesting(S, c, t, frs, td, ph, h, L, e.phase, e.id)
  PROVE  Nesting(S, c, t, frs, td, ph, h, Append(L, e), "none", 0)
<1>1. PICK n, P, M, B : NestAt(n, P, M, B, S, c, t, frs, td, ph, h, L, e.phase, e.id)
  BY DEF Nesting
<1>2. Idle("none")
  BY DEF Idle
<1>3. /\ LogOK(Append(L, e), t, c)
      /\ Listed(OnStack(n, P, M, S, t), Append(L, e), "none", 0)
  BY <1>1, <1>2, ListedLogged DEF NestAt
<1>4. InHandOK(Append(L, e), c, "none", 0)
  BY <1>2, IdleInHand
<1>5. NestAt(n, P, M, B, S, c, t, frs, td, ph, h, Append(L, e), "none", 0)
  BY <1>1, <1>3, <1>4 DEF NestAt
<1> QED BY <1>5 DEF Nesting

LEMMA NestCall ==
  ASSUME NEW S, NEW c, NEW t, NEW frs \in Seq(Addresses), NEW a \in Addresses,
         NEW td, NEW h, NEW L, NEW hand, NEW id, Idle(hand),
         Nesting(S, c, t, frs, td, "flat", h, L, hand, id)
  PROVE  Nesting(S, c, t, Append(frs, a), ProbesAt[a], "enter", 0, L, "none", 0)
<1>1. PICK n, P, M, B : NestAt(n, P, M, B, S, c, t, frs, td, "flat", h, L, hand, id)
  BY DEF Nesting
<1>2. n \in Nat /\ Shape(n, P, B, frs, td, "flat", h)
  BY <1>1 DEF NestAt, Merges
<1>3. PICK B2 : Shape(n, P, B2, Append(frs, a), ProbesAt[a], "enter", 0)
  BY <1>2, ShapeCall
<1>4. Idle("none")
  BY DEF Idle
<1>5. Listed(OnStack(n, P, M, S, t), L, "none", 0) /\ InHandOK(L, c, "none", 0)
  BY <1>1, <1>4, ListedIdle, IdleInHand DEF NestAt
<1>6. NestAt(n, P, M, B2, S, c, t, Append(frs, a), ProbesAt[a], "enter", 0, L, "none", 0)
  BY <1>1, <1>3, <1>5 DEF NestAt
<1> QED BY <1>6 DEF Nesting

LEMMA NestReturn ==
  ASSUME NEW S, NEW c, NEW t, NEW frs \in Seq(Addresses), frs # <<>>,
         NEW td, NEW h, NEW L, NEW hand, NEW id, Idle(hand),
         Nesting(S, c, t, frs, td, "flat", h, L, hand, id)
  PROVE  Nesting(S, c, t, Front(frs), Reverse(ProbesAt[Last(frs)]), "leave", 0,
                 L, "none", 0)
<1>1. PICK n, P, M, B : NestAt(n, P, M, B, S, c, t, frs, td, "flat", h, L, hand, id)
  BY DEF Nesting
<1>2. n \in Nat /\ Shape(n, P, B, frs, td, "flat", h)
  BY <1>1 DEF NestAt, Merges
<1>3. Shape(n, P, B, Front(frs), Reverse(ProbesAt[Last(frs)]), "leave", 0)
  BY <1>2, ShapeReturn
<1>4. Idle("none")
  BY DEF Idle
<1>5. Listed(OnStack(n, P, M, S, t), L, "none", 0) /\ InHandOK(L, c, "none", 0)
  BY <1>1, <1>4, ListedIdle, IdleInHand DEF NestAt
<1>6. NestAt(n, P, M, B, S, c, t, Front(frs), Reverse(ProbesAt[Last(frs)]), "leave", 0,
             L, "none", 0)
  BY <1>1, <1>3, <1>5 DEF NestAt
<1> QED BY <1>6 DEF Nesting

(* A hit of an instruction probe, from its listener to its return.         *)
LEMMA NestFlat ==
  ASSUME NEW S, NEW c, NEW t, NEW frs, NEW td, NEW h, NEW L, NEW hand, NEW id, Idle(hand),
         Nesting(S, c, t, frs, td, "flat", h, L, hand, id),
         NEW td2, NEW h2, NEW other, NEW any, Idle(other)
  PROVE  Nesting(S, c, t, frs, td2, "flat", h2, L, other, any)
<1>1. PICK n, P, M, B : NestAt(n, P, M, B, S, c, t, frs, td, "flat", h, L, hand, id)
  BY DEF Nesting
<1>2. Shape(n, P, B, frs, td2, "flat", h2)
  BY <1>1 DEF NestAt, Shape
<1>3. Listed(OnStack(n, P, M, S, t), L, other, any) /\ InHandOK(L, c, other, any)
  BY <1>1, ListedIdle, IdleInHand DEF NestAt
<1>4. NestAt(n, P, M, B, S, c, t, frs, td2, "flat", h2, L, other, any)
  BY <1>1, <1>2, <1>3 DEF NestAt
<1> QED BY <1>4 DEF Nesting

(* What other threads push, pop and count.                                 *)
LEMMA NestOthers ==
  ASSUME NEW S, NEW S2, NEW c \in Nat, NEW d \in Nat, c <= d, NEW t,
         \A p \in FnProbes : S2[p][t] = S[p][t],
         NEW frs, NEW td, NEW ph, NEW h, NEW L, NEW hand, NEW id,
         Nesting(S, c, t, frs, td, ph, h, L, hand, id)
  PROVE  Nesting(S2, d, t, frs, td, ph, h, L, hand, id)
<1>1. PICK n, P, M, B : NestAt(n, P, M, B, S, c, t, frs, td, ph, h, L, hand, id)
  BY DEF Nesting
<1>2. Merges(n, P, M, S2, t)
  BY <1>1 DEF NestAt, Merges
<1>3. \A k \in 1..n : IdAt(P, M, S2, t, k) = IdAt(P, M, S, t, k)
  BY <1>1 DEF NestAt, Merges, IdAt
<1>4. OnStack(n, P, M, S2, t) = OnStack(n, P, M, S, t)
  BY <1>3 DEF OnStack
<1>5. Rising(n, P, M, S2, t, d)
  BY <1>1, <1>3 DEF NestAt, Rising
<1>6. LogOK(L, t, d)
  BY <1>1, LogLater DEF NestAt
<1>7. InHandOK(L, d, hand, id)
  BY <1>1 DEF NestAt, InHandOK
<1>8. NestAt(n, P, M, B, S2, d, t, frs, td, ph, h, L, hand, id)
  BY <1>1, <1>2, <1>4, <1>5, <1>6, <1>7 DEF NestAt
<1> QED BY <1>8 DEF Nesting

-----------------------------------------------------------------------------
(* The state of a thread: where it is in its listener, and the event in    *)
(* hand while it reads the clock.                                          *)

Where(t) ==
  IF Recording(t)
    THEN IF pending[t].phase = "instruction" THEN "flat" ELSE pending[t].phase
    ELSE IF stage[t] = "native" THEN "flat" ELSE stage[t]
Half(t) == IF Recording(t) THEN 1 ELSE 0
Hand(t) == IF stage[t] = "clock" THEN pending[t].phase ELSE "none"
HandId(t) == IF stage[t] = "clock" THEN pending[t].id ELSE 0

NestOK(t) == Nesting(invocations, correlation, t, frames[t], todo[t], Where(t), Half(t),
                     log[t], Hand(t), HandId(t))
NestInv == Clean => \A t \in Threads : NestOK(t)

(* Nothing a thread's nesting is about changes.                            *)
Same(t) ==
  /\ frames'[t] = frames[t] /\ todo'[t] = todo[t] /\ stage'[t] = stage[t]
  /\ pending'[t] = pending[t] /\ log'[t] = log[t]
  /\ \A p \in FnProbes : invocations'[p][t] = invocations[p][t]

LEMMA SameNests ==
  ASSUME NEW t \in Threads, Same(t), NestOK(t),
         correlation \in Nat, correlation' \in Nat, correlation <= correlation'
  PROVE  NestOK(t)'
<1>1. /\ Where(t)' = Where(t) /\ Half(t)' = Half(t)
      /\ Hand(t)' = Hand(t) /\ HandId(t)' = HandId(t)
  BY DEF Same, Where, Half, Hand, HandId, Recording
<1>2. Nesting(invocations', correlation', t, frames[t], todo[t], Where(t), Half(t),
              log[t], Hand(t), HandId(t))
  BY NestOthers DEF NestOK, Same
<1>3. Nesting(invocations', correlation', t, frames'[t], todo'[t], Where(t)', Half(t)',
              log'[t], Hand(t)', HandId(t)')
  BY <1>1, <1>2 DEF Same
<1> QED BY <1>3 DEF NestOK

(* An action of one thread.                                                *)
Alone(t) == \A u \in Threads \ {t} : Same(u)

LEMMA AloneNests ==
  ASSUME AgentInv, NestInv, NEW t \in Threads, Alone(t), Clean' => Clean,
         correlation' \in Nat, correlation <= correlation',
         Clean => NestOK(t)'
  PROVE  NestInv'
<1>1. correlation \in Nat
  BY DEF AgentInv, AgentTypeOK, CallTypeOK
<1>2. ASSUME Clean, NEW u \in Threads, u # t PROVE NestOK(u)'
  BY <1>1, <1>2, SameNests DEF NestInv, Alone
<1> QED BY <1>2 DEF NestInv

LEMMA FrameNests ==
  ASSUME AgentInv, NestInv, Clean' => Clean,
         UNCHANGED <<callVars, frames, todo, stage, pending, log>>
  PROVE  NestInv'
<1>1. correlation \in Nat /\ correlation' = correlation
  BY DEF AgentInv, AgentTypeOK, CallTypeOK, callVars
<1>2. \A t \in Threads : Same(t)
  BY DEF Same, callVars
<1>3. \A t \in Threads : NestOK(t) => NestOK(t)'
  BY <1>1, <1>2, SameNests
<1> QED BY <1>3 DEF NestInv

(* Steps that keep a clean recording clean, or that end it.                *)
LEMMA CleanBefore ==
  ASSUME AgentInv, Posts, dropCount' \in Nat, dropCount <= dropCount', Clean'
  PROVE  Clean
<1>1. dropCount \in Nat /\ posted \in Seq(MessageSet)
  BY DEF AgentInv, AgentTypeOK, BatchTypeOK
<1>2. \A n \in DOMAIN posted : n \in DOMAIN posted' /\ posted'[n] = posted[n]
  BY <1>1 DEF Posts, Post
<1> QED BY <1>1, <1>2 DEF Clean

LEMMA CleanFrame ==
  ASSUME AgentInv, Posts, UNCHANGED dropCount
  PROVE  Clean' => Clean
BY CleanBefore DEF AgentInv, AgentTypeOK, BatchTypeOK

LEMMA SendClean ==
  ASSUME AgentInv, RpcSendThrows \/ \E t \in Threads : SendReturns(t) \/ SendThrows(t)
  PROVE  Clean' => Clean
<1>1. dropCount \in Nat /\ posted \in Seq(MessageSet) /\ Posts
  BY DEF AgentInv, AgentTypeOK, BatchTypeOK, RpcSendThrows, SendReturns, SendThrows, Posts
<1>2. CASE \E t \in Threads : SendReturns(t)
  BY <1>1, <1>2, CleanFrame DEF SendReturns
<1>3. ASSUME NEW b \in BatchSet, dropCount' = dropCount + Len(b.recs)
      PROVE  Clean' => Clean
  <2>1. Len(b.recs) \in Nat
    BY DEF BatchSet
  <2> QED BY <1>1, <1>3, <2>1, CleanBefore
<1>4. CASE \E t \in Threads : SendThrows(t)
  BY <1>3, <1>4 DEF SendThrows, AgentInv, AgentTypeOK, ThreadTypeOK
<1>5. CASE RpcSendThrows
  BY <1>3, <1>5 DEF RpcSendThrows, AgentInv, AgentTypeOK, RpcTypeOK
<1> QED BY <1>2, <1>4, <1>5

LEMMA ErrorPosted ==
  ASSUME AgentInv, Post(Message("error")) PROVE ~Clean'
<1>1. posted \in Seq(MessageSet) /\ posted' = Append(posted, [type |-> "error"])
  BY DEF AgentInv, AgentTypeOK, BatchTypeOK, Post, Message
<1>2. Len(posted) + 1 \in DOMAIN posted' /\ posted'[Len(posted) + 1].type = "error"
  BY <1>1
<1> QED BY <1>2 DEF Clean

LEMMA ThreadFacts ==
  ASSUME AgentInv, NEW t \in Threads
  PROVE  /\ ThreadTypeOK /\ CallTypeOK /\ StageOK(t) /\ \A u \in Threads : StageOK(u)
         /\ invocations \in Stacks /\ correlation \in Nat
         /\ frames[t] \in Seq(Addresses)
         /\ stage[t] \in {"enter", "leave"} =>
              /\ todo[t] # <<>> /\ todo[t] \in Seq(FnProbes)
              /\ Head(todo[t]) \in FnProbes /\ Head(todo[t]) = todo[t][1]
              /\ Where(t) = stage[t] /\ Half(t) = 0 /\ Hand(t) = "none" /\ HandId(t) = 0
         /\ stage[t] = "native" =>
              /\ Where(t) = "flat" /\ Half(t) = 0 /\ Hand(t) = "none" /\ HandId(t) = 0
<1>1. ThreadTypeOK /\ CallTypeOK /\ \A u \in Threads : StageOK(u)
  BY DEF AgentInv, AgentTypeOK
<1>2. invocations \in Stacks /\ correlation \in Nat /\ frames[t] \in Seq(Addresses)
  BY <1>1 DEF CallTypeOK, ThreadTypeOK, Stacks
<1>3. ASSUME stage[t] \in {"enter", "leave"}
      PROVE  /\ todo[t] # <<>> /\ todo[t] \in Seq(FnProbes)
             /\ Head(todo[t]) \in FnProbes /\ Head(todo[t]) = todo[t][1]
             /\ Where(t) = stage[t] /\ Half(t) = 0 /\ Hand(t) = "none" /\ HandId(t) = 0
  <2>1. todo[t] # <<>> /\ todo[t] \in Seq(FnProbes) /\ Head(todo[t]) \in FnProbes
    BY <1>1, <1>3, ListenerTodo
  <2>2. Head(todo[t]) = todo[t][1]
    BY <2>1
  <2>3. Where(t) = stage[t] /\ Half(t) = 0 /\ Hand(t) = "none" /\ HandId(t) = 0
    BY <1>3 DEF Where, Half, Hand, HandId, Recording
  <2> QED BY <2>1, <2>2, <2>3
<1>4. ASSUME stage[t] = "native"
      PROVE  Where(t) = "flat" /\ Half(t) = 0 /\ Hand(t) = "none" /\ HandId(t) = 0
  BY <1>4 DEF Where, Half, Hand, HandId, Recording
<1> QED BY <1>1, <1>2, <1>3, <1>4

LEMMA IdleNone == Idle("none") /\ Idle("instruction")
BY DEF Idle

LEMMA StackChanged ==
  ASSUME CallTypeOK, NEW p \in FnProbes, NEW t \in Threads, NEW stack \in Seq(Nat),
         invocations' = [invocations EXCEPT ![p][t] = stack]
  PROVE  /\ invocations' \in Stacks /\ Changed(invocations, invocations', p, t, stack)
         /\ \A q \in FnProbes, u \in Threads \ {t} : invocations'[q][u] = invocations[q][u]
<1>1. /\ invocations'[p][t] = stack
      /\ \A q \in FnProbes, u \in Threads :
           q # p \/ u # t => invocations'[q][u] = invocations[q][u]
  BY DEF CallTypeOK
<1>2. invocations' \in Stacks
  BY DEF CallTypeOK, Stacks
<1> QED BY <1>1, <1>2 DEF Changed

LEMMA CallNests ==
  ASSUME AgentInv, NestInv, NEW t \in Threads, NEW a \in Addresses, Call(t, a)
  PROVE  NestInv'
<1>1. /\ stage[t] = "native" /\ UNCHANGED <<dropCount, posted>>
      /\ frames' = [frames EXCEPT ![t] = Append(@, a)]
      /\ todo' = [todo EXCEPT ![t] = ProbesAt[a]]
      /\ stage' = [stage EXCEPT ![t] = "enter"]
      /\ UNCHANGED <<pending, log, invocations, correlation>>
  BY DEF Call, callVars, batchVars
<1>2. Alone(t) /\ correlation' \in Nat /\ correlation <= correlation'
  BY <1>1, ThreadFacts DEF Alone, Same, ThreadTypeOK
<1>3. /\ stage'[t] = "enter" /\ frames'[t] = Append(frames[t], a)
      /\ todo'[t] = ProbesAt[a]
  BY <1>1, ThreadFacts DEF ThreadTypeOK
<1>4. Where(t)' = "enter" /\ Half(t)' = 0 /\ Hand(t)' = "none" /\ HandId(t)' = 0
  BY <1>3 DEF Where, Half, Hand, HandId, Recording
<1>5. ASSUME NestOK(t) PROVE NestOK(t)'
  <2>1. Nesting(invocations, correlation, t, frames[t], todo[t], "flat", 0, log[t], "none", 0)
    BY <1>1, <1>5, ThreadFacts DEF NestOK
  <2>2. Nesting(invocations, correlation, t, Append(frames[t], a), ProbesAt[a], "enter", 0,
                log[t], "none", 0)
    BY <2>1, ThreadFacts, NestCall, IdleNone
  <2> QED BY <1>1, <1>3, <1>4, <2>2 DEF NestOK
<1> QED BY <1>1, <1>2, <1>5, AloneNests, CleanFrame DEF NestInv, Posts

LEMMA ReturnNests ==
  ASSUME AgentInv, NestInv, NEW t \in Threads, Return(t)
  PROVE  NestInv'
<1>1. /\ stage[t] = "native" /\ UNCHANGED <<dropCount, posted>> /\ frames[t] # <<>>
      /\ frames' = [frames EXCEPT ![t] = Front(@)]
      /\ todo' = [todo EXCEPT ![t] = Reverse(ProbesAt[Last(frames[t])])]
      /\ stage' = [stage EXCEPT ![t] = "leave"]
      /\ UNCHANGED <<pending, log, invocations, correlation>>
  BY DEF Return, LeaveOrder, callVars, batchVars
<1>2. Alone(t) /\ correlation' \in Nat /\ correlation <= correlation'
  BY <1>1, ThreadFacts DEF Alone, Same, ThreadTypeOK
<1>3. /\ stage'[t] = "leave" /\ frames'[t] = Front(frames[t])
      /\ todo'[t] = Reverse(ProbesAt[Last(frames[t])])
  BY <1>1, ThreadFacts DEF ThreadTypeOK
<1>4. Where(t)' = "leave" /\ Half(t)' = 0 /\ Hand(t)' = "none" /\ HandId(t)' = 0
  BY <1>3 DEF Where, Half, Hand, HandId, Recording
<1>5. ASSUME NestOK(t) PROVE NestOK(t)'
  <2>1. Nesting(invocations, correlation, t, frames[t], todo[t], "flat", 0, log[t], "none", 0)
    BY <1>1, <1>5, ThreadFacts DEF NestOK
  <2>2. Nesting(invocations, correlation, t, Front(frames[t]),
                Reverse(ProbesAt[Last(frames[t])]), "leave", 0, log[t], "none", 0)
    BY <1>1, <2>1, ThreadFacts, NestReturn, IdleNone
  <2> QED BY <1>1, <1>3, <1>4, <2>2 DEF NestOK
<1> QED BY <1>1, <1>2, <1>5, AloneNests, CleanFrame DEF NestInv, Posts

(* The listener goes on after a probe whose event, if any, is logged.      *)
LEMMA ContinueNests ==
  ASSUME ThreadTypeOK, NEW t \in Threads, NEW ph \in {"enter", "leave"},
         todo[t] # <<>>, todo[t] \in Seq(FnProbes), frames[t] \in Seq(Addresses),
         Continue(t, ph), frames' = frames,
         NEW L, log'[t] = L,
         Nesting(invocations', correlation', t, frames[t], todo[t], ph, 1, L, "none", 0)
  PROVE  NestOK(t)'
<1>1. /\ todo'[t] = Tail(todo[t])
      /\ stage'[t] = IF Tail(todo[t]) = <<>> THEN "native" ELSE ph
  BY DEF Continue, ThreadTypeOK
<1>2. /\ Where(t)' = (IF Tail(todo[t]) = <<>> THEN "flat" ELSE ph)
      /\ Half(t)' = 0 /\ Hand(t)' = "none" /\ HandId(t)' = 0
  BY <1>1 DEF Where, Half, Hand, HandId, Recording
<1>3. Nesting(invocations', correlation', t, frames[t], Tail(todo[t]),
              IF Tail(todo[t]) = <<>> THEN "flat" ELSE ph, 0, L, "none", 0)
  BY NestOver, IdleNone
<1> QED BY <1>1, <1>2, <1>3 DEF NestOK

LEMMA EnterSkippedNests ==
  ASSUME AgentInv, NestInv, NEW t \in Threads, EnterSkipped(t)
  PROVE  NestInv'
<1>0. /\ stage[t] = "enter" /\ UNCHANGED <<dropCount, posted>> /\ frames' = frames
      /\ Continue(t, "enter") /\ UNCHANGED <<pending, log, correlation>>
  BY DEF EnterSkipped, batchVars
<1>1. PICK p \in FnProbes : p = Head(todo[t]) /\ p = todo[t][1]
  BY <1>0, ThreadFacts
<1>a. invocations[p][t] \in Seq(Nat) /\ Skipped \in Nat
  BY ThreadFacts DEF CallTypeOK, Skipped
<1>b. Append(invocations[p][t], Skipped) \in Seq(Nat)
  BY <1>a
<1>2. PICK stack \in Seq(Nat) : stack = Append(invocations[p][t], Skipped)
  BY <1>b
<1>3. invocations' = [invocations EXCEPT ![p][t] = stack]
  BY <1>1, <1>2 DEF EnterSkipped, Push
<1>4. /\ invocations' \in Stacks /\ Changed(invocations, invocations', p, t, stack)
      /\ \A q \in FnProbes, u \in Threads \ {t} : invocations'[q][u] = invocations[q][u]
  BY <1>3, ThreadFacts, StackChanged
<1>5. Alone(t) /\ correlation' \in Nat /\ correlation <= correlation'
  BY <1>0, <1>4, ThreadFacts DEF Alone, Same, ThreadTypeOK, Continue
<1>6. ASSUME NestOK(t) PROVE NestOK(t)'
  <2>1. Nesting(invocations, correlation, t, frames[t], todo[t], "enter", 0, log[t],
                "none", 0)
    BY <1>0, <1>6, ThreadFacts DEF NestOK
  <2>2. Changed(invocations, invocations', p, t, Append(invocations[p][t], Skipped))
        /\ Skipped \in Nat
    BY <1>2, <1>4 DEF Skipped
  <2>3. Nesting(invocations', correlation, t, frames[t], todo[t], "enter", 1, log[t],
                "none", 0)
    <3>1. /\ todo[t] \in Seq(FnProbes) /\ todo[t] # <<>> /\ todo[t][1] = p
          /\ invocations \in Stacks /\ correlation \in Nat /\ frames[t] \in Seq(Addresses)
      BY <1>0, <1>1, ThreadFacts
    <3> QED BY <1>4, <2>1, <2>2, <3>1, NestPush, IdleNone
  <2> QED BY <1>0, <2>3, ThreadFacts, ContinueNests
<1> QED BY <1>0, <1>5, <1>6, AloneNests, CleanFrame DEF NestInv, Posts

(* A probe's event is in hand.                                             *)
LEMMA RecordNests ==
  ASSUME ThreadTypeOK, NEW t \in Threads, NEW p, NEW ph \in {"enter", "leave"}, NEW id,
         RecordEvent(t, p, ph, id), UNCHANGED <<frames, todo, log>>,
         Nesting(invocations', correlation', t, frames[t], todo[t], ph, 1, log[t], ph, id)
  PROVE  NestOK(t)'
<1>1. /\ stage'[t] = "clock" /\ pending'[t].phase = ph /\ pending'[t].id = id
  BY DEF RecordEvent, ThreadTypeOK
<1>2. Where(t)' = ph /\ Half(t)' = 1 /\ Hand(t)' = ph /\ HandId(t)' = id
  BY <1>1 DEF Where, Half, Hand, HandId, Recording
<1> QED BY <1>2 DEF NestOK

LEMMA EnterRecordedNests ==
  ASSUME AgentInv, NestInv, NEW t \in Threads, EnterRecorded(t)
  PROVE  NestInv'
<1>0. /\ stage[t] = "enter" /\ UNCHANGED <<dropCount, posted>>
      /\ UNCHANGED <<frames, todo, log>> /\ correlation' = correlation + 1
      /\ RecordEvent(t, Head(todo[t]), "enter", correlation')
  BY DEF EnterRecorded, EnterCounted, batchVars
<1>1. PICK p \in FnProbes : p = Head(todo[t]) /\ p = todo[t][1]
  BY <1>0, ThreadFacts
<1>a. invocations[p][t] \in Seq(Nat) /\ correlation + 1 \in Nat
  BY ThreadFacts DEF CallTypeOK
<1>b. Append(invocations[p][t], correlation + 1) \in Seq(Nat)
  BY <1>a
<1>2. PICK stack \in Seq(Nat) : stack = Append(invocations[p][t], correlation + 1)
  BY <1>b
<1>3. invocations' = [invocations EXCEPT ![p][t] = stack]
  BY <1>0, <1>1, <1>2 DEF EnterRecorded, EnterCounted, Push
<1>4. /\ invocations' \in Stacks /\ Changed(invocations, invocations', p, t, stack)
      /\ \A q \in FnProbes, u \in Threads \ {t} : invocations'[q][u] = invocations[q][u]
  BY <1>3, ThreadFacts, StackChanged
<1>5. Alone(t) /\ correlation' \in Nat /\ correlation <= correlation'
  BY <1>0, <1>4, ThreadFacts DEF Alone, Same, ThreadTypeOK, RecordEvent
<1>6. ASSUME NestOK(t) PROVE NestOK(t)'
  <2>1. Nesting(invocations, correlation, t, frames[t], todo[t], "enter", 0, log[t],
                "none", 0)
    BY <1>0, <1>6, ThreadFacts DEF NestOK
  <2>2. /\ Changed(invocations, invocations', p, t,
                   Append(invocations[p][t], correlation + 1))
        /\ correlation + 1 \in Nat
    BY <1>2, <1>4, ThreadFacts
  <2>3. Nesting(invocations', correlation + 1, t, frames[t], todo[t], "enter", 1, log[t],
                "enter", correlation + 1)
    <3>1. /\ todo[t] \in Seq(FnProbes) /\ todo[t] # <<>> /\ todo[t][1] = p
          /\ invocations \in Stacks /\ correlation \in Nat /\ frames[t] \in Seq(Addresses)
      BY <1>0, <1>1, ThreadFacts
    <3> QED BY <1>4, <2>1, <2>2, <3>1, NestPush, IdleNone
  <2> QED BY <1>0, <2>3, ThreadFacts, RecordNests
<1> QED BY <1>0, <1>5, <1>6, AloneNests, CleanFrame DEF NestInv, Posts

LEMMA LeaveSkippedNests ==
  ASSUME AgentInv, NestInv, NEW t \in Threads, LeaveSkipped(t)
  PROVE  NestInv'
<1>0. /\ stage[t] = "leave" /\ UNCHANGED <<dropCount, posted>> /\ frames' = frames
      /\ Continue(t, "leave") /\ UNCHANGED <<pending, log, correlation>>
  BY DEF LeaveSkipped, batchVars
<1>1. PICK p \in FnProbes : p = Head(todo[t]) /\ p = todo[t][1]
  BY <1>0, ThreadFacts
<1>2. /\ invocations' = [invocations EXCEPT ![p][t] = Front(invocations[p][t])]
      /\ Last(invocations[p][t]) = Skipped /\ invocations[p][t] # <<>>
  BY <1>1 DEF LeaveSkipped, Pop, Invocations
<1>3. PICK stack \in Seq(Nat) : stack = Front(invocations[p][t])
  <2>1. PICK s \in Seq(Nat) : s = invocations[p][t] /\ s # <<>>
    BY <1>2, ThreadFacts DEF Stacks
  <2> QED BY <2>1, FrontFacts
<1>4. /\ invocations' \in Stacks /\ Changed(invocations, invocations', p, t, stack)
      /\ \A q \in FnProbes, u \in Threads \ {t} : invocations'[q][u] = invocations[q][u]
  <2>1. invocations' = [invocations EXCEPT ![p][t] = stack]
    BY <1>2, <1>3
  <2> QED BY <2>1, ThreadFacts, StackChanged
<1>5. Alone(t) /\ correlation' \in Nat /\ correlation <= correlation'
  BY <1>0, <1>4, ThreadFacts DEF Alone, Same, ThreadTypeOK, Continue
<1>6. ASSUME NestOK(t) PROVE NestOK(t)'
  <2>1. Nesting(invocations, correlation, t, frames[t], todo[t], "leave", 0, log[t],
                "none", 0)
    BY <1>0, <1>6, ThreadFacts DEF NestOK
  <2>2. Changed(invocations, invocations', p, t, Front(invocations[p][t]))
    BY <1>3, <1>4
  <2>3. Nesting(invocations', correlation, t, frames[t], todo[t], "leave", 1, log[t],
                "none", 0)
    BY <1>0, <1>1, <1>2, <1>4, <2>1, <2>2, ThreadFacts, NestPop, IdleNone
  <2> QED BY <1>0, <2>3, ThreadFacts, ContinueNests
<1> QED BY <1>0, <1>5, <1>6, AloneNests, CleanFrame DEF NestInv, Posts

LEMMA LeaveRecordedNests ==
  ASSUME AgentInv, NestInv, NEW t \in Threads, LeaveRecorded(t)
  PROVE  NestInv'
<1>0. /\ stage[t] = "leave" /\ UNCHANGED <<dropCount, posted>>
      /\ UNCHANGED <<frames, todo, log, correlation>>
  BY DEF LeaveRecorded, batchVars
<1>1. PICK p \in FnProbes : p = Head(todo[t]) /\ p = todo[t][1]
  BY <1>0, ThreadFacts
<1>2. /\ invocations' = [invocations EXCEPT ![p][t] = Front(invocations[p][t])]
      /\ Last(invocations[p][t]) # Skipped /\ invocations[p][t] # <<>>
      /\ RecordEvent(t, p, "leave", Last(invocations[p][t]))
  BY <1>1 DEF LeaveRecorded, LeaveCounted, Pop, Invocations
<1>3. PICK stack \in Seq(Nat) : stack = Front(invocations[p][t])
  <2>1. PICK s \in Seq(Nat) : s = invocations[p][t] /\ s # <<>>
    BY <1>2, ThreadFacts DEF Stacks
  <2> QED BY <2>1, FrontFacts
<1>4. /\ invocations' \in Stacks /\ Changed(invocations, invocations', p, t, stack)
      /\ \A q \in FnProbes, u \in Threads \ {t} : invocations'[q][u] = invocations[q][u]
  <2>1. invocations' = [invocations EXCEPT ![p][t] = stack]
    BY <1>2, <1>3
  <2> QED BY <2>1, ThreadFacts, StackChanged
<1>5. Alone(t) /\ correlation' \in Nat /\ correlation <= correlation'
  BY <1>0, <1>2, <1>4, ThreadFacts DEF Alone, Same, ThreadTypeOK, RecordEvent
<1>6. ASSUME NestOK(t) PROVE NestOK(t)'
  <2>1. Nesting(invocations, correlation, t, frames[t], todo[t], "leave", 0, log[t],
                "none", 0)
    BY <1>0, <1>6, ThreadFacts DEF NestOK
  <2>2. Changed(invocations, invocations', p, t, Front(invocations[p][t]))
    BY <1>3, <1>4
  <2>3. Nesting(invocations', correlation, t, frames[t], todo[t], "leave", 1, log[t],
                "leave", Last(invocations[p][t]))
    BY <1>0, <1>1, <1>2, <1>4, <2>1, <2>2, ThreadFacts, NestPop, IdleNone
  <2> QED BY <1>0, <1>2, <2>3, ThreadFacts, RecordNests
<1> QED BY <1>0, <1>5, <1>6, AloneNests, CleanFrame DEF NestInv, Posts

LEMMA HitNests ==
  ASSUME AgentInv, NestInv, NEW t \in Threads, NEW p \in InsProbes, Hit(t, p)
  PROVE  NestInv'
<1>1. /\ stage[t] = "native" /\ UNCHANGED <<dropCount, posted>>
      /\ RecordEvent(t, p, "instruction", 0)
      /\ todo' = [todo EXCEPT ![t] = <<p>>]
      /\ UNCHANGED <<frames, log, invocations, correlation>>
  BY DEF Hit, HitCounted, batchVars
<1>2. Alone(t) /\ correlation' \in Nat /\ correlation <= correlation'
  BY <1>1, ThreadFacts DEF Alone, Same, ThreadTypeOK, RecordEvent
<1>3. stage'[t] = "clock" /\ pending'[t].phase = "instruction" /\ pending'[t].id = 0
  BY <1>1, ThreadFacts DEF ThreadTypeOK, RecordEvent
<1>4. Where(t)' = "flat" /\ Half(t)' = 1 /\ Hand(t)' = "instruction" /\ HandId(t)' = 0
  BY <1>3 DEF Where, Half, Hand, HandId, Recording
<1>5. ASSUME NestOK(t) PROVE NestOK(t)'
  <2>1. Nesting(invocations, correlation, t, frames[t], todo[t], "flat", 0, log[t],
                "none", 0)
    BY <1>1, <1>5, ThreadFacts DEF NestOK
  <2>2. Nesting(invocations, correlation, t, frames[t], todo'[t], "flat", 1, log[t],
                "instruction", 0)
    BY <2>1, NestFlat, IdleNone
  <2> QED BY <1>1, <1>4, <2>2 DEF NestOK
<1> QED BY <1>1, <1>2, <1>5, AloneNests, CleanFrame DEF NestInv, Posts

-----------------------------------------------------------------------------
(* The event in hand is numbered, which logs it, and then buffered.        *)

LEMMA RecordingFacts ==
  ASSUME AgentInv, NEW t \in Threads, Recording(t)
  PROVE  /\ todo[t] # <<>> /\ pending[t] \in PendingSet /\ Half(t) = 1
         /\ \/ /\ todo[t] \in Seq(FnProbes) /\ pending[t].phase \in {"enter", "leave"}
               /\ Where(t) = pending[t].phase
            \/ /\ pending[t].phase = "instruction" /\ Where(t) = "flat"
               /\ \E p \in InsProbes : todo[t] = <<p>>
<1>1. /\ todo[t] # <<>> /\ pending[t] \in PendingSet
      /\ \/ todo[t] \in Seq(FnProbes) /\ pending[t].phase \in {"enter", "leave"}
         \/ \E p \in InsProbes : todo[t] = <<p>>
  BY ThreadFacts, RecordingTodo
<1>2. Half(t) = 1
  BY DEF Half
<1>3. pending[t].phase \in {"enter", "leave", "instruction"}
  BY <1>1 DEF PendingSet, Phases
<1>4. CASE pending[t].phase = "instruction"
  <2>1. \E p \in InsProbes : todo[t] = <<p>>
    BY <1>4, ThreadFacts DEF StageOK
  <2>2. Where(t) = "flat"
    BY <1>4 DEF Where
  <2> QED BY <1>1, <1>2, <1>4, <2>1, <2>2
<1>5. CASE pending[t].phase # "instruction"
  <2>1. Where(t) = pending[t].phase
    BY <1>5 DEF Where
  <2>2. todo[t] \in Seq(FnProbes)
    BY <1>5, ThreadFacts DEF StageOK
  <2> QED BY <1>1, <1>2, <1>3, <1>5, <2>1, <2>2
<1> QED BY <1>4, <1>5

LEMMA LoggedNests ==
  ASSUME AgentInv, NEW t \in Threads, stage[t] = "clock", Number(t), NestOK(t)
  PROVE  Nesting(invocations, correlation, t, frames[t], todo[t], Where(t), 1,
                 log'[t], "none", 0)
<1>1. Recording(t)
  BY DEF Recording
<1>2. PICK e \in AgentEvents : e = Numbered(t)
  BY <1>1, NumberGrows
<1>3. e.tid = t /\ e.phase = pending[t].phase /\ e.id = pending[t].id
  BY <1>2 DEF Numbered, Event
<1>4. log'[t] = Append(log[t], e)
  BY <1>2 DEF Number, AgentInv, AgentTypeOK, BatchTypeOK
<1>5. Nesting(invocations, correlation, t, frames[t], todo[t], Where(t), 1, log[t],
              e.phase, e.id)
  BY <1>1, <1>3, RecordingFacts DEF NestOK, Hand, HandId
<1>6. correlation \in Nat
  BY ThreadFacts
<1>7. Nesting(invocations, correlation, t, frames[t], todo[t], Where(t), 1,
              Append(log[t], e), "none", 0)
  BY <1>3, <1>5, <1>6, NestLogged
<1> QED BY <1>4, <1>7

(* recordEvent is over, and with it the callback.                          *)
LEMMA RecordedNests ==
  ASSUME AgentInv, NEW t \in Threads, Recording(t), Continue(t, pending[t].phase),
         frames' = frames, invocations' = invocations, correlation' = correlation,
         Nesting(invocations, correlation, t, frames[t], todo[t], Where(t), 1,
                 log'[t], "none", 0)
  PROVE  NestOK(t)'
<1>1. CASE todo[t] \in Seq(FnProbes) /\ pending[t].phase \in {"enter", "leave"}
           /\ Where(t) = pending[t].phase
  <2>1. PICK ph \in {"enter", "leave"} : ph = pending[t].phase
    BY <1>1
  <2>2. PICK L : L = log'[t]
    OBVIOUS
  <2>3. Nesting(invocations', correlation', t, frames[t], todo[t], ph, 1, L, "none", 0)
    BY <1>1, <2>1, <2>2
  <2> QED BY <1>1, <2>1, <2>2, <2>3, ThreadFacts, RecordingFacts, ContinueNests
<1>2. CASE Where(t) = "flat" /\ \E p \in InsProbes : todo[t] = <<p>>
  <2>1. Tail(todo[t]) = <<>>
    BY <1>2
  <2>2. stage'[t] = "native"
    BY <2>1, ThreadFacts DEF Continue, ThreadTypeOK
  <2>3. Where(t)' = "flat" /\ Half(t)' = 0 /\ Hand(t)' = "none" /\ HandId(t)' = 0
    BY <2>2 DEF Where, Half, Hand, HandId, Recording
  <2>4. Nesting(invocations, correlation, t, frames[t], todo'[t], "flat", 0, log'[t],
                "none", 0)
    BY <1>2, NestFlat, IdleNone
  <2> QED BY <2>3, <2>4 DEF NestOK
<1> QED BY <1>1, <1>2, RecordingFacts

LEMMA BufferedNests ==
  ASSUME AgentInv, NestInv, NEW t \in Threads, EventBuffered(t)
  PROVE  NestInv'
<1>1. /\ stage[t] = "clock" /\ Recording(t) /\ Number(t) /\ UNCHANGED <<dropCount, posted>>
      /\ Continue(t, pending[t].phase) /\ pending' = [pending EXCEPT ![t] = None]
      /\ UNCHANGED <<frames, invocations, correlation>>
  BY DEF EventBuffered, callVars, Recording
<1>2. Alone(t) /\ correlation' \in Nat /\ correlation <= correlation'
  <2>1. ThreadTypeOK /\ correlation \in Nat /\ log \in [Threads -> Seq(AgentEvents)]
    BY ThreadFacts DEF AgentInv, AgentTypeOK, BatchTypeOK
  <2>2. \A u \in Threads \ {t} : log'[u] = log[u] /\ pending'[u] = pending[u]
    BY <1>1, <2>1 DEF Number, ThreadTypeOK
  <2>3. \A u \in Threads \ {t} : todo'[u] = todo[u] /\ stage'[u] = stage[u]
    BY <1>1, <2>1 DEF Continue, ThreadTypeOK
  <2> QED BY <1>1, <2>1, <2>2, <2>3 DEF Alone, Same
<1>3. NestOK(t) => NestOK(t)'
  BY <1>1, LoggedNests, RecordedNests
<1> QED BY <1>1, <1>2, <1>3, AloneNests, CleanFrame DEF NestInv, Posts

LEMMA BatchFullNests ==
  ASSUME AgentInv, NestInv, NEW t \in Threads, BatchFull(t)
  PROVE  NestInv'
<1>1. /\ stage[t] = "clock" /\ Recording(t) /\ Number(t) /\ UNCHANGED <<dropCount, posted>>
      /\ pending' = [pending EXCEPT ![t].seq = threadSequences'[t]]
      /\ stage' = [stage EXCEPT ![t] = "send"]
      /\ UNCHANGED <<frames, todo, invocations, correlation>>
  BY DEF BatchFull, callVars, Recording
<1>2. Alone(t) /\ correlation' \in Nat /\ correlation <= correlation'
  <2>1. ThreadTypeOK /\ correlation \in Nat /\ log \in [Threads -> Seq(AgentEvents)]
    BY ThreadFacts DEF AgentInv, AgentTypeOK, BatchTypeOK
  <2>2. \A u \in Threads \ {t} : log'[u] = log[u] /\ pending'[u] = pending[u]
    BY <1>1, <2>1 DEF Number, ThreadTypeOK
  <2>3. \A u \in Threads \ {t} : todo'[u] = todo[u] /\ stage'[u] = stage[u]
    BY <1>1, <2>1 DEF ThreadTypeOK
  <2> QED BY <1>1, <2>1, <2>2, <2>3 DEF Alone, Same
<1>3. stage'[t] = "send" /\ pending'[t].phase = pending[t].phase
  BY <1>1, ThreadFacts, RecordingFacts DEF ThreadTypeOK, PendingSet
<1>4. Where(t)' = Where(t) /\ Half(t)' = 1 /\ Hand(t)' = "none" /\ HandId(t)' = 0
  BY <1>1, <1>3 DEF Where, Half, Hand, HandId, Recording
<1>5. ASSUME NestOK(t) PROVE NestOK(t)'
  BY <1>1, <1>4, <1>5, LoggedNests DEF NestOK
<1> QED BY <1>1, <1>2, <1>5, AloneNests, CleanFrame DEF NestInv, Posts

LEMMA SentNests ==
  ASSUME AgentInv, NestInv, NEW t \in Threads, SendReturns(t) \/ SendThrows(t)
  PROVE  NestInv'
<1>1. /\ stage[t] = "send" /\ Recording(t)
      /\ Continue(t, pending[t].phase) /\ pending' = [pending EXCEPT ![t] = None]
      /\ UNCHANGED <<frames, invocations, correlation, log>>
  BY DEF SendReturns, SendThrows, AppendPending, callVars, Recording
<1>2. Alone(t) /\ correlation' \in Nat /\ correlation <= correlation'
  BY <1>1, ThreadFacts DEF Alone, Same, ThreadTypeOK, Continue
<1>3. ASSUME NestOK(t) PROVE NestOK(t)'
  <2>1. Half(t) = 1 /\ Hand(t) = "none" /\ HandId(t) = 0
    BY <1>1 DEF Half, Hand, HandId
  <2>2. Nesting(invocations, correlation, t, frames[t], todo[t], Where(t), 1, log'[t],
                "none", 0)
    BY <1>1, <1>3, <2>1 DEF NestOK
  <2> QED BY <1>1, <2>2, RecordedNests
<1>4. Clean' => Clean
  BY SendClean
<1> QED BY <1>1, <1>2, <1>3, <1>4, AloneNests DEF NestInv

(* A step that reports an exception or drops an event, a message or a      *)
(* batch that leaves the calls as they are.                                *)
LEMMA SpoilingNests ==
  ASSUME AgentInv, NEW t \in Threads,
         \/ EnterThrows(t) \/ LeaveThrows(t) \/ LeaveUnmatched(t) \/ EventDropped(t)
         \/ \E p \in InsProbes : HitThrows(t, p)
  PROVE  NestInv'
<1>1. CASE \/ EnterThrows(t) \/ LeaveThrows(t) \/ LeaveUnmatched(t)
           \/ \E p \in InsProbes : HitThrows(t, p)
  BY <1>1, ErrorPosted
     DEF EnterThrows, LeaveThrows, LeaveUnmatched, HitThrows, Throw, NestInv
<1>2. CASE EventDropped(t)
  <2>1. dropCount \in Nat /\ dropCount' = dropCount + 1
    BY <1>2 DEF EventDropped, AgentInv, AgentTypeOK, BatchTypeOK
  <2> QED BY <2>1 DEF NestInv, Clean
<1> QED BY <1>1, <1>2

LEMMA NestNext ==
  ASSUME AgentInv, NestInv, AgentMove
  PROVE  NestInv'
<1>1. ASSUME NEW t \in Threads, CallbackStep(t) PROVE NestInv'
  <2>1. CASE EnterSkipped(t) \/ EnterRecorded(t) \/ LeaveSkipped(t) \/ LeaveRecorded(t)
    BY <2>1, EnterSkippedNests, EnterRecordedNests, LeaveSkippedNests, LeaveRecordedNests
  <2>2. CASE EventBuffered(t) \/ BatchFull(t) \/ SendReturns(t) \/ SendThrows(t)
    BY <2>2, BufferedNests, BatchFullNests, SentNests
  <2>3. CASE BatchPosted(t)
    BY <2>3, FrameNests, CleanFrame DEF BatchPosted, batchVars, Posts
  <2> QED BY <1>1, <2>1, <2>2, <2>3, SpoilingNests DEF CallbackStep
<1>2. ASSUME NEW t \in Threads, NativeStep(t) PROVE NestInv'
  BY <1>2, CallNests, ReturnNests, HitNests, SpoilingNests DEF NativeStep
<1>3. CASE RpcStep
  <2>1. UNCHANGED <<callVars, frames, todo, stage, pending, log>>
    BY <1>3 DEF RpcStep, PollFinished, DeadlinePassed, FlushNothing, FlushThread,
       RpcBatchPosted, RpcSendReturns, RpcSendThrows, FlushDone, threadVars, batchVars
  <2>2. CASE RpcSendThrows
    BY <2>1, <2>2, FrameNests, SendClean
  <2>3. CASE ~RpcSendThrows
    <3>1. UNCHANGED dropCount
      BY <1>3, <2>3 DEF RpcStep, PollFinished, DeadlinePassed, FlushNothing, FlushThread,
         RpcBatchPosted, RpcSendReturns, FlushDone
    <3> QED BY <2>1, <3>1, FrameNests, CleanFrame, MovePosts
  <2> QED BY <2>2, <2>3
<1>4. CASE Service \/ Still
  <2>1. UNCHANGED <<callVars, frames, todo, stage, pending, log, dropCount>>
    BY <1>4 DEF Service, Still, Install, InstallFails, BeginObservation,
       FinishObservation, Flush, BindFixtureMemory, threadVars, batchVars
  <2> QED BY <2>1, FrameNests, CleanFrame, MovePosts
<1> QED BY <1>1, <1>2, <1>3, <1>4 DEF AgentMove

LEMMA NestInit == AgentInit => NestInv
<1> SUFFICES ASSUME AgentInit PROVE NestInv
  OBVIOUS
<1> SUFFICES ASSUME NEW t \in Threads PROVE NestOK(t)
  BY DEF NestInv
<1>1. /\ \A p \in FnProbes : invocations[p][t] = <<>>
      /\ correlation = 0 /\ stage[t] = "native" /\ frames[t] = <<>> /\ log[t] = <<>>
  BY DEF AgentInit
<1>2. Where(t) = "flat" /\ Half(t) = 0 /\ Hand(t) = "none" /\ HandId(t) = 0
  BY <1>1 DEF Where, Half, Hand, HandId, Recording
<1> DEFINE B == [f \in {0} |-> 0]
<1>3. Merges(0, B, B, invocations, t) /\ Rising(0, B, B, invocations, t, 0)
  BY <1>1 DEF Merges, Rising
<1>4. Shape(0, B, B, <<>>, todo[t], "flat", 0)
  BY DEF Shape
<1>5. Enters(<<>>) = {} /\ Leaves(<<>>) = {}
  BY DEF Enters, Leaves, At
<1>6. LogOK(<<>>, t, 0)
  BY <1>5 DEF LogOK
<1>7. OnStack(0, B, B, invocations, t) = {}
  BY DEF OnStack
<1>8. Listed(OnStack(0, B, B, invocations, t), <<>>, "none", 0) /\ InHandOK(<<>>, 0, "none", 0)
  BY <1>5, <1>7 DEF Listed, InHandOK
<1>9. NestAt(0, B, B, B, invocations, correlation, t, frames[t], todo[t], "flat", 0,
             log[t], "none", 0)
  BY <1>1, <1>3, <1>4, <1>6, <1>8 DEF NestAt
<1> QED BY <1>1, <1>2, <1>9 DEF NestOK, Nesting

(* Until an event is dropped or an exception reported, what a thread       *)
(* records nests, for any probes, addresses, nesting, recursion, fixture   *)
(* bound and recording begun or ended in the middle of a call              *)
(* (agent.js:333-385).                                                     *)
THEOREM LogsAreNested == AgentSpec => []LogsNest
<1>1. AgentInit => AgentInv
  BY InitInv
<1>2. AgentInv /\ NestInv => LogsNest
  <2> SUFFICES ASSUME AgentInv, NestInv, Clean, NEW t \in Threads
               PROVE  Nests(log[t])
    BY DEF LogsNest
  <2>1. LogOK(log[t], t, correlation) /\ correlation \in Nat
    BY ThreadFacts DEF NestInv, NestOK, Nesting, NestAt
  <2> QED BY <2>1, LogNests
<1>3. AgentInv /\ NestInv /\ [AgentNext]_agentVars => NestInv'
  BY NestNext, NextMoves
<1> QED BY <1>1, <1>2, <1>3, NestInit, AgentInvariant, PTL DEF AgentSpec
=============================================================================
