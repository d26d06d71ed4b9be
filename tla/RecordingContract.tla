-------------------------- MODULE RecordingContract --------------------------
(***************************************************************************)
(* What a recording promises, without agent, batches, messages or host:    *)
(* threads number their events while the recording runs; a file, if one is *)
(* written, is written once, and holds of each thread the first so many of *)
(* its events; after that nothing is recorded any more; only a recording   *)
(* with a file is accepted.                                                *)
(***************************************************************************)
EXTENDS TraceEvents

CONSTANTS Threads, NoFile

VARIABLES
  log,      \* the events each thread has numbered
  file,     \* the file, or NoFile
  verdict   \* "recording", "accepted" or "refused"

contractVars == <<log, file, verdict>>

Init ==
  /\ log = [t \in Threads |-> <<>>]
  /\ file = NoFile
  /\ verdict = "recording"

Record(t) ==
  /\ verdict = "recording" /\ file = NoFile
  /\ Len(log'[t]) = Len(log[t]) + 1
  /\ LET e == log'[t][Len(log'[t])]
     IN  /\ e.tid = t /\ e.seq = Len(log'[t])
         /\ log' = [log EXCEPT ![t] = Append(@, e)]
  /\ UNCHANGED <<file, verdict>>

(* es is an interleaving of a prefix of each thread's log.                 *)
PrefixOfLogs(es) == GenuineIn(log, es) /\ Contiguous(es)

Write ==
  /\ verdict = "recording" /\ file = NoFile
  /\ file' # NoFile /\ PrefixOfLogs(file')
  /\ UNCHANGED <<log, verdict>>

Accept ==
  /\ verdict = "recording" /\ file # NoFile
  /\ verdict' = "accepted"
  /\ UNCHANGED <<log, file>>

Refuse ==
  /\ verdict = "recording"
  /\ verdict' = "refused"
  /\ UNCHANGED <<log, file>>

Next == (\E t \in Threads : Record(t)) \/ Write \/ Accept \/ Refuse

Spec == Init /\ [][Next]_contractVars
=============================================================================
