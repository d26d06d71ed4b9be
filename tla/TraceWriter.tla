----------------------------- MODULE TraceWriter -----------------------------
(***************************************************************************)
(* rrfrida/trace_writer.py: the host's side of the stream.  on_message     *)
(* runs on Frida's thread, one message at a time; frida-python prints an   *)
(* exception that leaves it and goes on with the next message, so a        *)
(* WriteError raised there is remembered only by the history variable      *)
(* raised.  A batch message carries                                        *)
(*   data               it comes with data                                 *)
(*   number, declared   batch_sequence and records                         *)
(*   sized              its data has the length the message declares       *)
(*   recs, torn         the whole events in the data, and whether the walk *)
(*                      over the data ends in a malformed one              *)
(***************************************************************************)
EXTENDS TraceEvents, SequencesExt

CONSTANT Required   \* kinds of the probes the probe set requires

VARIABLES
  events,        \* _events
  nextBatch,     \* _next_batch
  records,       \* _records
  installedStatus, installError, agentError,   \* set or not
  raised         \* history: WriteErrors that left on_message

writerVars == <<events, nextBatch, records, installedStatus, installError,
                agentError, raised>>

WriterInit ==
  /\ events = <<>> /\ nextBatch = 1 /\ records = 0
  /\ installedStatus = FALSE /\ installError = FALSE /\ agentError = FALSE
  /\ raised = 0

Raise == raised' = raised + 1 /\ UNCHANGED <<installedStatus, installError, agentError>>

(* The checks of _append_batch in the order it makes them: the number is   *)
(* consumed before the shape is checked, and the events before a torn one  *)
(* are already appended when it is met.                                    *)
WithoutData(m) ==
  /\ ~m.data
  /\ Raise /\ UNCHANGED <<events, nextBatch, records>>

OutOfOrder(m) ==
  /\ m.data /\ m.number # nextBatch
  /\ Raise /\ UNCHANGED <<events, nextBatch, records>>

(* Mutant: a batch is taken whatever its number.                           *)
ConsumedAnyhow(m) ==
  /\ m.data /\ m.sized /\ m.declared > 0
  /\ nextBatch' = m.number + 1
  /\ events' = events \o m.recs

Misshapen(m) ==
  /\ m.data /\ m.number = nextBatch
  /\ ~m.sized \/ m.declared <= 0
  /\ nextBatch' = nextBatch + 1
  /\ Raise /\ UNCHANGED <<events, records>>

Consumed(m) ==
  /\ m.data /\ m.number = nextBatch /\ m.sized /\ m.declared > 0
  /\ nextBatch' = nextBatch + 1
  /\ events' = events \o m.recs

Torn(m) ==
  /\ Consumed(m)
  /\ m.torn \/ Len(m.recs) # m.declared
  /\ Raise /\ UNCHANGED records

Appended(m) ==
  /\ Consumed(m)
  /\ ~m.torn /\ Len(m.recs) = m.declared
  /\ records' = records + Len(m.recs)
  /\ UNCHANGED <<installedStatus, installError, agentError, raised>>

AppendBatch(m) == WithoutData(m) \/ OutOfOrder(m) \/ Misshapen(m) \/ Torn(m) \/ Appended(m)

(* Frida's own envelopes, such as "error", and payloads of another type or *)
(* of none are refused.                                                    *)
PayloadTypes == {"installed", "install_error", "agent_error", "batch", "waiting"}

OnMessage(m) ==
  \/ /\ m.type = "installed"
     /\ installedStatus' = TRUE
     /\ UNCHANGED <<events, nextBatch, records, installError, agentError, raised>>
  \/ /\ m.type = "install_error"
     /\ installError' = TRUE
     /\ UNCHANGED <<events, nextBatch, records, installedStatus, agentError, raised>>
  \/ /\ m.type = "agent_error"
     /\ agentError' = TRUE
     /\ UNCHANGED <<events, nextBatch, records, installedStatus, installError, raised>>
  \/ m.type = "waiting" /\ UNCHANGED writerVars
  \/ m.type \notin PayloadTypes /\ Raise /\ UNCHANGED <<events, nextBatch, records>>
  \/ m.type = "batch" /\ AppendBatch(m)

(* _require_required_probes over the counts finish() returns.              *)
RequiredFired(es) ==
  \A k \in Required :
    LET entered == Count(es, k, "enter")
    IN  /\ entered > 0 \/ Count(es, k, "instruction") > 0
        /\ entered > 0 => entered = Count(es, k, "leave")
=============================================================================
