# Verification of rr-frida

rr-frida records the calls of a native module with a Frida agent, stores them as a
trace, and compares a reimplementation with the trace. What a comparison proves depends
on every link of that chain: an event that is lost, repeated or attributed to the wrong
call, a probe attached to another build, a claim compared with another call's output turn
a PASS into a statement about less than the reader thinks. This directory models the
program from the installation of the probes to the verdict of a case, checks the models
with TLC and proves the central invariants with TLAPS.

## 1. The system

| Component | Source | State | Operations |
| --- | --- | --- | --- |
| Probe installation | `rrfrida/agent.js` 400-483, `rrfrida/probes.py` | probe files, `installed`, listeners, install messages | validate declarations, `install`, module observer, the host's wait |
| Recording agent | `rrfrida/agent.js` | per probe: counters, a stack of invocations per thread; per thread: sequence number, batch; `batchSequence`, `dropCount`, `acceptingEntries`, `fixtureMemory` | hook callbacks, `recordEvent`, `flushBatch`, RPCs |
| Snapshots | `agent.js` 112-133, 220-307; `format.py` 212-250 | pointers kept from the entry | capture in the agent, decode in the reader |
| Clock capture | `agent.js` 68-98 | list of readings | hook on `clock_gettime` |
| Module identity | `rrfrida/module-info.js` | - | build id or hash of an image |
| Trace writer | `rrfrida/trace_writer.py` | event buffer, next batch number, install and error reports | `on_message`, `finish` |
| File framing | `trace_writer.py` 92-106, `rrtrace/format.py` 121-160 | the file | write, decode |
| Recorder | `rrfrida/record.py` | where `record()` is, the summary it got, the file | attach, wait for install, begin, sleep, finish, unload, check, write |
| Fixture session | `rrfrida/fixture.py` | as the recorder, plus a bound thread, a claimed result, the clock readings | `setup`, bind, `run`, collect |
| Call forest | `rrtrace/format.py` | open calls per thread | `_decode_events`, `_assemble` |
| Validation helpers | `rrfrida/validate.py` | - | `load`, `single_probe`, `require_snapshot` |
| Case adapters | `tutorial/compare_*.py` | - | validate a trace, encode the replay input, compare |
| Replay programs | `tutorial/replay_*.cpp` | - | run the implementation on the encoded input |
| Native replay | `rrfrida/native_replay.py` | files on the device | compile, push, run, fetch, remove |
| Case runner | `rrfrida/run.py`, `cases.json` | - | look the case up, run its adapter |
| Example pipeline | `tutorial/example/*.cpp` | time of the previous call | the functions that are recorded |
| Others | `inspect.py`, `tools/`, drivers | - | printing, disassembling, building |

How they interact. The agent verifies the image and attaches its listeners, at once or when
the module is loaded. Native threads of the target run into hooks; Frida runs the agent's
JavaScript on the thread that was hooked, one thread at a time. Each thread fills its own
batch; a full batch is given a number and sent. The host calls the agent over RPC from its
main thread, and Frida's own thread hands the agent's messages to `TraceWriter.on_message`.
After the agent has finished and is unloaded, the main thread checks the buffer, writes the
file and checks again. A reader pairs the events of a file into a call forest. An adapter
checks the calls, encodes them as the input of a replay program, which is compiled and run on
the host or over adb, and compares its output with the recorded one.

What is hard about it:

* *interleaving*: the JavaScript lock is given up inside native calls the agent makes,
  once per event (`clock_gettime` through a `NativeFunction`) and in `send()`; the RPC
  thread flushes while hooks run; `on_message` runs while `record()` checks; threads of the
  target call the oracle beside the fixture; sessions share a device;
* *ordering*: numbers are taken before the message is posted, flushes walk a snapshot of
  the map of batches, exits of several probes on one address must be reversed, claims,
  clock readings and recorded calls are paired by position;
* *partial failure*: a snapshot that throws in the middle of a callback, an attach that
  fails after others succeeded, a batch rejected half way, an exception on a thread nobody
  watches, an adb call that fails after its effect, a host that dies while it writes;
* *stale state*: a module that is loaded again, during the install or the run, a predictor
  that remembers the last call;
* *liveness*: `finishobservation` waits for calls in flight on the thread that could starve
  them, with a deadline;
* *layout*: nothing in an event says where one snapshot ends and the next begins.

`PROJECT.json` lists each hazard at its line with the properties that cover it.

What makes each component correct:

* installation: nothing is ever attached to an image that is not the pinned build in every
  listed probe, and once the host goes on every listed probe is attached exactly once;
* agent: what a thread records nests and is numbered without gaps; batches never mix,
  alter or renumber events; the counters say when a call is unfinished;
* writer and file: the buffer is what the accepted batches carried, in order; what is read is
  what was written, or a prefix that is a whole forest;
* recorder: a file has no hole, an accepted one parses and is complete, and no error was
  hidden; every recording ends;
* fixture session: claims are what the probes saw; a PASS uses the readings of the recorded
  calls; every session ends;
* reader: exactly the well-nested files parse, and every call, child and instruction is
  where the nesting puts it; a snapshot is read back as it was captured;
* cases: a PASS means the implementation agrees on every recorded call it was asked about; a
  correct implementation passes; a session compares its own output and cleans up.

## 2. Modules

| Module | Models | Kind |
| --- | --- | --- |
| `TraceEvents` | an event; the writer's two stream checks and its counts; a reference definition of "call forest" by intervals | pure |
| `CallForest`, `MCCallForest` | `_assemble`, one action per branch; `single_probe` | state machine |
| `Snapshots`, `MCSnapshots` | `captureSnapshots` and `snapshot_parts` | state machine |
| `Agent`, `MCAgent` | `agent.js` from hook to message | state machine |
| `TraceWriter` | `trace_writer.py`, and `_require_required_probes` | actions |
| `TraceFile` | a file by the lengths of its parts, `decode_trace`, `read_trace` | pure |
| `BatchStream`, `MCBatchStream` | the writer on a channel that loses, repeats and reorders; a killed write; the reader | state machine |
| `RecordingContract` | what a recording promises | abstract specification |
| `Recorder`, `MCRecorder` | `record()` composed with `Agent` and `TraceWriter` | state machine |
| `Install` | declarations, `install()`, the module observer | actions |
| `FixtureSession`, `MCFixtureSession` | `run_fixture`, clock capture, `pipeline_predict`, `compare_predict`, on top of `Install` | state machine |
| `Comprehension` | the list comprehensions and sorts of adapters and agent | pure |
| `Adapters` | `compare_geom`, `compare_fixture`, `compare_pipeline` and their replay programs | pure |
| `NativeReplay` | `native_replay.py`, per session | actions |
| `CaseRun`, `MCCaseRun` | `run.py`, an adapter and its replay, sessions side by side | state machine |
| `SequenceLemmas` | concatenations and selections of sequences, for the proofs | lemmas |
| `AgentProofs` | the agent: genuine batches, numbers and runs, counters and nesting | proofs |
| `StreamProofs` | writer, file and reader on any channel | proofs |
| `RecorderProofs` | `record()`, its refinement of `RecordingContract`, and what an accepted recording promises | proofs |
| `CallForestProofs` | `_assemble` and `single_probe` | proofs |
| `FixtureProofs` | fixture sessions and the installation before them | proofs |
| `CaseRunProofs` | replays on a shared device; what a PASS of each adapter means | proofs |
| `SnapshotProofs` | the round trip of snapshots through agent and reader | proofs |

`Recorder` extends `Agent` and `TraceWriter`: the channel between them is `posted`, the
sequence of messages handed to Frida, and `handled`, how many have reached the host.
`BatchStream` extends `TraceWriter` and `TraceFile`, `FixtureSession` extends `Install`, and
`CaseRun` extends `NativeReplay`, which extends `Adapters`. `Adapters` and `Snapshots` extend
`Comprehension`.

### Agent

Variables carry the names of the code where it has one: `threadBatches`,
`threadSequences`, `batchSequence`, `eventCount`, `dropCount`, `correlation`,
`accepting` (`acceptingEntries`), `fixture` (`fixtureMemory.tid`), `enters`, `leaves`,
`hits` (`counters`), `invocations`. `stage[t]` is where a thread is: in native code, in
`onEnter` or `onLeave` of the probe at the head of `todo[t]`, reading the clock, or in
`send()`. `holder` is the JavaScript lock. `frames[t]` are the hooked calls the thread is
inside of, which the program, not the agent, keeps.

| Code | Actions |
| --- | --- |
| listener of an address, 377-385 | `Call`, `Return`, then one callback per probe |
| `onEnter`, 333-354 | `EnterSkipped`, `EnterRecorded`, `EnterThrows` |
| `onLeave`, 355-368 | `LeaveUnmatched`, `LeaveSkipped`, `LeaveRecorded`, `LeaveThrows` |
| instruction listener, 392-400 | `Hit`, `HitThrows` |
| `recordEvent`, 175-218 | up to the clock in the callback's action; then `EventDropped`, `EventBuffered`, or `BatchFull` and `SendReturns` or `SendThrows` |
| `flushBatch`, 149-163 | `BatchFull`, `BatchPosted`, `SendReturns`, `SendThrows`; on the RPC thread `FlushNothing`, `FlushThread`, `RpcBatchPosted`, `RpcSendReturns`, `RpcSendThrows` |
| RPCs, 486-541 | `BeginObservation`, `BindFixtureMemory`, `Flush`, `FinishObservation`, `PollFinished`, `DeadlinePassed`, `FlushDone` |
| `install`, 419-483 | `Install`, `InstallFails`: here only its outcome, the rest in `Install.tla` |

A step is what runs without giving up the lock. `YieldPoints` names the calls that give it
up: Frida's documentation says a `NativeFunction` call releases it, and the comment at
`agent.js:154-155` says `send()` does. With an empty `YieldPoints` a callback is atomic
with respect to other JavaScript, and an instance can show what each yield costs.

`rpcStale[t]` models the reference `flushAllBatches` holds to the batch object of a thread
(the array of entries it iterates over): while it is `<<>>`, that object is still the one
in the map; when the thread replaces its batch, the old records stay reachable here.

`log[t]` is a history variable: the events thread t has numbered, whether or not they ever
leave the agent. Every promise about files is stated against it.

Faults: an exception in `captureSnapshots` on enter, on leave or on an instruction hit; a
failing clock reading or an event larger than a batch (`drop`); a failing `send()`; a
failing install; the death of the target. Each takes a unit of `MaxFaults`.

### Recorder

`host` is the program counter of `record()`. Frida's message thread is `DeliverMessage`;
a `WriteError` it raises is printed by frida-python and remembered only in the history
variable `raised`. RPC replies travel on the same channel as messages, so a reply comes
after the messages posted before it. `LateMessages` says whether Frida may hand over
messages after `unload()` has returned: the passing runs allow it, the violation runs do
not need it.

`RecordingContract` is the abstract specification: threads number events, a file is
written once and holds a prefix of every thread's log, nothing is recorded afterwards, and
only a recording with a file is accepted. `Contract == INSTANCE RecordingContract WITH ...`
maps `log` and `file` to themselves and `verdict` to what `host` says;
`KeepsContract == Contract!Spec` is checked by a run and proved (section 4).

### Writer, file and reader

`TraceWriter` follows the order of the checks: `WithoutData` and `OutOfOrder` leave
everything as it was, `Misshapen` has used up the number, `Torn` has used up the number and
appended the whole events; messages of no known type raise as well. `TraceFile` knows a file by
lengths: header, metadata padded to eight bytes, events of a length that depends on their
phase. `FinishKilled` leaves any number of bytes around
the edges between these parts (`Cuts`); `Read` applies `decode_trace` and `_assemble`.
`CallForest` reads one event per action; its properties use the interval definitions of
`TraceEvents`, never the stack. `SingleProbeIsFlat` asks of whatever `single_probe` lets
pass that no two calls overlap and no instruction is outside a call.

`Snapshots` names a byte by the pointer it was read through and its position, and a pointer
by the moment and the source it was taken from, so that the properties can tell bytes of
the right buffer from bytes of another. A length may be declared to come from a recorded
argument, from the fifth, whose place `lr` takes in the record, or from one beyond, which the
reader refuses (`Outside`). Products are cut to a word where the code does it, before the
multiplication.

### Installation and the fixture session

`Install` has the image as a record of what `install()` reads of it: base, identity, the
bytes at the probes and the GOT slots. A load has a number, so that an image that comes back is
not taken for the one that went. `install()` goes step by step: `Starts` enters it, `Verifies`
is one turn of the loop that checks everything, first the identity and then one listed probe
after the other, `Attaches` one `Interceptor.attach` (instruction probes first, then one
listener per function address), `Installs` the end, and `InstallFails` an exception in any of
them, which leaves attached what is. Between two steps the module may be unloaded
(`ModuleUnloads`, which nothing tells the agent) and loaded (`ModuleLoads`), before the host
goes on as well as after. The observer exists only when the module was absent at the start
(`ScriptRuns`); the loader waits while it installs (`LoaderFree`).

Two things are assumed of the target. No image is mapped where the one being read was while
`install()` reads it (`Elsewhere`): the code reads at addresses and would take the new image for
the old one. And nobody is inside a module that is unloaded: its program has crashed. The
identity of a build pinned by a hash is that of the file on the disk, so a pinned image can
still be patched in memory, which is what the bytes at the probes are for.

`FixtureSession` has the host around it: `LoadsDeclarations`, `LoadReturns` (`script.load()`
returns after the top level), `InstallReported` or `InstallTimeout`, `SetsUp` or `SetupFails`,
`Binds`, `EnablesCapture`, `Begins`, `RunReturns` or `RunFails` (the fixture calls an address
where its module no longer is), `Collects`, `Stops` and `Finishes` (the two halves
of `finishobservation`; the second fails if a recorded call is still in flight at its deadline), `AgentErrorCheck`, `Unloads` and `Writes` are the lines of
`run_fixture` in order, `TargetGone` is an RPC on a dead process, and `Compares` is
`compare_predict.py` with a replay that answers what it is fed. `pipeline_predict` runs on the
fixture's thread and on `Workers` in seven steps (`Called` to `Returns`), so that two threads
can interleave around the unlocked global, which is read for the test (`TestsPrevious`) and
read again for the difference unless the compiler keeps the first value (`LoadsPrevious`), and
around the hook that keeps a clock reading when `clock_gettime` returns. A call is recorded when
it returns: how events become calls is the business of `Agent`, `Recorder` and `CallForest`.

### Cases

`Adapters` states each adapter as the recordings it refuses, the input it encodes and the
output it expects, and each replay program as what it answers. The input of `replay_geom` is a
stream of numbers, two counts and then floats with nothing to tell the cases apart, which the
program cuts up by position (`Inputs`, `ReplayGeom`); a case of a pipeline is a config, its
samples and the expected child calls. A float is a number that is only compared; a buffer is the
address that tells its role. `NativeReplay` has one action per compiler or adb call. `AdbFails` is a call of the `try` block that raises before its
effect, `AdbFailsLate` one that raises after it, `IdentifyFails` precedes the block, and
`Cleans` and `CleanFails` are the `finally` clause. What the compiler builds for one target the
other cannot run (`ForDevice`). `CaseRun` adds the lookup of the case, the adapter's checks and
the comparison.

## 3. Runs

Sizes are distinct states.

| Run | Instance | Shows |
| --- | --- | --- |
| `call_forest` | 2 threads, 3 calls, 6 events; 239k | `_assemble` parses exactly the interval forests; parents, children, roots and instructions are where the intervals put them; what `single_probe` lets pass is flat |
| `snapshots` | lists of 1-3 snapshots, required or optional, 2 flag bits, buffers of 5 and 0-9 bytes, lengths from a recorded argument, the fifth and one beyond; 2.3M | parts come back as captured, the failed ones as `None`, or the event is refused for its flags, a length or a register; a leave reads the buffers of the entry |
| `agent_callbacks` | 1 thread, 3 probes on 2 addresses, 1 instruction probe, depth 3, 5 calls/RPCs, 1 fault (throwing snapshot, dropped event, failed install); 2.7M | what is numbered nests; the counters are exact whatever throws |
| `agent_batches` | 2 threads, 1 probe, batches of 2, both yields, 5 calls/RPCs, 1 failing send; 360k | batches are runs of genuine events, numbers are used once, the inductive invariant, every callback returns |
| `batch_stream` | 5 batches of 6 shapes, at most 2 not whole, 2 other messages, 7 deliveries, metadata of 13 bytes; 657k | the writer's buffer under loss, repetition, reordering, malformed batches and messages that are none; a file cut anywhere is refused or read as a prefix |
| `recorder_atomic` | 2 threads, 2 probes on an address, 1 instruction probe, depth 2, 3 calls, 1 of 5 faults, no yields; 437k | an accepted file parses and holds every counted event; no hidden error |
| `recorder_yields` | 2 threads, batches of 1, both yields, target may die; 551k | the file is a prefix of the logs, an accepted one is whole unless an event was left at the unload, the contract is kept, `record()` ends |
| `fixture_session` | 4 images, 3 probe directories, 2 loads, 3 fixture calls and 1 of another thread, a clock up to 2, target may die; 1.2M | probes on verified images only and exactly once; claims, readings and calls match; every session ends |
| `case_run` | 2 sessions, 3091 pairs of jobs of 3 adapters on host and device with either compiler, 1 failing call; 267k | what a PASS means; a correct implementation passes; no session meets another's files |

Runs that show a disagreement between the code and what it says of itself:

| Run | Property | Counterexample |
| --- | --- | --- |
| `recorder_race` | `AcceptedParses` | the leave is counted, the clock is read, `finishobservation` flushes and replies; the accepted file ends in an open call |
| `recorder_unordered` | `AcceptedKeepsDelivered` | two threads in `send()` post in the other order; the rejected batch is the tail of its thread and nothing else notices |
| `recorder_hidden_error` | `AcceptedUnraised` | a snapshot on leave throws; the message makes `on_message` raise on Frida's thread; the recording is accepted |

### Disagreements without a run of their own

The models contain the following as the code has it; no property asks for the contrary.

Recording:

* `flushAllBatches` can send a batch its thread has already sent, and drops the one that
  replaced it (`agent.js:166`; `rpcStale`). The writer's sequence check refuses the result.
* A recording refused by `DropCheck` or `RequiredCheck` leaves its file: `WriteFile` comes
  first (`record.py:149-152`), and `tutorial/README.md:464` says the recorder refuses to
  produce it.
* A rejected batch may already have been appended (`Torn`); `trace_writer.py:3-4` says it is
  validated before.
* An instruction probe records on every thread with a fixture bound (`Hit`;
  `agent.js:494-497`).
* An optional register that cannot be read leaves no bytes where the reader skips eight:
  `snapshot_parts` then refuses the whole event (`FailedRegister`), where `format.py:216-217`
  and `tutorial/README.md:620-628` say that the failed part alone is `None`.
  `PartsAreCaptured` permits the refusal, it does not ask for it.
* A length declared to come from the fifth argument (`size_arg` 4, valid by `probes.py:166`) is
  inside the recorded registers by the check of `format.py:236-237`, but the fifth of them is
  `lr`: the reader cuts the event by it and takes the bytes of one part for another's
  (`LinkMistaken`, which `PartsAreCaptured` leaves out).
* `payload_size` is "bytes after the header, before padding" in `format.py:24`; the agent writes
  the padded size (`agent.js:179, 197`; `Padded`). What is read of the snapshot ends in up to
  seven zero bytes that belong to no part, and `require_snapshot` (`validate.py:66`) refuses
  every size that is not a multiple of eight.
* Required probes are looked up by kind (`RequiredFired`): two that share a kind cover for each
  other, where `record.py:85` fails a recording "in which a required probe never fired". In the
  repository's probe files each has its own.
* `decode_trace` ignores fewer than 40 trailing bytes (`format.py:145`), although it promises
  `TraceError` on any framing defect. `ReadIsWritten` shows that the shorter recording is
  still a whole forest.

Installation and fixtures:

* An instruction probe at the entry of a hooked function is a second listener on that
  address (`Group`), which the comment of `agent.js:14-16` rules out.
* A name listed twice is attached twice, and a probe declared again in a later file
  silently replaces the first (`Catalog`).
* A module loaded again after a successful install runs without probes (`Starts`). The
  required-probe check refuses a recording without calls; one with calls from before the reload
  is kept.
* `compare_predict` takes the fixture's claims for the expected output; `fixture.py:24-26`
  says the recording is the truth and the claims are checked against it.
* In a process that has called the predictor before, the first recorded call saw a time that
  is in no recording: the adapter fails a correct reimplementation. `AlonePasses` states
  the case in which it must not.

Adapters:

* `compare_pipeline` never compares the recorded output, the returned count, the gain or
  the scale with the replay's (`compare_pipeline.py:20, 223, 231-234`): `Passes` asks for
  any output at all, `PassMeansSameCalls` states what a PASS does mean.
* No adapter passes a build id or hash to `load` (`compare_geom.py:44-45`): `Loads` compares
  the probe set's name only.
* `compare_fixture` aligns claims with directions first: an honest fixture that calls scales
  first is refused. A claim of a kind it does not know counts as checked, a "scale"
  claim beside a direction compares two floats of three, and `returned` is not compared, although
  `compare_fixture.py:13-15` says that claims and calls that disagree reject the recording.
  `ClaimsHold` says what is left: a claim that names the function called in its place.
* `compare_pipeline` takes the first calls of a config whatever their count, and the replay
  refuses one of more than 64 samples (`replay_pipeline.cpp:192-194`, `MaxSamples`): a correct
  implementation of such a recording fails. `CorrectPasses` speaks of recordings whose chosen
  calls have room (`JobOK`).
* `--compiler ndk` without `--serial` builds a program the host cannot run (`RunsOnHost`).

Bounds and why they are enough:

* *two threads* are what every hazard above needs: one that yields and one that runs;
* *batches of one or two events* make a flush happen at almost every event, which is the
  only moment batching can go wrong; a batch of one also reaches a third batch early;
* *five calls and RPCs* (three calls when the host drives the RPCs) allow begin, two
  overlapping calls, a flush and a call after it;
* *depth 2 or 3* is recursion through a skipped and a recorded frame;
* *one fault* per behaviour (`MaxFaults`, `MaxTroubles`): the code has no handling that
  needs two; a failing `rm` is the one fault that would follow another, and it only adds to
  what `NoLeftovers` excepts;
* `FlagBits` is eight in the program and two in the run, so that a list of three exceeds it;
* *two loads* (`MaxLoads`) are an install that fails or succeeds and the module loaded again, at
  any step of the install or of the run;
* *four images* of one module: the pinned build, the same with patched code and with an unbound
  slot, which only the later checks of the loop refuse, and another build at another base;
* *three fixture calls, one call of a worker* (`FixtureCalls`, `MaxWorkerCalls`) put a
  foreign reading before, between and after the fixture's; *a clock up to 2* (`MaxClock`)
  has equal and different times between them;
* *words of four bits* (`Word`) and lengths up to 9 (`max`): a count of 18 is cut to 2;
* `CasesPerKind` is 32 in the program and 2 in the run, `CasesPerConfig` 4 and 1: recordings
  of three calls of a kind and two of a config exceed them, others fall short; `MaxSamples` is
  64 and 2, with calls of none to three samples;
* *metadata of 13 bytes* needs padding.

`CHECK_DEADLOCK FALSE` stands in the runs whose instance stops at a bound or at the end of
its input; the recorder, fixture and case runs check deadlock, with `Terminated` as the
intended end.

Fairness. `AgentFairness` is weak fairness of a callback and of the RPC thread: Frida's
lock is a queue, and a thread whose JavaScript can go on does so. Nothing is assumed of
native code: a call may never return (`Return` is not fair). The bound on calls matters
here: with unboundedly many callbacks of other threads, weak fairness would not be enough
to get the lock. `Recorder` adds weak fairness of the main thread and of Frida's message
thread. `HostTerminates` needs no more, because `finishobservation` has a deadline.
`FixtureSession` has weak fairness of the host, of the agent's JavaScript (`Script`: top level
and `install()` do not block) and of the calls `run()` itself makes on the fixture's thread;
the loader, the clock and the other threads owe nothing. `CaseRun` has no liveness property:
`subprocess.run` is called without a timeout, so a program or a device that hangs hangs the
case.

## 4. Proofs

All theorems hold for every value of the constants their modules assume.

**`AgentProofs`**, for every set of threads, addresses and probes, every batch capacity and
every choice of yield points and faults: `AgentInvariant` (`AgentSpec => []AgentInv`),
`AgentTypes`, and `EventsAuthentic`: wherever an event is, in a batch, in a batch object
only a flush still refers to, in a `send()` in flight or in a posted message, it is the
event its thread gave that number.

`Authentic` is not inductive. While a full batch is being sent, the event in hand was
numbered before the `send()` and is appended after it, when other threads and a flush may
have run: `BufferOK` adds that the thread's new batch is then empty, that the event in hand
is the one in the thread's log, that the counter is the length of the log and that a batch
never outgrows its buffer. `StageOK` ties the stage of a thread to what it has in hand: it
is what makes `Head(todo[t])` and `pending[t]` meaningful in every callback. The proof has
one lemma per action. Frame lemmas (`ThreadFrame`, `CallFrame`, ...) carry the conjuncts an
action leaves alone; `GenuineGrows` and its corollaries say that a log that grows keeps
genuine what was genuine; `PostPlain` and its kind extend `posted`.

Batches: `NumbersAreUsedOnce` and `BatchesAreAlwaysRuns`. That posted numbers
differ is not inductive, because a number is taken when a `send()` begins and posted later:
`NumberInv` adds that the batches in flight, of the threads and of a flush, have numbers of
their own that are not posted yet and not above `batchSequence`. Likewise `RunInv` says that
every batch object is a run wherever it is, and that the one the thread is filling ends with
the last number the thread has used, or the one before while an event waits for a `send()`.

Invocation stacks: `CountersAreExact` (`CountInv`: the calls on the stacks are finitely many
and are what enters exceed leaves by) and `LogsAreNested`. A thread has one invocation stack
per probe, but its log nests as if it had one. The invariant therefore merges them: the
frames of the thread, each with the probes of its address, say in which order the entries
of all stacks were pushed, which probes of the innermost frame have been called already and
which have not (`todo`); `LeaveOrder` is then exactly the order in which the merged stack
unwinds. The ids on it are the open calls of the log, in the order in which they were
entered. A thread that was in the middle of a call when the probes were attached never
returns from it through a listener, so frames start empty.

**`StreamProofs`**, for any stream of batches and any deliveries: `BufferFollows`,
`ReadsAreFaithful`. `FlattenSeq` and the offsets of a file are recursive functions: what they are is proved by well-founded induction over a *set* of naturals
(`NatInd`), which the provers can instantiate where they cannot instantiate the library's
induction theorem. `ReadsAreFaithful` has the hypothesis `[]FileNests`: `BatchStream` lets
a thread's events be anything, and `_assemble` refuses what does not nest. In a recording
files nest because of `LogsAreNested` and `FilesArePrefixes`.

**`RecorderProofs`**, under `~LateMessages`: `FilesArePrefixes` and `ContractIsKept`, the
refinement. `RecorderInv` rests on `AgentInv`, which says that what arrives at the host is
genuine, and adds that the writer's buffer is genuine (a log only grows, so it stays so)
and what `host` excludes: from `unload()` on the agent takes no step; from `balancing` to
`writing` every message has been handled, so the buffer that is written is the one whose
numbers were checked. Every step then maps to `Record`, `Write`, `Accept`, `Refuse` or a
stutter. The assumption is what that last argument needs; the run `recorder_yields` checks
both properties with late messages, on its small instance.

`RecorderTypesHold` needs no such assumption.

`AcceptedIsWhole`, under `~LateMessages` and for finitely many probes (their counters are added
up), is what can be proved of an accepted recording with the lock given up at every clock reading
and in every `send()` and with any callback, `send()` or clock failing: the file parses and holds
every counted event unless something was left (`LeftNothing`): an event inside `recordEvent` or
in a buffer when the script was unloaded, a dropped event, or a `WriteError`. Those exceptions
are what the three violation runs show: `recorder_race` leaves an event in `recordEvent`,
`recorder_unordered` and `recorder_hidden_error` make the writer raise. The theorem says that
there is no fourth way. The one it has to exclude is `flushAllBatches` (`agent.js:166`): it may
send a buffer its thread has already sent, and the buffer that replaced it is lost.

The invariant is `WholeInv`. Its parts, from the agent to the file:

* `CoverInv`: until something is dropped, every numbered event is in its thread's buffer, in
  the thread's hand, in flight or posted, *or some event is carried by two batches*. A lost
  buffer always comes with a repetition: what a flush still refers to (`rpcStale`) has been
  carried by a batch of its thread (`StaleCarried`);
* `CallPhase`: once `finishobservation` has answered without an error, no call is open and
  none begins;
* `TakenInv`: until the writer raises it takes every batch that reaches it, and an event that two
  of them carry is twice in its buffer. `Contiguous`, checked before the file is written,
  excludes that (`WholeOnce`), hence nothing was lost (`WholeHas`);
* `WrittenInv`: nothing is on its way when the file is written;
* `IdsInv`, and `CountInv`, `NestInv`, `RunInv`, `NumberInv` of `AgentProofs`: since no call is
  unfinished, the logs are balanced, and a file that holds whole logs in their order nests as they
  do (`AllHeldNest`). That no exception left a callback follows, for the writer would have raised
  on Frida's report of it (`WholeClean`).

Completeness compares a number of events with a sum of counters, and neither can be followed
by itself. `MadeInv` puts them one to one: the events of a kind that were numbered, or are
about to be, are as many as the pairs of a probe and one of the calls its counter has
counted. `SumIsTally` says that a sum over a finite set is the size of such a set of pairs,
and `AllHeldCounted` that the positions of the file are one to one with the numbers in the
logs.

**`CallForestProofs`**, for any threads, ids, kinds and length of the file: all six properties
of the run. `IInv` says, as long as no event was refused, what each list of `_assemble`
holds and in which order: a stack the open calls of its thread, `roots` and `children` the
calls with that parent, `instructions` the events whose innermost call it is. Every part is
an equivalence, which makes both directions of each property readable from it. Nothing in it
counts: `Lists` and `Nested` restate `Nests` by the ids of leaves, and `Around` restates
`Encloses` without `End`, because what surrounds an event is decided when the event happens
(`AroundStays`). `StrayLeave` and `RepeatedEnter` say that a refused file is no forest,
whatever follows.

**`FixtureProofs`**, for any images, probe files, workers, numbers of calls and course of the
clock: `ClaimsMatch`, `PassesUseOwnReadings`, `FixturesAlonePass`, `AttachedAreVerified`,
`ReadyIsAttachedOnce`. Claims and calls are paired by position, so the invariant says at each
moment how far they have grown: `InCalls` says that a call that will be recorded is the
fixture's (the binding), and that the fixture's call will be recorded unless its image has no
listeners; `Agreed` says that the recorded calls are the first of the claims, and all of them
while the image has its listeners. Claims made after the module was loaded again have no calls, and the
comparison, which needs as many of the one as of the other, does not pass. Readings are kept by
the hook on every thread, so a reading of a worker makes them more than the calls: a PASS,
which needs as many of the one as of the other, leaves no room for a foreign one. For the
installation, `AttachInv` follows the progress of `install()`: what was checked holds of the image
(`Elsewhere` is what it needs when that image goes), the listeners so far serve exactly the
positions outside `left`, each in one of them (`Served`), and an attempt that failed has left its
report, after which the host does not go on.

**`CaseRunProofs`**, for any number of sessions, any jobs and any number of failing calls, in
three layers. `ReplayInvariant`, `ResultsAreOwn` and `NothingStays`: `SessionOK` says that the
files of a session are its own program and input wherever it is; since every file bears the
name of its session, the step of another session keeps it (`OthersKeep`). Then lemmas about
the adapters, of a job alone: `CasesAre` (what is encoded was recorded, captured and is of
the two kinds), `PassAgrees` (outputs compared end to end agree call by call, because each
has three floats), `PassSameCalls` (roles, not addresses, are compared, and every config is),
`PassClaims` and `CorrectReplay`. Last `VerdictInv`, which says how far a session got and
what that implies about its input, its result and its comparison, and that a session which
deserves to pass and meets no trouble has its files on the device when its program runs.
From these `PassesAgree`, `PassesMakeSameCalls`, `ClaimsAreHeld` and `CorrectOnesPass`. That the
input is one stream makes the second layer longer than it was read: the counts in front and
the lengths of the arguments say where each call's floats are (`PartsOfStream`).

`JobsAssumption` is what they assume of a recording: that it is one of the oracle (a captured
output is what the oracle returned, and the child calls of `process` are those it makes, at
the recorded addresses), that a recording marked usable is one the adapter accepts, with no more
samples in a chosen call than the replay program has room for, and that a program has an answer to every call. It says nothing of completeness, order, claims
or which calls there are: the adapters check that.

The attempt to prove `CorrectPasses` showed two `CASE` expressions whose guards overlapped
(`Identity` when a caller passes one buffer as input and output, `Compiles`): TLC takes the
first alternative, the language leaves it open. They now say what the code's order of tests
says.

**`SnapshotProofs`**, for any declarations, arguments, pointer sources and room for flags:
`CapturedIsDecoded` and `LeaveKeepsEntryPointers`. An event was computed from the pointers the
agent kept then; `SnapInv` says that it is still what they determine
(`SameRecord`: pointers are kept on the entry only, and an entry's own do not depend on
them). The rest is about sequences: a cursor that adds up sizes is where each piece of a
concatenation begins (`BeginsGrow`, `FlattenSegments`), so the reader cuts out the pieces
(`CutOut`), unless a register could not be read: it left nothing where the reader skips
eight bytes, and as the padding is shorter the cursor overruns the event (`CursorOverruns`),
which is why such an event is refused and never misread.

There is no hypothesis about declarations beyond what `probes.py` accepts. A length outside the
recorded registers is refused (`Outside`); where the reader takes `lr` for the fifth argument and
`lr` gives another length (`LinkMistaken`), the property says nothing, and nothing good could be
said.

Assumptions of the proofs, each named and evaluated by TLC: `JS` and `Nobody` are not threads, every
hooked address has a probe, function and instruction probes are distinct, a batch has room
for one event, `None` is neither an event nor a batch, `NoFile` is not a sequence of events
(`NoFileAssumption`), at least one case of a kind is kept (`CasesAssumption`), `Refused` is
no sequence of floats (`RefusedAssumption`), declarations are lists of what
`_validate_snapshot` accepts (`DeclarationsAssumption`), arguments and `lr` are naturals
(`ArgumentsAssumption`), and `JobsAssumption`, above.

Only model-checked:

* liveness: `CallbackReturns`, `HostTerminates` and `SessionEnds` (fairness and ENABLED are
  beyond the prover);
* `FileIsPrefix`, `KeepsContract` and `AcceptedWhole` with late messages, which the theorems
  exclude and `recorder_yields` allows;
* `AcceptedParses`, `AcceptedComplete` and `AcceptedUnraised` of `recorder_atomic`: they need that
  callbacks keep the lock and that no leave or hit throws, which the code does not guarantee;
* `ReadIsWritten` for a stream of events that do not nest: the theorem excludes it.

## 5. Not modelled, and why

* `make_probes.py`, `inspect.py`, the example drivers, `build-example.ps1`: they disassemble,
  print or build; they keep no state and nothing at run time depends on them.
* ELF notes, hashing and the parsing of `module-info.js`: reads of memory; `Install` has
  their answer. Magic numbers, the JSON of the metadata and schema errors of files no writer
  of this project makes.
* `expect_children` with child kinds and `require_snapshot` (`validate.py`): no adapter uses
  them.
* `android_elf_check` and `validate_runtime_library` (`native_replay.py`): they have no
  caller.
* Timestamps and register values, except as the lengths of snapshots: nobody compares them
  across events. Floating-point arithmetic: floats are compared, never computed.
* A `send()` of an `agent_error` that fails inside the handler of a failed `send()`.
* 32-bit wrap of the per-thread sequence number: 2^32 events.
* Clock readings that fail and clocks other than `CLOCK_MONOTONIC`, which the hook skips.
* Snapshots with chained pointers are one readable-or-not read; FP registers are not encoded.

## 6. What is left

Models: the composition of `Install` with `Agent` (today its outcome is a choice), the contents
of `status` and of the metadata, `require_snapshot` once an adapter uses it. Proofs: the
recorder theorems with late messages.
