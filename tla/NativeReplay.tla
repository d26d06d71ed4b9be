---------------------------- MODULE NativeReplay ----------------------------
(***************************************************************************)
(* rrfrida/native_replay.py: compile a replay program and run it, on the   *)
(* host or on a device over adb.  Sessions run at the same time and share  *)
(* the device; an adb call may fail before or after its effect.            *)
(***************************************************************************)
EXTENDS Adapters, FiniteSets

CONSTANTS
  Sessions,
  Nothing,       \* no output yet; not a sequence
  MaxTroubles    \* bound: failing compilers and adb calls

VARIABLES
  jobs,          \* session -> [case, trace, program, target, compiler, registered]
  pc,            \* session -> where it is
  input,         \* session -> the replay's stdin
  output,        \* session -> what the replay returned
  failed,        \* sessions that left the try block by an exception
  device,        \* <<name, part>> -> contents of the files on the device
  troubles,      \* bound
  troubled,      \* history: sessions a compiler or adb failed
  unclean        \* history: sessions whose rm failed

replayVars == <<jobs, pc, input, output, failed, device, troubles, troubled, unclean>>

ReplayInit ==
  /\ pc = [s \in Sessions |-> "starting"]
  /\ input = [s \in Sessions |-> Nothing] /\ output = input
  /\ failed = {} /\ device = <<>>
  /\ troubles = 0 /\ troubled = {} /\ unclean = {}

(* Mutant: a fixed name instead of a fresh one.                            *)
SharedRemote(s) == "replay"

Remote(s) == s                               \* uuid.uuid4()
File(s, part) == <<Remote(s), part>>
Files(s) == {File(s, part) : part \in {"binary", "input", "output"}}

Goes(s, from, to) == pc[s] = from /\ pc' = [pc EXCEPT ![s] = to]

Quiet == UNCHANGED <<jobs, input, failed, troubles, troubled, unclean>>
Trouble(s) ==
  /\ troubles < MaxTroubles /\ troubles' = troubles + 1
  /\ troubled' = troubled \cup {s}

(* Only the NDK's compiler builds for AArch64, whatever the target is; what *)
(* is built is examined for a device only.                                 *)
ForDevice(s) == jobs[s].compiler = "ndk"
Compiles(s) ==
  /\ Goes(s, "compiling",
           IF jobs[s].target = "host" THEN "hosted"
           ELSE IF ForDevice(s) THEN "identifying" ELSE "FAIL")
  /\ UNCHANGED <<output, device>> /\ Quiet

CompilerFails(s) ==
  /\ Goes(s, "compiling", "FAIL") /\ Trouble(s)
  /\ UNCHANGED <<jobs, input, output, failed, device, unclean>>

(* A program of one case reads no stream of another.                       *)
Binary(s) == [case |-> jobs[s].case, program |-> jobs[s].program]
Stdin(s) == [case |-> jobs[s].case, stream |-> input[s]]
Ran(binary, stdin) ==
  IF (binary.case = "pipeline") # (stdin.case = "pipeline")
    THEN Refused ELSE Replay(binary.case, binary.program, stdin.stream)

RunsOnHost(s) ==
  LET result == IF ForDevice(s) THEN Refused ELSE Ran(Binary(s), Stdin(s))
  IN  /\ Goes(s, "hosted", IF result = Refused THEN "FAIL" ELSE "comparing")
      /\ output' = [output EXCEPT ![s] = result]
      /\ UNCHANGED device /\ Quiet

-----------------------------------------------------------------------------
(* _run_on_android                                                         *)

Pushed(s, part, content) ==
  device' = [f \in DOMAIN device \cup {File(s, part)} |->
               IF f = File(s, part) THEN content ELSE device[f]]

Identifies(s) ==
  Goes(s, "identifying", "pushing") /\ UNCHANGED <<output, device>> /\ Quiet
PushesBinary(s) ==
  /\ Goes(s, "pushing", "marking") /\ Pushed(s, "binary", Binary(s))
  /\ UNCHANGED output /\ Quiet
Marks(s) == Goes(s, "marking", "feeding") /\ UNCHANGED <<output, device>> /\ Quiet
PushesInput(s) ==
  /\ Goes(s, "feeding", "running") /\ Pushed(s, "input", Stdin(s))
  /\ UNCHANGED output /\ Quiet

Present(s) == {File(s, "binary"), File(s, "input")} \subseteq DOMAIN device
DeviceResult(s) == Ran(device[File(s, "binary")], device[File(s, "input")])

(* The shell creates the output file even for a program that fails.        *)
RunsOnDevice(s) ==
  /\ Present(s) /\ DeviceResult(s) # Refused
  /\ Goes(s, "running", "fetching") /\ Pushed(s, "output", DeviceResult(s))
  /\ UNCHANGED output /\ Quiet
ReplayMismatch(s) ==
  /\ Present(s) => DeviceResult(s) = Refused
  /\ Goes(s, "running", "cleaning") /\ Pushed(s, "output", <<>>)
  /\ failed' = failed \cup {s}
  /\ UNCHANGED <<jobs, input, output, troubles, troubled, unclean>>

Fetches(s) ==
  /\ Goes(s, "fetching", "cleaning")
  /\ output' = [output EXCEPT ![s] = IF File(s, "output") \in DOMAIN device
                                       THEN device[File(s, "output")] ELSE <<>>]
  /\ UNCHANGED device /\ Quiet

(* Mutant: no finally clause.                                              *)
GivesUp(s, from) == Goes(s, from, "FAIL") /\ UNCHANGED <<device, failed>>

(* An adb call of the try block raises, with or without its effect.        *)
Raises(s, from) == Goes(s, from, "cleaning") /\ UNCHANGED device /\ failed' = failed \cup {s}

Steps == {"pushing", "marking", "feeding", "running", "fetching"}
AdbFails(s) ==
  /\ \E from \in Steps : Raises(s, from)
  /\ Trouble(s)
  /\ UNCHANGED <<jobs, input, output, unclean>>
Partial(s) ==
  CASE pc[s] = "pushing" -> Pushed(s, "binary", Binary(s))
    [] pc[s] = "feeding" -> Pushed(s, "input", Stdin(s))
    [] OTHER             -> Pushed(s, "output", <<>>)
AdbFailsLate(s) ==
  /\ pc[s] \in {"pushing", "feeding", "running"} /\ Partial(s)
  /\ pc' = [pc EXCEPT ![s] = "cleaning"] /\ failed' = failed \cup {s}
  /\ Trouble(s)
  /\ UNCHANGED <<jobs, input, output, unclean>>

(* getprop runs before the try block.                                      *)
IdentifyFails(s) ==
  /\ Goes(s, "identifying", "FAIL") /\ Trouble(s)
  /\ UNCHANGED <<jobs, input, output, failed, device, unclean>>

Without(files) == [f \in DOMAIN device \ files |-> device[f]]

(* The finally clause; an rm that fails replaces the result.               *)
Cleans(s) ==
  /\ Goes(s, "cleaning", IF s \in failed THEN "FAIL" ELSE "comparing")
  /\ device' = Without(Files(s))
  /\ UNCHANGED output /\ Quiet
CleanFails(s) ==
  /\ Goes(s, "cleaning", "FAIL") /\ Trouble(s)
  /\ device' \in {device, Without(Files(s))}
  /\ unclean' = unclean \cup {s}
  /\ UNCHANGED <<jobs, input, output, failed>>

ReplayStep(s) ==
  \/ Compiles(s) \/ CompilerFails(s) \/ RunsOnHost(s)
  \/ Identifies(s) \/ PushesBinary(s) \/ Marks(s) \/ PushesInput(s)
  \/ RunsOnDevice(s) \/ ReplayMismatch(s) \/ Fetches(s)
  \/ AdbFails(s) \/ AdbFailsLate(s) \/ IdentifyFails(s) \/ Cleans(s) \/ CleanFails(s)

-----------------------------------------------------------------------------
Over(s) == pc[s] \in {"PASS", "FAIL"}

(* What a session compares is what its own program made of its own input,  *)
(* whatever other sessions do on the device (native_replay.py:96).         *)
OutputIsOwn ==
  \A s \in Sessions : pc[s] \in {"comparing", "PASS"} =>
    output[s] = Ran(Binary(s), Stdin(s))

(* A session whose rm did not fail leaves nothing on the device, wherever  *)
(* it was interrupted, and a call that failed may have had its effect.     *)
NoLeftovers ==
  \A s \in Sessions : Over(s) /\ s \notin unclean => Files(s) \cap DOMAIN device = {}
=============================================================================
