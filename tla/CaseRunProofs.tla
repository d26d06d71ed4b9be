---------------------------- MODULE CaseRunProofs ----------------------------
(***************************************************************************)
(* Proofs about replays on a shared device, for any sessions, jobs,        *)
(* adapters' inputs and number of failing calls: a session compares the    *)
(* output of its own program on its own input, and leaves nothing behind.  *)
(* The files of a session bear its name, so a step of another session      *)
(* disturbs nothing (OthersKeep); what a session does to its own files is  *)
(* shown action by action.                                                 *)
(***************************************************************************)
EXTENDS CaseRun, SequenceLemmas

Places == {"starting", "compiling", "hosted", "identifying", "pushing", "marking",
           "feeding", "running", "fetching", "cleaning", "comparing", "PASS", "FAIL"}
Parts == {"binary", "input", "output"}

ReplayTypeOK ==
  /\ pc \in [Sessions -> Places]
  /\ DOMAIN input = Sessions /\ DOMAIN output = Sessions

Holds(s, part, content) ==
  File(s, part) \in DOMAIN device => device[File(s, part)] = content
Clean(s) == \A part \in Parts : File(s, part) \notin DOMAIN device
OwnResult(s) == output[s] = Ran(Binary(s), Stdin(s))

(* The files of a session are its own program and input wherever it is;    *)
(* its output file counts only until it is fetched.                        *)
SessionOK(s) ==
  /\ Holds(s, "binary", Binary(s)) /\ Holds(s, "input", Stdin(s))
  /\ pc[s] = "fetching" =>
       /\ File(s, "output") \in DOMAIN device
       /\ device[File(s, "output")] = Ran(Binary(s), Stdin(s))
  /\ s \in failed => pc[s] \in {"cleaning", "FAIL"}
  /\ s \in unclean => pc[s] = "FAIL"
  /\ pc[s] = "cleaning" /\ s \notin failed => OwnResult(s)
  /\ pc[s] \in {"comparing", "PASS"} => OwnResult(s)
  /\ pc[s] \in {"starting", "compiling", "hosted", "identifying", "comparing", "PASS",
                "FAIL"} /\ s \notin unclean => Clean(s)

ReplayInv == ReplayTypeOK /\ \A s \in Sessions : SessionOK(s)

-----------------------------------------------------------------------------
LEMMA InitReplay == Init => ReplayInv
BY DEF Init, ReplayInit, ReplayInv, ReplayTypeOK, Places, SessionOK, Holds, Clean,
       Parts, OwnResult

(* A session is not disturbed by a step that leaves its place, its input,  *)
(* its output and its files alone.                                         *)
Untouched(s) ==
  /\ pc'[s] = pc[s] /\ input'[s] = input[s] /\ output'[s] = output[s]
  /\ s \in failed' <=> s \in failed
  /\ s \in unclean' <=> s \in unclean
  /\ \A part \in Parts :
       /\ File(s, part) \in DOMAIN device' <=> File(s, part) \in DOMAIN device
       /\ File(s, part) \in DOMAIN device =>
            device'[File(s, part)] = device[File(s, part)]

LEMMA OthersKeep ==
  ASSUME NEW s, SessionOK(s), Untouched(s), UNCHANGED jobs
  PROVE  SessionOK(s)'
<1>1. UNCHANGED <<Binary(s), Stdin(s)>>
  BY DEF Untouched, Binary, Stdin
<1>2. \A part : (File(s, part))' = File(s, part)
  BY DEF File, Remote
<1> QED BY <1>1, <1>2 DEF SessionOK, Holds, Clean, OwnResult, Untouched, Parts

(* Two sessions have no file in common.                                    *)
LEMMA FilesApart ==
  ASSUME NEW s \in Sessions, NEW t \in Sessions, NEW a \in Parts, NEW b \in Parts
  PROVE  File(s, a) = File(t, b) <=> s = t /\ a = b
BY DEF File, Remote

-----------------------------------------------------------------------------
(* What the ways of changing the device do to the files of a session.      *)
FileKept(t, part) ==
  /\ File(t, part) \in DOMAIN device' <=> File(t, part) \in DOMAIN device
  /\ File(t, part) \in DOMAIN device => device'[File(t, part)] = device[File(t, part)]
OthersFilesKept(s) == \A t \in Sessions \ {s} : \A part \in Parts : FileKept(t, part)

LEMMA PushedFiles ==
  ASSUME NEW s \in Sessions, NEW part \in Parts, NEW content, Pushed(s, part, content)
  PROVE  /\ OthersFilesKept(s)
         /\ \A p \in Parts \ {part} : FileKept(s, p)
         /\ File(s, part) \in DOMAIN device' /\ device'[File(s, part)] = content
<1>1. \A t \in Sessions, p \in Parts : <<t, p>> # <<s, part>> => FileKept(t, p)
  BY FilesApart DEF Pushed, FileKept
<1>2. File(s, part) \in DOMAIN device' /\ device'[File(s, part)] = content
  BY DEF Pushed
<1> QED BY <1>1, <1>2 DEF OthersFilesKept

LEMMA WithoutFiles ==
  ASSUME NEW s \in Sessions, device' = Without(Files(s))
  PROVE  OthersFilesKept(s) /\ Clean(s)'
<1>1. \A t \in Sessions, p \in Parts : File(t, p) \in Files(s) <=> t = s
  BY FilesApart DEF Files, Parts
<1>2. \A t \in Sessions, p \in Parts :
        File(t, p) \in DOMAIN device' <=> File(t, p) \in DOMAIN device /\ t # s
  BY <1>1 DEF Without
<1>3. \A t \in Sessions \ {s}, p \in Parts :
        File(t, p) \in DOMAIN device => device'[File(t, p)] = device[File(t, p)]
  BY <1>1 DEF Without
<1>4. OthersFilesKept(s)
  BY <1>2, <1>3 DEF OthersFilesKept, FileKept
<1>5. Clean(s)'
  BY <1>2 DEF Clean, File, Remote
<1> QED BY <1>4, <1>5

LEMMA SameFiles ==
  ASSUME UNCHANGED device
  PROVE  \A t, p : FileKept(t, p)
BY DEF FileKept, File, Remote

(* A step of s changes the variables at s only.                            *)
Changes(s) ==
  /\ UNCHANGED jobs /\ ReplayTypeOK'
  /\ \A t \in Sessions \ {s} :
       /\ pc'[t] = pc[t] /\ input'[t] = input[t] /\ output'[t] = output[t]
       /\ t \in failed' <=> t \in failed
       /\ t \in unclean' <=> t \in unclean

LEMMA OneSession ==
  ASSUME NEW s \in Sessions, ReplayInv, Changes(s), OthersFilesKept(s), SessionOK(s)'
  PROVE  ReplayInv'
<1>1. ReplayTypeOK'
  BY DEF Changes
<1>2. ASSUME NEW t \in Sessions, t # s PROVE SessionOK(t)'
  <2>1. Untouched(t)
    BY <1>2 DEF Changes, OthersFilesKept, FileKept, Untouched
  <2> QED BY <2>1, OthersKeep, <1>2 DEF ReplayInv, Changes
<1> QED BY <1>1, <1>2 DEF ReplayInv

(* A step of s that does not change what it works for and leaves the two   *)
(* files it reads as they were.                                            *)
LEMMA HoldsKept ==
  ASSUME NEW s \in Sessions, SessionOK(s), UNCHANGED jobs, input'[s] = input[s],
         \A part \in {"binary", "input"} : FileKept(s, part)
  PROVE  Holds(s, "binary", Binary(s))' /\ Holds(s, "input", Stdin(s))'
<1>1. UNCHANGED <<Binary(s), Stdin(s)>>
  BY DEF Binary, Stdin
<1> QED BY <1>1 DEF SessionOK, Holds, FileKept, File, Remote

(* A step between two places where a session has no file on the device.    *)
Idle == {"starting", "compiling", "hosted", "identifying", "comparing"}

LEMMA IdleStep ==
  ASSUME NEW s \in Sessions, ReplayInv, Changes(s), UNCHANGED <<device, failed, unclean>>,
         pc[s] \in Idle, pc'[s] \in Idle \cup {"PASS", "FAIL"},
         pc'[s] \in {"comparing", "PASS"} => OwnResult(s)'
  PROVE  ReplayInv'
<1>1. OthersFilesKept(s)
  BY SameFiles DEF OthersFilesKept
<1>2. SessionOK(s)
  BY DEF ReplayInv
<1>3. Clean(s)
  BY <1>2 DEF SessionOK, Idle
<1>4. Clean(s)'
  BY <1>3, SameFiles DEF Clean, FileKept, File, Remote
<1>5. SessionOK(s)'
  BY <1>2, <1>4 DEF SessionOK, Holds, Clean, Parts, Idle, File, Remote
<1> QED BY <1>1, <1>5, OneSession

-----------------------------------------------------------------------------
(* Steps on the host: a session has nothing on the device.                 *)

LEMMA StartsKeeps ==
  ASSUME NEW s \in Sessions, ReplayInv, Starts(s)
  PROVE  ReplayInv'
<1>1. Changes(s) /\ pc'[s] \in {"compiling", "FAIL"} /\ pc[s] = "starting"
  BY DEF Starts, Goes, Changes, Places, ReplayInv, ReplayTypeOK
<1> QED BY <1>1, IdleStep DEF Starts, Idle

LEMMA CompilesKeeps ==
  ASSUME NEW s \in Sessions, ReplayInv, Compiles(s) \/ CompilerFails(s) \/ IdentifyFails(s)
  PROVE  ReplayInv'
<1>1. /\ Changes(s) /\ UNCHANGED <<device, failed, unclean>>
      /\ pc[s] \in Idle /\ pc'[s] \in {"hosted", "identifying", "FAIL"}
  BY DEF Compiles, CompilerFails, IdentifyFails, Goes, Changes, Places, ReplayInv,
         ReplayTypeOK, Quiet, Trouble, Idle
<1> QED BY <1>1, IdleStep DEF Idle

LEMMA RunsOnHostKeeps ==
  ASSUME NEW s \in Sessions, ReplayInv, RunsOnHost(s)
  PROVE  ReplayInv'
<1>1. /\ Changes(s) /\ UNCHANGED <<device, failed, unclean, jobs, input>>
      /\ pc[s] = "hosted" /\ pc'[s] \in {"comparing", "FAIL"}
      /\ pc'[s] = "comparing" => output'[s] = Ran(Binary(s), Stdin(s))
  BY DEF RunsOnHost, Goes, Changes, Places, ReplayInv, ReplayTypeOK, Quiet
<1>2. UNCHANGED <<Binary(s), Stdin(s)>>
  BY <1>1 DEF Binary, Stdin
<1>3. pc'[s] = "comparing" => OwnResult(s)'
  BY <1>1, <1>2 DEF OwnResult
<1> QED BY <1>1, <1>3, IdleStep DEF Idle

LEMMA ComparesKeeps ==
  ASSUME NEW s \in Sessions, ReplayInv, Compares(s)
  PROVE  ReplayInv'
<1>1. /\ Changes(s) /\ UNCHANGED <<device, failed, unclean, jobs, input, output>>
      /\ pc[s] = "comparing" /\ pc'[s] \in {"PASS", "FAIL"}
  BY DEF Compares, Goes, Changes, Places, ReplayInv, ReplayTypeOK, Quiet
<1>2. UNCHANGED <<Binary(s), Stdin(s)>>
  BY <1>1 DEF Binary, Stdin
<1>3. OwnResult(s)'
  BY <1>1, <1>2 DEF ReplayInv, SessionOK, OwnResult
<1> QED BY <1>1, <1>3, IdleStep DEF Idle

-----------------------------------------------------------------------------
(* Steps of _run_on_android.                                               *)

LEMMA IdentifiesKeeps ==
  ASSUME NEW s \in Sessions, ReplayInv, Identifies(s) \/ Marks(s)
  PROVE  ReplayInv'
<1>1. /\ Changes(s) /\ UNCHANGED <<device, failed, unclean, jobs, input>>
      /\ pc[s] \in {"identifying", "marking"} /\ pc'[s] \in {"pushing", "feeding"}
  BY DEF Identifies, Marks, Goes, Changes, Places, ReplayInv, ReplayTypeOK, Quiet
<1>2. OthersFilesKept(s) /\ \A part : FileKept(s, part)
  BY <1>1, SameFiles DEF OthersFilesKept
<1>3. SessionOK(s)
  BY DEF ReplayInv
<1>4. SessionOK(s)'
  BY <1>1, <1>2, <1>3, HoldsKept DEF SessionOK
<1> QED BY <1>1, <1>2, <1>4, OneSession

LEMMA PushesBinaryKeeps ==
  ASSUME NEW s \in Sessions, ReplayInv, PushesBinary(s)
  PROVE  ReplayInv'
<1>1. /\ Changes(s) /\ UNCHANGED <<failed, unclean, jobs, input>>
      /\ pc[s] = "pushing" /\ pc'[s] = "marking"
  BY DEF PushesBinary, Goes, Changes, Places, ReplayInv, ReplayTypeOK, Quiet
<1>2. /\ OthersFilesKept(s) /\ FileKept(s, "input")
      /\ device'[File(s, "binary")] = Binary(s)
  BY PushedFiles DEF PushesBinary, Parts
<1>3. SessionOK(s)
  BY DEF ReplayInv
<1>4. UNCHANGED <<Binary(s), Stdin(s)>>
  BY <1>1 DEF Binary, Stdin
<1>5. SessionOK(s)'
  BY <1>1, <1>2, <1>3, <1>4 DEF SessionOK, Holds, FileKept, File, Remote
<1> QED BY <1>1, <1>2, <1>5, OneSession

LEMMA PushesInputKeeps ==
  ASSUME NEW s \in Sessions, ReplayInv, PushesInput(s)
  PROVE  ReplayInv'
<1>1. /\ Changes(s) /\ UNCHANGED <<failed, unclean, jobs, input>>
      /\ pc[s] = "feeding" /\ pc'[s] = "running"
  BY DEF PushesInput, Goes, Changes, Places, ReplayInv, ReplayTypeOK, Quiet
<1>2. /\ OthersFilesKept(s) /\ FileKept(s, "binary")
      /\ device'[File(s, "input")] = Stdin(s)
  BY PushedFiles DEF PushesInput, Parts
<1>3. SessionOK(s)
  BY DEF ReplayInv
<1>4. UNCHANGED <<Binary(s), Stdin(s)>>
  BY <1>1 DEF Binary, Stdin
<1>5. SessionOK(s)'
  BY <1>1, <1>2, <1>3, <1>4 DEF SessionOK, Holds, FileKept, File, Remote
<1> QED BY <1>1, <1>2, <1>5, OneSession

(* The program on the device is that of s, and so is what it reads.        *)
LEMMA OwnDeviceResult ==
  ASSUME NEW s \in Sessions, SessionOK(s), Present(s)
  PROVE  DeviceResult(s) = Ran(Binary(s), Stdin(s))
BY DEF SessionOK, Holds, Present, DeviceResult

LEMMA RunsOnDeviceKeeps ==
  ASSUME NEW s \in Sessions, ReplayInv, RunsOnDevice(s)
  PROVE  ReplayInv'
<1>1. /\ Changes(s) /\ UNCHANGED <<failed, unclean, jobs, input>>
      /\ pc[s] = "running" /\ pc'[s] = "fetching"
  BY DEF RunsOnDevice, Goes, Changes, Places, ReplayInv, ReplayTypeOK, Quiet
<1>2. SessionOK(s)
  BY DEF ReplayInv
<1>3. /\ OthersFilesKept(s) /\ \A part \in {"binary", "input"} : FileKept(s, part)
      /\ File(s, "output") \in DOMAIN device'
      /\ device'[File(s, "output")] = Ran(Binary(s), Stdin(s))
  BY <1>2, PushedFiles, OwnDeviceResult DEF RunsOnDevice, Parts
<1>4. UNCHANGED <<Binary(s), Stdin(s), File(s, "output")>>
  BY <1>1 DEF Binary, Stdin, File, Remote
<1>5. SessionOK(s)'
  BY <1>1, <1>2, <1>3, <1>4, HoldsKept DEF SessionOK
<1> QED BY <1>1, <1>3, <1>5, OneSession

LEMMA FetchesKeeps ==
  ASSUME NEW s \in Sessions, ReplayInv, Fetches(s)
  PROVE  ReplayInv'
<1>1. /\ Changes(s) /\ UNCHANGED <<device, failed, unclean, jobs, input>>
      /\ pc[s] = "fetching" /\ pc'[s] = "cleaning"
  BY DEF Fetches, Goes, Changes, Places, ReplayInv, ReplayTypeOK, Quiet
<1>2. OthersFilesKept(s) /\ \A part : FileKept(s, part)
  BY <1>1, SameFiles DEF OthersFilesKept
<1>3. SessionOK(s)
  BY DEF ReplayInv
<1>4. output'[s] = Ran(Binary(s), Stdin(s))
  BY <1>1, <1>3 DEF Fetches, SessionOK, ReplayInv, ReplayTypeOK
<1>5. UNCHANGED <<Binary(s), Stdin(s)>>
  BY <1>1 DEF Binary, Stdin
<1>6. SessionOK(s)'
  BY <1>1, <1>2, <1>3, <1>4, <1>5, HoldsKept DEF SessionOK, OwnResult
<1> QED BY <1>1, <1>2, <1>6, OneSession

(* An exception of the try block: the session will be cleaned and fail.    *)
LEMMA FailingStep ==
  ASSUME NEW s \in Sessions, ReplayInv, Changes(s), OthersFilesKept(s),
         UNCHANGED <<jobs, input, unclean>>, s \in failed',
         pc[s] \in Steps, pc'[s] = "cleaning",
         Holds(s, "binary", Binary(s))', Holds(s, "input", Stdin(s))'
  PROVE  ReplayInv'
<1>1. SessionOK(s)
  BY DEF ReplayInv
<1>2. SessionOK(s)'
  BY <1>1 DEF SessionOK, Steps
<1> QED BY <1>2, OneSession

LEMMA ReplayMismatchKeeps ==
  ASSUME NEW s \in Sessions, ReplayInv, ReplayMismatch(s)
  PROVE  ReplayInv'
<1>1. /\ Changes(s) /\ UNCHANGED <<jobs, input, unclean>> /\ s \in failed'
      /\ pc[s] \in Steps /\ pc'[s] = "cleaning"
  BY DEF ReplayMismatch, Goes, Changes, Places, ReplayInv, ReplayTypeOK, Steps
<1>2. OthersFilesKept(s) /\ \A part \in {"binary", "input"} : FileKept(s, part)
  BY PushedFiles DEF ReplayMismatch, Parts
<1> QED BY <1>1, <1>2, HoldsKept, FailingStep DEF ReplayInv

LEMMA AdbFailsKeeps ==
  ASSUME NEW s \in Sessions, ReplayInv, AdbFails(s)
  PROVE  ReplayInv'
<1>1. /\ Changes(s) /\ UNCHANGED <<jobs, input, unclean, device>> /\ s \in failed'
      /\ pc[s] \in Steps /\ pc'[s] = "cleaning"
  BY DEF AdbFails, Raises, Goes, Changes, Places, ReplayInv, ReplayTypeOK, Steps
<1>2. OthersFilesKept(s) /\ \A part : FileKept(s, part)
  BY <1>1, SameFiles DEF OthersFilesKept
<1> QED BY <1>1, <1>2, HoldsKept, FailingStep DEF ReplayInv

LEMMA AdbFailsLateKeeps ==
  ASSUME NEW s \in Sessions, ReplayInv, AdbFailsLate(s)
  PROVE  ReplayInv'
<1>1. /\ Changes(s) /\ UNCHANGED <<jobs, input, unclean>> /\ s \in failed'
      /\ pc[s] \in {"pushing", "feeding", "running"} /\ pc'[s] = "cleaning"
  BY DEF AdbFailsLate, Changes, Places, ReplayInv, ReplayTypeOK
<1>2. SessionOK(s)
  BY DEF ReplayInv
<1>3. UNCHANGED <<Binary(s), Stdin(s)>>
  BY <1>1 DEF Binary, Stdin
<1>4. /\ OthersFilesKept(s)
      /\ Holds(s, "binary", Binary(s))' /\ Holds(s, "input", Stdin(s))'
  <2>1. CASE pc[s] = "pushing"
    <3>1. Pushed(s, "binary", Binary(s))
      BY <2>1 DEF AdbFailsLate, Partial
    <3> QED BY <3>1, <1>2, <1>3, PushedFiles DEF SessionOK, Holds, FileKept, Parts,
               File, Remote
  <2>2. CASE pc[s] = "feeding"
    <3>1. Pushed(s, "input", Stdin(s))
      BY <2>2 DEF AdbFailsLate, Partial
    <3> QED BY <3>1, <1>2, <1>3, PushedFiles DEF SessionOK, Holds, FileKept, Parts,
               File, Remote
  <2>3. CASE pc[s] = "running"
    <3>1. Pushed(s, "output", <<>>)
      BY <2>3 DEF AdbFailsLate, Partial
    <3> QED BY <3>1, <1>1, <1>2, PushedFiles, HoldsKept DEF Parts
  <2> QED BY <1>1, <2>1, <2>2, <2>3
<1> QED BY <1>1, <1>4, FailingStep DEF Steps

LEMMA CleansKeeps ==
  ASSUME NEW s \in Sessions, ReplayInv, Cleans(s)
  PROVE  ReplayInv'
<1>1. /\ Changes(s) /\ UNCHANGED <<jobs, input, output, failed, unclean>>
      /\ pc[s] = "cleaning" /\ pc'[s] = IF s \in failed THEN "FAIL" ELSE "comparing"
  BY DEF Cleans, Goes, Changes, Places, ReplayInv, ReplayTypeOK, Quiet
<1>2. OthersFilesKept(s) /\ Clean(s)'
  BY WithoutFiles DEF Cleans
<1>3. SessionOK(s)
  BY DEF ReplayInv
<1>4. UNCHANGED <<Binary(s), Stdin(s)>>
  BY <1>1 DEF Binary, Stdin
<1>5. SessionOK(s)'
  BY <1>1, <1>2, <1>3, <1>4 DEF SessionOK, Holds, Clean, Parts, OwnResult, File, Remote
<1> QED BY <1>1, <1>2, <1>5, OneSession

LEMMA CleanFailsKeeps ==
  ASSUME NEW s \in Sessions, ReplayInv, CleanFails(s)
  PROVE  ReplayInv'
<1>1. /\ Changes(s) /\ UNCHANGED <<jobs, input, output, failed>> /\ s \in unclean'
      /\ pc[s] = "cleaning" /\ pc'[s] = "FAIL"
  BY DEF CleanFails, Goes, Changes, Places, ReplayInv, ReplayTypeOK
<1>2. SessionOK(s)
  BY DEF ReplayInv
<1>3. /\ OthersFilesKept(s)
      /\ Holds(s, "binary", Binary(s))' /\ Holds(s, "input", Stdin(s))'
  <2>1. CASE UNCHANGED device
    BY <2>1, <1>1, <1>2, SameFiles, HoldsKept DEF OthersFilesKept
  <2>2. CASE device' = Without(Files(s))
    <3>1. OthersFilesKept(s) /\ Clean(s)'
      BY <2>2, WithoutFiles
    <3> QED BY <3>1 DEF Clean, Holds, Parts, File, Remote
  <2> QED BY <2>1, <2>2 DEF CleanFails
<1>4. SessionOK(s)'
  BY <1>1, <1>2, <1>3 DEF SessionOK
<1> QED BY <1>1, <1>3, <1>4, OneSession

-----------------------------------------------------------------------------
LEMMA ReplayNext == ReplayInv /\ [Next]_vars => ReplayInv'
<1> SUFFICES ASSUME ReplayInv, [Next]_vars PROVE ReplayInv'
  OBVIOUS
<1>1. CASE UNCHANGED vars
  BY <1>1 DEF vars, replayVars, ReplayInv, ReplayTypeOK, SessionOK, Holds, Clean,
              OwnResult, Binary, Stdin, File, Remote
<1>2. ASSUME NEW s \in Sessions, Starts(s) \/ ReplayStep(s) \/ Compares(s)
      PROVE  ReplayInv'
  BY <1>2, StartsKeeps, CompilesKeeps, RunsOnHostKeeps, ComparesKeeps, IdentifiesKeeps,
     PushesBinaryKeeps, PushesInputKeeps, RunsOnDeviceKeeps, FetchesKeeps,
     ReplayMismatchKeeps, AdbFailsKeeps, AdbFailsLateKeeps, CleansKeeps, CleanFailsKeeps
     DEF ReplayStep
<1> QED BY <1>1, <1>2 DEF Next, Terminated

(* What is on the device, and what a session has fetched, is its own.      *)
THEOREM ReplayInvariant == Spec => []ReplayInv
BY InitReplay, ReplayNext, PTL DEF Spec

(* Whatever sessions share the device and whichever calls fail, what a     *)
(* session compares is what its own program made of its own input: the     *)
(* names of _run_on_android keep sessions apart.                           *)
THEOREM ResultsAreOwn == Spec => []OutputIsOwn
<1>1. ReplayInv => OutputIsOwn
  BY DEF ReplayInv, SessionOK, OwnResult, OutputIsOwn
<1> QED BY <1>1, ReplayInvariant, PTL

(* The finally clause of _run_on_android leaves nothing behind, whichever  *)
(* call raised and whether or not it had its effect, unless rm failed.     *)
THEOREM NothingStays == Spec => []NoLeftovers
<1>1. ReplayInv => NoLeftovers
  BY DEF ReplayInv, SessionOK, Clean, Parts, NoLeftovers, Over, Files
<1> QED BY <1>1, ReplayInvariant, PTL
-----------------------------------------------------------------------------
(* What the adapters select, encode and compare, for any job.              *)

LEMMA OfKindIs ==
  ASSUME NEW S, NEW calls \in Seq(S), NEW kind
  PROVE  /\ OfKind(calls, kind) \in Seq(S)
         /\ \A n \in DOMAIN OfKind(calls, kind) :
              OfKind(calls, kind)[n].kind = kind /\ OfKind(calls, kind)[n] \in S
<1> DEFINE wanted == {n \in DOMAIN calls : calls[n].kind = kind}
           picked == OfKind(calls, kind)
<1>1. picked \in Seq(S) /\ SelectedFrom(calls, wanted, picked)
  BY PickedIs DEF OfKind
<1> HIDE DEF picked
<1>2. \A n \in DOMAIN picked : picked[n] \in S
  BY <1>1
<1>3. \A n \in DOMAIN picked : picked[n].kind = kind
  BY <1>1 DEF SelectedFrom
<1> QED BY <1>1, <1>2, <1>3 DEF picked

LEMMA PrefixIs ==
  ASSUME NEW S, NEW s \in Seq(S), NEW n \in Nat
  PROVE  /\ Prefix(s, n) \in Seq(S)
         /\ Len(Prefix(s, n)) = IF Len(s) < n THEN Len(s) ELSE n
         /\ \A i \in 1..Len(Prefix(s, n)) : Prefix(s, n)[i] = s[i]
BY DEF Prefix

(* Calls of a kind whose arguments and outputs were captured.              *)
Comparable(j, calls, kind) ==
  /\ kind \in {"scale", "direction"}
  /\ calls \in Seq(Range(j.trace.calls))
  /\ \A n \in DOMAIN calls : calls[n].captured /\ calls[n].kind = kind

Answers(j, calls) == [n \in DOMAIN calls |-> j.program[calls[n].kind][calls[n].arg]]
Part(calls, part) == [n \in DOMAIN calls |-> calls[n][part]]

LEMMA ThreeFloats == \A s \in Output : s \in Seq(Numbers) /\ Len(s) = 3
<1>1. ASSUME NEW s \in Output PROVE s \in Seq(Numbers) /\ Len(s) = 3
  <2>1. s \in [1..3 -> Numbers]
    BY DEF Output
  <2>2. \A n \in Nat : s \in [1..n -> Numbers] => s \in Seq(Numbers) /\ Len(s) = n
    OBVIOUS
  <2> QED BY <2>1, <2>2
<1> QED BY <1>1

LEMMA ComparableCall ==
  ASSUME NEW j, JobOK(j), NEW kind, NEW calls, Comparable(j, calls, kind),
         NEW n \in DOMAIN calls
  PROVE  /\ j.program[kind][calls[n].arg] \in Output
         /\ calls[n].out \in Output /\ calls[n].out = Oracle[kind][calls[n].arg]
         /\ calls[n].arg \in [1..Floats[kind] -> Numbers]
<1>1. n \in 1..Len(calls) /\ calls \in Seq(Range(j.trace.calls))
  BY DEF Comparable
<1>2. /\ calls[n] \in Range(j.trace.calls)
      /\ calls[n].captured /\ calls[n].kind = kind /\ kind # "process"
  BY <1>1, ElementOfSeq DEF Comparable
<1> QED BY <1>2 DEF JobOK, OfOracle

LEMMA ComparableOutputs ==
  ASSUME NEW j, JobOK(j), NEW kind, NEW calls, Comparable(j, calls, kind)
  PROVE  LET answers == Answers(j, calls)
             outs == Part(calls, "out")
         IN  /\ answers \in Seq(Seq(Numbers)) /\ outs \in Seq(Seq(Numbers))
             /\ Len(answers) = Len(calls) /\ Len(outs) = Len(calls)
             /\ \A n \in 1..Len(calls) : Len(answers[n]) = 3 /\ Len(outs[n]) = 3
<1>1. DOMAIN calls = 1..Len(calls) /\ Len(calls) \in Nat
  BY DEF Comparable
<1>2. \A n \in DOMAIN calls :
        Answers(j, calls)[n] \in Output /\ Part(calls, "out")[n] \in Output
  <2>1. ASSUME NEW n \in DOMAIN calls
        PROVE  j.program[kind][calls[n].arg] \in Output /\ calls[n].out \in Output
    BY <2>1, ComparableCall
  <2>2. \A n \in DOMAIN calls : calls[n].kind = kind
    BY DEF Comparable
  <2> QED BY <2>1, <2>2 DEF Answers, Part
<1>3. /\ DOMAIN Answers(j, calls) = 1..Len(calls) /\ DOMAIN Part(calls, "out") = 1..Len(calls)
      /\ \A n \in 1..Len(calls) :
           /\ Answers(j, calls)[n] \in Seq(Numbers) /\ Len(Answers(j, calls)[n]) = 3
           /\ Part(calls, "out")[n] \in Seq(Numbers) /\ Len(Part(calls, "out")[n]) = 3
  BY <1>1, <1>2, ThreeFloats DEF Answers, Part
<1>4. /\ Answers(j, calls) = [n \in 1..Len(calls) |-> Answers(j, calls)[n]]
      /\ Part(calls, "out") = [n \in 1..Len(calls) |-> Part(calls, "out")[n]]
  BY <1>1 DEF Answers, Part
<1> QED BY <1>1, <1>3, <1>4

(* replay_geom finds the arguments of every call in the stream.            *)
LEMMA ScalesAnswered ==
  ASSUME NEW j, JobOK(j), NEW calls, Comparable(j, calls, "scale")
  PROVE  LET stream == Joined(calls, "arg")
         IN  /\ stream \in Seq(Numbers) /\ Len(stream) = 2 * Len(calls)
             /\ ScaleAnswers(j.program, stream, Len(calls)) = FlattenSeq(Answers(j, calls))
<1> DEFINE args == Part(calls, "arg")
<1>1. PICK N \in Nat : N = Len(calls) /\ DOMAIN calls = 1..N
  BY DEF Comparable
<1>2. \A n \in 1..N : args[n] = calls[n].arg /\ args[n] \in [1..2 -> Numbers]
  <2>1. ASSUME NEW n \in 1..N PROVE calls[n].arg \in [1..Floats["scale"] -> Numbers]
    BY <1>1, ComparableCall
  <2>2. Floats["scale"] = 2
    BY DEF Floats
  <2> QED BY <1>1, <2>1, <2>2 DEF Part
<1>3. \A n \in 1..N : args[n] \in Seq(Numbers) /\ Len(args[n]) = 2
  <2>1. \A m \in Nat : \A f \in [1..m -> Numbers] : f \in Seq(Numbers) /\ Len(f) = m
    OBVIOUS
  <2> QED BY <1>2, <2>1
<1>4. args = [n \in 1..N |-> args[n]]
  BY <1>1 DEF Part
<1>5. args \in Seq(Seq(Numbers)) /\ Len(args) = N
  BY <1>3, <1>4
<1>6. Joined(calls, "arg") = FlattenSeq(args)
  BY DEF Joined, Part
<1> HIDE DEF args
<1>7. /\ Len(FlattenSeq(args)) = 2 * N
      /\ \A n \in 1..N : SubSeq(FlattenSeq(args), 2 * n - 1, 2 * n) = args[n]
  BY <1>3, <1>5, FlattenPairs
<1>8. FlattenSeq(args) \in Seq(Numbers)
  BY <1>5, FlattenTyped
<1> DEFINE found == [n \in 1..N |-> j.program["scale"][SubSeq(FlattenSeq(args), 2 * n - 1, 2 * n)]]
<1>9. found = Answers(j, calls)
  BY <1>1, <1>2, <1>7 DEF Answers, Comparable
<1>10. ScaleAnswers(j.program, FlattenSeq(args), N) = FlattenSeq(found)
  BY DEF ScaleAnswers
<1> HIDE DEF found
<1> QED BY <1>1, <1>6, <1>7, <1>8, <1>9, <1>10

LEMMA DirectionsAnswered ==
  ASSUME NEW j, JobOK(j), NEW calls, Comparable(j, calls, "direction")
  PROVE  LET stream == Joined(calls, "arg")
         IN  /\ stream \in Seq(Numbers) /\ Len(stream) = 3 * Len(calls)
             /\ DirectionAnswers(j.program, stream, Len(calls)) = FlattenSeq(Answers(j, calls))
<1> DEFINE args == Part(calls, "arg")
<1>1. PICK N \in Nat : N = Len(calls) /\ DOMAIN calls = 1..N
  BY DEF Comparable
<1>2. \A n \in 1..N : args[n] = calls[n].arg /\ args[n] \in [1..3 -> Numbers]
  <2>1. ASSUME NEW n \in 1..N PROVE calls[n].arg \in [1..Floats["direction"] -> Numbers]
    BY <1>1, ComparableCall
  <2>2. Floats["direction"] = 3
    BY DEF Floats
  <2> QED BY <1>1, <2>1, <2>2 DEF Part
<1>3. \A n \in 1..N : args[n] \in Seq(Numbers) /\ Len(args[n]) = 3
  <2>1. \A m \in Nat : \A f \in [1..m -> Numbers] : f \in Seq(Numbers) /\ Len(f) = m
    OBVIOUS
  <2> QED BY <1>2, <2>1
<1>4. args = [n \in 1..N |-> args[n]]
  BY <1>1 DEF Part
<1>5. args \in Seq(Seq(Numbers)) /\ Len(args) = N
  BY <1>3, <1>4
<1>6. Joined(calls, "arg") = FlattenSeq(args)
  BY DEF Joined, Part
<1> HIDE DEF args
<1>7. /\ Len(FlattenSeq(args)) = 3 * N
      /\ \A n \in 1..N : SubSeq(FlattenSeq(args), 3 * n - 2, 3 * n) = args[n]
  BY <1>3, <1>5, FlattenTriples
<1>8. FlattenSeq(args) \in Seq(Numbers)
  BY <1>5, FlattenTyped
<1> DEFINE found ==
      [n \in 1..N |-> j.program["direction"][SubSeq(FlattenSeq(args), 3 * n - 2, 3 * n)]]
<1>9. found = Answers(j, calls)
  BY <1>1, <1>2, <1>7 DEF Answers, Comparable
<1>10. DirectionAnswers(j.program, FlattenSeq(args), N) = FlattenSeq(found)
  BY DEF DirectionAnswers
<1> HIDE DEF found
<1> QED BY <1>1, <1>6, <1>7, <1>8, <1>9, <1>10

(* A header of two counts, and two parts of those lengths.                 *)
LEMMA PartsOfStream ==
  ASSUME NEW S, NEW a \in Seq(S), NEW b \in Seq(S), NEW k \in S, NEW l \in S
  PROVE  LET stream == <<k, l>> \o a \o b
         IN  /\ stream[1] = k /\ stream[2] = l
             /\ Len(stream) = (2 + Len(a)) + Len(b)
             /\ SubSeq(stream, 3, 2 + Len(a)) = a
             /\ SubSeq(stream, (2 + Len(a)) + 1, Len(stream)) = b
<1>1. PICK m \in Nat, n \in Nat : m = Len(a) /\ n = Len(b)
  OBVIOUS
<1> DEFINE h == <<k, l>>
           x == h \o a
           y == x \o b
<1>2. h \in Seq(S) /\ Len(h) = 2 /\ h[1] = k /\ h[2] = l
  OBVIOUS
<1> HIDE DEF h
<1>3. /\ x \in Seq(S) /\ Len(x) = 2 + m
      /\ \A i \in 1..(2 + m) : x[i] = IF i <= 2 THEN h[i] ELSE a[i - 2]
  <2>1. /\ h \o a \in Seq(S) /\ Len(h \o a) = Len(h) + Len(a)
        /\ \A i \in 1..(Len(h) + Len(a)) :
             (h \o a)[i] = IF i <= Len(h) THEN h[i] ELSE a[i - Len(h)]
    BY <1>2, ConcatProperties
  <2> QED BY <1>1, <1>2, <2>1
<1> HIDE DEF x
<1>4. /\ y \in Seq(S) /\ Len(y) = (2 + m) + n
      /\ \A i \in 1..((2 + m) + n) : y[i] = IF i <= 2 + m THEN x[i] ELSE b[i - (2 + m)]
  <2>1. /\ x \o b \in Seq(S) /\ Len(x \o b) = Len(x) + Len(b)
        /\ \A i \in 1..(Len(x) + Len(b)) :
             (x \o b)[i] = IF i <= Len(x) THEN x[i] ELSE b[i - Len(x)]
    BY <1>3, ConcatProperties
  <2> QED BY <1>1, <1>3, <2>1
<1> HIDE DEF y
<1>5. y[1] = k /\ y[2] = l
  BY <1>2, <1>3, <1>4
<1>6. SubSeq(y, 3, 2 + m) = a
  <2> DEFINE part == SubSeq(y, 3, 2 + m)
  <2>1. \A i \in 3..(2 + m) : y[i] \in S
    BY <1>4, ElementOfSeq
  <2>2. /\ part \in Seq(S)
        /\ Len(part) = IF 3 <= 2 + m THEN (2 + m) - 3 + 1 ELSE 0
        /\ \A i \in 1..((2 + m) - 3 + 1) : part[i] = y[3 + i - 1]
    BY <2>1, SubSeqProperties
  <2> HIDE DEF part
  <2>3. Len(part) = m /\ \A i \in 1..m : part[i] = y[i + 2]
    BY <2>2
  <2>4. \A i \in 1..m : y[i + 2] = a[i]
    <3>1. \A i \in 1..m : /\ i + 2 \in 1..(2 + m) /\ i + 2 \in 1..((2 + m) + n)
                          /\ i + 2 <= 2 + m /\ ~(i + 2 <= 2) /\ (i + 2) - 2 = i
      OBVIOUS
    <3> QED BY <1>3, <1>4, <3>1
  <2>5. \A i \in 1..m : part[i] = a[i]
    BY <2>3, <2>4
  <2> QED BY <1>1, <2>2, <2>3, <2>5, SeqEqual DEF part
<1>7. SubSeq(y, (2 + m) + 1, (2 + m) + n) = b
  <2> DEFINE from == (2 + m) + 1
             to == (2 + m) + n
             part == SubSeq(y, from, to)
  <2>1. \A i \in from..to : y[i] \in S
    BY <1>4, ElementOfSeq
  <2>2. /\ part \in Seq(S)
        /\ Len(part) = IF from <= to THEN to - from + 1 ELSE 0
        /\ \A i \in 1..(to - from + 1) : part[i] = y[from + i - 1]
    <3>1. from \in Int /\ to \in Int
      OBVIOUS
    <3> HIDE DEF from, to
    <3> QED BY <2>1, <3>1, SubSeqProperties
  <2> HIDE DEF part
  <2>3. Len(part) = n /\ \A i \in 1..n : part[i] = y[(2 + m) + i]
    <3>1. /\ to - from + 1 = n /\ (from <= to <=> n # 0)
          /\ \A i \in 1..n : from + i - 1 = (2 + m) + i
      OBVIOUS
    <3> HIDE DEF from, to
    <3> QED BY <2>2, <3>1
  <2>4. \A i \in 1..n : y[(2 + m) + i] = b[i]
    <3>1. \A i \in 1..n : /\ (2 + m) + i \in 1..((2 + m) + n)
                          /\ ~((2 + m) + i <= 2 + m) /\ ((2 + m) + i) - (2 + m) = i
      OBVIOUS
    <3> QED BY <1>4, <3>1
  <2>5. \A i \in 1..n : part[i] = b[i]
    BY <2>3, <2>4
  <2> QED BY <1>1, <2>2, <2>3, <2>5, SeqEqual DEF part
<1> QED BY <1>1, <1>4, <1>5, <1>6, <1>7 DEF y, x, h

(* What the replay of geom and fixture answers.                            *)
LEMMA GeomReplayed ==
  ASSUME NEW j, JobOK(j), NEW cases, Comparable(j, cases.scale, "scale"),
         Comparable(j, cases.direction, "direction")
  PROVE  ReplayGeom(j.program, Inputs(cases))
           = FlattenSeq(Answers(j, cases.scale)) \o FlattenSeq(Answers(j, cases.direction))
<1> DEFINE S == Numbers \cup Nat
           a == Joined(cases.scale, "arg")
           b == Joined(cases.direction, "arg")
           input_ == Inputs(cases)
<1>1. PICK k \in Nat, l \in Nat : k = Len(cases.scale) /\ l = Len(cases.direction)
  BY DEF Comparable
<1>2. /\ a \in Seq(Numbers) /\ Len(a) = 2 * k
      /\ ScaleAnswers(j.program, a, k) = FlattenSeq(Answers(j, cases.scale))
  BY <1>1, ScalesAnswered
<1>3. /\ b \in Seq(Numbers) /\ Len(b) = 3 * l
      /\ DirectionAnswers(j.program, b, l) = FlattenSeq(Answers(j, cases.direction))
  BY <1>1, DirectionsAnswered
<1>4. input_ = <<k, l>> \o a \o b
  BY <1>1 DEF Inputs
<1> HIDE DEF a, b, input_
<1>5. a \in Seq(S) /\ b \in Seq(S) /\ k \in S /\ l \in S
  BY <1>2, <1>3
<1> HIDE DEF S
<1>6. /\ input_[1] = k /\ input_[2] = l
      /\ Len(input_) = (2 + Len(a)) + Len(b)
      /\ SubSeq(input_, 3, 2 + Len(a)) = a
      /\ SubSeq(input_, (2 + Len(a)) + 1, Len(input_)) = b
  <2> DEFINE stream == <<k, l>> \o a \o b
  <2>1. /\ stream[1] = k /\ stream[2] = l
        /\ Len(stream) = (2 + Len(a)) + Len(b)
        /\ SubSeq(stream, 3, 2 + Len(a)) = a
        /\ SubSeq(stream, (2 + Len(a)) + 1, Len(stream)) = b
    BY <1>5, PartsOfStream
  <2> QED BY <1>4, <2>1
<1>7. ReplayGeom(j.program, input_) = ScaleAnswers(j.program, a, k)
                                        \o DirectionAnswers(j.program, b, l)
  BY <1>2, <1>3, <1>6 DEF ReplayGeom
<1> QED BY <1>2, <1>3, <1>7 DEF input_

(* Equal answers, end to end, are equal call by call.                      *)
LEMMA ComparedCallByCall ==
  ASSUME NEW j, JobOK(j), NEW cases, Comparable(j, cases.scale, "scale"),
         Comparable(j, cases.direction, "direction"),
         ReplayGeom(j.program, Inputs(cases)) = ExpectedOutputs(cases)
  PROVE  \A kind \in {"scale", "direction"} : \A n \in DOMAIN cases[kind] :
           j.program[kind][cases[kind][n].arg] = cases[kind][n].out
<1> DEFINE a == Answers(j, cases.scale)
           b == Answers(j, cases.direction)
           x == Part(cases.scale, "out")
           y == Part(cases.direction, "out")
<1>1. /\ a \in Seq(Seq(Numbers)) /\ x \in Seq(Seq(Numbers)) /\ Len(a) = Len(x)
      /\ \A n \in 1..Len(a) : Len(a[n]) = 3 /\ Len(x[n]) = 3
  BY ComparableOutputs
<1>2. /\ b \in Seq(Seq(Numbers)) /\ y \in Seq(Seq(Numbers)) /\ Len(b) = Len(y)
      /\ \A n \in 1..Len(b) : Len(b[n]) = 3 /\ Len(y[n]) = 3
  BY ComparableOutputs
<1>3. FlattenSeq(a) \o FlattenSeq(b) = FlattenSeq(x) \o FlattenSeq(y)
  BY GeomReplayed DEF ExpectedOutputs, Joined, Part
<1> HIDE DEF a, b, x, y
<1>4. /\ FlattenSeq(a) \in Seq(Numbers) /\ FlattenSeq(b) \in Seq(Numbers)
      /\ FlattenSeq(x) \in Seq(Numbers) /\ FlattenSeq(y) \in Seq(Numbers)
  BY <1>1, <1>2, FlattenTyped
<1>5. Len(FlattenSeq(b)) = Len(FlattenSeq(y))
  <2>1. Len(FlattenSeq(b)) = 3 * Len(b)
    BY <1>2, FlattenTriples
  <2>2. Len(FlattenSeq(y)) = 3 * Len(y)
    BY <1>2, FlattenTriples
  <2> QED BY <1>2, <2>1, <2>2
<1>6. FlattenSeq(a) = FlattenSeq(x) /\ FlattenSeq(b) = FlattenSeq(y)
  BY <1>3, <1>4, <1>5, ConcatCancels
<1>7. a = x
  <2>1. \A n \in 1..Len(a) : Len(a[n]) = Len(x[n])
    BY <1>1
  <2> QED BY <1>1, <1>6, <2>1, FlattenInjective
<1>8. b = y
  <2>1. \A n \in 1..Len(b) : Len(b[n]) = Len(y[n])
    BY <1>2
  <2> QED BY <1>2, <1>6, <2>1, FlattenInjective
<1>9. \A n \in DOMAIN cases.scale :
        j.program["scale"][cases.scale[n].arg] = cases.scale[n].out
  BY <1>7 DEF a, x, Answers, Part, Comparable
<1>10. \A n \in DOMAIN cases.direction :
         j.program["direction"][cases.direction[n].arg] = cases.direction[n].out
  BY <1>8 DEF b, y, Answers, Part, Comparable
<1> QED BY <1>9, <1>10

(* The cases of geom and fixture.                                          *)
Cases(j) == GeomStream(j.case, j.trace)
Used(j, kind) ==
  IF j.case = "geom" THEN FirstCases(OfKind(j.trace.calls, kind))
                     ELSE BySequence(OfKind(j.trace.calls, kind))

Within(j, n) == j.case = "fixture" \/ (j.case = "geom" /\ n <= CasesPerKind)

LEMMA UsedIs ==
  ASSUME NEW j, JobOK(j), NEW kind
  PROVE  /\ Used(j, kind) \in Seq(Range(j.trace.calls))
         /\ \A n \in DOMAIN Used(j, kind) : Used(j, kind)[n].kind = kind
         /\ \A n \in DOMAIN OfKind(j.trace.calls, kind) :
              Within(j, n) => \E m \in DOMAIN Used(j, kind) :
                                Used(j, kind)[m] = OfKind(j.trace.calls, kind)[n]
<1> DEFINE all == OfKind(j.trace.calls, kind)
           used == Used(j, kind)
<1>1. /\ all \in Seq(Range(j.trace.calls))
      /\ \A n \in DOMAIN all : all[n].kind = kind
  BY OfKindIs DEF JobOK
<1>2. CasesPerKind \in Nat
  BY CasesAssumption
<1> HIDE DEF all
<1>3. CASE j.case = "geom"
  <2>1. used = Prefix(all, CasesPerKind)
    BY <1>3 DEF Used, FirstCases, all
  <2>2. PICK k \in Nat : k = Len(all) /\ DOMAIN all = 1..k
    BY <1>1
  <2> HIDE DEF used
  <2>3. /\ used \in Seq(Range(j.trace.calls))
        /\ Len(used) = IF k < CasesPerKind THEN k ELSE CasesPerKind
        /\ \A i \in 1..Len(used) : used[i] = all[i]
    BY <1>1, <1>2, <2>1, <2>2, PrefixIs
  <2>4. /\ DOMAIN used = 1..Len(used)
        /\ \A n \in DOMAIN used : n \in DOMAIN all /\ used[n] = all[n]
        /\ \A n \in DOMAIN all : n <= CasesPerKind => n \in DOMAIN used
    BY <1>2, <2>2, <2>3
  <2> QED BY <1>1, <1>3, <2>3, <2>4 DEF used, all, Within
<1>4. CASE j.case # "geom"
  <2>1. used = BySequence(all)
    BY <1>4 DEF Used, all
  <2> HIDE DEF used
  <2>2. used \in Seq(Range(j.trace.calls)) /\ Range(used) = Range(all)
    BY <1>1, <2>1, SortedIs
  <2>3. /\ \A n \in DOMAIN used : \E m \in DOMAIN all : used[n] = all[m]
        /\ \A n \in DOMAIN all : \E m \in DOMAIN used : used[m] = all[n]
    BY <2>2 DEF Range
  <2> QED BY <1>1, <2>2, <2>3 DEF used, all
<1> QED BY <1>3, <1>4

LEMMA CasesAre ==
  ASSUME NEW j, JobOK(j), j.case \in {"geom", "fixture"}, Cases(j) # Refused
  PROVE  /\ Cases(j) = [scale |-> Used(j, "scale"), direction |-> Used(j, "direction")]
         /\ Comparable(j, Cases(j).scale, "scale")
         /\ Comparable(j, Cases(j).direction, "direction")
<1> DEFINE a == Used(j, "scale")
           b == Used(j, "direction")
<1>1. /\ Cases(j) = [scale |-> a, direction |-> b]
      /\ \A c \in Range(a) \cup Range(b) : c.captured
  <2>1. CASE j.case = "geom"
    BY <2>1 DEF Cases, GeomStream, GeomCases, Used
  <2>2. CASE j.case = "fixture"
    BY <2>2 DEF Cases, GeomStream, FixtureCases, Used
  <2> QED BY <2>1, <2>2
<1>2. /\ a \in Seq(Range(j.trace.calls)) /\ b \in Seq(Range(j.trace.calls))
      /\ \A n \in DOMAIN a : a[n].kind = "scale"
      /\ \A n \in DOMAIN b : b[n].kind = "direction"
  BY UsedIs
<1> HIDE DEF a, b
<1>3. /\ \A n \in DOMAIN a : a[n].captured
      /\ \A n \in DOMAIN b : b[n].captured
  BY <1>1 DEF Range
<1> QED BY <1>1, <1>2, <1>3 DEF Comparable, a, b

(* A PASS of geom or fixture, call by call.                                *)
LEMMA PassAgrees ==
  ASSUME NEW j, JobOK(j), j.case \in {"geom", "fixture"},
         Encoded(j.case, j.trace) # Refused,
         Passes(j.case, j.trace, Replay(j.case, j.program, Encoded(j.case, j.trace))),
         NEW kind \in {"scale", "direction"}, NEW n \in DOMAIN OfKind(j.trace.calls, kind),
         j.case = "fixture" \/ n <= CasesPerKind
  PROVE  LET c == OfKind(j.trace.calls, kind)[n] IN j.program[kind][c.arg] = c.out
<1>1. Cases(j) # Refused /\ Encoded(j.case, j.trace) = Inputs(Cases(j))
  BY DEF Encoded, Cases
<1>2. PICK cases : cases = Cases(j)
  OBVIOUS
<1>3. /\ cases = [scale |-> Used(j, "scale"), direction |-> Used(j, "direction")]
      /\ Comparable(j, cases.scale, "scale") /\ Comparable(j, cases.direction, "direction")
  BY <1>1, <1>2, CasesAre
<1>4. ReplayGeom(j.program, Inputs(cases)) = ExpectedOutputs(cases)
  <2>1. j.case # "pipeline"
    OBVIOUS
  <2>2. Passes(j.case, j.trace, ReplayGeom(j.program, Inputs(cases)))
    BY <1>1, <1>2, <2>1 DEF Replay
  <2> QED BY <1>2, <2>1, <2>2 DEF Passes, Cases
<1>5. \A m \in DOMAIN cases[kind] :
        j.program[kind][cases[kind][m].arg] = cases[kind][m].out
  BY <1>3, <1>4, ComparedCallByCall
<1>6. cases[kind] = Used(j, kind)
  <2>1. kind = "scale" \/ kind = "direction"
    OBVIOUS
  <2> QED BY <1>3, <2>1
<1>7. PICK m \in DOMAIN Used(j, kind) : Used(j, kind)[m] = OfKind(j.trace.calls, kind)[n]
  <2>1. Within(j, n)
    BY DEF Within
  <2> QED BY <2>1, UsedIs
<1> QED BY <1>5, <1>6, <1>7

-----------------------------------------------------------------------------
(* compare_pipeline: roles stand for addresses.                            *)

LEMMA ChosenIs ==
  ASSUME NEW j, JobOK(j)
  PROVE  /\ Chosen(j.trace) \in Seq(Range(j.trace.calls))
         /\ \A n \in DOMAIN Chosen(j.trace) :
              /\ Chosen(j.trace)[n] \in Range(j.trace.calls)
              /\ Chosen(j.trace)[n] \in Range(OfKind(j.trace.calls, "process"))
              /\ Chosen(j.trace)[n].kind = "process" /\ Chosen(j.trace)[n].config \in Configs
         /\ \A n \in DOMAIN OfKind(j.trace.calls, "process") :
              /\ OfKind(j.trace.calls, "process")[n].config \in Configs
              /\ First(OfKind(j.trace.calls, "process"), n)
              => \E m \in DOMAIN Chosen(j.trace) :
                   Chosen(j.trace)[m] = OfKind(j.trace.calls, "process")[n]
<1> DEFINE parents == OfKind(j.trace.calls, "process")
           Earlier(n) == Cardinality({m \in 1..(n - 1) : parents[m].config = parents[n].config})
           wanted == {n \in DOMAIN parents :
                        parents[n].config \in Configs /\ Earlier(n) < CasesPerConfig}
           chosen == Picked(parents, wanted)
<1>1. /\ parents \in Seq(Range(j.trace.calls))
      /\ \A n \in DOMAIN parents : parents[n].kind = "process"
                                     /\ parents[n] \in Range(j.trace.calls)
  BY OfKindIs DEF JobOK
<1>2. Chosen(j.trace) = chosen
  BY DEF Chosen
<1>4. wanted \in SUBSET (DOMAIN parents) /\ \A i \in wanted : parents[i].config \in Configs
  OBVIOUS
<1>5. \A n \in DOMAIN parents :
        parents[n].config \in Configs /\ First(parents, n) => n \in wanted
  BY DEF First
<1> HIDE DEF parents, Earlier, wanted
<1>3. /\ chosen \in Seq(Range(j.trace.calls))
      /\ \A n \in DOMAIN chosen : \E i \in DOMAIN parents :
           i \in wanted /\ parents[i].config \in Configs /\ chosen[n] = parents[i]
  BY <1>1, <1>4, PickedIs DEF SelectedFrom
<1>6. \A i \in wanted : \E m \in DOMAIN chosen : chosen[m] = parents[i]
  BY <1>1, <1>4, PickedAll
<1> HIDE DEF chosen
<1>7. \A n \in DOMAIN chosen :
        /\ chosen[n] \in Range(j.trace.calls) /\ chosen[n] \in Range(parents)
        /\ chosen[n].kind = "process" /\ chosen[n].config \in Configs
  BY <1>1, <1>3 DEF Range
<1> QED BY <1>2, <1>3, <1>5, <1>6, <1>7 DEF parents

LEMMA RolesOfCall ==
  ASSUME NEW c, NEW n \in DOMAIN c.children, NEW m, c.children # <<>>,
         c.children[1].x0 # c.x3,
         SameCall(c.children[n], m, [work |-> c.children[1].x0, out |-> c.x3])
  PROVE  ChildContract(c)[n] = m
<1> DEFINE at == [work |-> c.children[1].x0, out |-> c.x3]
           k == c.children[n]
<1>1. PICK values \in {"work", "out"}, out \in {"work", "out"} :
        /\ at[values] = k.x0
        /\ k.kind = "summarize" => at[out] = k.x3
        /\ m = ChildCall(k.kind, values, k.count, out)
  BY DEF SameCall
<1>2. \A role \in {"work", "out"} : Identity(c, at[role]) = role
  BY DEF Identity
<1>3. ChildContract(c)[n] = ChildCall(k.kind, Identity(c, k.x0), k.count, Identity(c, k.x3))
  BY DEF ChildContract
<1>4. Identity(c, k.x0) = values
  BY <1>1, <1>2
<1>5. k.kind = "summarize" => Identity(c, k.x3) = out
  BY <1>1, <1>2
<1>6. ChildCall(k.kind, values, k.count, Identity(c, k.x3))
        = ChildCall(k.kind, values, k.count, out)
  BY <1>5 DEF ChildCall
<1> QED BY <1>1, <1>3, <1>4, <1>6

CaseOf(c) == [config |-> c.config, samples |-> Samples(c)]
LEMMA ContractIsOracles ==
  ASSUME NEW j, JobOK(j), NEW c \in Range(j.trace.calls), c.kind = "process",
         c.complete, c.config \in Configs, c.count <= Len(c.samples),
         \A k \in Range(c.children) : k.kind \in DOMAIN Arity
  PROVE  ChildContract(c) = Made(Oracle, CaseOf(c)).children
<1> DEFINE made == Oracle["process"][c.config][Samples(c)].children
           at == [work |-> c.children[1].x0, out |-> c.x3]
<1>1. /\ made \in [DOMAIN c.children -> Range(made)]
      /\ c.children # <<>> => at.work # at.out
      /\ \A n \in DOMAIN made : SameCall(c.children[n], made[n], at)
  BY DEF JobOK, OfOracle
<1>2. ASSUME NEW n \in DOMAIN c.children PROVE ChildContract(c)[n] = made[n]
  <2>1. c.children # <<>>
    BY <1>2
  <2>2. n \in DOMAIN made
    BY <1>1
  <2> QED BY <1>1, <2>1, <2>2, RolesOfCall
<1>3. DOMAIN ChildContract(c) = DOMAIN c.children
  BY DEF ChildContract
<1>4. ChildContract(c) = [n \in DOMAIN c.children |-> ChildContract(c)[n]]
  BY DEF ChildContract
<1>6. Made(Oracle, CaseOf(c)).children = made
  BY DEF Made, CaseOf
<1> HIDE DEF made
<1>5. made = [n \in DOMAIN c.children |-> made[n]]
  BY <1>1
<1> QED BY <1>2, <1>4, <1>5, <1>6

(* What compare_pipeline asks of the replay: the oracle's child calls on   *)
(* the recorded samples, for the first calls of every config.              *)
LEMMA PipelineInputIs ==
  ASSUME NEW j, JobOK(j), PipelineInput(j.trace) # Refused
  PROVE  LET chosen == Chosen(j.trace)
             input_ == PipelineInput(j.trace)
         IN  /\ chosen \in Seq(Range(j.trace.calls))
             /\ DOMAIN input_ = DOMAIN chosen
             /\ \A n \in DOMAIN input_ :
                  /\ chosen[n] \in Range(j.trace.calls) /\ chosen[n].kind = "process"
                  /\ chosen[n].config \in Configs /\ chosen[n].count <= Len(chosen[n].samples)
                  /\ input_[n].config = chosen[n].config
                  /\ input_[n].samples = Samples(chosen[n])
                  /\ input_[n].expected = Made(Oracle, CaseOf(chosen[n])).children
             /\ \A config \in Configs : \E n \in DOMAIN input_ : chosen[n].config = config
<1> DEFINE chosen == Chosen(j.trace)
           input_ == PipelineInput(j.trace)
<1>1. /\ input_ = [n \in DOMAIN chosen |-> [config |-> chosen[n].config,
                                            samples |-> Samples(chosen[n]),
                                            expected |-> ChildContract(chosen[n])]]
      /\ \A c \in Range(OfKind(j.trace.calls, "process")) : c.complete
      /\ \A config \in Configs : \E c \in Range(chosen) : c.config = config
      /\ \A c \in Range(chosen) :
           c.count <= Len(c.samples) /\ \A k \in Range(c.children) : k.kind \in DOMAIN Arity
  BY DEF PipelineInput
<1>2. /\ chosen \in Seq(Range(j.trace.calls))
      /\ \A n \in DOMAIN chosen :
           /\ chosen[n] \in Range(j.trace.calls)
           /\ chosen[n] \in Range(OfKind(j.trace.calls, "process"))
           /\ chosen[n].kind = "process" /\ chosen[n].config \in Configs
  BY ChosenIs
<1> HIDE DEF chosen
<1>3. ASSUME NEW n \in DOMAIN chosen
      PROVE  /\ ChildContract(chosen[n]) = Made(Oracle, CaseOf(chosen[n])).children
             /\ chosen[n].count <= Len(chosen[n].samples)
  <2>1. chosen[n] \in Range(chosen)
    BY DEF Range
  <2> QED BY <1>1, <1>2, <2>1, ContractIsOracles
<1>4. \A config \in Configs : \E n \in DOMAIN chosen : chosen[n].config = config
  BY <1>1 DEF Range
<1>5. /\ DOMAIN input_ = DOMAIN chosen
      /\ \A n \in DOMAIN chosen :
           /\ input_[n].config = chosen[n].config
           /\ input_[n].samples = Samples(chosen[n])
           /\ input_[n].expected = ChildContract(chosen[n])
  BY <1>1
<1> HIDE DEF input_
<1> QED BY <1>2, <1>3, <1>4, <1>5 DEF chosen, input_

LEMMA PassSameCalls ==
  ASSUME NEW j, JobOK(j), PipelineInput(j.trace) # Refused,
         ReplayPipeline(j.program, PipelineInput(j.trace)) # Refused
  PROVE  LET calls == OfKind(j.trace.calls, "process")
         IN  /\ \A config \in Configs : \E c \in Range(calls) : c.config = config
             /\ \A n \in DOMAIN calls :
                  calls[n].config \in Configs /\ First(calls, n) =>
                    Made(j.program, CaseOf(calls[n])).children
                      = Made(Oracle, CaseOf(calls[n])).children
<1> DEFINE input_ == PipelineInput(j.trace)
           chosen == Chosen(j.trace)
           calls == OfKind(j.trace.calls, "process")
<1>1. /\ DOMAIN input_ = DOMAIN chosen
      /\ \A n \in DOMAIN input_ :
           /\ input_[n].config = chosen[n].config
           /\ input_[n].samples = Samples(chosen[n])
           /\ input_[n].expected = Made(Oracle, CaseOf(chosen[n])).children
      /\ \A config \in Configs : \E n \in DOMAIN input_ : chosen[n].config = config
  BY PipelineInputIs
<1>2. \A n \in DOMAIN input_ : Made(j.program, input_[n]).children = input_[n].expected
  BY DEF ReplayPipeline, SameChildren
<1>3. /\ \A n \in DOMAIN chosen : chosen[n] \in Range(calls)
      /\ \A n \in DOMAIN calls :
           calls[n].config \in Configs /\ First(calls, n) =>
             \E m \in DOMAIN chosen : chosen[m] = calls[n]
  BY ChosenIs
<1> HIDE DEF input_, chosen, calls
<1>4. \A n \in DOMAIN chosen : Made(j.program, CaseOf(chosen[n])).children
                                 = Made(Oracle, CaseOf(chosen[n])).children
  <2>1. ASSUME NEW n \in DOMAIN chosen
        PROVE  Made(j.program, input_[n]) = Made(j.program, CaseOf(chosen[n]))
    BY <1>1 DEF Made, CaseOf
  <2> QED BY <1>1, <1>2, <2>1
<1> QED BY <1>1, <1>3, <1>4 DEF calls

-----------------------------------------------------------------------------
(* compare_fixture: claims against the recorded buffers.                   *)

LEMMA ClaimedIsBuffer ==
  ASSUME NEW c, c.out \in Output, NEW claim, ClaimAgrees(claim, c),
         claim.kind = c.kind, c.kind \in {"scale", "direction"}
  PROVE  claim.output = Buffer(c.kind, c.out)
<1>1. c.out \in Seq(Numbers) /\ Len(c.out) = 3
  BY ThreeFloats
<1>2. CASE c.kind = "scale"
  <2>1. claim.output = SubSeq(SubSeq(c.out, 1, 2), 1, 2)
    BY <1>2 DEF ClaimAgrees, Floats, Buffer
  <2>2. SubSeq(c.out, 1, 2) \in Seq(Numbers) /\ Len(SubSeq(c.out, 1, 2)) = 2
    BY <1>1
  <2>3. \A s \in Seq(Numbers) : Len(s) = 2 => SubSeq(s, 1, 2) = s
    OBVIOUS
  <2> QED BY <1>2, <2>1, <2>2, <2>3 DEF Buffer
<1>3. CASE c.kind = "direction"
  <2>1. claim.output = SubSeq(c.out, 1, 3)
    BY <1>3 DEF ClaimAgrees, Floats, Buffer
  <2>2. \A s \in Seq(Numbers) : Len(s) = 3 => SubSeq(s, 1, 3) = s
    OBVIOUS
  <2> QED BY <1>1, <1>3, <2>1, <2>2 DEF Buffer
<1> QED BY <1>2, <1>3

(* The calls in the order in which a fixture must claim them.              *)
Claimable(j) ==
  BySequence(OfKind(j.trace.calls, "direction")) \o BySequence(OfKind(j.trace.calls, "scale"))

LEMMA PassClaims ==
  ASSUME NEW j, JobOK(j), FixtureCases(j.trace) # Refused,
         NEW n \in DOMAIN Claimable(j)
  PROVE  LET c == Claimable(j)[n]
         IN  /\ c.kind \in {"scale", "direction"}
             /\ \E m \in DOMAIN OfKind(j.trace.calls, c.kind) : OfKind(j.trace.calls, c.kind)[m] = c
             /\ j.trace.claims[n].kind = c.kind =>
                  j.trace.claims[n].output = Buffer(c.kind, c.out)
<1> DEFINE S == Range(j.trace.calls)
           x == OfKind(j.trace.calls, "scale")
           y == OfKind(j.trace.calls, "direction")
           a == BySequence(x)
           b == BySequence(y)
           claims == j.trace.claims
<1>1. /\ \A m \in DOMAIN (b \o a) \cap DOMAIN claims : ClaimAgrees(claims[m], (b \o a)[m])
      /\ Len(claims) >= Len(a) + Len(b)
      /\ \A c \in Range(a) \cup Range(b) : c.captured
  BY DEF FixtureCases, ClaimsAgree
<1>2. /\ x \in Seq(S) /\ \A m \in DOMAIN x : x[m].kind = "scale" /\ x[m] \in S
      /\ y \in Seq(S) /\ \A m \in DOMAIN y : y[m].kind = "direction" /\ y[m] \in S
  BY OfKindIs DEF JobOK
<1>3. claims \in Seq(Range(claims))
  BY DEF JobOK
<1>4. Claimable(j) = b \o a
  BY DEF Claimable
<1> HIDE DEF x, y
<1>5. /\ a \in Seq(S) /\ Range(a) = Range(x)
      /\ b \in Seq(S) /\ Range(b) = Range(y)
  BY <1>2, SortedIs
<1> HIDE DEF a, b, claims
<1>6. PICK k \in Nat, l \in Nat, r \in Nat : k = Len(a) /\ l = Len(b) /\ r = Len(claims)
  BY <1>3, <1>5
<1>7. /\ DOMAIN (b \o a) = 1..(l + k)
      /\ \A m \in 1..(l + k) : (b \o a)[m] = IF m <= l THEN b[m] ELSE a[m - l]
  BY <1>5, <1>6, ConcatProperties
<1>8. DOMAIN claims = 1..r /\ r >= k + l /\ DOMAIN a = 1..k /\ DOMAIN b = 1..l
  BY <1>1, <1>3, <1>5, <1>6
<1>9. n \in 1..(l + k)
  BY <1>4, <1>7
<1>10. PICK c : c = (b \o a)[n]
  OBVIOUS
<1>11. ClaimAgrees(claims[n], c)
  <2>1. n \in DOMAIN (b \o a) \cap DOMAIN claims
    BY <1>7, <1>8, <1>9
  <2> QED BY <1>1, <1>10, <2>1
<1>12. c \in Range(a) \cup Range(b)
  <2>1. CASE n <= l
    <3>1. n \in 1..l
      BY <1>9, <2>1
    <3>2. c = b[n]
      BY <1>7, <1>9, <1>10, <2>1
    <3> QED BY <1>8, <3>1, <3>2 DEF Range
  <2>2. CASE ~(n <= l)
    <3>1. n - l \in 1..k
      BY <1>9, <2>2
    <3>2. c = a[n - l]
      BY <1>7, <1>9, <1>10, <2>2
    <3> QED BY <1>8, <3>1, <3>2 DEF Range
  <2> QED BY <2>1, <2>2
<1>13. /\ c.kind \in {"scale", "direction"} /\ c \in S
       /\ c.kind = "scale" => \E m \in DOMAIN x : x[m] = c
       /\ c.kind = "direction" => \E m \in DOMAIN y : y[m] = c
  <2>1. c \in Range(x) \/ c \in Range(y)
    BY <1>5, <1>12
  <2>2. CASE c \in Range(x)
    <3>1. PICK m \in DOMAIN x : x[m] = c
      BY <2>2 DEF Range
    <3> QED BY <1>2, <3>1
  <2>3. CASE c \in Range(y)
    <3>1. PICK m \in DOMAIN y : y[m] = c
      BY <2>3 DEF Range
    <3> QED BY <1>2, <3>1
  <2> QED BY <2>1, <2>2, <2>3
<1>14. c.captured
  BY <1>1, <1>12
<1>15. c.out \in Output
  BY <1>13, <1>14 DEF JobOK, OfOracle
<1>16. claims[n].kind = c.kind => claims[n].output = Buffer(c.kind, c.out)
  BY <1>11, <1>13, <1>15, ClaimedIsBuffer
<1>17. \E m \in DOMAIN OfKind(j.trace.calls, c.kind) : OfKind(j.trace.calls, c.kind)[m] = c
  BY <1>13 DEF x, y
<1> QED BY <1>4, <1>10, <1>13, <1>16, <1>17 DEF claims

-----------------------------------------------------------------------------
(* A correct implementation of a usable recording.                         *)

Deserving(j) ==
  /\ j.usable /\ j.program = Oracle
  /\ j.target = "device" <=> j.compiler = "ndk"

LEMMA CorrectGeom ==
  ASSUME NEW j, JobOK(j), Deserving(j), j.case \in {"geom", "fixture"}, Cases(j) # Refused
  PROVE  /\ ReplayGeom(j.program, Inputs(Cases(j))) = ExpectedOutputs(Cases(j))
         /\ ReplayGeom(j.program, Inputs(Cases(j))) # Refused
<1>1. PICK cases : cases = Cases(j)
  OBVIOUS
<1>2. Comparable(j, cases.scale, "scale") /\ Comparable(j, cases.direction, "direction")
  BY <1>1, CasesAre
<1>3. ASSUME NEW kind, NEW calls, Comparable(j, calls, kind)
      PROVE  /\ Answers(j, calls) = Part(calls, "out")
             /\ FlattenSeq(Answers(j, calls)) \in Seq(Numbers)
  <2>1. ASSUME NEW n \in DOMAIN calls
        PROVE  j.program[calls[n].kind][calls[n].arg] = calls[n].out
    <3>1. calls[n].kind = kind
      BY <1>3, <2>1 DEF Comparable
    <3>2. calls[n].out = Oracle[kind][calls[n].arg]
      BY <1>3, <2>1, ComparableCall
    <3> QED BY <3>1, <3>2 DEF Deserving
  <2>2. Answers(j, calls) = Part(calls, "out")
    BY <2>1 DEF Answers, Part
  <2>3. Answers(j, calls) \in Seq(Seq(Numbers))
    BY <1>3, ComparableOutputs
  <2> QED BY <2>2, <2>3, FlattenTyped
<1>4. ReplayGeom(j.program, Inputs(cases))
        = FlattenSeq(Answers(j, cases.scale)) \o FlattenSeq(Answers(j, cases.direction))
  BY <1>2, GeomReplayed
<1>5. ExpectedOutputs(cases)
        = FlattenSeq(Part(cases.scale, "out")) \o FlattenSeq(Part(cases.direction, "out"))
  BY DEF ExpectedOutputs, Joined, Part
<1>6. /\ Answers(j, cases.scale) = Part(cases.scale, "out")
      /\ FlattenSeq(Answers(j, cases.scale)) \in Seq(Numbers)
      /\ Answers(j, cases.direction) = Part(cases.direction, "out")
      /\ FlattenSeq(Answers(j, cases.direction)) \in Seq(Numbers)
  BY <1>2, <1>3
<1>7. \A p, q \in Seq(Numbers) : p \o q \in Seq(Numbers)
  BY ConcatProperties
<1> QED BY <1>1, <1>4, <1>5, <1>6, <1>7, RefusedAssumption

LEMMA CorrectPipeline ==
  ASSUME NEW j, JobOK(j), Deserving(j), j.case = "pipeline",
         PipelineInput(j.trace) # Refused
  PROVE  LET result == ReplayPipeline(j.program, PipelineInput(j.trace))
         IN  result # Refused /\ result # <<>>
<1> DEFINE input_ == PipelineInput(j.trace)
           chosen == Chosen(j.trace)
           floats == [n \in DOMAIN input_ |-> Made(j.program, input_[n]).floats]
<1>1. /\ chosen \in Seq(Range(j.trace.calls)) /\ DOMAIN input_ = DOMAIN chosen
      /\ \A n \in DOMAIN input_ :
           /\ chosen[n] \in Range(j.trace.calls) /\ chosen[n].kind = "process"
           /\ chosen[n].config \in Configs /\ chosen[n].count <= Len(chosen[n].samples)
           /\ input_[n].config = chosen[n].config
           /\ input_[n].samples = Samples(chosen[n])
           /\ input_[n].expected = Made(Oracle, CaseOf(chosen[n])).children
      /\ \A config \in Configs : \E n \in DOMAIN input_ : chosen[n].config = config
  BY PipelineInputIs
<1>2. \A c \in Range(chosen) : c.count \in 0..MaxSamples
  BY DEF JobOK, Deserving
<1>3. ReplayPipeline(j.program, input_)
        = IF \A n \in DOMAIN input_ :
               /\ Len(input_[n].samples) <= MaxSamples
               /\ SameChildren(Made(j.program, input_[n]).children, input_[n].expected)
            THEN FlattenSeq(floats) ELSE Refused
  BY DEF ReplayPipeline
<1> HIDE DEF input_, chosen
<1>4. ASSUME NEW n \in DOMAIN input_
      PROVE  /\ Made(j.program, input_[n]) = Made(j.program, CaseOf(chosen[n]))
             /\ Made(j.program, input_[n]).floats \in Seq(Numbers) \ {<<>>}
             /\ Len(input_[n].samples) <= MaxSamples
  <2>1. Made(j.program, input_[n]) = Made(j.program, CaseOf(chosen[n]))
    BY <1>1 DEF Made, CaseOf
  <2>2. Made(j.program, CaseOf(chosen[n])).floats \in Seq(Numbers) \ {<<>>}
    BY <1>1 DEF JobOK, CaseOf
  <2>3. chosen[n].count \in 0..MaxSamples
    BY <1>1, <1>2 DEF Range
  <2>4. Len(Samples(chosen[n])) = chosen[n].count
    <3>1. chosen[n].count \in Nat /\ chosen[n].count <= Len(chosen[n].samples)
      BY <1>1, <2>3
    <3> QED BY <3>1 DEF Samples
  <2> QED BY <1>1, <2>1, <2>2, <2>3, <2>4
<1>5. \A n \in DOMAIN input_ :
        SameChildren(Made(j.program, input_[n]).children, input_[n].expected)
  BY <1>1, <1>4 DEF SameChildren, Deserving
<1>6. PICK k \in Nat : DOMAIN input_ = 1..k
  BY <1>1
<1>7. \A n \in 1..k : floats[n] \in Seq(Numbers) /\ floats[n] # <<>>
  BY <1>4, <1>6
<1>8. floats \in Seq(Seq(Numbers)) /\ Len(floats) = k
  BY <1>6, <1>7
<1>9. k # 0
  <2>1. 0 \in Configs
    BY DEF Configs
  <2> QED BY <1>1, <1>6, <2>1
<1> HIDE DEF floats
<1>10. FlattenSeq(floats) \in Seq(Numbers) /\ FlattenSeq(floats) # <<>>
  <2>1. floats # <<>>
    BY <1>8, <1>9
  <2> QED BY <1>7, <1>8, <2>1, FlattenTyped, FlattenNonempty
<1> QED BY <1>3, <1>4, <1>5, <1>10, RefusedAssumption DEF input_

LEMMA CorrectReplay ==
  ASSUME NEW j, JobOK(j), Deserving(j)
  PROVE  LET result == Replay(j.case, j.program, Encoded(j.case, j.trace))
         IN  result # Refused /\ Passes(j.case, j.trace, result)
<1>1. Encoded(j.case, j.trace) # Refused /\ j.case \in {"geom", "fixture", "pipeline"}
  BY DEF JobOK, Deserving, ProbeSet
<1>2. CASE j.case \in {"geom", "fixture"}
  <2>1. Cases(j) # Refused /\ Encoded(j.case, j.trace) = Inputs(Cases(j))
    BY <1>1, <1>2 DEF Encoded, Cases
  <2>2. /\ ReplayGeom(j.program, Inputs(Cases(j))) = ExpectedOutputs(Cases(j))
        /\ ReplayGeom(j.program, Inputs(Cases(j))) # Refused
    BY <1>2, <2>1, CorrectGeom
  <2> QED BY <1>2, <2>1, <2>2 DEF Replay, Passes, Cases
<1>3. CASE j.case = "pipeline"
  <2>1. Encoded(j.case, j.trace) = PipelineInput(j.trace)
    BY <1>1, <1>3 DEF Encoded
  <2> QED BY <1>1, <1>3, <2>1, CorrectPipeline DEF Replay, Passes
<1> QED BY <1>1, <1>2, <1>3

-----------------------------------------------------------------------------
(* The verdict: how far a session got says what its input, its result and  *)
(* its comparison were.                                                    *)

GotInput(s) == pc[s] \notin {"starting", "FAIL"} => input[s] = Input(s) /\ Input(s) # Refused

GotResult(s) ==
  \/ pc[s] \in {"fetching", "comparing", "PASS"}
  \/ pc[s] = "cleaning" /\ s \notin failed
  => Ran(Binary(s), Stdin(s)) # Refused

GotVerdict(s) == pc[s] = "PASS" => Passes(jobs[s].case, jobs[s].trace, output[s])

(* Nothing stops a session that deserves to pass and meets no trouble: the *)
(* files it pushed are there when its program runs.                        *)
OnItsWay(s) ==
  /\ pc[s] # "FAIL" /\ s \notin failed
  /\ pc[s] \in {"marking", "feeding", "running"} => File(s, "binary") \in DOMAIN device
  /\ pc[s] = "running" => File(s, "input") \in DOMAIN device
  /\ pc[s] = "hosted" => jobs[s].target = "host"

VerdictOK(s) ==
  /\ GotInput(s) /\ GotResult(s) /\ GotVerdict(s)
  /\ Deserving(jobs[s]) /\ s \notin troubled => OnItsWay(s)

VerdictInv == jobs \in Jobs /\ \A s \in Sessions : VerdictOK(s)

LEMMA InitVerdict == Init => VerdictInv
BY DEF Init, ReplayInit, VerdictInv, VerdictOK, GotInput, GotResult, GotVerdict, OnItsWay

(* A step of s leaves the other sessions, and their files, alone.          *)
StepOf(s) == Starts(s) \/ ReplayStep(s) \/ Compares(s)
Alone(s) ==
  /\ Changes(s) /\ OthersFilesKept(s)
  /\ \A t \in Sessions \ {s} : t \in troubled' <=> t \in troubled

LEMMA StepIsAlone ==
  ASSUME NEW s \in Sessions, ReplayInv, StepOf(s)
  PROVE  Alone(s)
<1>1. OthersFilesKept(s)
  <2>1. CASE UNCHANGED device
    BY <2>1, SameFiles DEF OthersFilesKept
  <2>2. CASE device' = Without(Files(s))
    BY <2>2, WithoutFiles
  <2>3. ASSUME NEW part \in Parts, NEW content, Pushed(s, part, content)
        PROVE  OthersFilesKept(s)
    BY <2>3, PushedFiles
  <2>4. \/ UNCHANGED device \/ device' = Without(Files(s))
        \/ \E part \in Parts : \E content : Pushed(s, part, content)
    <3>1. CASE PushesBinary(s) \/ PushesInput(s)
      BY <3>1 DEF PushesBinary, PushesInput, Parts
    <3>2. CASE RunsOnDevice(s) \/ ReplayMismatch(s)
      BY <3>2 DEF RunsOnDevice, ReplayMismatch, Parts
    <3>3. CASE AdbFailsLate(s)
      <4>1. \/ Pushed(s, "binary", Binary(s)) \/ Pushed(s, "input", Stdin(s))
            \/ Pushed(s, "output", <<>>)
        BY <3>3 DEF AdbFailsLate, Partial
      <4> QED BY <4>1 DEF Parts
    <3>4. CASE Cleans(s) \/ CleanFails(s)
      BY <3>4 DEF Cleans, CleanFails
    <3>5. CASE Starts(s) \/ Compares(s) \/ Compiles(s) \/ CompilerFails(s) \/ RunsOnHost(s)
                 \/ Identifies(s) \/ Marks(s) \/ Fetches(s) \/ AdbFails(s) \/ IdentifyFails(s)
      BY <3>5 DEF Starts, Compares, Compiles, CompilerFails, RunsOnHost, Identifies, Marks,
                  Fetches, AdbFails, Raises, IdentifyFails
    <3> QED BY <3>1, <3>2, <3>3, <3>4, <3>5 DEF StepOf, ReplayStep
  <2> QED BY <2>1, <2>2, <2>3, <2>4
<1>2. ReplayInv'
  BY ReplayNext DEF StepOf, Next
<1>3. /\ UNCHANGED jobs
      /\ \A t \in Sessions \ {s} :
           /\ pc'[t] = pc[t] /\ input'[t] = input[t] /\ output'[t] = output[t]
           /\ t \in failed' <=> t \in failed
           /\ t \in unclean' <=> t \in unclean
           /\ t \in troubled' <=> t \in troubled
  <2>1. CASE Starts(s) \/ Compares(s) \/ Compiles(s) \/ RunsOnHost(s) \/ Identifies(s)
               \/ PushesBinary(s) \/ Marks(s) \/ PushesInput(s) \/ RunsOnDevice(s)
               \/ Fetches(s) \/ Cleans(s)
    BY <2>1 DEF Starts, Compares, Compiles, RunsOnHost, Identifies, PushesBinary, Marks,
                PushesInput, RunsOnDevice, Fetches, Cleans, Goes, Quiet, ReplayInv,
                ReplayTypeOK
  <2>2. CASE ReplayMismatch(s) \/ AdbFails(s) \/ AdbFailsLate(s) \/ CompilerFails(s)
               \/ IdentifyFails(s) \/ CleanFails(s)
    BY <2>2 DEF ReplayMismatch, AdbFails, AdbFailsLate, CompilerFails, IdentifyFails,
                CleanFails, Goes, Raises, Trouble, ReplayInv, ReplayTypeOK
  <2> QED BY <2>1, <2>2 DEF StepOf, ReplayStep
<1> QED BY <1>1, <1>2, <1>3 DEF Alone, Changes, ReplayInv

LEMMA OthersVerdict ==
  ASSUME NEW s \in Sessions, NEW t \in Sessions \ {s}, Alone(s), VerdictOK(t)
  PROVE  VerdictOK(t)'
<1>1. /\ UNCHANGED <<jobs, Binary(t), Stdin(t), Input(t)>>
      /\ pc'[t] = pc[t] /\ input'[t] = input[t] /\ output'[t] = output[t]
      /\ t \in failed' <=> t \in failed
      /\ t \in troubled' <=> t \in troubled
  BY DEF Alone, Changes, Binary, Stdin, Input
<1>2. \A part \in Parts : File(t, part) \in DOMAIN device' <=> File(t, part) \in DOMAIN device
  BY DEF Alone, OthersFilesKept, FileKept
<1>3. GotInput(t)' /\ GotResult(t)' /\ GotVerdict(t)'
  BY <1>1 DEF VerdictOK, GotInput, GotResult, GotVerdict
<1>4. OnItsWay(t) => OnItsWay(t)'
  BY <1>1, <1>2 DEF OnItsWay, Parts, File, Remote
<1> QED BY <1>1, <1>3, <1>4 DEF VerdictOK

LEMMA InputGot ==
  ASSUME NEW s \in Sessions, ReplayInv, GotInput(s), StepOf(s)
  PROVE  GotInput(s)'
<1>1. CASE Starts(s)
  BY <1>1 DEF Starts, Goes, ReplayInv, ReplayTypeOK, GotInput, Input
<1>2. CASE ReplayStep(s) \/ Compares(s)
  <2>1. UNCHANGED <<jobs, input>> /\ pc[s] \notin {"starting", "FAIL"}
    BY <1>2 DEF ReplayStep, Compares, Compiles, RunsOnHost, Identifies, PushesBinary, Marks,
                PushesInput, RunsOnDevice, Fetches, Cleans, Goes, Quiet, ReplayMismatch,
                AdbFails, AdbFailsLate, CompilerFails, IdentifyFails, CleanFails, Raises,
                Steps
  <2> QED BY <2>1 DEF GotInput, Input
<1> QED BY <1>1, <1>2 DEF StepOf

LEMMA ResultGot ==
  ASSUME NEW s \in Sessions, ReplayInv, GotResult(s), StepOf(s)
  PROVE  GotResult(s)'
<1>1. CASE RunsOnHost(s)
  <2>1. /\ UNCHANGED <<jobs, input>>
        /\ \/ pc'[s] = "FAIL"
           \/ pc'[s] = "comparing" /\ Ran(Binary(s), Stdin(s)) # Refused
    BY <1>1 DEF RunsOnHost, Goes, Quiet, ReplayInv, ReplayTypeOK
  <2>2. UNCHANGED <<Binary(s), Stdin(s)>>
    BY <2>1 DEF Binary, Stdin
  <2> QED BY <2>1, <2>2 DEF GotResult
<1>2. CASE RunsOnDevice(s)
  <2>1. UNCHANGED <<Binary(s), Stdin(s)>> /\ Present(s) /\ DeviceResult(s) # Refused
    BY <1>2 DEF RunsOnDevice, Quiet, Binary, Stdin
  <2>2. DeviceResult(s) = Ran(Binary(s), Stdin(s))
    BY <2>1, OwnDeviceResult DEF ReplayInv
  <2> QED BY <2>1, <2>2 DEF GotResult
<1>3. CASE Fetches(s) \/ Cleans(s) \/ Compares(s)
  <2>1. /\ UNCHANGED <<jobs, input, failed>>
        /\ \/ pc[s] = "fetching" /\ pc'[s] = "cleaning"
           \/ pc[s] = "cleaning" /\ pc'[s] = IF s \in failed THEN "FAIL" ELSE "comparing"
           \/ pc[s] = "comparing" /\ pc'[s] \in {"PASS", "FAIL"}
    BY <1>3 DEF Fetches, Cleans, Compares, Goes, Quiet, ReplayInv, ReplayTypeOK
  <2>2. UNCHANGED <<Binary(s), Stdin(s)>>
    BY <2>1 DEF Binary, Stdin
  <2> QED BY <2>1, <2>2 DEF GotResult
<1>4. CASE ReplayMismatch(s) \/ AdbFails(s) \/ AdbFailsLate(s)
  <2>1. pc'[s] = "cleaning" /\ s \in failed'
    BY <1>4 DEF ReplayMismatch, AdbFails, AdbFailsLate, Raises, Goes, ReplayInv, ReplayTypeOK
  <2> QED BY <2>1 DEF GotResult
<1>5. CASE Starts(s) \/ Compiles(s) \/ CompilerFails(s) \/ Identifies(s) \/ PushesBinary(s)
             \/ Marks(s) \/ PushesInput(s) \/ IdentifyFails(s) \/ CleanFails(s)
  <2>1. pc'[s] \in {"compiling", "hosted", "identifying", "pushing", "marking", "feeding",
                    "running", "FAIL"}
    BY <1>5 DEF Starts, Compiles, CompilerFails, Identifies, PushesBinary, Marks,
                PushesInput, IdentifyFails, CleanFails, Goes, ReplayInv, ReplayTypeOK
  <2> QED BY <2>1 DEF GotResult
<1> QED BY <1>1, <1>2, <1>3, <1>4, <1>5 DEF StepOf, ReplayStep

LEMMA VerdictGot ==
  ASSUME NEW s \in Sessions, ReplayInv, StepOf(s)
  PROVE  GotVerdict(s)'
<1>1. CASE Compares(s)
  BY <1>1 DEF Compares, Goes, Quiet, ReplayInv, ReplayTypeOK, GotVerdict
<1>2. CASE Starts(s) \/ ReplayStep(s)
  <2>1. pc'[s] # "PASS"
    BY <1>2 DEF Starts, ReplayStep, Compiles, RunsOnHost, Identifies, PushesBinary, Marks,
                PushesInput, RunsOnDevice, Fetches, Cleans, Goes, ReplayMismatch, AdbFails,
                AdbFailsLate, CompilerFails, IdentifyFails, CleanFails, Raises, ReplayInv,
                ReplayTypeOK
  <2> QED BY <2>1 DEF GotVerdict
<1> QED BY <1>1, <1>2 DEF StepOf

(* What a session works out is what its program makes of its recording.    *)
Answer(j) == Replay(j.case, j.program, Encoded(j.case, j.trace))

LEMMA OwnAnswer ==
  ASSUME NEW s, input[s] = Input(s)
  PROVE  Ran(Binary(s), Stdin(s)) = Answer(jobs[s])
BY DEF Ran, Binary, Stdin, Input, Answer

LEMMA DeservedAnswer ==
  ASSUME NEW j, JobOK(j), Deserving(j)
  PROVE  Answer(j) # Refused /\ Passes(j.case, j.trace, Answer(j))
BY CorrectReplay DEF Answer

LEMMA WayKept ==
  ASSUME NEW s \in Sessions, ReplayInv, VerdictOK(s), JobOK(jobs[s]), StepOf(s),
         Deserving(jobs[s]), s \notin troubled'
  PROVE  OnItsWay(s)'
<1>1. s \notin troubled
  BY DEF StepOf, ReplayStep, Starts, Compares, Compiles, RunsOnHost, Identifies,
         PushesBinary, Marks, PushesInput, RunsOnDevice, Fetches, Cleans, Quiet,
         ReplayMismatch, AdbFails, AdbFailsLate, CompilerFails, IdentifyFails, CleanFails,
         Trouble
<1>2. OnItsWay(s)
  BY <1>1 DEF VerdictOK
<1>3. Answer(jobs[s]) # Refused
      /\ Passes(jobs[s].case, jobs[s].trace, Answer(jobs[s]))
  BY DeservedAnswer
<1>4. pc[s] # "starting" => Ran(Binary(s), Stdin(s)) = Answer(jobs[s])
  BY <1>2, OwnAnswer DEF VerdictOK, GotInput, OnItsWay
<1>5. \A part : (File(s, part))' = File(s, part)
  BY DEF File, Remote
<1>6. CASE Starts(s)
  <2>1. /\ jobs[s].registered /\ Input(s) # Refused
        /\ jobs[s].target = "device" => jobs[s].compiler # "none"
    BY DEF Deserving, JobOK, Input
  <2>2. pc'[s] = "compiling" /\ UNCHANGED failed
    BY <1>6, <2>1 DEF Starts, Goes, ReplayInv, ReplayTypeOK
  <2> QED BY <1>2, <2>2 DEF OnItsWay
<1>7. CASE Compiles(s)
  <2>1. \/ jobs[s].target = "host"
        \/ jobs[s].target = "device" /\ jobs[s].compiler = "ndk"
    BY DEF Deserving, JobOK
  <2>2. /\ pc'[s] \in {"hosted", "identifying"} /\ UNCHANGED <<failed, jobs>>
        /\ pc'[s] = "hosted" => jobs[s].target = "host"
    BY <1>7, <2>1 DEF Compiles, ForDevice, Goes, Quiet, ReplayInv, ReplayTypeOK
  <2> QED BY <1>2, <2>2 DEF OnItsWay
<1>8. CASE RunsOnHost(s)
  <2>2. pc[s] = "hosted" /\ ~ForDevice(s)
    BY <1>2, <1>8 DEF RunsOnHost, Goes, OnItsWay, Deserving, ForDevice
  <2>1. pc'[s] = "comparing" /\ UNCHANGED failed
    BY <1>3, <1>4, <1>8, <2>2 DEF RunsOnHost, Goes, Quiet, ReplayInv, ReplayTypeOK
  <2> QED BY <1>2, <2>1 DEF OnItsWay
<1>9. CASE Identifies(s) \/ RunsOnDevice(s) \/ Fetches(s)
  <2>1. pc'[s] \in {"pushing", "fetching", "cleaning"} /\ UNCHANGED failed
    BY <1>9 DEF Identifies, RunsOnDevice, Fetches, Goes, Quiet, ReplayInv, ReplayTypeOK
  <2> QED BY <1>2, <2>1 DEF OnItsWay
<1>10. CASE PushesBinary(s)
  <2>1. pc'[s] = "marking" /\ UNCHANGED failed /\ File(s, "binary") \in DOMAIN device'
    BY <1>10, PushedFiles DEF PushesBinary, Parts, Goes, Quiet, ReplayInv, ReplayTypeOK
  <2> QED BY <1>2, <1>5, <2>1 DEF OnItsWay
<1>11. CASE Marks(s)
  <2>1. /\ pc[s] = "marking" /\ pc'[s] = "feeding" /\ UNCHANGED <<failed, device>>
    BY <1>11 DEF Marks, Goes, Quiet, ReplayInv, ReplayTypeOK
  <2> QED BY <1>2, <1>5, <2>1 DEF OnItsWay
<1>12. CASE PushesInput(s)
  <2>1. /\ pc[s] = "feeding" /\ pc'[s] = "running" /\ UNCHANGED failed
        /\ File(s, "input") \in DOMAIN device'
        /\ File(s, "binary") \in DOMAIN device => File(s, "binary") \in DOMAIN device'
    BY <1>12, PushedFiles DEF PushesInput, Parts, FileKept, Goes, Quiet, ReplayInv,
                              ReplayTypeOK
  <2> QED BY <1>2, <1>5, <2>1 DEF OnItsWay
<1>13. CASE ReplayMismatch(s)
  <2>1. pc[s] = "running"
    BY <1>13 DEF ReplayMismatch, Goes
  <2>2. Present(s)
    BY <1>2, <2>1 DEF OnItsWay, Present
  <2>3. DeviceResult(s) # Refused
    BY <1>3, <1>4, <2>1, <2>2, OwnDeviceResult DEF ReplayInv
  <2> QED BY <1>13, <2>2, <2>3 DEF ReplayMismatch
<1>14. CASE Cleans(s)
  <2>1. pc'[s] = "comparing" /\ UNCHANGED failed
    BY <1>2, <1>14 DEF OnItsWay, Cleans, Goes, Quiet, ReplayInv, ReplayTypeOK
  <2> QED BY <1>2, <2>1 DEF OnItsWay
<1>15. CASE Compares(s)
  <2>1. pc[s] = "comparing"
    BY <1>15 DEF Compares, Goes
  <2>2. output[s] = Answer(jobs[s])
    BY <1>4, <2>1 DEF ReplayInv, SessionOK, OwnResult
  <2>3. pc'[s] = "PASS" /\ UNCHANGED failed
    BY <1>3, <1>15, <2>2 DEF Compares, Goes, Quiet, ReplayInv, ReplayTypeOK
  <2> QED BY <1>2, <2>3 DEF OnItsWay
<1>16. CASE AdbFails(s) \/ AdbFailsLate(s) \/ CompilerFails(s) \/ IdentifyFails(s)
              \/ CleanFails(s)
  BY <1>16 DEF AdbFails, AdbFailsLate, CompilerFails, IdentifyFails, CleanFails, Trouble
<1> QED BY <1>6, <1>7, <1>8, <1>9, <1>10, <1>11, <1>12, <1>13, <1>14, <1>15, <1>16
        DEF StepOf, ReplayStep

LEMMA VerdictNext == ReplayInv /\ VerdictInv /\ [Next]_vars => VerdictInv'
<1> SUFFICES ASSUME ReplayInv, VerdictInv, [Next]_vars PROVE VerdictInv'
  OBVIOUS
<1>1. CASE UNCHANGED vars
  BY <1>1 DEF vars, replayVars, VerdictInv, VerdictOK, GotInput, GotResult, GotVerdict,
              OnItsWay, Binary, Stdin, Input, File, Remote
<1>2. ASSUME NEW s \in Sessions, StepOf(s)
      PROVE  VerdictInv'
  <2>1. Alone(s)
    BY <1>2, StepIsAlone
  <2>2. UNCHANGED jobs /\ jobs \in Jobs /\ VerdictOK(s) /\ JobOK(jobs[s])
    BY <2>1, JobsAssumption DEF Alone, Changes, VerdictInv
  <2>3. GotInput(s)' /\ GotResult(s)' /\ GotVerdict(s)'
    BY <1>2, <2>2, InputGot, ResultGot, VerdictGot DEF VerdictOK
  <2>4. Deserving(jobs[s]) /\ s \notin troubled' => OnItsWay(s)'
    BY <1>2, <2>2, WayKept
  <2>5. VerdictOK(s)'
    BY <2>2, <2>3, <2>4 DEF VerdictOK
  <2>6. \A t \in Sessions \ {s} : VerdictOK(t)'
    BY <2>1, OthersVerdict DEF VerdictInv
  <2> QED BY <2>2, <2>5, <2>6 DEF VerdictInv
<1> QED BY <1>1, <1>2 DEF Next, Terminated, StepOf

LEMMA VerdictInvariant == Spec => [](ReplayInv /\ VerdictInv)
<1>1. ReplayInv /\ VerdictInv /\ [Next]_vars => (ReplayInv /\ VerdictInv)'
  BY ReplayNext, VerdictNext
<1> QED BY <1>1, InitReplay, InitVerdict, PTL DEF Spec

(* What a session that passed has got.                                     *)
LEMMA WhatPassed ==
  ASSUME ReplayInv, VerdictInv, NEW s \in Sessions, Passed(s)
  PROVE  /\ JobOK(jobs[s]) /\ Encoded(jobs[s].case, jobs[s].trace) # Refused
         /\ Answer(jobs[s]) # Refused
         /\ Passes(jobs[s].case, jobs[s].trace, Answer(jobs[s]))
<1>1. pc[s] = "PASS" /\ VerdictOK(s) /\ JobOK(jobs[s])
  BY JobsAssumption DEF Passed, VerdictInv
<1>2. /\ input[s] = Input(s) /\ Input(s) # Refused
      /\ Ran(Binary(s), Stdin(s)) # Refused
      /\ Passes(jobs[s].case, jobs[s].trace, output[s])
  BY <1>1 DEF VerdictOK, GotInput, GotResult, GotVerdict
<1>3. output[s] = Answer(jobs[s]) /\ Ran(Binary(s), Stdin(s)) = Answer(jobs[s])
  BY <1>1, <1>2, OwnAnswer DEF ReplayInv, SessionOK, OwnResult
<1> QED BY <1>1, <1>2, <1>3 DEF Input

-----------------------------------------------------------------------------
(* A PASS of compare_geom or compare_fixture means what it says: the       *)
(* implementation answers every compared call as the recorded process did, *)
(* though outputs are compared end to end and the cases of geom and of     *)
(* fixture are cut and ordered differently.                                *)
THEOREM PassesAgree == Spec => []PassMeansAgreement
<1>1. ReplayInv /\ VerdictInv => PassMeansAgreement
  <2> SUFFICES ASSUME ReplayInv, VerdictInv,
                      NEW s \in Sessions, Passed(s), Case(s) # "pipeline",
                      NEW kind \in {"scale", "direction"},
                      NEW n \in DOMAIN Recorded(s, kind),
                      Case(s) = "fixture" \/ n <= CasesPerKind
               PROVE  LET c == Recorded(s, kind)[n] IN Program(s)[kind][c.arg] = c.out
    BY DEF PassMeansAgreement
  <2>1. PICK j : j = jobs[s]
    OBVIOUS
  <2>2. /\ JobOK(j) /\ Encoded(j.case, j.trace) # Refused
        /\ Passes(j.case, j.trace, Answer(j))
    BY <2>1, WhatPassed
  <2>3. j.case \in {"geom", "fixture"}
    BY <2>1, <2>2 DEF JobOK, ProbeSet, Case
  <2>4. Recorded(s, kind) = OfKind(j.trace.calls, kind) /\ Program(s) = j.program
    BY <2>1 DEF Recorded, Program
  <2>5. Passes(j.case, j.trace, Replay(j.case, j.program, Encoded(j.case, j.trace)))
    BY <2>2 DEF Answer
  <2>6. /\ n \in DOMAIN OfKind(j.trace.calls, kind)
        /\ j.case = "fixture" \/ n <= CasesPerKind
    BY <2>1, <2>4 DEF Case
  <2>7. LET c == OfKind(j.trace.calls, kind)[n] IN j.program[kind][c.arg] = c.out
    BY <2>2, <2>3, <2>5, <2>6, PassAgrees
  <2> QED BY <2>4, <2>7
<1> QED BY <1>1, VerdictInvariant, PTL

(* A PASS of compare_pipeline means that, for the first recorded calls of  *)
(* every config and at least one, the implementation makes the child calls *)
(* the recorded process made on the recorded samples.                      *)
THEOREM PassesMakeSameCalls == Spec => []PassMeansSameCalls
<1>1. ReplayInv /\ VerdictInv => PassMeansSameCalls
  <2> SUFFICES ASSUME ReplayInv, VerdictInv,
                      NEW s \in Sessions, Passed(s), Case(s) = "pipeline"
               PROVE  LET calls == Recorded(s, "process")
                      IN  /\ \A config \in Configs : \E c \in Range(calls) : c.config = config
                          /\ \A n \in DOMAIN calls :
                               calls[n].config \in Configs /\ First(calls, n) =>
                                 Made(Program(s), CaseOf(calls[n])).children
                                   = Made(Oracle, CaseOf(calls[n])).children
    BY DEF PassMeansSameCalls, CaseOf
  <2>1. PICK j : j = jobs[s]
    OBVIOUS
  <2>2. JobOK(j) /\ Encoded(j.case, j.trace) # Refused /\ Answer(j) # Refused
    BY <2>1, WhatPassed
  <2>3. j.case = "pipeline"
    BY <2>1 DEF Case
  <2>4. Encoded(j.case, j.trace) = PipelineInput(j.trace)
    BY <2>2, <2>3 DEF Encoded
  <2>5. ReplayPipeline(j.program, PipelineInput(j.trace)) # Refused
    BY <2>2, <2>3, <2>4 DEF Answer, Replay
  <2>6. Recorded(s, "process") = OfKind(j.trace.calls, "process") /\ Program(s) = j.program
    BY <2>1 DEF Recorded, Program
  <2> QED BY <2>2, <2>4, <2>5, <2>6, PassSameCalls
<1> QED BY <1>1, VerdictInvariant, PTL

(* In a recording that compare_fixture passes, a claim that names the      *)
(* function called in its place is what that call wrote, and what the      *)
(* implementation writes.                                                  *)
THEOREM ClaimsAreHeld == Spec => []ClaimsHold
<1>1. ReplayInv /\ VerdictInv => ClaimsHold
  <2> SUFFICES ASSUME ReplayInv, VerdictInv,
                      NEW s \in Sessions, Passed(s), Case(s) = "fixture",
                      NEW n \in DOMAIN Claimable(jobs[s]),
                      jobs[s].trace.claims[n].kind = Claimable(jobs[s])[n].kind
               PROVE  LET c == Claimable(jobs[s])[n]
                          claim == jobs[s].trace.claims[n]
                      IN  /\ claim.output = Buffer(c.kind, c.out)
                          /\ claim.output = Buffer(c.kind, Program(s)[c.kind][c.arg])
    BY DEF ClaimsHold, Claimable, Recorded
  <2>1. PICK j : j = jobs[s]
    OBVIOUS
  <2>2. /\ JobOK(j) /\ Encoded(j.case, j.trace) # Refused
        /\ Passes(j.case, j.trace, Answer(j))
    BY <2>1, WhatPassed
  <2>3. j.case = "fixture" /\ FixtureCases(j.trace) # Refused
    BY <2>1, <2>2 DEF Case, Encoded, GeomStream
  <2>4. PICK c : c = Claimable(j)[n]
    OBVIOUS
  <2>5. /\ c.kind \in {"scale", "direction"}
        /\ \E m \in DOMAIN OfKind(j.trace.calls, c.kind) : OfKind(j.trace.calls, c.kind)[m] = c
        /\ j.trace.claims[n].output = Buffer(c.kind, c.out)
    BY <2>1, <2>2, <2>3, <2>4, PassClaims
  <2>6. j.program[c.kind][c.arg] = c.out
    BY <2>2, <2>3, <2>5, PassAgrees DEF Answer
  <2> QED BY <2>1, <2>4, <2>5, <2>6 DEF Program
<1> QED BY <1>1, VerdictInvariant, PTL

(* A correct implementation of a usable recording is never failed by the   *)
(* checks of an adapter or by another session on the device.               *)
THEOREM CorrectOnesPass == Spec => []CorrectPasses
<1>1. VerdictInv => CorrectPasses
  BY DEF VerdictInv, VerdictOK, CorrectPasses, Deserving, OnItsWay, Program, ForDevice
<1> QED BY <1>1, VerdictInvariant, PTL
=============================================================================
