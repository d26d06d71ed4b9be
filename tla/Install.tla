------------------------------- MODULE Install -------------------------------
(***************************************************************************)
(* Attaching the probes: what probes.py accepts as declarations, install() *)
(* of agent.js with its checks, its grouping by address and its failures,  *)
(* step by step while the target may load and unload the module, and the   *)
(* observer that installs when the module is loaded later.                 *)
(***************************************************************************)
EXTENDS Naturals, FiniteSets, SequencesExt

CONSTANTS
  ProbesDirs,  \* what --probes-dir may hold: its files in name order, each
               \* name -> definition
  Listed,      \* the probe set's required names, then its optional ones
  Pinned,      \* the identity the probe set pins
  Modules,     \* images the target may load: [base, identity, code, got]
  Absent,      \* the module is not loaded; no definition
  MaxLoads     \* bound: loads of the module

ASSUME ListedAssumption == Listed \in Seq(Range(Listed))
ASSUME ModulesAssumption == Absent \notin Modules

VARIABLES
  files,       \* the probe files
  module,      \* the image in the target, or Absent
  loads,       \* how often the module was loaded: which load an image is of
  scripted,    \* the agent's top level has run
  observing,   \* the module observer is attached
  progress,    \* install() under way: [of: image, load, checked, left],
               \* of being Absent when none is
  installed,   \* agent.js flag
  listeners,   \* attached listeners: [of: image, load, address, listings]
  reports,     \* "installed" and "install_error" messages of the agent
  host         \* where run_fixture() is

agentInstall == <<progress, installed, listeners, reports>>
installVars == <<files, module, loads, scripted, observing, agentInstall>>

-----------------------------------------------------------------------------
(* Declarations: every file is validated, a name declared twice means its  *)
(* last declaration, and every listed name must be declared.               *)

ValidProbe(d) ==
  /\ d.type \in {"function", "instruction", "got"}
  /\ d.type # "got" => d.expected # Absent

Declares(name) == {f \in DOMAIN files : name \in DOMAIN files[f]}
Catalog(name) == files[Max(Declares(name))][name]

DeclarationsLoad ==
  /\ \A f \in DOMAIN files :
       DOMAIN files[f] # {} /\ \A name \in DOMAIN files[f] : ValidProbe(files[f][name])
  /\ \A i \in DOMAIN Listed : Declares(Listed[i]) # {}

Probe(i) == Catalog(Listed[i])

-----------------------------------------------------------------------------
(* install()                                                               *)

NoInstall == [of |-> Absent, load |-> 0, checked |-> 0, left |-> {}]
Installing == progress.of # Absent

InstallInit ==
  /\ files \in ProbesDirs
  /\ module \in Modules \cup {Absent} /\ loads = 0
  /\ scripted = FALSE /\ observing = FALSE /\ progress = NoInstall /\ installed = FALSE
  /\ listeners = <<>> /\ reports = <<>>

Address(m, i) ==
  IF Probe(i).type = "got" THEN m.got[Probe(i).rva] ELSE m.base + Probe(i).rva

(* What is verified, in order: the identity, then the bytes or the slot of *)
(* each listed probe.                                                      *)
Matches(m, i) ==
  IF Probe(i).type = "got" THEN m.got[Probe(i).rva] # Absent
                           ELSE m.code[Probe(i).rva] = Probe(i).expected
Check(m, n) == IF n = 0 THEN m.identity = Pinned ELSE Matches(m, n)

(* The probes the listener of a listed probe serves: an instruction probe  *)
(* has one of its own, all function and GOT probes of an address share one.*)
OnInstruction(i) == Probe(i).type = "instruction"
Group(m, i) ==
  IF OnInstruction(i) THEN {i}
  ELSE {j \in DOMAIN Listed : ~OnInstruction(j) /\ Address(m, j) = Address(m, i)}
Listener(m, load, i) ==
  [of |-> m, load |-> load, address |-> Address(m, i), listings |-> Group(m, i)]

Starts(m, load) ==
  /\ progress' = IF installed \/ Installing THEN progress
                 ELSE [of |-> m, load |-> load, checked |-> 0, left |-> DOMAIN Listed]
  /\ UNCHANGED <<installed, listeners, reports>>

Present(load) == module # Absent /\ loads = load
Still == UNCHANGED <<files, module, loads, scripted, observing>>

(* Mutant: a listener is attached as soon as its own probes are verified.  *)
OwnVerified(listings) == \A i \in listings : i < progress.checked

AllVerified(listings) == progress.checked > Len(Listed)

Verifies ==
  /\ Installing /\ progress.checked <= Len(Listed)
  /\ Present(progress.load) /\ Check(progress.of, progress.checked)
  /\ progress' = [progress EXCEPT !.checked = @ + 1]
  /\ UNCHANGED <<installed, listeners, reports>> /\ Still

(* Instruction probes first, then one address after the other.             *)
Comes(i, j) == IF OnInstruction(i) = OnInstruction(j) THEN i <= j ELSE OnInstruction(i)

Attaches ==
  /\ Installing /\ Present(progress.load)
  /\ \E i \in progress.left :
       /\ AllVerified(Group(progress.of, i))
       /\ \A j \in progress.left : Comes(i, j)
       /\ listeners' = Append(listeners, Listener(progress.of, loads, i))
       /\ progress' = [progress EXCEPT !.left = @ \ Group(progress.of, i)]
  /\ UNCHANGED <<installed, reports>> /\ Still

Installs ==
  /\ Installing /\ progress.checked > Len(Listed) /\ progress.left = {}
  /\ progress' = NoInstall /\ installed' = TRUE /\ reports' = Append(reports, "installed")
  /\ UNCHANGED listeners /\ Still

(* A check fails, the image is gone, or Interceptor.attach throws: what is *)
(* attached stays attached.                                                *)
InstallFails ==
  /\ Installing
  /\ \/ progress.checked <= Len(Listed)
          /\ Present(progress.load) => ~Check(progress.of, progress.checked)
     \/ progress.checked > Len(Listed) /\ progress.left # {}
  /\ progress' = NoInstall /\ reports' = Append(reports, "install_error")
  /\ UNCHANGED <<installed, listeners>> /\ Still

(* Top level of agent.js: install, or wait for the module.                 *)
ScriptRuns ==
  /\ ~scripted /\ scripted' = TRUE
  /\ IF module = Absent THEN observing' = TRUE /\ UNCHANGED agentInstall
                        ELSE Starts(module, loads) /\ UNCHANGED observing
  /\ UNCHANGED <<files, module, loads>>

InstallStep == ScriptRuns \/ Verifies \/ Attaches \/ Installs \/ InstallFails

(* The loader waits while the observer installs.                           *)
LoaderFree == observing => ~Installing

(* Assumed of the target: no image is mapped where the one that install()  *)
(* is reading was.                                                         *)
Elsewhere(m) == Installing => m.base # progress.of.base

ModuleLoads(m) ==
  /\ module = Absent /\ loads < MaxLoads /\ LoaderFree /\ Elsewhere(m)
  /\ loads' = loads + 1 /\ module' = m
  /\ IF observing THEN Starts(m, loads') ELSE UNCHANGED agentInstall
  /\ UNCHANGED <<files, scripted, observing>>

(* Nothing tells the agent that the module is gone.                        *)
ModuleUnloads ==
  /\ module # Absent /\ loads < MaxLoads /\ LoaderFree
  /\ module' = Absent
  /\ UNCHANGED <<files, loads, scripted, observing, agentInstall>>

Hooked == \E n \in DOMAIN listeners : Present(listeners[n].load)

Reported(type) == \E n \in DOMAIN reports : reports[n] = type

(* Mutant: an error is no longer looked at once the agent has installed.   *)
ReadyIfInstalled == Reported("installed")

Ready == Reported("installed") /\ ~Reported("install_error")

-----------------------------------------------------------------------------
(* Nothing is ever attached to an image that is not the pinned build, or   *)
(* in which a single listed probe finds other instructions or an unbound   *)
(* slot: a probe attached before a later one is refused would stay         *)
(* (agent.js:423).  The module may go between any two steps.               *)
AttachedIsVerified ==
  \A n \in DOMAIN listeners :
    /\ listeners[n].of.identity = Pinned
    /\ \A i \in DOMAIN Listed : Matches(listeners[n].of, i)

(* Once the host goes on, each listed probe is in exactly one listener, at *)
(* its own address, and function probes that share an address share the    *)
(* listener, whatever loads, unloads and failed installs came before.      *)
ReadyAttachedOnce ==
  host \notin {"declaring", "loading", "installing", "failed"} =>
    /\ \A i \in DOMAIN Listed :
         Cardinality({n \in DOMAIN listeners : i \in listeners[n].listings}) = 1
    /\ \A n \in DOMAIN listeners : \A i \in listeners[n].listings :
         Address(listeners[n].of, i) = listeners[n].address
    /\ \A n, o \in DOMAIN listeners :
         n # o /\ listeners[n].address = listeners[o].address
           => \E l \in {n, o} : \A i \in listeners[l].listings : OnInstruction(i)
=============================================================================
