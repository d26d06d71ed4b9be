---------------------------- MODULE FixtureProofs ----------------------------
(***************************************************************************)
(* Attaching the probes and a fixture run, for any images, probe files,    *)
(* loads and unloads, other threads and numbers of calls.                  *)
(*                                                                         *)
(* First install(): an invariant over its progress, the listeners and the  *)
(* reports of the attempts so far.  It also says that nothing is attached  *)
(* once the host has gone on.  Then the claims of the fixture: they are    *)
(* paired with the recorded calls by position, which rests on the agent    *)
(* accepting events of the fixture's thread only and on an image that is   *)
(* loaded again having no listeners.  What a PASS rests on follows from a  *)
(* third invariant, over the readings of the clock hook: they hold those   *)
(* of the fixture's own calls, and no others while nobody else has called. *)
(***************************************************************************)
EXTENDS FixtureSession, FiniteSetTheorems, TLAPS

-----------------------------------------------------------------------------
(* install()                                                               *)

Going == host \notin {"declaring", "loading", "installing", "failed"}

Progresses ==
  [of : Modules \cup {Absent}, load : Nat, checked : Nat, left : SUBSET DOMAIN Listed]

InstallTypes ==
  /\ loads \in Nat /\ module \in Modules \cup {Absent}
  /\ progress \in Progresses /\ installed \in BOOLEAN
  /\ (\E S : listeners \in Seq(S)) /\ (\E S : reports \in Seq(S))
  /\ \A n \in DOMAIN listeners : listeners[n].load \in Nat /\ listeners[n].load <= loads
  /\ Installing => progress.load <= loads

(* The listeners serve the positions outside left, each in one of them.    *)
Served(m, left) ==
  /\ \A n \in DOMAIN listeners : \E j \in DOMAIN Listed \ left :
       /\ listeners[n].of = m /\ listeners[n].address = Address(m, j)
       /\ listeners[n].listings = Group(m, j)
       /\ Group(m, j) \cap left = {}
  /\ \A i \in DOMAIN Listed \ left : \E n \in DOMAIN listeners : i \in listeners[n].listings
  /\ \A n, o \in DOMAIN listeners :
       listeners[n].listings \cap listeners[o].listings # {} => n = o

AttachInv ==
  /\ InstallTypes /\ AttachedIsVerified
  /\ Installing =>
       ~installed /\ \A c \in Nat : c < progress.checked => Check(progress.of, c)
  /\ Reported("installed") => installed
  /\ \/ Reported("install_error")
     \/ /\ installed => \E m : Served(m, {})
        /\ Installing => Served(progress.of, progress.left)
        /\ ~installed /\ ~Installing => listeners = <<>>
  /\ Going => Ready

(* The probe files are read once: what they ask of an image stays.         *)
LEMMA FilesStay ==
  ASSUME UNCHANGED files
  PROVE  /\ \A m, i : Address(m, i)' = Address(m, i)
         /\ \A m, i : Matches(m, i)' = Matches(m, i)
         /\ \A m, c : Check(m, c)' = Check(m, c)
         /\ \A m, i : Group(m, i)' = Group(m, i)
<1>1. \A name : Declares(name)' = Declares(name)
  BY DEF Declares
<1>2. \A name : Catalog(name)' = Catalog(name)
  BY <1>1 DEF Catalog
<1>3. \A i : Probe(i)' = Probe(i)
  BY <1>2 DEF Probe
<1>4. \A m, i : Address(m, i)' = Address(m, i)
  BY <1>3 DEF Address
<1>5. \A m, i : Matches(m, i)' = Matches(m, i)
  BY <1>3 DEF Matches
<1>6. \A m, c : Check(m, c)' = Check(m, c)
  BY <1>5 DEF Check
<1>7. \A i : OnInstruction(i)' <=> OnInstruction(i)
  BY <1>3 DEF OnInstruction
<1>8. \A m, i : Group(m, i)' = Group(m, i)
  <2> SUFFICES ASSUME NEW m, NEW i PROVE Group(m, i)' = Group(m, i)
    OBVIOUS
  <2> QED BY <1>4, <1>7 DEF Group
<1> QED BY <1>4, <1>5, <1>6, <1>8

(* Positions that share a listener have the same group.                    *)
LEMMA Groups ==
  ASSUME NEW m, NEW i \in DOMAIN Listed
  PROVE  /\ i \in Group(m, i) /\ Group(m, i) \subseteq DOMAIN Listed
         /\ \A k \in Group(m, i) : /\ Group(m, k) = Group(m, i)
                                   /\ Address(m, k) = Address(m, i)
                                   /\ OnInstruction(k) <=> OnInstruction(i)
         /\ \A k \in DOMAIN Listed :
              Address(m, k) = Address(m, i) /\ ~OnInstruction(k) /\ ~OnInstruction(i)
                => Group(m, k) = Group(m, i)
BY DEF Group

LEMMA Appended ==
  ASSUME NEW s, \E S : s \in Seq(S), NEW x
  PROVE  /\ DOMAIN Append(s, x) = DOMAIN s \cup {Len(s) + 1} /\ Len(s) + 1 \notin DOMAIN s
         /\ \A n \in DOMAIN s : Append(s, x)[n] = s[n]
         /\ Append(s, x)[Len(s) + 1] = x
<1>1. PICK S : s \in Seq(S)
  OBVIOUS
<1> DEFINE T == S \cup {x}
           more == Append(s, x)
<1>2. s \in Seq(T) /\ x \in T
  BY <1>1
<1> HIDE DEF T
<1>3. more \in Seq(T) /\ Len(more) = Len(s) + 1
  BY <1>2
<1>4. (\A n \in 1..Len(s) : more[n] = s[n]) /\ more[Len(s) + 1] = x
  BY <1>2
<1>5. DOMAIN s = 1..Len(s) /\ Len(s) \in Nat
  BY <1>2
<1> HIDE DEF more
<1>6. DOMAIN more = 1..(Len(s) + 1)
  BY <1>3
<1>7. DOMAIN more = DOMAIN s \cup {Len(s) + 1} /\ Len(s) + 1 \notin DOMAIN s
  BY <1>5, <1>6
<1> QED BY <1>4, <1>5, <1>7 DEF more

LEMMA AppendedSeq ==
  ASSUME NEW s, \E S : s \in Seq(S), NEW x
  PROVE  \E S : Append(s, x) \in Seq(S)
<1>1. PICK S : s \in Seq(S)
  OBVIOUS
<1> DEFINE T == S \cup {x}
<1>2. s \in Seq(T) /\ x \in T
  BY <1>1
<1> HIDE DEF T
<1>3. Append(s, x) \in Seq(T)
  BY <1>2
<1> QED BY <1>3

LEMMA ReportedMore ==
  ASSUME NEW type, \E S : reports \in Seq(S), reports' = Append(reports, type)
  PROVE  /\ (\E S : reports \in Seq(S))'
         /\ \A t : Reported(t)' <=> Reported(t) \/ type = t
<1>3. \E S : reports' \in Seq(S)
  BY AppendedSeq
<1>1. /\ DOMAIN reports' = DOMAIN reports \cup {Len(reports) + 1}
      /\ \A n \in DOMAIN reports : reports'[n] = reports[n]
      /\ reports'[Len(reports) + 1] = type
  BY Appended
<1>2. \A t : (\E n \in DOMAIN reports' : reports'[n] = t)
               <=> (\E n \in DOMAIN reports : reports[n] = t) \/ type = t
  BY <1>1
<1> QED BY <1>2, <1>3 DEF Reported

LEMMA ServedStays ==
  ASSUME UNCHANGED <<files, listeners>>
  PROVE  \A m, left : Served(m, left)' = Served(m, left)
<1> SUFFICES ASSUME NEW m, NEW left PROVE Served(m, left)' = Served(m, left)
  OBVIOUS
<1> QED BY FilesStay DEF Served

LEMMA VerifiedStays ==
  ASSUME UNCHANGED <<files, listeners>>, AttachedIsVerified
  PROVE  AttachedIsVerified'
BY FilesStay DEF AttachedIsVerified

-----------------------------------------------------------------------------
LEMMA NothingInstalls == NoInstall \in Progresses /\ NoInstall.of = Absent
<1>1. {} \in SUBSET DOMAIN Listed /\ Absent \in Modules \cup {Absent}
  OBVIOUS
<1> QED BY <1>1 DEF NoInstall, Progresses

LEMMA InitAttached == Init => AttachInv
<1> SUFFICES ASSUME Init PROVE AttachInv
  OBVIOUS
<1>1. /\ listeners = <<>> /\ reports = <<>> /\ installed = FALSE /\ host = "declaring"
      /\ progress = NoInstall /\ loads = 0 /\ module \in Modules \cup {Absent}
  BY DEF Init, InstallInit
<1>2. \A S : <<>> \in Seq(S)
  OBVIOUS
<1>3. ~Installing /\ progress \in Progresses
  BY <1>1, NothingInstalls DEF Installing
<1>4. InstallTypes
  <2>1. (\E S : listeners \in Seq(S)) /\ (\E S : reports \in Seq(S))
    BY <1>1, <1>2
  <2>2. DOMAIN listeners = {}
    BY <1>1
  <2> QED BY <1>1, <1>3, <2>1, <2>2 DEF InstallTypes
<1>5. AttachedIsVerified /\ ~Reported("installed")
  BY <1>1 DEF AttachedIsVerified, Reported
<1> QED BY <1>1, <1>3, <1>4, <1>5 DEF AttachInv, Going

(* What leaves the installation alone keeps the invariant unless the host  *)
(* goes on.                                                                *)
LEMMA InstallQuiet ==
  ASSUME AttachInv, UNCHANGED <<files, agentInstall>>, loads' \in Nat, loads <= loads',
         module' \in Modules \cup {Absent}, Going' => Going \/ Ready
  PROVE  AttachInv'
<1>1. UNCHANGED <<files, progress, installed, listeners, reports>>
  BY DEF agentInstall
<1>2. (\A t : Reported(t)' <=> Reported(t)) /\ (Ready' <=> Ready) /\ (Installing' <=> Installing)
  BY <1>1 DEF Reported, Ready, Installing
<1>3. \A k \in Nat : k <= loads => k <= loads'
  BY DEF AttachInv, InstallTypes
<1>4. progress.load \in Nat
  BY DEF AttachInv, InstallTypes, Progresses
<1>5. InstallTypes'
  BY <1>1, <1>2, <1>3, <1>4 DEF AttachInv, InstallTypes
<1>6. AttachedIsVerified' /\ \A m, left : Served(m, left)' = Served(m, left)
  BY <1>1, VerifiedStays, ServedStays DEF AttachInv
<1>7. Installing' =>
        ~installed' /\ \A c \in Nat : c < progress'.checked => Check(progress.of, c)'
  BY <1>1, <1>2, FilesStay DEF AttachInv
<1>8. Going' => Ready'
  BY <1>2 DEF AttachInv
<1>9. \/ Reported("install_error")'
      \/ /\ installed' => \E m : Served(m, {})'
         /\ Installing' => Served(progress.of, progress.left)'
         /\ ~installed' /\ ~Installing' => listeners' = <<>>
  BY <1>1, <1>2, <1>6 DEF AttachInv
<1> QED BY <1>1, <1>2, <1>5, <1>6, <1>7, <1>8, <1>9 DEF AttachInv

(* install() begins, or the flags turn it away.                            *)
LEMMA StartsKeeps ==
  ASSUME AttachInv, NEW m \in Modules, NEW load \in Nat, Starts(m, load),
         UNCHANGED <<files, host>>, loads' \in Nat, loads <= loads', load <= loads',
         module' \in Modules \cup {Absent}
  PROVE  AttachInv'
<1>1. CASE installed \/ Installing
  <2>1. UNCHANGED <<files, agentInstall>>
    BY <1>1 DEF Starts, agentInstall
  <2> QED BY <2>1, InstallQuiet DEF Going
<1>2. CASE ~installed /\ ~Installing
  <2>1. /\ progress' = [of |-> m, load |-> load, checked |-> 0, left |-> DOMAIN Listed]
        /\ UNCHANGED <<files, installed, listeners, reports, host>>
    BY <1>2 DEF Starts
  <2>2. m # Absent
    BY ModulesAssumption
  <2>3. /\ progress'.of = m /\ progress'.load = load /\ progress'.checked = 0
        /\ progress'.left = DOMAIN Listed /\ progress' \in Progresses /\ Installing'
    BY <2>1, <2>2 DEF Progresses, Installing
  <2>4. (\A t : Reported(t)' <=> Reported(t)) /\ (Ready' <=> Ready) /\ (Going' <=> Going)
    BY <2>1 DEF Reported, Ready, Going
  <2>5. \A k \in Nat : k <= loads => k <= loads'
    BY DEF AttachInv, InstallTypes
  <2>6. InstallTypes'
    BY <2>1, <2>3, <2>5 DEF AttachInv, InstallTypes
  <2>7. AttachedIsVerified'
    BY <2>1, VerifiedStays DEF AttachInv
  <2>8. \A c \in Nat : ~(c < progress'.checked)
    BY <2>3
  <2>9. Reported("install_error") \/ Served(progress.of, progress.left)'
    <3> SUFFICES ASSUME ~Reported("install_error")
                 PROVE  Served(progress.of, progress.left)'
      OBVIOUS
    <3>1. listeners' = <<>>
      BY <1>2, <2>1 DEF AttachInv
    <3>2. DOMAIN listeners' = {}
      BY <3>1
    <3> QED BY <2>3, <3>2 DEF Served
  <2> QED BY <1>2, <2>1, <2>3, <2>4, <2>6, <2>7, <2>8, <2>9 DEF AttachInv
<1> QED BY <1>1, <1>2

(* While install() is under way the host waits.                            *)
LEMMA InstallingHolds ==
  ASSUME AttachInv, Installing
  PROVE  /\ ~installed /\ ~Going /\ ~Reported("installed")
         /\ progress \in Progresses /\ loads \in Nat /\ progress.checked \in Nat
         /\ progress.of \in Modules /\ progress.left \subseteq DOMAIN Listed
BY DEF AttachInv, InstallTypes, Ready, Installing, Progresses

LEMMA VerifiesKeeps ==
  ASSUME AttachInv, Verifies, UNCHANGED host
  PROVE  AttachInv'
<1>1. /\ Installing /\ Check(progress.of, progress.checked)
      /\ progress' = [progress EXCEPT !.checked = progress.checked + 1]
      /\ UNCHANGED <<files, module, loads, installed, listeners, reports, host>>
  BY DEF Verifies, Still
<1>2. /\ progress'.of = progress.of /\ progress'.load = progress.load
      /\ progress'.checked = progress.checked + 1 /\ progress'.left = progress.left
      /\ progress' \in Progresses /\ Installing'
  BY <1>1, InstallingHolds DEF Progresses, Installing
<1>3. (\A t : Reported(t)' <=> Reported(t)) /\ (Ready' <=> Ready) /\ (Going' <=> Going)
  BY <1>1 DEF Reported, Ready, Going
<1>4. InstallTypes'
  BY <1>1, <1>2 DEF AttachInv, InstallTypes
<1>5. AttachedIsVerified'
  BY <1>1, VerifiedStays DEF AttachInv
<1>7. Reported("install_error") \/ Served(progress.of, progress.left)'
  <2>1. Reported("install_error") \/ Served(progress.of, progress.left)
    BY <1>1 DEF AttachInv
  <2>2. \A m, left : Served(m, left)' = Served(m, left)
    BY <1>1, ServedStays
  <2>3. Served(progress.of, progress.left) => Served(progress.of, progress.left)'
    <3>1. PICK m, left : m = progress.of /\ left = progress.left
      OBVIOUS
    <3>2. Served(m, left) => Served(m, left)'
      BY <2>2
    <3>3. m = progress'.of /\ left = progress'.left
      BY <1>2, <3>1
    <3> QED BY <3>1, <3>2, <3>3 DEF Served
  <2> QED BY <2>1, <2>3
<1>6. \A c \in Nat : c < progress'.checked => Check(progress.of, c)'
  <2> SUFFICES ASSUME NEW c \in Nat, c < progress'.checked PROVE Check(progress.of, c)'
    OBVIOUS
  <2>1. c < progress.checked \/ c = progress.checked
    BY <1>1, <1>2, InstallingHolds
  <2>2. Check(progress.of, c)
    BY <1>1, <2>1 DEF AttachInv
  <2>3. \A m : Check(m, c)' = Check(m, c)
    BY <1>1, FilesStay
  <2> QED BY <1>2, <2>2, <2>3 DEF Check, Matches
<1> QED BY <1>1, <1>2, <1>3, <1>4, <1>5, <1>6, <1>7, InstallingHolds DEF AttachInv

(* One listener more: its positions are served, and no other's.            *)
LEMMA AttachesServes ==
  ASSUME AttachInv, UNCHANGED files, NEW m, NEW left \in SUBSET DOMAIN Listed, Served(m, left),
         NEW i \in left, NEW l, l.of = m, l.address = Address(m, i), l.listings = Group(m, i),
         listeners' = Append(listeners, l), NEW rest, rest = left \ Group(m, i)
  PROVE  Served(m, rest)'
<1> DEFINE new == Len(listeners) + 1
<1>1. /\ DOMAIN listeners' = DOMAIN listeners \cup {new} /\ new \notin DOMAIN listeners
      /\ \A n \in DOMAIN listeners : listeners'[n] = listeners[n]
      /\ listeners'[new] = l
  BY Appended DEF AttachInv, InstallTypes
<1> HIDE DEF new
<1>2. /\ \A n \in DOMAIN listeners : \E j \in DOMAIN Listed \ left :
           /\ listeners[n].of = m /\ listeners[n].address = Address(m, j)
           /\ listeners[n].listings = Group(m, j)
           /\ Group(m, j) \cap left = {}
      /\ \A k \in DOMAIN Listed \ left : \E n \in DOMAIN listeners : k \in listeners[n].listings
      /\ \A n, o \in DOMAIN listeners :
           listeners[n].listings \cap listeners[o].listings # {} => n = o
  BY DEF Served
<1>3. i \in DOMAIN Listed /\ i \in Group(m, i) /\ i \in DOMAIN Listed \ rest
      /\ Group(m, i) \cap rest = {}
  BY Groups
<1>4. ASSUME NEW n \in DOMAIN listeners'
      PROVE  \E j \in DOMAIN Listed \ rest :
               /\ listeners'[n].of = m /\ listeners'[n].address = Address(m, j)
               /\ listeners'[n].listings = Group(m, j)
               /\ Group(m, j) \cap rest = {}
  <2>1. CASE n = new
    BY <1>1, <1>3, <2>1
  <2>2. CASE n \in DOMAIN listeners
    BY <1>1, <1>2, <2>2
  <2> QED BY <1>1, <2>1, <2>2
<1>5. ASSUME NEW k \in DOMAIN Listed \ rest
      PROVE  \E n \in DOMAIN listeners' : k \in listeners'[n].listings
  <2>1. CASE k \in Group(m, i)
    BY <1>1, <2>1
  <2>2. CASE k \notin left
    BY <1>1, <1>2, <2>2
  <2> QED BY <2>1, <2>2
<1>6. ASSUME NEW n \in DOMAIN listeners
      PROVE  listeners[n].listings \cap Group(m, i) = {}
  <2> SUFFICES ASSUME NEW k \in listeners[n].listings, k \in Group(m, i) PROVE FALSE
    OBVIOUS
  <2>1. PICK j \in DOMAIN Listed \ left :
          listeners[n].listings = Group(m, j) /\ Group(m, j) \cap left = {}
    BY <1>2
  <2>2. Group(m, k) = Group(m, j) /\ Group(m, k) = Group(m, i)
    BY <1>3, <2>1, Groups
  <2> QED BY <1>3, <2>1, <2>2
<1>7. ASSUME NEW n \in DOMAIN listeners', NEW o \in DOMAIN listeners',
             listeners'[n].listings \cap listeners'[o].listings # {}
      PROVE  n = o
  BY <1>1, <1>2, <1>6, <1>7
<1>8. (\A j : Address(m, j)' = Address(m, j)) /\ (\A j : Group(m, j)' = Group(m, j))
  BY FilesStay
<1>9. \A n \in DOMAIN listeners' : \E j \in DOMAIN Listed \ rest :
        /\ listeners'[n].of = m /\ listeners'[n].address = Address(m, j)'
        /\ listeners'[n].listings = Group(m, j)'
        /\ Group(m, j)' \cap rest = {}
  BY <1>4, <1>8
<1> QED BY <1>5, <1>7, <1>9 DEF Served

LEMMA ServedNow ==
  ASSUME NEW m, NEW left, Served(m, left)', progress'.of = m, progress'.left = left
  PROVE  Served(progress.of, progress.left)'
BY DEF Served

LEMMA AttachesKeeps ==
  ASSUME AttachInv, Attaches, UNCHANGED host
  PROVE  AttachInv'
<1>1. /\ Installing
      /\ UNCHANGED <<files, module, loads, installed, reports, host>>
  BY DEF Attaches, Still
<1>2. PICK i \in progress.left :
        /\ AllVerified(Group(progress.of, i))
        /\ listeners' = Append(listeners, Listener(progress.of, loads, i))
        /\ progress' = [progress EXCEPT !.left = progress.left \ Group(progress.of, i)]
  BY DEF Attaches
<1>0. PICK m, left, l : m = progress.of /\ left = progress.left /\ l = Listener(m, loads, i)
  OBVIOUS
<1>3. /\ progress'.of = m /\ progress'.load = progress.load
      /\ progress'.checked = progress.checked /\ progress'.left = progress.left \ Group(m, i)
      /\ progress' \in Progresses /\ Installing'
  BY <1>0, <1>1, <1>2, InstallingHolds DEF Progresses, Installing
<1>4. l.of = m /\ l.load = loads /\ l.address = Address(m, i) /\ l.listings = Group(m, i)
  BY <1>0 DEF Listener
<1>a. \E S : listeners' \in Seq(S)
  BY <1>0, <1>2, AppendedSeq DEF AttachInv, InstallTypes
<1>5. /\ DOMAIN listeners' = DOMAIN listeners \cup {Len(listeners) + 1}
      /\ \A n \in DOMAIN listeners : listeners'[n] = listeners[n]
      /\ listeners'[Len(listeners) + 1] = l
  BY <1>0, <1>2, Appended DEF AttachInv, InstallTypes
<1>6. (\A t : Reported(t)' <=> Reported(t)) /\ (Ready' <=> Ready) /\ (Going' <=> Going)
  BY <1>1 DEF Reported, Ready, Going
<1>7. \A n \in DOMAIN listeners' : listeners'[n].load \in Nat /\ listeners'[n].load <= loads
  <2>1. /\ loads \in Nat
        /\ \A n \in DOMAIN listeners : listeners[n].load \in Nat /\ listeners[n].load <= loads
    BY DEF AttachInv, InstallTypes
  <2> QED BY <1>4, <1>5, <2>1
<1>8. InstallTypes'
  BY <1>1, <1>3, <1>5, <1>7, <1>a DEF AttachInv, InstallTypes
<1>9. AttachedIsVerified'
  <2>1. \A c \in Nat : c < progress.checked => Check(m, c)
    BY <1>0, <1>1 DEF AttachInv
  <2>2. /\ Len(Listed) \in Nat /\ DOMAIN Listed = 1..Len(Listed)
        /\ progress.checked \in Nat /\ progress.checked > Len(Listed)
    BY <1>1, <1>2, ListedAssumption, InstallingHolds DEF AllVerified
  <2>3. Check(m, 0) /\ \A k \in DOMAIN Listed : Check(m, k) /\ k # 0
    BY <2>1, <2>2
  <2>4. m.identity = Pinned /\ \A k \in DOMAIN Listed : Matches(m, k)
    BY <2>3 DEF Check
  <2>5. \A o, k : Matches(o, k)' = Matches(o, k)
    BY <1>1, FilesStay
  <2>6. ASSUME NEW n \in DOMAIN listeners'
        PROVE  /\ listeners'[n].of.identity = Pinned
               /\ \A k \in DOMAIN Listed : Matches(listeners'[n].of, k)
    BY <1>4, <1>5, <2>4 DEF AttachInv, AttachedIsVerified
  <2>7. \A n \in DOMAIN listeners' : \A k \in DOMAIN Listed : Matches(listeners[n].of, k)'
    BY <2>5, <2>6 DEF Matches
  <2> QED BY <2>6, <2>7 DEF AttachedIsVerified
<1>10. Reported("install_error") \/ Served(progress.of, progress.left)'
  <2> SUFFICES ASSUME ~Reported("install_error") PROVE Served(progress.of, progress.left)'
    OBVIOUS
  <2>1. Served(m, left) /\ left \in SUBSET DOMAIN Listed /\ i \in left
    BY <1>0, <1>1, InstallingHolds DEF AttachInv
  <2>a. PICK rest : rest = left \ Group(m, i)
    OBVIOUS
  <2>2. Served(m, rest)'
    BY <1>0, <1>1, <1>2, <1>4, <2>1, <2>a, AttachesServes
  <2>4. progress'.of = m /\ progress'.left = rest
    BY <1>0, <1>3, <2>a
  <2> HIDE <2>a
  <2> QED BY <2>2, <2>4, ServedNow
<1>11. \A c \in Nat : c < progress'.checked => Check(progress.of, c)'
  <2>1. \A o, c : Check(o, c)' = Check(o, c)
    BY <1>1, FilesStay
  <2> QED BY <1>0, <1>1, <1>3, <2>1 DEF AttachInv, Check, Matches
<1> QED BY <1>1, <1>3, <1>6, <1>8, <1>9, <1>10, <1>11, InstallingHolds DEF AttachInv

LEMMA InstallsKeeps ==
  ASSUME AttachInv, Installs, UNCHANGED host
  PROVE  AttachInv'
<1>1. /\ Installing /\ progress.left = {} /\ progress' = NoInstall /\ installed' = TRUE
      /\ reports' = Append(reports, "installed")
      /\ UNCHANGED <<files, module, loads, listeners, host>>
  BY DEF Installs, Still
<1>2. progress' \in Progresses /\ ~Installing'
  BY <1>1, NothingInstalls DEF Installing
<1>3. (\E S : reports \in Seq(S))' /\ (\A t : Reported(t)' <=> Reported(t) \/ t = "installed")
  BY <1>1, ReportedMore DEF AttachInv, InstallTypes
<1>4. InstallTypes'
  BY <1>1, <1>2, <1>3 DEF AttachInv, InstallTypes
<1>5. AttachedIsVerified'
  BY <1>1, VerifiedStays DEF AttachInv
<1>6. Reported("install_error") \/ \E m : Served(m, {})'
  <2>1. Reported("install_error") \/ Served(progress.of, progress.left)
    BY <1>1 DEF AttachInv
  <2>2. \A m, left : Served(m, left)' = Served(m, left)
    BY <1>1, ServedStays
  <2>3. ASSUME Served(progress.of, progress.left) PROVE \E m : Served(m, {})'
    <3>1. PICK m : m = progress.of
      OBVIOUS
    <3>2. Served(m, {})
      BY <1>1, <2>3, <3>1
    <3> QED BY <2>2, <3>2
  <2> QED BY <2>1, <2>3
<1>7. ~Going'
  BY <1>1, InstallingHolds DEF Going
<1> QED BY <1>1, <1>2, <1>3, <1>4, <1>5, <1>6, <1>7 DEF AttachInv

LEMMA FailsKeeps ==
  ASSUME AttachInv, InstallFails, UNCHANGED host
  PROVE  AttachInv'
<1>1. /\ Installing /\ progress' = NoInstall /\ reports' = Append(reports, "install_error")
      /\ UNCHANGED <<files, module, loads, installed, listeners, host>>
  BY DEF InstallFails, Still
<1>2. progress' \in Progresses /\ ~Installing'
  BY <1>1, NothingInstalls DEF Installing
<1>3. (\E S : reports \in Seq(S))' /\ (\A t : Reported(t)' <=> Reported(t) \/ t = "install_error")
  BY <1>1, ReportedMore DEF AttachInv, InstallTypes
<1>4. InstallTypes'
  BY <1>1, <1>2, <1>3 DEF AttachInv, InstallTypes
<1>5. AttachedIsVerified'
  BY <1>1, VerifiedStays DEF AttachInv
<1>6. ~Going' /\ ~Reported("installed")'
  BY <1>1, <1>3, InstallingHolds DEF Going
<1> QED BY <1>1, <1>2, <1>3, <1>4, <1>5, <1>6 DEF AttachInv

LEMMA HostAttach ==
  ASSUME AttachInv, HostStep
  PROVE  AttachInv'
<1> USE DEF HostStep, LoadsDeclarations, LoadReturns, InstallReported, InstallTimeout,
            SetupFails, SetsUp, Binds, EnablesCapture, Begins, RunReturns, RunFails, Collects,
            Stops, Finishes, AgentErrorCheck, Unloads, Writes, TargetGone,
            Compares, Goes, Keeps, Calls, installVars
<1>1. UNCHANGED <<files, agentInstall, loads, module>>
  OBVIOUS
<1>2. Going' => Going \/ Ready
  BY DEF Going
<1>3. loads \in Nat /\ module \in Modules \cup {Absent}
  BY DEF AttachInv, InstallTypes
<1> QED BY <1>1, <1>2, <1>3, InstallQuiet

LEMMA AttachNext == AttachInv /\ [Next]_vars => AttachInv'
<1> SUFFICES ASSUME AttachInv, [Next]_vars PROVE AttachInv'
  OBVIOUS
<1>0. loads \in Nat /\ module \in Modules \cup {Absent}
  BY DEF AttachInv, InstallTypes
<1>1. CASE HostStep
  BY <1>1, HostAttach
<1>2. CASE Script
  <2>1. UNCHANGED host /\ InstallStep
    BY <1>2 DEF Script
  <2>2. CASE ScriptRuns
    <3>1. UNCHANGED <<files, module, loads>>
      BY <2>2 DEF ScriptRuns
    <3>2. CASE module = Absent
      BY <1>0, <2>1, <2>2, <3>1, <3>2, InstallQuiet DEF ScriptRuns, Going
    <3>3. CASE module # Absent
      BY <1>0, <2>1, <2>2, <3>1, <3>3, StartsKeeps DEF ScriptRuns
    <3> QED BY <3>2, <3>3
  <2> QED BY <2>1, <2>2, VerifiesKeeps, AttachesKeeps, InstallsKeeps, FailsKeeps DEF InstallStep
<1>3. CASE Loader
  <2>1. UNCHANGED host
    BY <1>3 DEF Loader
  <2>2. CASE ModuleUnloads
    BY <1>0, <2>1, <2>2, InstallQuiet DEF ModuleUnloads, Going
  <2>3. ASSUME NEW m \in Modules, ModuleLoads(m) PROVE AttachInv'
    <3>1. /\ UNCHANGED files /\ loads' = loads + 1 /\ module' = m
          /\ Starts(m, loads') \/ UNCHANGED agentInstall
      BY <2>3 DEF ModuleLoads
    <3>2. CASE UNCHANGED agentInstall
      BY <1>0, <2>1, <3>1, <3>2, InstallQuiet DEF Going
    <3>3. CASE Starts(m, loads')
      <4>1. \E load \in Nat : load = loads' /\ Starts(m, load)
        BY <1>0, <3>1, <3>3 DEF Starts
      <4> QED BY <1>0, <2>1, <3>1, <4>1, StartsKeeps
    <3> QED BY <3>1, <3>2, <3>3
  <2> QED BY <1>3, <2>2, <2>3 DEF Loader
<1>4. CASE Ticks \/ TargetDies \/ Terminated \/ (\E u \in Callers : Oracle(u)) \/ UNCHANGED vars
  <2>1. UNCHANGED <<files, agentInstall, loads, module, host>>
    BY <1>4 DEF Ticks, TargetDies, Terminated, Oracle, vars, installVars
  <2> QED BY <1>0, <2>1, InstallQuiet DEF Going
<1> QED BY <1>1, <1>2, <1>3, <1>4 DEF Next

(* Nothing is ever attached to an image that is not the pinned build or in *)
(* which one listed probe does not match, although install() checks and    *)
(* attaches step by step while images come and go (agent.js:423-458).      *)
THEOREM AttachedAreVerified == Spec => []AttachedIsVerified
<1>1. AttachInv => AttachedIsVerified
  BY DEF AttachInv
<1> QED BY <1>1, InitAttached, AttachNext, PTL DEF Spec

LEMMA AttachedReady == AttachInv => ReadyAttachedOnce
<1> SUFFICES ASSUME AttachInv, Going
             PROVE  /\ \A i \in DOMAIN Listed :
                         Cardinality({n \in DOMAIN listeners : i \in listeners[n].listings}) = 1
                    /\ \A n \in DOMAIN listeners : \A i \in listeners[n].listings :
                         Address(listeners[n].of, i) = listeners[n].address
                    /\ \A n, o \in DOMAIN listeners :
                         n # o /\ listeners[n].address = listeners[o].address
                           => \E l \in {n, o} : \A i \in listeners[l].listings : OnInstruction(i)
  BY DEF ReadyAttachedOnce, Going
<1>1. PICK m : Served(m, {})
  BY DEF AttachInv, Ready
<1>2. /\ \A n \in DOMAIN listeners : \E j \in DOMAIN Listed :
           /\ listeners[n].of = m /\ listeners[n].address = Address(m, j)
           /\ listeners[n].listings = Group(m, j)
      /\ \A i \in DOMAIN Listed : \E n \in DOMAIN listeners : i \in listeners[n].listings
      /\ \A n, o \in DOMAIN listeners :
           listeners[n].listings \cap listeners[o].listings # {} => n = o
  BY <1>1 DEF Served
<1>3. ASSUME NEW i \in DOMAIN Listed
      PROVE  Cardinality({n \in DOMAIN listeners : i \in listeners[n].listings}) = 1
  <2>1. PICK n \in DOMAIN listeners : i \in listeners[n].listings
    BY <1>2
  <2>2. \A o \in DOMAIN listeners : i \in listeners[o].listings => o = n
    BY <1>2, <2>1
  <2>3. {o \in DOMAIN listeners : i \in listeners[o].listings} = {n}
    BY <2>1, <2>2
  <2> QED BY <2>3, FS_Singleton
<1>4. ASSUME NEW n \in DOMAIN listeners, NEW i \in listeners[n].listings
      PROVE  Address(listeners[n].of, i) = listeners[n].address
  BY <1>2, Groups
<1>5. ASSUME NEW n \in DOMAIN listeners, NEW o \in DOMAIN listeners, n # o,
             listeners[n].address = listeners[o].address
      PROVE  \E l \in {n, o} : \A i \in listeners[l].listings : OnInstruction(i)
  <2>1. PICK j \in DOMAIN Listed :
          listeners[n].address = Address(m, j) /\ listeners[n].listings = Group(m, j)
    BY <1>2
  <2>2. PICK k \in DOMAIN Listed :
          listeners[o].address = Address(m, k) /\ listeners[o].listings = Group(m, k)
    BY <1>2
  <2>3. Group(m, j) # Group(m, k)
    <3>1. j \in Group(m, j)
      BY Groups
    <3>2. listeners[n].listings \cap listeners[o].listings = {}
      BY <1>2, <1>5
    <3> QED BY <2>1, <2>2, <3>1, <3>2
  <2>4. OnInstruction(j) \/ OnInstruction(k)
    <3>1. Address(m, j) = Address(m, k)
      BY <1>5, <2>1, <2>2
    <3>2. j \in DOMAIN Listed /\ k \in DOMAIN Listed
      BY <2>1, <2>2
    <3>3. ~OnInstruction(j) /\ ~OnInstruction(k) => Group(m, k) = Group(m, j)
      BY <3>1, <3>2 DEF Group
    <3> QED BY <2>3, <3>3
  <2> QED BY <2>1, <2>2, <2>4, Groups
<1> QED BY <1>3, <1>4, <1>5

(* Once the host goes on, each listed probe is in exactly one listener, at *)
(* its own address, and shares it with the function probes of that address *)
(* (agent.js:446-476, fixture.py:76-82).                                   *)
THEOREM ReadyIsAttachedOnce == Spec => []ReadyAttachedOnce
  BY InitAttached, AttachNext, AttachedReady, PTL DEF Spec

(* Nothing is attached once the host has gone on, and an image that comes  *)
(* or goes then leaves no probe in what is loaded.                         *)
LEMMA GoingAttachesNothing ==
  ASSUME AttachInv, Going, Script
  PROVE  UNCHANGED <<module, loads, listeners>>
<1>1. installed /\ ~Installing
  BY InstallingHolds DEF AttachInv, Ready
<1> QED BY <1>1 DEF Script, InstallStep, Verifies, Attaches, Installs, InstallFails,
           ScriptRuns, Starts, agentInstall

LEMMA LoaderUnhooks ==
  ASSUME AttachInv, Loader
  PROVE  ~Hooked'
<1>1. UNCHANGED listeners
  BY DEF Loader, ModuleUnloads, ModuleLoads, Starts, agentInstall
<1>2. module' = Absent \/ loads' = loads + 1
  BY DEF Loader, ModuleUnloads, ModuleLoads
<1>3. loads \in Nat /\ \A n \in DOMAIN listeners : listeners[n].load \in Nat /\ listeners[n].load <= loads
  BY DEF AttachInv, InstallTypes
<1>4. \A n \in DOMAIN listeners : loads' = loads + 1 => loads' # listeners[n].load
  BY <1>3
<1> QED BY <1>1, <1>2, <1>4 DEF Hooked, Present

-----------------------------------------------------------------------------
(* The claims of the fixture.                                              *)

Before == {"declaring", "loading", "installing", "ready", "prepared", "bound", "enabled"}
Ended == {"unloading", "writing", "written", "PASS", "FAIL"}
After == {"collecting", "finishing", "waiting", "checking"} \cup Ended
Kept == {"written", "PASS", "FAIL"}

Pcs == {"idle", "clock", "hook", "load", "again", "store", "leave"}
CallRecords ==
  [pc : Pcs, tracked : BOOLEAN, at : Nat, hooked : BOOLEAN, first : Nat, seen : Nat]
Recorded == [at : Nat, elapsed : Int]

FixtureTypeOK ==
  /\ clock \in Nat /\ previous \in Nat
  /\ bound \in BOOLEAN /\ accepting \in BOOLEAN /\ capturing \in BOOLEAN
  /\ agentError \in BOOLEAN
  /\ call \in [Callers -> CallRecords]
  /\ calls \in Seq(Recorded) /\ claims \in Seq(Int)

(* The recorded calls are the first of the claims, and all of them while   *)
(* the image has listeners, unless an agent error has dropped one.         *)
Complete == Len(claims) = Len(calls)
Agreed ==
  /\ Len(calls) <= Len(claims)
  /\ agentError => ~Complete
  /\ ~agentError => \A n \in DOMAIN calls : claims[n] = calls[n].elapsed
  /\ Hooked /\ ~agentError => Complete

(* A call in flight that will be recorded is the fixture's, and the        *)
(* fixture's own call will be recorded unless its image has no listeners.  *)
InCalls ==
  /\ \A u \in Callers : call[u].tracked =>
       u = Fixture /\ Hooked /\ ~At(u, "idle")
  /\ ~At(Fixture, "idle") => (call[Fixture].tracked <=> Hooked)

FixtureInv ==
  /\ FixtureTypeOK /\ InCalls /\ Agreed
  /\ accepting => bound
  /\ host \in Before =>
       /\ ~accepting /\ At(Fixture, "idle") /\ ~agentError
       /\ calls = <<>> /\ claims = <<>>
  /\ host \in {"bound", "enabled"} => bound
  /\ host = "running" => accepting
  /\ host \in After => At(Fixture, "idle")
  /\ host \in Ended => ~agentError
  /\ host \in Kept => calls # <<>>

-----------------------------------------------------------------------------
LEMMA InitFixture == Init => FixtureInv
<1> SUFFICES ASSUME Init PROVE FixtureInv
  OBVIOUS
<1>1. Idle \in CallRecords /\ Idle.pc = "idle" /\ ~Idle.tracked
  BY DEF Idle, CallRecords, Pcs
<1>2. call = [u \in Callers |-> Idle] /\ Fixture \in Callers
  BY DEF Init, Callers
<1>3. FixtureTypeOK
  <2>1. call \in [Callers -> CallRecords]
    BY <1>1, <1>2
  <2>2. clock \in Nat /\ previous \in Nat /\ calls \in Seq(Recorded) /\ claims \in Seq(Int)
    BY DEF Init
  <2>3. /\ bound \in BOOLEAN /\ accepting \in BOOLEAN /\ capturing \in BOOLEAN
        /\ agentError \in BOOLEAN
    BY DEF Init
  <2> QED BY <2>1, <2>2, <2>3 DEF FixtureTypeOK
<1>4. InCalls
  BY <1>1, <1>2 DEF InCalls, At
<1>5. Agreed
  BY DEF Init, Agreed, Complete
<1> QED BY <1>1, <1>2, <1>3, <1>4, <1>5
        DEF FixtureInv, Init, Before, After, Ended, Kept, At

-----------------------------------------------------------------------------
(* A thread in pipeline_predict.                                           *)

(* A step that neither begins nor ends a call.                             *)
Proceeds(u) ==
  /\ ~At(u, "idle") /\ ~At(u, "idle")'
  /\ call'[u].tracked = call[u].tracked
  /\ \A w \in Callers \ {u} : call'[w] = call[w]
  /\ UNCHANGED <<calls, claims, agentError>>

LEMMA ProceedsKeeps ==
  ASSUME FixtureInv, NEW u \in Callers, Proceeds(u), FixtureTypeOK',
         UNCHANGED <<module, loads, listeners, host, bound, accepting>>
  PROVE  FixtureInv'
<1>1. Fixture \in Callers
  BY DEF Callers
<1>2. Hooked' = Hooked
  BY DEF Hooked, Present
<1>3. At(Fixture, "idle")' <=> At(Fixture, "idle")
  BY <1>1 DEF Proceeds, At
<1>4. InCalls'
  BY <1>1, <1>2, <1>3 DEF FixtureInv, InCalls, Proceeds
<1>5. Agreed'
  BY <1>2 DEF FixtureInv, Agreed, Complete, Proceeds
<1> QED BY <1>3, <1>4, <1>5 DEF FixtureInv, Proceeds

LEMMA ReadsClockProceeds ==
  ASSUME FixtureInv, NEW u \in Callers, ReadsClock(u), UNCHANGED agentVars
  PROVE  Proceeds(u) /\ FixtureTypeOK'
<1>1. /\ call[u] \in CallRecords /\ call[u].pc = "clock"
      /\ call' = [call EXCEPT ![u] = [[[call[u] EXCEPT !.pc = "hook"] EXCEPT !.at = clock]
                                        EXCEPT !.hooked = capturing]]
      /\ UNCHANGED <<clock, previous, calls, claims, agentError, bound, accepting, capturing>>
  BY DEF FixtureInv, FixtureTypeOK, ReadsClock, At, agentVars
<1>2. call'[u] \in CallRecords /\ call'[u].pc = "hook" /\ call'[u].tracked = call[u].tracked
  BY <1>1 DEF FixtureInv, FixtureTypeOK, CallRecords, Pcs
<1>3. FixtureTypeOK'
  BY <1>1, <1>2 DEF FixtureInv, FixtureTypeOK
<1> QED BY <1>1, <1>2, <1>3 DEF FixtureInv, FixtureTypeOK, Proceeds, At

LEMMA ClockReturnsProceeds ==
  ASSUME FixtureInv, NEW u \in Callers, ClockReturns(u), UNCHANGED agentVars
  PROVE  Proceeds(u) /\ FixtureTypeOK'
<1>1. /\ call[u] \in CallRecords /\ call[u].pc = "hook"
      /\ call' = [call EXCEPT ![u] = [call[u] EXCEPT !.pc = "load"]]
      /\ UNCHANGED <<clock, previous, calls, claims, agentError, bound, accepting, capturing>>
  BY DEF FixtureInv, FixtureTypeOK, ClockReturns, At, agentVars
<1>2. call'[u] \in CallRecords /\ call'[u].pc = "load" /\ call'[u].tracked = call[u].tracked
  BY <1>1 DEF FixtureInv, FixtureTypeOK, CallRecords, Pcs
<1>3. FixtureTypeOK'
  BY <1>1, <1>2 DEF FixtureInv, FixtureTypeOK
<1> QED BY <1>1, <1>2, <1>3 DEF FixtureInv, FixtureTypeOK, Proceeds, At

LEMMA TestsPreviousProceeds ==
  ASSUME FixtureInv, NEW u \in Callers, TestsPrevious(u), UNCHANGED agentVars
  PROVE  Proceeds(u) /\ FixtureTypeOK'
<1>1. /\ call[u] \in CallRecords /\ call[u].pc = "load" /\ previous \in Nat
      /\ call' = [call EXCEPT ![u] =
                    [[call[u] EXCEPT !.pc = IF previous = 0 THEN "store" ELSE "again"]
                       EXCEPT !.first = previous]]
      /\ UNCHANGED <<clock, previous, calls, claims, agentError, bound, accepting, capturing>>
  BY DEF FixtureInv, FixtureTypeOK, TestsPrevious, At, agentVars
<1>2. /\ call'[u] \in CallRecords /\ call'[u].pc \in {"store", "again"}
      /\ call'[u].tracked = call[u].tracked
  BY <1>1 DEF FixtureInv, FixtureTypeOK, CallRecords, Pcs
<1>3. FixtureTypeOK'
  BY <1>1, <1>2 DEF FixtureInv, FixtureTypeOK
<1> QED BY <1>1, <1>2, <1>3 DEF FixtureInv, FixtureTypeOK, Proceeds, At

LEMMA LoadsPreviousProceeds ==
  ASSUME FixtureInv, NEW u \in Callers, LoadsPrevious(u), UNCHANGED agentVars
  PROVE  Proceeds(u) /\ FixtureTypeOK'
<1>0. PICK seen \in {previous, call[u].first} :
        call' = [call EXCEPT ![u].pc = "store", ![u].seen = seen]
  BY DEF LoadsPrevious
<1>1. /\ call[u] \in CallRecords /\ call[u].pc = "again" /\ seen \in Nat
      /\ call' = [call EXCEPT ![u] = [[call[u] EXCEPT !.pc = "store"] EXCEPT !.seen = seen]]
      /\ UNCHANGED <<clock, previous, calls, claims, agentError, bound, accepting, capturing>>
  <2>1. call[u] \in CallRecords /\ previous \in Nat /\ call[u].pc = "again"
    BY DEF FixtureInv, FixtureTypeOK, LoadsPrevious, At
  <2>2. seen \in Nat
    BY <1>0, <2>1 DEF CallRecords
  <2> QED BY <1>0, <2>1, <2>2 DEF LoadsPrevious, agentVars
<1>2. call'[u] \in CallRecords /\ call'[u].pc = "store" /\ call'[u].tracked = call[u].tracked
  BY <1>1 DEF FixtureInv, FixtureTypeOK, CallRecords, Pcs
<1>3. FixtureTypeOK'
  BY <1>1, <1>2 DEF FixtureInv, FixtureTypeOK
<1> QED BY <1>1, <1>2, <1>3 DEF FixtureInv, FixtureTypeOK, Proceeds, At

LEMMA StoresPreviousProceeds ==
  ASSUME FixtureInv, NEW u \in Callers, StoresPrevious(u), UNCHANGED agentVars
  PROVE  Proceeds(u) /\ FixtureTypeOK'
<1>1. /\ call[u] \in CallRecords /\ call[u].pc = "store"
      /\ call' = [call EXCEPT ![u] = [call[u] EXCEPT !.pc = "leave"]]
      /\ previous' = call[u].at
      /\ UNCHANGED <<clock, calls, claims, agentError, bound, accepting, capturing>>
  BY DEF FixtureInv, FixtureTypeOK, StoresPrevious, At, agentVars
<1>2. /\ call'[u] \in CallRecords /\ call'[u].pc = "leave"
      /\ call'[u].tracked = call[u].tracked /\ previous' \in Nat
  BY <1>1 DEF FixtureInv, FixtureTypeOK, CallRecords, Pcs
<1>3. FixtureTypeOK'
  BY <1>1, <1>2 DEF FixtureInv, FixtureTypeOK
<1> QED BY <1>1, <1>2, <1>3 DEF FixtureInv, FixtureTypeOK, Proceeds, At

(* A call begins: recorded if it is the fixture's, while it runs.          *)
LEMMA CalledKeeps ==
  ASSUME FixtureInv, NEW u \in Callers, Called(u),
         UNCHANGED <<module, loads, listeners, host, agentVars>>
  PROVE  FixtureInv'
<1> DEFINE tracked == Hooked /\ accepting /\ PassesFixture(u)
           r == [Idle EXCEPT !.pc = "clock", !.tracked = tracked]
<1>1. /\ call[u].pc = "idle"
      /\ u = Fixture => host = "running"
      /\ call' = [call EXCEPT ![u] = r]
      /\ UNCHANGED <<clock, previous, calls, claims, agentError, bound, accepting, capturing>>
  BY DEF Called, At, agentVars
<1>2. /\ tracked => Hooked /\ u = Fixture
      /\ accepting /\ u = Fixture => (tracked <=> Hooked)
  BY DEF FixtureInv, PassesFixture
<1>3. tracked \in BOOLEAN
  OBVIOUS
<1> HIDE DEF tracked
<1>4. r \in CallRecords /\ r.pc = "clock" /\ r.tracked = tracked
  BY <1>3 DEF CallRecords, Pcs, Idle
<1> HIDE DEF r
<1>5. /\ call'[u] = r /\ \A w \in Callers \ {u} : call'[w] = call[w]
      /\ call' \in [Callers -> CallRecords]
  BY <1>1, <1>4 DEF FixtureInv, FixtureTypeOK
<1>6. FixtureTypeOK'
  BY <1>1, <1>5 DEF FixtureInv, FixtureTypeOK
<1>7. Fixture \in Callers /\ Hooked' = Hooked
  BY DEF Callers, Hooked, Present
<1>8. InCalls'
  <2>1. ASSUME NEW w \in Callers, call'[w].tracked
        PROVE  w = Fixture /\ Hooked' /\ ~At(w, "idle")'
    BY <1>2, <1>4, <1>5, <1>7, <2>1 DEF FixtureInv, InCalls, At
  <2>2. ASSUME ~At(Fixture, "idle")'
        PROVE  call'[Fixture].tracked <=> Hooked'
    <3>1. CASE u = Fixture
      BY <3>1, <1>1, <1>2, <1>4, <1>5, <1>7 DEF FixtureInv
    <3>2. CASE u # Fixture
      BY <3>2, <1>5, <1>7, <2>2 DEF FixtureInv, InCalls, At
    <3> QED BY <3>1, <3>2
  <2> QED BY <2>1, <2>2 DEF InCalls
<1>9. Agreed'
  BY <1>1, <1>7 DEF FixtureInv, Agreed, Complete
<1>10. u # Fixture => (At(Fixture, "idle")' <=> At(Fixture, "idle"))
  BY <1>5, <1>7 DEF At
<1>11. u = Fixture => host \notin Before \cup After
  BY <1>1 DEF Before, After, Ended
<1> QED BY <1>1, <1>6, <1>8, <1>9, <1>10, <1>11 DEF FixtureInv

(* The fixture's call ends: it is recorded, dropped with an error, or was  *)
(* not seen by the agent.                                                  *)
LEMMA ClaimedMore ==
  ASSUME FixtureTypeOK, Agreed, NEW e \in Int, NEW c \in Recorded, c.elapsed = e,
         claims' = Append(claims, e), UNCHANGED <<module, loads, listeners>>,
         \/ Hooked /\ calls' = Append(calls, c) /\ UNCHANGED agentError
         \/ UNCHANGED calls /\ agentError' = TRUE
         \/ ~Hooked /\ UNCHANGED <<calls, agentError>>
  PROVE  Agreed'
<1>1. /\ calls \in Seq(Recorded) /\ claims \in Seq(Int)
      /\ Len(calls) \in Nat /\ Len(claims) \in Nat /\ DOMAIN calls = 1..Len(calls)
  BY DEF FixtureTypeOK
<1>2. /\ Len(claims') = Len(claims) + 1 /\ Len(claims') \in Nat /\ claims'[Len(claims) + 1] = e
      /\ \A n \in 1..Len(claims) : claims'[n] = claims[n]
  BY <1>1
<1>3. Len(calls) <= Len(claims) /\ \A n \in DOMAIN calls : n \in 1..Len(claims)
  BY <1>1 DEF Agreed
<1>4. Hooked' = Hooked
  BY DEF Hooked, Present
<1>5. CASE Hooked /\ calls' = Append(calls, c) /\ UNCHANGED agentError
  <2>1. /\ Len(calls') = Len(calls) + 1 /\ DOMAIN calls' = 1..(Len(calls) + 1)
        /\ calls'[Len(calls) + 1] = c /\ \A n \in 1..Len(calls) : calls'[n] = calls[n]
    BY <1>1, <1>5
  <2>2. Len(calls') <= Len(claims') /\ (Complete' <=> Complete)
    BY <1>1, <1>2, <1>3, <2>1 DEF Complete
  <2>3. ASSUME ~agentError, NEW n \in DOMAIN calls' PROVE claims'[n] = calls'[n].elapsed
    <3>1. CASE n \in 1..Len(calls)
      BY <1>1, <1>2, <1>3, <2>1, <2>3, <3>1 DEF Agreed
    <3>2. CASE n = Len(calls) + 1
      <4>1. Len(claims) = Len(calls)
        BY <1>5, <2>3 DEF Agreed, Complete
      <4>2. claims'[Len(calls) + 1] = e
        BY <1>2, <4>1
      <4> QED BY <2>1, <3>2, <4>2
    <3>3. n \in 1..Len(calls) \/ n = Len(calls) + 1
      BY <1>1, <2>1
    <3> QED BY <3>1, <3>2, <3>3
  <2> QED BY <1>4, <1>5, <2>2, <2>3 DEF Agreed
<1>6. CASE UNCHANGED calls
  <2>0. Len(calls') = Len(calls)
    BY <1>6
  <2>a. PICK more \in Nat, old \in Nat, older \in Nat :
          more = Len(claims') /\ older = Len(claims) /\ old = Len(calls)
    BY <1>1, <1>2
  <2>b. more = older + 1 /\ old <= older
    BY <1>2, <1>3, <2>a
  <2>c. old <= more /\ more # old
    BY <2>b
  <2>1. Len(calls') <= Len(claims') /\ ~Complete'
    BY <2>0, <2>a, <2>c DEF Complete
  <2>2. \A n \in DOMAIN calls : claims'[n] = claims[n]
    BY <1>2, <1>3
  <2> QED BY <1>4, <1>6, <2>1, <2>2 DEF Agreed
<1> QED BY <1>5, <1>6

LEMMA ReturnsKeeps ==
  ASSUME FixtureInv, NEW u \in Callers, Returns(u),
         UNCHANGED <<module, loads, listeners, host, agentVars>>
  PROVE  FixtureInv'
<1> DEFINE e == Elapsed(u)
           c == [at |-> call[u].at, elapsed |-> e]
<1>1. call[u] \in CallRecords
  BY DEF FixtureInv, FixtureTypeOK
<1>2. e \in Int /\ c \in Recorded /\ c.elapsed = e
  BY <1>1 DEF Elapsed, CallRecords, Recorded
<1>3. /\ call[u].pc = "leave" /\ call' = [call EXCEPT ![u] = Idle]
      /\ \/ calls' = (IF call[u].tracked THEN Append(calls, c) ELSE calls)
              /\ UNCHANGED agentError
         \/ call[u].tracked /\ agentError' = TRUE /\ UNCHANGED calls
      /\ claims' = IF u = Fixture THEN Append(claims, e) ELSE claims
      /\ UNCHANGED <<clock, previous, bound, accepting, capturing>>
  BY DEF Returns, At, agentVars
<1> HIDE DEF e, c
<1>4. /\ Idle \in CallRecords /\ Idle.pc = "idle" /\ ~Idle.tracked
  BY DEF Idle, CallRecords, Pcs
<1>5. /\ call'[u] = Idle /\ \A w \in Callers \ {u} : call'[w] = call[w]
      /\ call' \in [Callers -> CallRecords]
  BY <1>3, <1>4 DEF FixtureInv, FixtureTypeOK
<1>6. FixtureTypeOK'
  <2>0. calls \in Seq(Recorded) /\ claims \in Seq(Int) /\ agentError \in BOOLEAN
    BY DEF FixtureInv, FixtureTypeOK
  <2>1. calls' = Append(calls, c) \/ calls' = calls
    BY <1>3
  <2>2. calls' \in Seq(Recorded)
    BY <1>2, <2>0, <2>1
  <2>3. claims' \in Seq(Int)
    BY <1>2, <1>3, <2>0
  <2>4. agentError' \in BOOLEAN
    BY <1>3, <2>0
  <2> QED BY <1>3, <1>5, <2>2, <2>3, <2>4 DEF FixtureInv, FixtureTypeOK
<1>7. Fixture \in Callers /\ Hooked' = Hooked
  BY DEF Callers, Hooked, Present
<1>8. InCalls'
  BY <1>4, <1>5, <1>7 DEF FixtureInv, InCalls, At
<1>9. call[u].tracked <=> u = Fixture /\ Hooked
  BY <1>3, <1>7 DEF FixtureInv, InCalls, At
<1>10. Agreed'
  <2>1. CASE u = Fixture
    <3>1. claims' = Append(claims, e) /\ FixtureTypeOK /\ Agreed
      BY <1>3, <2>1 DEF FixtureInv
    <3>2. \/ Hooked /\ calls' = Append(calls, c) /\ UNCHANGED agentError
          \/ UNCHANGED calls /\ agentError' = TRUE
          \/ ~Hooked /\ UNCHANGED <<calls, agentError>>
      BY <1>3, <1>9, <2>1
    <3> QED BY <1>2, <3>1, <3>2, ClaimedMore
  <2>2. CASE u # Fixture
    BY <2>2, <1>3, <1>7, <1>9 DEF FixtureInv, Agreed, Complete
  <2> QED BY <2>1, <2>2
<1>11. u # Fixture => (At(Fixture, "idle")' <=> At(Fixture, "idle")) /\ UNCHANGED <<calls, claims, agentError>>
  BY <1>3, <1>5, <1>7, <1>9 DEF At
<1>12. u = Fixture => host \notin Before \cup After
  BY <1>3 DEF FixtureInv, At
<1>13. host \notin Before \cup After => host \notin Ended \cup Kept
  BY DEF After, Ended, Kept
<1> QED BY <1>3, <1>6, <1>8, <1>10, <1>11, <1>12, <1>13 DEF FixtureInv

LEMMA OracleKeeps ==
  ASSUME FixtureInv, NEW u \in Callers, Oracle(u)
  PROVE  FixtureInv'
<1>1. UNCHANGED <<module, loads, listeners, host, agentVars, bound, accepting>> /\ Predict(u)
  BY DEF Oracle, installVars, agentInstall, agentVars
<1>2. Called(u) \/ Returns(u) => FixtureInv'
  BY <1>1, CalledKeeps, ReturnsKeeps
<1>3. ~(Called(u) \/ Returns(u)) => Proceeds(u) /\ FixtureTypeOK'
  BY <1>1, ReadsClockProceeds, ClockReturnsProceeds, TestsPreviousProceeds, LoadsPreviousProceeds,
     StoresPreviousProceeds DEF Predict
<1> QED BY <1>1, <1>2, <1>3, ProceedsKeeps

-----------------------------------------------------------------------------
(* Everything else leaves the calls alone.                                 *)

NothingCalled == UNCHANGED <<call, calls, claims, agentError>>

LEMMA TypesStay ==
  ASSUME FixtureTypeOK, NothingCalled, clock' \in Nat,
         previous' \in Nat, bound' \in BOOLEAN, accepting' \in BOOLEAN,
         capturing' \in BOOLEAN
  PROVE  FixtureTypeOK'
BY DEF FixtureTypeOK, NothingCalled

(* The host goes on, or back to where nothing is promised.                 *)
LEMMA HostKeeps ==
  ASSUME FixtureInv, UNCHANGED <<module, loads, listeners>>, NothingCalled, FixtureTypeOK',
         accepting' => bound',
         host' \in Before => host \in Before /\ ~accepting',
         host' \in {"bound", "enabled"} => bound',
         host' = "running" => accepting',
         host' \in After => At(Fixture, "idle"),
         host' \in Ended => ~agentError,
         host' \in Kept => calls # <<>>
  PROVE  FixtureInv'
<1>1. Hooked' = Hooked /\ (At(Fixture, "idle")' <=> At(Fixture, "idle"))
  BY DEF Hooked, Present, At, NothingCalled
<1>2. InCalls' /\ Agreed'
  BY <1>1 DEF FixtureInv, InCalls, Agreed, Complete, At, NothingCalled
<1> QED BY <1>1, <1>2 DEF FixtureInv, NothingCalled

LEMMA HostStepKeeps ==
  ASSUME FixtureInv, HostStep
  PROVE  FixtureInv'
<1> USE DEF HostStep, LoadsDeclarations, LoadReturns, InstallReported, InstallTimeout,
            SetupFails, SetsUp, Binds, EnablesCapture, Begins, RunReturns, RunFails, Collects,
            Stops, Finishes, AgentErrorCheck, Unloads, Writes, TargetGone,
            Compares, Keeps, Calls, Goes, agentVars
<1>1. /\ UNCHANGED <<module, loads, listeners, call, calls, claims, agentError, clock, previous>>
      /\ bound' \in BOOLEAN /\ accepting' \in BOOLEAN /\ capturing' \in BOOLEAN
  BY DEF FixtureInv, FixtureTypeOK, installVars, agentInstall, oracleVars
<1>2. \/ UNCHANGED <<bound, accepting>>
      \/ host' = "bound" /\ bound' /\ UNCHANGED accepting
      \/ host = "enabled" /\ host' = "running" /\ accepting' /\ UNCHANGED bound
      \/ host = "finishing" /\ host' = "waiting" /\ ~accepting' /\ UNCHANGED bound
  OBVIOUS
<1>3. /\ host' \in Before => host \in Before /\ UNCHANGED accepting
      /\ host' = "bound" => bound'
      /\ host' = "enabled" => host = "bound" /\ UNCHANGED bound
      /\ host' = "running" => accepting'
      /\ host' \in Kept => host \in Kept \/ calls # <<>>
  BY DEF Before, Kept
<1>4. host' \in After => host \in After \/ (host = "running" /\ At(Fixture, "idle"))
  BY DEF After, Ended
<1>5. host' \in Ended => host \in Ended \/ ~agentError
  BY DEF Ended
<1> DEFINE types == FixtureTypeOK'
<1>6. types
  BY <1>1, TypesStay DEF FixtureInv, FixtureTypeOK, NothingCalled
<1>7. /\ accepting => bound
      /\ host = "enabled" => bound
      /\ host = "bound" => bound
      /\ host \in Before => ~accepting
      /\ host \in After => At(Fixture, "idle")
      /\ host \in Ended => ~agentError
      /\ host \in Kept => calls # <<>>
  BY DEF FixtureInv
<1> HIDE DEF HostStep, types
<1>8. (accepting' => bound') /\ (host' \in {"bound", "enabled"} => bound')
  BY <1>2, <1>3, <1>7
<1>9. /\ host' \in Before => host \in Before /\ ~accepting'
      /\ host' = "running" => accepting'
      /\ host' \in After => At(Fixture, "idle")
      /\ host' \in Ended => ~agentError
      /\ host' \in Kept => calls # <<>>
  BY <1>3, <1>4, <1>5, <1>7
<1> QED BY <1>1, <1>6, <1>8, <1>9, HostKeeps DEF NothingCalled, types

(* Images come and go, and listeners are attached, while nobody is in a    *)
(* call: the agent sees nothing of what is called in an image after it was *)
(* attached to another.                                                    *)
LEMMA ImagesKeep ==
  ASSUME FixtureInv, host \in {"loading", "installing"} \/ ~Hooked' \/ Hooked' = Hooked,
         At(Fixture, "idle"), UNCHANGED <<host, agentVars>>, NothingCalled,
         clock' \in Nat, previous' \in Nat
  PROVE  FixtureInv'
<1>1. UNCHANGED <<bound, accepting, capturing, call, calls, claims, agentError>>
  BY DEF agentVars, NothingCalled
<1>2. FixtureTypeOK'
  BY <1>1, TypesStay DEF FixtureInv, FixtureTypeOK
<1>3. (\A u \in Callers : ~call[u].tracked) /\ (At(Fixture, "idle")' <=> At(Fixture, "idle"))
  BY <1>1 DEF FixtureInv, InCalls, At
<1>4. InCalls'
  BY <1>1, <1>3 DEF InCalls
<1>5. Complete' = Complete
  BY <1>1 DEF Complete
<1>6. host \in {"loading", "installing"} => Complete
  BY DEF FixtureInv, Before, Complete
<1>7. Agreed'
  BY <1>1, <1>5, <1>6 DEF FixtureInv, Agreed
<1> QED BY <1>1, <1>2, <1>3, <1>4, <1>7 DEF FixtureInv

LEMMA QuietKeeps ==
  ASSUME FixtureInv, UNCHANGED <<module, loads, listeners, host, agentVars>>, NothingCalled,
         clock' \in Nat, previous' \in Nat
  PROVE  FixtureInv'
<1>1. UNCHANGED <<bound, accepting, capturing>>
  BY DEF agentVars
<1>2. FixtureTypeOK'
  BY <1>1, TypesStay DEF FixtureInv, FixtureTypeOK
<1> QED BY <1>1, <1>2, HostKeeps DEF FixtureInv, Before, After, Ended, Kept

(* The agent's script, before the host goes on or with nothing to attach.  *)
LEMMA ScriptIdle ==
  ASSUME AttachInv, FixtureInv, Script
  PROVE  /\ host \in {"loading", "installing"} \/ UNCHANGED <<module, loads, listeners>>
         /\ host \in {"loading", "installing"} => At(Fixture, "idle")
<1>1. CASE Going
  BY <1>1, GoingAttachesNothing DEF Going
<1>2. CASE ~Going
  BY <1>2 DEF Script, Going, FixtureInv, Before
<1> QED BY <1>1, <1>2 DEF Going

LEMMA FixtureNext == AttachInv /\ FixtureInv /\ [Next]_vars => FixtureInv'
<1> SUFFICES ASSUME AttachInv, FixtureInv, [Next]_vars PROVE FixtureInv'
  OBVIOUS
<1> USE DEF oracleVars, NothingCalled
<1>1. clock \in Nat /\ previous \in Nat
  BY DEF FixtureInv, FixtureTypeOK
<1>2. CASE UNCHANGED vars
  BY <1>1, <1>2, QuietKeeps DEF vars, installVars, agentInstall
<1>3. CASE Loader
  <2>1. At(Fixture, "idle") /\ UNCHANGED <<host, agentVars>> /\ NothingCalled
        /\ clock' \in Nat /\ previous' \in Nat
    BY <1>1, <1>3 DEF Loader, Callers
  <2> QED BY <1>3, <2>1, LoaderUnhooks, ImagesKeep
<1>4. CASE Script
  <2>1. UNCHANGED <<host, agentVars>> /\ NothingCalled /\ clock' \in Nat /\ previous' \in Nat
    BY <1>1, <1>4 DEF Script
  <2>2. CASE host \in {"loading", "installing"}
    BY <1>4, <2>1, <2>2, ScriptIdle, ImagesKeep
  <2>3. CASE host \notin {"loading", "installing"}
    BY <1>4, <2>1, <2>3, ScriptIdle, QuietKeeps
  <2> QED BY <2>2, <2>3
<1>5. CASE Ticks
  BY <1>1, <1>5, QuietKeeps DEF Ticks, installVars, agentInstall
<1>6. CASE TargetDies
  BY <1>1, <1>6, QuietKeeps DEF TargetDies, installVars, agentInstall
<1> QED BY <1>2, <1>3, <1>4, <1>5, <1>6, HostStepKeeps, OracleKeeps DEF Next, Terminated

-----------------------------------------------------------------------------
(* The readings.  Own are the fixture's: those of its recorded calls and   *)
(* of its call in flight once the hook has kept it.  The list has as many  *)
(* readings at least, and if it has no more they are the fixture's; while  *)
(* no other thread has called the oracle it has no more.  This is said     *)
(* while every claim has a recorded call; a claim without one stays.       *)
Ats == [n \in DOMAIN calls |-> calls[n].at]
Noted == call[Fixture].pc \in {"load", "again", "store", "leave"}
Own == IF Noted THEN Append(Ats, call[Fixture].at) ELSE Ats
Covers(rs, own, others) ==
  /\ Len(rs) >= Len(own)
  /\ Len(rs) = Len(own) => rs = own
  /\ others = 0 => Len(rs) = Len(own)

Fetched == {"finishing", "waiting", "checking"} \cup Ended

ReadingsInv ==
  /\ readings \in Seq(Nat) /\ collected \in Seq(Nat) /\ workerCalls \in Nat
  /\ At(Fixture, "idle") \/ capturing
  /\ At(Fixture, "hook") => call[Fixture].hooked
  /\ host \in Before \ {"enabled"} => ~capturing /\ readings = <<>>
  /\ host \in {"enabled", "running"} => capturing
  /\ \A u \in Callers \ {Fixture} : At(u, "idle") \/ workerCalls > 0
  /\ Complete => Covers(readings, Own, workerCalls)
  /\ Complete /\ host \in Fetched => Covers(collected, Ats, workerCalls)
  /\ host = "PASS" => collected = Ats /\ Complete

LastAt == IF calls = <<>> THEN 0 ELSE calls[Len(calls)].at
Gap(n) == IF n = 1 THEN 0 ELSE calls[n].at - calls[n - 1].at

(* The fixture is alone with the oracle and every call of it is recorded.  *)
Smooth == Hooked /\ workerCalls = 0 /\ ~agentError

SmoothCall ==
  /\ call[Fixture].pc \in {"hook", "load", "again", "store", "leave"} => call[Fixture].at >= 1
  /\ call[Fixture].pc \in {"again", "store", "leave"} => call[Fixture].first = LastAt
  /\ call[Fixture].pc \in {"store", "leave"} /\ call[Fixture].first # 0 =>
       call[Fixture].seen = LastAt
  /\ previous = IF At(Fixture, "leave") THEN call[Fixture].at ELSE LastAt

AloneInv ==
  /\ clock >= 1
  /\ host = "FAIL" => workerCalls > 0 \/ ~Hooked
  /\ host \in Before /\ workerCalls = 0 => previous = 0
  /\ Smooth =>
       /\ \A n \in DOMAIN calls : calls[n].at >= 1 /\ calls[n].elapsed = Gap(n)
       /\ SmoothCall

LEMMA AtsTyped ==
  ASSUME FixtureInv
  PROVE  /\ Ats \in Seq(Nat) /\ Len(Ats) = Len(calls) /\ Own \in Seq(Nat)
         /\ Len(calls) \in Nat /\ call[Fixture] \in CallRecords
<1>1. calls \in Seq(Recorded) /\ call[Fixture] \in CallRecords
  BY DEF FixtureInv, FixtureTypeOK, Callers
<1>2. \A n \in DOMAIN calls : calls[n].at \in Nat
  <2>1. \A n \in DOMAIN calls : calls[n] \in Recorded
    BY <1>1
  <2> QED BY <2>1 DEF Recorded
<1>3. Ats \in Seq(Nat) /\ Len(Ats) = Len(calls)
  BY <1>1, <1>2 DEF Ats
<1>4. call[Fixture].at \in Nat
  BY <1>1 DEF CallRecords
<1> QED BY <1>1, <1>3, <1>4 DEF Own

(* A reading more, of whichever thread, when other threads call too.       *)
LEMMA CoversMore ==
  ASSUME NEW rs \in Seq(Nat), NEW own \in Seq(Nat), NEW x \in Nat,
         NEW n, NEW m \in Nat \ {0}, Covers(rs, own, n)
  PROVE  Covers(rs, own, m) /\ Covers(Append(rs, x), own, m)
BY DEF Covers

(* A reading of the fixture, which is its own.                             *)
LEMMA CoversBoth ==
  ASSUME NEW rs \in Seq(Nat), NEW own \in Seq(Nat), NEW x \in Nat, NEW n,
         Covers(rs, own, n)
  PROVE  Covers(Append(rs, x), Append(own, x), n)
BY DEF Covers

(* Another thread in pipeline_predict.                                     *)
LEMMA OthersRead ==
  ASSUME FixtureInv, ReadingsInv, AloneInv, NEW u \in Callers, u # Fixture, Oracle(u)
  PROVE  ReadingsInv' /\ AloneInv'
<1>1. /\ UNCHANGED <<clock, host, module, loads, listeners, capturing, collected>>
      /\ Predict(u) /\ Fixture \in Callers /\ call \in [Callers -> CallRecords]
  <2>1. /\ UNCHANGED <<host, module, loads, listeners, capturing, collected>> /\ Predict(u)
        /\ Fixture \in Callers /\ call \in [Callers -> CallRecords]
    BY DEF Oracle, installVars, agentInstall, agentVars, FixtureInv, FixtureTypeOK, Callers
  <2>2. UNCHANGED clock
    BY <2>1 DEF Predict, Called, ReadsClock, ClockReturns, TestsPrevious, LoadsPrevious, StoresPrevious,
                Returns
  <2> QED BY <2>1, <2>2
<1>2. /\ \A w \in Callers \ {u} : call'[w] = call[w]
      /\ readings' = readings \/ readings' = Append(readings, call[u].at)
      /\ IF At(u, "idle") THEN workerCalls' = workerCalls + 1 ELSE UNCHANGED workerCalls
      /\ ~call[u].tracked => UNCHANGED <<calls, claims, agentError>>
  BY <1>1 DEF Predict, Called, ReadsClock, ClockReturns, TestsPrevious, LoadsPrevious, StoresPrevious,
              Returns, At
<1>3. call[u].at \in Nat /\ UNCHANGED <<calls, claims, agentError>> /\ call'[Fixture] = call[Fixture]
  BY <1>1, <1>2 DEF CallRecords, FixtureInv, InCalls
<1>4. workerCalls' \in Nat \ {0}
  BY <1>2 DEF ReadingsInv
<1>5. readings \in Seq(Nat) /\ readings' \in Seq(Nat)
  <2>1. readings \in Seq(Nat)
    BY DEF ReadingsInv
  <2> QED BY <1>2, <1>3, <2>1
<1>6. Ats' = Ats /\ Own' = Own /\ Complete' = Complete /\ Hooked' = Hooked
  BY <1>1, <1>3 DEF Ats, Own, Noted, Complete, Hooked, Present
<1>7. Complete => Covers(readings', Own, workerCalls')
  <2> SUFFICES ASSUME Complete PROVE Covers(readings', Own, workerCalls')
    OBVIOUS
  <2>1. Covers(readings, Own, workerCalls) /\ Own \in Seq(Nat)
    BY AtsTyped DEF ReadingsInv
  <2>2. /\ Covers(readings, Own, workerCalls')
        /\ Covers(Append(readings, call[u].at), Own, workerCalls')
    BY <1>3, <1>4, <1>5, <2>1, CoversMore
  <2> QED BY <1>2, <2>2
<1>8. Complete /\ host \in Fetched => Covers(collected, Ats, workerCalls')
  BY <1>4, AtsTyped, CoversMore DEF ReadingsInv
<1>9. host \in Before \ {"enabled"} => readings' = <<>>
  <2> SUFFICES ASSUME host \in Before \ {"enabled"} PROVE UNCHANGED readings
    BY DEF ReadingsInv
  <2>1. ~capturing /\ readings = <<>>
    BY DEF ReadingsInv
  <2> QED BY <1>1, <2>1 DEF Predict, Called, ReadsClock, ClockReturns, TestsPrevious, LoadsPrevious,
             StoresPrevious, Returns
<1>10. ReadingsInv'
  <2>1. /\ At(Fixture, "idle")' <=> At(Fixture, "idle")
        /\ At(Fixture, "hook")' <=> At(Fixture, "hook")
    BY <1>3 DEF At
  <2>2. \A w \in Callers \ {Fixture} : At(w, "idle")' \/ workerCalls' > 0
    BY <1>4
  <2>3. collected \in Seq(Nat)
    BY DEF ReadingsInv
  <2> QED BY <1>1, <1>3, <1>4, <1>5, <1>6, <1>7, <1>8, <1>9, <2>1, <2>2, <2>3
          DEF ReadingsInv
<1>11. workerCalls' # 0 /\ workerCalls' > 0
  BY <1>4
<1> QED BY <1>1, <1>6, <1>10, <1>11 DEF AloneInv, Smooth

(* A step of the fixture inside its call; own are its readings after it.   *)
FixtureFrame ==
  /\ UNCHANGED <<clock, host, module, loads, listeners, capturing, collected, workerCalls>>
  /\ \A w \in Callers \ {Fixture} : call'[w] = call[w]

LEMMA FixtureReads ==
  ASSUME FixtureInv, FixtureInv', ReadingsInv, FixtureFrame,
         readings' \in Seq(Nat),
         host \notin Before \cup After,
         At(Fixture, "idle")' \/ capturing,
         At(Fixture, "hook")' => call'[Fixture].hooked,
         Complete' => Covers(readings', Own', workerCalls)
  PROVE  ReadingsInv'
<1>1. host \notin Fetched /\ host \notin Before /\ host # "PASS"
  BY DEF Fetched, After, Ended
<1> QED BY <1>1 DEF FixtureFrame, ReadingsInv, At, Fetched

LEMMA FixtureCallReads ==
  ASSUME FixtureInv, FixtureInv', ReadingsInv, AloneInv, Called(Fixture),
         UNCHANGED agentError, FixtureFrame
  PROVE  ReadingsInv' /\ AloneInv'
<1>1. /\ call[Fixture].pc = "idle" /\ call'[Fixture].pc = "clock"
      /\ host = "running" /\ UNCHANGED <<previous, readings, calls, claims>>
  BY DEF Called, At, FixtureInv, FixtureTypeOK, Callers, Idle
<1>2. Ats' = Ats /\ Own' = Own /\ Complete' = Complete
  BY <1>1 DEF Ats, Own, Noted, Complete
<1>3. host \notin Before \cup After /\ host # "FAIL"
  BY <1>1 DEF Before, After, Ended
<1>4. ReadingsInv'
  BY <1>1, <1>2, <1>3, FixtureReads DEF ReadingsInv, At
<1>5. /\ Smooth' = Smooth /\ LastAt' = LastAt /\ \A n : Gap(n)' = Gap(n)
  BY <1>1 DEF FixtureFrame, Smooth, Hooked, Present, LastAt, Gap
<1>6. Smooth => SmoothCall'
  BY <1>1, <1>5 DEF AloneInv, SmoothCall, At
<1> QED BY <1>1, <1>3, <1>4, <1>5, <1>6 DEF AloneInv, FixtureFrame

(* A step of the fixture that ends no call.                                *)
LEMMA FixtureAlone ==
  ASSUME AloneInv, FixtureFrame, UNCHANGED <<calls, agentError>>, host \notin Before \cup After,
         Smooth => SmoothCall'
  PROVE  AloneInv'
<1>1. Smooth' = Smooth /\ LastAt' = LastAt
  BY DEF FixtureFrame, Smooth, Hooked, Present, LastAt
<1>2. \A n : Gap(n)' = Gap(n)
  BY DEF Gap
<1>3. host # "FAIL"
  BY DEF After, Ended
<1> QED BY <1>1, <1>2, <1>3 DEF AloneInv, FixtureFrame

(* Where the fixture is while it is in a call.                             *)
LEMMA FixtureInCall ==
  ASSUME FixtureInv, ReadingsInv, ~At(Fixture, "idle")
  PROVE  /\ host \notin Before \cup After /\ capturing
         /\ call \in [Callers -> CallRecords] /\ Fixture \in Callers
         /\ call[Fixture] \in CallRecords
         /\ clock \in Nat /\ previous \in Nat
BY DEF FixtureInv, FixtureTypeOK, ReadingsInv, Callers

LEMMA FixtureReadsClock ==
  ASSUME FixtureInv, FixtureInv', ReadingsInv, AloneInv, ReadsClock(Fixture),
         FixtureFrame
  PROVE  ReadingsInv' /\ AloneInv'
<1>1. call[Fixture].pc = "clock" /\ ~At(Fixture, "idle")
      /\ UNCHANGED <<previous, readings, calls, claims, agentError>>
  BY DEF ReadsClock, At
<1>2. /\ call'[Fixture].pc = "hook" /\ call'[Fixture].at = clock
      /\ call'[Fixture].hooked = capturing
  BY <1>1, FixtureInCall DEF ReadsClock, CallRecords
<1>3. Own' = Own /\ Complete' = Complete
  BY <1>1, <1>2 DEF Own, Noted, Ats, Complete
<1>4. ReadingsInv'
  BY <1>1, <1>2, <1>3, FixtureReads, FixtureInCall DEF ReadingsInv
<1>5. Smooth => SmoothCall'
  BY <1>1, <1>2 DEF AloneInv, SmoothCall, At, LastAt
<1> QED BY <1>1, <1>4, <1>5, FixtureAlone, FixtureInCall

LEMMA FixtureClockReturns ==
  ASSUME FixtureInv, FixtureInv', ReadingsInv, AloneInv, ClockReturns(Fixture),
         FixtureFrame
  PROVE  ReadingsInv' /\ AloneInv'
<1>1. /\ call[Fixture].pc = "hook" /\ ~At(Fixture, "idle") /\ call[Fixture].hooked
      /\ UNCHANGED <<previous, calls, claims, agentError>>
  BY DEF ClockReturns, At, ReadingsInv
<1>2. /\ call'[Fixture].pc = "load" /\ call'[Fixture].at = call[Fixture].at
      /\ readings' = Append(readings, call[Fixture].at)
  BY <1>1, FixtureInCall DEF ClockReturns, CallRecords
<1>3. Own' = Append(Own, call[Fixture].at) /\ Complete' = Complete
  BY <1>1, <1>2 DEF Own, Noted, Ats, Complete
<1>4. call[Fixture].at \in Nat /\ readings \in Seq(Nat) /\ Own \in Seq(Nat)
  BY <1>1, FixtureInCall, AtsTyped DEF CallRecords, ReadingsInv
<1>5. Complete => Covers(readings', Own', workerCalls)
  BY <1>2, <1>3, <1>4, CoversBoth DEF ReadingsInv
<1>6. ReadingsInv'
  BY <1>1, <1>2, <1>3, <1>4, <1>5, FixtureReads, FixtureInCall DEF At
<1>7. Smooth => SmoothCall'
  BY <1>1, <1>2 DEF AloneInv, SmoothCall, At, LastAt
<1> QED BY <1>1, <1>6, <1>7, FixtureAlone, FixtureInCall

LEMMA FixtureTests ==
  ASSUME FixtureInv, FixtureInv', ReadingsInv, AloneInv, TestsPrevious(Fixture),
         FixtureFrame
  PROVE  ReadingsInv' /\ AloneInv'
<1>1. call[Fixture].pc = "load" /\ ~At(Fixture, "idle")
      /\ UNCHANGED <<previous, readings, calls, claims, agentError>>
  BY DEF TestsPrevious, At
<1>2. /\ call'[Fixture].pc = (IF previous = 0 THEN "store" ELSE "again")
      /\ call'[Fixture].at = call[Fixture].at /\ call'[Fixture].first = previous
  BY <1>1, FixtureInCall DEF TestsPrevious, CallRecords
<1>3. Own' = Own /\ Complete' = Complete
  BY <1>1, <1>2 DEF Own, Noted, Ats, Complete
<1>4. ReadingsInv'
  BY <1>1, <1>2, <1>3, FixtureReads, FixtureInCall DEF ReadingsInv, At
<1>5. Smooth => SmoothCall'
  BY <1>1, <1>2 DEF AloneInv, SmoothCall, At, LastAt
<1> QED BY <1>1, <1>4, <1>5, FixtureAlone, FixtureInCall

LEMMA FixtureLoads ==
  ASSUME FixtureInv, FixtureInv', ReadingsInv, AloneInv, LoadsPrevious(Fixture),
         FixtureFrame
  PROVE  ReadingsInv' /\ AloneInv'
<1>1. call[Fixture].pc = "again" /\ ~At(Fixture, "idle")
      /\ UNCHANGED <<previous, readings, calls, claims, agentError>>
  BY DEF LoadsPrevious, At
<1>2. /\ call'[Fixture].pc = "store" /\ call'[Fixture].at = call[Fixture].at
      /\ call'[Fixture].first = call[Fixture].first
      /\ call'[Fixture].seen \in {previous, call[Fixture].first}
  BY <1>1, FixtureInCall DEF LoadsPrevious, CallRecords
<1>3. Own' = Own /\ Complete' = Complete
  BY <1>1, <1>2 DEF Own, Noted, Ats, Complete
<1>4. ReadingsInv'
  BY <1>1, <1>2, <1>3, FixtureReads, FixtureInCall DEF ReadingsInv, At
<1>5. Smooth => SmoothCall'
  BY <1>1, <1>2 DEF AloneInv, SmoothCall, At, LastAt
<1> QED BY <1>1, <1>4, <1>5, FixtureAlone, FixtureInCall

LEMMA FixtureStores ==
  ASSUME FixtureInv, FixtureInv', ReadingsInv, AloneInv, StoresPrevious(Fixture),
         FixtureFrame
  PROVE  ReadingsInv' /\ AloneInv'
<1>1. call[Fixture].pc = "store" /\ ~At(Fixture, "idle") /\ previous' = call[Fixture].at
      /\ UNCHANGED <<readings, calls, claims, agentError>>
  BY DEF StoresPrevious, At
<1>2. /\ call'[Fixture].pc = "leave" /\ call'[Fixture].at = call[Fixture].at
      /\ call'[Fixture].first = call[Fixture].first
      /\ call'[Fixture].seen = call[Fixture].seen
  BY <1>1, FixtureInCall DEF StoresPrevious, CallRecords
<1>3. Own' = Own /\ Complete' = Complete
  BY <1>1, <1>2 DEF Own, Noted, Ats, Complete
<1>4. ReadingsInv'
  BY <1>1, <1>2, <1>3, FixtureReads, FixtureInCall DEF ReadingsInv, At
<1>5. Smooth => SmoothCall'
  BY <1>1, <1>2 DEF AloneInv, SmoothCall, At, LastAt
<1> QED BY <1>1, <1>4, <1>5, FixtureAlone, FixtureInCall

(* The call ends: its reading is that of a recorded call now, or its claim *)
(* has none.                                                               *)
LEMMA FixtureReturns ==
  ASSUME FixtureInv, FixtureInv', ReadingsInv, AloneInv, Returns(Fixture),
         FixtureFrame
  PROVE  ReadingsInv' /\ AloneInv'
<1> DEFINE e == Elapsed(Fixture)
           c == [at |-> call[Fixture].at, elapsed |-> e]
<1>1. /\ call[Fixture].pc = "leave" /\ ~At(Fixture, "idle")
      /\ UNCHANGED <<previous, readings>>
      /\ \/ calls' = (IF call[Fixture].tracked THEN Append(calls, c) ELSE calls)
              /\ UNCHANGED agentError
         \/ agentError' = TRUE /\ UNCHANGED calls
      /\ claims' = Append(claims, e)
      /\ call' = [call EXCEPT ![Fixture] = Idle]
  BY DEF Returns, At
<1>2. c.at = call[Fixture].at /\ c.elapsed = e /\ c.at \in Nat
  BY <1>1, FixtureInCall DEF CallRecords
<1> HIDE DEF c
<1>3. call'[Fixture] = Idle /\ Idle.pc = "idle"
  BY <1>1, FixtureInCall DEF Idle
<1>4. /\ calls \in Seq(Recorded) /\ calls' \in Seq(Recorded)
      /\ claims \in Seq(Int) /\ claims' \in Seq(Int) /\ Len(calls) <= Len(claims)
  BY DEF FixtureInv, FixtureTypeOK, Agreed
<1>5. call[Fixture].tracked <=> Hooked
  BY <1>1 DEF FixtureInv, InCalls
<1>6. Hooked' = Hooked
  BY DEF FixtureFrame, Hooked, Present
<1>a. Len(claims') = Len(claims) + 1 /\ Len(claims) \in Nat /\ Len(calls) \in Nat
  <2>1. Len(Append(claims, e)) = Len(claims) + 1
    BY <1>4
  <2> QED BY <1>1, <1>4, <2>1
<1>b. Complete' => calls' = Append(calls, c) /\ Complete
  <2> SUFFICES ASSUME Complete' PROVE calls' = Append(calls, c) /\ Complete
    OBVIOUS
  <2>1. Len(calls') = Len(claims) + 1
    BY <1>a DEF Complete
  <2>2. CASE UNCHANGED calls
    BY <1>4, <1>a, <2>1, <2>2
  <2>3. CASE calls' = Append(calls, c)
    <3>1. Len(Append(calls, c)) = Len(calls) + 1
      BY <1>4
    <3> QED BY <1>a, <2>1, <2>3, <3>1 DEF Complete
  <2> QED BY <1>1, <2>2, <2>3
<1>7. Complete' => Own' = Own
  <2> SUFFICES ASSUME Complete' PROVE Own' = Own
    OBVIOUS
  <2>1. calls' = Append(calls, c)
    BY <1>b
  <2>2. Own' = Ats'
    BY <1>3 DEF Own, Noted
  <2>3. Own = Append(Ats, c.at)
    BY <1>1, <1>2 DEF Own, Noted
  <2>4. [n \in DOMAIN calls' |-> calls'[n].at]
          = Append([n \in DOMAIN calls |-> calls[n].at], c.at)
    BY <2>1, <1>4
  <2> QED BY <2>2, <2>3, <2>4 DEF Ats
<1>8. ReadingsInv'
  BY <1>1, <1>3, <1>b, <1>7, FixtureReads, FixtureInCall DEF ReadingsInv, At
<1>9. ASSUME Smooth'
      PROVE  /\ \A n \in DOMAIN calls' : calls'[n].at >= 1 /\ calls'[n].elapsed = Gap(n)'
             /\ previous' = LastAt'
  <2>0. Smooth /\ Hooked
    BY <1>1, <1>6, <1>9 DEF Smooth, FixtureFrame, FixtureInv, FixtureTypeOK
  <2>1. /\ \A n \in DOMAIN calls : calls[n].at >= 1 /\ calls[n].elapsed = Gap(n)
        /\ call[Fixture].at >= 1 /\ call[Fixture].first = LastAt
        /\ call[Fixture].first # 0 => call[Fixture].seen = LastAt
        /\ previous = call[Fixture].at
    BY <1>1, <2>0 DEF AloneInv, SmoothCall, At
  <2>2. calls' = Append(calls, c) /\ Len(calls) \in Nat
    BY <1>1, <1>4, <1>5, <1>9, <2>0 DEF Smooth
  <2>3. /\ Len(calls') = Len(calls) + 1 /\ DOMAIN calls' = 1..(Len(calls) + 1)
        /\ DOMAIN calls = 1..Len(calls)
        /\ calls'[Len(calls) + 1] = c /\ \A n \in 1..Len(calls) : calls'[n] = calls[n]
    BY <2>2, <1>4
  <2>4. previous' = LastAt'
    <3>1. calls' # <<>> /\ calls'[Len(calls')] = c
      BY <2>2, <2>3
    <3>2. previous' = c.at
      BY <1>1, <1>2, <2>1
    <3> QED BY <3>1, <3>2 DEF LastAt
  <2>5. ASSUME NEW n \in 1..Len(calls)
        PROVE  calls'[n].at >= 1 /\ calls'[n].elapsed = Gap(n)'
    <3>1. n # 1 => n - 1 \in 1..Len(calls)
      BY <2>2
    <3> QED BY <2>1, <2>3, <3>1 DEF Gap
  <2>6. ASSUME NEW k \in Nat, k = Len(calls) + 1
        PROVE  c.elapsed = Gap(k)'
    <3>1. CASE calls = <<>>
      <4>1. call[Fixture].first = 0
        BY <2>1, <3>1 DEF LastAt
      <4>2. Len(calls) = 0
        BY <3>1
      <4> QED BY <1>2, <2>6, <4>1, <4>2 DEF Gap, Elapsed
    <3>2. CASE calls # <<>>
      <4>1. Len(calls) \in 1..Len(calls) /\ k # 1 /\ k - 1 = Len(calls)
        BY <3>2, <1>4, <2>6
      <4>2. call[Fixture].first = calls[Len(calls)].at /\ calls[Len(calls)].at >= 1
        BY <2>1, <2>3, <3>2, <4>1 DEF LastAt
      <4>3. call[Fixture].first # 0 /\ call[Fixture].seen = calls[Len(calls)].at
        BY <2>1, <4>2 DEF LastAt
      <4>4. e = c.at - calls[Len(calls)].at
        BY <1>2, <4>3 DEF Elapsed
      <4>5. Gap(k)' = calls'[k].at - calls'[Len(calls)].at
        BY <4>1 DEF Gap
      <4> QED BY <1>2, <2>3, <2>6, <4>1, <4>4, <4>5
    <3> QED BY <3>1, <3>2
  <2>7. ASSUME NEW n \in DOMAIN calls'
        PROVE  calls'[n].at >= 1 /\ calls'[n].elapsed = Gap(n)'
    <3>1. n \in 1..Len(calls) \/ (n \in Nat /\ n = Len(calls) + 1)
      BY <2>2, <2>3
    <3> QED BY <1>2, <2>1, <2>3, <2>5, <2>6, <3>1
  <2> QED BY <2>4, <2>7
<1>10. host \notin Before /\ host # "FAIL"
  BY <1>1, FixtureInCall DEF After, Ended
<1>11. Smooth' => SmoothCall'
  BY <1>3, <1>9 DEF SmoothCall, At
<1> QED BY <1>8, <1>9, <1>10, <1>11 DEF AloneInv, FixtureFrame

LEMMA OracleReads ==
  ASSUME FixtureInv, FixtureInv', ReadingsInv, AloneInv, NEW u \in Callers, Oracle(u)
  PROVE  ReadingsInv' /\ AloneInv'
<1>1. CASE u # Fixture
  BY <1>1, OthersRead
<1>2. CASE u = Fixture
  <2>1. Predict(Fixture) /\ UNCHANGED <<host, module, loads, listeners, capturing, collected>>
    BY <1>2 DEF Oracle, installVars, agentInstall, agentVars
  <2>2. UNCHANGED <<clock, workerCalls>> /\ \A w \in Callers \ {Fixture} : call'[w] = call[w]
    <3>1. call \in [Callers -> CallRecords]
      BY DEF FixtureInv, FixtureTypeOK
    <3> QED BY <2>1, <3>1 DEF Predict, Called, ReadsClock, ClockReturns, TestsPrevious,
               LoadsPrevious, StoresPrevious, Returns
  <2>3. FixtureFrame
    BY <2>1, <2>2 DEF FixtureFrame
  <2>4. Called(Fixture) => UNCHANGED agentError
    BY DEF Called
  <2> QED BY <2>1, <2>3, <2>4, FixtureCallReads, FixtureReadsClock, FixtureClockReturns,
             FixtureTests, FixtureLoads, FixtureStores, FixtureReturns DEF Predict
<1> QED BY <1>1, <1>2

-----------------------------------------------------------------------------
(* Everything else reads no clock.                                         *)

NothingRead == NothingCalled /\ UNCHANGED <<readings, workerCalls>>

LEMMA NothingReadOwn ==
  ASSUME NothingRead
  PROVE  /\ Own' = Own /\ Ats' = Ats /\ Complete' = Complete
         /\ LastAt' = LastAt /\ \A n : Gap(n)' = Gap(n)
         /\ \A u, pc : At(u, pc)' = At(u, pc)
BY DEF NothingRead, NothingCalled, Own, Ats, Noted, Complete, LastAt, Gap, At

(* The clock goes on; the target dies; images come and go.                 *)
LEMMA QuietReads ==
  ASSUME ReadingsInv, NothingRead, UNCHANGED <<host, capturing, collected>>
  PROVE  ReadingsInv'
BY NothingReadOwn DEF NothingRead, NothingCalled, ReadingsInv

LEMMA QuietAlone ==
  ASSUME AloneInv, NothingRead, UNCHANGED <<host, previous, module, loads, listeners>>,
         clock' >= 1
  PROVE  AloneInv'
<1>1. Smooth' = Smooth /\ Hooked' = Hooked
  BY DEF Smooth, Hooked, Present, NothingRead, NothingCalled
<1>2. Smooth => SmoothCall'
  BY NothingReadOwn DEF AloneInv, SmoothCall, NothingRead, NothingCalled
<1> QED BY <1>1, <1>2, NothingReadOwn DEF NothingRead, NothingCalled, AloneInv

LEMMA ImagesAlone ==
  ASSUME AloneInv, FixtureInv, NothingRead, UNCHANGED <<host, clock>>,
         previous' \in {0, previous}, At(Fixture, "idle"),
         ~Hooked' \/ host \in {"loading", "installing"}
  PROVE  AloneInv'
<1>1. host = "FAIL" => ~Hooked'
  OBVIOUS
<1>2. host \in Before /\ workerCalls = 0 => previous' = 0
  BY DEF AloneInv
<1>3. ASSUME Hooked', workerCalls = 0
      PROVE  DOMAIN calls' = {} /\ SmoothCall'
  <2>1. calls = <<>> /\ previous' = 0
    BY <1>2, <1>3 DEF FixtureInv, Before
  <2>2. LastAt' = 0 /\ DOMAIN calls = {}
    BY <2>1, NothingReadOwn DEF LastAt
  <2>3. call[Fixture].pc = "idle" /\ UNCHANGED <<call, calls>>
    BY DEF At, NothingRead, NothingCalled
  <2> QED BY <2>1, <2>2, <2>3 DEF SmoothCall, At
<1> QED BY <1>1, <1>2, <1>3 DEF AloneInv, Smooth, NothingRead

LEMMA HostReads ==
  ASSUME FixtureInv, ReadingsInv, NothingRead, capturing' \in BOOLEAN,
         capturing' \/ At(Fixture, "idle"),
         host' \in {"enabled", "running"} => capturing',
         host' \in Before \ {"enabled"} => host \in Before \ {"enabled"} /\ ~capturing',
         \/ UNCHANGED collected /\ (host' \in Fetched => host \in Fetched)
         \/ collected' = readings /\ At(Fixture, "idle") /\ host' \notin {"PASS", "FAIL"},
         host' = "PASS" => collected' = Ats /\ Complete
  PROVE  ReadingsInv'
<1>1. Complete /\ host' \in Fetched => Covers(collected', Ats, workerCalls)
  <2> SUFFICES ASSUME Complete, host' \in Fetched
               PROVE  Covers(collected', Ats, workerCalls)
    OBVIOUS
  <2>1. CASE UNCHANGED collected /\ host \in Fetched
    BY <2>1 DEF ReadingsInv
  <2>2. CASE collected' = readings /\ At(Fixture, "idle")
    BY <2>2 DEF ReadingsInv, Own, Noted, At
  <2> QED BY <2>1, <2>2
<1>2. collected' \in Seq(Nat)
  BY DEF ReadingsInv
<1> QED BY <1>1, <1>2, NothingReadOwn DEF ReadingsInv, NothingRead, NothingCalled

(* What the adapter makes of the readings.                                 *)
LEMMA ComparesReads ==
  ASSUME FixtureInv, ReadingsInv, AloneInv, Compares
  PROVE  /\ host' = "PASS" => collected = Ats /\ Complete
         /\ host' = "FAIL" => workerCalls > 0 \/ ~Hooked
         /\ host' \in {"PASS", "FAIL"}
<1> DEFINE gaps == ElapsedValues(collected)
<1>1. /\ host = "written"
      /\ host' = IF collected # <<>> /\ Len(gaps) = Len(calls)
                      /\ SubSeq(gaps, 1, Len(calls)) = claims THEN "PASS" ELSE "FAIL"
  BY DEF Compares, Keeps, Goes, OneReadingPerCall, Replayed, ExpectedBytes
<1>2. /\ calls # <<>> /\ ~agentError
      /\ calls \in Seq(Recorded) /\ DOMAIN calls = 1..Len(calls) /\ Len(calls) \in Nat
  BY <1>1 DEF FixtureInv, FixtureTypeOK, Kept, Ended
<1>3. /\ Complete => Covers(collected, Ats, workerCalls)
      /\ collected \in Seq(Nat) /\ workerCalls \in Nat
  BY <1>1 DEF ReadingsInv, Fetched, Ended
<1>4. /\ Len(gaps) = Len(collected) /\ DOMAIN gaps = 1..Len(collected)
      /\ \A n \in 1..Len(collected) :
            gaps[n] = IF n = 1 THEN 0 ELSE collected[n] - collected[n - 1]
  BY <1>3 DEF ElapsedValues
<1>g. gaps \in Seq(Int)
  <2>1. \A n \in 1..Len(collected) : gaps[n] \in Int
    BY <1>3, <1>4
  <2>2. gaps = [n \in 1..Len(collected) |-> gaps[n]]
    BY <1>3 DEF ElapsedValues
  <2> HIDE DEF gaps
  <2> QED BY <1>3, <2>1, <2>2
<1> HIDE DEF gaps
<1>5. ASSUME host' = "PASS" PROVE collected = Ats /\ Complete
  <2>1. Len(gaps) = Len(calls) /\ SubSeq(gaps, 1, Len(calls)) = claims
    BY <1>1, <1>5
  <2>2. Len(SubSeq(gaps, 1, Len(calls))) = Len(calls)
    BY <1>2, <1>g, <2>1
  <2>3. Complete
    BY <2>1, <2>2 DEF Complete
  <2> QED BY <1>3, <1>4, <2>1, <2>3, AtsTyped DEF Covers
<1>6. ASSUME workerCalls = 0, Hooked
      PROVE  host' = "PASS"
  <2>0. Complete
    BY <1>2, <1>6 DEF FixtureInv, Agreed
  <2>1. collected = Ats /\ Len(collected) = Len(calls)
    BY <1>3, <1>6, <2>0, AtsTyped DEF Covers
  <2>2. collected # <<>>
    BY <1>2, <2>1
  <2>3. \A n \in DOMAIN calls : calls[n].elapsed = Gap(n)
    BY <1>2, <1>6 DEF AloneInv, Smooth
  <2>5. ASSUME NEW n \in 1..Len(calls) PROVE gaps[n] = calls[n].elapsed
    <3>1. collected[n] = calls[n].at /\ (n # 1 => collected[n - 1] = calls[n - 1].at)
      BY <1>2, <2>1 DEF Ats
    <3>2. gaps[n] = IF n = 1 THEN 0 ELSE collected[n] - collected[n - 1]
      BY <1>4, <2>1
    <3> QED BY <1>2, <2>3, <3>1, <3>2 DEF Gap
  <2>7. claims \in Seq(Int) /\ Len(claims) = Len(calls)
    BY <2>0 DEF Complete, FixtureInv, FixtureTypeOK
  <2>8. \A n \in 1..Len(calls) : claims[n] = gaps[n]
    BY <1>2, <2>5 DEF FixtureInv, Agreed
  <2>9. SubSeq(gaps, 1, Len(calls)) = claims
    BY <1>2, <1>4, <1>g, <2>1, <2>7, <2>8
  <2> QED BY <1>1, <1>4, <2>1, <2>2, <2>9
<1>7. host' = "FAIL" => workerCalls > 0 \/ ~Hooked
  BY <1>3, <1>6
<1> QED BY <1>1, <1>5, <1>7

LEMMA HostStepReads ==
  ASSUME FixtureInv, ReadingsInv, AloneInv, HostStep
  PROVE  ReadingsInv' /\ AloneInv'
<1> USE DEF HostStep, LoadsDeclarations, LoadReturns, InstallReported, InstallTimeout,
            SetupFails, SetsUp, Binds, EnablesCapture, Begins, RunReturns, RunFails, Collects,
            Stops, Finishes, AgentErrorCheck, Unloads, Writes, TargetGone,
            Keeps, Calls, Goes, agentVars
<1>1. NothingRead /\ UNCHANGED <<clock, previous, module, loads, listeners>>
  BY DEF Compares, installVars, agentInstall, oracleVars, NothingRead, NothingCalled
<1>2. capturing \in BOOLEAN
  BY DEF FixtureInv, FixtureTypeOK
<1>3. ReadingsInv' /\ (host' \in Before => host \in Before)
      /\ (host' = "FAIL" => workerCalls > 0 \/ ~Hooked)
  <2>1. CASE Compares
    <3>1. host = "written" /\ UNCHANGED <<capturing, collected>>
      BY <2>1 DEF Compares
    <3>2. capturing \/ At(Fixture, "idle")
      BY DEF ReadingsInv
    <3> HIDE DEF Keeps, Goes
    <3> QED BY <1>1, <1>2, <2>1, <3>1, <3>2, ComparesReads, HostReads DEF Fetched, Ended, Before
  <2>2. CASE Collects
    <3>1. /\ host = "collecting" /\ host' = "finishing" /\ collected' = readings
          /\ UNCHANGED capturing
      BY <2>2
    <3>2. At(Fixture, "idle")
      BY <3>1 DEF FixtureInv, After
    <3> QED BY <1>1, <1>2, <3>1, <3>2, HostReads DEF Before
  <2>3. CASE EnablesCapture
    <3>1. host = "bound" /\ host' = "enabled" /\ capturing' = TRUE /\ UNCHANGED collected
      BY <2>3
    <3> QED BY <1>1, <3>1, HostReads DEF Before, Fetched, Ended
  <2>4. CASE Unloads
    <3>1. host = "unloading" /\ host' = "writing" /\ capturing' = FALSE /\ UNCHANGED collected
      BY <2>4
    <3>2. At(Fixture, "idle")
      BY <3>1 DEF FixtureInv, After, Ended
    <3> QED BY <1>1, <3>1, <3>2, HostReads DEF Before, Fetched, Ended
  <2>5. CASE HostStep /\ ~Compares /\ ~Collects /\ ~EnablesCapture /\ ~Unloads
    <3>1. /\ UNCHANGED <<capturing, collected>> /\ host' \notin {"PASS", "FAIL", "enabled"}
          /\ host' = "running" => host = "enabled"
          /\ host' \in Fetched => host \in Fetched
          /\ host' \in Before => host \in Before \ {"enabled"}
      BY <2>5 DEF Fetched, Ended, Before
    <3>2. /\ capturing \/ At(Fixture, "idle")
          /\ host = "enabled" => capturing
          /\ host \in Before \ {"enabled"} => ~capturing
      BY DEF ReadingsInv
    <3> QED BY <1>1, <1>2, <3>1, <3>2, HostReads
  <2> QED BY <2>1, <2>2, <2>3, <2>4, <2>5
<1>4. AloneInv'
  <2>1. Smooth' = Smooth /\ Hooked' = Hooked
    BY <1>1 DEF Smooth, Hooked, Present, NothingRead, NothingCalled
  <2>2. Smooth => SmoothCall'
    BY <1>1, NothingReadOwn DEF AloneInv, SmoothCall, NothingRead, NothingCalled
  <2> HIDE DEF HostStep
  <2> QED BY <1>1, <1>3, <2>1, <2>2, NothingReadOwn DEF AloneInv, NothingRead, NothingCalled
<1> QED BY <1>3, <1>4

ReadInv == AttachInv /\ FixtureInv /\ ReadingsInv /\ AloneInv

LEMMA InitRead == Init => ReadInv
<1> SUFFICES ASSUME Init PROVE ReadInv
  OBVIOUS
<1>1. AttachInv /\ FixtureInv /\ Fixture \in Callers
  BY InitAttached, InitFixture DEF Callers
<1>2. /\ \A u \in Callers : At(u, "idle")
      /\ host = "declaring" /\ ~capturing /\ previous = 0 /\ clock = 1 /\ workerCalls = 0
      /\ readings = <<>> /\ calls = <<>> /\ collected = <<>> /\ listeners = <<>>
  BY DEF Init, InstallInit, At, Idle
<1>3. Own = <<>> /\ LastAt = 0 /\ Covers(<<>>, <<>>, 0) /\ ~Hooked
  BY <1>1, <1>2 DEF Own, Noted, Ats, LastAt, At, Covers, Hooked
<1>4. ReadingsInv
  BY <1>1, <1>2, <1>3 DEF ReadingsInv, At, Fetched, Ended
<1>5. AloneInv
  BY <1>1, <1>2, <1>3 DEF AloneInv, Smooth
<1> QED BY <1>1, <1>4, <1>5 DEF ReadInv

LEMMA ReadNext == ReadInv /\ [Next]_vars => ReadInv'
<1> SUFFICES ASSUME ReadInv, [Next]_vars PROVE ReadInv'
  OBVIOUS
<1>1. /\ AttachInv /\ AttachInv' /\ FixtureInv /\ FixtureInv' /\ ReadingsInv /\ AloneInv
      /\ clock \in Nat /\ clock >= 1
  BY AttachNext, FixtureNext DEF ReadInv, FixtureInv, FixtureTypeOK, AloneInv
<1> SUFFICES ReadingsInv' /\ AloneInv'
  BY <1>1 DEF ReadInv
<1> USE DEF NothingRead, NothingCalled, oracleVars, agentVars
<1>2. CASE UNCHANGED vars
  BY <1>1, <1>2, QuietReads, QuietAlone DEF vars, installVars, agentInstall
<1>3. CASE Loader
  <2>1. /\ NothingRead /\ UNCHANGED <<host, clock, capturing, collected>> /\ previous' = 0
        /\ At(Fixture, "idle")
    BY <1>3 DEF Loader, Callers
  <2> QED BY <1>1, <1>3, <2>1, LoaderUnhooks, QuietReads, ImagesAlone
<1>4. CASE Script
  <2>1. NothingRead /\ UNCHANGED <<host, clock, capturing, collected, previous>>
    BY <1>4 DEF Script
  <2>2. CASE host \in {"loading", "installing"}
    BY <1>1, <1>4, <2>1, <2>2, ScriptIdle, QuietReads, ImagesAlone
  <2>3. CASE host \notin {"loading", "installing"}
    BY <1>1, <1>4, <2>1, <2>3, ScriptIdle, QuietReads, QuietAlone
  <2> QED BY <2>2, <2>3
<1>5. CASE Ticks
  <2>1. clock' >= 1
    BY <1>1, <1>5 DEF Ticks
  <2> QED BY <1>1, <1>5, <2>1, QuietReads, QuietAlone DEF Ticks, installVars, agentInstall
<1>6. CASE TargetDies
  BY <1>1, <1>6, QuietReads, QuietAlone DEF TargetDies, installVars, agentInstall
<1>7. CASE HostStep
  BY <1>1, <1>7, HostStepReads
<1>8. CASE \E u \in Callers : Oracle(u)
  BY <1>1, <1>8, OracleReads
<1> QED BY <1>2, <1>3, <1>4, <1>5, <1>6, <1>7, <1>8 DEF Next, Terminated

(* In a file that is kept, the recorded calls are the first the fixture    *)
(* claims, call by call, whichever threads call the oracle beside it and   *)
(* however often the module comes and goes (fixture.py:26-28, 86-98); and  *)
(* all of them while the module is there, and when the verdict is PASS.    *)
THEOREM ClaimsMatch == Spec => []ClaimsAreRecorded
<1>1. ReadInv => ClaimsAreRecorded
  <2> SUFFICES ASSUME ReadInv, host \in Kept PROVE ClaimsAreRecorded
    BY DEF ClaimsAreRecorded, Kept
  <2> DEFINE saw == [n \in DOMAIN calls |-> calls[n].elapsed]
  <2>1. /\ calls \in Seq(Recorded) /\ claims \in Seq(Int) /\ Len(calls) <= Len(claims)
        /\ ~agentError /\ Agreed
    BY DEF ReadInv, FixtureInv, FixtureTypeOK, Agreed, Kept, Ended
  <2>2. \A n \in 1..Len(calls) : claims[n] = saw[n] /\ saw[n] = calls[n].elapsed
    BY <2>1 DEF Agreed
  <2>3. saw \in Seq(Int) /\ Len(saw) = Len(calls)
    <3>1. \A n \in DOMAIN calls : calls[n].elapsed \in Int
      <4>1. \A n \in DOMAIN calls : calls[n] \in Recorded
        BY <2>1
      <4> QED BY <4>1 DEF Recorded
    <3> QED BY <2>1, <3>1
  <2> HIDE DEF saw
  <2>4. SubSeq(saw, 1, Len(saw)) = SubSeq(claims, 1, Len(saw))
    BY <2>1, <2>2, <2>3
  <2>5. IsPrefix(saw, claims)
    BY <2>1, <2>3, <2>4 DEF IsPrefix
  <2>6. Hooked \/ host = "PASS" => Len(calls) = Len(claims)
    BY <2>1 DEF ReadInv, Agreed, Complete, ReadingsInv
  <2> QED BY <2>5, <2>6 DEF ClaimsAreRecorded, saw
<1> QED BY <1>1, InitRead, ReadNext, PTL DEF Spec

(* A PASS rests on one reading per recorded call, the fixture's own and in *)
(* the order of the calls, whatever other threads of the target read while *)
(* the capture was on (agent.js:486, fixture.py:94).                       *)
THEOREM PassesUseOwnReadings == Spec => []PassUsesOwnReadings
<1>1. ReadInv => PassUsesOwnReadings
  BY DEF ReadInv, ReadingsInv, PassUsesOwnReadings, Ats
<1> QED BY <1>1, InitRead, ReadNext, PTL DEF Spec

(* A fixture alone with the oracle and with the module it was attached to  *)
(* passes, for any number of calls and any passing of time between them    *)
(* (compare_predict.py:53-68).                                             *)
THEOREM FixturesAlonePass == Spec => []AlonePasses
<1>1. ReadInv => AlonePasses
  BY DEF ReadInv, ReadingsInv, AloneInv, AlonePasses
<1> QED BY <1>1, InitRead, ReadNext, PTL DEF Spec
=============================================================================
