--------------------------- MODULE ResUpdate_proofs ---------------------------
(***************************************************************************)
(* Proofs about ResUpdate, for every number of versions and of their       *)
(* files: what version.ini says is present, and so is what an update       *)
(* claims to have completed; and the game is told to restart when one of   *)
(* the versions on the way asks for it.                                    *)
(*                                                                         *)
(* The inductive invariant adds how far the thread has come: up to the     *)
(* version it is at, or to the one before while that is being installed.   *)
(* The last theorem goes by the versions that the update has gone through. *)
(***************************************************************************)
EXTENDS MCResUpdate, TLAPS

Installing == {"file", "unpack", "unpacked", "truncated", "end"}

\* All that the client needs to be at the version before one.
PresentBefore(v) ==
    \A w \in Versions : Before(packaged, w) /\ Before(w, v) => Present(w)

\* The file that is being installed is one of the version's.
FileOfVersion == pc \in Installing => file \in 1 .. Files[Local]

\* How far the thread has come.
Progress ==
    /\ pc = "check" => PresentUpTo(Local)
    /\ pc = "next" /\ m_localMidVersion <= m_NewestMidVersion => PresentUpTo(Local)
    /\ pc = "next" /\ m_localMidVersion > m_NewestMidVersion => PresentUpTo(Goal)
    /\ pc \in {"list", "file", "unpack", "end"} => PresentBefore(Local)
    /\ pc \in {"unpacked", "truncated"} => PresentUpTo(Local)
    /\ pc = "end" /\ m_ResLoadState \notin Failed => PresentUpTo(Local)
    /\ pc = "list" \/ pc \in Installing => m_localMidVersion <= m_NewestMidVersion

Inv == TypeOK /\ FileOfVersion /\ StoredIsPresent /\ Progress

\* Every variable keeps its type, and the thread is at a file of its version.
LEMMA TypeInit == Init => TypeOK /\ FileOfVersion
<1> SUFFICES ASSUME Init PROVE TypeOK /\ FileOfVersion
  OBVIOUS
<1>1. packaged \in VersionNumbers /\ newest \in VersionNumbers
  BY DEF Init
<1>2. Goal \in VersionNumbers
  BY UpdateAssumption DEF Init, Goal, VersionNumbers
<1>3. m_localMidVersion \in 0 .. MaxMid + 1 /\ m_LocalVersion \in 0 .. VersionCount
  BY UpdateAssumption DEF Init
<1>4. stored \in Versions \cup {None} /\ installed \subseteq Versions \X Nat /\ file \in Nat
  BY DEF Init
<1>5. big \in BigVersions /\ m_ResLoadState \in LoadStates /\ m_restartclient \in BOOLEAN
  BY DEF Init, BigVersions, LoadStates
<1>6. pc = "none" /\ pc \in Points
  BY DEF Init, Points
<1> QED
  BY <1>1, <1>2, <1>3, <1>4, <1>5, <1>6 DEF TypeOK, FileOfVersion, Installing

LEMMA TypeThread ==
  ASSUME TypeOK, FileOfVersion, Thread
  PROVE  TypeOK' /\ FileOfVersion'
<1> USE UpdateAssumption
    DEF TypeOK, FileOfVersion, Installing, VersionNumbers, Versions, Goal, Local, Go, Points,
        LoadStates, Failed, Ready, BigVersions, disk, server, goal, local
<1>1. CASE CheckVersion
  BY <1>1 DEF CheckVersion, LoadResources
<1>2. CASE NextVersion
  BY <1>2 DEF NextVersion, LastVersion
<1>3. CASE AllLoaded
  BY <1>3 DEF AllLoaded, LoadResources
<1>4. CASE GetFileList
  BY <1>4 DEF GetFileList
<1>5. CASE DownloadFile
  BY <1>5 DEF DownloadFile
<1>6. CASE Uncompress
  BY <1>6 DEF Uncompress
<1>7. CASE Truncate
  BY <1>7 DEF Truncate
<1>8. CASE WriteVersion
  BY <1>8 DEF WriteVersion
<1>9. CASE EndFile
  BY <1>9 DEF EndFile
<1> QED
  BY <1>1, <1>2, <1>3, <1>4, <1>5, <1>6, <1>7, <1>8, <1>9 DEF Thread

LEMMA TypeNext ==
  ASSUME TypeOK, FileOfVersion, [Next]_vars
  PROVE  TypeOK' /\ FileOfVersion'
<1> USE UpdateAssumption
    DEF TypeOK, FileOfVersion, Installing, VersionNumbers, Versions, Goal, Local, Go, Points,
        LoadStates, BigVersions, disk, server, goal, local
<1>1. CASE Thread
  BY <1>1, TypeThread
<1>2. CASE UpdateGame
  <2>1. PICK v \in {packaged} \cup (IF IsEnableUpdate THEN {stored} ELSE {}) :
                m_localMidVersion' = v.mid /\ m_LocalVersion' = v.min
    BY <1>2 DEF UpdateGame
  <2>2. v \in VersionNumbers
    BY <2>1 DEF IsEnableUpdate
  <2>3. v.mid \in 0 .. MaxMid /\ v.min \in 0 .. VersionCount
    BY <2>2
  <2>4. m_localMidVersion' \in 0 .. MaxMid + 1 /\ m_LocalVersion' \in 0 .. VersionCount
    BY <2>1, <2>3
  <2>5. Goal' \in VersionNumbers
    BY <1>2 DEF UpdateGame
  <2>6. /\ pc' = "check" /\ m_ResLoadState' \in LoadStates /\ m_restartclient' \in BOOLEAN
        /\ UNCHANGED <<disk, server, file>>
    BY <1>2 DEF UpdateGame
  <2> QED
    BY <2>4, <2>5, <2>6
<1>3. CASE Crash
  <2>1. m_localMidVersion' \in 0 .. MaxMid + 1 /\ m_LocalVersion' \in 0 .. VersionCount
    BY <1>3 DEF Crash
  <2>2. Goal' \in VersionNumbers
    BY <1>3 DEF Crash
  <2>3. pc' = "none" /\ m_ResLoadState' \in LoadStates /\ m_restartclient' \in BOOLEAN /\ file' \in Nat
    BY <1>3 DEF Crash
  <2> QED
    BY <1>3, <2>1, <2>2, <2>3 DEF Crash
<1>4. CASE Upgrade
  BY <1>4 DEF Upgrade
<1>5. CASE Publish
  BY <1>5 DEF Publish
<1>6. CASE PublishBig
  BY <1>6 DEF PublishBig
<1>7. CASE UNCHANGED vars
  BY <1>7 DEF vars
<1> QED
  BY <1>1, <1>2, <1>3, <1>4, <1>5, <1>6, <1>7 DEF Next

-----------------------------------------------------------------------------
(* What is present stays so: the client's version and the files only grow. *)

LEMMA PresentStays ==
  ASSUME TypeOK, TypeOK', [Next]_vars, NEW w \in Versions
  PROVE  /\ Present(w) => Present(w)'
         /\ Before(packaged', w) => Before(packaged, w)
<1>1. /\ installed \subseteq installed'
      /\ packaged' = packaged \/ Before(packaged, packaged')
  <2>1. CASE Thread
    BY <2>1 DEF Thread, CheckVersion, NextVersion, AllLoaded, GetFileList, DownloadFile,
       Uncompress, Truncate, WriteVersion, EndFile, disk
  <2>2. CASE UpdateGame
    BY <2>2 DEF UpdateGame, disk
  <2>3. CASE Crash
    BY <2>3 DEF Crash, disk
  <2>4. CASE Upgrade
    BY <2>4 DEF Upgrade
  <2>5. CASE Publish
    BY <2>5 DEF Publish, disk
  <2>6. CASE PublishBig
    BY <2>6 DEF PublishBig, disk
  <2>7. CASE UNCHANGED vars
    BY <2>7 DEF vars, disk
  <2> QED
    BY <2>1, <2>2, <2>3, <2>4, <2>5, <2>6, <2>7 DEF Next
<1>2. Before(packaged', w) => Before(packaged, w)
  BY <1>1 DEF TypeOK, VersionNumbers, Versions, Before
<1> QED
  BY <1>1, <1>2 DEF Present

-----------------------------------------------------------------------------
(* The thread's progress.                                                  *)

LEMMA ProgressThread ==
  ASSUME Inv, TypeOK', FileOfVersion', Thread
  PROVE  Progress'
<1>0. UNCHANGED packaged
  BY DEF Thread, CheckVersion, NextVersion, AllLoaded, GetFileList, DownloadFile,
     Uncompress, Truncate, WriteVersion, EndFile, disk
<1>1. \A w \in Versions : Present(w) => Present(w)'
  BY PresentStays DEF Inv, Next
<1>a. \A v, w \in Versions : v.mid \in Nat /\ v.min \in Nat /\ w.mid \in Nat /\ w.min \in Nat
  BY UpdateAssumption DEF Versions, VersionNumbers
<1>b. m_localMidVersion \in Nat /\ m_LocalVersion \in Nat /\ m_NewestMidVersion \in Nat /\ m_NewestVersion \in Nat
  BY UpdateAssumption DEF Inv, TypeOK, Goal, VersionNumbers
<1>2. CASE CheckVersion
  <2> SUFFICES ASSUME pc' = "next"
               PROVE  /\ m_localMidVersion' <= m_NewestMidVersion' => PresentUpTo(Local)'
                      /\ m_localMidVersion' > m_NewestMidVersion' => PresentUpTo(Goal)'
    BY <1>2 DEF CheckVersion, Go, LoadResources, Progress, Installing
  <2>1. UNCHANGED local /\ PresentUpTo(Local)
    BY <1>2 DEF CheckVersion, Inv, Progress
  <2>2. \A w \in Versions : Before(packaged', w) /\ ~Before(Local', w) => Present(w)'
    BY <1>0, <1>1, <2>1 DEF PresentUpTo, Local, local
  <2>3. ASSUME m_localMidVersion' > m_NewestMidVersion', NEW w \in Versions,
               ~Before(Goal', w)
        PROVE  ~Before(Local', w)
    BY <1>a, <1>b, <2>1, <2>3 DEF Before, Goal, Local, local, TypeOK, VersionNumbers
  <2> QED
    BY <2>2, <2>3 DEF PresentUpTo
<1>3. CASE NextVersion
  <2>1. UNCHANGED goal /\ PresentUpTo(Local) /\ m_localMidVersion <= m_NewestMidVersion
    BY <1>3 DEF NextVersion, Inv, Progress
  <2>2. CASE m_LocalVersion < LastVersion
    <3>1. pc' = "list" /\ Local' = [mid |-> m_localMidVersion, min |-> m_LocalVersion + 1]
      BY <1>3, <2>2 DEF NextVersion, Go, Local
    <3>2. ASSUME NEW w \in Versions, Before(w, Local')
          PROVE  ~Before(Local, w)
      BY <1>a, <1>b, <3>1, <3>2 DEF Before, Local
    <3>3. PresentBefore(Local)'
      BY <1>0, <1>1, <2>1, <3>2 DEF PresentBefore, PresentUpTo, Before
    <3>4. m_localMidVersion' <= m_NewestMidVersion'
      BY <2>1, <3>1 DEF Local, goal
    <3> QED
      BY <3>1, <3>3, <3>4 DEF Progress, Installing
  <2>3. CASE ~(m_LocalVersion < LastVersion)
    <3>1. /\ pc' = "next" /\ m_localMidVersion' = m_localMidVersion + 1
          /\ m_LocalVersion' = IF m_localMidVersion < m_NewestMidVersion THEN 0 ELSE m_LocalVersion
      BY <1>3, <2>3 DEF NextVersion
    <3>2. CASE m_localMidVersion < m_NewestMidVersion
      <4>1. \A w \in Versions : ~Before(Local', w) => ~Before(Local, w)
        BY <1>a, <1>b, <2>3, <3>1, <3>2, UpdateAssumption
           DEF Before, Local, LastVersion, Versions, VersionNumbers
      <4>2. PresentUpTo(Local)'
        BY <1>0, <1>1, <2>1, <4>1 DEF PresentUpTo
      <4>3. m_localMidVersion' <= m_NewestMidVersion'
        BY <1>b, <2>1, <3>1, <3>2 DEF goal
      <4> QED
        BY <1>b, <2>1, <3>1, <4>2, <4>3 DEF Progress, Installing, goal
    <3>3. CASE ~(m_localMidVersion < m_NewestMidVersion)
      <4>1. \A w \in Versions : ~Before(Goal', w) => ~Before(Local, w)
        BY <1>a, <1>b, <2>1, <2>3, <3>3 DEF Before, Local, Goal, LastVersion, goal
      <4>2. PresentUpTo(Goal)'
        BY <1>0, <1>1, <2>1, <4>1 DEF PresentUpTo
      <4>3. ~(m_localMidVersion' <= m_NewestMidVersion')
        BY <1>b, <2>1, <3>1, <3>3 DEF goal
      <4> QED
        BY <3>1, <4>2, <4>3 DEF Progress, Installing
    <3> QED
      BY <3>2, <3>3
  <2> QED
    BY <2>2, <2>3
<1>4. CASE AllLoaded
  BY <1>4 DEF AllLoaded, LoadResources, Go, Progress, Installing
<1>5. CASE GetFileList
  <2>1. UNCHANGED <<local, goal>> /\ PresentBefore(Local) /\ Local \in Versions
    BY <1>5 DEF GetFileList, Inv, TypeOK, Progress
  <2>2. PresentBefore(Local)'
    BY <1>0, <1>1, <2>1 DEF PresentBefore, Local, local
  <2>3. CASE pc' = "next"
    <3>1. Present(Local)
      BY <1>5, <2>3 DEF GetFileList, Go, Present
    <3>2. \A w \in Versions : ~Before(Local, w) => Before(w, Local) \/ w = Local
      BY <1>a, <1>b, <2>1 DEF Before, Local, Versions, VersionNumbers
    <3>3. PresentUpTo(Local)'
      BY <1>0, <1>1, <2>1, <3>1, <3>2 DEF PresentUpTo, PresentBefore, Local, local
    <3>4. m_localMidVersion' <= m_NewestMidVersion' /\ ~(m_localMidVersion' > m_NewestMidVersion')
      BY <1>b, <1>5, <2>1 DEF GetFileList, Inv, Progress, local, goal
    <3> QED
      BY <2>3, <3>3, <3>4 DEF Progress, Installing
  <2>4. m_localMidVersion' <= m_NewestMidVersion'
    BY <1>5, <2>1 DEF GetFileList, Inv, Progress, local, goal
  <2> QED
    BY <1>5, <2>2, <2>3, <2>4 DEF GetFileList, Go, Progress, Installing
<1>6. CASE DownloadFile
  BY <1>0, <1>1, <1>6
     DEF DownloadFile, Go, Inv, Progress, PresentBefore, Local, local, goal, Failed, Installing
<1>7. CASE Uncompress
  <2>1. UNCHANGED <<local, goal>> /\ PresentBefore(Local) /\ Local \in Versions
    BY <1>7 DEF Uncompress, Inv, TypeOK, Progress
  <2>2. PresentBefore(Local)'
    BY <1>0, <1>1, <2>1 DEF PresentBefore, Local, local
  <2>3. CASE pc' = "unpacked"
    <3>1. Present(Local)'
      BY <1>7, <2>3 DEF Uncompress, Go, Present, Inv, FileOfVersion, Installing, Local, local
    <3>2. \A w \in Versions : ~Before(Local, w) => Before(w, Local) \/ w = Local
      BY <1>a, <1>b, <2>1 DEF Before, Local, Versions, VersionNumbers
    <3>3. PresentUpTo(Local)'
      BY <1>0, <1>1, <2>1, <2>2, <3>1, <3>2 DEF PresentUpTo, PresentBefore, Local, local
    <3> QED
      BY <1>7, <2>1, <2>3, <3>3 DEF Uncompress, Inv, Progress, Installing, local, goal
  <2> QED
    BY <1>7, <2>1, <2>2, <2>3 DEF Uncompress, Go, Inv, Progress, Installing, local, goal, Failed
<1>8. CASE Truncate \/ WriteVersion
  <2>1. UNCHANGED <<local, goal, m_ResLoadState>> /\ PresentUpTo(Local)
    BY <1>8 DEF Truncate, WriteVersion, Inv, Progress
  <2>2. PresentUpTo(Local)'
    BY <1>0, <1>1, <2>1 DEF PresentUpTo, Local, local
  <2>3. PresentBefore(Local)'
    BY <1>a, <1>b, <2>2, <2>1 DEF PresentUpTo, PresentBefore, Before, Local, local
  <2> QED
    BY <1>8, <2>1, <2>2, <2>3
       DEF Truncate, WriteVersion, Inv, Progress, Installing, local, goal
<1>9. CASE EndFile
  <2>1. UNCHANGED <<local, goal, m_ResLoadState>> /\ PresentBefore(Local)
    BY <1>9 DEF EndFile, Inv, Progress
  <2>2. PresentBefore(Local)'
    BY <1>0, <1>1, <2>1 DEF PresentBefore, Local, local
  <2>3. ASSUME PresentUpTo(Local) PROVE PresentUpTo(Local)'
    BY <1>0, <1>1, <2>1, <2>3 DEF PresentUpTo, Local, local
  <2>4. m_localMidVersion' <= m_NewestMidVersion' /\ ~(m_localMidVersion' > m_NewestMidVersion')
    BY <1>b, <1>9, <2>1 DEF EndFile, Inv, Progress, Installing, local, goal
  <2>5. CASE pc' = "next"
    <3>1. PresentUpTo(Local)
      BY <1>9, <2>5 DEF EndFile, Inv, Progress
    <3> QED
      BY <2>3, <2>4, <2>5, <3>1 DEF Progress, Installing
  <2>6. CASE pc' \in {"file", "none"}
    BY <2>2, <2>4, <2>6 DEF Progress, Installing
  <2> QED
    BY <1>9, <2>5, <2>6 DEF EndFile
<1> QED
  BY <1>2, <1>3, <1>4, <1>5, <1>6, <1>7, <1>8, <1>9 DEF Thread

LEMMA ProgressNext ==
  ASSUME Inv, TypeOK', FileOfVersion', [Next]_vars
  PROVE  Progress'
<1>1. CASE Thread
  BY <1>1, ProgressThread
<1>2. CASE UpdateGame
  <2>1. pc' = "check" /\ UNCHANGED <<packaged, installed>>
    BY <1>2 DEF UpdateGame, Go, disk
  <2>2. PresentUpTo(packaged) /\ (IsEnableUpdate => PresentUpTo(stored))
    BY UpdateAssumption
       DEF Inv, TypeOK, StoredIsPresent, IsEnableUpdate, PresentUpTo, Before, Versions, VersionNumbers
  <2>3. PresentUpTo(Local)'
    BY <1>2, <2>1, <2>2 DEF UpdateGame, PresentUpTo, Present, Local, Before
  <2> QED
    BY <2>1, <2>3 DEF Progress, Installing
<1>3. CASE Crash
  BY <1>3 DEF Crash, Go, Progress, Installing
<1>4. CASE Upgrade
  BY <1>4 DEF Upgrade, Inv, Progress, Installing
<1>5. CASE Publish \/ PublishBig \/ UNCHANGED vars
  <2>1. UNCHANGED <<packaged, installed, local, goal, m_ResLoadState, pc>>
    BY <1>5 DEF Publish, PublishBig, vars, disk
  <2> QED
    BY <2>1 DEF Inv, Progress, PresentUpTo, PresentBefore, Present, Local, Goal, local, goal
<1> QED
  BY <1>1, <1>2, <1>3, <1>4, <1>5 DEF Next

LEMMA StoredNext ==
  ASSUME Inv, TypeOK', [Next]_vars
  PROVE  StoredIsPresent'
<1>1. stored' = stored \/ stored' = None \/ (WriteVersion /\ stored' = Local)
  BY DEF Next, Thread, CheckVersion, NextVersion, AllLoaded, GetFileList, DownloadFile,
     Uncompress, Truncate, WriteVersion, EndFile, UpdateGame, Crash, Upgrade, Publish,
     PublishBig, vars, disk
<1>2. \A w \in Versions : /\ Present(w) => Present(w)'
                          /\ Before(packaged', w) => Before(packaged, w)
  BY PresentStays DEF Inv
<1>3. CASE stored' = stored
  BY <1>2, <1>3 DEF Inv, StoredIsPresent, PresentUpTo
<1>4. CASE stored' = None
  BY <1>4 DEF StoredIsPresent
<1>5. CASE WriteVersion /\ stored' = Local
  <2>1. PresentUpTo(Local)
    BY <1>5 DEF WriteVersion, Inv, Progress
  <2> QED
    BY <1>2, <1>5, <2>1 DEF StoredIsPresent, PresentUpTo
<1> QED
  BY <1>1, <1>3, <1>4, <1>5

-----------------------------------------------------------------------------
(* The theorems.                                                           *)

LEMMA Invariant == Spec => []Inv
<1>1. Init => Inv
  BY TypeInit DEF Init, Inv, StoredIsPresent, Progress, Installing
<1>2. Inv /\ [Next]_vars => Inv'
  <2> SUFFICES ASSUME Inv, [Next]_vars PROVE Inv'
    OBVIOUS
  <2>1. TypeOK' /\ FileOfVersion'
    BY TypeNext DEF Inv
  <2> QED
    BY <2>1, ProgressNext, StoredNext DEF Inv
<1> QED
  BY <1>1, <1>2, PTL DEF Spec

\* Every variable of the update keeps its type, and only the server's versions are ever
\* installed.
THEOREM TypeCorrect == Spec => []TypeOK
<1>1. Inv => TypeOK
  BY DEF Inv
<1> QED
  BY <1>1, Invariant, PTL

\* Whatever fails and whenever the game is killed, version.ini (storeVersion) never claims
\* a version of which nothing has been unpacked.
THEOREM StoredPresent == Spec => []StoredIsPresent
<1>1. Inv => StoredIsPresent
  BY DEF Inv
<1> QED
  BY <1>1, Invariant, PTL

\* When CheckVersion gets to LoadResources, no version up to the newest was skipped.
THEOREM CompletedPresent == Spec => CompletedIsPresent
<1>1. Inv => (AllLoaded => PresentUpTo(Goal))
  BY DEF Inv, AllLoaded, Progress
<1>2. Inv => [AllLoaded => PresentUpTo(Goal)]_vars
  BY <1>1
<1> QED
  BY <1>2, Invariant, PTL DEF CompletedIsPresent

-----------------------------------------------------------------------------
(* The restart.                                                            *)

\* While an update runs, a version behind it that asks for a restart has been noted, or is
\* about to be: the thread is at the end of one of its files.
Noted ==
    pc # "none" => \A v \in passed \cap Restarts :
                       m_restartclient \/ (pc = "end" /\ v = Local)

LEMMA NotedNext ==
  ASSUME Noted, MCNext
  PROVE  Noted'
<1> SUFFICES ASSUME pc' # "none", NEW v \in passed' \cap Restarts, ~m_restartclient'
             PROVE  pc' = "end" /\ v = Local'
  BY DEF Noted
<1>1. /\ Next
      /\ passed' = CASE pc = "none" -> {}
                     [] pc = "end" -> passed \cup {Local}
                     [] OTHER -> passed
  BY DEF MCNext
<1>2. pc # "none"
  BY <1>1
<1>3. CASE EndFile
  <2>1. v \in passed \cup {Local} /\ ~m_restartclient /\ Local \notin Restarts
    BY <1>1, <1>3 DEF EndFile
  <2> QED
    BY <1>2, <2>1, <1>3 DEF Noted, EndFile
<1>4. CASE Publish \/ PublishBig
  <2>1. UNCHANGED <<local, m_restartclient, pc>>
    BY <1>4 DEF Publish, PublishBig
  <2>2. CASE pc = "end"
    <3>1. v \in passed => v = Local
      BY <1>2, <2>1 DEF Noted
    <3> QED
      BY <1>1, <2>1, <2>2, <3>1 DEF Local, local
  <2>3. CASE pc # "end"
    BY <1>1, <1>2, <2>1, <2>3 DEF Noted
  <2> QED
    BY <2>2, <2>3
<1>5. CASE /\ pc \notin {"none", "end"} /\ UNCHANGED m_restartclient
  BY <1>1, <1>2, <1>5 DEF Noted
<1> QED
  BY <1>1, <1>2, <1>3, <1>4, <1>5
     DEF Next, Thread, CheckVersion, NextVersion, AllLoaded, GetFileList, DownloadFile,
         Uncompress, Truncate, WriteVersion, UpdateGame, Crash, Upgrade, Go

\* Whatever failed on the way, CheckVersion's LoadResources asks for a restart (L_UpdateGame's
\* RESTART_CLIENT) when a version that the update went through does: no version after it
\* makes the thread forget.
THEOREM RestartIsAsked == MCSpec => RestartAsked
<1>1. MCInit => Noted
  BY DEF MCInit, Init, Noted
<1>2. Noted /\ [MCNext]_<<vars, passed>> => Noted'
  <2> SUFFICES ASSUME Noted, [MCNext]_<<vars, passed>> PROVE Noted'
    OBVIOUS
  <2>1. CASE UNCHANGED <<vars, passed>>
    BY <2>1 DEF Noted, vars, Local, local
  <2> QED
    BY <2>1, NotedNext
<1>3. Noted => [AllLoaded => (passed \cap Restarts # {} => m_ResLoadState' = "RESTART_CLIENT")]_vars
  BY DEF Noted, AllLoaded, LoadResources, Go
<1> QED
  BY <1>1, <1>2, <1>3, PTL DEF MCSpec, RestartAsked

===============================================================================
