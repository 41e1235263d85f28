------------------------------ MODULE ResUpdate -------------------------------
(***************************************************************************)
(* CResManager: the update of a game's resources.  A thread asks the       *)
(* server for its newest version, and installs version after version, file *)
(* after file, from where the client is.  How far it got is kept in        *)
(* version.ini, which is written anew after each file.                     *)
(*                                                                         *)
(* The network, the unpacking and the disk may fail at any file, and the   *)
(* game may be killed at any step.  The big version is the client's, and   *)
(* a server's is the same one, another one, or none.                       *)
(***************************************************************************)
EXTENDS Naturals

CONSTANTS
    VersionCount,       \* VERSION_COUNT: the minor versions of a middle one
    MaxMid,             \* how many middle versions there are
    Files,              \* of the server's versions: how many there are
    Restarts,           \* the versions with IsRestart
    None

VersionNumbers == [mid : 0 .. MaxMid, min : 0 .. VersionCount]

\* The versions that consist of files.
Versions == {v \in VersionNumbers : v.min > 0}

ASSUME UpdateAssumption ==
    /\ VersionCount \in Nat \ {0} /\ MaxMid \in Nat
    /\ Files \in [Versions -> Nat] /\ Restarts \subseteq Versions
    /\ None \notin VersionNumbers

Before(v, w) == v.mid < w.mid \/ (v.mid = w.mid /\ v.min < w.min)

BigVersions == {"same", "other", "none"}

Failed == {"GETFILELISTFAILED", "DOWNLOADFILEFAILED", "UNCOMPRESS_FAILED"}
Ready == {"COMPLETED", "RESTART_CLIENT"}
LoadStates == Failed \cup Ready \cup
    {"NONE", "CHECKVERSION", "CHECKVERSIONFAILED", "BIG_UPDATE", "GETFILELIST",
     "DOWNLOADFILE", "UNCOMPRESS"}

VARIABLES
    packaged,           \* the version of the client that is installed
    stored,             \* what version.ini says
    installed,          \* the files that have been unpacked: <<version, nr>>
    newest, big,        \* update.txt
    m_ResLoadState, m_localMidVersion, m_LocalVersion,
    m_NewestMidVersion, m_NewestVersion, m_restartclient,
    pc, file            \* where the update's thread is

disk == <<packaged, stored, installed>>
server == <<newest, big>>
goal == <<m_NewestMidVersion, m_NewestVersion>>
local == <<m_localMidVersion, m_LocalVersion>>
vars == <<disk, server, goal, local, m_ResLoadState, m_restartclient, pc, file>>

Points == {"none", "check", "next", "list", "file", "unpack", "unpacked", "truncated", "end"}

Local == [mid |-> m_localMidVersion, min |-> m_LocalVersion]
Goal == [mid |-> m_NewestMidVersion, min |-> m_NewestVersion]

Init ==
    /\ packaged \in VersionNumbers /\ stored = None /\ installed = {}
    /\ newest = packaged /\ big = "same"
    /\ m_ResLoadState = "NONE" /\ m_localMidVersion = 0 /\ m_LocalVersion = 0
    /\ m_NewestMidVersion = 0 /\ m_NewestVersion = 0 /\ m_restartclient = FALSE
    /\ pc = "none" /\ file = 0

-----------------------------------------------------------------------------
(* The thread of an update.                                                *)

\* Where the thread is, and the state that it reports.
Go(point, loadState) == pc' = point /\ m_ResLoadState' = loadState

\* isEnableUpdate: version.ini is legible and ahead of the client.
IsEnableUpdate == stored # None /\ Before(packaged, stored)

\* L_UpdateGame and init, with the version that Lua knows to be in use.  isEnableUpdate
\* reads version.ini in memory that is already given back, and may find nothing legible.
UpdateGame ==
    /\ pc = "none" /\ Go("check", "NONE")
    /\ \E v \in {packaged} \cup (IF IsEnableUpdate THEN {stored} ELSE {}) :
          m_localMidVersion' = v.mid /\ m_LocalVersion' = v.min
    /\ m_restartclient' = FALSE
    /\ m_NewestVersion' = 0 /\ UNCHANGED m_NewestMidVersion
    /\ UNCHANGED <<disk, server, file>>

LoadResources == Go("none", IF m_restartclient THEN "RESTART_CLIENT" ELSE "COMPLETED")

\* CheckVersion, up to the loops.
CheckVersion ==
    /\ pc = "check"
    /\ \/ Go("none", "CHECKVERSIONFAILED") /\ UNCHANGED goal
       \/ big = "none" /\ LoadResources /\ UNCHANGED goal
       \/ big = "other" /\ Go("none", "BIG_UPDATE") /\ UNCHANGED goal
       \/ /\ big = "same" /\ Go("next", "CHECKVERSION")
          /\ m_NewestMidVersion' = newest.mid /\ m_NewestVersion' = newest.min
    /\ UNCHANGED <<disk, server, local, m_restartclient, file>>

\* How far to go in the middle version that the client is at.
LastVersion ==
    IF m_localMidVersion < m_NewestMidVersion THEN VersionCount ELSE m_NewestVersion

\* Mutant: the next middle version is begun one too late.
NextVersionSkips ==
    /\ pc = "next" /\ m_localMidVersion <= m_NewestMidVersion
    /\ IF m_LocalVersion < LastVersion
       THEN /\ m_LocalVersion' = m_LocalVersion + 1 /\ Go("list", "GETFILELIST")
            /\ UNCHANGED m_localMidVersion
       ELSE /\ m_LocalVersion' = IF m_localMidVersion < m_NewestMidVersion
                                 THEN 1 ELSE m_LocalVersion
            /\ m_localMidVersion' = m_localMidVersion + 1
            /\ UNCHANGED <<pc, m_ResLoadState>>
    /\ UNCHANGED <<disk, server, goal, m_restartclient, file>>

\* Mutant: one version more than there is.
NextVersionOneMore ==
    /\ pc = "next" /\ m_localMidVersion <= m_NewestMidVersion
    /\ IF m_LocalVersion <= LastVersion
       THEN /\ m_LocalVersion' = m_LocalVersion + 1 /\ Go("list", "GETFILELIST")
            /\ UNCHANGED m_localMidVersion
       ELSE /\ m_LocalVersion' = 0 /\ m_localMidVersion' = m_localMidVersion + 1
            /\ UNCHANGED <<pc, m_ResLoadState>>
    /\ UNCHANGED <<disk, server, goal, m_restartclient, file>>

\* Mutant: the middle version stays.
NextVersionStays ==
    /\ pc = "next" /\ m_localMidVersion <= m_NewestMidVersion
    /\ IF m_LocalVersion < LastVersion
       THEN m_LocalVersion' = m_LocalVersion + 1 /\ Go("list", "GETFILELIST")
       ELSE /\ m_LocalVersion' = IF m_localMidVersion < m_NewestMidVersion
                                 THEN 0 ELSE m_LocalVersion
            /\ UNCHANGED <<pc, m_ResLoadState>>
    /\ UNCHANGED <<disk, server, goal, m_localMidVersion, m_restartclient, file>>

\* A turn of the loops in CheckVersion.
NextVersion ==
    /\ pc = "next" /\ m_localMidVersion <= m_NewestMidVersion
    /\ IF m_LocalVersion < LastVersion
       THEN /\ m_LocalVersion' = m_LocalVersion + 1 /\ Go("list", "GETFILELIST")
            /\ UNCHANGED m_localMidVersion
       ELSE /\ m_LocalVersion' = IF m_localMidVersion < m_NewestMidVersion
                                 THEN 0 ELSE m_LocalVersion
            /\ m_localMidVersion' = m_localMidVersion + 1
            /\ UNCHANGED <<pc, m_ResLoadState>>
    /\ UNCHANGED <<disk, server, goal, m_restartclient, file>>

\* Their end.
AllLoaded ==
    /\ pc = "next" /\ m_localMidVersion > m_NewestMidVersion
    /\ LoadResources
    /\ UNCHANGED <<disk, server, goal, local, m_restartclient, file>>

\* UpdateVersionTo: the list of a version's files.
GetFileList ==
    /\ pc = "list"
    /\ \/ Go("none", "GETFILELISTFAILED") /\ UNCHANGED file
       \/ Files[Local] = 0 /\ pc' = "next" /\ UNCHANGED <<m_ResLoadState, file>>
       \/ Files[Local] > 0 /\ pc' = "file" /\ file' = 1 /\ UNCHANGED m_ResLoadState
    /\ UNCHANGED <<disk, server, goal, local, m_restartclient>>

\* UpdateOneFile and DownLoadFile: the download.
DownloadFile ==
    /\ pc = "file"
    /\ \/ Go("end", "DOWNLOADFILEFAILED")
       \/ Go("unpack", "UNCOMPRESS")
    /\ UNCHANGED <<disk, server, goal, local, m_restartclient, file>>

\* Mutant: a file that could not be unpacked counts as one that is there.
UncompressIgnored ==
    /\ pc = "unpack" /\ pc' = "unpacked" /\ UNCHANGED m_ResLoadState
    /\ \/ installed' = installed \cup {<<Local, file>>}
       \/ UNCHANGED installed
    /\ UNCHANGED <<packaged, stored, server, goal, local, m_restartclient, file>>

\* uncompress; when it fails the state is soon overwritten by UpdateOneFile.
Uncompress ==
    /\ pc = "unpack"
    /\ \/ /\ pc' = "unpacked" /\ UNCHANGED m_ResLoadState
          /\ installed' = installed \cup {<<Local, file>>}
       \/ Go("end", "DOWNLOADFILEFAILED") /\ UNCHANGED installed
    /\ UNCHANGED <<packaged, stored, server, goal, local, m_restartclient, file>>

\* storeVersion: version.ini is emptied, unless it cannot be opened.
Truncate ==
    /\ pc = "unpacked"
    /\ \/ stored' = None /\ pc' = "truncated"
       \/ pc' = "end" /\ UNCHANGED stored
    /\ UNCHANGED <<packaged, installed, server, goal, local, m_ResLoadState, m_restartclient, file>>

\* The rest of it, whether or not all is written.
WriteVersion ==
    /\ pc = "truncated" /\ pc' = "end"
    /\ stored' \in {Local, None}
    /\ UNCHANGED <<packaged, installed, server, goal, local, m_ResLoadState, m_restartclient, file>>

\* Mutant: the last version says whether to restart.
EndFileOverwrites ==
    /\ pc = "end"
    /\ m_restartclient' = (Local \in Restarts)
    /\ IF file < Files[Local]
       THEN pc' = "file" /\ file' = file + 1
       ELSE pc' = (IF m_ResLoadState \in Failed THEN "none" ELSE "next") /\ UNCHANGED file
    /\ UNCHANGED <<disk, server, goal, local, m_ResLoadState>>

\* The rest of the loops' bodies: only the last file's failure ends the update.
EndFile ==
    /\ pc = "end"
    /\ m_restartclient' = (m_restartclient \/ Local \in Restarts)
    /\ IF file < Files[Local]
       THEN pc' = "file" /\ file' = file + 1
       ELSE pc' = (IF m_ResLoadState \in Failed THEN "none" ELSE "next") /\ UNCHANGED file
    /\ UNCHANGED <<disk, server, goal, local, m_ResLoadState>>

Thread ==
    \/ CheckVersion \/ NextVersion \/ AllLoaded \/ GetFileList \/ DownloadFile
    \/ Uncompress \/ Truncate \/ WriteVersion \/ EndFile

-----------------------------------------------------------------------------
(* What happens to the game and the server.                                *)

\* The game is killed and started again: what is on the disk is left.
Crash ==
    /\ pc # "none" /\ Go("none", "NONE")
    /\ m_localMidVersion' = 0 /\ m_LocalVersion' = 0
    /\ m_NewestMidVersion' = 0 /\ m_NewestVersion' = 0
    /\ m_restartclient' = FALSE /\ file' = 0
    /\ UNCHANGED <<disk, server>>

\* A newer client is installed over the old one, and what it had downloaded.
Upgrade ==
    /\ pc = "none"
    /\ \E v \in VersionNumbers : Before(packaged, v) /\ packaged' = v
    /\ UNCHANGED <<stored, installed, server, goal, local, m_ResLoadState, m_restartclient, pc, file>>

\* The server offers a newer version; a middle version before the newest is complete.
Publish ==
    /\ \E v \in VersionNumbers : Before(newest, v) /\ newest' = v
    /\ UNCHANGED <<disk, big, goal, local, m_ResLoadState, m_restartclient, pc, file>>

PublishBig ==
    /\ big' \in BigVersions \ {big}
    /\ UNCHANGED <<disk, newest, goal, local, m_ResLoadState, m_restartclient, pc, file>>

Next == Thread \/ UpdateGame \/ Crash \/ Upgrade \/ Publish \/ PublishBig

\* The thread runs, and a download ends one way or the other.
Spec == Init /\ [][Next]_vars /\ WF_vars(Thread)

-----------------------------------------------------------------------------
(* Properties.                                                             *)

\* Every variable has its type; a version that is being installed is one of the server's.
TypeOK ==
    /\ packaged \in VersionNumbers /\ stored \in Versions \cup {None}
    /\ installed \subseteq Versions \X Nat
    /\ newest \in VersionNumbers /\ big \in BigVersions
    /\ m_ResLoadState \in LoadStates /\ m_restartclient \in BOOLEAN
    /\ m_localMidVersion \in 0 .. MaxMid + 1 /\ m_LocalVersion \in 0 .. VersionCount
    /\ Goal \in VersionNumbers
    /\ pc \in Points /\ file \in Nat
    /\ pc \in {"list", "file", "unpack", "unpacked", "truncated", "end"} => Local \in Versions

\* All of a version that has one file, some of one that has more.
Present(v) == Files[v] > 0 => \E nr \in 1 .. Files[v] : <<v, nr>> \in installed

\* All that the client needs to be at a version.
PresentUpTo(v) ==
    \A w \in Versions : Before(packaged, w) /\ ~Before(v, w) => Present(w)

\* What version.ini says is there: no version up to it was skipped, whatever failed and
\* whenever the game was killed.
StoredIsPresent == stored # None => PresentUpTo(stored)

\* An update that reports its end has brought the client to the newest version.
CompletedIsPresent ==
    [][AllLoaded => PresentUpTo(Goal)]_vars

\* An update comes to an end.
UpdateEnds == pc # "none" ~> pc = "none"

===============================================================================
