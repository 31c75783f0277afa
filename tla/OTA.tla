-------------------------------- MODULE OTA --------------------------------
(***************************************************************************)
(* Ota/OTA.cpp driven by Ota/ota_main.cpp: the A/B firmware updater.       *)
(*                                                                         *)
(* The program confirms or abandons the upgrade left by an earlier run     *)
(* (handlePendingBoot, then commit), and then checks for a new firmware    *)
(* again and again (runOnce).  Everything that survives a restart is a     *)
(* file, replaced by write-to-temporary, fsync and rename, or the boot     *)
(* target kept by the boot loader behind setBootTargetCallback.  A step of *)
(* the model makes at most one such change, so the process may die, or the *)
(* device restart, between any two of them.                                *)
(*                                                                         *)
(* ota_main sets autoReboot = false: the updater never restarts the device *)
(* itself (stepReboot is not reached); Reboot is an event of the world.    *)
(*                                                                         *)
(* A firmware image is named by its version; a download may also be        *)
(* damaged.  A save may fail before the rename or, when the fsync that     *)
(* follows the rename fails, after it.                                     *)
(***************************************************************************)
EXTENDS Integers

CONSTANTS
    Versions,        \* triples <<major, minor, patch>> the server may publish
    FactoryVersion,  \* Config::currentVersion, also the image first in slot A
    MaxRetryCount,   \* Config::maxRetryCount
    None,            \* no file, no image, or an object of a dead process
    Damaged,         \* content of a download that is no published image
    MaxFaults,       \* bound: failed saves and callbacks in a behaviour
    MaxRestarts,     \* bound: crashes and reboots in a behaviour
    MaxRuns          \* bound: calls of runOnce that get a manifest

ASSUME OTAAssumption ==
    /\ Versions \subseteq Nat \X Nat \X Nat
    /\ FactoryVersion \in Versions
    /\ MaxRetryCount \in Nat \ {0}
    /\ None \notin Versions
    /\ Damaged \notin Versions
    /\ Damaged # None
    /\ MaxFaults \in Nat /\ MaxRestarts \in Nat /\ MaxRuns \in Nat

Slots == {"A", "B"}

BootMeta == [activeSlot : Slots, pendingSlot : Slots, upgradePending : BOOLEAN,
             bootSuccess : BOOLEAN, retryCount : Nat,
             activeVersion : Versions, pendingVersion : Versions]

Manifest == [version : Versions, force : BOOLEAN]

ASSUME NoneAssumption == None \notin BootMeta \cup Manifest

VARIABLES
    pc,          \* where ota_main is; OTA::state_ follows it
    ver,         \* OTA::config_.currentVersion
    meta,        \* OTA::bootMeta_
    oldMeta,     \* the local oldMeta of stepSetBootTarget and stepRollback
    manifest,    \* OTA::manifest_
    download,    \* the file Config::downloadFile
    slot,        \* the files Config::slotAPath and slotBPath
    metaFile,    \* the file Config::bootMetaPath
    verFile,     \* the file Config::versionFilePath
    bootTarget,  \* the slot the boot loader starts next
    running,     \* the slot the device was started from
    attempts,    \* history: health checks since the last upgrade was prepared
    faults, restarts, runs   \* counters of the bounds

memory == <<ver, meta, oldMeta, manifest>>
disk == <<download, slot, metaFile, verFile>>
world == <<bootTarget, running, attempts>>
vars == <<pc, memory, disk, world, faults, restarts, runs>>

PC == {"down", "handle", "commit", "health", "commitVersion", "commitMeta",
       "rollback", "rollbackTarget", "loop", "compare", "verify", "write",
       "prepare", "prepareTarget"}
-----------------------------------------------------------------------------
(* Operators of the class.                                                 *)

IsNewerVersion(remote, local) ==
    \/ remote[1] > local[1]
    \/ remote[1] = local[1] /\ remote[2] > local[2]
    \/ remote[1] = local[1] /\ remote[2] = local[2] /\ remote[3] > local[3]

\* Fault: the slot opposite the pending one (the active slot once an upgrade waits).
StandbyOfPending(m) == IF m.pendingSlot = "A" THEN "B" ELSE "A"

StandbySlot(m) == IF m.activeSlot = "A" THEN "B" ELSE "A"

DefaultMeta(v) ==
    [activeSlot |-> "A", pendingSlot |-> "A", upgradePending |-> FALSE,
     bootSuccess |-> TRUE, retryCount |-> 0, activeVersion |-> v, pendingVersion |-> v]

Prepared(m, v) ==
    [m EXCEPT !.pendingSlot = StandbySlot(m), !.upgradePending = TRUE,
              !.bootSuccess = FALSE, !.retryCount = 0, !.pendingVersion = v]

Committed(m) ==
    [m EXCEPT !.activeSlot = m.pendingSlot, !.activeVersion = m.pendingVersion,
              !.upgradePending = FALSE, !.bootSuccess = TRUE, !.retryCount = 0]

\* Fault: rollback keeps the pending slot and swaps the two the wrong way round.
RolledForward(m) ==
    [m EXCEPT !.activeSlot = m.pendingSlot, !.activeVersion = m.pendingVersion,
              !.upgradePending = FALSE, !.bootSuccess = TRUE, !.retryCount = 0]

RolledBack(m) ==
    [m EXCEPT !.pendingSlot = m.activeSlot, !.pendingVersion = m.activeVersion,
              !.upgradePending = FALSE, !.bootSuccess = TRUE, !.retryCount = 0]

Fault == faults < MaxFaults /\ faults' = faults + 1

SaveBootMeta(m, ok) ==
    \/ ok /\ metaFile' = m /\ UNCHANGED faults
    \/ ~ok /\ Fault /\ metaFile' \in {metaFile, m}

SaveCurrentVersion(v, ok) ==
    \/ ok /\ verFile' = v /\ UNCHANGED faults
    \/ ~ok /\ Fault /\ verFile' \in {verFile, v}

\* setBootTargetCallback: the boot loader takes the new target or refuses it.
SetBootTarget(s, ok) ==
    \/ ok /\ bootTarget' = s /\ UNCHANGED faults
    \/ ~ok /\ Fault /\ UNCHANGED bootTarget

\* The process is gone and the OTA object with it.
Exit ==
    /\ pc' = "down"
    /\ ver' = None /\ meta' = None /\ oldMeta' = None /\ manifest' = None
-----------------------------------------------------------------------------
Init ==
    /\ pc = "down"
    /\ ver = None /\ meta = None /\ oldMeta = None /\ manifest = None
    /\ download = None
    /\ slot = [s \in Slots |-> IF s = "A" THEN FactoryVersion ELSE None]
    /\ metaFile = None
    /\ verFile = None
    /\ bootTarget = "A"
    /\ running = "A"
    /\ attempts = 0
    /\ faults = 0 /\ restarts = 0 /\ runs = 0

(* OTA::OTA and init: the version file, then the boot meta; a device without *)
(* boot meta gets the default, which is saved at once.                       *)

LoadedVersion == IF verFile = None THEN FactoryVersion ELSE verFile

InitLoad ==
    /\ pc = "down"
    /\ metaFile # None
    /\ ver' = LoadedVersion
    /\ meta' = metaFile
    /\ pc' = "handle"
    /\ UNCHANGED <<oldMeta, manifest, disk, world, faults, restarts, runs>>

InitReset ==
    /\ pc = "down"
    /\ metaFile = None
    /\ \E ok \in BOOLEAN :
        /\ SaveBootMeta(DefaultMeta(LoadedVersion), ok)
        /\ \/ /\ ok
              /\ ver' = LoadedVersion
              /\ meta' = DefaultMeta(LoadedVersion)
              /\ pc' = "handle"
              /\ UNCHANGED <<oldMeta, manifest>>
           \/ ~ok /\ Exit
    /\ UNCHANGED <<download, slot, verFile, world, restarts, runs>>
-----------------------------------------------------------------------------
(* handlePendingBoot: count the start of an unconfirmed upgrade, and give  *)
(* up when it has been started too often.                                  *)

HandleNothing ==
    /\ pc = "handle"
    /\ ~meta.upgradePending \/ meta.bootSuccess
    /\ pc' = IF meta.upgradePending THEN "commit" ELSE "loop"
    /\ UNCHANGED <<memory, disk, world, faults, restarts, runs>>

\* Fault: the count of starts is kept in memory only.
HandleRetryUnsaved ==
    /\ pc = "handle"
    /\ meta.upgradePending /\ ~meta.bootSuccess
    /\ meta.retryCount + 1 <= MaxRetryCount
    /\ meta' = [meta EXCEPT !.retryCount = @ + 1]
    /\ pc' = "commit"
    /\ UNCHANGED <<ver, oldMeta, manifest, disk, world, faults, restarts, runs>>

HandleRetry ==
    /\ pc = "handle"
    /\ meta.upgradePending /\ ~meta.bootSuccess
    /\ meta.retryCount + 1 <= MaxRetryCount
    /\ LET counted == [meta EXCEPT !.retryCount = @ + 1]
       IN \E ok \in BOOLEAN :
            /\ SaveBootMeta(counted, ok)
            /\ \/ /\ ok
                  /\ meta' = counted
                  /\ pc' = "commit"
                  /\ UNCHANGED <<ver, oldMeta, manifest>>
               \/ ~ok /\ Exit
    /\ UNCHANGED <<download, slot, verFile, world, restarts, runs>>

HandleExceeded ==
    /\ pc = "handle"
    /\ meta.upgradePending /\ ~meta.bootSuccess
    /\ meta.retryCount + 1 > MaxRetryCount
    /\ meta' = [meta EXCEPT !.retryCount = @ + 1]
    /\ pc' = "rollback"
    /\ UNCHANGED <<ver, oldMeta, manifest, disk, world, faults, restarts, runs>>
-----------------------------------------------------------------------------
(* commit: ota_main calls it when an upgrade is pending.                   *)

CommitCalled ==
    /\ pc = "commit"
    /\ pc' = "health"
    /\ attempts' = attempts + 1
    /\ UNCHANGED <<memory, disk, bootTarget, running, faults, restarts, runs>>

\* Fault: the version is not saved before the boot meta.
HealthPassesMetaFirst ==
    /\ pc = "health"
    /\ meta' = Committed(meta)
    /\ ver' = meta.pendingVersion
    /\ pc' = "commitMeta"
    /\ UNCHANGED <<oldMeta, manifest, disk, world, faults, restarts, runs>>

\* The health check callback may answer either way.
HealthPasses ==
    /\ pc = "health"
    /\ meta' = Committed(meta)
    /\ ver' = meta.pendingVersion
    /\ pc' = "commitVersion"
    /\ UNCHANGED <<oldMeta, manifest, disk, world, faults, restarts, runs>>

\* Fault: a failed health check leaves the upgrade as it is.
HealthIgnored ==
    /\ pc = "health"
    /\ pc' = "loop"
    /\ UNCHANGED <<memory, disk, world, faults, restarts, runs>>

HealthFails ==
    /\ pc = "health"
    /\ pc' = "rollback"
    /\ UNCHANGED <<memory, disk, world, faults, restarts, runs>>

\* saveCurrentVersion, with its persistVersionCallback; on failure main exits.
CommitVersion ==
    /\ pc = "commitVersion"
    /\ \E ok \in BOOLEAN :
        /\ SaveCurrentVersion(ver, ok)
        /\ \/ ok /\ pc' = "commitMeta" /\ UNCHANGED memory
           \/ ~ok /\ Exit
    /\ UNCHANGED <<download, slot, metaFile, world, restarts, runs>>

CommitMeta ==
    /\ pc = "commitMeta"
    /\ \E ok \in BOOLEAN :
        /\ SaveBootMeta(meta, ok)
        /\ \/ ok /\ pc' = "loop" /\ UNCHANGED memory
           \/ ~ok /\ Exit
    /\ UNCHANGED <<download, slot, verFile, world, restarts, runs>>
-----------------------------------------------------------------------------
(* stepRollback, reached from handlePendingBoot and from commit; in both   *)
(* main exits on failure and enters its loop on success.                   *)

RollbackMeta ==
    /\ pc = "rollback"
    /\ \E ok \in BOOLEAN :
        /\ SaveBootMeta(RolledBack(meta), ok)
        /\ \/ /\ ok
              /\ oldMeta' = meta
              /\ meta' = RolledBack(meta)
              /\ pc' = "rollbackTarget"
              /\ UNCHANGED <<ver, manifest>>
           \/ ~ok /\ Exit
    /\ UNCHANGED <<download, slot, verFile, world, restarts, runs>>

\* On failure the old meta is saved again and the result of that save ignored.
RollbackTarget ==
    /\ pc = "rollbackTarget"
    /\ \/ /\ SetBootTarget(meta.activeSlot, TRUE)
          /\ pc' = "loop"
          /\ UNCHANGED <<memory, metaFile>>
       \/ /\ SetBootTarget(meta.activeSlot, FALSE)
          /\ metaFile' \in {metaFile, oldMeta}
          /\ Exit
    /\ UNCHANGED <<download, slot, verFile, running, attempts, restarts, runs>>
-----------------------------------------------------------------------------
(* runOnce.  Every failure leaves it for the next round of main's loop.    *)

\* stepCheckVersion: the manifest is fetched, parsed and validated.
FetchManifest ==
    /\ pc = "loop"
    /\ runs < MaxRuns
    /\ runs' = runs + 1
    /\ manifest' \in Manifest
    /\ pc' = "compare"
    /\ UNCHANGED <<ver, meta, oldMeta, disk, world, faults, restarts>>

\* No answer, or one that parseManifest or validateManifest rejects.
FetchFails ==
    /\ pc = "loop"
    /\ manifest' = None
    /\ UNCHANGED <<pc, ver, meta, oldMeta, disk, world, faults, restarts, runs>>

NoNewerVersion ==
    /\ pc = "compare"
    /\ ~IsNewerVersion(manifest.version, ver) /\ ~manifest.force
    /\ pc' = "loop"
    /\ UNCHANGED <<memory, disk, world, faults, restarts, runs>>

\* stepDownloadFirmware: the old file is removed first; what arrives may be any
\* image or damaged data, and a failed transfer leaves no file.
DownloadFirmware ==
    /\ pc = "compare"
    /\ IsNewerVersion(manifest.version, ver) \/ manifest.force
    /\ \/ download' \in Versions \cup {Damaged} /\ pc' = "verify"
       \/ download' \in {download, None} /\ pc' = "loop"
    /\ UNCHANGED <<memory, slot, metaFile, verFile, world, faults, restarts, runs>>

\* Fault: the digest is not compared.
VerifyNothing ==
    /\ pc = "verify"
    /\ pc' = "write"
    /\ UNCHANGED <<memory, disk, world, faults, restarts, runs>>

\* stepVerifyFirmware: size and SHA-256 of the file against the manifest.
VerifyFirmware ==
    /\ pc = "verify"
    /\ pc' = IF download = manifest.version THEN "write" ELSE "loop"
    /\ UNCHANGED <<memory, disk, world, faults, restarts, runs>>

\* stepWriteStandby: copy to a temporary file, fsync, rename.
WriteStandby ==
    /\ pc = "write"
    /\ \/ /\ slot' = [slot EXCEPT ![StandbySlot(meta)] = download]
          /\ pc' = "prepare"
          /\ UNCHANGED faults
       \/ /\ Fault
          /\ slot' \in {slot, [slot EXCEPT ![StandbySlot(meta)] = download]}
          /\ pc' = "loop"
    /\ UNCHANGED <<memory, download, metaFile, verFile, world, restarts, runs>>

\* stepSetBootTarget, up to saveBootMeta.
PrepareMeta ==
    /\ pc = "prepare"
    /\ attempts' = 0
    /\ \E ok \in BOOLEAN :
        /\ SaveBootMeta(Prepared(meta, manifest.version), ok)
        /\ \/ /\ ok
              /\ oldMeta' = meta
              /\ meta' = Prepared(meta, manifest.version)
              /\ pc' = "prepareTarget"
           \/ /\ ~ok
              /\ pc' = "loop"
              /\ UNCHANGED <<meta, oldMeta>>
    /\ UNCHANGED <<ver, manifest, download, slot, verFile, bootTarget, running, restarts, runs>>

\* stepSetBootTarget, from setBootTarget; on failure the old meta is saved again
\* and the result of that save ignored.
PrepareTarget ==
    /\ pc = "prepareTarget"
    /\ \/ /\ SetBootTarget(meta.pendingSlot, TRUE)
          /\ UNCHANGED <<meta, metaFile>>
       \/ /\ SetBootTarget(meta.pendingSlot, FALSE)
          /\ metaFile' \in {metaFile, oldMeta}
          /\ meta' = oldMeta
    /\ pc' = "loop"
    /\ UNCHANGED <<ver, oldMeta, manifest, download, slot, verFile, running, attempts, restarts, runs>>
-----------------------------------------------------------------------------
\* SIGTERM or SIGINT cleared g_running: main's loop ends.
MainStops ==
    /\ pc = "loop"
    /\ Exit
    /\ UNCHANGED <<disk, world, faults, restarts, runs>>

\* The process is killed between two steps.
Crash ==
    /\ pc # "down"
    /\ restarts < MaxRestarts
    /\ restarts' = restarts + 1
    /\ Exit
    /\ UNCHANGED <<disk, world, faults, runs>>

\* The device restarts: the boot loader starts the slot it was told to.
Reboot ==
    /\ restarts < MaxRestarts
    /\ restarts' = restarts + 1
    /\ running' = bootTarget
    /\ Exit
    /\ UNCHANGED <<disk, bootTarget, attempts, faults, runs>>

\* Somebody starts the program.
Starting == InitLoad \/ InitReset

Confirm ==
    \/ HandleNothing \/ HandleRetry \/ HandleExceeded
    \/ CommitCalled \/ HealthPasses \/ HealthFails \/ CommitVersion \/ CommitMeta
    \/ RollbackMeta \/ RollbackTarget

RunOnce ==
    \/ FetchManifest \/ FetchFails \/ NoNewerVersion \/ DownloadFirmware
    \/ VerifyFirmware \/ WriteStandby \/ PrepareMeta \/ PrepareTarget

Next == Starting \/ Confirm \/ RunOnce \/ MainStops \/ Crash \/ Reboot

Spec == Init /\ [][Next]_vars

\* A process that has been started keeps running; nobody must start it.
FairSpec == Spec /\ WF_vars(Confirm)
-----------------------------------------------------------------------------
TypeOK ==
    /\ pc \in PC
    /\ ver \in Versions \cup {None}
    /\ meta \in BootMeta \cup {None}
    /\ oldMeta \in BootMeta \cup {None}
    /\ manifest \in Manifest \cup {None}
    /\ download \in Versions \cup {None, Damaged}
    /\ slot \in [Slots -> Versions \cup {None, Damaged}]
    /\ metaFile \in BootMeta \cup {None}
    /\ verFile \in Versions \cup {None}
    /\ bootTarget \in Slots /\ running \in Slots
    /\ attempts \in Nat
    /\ faults \in 0 .. MaxFaults /\ restarts \in 0 .. MaxRestarts /\ runs \in 0 .. MaxRuns

WellFormed(m) ==
    /\ m.upgradePending <=> ~m.bootSuccess
    /\ m.upgradePending <=> m.pendingSlot # m.activeSlot
    /\ ~m.upgradePending => m.pendingVersion = m.activeVersion /\ m.retryCount = 0

\* Wherever a crash or a failed save leaves the boot meta, on disk or in memory,
\* its fields agree with each other: an upgrade waits exactly when the two slots
\* differ, and without one the pending slot and version are the active ones.
MetaWellFormed ==
    /\ metaFile # None => WellFormed(metaFile)
    /\ meta # None => WellFormed(meta)

\* Only firmware whose digest matched its manifest is ever started: the boot
\* loader's target and both slots of the boot meta on disk hold a whole image.
OnlyVerifiedImagesBoot ==
    /\ slot[bootTarget] \in Versions
    /\ metaFile # None => {slot[metaFile.activeSlot], slot[metaFile.pendingSlot]} \subseteq Versions

\* However often the process dies, an upgrade gets at most maxRetryCount health
\* checks (handlePendingBoot saves the count before commit is called).
AttemptsBounded == attempts <= MaxRetryCount

\* The image in the slot that the boot meta on disk calls active is never
\* overwritten: runOnce writes the other slot, whatever failed before it.
ActiveImageKept ==
    [][metaFile # None => slot'[metaFile.activeSlot] = slot[metaFile.activeSlot]]_vars

\* The confirmed slot on disk changes only from one upgrade that waits there, after
\* a health check, and takes the slot and the version that upgrade was saved with.
ConfirmsPendingUpgrade ==
    [][metaFile # None /\ metaFile'.activeSlot # metaFile.activeSlot =>
        /\ metaFile.upgradePending
        /\ attempts > 0
        /\ metaFile' = Committed(metaFile)]_vars

\* The version file is never behind the confirmed slot: when the boot meta on disk
\* confirms an upgrade, the version of that upgrade has been saved.  (It may be ahead,
\* and a rollback does not bring it back.)
VersionSavedFirst ==
    [][metaFile # None /\ metaFile'.activeSlot # metaFile.activeSlot =>
        verFile = metaFile'.activeVersion]_vars

\* An upgrade the process finds at its start is confirmed or abandoned on disk in the
\* end, through crashes and failed saves, unless the updater is never started again.
PendingUpgradeDecided ==
    pc = "handle" /\ meta.upgradePending ~>
        \/ metaFile # None /\ ~metaFile.upgradePending
        \/ [](pc = "down")

\* OTA.h calls activeSlot the slot that has been confirmed to work: a slot
\* becomes active only when the device is running from it.
ConfirmedSlotIsRunning ==
    [][metaFile # None /\ metaFile'.activeSlot # metaFile.activeSlot =>
        running = metaFile'.activeSlot]_vars
=============================================================================
