------------------------------ MODULE OTAProofs ------------------------------
(***************************************************************************)
(* Theorems about OTA, for every set of versions, every retry limit and    *)
(* any number of crashes, reboots and failed saves.                        *)
(*                                                                         *)
(* The inductive invariant says how the boot meta in memory, its copy in   *)
(* oldMeta and its file relate at each point of the program: a failed save *)
(* or a crash turns one of them into the others, so each must already be   *)
(* well formed, name the same active slot and point at whole images.       *)
(***************************************************************************)
EXTENDS OTA, TLAPS

OldMetaWellFormed == oldMeta # None => WellFormed(oldMeta)

\* Which objects exist at which point of the program.
Objects ==
    /\ pc = "down" <=> meta = None
    /\ pc # "down" => metaFile # None /\ ver # None
    /\ pc \in {"compare", "verify", "write", "prepare"} => manifest # None
    /\ pc \in {"rollbackTarget", "prepareTarget"} => oldMeta # None

\* Memory, the saved copy and the file name the same active slot.
SameActive ==
    /\ pc \notin {"down", "commitVersion", "commitMeta"} => meta.activeSlot = metaFile.activeSlot
    /\ pc \in {"rollbackTarget", "prepareTarget"} => oldMeta.activeSlot = metaFile.activeSlot

\* While an upgrade is being confirmed, what is on disk is what it was saved with.
Confirming ==
    /\ pc \in {"handle", "commit", "health"} => meta = metaFile
    /\ pc \in {"commit", "health"} => metaFile.upgradePending
    /\ pc \in {"health", "commitVersion", "commitMeta"} => attempts > 0
    /\ pc \in {"commitVersion", "commitMeta"} => metaFile.upgradePending /\ meta = Committed(metaFile)

\* The saved count of starts is never below the number of health checks.
Counted ==
    /\ attempts <= MaxRetryCount
    /\ metaFile # None /\ metaFile.upgradePending => attempts <= metaFile.retryCount
    /\ pc = "commit" => attempts < metaFile.retryCount /\ metaFile.retryCount <= MaxRetryCount
    /\ pc = "rollback" => attempts <= meta.retryCount
    /\ pc = "rollbackTarget" => attempts <= oldMeta.retryCount
    /\ pc = "prepareTarget" => attempts = 0

Whole(s) == slot[s] \in Versions

\* Whatever a boot meta or the boot loader points at is a whole image.
Images ==
    /\ Whole("A") /\ Whole(bootTarget)
    /\ metaFile # None => Whole(metaFile.activeSlot) /\ Whole(metaFile.pendingSlot)
    /\ meta # None => Whole(meta.activeSlot) /\ Whole(meta.pendingSlot)
    /\ oldMeta # None => Whole(oldMeta.activeSlot) /\ Whole(oldMeta.pendingSlot)
    /\ pc = "write" => download \in Versions
    /\ pc = "prepare" => Whole(StandbySlot(meta))

IInv ==
    /\ TypeOK
    /\ MetaWellFormed
    /\ OldMetaWellFormed
    /\ Objects
    /\ SameActive
    /\ Confirming
    /\ Counted
    /\ Images
-----------------------------------------------------------------------------
\* None is told apart from every object and file content.
LEMMA NoneIsNoObject ==
    /\ \A m \in BootMeta : m # None
    /\ \A m \in Manifest : m # None
    /\ \A v \in Versions : v # None
BY OTAAssumption, NoneAssumption DEF OTAAssumption, NoneAssumption

\* The two slots.
LEMMA StandbyIsOther ==
    ASSUME NEW m \in BootMeta
    PROVE  StandbySlot(m) \in Slots /\ StandbySlot(m) # m.activeSlot
BY DEF BootMeta, Slots, StandbySlot

\* What each operation on the boot meta yields.
LEMMA DefaultFields ==
    ASSUME NEW v \in Versions
    PROVE  /\ DefaultMeta(v) \in BootMeta
           /\ WellFormed(DefaultMeta(v))
           /\ DefaultMeta(v).activeSlot = "A" /\ DefaultMeta(v).pendingSlot = "A"
           /\ ~DefaultMeta(v).upgradePending
BY DEF DefaultMeta, BootMeta, Slots, WellFormed

LEMMA PreparedFields ==
    ASSUME NEW m \in BootMeta, NEW v \in Versions
    PROVE  /\ Prepared(m, v) \in BootMeta
           /\ WellFormed(Prepared(m, v))
           /\ Prepared(m, v).activeSlot = m.activeSlot
           /\ Prepared(m, v).pendingSlot = StandbySlot(m)
           /\ Prepared(m, v).retryCount = 0
BY StandbyIsOther DEF Prepared, BootMeta, WellFormed

LEMMA CommittedFields ==
    ASSUME NEW m \in BootMeta
    PROVE  /\ Committed(m) \in BootMeta
           /\ WellFormed(m) => WellFormed(Committed(m))
           /\ Committed(m).activeSlot = m.pendingSlot
           /\ Committed(m).activeVersion = m.pendingVersion
           /\ Committed(m).pendingSlot = m.pendingSlot
           /\ ~Committed(m).upgradePending
BY DEF Committed, BootMeta, WellFormed

LEMMA RolledBackFields ==
    ASSUME NEW m \in BootMeta
    PROVE  /\ RolledBack(m) \in BootMeta
           /\ WellFormed(RolledBack(m))
           /\ RolledBack(m).activeSlot = m.activeSlot
           /\ RolledBack(m).pendingSlot = m.activeSlot
           /\ ~RolledBack(m).upgradePending
BY DEF RolledBack, BootMeta, WellFormed

\* handlePendingBoot counts a start of an upgrade that waits.
LEMMA CountedFields ==
    ASSUME NEW m \in BootMeta, NEW n \in BootMeta, n = [m EXCEPT !.retryCount = @ + 1]
    PROVE  /\ WellFormed(m) /\ m.upgradePending => WellFormed(n)
           /\ n.activeSlot = m.activeSlot /\ n.pendingSlot = m.pendingSlot
           /\ n.upgradePending = m.upgradePending
           /\ n.retryCount = m.retryCount + 1
           /\ m.retryCount \in Nat
BY DEF BootMeta, WellFormed

LEMMA CountedType ==
    ASSUME NEW m \in BootMeta
    PROVE  [m EXCEPT !.retryCount = @ + 1] \in BootMeta
BY DEF BootMeta

LEMMA LoadedVersionType == TypeOK => LoadedVersion \in Versions
BY OTAAssumption DEF OTAAssumption, TypeOK, LoadedVersion
-----------------------------------------------------------------------------
\* The invariant holds of a factory-fresh device.
LEMMA InitInv == Init => IInv
<1> SUFFICES ASSUME Init PROVE IInv
  OBVIOUS
<1>1. TypeOK
  BY OTAAssumption DEF OTAAssumption, Init, TypeOK, PC, Slots
<1>2. MetaWellFormed /\ OldMetaWellFormed
  BY DEF Init, MetaWellFormed, OldMetaWellFormed
<1>3. Objects /\ SameActive /\ Confirming
  BY DEF Init, Objects, SameActive, Confirming
<1>4. Counted
  BY OTAAssumption DEF OTAAssumption, Init, Counted
<1>5. Images
  BY OTAAssumption DEF OTAAssumption, Init, Images, Whole, Slots
<1> QED
  BY <1>1, <1>2, <1>3, <1>4, <1>5 DEF IInv


\* Every step keeps the invariant: one step per action, one under it per conjunct.
LEMMA StepInv == IInv /\ [Next]_vars => IInv'
<1> SUFFICES ASSUME IInv, [Next]_vars PROVE IInv'
  OBVIOUS
<1>inv. /\ TypeOK /\ MetaWellFormed /\ OldMetaWellFormed /\ Objects
        /\ SameActive /\ Confirming /\ Counted /\ Images
  BY DEF IInv
<1>1. CASE InitLoad
  <2>1. TypeOK'
    BY <1>inv, <1>1, NoneIsNoObject, LoadedVersionType, OTAAssumption
    DEF OTAAssumption, InitLoad, Exit, memory, disk, world, TypeOK, PC, Slots, Objects
  <2>2. (MetaWellFormed /\ OldMetaWellFormed)'
    BY <1>inv, <1>1, NoneIsNoObject, LoadedVersionType
    DEF InitLoad, Exit, memory, disk, world, TypeOK, MetaWellFormed, OldMetaWellFormed, Objects
  <2>3. Objects'
    BY <1>inv, <1>1, NoneIsNoObject, LoadedVersionType
    DEF InitLoad, Exit, memory, disk, world, TypeOK, Objects, MetaWellFormed, SameActive, Confirming
  <2>4. SameActive'
    BY <1>inv, <1>1, NoneIsNoObject, LoadedVersionType
    DEF InitLoad, Exit, memory, disk, world, TypeOK, SameActive, MetaWellFormed, Objects, Confirming
  <2>5. Confirming'
    BY <1>inv, <1>1, NoneIsNoObject, LoadedVersionType
    DEF InitLoad, Exit, memory, disk, world, TypeOK, Confirming, MetaWellFormed, Objects, SameActive
  <2>6. Counted'
    BY <1>inv, <1>1, NoneIsNoObject, LoadedVersionType
    DEF InitLoad, Exit, memory, disk, world, TypeOK, Counted, MetaWellFormed, Objects, SameActive, Confirming
  <2>7. Images'
    BY <1>inv, <1>1, NoneIsNoObject, LoadedVersionType
    DEF InitLoad, Exit, memory, disk, world, TypeOK, Images, Whole, MetaWellFormed, Objects, SameActive, Confirming
  <2> QED
    BY <2>1, <2>2, <2>3, <2>4, <2>5, <2>6, <2>7 DEF IInv
<1>2. CASE InitReset
  <2>1. TypeOK'
    BY <1>inv, <1>2, NoneIsNoObject, LoadedVersionType, DefaultFields, OTAAssumption
    DEF OTAAssumption, InitReset, SaveBootMeta, Fault, Exit, memory, disk, world, TypeOK, PC, Slots, Objects
  <2>2. (MetaWellFormed /\ OldMetaWellFormed)'
    BY <1>inv, <1>2, NoneIsNoObject, LoadedVersionType, DefaultFields
    DEF InitReset, SaveBootMeta, Fault, Exit, memory, disk, world, TypeOK, MetaWellFormed, OldMetaWellFormed, Objects
  <2>3. Objects'
    BY <1>inv, <1>2, NoneIsNoObject, LoadedVersionType, DefaultFields
    DEF InitReset, SaveBootMeta, Fault, Exit, memory, disk, world, TypeOK, Objects, MetaWellFormed, SameActive, Confirming
  <2>4. SameActive'
    BY <1>inv, <1>2, NoneIsNoObject, LoadedVersionType, DefaultFields
    DEF InitReset, SaveBootMeta, Fault, Exit, memory, disk, world, TypeOK, SameActive, MetaWellFormed, Objects, Confirming
  <2>5. Confirming'
    BY <1>inv, <1>2, NoneIsNoObject, LoadedVersionType, DefaultFields
    DEF InitReset, SaveBootMeta, Fault, Exit, memory, disk, world, TypeOK, Confirming, MetaWellFormed, Objects, SameActive
  <2>6. Counted'
    BY <1>inv, <1>2, NoneIsNoObject, LoadedVersionType, DefaultFields
    DEF InitReset, SaveBootMeta, Fault, Exit, memory, disk, world, TypeOK, Counted, MetaWellFormed, Objects, SameActive, Confirming
  <2>7. Images'
    BY <1>inv, <1>2, NoneIsNoObject, LoadedVersionType, DefaultFields, OTAAssumption
    DEF OTAAssumption, InitReset, SaveBootMeta, Fault, Exit, memory, disk, world, TypeOK, Images, Whole, MetaWellFormed, Objects, SameActive, Confirming
  <2> QED
    BY <2>1, <2>2, <2>3, <2>4, <2>5, <2>6, <2>7 DEF IInv
<1>3. CASE HandleNothing
  <2>1. TypeOK'
    BY <1>inv, <1>3, NoneIsNoObject, OTAAssumption
    DEF OTAAssumption, HandleNothing, memory, disk, world, TypeOK, PC, Slots, Objects
  <2>2. (MetaWellFormed /\ OldMetaWellFormed)'
    BY <1>inv, <1>3, NoneIsNoObject
    DEF HandleNothing, memory, disk, world, TypeOK, MetaWellFormed, OldMetaWellFormed, Objects
  <2>3. Objects'
    BY <1>inv, <1>3, NoneIsNoObject
    DEF HandleNothing, memory, disk, world, TypeOK, Objects, MetaWellFormed, SameActive, Confirming
  <2>4. SameActive'
    BY <1>inv, <1>3, NoneIsNoObject
    DEF HandleNothing, memory, disk, world, TypeOK, SameActive, MetaWellFormed, Objects, Confirming
  <2>5. Confirming'
    BY <1>inv, <1>3, NoneIsNoObject
    DEF HandleNothing, memory, disk, world, TypeOK, Confirming, MetaWellFormed, Objects, SameActive
  <2>6. Counted'
    BY <1>inv, <1>3, NoneIsNoObject
    DEF WellFormed, MetaWellFormed, BootMeta, HandleNothing, memory, disk, world, TypeOK, Counted, Objects, SameActive, Confirming
  <2>7. Images'
    BY <1>inv, <1>3, NoneIsNoObject
    DEF HandleNothing, memory, disk, world, TypeOK, Images, Whole, MetaWellFormed, Objects, SameActive, Confirming
  <2> QED
    BY <2>1, <2>2, <2>3, <2>4, <2>5, <2>6, <2>7 DEF IInv
<1>4. CASE HandleRetry
  <2>1. TypeOK'
    BY <1>inv, <1>4, NoneIsNoObject, CountedType, CountedFields, OTAAssumption
    DEF OTAAssumption, HandleRetry, SaveBootMeta, Fault, Exit, memory, disk, world, TypeOK, PC, Slots, Objects
  <2>2. (MetaWellFormed /\ OldMetaWellFormed)'
    BY <1>inv, <1>4, NoneIsNoObject, CountedType, CountedFields
    DEF HandleRetry, SaveBootMeta, Fault, Exit, memory, disk, world, TypeOK, MetaWellFormed, OldMetaWellFormed, Objects
  <2>3. Objects'
    BY <1>inv, <1>4, NoneIsNoObject, CountedType, CountedFields
    DEF HandleRetry, SaveBootMeta, Fault, Exit, memory, disk, world, TypeOK, Objects, MetaWellFormed, SameActive, Confirming
  <2>4. SameActive'
    BY <1>inv, <1>4, NoneIsNoObject, CountedType, CountedFields
    DEF HandleRetry, SaveBootMeta, Fault, Exit, memory, disk, world, TypeOK, SameActive, MetaWellFormed, Objects, Confirming
  <2>5. Confirming'
    BY <1>inv, <1>4, NoneIsNoObject, CountedType, CountedFields
    DEF HandleRetry, SaveBootMeta, Fault, Exit, memory, disk, world, TypeOK, Confirming, MetaWellFormed, Objects, SameActive
  <2>6. Counted'
    BY <1>inv, <1>4, NoneIsNoObject, CountedType, CountedFields
    DEF HandleRetry, SaveBootMeta, Fault, Exit, memory, disk, world, TypeOK, Counted, MetaWellFormed, Objects, SameActive, Confirming
  <2>7. Images'
    BY <1>inv, <1>4, NoneIsNoObject, CountedType, CountedFields
    DEF HandleRetry, SaveBootMeta, Fault, Exit, memory, disk, world, TypeOK, Images, Whole, MetaWellFormed, Objects, SameActive, Confirming
  <2> QED
    BY <2>1, <2>2, <2>3, <2>4, <2>5, <2>6, <2>7 DEF IInv
<1>5. CASE HandleExceeded
  <2>1. TypeOK'
    BY <1>inv, <1>5, NoneIsNoObject, CountedType, CountedFields, OTAAssumption
    DEF OTAAssumption, HandleExceeded, memory, disk, world, TypeOK, PC, Slots, Objects
  <2>2. (MetaWellFormed /\ OldMetaWellFormed)'
    BY <1>inv, <1>5, NoneIsNoObject, CountedType, CountedFields
    DEF HandleExceeded, memory, disk, world, TypeOK, MetaWellFormed, OldMetaWellFormed, Objects
  <2>3. Objects'
    BY <1>inv, <1>5, NoneIsNoObject, CountedType, CountedFields
    DEF HandleExceeded, memory, disk, world, TypeOK, Objects, MetaWellFormed, SameActive, Confirming
  <2>4. SameActive'
    BY <1>inv, <1>5, NoneIsNoObject, CountedType, CountedFields
    DEF HandleExceeded, memory, disk, world, TypeOK, SameActive, MetaWellFormed, Objects, Confirming
  <2>5. Confirming'
    BY <1>inv, <1>5, NoneIsNoObject, CountedType, CountedFields
    DEF HandleExceeded, memory, disk, world, TypeOK, Confirming, MetaWellFormed, Objects, SameActive
  <2>6. Counted'
    BY <1>inv, <1>5, NoneIsNoObject, CountedType, CountedFields
    DEF HandleExceeded, memory, disk, world, TypeOK, Counted, MetaWellFormed, Objects, SameActive, Confirming
  <2>7. Images'
    BY <1>inv, <1>5, NoneIsNoObject, CountedType, CountedFields
    DEF HandleExceeded, memory, disk, world, TypeOK, Images, Whole, MetaWellFormed, Objects, SameActive, Confirming
  <2> QED
    BY <2>1, <2>2, <2>3, <2>4, <2>5, <2>6, <2>7 DEF IInv
<1>6. CASE CommitCalled
  <2>1. TypeOK'
    BY <1>inv, <1>6, NoneIsNoObject, OTAAssumption
    DEF OTAAssumption, CommitCalled, memory, disk, world, TypeOK, PC, Slots, Objects
  <2>2. (MetaWellFormed /\ OldMetaWellFormed)'
    BY <1>inv, <1>6, NoneIsNoObject
    DEF CommitCalled, memory, disk, world, TypeOK, MetaWellFormed, OldMetaWellFormed, Objects
  <2>3. Objects'
    BY <1>inv, <1>6, NoneIsNoObject
    DEF CommitCalled, memory, disk, world, TypeOK, Objects, MetaWellFormed, SameActive, Confirming
  <2>4. SameActive'
    BY <1>inv, <1>6, NoneIsNoObject
    DEF CommitCalled, memory, disk, world, TypeOK, SameActive, MetaWellFormed, Objects, Confirming
  <2>5. Confirming'
    BY <1>inv, <1>6, NoneIsNoObject
    DEF CommitCalled, memory, disk, world, TypeOK, Confirming, MetaWellFormed, Objects, SameActive
  <2>6. Counted'
    BY <1>inv, <1>6, NoneIsNoObject, OTAAssumption
    DEF BootMeta, OTAAssumption, CommitCalled, memory, disk, world, TypeOK, Counted, MetaWellFormed, Objects, SameActive, Confirming
  <2>7. Images'
    BY <1>inv, <1>6, NoneIsNoObject
    DEF CommitCalled, memory, disk, world, TypeOK, Images, Whole, MetaWellFormed, Objects, SameActive, Confirming
  <2> QED
    BY <2>1, <2>2, <2>3, <2>4, <2>5, <2>6, <2>7 DEF IInv
<1>7. CASE HealthPasses
  <2>1. TypeOK'
    BY <1>inv, <1>7, NoneIsNoObject, CommittedFields, OTAAssumption
    DEF BootMeta, OTAAssumption, HealthPasses, memory, disk, world, TypeOK, PC, Slots, Objects
  <2>2. (MetaWellFormed /\ OldMetaWellFormed)'
    BY <1>inv, <1>7, NoneIsNoObject, CommittedFields
    DEF HealthPasses, memory, disk, world, TypeOK, MetaWellFormed, OldMetaWellFormed, Objects
  <2>3. Objects'
    BY <1>inv, <1>7, NoneIsNoObject, CommittedFields
    DEF BootMeta, HealthPasses, memory, disk, world, TypeOK, Objects, MetaWellFormed, SameActive, Confirming
  <2>4. SameActive'
    BY <1>inv, <1>7, NoneIsNoObject, CommittedFields
    DEF HealthPasses, memory, disk, world, TypeOK, SameActive, MetaWellFormed, Objects, Confirming
  <2>5. Confirming'
    BY <1>inv, <1>7, NoneIsNoObject, CommittedFields
    DEF HealthPasses, memory, disk, world, TypeOK, Confirming, MetaWellFormed, Objects, SameActive
  <2>6. Counted'
    BY <1>inv, <1>7, NoneIsNoObject, CommittedFields
    DEF HealthPasses, memory, disk, world, TypeOK, Counted, MetaWellFormed, Objects, SameActive, Confirming
  <2>7. Images'
    BY <1>inv, <1>7, NoneIsNoObject, CommittedFields
    DEF HealthPasses, memory, disk, world, TypeOK, Images, Whole, MetaWellFormed, Objects, SameActive, Confirming
  <2> QED
    BY <2>1, <2>2, <2>3, <2>4, <2>5, <2>6, <2>7 DEF IInv
<1>8. CASE HealthFails
  <2>1. TypeOK'
    BY <1>inv, <1>8, NoneIsNoObject, OTAAssumption
    DEF OTAAssumption, HealthFails, memory, disk, world, TypeOK, PC, Slots, Objects
  <2>2. (MetaWellFormed /\ OldMetaWellFormed)'
    BY <1>inv, <1>8, NoneIsNoObject
    DEF HealthFails, memory, disk, world, TypeOK, MetaWellFormed, OldMetaWellFormed, Objects
  <2>3. Objects'
    BY <1>inv, <1>8, NoneIsNoObject
    DEF HealthFails, memory, disk, world, TypeOK, Objects, MetaWellFormed, SameActive, Confirming
  <2>4. SameActive'
    BY <1>inv, <1>8, NoneIsNoObject
    DEF HealthFails, memory, disk, world, TypeOK, SameActive, MetaWellFormed, Objects, Confirming
  <2>5. Confirming'
    BY <1>inv, <1>8, NoneIsNoObject
    DEF HealthFails, memory, disk, world, TypeOK, Confirming, MetaWellFormed, Objects, SameActive
  <2>6. Counted'
    BY <1>inv, <1>8, NoneIsNoObject
    DEF HealthFails, memory, disk, world, TypeOK, Counted, MetaWellFormed, Objects, SameActive, Confirming
  <2>7. Images'
    BY <1>inv, <1>8, NoneIsNoObject
    DEF HealthFails, memory, disk, world, TypeOK, Images, Whole, MetaWellFormed, Objects, SameActive, Confirming
  <2> QED
    BY <2>1, <2>2, <2>3, <2>4, <2>5, <2>6, <2>7 DEF IInv
<1>9. CASE CommitVersion
  <2>1. TypeOK'
    BY <1>inv, <1>9, NoneIsNoObject, OTAAssumption
    DEF OTAAssumption, CommitVersion, SaveCurrentVersion, Fault, Exit, memory, disk, world, TypeOK, PC, Slots, Objects
  <2>2. (MetaWellFormed /\ OldMetaWellFormed)'
    BY <1>inv, <1>9, NoneIsNoObject
    DEF CommitVersion, SaveCurrentVersion, Fault, Exit, memory, disk, world, TypeOK, MetaWellFormed, OldMetaWellFormed, Objects
  <2>3. Objects'
    BY <1>inv, <1>9, NoneIsNoObject
    DEF CommitVersion, SaveCurrentVersion, Fault, Exit, memory, disk, world, TypeOK, Objects, MetaWellFormed, SameActive, Confirming
  <2>4. SameActive'
    BY <1>inv, <1>9, NoneIsNoObject
    DEF CommitVersion, SaveCurrentVersion, Fault, Exit, memory, disk, world, TypeOK, SameActive, MetaWellFormed, Objects, Confirming
  <2>5. Confirming'
    BY <1>inv, <1>9, NoneIsNoObject
    DEF CommitVersion, SaveCurrentVersion, Fault, Exit, memory, disk, world, TypeOK, Confirming, MetaWellFormed, Objects, SameActive
  <2>6. Counted'
    BY <1>inv, <1>9, NoneIsNoObject
    DEF CommitVersion, SaveCurrentVersion, Fault, Exit, memory, disk, world, TypeOK, Counted, MetaWellFormed, Objects, SameActive, Confirming
  <2>7. Images'
    BY <1>inv, <1>9, NoneIsNoObject
    DEF CommitVersion, SaveCurrentVersion, Fault, Exit, memory, disk, world, TypeOK, Images, Whole, MetaWellFormed, Objects, SameActive, Confirming
  <2> QED
    BY <2>1, <2>2, <2>3, <2>4, <2>5, <2>6, <2>7 DEF IInv
<1>10. CASE CommitMeta
  <2>1. TypeOK'
    BY <1>inv, <1>10, NoneIsNoObject, CommittedFields, OTAAssumption
    DEF OTAAssumption, CommitMeta, SaveBootMeta, Fault, Exit, memory, disk, world, TypeOK, PC, Slots, Objects
  <2>2. (MetaWellFormed /\ OldMetaWellFormed)'
    BY <1>inv, <1>10, NoneIsNoObject, CommittedFields
    DEF CommitMeta, SaveBootMeta, Fault, Exit, memory, disk, world, TypeOK, MetaWellFormed, OldMetaWellFormed, Objects
  <2>3. Objects'
    BY <1>inv, <1>10, NoneIsNoObject, CommittedFields
    DEF CommitMeta, SaveBootMeta, Fault, Exit, memory, disk, world, TypeOK, Objects, MetaWellFormed, SameActive, Confirming
  <2>4. SameActive'
    BY <1>inv, <1>10, NoneIsNoObject, CommittedFields
    DEF CommitMeta, SaveBootMeta, Fault, Exit, memory, disk, world, TypeOK, SameActive, MetaWellFormed, Objects, Confirming
  <2>5. Confirming'
    BY <1>inv, <1>10, NoneIsNoObject, CommittedFields
    DEF CommitMeta, SaveBootMeta, Fault, Exit, memory, disk, world, TypeOK, Confirming, MetaWellFormed, Objects, SameActive
  <2>6. Counted'
    BY <1>inv, <1>10, NoneIsNoObject, CommittedFields
    DEF CommitMeta, SaveBootMeta, Fault, Exit, memory, disk, world, TypeOK, Counted, MetaWellFormed, Objects, SameActive, Confirming
  <2>7. Images'
    BY <1>inv, <1>10, NoneIsNoObject, CommittedFields
    DEF CommitMeta, SaveBootMeta, Fault, Exit, memory, disk, world, TypeOK, Images, Whole, MetaWellFormed, Objects, SameActive, Confirming
  <2> QED
    BY <2>1, <2>2, <2>3, <2>4, <2>5, <2>6, <2>7 DEF IInv
<1>11. CASE RollbackMeta
  <2>1. TypeOK'
    BY <1>inv, <1>11, NoneIsNoObject, RolledBackFields, OTAAssumption
    DEF OTAAssumption, RollbackMeta, SaveBootMeta, Fault, Exit, memory, disk, world, TypeOK, PC, Slots, Objects
  <2>2. (MetaWellFormed /\ OldMetaWellFormed)'
    BY <1>inv, <1>11, NoneIsNoObject, RolledBackFields
    DEF RollbackMeta, SaveBootMeta, Fault, Exit, memory, disk, world, TypeOK, MetaWellFormed, OldMetaWellFormed, Objects
  <2>3. Objects'
    BY <1>inv, <1>11, NoneIsNoObject, RolledBackFields
    DEF RollbackMeta, SaveBootMeta, Fault, Exit, memory, disk, world, TypeOK, Objects, MetaWellFormed, SameActive, Confirming
  <2>4. SameActive'
    BY <1>inv, <1>11, NoneIsNoObject, RolledBackFields
    DEF RollbackMeta, SaveBootMeta, Fault, Exit, memory, disk, world, TypeOK, SameActive, MetaWellFormed, Objects, Confirming
  <2>5. Confirming'
    BY <1>inv, <1>11, NoneIsNoObject, RolledBackFields
    DEF RollbackMeta, SaveBootMeta, Fault, Exit, memory, disk, world, TypeOK, Confirming, MetaWellFormed, Objects, SameActive
  <2>6. Counted'
    BY <1>inv, <1>11, NoneIsNoObject, RolledBackFields
    DEF RollbackMeta, SaveBootMeta, Fault, Exit, memory, disk, world, TypeOK, Counted, MetaWellFormed, Objects, SameActive, Confirming
  <2>7. Images'
    BY <1>inv, <1>11, NoneIsNoObject, RolledBackFields
    DEF RollbackMeta, SaveBootMeta, Fault, Exit, memory, disk, world, TypeOK, Images, Whole, MetaWellFormed, Objects, SameActive, Confirming
  <2> QED
    BY <2>1, <2>2, <2>3, <2>4, <2>5, <2>6, <2>7 DEF IInv
<1>12. CASE RollbackTarget
  <2>1. TypeOK'
    BY <1>inv, <1>12, NoneIsNoObject, OTAAssumption
    DEF BootMeta, OTAAssumption, RollbackTarget, SetBootTarget, Fault, Exit, memory, disk, world, TypeOK, PC, Slots, Objects
  <2>2. (MetaWellFormed /\ OldMetaWellFormed)'
    BY <1>inv, <1>12, NoneIsNoObject
    DEF RollbackTarget, SetBootTarget, Fault, Exit, memory, disk, world, TypeOK, MetaWellFormed, OldMetaWellFormed, Objects
  <2>3. Objects'
    BY <1>inv, <1>12, NoneIsNoObject
    DEF RollbackTarget, SetBootTarget, Fault, Exit, memory, disk, world, TypeOK, Objects, MetaWellFormed, SameActive, Confirming
  <2>4. SameActive'
    BY <1>inv, <1>12, NoneIsNoObject
    DEF RollbackTarget, SetBootTarget, Fault, Exit, memory, disk, world, TypeOK, SameActive, MetaWellFormed, Objects, Confirming
  <2>5. Confirming'
    BY <1>inv, <1>12, NoneIsNoObject
    DEF RollbackTarget, SetBootTarget, Fault, Exit, memory, disk, world, TypeOK, Confirming, MetaWellFormed, Objects, SameActive
  <2>6. Counted'
    BY <1>inv, <1>12, NoneIsNoObject
    DEF RollbackTarget, SetBootTarget, Fault, Exit, memory, disk, world, TypeOK, Counted, MetaWellFormed, Objects, SameActive, Confirming
  <2>7. Images'
    BY <1>inv, <1>12, NoneIsNoObject
    DEF RollbackTarget, SetBootTarget, Fault, Exit, memory, disk, world, TypeOK, Images, Whole, MetaWellFormed, Objects, SameActive, Confirming
  <2> QED
    BY <2>1, <2>2, <2>3, <2>4, <2>5, <2>6, <2>7 DEF IInv
<1>13. CASE FetchManifest
  <2>1. TypeOK'
    BY <1>inv, <1>13, NoneIsNoObject, OTAAssumption
    DEF OTAAssumption, FetchManifest, memory, disk, world, TypeOK, PC, Slots, Objects
  <2>2. (MetaWellFormed /\ OldMetaWellFormed)'
    BY <1>inv, <1>13, NoneIsNoObject
    DEF FetchManifest, memory, disk, world, TypeOK, MetaWellFormed, OldMetaWellFormed, Objects
  <2>3. Objects'
    BY <1>inv, <1>13, NoneIsNoObject
    DEF FetchManifest, memory, disk, world, TypeOK, Objects, MetaWellFormed, SameActive, Confirming
  <2>4. SameActive'
    BY <1>inv, <1>13, NoneIsNoObject
    DEF FetchManifest, memory, disk, world, TypeOK, SameActive, MetaWellFormed, Objects, Confirming
  <2>5. Confirming'
    BY <1>inv, <1>13, NoneIsNoObject
    DEF FetchManifest, memory, disk, world, TypeOK, Confirming, MetaWellFormed, Objects, SameActive
  <2>6. Counted'
    BY <1>inv, <1>13, NoneIsNoObject
    DEF FetchManifest, memory, disk, world, TypeOK, Counted, MetaWellFormed, Objects, SameActive, Confirming
  <2>7. Images'
    BY <1>inv, <1>13, NoneIsNoObject
    DEF FetchManifest, memory, disk, world, TypeOK, Images, Whole, MetaWellFormed, Objects, SameActive, Confirming
  <2> QED
    BY <2>1, <2>2, <2>3, <2>4, <2>5, <2>6, <2>7 DEF IInv
<1>14. CASE FetchFails
  <2>1. TypeOK'
    BY <1>inv, <1>14, NoneIsNoObject, OTAAssumption
    DEF OTAAssumption, FetchFails, memory, disk, world, TypeOK, PC, Slots, Objects
  <2>2. (MetaWellFormed /\ OldMetaWellFormed)'
    BY <1>inv, <1>14, NoneIsNoObject
    DEF FetchFails, memory, disk, world, TypeOK, MetaWellFormed, OldMetaWellFormed, Objects
  <2>3. Objects'
    BY <1>inv, <1>14, NoneIsNoObject
    DEF FetchFails, memory, disk, world, TypeOK, Objects, MetaWellFormed, SameActive, Confirming
  <2>4. SameActive'
    BY <1>inv, <1>14, NoneIsNoObject
    DEF FetchFails, memory, disk, world, TypeOK, SameActive, MetaWellFormed, Objects, Confirming
  <2>5. Confirming'
    BY <1>inv, <1>14, NoneIsNoObject
    DEF FetchFails, memory, disk, world, TypeOK, Confirming, MetaWellFormed, Objects, SameActive
  <2>6. Counted'
    BY <1>inv, <1>14, NoneIsNoObject
    DEF FetchFails, memory, disk, world, TypeOK, Counted, MetaWellFormed, Objects, SameActive, Confirming
  <2>7. Images'
    BY <1>inv, <1>14, NoneIsNoObject
    DEF FetchFails, memory, disk, world, TypeOK, Images, Whole, MetaWellFormed, Objects, SameActive, Confirming
  <2> QED
    BY <2>1, <2>2, <2>3, <2>4, <2>5, <2>6, <2>7 DEF IInv
<1>15. CASE NoNewerVersion
  <2>1. TypeOK'
    BY <1>inv, <1>15, NoneIsNoObject, OTAAssumption
    DEF OTAAssumption, NoNewerVersion, memory, disk, world, TypeOK, PC, Slots, Objects
  <2>2. (MetaWellFormed /\ OldMetaWellFormed)'
    BY <1>inv, <1>15, NoneIsNoObject
    DEF NoNewerVersion, memory, disk, world, TypeOK, MetaWellFormed, OldMetaWellFormed, Objects
  <2>3. Objects'
    BY <1>inv, <1>15, NoneIsNoObject
    DEF NoNewerVersion, memory, disk, world, TypeOK, Objects, MetaWellFormed, SameActive, Confirming
  <2>4. SameActive'
    BY <1>inv, <1>15, NoneIsNoObject
    DEF NoNewerVersion, memory, disk, world, TypeOK, SameActive, MetaWellFormed, Objects, Confirming
  <2>5. Confirming'
    BY <1>inv, <1>15, NoneIsNoObject
    DEF NoNewerVersion, memory, disk, world, TypeOK, Confirming, MetaWellFormed, Objects, SameActive
  <2>6. Counted'
    BY <1>inv, <1>15, NoneIsNoObject
    DEF NoNewerVersion, memory, disk, world, TypeOK, Counted, MetaWellFormed, Objects, SameActive, Confirming
  <2>7. Images'
    BY <1>inv, <1>15, NoneIsNoObject
    DEF NoNewerVersion, memory, disk, world, TypeOK, Images, Whole, MetaWellFormed, Objects, SameActive, Confirming
  <2> QED
    BY <2>1, <2>2, <2>3, <2>4, <2>5, <2>6, <2>7 DEF IInv
<1>16. CASE DownloadFirmware
  <2>1. TypeOK'
    BY <1>inv, <1>16, NoneIsNoObject, OTAAssumption
    DEF OTAAssumption, DownloadFirmware, memory, disk, world, TypeOK, PC, Slots, Objects
  <2>2. (MetaWellFormed /\ OldMetaWellFormed)'
    BY <1>inv, <1>16, NoneIsNoObject
    DEF DownloadFirmware, memory, disk, world, TypeOK, MetaWellFormed, OldMetaWellFormed, Objects
  <2>3. Objects'
    BY <1>inv, <1>16, NoneIsNoObject
    DEF DownloadFirmware, memory, disk, world, TypeOK, Objects, MetaWellFormed, SameActive, Confirming
  <2>4. SameActive'
    BY <1>inv, <1>16, NoneIsNoObject
    DEF DownloadFirmware, memory, disk, world, TypeOK, SameActive, MetaWellFormed, Objects, Confirming
  <2>5. Confirming'
    BY <1>inv, <1>16, NoneIsNoObject
    DEF DownloadFirmware, memory, disk, world, TypeOK, Confirming, MetaWellFormed, Objects, SameActive
  <2>6. Counted'
    BY <1>inv, <1>16, NoneIsNoObject
    DEF DownloadFirmware, memory, disk, world, TypeOK, Counted, MetaWellFormed, Objects, SameActive, Confirming
  <2>7. Images'
    BY <1>inv, <1>16, NoneIsNoObject
    DEF DownloadFirmware, memory, disk, world, TypeOK, Images, Whole, MetaWellFormed, Objects, SameActive, Confirming
  <2> QED
    BY <2>1, <2>2, <2>3, <2>4, <2>5, <2>6, <2>7 DEF IInv
<1>17. CASE VerifyFirmware
  <2>1. TypeOK'
    BY <1>inv, <1>17, NoneIsNoObject, OTAAssumption
    DEF OTAAssumption, VerifyFirmware, memory, disk, world, TypeOK, PC, Slots, Objects
  <2>2. (MetaWellFormed /\ OldMetaWellFormed)'
    BY <1>inv, <1>17, NoneIsNoObject
    DEF VerifyFirmware, memory, disk, world, TypeOK, MetaWellFormed, OldMetaWellFormed, Objects
  <2>3. Objects'
    BY <1>inv, <1>17, NoneIsNoObject
    DEF VerifyFirmware, memory, disk, world, TypeOK, Objects, MetaWellFormed, SameActive, Confirming
  <2>4. SameActive'
    BY <1>inv, <1>17, NoneIsNoObject
    DEF VerifyFirmware, memory, disk, world, TypeOK, SameActive, MetaWellFormed, Objects, Confirming
  <2>5. Confirming'
    BY <1>inv, <1>17, NoneIsNoObject
    DEF VerifyFirmware, memory, disk, world, TypeOK, Confirming, MetaWellFormed, Objects, SameActive
  <2>6. Counted'
    BY <1>inv, <1>17, NoneIsNoObject
    DEF VerifyFirmware, memory, disk, world, TypeOK, Counted, MetaWellFormed, Objects, SameActive, Confirming
  <2>7. Images'
    BY <1>inv, <1>17, NoneIsNoObject
    DEF Manifest, VerifyFirmware, memory, disk, world, TypeOK, Images, Whole, MetaWellFormed, Objects, SameActive, Confirming
  <2> QED
    BY <2>1, <2>2, <2>3, <2>4, <2>5, <2>6, <2>7 DEF IInv
<1>18. CASE WriteStandby
  <2>0. /\ meta \in BootMeta /\ meta.activeSlot \in Slots
        /\ StandbySlot(meta) \in Slots /\ download \in Versions
    <3>1. meta \in BootMeta /\ download \in Versions
      BY <1>inv, <1>18 DEF WriteStandby, Objects, Images, TypeOK
    <3> QED
      BY <3>1, StandbyIsOther DEF BootMeta
  <2>1. TypeOK'
    BY <1>inv, <1>18, NoneIsNoObject, StandbyIsOther, OTAAssumption, <2>0
    DEF OTAAssumption, WriteStandby, Fault, memory, disk, world, TypeOK, PC, Slots, Objects
  <2>2. (MetaWellFormed /\ OldMetaWellFormed)'
    BY <1>inv, <1>18, NoneIsNoObject, StandbyIsOther, <2>0
    DEF WriteStandby, Fault, memory, disk, world, TypeOK, MetaWellFormed, OldMetaWellFormed, Objects
  <2>3. Objects'
    BY <1>inv, <1>18, NoneIsNoObject, StandbyIsOther, <2>0
    DEF WriteStandby, Fault, memory, disk, world, TypeOK, Objects, MetaWellFormed, SameActive, Confirming
  <2>4. SameActive'
    BY <1>inv, <1>18, NoneIsNoObject, StandbyIsOther, <2>0
    DEF WriteStandby, Fault, memory, disk, world, TypeOK, SameActive, MetaWellFormed, Objects, Confirming
  <2>5. Confirming'
    BY <1>inv, <1>18, NoneIsNoObject, StandbyIsOther, <2>0
    DEF WriteStandby, Fault, memory, disk, world, TypeOK, Confirming, MetaWellFormed, Objects, SameActive
  <2>6. Counted'
    BY <1>inv, <1>18, NoneIsNoObject, StandbyIsOther, <2>0
    DEF WriteStandby, Fault, memory, disk, world, TypeOK, Counted, MetaWellFormed, Objects, SameActive, Confirming
  <2>7. Images'
    BY <1>inv, <1>18, NoneIsNoObject, StandbyIsOther, <2>0
    DEF Slots, BootMeta, WriteStandby, Fault, memory, disk, world, TypeOK, Images, Whole, MetaWellFormed, Objects, SameActive, Confirming
  <2> QED
    BY <2>1, <2>2, <2>3, <2>4, <2>5, <2>6, <2>7 DEF IInv
<1>19. CASE PrepareMeta
  <2>0. /\ meta \in BootMeta /\ manifest.version \in Versions
        /\ Prepared(meta, manifest.version) \in BootMeta
        /\ WellFormed(Prepared(meta, manifest.version))
        /\ Prepared(meta, manifest.version).activeSlot = meta.activeSlot
        /\ Prepared(meta, manifest.version).pendingSlot = StandbySlot(meta)
        /\ Prepared(meta, manifest.version).retryCount = 0
    <3>1. meta \in BootMeta /\ manifest.version \in Versions
      BY <1>inv, <1>19 DEF PrepareMeta, Objects, TypeOK, Manifest
    <3> QED
      BY <3>1, PreparedFields
  <2>1. TypeOK'
    BY <1>inv, <1>19, NoneIsNoObject, OTAAssumption, <2>0
    DEF OTAAssumption, PrepareMeta, SaveBootMeta, Fault, memory, disk, world, TypeOK, PC, Slots, Objects
  <2>2. (MetaWellFormed /\ OldMetaWellFormed)'
    BY <1>inv, <1>19, NoneIsNoObject, <2>0
    DEF PrepareMeta, SaveBootMeta, Fault, memory, disk, world, TypeOK, MetaWellFormed, OldMetaWellFormed, Objects
  <2>3. Objects'
    BY <1>inv, <1>19, NoneIsNoObject, <2>0
    DEF PrepareMeta, SaveBootMeta, Fault, memory, disk, world, TypeOK, Objects, MetaWellFormed, SameActive, Confirming
  <2>4. SameActive'
    BY <1>inv, <1>19, NoneIsNoObject, <2>0
    DEF PrepareMeta, SaveBootMeta, Fault, memory, disk, world, TypeOK, SameActive, MetaWellFormed, Objects, Confirming
  <2>5. Confirming'
    BY <1>inv, <1>19, NoneIsNoObject, <2>0
    DEF PrepareMeta, SaveBootMeta, Fault, memory, disk, world, TypeOK, Confirming, MetaWellFormed, Objects, SameActive
  <2>6. Counted'
    BY <1>inv, <1>19, NoneIsNoObject, <2>0, OTAAssumption
    DEF BootMeta, OTAAssumption, PrepareMeta, SaveBootMeta, Fault, memory, disk, world, TypeOK, Counted, MetaWellFormed, Objects, SameActive, Confirming
  <2>7. Images'
    BY <1>inv, <1>19, NoneIsNoObject, <2>0
    DEF PrepareMeta, SaveBootMeta, Fault, memory, disk, world, TypeOK, Images, Whole, MetaWellFormed, Objects, SameActive, Confirming
  <2> QED
    BY <2>1, <2>2, <2>3, <2>4, <2>5, <2>6, <2>7 DEF IInv
<1>20. CASE PrepareTarget
  <2>1. TypeOK'
    BY <1>inv, <1>20, NoneIsNoObject, OTAAssumption
    DEF BootMeta, OTAAssumption, PrepareTarget, SetBootTarget, Fault, memory, disk, world, TypeOK, PC, Slots, Objects
  <2>2. (MetaWellFormed /\ OldMetaWellFormed)'
    BY <1>inv, <1>20, NoneIsNoObject
    DEF PrepareTarget, SetBootTarget, Fault, memory, disk, world, TypeOK, MetaWellFormed, OldMetaWellFormed, Objects
  <2>3. Objects'
    BY <1>inv, <1>20, NoneIsNoObject
    DEF PrepareTarget, SetBootTarget, Fault, memory, disk, world, TypeOK, Objects, MetaWellFormed, SameActive, Confirming
  <2>4. SameActive'
    BY <1>inv, <1>20, NoneIsNoObject
    DEF PrepareTarget, SetBootTarget, Fault, memory, disk, world, TypeOK, SameActive, MetaWellFormed, Objects, Confirming
  <2>5. Confirming'
    BY <1>inv, <1>20, NoneIsNoObject
    DEF PrepareTarget, SetBootTarget, Fault, memory, disk, world, TypeOK, Confirming, MetaWellFormed, Objects, SameActive
  <2>6. Counted'
    BY <1>inv, <1>20, NoneIsNoObject
    DEF BootMeta, PrepareTarget, SetBootTarget, Fault, memory, disk, world, TypeOK, Counted, MetaWellFormed, Objects, SameActive, Confirming
  <2>7. Images'
    BY <1>inv, <1>20, NoneIsNoObject
    DEF PrepareTarget, SetBootTarget, Fault, memory, disk, world, TypeOK, Images, Whole, MetaWellFormed, Objects, SameActive, Confirming
  <2> QED
    BY <2>1, <2>2, <2>3, <2>4, <2>5, <2>6, <2>7 DEF IInv
<1>21. CASE MainStops
  <2>1. TypeOK'
    BY <1>inv, <1>21, NoneIsNoObject, OTAAssumption
    DEF OTAAssumption, MainStops, Exit, memory, disk, world, TypeOK, PC, Slots, Objects
  <2>2. (MetaWellFormed /\ OldMetaWellFormed)'
    BY <1>inv, <1>21, NoneIsNoObject
    DEF MainStops, Exit, memory, disk, world, TypeOK, MetaWellFormed, OldMetaWellFormed, Objects
  <2>3. Objects'
    BY <1>inv, <1>21, NoneIsNoObject
    DEF MainStops, Exit, memory, disk, world, TypeOK, Objects, MetaWellFormed, SameActive, Confirming
  <2>4. SameActive'
    BY <1>inv, <1>21, NoneIsNoObject
    DEF MainStops, Exit, memory, disk, world, TypeOK, SameActive, MetaWellFormed, Objects, Confirming
  <2>5. Confirming'
    BY <1>inv, <1>21, NoneIsNoObject
    DEF MainStops, Exit, memory, disk, world, TypeOK, Confirming, MetaWellFormed, Objects, SameActive
  <2>6. Counted'
    BY <1>inv, <1>21, NoneIsNoObject
    DEF MainStops, Exit, memory, disk, world, TypeOK, Counted, MetaWellFormed, Objects, SameActive, Confirming
  <2>7. Images'
    BY <1>inv, <1>21, NoneIsNoObject
    DEF MainStops, Exit, memory, disk, world, TypeOK, Images, Whole, MetaWellFormed, Objects, SameActive, Confirming
  <2> QED
    BY <2>1, <2>2, <2>3, <2>4, <2>5, <2>6, <2>7 DEF IInv
<1>22. CASE Crash
  <2>1. TypeOK'
    BY <1>inv, <1>22, NoneIsNoObject, OTAAssumption
    DEF OTAAssumption, Crash, Exit, memory, disk, world, TypeOK, PC, Slots, Objects
  <2>2. (MetaWellFormed /\ OldMetaWellFormed)'
    BY <1>inv, <1>22, NoneIsNoObject
    DEF Crash, Exit, memory, disk, world, TypeOK, MetaWellFormed, OldMetaWellFormed, Objects
  <2>3. Objects'
    BY <1>inv, <1>22, NoneIsNoObject
    DEF Crash, Exit, memory, disk, world, TypeOK, Objects, MetaWellFormed, SameActive, Confirming
  <2>4. SameActive'
    BY <1>inv, <1>22, NoneIsNoObject
    DEF Crash, Exit, memory, disk, world, TypeOK, SameActive, MetaWellFormed, Objects, Confirming
  <2>5. Confirming'
    BY <1>inv, <1>22, NoneIsNoObject
    DEF Crash, Exit, memory, disk, world, TypeOK, Confirming, MetaWellFormed, Objects, SameActive
  <2>6. Counted'
    BY <1>inv, <1>22, NoneIsNoObject
    DEF Crash, Exit, memory, disk, world, TypeOK, Counted, MetaWellFormed, Objects, SameActive, Confirming
  <2>7. Images'
    BY <1>inv, <1>22, NoneIsNoObject
    DEF Crash, Exit, memory, disk, world, TypeOK, Images, Whole, MetaWellFormed, Objects, SameActive, Confirming
  <2> QED
    BY <2>1, <2>2, <2>3, <2>4, <2>5, <2>6, <2>7 DEF IInv
<1>23. CASE Reboot
  <2>1. TypeOK'
    BY <1>inv, <1>23, NoneIsNoObject, OTAAssumption
    DEF OTAAssumption, Reboot, Exit, memory, disk, world, TypeOK, PC, Slots, Objects
  <2>2. (MetaWellFormed /\ OldMetaWellFormed)'
    BY <1>inv, <1>23, NoneIsNoObject
    DEF Reboot, Exit, memory, disk, world, TypeOK, MetaWellFormed, OldMetaWellFormed, Objects
  <2>3. Objects'
    BY <1>inv, <1>23, NoneIsNoObject
    DEF Reboot, Exit, memory, disk, world, TypeOK, Objects, MetaWellFormed, SameActive, Confirming
  <2>4. SameActive'
    BY <1>inv, <1>23, NoneIsNoObject
    DEF Reboot, Exit, memory, disk, world, TypeOK, SameActive, MetaWellFormed, Objects, Confirming
  <2>5. Confirming'
    BY <1>inv, <1>23, NoneIsNoObject
    DEF Reboot, Exit, memory, disk, world, TypeOK, Confirming, MetaWellFormed, Objects, SameActive
  <2>6. Counted'
    BY <1>inv, <1>23, NoneIsNoObject
    DEF Reboot, Exit, memory, disk, world, TypeOK, Counted, MetaWellFormed, Objects, SameActive, Confirming
  <2>7. Images'
    BY <1>inv, <1>23, NoneIsNoObject
    DEF Reboot, Exit, memory, disk, world, TypeOK, Images, Whole, MetaWellFormed, Objects, SameActive, Confirming
  <2> QED
    BY <2>1, <2>2, <2>3, <2>4, <2>5, <2>6, <2>7 DEF IInv
<1>24. CASE UNCHANGED vars
  BY <1>inv, <1>24 DEF vars, memory, disk, world, IInv, TypeOK, MetaWellFormed, OldMetaWellFormed,
     Objects, SameActive, Confirming, Counted, Images, Whole, LoadedVersion
<1> QED
  BY <1>1, <1>2, <1>3, <1>4, <1>5, <1>6, <1>7, <1>8, <1>9, <1>10, <1>11, <1>12, <1>13, <1>14, <1>15, <1>16, <1>17, <1>18, <1>19, <1>20, <1>21, <1>22, <1>23, <1>24 DEF Next, Starting, Confirm, RunOnce

\* The invariant holds throughout every behaviour.
LEMMA InvariantHolds == Spec => []IInv
<1>1. Init => IInv
  BY InitInv
<1>2. IInv /\ [Next]_vars => IInv'
  BY StepInv
<1> QED
  BY <1>1, <1>2, PTL DEF Spec
-----------------------------------------------------------------------------
\* Type correctness of the updater (OTA.h's BootMeta, Manifest and Config fields).
THEOREM TypeCorrect == Spec => []TypeOK
<1>1. IInv => TypeOK
  BY DEF IInv
<1> QED
  BY <1>1, InvariantHolds, PTL

\* The boot meta is well formed, in memory and on disk, after any sequence of
\* failed saves, crashes and reboots (stepSetBootTarget, stepCommitSuccess and
\* stepRollback restore or replace all of its fields together).
THEOREM BootMetaWellFormed == Spec => []MetaWellFormed
<1>1. IInv => MetaWellFormed
  BY DEF IInv
<1> QED
  BY <1>1, InvariantHolds, PTL

\* Neither the boot loader nor the boot meta ever points at an empty slot or at an
\* image whose digest was not checked (stepVerifyFirmware, stepWriteStandby).
THEOREM VerifiedImagesOnly == Spec => []OnlyVerifiedImagesBoot
<1>1. IInv => OnlyVerifiedImagesBoot
  BY DEF IInv, Images, Whole, OnlyVerifiedImagesBoot
<1> QED
  BY <1>1, InvariantHolds, PTL

\* An upgrade gets at most maxRetryCount health checks, whatever is interrupted
\* between the saved count and the check (stepHandlePendingBoot, commit).
THEOREM AttemptsAreBounded == Spec => []AttemptsBounded
<1>1. IInv => AttemptsBounded
  BY DEF IInv, Counted, AttemptsBounded
<1> QED
  BY <1>1, InvariantHolds, PTL

\* runOnce never writes the slot that the boot meta on disk calls active.
THEOREM ActiveImageIsKept == Spec => ActiveImageKept
<1>1. ASSUME IInv, [Next]_vars, metaFile # None
      PROVE  slot'[metaFile.activeSlot] = slot[metaFile.activeSlot]
  <2>1. CASE WriteStandby
    <3>1. meta \in BootMeta /\ meta.activeSlot = metaFile.activeSlot
      BY <1>1, <2>1 DEF WriteStandby, IInv, TypeOK, Objects, SameActive
    <3>2. metaFile.activeSlot \in Slots
      BY <3>1 DEF BootMeta
    <3>3. StandbySlot(meta) # metaFile.activeSlot
      BY <3>1, StandbyIsOther
    <3> QED
      BY <1>1, <2>1, <3>2, <3>3 DEF WriteStandby, IInv, TypeOK
  <2>2. CASE UNCHANGED slot
    BY <2>2
  <2> QED
    BY <1>1, <2>1, <2>2
    DEF Next, Starting, Confirm, RunOnce, vars, memory, disk, world, InitLoad, InitReset, HandleNothing,
        HandleRetry, HandleExceeded, CommitCalled, HealthPasses, HealthFails, CommitVersion,
        CommitMeta, RollbackMeta, RollbackTarget, FetchManifest, FetchFails, NoNewerVersion,
        DownloadFirmware, VerifyFirmware, PrepareMeta, PrepareTarget, MainStops, Crash, Reboot
<1>2. IInv /\ [Next]_vars =>
        [metaFile # None => slot'[metaFile.activeSlot] = slot[metaFile.activeSlot]]_vars
  BY <1>1
<1> QED
  BY <1>2, InvariantHolds, PTL DEF Spec, ActiveImageKept

\* The boot meta on disk gets another active slot.
Confirms == metaFile # None /\ metaFile'.activeSlot # metaFile.activeSlot

\* Only the last step of a commit confirms.
LEMMA OnlyCommitConfirms == IInv /\ [Next]_vars /\ Confirms => CommitMeta
<1> SUFFICES ASSUME IInv, [Next]_vars, Confirms
             PROVE  CommitMeta
  OBVIOUS
<1> USE DEF Confirms
<1>inv. TypeOK /\ Objects /\ SameActive /\ Confirming
  BY DEF IInv
<1>1. CASE InitReset
  BY <1>1 DEF InitReset
<1>2. CASE HandleRetry
  <2>1. meta \in BootMeta /\ meta = metaFile
    BY <1>inv, <1>2, NoneIsNoObject DEF HandleRetry, TypeOK, Objects, Confirming
  <2>2. [meta EXCEPT !.retryCount = @ + 1].activeSlot = metaFile.activeSlot
    BY <2>1, CountedType, CountedFields
  <2> QED
    BY <1>2, <2>2 DEF HandleRetry, SaveBootMeta
<1>3. CASE RollbackMeta
  <2>1. meta \in BootMeta /\ meta.activeSlot = metaFile.activeSlot
    BY <1>inv, <1>3 DEF RollbackMeta, TypeOK, Objects, SameActive
  <2>2. RolledBack(meta).activeSlot = metaFile.activeSlot
    BY <2>1, RolledBackFields
  <2> QED
    BY <1>3, <2>2 DEF RollbackMeta, SaveBootMeta
<1>4. CASE RollbackTarget
  BY <1>inv, <1>4 DEF RollbackTarget, SameActive
<1>5. CASE PrepareMeta
  <2>1. /\ meta \in BootMeta /\ meta.activeSlot = metaFile.activeSlot
        /\ manifest.version \in Versions
    BY <1>inv, <1>5 DEF PrepareMeta, TypeOK, Objects, SameActive, Manifest
  <2>2. Prepared(meta, manifest.version).activeSlot = metaFile.activeSlot
    BY <2>1, PreparedFields
  <2> QED
    BY <1>5, <2>2 DEF PrepareMeta, SaveBootMeta
<1>6. CASE PrepareTarget
  BY <1>inv, <1>6 DEF PrepareTarget, SameActive
<1>7. CASE UNCHANGED metaFile
  BY <1>7
<1> QED
  BY <1>1, <1>2, <1>3, <1>4, <1>5, <1>6, <1>7
  DEF Next, Starting, Confirm, RunOnce, vars, memory, disk, world, InitLoad, HandleNothing,
      HandleExceeded, CommitCalled, HealthPasses, HealthFails, CommitVersion,
      FetchManifest, FetchFails, NoNewerVersion, DownloadFirmware, VerifyFirmware,
      WriteStandby, MainStops, Crash, Reboot

\* The confirmed slot changes only by the confirmation of the upgrade that waits on
\* disk, after a health check (stepCommitSuccess); a rollback, a failed save or a
\* restored meta never changes it.
THEOREM ConfirmsOnlyPendingUpgrade == Spec => ConfirmsPendingUpgrade
<1>1. ASSUME IInv, [Next]_vars, Confirms
      PROVE  /\ metaFile.upgradePending
             /\ attempts > 0
             /\ metaFile' = Committed(metaFile)
  <2>1. Confirming /\ CommitMeta
    BY <1>1, OnlyCommitConfirms DEF IInv
  <2> QED
    BY <1>1, <2>1 DEF CommitMeta, SaveBootMeta, Confirming, Confirms
<1>2. IInv /\ [Next]_vars =>
        [metaFile # None /\ metaFile'.activeSlot # metaFile.activeSlot =>
            /\ metaFile.upgradePending
            /\ attempts > 0
            /\ metaFile' = Committed(metaFile)]_vars
  BY <1>1 DEF Confirms
<1> QED
  BY <1>2, InvariantHolds, PTL DEF Spec, ConfirmsPendingUpgrade
-----------------------------------------------------------------------------
\* While an upgrade is being confirmed the version in memory is that of the upgrade,
\* and the version file has it when the boot meta is about to be saved.
VersionInv ==
    /\ pc \in {"commitVersion", "commitMeta"} => ver = meta.activeVersion
    /\ pc = "commitMeta" => verFile = ver

\* VersionInv is preserved: HealthPasses makes its first part true, CommitVersion its
\* second, and nothing else happens in between.
LEMMA VersionStep == IInv /\ VersionInv /\ [Next]_vars => VersionInv'
<1> SUFFICES ASSUME IInv, VersionInv, [Next]_vars
             PROVE  VersionInv'
  OBVIOUS
<1>1. CASE HealthPasses
  <2>1. meta \in BootMeta
    BY <1>1, NoneIsNoObject DEF HealthPasses, IInv, TypeOK, Objects
  <2>2. Committed(meta).activeVersion = meta.pendingVersion
    BY <2>1, CommittedFields
  <2> QED
    BY <1>1, <2>2 DEF HealthPasses, VersionInv
<1>2. CASE CommitVersion
  BY <1>2 DEF CommitVersion, SaveCurrentVersion, VersionInv, Exit, memory
<1>3. CASE pc' \notin {"commitVersion", "commitMeta"}
  BY <1>3 DEF VersionInv
<1>4. CASE UNCHANGED vars
  BY <1>4 DEF VersionInv, vars, memory, disk
<1> QED
  BY <1>1, <1>2, <1>3, <1>4
  DEF Next, Starting, Confirm, RunOnce, InitLoad, InitReset, HandleNothing, HandleRetry,
      HandleExceeded, CommitCalled, HealthFails, CommitMeta, RollbackMeta, RollbackTarget,
      FetchManifest, FetchFails, NoNewerVersion, DownloadFirmware, VerifyFirmware,
      WriteStandby, PrepareMeta, PrepareTarget, MainStops, Crash, Reboot, Exit, VersionInv,
      memory, disk

\* When the boot meta on disk confirms an upgrade, the version file has its version
\* already (stepCommitSuccess saves the version first).
THEOREM SavesVersionFirst == Spec => VersionSavedFirst
<1>1. Init => VersionInv
  BY DEF Init, VersionInv
<1>2. Spec => []VersionInv
  BY <1>1, VersionStep, InvariantHolds, PTL DEF Spec
<1>3. ASSUME IInv, VersionInv, [Next]_vars, Confirms
      PROVE  verFile = metaFile'.activeVersion
  <2>1. CommitMeta
    BY <1>3, OnlyCommitConfirms
  <2>2. metaFile' = meta
    BY <1>3, <2>1 DEF CommitMeta, SaveBootMeta, Confirms
  <2> QED
    BY <1>3, <2>1, <2>2 DEF CommitMeta, VersionInv
<1>4. IInv /\ VersionInv /\ [Next]_vars =>
        [metaFile # None /\ metaFile'.activeSlot # metaFile.activeSlot =>
            verFile = metaFile'.activeVersion]_vars
  BY <1>3 DEF Confirms
<1> QED
  BY <1>2, <1>4, InvariantHolds, PTL DEF Spec, VersionSavedFirst
=============================================================================
