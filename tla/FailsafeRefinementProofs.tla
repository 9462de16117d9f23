---------------------- MODULE FailsafeRefinementProofs ----------------------
(***************************************************************************)
(* Proofs about FailsafeUpgrade, continued: an upgrade changes what boots  *)
(* next in one step, the one that writes 0:BOOTCONFIG.  From it follow     *)
(* that partitions do not come to boot in different versions, that the     *)
(* fuses are never ahead, that the configuration is where the new firmware *)
(* looks for it, and that the scripts implement AtomicUpgrade.             *)
(***************************************************************************)
EXTENDS FailsafeUpgradeProofs

Booted == {"running"} \cup Sections \cup Deciding

(* Until the new record is on flash, what boots next is what was booted. *)
LEMMA BootVersionBooted ==
  ASSUME RecordInv, pc \in Booted, NEW p \in AltNames
  PROVE  BootVersion(p) = slot[p][named[p]]
BY DEF RecordInv, BootedOK, Booted, BootVersion

(* The version that boots next is a version. *)
LEMMA BootVersionType ==
  ASSUME RecordInv, NEW p \in AltNames
  PROVE  BootVersion(p) \in Int
<1>1. p \in Parts
  BY AltNamesAssumption
<1>2. (IF pc = "write_bootconfig" THEN named[p] ELSE NextBoot.primaryboot[p]) \in Slots
  <2>1. pc # "write_bootconfig" => NextBoot \in BootCfg
    BY NextBootType DEF RecordInv, RecordsOK, Records
  <2>. QED
    BY <1>1, <2>1 DEF RecordInv, TypeOK, BootCfg
<1>3. slot[p] \in [Slots -> {Blank} \cup Versions]
  BY <1>1 DEF RecordInv, TypeOK
<1>. QED
  BY <1>2, <1>3, MaxVersionAssumption DEF BootVersion, Blank, Versions

(* The step that registers an upgrade gives the new version to the         *)
(* partitions of the image, all at once.                                   *)
LEMMA BootVersionRegisters ==
  ASSUME RecordInv, Provided,
         WriteBootconfig(1, "write_bootconfig", "erase_bootconfig1")
  PROVE  \A p \in AltNames :
           BootVersion(p)' = IF Written(p) THEN ver ELSE BootVersion(p)
<1>1. /\ UNCHANGED <<slot, mem, named, ver, image, i>>
      /\ pc = "write_bootconfig" /\ pc' = "erase_bootconfig1"
      /\ copies' = [copies EXCEPT ![1] = mem]
  BY DEF WriteBootconfig, Goto, request
<1>2. copies'[1] = mem /\ mem # NoMagic
  BY <1>1 DEF RecordInv, TypeOK, BootedOK, Deciding
<1>3. NextBoot' = mem
  BY <1>2 DEF NextBoot, SblConfig
<1>4. ASSUME NEW p \in AltNames
      PROVE  /\ mem.primaryboot[p] = IF Written(p) THEN 1 - named[p] ELSE named[p]
             /\ Written(p) => slot[p][1 - named[p]] = ver
  BY <1>1 DEF RecordInv, FlagsOK, BeingWritten, Deciding
<1>. QED
  BY <1>1, <1>3, <1>4 DEF BootVersion

(* Every other step leaves alone what boots next. *)
LEMMA BootVersionKept ==
  ASSUME RecordInv, RecordInv', Provided, [Next]_vars,
         ~ WriteBootconfig(1, "write_bootconfig", "erase_bootconfig1")
  PROVE  \A p \in AltNames : BootVersion(p)' = BootVersion(p)
<1>1. CASE UNCHANGED vars
  BY <1>1 DEF vars, BootVersion, NextBoot
<1>2. CASE Boot
  BY <1>2 DEF Boot, Goto, persistent, BootVersion, NextBoot
<1>3. CASE PowerOff
  <2>1. UNCHANGED <<slot, copies>> /\ pc' = "off" /\ NextBoot' = NextBoot
    BY <1>3 DEF PowerOff, Goto, persistent, NextBoot
  <2>2. CASE pc = "write_bootconfig"
    <3>1. BackupCurrent /\ copies[1] = NoMagic
      BY <1>3, <2>2 DEF PowerOff, MayLosePower, Provided, RecordInv, ProgressOK
    <3>2. \A p \in AltNames : NextBoot.primaryboot[p] = named[p]
      BY <3>1 DEF NextBoot, SblConfig, BackupCurrent
    <3>. QED
      BY <2>1, <2>2, <3>2 DEF BootVersion
  <2>3. CASE pc # "write_bootconfig"
    BY <2>1, <2>3 DEF BootVersion
  <2>. QED
    BY <2>2, <2>3
<1>4. ASSUME NEW im \in Images, NEW saveConfig \in BOOLEAN, StartUpgrade(im, saveConfig)
      PROVE  \A p \in AltNames : BootVersion(p)' = BootVersion(p)
  BY <1>4 DEF StartUpgrade, Goto, persistent, BootVersion, NextBoot
<1>5. CASE FlashSection \/ SectionsDone
  <2>1. UNCHANGED <<slot, copies>> /\ pc = "flash_section" /\ pc' # "write_bootconfig"
    BY <1>5 DEF FlashSection, SectionsDone, Goto, persistent
  <2>. QED
    BY <2>1 DEF BootVersion, NextBoot
<1>6. CASE Erase \/ Write
  <2>1. /\ named' = named /\ pc \in {"erase", "write"} /\ pc' \in {"write", "flash_section"}
        /\ \E v : slot' = [slot EXCEPT ![SectionPart(image[i])][target] = v]
    BY <1>6, Zenon DEF Erase, Write, Goto, Provided
  <2>2. \A p \in AltNames : slot'[p][named[p]] = slot[p][named[p]]
    BY <2>1, TargetAside, Zenon DEF RecordInv
  <2>3. \A p \in AltNames : BootVersion(p) = slot[p][named[p]]
    BY <2>1, BootVersionBooted DEF Booted, Sections
  <2>4. pc' # "write_bootconfig" /\ \A p \in AltNames : NextBoot'.primaryboot[p] = named[p]
    BY <2>1 DEF RecordInv, BootedOK, Sections
  <2>. QED
    BY <2>2, <2>3, <2>4 DEF BootVersion
<1>7. CASE EraseBootconfig(1, "erase_bootconfig", "write_bootconfig")
  <2>1. UNCHANGED <<slot, named>> /\ pc = "erase_bootconfig" /\ pc' = "write_bootconfig"
    BY <1>7 DEF EraseBootconfig, Goto
  <2>. QED
    BY <2>1, BootVersionBooted DEF BootVersion, Booted, Deciding
<1>8. CASE \/ EraseBootconfig(2, "erase_bootconfig1", "write_bootconfig1")
           \/ WriteBootconfig(2, "write_bootconfig1", "version_upgrade")
  <2>1. /\ slot' = slot /\ pc \in {"erase_bootconfig1", "write_bootconfig1"}
        /\ pc' \in {"write_bootconfig1", "version_upgrade"}
        /\ \E r : copies' = [copies EXCEPT ![2] = r]
    BY <1>8 DEF EraseBootconfig, WriteBootconfig, Goto
  <2>2. copies'[1] = copies[1] /\ copies[1] # NoMagic
    BY <2>1 DEF RecordInv, TypeOK, ProgressOK, Decided, Upgrading, Sections, Deciding
  <2>. QED
    BY <2>1, <2>2 DEF BootVersion, NextBoot, SblConfig
<1>9. CASE VersionUpgrade \/ EraseConfig \/ CopyConfig
  <2>1. UNCHANGED <<slot, copies>> /\ pc # "write_bootconfig" /\ pc' # "write_bootconfig"
    BY <1>9 DEF VersionUpgrade, EraseConfig, CopyConfig, Goto
  <2>. QED
    BY <2>1 DEF BootVersion, NextBoot
<1>. QED
  BY <1>1, <1>2, <1>3, <1>4, <1>5, <1>6, <1>7, <1>8, <1>9
  DEF Next, UpgradeStep, FlashBootconfig

-----------------------------------------------------------------------------
(* A device from the factory has one version, everywhere. *)
LEMMA HistoryInit ==
  ASSUME Init, Provided
  PROVE  IInv
<1>1. RecordInv
  BY InvInit
<1>2. pc = "off" /\ ver = 0 /\ fuse = 0 /\ \A p \in Parts, s \in Slots : slot[p][s] = 0
  BY DEF Init
<1>3. \A p \in AltNames : BootVersion(p) = 0
  <2>1. NextBoot.primaryboot = [p \in AltNames |-> 0]
    BY NoMagicAssumption DEF Init, NextBoot, SblConfig
  <2>. QED
    BY <1>2, <2>1, AltNamesAssumption DEF BootVersion, Slots
<1>4. HistoryOK
  BY <1>2 DEF HistoryOK, Sections, Deciding, Decided, Upgrading
<1>5. LockstepOK
  BY <1>3 DEF LockstepOK
<1>6. RootfsOK
  BY <1>2, <1>3 DEF RootfsOK, RootfsCarried
<1>. QED
  BY <1>1, <1>4, <1>5, <1>6 DEF IInv

(* No step brings a copy from the future, and an image being installed is  *)
(* newer than what was booted.                                             *)
LEMMA HistoryStep ==
  ASSUME IInv, RecordInv', Provided, [Next]_vars
  PROVE  HistoryOK'
<1>. DEFINE Early == Sections \cup Deciding
<1>1. RecordInv /\ HistoryOK /\ ver \in Nat
  BY MaxVersionAssumption DEF IInv, RecordInv, TypeOK, Versions
<1>2. \A p \in Parts, s \in Slots : slot[p][s] \in Int /\ slot'[p][s] \in Int
  BY <1>1, MaxVersionAssumption DEF RecordInv, TypeOK, Versions, Blank
<1>3. ver' = ver \/ (ver' = ver + 1 /\ slot' = slot)
  BY DEF Next, Boot, PowerOff, StartUpgrade, UpgradeStep, FlashSection, Erase, Write,
     SectionsDone, FlashBootconfig, EraseBootconfig, WriteBootconfig, VersionUpgrade,
     EraseConfig, CopyConfig, persistent, request, vars
<1>4. \/ slot' = slot
      \/ \E v \in {Blank, ver} :
           slot' = [slot EXCEPT ![SectionPart(image[i])][target] = v]
  BY DEF Next, Boot, PowerOff, StartUpgrade, UpgradeStep, FlashSection, Erase, Write,
     SectionsDone, FlashBootconfig, EraseBootconfig, WriteBootconfig, VersionUpgrade,
     EraseConfig, CopyConfig, persistent, vars, Provided
<1>5. ASSUME NEW p \in Parts, NEW s \in Slots
      PROVE  slot'[p][s] <= ver'
  <2>1. slot[p][s] <= ver /\ Blank <= ver
    BY <1>1 DEF HistoryOK, Blank
  <2>2. slot'[p][s] \in {slot[p][s], Blank, ver}
    <3>1. CASE slot' = slot
      BY <3>1
    <3>2. ASSUME NEW v \in {Blank, ver},
                 slot' = [slot EXCEPT ![SectionPart(image[i])][target] = v]
          PROVE  slot'[p][s] \in {slot[p][s], Blank, ver}
      <4>1. slot[p] \in [Slots -> {Blank} \cup Versions]
        BY <1>1 DEF RecordInv, TypeOK
      <4>2. slot'[p] = slot[p] \/ slot'[p] = [slot[p] EXCEPT ![target] = v]
        BY <1>1, <3>2 DEF RecordInv, TypeOK
      <4>. QED
        BY <4>1, <4>2
    <3>. QED
      BY <1>4, <3>1, <3>2
  <2>. QED
    BY <1>1, <1>2, <1>3, <2>1, <2>2
<1>6. ASSUME pc' \in Early, NEW p \in AltNames
      PROVE  BootVersion(p)' < ver'
  <2>1. \/ \E im \in Images, saveConfig \in BOOLEAN : StartUpgrade(im, saveConfig)
        \/ pc \in Early /\ ver' = ver
    BY <1>6 DEF Next, Boot, PowerOff, UpgradeStep, FlashSection, Erase, Write,
       SectionsDone, FlashBootconfig, EraseBootconfig, WriteBootconfig, VersionUpgrade,
       EraseConfig, CopyConfig, request, vars, Goto, Sections, Deciding
  <2>2. ~ WriteBootconfig(1, "write_bootconfig", "erase_bootconfig1")
    BY <1>6 DEF WriteBootconfig, Goto, Sections, Deciding
  <2>3. BootVersion(p)' = BootVersion(p)
    BY <1>1, <2>2, BootVersionKept
  <2>4. CASE pc \in Early /\ ver' = ver
    BY <1>1, <2>3, <2>4 DEF HistoryOK
  <2>5. CASE \E im \in Images, saveConfig \in BOOLEAN : StartUpgrade(im, saveConfig)
    <3>1. pc = "running" /\ ver' = ver + 1
      BY <2>5 DEF StartUpgrade
    <3>2. BootVersion(p) = slot[p][named[p]] /\ p \in Parts /\ named[p] \in Slots
      BY <1>1, <3>1, BootVersionBooted, AltNamesAssumption DEF Booted, RecordInv, TypeOK
    <3>3. slot[p][named[p]] <= ver /\ slot[p][named[p]] \in Int
      BY <1>1, <1>2, <3>2 DEF HistoryOK
    <3>. QED
      BY <1>1, <2>3, <3>1, <3>2, <3>3
  <2>. QED
    BY <2>1, <2>4, <2>5
<1>7. ASSUME pc' \in Decided, NEW p \in AltNames
      PROVE  mem'.primaryboot[p] = IF Written(p)' THEN 1 - named'[p] ELSE named'[p]
  <2>1. \/ WriteBootconfig(1, "write_bootconfig", "erase_bootconfig1")
        \/ pc \in Decided /\ UNCHANGED <<mem, named, image, i>>
    BY <1>1, <1>7 DEF Next, Boot, PowerOff, StartUpgrade, UpgradeStep, FlashSection, Erase,
       Write, SectionsDone, FlashBootconfig, EraseBootconfig, WriteBootconfig,
       VersionUpgrade, EraseConfig, CopyConfig, request, vars, Goto, Sections, Deciding,
       Decided, Upgrading, RecordInv, BootedOK
  <2>2. CASE pc \in Decided /\ UNCHANGED <<mem, named, image, i>>
    BY <1>1, <2>2 DEF HistoryOK, Written
  <2>3. CASE WriteBootconfig(1, "write_bootconfig", "erase_bootconfig1")
    <3>1. UNCHANGED <<mem, named, image, i>> /\ pc = "write_bootconfig"
      BY <2>3 DEF WriteBootconfig, request
    <3>. QED
      BY <1>1, <3>1 DEF RecordInv, FlagsOK, Written, BeingWritten, Deciding
  <2>. QED
    BY <2>1, <2>2, <2>3, SMTT(30)
<1>. QED
  BY <1>5, <1>6, <1>7 DEF HistoryOK

(* The image being registered carries both of two partitions that come     *)
(* together, or neither.                                                   *)
LEMMA LockstepStep ==
  ASSUME IInv, RecordInv', Provided, [Next]_vars
  PROVE  LockstepOK'
<1>. SUFFICES ASSUME NEW p \in AltNames, NEW q \in AltNames, Together(p, q)
              PROVE  BootVersion(p)' = BootVersion(q)'
  BY DEF LockstepOK, Together, FlashedBy, SectionPart
<1>1. RecordInv /\ BootVersion(p) = BootVersion(q)
  BY DEF IInv, LockstepOK
<1>2. CASE WriteBootconfig(1, "write_bootconfig", "erase_bootconfig1")
  <2>1. image \in Images /\ i > Len(image)
    BY <1>1, <1>2 DEF WriteBootconfig, RecordInv, ProgressOK, Deciding, Upgrading
  <2>2. Written(p) <=> Written(q)
    BY <1>1, <2>1, WrittenAll DEF Together, RecordInv
  <2>. QED
    BY <1>1, <1>2, <2>2, BootVersionRegisters
<1>3. CASE ~ WriteBootconfig(1, "write_bootconfig", "erase_bootconfig1")
  BY <1>1, <1>3, BootVersionKept
<1>. QED
  BY <1>2, <1>3

(* The fuses are blown once the new root file system is the one that       *)
(* boots.                                                                  *)
LEMMA RootfsStep ==
  ASSUME IInv, RecordInv', Provided, [Next]_vars
  PROVE  RootfsOK'
<1>. SUFFICES ASSUME RootfsCarried
              PROVE  /\ fuse' <= ver'
                     /\ fuse' <= BootVersion("rootfs")'
  BY DEF RootfsOK, RootfsCarried, FlashedBy, SectionPart
<1>. DEFINE R == "rootfs"
<1>1. /\ RecordInv /\ R \in AltNames /\ ver \in Nat /\ fuse \in Nat
      /\ fuse <= ver /\ fuse <= BootVersion(R)
      /\ \A im \in Images : FlashedBy(im, R)
  BY MaxVersionAssumption
  DEF IInv, RootfsOK, RootfsCarried, RecordInv, TypeOK, Versions
<1>2. BootVersion(R) \in Int
  BY <1>1, BootVersionType
<1>3. ASSUME pc \in Deciding \cup Decided
      PROVE  Written(R)
  <2>1. image \in Images /\ i > Len(image)
    BY <1>1, <1>3 DEF RecordInv, ProgressOK, Deciding, Decided, Upgrading
  <2>. QED
    BY <1>1, <2>1, WrittenAll DEF RecordInv
<1>4. ASSUME pc \in Decided
      PROVE  BootVersion(R) = ver
  <2>1. Written(R) /\ mem # NoMagic /\ copies[1] = mem /\ pc # "write_bootconfig"
    BY <1>1, <1>3, <1>4 DEF RecordInv, ProgressOK, Decided, Deciding
  <2>2. NextBoot = mem /\ slot[R][mem.primaryboot[R]] = ver
    BY <1>1, <1>4, <2>1 DEF RecordInv, ProgressOK, NextBoot, SblConfig
  <2>. QED
    BY <2>1, <2>2 DEF BootVersion
<1>5. CASE VersionUpgrade
  <2>1. pc \in Decided /\ fuse' \in {fuse, ver} /\ ver' = ver /\ pc' = "erase_config"
    BY <1>5 DEF VersionUpgrade, Decided, Upgrading, Sections, Deciding, request, Goto
  <2>2. ~ WriteBootconfig(1, "write_bootconfig", "erase_bootconfig1")
    BY <2>1 DEF WriteBootconfig, Decided, Deciding
  <2>3. BootVersion(R)' = ver
    BY <1>1, <1>4, <2>1, <2>2, BootVersionKept
  <2>. QED
    BY <1>1, <2>1, <2>3
<1>6. CASE WriteBootconfig(1, "write_bootconfig", "erase_bootconfig1")
  <2>1. fuse' = fuse /\ ver' = ver /\ pc = "write_bootconfig" /\ pc' # "reboot"
    BY <1>6 DEF WriteBootconfig, request, Goto
  <2>2. BootVersion(R)' = ver
    BY <1>1, <1>3, <1>6, <2>1, BootVersionRegisters DEF Deciding
  <2>. QED
    BY <1>1, <2>1, <2>2
<1>7. ASSUME ~ VersionUpgrade, ~ WriteBootconfig(1, "write_bootconfig", "erase_bootconfig1")
      PROVE  fuse' <= ver' /\ fuse' <= BootVersion(R)'
  <2>1. fuse' = fuse /\ ver' \in {ver, ver + 1}
    BY <1>7 DEF Next, Boot, PowerOff, StartUpgrade, UpgradeStep, FlashSection, Erase, Write,
       SectionsDone, FlashBootconfig, EraseBootconfig, WriteBootconfig, EraseConfig,
       CopyConfig, persistent, request, vars
  <2>2. BootVersion(R)' = BootVersion(R)
    BY <1>1, <1>7, BootVersionKept
  <2>. QED
    BY <1>1, <1>2, <2>1, <2>2
<1>. QED
  BY <1>5, <1>6, <1>7

(* Records, names, contents, versions and fuses agree in every reachable   *)
(* state of the upgrade scripts.                                           *)
THEOREM Invariance ==
  ASSUME Provided
  PROVE  Spec => []IInv
<1>1. Init => IInv
  BY HistoryInit
<1>2. IInv /\ [Next]_vars => IInv'
  <2>. SUFFICES ASSUME IInv, [Next]_vars PROVE IInv'
    OBVIOUS
  <2>1. RecordInv'
    BY InvStep DEF IInv
  <2>. QED
    BY <2>1, HistoryStep, LockstepStep, RootfsStep DEF IInv
<1>. QED
  BY <1>1, <1>2, PTL DEF Spec

-----------------------------------------------------------------------------
(* The mapping of the refinement is what boots next. *)
LEMMA FirmwareBarVersions ==
  ASSUME RecordInv, Provided
  PROVE  FirmwareBar = [p \in AltNames |-> BootVersion(p)]
<1>1. CASE pc # "write_bootconfig"
  <2>1. MayLosePower /\ NextBoot # NoMagic
    BY <1>1 DEF MayLosePower, RecordInv, RecordsOK
  <2>2. \A p \in AltNames : Firmware[p] = BootVersion(p)
    BY <1>1, <2>1, FirmwareByFlag DEF BootVersion
  <2>. QED
    BY <2>1, <2>2 DEF FirmwareBar
<1>2. CASE pc = "write_bootconfig"
  <2>1. \A p \in AltNames : BootVersion(p) = slot[p][named[p]]
    BY <1>2 DEF BootVersion
  <2>2. CASE MayLosePower
    <3>1. BackupCurrent /\ copies[1] = NoMagic
      BY <1>2, <2>2 DEF MayLosePower, Provided, RecordInv, ProgressOK
    <3>2. NextBoot # NoMagic /\ \A p \in AltNames : NextBoot.primaryboot[p] = named[p]
      BY <3>1 DEF NextBoot, SblConfig, BackupCurrent
    <3>3. \A p \in AltNames : Firmware[p] = BootVersion(p)
      BY <2>1, <3>2, FirmwareByFlag
    <3>. QED
      BY <2>2, <3>3 DEF FirmwareBar
  <2>3. CASE ~ MayLosePower
    <3>1. \A p \in AltNames : Running[p] = slot[p][named[p]]
      BY <1>2 DEF Running, RecordInv, BootedOK, Deciding
    <3>2. Running = [p \in AltNames |-> BootVersion(p)]
      BY <2>1, <3>1 DEF Running
    <3>. QED
      BY <2>3, <3>2 DEF FirmwareBar
  <2>. QED
    BY <2>2, <2>3
<1>. QED
  BY <1>1, <1>2

(* From power on until the upgrade is registered, what runs is what would  *)
(* boot next.                                                              *)
LEMMA RunsWhatBoots ==
  ASSUME RecordInv, Provided, pc \in Booted
  PROVE  Running = FirmwareBar
<1>1. \A p \in AltNames : Running[p] = slot[p][named[p]]
  BY DEF Running, RecordInv, BootedOK, Booted
<1>2. \A p \in AltNames : Running[p] = BootVersion(p)
  BY <1>1, BootVersionBooted
<1>. QED
  BY <1>2, FirmwareBarVersions DEF Running

(* However power is lost, partitions that every image carries together     *)
(* boot in the same version.                                               *)
THEOREM FirmwareIsUnmixed ==
  ASSUME Provided
  PROVE  Spec => []FirmwareUnmixed
<1>1. IInv => FirmwareUnmixed
  <2>1. SUFFICES ASSUME IInv, MayLosePower, NEW p \in AltNames, NEW q \in AltNames,
                        Together(p, q)
                 PROVE  Firmware[p] = Firmware[q]
    BY DEF FirmwareUnmixed
  <2>2. \A r \in AltNames : Firmware[r] = BootVersion(r)
    BY <2>1, FirmwareBarVersions DEF IInv, FirmwareBar
  <2>. QED
    BY <2>1, <2>2 DEF IInv, LockstepOK
<1>. QED
  BY <1>1, Invariance, PTL

(* platform_version_upgrade, which comes after the record, never records a *)
(* version that the next boot would fall behind.                           *)
THEOREM FuseIsNotAhead ==
  ASSUME Provided, RootfsCarried
  PROVE  Spec => []FuseNotAhead
<1>1. IInv => FuseNotAhead
  <2>1. SUFFICES ASSUME IInv, MayLosePower
                 PROVE  fuse <= Firmware["rootfs"]
    BY DEF FuseNotAhead
  <2>2. Firmware["rootfs"] = BootVersion("rootfs")
    BY <2>1, FirmwareBarVersions DEF IInv, FirmwareBar, RootfsCarried
  <2>. QED
    BY <2>1, <2>2 DEF IInv, RootfsOK
<1>. QED
  BY <1>1, Invariance, PTL

-----------------------------------------------------------------------------
(* A new device is one whose partitions are all of one version, and off. *)
LEMMA AtomicInit ==
  ASSUME Init, Provided
  PROVE  Atomic!Init
<1>1. IInv /\ pc = "off"
  BY HistoryInit, Zenon DEF Init
<1>2. \A p \in AltNames : BootVersion(p) = 0
  <2>1. NextBoot.primaryboot = [p \in AltNames |-> 0]
    BY NoMagicAssumption DEF Init, NextBoot, SblConfig
  <2>. QED
    BY <1>1, <2>1, AltNamesAssumption DEF BootVersion, Slots, Init
<1>3. FirmwareBar = [p \in AltNames |-> 0]
  BY <1>1, <1>2, FirmwareBarVersions DEF IInv
<1>4. RunningBar = NoMagic /\ 0 \in Versions
  BY <1>1, MaxVersionAssumption DEF RunningBar, Versions
<1>. QED
  BY <1>3, <1>4 DEF Atomic!Init

(* Registering the upgrade installs the partitions of the image. *)
LEMMA AtomicInstall ==
  ASSUME IInv, RecordInv', Provided,
         WriteBootconfig(1, "write_bootconfig", "erase_bootconfig1")
  PROVE  Atomic!Install
<1>1. /\ UNCHANGED <<slot, named>>
      /\ pc = "write_bootconfig" /\ pc' = "erase_bootconfig1"
  BY DEF WriteBootconfig, Goto
<1>2. RunningBar = Running /\ RunningBar' = Running /\ RecordInv
  BY <1>1 DEF RunningBar, Running, IInv
<1>3. Running = FirmwareBar
  BY <1>1, <1>2, RunsWhatBoots DEF Booted, Deciding
<1>4. /\ FirmwareBar = [p \in AltNames |-> BootVersion(p)]
      /\ FirmwareBar' = [p \in AltNames |-> BootVersion(p)']
  <2>1. FirmwareBar = [p \in AltNames |-> BootVersion(p)]
    BY <1>2, FirmwareBarVersions
  <2>2. (RecordInv => FirmwareBar = [p \in AltNames |-> BootVersion(p)])'
    BY FirmwareBarVersions, PTL
  <2>. QED
    BY <2>1, <2>2
<1>. DEFINE new == {p \in AltNames : Written(p)}
<1>5. FirmwareBar' = [p \in AltNames |-> IF p \in new THEN ver ELSE FirmwareBar[p]]
  BY <1>2, <1>4, BootVersionRegisters
<1>6. ver \in Versions /\ \A p \in AltNames : FirmwareBar[p] < ver
  BY <1>1, <1>4 DEF IInv, HistoryOK, Deciding, RecordInv, TypeOK
<1>. QED
  BY <1>2, <1>3, <1>5, <1>6, Zenon DEF Atomic!Install

(* Power on, power off, and steps of the scripts that install nothing. *)
LEMMA AtomicOther ==
  ASSUME RecordInv, RecordInv', Provided, [Next]_vars,
         ~ WriteBootconfig(1, "write_bootconfig", "erase_bootconfig1")
  PROVE  /\ FirmwareBar' = FirmwareBar
         /\ \/ RunningBar' = RunningBar
            \/ RunningBar = NoMagic /\ RunningBar' = FirmwareBar
            \/ RunningBar # NoMagic /\ RunningBar' = NoMagic
<1>1. FirmwareBar' = FirmwareBar
  <2>1. FirmwareBar = [p \in AltNames |-> BootVersion(p)]
    BY FirmwareBarVersions
  <2>2. (RecordInv => FirmwareBar = [p \in AltNames |-> BootVersion(p)])'
    BY FirmwareBarVersions, PTL
  <2>3. \A p \in AltNames : BootVersion(p)' = BootVersion(p)
    BY BootVersionKept
  <2>. QED
    BY <2>1, <2>2, <2>3
<1>2. (RecordInv /\ pc \in Booted => Running = FirmwareBar)'
  BY RunsWhatBoots, PTL
<1>3. CASE UNCHANGED vars
  BY <1>1, <1>3 DEF vars, RunningBar, Running
<1>4. CASE Boot
  <2>1. pc = "off" /\ pc' \in {"running", "prompt"}
    BY <1>4 DEF Boot, Goto
  <2>2. RunningBar = NoMagic
    BY <2>1 DEF RunningBar
  <2>3. CASE pc' = "running"
    <3>1. RunningBar' = Running' /\ Running' = FirmwareBar'
      BY <1>2, <2>3 DEF RunningBar, Booted
    <3>. QED
      BY <1>1, <2>2, <3>1
  <2>4. CASE pc' = "prompt"
    BY <1>1, <2>2, <2>4 DEF RunningBar
  <2>. QED
    BY <2>1, <2>3, <2>4
<1>5. CASE PowerOff
  BY <1>1, <1>5 DEF PowerOff, Goto, RunningBar
<1>6. CASE /\ pc \in Booted /\ pc' \in Booted
  <2>1. pc \notin {"off", "prompt"} /\ pc' \notin {"off", "prompt"}
    BY <1>6 DEF Booted, Sections, Deciding
  <2>2. Running' = Running
    BY <1>1, <1>2, <1>6, RunsWhatBoots
  <2>. QED
    BY <1>1, <2>1, <2>2 DEF RunningBar
<1>7. CASE /\ UNCHANGED <<slot, named>>
           /\ pc \notin {"off", "prompt"} /\ pc' \notin {"off", "prompt"}
  BY <1>1, <1>7 DEF RunningBar, Running
<1>8. ASSUME NEW im \in Images, NEW saveConfig \in BOOLEAN, StartUpgrade(im, saveConfig)
      PROVE  pc \in Booted /\ pc' \in Booted
  BY <1>8 DEF StartUpgrade, Goto, Booted, Sections
<1>9. ASSUME FlashSection \/ Erase \/ Write
      PROVE  pc \in Booted /\ pc' \in Booted
  BY <1>9 DEF FlashSection, Erase, Write, Goto, Booted, Sections
<1>10. ASSUME SectionsDone \/ FlashBootconfig \/ VersionUpgrade \/ EraseConfig \/ CopyConfig
       PROVE  /\ UNCHANGED <<slot, named>>
              /\ pc \notin {"off", "prompt"} /\ pc' \notin {"off", "prompt"}
  BY <1>10 DEF SectionsDone, FlashBootconfig, EraseBootconfig, WriteBootconfig,
     VersionUpgrade, EraseConfig, CopyConfig, Goto, persistent
<1>. QED
  BY <1>3, <1>4, <1>5, <1>6, <1>7, <1>8, <1>9, <1>10 DEF Next, UpgradeStep

(* platform_do_upgrade_ipq, cut wherever power is lost, the driver and the *)
(* boot loaders implement an upgrade that happens in one step: the device  *)
(* runs what its flash held when it was powered on, and flash holds the    *)
(* old firmware or all of the new one.                                     *)
THEOREM UpgradeIsAtomic ==
  ASSUME Provided
  PROVE  Spec => ImplementsAtomicUpgrade
<1>1. Init => Atomic!Init
  BY AtomicInit
<1>2. IInv /\ IInv' /\ [Next]_vars => [Atomic!Next]_(Atomic!vars)
  <2>. SUFFICES ASSUME IInv, IInv', [Next]_vars
                PROVE  Atomic!Next \/ UNCHANGED Atomic!vars
    OBVIOUS
  <2>1. CASE WriteBootconfig(1, "write_bootconfig", "erase_bootconfig1")
    BY <2>1, AtomicInstall DEF Atomic!Next, IInv
  <2>2. CASE ~ WriteBootconfig(1, "write_bootconfig", "erase_bootconfig1")
    <3>1. /\ FirmwareBar' = FirmwareBar
          /\ \/ RunningBar' = RunningBar
             \/ RunningBar = NoMagic /\ RunningBar' = FirmwareBar
             \/ RunningBar # NoMagic /\ RunningBar' = NoMagic
      BY <2>2, AtomicOther DEF IInv
    <3>. QED
      BY <3>1 DEF Atomic!Next, Atomic!PowerOn, Atomic!PowerOff, Atomic!vars
  <2>. QED
    BY <2>1, <2>2
<1>. QED
  BY <1>1, <1>2, Invariance, PTL DEF Spec, ImplementsAtomicUpgrade, Atomic!Spec
=============================================================================
