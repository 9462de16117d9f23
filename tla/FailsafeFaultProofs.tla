------------------------- MODULE FailsafeFaultProofs ------------------------
(***************************************************************************)
(* Proofs about FailsafeUpgrade with any faults: writes that fail, and     *)
(* power lost at any moment, with both records gone if it comes to that.   *)
(* What an upgrade may still never do: flash a copy that would boot, or    *)
(* start from another record than the boot loaders followed.  And what it  *)
(* still does: boot next where its writes succeeded, with the              *)
(* configuration it was asked to keep.                                     *)
(***************************************************************************)
EXTENDS FailsafeUpgradeProofs

(* Init establishes the invariant. *)
LEMMA FaultInit ==
  ASSUME Init, ImagesWellFormed
  PROVE  FaultInv
<1>1. TypeOK /\ pc = "off" /\ ver = 0 /\ copies[1] = copies[2]
  BY TypeInit, Zenon DEF Init
<1>2. copies[1].age = 0 /\ \A p \in AltNames : copies[1].primaryboot[p] = 0
  BY DEF Init
<1>3. AgesOK
  BY <1>1, <1>2 DEF AgesOK, FlagsPaired, ImagesWellFormed
<1>. QED
  BY <1>1, <1>3
  DEF FaultInv, LoaderOK, TogglesOK, PlaceOK, Sections, Deciding, Decided, Upgrading

(* Steps that change no record on flash keep the ages in order. *)
LEMMA AgesKept ==
  ASSUME FaultInv, copies' = copies, ver' \in {ver, ver + 1}
  PROVE  AgesOK'
<1>1. ver \in Nat /\ \A c \in {1, 2} : copies[c] # NoMagic => copies[c].age \in Int
  BY MaxVersionAssumption DEF FaultInv, TypeOK, Versions, BootCfg
<1>. QED
  BY <1>1 DEF FaultInv, AgesOK, FlagsPaired

(* Power on: the driver and the loaders find the same record, or none. *)
LEMMA FaultBoot ==
  ASSUME FaultInv, TypeOK', ImagesWellFormed, Boot
  PROVE  FaultInv'
<1>1. UNCHANGED <<slot, copies, ver, image, i, target>> /\ pc' \in {"running", "prompt"}
  BY DEF Boot, persistent, request, Goto
<1>2. AgesOK'
  BY <1>1, AgesKept
<1>3. NextBoot' = NextBoot /\ copies[1] \in Records /\ copies[2] \in Records
  BY <1>1 DEF NextBoot, FaultInv, TypeOK, Records
<1>4. PlaceOK'
  BY <1>1 DEF PlaceOK, Sections, Deciding, Decided, Upgrading
<1>5. CASE pc' = "prompt"
  BY <1>2, <1>4, <1>5 DEF FaultInv, LoaderOK, TogglesOK, Sections, Deciding
<1>6. CASE pc' = "running"
  <2>1. mem' = DriverConfig(copies[1], copies[2])
    BY <1>6 DEF Boot, Goto
  <2>2. mem' = NoMagic <=> NextBoot = NoMagic
    BY <1>3, <2>1, DriverConfigType DEF NextBoot, SblConfig
  <2>3. CASE NextBoot = NoMagic
    BY <1>2, <1>3, <1>4, <1>6, <2>2, <2>3
    DEF FaultInv, LoaderOK, TogglesOK, Sections, Deciding
  <2>4. CASE NextBoot # NoMagic
    <3>1. NextBoot \in BootCfg
      BY <2>4, NextBootType DEF FaultInv, Records
    <3>2. \A p \in AltNames : named'[p] = NextBoot.primaryboot[p]
      BY <2>4, AltNamesAssumption DEF Boot, ActivePart
    <3>3. NextBoot.age <= ver /\ FlagsPaired(NextBoot)
      BY <2>4 DEF FaultInv, AgesOK, NextBoot, SblConfig
    <3>4. ver \in Nat /\ NextBoot.age \in Nat /\ NextBoot.age + 1 < AgeMod
      BY <3>1, <3>3, AgeAssumption, MaxVersionAssumption, AgeModAssumption
      DEF FaultInv, TypeOK, Versions, BootCfg
    <3>5. mem'.primaryboot = NextBoot.primaryboot /\ mem'.age = NextBoot.age + 1
      <4>1. NextBoot = SblConfig(copies[1], copies[2])
        BY DEF NextBoot
      <4>2. copies[1] # NoMagic /\ copies[2] # NoMagic => copies[2].age <= copies[1].age
        BY DEF FaultInv, AgesOK
      <4>. QED
        BY <1>3, <2>1, <2>4, <3>4, <4>1, <4>2, DriverAgrees
    <3>6. copies[2] # NoMagic => copies[2].age < mem'.age
      BY <1>3, <3>4, <3>5, NoMagicAssumption
      DEF FaultInv, AgesOK, NextBoot, SblConfig, Records, BootCfg
    <3>7. FlashType = "emmc" /\ "0:HLOS" \in AltNames =>
            named'["0:HLOS"] = named'["rootfs"]
      BY <3>2, <3>3 DEF ImagesWellFormed, FlagsPaired
    <3>8. LoaderOK'
      BY <1>1, <1>3, <1>6, <2>2, <2>4, <3>2, <3>3, <3>4, <3>5, <3>6, <3>7
      DEF LoaderOK, Sections, Deciding
    <3>9. TogglesOK'
      BY <1>6, <3>2, <3>5 DEF TogglesOK, Sections, Deciding
    <3>. QED
      BY <1>2, <1>4, <3>8, <3>9 DEF FaultInv
  <2>. QED
    BY <2>3, <2>4
<1>. QED
  BY <1>1, <1>5, <1>6

(* Power off asks nothing of the state. *)
LEMMA FaultPowerOff ==
  ASSUME FaultInv, TypeOK', PowerOff
  PROVE  FaultInv'
<1>1. UNCHANGED <<copies, ver>> /\ pc' = "off"
  BY DEF PowerOff, Goto, persistent, request
<1>2. AgesOK'
  BY <1>1, AgesKept
<1>. QED
  BY <1>1, <1>2
  DEF FaultInv, LoaderOK, TogglesOK, PlaceOK, Sections, Deciding, Decided, Upgrading

(* A new upgrade has dealt with no section yet. *)
LEMMA FaultStartUpgrade ==
  ASSUME FaultInv, TypeOK', NEW im \in Images, NEW saveConfig \in BOOLEAN,
         StartUpgrade(im, saveConfig)
  PROVE  FaultInv'
<1>1. /\ UNCHANGED <<slot, copies, mem, named>>
      /\ pc = "running" /\ pc' = "flash_section"
      /\ image' = im /\ i' = 1 /\ ver' = ver + 1
  BY DEF StartUpgrade, Goto, persistent
<1>2. AgesOK'
  BY <1>1, AgesKept
<1>3. NextBoot' = NextBoot
  BY <1>1 DEF NextBoot
<1>4. LoaderOK'
  BY <1>1, <1>3 DEF FaultInv, LoaderOK, Deciding
<1>5. \A p : ~Written(p)' /\ ~BeingWritten(p)'
  BY <1>1 DEF Written, BeingWritten
<1>6. TogglesOK'
  BY <1>1, <1>5 DEF FaultInv, TogglesOK
<1>7. PlaceOK'
  BY <1>1 DEF PlaceOK, Deciding, Decided, Sections, Upgrading
<1>. QED
  BY <1>2, <1>4, <1>6, <1>7 DEF FaultInv

(* A section is looked up: its flag flips, and the copy to be written is   *)
(* the one that was not booted.                                            *)
LEMMA FaultFlashSection ==
  ASSUME FaultInv, TypeOK', ImagesWellFormed, FlashSection
  PROVE  FaultInv'
<1>. DEFINE sec == image[i]
            p == SectionPart(sec)
<1>1. /\ UNCHANGED <<slot, copies, ver, image, named>>
      /\ pc = "flash_section" /\ i <= Len(image) /\ image \in Images
      /\ pc' \in {"flash_section", "erase"}
  BY DEF FlashSection, Goto, persistent, request, FaultInv, PlaceOK, Upgrading
<1>2. AgesOK'
  BY <1>1, AgesKept
<1>3. NextBoot' = NextBoot
  BY <1>1 DEF NextBoot
<1>4. ASSUME mem' = NoMagic <=> mem = NoMagic, mem # NoMagic => mem'.age = mem.age
      PROVE  LoaderOK'
  BY <1>1, <1>3, <1>4 DEF FaultInv, LoaderOK, Sections, Deciding
<1>5. \A q \in AltNames : ~BeingWritten(q)
  BY <1>1 DEF BeingWritten
<1>6. CASE mem # NoMagic /\ p \in AltNames
  <2>1. ~Written(p) /\ Reachable(sec) /\ mem \in BootCfg
    BY <1>1, <1>6, NotYetWritten DEF FaultInv, TypeOK
  <2>2. mem' = Toggle(mem, p) /\ pc' = "erase" /\ i' = i
    BY <1>6, <2>1 DEF FlashSection, Goto
  <2>3. mem' \in BootCfg /\ mem' # NoMagic /\ mem'.age = mem.age
    BY <1>6, <2>1, <2>2, ToggleFlag, NoMagicAssumption
  <2>4. \A q \in AltNames : mem.primaryboot[q] = IF Written(q) THEN 1 - named[q] ELSE named[q]
    BY <1>1, <1>5, <1>6 DEF FaultInv, TogglesOK, Sections
  <2>5. target' = 1 - named[p]
    <3>1. target' = UpgradeSlot(IF sec = "ubi" THEN mem' ELSE mem, p, named)
      BY <1>6 DEF FlashSection
    <3>2. CASE FlashType = "nand"
      BY <3>1, <3>2 DEF UpgradeSlot
    <3>3. CASE FlashType = "emmc"
      <4>1. sec # "ubi" /\ mem.primaryboot[p] = named[p]
        BY <1>6, <2>1, <2>4, <3>3 DEF Reachable
      <4>2. target' = IF named[p] # 0 THEN 0 ELSE 1
        BY <3>1, <3>3, <4>1 DEF UpgradeSlot
      <4>3. named[p] \in {0, 1}
        BY <1>6, AltNamesAssumption DEF FaultInv, TypeOK, Slots
      <4>. QED
        BY <4>2, <4>3
    <3>. QED
      BY <3>2, <3>3, FlashTypeAssumption
  <2>6. \A q \in AltNames : (Written(q)' <=> Written(q)) /\ (BeingWritten(q)' <=> q = p)
    BY <1>1, <2>2 DEF Written, BeingWritten
  <2>7. TogglesOK'
    <3>1. ASSUME NEW q \in AltNames
          PROVE  mem'.primaryboot[q] = IF Written(q)' \/ BeingWritten(q)'
                                       THEN 1 - named'[q] ELSE named'[q]
      <4>1. CASE q = p
        <5>1. mem'.primaryboot[p] = 1 - mem.primaryboot[p]
          BY <1>6, <2>1, <2>2, ToggleFlag
        <5>. QED
          BY <1>1, <2>1, <2>4, <2>6, <4>1, <5>1
      <4>2. CASE q # p
        <5>1. mem'.primaryboot[q] = mem.primaryboot[q]
          BY <1>6, <2>1, <2>2, <4>2, ToggleFlag
        <5>. QED
          BY <1>1, <2>4, <2>6, <4>2, <5>1
      <4>. QED
        BY <4>1, <4>2
    <3>. QED
      BY <2>2, <3>1 DEF TogglesOK
  <2>8. PlaceOK'
    BY <1>1, <2>2, <2>5 DEF PlaceOK, Deciding, Decided, Sections, Upgrading
  <2>. QED
    BY <1>2, <1>4, <1>6, <2>3, <2>7, <2>8 DEF FaultInv
<1>7. CASE ~ (mem # NoMagic /\ p \in AltNames)
  <2>1. mem' = mem
    BY <1>7 DEF FlashSection
  <2>2. \/ pc' = "erase" /\ i' = i
        \/ pc' = "flash_section" /\ i' = i + 1
    BY <1>1 DEF FlashSection, Goto
  <2>3. TogglesOK'
    <3>1. SUFFICES ASSUME mem # NoMagic, NEW q \in AltNames
                   PROVE  mem'.primaryboot[q] = IF Written(q)' \/ BeingWritten(q)'
                                                THEN 1 - named'[q] ELSE named'[q]
      BY <1>1, <2>1 DEF TogglesOK
    <3>2. mem.primaryboot[q] = IF Written(q) THEN 1 - named[q] ELSE named[q]
      BY <1>1, <1>5, <3>1 DEF FaultInv, TogglesOK, Sections
    <3>3. p # q
      BY <1>7, <3>1
    <3>4. (Written(q)' <=> Written(q)) /\ ~BeingWritten(q)'
      <4>1. CASE pc' = "erase" /\ i' = i
        BY <1>1, <3>3, <4>1 DEF Written, BeingWritten
      <4>2. CASE pc' = "flash_section" /\ i' = i + 1
        BY <1>1, <3>3, <4>2, WrittenNext DEF BeingWritten, FaultInv
      <4>. QED
        BY <2>2, <4>1, <4>2
    <3>. QED
      BY <1>1, <2>1, <3>2, <3>4
  <2>4. PlaceOK'
    BY <1>1, <1>7, <2>1, <2>2 DEF PlaceOK, Deciding, Decided, Sections, Upgrading
  <2>. QED
    BY <1>2, <1>4, <2>1, <2>3, <2>4 DEF FaultInv
<1>. QED
  BY <1>6, <1>7

(* Erasing and writing a copy, the write failing or not, change no record. *)
LEMMA FaultEraseWrite ==
  ASSUME FaultInv, TypeOK', Erase \/ Write
  PROVE  FaultInv'
<1>1. /\ UNCHANGED <<copies, mem, named, ver, image, target>>
      /\ \/ pc = "erase" /\ pc' = "write" /\ i' = i
         \/ pc = "write" /\ pc' = "flash_section" /\ i' = i + 1
  BY DEF Erase, Write, Goto, request
<1>2. NextBoot' = NextBoot /\ image \in Images /\ i <= Len(image)
  BY <1>1 DEF NextBoot, FaultInv, PlaceOK, Upgrading
<1>3. AgesOK'
  BY <1>1, AgesKept
<1>4. LoaderOK'
  BY <1>1, <1>2 DEF FaultInv, LoaderOK, Sections, Deciding
<1>5. \A q \in AltNames :
        Written(q)' \/ BeingWritten(q)' <=> Written(q) \/ BeingWritten(q)
  <2>1. CASE pc = "erase" /\ pc' = "write" /\ i' = i
    BY <1>1, <2>1 DEF Written, BeingWritten
  <2>2. CASE pc = "write" /\ pc' = "flash_section" /\ i' = i + 1
    BY <1>1, <1>2, <2>2, WrittenNext DEF BeingWritten, FaultInv
  <2>. QED
    BY <1>1, <2>1, <2>2
<1>6. TogglesOK'
  BY <1>1, <1>5 DEF FaultInv, TogglesOK, Sections
<1>7. PlaceOK'
  BY <1>1, <1>2 DEF FaultInv, PlaceOK, Sections, Deciding, Decided, Upgrading
<1>. QED
  BY <1>3, <1>4, <1>6, <1>7 DEF FaultInv

(* The loop is over; without a record there is none to write. *)
LEMMA FaultSectionsDone ==
  ASSUME FaultInv, TypeOK', SectionsDone
  PROVE  FaultInv'
<1>1. /\ UNCHANGED <<copies, mem, named, ver, image, i>>
      /\ pc = "flash_section" /\ i > Len(image)
      /\ pc' = IF mem = NoMagic THEN "version_upgrade" ELSE "erase_bootconfig"
  BY DEF SectionsDone, Goto, persistent, request
<1>2. NextBoot' = NextBoot /\ \A q : (Written(q)' <=> Written(q))
                                     /\ ~BeingWritten(q) /\ ~BeingWritten(q)'
  BY <1>1 DEF NextBoot, Written, BeingWritten
<1>3. AgesOK'
  BY <1>1, AgesKept
<1>4. LoaderOK'
  BY <1>1, <1>2 DEF FaultInv, LoaderOK, Sections, Deciding
<1>5. TogglesOK'
  BY <1>1, <1>2 DEF FaultInv, TogglesOK, Sections, Deciding
<1>6. PlaceOK'
  <2>1. mem = NoMagic => copies[1] = NoMagic
    BY <1>1 DEF FaultInv, LoaderOK, NextBoot, SblConfig, Sections
  <2>. QED
    BY <1>1, <2>1 DEF FaultInv, PlaceOK, Sections, Deciding, Decided, Upgrading
<1>. QED
  BY <1>3, <1>4, <1>5, <1>6 DEF FaultInv

(* On eMMC the flags of the kernel and of the root file system flip        *)
(* together.                                                               *)
LEMMA NewFlagsPaired ==
  ASSUME FaultInv, ImagesWellFormed, pc \in Deciding
  PROVE  FlagsPaired(mem)
<1>1. SUFFICES ASSUME FlashType = "emmc", "0:HLOS" \in AltNames
               PROVE  mem.primaryboot["0:HLOS"] = mem.primaryboot["rootfs"]
  BY DEF FlagsPaired
<1>2. image \in Images /\ i > Len(image) /\ mem # NoMagic
  BY DEF FaultInv, PlaceOK, LoaderOK, Deciding, Upgrading
<1>3. "rootfs" \in AltNames /\ (Written("0:HLOS") <=> Written("rootfs"))
  BY <1>1, <1>2, WrittenAll DEF ImagesWellFormed, WellFormed, FaultInv
<1>4. named["0:HLOS"] = named["rootfs"]
  BY <1>1, <1>2 DEF FaultInv, LoaderOK
<1>5. \A p \in AltNames : mem.primaryboot[p] = IF Written(p) THEN 1 - named[p] ELSE named[p]
  BY <1>2 DEF FaultInv, TogglesOK, BeingWritten, Deciding
<1>. QED
  BY <1>1, <1>3, <1>4, <1>5

(* 0:BOOTCONFIG is erased, then written with a record newer than the       *)
(* backup.                                                                 *)
LEMMA FaultFirst ==
  ASSUME FaultInv, TypeOK', ImagesWellFormed,
         \/ EraseBootconfig(1, "erase_bootconfig", "write_bootconfig")
         \/ WriteBootconfig(1, "write_bootconfig", "erase_bootconfig1")
  PROVE  FaultInv'
<1>1. /\ UNCHANGED <<mem, named, ver, image, i>> /\ pc \in Deciding
      /\ \/ /\ pc = "erase_bootconfig" /\ pc' = "write_bootconfig"
            /\ copies' = [copies EXCEPT ![1] = NoMagic]
         \/ /\ pc = "write_bootconfig" /\ pc' = "erase_bootconfig1"
            /\ copies' = [copies EXCEPT ![1] = mem]
  BY DEF EraseBootconfig, WriteBootconfig, Goto, request, Deciding
<1>2. /\ copies'[2] = copies[2]
      /\ \/ pc' = "write_bootconfig" /\ copies'[1] = NoMagic
         \/ pc' = "erase_bootconfig1" /\ copies'[1] = mem
  BY <1>1 DEF FaultInv, TypeOK
<1>3. \A q : (Written(q)' <=> Written(q)) /\ ~BeingWritten(q) /\ ~BeingWritten(q)'
  BY <1>1 DEF Written, BeingWritten, Deciding
<1>4. FlagsPaired(mem)
  BY <1>1, NewFlagsPaired
<1>5. /\ mem # NoMagic /\ mem.age <= ver
      /\ copies[2] # NoMagic => copies[2].age < mem.age
      /\ mem.age \in Int /\ (copies[2] # NoMagic => copies[2].age \in Int)
  BY <1>1 DEF FaultInv, LoaderOK, TypeOK, BootCfg, Deciding
<1>6. AgesOK'
  BY <1>1, <1>2, <1>4, <1>5 DEF FaultInv, AgesOK, FlagsPaired
<1>7. LoaderOK'
  BY <1>1, <1>2 DEF FaultInv, LoaderOK, Sections, Deciding
<1>8. TogglesOK'
  BY <1>1, <1>2, <1>3 DEF FaultInv, TogglesOK, Sections, Deciding
<1>9. PlaceOK'
  BY <1>1, <1>2 DEF FaultInv, PlaceOK, Sections, Deciding, Decided, Upgrading
<1>. QED
  BY <1>6, <1>7, <1>8, <1>9 DEF FaultInv

(* 0:BOOTCONFIG1 follows; the later steps change no record. *)
LEMMA FaultTail ==
  ASSUME FaultInv, TypeOK',
         \/ EraseBootconfig(2, "erase_bootconfig1", "write_bootconfig1")
         \/ WriteBootconfig(2, "write_bootconfig1", "version_upgrade")
         \/ VersionUpgrade \/ EraseConfig \/ CopyConfig
  PROVE  FaultInv'
<1>1. /\ UNCHANGED <<mem, named, ver, image, i>>
      /\ pc \in Decided /\ pc' \in Decided
      /\ copies' \in {copies, [copies EXCEPT ![2] = NoMagic], [copies EXCEPT ![2] = mem]}
  BY DEF EraseBootconfig, WriteBootconfig, VersionUpgrade, EraseConfig, CopyConfig, Goto,
     request, Decided, Upgrading, Sections, Deciding
<1>2. copies'[1] = copies[1] /\ copies[1] = mem /\ copies'[2] \in {copies[2], NoMagic, mem}
  BY <1>1 DEF FaultInv, TypeOK, PlaceOK
<1>3. mem # NoMagic => mem.age \in Int
  BY DEF FaultInv, TypeOK, BootCfg
<1>4. AgesOK'
  BY <1>1, <1>2, <1>3 DEF FaultInv, AgesOK, FlagsPaired
<1>5. LoaderOK' /\ TogglesOK'
  BY <1>1 DEF LoaderOK, TogglesOK, Decided, Upgrading, Sections, Deciding
<1>6. PlaceOK'
  BY <1>1, <1>2 DEF FaultInv, PlaceOK, Decided, Upgrading, Sections, Deciding
<1>. QED
  BY <1>4, <1>5, <1>6 DEF FaultInv

(* Nothing happens. *)
LEMMA FaultStutter ==
  ASSUME FaultInv, UNCHANGED vars
  PROVE  FaultInv'
<1>1. TypeOK'
  BY DEF vars, FaultInv, TypeOK
<1>2. AgesOK'
  BY DEF vars, FaultInv, AgesOK, FlagsPaired
<1>3. LoaderOK'
  BY DEF vars, FaultInv, LoaderOK, NextBoot
<1>4. TogglesOK'
  BY DEF vars, FaultInv, TogglesOK, Written, BeingWritten
<1>5. PlaceOK'
  BY DEF vars, FaultInv, PlaceOK
<1>. QED
  BY <1>1, <1>2, <1>3, <1>4, <1>5 DEF FaultInv

(* With writes that fail and power lost anywhere, the flags, the ages and  *)
(* the copy being written still agree with what was booted.                *)
THEOREM FaultInvariance ==
  ASSUME ImagesWellFormed
  PROVE  Spec => []FaultInv
<1>1. Init => FaultInv
  BY FaultInit
<1>2. FaultInv /\ [Next]_vars => FaultInv'
  <2>. SUFFICES ASSUME FaultInv, [Next]_vars PROVE FaultInv'
    OBVIOUS
  <2>1. TypeOK'
    BY TypeStep DEF FaultInv
  <2>. QED
    BY <2>1, FaultBoot, FaultPowerOff, FaultStartUpgrade, FaultFlashSection,
       FaultEraseWrite, FaultSectionsDone, FaultFirst, FaultTail, FaultStutter
    DEF Next, UpgradeStep, FlashBootconfig
<1>. QED
  BY <1>1, <1>2, PTL DEF Spec

-----------------------------------------------------------------------------
(* The driver, which chooses by age, has the record that was booted,       *)
(* whatever went wrong in the upgrades before.                             *)
THEOREM DriverAndLoaderAgree ==
  ASSUME ImagesWellFormed
  PROVE  Spec => []DriverFollowsLoader
<1>1. FaultInv => DriverFollowsLoader
  BY DEF FaultInv, LoaderOK, TogglesOK, DriverFollowsLoader, ActivePart
<1>. QED
  BY <1>1, FaultInvariance, PTL

(* The flashing loop never touches a copy that would boot, whatever went   *)
(* wrong in the upgrades before, as long as a record is left.              *)
THEOREM OnlyInactiveIsFlashed ==
  ASSUME ImagesWellFormed
  PROVE  Spec => OnlyInactiveFlashed
<1>. DEFINE Aside == (pc \in {"erase", "write"} /\ NextBoot # NoMagic) =>
                       \A p \in AltNames : Firmware'[p] = Firmware[p]
<1>1. FaultInv /\ FaultInv' /\ [Next]_vars => [Aside]_vars
  <2>1. SUFFICES ASSUME FaultInv, FaultInv', Next, pc \in {"erase", "write"},
                        NextBoot # NoMagic, NEW p \in AltNames
                 PROVE  Firmware'[p] = Firmware[p]
    OBVIOUS
  <2>2. /\ copies' = copies
        /\ \/ slot' = slot
           \/ \E v : slot' = [slot EXCEPT ![SectionPart(image[i])][target] = v]
    BY <2>1, Zenon DEF Next, Boot, PowerOff, StartUpgrade, UpgradeStep, FlashSection, Erase,
       Write, SectionsDone, FlashBootconfig, EraseBootconfig, WriteBootconfig,
       VersionUpgrade, EraseConfig, CopyConfig, persistent
  <2>3. FlagsPaired(NextBoot) /\ NextBoot.primaryboot[p] = named[p]
    BY <2>1 DEF FaultInv, AgesOK, LoaderOK, NextBoot, SblConfig, Sections
  <2>4. BootSlot(NextBoot, p) = named[p] /\ NextBoot' = NextBoot /\ p \in Parts
    <3>1. BootSlot(NextBoot, p) = NextBoot.primaryboot[p]
      BY <2>1, <2>3 DEF BootSlot, ActivePart, FlagsPaired, ImagesWellFormed
    <3>. QED
      BY <2>2, <2>3, <3>1, AltNamesAssumption DEF NextBoot
  <2>5. Firmware[p] = slot[p][named[p]] /\ Firmware'[p] = slot'[p][named[p]]
    BY <2>4, SMTT(30) DEF Firmware
  <2>6. ASSUME NEW v, slot' = [slot EXCEPT ![SectionPart(image[i])][target] = v]
        PROVE  slot'[p][named[p]] = slot[p][named[p]]
    <3>1. CASE p # SectionPart(image[i])
      BY <2>1, <2>4, <2>6, <3>1 DEF FaultInv, TypeOK
    <3>2. CASE p = SectionPart(image[i])
      <4>1. mem # NoMagic
        BY <2>1 DEF FaultInv, LoaderOK, Sections
      <4>2. target = 1 - named[p] /\ named[p] \in {0, 1}
        BY <2>1, <2>4, <3>2, <4>1 DEF FaultInv, PlaceOK, TypeOK, Slots
      <4>3. slot'[p] = [slot[p] EXCEPT ![target] = v]
        BY <2>1, <2>4, <2>6, <3>2 DEF FaultInv, TypeOK
      <4>4. slot[p] \in [Slots -> {Blank} \cup Versions]
        BY <2>1, <2>4 DEF FaultInv, TypeOK
      <4>. QED
        BY <4>2, <4>3, <4>4 DEF Slots
    <3>. QED
      BY <3>1, <3>2
  <2>. QED
    BY <2>2, <2>5, <2>6, Zenon
<1>. QED
  BY <1>1, FaultInvariance, PTL DEF Spec, OnlyInactiveFlashed

(* Whatever happens, what platform_do_upgrade_ipq installs is one of the   *)
(* images that were checked.                                               *)
THEOREM InstalledIsWellFormed ==
  ASSUME ImagesWellFormed
  PROVE  Spec => []InstalledImageWellFormed
<1>1. FaultInv => InstalledImageWellFormed
  BY DEF FaultInv, PlaceOK, InstalledImageWellFormed, ImagesWellFormed
<1>. QED
  BY <1>1, FaultInvariance, PTL

-----------------------------------------------------------------------------
(* What an upgrade leaves on flash.  The steps below are taken from a      *)
(* state of OutcomeInv to one of FaultInv.                                 *)

(* Power on and off: without a record, the first copies bear the names.    *)
LEMMA OutcomePower ==
  ASSUME OutcomeInv, FaultInv', Boot \/ PowerOff
  PROVE  OutcomeInv'
<1>1. pc' \in {"off", "running", "prompt"}
  BY DEF Boot, PowerOff, Goto
<1>2. NoRecordOK'
  <2>1. SUFFICES ASSUME pc' = "running", mem' = NoMagic
                 PROVE  NextBoot' = NoMagic /\ \A p \in AltNames : named'[p] = 0
    BY <1>1 DEF NoRecordOK, Upgrading
  <2>2. NextBoot' = NoMagic
    BY <2>1 DEF FaultInv, LoaderOK
  <2>3. Boot /\ NextBoot = NoMagic
    BY <2>1, <2>2 DEF Boot, PowerOff, Goto, NextBoot, persistent
  <2>. QED
    BY <2>2, <2>3, AltNamesAssumption DEF Boot, ActivePart
<1>. QED
  BY <1>1, <1>2
  DEF OutcomeInv, SwitchedOK, FilledOK, ConfigCarried, Decided, Upgrading

(* A new upgrade has filled no copy yet. *)
LEMMA OutcomeStartUpgrade ==
  ASSUME OutcomeInv, FaultInv', NEW im \in Images, NEW saveConfig \in BOOLEAN,
         StartUpgrade(im, saveConfig)
  PROVE  OutcomeInv'
<1>1. /\ UNCHANGED <<copies, mem, named>>
      /\ pc = "running" /\ pc' = "flash_section" /\ i' = 1
  BY DEF StartUpgrade, Goto, persistent
<1>2. \A p : ~Written(p)'
  BY <1>1 DEF Written
<1>3. NoRecordOK'
  BY <1>1 DEF OutcomeInv, NoRecordOK, NextBoot
<1>. QED
  BY <1>1, <1>2, <1>3
  DEF OutcomeInv, SwitchedOK, FilledOK, ConfigCarried, Decided, Sections

(* A section is looked up: without a record, the first copy is written. *)
LEMMA OutcomeFlashSection ==
  ASSUME OutcomeInv, FaultInv', ImagesWellFormed, FlashSection
  PROVE  OutcomeInv'
<1>. DEFINE part == SectionPart(image[i])
<1>1. /\ UNCHANGED <<slot, copies, ver, image, named>> /\ TypeOK
      /\ pc = "flash_section" /\ i <= Len(image) /\ image \in Images
      /\ pc' \in {"flash_section", "erase"}
  BY DEF FlashSection, Goto, persistent, request, OutcomeInv, FaultInv, PlaceOK, Upgrading
<1>2. mem' = NoMagic <=> mem = NoMagic
  <2>1. NextBoot' = NextBoot
    BY <1>1 DEF NextBoot
  <2>. QED
    BY <1>1, <2>1 DEF OutcomeInv, FaultInv, LoaderOK, Sections
<1>3. part \in AltNames => pc' = "erase" /\ i' = i
  BY <1>1, NotYetWritten DEF FlashSection, Goto
<1>4. \A q \in AltNames : Written(q)' => Written(q)
  <2>1. CASE pc' = "erase" /\ i' = i
    BY <1>1, <2>1 DEF Written
  <2>2. CASE i' = i + 1 /\ part \notin AltNames
    BY <1>1, <2>2, WrittenNext
  <2>. QED
    BY <1>3, <2>1, <2>2 DEF FlashSection, Goto
<1>5. NoRecordOK'
  <2>1. SUFFICES ASSUME mem = NoMagic
                 PROVE  NoRecordOK'
    BY <1>2 DEF NoRecordOK
  <2>2. NextBoot = NoMagic /\ \A p \in AltNames : named[p] = 0
    BY <1>1, <2>1 DEF OutcomeInv, NoRecordOK, Upgrading
  <2>3. part \in AltNames => target' = 0
    BY <2>1, <2>2 DEF FlashSection
  <2>4. pc' = "erase" => i' = i
    BY <1>1 DEF FlashSection, Goto
  <2>. QED
    BY <1>1, <2>2, <2>3, <2>4 DEF NoRecordOK, NextBoot
<1>6. FilledOK => FilledOK'
  BY <1>1, <1>2, <1>4 DEF FilledOK, Upgrading
<1>. QED
  BY <1>1, <1>5, <1>6 DEF OutcomeInv, SwitchedOK, ConfigCarried, Decided, Sections

(* The copy that FilledOK speaks of. *)
NewCopy(p) == IF mem = NoMagic THEN 0 ELSE 1 - named[p]

(* A copy is erased, then written: of the partitions dealt with before,    *)
(* neither touches a copy.                                                 *)
LEMMA OutcomeEraseWrite ==
  ASSUME OutcomeInv, FaultInv', ImagesWellFormed, Erase \/ Write
  PROVE  OutcomeInv'
<1>. DEFINE part == SectionPart(image[i])
<1>1. /\ UNCHANGED <<copies, mem, named, ver, image, target>> /\ TypeOK
      /\ \/ pc = "erase" /\ pc' = "write" /\ i' = i
         \/ pc = "write" /\ pc' = "flash_section" /\ i' = i + 1
  BY DEF Erase, Write, Goto, request, OutcomeInv, FaultInv
<1>2. image \in Images /\ i <= Len(image)
  BY <1>1 DEF OutcomeInv, FaultInv, PlaceOK, Upgrading
<1>3. NoRecordOK'
  BY <1>1 DEF OutcomeInv, NoRecordOK, NextBoot, Upgrading
<1>4. part \in AltNames => ~Written(part) /\ target = NewCopy(part)
  <2>1. part \in AltNames => ~Written(part)
    BY <1>1, <1>2, NotYetWritten
  <2>2. part \in AltNames => target = NewCopy(part)
    BY <1>1 DEF OutcomeInv, FaultInv, PlaceOK, NoRecordOK, NewCopy, Upgrading
  <2>. QED
    BY <2>1, <2>2
<1>5. ASSUME ~ FlashMayFail, FilledOK, NEW q \in AltNames, Written(q)'
      PROVE  slot'[q][NewCopy(q)] = ver
  <2>1. Written(q) => slot[q][NewCopy(q)] = ver
    BY <1>1, <1>5 DEF FilledOK, NewCopy, Upgrading
  <2>2. q \in Parts /\ NewCopy(q) \in Slots /\ slot[q] \in [Slots -> {Blank} \cup Versions]
    BY <1>1, AltNamesAssumption DEF NewCopy, TypeOK, Slots
  <2>3. CASE q # part
    <3>1. slot'[q] = slot[q]
      BY <1>1, <2>2, <2>3 DEF Erase, Write, TypeOK
    <3>2. Written(q)
      <4>1. CASE i' = i
        BY <1>1, <1>5, <4>1 DEF Written
      <4>2. CASE i' = i + 1
        BY <1>1, <1>2, <1>5, <2>3, <4>2, WrittenNext
      <4>. QED
        BY <1>1, <4>1, <4>2
    <3>. QED
      BY <2>1, <3>1, <3>2
  <2>4. CASE q = part
    <3>1. pc = "write"
      <4>1. i' = i => Written(q)
        BY <1>1, <1>5 DEF Written
      <4>. QED
        BY <1>1, <1>4, <2>4, <4>1
    <3>2. slot' = [slot EXCEPT ![part][target] = ver]
      BY <1>5, <3>1 DEF Erase, Write
    <3>3. slot'[q] = [slot[q] EXCEPT ![target] = ver]
      BY <1>1, <2>2, <2>4, <3>2 DEF TypeOK
    <3>. QED
      BY <1>4, <2>2, <2>4, <3>3
  <2>. QED
    BY <2>3, <2>4
<1>6. ~ FlashMayFail => FilledOK'
  <2>1. ~ FlashMayFail => FilledOK
    BY DEF OutcomeInv
  <2>. QED
    BY <1>1, <1>5, <2>1 DEF FilledOK, NewCopy
<1>. QED
  BY <1>1, <1>3, <1>6 DEF OutcomeInv, SwitchedOK, ConfigCarried, Decided, Sections

(* The steps from the end of the loop to the first new record. *)
LEMMA OutcomeFirst ==
  ASSUME OutcomeInv, FaultInv',
         \/ SectionsDone
         \/ EraseBootconfig(1, "erase_bootconfig", "write_bootconfig")
         \/ WriteBootconfig(1, "write_bootconfig", "erase_bootconfig1")
  PROVE  OutcomeInv'
<1>1. /\ UNCHANGED <<slot, mem, named, ver, image, i>>
      /\ pc \in {"flash_section"} \cup Deciding
      /\ pc' \in Deciding \cup {"version_upgrade", "erase_bootconfig1"}
      /\ i > Len(image)
  BY DEF SectionsDone, EraseBootconfig, WriteBootconfig, Goto, persistent, request,
     Deciding, OutcomeInv, FaultInv, PlaceOK
<1>2. pc' \in Decided /\ mem # NoMagic => pc = "write_bootconfig"
  BY DEF SectionsDone, EraseBootconfig, WriteBootconfig, Goto, Decided, Upgrading, Deciding
<1>3. \A q : Written(q)' <=> Written(q)
  BY <1>1 DEF Written
<1>4. NoRecordOK'
  <2>1. mem = NoMagic => SectionsDone
    BY <1>1 DEF OutcomeInv, FaultInv, LoaderOK, EraseBootconfig, WriteBootconfig, Deciding
  <2>2. mem = NoMagic => copies' = copies /\ pc = "flash_section" /\ pc' = "version_upgrade"
    BY <2>1 DEF SectionsDone, Goto, persistent
  <2>. QED
    BY <1>1, <2>2 DEF OutcomeInv, NoRecordOK, NextBoot, Upgrading
<1>5. SwitchedOK'
  <2>1. SUFFICES ASSUME pc' \in Decided, mem # NoMagic, NEW p \in AltNames
                 PROVE  mem.primaryboot[p] = IF Written(p) THEN 1 - named[p] ELSE named[p]
    BY <1>1, <1>3 DEF SwitchedOK
  <2>2. pc = "write_bootconfig" /\ ~BeingWritten(p)
    BY <1>2, <2>1 DEF BeingWritten
  <2>. QED
    BY <2>1, <2>2 DEF OutcomeInv, FaultInv, TogglesOK, Deciding
<1>6. FilledOK => FilledOK'
  BY <1>1, <1>3 DEF FilledOK, Upgrading, Deciding
<1>. QED
  BY <1>1, <1>4, <1>5, <1>6 DEF OutcomeInv, ConfigCarried, Deciding

(* The configuration is copied to the volume of the copy that is to boot.  *)
LEMMA OutcomeCopyConfig ==
  ASSUME OutcomeInv, TypeOK', RootfsCarried, CopyConfig
  PROVE  data'[DataVolume(BootSlot(NextBoot, "rootfs"))]
<1>. DEFINE s == IF mem # NoMagic /\ "rootfs" \in AltNames
                 THEN UpgradeSlot(mem, "rootfs", named) ELSE named["rootfs"]
<1>1. /\ pc = "copy_config" /\ "rootfs" \in AltNames /\ TypeOK /\ image \in Images
      /\ data' = [data EXCEPT ![DataVolume(s)] = TRUE]
  BY DEF CopyConfig, RootfsCarried, OutcomeInv, FaultInv, PlaceOK, Upgrading
<1>2. pc \in Decided /\ copies[1] = mem /\ Written("rootfs")
  <2>1. pc \in Decided
    BY <1>1 DEF Decided, Sections, Deciding, Upgrading
  <2>2. i > Len(image) /\ copies[1] = mem
    BY <2>1 DEF OutcomeInv, FaultInv, PlaceOK, SwitchedOK
  <2>. QED
    BY <1>1, <2>1, <2>2, WrittenAll DEF RootfsCarried
<1>3. BootSlot(NextBoot, "rootfs") = ActivePart(NextBoot, "rootfs")
  BY DEF BootSlot
<1>4. DataVolume(s) = DataVolume(BootSlot(NextBoot, "rootfs"))
  <2>1. CASE FlashType = "emmc"
    BY <2>1 DEF DataVolume
  <2>2. CASE FlashType = "nand" /\ mem = NoMagic
    <3>1. NextBoot = NoMagic /\ named["rootfs"] = 0
      BY <1>1, <2>2 DEF OutcomeInv, NoRecordOK, Upgrading
    <3>. QED
      BY <1>3, <2>2, <3>1 DEF ActivePart
  <2>3. CASE FlashType = "nand" /\ mem # NoMagic
    <3>1. s = 1 - named["rootfs"]
      BY <1>1, <2>3 DEF UpgradeSlot
    <3>2. NextBoot = mem /\ mem.primaryboot["rootfs"] = 1 - named["rootfs"]
      BY <1>1, <1>2, <2>3 DEF OutcomeInv, SwitchedOK, NextBoot, SblConfig
    <3>. QED
      BY <1>1, <1>3, <2>3, <3>1, <3>2 DEF ActivePart
  <2>. QED
    BY <2>1, <2>2, <2>3, FlashTypeAssumption
<1>5. DataVolume(s) \in Slots
  <2>1. NextBoot \in Records
    BY <1>1, NextBootType
  <2>2. BootSlot(NextBoot, "rootfs") \in Slots
    BY <2>1, SlotTypes
  <2>. QED
    BY <1>4, <2>2 DEF DataVolume, Slots
<1>. QED
  BY <1>1, <1>4, <1>5 DEF TypeOK

(* The steps after the first new record leave copies and flags alone. *)
LEMMA OutcomeTail ==
  ASSUME OutcomeInv, FaultInv',
         \/ EraseBootconfig(2, "erase_bootconfig1", "write_bootconfig1")
         \/ WriteBootconfig(2, "write_bootconfig1", "version_upgrade")
         \/ VersionUpgrade \/ EraseConfig \/ CopyConfig
  PROVE  OutcomeInv'
<1>1. /\ UNCHANGED <<slot, mem, named, ver, image, i>>
      /\ pc \in Decided /\ pc' \in Decided
      /\ copies' \in {copies, [copies EXCEPT ![2] = NoMagic], [copies EXCEPT ![2] = mem]}
  BY DEF EraseBootconfig, WriteBootconfig, VersionUpgrade, EraseConfig, CopyConfig, Goto,
     request, Decided, Upgrading, Sections, Deciding
<1>2. \A q : Written(q)' <=> Written(q)
  BY <1>1 DEF Written
<1>3. NoRecordOK'
  <2>1. SUFFICES ASSUME mem = NoMagic
                 PROVE  NextBoot' = NoMagic /\ \A p \in AltNames : named[p] = 0
    BY <1>1 DEF NoRecordOK, Decided, Sections
  <2>2. NextBoot = NoMagic /\ \A p \in AltNames : named[p] = 0
    BY <1>1, <2>1 DEF OutcomeInv, NoRecordOK, Decided
  <2>3. copies[1] = NoMagic /\ copies[2] = NoMagic
    BY <2>2 DEF NextBoot, SblConfig
  <2>4. copies'[1] = NoMagic /\ copies'[2] = NoMagic
    <3>1. copies \in [{1, 2} -> BootCfg \cup {NoMagic}]
      BY Zenon DEF OutcomeInv, FaultInv, TypeOK
    <3>2. copies' \in {copies, [copies EXCEPT ![2] = NoMagic]}
      BY <1>1, <2>1, Zenon
    <3>. QED
      BY <2>3, <3>1, <3>2
  <2>. QED
    BY <2>2, <2>4 DEF NextBoot, SblConfig
<1>4. SwitchedOK'
  BY <1>1, <1>2, Zenon DEF OutcomeInv, SwitchedOK
<1>5. FilledOK => FilledOK'
  BY <1>1, <1>2 DEF FilledOK, Decided
<1>6. RootfsCarried => ConfigCarried'
  <2>1. SUFFICES ASSUME RootfsCarried, pc' = "reboot", keep'
                 PROVE  data'[DataVolume(BootSlot(NextBoot', "rootfs"))]
    BY DEF ConfigCarried, DataVolume, BootSlot, ActivePart
  <2>2. CopyConfig
    BY <2>1 DEF EraseBootconfig, WriteBootconfig, VersionUpgrade, EraseConfig, Goto, request
  <2>3. NextBoot' = NextBoot
    BY <2>2 DEF CopyConfig, NextBoot
  <2>. QED
    BY <2>1, <2>2, <2>3, OutcomeCopyConfig DEF FaultInv
<1>. QED
  BY <1>3, <1>4, <1>5, <1>6 DEF OutcomeInv

(* Nothing happens. *)
LEMMA OutcomeStutter ==
  ASSUME OutcomeInv, FaultInv', UNCHANGED vars
  PROVE  OutcomeInv'
<1>1. NoRecordOK'
  BY DEF vars, OutcomeInv, NoRecordOK, NextBoot
<1>2. SwitchedOK'
  BY DEF vars, OutcomeInv, SwitchedOK, Written
<1>3. FilledOK => FilledOK'
  BY DEF vars, FilledOK, Written
<1>4. ConfigCarried => ConfigCarried'
  BY DEF vars, ConfigCarried, NextBoot
<1>. QED
  BY <1>1, <1>2, <1>3, <1>4 DEF OutcomeInv

(* Whatever faults came before, the record an upgrade writes names the     *)
(* copies it has written, and without a record the first copies are both   *)
(* what is written and what is loaded.                                     *)
THEOREM OutcomeInvariance ==
  ASSUME ImagesWellFormed
  PROVE  Spec => []OutcomeInv
<1>1. Init => OutcomeInv
  <2>. SUFFICES ASSUME Init PROVE OutcomeInv
    OBVIOUS
  <2>1. FaultInv /\ pc = "off"
    BY FaultInit DEF Init
  <2>. QED
    BY <2>1 DEF OutcomeInv, NoRecordOK, SwitchedOK, FilledOK, ConfigCarried, Decided, Upgrading
<1>2. OutcomeInv /\ FaultInv' /\ [Next]_vars => OutcomeInv'
  BY OutcomePower, OutcomeStartUpgrade, OutcomeFlashSection, OutcomeEraseWrite,
     OutcomeFirst, OutcomeTail, OutcomeStutter
  DEF Next, UpgradeStep, FlashBootconfig
<1>. QED
  BY <1>1, <1>2, FaultInvariance, PTL DEF Spec

(* An upgrade whose writes succeed boots next in every partition the image *)
(* carries, even if the upgrades before it were cut at the worst moments   *)
(* and took both records with them.                                        *)
THEOREM UpgradeIsRegistered ==
  ASSUME ImagesWellFormed, FlashMayFail = FALSE
  PROVE  Spec => []UpgradeRegistered
<1>1. OutcomeInv => UpgradeRegistered
  <2>1. SUFFICES ASSUME OutcomeInv,
                        pc \in {"version_upgrade", "erase_config", "copy_config", "reboot"},
                        NEW k \in 1 .. Len(image), SectionPart(image[k]) \in AltNames
                 PROVE  Firmware[SectionPart(image[k])] = ver
    BY DEF UpgradeRegistered
  <2>. DEFINE p == SectionPart(image[k])
  <2>2. pc \in Decided /\ pc \in Upgrading
    BY <2>1 DEF Decided, Sections, Deciding, Upgrading
  <2>3. i > Len(image) /\ copies[1] = mem /\ image \in Images /\ AgesOK /\ TypeOK
    BY <2>1, <2>2 DEF OutcomeInv, FaultInv, SwitchedOK, PlaceOK
  <2>4. Written(p)
    BY <2>1, <2>3, WrittenAll DEF FlashedBy
  <2>5. slot[p][NewCopy(p)] = ver
    BY <2>1, <2>2, <2>4 DEF OutcomeInv, FilledOK, NewCopy
  <2>6. BootSlot(NextBoot, p) = NewCopy(p)
    <3>1. CASE mem = NoMagic
      BY <2>1, <2>2, <3>1 DEF OutcomeInv, NoRecordOK, NewCopy, BootSlot, ActivePart
    <3>2. CASE mem # NoMagic
      <4>1. NextBoot = mem /\ FlagsPaired(mem)
        BY <2>3, <3>2 DEF NextBoot, SblConfig, AgesOK
      <4>2. mem.primaryboot[p] = 1 - named[p]
        BY <2>1, <2>2, <2>4, <3>2 DEF OutcomeInv, SwitchedOK
      <4>3. BootSlot(mem, p) = mem.primaryboot[p]
        BY <2>1, <3>2, <4>1 DEF BootSlot, ActivePart, FlagsPaired, ImagesWellFormed
      <4>. QED
        BY <3>2, <4>1, <4>2, <4>3 DEF NewCopy
    <3>. QED
      BY <3>1, <3>2
  <2>. QED
    BY <2>1, <2>5, <2>6, AltNamesAssumption DEF Firmware
<1>. QED
  BY <1>1, OutcomeInvariance, PTL

(* The configuration that was to be kept is where the next boot mounts it, *)
(* whatever failed during this upgrade or before it.                       *)
THEOREM ConfigIsCarried ==
  ASSUME ImagesWellFormed, RootfsCarried
  PROVE  Spec => []ConfigCarried
<1>1. OutcomeInv => ConfigCarried
  BY DEF OutcomeInv
<1>. QED
  BY <1>1, OutcomeInvariance, PTL
=============================================================================
