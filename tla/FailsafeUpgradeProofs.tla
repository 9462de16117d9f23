----------------------- MODULE FailsafeUpgradeProofs ------------------------
(***************************************************************************)
(* Proofs about FailsafeUpgrade, for every set of partitions, every set of *)
(* images and every number of upgrades.                                    *)
(***************************************************************************)
EXTENDS FailsafeUpgrade, TLAPS

Records == BootCfg \cup {NoMagic}

-----------------------------------------------------------------------------
(* The driver's record is a record, and there is one unless both copies    *)
(* are gone (bootconfig_partition_init).                                   *)
LEMMA DriverConfigType ==
  ASSUME NEW c1 \in Records, NEW c2 \in Records
  PROVE  /\ DriverConfig(c1, c2) \in Records
         /\ DriverConfig(c1, c2) = NoMagic <=> c1 = NoMagic /\ c2 = NoMagic
<1>1. \A a \in 0 .. AgeMod - 1 : (a + 1) % AgeMod \in 0 .. AgeMod - 1
  BY AgeModAssumption
<1>2. ASSUME NEW r \in BootCfg
      PROVE  [r EXCEPT !.age = (@ + 1) % AgeMod] \in BootCfg
  BY <1>1, <1>2 DEF BootCfg
<1>. DEFINE b1 == IF c1 = NoMagic THEN c2 ELSE c1
            b2 == IF c2 = NoMagic THEN b1 ELSE c2
            newest == IF b2.age > b1.age THEN b2 ELSE b1
<1>3. DriverConfig(c1, c2) = IF b1 = NoMagic THEN NoMagic
                             ELSE [newest EXCEPT !.age = (@ + 1) % AgeMod]
  BY DEF DriverConfig
<1>4. CASE b1 = NoMagic
  BY <1>3, <1>4 DEF Records
<1>5. CASE b1 # NoMagic
  <2>1. b1 \in BootCfg /\ b2 \in BootCfg
    BY <1>5 DEF Records
  <2>2. newest \in BootCfg
    BY <2>1
  <2>3. DriverConfig(c1, c2) \in BootCfg
    BY <1>2, <1>3, <1>5, <2>2
  <2>. QED
    BY <1>5, <2>3, NoMagicAssumption DEF Records
<1>. QED
  BY <1>4, <1>5

(* The copy that a record names for a partition is one of the two. *)
LEMMA SlotTypes ==
  ASSUME NEW cfg \in Records, NEW p
  PROVE  ActivePart(cfg, p) \in Slots /\ BootSlot(cfg, p) \in Slots
BY DEF ActivePart, BootSlot, Records, BootCfg, Slots

(* Toggling a flag keeps a record a record, and changes that flag alone.   *)
LEMMA ToggleFlag ==
  ASSUME NEW cfg \in BootCfg, NEW p \in AltNames
  PROVE  /\ Toggle(cfg, p) \in BootCfg
         /\ Toggle(cfg, p).age = cfg.age
         /\ Toggle(cfg, p).primaryboot[p] = 1 - cfg.primaryboot[p]
         /\ \A q \in AltNames \ {p} :
              Toggle(cfg, p).primaryboot[q] = cfg.primaryboot[q]
BY DEF Toggle, BootCfg, Slots

(* The first boot loader finds a record or none. *)
LEMMA NextBootType ==
  ASSUME TypeOK
  PROVE  NextBoot \in Records
BY DEF TypeOK, NextBoot, SblConfig, Records

(* upgradepartition names one of the two copies. *)
LEMMA UpgradeSlotType ==
  ASSUME NEW cfg \in BootCfg, NEW p \in AltNames, NEW names \in [Parts -> Slots]
  PROVE  UpgradeSlot(cfg, p, names) \in Slots
BY AltNamesAssumption DEF UpgradeSlot, BootCfg, Slots
-----------------------------------------------------------------------------
(* Every step of the scripts, the driver and the boot loaders keeps the    *)
(* types.                                                                  *)
LEMMA TypeStep ==
  ASSUME TypeOK, [Next]_vars
  PROVE  TypeOK'
<1>. USE DEF TypeOK
<1>a. Blank \in Int /\ Versions \subseteq Nat
  BY MaxVersionAssumption DEF Blank, Versions
<1>1. CASE Boot
  <2>1. named' \in [Parts -> Slots]
    BY <1>1, SlotTypes, NextBootType DEF Boot
  <2>2. mem' \in BootCfg \cup {NoMagic}
    <3>1. DriverConfig(copies[1], copies[2]) \in BootCfg \cup {NoMagic}
      BY DriverConfigType DEF Records
    <3>. QED
      BY <1>1, <3>1 DEF Boot
  <2>3. pc' \in {"off", "running", "prompt"} \cup Upgrading
    BY <1>1 DEF Boot, Goto
  <2>. QED
    BY <1>1, <2>1, <2>2, <2>3 DEF Boot, persistent, request
<1>2. CASE PowerOff
  BY <1>2 DEF PowerOff, Goto, persistent, request
<1>3. ASSUME NEW im \in Images, NEW saveConfig \in BOOLEAN,
             StartUpgrade(im, saveConfig)
      PROVE  TypeOK'
  <2>1. ver' \in Versions
    BY <1>3, MaxVersionAssumption DEF StartUpgrade, Versions
  <2>2. pc' \in Upgrading
    BY <1>3 DEF StartUpgrade, Goto, Upgrading
  <2>. QED
    BY <1>3, <2>1, <2>2 DEF StartUpgrade, persistent
<1>4. CASE FlashSection
  <2>. DEFINE p == SectionPart(image[i])
              failsafe == mem # NoMagic /\ p \in AltNames
  <2>1. mem' = IF failsafe THEN Toggle(mem, p) ELSE mem
    BY <1>4 DEF FlashSection
  <2>2. mem' \in BootCfg \cup {NoMagic}
    BY <2>1, ToggleFlag
  <2>3. target' \in Slots
    <3>1. CASE failsafe
      <4>1. mem \in BootCfg /\ mem' \in BootCfg
        BY <2>1, <3>1, ToggleFlag
      <4>2. target' = UpgradeSlot(IF image[i] = "ubi" THEN mem' ELSE mem, p, named)
        BY <1>4, <3>1 DEF FlashSection
      <4>3. UpgradeSlot(mem, p, named) \in Slots /\ UpgradeSlot(mem', p, named) \in Slots
        BY <3>1, <4>1, UpgradeSlotType
      <4>. QED
        BY <4>2, <4>3
    <3>2. CASE ~failsafe
      <4>1. target' = IF p \in Parts /\ FlashType = "nand" THEN named[p] ELSE 0
        BY <1>4, <3>2 DEF FlashSection
      <4>. QED
        BY <4>1 DEF Slots
    <3>. QED
      BY <3>1, <3>2
  <2>4. pc' \in Upgrading /\ i' \in Nat \ {0}
    BY <1>4 DEF FlashSection, Goto, Upgrading
  <2>. QED
    BY <1>4, <2>2, <2>3, <2>4 DEF FlashSection, persistent, request
<1>5. CASE Erase
  <2>1. slot' \in [Parts -> [Slots -> {Blank} \cup Versions]]
    BY <1>5, Zenon DEF Erase
  <2>2. data' \in [Slots -> BOOLEAN]
    BY <1>5 DEF Erase
  <2>3. pc' \in Upgrading
    BY <1>5 DEF Erase, Goto, Upgrading
  <2>. QED
    BY <1>5, <2>1, <2>2, <2>3 DEF Erase, request
<1>6. CASE Write
  <2>1. slot' \in [Parts -> [Slots -> {Blank} \cup Versions]]
    BY <1>6 DEF Write
  <2>2. pc' \in Upgrading /\ i' \in Nat \ {0}
    BY <1>6 DEF Write, Goto, Upgrading
  <2>. QED
    BY <1>6, <2>1, <2>2 DEF Write, request
<1>7. CASE SectionsDone
  BY <1>7 DEF SectionsDone, Goto, Upgrading, persistent, request
<1>8. CASE FlashBootconfig
  <2>1. copies' \in [{1, 2} -> BootCfg \cup {NoMagic}]
    BY <1>8 DEF FlashBootconfig, EraseBootconfig, WriteBootconfig
  <2>2. pc' \in Upgrading
    BY <1>8 DEF FlashBootconfig, EraseBootconfig, WriteBootconfig, Goto, Upgrading
  <2>. QED
    BY <1>8, <2>1, <2>2 DEF FlashBootconfig, EraseBootconfig, WriteBootconfig, request
<1>9. CASE VersionUpgrade
  BY <1>9 DEF VersionUpgrade, Goto, Upgrading, request
<1>10. CASE EraseConfig
  <2>1. data' \in [Slots -> BOOLEAN]
    BY <1>10, Zenon DEF EraseConfig
  <2>. QED
    BY <1>10, <2>1 DEF EraseConfig, Goto, Upgrading, request
<1>11. CASE CopyConfig
  <2>1. data' \in [Slots -> BOOLEAN]
    BY <1>11, Zenon DEF CopyConfig
  <2>. QED
    BY <1>11, <2>1 DEF CopyConfig, Goto, Upgrading, request
<1>12. CASE UNCHANGED vars
  BY <1>12 DEF vars
<1>. QED
  BY <1>1, <1>2, <1>3, <1>4, <1>5, <1>6, <1>7, <1>8, <1>9, <1>10, <1>11, <1>12
  DEF Next, UpgradeStep

(* A factory-programmed device is well typed. *)
LEMMA TypeInit ==
  ASSUME Init
  PROVE  TypeOK
BY AgeModAssumption, MaxVersionAssumption
DEF Init, TypeOK, BootCfg, Slots, Versions, Blank

(* The types hold in every reachable state, with any faults. *)
THEOREM TypeCorrect == Spec => []TypeOK
<1>1. Init => TypeOK
  BY TypeInit
<1>2. TypeOK /\ [Next]_vars => TypeOK'
  BY TypeStep
<1>. QED
  BY <1>1, <1>2, PTL DEF Spec
-----------------------------------------------------------------------------
(* What the main theorems assume: images such as pack.py makes, writes     *)
(* that succeed, and no second cut while the backup is out of date.        *)
Provided ==
  /\ ImagesWellFormed
  /\ FlashMayFail = FALSE
  /\ DoubleFault = FALSE

(* If the first copy is not older than the second, the driver keeps the    *)
(* record that the boot loader followed, one step older.                   *)
LEMMA DriverAgrees ==
  ASSUME NEW c1 \in Records, NEW c2 \in Records,
         SblConfig(c1, c2) # NoMagic,
         SblConfig(c1, c2).age + 1 < AgeMod,
         c1 # NoMagic /\ c2 # NoMagic => c2.age <= c1.age
  PROVE  /\ DriverConfig(c1, c2).primaryboot = SblConfig(c1, c2).primaryboot
         /\ DriverConfig(c1, c2).age = SblConfig(c1, c2).age + 1
<1>. DEFINE b == SblConfig(c1, c2)
<1>1. b \in BootCfg
  BY DEF SblConfig, Records
<1>2. (b.age + 1) % AgeMod = b.age + 1
  BY <1>1, AgeModAssumption DEF BootCfg
<1>3. [b EXCEPT !.age = (@ + 1) % AgeMod].primaryboot = b.primaryboot
  BY <1>1 DEF BootCfg
<1>4. [b EXCEPT !.age = (@ + 1) % AgeMod].age = b.age + 1
  BY <1>1, <1>2 DEF BootCfg
<1>5. DriverConfig(c1, c2) = [b EXCEPT !.age = (@ + 1) % AgeMod]
  <2>1. CASE c1 = NoMagic
    BY <2>1 DEF DriverConfig, SblConfig
  <2>2. CASE c1 # NoMagic /\ c2 = NoMagic
    BY <2>2 DEF DriverConfig, SblConfig
  <2>3. CASE c1 # NoMagic /\ c2 # NoMagic
    <3>1. c1 \in BootCfg /\ c2 \in BootCfg
      BY <2>3 DEF Records
    <3>2. ~(c2.age > c1.age)
      BY <2>3, <3>1 DEF BootCfg
    <3>. QED
      BY <2>3, <3>2 DEF DriverConfig, SblConfig
  <2>. QED
    BY <2>1, <2>2, <2>3
<1>. QED
  BY <1>3, <1>4, <1>5

(* No partition of AltNames is written twice: the section at hand is its   *)
(* first.                                                                  *)
LEMMA NotYetWritten ==
  ASSUME TypeOK, ImagesWellFormed, image \in Images, i <= Len(image),
         SectionPart(image[i]) \in AltNames
  PROVE  ~Written(SectionPart(image[i])) /\ Reachable(image[i])
<1>1. i \in 1 .. Len(image) /\ Len(image) \in Nat
  BY ImagesAssumption DEF TypeOK
<1>. QED
  BY <1>1 DEF Written, ImagesWellFormed, WellFormed

(* Going on to the next section adds the one at hand to those written.     *)
LEMMA WrittenNext ==
  ASSUME TypeOK, image \in Images, i <= Len(image),
         image' = image, i' = i + 1, NEW p
  PROVE  Written(p)' <=> Written(p) \/ SectionPart(image[i]) = p
<1>1. i \in 1 .. Len(image) /\ Len(image) \in Nat
  BY ImagesAssumption DEF TypeOK
<1>. QED
  BY <1>1 DEF Written, TypeOK

(* After the last section, what is written is what the image carries.      *)
LEMMA WrittenAll ==
  ASSUME TypeOK, image \in Images, i > Len(image), NEW p
  PROVE  Written(p) <=> FlashedBy(image, p)
<1>1. Len(image) \in Nat
  BY ImagesAssumption
<1>. QED
  BY <1>1 DEF Written, FlashedBy, TypeOK
-----------------------------------------------------------------------------
(* Init establishes the inductive invariant. *)
LEMMA InvInit ==
  ASSUME Init, Provided
  PROVE  RecordInv
<1>1. TypeOK
  BY TypeInit
<1>2. pc = "off" /\ copies[1] = copies[2] /\ NextBoot = copies[1]
  BY DEF Init, NextBoot, SblConfig
<1>3. copies[1] \in BootCfg /\ copies[1] # NoMagic
  BY NoMagicAssumption, AgeModAssumption DEF Init, BootCfg, Slots
<1>4. RecordsOK
  <2>1. copies[1].age = 0 /\ \A p \in AltNames : copies[1].primaryboot[p] = 0
    BY DEF Init
  <2>2. \A p \in AltNames : slot[p][0] # Blank
    <3>1. \A p \in AltNames : p \in Parts
      BY AltNamesAssumption
    <3>2. \A p \in Parts : slot[p][0] = 0
      BY DEF Init, Slots
    <3>3. Blank # 0
      BY DEF Blank
    <3>. QED
      BY <3>1, <3>2, <3>3
  <2>3. FlagsPaired(copies[1])
    BY <2>1 DEF FlagsPaired, Provided, ImagesWellFormed
  <2>. QED
    BY <1>2, <1>3, <2>1, <2>2, <2>3, SMTT(30) DEF RecordsOK, Init
<1>. QED
  BY <1>1, <1>2, <1>4
  DEF RecordInv, BootedOK, FlagsOK, ProgressOK, Sections, Deciding, Decided, Upgrading

(* Power on: the driver's record names what the loaders booted. *)
LEMMA InvBoot ==
  ASSUME RecordInv, TypeOK', Provided, Boot
  PROVE  RecordInv'
<1>1. UNCHANGED <<slot, copies, ver, image, i, target>> /\ pc = "off"
  BY DEF Boot, persistent, request
<1>2. pc' \in {"running", "prompt"}
  BY DEF Boot, Goto
<1>3. NextBoot \in BootCfg /\ NextBoot # NoMagic /\ NextBoot' = NextBoot
  BY <1>1, NextBootType DEF RecordInv, RecordsOK, NextBoot, Records
<1>4. RecordsOK'
  BY <1>1, <1>2, <1>3 DEF RecordInv, RecordsOK, FlagsPaired
<1>5. ASSUME pc' = "running"
      PROVE  BootedOK' /\ FlagsOK'
  <2>1. mem' = DriverConfig(copies[1], copies[2])
    BY <1>5 DEF Boot, Goto
  <2>2. \A p \in AltNames : named'[p] = NextBoot.primaryboot[p]
    BY <1>3, AltNamesAssumption DEF Boot, ActivePart
  <2>3. copies[1] \in Records /\ copies[2] \in Records
    BY DEF RecordInv, TypeOK, Records
  <2>4. NextBoot.age <= ver /\ ver + 1 < AgeMod /\ ver \in Nat /\ NextBoot.age \in Nat
    BY <1>1, <1>3, AgeAssumption, MaxVersionAssumption, AgeModAssumption
    DEF RecordInv, RecordsOK, NextBoot, SblConfig, TypeOK, Versions, BootCfg
  <2>5. mem'.primaryboot = NextBoot.primaryboot /\ mem'.age = NextBoot.age + 1
    <3>1. NextBoot = SblConfig(copies[1], copies[2])
      BY DEF NextBoot
    <3>2. SblConfig(copies[1], copies[2]).age + 1 < AgeMod
      BY <2>4, <3>1, AgeModAssumption, MaxVersionAssumption, AgeAssumption
    <3>3. copies[1] # NoMagic /\ copies[2] # NoMagic => copies[2].age <= copies[1].age
      BY DEF RecordInv, RecordsOK
    <3>. QED
      BY <1>3, <2>1, <2>3, <3>1, <3>2, <3>3, DriverAgrees
  <2>6. mem' # NoMagic
    BY <1>3, <2>1, <2>3, DriverConfigType DEF NextBoot, SblConfig
  <2>7. copies[2] # NoMagic => copies[2].age < mem'.age
    BY <2>3, <2>4, <2>5, NoMagicAssumption
    DEF RecordInv, RecordsOK, NextBoot, SblConfig, Records, BootCfg
  <2>8. FlashType = "emmc" /\ "0:HLOS" \in AltNames =>
          named'["0:HLOS"] = named'["rootfs"]
    BY <1>1, <1>3, <2>2 DEF Provided, ImagesWellFormed, RecordInv, RecordsOK, NextBoot,
       SblConfig, FlagsPaired
  <2>9. \A p \in AltNames : slot'[p][named'[p]] # Blank
    BY <1>1, <2>2 DEF RecordInv, RecordsOK
  <2>10. BootedOK'
    BY <1>1, <1>3, <1>5, <2>2, <2>4, <2>5, <2>6, <2>7, <2>8, <2>9 DEF BootedOK
  <2>11. FlagsOK'
    BY <1>5, <2>2, <2>5 DEF FlagsOK, Sections, Deciding
  <2>. QED
    BY <2>10, <2>11
<1>6. ASSUME pc' = "prompt"
      PROVE  BootedOK' /\ FlagsOK'
  BY <1>6 DEF BootedOK, FlagsOK, Sections, Deciding
<1>7. ProgressOK'
  BY <1>2 DEF ProgressOK, Sections, Deciding, Decided, Upgrading
<1>. QED
  BY <1>2, <1>4, <1>5, <1>6, <1>7 DEF RecordInv

(* Power off: what boots next is complete.  While 0:BOOTCONFIG is erased   *)
(* this rests on the backup.                                               *)
LEMMA InvPowerOff ==
  ASSUME RecordInv, TypeOK', Provided, PowerOff
  PROVE  RecordInv'
<1>1. UNCHANGED <<slot, copies, ver>> /\ pc' = "off" /\ NextBoot' = NextBoot
  BY DEF PowerOff, Goto, persistent, request, NextBoot
<1>2. NextBoot # NoMagic /\ \A p \in AltNames : slot[p][NextBoot.primaryboot[p]] # Blank
  <2>1. CASE pc = "write_bootconfig"
    <3>1. BackupCurrent /\ copies[1] = NoMagic
      BY <2>1 DEF PowerOff, MayLosePower, Provided, RecordInv, ProgressOK
    <3>2. NextBoot = copies[2] /\ \A p \in AltNames : NextBoot.primaryboot[p] = named[p]
      BY <3>1 DEF NextBoot, SblConfig, BackupCurrent
    <3>3. \A p \in AltNames : slot[p][named[p]] # Blank
      BY <2>1 DEF RecordInv, BootedOK, Deciding
    <3>. QED
      BY <3>1, <3>2, <3>3 DEF BackupCurrent
  <2>2. CASE pc # "write_bootconfig"
    BY <2>2 DEF RecordInv, RecordsOK
  <2>. QED
    BY <2>1, <2>2
<1>3. RecordsOK'
  BY <1>1, <1>2 DEF RecordInv, RecordsOK, FlagsPaired
<1>. QED
  BY <1>1, <1>3
  DEF RecordInv, BootedOK, FlagsOK, ProgressOK, Sections, Deciding, Decided, Upgrading

(* A new upgrade has written nothing yet. *)
LEMMA InvStartUpgrade ==
  ASSUME RecordInv, TypeOK', NEW im \in Images, NEW saveConfig \in BOOLEAN,
         StartUpgrade(im, saveConfig)
  PROVE  RecordInv'
<1>1. /\ UNCHANGED <<slot, copies, mem, named>>
      /\ pc = "running" /\ pc' = "flash_section"
      /\ image' = im /\ i' = 1 /\ ver' = ver + 1 /\ ver \in Nat
  BY MaxVersionAssumption DEF StartUpgrade, Goto, persistent, RecordInv, TypeOK, Versions
<1>2. NextBoot' = NextBoot
  BY <1>1 DEF NextBoot
<1>3. RecordsOK'
  <2>1. \A c \in {1, 2} : copies[c] # NoMagic => copies[c].age \in Int
    BY DEF RecordInv, TypeOK, BootCfg
  <2>. QED
    BY <1>1, <1>2, <2>1 DEF RecordInv, RecordsOK, FlagsPaired
<1>4. BootedOK'
  BY <1>1, <1>2 DEF RecordInv, BootedOK
<1>5. \A p : ~Written(p)' /\ ~BeingWritten(p)'
  BY <1>1 DEF Written, BeingWritten
<1>6. FlagsOK'
  BY <1>1, <1>5 DEF RecordInv, FlagsOK
<1>7. ProgressOK'
  BY <1>1 DEF ProgressOK, Deciding, Decided, Sections, Upgrading
<1>. QED
  BY <1>3, <1>4, <1>6, <1>7 DEF RecordInv
(* A section is looked up: its flag flips and the copy that was not booted *)
(* becomes the target; sections without a partition are passed over.       *)
LEMMA InvFlashSection ==
  ASSUME RecordInv, TypeOK', Provided, FlashSection
  PROVE  RecordInv'
<1>. DEFINE sec == image[i]
            p == SectionPart(sec)
<1>1. /\ UNCHANGED <<slot, copies, ver, image, named>>
      /\ pc = "flash_section" /\ i <= Len(image) /\ image \in Images
  BY DEF FlashSection, persistent, request, RecordInv, ProgressOK, Upgrading
<1>2. NextBoot' = NextBoot /\ mem \in BootCfg /\ mem # NoMagic
  BY <1>1 DEF NextBoot, RecordInv, TypeOK, BootedOK, Sections
<1>3. pc' \in {"flash_section", "erase"}
  BY <1>1 DEF FlashSection, Goto
<1>4. RecordsOK'
  BY <1>1, <1>2, <1>3 DEF RecordInv, RecordsOK, FlagsPaired
<1>5. ASSUME mem' # NoMagic, mem'.age = mem.age
      PROVE  BootedOK'
  BY <1>1, <1>2, <1>3, <1>5 DEF RecordInv, BootedOK, Sections
<1>6. \A q \in AltNames : ~BeingWritten(q)
  BY <1>1 DEF BeingWritten
<1>7. CASE p \in AltNames
  <2>1. ~Written(p) /\ Reachable(sec)
    BY <1>1, <1>7, NotYetWritten DEF RecordInv, Provided
  <2>2. mem' = Toggle(mem, p) /\ pc' = "erase" /\ i' = i
    BY <1>2, <1>7, <2>1 DEF FlashSection, Goto
  <2>3. mem' \in BootCfg /\ mem' # NoMagic /\ mem'.age = mem.age
    BY <1>2, <1>7, <2>2, ToggleFlag, NoMagicAssumption
  <2>4. mem.primaryboot[p] = named[p]
    BY <1>1, <1>6, <1>7, <2>1 DEF RecordInv, FlagsOK, Sections
  <2>5. target' = 1 - named[p]
    <3>1. target' = UpgradeSlot(IF sec = "ubi" THEN mem' ELSE mem, p, named)
      BY <1>2, <1>7 DEF FlashSection
    <3>2. CASE FlashType = "nand"
      BY <3>1, <3>2 DEF UpgradeSlot
    <3>3. CASE FlashType = "emmc"
      <4>1. sec # "ubi"
        BY <2>1, <3>3 DEF Reachable
      <4>2. target' = IF named[p] # 0 THEN 0 ELSE 1
        BY <2>4, <3>1, <3>3, <4>1 DEF UpgradeSlot
      <4>3. named[p] \in {0, 1}
        BY <1>7, AltNamesAssumption DEF RecordInv, TypeOK, Slots
      <4>. QED
        BY <4>2, <4>3
    <3>. QED
      BY <3>2, <3>3, FlashTypeAssumption
  <2>6. \A q \in AltNames : Written(q)' <=> Written(q)
    BY <1>1, <2>2 DEF Written
  <2>7. \A q \in AltNames : BeingWritten(q)' <=> q = p
    BY <1>1, <2>2 DEF BeingWritten
  <2>8. FlagsOK'
    <3>1. ASSUME NEW q \in AltNames
          PROVE  /\ mem'.primaryboot[q] = IF Written(q)' \/ BeingWritten(q)'
                                          THEN 1 - named'[q] ELSE named'[q]
                 /\ Written(q)' => slot'[q][1 - named'[q]] = ver'
      <4>1. Written(q)' => slot'[q][1 - named'[q]] = ver'
        BY <1>1, <2>6 DEF RecordInv, FlagsOK, Sections
      <4>2. CASE q = p
        <5>1. mem'.primaryboot[p] = 1 - mem.primaryboot[p]
          BY <1>2, <1>7, <2>2, ToggleFlag
        <5>. QED
          BY <1>1, <2>4, <2>7, <4>1, <4>2, <5>1
      <4>3. CASE q # p
        <5>1. mem'.primaryboot[q] = mem.primaryboot[q]
          BY <1>2, <1>7, <2>2, <4>3, ToggleFlag
        <5>2. mem.primaryboot[q] = IF Written(q) THEN 1 - named[q] ELSE named[q]
          BY <1>1, <1>6 DEF RecordInv, FlagsOK, Sections
        <5>. QED
          BY <1>1, <2>6, <2>7, <4>1, <4>3, <5>1, <5>2
      <4>. QED
        BY <4>2, <4>3
    <3>. QED
      BY <2>2, <3>1 DEF FlagsOK
  <2>9. ProgressOK'
    BY <1>1, <2>2, <2>5 DEF ProgressOK, Deciding, Decided, Sections, Upgrading
  <2>. QED
    BY <1>4, <1>5, <2>3, <2>8, <2>9 DEF RecordInv
<1>8. CASE p \notin AltNames
  <2>1. mem' = mem
    BY <1>8 DEF FlashSection
  <2>2. \/ pc' = "erase" /\ i' = i
        \/ pc' = "flash_section" /\ i' = i + 1
    BY <1>1 DEF FlashSection, Goto
  <2>3. \A q \in AltNames : (Written(q)' <=> Written(q)) /\ ~BeingWritten(q)'
    <3>1. CASE pc' = "erase" /\ i' = i
      BY <1>1, <1>8, <3>1 DEF Written, BeingWritten
    <3>2. CASE pc' = "flash_section" /\ i' = i + 1
      BY <1>1, <1>8, <3>2, WrittenNext DEF BeingWritten, RecordInv
    <3>. QED
      BY <2>2, <3>1, <3>2
  <2>4. FlagsOK'
    <3>1. \A q \in AltNames :
            /\ mem.primaryboot[q] = IF Written(q) THEN 1 - named[q] ELSE named[q]
            /\ Written(q) => slot[q][1 - named[q]] = ver
      BY <1>1, <1>6 DEF RecordInv, FlagsOK, Sections
    <3>. QED
      BY <1>1, <1>3, <2>1, <2>3, <3>1 DEF FlagsOK
  <2>5. ProgressOK'
    BY <1>1, <1>8, <2>2 DEF ProgressOK, Deciding, Decided, Sections, Upgrading
  <2>. QED
    BY <1>2, <1>4, <1>5, <2>1, <2>4, <2>5 DEF RecordInv
<1>. QED
  BY <1>7, <1>8
(* Writing to the target of a section leaves alone the copies that were    *)
(* booted, and the other copies of the partitions already written.         *)
LEMMA TargetAside ==
  ASSUME RecordInv, TypeOK', Provided, pc \in {"erase", "write"}, NEW v,
         slot' = [slot EXCEPT ![SectionPart(image[i])][target] = v]
  PROVE  \A q \in AltNames :
           /\ slot'[q][named[q]] = slot[q][named[q]]
           /\ q # SectionPart(image[i]) => slot'[q] = slot[q]
           /\ q = SectionPart(image[i]) => slot'[q][1 - named[q]] = v
<1>. DEFINE p == SectionPart(image[i])
<1>1. ASSUME NEW q \in AltNames, q # p
      PROVE  slot'[q] = slot[q]
  BY <1>1, AltNamesAssumption DEF RecordInv, TypeOK
<1>2. ASSUME p \in AltNames
      PROVE  slot'[p][named[p]] = slot[p][named[p]] /\ slot'[p][1 - named[p]] = v
  <2>1. target = 1 - named[p]
    BY <1>2 DEF RecordInv, ProgressOK
  <2>2. p \in Parts /\ named[p] \in {0, 1} /\ target \in Slots
    BY <1>2, AltNamesAssumption DEF RecordInv, TypeOK, Slots
  <2>3. slot'[p] = [slot[p] EXCEPT ![target] = v]
    BY <2>2 DEF RecordInv, TypeOK
  <2>4. slot[p] \in [Slots -> {Blank} \cup Versions]
    BY <2>2 DEF RecordInv, TypeOK
  <2>. QED
    BY <2>1, <2>2, <2>3, <2>4 DEF Slots
<1>. QED
  BY <1>1, <1>2

(* The target is erased: nothing that was booted, or written, is lost. *)
LEMMA InvErase ==
  ASSUME RecordInv, TypeOK', Provided, Erase
  PROVE  RecordInv'
<1>. DEFINE p == SectionPart(image[i])
<1>1. /\ UNCHANGED <<copies, mem, named, ver, image, i, target>>
      /\ pc = "erase" /\ pc' = "write"
      /\ slot' = [slot EXCEPT ![p][target] = Blank]
  BY DEF Erase, Goto, request
<1>2. NextBoot' = NextBoot /\ \A q : (Written(q)' <=> Written(q))
                                     /\ (BeingWritten(q)' <=> BeingWritten(q))
  BY <1>1 DEF NextBoot, Written, BeingWritten
<1>3. \A q \in AltNames : /\ slot'[q][named[q]] = slot[q][named[q]]
                          /\ q # p => slot'[q] = slot[q]
  BY <1>1, TargetAside, Zenon
<1>4. \A q \in AltNames : NextBoot.primaryboot[q] = named[q]
  BY <1>1 DEF RecordInv, BootedOK, Sections
<1>5. RecordsOK'
  BY <1>1, <1>2, <1>3, <1>4 DEF RecordInv, RecordsOK, FlagsPaired
<1>6. BootedOK'
  BY <1>1, <1>2, <1>3 DEF RecordInv, BootedOK, Sections
<1>7. p \in AltNames => ~Written(p)
  BY <1>1, NotYetWritten DEF RecordInv, ProgressOK, Provided, Upgrading
<1>8. FlagsOK'
  BY <1>1, <1>2, <1>3, <1>7 DEF RecordInv, FlagsOK, Sections
<1>9. ProgressOK'
  BY <1>1 DEF RecordInv, ProgressOK, Deciding, Decided, Sections, Upgrading
<1>. QED
  BY <1>5, <1>6, <1>8, <1>9 DEF RecordInv

(* The target is written: it holds the new version. *)
LEMMA InvWrite ==
  ASSUME RecordInv, TypeOK', Provided, Write
  PROVE  RecordInv'
<1>. DEFINE p == SectionPart(image[i])
<1>1. /\ UNCHANGED <<copies, mem, named, ver, image, target>>
      /\ pc = "write" /\ pc' = "flash_section" /\ i' = i + 1
      /\ slot' = [slot EXCEPT ![p][target] = ver]
  BY DEF Write, Goto, request, Provided
<1>2. NextBoot' = NextBoot /\ image \in Images /\ i <= Len(image)
  BY <1>1 DEF NextBoot, RecordInv, ProgressOK, Upgrading
<1>3. \A q \in AltNames : /\ slot'[q][named[q]] = slot[q][named[q]]
                          /\ q # p => slot'[q] = slot[q]
                          /\ q = p => slot'[q][1 - named[q]] = ver
  BY <1>1, TargetAside, Zenon
<1>4. \A q \in AltNames : NextBoot.primaryboot[q] = named[q]
  BY <1>1 DEF RecordInv, BootedOK, Sections
<1>5. RecordsOK'
  BY <1>1, <1>2, <1>3, <1>4 DEF RecordInv, RecordsOK, FlagsPaired
<1>6. BootedOK'
  BY <1>1, <1>2, <1>3 DEF RecordInv, BootedOK, Sections
<1>7. \A q \in AltNames : Written(q)' <=> Written(q) \/ BeingWritten(q)
  BY <1>1, <1>2, WrittenNext DEF RecordInv, BeingWritten
<1>8. \A q \in AltNames : ~BeingWritten(q)' /\ (BeingWritten(q) <=> q = p)
  BY <1>1 DEF BeingWritten
<1>9. FlagsOK'
  BY <1>1, <1>3, <1>7, <1>8 DEF RecordInv, FlagsOK, Sections
<1>10. ProgressOK'
  BY <1>1, <1>2 DEF ProgressOK, Deciding, Decided, Sections, Upgrading
<1>. QED
  BY <1>5, <1>6, <1>9, <1>10 DEF RecordInv

(* The last section is done. *)
LEMMA InvSectionsDone ==
  ASSUME RecordInv, TypeOK', SectionsDone
  PROVE  RecordInv'
<1>1. mem # NoMagic /\ pc = "flash_section"
  BY DEF SectionsDone, RecordInv, BootedOK, Sections
<1>2. /\ UNCHANGED <<slot, copies, mem, named, ver, image, i, target>>
      /\ pc' = "erase_bootconfig" /\ i > Len(image)
  BY <1>1 DEF SectionsDone, Goto, persistent, request
<1>3. NextBoot' = NextBoot /\ \A q : (Written(q)' <=> Written(q))
                                     /\ ~BeingWritten(q) /\ ~BeingWritten(q)'
  BY <1>1, <1>2 DEF NextBoot, Written, BeingWritten
<1>4. RecordsOK'
  BY <1>1, <1>2, <1>3 DEF RecordInv, RecordsOK, FlagsPaired
<1>5. BootedOK'
  BY <1>1, <1>2, <1>3 DEF RecordInv, BootedOK, Sections
<1>6. FlagsOK'
  BY <1>1, <1>2, <1>3 DEF RecordInv, FlagsOK, Sections
<1>7. ProgressOK'
  BY <1>1, <1>2 DEF RecordInv, ProgressOK, Deciding, Decided, Sections, Upgrading
<1>. QED
  BY <1>4, <1>5, <1>6, <1>7 DEF RecordInv
(* The driver's record, once every section is written, names complete      *)
(* copies: the new one where the image has the partition, else the booted. *)
LEMMA NewRecordComplete ==
  ASSUME RecordInv, Provided, pc \in Deciding
  PROVE  /\ FlagsPaired(mem)
         /\ \A p \in AltNames : /\ slot[p][mem.primaryboot[p]] # Blank
                                /\ Written(p) => slot[p][mem.primaryboot[p]] = ver
<1>1. \A p \in AltNames :
        /\ mem.primaryboot[p] = IF Written(p) THEN 1 - named[p] ELSE named[p]
        /\ Written(p) => slot[p][1 - named[p]] = ver
        /\ slot[p][named[p]] # Blank
  BY DEF RecordInv, FlagsOK, BootedOK, BeingWritten, Deciding
<1>2. ver # Blank
  BY SMTT(30) DEF RecordInv, TypeOK, Versions, Blank
<1>3. FlagsPaired(mem)
  <2>1. SUFFICES ASSUME FlashType = "emmc", "0:HLOS" \in AltNames
                 PROVE  mem.primaryboot["0:HLOS"] = mem.primaryboot["rootfs"]
    BY DEF FlagsPaired
  <2>2. image \in Images /\ i > Len(image)
    BY DEF RecordInv, ProgressOK, Deciding, Upgrading
  <2>3. "rootfs" \in AltNames /\ (Written("0:HLOS") <=> Written("rootfs"))
    BY <2>1, <2>2, WrittenAll DEF Provided, ImagesWellFormed, WellFormed, RecordInv
  <2>4. named["0:HLOS"] = named["rootfs"]
    BY <2>1 DEF RecordInv, BootedOK
  <2>. QED
    BY <1>1, <2>1, <2>3, <2>4, SMTT(30)
<1>. QED
  BY <1>1, <1>2, <1>3

(* 0:BOOTCONFIG is erased. *)
LEMMA InvEraseFirst ==
  ASSUME RecordInv, TypeOK', EraseBootconfig(1, "erase_bootconfig", "write_bootconfig")
  PROVE  RecordInv'
<1>1. /\ UNCHANGED <<slot, mem, named, ver, image, i, target>>
      /\ pc = "erase_bootconfig" /\ pc' = "write_bootconfig"
      /\ copies' = [copies EXCEPT ![1] = NoMagic]
  BY DEF EraseBootconfig, Goto, request
<1>2. copies'[1] = NoMagic /\ copies'[2] = copies[2]
  BY <1>1 DEF RecordInv, TypeOK
<1>3. \A q : (Written(q)' <=> Written(q)) /\ ~BeingWritten(q) /\ ~BeingWritten(q)'
  BY <1>1 DEF Written, BeingWritten
<1>4. RecordsOK'
  BY <1>1, <1>2 DEF RecordInv, RecordsOK, FlagsPaired
<1>5. BootedOK'
  BY <1>1, <1>2 DEF RecordInv, BootedOK, Deciding
<1>6. FlagsOK'
  BY <1>1, <1>3 DEF RecordInv, FlagsOK, Deciding
<1>7. ProgressOK'
  BY <1>1, <1>2 DEF RecordInv, ProgressOK, Deciding, Decided, Sections, Upgrading
<1>. QED
  BY <1>4, <1>5, <1>6, <1>7 DEF RecordInv

(* 0:BOOTCONFIG is written: the upgrade takes effect. *)
LEMMA InvWriteFirst ==
  ASSUME RecordInv, TypeOK', Provided,
         WriteBootconfig(1, "write_bootconfig", "erase_bootconfig1")
  PROVE  RecordInv'
<1>1. /\ UNCHANGED <<slot, mem, named, ver, image, i, target>>
      /\ pc = "write_bootconfig" /\ pc' = "erase_bootconfig1"
      /\ copies' = [copies EXCEPT ![1] = mem]
  BY DEF WriteBootconfig, Goto, request
<1>2. copies'[1] = mem /\ copies'[2] = copies[2] /\ mem # NoMagic
  BY <1>1 DEF RecordInv, TypeOK, BootedOK, Deciding
<1>3. NextBoot' = mem
  BY <1>2 DEF NextBoot, SblConfig
<1>4. \A q : Written(q)' <=> Written(q)
  BY <1>1 DEF Written
<1>5. /\ FlagsPaired(mem)
      /\ \A p \in AltNames : /\ slot[p][mem.primaryboot[p]] # Blank
                             /\ Written(p) => slot[p][mem.primaryboot[p]] = ver
  BY <1>1, NewRecordComplete DEF Deciding
<1>6. mem.age <= ver /\ (copies[2] # NoMagic => copies[2].age < mem.age)
  BY <1>1 DEF RecordInv, BootedOK, Deciding
<1>7. RecordsOK'
  <2>1. mem.age \in Int /\ (copies[2] # NoMagic => copies[2].age \in Int)
    BY <1>2, SMTT(30) DEF RecordInv, TypeOK, BootCfg
  <2>. QED
    BY <1>1, <1>2, <1>3, <1>5, <1>6, <2>1 DEF RecordInv, RecordsOK, FlagsPaired
<1>8. BootedOK' /\ FlagsOK'
  BY <1>1, Zenon DEF BootedOK, FlagsOK, Sections, Deciding
<1>9. ProgressOK'
  BY <1>1, <1>2, <1>4, <1>5
  DEF RecordInv, ProgressOK, Deciding, Decided, Sections, Upgrading
<1>. QED
  BY <1>7, <1>8, <1>9 DEF RecordInv

(* 0:BOOTCONFIG1 is erased, then written: the first copy decides. *)
LEMMA InvSecond ==
  ASSUME RecordInv, TypeOK',
         \/ EraseBootconfig(2, "erase_bootconfig1", "write_bootconfig1")
         \/ WriteBootconfig(2, "write_bootconfig1", "version_upgrade")
  PROVE  RecordInv'
<1>1. /\ UNCHANGED <<slot, mem, named, ver, image, i, target>>
      /\ \/ /\ pc = "erase_bootconfig1" /\ pc' = "write_bootconfig1"
            /\ copies' = [copies EXCEPT ![2] = NoMagic]
         \/ /\ pc = "write_bootconfig1" /\ pc' = "version_upgrade"
            /\ copies' = [copies EXCEPT ![2] = mem]
  BY DEF EraseBootconfig, WriteBootconfig, Goto, request
<1>2. /\ copies'[1] = copies[1] /\ copies[1] = mem /\ mem # NoMagic
      /\ \/ pc' = "write_bootconfig1" /\ copies'[2] = NoMagic
         \/ pc' = "version_upgrade" /\ copies'[2] = mem
  BY <1>1 DEF RecordInv, TypeOK, ProgressOK, Decided, Sections, Deciding, Upgrading
<1>3. NextBoot' = NextBoot /\ \A q : (Written(q)' <=> Written(q))
  BY <1>1, <1>2 DEF NextBoot, SblConfig, Written
<1>4. mem.age \in Int
  BY <1>2 DEF RecordInv, TypeOK, BootCfg
<1>5. RecordsOK'
  BY <1>1, <1>2, <1>3, <1>4 DEF RecordInv, RecordsOK, FlagsPaired
<1>6. BootedOK' /\ FlagsOK'
  BY <1>1 DEF BootedOK, FlagsOK, Sections, Deciding
<1>7. ProgressOK'
  BY <1>1, <1>2, <1>3 DEF RecordInv, ProgressOK, Deciding, Decided, Sections, Upgrading
<1>. QED
  BY <1>5, <1>6, <1>7 DEF RecordInv

(* The steps after the records are written touch neither them nor the      *)
(* firmware.                                                               *)
LEMMA InvTail ==
  ASSUME RecordInv, TypeOK', VersionUpgrade \/ EraseConfig \/ CopyConfig
  PROVE  RecordInv'
<1>. DEFINE Tail3 == {"version_upgrade", "erase_config", "copy_config", "reboot"}
<1>1. /\ UNCHANGED <<slot, copies, mem, named, ver, image, i, target>>
      /\ pc \in Tail3 /\ pc' \in Tail3
  BY DEF VersionUpgrade, EraseConfig, CopyConfig, Goto, request
<1>2. NextBoot' = NextBoot /\ \A q : (Written(q)' <=> Written(q))
  BY <1>1, SMTT(30) DEF NextBoot, Written
<1>3. RecordsOK'
  BY <1>1, <1>2, ZenonT(40) DEF RecordInv, RecordsOK, FlagsPaired
<1>4. BootedOK' /\ FlagsOK'
  BY <1>1, ZenonT(40) DEF BootedOK, FlagsOK, Sections, Deciding
<1>5. ProgressOK'
  BY <1>1, <1>2, Zenon DEF RecordInv, ProgressOK, Deciding, Decided, Sections, Upgrading
<1>. QED
  BY <1>3, <1>4, <1>5 DEF RecordInv

(* Nothing happens. *)
LEMMA InvStutter ==
  ASSUME RecordInv, UNCHANGED vars
  PROVE  RecordInv'
<1>1. TypeOK'
  BY DEF vars, RecordInv, TypeOK
<1>2. RecordsOK'
  BY DEF vars, RecordInv, RecordsOK, NextBoot, FlagsPaired
<1>3. BootedOK'
  BY DEF vars, RecordInv, BootedOK, NextBoot
<1>4. FlagsOK'
  BY DEF vars, RecordInv, FlagsOK, Written, BeingWritten
<1>5. ProgressOK'
  BY DEF vars, RecordInv, ProgressOK, Written
<1>. QED
  BY <1>1, <1>2, <1>3, <1>4, <1>5 DEF RecordInv

(* Every step keeps the inductive invariant. *)
LEMMA InvStep ==
  ASSUME RecordInv, Provided, [Next]_vars
  PROVE  RecordInv'
<1>1. TypeOK'
  BY TypeStep DEF RecordInv
<1>. QED
  BY <1>1, InvBoot, InvPowerOff, InvStartUpgrade, InvFlashSection, InvErase,
     InvWrite, InvSectionsDone, InvEraseFirst, InvWriteFirst, InvSecond, InvTail,
     InvStutter
  DEF Next, UpgradeStep, FlashBootconfig

(* The records on flash, the driver's record and the contents of the       *)
(* copies agree in every reachable state.                                  *)
THEOREM RecordInvariance ==
  ASSUME Provided
  PROVE  Spec => []RecordInv
<1>1. Init => RecordInv
  BY InvInit
<1>2. RecordInv /\ [Next]_vars => RecordInv'
  BY InvStep
<1>. QED
  BY <1>1, <1>2, PTL DEF Spec
-----------------------------------------------------------------------------
(* With a record on flash, a partition boots from the copy its own flag    *)
(* names, on eMMC too.                                                     *)
LEMMA FirmwareByFlag ==
  ASSUME RecordInv, Provided, NextBoot # NoMagic, NEW p \in AltNames
  PROVE  Firmware[p] = slot[p][NextBoot.primaryboot[p]]
<1>1. FlagsPaired(NextBoot)
  BY DEF RecordInv, RecordsOK, NextBoot, SblConfig
<1>2. BootSlot(NextBoot, p) = NextBoot.primaryboot[p]
  BY <1>1 DEF BootSlot, ActivePart, FlagsPaired, Provided, ImagesWellFormed
<1>3. p \in Parts
  BY AltNamesAssumption
<1>. QED
  BY <1>2, <1>3 DEF Firmware

(* Wherever power is lost, what boots next is complete. *)
THEOREM NextBootIsIntact ==
  ASSUME Provided
  PROVE  Spec => []NextBootIntact
<1>1. RecordInv => NextBootIntact
  <2>1. SUFFICES ASSUME RecordInv, MayLosePower, NEW p \in AltNames
                 PROVE  Firmware[p] # Blank
    BY DEF NextBootIntact
  <2>2. CASE pc # "write_bootconfig"
    BY <2>1, <2>2, FirmwareByFlag DEF RecordInv, RecordsOK
  <2>3. CASE pc = "write_bootconfig"
    <3>1. BackupCurrent /\ copies[1] = NoMagic
      BY <2>1, <2>3 DEF MayLosePower, Provided, RecordInv, ProgressOK
    <3>2. NextBoot # NoMagic /\ NextBoot.primaryboot[p] = named[p]
      BY <3>1 DEF NextBoot, SblConfig, BackupCurrent
    <3>3. slot[p][named[p]] # Blank
      BY <2>1, <2>3 DEF RecordInv, BootedOK, Deciding
    <3>. QED
      BY <2>1, <3>2, <3>3, FirmwareByFlag
  <2>. QED
    BY <2>2, <2>3
<1>. QED
  BY <1>1, RecordInvariance, PTL
=============================================================================
