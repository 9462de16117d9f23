-------------------------- MODULE FailsafeUpgrade ---------------------------
(***************************************************************************)
(* A firmware upgrade of a Teltonika RUTX (board teltonika,rutx), from the *)
(* moment sysupgrade has accepted an image to the next boot: the scripts   *)
(* of ipq_failsafe.sh, the kernel's bootconfig driver, and what the boot   *)
(* loaders pick after power on.  Power may be lost between any two writes  *)
(* to flash.                                                               *)
(***************************************************************************)
EXTENDS Bootconfig, Sequences

CONSTANTS
  Parts,          (* partition names present on the flash                  *)
  Images,         (* images a user may install: sequences of section names *)
  MaxVersion,     (* bound: number of upgrades in a behaviour              *)
  FlashMayFail,   (* TRUE if a write to flash may fail                     *)
  DoubleFault     (* TRUE if power may be lost twice around the same       *)
                  (* record: see MayLosePower                              *)

ASSUME AltNamesAssumption == AltNames \subseteq Parts
ASSUME MaxVersionAssumption == MaxVersion \in Nat
ASSUME AgeAssumption == MaxVersion + 1 < AgeMod
ASSUME ImagesAssumption == \A im \in Images : im \in Seq(STRING)
ASSUME FaultAssumption == FlashMayFail \in BOOLEAN /\ DoubleFault \in BOOLEAN

VARIABLES
  slot,     (* flash: content of each copy of each partition               *)
  copies,   (* flash: the two bootconfig partitions                        *)
  data,     (* flash: does rootfs_data hold the user's configuration       *)
  fuse,     (* qfprom: last version recorded as installed                  *)
  mem,      (* the driver's bootconfig1, behind /proc/boot_info            *)
  named,    (* copy that bears the plain partition name since power on     *)
  pc,       (* what the device is doing                                    *)
  image,    (* sections of the image being installed                       *)
  ver,      (* version of that image                                       *)
  keep,     (* SAVE_CONFIG                                                 *)
  i,        (* section being flashed                                       *)
  target    (* copy being flashed                                          *)

persistent == <<slot, copies, data, fuse>>
request == <<image, ver, keep>>
vars == <<slot, copies, data, fuse, mem, named, pc, image, ver, keep, i, target>>

Blank == -1
Versions == 0 .. MaxVersion

Upgrading == {"flash_section", "erase", "write", "erase_bootconfig",
              "write_bootconfig", "erase_bootconfig1", "write_bootconfig1",
              "version_upgrade", "erase_config", "copy_config", "reboot"}

-----------------------------------------------------------------------------
(* flash_section and do_flash_tz: the partition that a section goes to.    *)
(* Sections that no pattern matches are ignored.                           *)
SectionPart(sec) ==
  CASE sec = "hlos" -> "0:HLOS"
    [] sec \in {"rootfs", "fs", "ubi"} -> "rootfs"
    [] sec = "u-boot" -> "0:APPSBL"
    [] sec = "ddr" -> "0:CDT"
    [] sec = "tz" -> IF "0:QSEE" \in Parts THEN "0:QSEE" ELSE "0:TZ"
    [] OTHER -> "ignored"

(* Mutant: an fs section is looked up in /proc/mtd as well. *)
ReachableMtd(sec) ==
  /\ SectionPart(sec) \in Parts
  /\ sec \in {"ubi", "fs"} => FlashType = "nand"

(* do_flash_ubi finds its partition in /proc/mtd only. *)
Reachable(sec) ==
  /\ SectionPart(sec) \in Parts
  /\ sec = "ubi" => FlashType = "nand"

(* platform_check_image_ipq: ubi, or hlos.  The list "hlos fs" loses its   *)
(* second word when it is passed unquoted.                                 *)
MandatorySectionFound(im) ==
  \E k \in 1 .. Len(im) : im[k] \in {"ubi", "hlos"}

(* The record that decides the next boot, and what it would boot. *)
NextBoot == SblConfig(copies[1], copies[2])
Firmware == [p \in Parts |-> slot[p][BootSlot(NextBoot, p)]]

(* The volume of the configuration: one on eMMC, inside each UBI otherwise. *)
DataVolume(s) == IF FlashType = "emmc" THEN 0 ELSE s

-----------------------------------------------------------------------------
(* A factory-programmed device: both copies of every partition hold        *)
(* version 0 and both bootconfig partitions name the first copy.           *)
Init ==
  /\ slot = [p \in Parts |-> [s \in Slots |-> 0]]
  /\ copies = [c \in {1, 2} |->
                 [age |-> 0, primaryboot |-> [p \in AltNames |-> 0]]]
  /\ data = [s \in Slots |-> TRUE]
  /\ fuse = 0
  /\ mem = NoMagic
  /\ named = [p \in Parts |-> 0]
  /\ pc = "off"
  /\ image = <<>>
  /\ ver = 0
  /\ keep = FALSE
  /\ i = 1
  /\ target = 0

Goto(next) == pc' = next

(* Power on.  The boot loaders follow the record they find; if a partition *)
(* they need is blank the boot stops there ("prompt", whether in a loader, *)
(* at U-Boot's prompt or in a kernel without its root): none of them tries *)
(* the other copy.  Otherwise the driver reads both records.               *)
Boot ==
  /\ pc = "off"
  /\ named' = [p \in Parts |-> ActivePart(NextBoot, p)]
  /\ IF \A p \in Parts : Firmware[p] # Blank
     THEN /\ Goto("running")
          /\ mem' = DriverConfig(copies[1], copies[2])
     ELSE /\ Goto("prompt")
          /\ UNCHANGED mem
  /\ UNCHANGED <<persistent, request, i, target>>

(* 0:BOOTCONFIG1 holds the record that was booted. *)
BackupCurrent ==
  /\ copies[2] # NoMagic
  /\ copies[2].primaryboot = [p \in AltNames |-> named[p]]

(* do_flash_bootconfig erases 0:BOOTCONFIG before it writes it.  An upgrade *)
(* that was cut before it wrote 0:BOOTCONFIG1 leaves that copy erased or   *)
(* out of date, and nothing repairs it before the next upgrade erases the  *)
(* good one: DoubleFault says whether the second cut may come just then.   *)
MayLosePower == DoubleFault \/ pc # "write_bootconfig" \/ BackupCurrent

(* Power is lost, or the user reboots: memory is gone, flash stays. *)
PowerOff ==
  /\ pc \in {"running", "prompt"} \cup Upgrading
  /\ MayLosePower
  /\ Goto("off")
  /\ mem' = NoMagic
  /\ UNCHANGED <<persistent, request, named, i, target>>

(* platform_check_image accepts the image and stage2 calls                 *)
(* platform_do_upgrade_ipq; the section files the check extracted are      *)
(* still there.                                                            *)
StartUpgrade(im, saveConfig) ==
  /\ pc = "running"
  /\ ver < MaxVersion
  /\ MandatorySectionFound(im)
  /\ image' = im
  /\ ver' = ver + 1
  /\ keep' = saveConfig
  /\ i' = 1
  /\ Goto("flash_section")
  /\ UNCHANGED <<persistent, mem, named, target>>

(* Mutant: do_flash_failsafe_partition does not toggle the flag. *)
FlashSectionNoToggle ==
  /\ pc = "flash_section"
  /\ i <= Len(image)
  /\ LET sec == image[i]
         p == SectionPart(sec)
         failsafe == mem # NoMagic /\ p \in AltNames
     IN  /\ mem' = IF failsafe /\ sec = "ubi" THEN Toggle(mem, p) ELSE mem
         /\ target' = IF failsafe THEN UpgradeSlot(mem, p, named) ELSE 0
         /\ IF Reachable(sec)
            THEN Goto("erase") /\ UNCHANGED i
            ELSE i' = i + 1 /\ UNCHANGED pc
  /\ UNCHANGED <<persistent, request, named>>

(* Mutant: upgradepartition is read after the toggle everywhere. *)
FlashSectionToggleFirst ==
  /\ pc = "flash_section"
  /\ i <= Len(image)
  /\ LET sec == image[i]
         p == SectionPart(sec)
         failsafe == mem # NoMagic /\ p \in AltNames
     IN  /\ mem' = IF failsafe THEN Toggle(mem, p) ELSE mem
         /\ target' = IF failsafe THEN UpgradeSlot(mem', p, named) ELSE 0
         /\ IF Reachable(sec)
            THEN Goto("erase") /\ UNCHANGED i
            ELSE i' = i + 1 /\ UNCHANGED pc
  /\ UNCHANGED <<persistent, request, named>>

(* flash_section up to the first write: the flag is toggled in memory and  *)
(* the copy to write is read from upgradepartition, before the toggle in   *)
(* do_flash_failsafe_partition and after it in do_flash_ubi.  A partition  *)
(* without an entry in /proc/boot_info is written where its name stands.   *)
FlashSection ==
  /\ pc = "flash_section"
  /\ i <= Len(image)
  /\ LET sec == image[i]
         p == SectionPart(sec)
         failsafe == mem # NoMagic /\ p \in AltNames
     IN  /\ mem' = IF failsafe THEN Toggle(mem, p) ELSE mem
         /\ target' = IF failsafe
                      THEN UpgradeSlot(IF sec = "ubi" THEN mem' ELSE mem, p, named)
                      ELSE IF p \in Parts /\ FlashType = "nand" THEN named[p] ELSE 0
         /\ IF Reachable(sec)
            THEN Goto("erase") /\ UNCHANGED i
            ELSE i' = i + 1 /\ UNCHANGED pc
  /\ UNCHANGED <<persistent, request, named>>

(* The erase of do_flash_mtd and ubiformat, the zeroes of do_flash_emmc.   *)
(* Formatting a UBI partition also drops the configuration inside it.      *)
Erase ==
  /\ pc = "erase"
  /\ slot' = [slot EXCEPT ![SectionPart(image[i])][target] = Blank]
  /\ data' = IF FlashType = "nand" /\ SectionPart(image[i]) = "rootfs"
             THEN [data EXCEPT ![target] = FALSE] ELSE data
  /\ Goto("write")
  /\ UNCHANGED <<copies, fuse, mem, named, request, i, target>>

(* The write.  Its exit status is not looked at. *)
Write ==
  /\ pc = "write"
  /\ \/ slot' = [slot EXCEPT ![SectionPart(image[i])][target] = ver]
     \/ FlashMayFail /\ UNCHANGED slot
  /\ i' = i + 1
  /\ Goto("flash_section")
  /\ UNCHANGED <<copies, data, fuse, mem, named, request, target>>

(* Mutant: the versions are recorded without the bootconfig step. *)
SectionsDoneUnregistered ==
  /\ pc = "flash_section"
  /\ i > Len(image)
  /\ Goto("version_upgrade")
  /\ UNCHANGED <<persistent, request, mem, named, i, target>>

(* The loop over the sections is over; do_flash_bootconfig does nothing    *)
(* without /proc/boot_info/getbinary_bootconfig.                           *)
SectionsDone ==
  /\ pc = "flash_section"
  /\ i > Len(image)
  /\ Goto(IF mem = NoMagic THEN "version_upgrade" ELSE "erase_bootconfig")
  /\ UNCHANGED <<persistent, request, mem, named, i, target>>

(* do_flash_bootconfig: erase one bootconfig partition, then write the     *)
(* driver's record to it; 0:BOOTCONFIG first, 0:BOOTCONFIG1 second.        *)
EraseBootconfig(c, here, next) ==
  /\ pc = here
  /\ copies' = [copies EXCEPT ![c] = NoMagic]
  /\ Goto(next)
  /\ UNCHANGED <<slot, data, fuse, request, mem, named, i, target>>

WriteBootconfig(c, here, next) ==
  /\ pc = here
  /\ copies' = [copies EXCEPT ![c] = mem]
  /\ Goto(next)
  /\ UNCHANGED <<slot, data, fuse, request, mem, named, i, target>>

(* Mutant: the backup is written first. *)
FlashBootconfigBackupFirst ==
  \/ EraseBootconfig(2, "erase_bootconfig", "write_bootconfig")
  \/ WriteBootconfig(2, "write_bootconfig", "erase_bootconfig1")
  \/ EraseBootconfig(1, "erase_bootconfig1", "write_bootconfig1")
  \/ WriteBootconfig(1, "write_bootconfig1", "version_upgrade")

(* Mutant: both copies are erased before either is written. *)
FlashBootconfigEraseBoth ==
  \/ EraseBootconfig(1, "erase_bootconfig", "erase_bootconfig1")
  \/ EraseBootconfig(2, "erase_bootconfig1", "write_bootconfig")
  \/ WriteBootconfig(1, "write_bootconfig", "write_bootconfig1")
  \/ WriteBootconfig(2, "write_bootconfig1", "version_upgrade")

(* platform_do_upgrade_ipq: both bootconfig partitions, in this order. *)
FlashBootconfig ==
  \/ EraseBootconfig(1, "erase_bootconfig", "write_bootconfig")
  \/ WriteBootconfig(1, "write_bootconfig", "erase_bootconfig1")
  \/ EraseBootconfig(2, "erase_bootconfig1", "write_bootconfig1")
  \/ WriteBootconfig(2, "write_bootconfig1", "version_upgrade")

(* platform_version_upgrade, for the version files the image check left. *)
VersionUpgrade ==
  /\ pc = "version_upgrade"
  /\ fuse' \in {fuse, ver}
  /\ Goto("erase_config")
  /\ UNCHANGED <<slot, copies, data, request, mem, named, i, target>>

(* Mutant: the configuration is erased last. *)
EraseConfigLast ==
  /\ pc = "erase_config"
  /\ data' = IF FlashType = "emmc" THEN [data EXCEPT ![0] = FALSE] ELSE data
  /\ Goto("reboot")
  /\ UNCHANGED <<slot, copies, fuse, request, mem, named, i, target>>

(* erase_emmc_config *)
EraseConfig ==
  /\ pc = "erase_config"
  /\ data' = IF FlashType = "emmc" THEN [data EXCEPT ![0] = FALSE] ELSE data
  /\ Goto(IF keep THEN "copy_config" ELSE "reboot")
  /\ UNCHANGED <<slot, copies, fuse, request, mem, named, i, target>>

(* Mutant: the configuration goes to the partition that bears the name. *)
CopyConfigNamed ==
  /\ pc = "copy_config"
  /\ data' = [data EXCEPT ![DataVolume(named["rootfs"])] = TRUE]
  /\ Goto("reboot")
  /\ UNCHANGED <<slot, copies, fuse, request, mem, named, i, target>>

(* platform_copy_config_ipq: the saved configuration goes to rootfs_data   *)
(* on eMMC, and to the UBI partition named by upgradepartition otherwise.  *)
CopyConfig ==
  /\ pc = "copy_config"
  /\ LET s == IF mem # NoMagic /\ "rootfs" \in AltNames
              THEN UpgradeSlot(mem, "rootfs", named) ELSE named["rootfs"]
     IN  data' = [data EXCEPT ![DataVolume(s)] = TRUE]
  /\ Goto("reboot")
  /\ UNCHANGED <<slot, copies, fuse, request, mem, named, i, target>>

UpgradeStep ==
  \/ FlashSection \/ Erase \/ Write \/ SectionsDone \/ FlashBootconfig
  \/ VersionUpgrade \/ EraseConfig \/ CopyConfig

(* The last step of the upgrade restarts the device. *)
Reboot == pc = "reboot" /\ PowerOff

Next ==
  \/ Boot
  \/ PowerOff
  \/ \E im \in Images, saveConfig \in BOOLEAN : StartUpgrade(im, saveConfig)
  \/ UpgradeStep

Spec == Init /\ [][Next]_vars

(* The script runs until it reboots, and power always comes back. *)
FairSpec ==
  /\ Spec
  /\ WF_vars(Boot)
  /\ WF_vars(UpgradeStep)
  /\ WF_vars(Reboot)

-----------------------------------------------------------------------------
TypeOK ==
  /\ slot \in [Parts -> [Slots -> {Blank} \cup Versions]]
  /\ copies \in [{1, 2} -> BootCfg \cup {NoMagic}]
  /\ data \in [Slots -> BOOLEAN]
  /\ fuse \in Versions
  /\ mem \in BootCfg \cup {NoMagic}
  /\ named \in [Parts -> Slots]
  /\ pc \in {"off", "running", "prompt"} \cup Upgrading
  /\ image \in Images \cup {<<>>}
  /\ ver \in Versions
  /\ keep \in BOOLEAN
  /\ i \in Nat \ {0}
  /\ target \in Slots

(* Whatever step power is lost at, the copies that the boot loaders would  *)
(* pick next are complete: no interrupted upgrade leaves a device that     *)
(* does not boot.                                                          *)
NextBootIntact == MayLosePower => \A p \in AltNames : Firmware[p] # Blank

(* "bootconfig2 is a backup": while the first copy of the record is erased *)
(* the second one holds the record of what is running.                     *)
BackupIsCurrent == pc = "write_bootconfig" => BackupCurrent

(* "update bootconfig to register that fw upgrade has been done": once the *)
(* record is on flash, every partition the image carries boots in the      *)
(* version of the image.                                                   *)
UpgradeRegistered ==
  pc \in {"version_upgrade", "erase_config", "copy_config", "reboot"} =>
    \A k \in 1 .. Len(image) :
      SectionPart(image[k]) \in AltNames => Firmware[SectionPart(image[k])] = ver

(* While sections are flashed, nothing that the boot loaders would load is *)
(* touched, whatever went wrong before, as long as a record is left.       *)
OnlyInactiveFlashed ==
  [][(pc \in {"erase", "write"} /\ NextBoot # NoMagic) =>
       \A p \in AltNames : Firmware'[p] = Firmware[p]]_vars

(* The image has a section for partition p; an image has one for p exactly *)
(* if it has one for q.                                                    *)
FlashedBy(im, p) == \E k \in 1 .. Len(im) : SectionPart(im[k]) = p
Together(p, q) == \A im \in Images : FlashedBy(im, p) <=> FlashedBy(im, q)

(* Partitions that every image carries together, such as the kernel and    *)
(* the root file system on eMMC, always boot in the same version, though   *)
(* each has a flag of its own and U-Boot reads only one of them.           *)
FirmwareUnmixed ==
  MayLosePower =>
    \A p, q \in AltNames : Together(p, q) => Firmware[p] = Firmware[q]

(* The driver picks a bootconfig copy by its age and the boot loader by    *)
(* its place; on a device that runs from a record both have picked the     *)
(* same copies, so the upgrade flips the flags that were booted.           *)
DriverFollowsLoader ==
  pc = "running" /\ NextBoot # NoMagic =>
    /\ mem # NoMagic
    /\ \A p \in AltNames : mem.primaryboot[p] = ActivePart(NextBoot, p)

(* The version recorded in the fuses is never ahead of the root file       *)
(* system that boots next, wherever power was lost.                        *)
FuseNotAhead == MayLosePower => fuse <= Firmware["rootfs"]

(* When the script is done, the configuration it was asked to keep is in   *)
(* the volume that the new firmware will mount.                            *)
ConfigCarried ==
  pc = "reboot" /\ keep => data[DataVolume(BootSlot(NextBoot, "rootfs"))]

(* An upgrade that ran to its end is what comes up next. *)
UpgradeLands ==
  \A v \in Versions :
    (pc = "reboot" /\ ver = v) ~> (pc = "running" /\ Firmware["rootfs"] = v)

-----------------------------------------------------------------------------
(* What the scripts rely on: an image has at most one section for each     *)
(* partition with two copies, each section finds its partition, and on     *)
(* eMMC the kernel and the root file system come together.  pack.py leaves *)
(* out second copies, so the images of the build are of this kind.         *)
WellFormed(im) ==
  /\ \A j, k \in 1 .. Len(im) :
       SectionPart(im[j]) \in AltNames =>
         /\ Reachable(im[j])
         /\ SectionPart(im[j]) = SectionPart(im[k]) => j = k
  /\ FlashType = "emmc" /\ "0:HLOS" \in AltNames =>
       (FlashedBy(im, "0:HLOS") <=> FlashedBy(im, "rootfs"))

ImagesWellFormed ==
  /\ \A im \in Images : WellFormed(im)
  /\ FlashType = "emmc" /\ "0:HLOS" \in AltNames => "rootfs" \in AltNames

(* The images that pack.py makes, and the image check lets through, are    *)
(* such that the scripts can install them.                                 *)
InstalledImageWellFormed == pc \in Upgrading => WellFormed(image)

FlagsPaired(cfg) ==
  FlashType = "emmc" /\ "0:HLOS" \in AltNames =>
    cfg.primaryboot["0:HLOS"] = cfg.primaryboot["rootfs"]

(* The upgrade has written, or is writing, partition p. *)
Written(p) == \E k \in 1 .. Len(image) : k < i /\ SectionPart(image[k]) = p
BeingWritten(p) == pc \in {"erase", "write"} /\ SectionPart(image[i]) = p

Sections == {"flash_section", "erase", "write"}
Deciding == {"erase_bootconfig", "write_bootconfig"}
Decided == Upgrading \ (Sections \cup Deciding)

(* The records on flash: one is left, it names complete copies, and the    *)
(* first is not older than the second.                                     *)
RecordsOK ==
  /\ \A c \in {1, 2} :
       copies[c] # NoMagic => FlagsPaired(copies[c]) /\ copies[c].age <= ver
  /\ copies[1] # NoMagic /\ copies[2] # NoMagic => copies[2].age <= copies[1].age
  /\ pc # "write_bootconfig" =>
       /\ NextBoot # NoMagic
       /\ \A p \in AltNames : slot[p][NextBoot.primaryboot[p]] # Blank

(* From power on until the new record is on flash: what was booted is      *)
(* complete and, but while 0:BOOTCONFIG is erased, what boots next.        *)
BootedOK ==
  pc \in {"running"} \cup Sections \cup Deciding =>
    /\ mem # NoMagic
    /\ \A p \in AltNames : slot[p][named[p]] # Blank
    /\ pc # "write_bootconfig" =>
         \A p \in AltNames : NextBoot.primaryboot[p] = named[p]
    /\ copies[2] # NoMagic => copies[2].age < mem.age
    /\ mem.age <= IF pc = "running" THEN ver + 1 ELSE ver
    /\ FlashType = "emmc" /\ "0:HLOS" \in AltNames =>
         named["0:HLOS"] = named["rootfs"]

(* The driver's flags differ from those that were booted exactly for the   *)
(* partitions dealt with, whose other copy holds the new version.          *)
FlagsOK ==
  /\ pc = "running" => \A p \in AltNames : mem.primaryboot[p] = named[p]
  /\ pc \in Sections \cup Deciding => \A p \in AltNames :
       /\ mem.primaryboot[p] = IF Written(p) \/ BeingWritten(p)
                               THEN 1 - named[p] ELSE named[p]
       /\ Written(p) => slot[p][1 - named[p]] = ver

(* Where the script stands in the image, and what it has put on flash. *)
ProgressOK ==
  /\ pc \in Upgrading => image \in Images
  /\ pc \in {"erase", "write"} =>
       /\ i <= Len(image)
       /\ SectionPart(image[i]) \in AltNames =>
            target = 1 - named[SectionPart(image[i])]
  /\ pc \in Deciding \cup Decided => i > Len(image)
  /\ pc = "write_bootconfig" => copies[1] = NoMagic
  /\ pc \in Decided =>
       /\ mem # NoMagic
       /\ copies[1] = mem
       /\ \A p \in AltNames : Written(p) => slot[p][mem.primaryboot[p]] = ver
  /\ pc \in Decided \ {"erase_bootconfig1", "write_bootconfig1"} => copies[2] = mem

(* The records on flash, the driver's record, the names given at power on  *)
(* and the contents of the copies agree at every step of the scripts.      *)
RecordInv == TypeOK /\ RecordsOK /\ BootedOK /\ FlagsOK /\ ProgressOK

(* The version of p that boots next.  While 0:BOOTCONFIG is erased the     *)
(* backup decides if it is current, and power is not lost otherwise.       *)
BootVersion(p) ==
  slot[p][IF pc = "write_bootconfig" THEN named[p] ELSE NextBoot.primaryboot[p]]

(* No copy is newer than the image last taken up, what boots is older      *)
(* until that image is registered, and the record that then decides        *)
(* differs from the booted one in the partitions of the image.             *)
HistoryOK ==
  /\ \A p \in Parts, s \in Slots : slot[p][s] <= ver
  /\ pc \in Sections \cup Deciding => \A p \in AltNames : BootVersion(p) < ver
  /\ pc \in Decided => \A p \in AltNames :
       mem.primaryboot[p] = IF Written(p) THEN 1 - named[p] ELSE named[p]

(* Partitions that come together boot in one version. *)
LockstepOK ==
  \A p, q \in AltNames : Together(p, q) => BootVersion(p) = BootVersion(q)

(* Every image has a root file system, and it is kept in two copies. *)
RootfsCarried ==
  /\ "rootfs" \in AltNames
  /\ \A im \in Images : FlashedBy(im, "rootfs")

(* The fuses follow the root file system that boots next. *)
RootfsOK ==
  RootfsCarried =>
    /\ fuse <= ver
    /\ fuse <= BootVersion("rootfs")

(* The inductive invariant behind the safety properties and the refinement. *)
IInv == RecordInv /\ HistoryOK /\ LockstepOK /\ RootfsOK

-----------------------------------------------------------------------------
(* What is left of it when writes fail and power is lost at any moment.    *)
(* Copies may be blank and both records gone; the ages still tell the      *)
(* driver which record the loaders follow.                                 *)
AgesOK ==
  /\ \A c \in {1, 2} :
       copies[c] # NoMagic => FlagsPaired(copies[c]) /\ copies[c].age <= ver
  /\ copies[1] # NoMagic /\ copies[2] # NoMagic => copies[2].age <= copies[1].age

(* Until 0:BOOTCONFIG is erased, the driver has a record if the loaders    *)
(* found one, and it is newer than the backup.                             *)
LoaderOK ==
  /\ pc \in {"running", "erase_bootconfig"} \cup Sections =>
       /\ mem = NoMagic <=> NextBoot = NoMagic
       /\ NextBoot # NoMagic => \A p \in AltNames : NextBoot.primaryboot[p] = named[p]
  /\ pc \in Deciding => mem # NoMagic
  /\ pc \in {"running"} \cup Sections \cup Deciding /\ mem # NoMagic =>
       /\ copies[2] # NoMagic => copies[2].age < mem.age
       /\ mem.age <= IF pc = "running" THEN ver + 1 ELSE ver
       /\ FlashType = "emmc" /\ "0:HLOS" \in AltNames =>
            named["0:HLOS"] = named["rootfs"]

(* The driver's flags differ from the booted ones for the sections dealt   *)
(* with, whether or not their writes succeeded.                            *)
TogglesOK ==
  mem # NoMagic =>
    /\ pc = "running" => \A p \in AltNames : mem.primaryboot[p] = named[p]
    /\ pc \in Sections \cup Deciding => \A p \in AltNames :
         mem.primaryboot[p] = IF Written(p) \/ BeingWritten(p)
                              THEN 1 - named[p] ELSE named[p]

(* Where the script stands, which copy it writes, and which record decides. *)
PlaceOK ==
  /\ pc \in Upgrading => image \in Images
  /\ pc \in {"erase", "write"} =>
       /\ i <= Len(image)
       /\ mem # NoMagic /\ SectionPart(image[i]) \in AltNames =>
            target = 1 - named[SectionPart(image[i])]
  /\ pc \in Deciding => i > Len(image)
  /\ pc = "write_bootconfig" => copies[1] = NoMagic
  /\ pc \in Decided => copies[1] = mem

(* The inductive invariant for any faults. *)
FaultInv == TypeOK /\ AgesOK /\ LoaderOK /\ TogglesOK /\ PlaceOK

(* Without a record the plain names are those of the first copies, which   *)
(* the loaders take as well, and the script writes there.                  *)
NoRecordOK ==
  pc \in {"running"} \cup Upgrading /\ mem = NoMagic =>
    /\ NextBoot = NoMagic
    /\ \A p \in AltNames : named[p] = 0
    /\ pc \in {"erase", "write"} /\ SectionPart(image[i]) \in AltNames => target = 0

(* The record that the script has written names the copies it has written. *)
SwitchedOK ==
  pc \in Decided =>
    /\ i > Len(image)
    /\ mem # NoMagic => \A p \in AltNames :
         mem.primaryboot[p] = IF Written(p) THEN 1 - named[p] ELSE named[p]

(* A section that is dealt with is in the copy that is to boot, if writes  *)
(* do not fail.                                                            *)
FilledOK ==
  pc \in Upgrading => \A p \in AltNames :
    Written(p) => slot[p][IF mem = NoMagic THEN 0 ELSE 1 - named[p]] = ver

(* The inductive invariant of what an upgrade leaves, with any faults.     *)
OutcomeInv ==
  /\ FaultInv /\ NoRecordOK /\ SwitchedOK
  /\ ~ FlashMayFail => FilledOK
  /\ RootfsCarried => ConfigCarried

-----------------------------------------------------------------------------
(* What was loaded at power on, as long as nothing overwrites it. *)
Running ==
  [p \in AltNames |->
     slot[p][named[IF FlashType = "emmc" /\ p = "0:HLOS" THEN "rootfs" ELSE p]]]

(* The refinement mapping: what boots next, were power lost now, and what  *)
(* runs.  While power may not be lost, what boots next has not changed.    *)
FirmwareBar ==
  IF MayLosePower THEN [p \in AltNames |-> Firmware[p]] ELSE Running
RunningBar == IF pc \in {"off", "prompt"} THEN NoMagic ELSE Running

Atomic == INSTANCE AtomicUpgrade WITH
            Parts <- AltNames,
            Off <- NoMagic,
            firmware <- FirmwareBar,
            running <- RunningBar

(* Every upgrade, interrupted or not, looks like one that replaces the     *)
(* whole firmware in a single step, and leaves alone what is running.      *)
ImplementsAtomicUpgrade == Atomic!Spec
=============================================================================
