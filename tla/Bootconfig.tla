----------------------------- MODULE Bootconfig -----------------------------
(***************************************************************************)
(* The dual-boot record of the RUTX and who reads it.  Two flash           *)
(* partitions, 0:BOOTCONFIG and 0:BOOTCONFIG1, each hold one record: an    *)
(* age and, for every partition that exists in two copies, the number of   *)
(* the copy to boot (primaryboot).  Three programs read it: the first boot *)
(* loader (outside this repository), U-Boot, and the kernel's bootconfig   *)
(* driver, which also lets user space change its private copy.             *)
(***************************************************************************)
EXTENDS Integers

CONSTANTS
  AltNames,   (* names listed in the record: partitions kept in two copies *)
  AgeMod,     (* 2^32 in the code: age is an uint32_t                      *)
  NoMagic,    (* a copy, or a driver, without a valid record               *)
  FlashType   (* "emmc", or "nand" for NOR and NAND                        *)

ASSUME AgeModAssumption == AgeMod \in Nat \ {0}
ASSUME FlashTypeAssumption == FlashType \in {"emmc", "nand"}

Slots == {0, 1}

(* struct sbl_if_dualboot_info_type_v2, without its two magic words. *)
BootCfg == [age : 0 .. AgeMod - 1, primaryboot : [AltNames -> Slots]]

ASSUME NoMagicAssumption == NoMagic \notin BootCfg

-----------------------------------------------------------------------------
(* Mutant: the comparison of the ages is the wrong way round. *)
DriverConfigOldest(copy1, copy2) ==
  LET bootconfig1 == IF copy1 = NoMagic THEN copy2 ELSE copy1
      bootconfig2 == IF copy2 = NoMagic THEN bootconfig1 ELSE copy2
      oldest == IF bootconfig2.age < bootconfig1.age THEN bootconfig2
                                                     ELSE bootconfig1
  IN  IF bootconfig1 = NoMagic THEN NoMagic
      ELSE [oldest EXCEPT !.age = (@ + 1) % AgeMod]

(* bootconfig_partition_init: a copy without its magic word is replaced by *)
(* the other one, the older of the two is dropped, and the age of the one  *)
(* that is kept goes up in memory.  Without any copy there is no           *)
(* /proc/boot_info.                                                        *)
DriverConfig(copy1, copy2) ==
  LET bootconfig1 == IF copy1 = NoMagic THEN copy2 ELSE copy1
      bootconfig2 == IF copy2 = NoMagic THEN bootconfig1 ELSE copy2
      newest == IF bootconfig2.age > bootconfig1.age THEN bootconfig2
                                                     ELSE bootconfig1
  IN  IF bootconfig1 = NoMagic THEN NoMagic
      ELSE [newest EXCEPT !.age = (@ + 1) % AgeMod]

(* The first boot loader, as the driver's comment describes it: the first  *)
(* copy is used, the second is its backup.                                 *)
SblConfig(copy1, copy2) == IF copy1 = NoMagic THEN copy2 ELSE copy1

(* get_rootfs_active_partition, and 0 when the record is missing. *)
ActivePart(cfg, p) ==
  IF cfg # NoMagic /\ p \in AltNames THEN cfg.primaryboot[p] ELSE 0

(* The copy of partition p that boots under a record.  On eMMC, U-Boot     *)
(* picks the kernel partition by the flag of rootfs.                       *)
BootSlot(cfg, p) ==
  ActivePart(cfg, IF FlashType = "emmc" /\ p = "0:HLOS" THEN "rootfs" ELSE p)

(* Mutant: the flag is counted up. *)
ToggleCounts(cfg, p) == [cfg EXCEPT !.primaryboot[p] = @ + 1]

(* Mutant: the flag is set and never cleared. *)
ToggleSets(cfg, p) == [cfg EXCEPT !.primaryboot[p] = 1]

(* echo 1 or 0 > primaryboot, from the value that was just read. *)
Toggle(cfg, p) ==
  [cfg EXCEPT !.primaryboot[p] = IF @ = 0 THEN 1 ELSE 0]

(* Mutant: the plain name is taken for the copy that was not booted. *)
UpgradeSlotBooted(cfg, p, named) ==
  IF FlashType = "emmc" THEN cfg.primaryboot[p] ELSE named[p]

(* part_upgradepartition_show, as the number of the copy its name denotes: *)
(* on eMMC names are fixed; on NOR and NAND the boot loader has named the  *)
(* copies at power on so that name_1 is the one that was not booted.       *)
UpgradeSlot(cfg, p, named) ==
  IF FlashType = "emmc"
  THEN IF cfg.primaryboot[p] # 0 THEN 0 ELSE 1
  ELSE 1 - named[p]
=============================================================================
