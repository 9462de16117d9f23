----------------------------- MODULE PackImage ------------------------------
(***************************************************************************)
(* pack.py: the multi-image blob of a RUTX firmware, from a flash          *)
(* configuration.  A configuration is a sequence of sections; an image is  *)
(* the sequence of section names that the upgrade scripts will see.        *)
(***************************************************************************)
EXTENDS Naturals, Sequences

(* A section of a flash configuration: its name up to the first characters *)
(* that flash_section's patterns look at (tz and tz_1 are both tz), the    *)
(* partition the factory script writes it to, and the section it is a      *)
(* second copy of, "0" for none.                                           *)
ConfSection(name, partition, primary) ==
  [name |-> name, partition |-> partition, primary |-> primary]

(* Mutant: second copies are packed too. *)
MkImageAll(conf) == <<"script">> \o [k \in 1 .. Len(conf) |-> conf[k].name]

(* __gen_script and __mkimage: the script comes first, every section after *)
(* it that is not the second copy of another one.                          *)
MkImage(conf) ==
  LET Single(s) == s.primary = "0"
      kept == SelectSeq(conf, Single)
  IN  <<"script">> \o [k \in 1 .. Len(kept) |-> kept[k].name]

(* norplusnand-apps-flash.conf *)
AppsFlashConf ==
  << ConfSection("ubi", "rootfs", "0"),
     ConfSection("ubi", "rootfs_1", "ubi"),
     ConfSection("u-boot", "0:APPSBL", "0"),
     ConfSection("u-boot", "0:APPSBL_1", "u-boot") >>

(* norplusnand-flash.conf *)
FullFlashConf ==
  << ConfSection("mibib", "0:MIBIB", "0"),
     ConfSection("sbl1", "0:SBL1", "0"),
     ConfSection("bootconfig", "0:BOOTCONFIG", "0"),
     ConfSection("bootconfig", "0:BOOTCONFIG1", "0"),
     ConfSection("ddr", "0:CDT", "0"),
     ConfSection("ddr", "0:CDT_1", "ddr"),
     ConfSection("tz", "0:QSEE", "0"),
     ConfSection("tz", "0:QSEE_1", "tz"),
     ConfSection("u-boot", "0:APPSBL", "0"),
     ConfSection("u-boot", "0:APPSBL_1", "u-boot"),
     ConfSection("ubi", "rootfs", "0"),
     ConfSection("ubi", "rootfs_1", "ubi") >>
=============================================================================
