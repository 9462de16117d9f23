--------------------------- MODULE MCFailsafeEmmc ---------------------------
(* A device of the same family on eMMC, where the kernel and the root file *)
(* system are partitions of their own.                                     *)
EXTENDS FailsafeUpgrade

MCParts == {"0:HLOS", "rootfs", "0:APPSBL"}
MCImages == {<<"hlos", "fs">>, <<"script", "u-boot", "hlos", "rootfs">>}
=============================================================================
