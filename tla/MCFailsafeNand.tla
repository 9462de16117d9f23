--------------------------- MODULE MCFailsafeNand ---------------------------
(* A RUTX as it ships: NOR and NAND, images packed from the two flash      *)
(* configurations of the repository.                                       *)
EXTENDS FailsafeUpgrade, PackImage

MCParts == {"rootfs", "0:APPSBL", "0:QSEE", "0:CDT"}
MCImages == {MkImage(AppsFlashConf), MkImage(FullFlashConf)}
=============================================================================
