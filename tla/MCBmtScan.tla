----------------------------- MODULE MCBmtScan ------------------------------
(* Every set of bad marks on eight blocks, scanned block by block, then    *)
(* wear until there is no space left.                                      *)
EXTENDS BmtBoot

MCWearable == Blocks \ {1, 2}
MCFactoryBad == SUBSET (Blocks \ {0})
=============================================================================
