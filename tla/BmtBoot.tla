------------------------------ MODULE BmtBoot -------------------------------
(***************************************************************************)
(* The boot of the driver of MtkBmt where it finds no table, loop by loop: *)
(* scan_bad_blocks calls find_valid_block for each entry of bb_tbl, then   *)
(* for each slot of bmt_tbl, and find_valid_block reads block after block. *)
(* Power may be lost, and blocks may wear out, between two reads.          *)
(*                                                                         *)
(* MtkBmt takes the whole scan for one step, whose result BmtScan defines  *)
(* by counting good blocks; the loops implement that step.                 *)
(***************************************************************************)
EXTENDS MtkBmt

VARIABLES
  at,      (* the loop that runs, or what scan_bad_blocks has returned     *)
  entry,   (* i of scan_bad_blocks                                         *)
  block,   (* block that find_valid_block looks at                         *)
  loop,    (* bad blocks that this search has stepped over                 *)
  bbTbl,   (* bb_tbl in bbt_buf: an entry is written before it is read     *)
  bmtTbl   (* bmt_tbl in bbt_buf                                           *)

search == <<entry, block, loop>>
scan == <<at, search, bbTbl, bmtTbl>>
bootVars == <<vars, scan>>

(* Outside of a scan.  What is then left in the buffer is not looked at.   *)
NoScan ==
  /\ at = "none" /\ entry = 0 /\ block = 0 /\ loop = 0
  /\ bbTbl = [l \in Logical |-> 0] /\ bmtTbl = [i \in Slots |-> Unused]

BootInit == Init /\ NoScan

-----------------------------------------------------------------------------
(* Mutant: the bad blocks are counted over all searches.                   *)
SearchFromCounting(b) == block' = b /\ loop' = loop

SearchFrom(b) == block' = b /\ loop' = 0

(* The slots are cleared and bb_tbl[0] is 0, whatever block 0 reads as.    *)
ScanStart ==
  /\ pc = "off" /\ ~ Loadable /\ ~ TornFound
  /\ at = "none"
  /\ at' = "data" /\ entry' = 1 /\ SearchFrom(1)
  /\ UNCHANGED <<vars, bbTbl, bmtTbl>>

(* find_valid_block: what its loop does with the block it reads.           *)
Found == block < Total /\ block \notin marked
NotFound == block >= Total \/ (block \in marked /\ loop >= BbMax)

StepOver ==
  /\ at \in {"data", "pool"}
  /\ ~ Found /\ ~ NotFound
  /\ block' = block + 1 /\ loop' = loop + 1
  /\ UNCHANGED <<vars, at, entry, bbTbl, bmtTbl>>

(* After the last entry, pool_pba is the block behind it.                  *)
DataBlockFound ==
  /\ at = "data" /\ Found
  /\ bbTbl' = [bbTbl EXCEPT ![entry] = block]
  /\ SearchFrom(block + 1)
  /\ IF entry + 1 < PoolLba
     THEN entry' = entry + 1 /\ UNCHANGED at
     ELSE entry' = 0 /\ at' = IF block + 1 >= Total - 2 THEN "failed" ELSE "pool"
  /\ UNCHANGED <<vars, bmtTbl>>

DataBlockMissing ==
  /\ at = "data" /\ NotFound
  /\ at' = "failed"
  /\ UNCHANGED <<vars, search, bbTbl, bmtTbl>>

PoolBlockFound ==
  /\ at = "pool" /\ Found
  /\ bmtTbl' = [bmtTbl EXCEPT ![entry] = [block |-> block, mapped |-> "no"]]
  /\ entry' = entry + 1
  /\ SearchFrom(block + 1)
  /\ UNCHANGED <<vars, at, bbTbl>>

(* Mutant: the last slot is not marked as the table's.                     *)
PoolEndsUnmarked ==
  /\ at = "pool" /\ NotFound
  /\ at' = IF entry < 1 THEN "failed" ELSE "built"
  /\ UNCHANGED <<vars, search, bbTbl, bmtTbl>>

(* Without a block in the pool the mark goes to slot (u16)-1, beyond the   *)
(* table, before the scan fails.                                           *)
PoolEnds ==
  /\ at = "pool" /\ NotFound
  /\ IF entry < 1
     THEN at' = "failed" /\ UNCHANGED bmtTbl
     ELSE at' = "built" /\ bmtTbl' = [bmtTbl EXCEPT ![entry - 1].mapped = "bmt"]
  /\ UNCHANGED <<vars, search, bbTbl>>

EndScan ==
  /\ at' = "none" /\ entry' = 0 /\ block' = 0 /\ loop' = 0
  /\ bbTbl' = [l \in Logical |-> 0] /\ bmtTbl' = [i \in Slots |-> Unused]

(* scan_bad_blocks has returned: mtk_bmt_init_v2 uploads the table, or     *)
(* fails.                                                                  *)
ScanSucceeds ==
  /\ at = "built"
  /\ bb' = bbTbl /\ slots' = bmtTbl /\ idx' = entry - 1
  /\ n' = entry - 1 /\ ret' = "attach" /\ pc' = "erase"
  /\ EndScan
  /\ UNCHANGED <<used, flash, op, acked>>

ScanFails ==
  /\ at = "failed"
  /\ pc' = "failed"
  /\ EndScan
  /\ UNCHANGED <<used, flash, ram, n, ret, op, acked>>

ScanCut == at # "none" /\ EndScan /\ UNCHANGED vars

Scan ==
  \/ ScanStart \/ StepOver
  \/ DataBlockFound \/ DataBlockMissing \/ PoolBlockFound \/ PoolEnds
  \/ ScanSucceeds \/ ScanFails

BootNext ==
  \/ Scan \/ ScanCut
  \/ (LoadTable \/ LoadTorn \/ Work \/ Use) /\ UNCHANGED scan

BootSpec == BootInit /\ [][BootNext]_bootVars
BootFairSpec == BootSpec /\ WF_bootVars(Work /\ UNCHANGED scan)

-----------------------------------------------------------------------------
(* Whatever the marks, the loops of scan_bad_blocks build the table of     *)
(* BmtScan, and fail where ScanOK is false: the l-th entry is the l-th     *)
(* good block, the pool is what follows as far as find_valid_block gets,   *)
(* the table takes the last block of the pool.                             *)
ScanAsCoded ==
  /\ at = "built" =>
       /\ ScanOK(marked)
       /\ bbTbl = ScanMap(marked) /\ bmtTbl = ScanSlots(marked)
       /\ entry - 1 = ScanIdx(marked)
  /\ at = "failed" => ~ ScanOK(marked)

(* A boot that scans, cut short or not, is a boot of MtkBmt, which knows   *)
(* only the result of a scan.                                              *)
LoopsImplementScan == Spec

-----------------------------------------------------------------------------
(* The inductive invariant behind ScanAsCoded.  While the scan runs there  *)
(* is no table to load.                                                    *)
ScanTypeOK ==
  /\ at \in {"none", "data", "pool", "built", "failed"}
  /\ entry \in Slots /\ block \in 0 .. Total /\ loop \in Nat
  /\ bbTbl \in [Logical -> Blocks]
  /\ bmtTbl \in [Slots -> [block : Blocks, mapped : Mapped]]

(* A search at block b, after k bad blocks: it began where the last one    *)
(* ended, or with the loop, and has met nothing but bad blocks since.      *)
SearchOK(m, from, b, k) ==
  LET start == b - k
  IN  /\ from <= start
      /\ start = from \/ start - 1 \notin m
      /\ start .. (b - 1) \subseteq m
      /\ k <= BbMax
      /\ Crossable(m, from, b - 1)

DataOK ==
  /\ entry \in Logical \ {0}
  /\ \A l \in Logical : l < entry => bbTbl[l] \in Ranked(Good(marked), l)
  /\ Below(Good(marked), block) = entry
  /\ SearchOK(marked, 1, block, loop)

DataDone ==
  /\ \A l \in Logical : bbTbl[l] \in Ranked(Good(marked), l)
  /\ Crossable(marked, 1, PoolPba(marked) - 1) /\ PoolPba(marked) < Total - 2

PoolOK ==
  /\ \A j \in Slots : IF j < entry
                      THEN bmtTbl[j].block \in Ranked(Pool(marked), j) /\ bmtTbl[j].mapped = "no"
                      ELSE bmtTbl[j] = Unused
  /\ Below(Pool(marked), block) = entry
  /\ SearchOK(marked, PoolPba(marked), block, loop)

ScanInv ==
  /\ ScanTypeOK
  /\ at # "none" => pc = "off" /\ ~ Loadable /\ ~ TornFound
  /\ at = "none" => NoScan
  /\ at = "data" => DataOK /\ bmtTbl = [j \in Slots |-> Unused]
  /\ at = "pool" => DataDone /\ PoolOK
  /\ ScanAsCoded
=============================================================================
