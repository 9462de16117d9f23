------------------------------ MODULE BmtScan -------------------------------
(***************************************************************************)
(* The bad block table of MediaTek NAND (BMT version 2): how a driver that *)
(* finds no table builds one from the blocks' bad marks, and how it finds  *)
(* the slot of the table in a table it has read.                           *)
(*                                                                         *)
(* The loops of scan_bad_blocks are written in closed form: the l-th       *)
(* logical block is the good block with l good blocks below it.  BmtBoot   *)
(* holds the loops themselves.                                             *)
(***************************************************************************)
EXTENDS Integers, FiniteSets

CONSTANTS
  Total,    (* bmtd.total_blks                                             *)
  PoolLba,  (* bmtd.pool_lba: the first logical block of the pool          *)
  BbMax     (* bmtd.bb_max: bad blocks that one search may step over       *)

ASSUME SizeAssumption ==
  /\ Total \in Nat /\ PoolLba \in Nat /\ BbMax \in Nat
  /\ 2 < PoolLba /\ PoolLba < Total

Blocks == 0 .. (Total - 1)
Logical == 0 .. (PoolLba - 1)
Main == 0 .. (PoolLba - 3)       (* what mtd->size leaves: all but the PMT *)
Slots == 0 .. Total              (* indices of bmt_tbl                     *)
Mapped == {"no", "normal", "bmt"}
Unused == [block |-> 0, mapped |-> "no"]

Tables == [bb : [Logical -> Blocks], slots : [Slots -> [block : Blocks, mapped : Mapped]]]

(* Blocks the scan accepts.  Block 0 is taken without being read.          *)
Good(marked) == (Blocks \ marked) \union {0}

Below(S, b) == Cardinality({x \in S : x < b})

(* find_valid_block gives up at the bad block number BbMax + 1 of a run.   *)
Crossable(marked, from, to) ==
  \A x \in from .. to : ~ (x .. (x + BbMax) \subseteq marked \cap (from .. to))

Ranked(S, i) == {b \in S : Below(S, b) = i}

ScanMap(marked) ==
  LET good == Good(marked)
  IN  [l \in Logical |-> CHOOSE b \in Ranked(good, l) : TRUE]

PoolPba(marked) == ScanMap(marked)[PoolLba - 1] + 1

Pool(marked) ==
  LET pba == PoolPba(marked)
  IN  {b \in Good(marked) : b >= pba /\ Crossable(marked, pba, b)}

(* The slots that the scan of the pool fills are those up to i.            *)
LastSlot(pool, i) == \A j \in Slots : Ranked(pool, j) # {} <=> j <= i

(* scan_bad_blocks returns 0: a block for every l, and one for the table.  *)
ScanOK(marked) ==
  /\ \A l \in Logical : Ranked(Good(marked), l) # {}
  /\ LET pba == PoolPba(marked) IN Crossable(marked, 1, pba - 1) /\ pba < Total - 2
  /\ LET pool == Pool(marked) IN \E i \in Slots : LastSlot(pool, i)

ScanIdx(marked) == LET pool == Pool(marked) IN CHOOSE i \in Slots : LastSlot(pool, i)

(* Mutant: the slot of the table is not marked as such.                    *)
ScanSlotsUnmarked(marked) ==
  LET pool == Pool(marked)
      last == ScanIdx(marked)
  IN  [i \in Slots |->
         IF i > last THEN Unused
         ELSE [block |-> CHOOSE b \in Ranked(pool, i) : TRUE, mapped |-> "no"]]

ScanSlots(marked) ==
  LET pool == Pool(marked)
      last == ScanIdx(marked)
  IN  [i \in Slots |->
         IF i > last THEN Unused
         ELSE [block |-> CHOOSE b \in Ranked(pool, i) : TRUE,
               mapped |-> IF i = last THEN "bmt" ELSE "no"]]

(* The first slot marked as the table's, before the first empty one; 0 if  *)
(* there is none.                                                          *)
GetBmtIndex(slots) ==
  LET Holds(i) == slots[i].mapped = "bmt" /\ \A j \in 0 .. i : slots[j].block # 0
  IN  IF \E i \in Slots : Holds(i)
      THEN CHOOSE i \in Slots : Holds(i) /\ \A j \in Slots : Holds(j) => i <= j
      ELSE 0
=============================================================================
