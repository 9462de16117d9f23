------------------------------- MODULE MtkBmt -------------------------------
(***************************************************************************)
(* The MediaTek bad block table, version 2, at work: boot, the remapping   *)
(* of a block that wears out, the upload of the table (erase, then write,  *)
(* one slot lower after each failure), the debugfs operations, and power   *)
(* lost at any point.  Reads and writes of mtd blocks come from mtk_bmt.c, *)
(* which calls the operations modelled here.                               *)
(***************************************************************************)
EXTENDS BmtScan

CONSTANTS
  Pages,       (* pages of a block                                         *)
  FactoryBad,  (* sets of blocks that may bear a bad mark from the factory *)
  Wearable,    (* blocks that may wear out: erase and write fail from then *)
  MaxWear,     (* bound: blocks that wear out in a behaviour               *)
  CutsUpload,  (* TRUE if power may be lost between the table's erase and  *)
               (* the end of its write                                     *)
  DebugFs,     (* TRUE if the debugfs files are written to                 *)
  NoTable,     (* content of a block without the signature of a table      *)
  Torn         (* content of a block where the signature was written and   *)
               (* the rest of the table was not                            *)

ASSUME FactoryBadAssumption == FactoryBad \subseteq SUBSET (Blocks \ {0})
ASSUME WearAssumption == Wearable \subseteq Blocks /\ MaxWear \in Nat
ASSUME ContentAssumption ==
  NoTable # Torn /\ NoTable \notin Tables /\ Torn \notin Tables
ASSUME PagesAssumption == Pages \in Nat
ASSUME SwitchAssumption == CutsUpload \in BOOLEAN /\ DebugFs \in BOOLEAN

VARIABLES
  marked,   (* flash: blocks whose first page reads as bad                 *)
  worn,     (* flash: blocks on which erase and write fail                 *)
  data,     (* flash: whose pages, and how many, each block holds          *)
  stored,   (* flash: the table in each block, if any                      *)
  bb,       (* bb_tbl: physical block of each logical block                *)
  slots,    (* bmt_tbl                                                     *)
  idx,      (* bmtd.bmt_blk_idx                                            *)
  pc,       (* what the driver is doing                                    *)
  n,        (* slot that upload_bmt is trying                              *)
  ret,      (* what follows the upload                                     *)
  op,       (* the access to an mtd block in progress                      *)
  acked,    (* pages the user of each mtd block can rely on                *)
  used      (* history: debugfs has been written to                        *)

flash == <<marked, worn, data, stored>>
ram == <<bb, slots, idx>>
vars == <<marked, worn, data, stored, bb, slots, idx, pc, n, ret, op, acked, used>>

NoIndex == -1                      (* (u16)-1                              *)
Dirty == -1                        (* being erased: relied on by nobody    *)
NoOp == [kind |-> "none", block |-> 0]
Ops == [kind : {"erase", "write"}, block : Main] \union {NoOp}

Holding(l, k) == IF k = 0 THEN [owner |-> -1, pages |-> 0]
                 ELSE [owner |-> l, pages |-> k]
Blank == Holding(-1, 0)
Contents == {Holding(l, k) : l \in Logical, k \in 0 .. Pages}

Init ==
  /\ marked \in FactoryBad
  /\ worn = {}
  /\ data = [b \in Blocks |-> Blank]
  /\ stored = [b \in Blocks |-> NoTable]
  /\ bb = [l \in Logical |-> 0]
  /\ slots = [i \in Slots |-> Unused]
  /\ idx = NoIndex
  /\ pc = "off" /\ n = NoIndex /\ ret = "idle" /\ op = NoOp
  /\ acked = [l \in Main |-> Dirty]
  /\ used = FALSE

-----------------------------------------------------------------------------
(* Boot: from the last block of flash downwards, the first block with a    *)
(* signature is taken for the table.                                       *)
WithTable == {b \in Blocks : b >= PoolLba /\ stored[b] # NoTable}
TableFound == CHOOSE b \in WithTable : \A x \in WithTable : x <= b
TornFound == WithTable # {} /\ stored[TableFound] = Torn
Loadable == /\ WithTable # {} /\ ~ TornFound
            /\ GetBmtIndex(stored[TableFound].slots) # 0

LoadTable ==
  /\ pc = "off" /\ Loadable
  /\ bb' = stored[TableFound].bb
  /\ slots' = stored[TableFound].slots
  /\ idx' = GetBmtIndex(stored[TableFound].slots)
  /\ pc' = "idle"
  /\ UNCHANGED <<used, flash, n, ret, op, acked>>

(* The table begins with a signature and goes on with erased pages: the    *)
(* driver uses entries that nobody wrote.                                  *)
LoadTorn ==
  /\ pc = "off" /\ TornFound
  /\ pc' = "undefined"
  /\ UNCHANGED <<used, flash, ram, n, ret, op, acked>>

(* No table, or one whose slot is not found: scan_bad_blocks.              *)
Rebuild ==
  /\ pc = "off" /\ ~ Loadable
  /\ ~ TornFound
  /\ ScanOK(marked)
  /\ bb' = ScanMap(marked)
  /\ slots' = ScanSlots(marked)
  /\ idx' = ScanIdx(marked)
  /\ n' = ScanIdx(marked)
  /\ pc' = "erase" /\ ret' = "attach"
  /\ UNCHANGED <<used, flash, op, acked>>

RebuildFails ==
  /\ pc = "off" /\ ~ Loadable
  /\ ~ TornFound
  /\ ~ ScanOK(marked)
  /\ pc' = "failed"
  /\ UNCHANGED <<used, flash, ram, n, ret, op, acked>>

-----------------------------------------------------------------------------
(* Mutant: the upload starts one slot too low.                             *)
StartUploadBelow(then) == n' = idx - 1 /\ ret' = then /\ pc' = "erase"

(* upload_bmt.                                                             *)
StartUpload(then) == n' = idx /\ ret' = then /\ pc' = "erase"

(* Mutants: the index is decremented once more; the index is not replaced. *)
UploadReturnsBelow(result) ==
  /\ idx' = result - 1
  /\ pc' = IF ret # "attach" THEN ret
           ELSE IF result = NoIndex THEN "failed" ELSE "idle"
  /\ ret' = "idle" /\ n' = NoIndex

UploadReturnsOld(result) ==
  /\ idx' = IF ret = "attach" THEN result ELSE idx
  /\ pc' = IF ret # "attach" THEN ret
           ELSE IF result = NoIndex THEN "failed" ELSE "idle"
  /\ ret' = "idle" /\ n' = NoIndex

(* remap_block_v2 and unmap_block_v2 keep what upload_bmt returns without  *)
(* looking; mtk_bmt_init_v2 fails on (u16)-1.                              *)
UploadReturns(result) ==
  /\ idx' = result
  /\ pc' = IF ret # "attach" THEN ret
           ELSE IF result = NoIndex THEN "failed" ELSE "idle"
  /\ ret' = "idle" /\ n' = NoIndex

(* Mutant: the slot that failed is tried again.                            *)
TrySlotAgain == pc' = "erase" /\ UNCHANGED <<slots, n, idx, ret>>

TrySlotBelow ==
  /\ slots' = [slots EXCEPT ![n].block = 0]
  /\ n' = n - 1
  /\ pc' = "erase"
  /\ UNCHANGED <<idx, ret>>

(* Mutant: the upload goes down to slot 0, through slots in use.           *)
NoSpaceAtZero == n < 0

NoSpace == n >= 0 => slots[n].mapped = "normal"

UploadNoSpace ==
  /\ pc = "erase" /\ NoSpace
  /\ UploadReturns(NoIndex)
  /\ UNCHANGED <<used, flash, bb, slots, op, acked>>

(* An erase that fails may leave the old content or destroy it.            *)
EraseTable ==
  /\ pc = "erase" /\ ~ NoSpace
  /\ LET b == slots[n].block IN
       IF b \in worn
       THEN /\ TrySlotBelow
            /\ \E left \in {stored[b], NoTable} : stored' = [stored EXCEPT ![b] = left]
            /\ UNCHANGED data
       ELSE /\ stored' = [stored EXCEPT ![b] = NoTable]
            /\ data' = [data EXCEPT ![b] = Blank]
            /\ pc' = "write"
            /\ UNCHANGED <<slots, n, idx, ret>>
  /\ UNCHANGED <<used, marked, worn, bb, op, acked>>

WriteTable ==
  /\ pc = "write"
  /\ LET b == slots[n].block IN
       IF b \in worn
       THEN /\ TrySlotBelow
            /\ \E left \in {NoTable, Torn} : stored' = [stored EXCEPT ![b] = left]
       ELSE /\ stored' = [stored EXCEPT ![b] = [bb |-> bb, slots |-> slots]]
            /\ UploadReturns(n)
            /\ UNCHANGED slots
  /\ UNCHANGED <<used, marked, worn, data, bb, op, acked>>

-----------------------------------------------------------------------------
(* Mutant: the state of the slot is not looked at.                         *)
FreeSlotsAny == {i \in Slots : i < idx /\ slots[i].block # 0}

(* find_valid_block_in_pool: the first free slot below the table's.        *)
FreeSlots == {i \in Slots : /\ i < idx
                            /\ slots[i].block # 0
                            /\ slots[i].mapped = "no"}
FirstFree == CHOOSE i \in FreeSlots : \A j \in FreeSlots : i <= j

RemapRefused == FreeSlots = {}

(* Mutants: the map is not changed; the number of the slot is taken for    *)
(* that of its block; nothing is copied.                                   *)
RemapBlockUnset(l, from, copy) ==
  /\ slots' = [slots EXCEPT ![FirstFree].mapped = "normal"]
  /\ StartUpload("access")
  /\ UNCHANGED <<bb, data, stored>>

RemapBlockSlot(l, from, copy) ==
  LET new == FirstFree IN
  /\ slots' = [slots EXCEPT ![FirstFree].mapped = "normal"]
  /\ bb' = [bb EXCEPT ![l] = new]
  /\ data' = [data EXCEPT ![new] = IF copy THEN data[from] ELSE Blank]
  /\ StartUpload("access")
  /\ UNCHANGED stored

RemapBlockNoCopy(l, from, copy) ==
  LET new == slots[FirstFree].block IN
  /\ slots' = [slots EXCEPT ![FirstFree].mapped = "normal"]
  /\ bb' = [bb EXCEPT ![l] = new]
  /\ data' = [data EXCEPT ![new] = Blank]
  /\ stored' = [stored EXCEPT ![new] = NoTable]
  /\ StartUpload("access")

(* The erase and the copy are not checked.                                 *)
RemapBlock(l, from, copy) ==
  LET new == slots[FirstFree].block IN
  /\ slots' = [slots EXCEPT ![FirstFree].mapped = "normal"]
  /\ bb' = [bb EXCEPT ![l] = new]
  /\ IF new \in worn THEN UNCHANGED <<data, stored>>
     ELSE /\ data' = [data EXCEPT ![new] = IF copy THEN data[from] ELSE Blank]
          /\ stored' = [stored EXCEPT ![new] = NoTable]
  /\ StartUpload("access")

-----------------------------------------------------------------------------
(* mtk_bmt.c: an access to a block that fails is remapped and tried again, *)
(* until it succeeds or remap_block refuses.                               *)
Submit(kind, l) ==
  /\ pc = "idle"
  /\ kind = "write" => acked[l] \in 0 .. (Pages - 1)
  /\ acked' = IF kind = "erase" THEN [acked EXCEPT ![l] = Dirty] ELSE acked
  /\ op' = [kind |-> kind, block |-> l]
  /\ pc' = "access"
  /\ UNCHANGED <<used, flash, ram, n, ret>>

AccessDone ==
  /\ pc = "access" /\ bb[op.block] \notin worn
  /\ LET l == op.block
         k == IF op.kind = "erase" THEN 0 ELSE acked[l] + 1
     IN  /\ data' = [data EXCEPT ![bb[l]] =
                       IF k = 0 \/ @ = Holding(l, acked[l]) THEN Holding(l, k) ELSE @]
         /\ stored' = [stored EXCEPT ![bb[l]] = IF k = 0 THEN NoTable ELSE @]
         /\ acked' = [acked EXCEPT ![l] = k]
  /\ pc' = "idle" /\ op' = NoOp
  /\ UNCHANGED <<used, marked, worn, ram, n, ret>>

(* With (u16)-1 for an index, the search runs past the end of the table.   *)
AccessUndefined ==
  /\ pc = "access" /\ bb[op.block] \in worn /\ idx = NoIndex
  /\ pc' = "undefined"
  /\ UNCHANGED <<used, flash, ram, n, ret, op, acked>>

AccessRefused ==
  /\ pc = "access" /\ bb[op.block] \in worn /\ idx # NoIndex /\ RemapRefused
  /\ pc' = "idle" /\ op' = NoOp
  /\ UNCHANGED <<used, flash, ram, n, ret, acked>>

AccessRemaps ==
  /\ pc = "access" /\ bb[op.block] \in worn /\ idx # NoIndex /\ ~ RemapRefused
  /\ RemapBlock(op.block, bb[op.block], op.kind = "write" /\ acked[op.block] > 0)
  /\ UNCHANGED <<used, marked, worn, idx, op, acked>>

-----------------------------------------------------------------------------
(* debugfs: a block marked good again, and the release of the slots that   *)
(* no block between 1 and the PMT is mapped to.                            *)
Unmap(l) ==
  /\ DebugFs /\ pc = "idle" /\ idx # NoIndex
  /\ bb' = [bb EXCEPT ![l] = l]
  /\ StartUpload("idle")
  /\ used' = TRUE
  /\ UNCHANGED <<flash, slots, idx, op, acked>>

InUse == {bb[l] : l \in {m \in Main \ {0} : bb[m] # m}}
(* Mutant: the mask is not looked at.                                      *)
ReleasableAll == {i \in Slots : i <= idx /\ slots[i].mapped = "normal"}

Releasable == {i \in Slots : /\ i <= idx
                             /\ slots[i].mapped = "normal"
                             /\ i = idx \/ slots[i].block \notin InUse}

FreeUnused ==
  /\ DebugFs /\ pc = "idle" /\ idx # NoIndex
  /\ Releasable # {}
  /\ slots' = [i \in Slots |-> IF i \in Releasable
                               THEN [slots[i] EXCEPT !.mapped = "no"] ELSE slots[i]]
  /\ StartUpload("idle")
  /\ used' = TRUE
  /\ UNCHANGED <<flash, bb, idx, op, acked>>

DebugUndefined ==
  /\ DebugFs /\ pc = "idle" /\ idx = NoIndex
  /\ pc' = "undefined"
  /\ used' = TRUE
  /\ UNCHANGED <<flash, ram, n, ret, op, acked>>

-----------------------------------------------------------------------------
Wear(b) ==
  /\ Cardinality(worn) < MaxWear
  /\ worn' = worn \union {b}
  /\ UNCHANGED <<used, marked, data, stored, ram, pc, n, ret, op, acked>>

(* Power is lost.  What was being written may be left without its end.     *)
PowerCut ==
  /\ pc # "off"
  /\ pc = "write" => CutsUpload
  /\ IF pc = "write"
     THEN \E left \in {NoTable, Torn} :
            stored' = [stored EXCEPT ![slots[n].block] = left]
     ELSE UNCHANGED stored
  /\ bb' = [l \in Logical |-> 0]
  /\ slots' = [i \in Slots |-> Unused]
  /\ idx' = NoIndex
  /\ pc' = "off" /\ n' = NoIndex /\ ret' = "idle" /\ op' = NoOp
  /\ UNCHANGED <<used, marked, worn, data, acked>>

Boot == LoadTable \/ LoadTorn \/ Rebuild \/ RebuildFails

Work ==
  \/ UploadNoSpace \/ EraseTable \/ WriteTable
  \/ AccessDone \/ AccessUndefined \/ AccessRefused \/ AccessRemaps

(* What is asked of the driver and what happens to it.                     *)
Use ==
  \/ \E l \in Main : Submit("erase", l) \/ Submit("write", l)
  \/ \E l \in Main : Unmap(l)
  \/ FreeUnused \/ DebugUndefined
  \/ \E b \in Wearable \ worn : Wear(b)
  \/ PowerCut

Next == Boot \/ Work \/ Use

Spec == Init /\ [][Next]_vars

-----------------------------------------------------------------------------
(* The variables have the types of the driver's structures.                *)
TypeOK ==
  /\ marked \in SUBSET Blocks /\ worn \in SUBSET Blocks
  /\ data \in [Blocks -> Contents]
  /\ stored \in [Blocks -> Tables \union {NoTable, Torn}]
  /\ bb \in [Logical -> Blocks]
  /\ slots \in [Slots -> [block : Blocks, mapped : Mapped]]
  /\ idx \in Slots \union {NoIndex}
  /\ pc \in {"off", "idle", "access", "erase", "write", "failed", "undefined"}
  /\ n \in Slots \union {NoIndex}
  /\ ret \in {"attach", "access", "idle"}
  /\ op \in Ops
  /\ acked \in [Main -> -1 .. Pages]
  /\ used \in BOOLEAN

Attached == pc \in {"idle", "access", "erase", "write"}

(* debugfs has not been used where it does not fit: unmap_block_v2 takes   *)
(* the block of the same number for the home of a logical block, and the   *)
(* release of slots overlooks the replacement of block 0.                  *)
DebugFits == used => marked = {} /\ 0 \notin worn

(* bb_tbl never sends two logical blocks to one physical block, whatever   *)
(* wears out, whenever power is lost and whichever table a boot has found. *)
MappingInjective ==
  Attached /\ DebugFits => \A k, l \in Logical : bb[k] = bb[l] => k = l

(* A slot that find_valid_block_in_pool may hand out is not in use: the    *)
(* states N (available), M and B of bmt_tbl agree with bb_tbl.             *)
SlotsAccounted ==
  Attached /\ DebugFits => \A l \in Logical, i \in Slots :
                i <= idx /\ slots[i].block # 0 /\ slots[i].block = bb[l]
                  => slots[i].mapped = "normal"

(* The table never lies in a block that a logical block is mapped to, and  *)
(* the upload never erases such a block: upload_bmt stops at the first     *)
(* slot that is in use.                                                    *)
TableAside ==
  DebugFits =>
    /\ pc = "idle" /\ idx # NoIndex => \A l \in Logical : bb[l] # slots[idx].block
    /\ pc \in {"erase", "write"} /\ ~ NoSpace => \A l \in Logical : bb[l] # slots[n].block

(* Whatever happens to other blocks and to the table, an mtd block whose   *)
(* own block never wore out keeps its pages.                               *)
SoundBlockKept ==
  Attached /\ DebugFits =>
    LET home == ScanMap(marked)
    IN  \A l \in Main : home[l] \notin worn /\ acked[l] # Dirty
                          => data[bb[l]] = Holding(l, acked[l])

(* Without losses of power inside the upload and while the pool is sound,  *)
(* every acknowledged page survives remaps and boots: what the mapping in  *)
(* force, or the one the next boot will load, leads to is what was written.*)
MapInForce == IF Attached THEN bb
              ELSE IF Loadable THEN stored[TableFound].bb ELSE ScanMap(marked)
AckedKept ==
  pc # "failed" => LET map == MapInForce
                   IN  \A l \in Main : acked[l] # Dirty => data[map[l]] = Holding(l, acked[l])

(* A slot of the pool is spent for a block that wore out, never for less.  *)
PoolSpentOnWear ==
  Attached /\ ~ used => Cardinality({i \in Slots : slots[i].mapped = "normal"}) <= Cardinality(worn)

(* Every access ends, however many blocks it meets that have worn out, and *)
(* every upload ends: with a table or with no space left.                  *)
AccessEnds == pc = "access" ~> pc \in {"idle", "off", "undefined"}

(* "BMT always in the last valid block in pool": the table a boot finds    *)
(* first is the one the running driver wrote last.                         *)
LastTableCurrent ==
  pc = "idle" /\ idx # NoIndex
    => TableFound = slots[idx].block

(* A table that the driver wrote itself leads it back to its slot.         *)
OwnTableLoads ==
  pc = "idle" /\ idx # NoIndex /\ WithTable # {} /\ ~ TornFound
    => GetBmtIndex(stored[TableFound].slots) = idx

-----------------------------------------------------------------------------
(* The inductive invariant behind MappingInjective, SlotsAccounted,        *)
(* TableAside and SoundBlockKept.                                          *)
(* What holds of every table, in memory and in flash.                      *)
TableOK(m, s) ==
  /\ \A k, l \in Logical : m[k] = m[l] => k = l
  /\ \A i, j \in Slots : s[i].block # 0 /\ s[i].block = s[j].block => i = j
  /\ \A l \in Logical, i \in Slots :
       s[i].block # 0 /\ s[i].block = m[l] => s[i].mapped = "normal"
  /\ LET home == ScanMap(marked)
     IN  \A l \in Logical : m[l] = home[l] \/ home[l] \in worn

MemoryOK == Attached => TableOK(bb, slots)

FlashOK == \A b \in Blocks : stored[b] \notin {NoTable, Torn}
                               => TableOK(stored[b].bb, stored[b].slots)

(* No slot up to the one the table is in, or is being tried in, is empty;  *)
(* that slot is not handed out.                                            *)
Top == IF pc \in {"erase", "write"} THEN n ELSE idx
TopOK ==
  /\ Attached => \A i \in Slots : i <= Top => slots[i].block # 0
  /\ pc \in {"idle", "access"} /\ idx # NoIndex => slots[idx].mapped # "normal"
  /\ pc = "write" => ~ NoSpace

RequestOK ==
  /\ ret # "idle" => pc \in {"erase", "write"}
  /\ pc = "access" \/ ret = "access" =>
       /\ op.kind \in {"erase", "write"}
       /\ op.kind = "write" => acked[op.block] \in 0 .. (Pages - 1)

PagesOK ==
  LET home == ScanMap(marked)
  IN  \A l \in Main : home[l] \notin worn /\ acked[l] # Dirty
                         => data[home[l]] = Holding(l, acked[l])

(* Slots lie in the pool, and a block that is not at home lies there too;  *)
(* those of the PMT are always at home.                                    *)
InPool(m, s) ==
  /\ \A i \in Slots : s[i].block # 0 => s[i].block >= PoolPba(marked)
  /\ LET home == ScanMap(marked)
     IN  \A l \in Logical : m[l] # home[l] => l \in Main /\ m[l] >= PoolPba(marked)

ApartOK ==
  /\ Attached => InPool(bb, slots)
  /\ \A b \in Blocks : stored[b] \notin {NoTable, Torn}
                           => InPool(stored[b].bb, stored[b].slots)

Clean == TypeOK /\ MemoryOK /\ FlashOK /\ TopOK /\ RequestOK /\ PagesOK
IInv == DebugFits => Clean /\ ApartOK
=============================================================================
