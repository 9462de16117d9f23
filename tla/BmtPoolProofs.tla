---------------------------- MODULE BmtPoolProofs ---------------------------
(***************************************************************************)
(* What the pool is spent on and what its table keeps, for every size of   *)
(* flash and pool, every set of factory marks and every order of wear.     *)
(***************************************************************************)
EXTENDS MtkBmtProofs

(* The inductive invariant of PoolSpentOnWear.  What a table has used up:  *)
(* the slots it has handed out, and the worn blocks that it mapped to and  *)
(* no longer does, its homes and the blocks of such slots.                 *)
HandedOut(s) == {i \in Slots : s[i].mapped = "normal"}
Homes(mk) == {ScanMap(mk)[l] : l \in Logical}
Retired(mk, w, m, s) ==
  {b \in w : /\ \A l \in Logical : m[l] # b
             /\ b \in Homes(mk) \/ \E i \in HandedOut(s) : s[i].block = b}

Spent(mk, w, m, s) ==
  /\ \A l \in Logical : m[l] \in Homes(mk) \/ \E i \in HandedOut(s) : s[i].block = m[l]
  /\ \A i \in Slots : s[i].block # 0 => s[i].block \notin Homes(mk)
  /\ Cardinality(HandedOut(s)) <= Cardinality(Retired(mk, w, m, s))

SpentOK ==
  /\ Attached => Spent(marked, worn, bb, slots)
  /\ \A b \in Blocks : stored[b] \notin {NoTable, Torn}
                         => Spent(marked, worn, stored[b].bb, stored[b].slots)
SpentInv == ~ used => Clean /\ SpentOK

(* The inductive invariant of AckedKept, LastTableCurrent and              *)
(* OwnTableLoads, where the pool is sound and no loss of power hits the    *)
(* write of the table: the table stays in the last block of the pool.      *)
LastBlock(mk) == ScanSlots(mk)[ScanIdx(mk)].block

WellTable(mk, m, s) ==
  /\ \A i \in Slots : s[i].block = ScanSlots(mk)[i].block
  /\ s[ScanIdx(mk)].mapped = "bmt"
  /\ \A i \in Slots : i < ScanIdx(mk) => s[i].mapped # "bmt"
  /\ ScanIdx(mk) = 0 => m = ScanMap(mk)

Readable(a, d, m) == \A l \in Main : a[l] # Dirty => d[m[l]] = Holding(l, a[l])
AllDirty == \A l \in Main : acked[l] = Dirty

FlashKeeps ==
  LET t == stored[LastBlock(marked)]
  IN  /\ \A b \in Blocks : b # LastBlock(marked) => stored[b] = NoTable
      /\ t # Torn
      /\ t # NoTable => WellTable(marked, t.bb, t.slots) /\ Readable(acked, data, t.bb)
      /\ t = NoTable => pc = "write" \/ AllDirty

MemoryKeeps ==
  /\ pc \in {"off", "idle", "access", "erase", "write"}
  /\ Attached => /\ idx = ScanIdx(marked)
                 /\ WellTable(marked, bb, slots) /\ Readable(acked, data, bb)
  /\ pc \in {"erase", "write"} => n = idx
  /\ pc \in {"idle", "access"} => stored[LastBlock(marked)] = [bb |-> bb, slots |-> slots]

NeverAttached ==
  /\ pc \in {"off", "failed"} /\ AllDirty
  /\ \A b \in Blocks : stored[b] = NoTable

EraseDirty ==
  (pc = "access" \/ ret = "access") /\ op.kind = "erase" => acked[op.block] = Dirty

KeptInv ==
  /\ Clean /\ EraseDirty
  /\ marked \in FactoryBad /\ worn \subseteq Wearable
  /\ IF ScanOK(marked) THEN FlashKeeps /\ MemoryKeeps ELSE NeverAttached

(* The pool that a scan finds is sound.                                    *)
SoundPool == \A m \in FactoryBad : ScanOK(m) => Wearable \cap Pool(m) = {}

-----------------------------------------------------------------------------
(* The scan hands out no slot: the last one is the table's, those below it *)
(* are free, and all of them are blocks of the pool.                       *)
LEMMA ScanSlotsMarked ==
  ASSUME NEW m \in SUBSET Blocks, ScanOK(m)
  PROVE  /\ \A i \in Slots : ScanSlots(m)[i].mapped \in {"no", "bmt"}
         /\ ScanSlots(m)[ScanIdx(m)].mapped = "bmt"
         /\ \A i \in Slots : i < ScanIdx(m) => ScanSlots(m)[i].mapped = "no"
         /\ \A i \in Slots : i <= ScanIdx(m) => ScanSlots(m)[i].block \in Pool(m)
<1> DEFINE P == Pool(m)
           last == ScanIdx(m)
<1>1. last \in Slots /\ LastSlot(P, last)
  <2>1. \E i \in Slots : LastSlot(P, i)
    BY DEF ScanOK
  <2> HIDE DEF P
  <2>2. last = CHOOSE i \in Slots : LastSlot(P, i)
    BY DEF ScanIdx, P
  <2> QED
    BY <2>1, <2>2
<1>2. ScanSlots(m) = [i \in Slots |->
                        IF i > last THEN Unused
                        ELSE [block |-> CHOOSE b \in Ranked(P, i) : TRUE,
                              mapped |-> IF i = last THEN "bmt" ELSE "no"]]
  BY DEF ScanSlots
<1> HIDE DEF P, last
<1>3. \A i \in Slots : i <= last => (CHOOSE b \in Ranked(P, i) : TRUE) \in P
  BY <1>1 DEF LastSlot, Ranked
<1>4. \A i \in Slots : ScanSlots(m)[i].mapped \in {"no", "bmt"}
  BY <1>2 DEF Unused
<1>5. ScanSlots(m)[last].mapped = "bmt"
  BY <1>1, <1>2, Ranges
<1>6. \A i \in Slots : i < last => ScanSlots(m)[i].mapped = "no"
  BY <1>1, <1>2, Ranges
<1>7. \A i \in Slots : i <= last => ScanSlots(m)[i].block \in P
  BY <1>1, <1>2, <1>3, Ranges
<1> QED
  BY <1>4, <1>5, <1>6, <1>7, Zenon DEF P, last

LEMMA CountsFinite ==
  ASSUME NEW mk, NEW w \in SUBSET Blocks, NEW m, NEW s
  PROVE  /\ IsFiniteSet(HandedOut(s)) /\ Cardinality(HandedOut(s)) \in Nat
         /\ IsFiniteSet(Retired(mk, w, m, s)) /\ Cardinality(Retired(mk, w, m, s)) \in Nat
<1>1. IsFiniteSet(Blocks) /\ IsFiniteSet(Slots)
  BY FS_Interval, SizeAssumption DEF Blocks, Slots
<1>2. HandedOut(s) \subseteq Slots /\ Retired(mk, w, m, s) \subseteq Blocks
  BY DEF HandedOut, Retired
<1> QED
  BY <1>1, <1>2, FS_Subset, FS_CardinalityType

(* A table that the scan has built has used up nothing.                    *)
LEMMA SpentFresh ==
  ASSUME NEW mk \in SUBSET Blocks, NEW w \in SUBSET Blocks, ScanOK(mk)
  PROVE  Spent(mk, w, ScanMap(mk), ScanSlots(mk))
<1>1. HandedOut(ScanSlots(mk)) = {}
  BY ScanSlotsMarked DEF HandedOut
<1>2. Cardinality(HandedOut(ScanSlots(mk))) = 0
  BY <1>1, FS_EmptySet
<1>3. Cardinality(Retired(mk, w, ScanMap(mk), ScanSlots(mk))) \in Nat
  BY CountsFinite
<1>4. \A l \in Logical : ScanMap(mk)[l] \in Homes(mk)
  BY DEF Homes
<1>5. \A i \in Slots : ScanSlots(mk)[i].block # 0 => ScanSlots(mk)[i].block \notin Homes(mk)
  BY ScanSlotsOK DEF Homes
<1> QED
  BY <1>2, <1>3, <1>4, <1>5 DEF Spent

(* Wear only adds to what may be retired.                                  *)
LEMMA SpentMore ==
  ASSUME NEW mk, NEW w \in SUBSET Blocks, NEW x \in SUBSET Blocks, w \subseteq x, NEW m, NEW s,
         Spent(mk, w, m, s)
  PROVE  Spent(mk, x, m, s)
<1>1. Retired(mk, w, m, s) \subseteq Retired(mk, x, m, s)
  BY DEF Retired
<1>2. Cardinality(Retired(mk, w, m, s)) <= Cardinality(Retired(mk, x, m, s))
  BY <1>1, CountsFinite, FS_Subset, Zenon
<1>3. Cardinality(HandedOut(s)) <= Cardinality(Retired(mk, x, m, s))
  BY <1>2, CountsFinite DEF Spent
<1> QED
  BY <1>3 DEF Spent

(* A slot that is given up for the table was not handed out.               *)
LEMMA SpentBelow ==
  ASSUME NEW mk, NEW w, NEW m, NEW s \in [Slots -> [block : Blocks, mapped : Mapped]],
         NEW k \in Slots, s[k].mapped # "normal", Spent(mk, w, m, s)
  PROVE  Spent(mk, w, m, [s EXCEPT ![k].block = 0])
<1> DEFINE t == [s EXCEPT ![k].block = 0]
<1>1. \A i \in Slots : /\ t[i].mapped = s[i].mapped
                       /\ t[i].block # 0 => t[i].block = s[i].block
                       /\ s[i].mapped = "normal" => t[i] = s[i]
  OBVIOUS
<1> HIDE DEF t
<1>2. HandedOut(t) = HandedOut(s) /\ \A i \in HandedOut(s) : t[i] = s[i]
  BY <1>1 DEF HandedOut
<1>3. Retired(mk, w, m, t) = Retired(mk, w, m, s)
  BY <1>2 DEF Retired
<1>4. Spent(mk, w, m, t)
  BY <1>1, <1>2, <1>3 DEF Spent
<1> QED
  BY <1>4 DEF t

(* remap_block_v2 hands out one slot and retires one worn block, that the  *)
(* table mapped to until then.                                             *)
LEMMA SpentRemap ==
  ASSUME NEW mk, NEW w \in SUBSET Blocks, NEW m \in [Logical -> Blocks],
         NEW s \in [Slots -> [block : Blocks, mapped : Mapped]], Spent(mk, w, m, s),
         \A j, k \in Logical : m[j] = m[k] => j = k,
         \A i, j \in Slots : s[i].block # 0 /\ s[i].block = s[j].block => i = j,
         NEW l \in Logical, m[l] \in w,
         NEW f \in Slots, s[f].block # 0, s[f].mapped = "no", \A k \in Logical : m[k] # s[f].block
  PROVE  Spent(mk, w, [m EXCEPT ![l] = s[f].block], [s EXCEPT ![f].mapped = "normal"])
<1> DEFINE p == [m EXCEPT ![l] = s[f].block]
           t == [s EXCEPT ![f].mapped = "normal"]
           R == Retired(mk, w, m, s)
           Q == Retired(mk, w, p, t)
<1>1. \A i \in Slots : /\ t[i].block = s[i].block
                       /\ t[i].mapped = IF i = f THEN "normal" ELSE s[i].mapped
  OBVIOUS
<1>2. \A k \in Logical : p[k] = IF k = l THEN s[f].block ELSE m[k]
  OBVIOUS
<1> HIDE DEF p, t
<1>3. HandedOut(t) = HandedOut(s) \union {f} /\ f \notin HandedOut(s) /\ HandedOut(s) \subseteq Slots
  BY <1>1 DEF HandedOut
<1>4. \A k \in Logical : p[k] \in Homes(mk) \/ \E i \in HandedOut(t) : t[i].block = p[k]
  <2> TAKE k \in Logical
  <2>1. CASE k = l
    BY <1>1, <1>2, <1>3, <2>1
  <2>2. CASE k # l
    <3>1. p[k] = m[k]
      BY <1>2, <2>2
    <3>2. CASE m[k] \in Homes(mk)
      BY <3>1, <3>2
    <3>3. ASSUME NEW i \in HandedOut(s), s[i].block = m[k]
          PROVE  \E j \in HandedOut(t) : t[j].block = p[k]
      BY <1>1, <1>3, <3>1, <3>3, Zenon
    <3> QED
      BY <3>2, <3>3 DEF Spent
  <2> QED
    BY <2>1, <2>2
<1>5. \A i \in Slots : t[i].block # 0 => t[i].block \notin Homes(mk)
  BY <1>1 DEF Spent
<1>6. m[l] \notin R
  BY DEF Retired
<1>7. R \union {m[l]} \subseteq Q
  <2>1. ASSUME NEW b \in R PROVE b \in Q
    <3>1. b \in w /\ \A k \in Logical : m[k] # b
      BY DEF Retired
    <3>2. CASE b \in Homes(mk)
      <4>1. b # s[f].block
        BY <3>2 DEF Spent
      <4> QED
        BY <1>2, <3>1, <3>2, <4>1 DEF Retired
    <3>3. ASSUME NEW i \in HandedOut(s), s[i].block = b PROVE b \in Q
      <4>1. b # s[f].block
        BY <1>3, <3>3, Zenon
      <4>2. i \in HandedOut(t) /\ t[i].block = b
        BY <1>1, <1>3, <3>3
      <4> QED
        BY <1>2, <3>1, <4>1, <4>2 DEF Retired
    <3> QED
      BY <3>2, <3>3 DEF Retired
  <2>2. m[l] \in Q
    <3>1. \A k \in Logical : p[k] # m[l]
      BY <1>2, Zenon
    <3>2. m[l] \in Homes(mk) \/ \E i \in HandedOut(t) : t[i].block = m[l]
      BY <1>1, <1>3 DEF Spent
    <3> QED
      BY <3>1, <3>2, Zenon DEF Retired
  <2> QED
    BY <2>1, <2>2, Zenon
<1> HIDE DEF R, Q
<1>8. /\ IsFiniteSet(R) /\ Cardinality(R) \in Nat /\ IsFiniteSet(Q) /\ Cardinality(Q) \in Nat
      /\ IsFiniteSet(HandedOut(s)) /\ Cardinality(HandedOut(s)) \in Nat
  BY CountsFinite, SMTT(30) DEF R, Q
<1>9. IsFiniteSet(R \union {m[l]}) /\ Cardinality(R \union {m[l]}) = Cardinality(R) + 1
  BY <1>6, <1>8, FS_AddElement, Zenon
<1>10. Cardinality(R \union {m[l]}) <= Cardinality(Q)
  BY <1>7, <1>8, FS_Subset
<1>11. Cardinality(HandedOut(t)) = Cardinality(HandedOut(s)) + 1
  BY <1>3, <1>8, FS_AddElement, ZenonT(40)
<1>12. Cardinality(HandedOut(s)) <= Cardinality(R)
  BY DEF Spent, R
<1>13. Cardinality(HandedOut(t)) <= Cardinality(Q)
  BY <1>8, <1>9, <1>10, <1>11, <1>12
<1> QED
  BY <1>4, <1>5, <1>13, Zenon DEF Spent, p, t, Q

(* A step that writes no table leaves those in flash as they were.         *)
LEMMA FlashSpent ==
  ASSUME Clean, SpentOK, marked' = marked, worn \subseteq worn', worn' \in SUBSET Blocks,
         \A c \in Blocks : stored'[c] \notin {NoTable, Torn} => stored'[c] = stored[c],
         Attached' => Spent(marked', worn', bb', slots')
  PROVE  SpentOK'
<1> SUFFICES ASSUME NEW c \in Blocks, stored'[c] \notin {NoTable, Torn}
             PROVE  Spent(marked', worn', stored'[c].bb, stored'[c].slots)
  BY Zenon DEF SpentOK
<1>1. Spent(marked, worn, stored[c].bb, stored[c].slots) /\ worn \in SUBSET Blocks
  BY DEF SpentOK, Clean, TypeOK
<1> QED
  BY <1>1, SpentMore

(* Only the scan, a boot, a remap and a slot given up change the table.    *)
LEMMA SpentStep ==
  ASSUME Clean, SpentOK, [Next]_vars, ~ used'
  PROVE  SpentOK'
<1>0. worn \in SUBSET Blocks /\ marked \in SUBSET Blocks
  BY DEF Clean, TypeOK
<1>1. CASE UNCHANGED vars
  BY <1>0, <1>1, FlashSpent DEF vars, SpentOK, Attached
<1>2. CASE LoadTable
  <2>1. /\ UNCHANGED <<marked, worn, stored>> /\ Loadable
        /\ bb' = stored[TableFound].bb /\ slots' = stored[TableFound].slots
    BY <1>2 DEF LoadTable, flash
  <2>2. TableFound \in Blocks /\ stored[TableFound] \notin {NoTable, Torn}
    BY <2>1, FoundIsStored, ContentAssumption DEF Clean
  <2>3. Spent(marked, worn, bb', slots')
    BY <2>1, <2>2, Zenon DEF SpentOK
  <2> QED
    BY <1>0, <2>1, <2>3, FlashSpent
<1>3. CASE LoadTorn \/ RebuildFails \/ AccessUndefined \/ AccessRefused
  <2>1. UNCHANGED <<marked, worn, stored, bb, slots>> /\ (Attached' => Attached)
    BY <1>3 DEF LoadTorn, RebuildFails, AccessUndefined, AccessRefused, flash, ram, Attached
  <2> QED
    BY <1>0, <2>1, FlashSpent DEF SpentOK
<1>4. CASE Rebuild
  <2>1. /\ UNCHANGED <<marked, worn, stored>> /\ ScanOK(marked)
        /\ bb' = ScanMap(marked) /\ slots' = ScanSlots(marked)
    BY <1>4 DEF Rebuild, flash
  <2>2. Spent(marked, worn, bb', slots')
    BY <1>0, <2>1, SpentFresh, Zenon
  <2> QED
    BY <1>0, <2>1, <2>2, FlashSpent
<1>5. CASE UploadNoSpace
  <2>1. UNCHANGED <<marked, worn, stored, bb, slots>> /\ Attached
    BY <1>5, Zenon DEF UploadNoSpace, flash, Attached
  <2> QED
    BY <1>0, <2>1, FlashSpent, Zenon DEF SpentOK
<1>6. ASSUME pc \in {"erase", "write"}, ~ NoSpace, TrySlotBelow, UNCHANGED <<marked, worn, bb>>,
             NEW left \in {stored[slots[n].block], NoTable, Torn},
             stored' = [stored EXCEPT ![slots[n].block] = left]
      PROVE  SpentOK'
  <2>1. n \in Slots /\ slots[n].block \in Blocks /\ slots[n].mapped # "normal"
    BY <1>6, TriedAside, Zenon
  <2>2. Spent(marked, worn, bb, slots)
    BY <1>6 DEF SpentOK, Attached
  <2>3. slots \in [Slots -> [block : Blocks, mapped : Mapped]]
    BY DEF Clean, TypeOK
  <2>4. slots' = [slots EXCEPT ![n].block = 0]
    BY <1>6 DEF TrySlotBelow
  <2>5. Spent(marked, worn, bb, slots')
    BY <2>1, <2>2, <2>3, <2>4, SpentBelow, Zenon
  <2>6. \A c \in Blocks : stored'[c] \notin {NoTable, Torn} => stored'[c] = stored[c]
    BY <1>6, <2>1 DEF Clean, TypeOK
  <2> QED
    BY <1>0, <1>6, <2>5, <2>6, FlashSpent
<1>7. CASE EraseTable
  <2>1. pc = "erase" /\ ~ NoSpace /\ UNCHANGED <<marked, worn, bb>>
    BY <1>7 DEF EraseTable
  <2>2. CASE slots[n].block \in worn
    <3>1. TrySlotBelow /\ \E left \in {stored[slots[n].block], NoTable} :
                             stored' = [stored EXCEPT ![slots[n].block] = left]
      BY <1>7, <2>2, Zenon DEF EraseTable
    <3> QED
      BY <1>6, <2>1, <3>1, Zenon
  <2>3. CASE slots[n].block \notin worn
    <3>1. stored' = [stored EXCEPT ![slots[n].block] = NoTable] /\ slots' = slots
      BY <1>7, <2>3 DEF EraseTable
    <3>2. \A c \in Blocks : stored'[c] \notin {NoTable, Torn} => stored'[c] = stored[c]
      BY <3>1 DEF Clean, TypeOK
    <3>3. Spent(marked, worn, bb, slots)
      BY <2>1 DEF SpentOK, Attached
    <3> QED
      BY <1>0, <2>1, <3>1, <3>2, <3>3, FlashSpent
  <2> QED
    BY <2>2, <2>3
<1>8. CASE WriteTable
  <2>1. pc = "write" /\ ~ NoSpace /\ UNCHANGED <<marked, worn, bb>>
    BY <1>8 DEF WriteTable, Clean, TopOK
  <2>2. CASE slots[n].block \in worn
    <3>1. TrySlotBelow /\ \E left \in {NoTable, Torn} :
                             stored' = [stored EXCEPT ![slots[n].block] = left]
      BY <1>8, <2>2, Zenon DEF WriteTable
    <3> QED
      BY <1>6, <2>1, <3>1, Zenon
  <2>3. CASE slots[n].block \notin worn
    <3>1. /\ stored' = [stored EXCEPT ![slots[n].block] = [bb |-> bb, slots |-> slots]]
          /\ slots' = slots
      BY <1>8, <2>3 DEF WriteTable
    <3>2. Spent(marked, worn, bb, slots)
      BY <2>1 DEF SpentOK, Attached
    <3>3. ASSUME NEW c \in Blocks, stored'[c] \notin {NoTable, Torn}
          PROVE  Spent(marked, worn, stored'[c].bb, stored'[c].slots)
      <4>1. CASE c = slots[n].block
        <5>1. stored'[c].bb = bb /\ stored'[c].slots = slots
          BY <3>1, <4>1 DEF Clean, TypeOK
        <5> QED
          BY <3>2, <5>1
      <4>2. CASE c # slots[n].block
        <5>1. stored'[c] = stored[c]
          BY <3>1, <4>2 DEF Clean, TypeOK
        <5> QED
          BY <3>3, <5>1 DEF SpentOK
      <4> QED
        BY <4>1, <4>2
    <3> QED
      BY <2>1, <3>1, <3>2, <3>3 DEF SpentOK
  <2> QED
    BY <2>2, <2>3
<1>9. CASE AccessDone
  <2>1. /\ UNCHANGED <<marked, worn, bb, slots>> /\ pc = "access"
        /\ stored' = [stored EXCEPT ![bb[op.block]] =
                        IF (IF op.kind = "erase" THEN 0 ELSE acked[op.block] + 1) = 0
                        THEN NoTable ELSE @]
    BY <1>9 DEF AccessDone, ram
  <2>2. \A c \in Blocks : stored'[c] \notin {NoTable, Torn} => stored'[c] = stored[c]
    BY <2>1 DEF Clean, TypeOK
  <2>3. Spent(marked, worn, bb, slots)
    BY <2>1 DEF SpentOK, Attached
  <2> QED
    BY <1>0, <2>1, <2>2, <2>3, FlashSpent
<1>10. CASE AccessRemaps
  <2> DEFINE l == op.block
             f == FirstFree
             new == slots[f].block
  <2>1. /\ pc = "access" /\ bb[l] \in worn /\ FreeSlots # {} /\ UNCHANGED <<marked, worn>>
        /\ slots' = [slots EXCEPT ![f].mapped = "normal"] /\ bb' = [bb EXCEPT ![l] = new]
        /\ stored' = stored \/ stored' = [stored EXCEPT ![new] = NoTable]
    BY <1>10 DEF AccessRemaps, RemapBlock, RemapRefused
  <2>2. f \in Slots /\ new # 0 /\ slots[f].mapped = "no"
    BY <2>1, FreeIsFree
  <2>3. /\ l \in Logical /\ bb \in [Logical -> Blocks]
        /\ slots \in [Slots -> [block : Blocks, mapped : Mapped]]
    BY Ranges DEF Clean, TypeOK, Ops, NoOp
  <2>4. /\ Spent(marked, worn, bb, slots) /\ TableOK(bb, slots)
    BY <2>1 DEF SpentOK, Clean, MemoryOK, Attached
  <2> HIDE DEF l, f
  <2>5. Spent(marked, worn, bb', slots')
    <3>1. \A k \in Logical : bb[k] # new
      BY <2>2, <2>4, Zenon DEF TableOK
    <3>2. /\ \A j, k \in Logical : bb[j] = bb[k] => j = k
          /\ \A i, j \in Slots : slots[i].block # 0 /\ slots[i].block = slots[j].block => i = j
      BY <2>4, Zenon DEF TableOK
    <3> QED
      BY <1>0, <2>1, <2>2, <2>3, <2>4, <3>1, <3>2, SpentRemap, Zenon
  <2>6. \A c \in Blocks : stored'[c] \notin {NoTable, Torn} => stored'[c] = stored[c]
    BY <2>1, Zenon DEF Clean, TypeOK
  <2> QED
    BY <1>0, <2>1, <2>5, <2>6, FlashSpent
<1>11. ASSUME NEW l \in Main, Submit("erase", l) \/ Submit("write", l) PROVE SpentOK'
  <2>1. UNCHANGED <<marked, worn, stored, bb, slots>> /\ Attached
    BY <1>11 DEF Submit, flash, ram, Attached
  <2> QED
    BY <1>0, <2>1, FlashSpent, Zenon DEF SpentOK
<1>12. ASSUME NEW b \in Wearable, Wear(b) PROVE SpentOK'
  <2>1. /\ UNCHANGED <<marked, stored, bb, slots, pc>> /\ worn' = worn \union {b} /\ b \in Blocks
    BY <1>12, WearAssumption, Zenon DEF Wear, ram
  <2>2. Attached' => Spent(marked, worn', bb, slots)
    BY <1>0, <2>1, SpentMore DEF SpentOK, Attached
  <2> QED
    BY <1>0, <2>1, <2>2, FlashSpent
<1>13. CASE PowerCut
  <2>1. UNCHANGED <<marked, worn>> /\ pc' = "off"
    BY <1>13, Zenon DEF PowerCut
  <2>2. \A c \in Blocks : stored'[c] \notin {NoTable, Torn} => stored'[c] = stored[c]
    BY <1>13, Zenon DEF PowerCut, Clean, TypeOK
  <2> QED
    BY <1>0, <2>1, <2>2, FlashSpent DEF Attached
<1> QED
  BY <1>1, <1>2, <1>3, <1>4, <1>5, <1>7, <1>8, <1>9, <1>10, <1>11, <1>12, <1>13, Zenon
     DEF Next, Use, Boot, Work, Unmap, FreeUnused, DebugUndefined

(* remap_block_v2 spends a slot of the pool on nothing but a block that    *)
(* wore out, whatever boots, failed uploads and losses of power come       *)
(* between: no table ever has more slots handed out than blocks wore out.  *)
THEOREM BmtPoolSpentOnWear ==
  Spec => []PoolSpentOnWear
<1>1. Init => SpentInv
  <2>1. Init => SpentOK
    BY DEF Init, SpentOK, Attached
  <2> QED
    BY <2>1, InvInit DEF SpentInv
<1>2. SpentInv /\ [Next]_vars => SpentInv'
  BY InvStep, SpentStep, UsedStays DEF SpentInv
<1>3. SpentInv => PoolSpentOnWear
  <2> SUFFICES ASSUME Clean, SpentOK, Attached
               PROVE  Cardinality(HandedOut(slots)) <= Cardinality(worn)
    BY Zenon DEF SpentInv, PoolSpentOnWear, HandedOut
  <2>1. worn \in SUBSET Blocks /\ Spent(marked, worn, bb, slots)
    BY DEF Clean, TypeOK, SpentOK
  <2>2. IsFiniteSet(worn)
    <3>1. IsFiniteSet(Blocks)
      BY FS_Interval, SizeAssumption DEF Blocks
    <3> QED
      BY <2>1, <3>1, FS_Subset
  <2>3. Retired(marked, worn, bb, slots) \subseteq worn
    BY DEF Retired
  <2>4. /\ Cardinality(Retired(marked, worn, bb, slots)) <= Cardinality(worn)
        /\ Cardinality(worn) \in Nat
    BY <2>2, <2>3, FS_Subset, FS_CardinalityType, Zenon
  <2> QED
    BY <2>1, <2>4, CountsFinite DEF Spent
<1> QED
  BY <1>1, <1>2, <1>3, PTL DEF Spec

-----------------------------------------------------------------------------
(* A block with i blocks below it is not below i: the pool of the scan     *)
(* lies where a boot looks for the table.                                  *)
LEMMA RankBelow ==
  ASSUME NEW S \in SUBSET Blocks, NEW i, NEW b \in Ranked(S, i)
  PROVE  i \in Nat /\ b \in Nat /\ i <= b
<1>1. b \in Blocks /\ b \in Nat /\ i = Cardinality({x \in S : x < b})
  BY Ranges DEF Ranked, Below
<1>2. IsFiniteSet(0 .. (b - 1)) /\ Cardinality(0 .. (b - 1)) = b
  BY <1>1, FS_Interval
<1>3. {x \in S : x < b} \subseteq 0 .. (b - 1)
  <2> SUFFICES ASSUME NEW x \in S, x < b PROVE x \in 0 .. (b - 1)
    OBVIOUS
  <2>1. x \in Nat
    BY Ranges, Zenon
  <2> QED
    BY <1>1, <2>1
<1>4. Cardinality({x \in S : x < b}) <= b /\ Cardinality({x \in S : x < b}) \in Nat
  BY <1>2, <1>3, FS_Subset, FS_CardinalityType, Zenon
<1> QED
  BY <1>1, <1>4

LEMMA PoolAbove ==
  ASSUME NEW m \in SUBSET Blocks, ScanOK(m), NEW b \in Pool(m)
  PROVE  b \in Blocks /\ b >= PoolLba
<1> DEFINE G == Good(m)
           top == PoolLba - 1
<1>1. G \in SUBSET Blocks /\ top \in Logical
  BY SizeAssumption DEF Good, Blocks, Logical
<1>2. Ranked(G, top) # {}
  BY <1>1 DEF ScanOK
<1>3. ScanMap(m)[top] \in Ranked(G, top)
  <2> HIDE DEF G
  <2>1. ScanMap(m) = [l \in Logical |-> CHOOSE x \in Ranked(G, l) : TRUE]
    BY DEF ScanMap, G
  <2> QED
    BY <1>1, <1>2, <2>1
<1>4. top <= ScanMap(m)[top] /\ ScanMap(m)[top] \in Nat
  BY <1>1, <1>3, RankBelow, Zenon
<1>5. b \in G /\ b >= PoolPba(m)
  BY DEF Pool
<1>6. b \in Blocks /\ b \in Nat
  BY <1>1, <1>5, Ranges, Zenon
<1> QED
  BY <1>4, <1>5, <1>6, SizeAssumption DEF PoolPba

(* In a table of the pool that was sound, the slot of the table is found   *)
(* where the scan had put it; for slot 0 that is what the driver takes for *)
(* "not found".                                                            *)
LEMMA IndexOfWell ==
  ASSUME NEW mk \in SUBSET Blocks, ScanOK(mk), NEW m, NEW s, WellTable(mk, m, s)
  PROVE  GetBmtIndex(s) = ScanIdx(mk)
<1> DEFINE Holds(i) == s[i].mapped = "bmt" /\ \A j \in 0 .. i : s[j].block # 0
           last == ScanIdx(mk)
<1>1. last \in Slots /\ \A i \in Slots : i <= last => s[i].block # 0
  BY ScanSlotsOK DEF WellTable
<1>2. Holds(last) /\ \A i \in Slots : Holds(i) => ~ (i < last)
  <2>1. \A j \in 0 .. last : j \in Slots /\ j <= last
    <3> HIDE DEF last
    <3> QED
      BY <1>1, SizeAssumption DEF Slots
  <2> QED
    BY <1>1, <2>1, Zenon DEF WellTable
<1>3. GetBmtIndex(s) = CHOOSE i \in Slots : Holds(i) /\ \A j \in Slots : Holds(j) => i <= j
  BY <1>1, <1>2 DEF GetBmtIndex
<1> HIDE DEF Holds, last
<1>4. \A j \in Slots : Holds(j) => last <= j
  BY <1>1, <1>2, Ranges
<1>5. \A i \in Slots : Holds(i) /\ (\A j \in Slots : Holds(j) => i <= j) => i = last
  BY <1>1, <1>2, <1>4, Ranges
<1> QED
  BY <1>1, <1>2, <1>3, <1>4, <1>5 DEF last

-----------------------------------------------------------------------------
(* What the invariant says of the types, of flash and of memory.           *)
LEMMA KeptTyped ==
  ASSUME KeptInv
  PROVE  /\ TypeOK
         /\ marked \in SUBSET Blocks /\ data \in [Blocks -> Contents]
         /\ stored \in [Blocks -> Tables \union {NoTable, Torn}]
         /\ bb \in [Logical -> Blocks] /\ acked \in [Main -> -1 .. Pages]
         /\ slots \in [Slots -> [block : Blocks, mapped : Mapped]]
<1>1. TypeOK
  BY DEF KeptInv, Clean
<1> QED
  BY <1>1 DEF TypeOK

LEMMA KeptFlash ==
  ASSUME KeptInv, ScanOK(marked), NEW T, T = LastBlock(marked)
  PROVE  /\ \A b \in Blocks : b # T => stored[b] = NoTable
         /\ stored[T] # Torn
         /\ stored[T] # NoTable => /\ WellTable(marked, stored[T].bb, stored[T].slots)
                                  /\ Readable(acked, data, stored[T].bb)
         /\ stored[T] = NoTable => pc = "write" \/ AllDirty
<1>1. FlashKeeps
  BY DEF KeptInv
<1> QED
  BY <1>1 DEF FlashKeeps

LEMMA KeptMemory ==
  ASSUME KeptInv, ScanOK(marked), Attached
  PROVE  /\ idx = ScanIdx(marked) /\ WellTable(marked, bb, slots)
         /\ Readable(acked, data, bb) /\ TableOK(bb, slots)
         /\ pc \in {"erase", "write"} => n = idx
         /\ pc \in {"idle", "access"} =>
              stored[LastBlock(marked)] = [bb |-> bb, slots |-> slots]
<1>1. MemoryKeeps /\ MemoryOK
  BY DEF KeptInv, Clean
<1>2. TableOK(bb, slots)
  BY <1>1, Zenon DEF MemoryOK
<1> QED
  BY <1>1, <1>2, Zenon DEF MemoryKeeps

-----------------------------------------------------------------------------
(* The last block of the pool is sound, is where a boot looks for it and   *)
(* holds the only table.                                                   *)
LEMMA LastBlockSound ==
  ASSUME SoundPool, KeptInv, ScanOK(marked)
  PROVE  /\ LastBlock(marked) \in Blocks /\ LastBlock(marked) >= PoolLba
         /\ LastBlock(marked) \notin worn /\ LastBlock(marked) # 0
         /\ ScanIdx(marked) \in Slots /\ ScanIdx(marked) # NoIndex
         /\ \A i \in Slots : i <= ScanIdx(marked) =>
              /\ ScanSlots(marked)[i].block \in Blocks /\ ScanSlots(marked)[i].block \notin worn
              /\ ScanSlots(marked)[i].block = LastBlock(marked) => i = ScanIdx(marked)
<1>1. marked \in SUBSET Blocks /\ Wearable \cap Pool(marked) = {} /\ worn \subseteq Wearable
  BY KeptTyped DEF KeptInv, SoundPool
<1>2. ScanIdx(marked) \in Slots /\ ScanIdx(marked) <= ScanIdx(marked) /\ ScanIdx(marked) # NoIndex
  <2>1. ScanIdx(marked) \in Slots
    BY <1>1, ScanSlotsOK
  <2>2. ScanIdx(marked) \in Nat
    BY <2>1, Ranges, Zenon
  <2> QED
    BY <2>1, <2>2 DEF NoIndex
<1>3. \A i \in Slots : i <= ScanIdx(marked) => ScanSlots(marked)[i].block \in Pool(marked)
  BY <1>1, ScanSlotsMarked
<1>4. LastBlock(marked) \in Pool(marked) /\ LastBlock(marked) # 0
  BY <1>1, <1>2, <1>3, ScanSlotsOK, Zenon DEF LastBlock
<1>5. \A b \in Pool(marked) : b \in Blocks /\ b >= PoolLba
  BY <1>1, PoolAbove, Zenon
<1>6. \A i \in Slots : ScanSlots(marked)[i].block = LastBlock(marked) => i = ScanIdx(marked)
  BY <1>1, <1>2, <1>4, ScanSlotsOK DEF LastBlock
<1> QED
  BY <1>1, <1>2, <1>3, <1>4, <1>5, <1>6

LEMMA OneTable ==
  ASSUME SoundPool, KeptInv, ScanOK(marked)
  PROVE  /\ WithTable = IF stored[LastBlock(marked)] = NoTable THEN {} ELSE {LastBlock(marked)}
         /\ stored[LastBlock(marked)] # NoTable =>
              TableFound = LastBlock(marked) /\ GetBmtIndex(stored[TableFound].slots) = ScanIdx(marked)
         /\ ~ TornFound
         /\ Loadable <=> stored[LastBlock(marked)] # NoTable /\ ScanIdx(marked) # 0
<1> DEFINE T == LastBlock(marked)
<1>1. T \in Blocks /\ T >= PoolLba /\ marked \in SUBSET Blocks /\ T <= T
  <2>1. T \in Blocks /\ T >= PoolLba /\ marked \in SUBSET Blocks
    BY LastBlockSound, KeptTyped
  <2>2. T \in Nat
    BY <2>1, Ranges, ZenonT(40)
  <2> QED
    BY <2>1, <2>2, SMTT(30)
<1>2. /\ \A b \in Blocks : b # T => stored[b] = NoTable
      /\ stored[T] # Torn
      /\ stored[T] # NoTable => WellTable(marked, stored[T].bb, stored[T].slots)
  BY KeptFlash
<1> HIDE DEF T
<1>3. WithTable = IF stored[T] = NoTable THEN {} ELSE {T}
  BY <1>1, <1>2 DEF WithTable
<1>4. stored[T] # NoTable => TableFound = T
  BY <1>1, <1>3 DEF TableFound
<1>5. ~ TornFound
  BY <1>2, <1>3, <1>4 DEF TornFound
<1>6. stored[T] # NoTable => GetBmtIndex(stored[T].slots) = ScanIdx(marked)
  BY <1>1, <1>2, IndexOfWell
<1>7. Loadable <=> stored[T] # NoTable /\ ScanIdx(marked) # 0
  BY <1>3, <1>4, <1>5, <1>6 DEF Loadable
<1> QED
  BY <1>3, <1>4, <1>5, <1>6, <1>7 DEF T

(* The table in memory, as an upload writes it.                            *)
LEMMA TableInMemory ==
  ASSUME TypeOK, NEW t, t = [bb |-> bb, slots |-> slots]
  PROVE  t \in Tables /\ t \notin {Torn, NoTable} /\ t.bb = bb /\ t.slots = slots
<1>1. bb \in [Logical -> Blocks] /\ slots \in [Slots -> [block : Blocks, mapped : Mapped]]
  BY DEF TypeOK
<1>2. t \in Tables
  BY <1>1 DEF Tables
<1>3. t \notin {Torn, NoTable}
  BY <1>2, ContentAssumption, Zenon
<1>4. t.bb = bb /\ t.slots = slots
  OBVIOUS
<1> QED
  BY <1>2, <1>3, <1>4

(* An attached driver has its table in the last block of the pool, which   *)
(* it maps no logical block to.                                            *)
LEMMA LastBlockAside ==
  ASSUME SoundPool, KeptInv, ScanOK(marked), Attached
  PROVE  /\ slots[ScanIdx(marked)].block = LastBlock(marked)
         /\ slots[ScanIdx(marked)].mapped = "bmt"
         /\ \A l \in Logical : bb[l] # LastBlock(marked) /\ bb[l] \in Blocks
<1>1. /\ ScanIdx(marked) \in Slots /\ LastBlock(marked) # 0
      /\ WellTable(marked, bb, slots) /\ TableOK(bb, slots) /\ bb \in [Logical -> Blocks]
  BY LastBlockSound, KeptMemory, KeptTyped
<1>2. slots[ScanIdx(marked)].block = LastBlock(marked) /\ slots[ScanIdx(marked)].mapped = "bmt"
  BY <1>1 DEF WellTable, LastBlock
<1>3. \A l \in Logical : bb[l] # LastBlock(marked)
  BY <1>1, <1>2 DEF TableOK
<1> QED
  BY <1>1, <1>2, <1>3, SMTT(30)

(* The block of a request, and the block that it is mapped to.             *)
LEMMA RequestAside ==
  ASSUME SoundPool, KeptInv, ScanOK(marked), Attached
  PROVE  /\ op.block \in Main /\ op.block \in Logical
         /\ bb[op.block] \in Blocks /\ bb[op.block] # LastBlock(marked)
<1>1. TypeOK
  BY KeptTyped, Zenon
<1>2. op.block \in Main /\ op.block \in Logical
  BY <1>1, Ranges DEF TypeOK, Ops, NoOp
<1> QED
  BY <1>2, LastBlockAside

-----------------------------------------------------------------------------
(* A block whose erase is under way is relied on by nobody.                *)
LEMMA EraseDirtyStep ==
  ASSUME Clean, EraseDirty, [Next]_vars, DebugFs = FALSE
  PROVE  EraseDirty'
<1>1. ret # "idle" => pc \in {"erase", "write"}
  BY Zenon DEF Clean, RequestOK
<1>2. CASE UNCHANGED vars
  BY <1>2 DEF vars, EraseDirty
<1>3. CASE Boot
  BY <1>1, <1>3 DEF Boot, LoadTable, LoadTorn, Rebuild, RebuildFails, EraseDirty
<1>4. CASE UploadNoSpace \/ EraseTable \/ WriteTable
  BY <1>4, Zenon DEF UploadNoSpace, EraseTable, WriteTable, UploadReturns, TrySlotBelow, EraseDirty
<1>5. CASE AccessDone
  BY <1>1, <1>5 DEF AccessDone, EraseDirty, NoOp
<1>6. CASE AccessUndefined \/ AccessRefused
  BY <1>1, <1>6 DEF AccessUndefined, AccessRefused, EraseDirty
<1>7. CASE AccessRemaps
  BY <1>7, Zenon DEF AccessRemaps, RemapBlock, StartUpload, EraseDirty
<1>8. ASSUME NEW l \in Main, NEW kind \in {"erase", "write"}, Submit(kind, l) PROVE EraseDirty'
  <2>1. /\ op' = [kind |-> kind, block |-> l]
        /\ kind = "erase" => acked' = [acked EXCEPT ![l] = Dirty]
    BY <1>8 DEF Submit
  <2>2. acked \in [Main -> -1 .. Pages]
    BY Zenon DEF Clean, TypeOK
  <2> QED
    BY <2>1, <2>2 DEF EraseDirty
<1>9. ASSUME NEW b \in Wearable, Wear(b) PROVE EraseDirty'
  BY <1>9, Zenon DEF Wear, EraseDirty
<1>10. CASE PowerCut
  BY <1>10, Zenon DEF PowerCut, EraseDirty
<1> QED
  BY <1>2, <1>3, <1>4, <1>5, <1>6, <1>7, <1>8, <1>9, <1>10, SMTT(30)
     DEF Next, Use, Work, Unmap, FreeUnused, DebugUndefined

(* A step that moves the driver between idle and access, with no more to   *)
(* rely on than before, and leaves the tables and the pages alone.         *)
LEMMA KeptUntouched ==
  ASSUME KeptInv, Clean', EraseDirty', ScanOK(marked),
         UNCHANGED <<marked, worn, data, stored, bb, slots, idx>>,
         \A l \in Main : acked'[l] # Dirty => acked'[l] = acked[l],
         pc \in {"idle", "access"}, pc' \in {"idle", "access"}
  PROVE  KeptInv'
<1>1. \A m : Readable(acked, data, m) => Readable(acked', data, m)
  BY SMTT(30) DEF Readable
<1>2. MemoryKeeps'
  BY <1>1, Zenon DEF KeptInv, MemoryKeeps, Attached
<1>3. FlashKeeps'
  BY <1>1, Zenon DEF KeptInv, FlashKeeps, AllDirty
<1> QED
  BY <1>2, <1>3 DEF KeptInv

(* A driver whose scan fails never gets as far as a table or a page.       *)
LEMMA KeptFailing ==
  ASSUME KeptInv, Clean', EraseDirty', [Next]_vars, ~ ScanOK(marked), DebugFs = FALSE
  PROVE  KeptInv'
<1>1. /\ pc \in {"off", "failed"} /\ AllDirty /\ \A b \in Blocks : stored[b] = NoTable
      /\ marked \in FactoryBad /\ worn \subseteq Wearable
  BY DEF KeptInv, NeverAttached
<1>2. WithTable = {}
  BY <1>1 DEF WithTable
<1>3. ~ Loadable /\ ~ TornFound
  BY <1>2, Zenon DEF Loadable, TornFound
<1>4. UNCHANGED <<marked, stored, acked>> /\ pc' \in {"off", "failed"} /\ worn' \subseteq Wearable
  <2>1. CASE UNCHANGED vars
    BY <1>1, <2>1, Zenon DEF vars
  <2>2. CASE RebuildFails
    BY <1>1, <2>2, Zenon DEF RebuildFails, flash
  <2>3. ASSUME NEW b \in Wearable, Wear(b)
        PROVE  UNCHANGED <<marked, stored, acked>> /\ pc' \in {"off", "failed"} /\ worn' \subseteq Wearable
    BY <1>1, <2>3 DEF Wear
  <2>4. CASE PowerCut
    BY <1>1, <2>4, SMTT(30) DEF PowerCut
  <2>5. UNCHANGED vars \/ RebuildFails \/ PowerCut \/ \E b \in Wearable : Wear(b)
    BY <1>1, <1>3 DEF Next, Use, Boot, Work, LoadTable, LoadTorn, Rebuild, UploadNoSpace, EraseTable,
       WriteTable, AccessDone, AccessUndefined, AccessRefused, AccessRemaps, Submit, Unmap,
       FreeUnused, DebugUndefined
  <2> QED
    BY <2>1, <2>2, <2>3, <2>4, <2>5
<1> QED
  BY <1>1, <1>4 DEF KeptInv, NeverAttached, AllDirty

LEMMA KeptLoadTable ==
  ASSUME SoundPool, KeptInv, Clean', EraseDirty', ScanOK(marked), LoadTable
  PROVE  KeptInv'
<1> DEFINE T == LastBlock(marked)
<1>1. /\ UNCHANGED <<marked, worn, data, stored, acked>> /\ Loadable /\ pc' = "idle"
      /\ bb' = stored[TableFound].bb /\ slots' = stored[TableFound].slots
      /\ idx' = GetBmtIndex(stored[TableFound].slots)
  BY Zenon DEF LoadTable, flash
<1>2. TableFound = T /\ stored[T] # NoTable /\ idx' = ScanIdx(marked)
  BY <1>1, OneTable, Zenon
<1>3. stored[T] \in Tables
  BY <1>1, <1>2, FoundIsStored, KeptTyped
<1>4. stored[T] = [bb |-> bb', slots |-> slots']
  BY <1>1, <1>2, <1>3 DEF Tables
<1>5. WellTable(marked, bb', slots') /\ Readable(acked, data, bb')
  BY <1>1, <1>2, KeptFlash, SMTT(30)
<1>6. MemoryKeeps'
  BY <1>1, <1>2, <1>4, <1>5, Zenon DEF MemoryKeeps
<1>7. FlashKeeps'
  BY <1>1, <1>2 DEF KeptInv, FlashKeeps
<1> QED
  BY <1>1, <1>6, <1>7 DEF KeptInv

(* A scan for want of a table in slot 0 finds what the table says; without *)
(* a table nothing has been acknowledged.                                  *)
LEMMA KeptRebuild ==
  ASSUME SoundPool, KeptInv, Clean', EraseDirty', ScanOK(marked), Rebuild
  PROVE  KeptInv'
<1> DEFINE T == LastBlock(marked)
<1>1. /\ UNCHANGED <<marked, worn, data, stored, acked>> /\ ~ Loadable /\ pc = "off" /\ pc' = "erase"
      /\ bb' = ScanMap(marked) /\ slots' = ScanSlots(marked)
      /\ idx' = ScanIdx(marked) /\ n' = ScanIdx(marked)
  BY DEF Rebuild, flash
<1>2. marked \in SUBSET Blocks
  BY KeptTyped, Zenon
<1>3. WellTable(marked, bb', slots')
  <2>1. \A i \in Slots : i < ScanIdx(marked) => slots'[i].mapped # "bmt"
    BY <1>1, <1>2, ScanSlotsMarked
  <2>2. slots'[ScanIdx(marked)].mapped = "bmt"
    BY <1>1, <1>2, ScanSlotsMarked
  <2> QED
    BY <1>1, <2>1, <2>2 DEF WellTable
<1>4. Readable(acked, data, bb')
  <2>1. CASE stored[T] = NoTable
    BY <1>1, <2>1, KeptFlash, Zenon DEF AllDirty, Readable
  <2>2. CASE stored[T] # NoTable
    <3>1. ScanIdx(marked) = 0
      BY <1>1, <2>2, OneTable, SMTT(30)
    <3>2. stored[T].bb = ScanMap(marked) /\ Readable(acked, data, stored[T].bb)
      BY <2>2, <3>1, KeptFlash DEF WellTable
    <3> QED
      BY <1>1, <3>2
  <2> QED
    BY <2>1, <2>2, SMTT(30)
<1>5. MemoryKeeps'
  BY <1>1, <1>3, <1>4, Zenon DEF MemoryKeeps
<1>6. FlashKeeps'
  BY <1>1, SMTT(30) DEF KeptInv, FlashKeeps, AllDirty
<1> QED
  BY <1>1, <1>5, <1>6 DEF KeptInv

(* The upload tries the last block of the pool, which never fails.         *)
LEMMA UploadAtLast ==
  ASSUME SoundPool, KeptInv, ScanOK(marked), pc \in {"erase", "write"}
  PROVE  /\ n = ScanIdx(marked) /\ n \in Slots /\ n # NoIndex /\ ~ NoSpace
         /\ slots[n].block = LastBlock(marked) /\ LastBlock(marked) \in Blocks
         /\ LastBlock(marked) \notin worn
<1>1. n = ScanIdx(marked) /\ Attached
  <2>1. Attached
    BY DEF Attached
  <2> QED
    BY <2>1, KeptMemory, Zenon
<1>2. n \in Slots /\ n # NoIndex /\ n >= 0
  <2>1. n \in Slots /\ n # NoIndex
    BY <1>1, LastBlockSound, SMTT(30)
  <2> QED
    BY <2>1, Ranges
<1>3. slots[n].block = LastBlock(marked) /\ slots[n].mapped = "bmt"
  BY <1>1, LastBlockAside, Zenon
<1> QED
  BY <1>1, <1>2, <1>3, LastBlockSound, SMTT(30) DEF NoSpace

LEMMA KeptEraseTable ==
  ASSUME SoundPool, KeptInv, Clean', EraseDirty', ScanOK(marked), EraseTable
  PROVE  KeptInv'
<1> DEFINE T == LastBlock(marked)
<1>1. pc = "erase" /\ UNCHANGED <<marked, worn, bb, acked>>
  BY Zenon DEF EraseTable
<1>2. n = ScanIdx(marked) /\ slots[n].block = T /\ T \in Blocks /\ T \notin worn
  BY <1>1, UploadAtLast
<1>3. /\ stored' = [stored EXCEPT ![T] = NoTable] /\ data' = [data EXCEPT ![T] = Blank]
      /\ pc' = "write" /\ UNCHANGED <<slots, n, idx>>
  BY <1>2, SMTT(30) DEF EraseTable
<1>4. /\ Attached /\ idx = ScanIdx(marked) /\ WellTable(marked, bb, slots)
      /\ Readable(acked, data, bb)
  <2>1. Attached
    BY <1>1, Zenon DEF Attached
  <2> QED
    BY <1>1, <2>1, KeptMemory, Zenon
<1>5. \A l \in Main : data'[bb[l]] = data[bb[l]]
  <2>1. \A l \in Main : l \in Logical /\ bb[l] # T /\ bb[l] \in Blocks
    BY <1>4, LastBlockAside, Ranges
  <2> QED
    BY <1>3, <2>1, KeptTyped
<1>6. Readable(acked, data', bb)
  BY <1>4, <1>5 DEF Readable
<1>7. MemoryKeeps'
  BY <1>1, <1>2, <1>3, <1>4, <1>6, SMTT(30) DEF MemoryKeeps
<1>8. stored'[T] = NoTable /\ \A b \in Blocks : b # T => stored'[b] = NoTable
  <2>1. stored \in [Blocks -> Tables \union {NoTable, Torn}]
    BY KeptTyped, Zenon
  <2>2. \A b \in Blocks : b # T => stored[b] = NoTable
    BY KeptFlash, Zenon
  <2> QED
    BY <1>2, <1>3, <2>1, <2>2
<1>9. FlashKeeps'
  BY <1>1, <1>3, <1>8, ContentAssumption DEF FlashKeeps
<1> QED
  BY <1>1, <1>7, <1>9, Zenon DEF KeptInv

LEMMA KeptWriteTable ==
  ASSUME SoundPool, KeptInv, Clean', EraseDirty', ScanOK(marked), WriteTable
  PROVE  KeptInv'
<1> DEFINE T == LastBlock(marked)
           t == [bb |-> bb, slots |-> slots]
<1>1. pc = "write" /\ UNCHANGED <<marked, worn, data, bb, acked>>
  BY Zenon DEF WriteTable
<1>2. n = ScanIdx(marked) /\ n # NoIndex /\ slots[n].block = T /\ T \in Blocks /\ T \notin worn
  BY <1>1, UploadAtLast
<1>3. /\ stored' = [stored EXCEPT ![T] = t] /\ idx' = n /\ slots' = slots
      /\ pc' = IF ret # "attach" THEN ret ELSE "idle"
  BY <1>2, Zenon DEF WriteTable, UploadReturns
<1>4. pc' \in {"idle", "access"}
  <2>1. ret \in {"attach", "access", "idle"}
    BY KeptTyped, SMTT(30) DEF TypeOK
  <2> QED
    BY <1>3, <2>1
<1>5. /\ Attached /\ WellTable(marked, bb, slots) /\ Readable(acked, data, bb)
  <2>1. Attached
    BY <1>1, Zenon DEF Attached
  <2> QED
    BY <1>1, <2>1, KeptMemory
<1>6. stored'[T] = t /\ \A b \in Blocks : b # T => stored'[b] = NoTable
  <2>1. stored \in [Blocks -> Tables \union {NoTable, Torn}]
    BY KeptTyped
  <2>2. \A b \in Blocks : b # T => stored[b] = NoTable
    BY KeptFlash
  <2> QED
    BY <1>2, <1>3, <2>1, <2>2, SMTT(30)
<1>7. t \in Tables /\ t.bb = bb /\ t.slots = slots
  BY KeptTyped, TableInMemory, Zenon
<1> HIDE DEF t
<1>8. t # NoTable /\ t # Torn
  BY <1>7, ContentAssumption, Zenon
<1>9. FlashKeeps'
  BY <1>1, <1>5, <1>6, <1>7, <1>8, SMTT(30) DEF FlashKeeps
<1>10. MemoryKeeps'
  BY <1>1, <1>2, <1>3, <1>4, <1>5, <1>6, ZenonT(40) DEF MemoryKeeps, t
<1> QED
  BY <1>1, <1>9, <1>10 DEF KeptInv

(* An access that succeeds works on the block that both tables map to.     *)
LEMMA KeptAccessDone ==
  ASSUME SoundPool, KeptInv, Clean', EraseDirty', ScanOK(marked), AccessDone
  PROVE  KeptInv'
<1> DEFINE T == LastBlock(marked)
           l == op.block
           k == IF op.kind = "erase" THEN 0 ELSE acked[l] + 1
           b == bb[l]
<1>1. /\ UNCHANGED <<marked, worn, bb, slots, idx>> /\ pc = "access" /\ pc' = "idle"
      /\ data' = [data EXCEPT ![b] =
                    IF k = 0 \/ data[b] = Holding(l, acked[l]) THEN Holding(l, k) ELSE data[b]]
      /\ stored' = [stored EXCEPT ![b] = IF k = 0 THEN NoTable ELSE stored[b]]
      /\ acked' = [acked EXCEPT ![l] = k]
  BY SMTT(30) DEF AccessDone, ram
<1>2. /\ Attached /\ idx = ScanIdx(marked) /\ WellTable(marked, bb, slots)
      /\ Readable(acked, data, bb) /\ stored[T] = [bb |-> bb, slots |-> slots]
  <2>1. Attached
    BY <1>1 DEF Attached
  <2> QED
    BY <1>1, <2>1, KeptMemory, Zenon
<1>3. l \in Main /\ l \in Logical /\ b \in Blocks /\ b # T /\ T \in Blocks
  BY <1>2, RequestAside, LastBlockSound, ZenonT(40)
<1>4. k = 0 \/ data[b] = Holding(l, acked[l])
  <2>1. CASE op.kind = "erase"
    BY <2>1, SMTT(30)
  <2>2. CASE op.kind # "erase"
    <3>1. acked[l] \in 0 .. (Pages - 1)
      BY <1>1, <2>2 DEF KeptInv, Clean, RequestOK
    <3>2. acked[l] # Dirty
      BY <3>1, PagesAssumption, SMTT(30) DEF Dirty
    <3> QED
      BY <1>2, <1>3, <3>2, SMTT(30) DEF Readable
  <2> QED
    BY <2>1, <2>2
<1> HIDE DEF k, l
<1>5. /\ data'[b] = Holding(l, k) /\ acked'[l] = k
      /\ \A c \in Blocks : c # b => data'[c] = data[c]
      /\ \A m \in Main : m # l => acked'[m] = acked[m]
  BY <1>1, <1>3, <1>4, KeptTyped
<1>6. Readable(acked', data', bb)
  <2> SUFFICES ASSUME NEW m \in Main, acked'[m] # Dirty
               PROVE  data'[bb[m]] = Holding(m, acked'[m])
    BY Zenon DEF Readable
  <2>1. CASE m = l
    BY <1>5, <2>1, SMTT(30)
  <2>2. CASE m # l
    <3>1. bb[m] # b /\ bb[m] \in Blocks
      <4>1. m \in Logical /\ \A j, i \in Logical : bb[j] = bb[i] => j = i
        BY <1>2, KeptMemory, Ranges DEF TableOK
      <4> QED
        BY <1>2, <1>3, <2>2, <4>1, LastBlockAside, SMTT(30)
    <3> QED
      BY <1>2, <1>5, <2>2, <3>1, SMTT(30) DEF Readable
  <2> QED
    BY <2>1, <2>2
<1>7. stored'[T] = stored[T] /\ \A c \in Blocks : c # T => stored'[c] = NoTable
  <2>1. stored \in [Blocks -> Tables \union {NoTable, Torn}]
    BY KeptTyped
  <2>2. \A c \in Blocks : c # T => stored[c] = NoTable
    BY KeptFlash
  <2> QED
    BY <1>1, <1>3, <2>1, <2>2
<1>8. stored[T] \notin {Torn, NoTable} /\ stored[T].bb = bb /\ stored[T].slots = slots
  <2>1. TypeOK
    BY KeptTyped, Zenon
  <2>2. stored[T] = [bb |-> bb, slots |-> slots]
    BY <1>2
  <2> QED
    BY <2>1, <2>2, TableInMemory, Zenon
<1>9. FlashKeeps'
  BY <1>1, <1>2, <1>6, <1>7, <1>8, ZenonT(40) DEF FlashKeeps
<1>10. MemoryKeeps'
  BY <1>1, <1>2, <1>6, <1>7, Zenon DEF MemoryKeeps
<1> QED
  BY <1>1, <1>9, <1>10, SMTT(30) DEF KeptInv

(* A remap copies the pages to a sound block that no table maps to, and    *)
(* leaves the old block alone: until the upload is through, the table in   *)
(* flash leads to the pages there.                                         *)
LEMMA KeptAccessRemaps ==
  ASSUME SoundPool, KeptInv, Clean', EraseDirty', ScanOK(marked), AccessRemaps
  PROVE  KeptInv'
<1> DEFINE T == LastBlock(marked)
           l == op.block
           f == FirstFree
           new == slots[f].block
           copy == op.kind = "write" /\ acked[l] > 0
           last == ScanIdx(marked)
<1>1. /\ pc = "access" /\ FreeSlots # {} /\ UNCHANGED <<marked, worn, idx, acked>>
      /\ slots' = [slots EXCEPT ![f].mapped = "normal"]
      /\ bb' = [bb EXCEPT ![l] = new]
      /\ n' = idx /\ pc' = "erase"
  BY DEF AccessRemaps, RemapBlock, StartUpload, RemapRefused
<1>2. /\ Attached /\ idx = last /\ WellTable(marked, bb, slots)
      /\ Readable(acked, data, bb) /\ stored[T] = [bb |-> bb, slots |-> slots]
  <2>1. Attached
    BY <1>1 DEF Attached
  <2> QED
    BY <1>1, <2>1, KeptMemory
<1>3. f \in Slots /\ f < last /\ slots[f].mapped = "no" /\ new # 0
  <2>1. FreeSlots \in SUBSET Nat
    BY Ranges, Zenon DEF FreeSlots
  <2>2. FirstFree \in FreeSlots
    BY <1>1, <2>1, LeastNat DEF FirstFree
  <2> QED
    BY <1>2, <2>2, Zenon DEF FreeSlots
<1>4. last \in Slots /\ T \in Blocks /\ f \in Nat /\ last \in Nat
  <2>1. last \in Slots /\ T \in Blocks
    BY LastBlockSound, Zenon
  <2> QED
    BY <1>3, <2>1, Ranges, ZenonT(40)
<1>5. new \in Blocks /\ new \notin worn /\ new # T
  <2>1. new = ScanSlots(marked)[f].block
    BY <1>2, <1>3, Zenon DEF WellTable
  <2>2. f <= last /\ f # last
    BY <1>3, <1>4
  <2> QED
    BY <1>3, <2>1, <2>2, LastBlockSound, SMTT(30)
<1>6. /\ data' = [data EXCEPT ![new] = IF copy THEN data[bb[l]] ELSE Blank]
      /\ stored' = [stored EXCEPT ![new] = NoTable]
  BY <1>5, SMTT(30) DEF AccessRemaps, RemapBlock
<1>7. l \in Main /\ l \in Logical /\ bb[l] \in Blocks
  BY <1>2, RequestAside, ZenonT(40)
<1>8. \A m \in Logical : bb[m] # new /\ bb[m] \in Blocks
  <2>1. TableOK(bb, slots) /\ slots[f].mapped # "normal"
    BY <1>2, <1>3, KeptMemory, SMTT(30)
  <2>2. \A m \in Logical : bb[m] # new
    BY <1>3, <2>1, Zenon DEF TableOK
  <2>3. bb \in [Logical -> Blocks]
    BY KeptTyped
  <2>4. \A m \in Logical : bb[m] \in Blocks
    BY <2>3, Zenon
  <2> QED
    BY <2>2, <2>4, Zenon
<1> HIDE DEF f, l, copy, last
<1>9. /\ data'[new] = IF copy THEN data[bb[l]] ELSE Blank
      /\ \A c \in Blocks : c # new => data'[c] = data[c]
  BY <1>5, <1>6, KeptTyped
<1>10. Readable(acked, data', bb)
  BY <1>2, <1>8, <1>9, Ranges, Zenon DEF Readable
<1>11. acked[l] # Dirty => data'[new] = Holding(l, acked[l])
  <2> SUFFICES ASSUME acked[l] # Dirty PROVE data'[new] = Holding(l, acked[l])
    OBVIOUS
  <2>1. acked[l] \in -1 .. Pages /\ op.kind \in {"erase", "write"}
    <3>1. RequestOK
      BY SMTT(30) DEF KeptInv, Clean
    <3> QED
      BY <1>1, <1>7, <3>1, KeptTyped DEF RequestOK
  <2>2. CASE copy
    BY <1>2, <1>7, <1>9, <2>2, SMTT(30) DEF Readable
  <2>3. CASE ~ copy /\ op.kind = "write"
    <3>1. acked[l] = 0
      BY <2>1, <2>3, PagesAssumption DEF copy, Dirty
    <3> QED
      BY <1>9, <2>3, <3>1 DEF Blank, Holding
  <2>4. CASE op.kind = "erase"
    BY <1>1, <2>4, SMTT(30) DEF KeptInv, EraseDirty, l
  <2> QED
    BY <2>1, <2>2, <2>3, <2>4, SMTT(30)
<1>12. Readable(acked, data', bb')
  <2> SUFFICES ASSUME NEW m \in Main, acked[m] # Dirty PROVE data'[bb'[m]] = Holding(m, acked[m])
    BY DEF Readable
  <2>1. bb'[m] = IF m = l THEN new ELSE bb[m]
    BY <1>1, <1>7, Ranges, KeptTyped, SMTT(30)
  <2> QED
    BY <1>10, <1>11, <2>1 DEF Readable
<1>13. WellTable(marked, bb', slots')
  <2>1. \A i \in Slots : /\ slots'[i].block = slots[i].block
                         /\ slots'[i].mapped = IF i = f THEN "normal" ELSE slots[i].mapped
    BY <1>1, <1>3, KeptTyped
  <2>2. f # last /\ last # 0
    BY <1>3, <1>4, SMTT(30)
  <2>3. /\ \A i \in Slots : slots'[i].block = ScanSlots(marked)[i].block
        /\ slots'[last].mapped = "bmt"
    BY <1>2, <1>4, <2>1, <2>2, ZenonT(40) DEF WellTable, last
  <2>4. \A i \in Slots : i < last => slots'[i].mapped # "bmt"
    BY <1>2, <2>1, ZenonT(40) DEF WellTable, last
  <2> QED
    BY <2>2, <2>3, <2>4 DEF WellTable, last
<1>14. stored'[T] = stored[T] /\ \A c \in Blocks : c # T => stored'[c] = NoTable
  <2>1. stored \in [Blocks -> Tables \union {NoTable, Torn}]
    BY KeptTyped
  <2>2. \A c \in Blocks : c # T => stored[c] = NoTable
    BY KeptFlash
  <2> QED
    BY <1>4, <1>5, <1>6, <2>1, <2>2
<1>15. stored[T] \notin {Torn, NoTable} /\ stored[T].bb = bb /\ stored[T].slots = slots
  <2>1. TypeOK
    BY KeptTyped
  <2>2. stored[T] = [bb |-> bb, slots |-> slots]
    BY <1>2, Zenon
  <2> QED
    BY <2>1, <2>2, TableInMemory, Zenon
<1>16. FlashKeeps'
  BY <1>1, <1>2, <1>10, <1>14, <1>15 DEF FlashKeeps
<1>17. MemoryKeeps'
  BY <1>1, <1>2, <1>12, <1>13 DEF MemoryKeeps, last
<1> QED
  BY <1>1, <1>16, <1>17 DEF KeptInv

LEMMA KeptWear ==
  ASSUME KeptInv, Clean', EraseDirty', ScanOK(marked), NEW b \in Wearable, Wear(b)
  PROVE  KeptInv'
<1>1. UNCHANGED <<marked, data, stored, bb, slots, idx, n, pc, acked>> /\ worn' = worn \union {b}
  BY SMTT(30) DEF Wear, ram
<1>2. MemoryKeeps'
  BY <1>1, Zenon DEF KeptInv, MemoryKeeps, Attached
<1>3. FlashKeeps'
  BY <1>1, Zenon DEF KeptInv, FlashKeeps, AllDirty
<1> QED
  BY <1>1, <1>2, <1>3 DEF KeptInv

LEMMA KeptPowerCut ==
  ASSUME KeptInv, Clean', EraseDirty', ScanOK(marked), PowerCut, CutsUpload = FALSE
  PROVE  KeptInv'
<1>1. UNCHANGED <<marked, worn, data, stored, acked>> /\ pc' = "off" /\ pc # "write"
  BY SMTT(30) DEF PowerCut
<1>2. MemoryKeeps'
  BY <1>1, Zenon DEF MemoryKeeps, Attached
<1>3. FlashKeeps'
  BY <1>1 DEF KeptInv, FlashKeeps, AllDirty
<1> QED
  BY <1>1, <1>2, <1>3 DEF KeptInv

LEMMA KeptStep ==
  ASSUME SoundPool, CutsUpload = FALSE, DebugFs = FALSE, KeptInv, [Next]_vars, Clean'
  PROVE  KeptInv'
<1>1. EraseDirty'
  BY EraseDirtyStep, ZenonT(40) DEF KeptInv
<1>2. CASE ~ ScanOK(marked)
  BY <1>1, <1>2, KeptFailing
<1>3. CASE ScanOK(marked)
  <2>1. CASE UNCHANGED vars
    <3>1. FlashKeeps' /\ MemoryKeeps'
      BY <1>3, <2>1, Zenon DEF vars, KeptInv, FlashKeeps, MemoryKeeps, Attached, AllDirty
    <3> QED
      BY <1>1, <1>3, <2>1, <3>1, SMTT(30) DEF vars, KeptInv
  <2>2. CASE LoadTable \/ Rebuild
    BY <1>1, <1>3, <2>2, KeptLoadTable, KeptRebuild
  <2>3. ~ (LoadTorn \/ RebuildFails)
    BY <1>3, OneTable DEF LoadTorn, RebuildFails
  <2>4. ~ UploadNoSpace
    BY <1>3, UploadAtLast, SMTT(30) DEF UploadNoSpace
  <2>5. CASE EraseTable \/ WriteTable
    BY <1>1, <1>3, <2>5, KeptEraseTable, KeptWriteTable
  <2>6. CASE AccessDone \/ AccessRemaps
    BY <1>1, <1>3, <2>6, KeptAccessDone, KeptAccessRemaps
  <2>7. ~ AccessUndefined
    BY <1>3, LastBlockSound, KeptMemory, Zenon DEF AccessUndefined, Attached
  <2>8. CASE AccessRefused
    BY <1>1, <1>3, <2>8, KeptUntouched, ZenonT(40) DEF AccessRefused, flash, ram
  <2>9. ASSUME NEW l \in Main, NEW kind \in {"erase", "write"}, Submit(kind, l) PROVE KeptInv'
    <3>1. /\ UNCHANGED <<marked, worn, data, stored, bb, slots, idx>>
          /\ pc = "idle" /\ pc' = "access"
          /\ acked' = acked \/ acked' = [acked EXCEPT ![l] = Dirty]
      BY <2>9, SMTT(30) DEF Submit, flash, ram
    <3>2. \A m \in Main : acked'[m] # Dirty => acked'[m] = acked[m]
      BY <3>1, KeptTyped, Zenon
    <3> QED
      BY <1>1, <1>3, <3>1, <3>2, KeptUntouched, Zenon
  <2>10. ASSUME NEW b \in Wearable, Wear(b) PROVE KeptInv'
    BY <1>1, <1>3, <2>10, KeptWear
  <2>11. CASE PowerCut
    BY <1>1, <1>3, <2>11, KeptPowerCut
  <2> QED
    BY <2>1, <2>2, <2>3, <2>4, <2>5, <2>6, <2>7, <2>8, <2>9, <2>10, <2>11
       DEF Next, Use, Boot, Work, Unmap, FreeUnused, DebugUndefined
<1> QED
  BY <1>2, <1>3

LEMMA AlwaysKept ==
  ASSUME SoundPool, CutsUpload = FALSE, DebugFs = FALSE
  PROVE  Spec => []KeptInv
<1>1. Init => KeptInv
  <2> SUFFICES ASSUME Init PROVE KeptInv
    OBVIOUS
  <2>1. /\ marked \in FactoryBad /\ worn = {} /\ pc = "off" /\ op = NoOp /\ AllDirty
        /\ \A b \in Blocks : stored[b] = NoTable
    BY Zenon DEF Init, AllDirty
  <2>2. EraseDirty
    BY <2>1 DEF EraseDirty, NoOp
  <2>3. CASE ~ ScanOK(marked)
    BY <2>1, <2>2, <2>3, InvInit DEF KeptInv, NeverAttached
  <2>4. CASE ScanOK(marked)
    <3>1. LastBlock(marked) \in Blocks
      <4>1. marked \in SUBSET Blocks
        BY <2>1, FactoryBadAssumption, Zenon
      <4>2. ScanIdx(marked) \in Slots
            /\ ScanSlots(marked) \in [Slots -> [block : Blocks, mapped : Mapped]]
        BY <2>4, <4>1, ScanSlotsOK
      <4> QED
        BY <4>2 DEF LastBlock
    <3>2. FlashKeeps
      BY <2>1, <3>1, ContentAssumption, SMTT(30) DEF FlashKeeps
    <3>3. MemoryKeeps
      BY <2>1, Zenon DEF MemoryKeeps, Attached
    <3> QED
      BY <2>1, <2>2, <2>4, <3>2, <3>3, InvInit DEF KeptInv
  <2> QED
    BY <2>3, <2>4
<1>2. KeptInv /\ [Next]_vars /\ Clean' => KeptInv'
  BY KeptStep
<1>3. Spec => []Clean
  BY AlwaysClean
<1> QED
  BY <1>1, <1>2, <1>3, PTL DEF Spec

(* Every page that was acknowledged is where the mapping in force, or the  *)
(* one that the next boot will load, leads to: through any number of       *)
(* remaps of blocks that wear out, boots and losses of power outside the   *)
(* upload, where the pool is sound.                                        *)
THEOREM BmtAckedKept ==
  ASSUME SoundPool, CutsUpload = FALSE, DebugFs = FALSE
  PROVE  Spec => []AckedKept
<1>1. KeptInv => AckedKept
  <2> SUFFICES ASSUME KeptInv, pc # "failed" PROVE Readable(acked, data, MapInForce)
    BY Zenon DEF AckedKept, Readable
  <2>1. CASE ~ ScanOK(marked)
    BY <2>1, SMTT(30) DEF KeptInv, NeverAttached, AllDirty, Readable
  <2>2. CASE ScanOK(marked) /\ Attached
    BY <2>2, KeptMemory, Zenon DEF MapInForce
  <2>3. CASE ScanOK(marked) /\ ~ Attached
    <3> DEFINE T == LastBlock(marked)
    <3>1. pc = "off"
      BY <2>3, SMTT(30) DEF KeptInv, MemoryKeeps, Attached
    <3>2. CASE stored[T] = NoTable
      BY <2>3, <3>1, <3>2, KeptFlash, Zenon DEF AllDirty, Readable
    <3>3. CASE stored[T] # NoTable
      <4>1. /\ TableFound = T /\ (~ Loadable => ScanIdx(marked) = 0)
        BY <2>3, <3>3, OneTable, SMTT(30)
      <4>2. /\ Readable(acked, data, stored[T].bb)
            /\ ScanIdx(marked) = 0 => stored[T].bb = ScanMap(marked)
        BY <2>3, <3>3, KeptFlash DEF WellTable
      <4> QED
        BY <2>3, <4>1, <4>2 DEF MapInForce
    <3> QED
      BY <3>2, <3>3, SMTT(30)
  <2> QED
    BY <2>1, <2>2, <2>3
<1>2. Spec => []KeptInv
  BY AlwaysKept, Zenon
<1> QED
  BY <1>1, <1>2, PTL

(* "BMT always in the last valid block in pool": while the driver is idle, *)
(* the table that a boot would find is the one it wrote last.              *)
THEOREM BmtLastTableCurrent ==
  ASSUME SoundPool, CutsUpload = FALSE, DebugFs = FALSE
  PROVE  Spec => []LastTableCurrent
<1>1. KeptInv => LastTableCurrent
  <2> SUFFICES ASSUME KeptInv, pc = "idle" PROVE TableFound = slots[idx].block
    BY DEF LastTableCurrent
  <2>1. ScanOK(marked) /\ Attached
    BY SMTT(30) DEF KeptInv, NeverAttached, Attached
  <2>2. /\ idx = ScanIdx(marked)
        /\ stored[LastBlock(marked)] = [bb |-> bb, slots |-> slots]
    BY <2>1, KeptMemory, Zenon
  <2>3. stored[LastBlock(marked)] # NoTable
    BY <2>2, KeptTyped, TableInMemory, Zenon
  <2> QED
    BY <2>1, <2>2, <2>3, OneTable, LastBlockAside, Zenon
<1>2. Spec => []KeptInv
  BY AlwaysKept, Zenon
<1> QED
  BY <1>1, <1>2, PTL

(* get_bmt_index finds the slot of a table that the driver wrote itself;   *)
(* in the last slot of a pool of one block that is the 0 of "not found".   *)
THEOREM BmtOwnTableLoads ==
  ASSUME SoundPool, CutsUpload = FALSE, DebugFs = FALSE
  PROVE  Spec => []OwnTableLoads
<1>1. KeptInv => OwnTableLoads
  <2> SUFFICES ASSUME KeptInv, pc = "idle", WithTable # {}
               PROVE  GetBmtIndex(stored[TableFound].slots) = idx
    BY DEF OwnTableLoads
  <2>1. ScanOK(marked) /\ Attached
    BY SMTT(30) DEF KeptInv, NeverAttached, Attached
  <2>2. idx = ScanIdx(marked)
    BY <2>1, KeptMemory, Zenon
  <2> QED
    BY <2>1, <2>2, OneTable
<1>2. Spec => []KeptInv
  BY AlwaysKept
<1> QED
  BY <1>1, <1>2, PTL
=============================================================================
