---------------------------- MODULE MtkBmtProofs ----------------------------
(***************************************************************************)
(* For every size of flash and pool, every set of factory marks and every  *)
(* sequence of failures, and of uses of debugfs where it fits: the table   *)
(* maps no two logical blocks to one block, hands out no block in use,     *)
(* never lies in a block in use, and a block of data that did not wear out *)
(* keeps its pages.                                                        *)
(***************************************************************************)
EXTENDS MtkBmt, FiniteSetTheorems, WellFoundedInduction, TLAPS

(* A set of numbers that is not empty has a least element: the choices of  *)
(* GetBmtIndex and FirstFree exist.                                        *)
LEMMA LeastNat ==
  ASSUME NEW T \in SUBSET Nat, T # {}
  PROVE  \E x \in T : \A y \in T : x <= y
<1> DEFINE R == OpToRel(<, Nat)
<1>1. IsWellFoundedOn(R, Nat)
  BY NatLessThanWellFounded
<1>2. \A a, b \in Nat : a < b => <<a, b>> \in R
  BY DEF OpToRel
<1> HIDE DEF R
<1>3. PICK x \in T : \A y \in T : ~ (<<y, x>> \in R)
  BY <1>1, WFMin, Zenon
<1>4. \A y \in T : ~ (y < x)
  BY <1>2, <1>3, Zenon
<1> QED BY <1>4

(* A set of blocks that is not empty has a greatest element: the choice of *)
(* TableFound exists.                                                      *)
LEMMA GreatestBlock ==
  ASSUME NEW T \in SUBSET Blocks, T # {}
  PROVE  \E x \in T : \A y \in T : y <= x
<1> DEFINE D == {Total - x : x \in T}
<1>1. D \in SUBSET Nat /\ D # {}
  <2>1. \A x \in T : x \in 0 .. (Total - 1)
    BY DEF Blocks
  <2>2. \A x \in 0 .. (Total - 1) : Total - x \in Nat
    BY SizeAssumption
  <2>3. \A x \in T : Total - x \in Nat
    BY <2>1, <2>2, Zenon
  <2> QED BY <2>3, Zenon
<1>2. PICK d \in D : \A e \in D : d <= e
  <2> HIDE DEF D
  <2> QED BY <1>1, LeastNat
<1>3. PICK x \in T : d = Total - x
  OBVIOUS
<1>4. ASSUME NEW y \in T PROVE y <= x
  BY <1>2, <1>3, SizeAssumption DEF Blocks
<1> QED BY <1>4

-----------------------------------------------------------------------------
(* Counting the elements of a set below one of its elements tells them     *)
(* apart: the scan sends no two indices to one block.                      *)
LEMMA BelowGrows ==
  ASSUME NEW S \in SUBSET Blocks, NEW a \in S, NEW b \in Int, a < b
  PROVE  Below(S, a) \in Nat /\ Below(S, b) \in Nat /\ Below(S, a) < Below(S, b)
<1> DEFINE A == {x \in S : x < a}
           B == {x \in S : x < b}
<1>1. IsFiniteSet(Blocks)
  BY FS_Interval, SizeAssumption DEF Blocks
<1>2. IsFiniteSet(A) /\ IsFiniteSet(B)
  BY <1>1, FS_Subset
<1>3. A \subseteq B /\ A # B
  <2>1. S \subseteq Int
    BY SizeAssumption DEF Blocks
  <2>2. ASSUME NEW x \in A PROVE x \in B
    <3>1. x \in Int /\ a \in Int /\ b \in Int /\ x < a
      BY <2>1
    <3> QED BY <3>1
  <2>3. a \in B /\ a \notin A
    BY <2>1
  <2> QED BY <2>2, <2>3
<1>4. Cardinality(A) < Cardinality(B)
  <2> HIDE DEF A, B
  <2> QED BY <1>2, <1>3, FS_Subset, FS_CardinalityType
<1>5. Cardinality(A) \in Nat /\ Cardinality(B) \in Nat
  BY <1>2, FS_CardinalityType
<1> QED BY <1>4, <1>5 DEF Below

LEMMA RankedOnce ==
  ASSUME NEW S \in SUBSET Blocks, NEW i, NEW j,
         NEW a \in Ranked(S, i), NEW b \in Ranked(S, j)
  PROVE  /\ a \in S /\ b \in S
         /\ a = b => i = j
         /\ i \in Nat /\ j \in Nat
         /\ i <= j => a <= b
<1>1. a \in S /\ b \in S /\ Below(S, a) = i /\ Below(S, b) = j
  BY DEF Ranked
<1>2. IsFiniteSet(Blocks)
  BY FS_Interval, SizeAssumption DEF Blocks
<1>3. IsFiniteSet({x \in S : x < a}) /\ IsFiniteSet({x \in S : x < b})
  BY <1>2, FS_Subset
<1>4. i \in Nat /\ j \in Nat
  BY <1>1, <1>3, FS_CardinalityType DEF Below
<1>5. a \in Nat /\ b \in Nat
  BY <1>1, SizeAssumption DEF Blocks
<1>6. b < a => j < i
  BY <1>1, <1>5, BelowGrows
<1> QED BY <1>1, <1>4, <1>5, <1>6

-----------------------------------------------------------------------------
(* What a scan that succeeds returns.                                      *)
LEMMA ScanMapOK ==
  ASSUME NEW m \in SUBSET Blocks, ScanOK(m)
  PROVE  /\ ScanMap(m) \in [Logical -> Blocks]
         /\ \A k, l \in Logical : ScanMap(m)[k] = ScanMap(m)[l] => k = l
         /\ \A l \in Logical : ScanMap(m)[l] < PoolPba(m)
         /\ PoolPba(m) \in Nat
<1> DEFINE G == Good(m)
<1>1. G \in SUBSET Blocks
  BY SizeAssumption DEF Good, Blocks
<1>2. \A l \in Logical : Ranked(G, l) # {}
  BY DEF ScanOK
<1>3. \A l \in Logical : ScanMap(m)[l] \in Ranked(G, l)
  <2> HIDE DEF G
  <2>1. ScanMap(m) = [l \in Logical |-> CHOOSE b \in Ranked(G, l) : TRUE]
    BY DEF ScanMap, G
  <2> QED BY <2>1, <1>2
<1> HIDE DEF G
<1>4. ScanMap(m) \in [Logical -> Blocks]
  BY <1>1, <1>3 DEF ScanMap, Ranked
<1>5. \A k, l \in Logical : ScanMap(m)[k] = ScanMap(m)[l] => k = l
  BY <1>1, <1>3, RankedOnce
<1>6. PoolLba - 1 \in Logical /\ \A l \in Logical : l <= PoolLba - 1
  BY SizeAssumption DEF Logical
<1>7. \A l \in Logical : ScanMap(m)[l] <= ScanMap(m)[PoolLba - 1]
  BY <1>1, <1>3, <1>6, RankedOnce
<1>8. \A l \in Logical : ScanMap(m)[l] \in Nat
  BY <1>4, SizeAssumption DEF Blocks
<1> QED BY <1>4, <1>5, <1>6, <1>7, <1>8 DEF PoolPba

LEMMA ScanSlotsFilled ==
  ASSUME NEW m \in SUBSET Blocks, ScanOK(m)
  PROVE  /\ ScanIdx(m) \in Slots
         /\ \A i \in Slots :
              ScanSlots(m)[i].block # 0 => ScanSlots(m)[i].block >= PoolPba(m)
         /\ ScanSlots(m) \in [Slots -> [block : Blocks, mapped : Mapped]]
         /\ ScanSlots(m)[ScanIdx(m)].mapped # "normal"
         /\ \A i \in Slots : i <= ScanIdx(m) => ScanSlots(m)[i].block # 0
         /\ \A i, j \in Slots :
              ScanSlots(m)[i].block # 0 /\ ScanSlots(m)[i].block = ScanSlots(m)[j].block
                => i = j
         /\ \A i \in Slots, l \in Logical :
              ScanSlots(m)[i].block # 0 => ScanSlots(m)[i].block # ScanMap(m)[l]
<1> DEFINE P == Pool(m)
           last == ScanIdx(m)
<1>1. P \in SUBSET Blocks /\ \A b \in P : b >= PoolPba(m)
  BY SizeAssumption DEF Pool, Good, Blocks
<1>2. last \in Slots /\ LastSlot(P, last)
  <2>1. \E i \in Slots : LastSlot(P, i)
    BY DEF ScanOK
  <2> HIDE DEF P
  <2>2. last = CHOOSE i \in Slots : LastSlot(P, i)
    BY DEF ScanIdx, P
  <2> QED BY <2>1, <2>2
<1>3. ScanSlots(m) = [i \in Slots |->
                        IF i > last THEN Unused
                        ELSE [block |-> CHOOSE b \in Ranked(P, i) : TRUE,
                              mapped |-> IF i = last THEN "bmt" ELSE "no"]]
  BY DEF ScanSlots
<1> HIDE DEF P, last
<1>4. \A i \in Slots : i <= last => (CHOOSE b \in Ranked(P, i) : TRUE) \in Ranked(P, i)
  BY <1>2 DEF LastSlot
<1>5. \A i \in Slots : i <= last => ScanSlots(m)[i].block \in Ranked(P, i)
  BY <1>2, <1>3, <1>4 DEF Slots
<1>6. \A i \in Slots : ~ (i <= last) => ScanSlots(m)[i] = Unused
  BY <1>2, <1>3 DEF Slots
<1>7. \A i \in Slots : i <= last => ScanSlots(m)[i].block \in P
  BY <1>5 DEF Ranked
<1>8. \A l \in Logical : ScanMap(m)[l] < PoolPba(m) /\ ScanMap(m)[l] \in Blocks
  BY ScanMapOK
<1>9. PoolPba(m) \in Nat /\ PoolPba(m) > 0
  <2>1. 0 \in Logical
    BY SizeAssumption DEF Logical
  <2> QED BY <2>1, <1>8, ScanMapOK, SizeAssumption DEF Blocks
<1>10. \A b \in P : b \in Int /\ b # 0 /\ b \in Blocks
  BY <1>1, <1>9, SizeAssumption DEF Blocks
<1>11. \A i \in Slots : ScanSlots(m)[i].block # 0 => i <= last
  BY <1>6 DEF Unused
<1>12. ScanSlots(m) \in [Slots -> [block : Blocks, mapped : Mapped]]
  <2> SUFFICES ASSUME NEW i \in Slots
               PROVE  ScanSlots(m)[i] \in [block : Blocks, mapped : Mapped]
    BY <1>3
  <2>1. 0 \in Blocks
    BY SizeAssumption DEF Blocks
  <2>2. CASE i <= last
    BY <1>2, <1>3, <1>4, <1>7, <1>10, <2>2 DEF Slots, Mapped
  <2>3. CASE ~ (i <= last)
    BY <1>6, <2>1, <2>3 DEF Unused, Mapped
  <2> QED BY <2>2, <2>3
<1>13. ScanSlots(m)[last].mapped # "normal"
  BY <1>2, <1>3 DEF Slots
<1>14. \A i \in Slots : i <= last => ScanSlots(m)[i].block # 0
  BY <1>7, <1>10
<1>15. ASSUME NEW i \in Slots, NEW j \in Slots, ScanSlots(m)[i].block # 0,
              ScanSlots(m)[i].block = ScanSlots(m)[j].block
       PROVE  i = j
  BY <1>1, <1>5, <1>11, <1>15, RankedOnce
<1>16. ASSUME NEW i \in Slots, NEW l \in Logical, ScanSlots(m)[i].block # 0
       PROVE  ScanSlots(m)[i].block # ScanMap(m)[l]
  <2>1. ScanSlots(m)[i].block >= PoolPba(m) /\ ScanSlots(m)[i].block \in Int
    BY <1>1, <1>7, <1>10, <1>11, <1>16
  <2> QED BY <2>1, <1>8, <1>9, SizeAssumption DEF Blocks
<1>17. \A i \in Slots : ScanSlots(m)[i].block # 0 => ScanSlots(m)[i].block >= PoolPba(m)
  BY <1>1, <1>7, <1>11, Zenon
<1> QED BY <1>2, <1>12, <1>13, <1>14, <1>15, <1>16, <1>17, Zenon DEF last

LEMMA ScanSlotsOK ==
  ASSUME NEW m \in SUBSET Blocks, ScanOK(m)
  PROVE  /\ ScanIdx(m) \in Slots
         /\ ScanSlots(m) \in [Slots -> [block : Blocks, mapped : Mapped]]
         /\ ScanSlots(m)[ScanIdx(m)].mapped # "normal"
         /\ \A i \in Slots : i <= ScanIdx(m) => ScanSlots(m)[i].block # 0
         /\ \A i, j \in Slots :
              ScanSlots(m)[i].block # 0 /\ ScanSlots(m)[i].block = ScanSlots(m)[j].block
                => i = j
         /\ \A i \in Slots, l \in Logical :
              ScanSlots(m)[i].block # 0 => ScanSlots(m)[i].block # ScanMap(m)[l]
BY ScanSlotsFilled, Zenon

(* The slot found in a table is the table's and lies below no empty slot.  *)
LEMMA IndexFound ==
  ASSUME NEW s, GetBmtIndex(s) # 0
  PROVE  /\ GetBmtIndex(s) \in Slots
         /\ s[GetBmtIndex(s)].mapped = "bmt"
         /\ \A j \in Slots : j <= GetBmtIndex(s) => s[j].block # 0
<1> DEFINE Holds(i) == s[i].mapped = "bmt" /\ \A j \in 0 .. i : s[j].block # 0
           H == {i \in Slots : Holds(i)}
<1>1. H # {}
  BY DEF GetBmtIndex
<1>2. PICK x \in H : \A y \in H : x <= y
  <2>1. H \in SUBSET Nat
    BY SizeAssumption DEF Slots
  <2> HIDE DEF H
  <2> QED BY <1>1, <2>1, LeastNat
<1>3. GetBmtIndex(s) = CHOOSE i \in Slots : Holds(i) /\ \A j \in Slots : Holds(j) => i <= j
  BY <1>1 DEF GetBmtIndex
<1>4. GetBmtIndex(s) \in Slots /\ Holds(GetBmtIndex(s))
  <2>1. x \in Slots /\ Holds(x) /\ \A j \in Slots : Holds(j) => x <= j
    BY <1>2
  <2> HIDE DEF Holds
  <2> QED BY <1>3, <2>1
<1> QED BY <1>4, SizeAssumption DEF Slots

-----------------------------------------------------------------------------
(* The choices of the driver exist when it makes them.                     *)
LEMMA FoundIsStored ==
  ASSUME TypeOK, Loadable
  PROVE  TableFound \in Blocks /\ stored[TableFound] \in Tables
<1>1. WithTable # {} /\ WithTable \in SUBSET Blocks
  BY DEF Loadable, WithTable
<1>2. TableFound \in WithTable
  BY <1>1, GreatestBlock DEF TableFound
<1>3. TableFound \in Blocks /\ stored[TableFound] # NoTable /\ stored[TableFound] # Torn
  BY <1>2 DEF WithTable, Loadable, TornFound
<1> QED BY <1>3 DEF TypeOK

LEMMA FreeIsFree ==
  ASSUME FreeSlots # {}
  PROVE  FirstFree \in Slots /\ slots[FirstFree].block # 0 /\ slots[FirstFree].mapped = "no"
<1>1. FreeSlots \in SUBSET Nat
  BY SizeAssumption DEF FreeSlots, Slots
<1>2. FirstFree \in FreeSlots
  BY <1>1, LeastNat, Zenon DEF FirstFree
<1> QED BY <1>2 DEF FreeSlots

LEMMA Ranges ==
  /\ 0 \in Blocks /\ 0 \in Logical /\ 0 \in Main /\ Main \subseteq Logical
  /\ Slots \subseteq Nat /\ Blocks \subseteq Nat
BY SizeAssumption DEF Blocks, Logical, Main, Slots

LEMMA BlankIsContent == Blank \in Contents
BY Ranges, PagesAssumption DEF Blank, Holding, Contents

-----------------------------------------------------------------------------
(* Types, also after debugfs was used: an upload that is under way has a   *)
(* slot, and an access a block.                                            *)
TypeInv == TypeOK /\ RequestOK /\ (pc = "write" => ~ NoSpace)

LEMMA TypeInit == Init => TypeInv
<1> SUFFICES ASSUME Init PROVE TypeInv
  OBVIOUS
<1>1. marked \in SUBSET Blocks
  BY FactoryBadAssumption DEF Init
<1>2. data \in [Blocks -> Contents]
  BY BlankIsContent DEF Init
<1>3. slots \in [Slots -> [block : Blocks, mapped : Mapped]]
  BY Ranges DEF Init, Unused, Mapped
<1>4. acked \in [Main -> -1 .. Pages]
  BY PagesAssumption DEF Init, Dirty
<1>5. TypeOK
  BY <1>1, <1>2, <1>3, <1>4, Ranges, Zenon DEF Init, TypeOK, Ops, NoOp
<1>6. RequestOK /\ pc # "write"
  BY DEF Init, RequestOK
<1> QED BY <1>5, <1>6 DEF TypeInv

(* Where the upload has a slot to try.                                     *)
LEMMA TriedTyped ==
  ASSUME TypeOK, ~ NoSpace
  PROVE  n \in Slots /\ slots[n].block \in Blocks
BY DEF NoSpace, TypeOK, NoIndex

LEMMA TypeBoot == TypeInv /\ Boot => TypeInv'
<1> SUFFICES ASSUME TypeInv, Boot PROVE TypeInv'
  OBVIOUS
<1> USE DEF flash, ram
<1>1. CASE LoadTable
  <2>1. TableFound \in Blocks /\ stored[TableFound] \in Tables
    BY <1>1, FoundIsStored DEF TypeInv, LoadTable
  <2>2. idx' \in Slots
    BY <1>1, IndexFound DEF LoadTable, Loadable
  <2>3. TypeOK'
    BY <1>1, <2>1, <2>2 DEF LoadTable, TypeInv, TypeOK, Tables
  <2>4. RequestOK' /\ pc' # "write"
    BY <1>1 DEF LoadTable, TypeInv, RequestOK
  <2> QED BY <2>3, <2>4 DEF TypeInv
<1>2. CASE LoadTorn \/ RebuildFails
  <2>1. TypeOK'
    BY <1>2 DEF LoadTorn, RebuildFails, TypeInv, TypeOK
  <2>2. RequestOK' /\ pc' # "write"
    BY <1>2, Zenon DEF LoadTorn, RebuildFails, TypeInv, RequestOK
  <2> QED BY <2>1, <2>2 DEF TypeInv
<1>3. CASE Rebuild
  <2>1. /\ bb' \in [Logical -> Blocks] /\ idx' \in Slots /\ n' \in Slots
        /\ slots' \in [Slots -> [block : Blocks, mapped : Mapped]]
    BY <1>3, ScanMapOK, ScanSlotsOK DEF Rebuild, TypeInv, TypeOK
  <2>2. TypeOK'
    BY <1>3, <2>1 DEF Rebuild, TypeInv, TypeOK
  <2>3. RequestOK' /\ pc' # "write"
    BY <1>3 DEF Rebuild, TypeInv, RequestOK
  <2> QED BY <2>2, <2>3 DEF TypeInv
<1> QED BY <1>1, <1>2, <1>3 DEF Boot

LEMMA TypeTrySlotBelow ==
  ASSUME TypeInv, pc \in {"erase", "write"}, ~ NoSpace, TrySlotBelow,
         UNCHANGED <<used, marked, worn, data, bb, op, acked>>,
         NEW left \in {stored[slots[n].block], NoTable, Torn},
         stored' = [stored EXCEPT ![slots[n].block] = left]
  PROVE  TypeInv'
<1>1. /\ slots' = [slots EXCEPT ![n].block = 0] /\ n' = n - 1 /\ pc' = "erase"
      /\ UNCHANGED <<idx, ret>>
  BY DEF TrySlotBelow
<1>2. n \in Slots /\ slots[n].block \in Blocks
  BY TriedTyped DEF TypeInv
<1>3. slots' \in [Slots -> [block : Blocks, mapped : Mapped]]
  BY <1>1, <1>2, Ranges DEF TypeInv, TypeOK
<1>4. n' \in Slots \union {NoIndex}
  BY <1>1, <1>2, SizeAssumption DEF Slots, NoIndex
<1>5. stored' \in [Blocks -> Tables \union {NoTable, Torn}]
  BY <1>2 DEF TypeInv, TypeOK
<1>6. TypeOK'
  BY <1>1, <1>3, <1>4, <1>5 DEF TypeInv, TypeOK
<1>7. RequestOK'
  BY <1>1 DEF TypeInv, RequestOK
<1> QED BY <1>1, <1>6, <1>7 DEF TypeInv

LEMMA TypeUpload == TypeInv /\ (UploadNoSpace \/ EraseTable \/ WriteTable) => TypeInv'
<1> SUFFICES ASSUME TypeInv, UploadNoSpace \/ EraseTable \/ WriteTable PROVE TypeInv'
  OBVIOUS
<1> DEFINE b == slots[n].block
<1>1. CASE UploadNoSpace
  <2>1. /\ UNCHANGED <<used, marked, worn, data, stored, bb, slots, op, acked>>
        /\ idx' = NoIndex /\ n' = NoIndex /\ ret' = "idle"
        /\ pc' = IF ret # "attach" THEN ret ELSE "failed"
    BY <1>1 DEF UploadNoSpace, UploadReturns, flash
  <2>2. pc' \in {"idle", "access", "failed"} /\ (pc' = "access" => ret = "access")
    BY <2>1, Zenon DEF TypeInv, TypeOK
  <2>3. TypeOK'
    BY <2>1, <2>2, Zenon DEF TypeInv, TypeOK
  <2>4. RequestOK'
    BY <2>1, <2>2 DEF TypeInv, RequestOK
  <2> QED BY <2>2, <2>3, <2>4 DEF TypeInv
<1>2. CASE (EraseTable \/ WriteTable) /\ b \in worn
  <2>1. /\ pc \in {"erase", "write"} /\ ~ NoSpace /\ TrySlotBelow
        /\ UNCHANGED <<used, marked, worn, data, bb, op, acked>>
        /\ \E left \in {stored[b], NoTable, Torn} : stored' = [stored EXCEPT ![b] = left]
    BY <1>2 DEF EraseTable, WriteTable, TypeInv
  <2> QED BY <2>1, TypeTrySlotBelow, Zenon
<1>3. CASE EraseTable /\ b \notin worn
  <2>1. /\ UNCHANGED <<used, marked, worn, bb, op, acked, slots, n, idx, ret>>
        /\ pc = "erase" /\ ~ NoSpace /\ pc' = "write"
        /\ stored' = [stored EXCEPT ![b] = NoTable] /\ data' = [data EXCEPT ![b] = Blank]
    BY <1>3 DEF EraseTable
  <2>2. TypeOK'
    BY <2>1, BlankIsContent, Zenon DEF TypeInv, TypeOK
  <2>3. RequestOK' /\ ~ NoSpace'
    BY <2>1, Zenon DEF TypeInv, RequestOK, NoSpace
  <2> QED BY <2>2, <2>3, Zenon DEF TypeInv
<1>4. CASE WriteTable /\ b \notin worn
  <2>1. /\ UNCHANGED <<used, marked, worn, data, bb, op, acked, slots>> /\ ~ NoSpace
        /\ stored' = [stored EXCEPT ![b] = [bb |-> bb, slots |-> slots]]
        /\ idx' = n /\ n' = NoIndex /\ ret' = "idle"
        /\ pc' = IF ret # "attach" THEN ret ELSE IF n = NoIndex THEN "failed" ELSE "idle"
    BY <1>4 DEF WriteTable, UploadReturns, TypeInv
  <2>2. pc' \in {"idle", "access", "failed"} /\ (pc' = "access" => ret = "access")
    BY <2>1 DEF TypeInv, TypeOK
  <2>3. [bb |-> bb, slots |-> slots] \in Tables
    BY DEF TypeInv, TypeOK, Tables
  <2>4. TypeOK'
    BY <2>1, <2>2, <2>3, Zenon DEF TypeInv, TypeOK
  <2>5. RequestOK'
    BY <2>1, <2>2 DEF TypeInv, RequestOK
  <2> QED BY <2>2, <2>4, <2>5 DEF TypeInv
<1> QED BY <1>1, <1>2, <1>3, <1>4

LEMMA TypeAccess ==
  TypeInv /\ (AccessDone \/ AccessUndefined \/ AccessRefused \/ AccessRemaps) => TypeInv'
<1> SUFFICES ASSUME TypeInv, AccessDone \/ AccessUndefined \/ AccessRefused \/ AccessRemaps
             PROVE  TypeInv'
  OBVIOUS
<1> DEFINE l == op.block
<1>1. l \in Main /\ bb[l] \in Blocks
  BY Ranges DEF TypeInv, TypeOK, Ops, NoOp
<1>2. CASE AccessDone
  <2> DEFINE k == IF op.kind = "erase" THEN 0 ELSE acked[l] + 1
             b == bb[l]
  <2>1. /\ UNCHANGED <<used, marked, worn, bb, slots, idx, n, ret>>
        /\ pc = "access" /\ pc' = "idle" /\ op' = NoOp
        /\ data' = [data EXCEPT ![b] =
                      IF k = 0 \/ data[b] = Holding(l, acked[l]) THEN Holding(l, k) ELSE data[b]]
        /\ stored' = [stored EXCEPT ![b] = IF k = 0 THEN NoTable ELSE stored[b]]
        /\ acked' = [acked EXCEPT ![l] = k]
    BY <1>2 DEF AccessDone, ram
  <2>2. k \in 0 .. Pages
    <3>1. op.kind \in {"erase", "write"} /\ (op.kind = "write" => acked[l] \in 0 .. (Pages - 1))
      BY <2>1 DEF TypeInv, RequestOK
    <3> QED BY <3>1, PagesAssumption
  <2>3. Holding(l, k) \in Contents
    BY <1>1, <2>2, Ranges DEF Contents
  <2> HIDE DEF k
  <2>4. data' \in [Blocks -> Contents] /\ stored' \in [Blocks -> Tables \union {NoTable, Torn}]
    BY <1>1, <2>1, <2>3, Zenon DEF TypeInv, TypeOK
  <2>5. acked' \in [Main -> -1 .. Pages]
    BY <1>1, <2>1, <2>2, PagesAssumption DEF TypeInv, TypeOK
  <2>6. TypeOK'
    BY <2>1, <2>4, <2>5, Zenon DEF TypeInv, TypeOK, Ops
  <2>7. RequestOK'
    BY <2>1 DEF TypeInv, RequestOK
  <2> QED BY <2>1, <2>6, <2>7, Zenon DEF TypeInv
<1>3. CASE AccessUndefined \/ AccessRefused
  <2>1. TypeOK'
    BY <1>3, Zenon DEF AccessUndefined, AccessRefused, TypeInv, TypeOK, Ops, flash, ram
  <2>2. RequestOK' /\ pc' # "write"
    BY <1>3 DEF AccessUndefined, AccessRefused, TypeInv, RequestOK
  <2> QED BY <2>1, <2>2, Zenon DEF TypeInv
<1>4. CASE AccessRemaps
  <2> DEFINE f == FirstFree
             new == slots[f].block
  <2>1. /\ pc = "access" /\ FreeSlots # {} /\ UNCHANGED <<used, marked, worn, idx, op, acked>>
        /\ slots' = [slots EXCEPT ![f].mapped = "normal"] /\ bb' = [bb EXCEPT ![l] = new]
        /\ n' = idx /\ ret' = "access" /\ pc' = "erase"
    BY <1>4 DEF AccessRemaps, RemapBlock, StartUpload, RemapRefused
  <2>2. \E c \in {data[bb[l]], Blank} :
          \/ UNCHANGED <<data, stored>>
          \/ /\ data' = [data EXCEPT ![new] = c]
             /\ stored' = [stored EXCEPT ![new] = NoTable]
    BY <1>4 DEF AccessRemaps, RemapBlock
  <2>3. f \in Slots /\ new \in Blocks
    BY <2>1, FreeIsFree DEF TypeInv, TypeOK
  <2> HIDE DEF f, l
  <2>4. data' \in [Blocks -> Contents] /\ stored' \in [Blocks -> Tables \union {NoTable, Torn}]
    BY <1>1, <2>2, <2>3, BlankIsContent DEF TypeInv, TypeOK
  <2>5. slots' \in [Slots -> [block : Blocks, mapped : Mapped]]
    BY <2>1, <2>3 DEF TypeInv, TypeOK, Mapped
  <2>6. TypeOK'
    BY <2>1, <2>3, <2>4, <2>5, Zenon DEF TypeInv, TypeOK
  <2>7. RequestOK'
    BY <2>1 DEF TypeInv, RequestOK
  <2> QED BY <2>1, <2>6, <2>7 DEF TypeInv
<1> QED BY <1>2, <1>3, <1>4

LEMMA TypeSubmit ==
  ASSUME TypeInv, NEW l \in Main, NEW kind \in {"erase", "write"}, Submit(kind, l)
  PROVE  TypeInv'
<1>1. /\ UNCHANGED <<used, marked, worn, data, stored, bb, slots, idx, n, ret>>
      /\ pc = "idle" /\ pc' = "access" /\ op' = [kind |-> kind, block |-> l]
      /\ kind = "write" => acked[l] \in 0 .. (Pages - 1) /\ acked' = acked
      /\ kind = "erase" => acked' = [acked EXCEPT ![l] = Dirty]
  BY Zenon DEF Submit, flash, ram
<1>2. TypeOK'
  BY <1>1, PagesAssumption DEF TypeInv, TypeOK, Ops, Dirty
<1>3. RequestOK'
  BY <1>1 DEF TypeInv, RequestOK
<1> QED BY <1>1, <1>2, <1>3, Zenon DEF TypeInv

LEMMA TypeDebugFs ==
  ASSUME TypeInv, FreeUnused \/ DebugUndefined \/ \E l \in Main : Unmap(l)
  PROVE  TypeInv'
<1> USE DEF flash, ram
<1>1. ASSUME NEW l \in Main, Unmap(l) PROVE TypeInv'
  <2>1. l \in Blocks
    BY SizeAssumption DEF Main, Blocks
  <2>2. TypeOK'
    BY <1>1, <2>1, Ranges, Zenon DEF Unmap, StartUpload, TypeInv, TypeOK
  <2>3. RequestOK' /\ pc' # "write"
    BY <1>1 DEF Unmap, StartUpload, RequestOK
  <2> QED BY <2>2, <2>3 DEF TypeInv
<1>2. CASE FreeUnused
  <2>1. slots' \in [Slots -> [block : Blocks, mapped : Mapped]]
    BY <1>2 DEF FreeUnused, TypeInv, TypeOK, Mapped
  <2>2. TypeOK'
    BY <1>2, <2>1 DEF FreeUnused, StartUpload, TypeInv, TypeOK
  <2>3. RequestOK' /\ pc' # "write"
    BY <1>2, Zenon DEF FreeUnused, StartUpload, RequestOK
  <2> QED BY <2>2, <2>3 DEF TypeInv
<1>3. CASE DebugUndefined
  <2>1. TypeOK'
    BY <1>3, Zenon DEF DebugUndefined, TypeInv, TypeOK
  <2>2. RequestOK' /\ pc' # "write"
    BY <1>3, Zenon DEF DebugUndefined, TypeInv, RequestOK
  <2> QED BY <2>1, <2>2 DEF TypeInv
<1> QED BY <1>1, <1>2, <1>3

LEMMA TypePowerCut == TypeInv /\ PowerCut => TypeInv'
<1> SUFFICES ASSUME TypeInv, PowerCut PROVE TypeInv'
  OBVIOUS
<1>1. stored' \in [Blocks -> Tables \union {NoTable, Torn}]
  BY DEF PowerCut, TypeInv, TypeOK
<1>2. bb' \in [Logical -> Blocks] /\ slots' \in [Slots -> [block : Blocks, mapped : Mapped]]
  BY Ranges, Zenon DEF PowerCut, Unused, Mapped
<1>3. TypeOK'
  BY <1>1, <1>2, Zenon DEF PowerCut, TypeInv, TypeOK, Ops
<1>4. RequestOK' /\ pc' # "write"
  BY DEF PowerCut, RequestOK
<1> QED BY <1>3, <1>4 DEF TypeInv

LEMMA TypeStep == ASSUME TypeInv, [Next]_vars PROVE TypeInv'
<1>1. CASE UNCHANGED vars
  BY <1>1 DEF vars, TypeInv, TypeOK, RequestOK, NoSpace
<1>2. CASE Boot \/ Work
  BY <1>2, TypeBoot, TypeUpload, TypeAccess DEF Work
<1>3. ASSUME NEW l \in Main, Submit("erase", l) \/ Submit("write", l) PROVE TypeInv'
  BY <1>3, TypeSubmit
<1>4. CASE FreeUnused \/ DebugUndefined \/ \E l \in Main : Unmap(l)
  BY <1>4, TypeDebugFs, Zenon
<1>5. ASSUME NEW b \in Wearable, Wear(b) PROVE TypeInv'
  BY <1>5, WearAssumption DEF Wear, ram, TypeInv, TypeOK, RequestOK, NoSpace
<1>6. CASE PowerCut
  BY <1>6, TypePowerCut
<1> QED BY <1>1, <1>2, <1>3, <1>4, <1>5, <1>6 DEF Next, Use

(* "The variables have the types of the driver's structures", for every    *)
(* size of flash, of pool and of block, whatever wears out, and whatever   *)
(* unmap_block_v2 and the release of slots through debugfs do.             *)
THEOREM BmtTyped == Spec => []TypeOK
<1>1. TypeInv => TypeOK
  BY DEF TypeInv
<1>2. TypeInv /\ [Next]_vars => TypeInv'
  BY TypeStep
<1> QED BY <1>1, <1>2, TypeInit, PTL DEF Spec

-----------------------------------------------------------------------------
(* What is left to do: slots that a remap may still take, then the erases  *)
(* and writes of the upload that is under way.                             *)
Unspent == {i \in Slots : slots[i].mapped # "normal"}
StepsLeft == CASE pc = "erase" -> 2 * n + 4
               [] pc = "write" -> 2 * n + 3
               [] OTHER -> 0

(* A step of the driver ends what it was asked to do, or spends a slot of  *)
(* the pool for good, or brings the upload closer to its end.              *)
WorkAdvances ==
  Work => \/ pc' \in {"idle", "failed", "undefined"}
          \/ Unspent' \subseteq Unspent /\ Unspent' # Unspent
          \/ Unspent' = Unspent /\ StepsLeft' \in 0 .. (StepsLeft - 1)

(* The measure is a natural number. *)
LEMMA StepsLeftNat == ASSUME TypeInv PROVE StepsLeft \in Nat
<1>1. n \in Slots \union {NoIndex} /\ NoIndex = -1 /\ Slots \subseteq Nat
  BY SizeAssumption DEF TypeInv, TypeOK, NoIndex, Slots
<1>2. pc = "write" => n \in Nat
  BY <1>1 DEF TypeInv, NoSpace
<1> QED BY <1>1, <1>2 DEF StepsLeft

(* A failed erase or write leads to the slot below. *)
LEMMA BelowAdvances ==
  ASSUME TypeInv, pc \in {"erase", "write"}, ~ NoSpace, TrySlotBelow
  PROVE  Unspent' = Unspent /\ StepsLeft' < StepsLeft
<1>1. n \in Nat /\ n \in Slots
  BY SizeAssumption DEF TypeInv, TypeOK, NoSpace, NoIndex, Slots
<1>2. \A i \in Slots : slots'[i].mapped = slots[i].mapped
  BY <1>1 DEF TrySlotBelow, TypeInv, TypeOK
<1>3. StepsLeft' = 2 * (n - 1) + 4
  BY DEF TrySlotBelow, StepsLeft
<1>4. StepsLeft \in {2 * n + 4, 2 * n + 3}
  BY DEF StepsLeft
<1>5. Unspent' = Unspent
  BY <1>2, Zenon DEF Unspent
<1> QED BY <1>1, <1>3, <1>4, <1>5

(* What was asked of the driver comes to an end: no access is remapped for *)
(* ever and no upload goes round in circles, whatever wears out while it   *)
(* runs (remap_block_v2, upload_bmt).  Nothing gives a slot back but the   *)
(* release through debugfs, which is not a step of an access.              *)
THEOREM BmtWorkEnds == Spec => [][WorkAdvances]_vars
<1> DEFINE Closer == \/ pc' \in {"idle", "failed", "undefined"}
                     \/ Unspent' \subseteq Unspent /\ Unspent' # Unspent
                     \/ Unspent' = Unspent /\ StepsLeft' < StepsLeft
<1>1. ASSUME TypeInv, Work PROVE Closer
  <2>1. CASE UploadNoSpace
    <3>1. /\ pc = "erase" /\ slots' = slots
          /\ pc' \in {"idle", "failed", "access"}
      BY <1>1, <2>1 DEF UploadNoSpace, UploadReturns, TypeInv, TypeOK
    <3>2. StepsLeft = 2 * n + 4 /\ n \in Int /\ n >= -1
      BY <1>1, <3>1, SizeAssumption DEF StepsLeft, TypeInv, TypeOK, NoIndex, Slots
    <3>3. StepsLeft' = 0
      BY <3>1, Zenon DEF StepsLeft
    <3> QED BY <3>1, <3>2, <3>3 DEF Unspent
  <2>2. CASE EraseTable
    <3>1. CASE TrySlotBelow
      BY <1>1, <2>2, <3>1, BelowAdvances DEF EraseTable
    <3>2. CASE pc' = "write" /\ UNCHANGED <<slots, n>>
      <4>1. StepsLeft = 2 * n + 4 /\ StepsLeft' = 2 * n + 3 /\ n \in Int
        BY <1>1, <2>2, <3>2, SizeAssumption
        DEF EraseTable, StepsLeft, TypeInv, TypeOK, NoIndex, Slots
      <4> QED BY <3>2, <4>1 DEF Unspent
    <3> QED BY <2>2, <3>1, <3>2, Zenon DEF EraseTable
  <2>3. CASE WriteTable
    <3>1. pc = "write" /\ ~ NoSpace
      BY <1>1, <2>3 DEF WriteTable, TypeInv
    <3>2. CASE TrySlotBelow
      BY <1>1, <3>1, <3>2, BelowAdvances
    <3>3. CASE UploadReturns(n) /\ slots' = slots
      <4>1. pc' \in {"idle", "failed", "access"}
        BY <1>1, <3>3 DEF UploadReturns, TypeInv, TypeOK
      <4>2. StepsLeft = 2 * n + 3 /\ n \in Nat
        BY <1>1, <3>1, SizeAssumption DEF StepsLeft, NoSpace, TypeInv, TypeOK, NoIndex, Slots
      <4>3. StepsLeft' = 0
        BY <4>1, Zenon DEF StepsLeft
      <4> QED BY <3>3, <4>2, <4>3 DEF Unspent
    <3> QED BY <2>3, <3>2, <3>3, Zenon DEF WriteTable
  <2>4. CASE AccessDone \/ AccessUndefined \/ AccessRefused
    BY <2>4 DEF AccessDone, AccessUndefined, AccessRefused
  <2>5. CASE AccessRemaps
    <3> DEFINE new == FirstFree
    <3>1. new \in Slots /\ slots[new].mapped = "no"
      BY <1>1, <2>5, FreeIsFree DEF AccessRemaps, RemapRefused, TypeInv
    <3>2. slots' = [slots EXCEPT ![new].mapped = "normal"]
      BY <2>5 DEF AccessRemaps, RemapBlock
    <3> HIDE DEF new
    <3>3. /\ slots'[new].mapped = "normal"
          /\ \A i \in Slots : i # new => slots'[i] = slots[i]
      BY <1>1, <3>1, <3>2 DEF TypeInv, TypeOK
    <3>4. Unspent' \subseteq Unspent /\ new \in Unspent /\ new \notin Unspent'
      BY <3>1, <3>3 DEF Unspent
    <3> QED BY <3>4
  <2> QED BY <1>1, <2>1, <2>2, <2>3, <2>4, <2>5 DEF Work
<1>2. TypeInv /\ [Next]_vars => TypeInv'
  BY TypeStep
<1>3. TypeInv /\ TypeInv' /\ [Next]_vars => [WorkAdvances]_vars
  <2>1. SUFFICES ASSUME TypeInv, TypeInv', Work PROVE WorkAdvances
    BY DEF WorkAdvances
  <2>2. StepsLeft \in Nat /\ (TypeInv => StepsLeft \in Nat)'
    BY <2>1, StepsLeftNat, PTL
  <2>3. StepsLeft' < StepsLeft => StepsLeft' \in 0 .. (StepsLeft - 1)
    BY <2>1, <2>2
  <2> QED BY <1>1, <2>1, <2>3 DEF WorkAdvances
<1> QED BY <1>2, <1>3, TypeInit, PTL DEF Spec

-----------------------------------------------------------------------------
LEMMA CleanTyped == Clean => TypeInv
BY DEF Clean, TypeInv, TopOK

LEMMA InvInit == Init => Clean
<1> SUFFICES ASSUME Init PROVE Clean
  OBVIOUS
<1>1. TypeOK
  BY TypeInit, Zenon DEF TypeInv
<1>2. MemoryOK /\ FlashOK /\ TopOK /\ RequestOK
  BY DEF Init, MemoryOK, FlashOK, TopOK, RequestOK, Attached
<1>3. PagesOK
  BY DEF Init, PagesOK
<1> QED BY <1>1, <1>2, <1>3 DEF Clean

(* Actions that only move pc, or less.                                     *)
LEMMA InvIdleSteps ==
  Clean /\ (LoadTorn \/ RebuildFails \/ AccessUndefined \/ AccessRefused) => Clean'
<1> SUFFICES ASSUME Clean, LoadTorn \/ RebuildFails \/ AccessUndefined \/ AccessRefused
             PROVE  Clean'
  OBVIOUS
<1> USE DEF flash, ram
<1>1. UNCHANGED <<used, marked, worn, data, stored, bb, slots, idx, n, ret, acked>>
  BY DEF LoadTorn, RebuildFails, AccessUndefined, AccessRefused
<1>2. CASE LoadTorn \/ RebuildFails \/ AccessUndefined
  <2>1. pc' \in {"undefined", "failed"} /\ op' = op /\ pc \in {"off", "access"}
    BY <1>2 DEF LoadTorn, RebuildFails, AccessUndefined
  <2>2. TypeOK'
    BY <1>2, CleanTyped, TypeBoot, TypeAccess, SMTT(30) DEF Boot, TypeInv
  <2>3. (MemoryOK /\ TopOK /\ RequestOK)'
    BY <1>1, <2>1 DEF Clean, MemoryOK, TopOK, RequestOK, Attached
  <2>4. (FlashOK /\ PagesOK)'
    BY <1>1, SMTT(30) DEF Clean, FlashOK, PagesOK, TableOK
  <2> QED BY <2>2, <2>3, <2>4, Zenon DEF Clean
<1>3. CASE AccessRefused
  <2>1. pc = "access" /\ pc' = "idle" /\ op' = NoOp
    BY <1>3 DEF AccessRefused
  <2>2. TypeOK'
    BY <1>3, CleanTyped, TypeAccess, Zenon DEF TypeInv
  <2>3. (MemoryOK /\ TopOK /\ RequestOK)'
    BY <1>1, <2>1, SMTT(30) DEF Clean, MemoryOK, TopOK, RequestOK, Attached, TableOK, Top
  <2>4. (FlashOK /\ PagesOK)'
    BY <1>1 DEF Clean, FlashOK, PagesOK, TableOK
  <2> QED BY <2>2, <2>3, <2>4 DEF Clean
<1> QED BY <1>2, <1>3, Zenon

(* A step that leaves the marks and the wear alone, and writes no table,   *)
(* leaves the tables in flash as good as they were.                        *)
LEMMA FlashKept ==
  ASSUME Clean, UNCHANGED <<marked, worn>>,
         \A c \in Blocks : stored'[c] \notin {NoTable, Torn} => stored'[c] = stored[c]
  PROVE  FlashOK'
<1> SUFFICES ASSUME NEW c \in Blocks, stored'[c] \notin {NoTable, Torn}
             PROVE  TableOK(stored[c].bb, stored[c].slots)'
  BY DEF FlashOK
<1>1. stored'[c] = stored[c]
  OBVIOUS
<1>2. TableOK(stored[c].bb, stored[c].slots)
  BY <1>1 DEF Clean, FlashOK
<1> QED BY <1>1, <1>2 DEF TableOK

LEMMA InvLoadTable == Clean /\ LoadTable => Clean'
<1> SUFFICES ASSUME Clean, LoadTable PROVE Clean'
  OBVIOUS
<1>1. /\ UNCHANGED <<used, marked, worn, data, stored, n, ret, op, acked>>
      /\ pc = "off" /\ pc' = "idle" /\ Loadable
      /\ bb' = stored[TableFound].bb /\ slots' = stored[TableFound].slots
      /\ idx' = GetBmtIndex(stored[TableFound].slots)
  BY DEF LoadTable, flash
<1>2. TableFound \in Blocks /\ stored[TableFound] \in Tables
  BY <1>1, FoundIsStored, Zenon DEF Clean
<1>3. /\ idx' \in Slots /\ slots'[idx'].mapped = "bmt"
      /\ \A j \in Slots : j <= idx' => slots'[j].block # 0
  BY <1>1, IndexFound DEF Loadable
<1>4. TypeOK'
  BY CleanTyped, TypeBoot, SMTT(30) DEF Boot, TypeInv
<1>5. TableOK(bb', slots')
  BY <1>1, <1>2, ContentAssumption, SMTT(30) DEF Clean, FlashOK, TableOK
<1>6. MemoryOK'
  BY <1>1, <1>5, Zenon DEF MemoryOK, TableOK
<1>7. (TopOK /\ RequestOK)'
  BY <1>1, <1>3, SMTT(30) DEF Clean, TopOK, RequestOK, Top, Attached
<1>8. (FlashOK /\ PagesOK)'
  BY <1>1 DEF Clean, FlashOK, PagesOK, TableOK
<1> QED BY <1>4, <1>6, <1>7, <1>8, Zenon DEF Clean

LEMMA InvRebuild == Clean /\ Rebuild => Clean'
<1> SUFFICES ASSUME Clean, Rebuild PROVE Clean'
  OBVIOUS
<1>1. /\ UNCHANGED <<used, marked, worn, data, stored, op, acked>>
      /\ pc = "off" /\ pc' = "erase" /\ ret' = "attach" /\ ScanOK(marked)
      /\ bb' = ScanMap(marked) /\ slots' = ScanSlots(marked)
      /\ idx' = ScanIdx(marked) /\ n' = ScanIdx(marked)
  BY DEF Rebuild, flash
<1>2. marked \in SUBSET Blocks
  BY DEF Clean, TypeOK
<1>3. TypeOK'
  BY CleanTyped, TypeBoot, Zenon DEF Boot, TypeInv
<1>4. TableOK(bb', slots')
  BY <1>1, <1>2, ScanMapOK, ScanSlotsOK DEF TableOK
<1>5. MemoryOK'
  BY <1>1, <1>4, Zenon DEF MemoryOK, TableOK
<1>6. (TopOK /\ RequestOK)'
  BY <1>1, <1>2, ScanSlotsOK, SMTT(30) DEF Clean, TopOK, RequestOK, Top, Attached
<1>7. (FlashOK /\ PagesOK)'
  BY <1>1, ZenonT(40) DEF Clean, FlashOK, PagesOK, TableOK
<1> QED BY <1>3, <1>5, <1>6, <1>7 DEF Clean

(* While the upload has a slot to try, that slot's block is in no use.     *)
LEMMA TriedAside ==
  ASSUME Clean, pc \in {"erase", "write"}, ~ NoSpace
  PROVE  /\ n \in Slots /\ slots[n].block \in Blocks /\ slots[n].block # 0
         /\ slots[n].mapped # "normal"
         /\ \A l \in Logical : bb[l] # slots[n].block
<1>1. n \in Slots /\ slots[n].mapped # "normal"
  BY Ranges DEF NoSpace, Clean, TypeOK, NoIndex
<1>2. slots[n].block # 0 /\ slots[n].block \in Blocks
  BY <1>1, Ranges DEF Clean, TypeOK, TopOK, Top, Attached
<1> QED BY <1>1, <1>2, Zenon DEF Clean, MemoryOK, TableOK, Attached

LEMMA InvUploadNoSpace == Clean /\ UploadNoSpace => Clean'
<1> SUFFICES ASSUME Clean, UploadNoSpace PROVE Clean'
  OBVIOUS
<1>1. /\ UNCHANGED <<used, marked, worn, data, stored, bb, slots, op, acked>>
      /\ pc = "erase" /\ idx' = NoIndex /\ n' = NoIndex /\ ret' = "idle"
      /\ pc' = IF ret # "attach" THEN ret ELSE "failed"
  BY DEF UploadNoSpace, UploadReturns, flash
<1>2. pc' \in {"idle", "access", "failed"} /\ (pc' = "access" => ret = "access")
  BY <1>1 DEF Clean, TypeOK
<1>3. TypeOK'
  BY CleanTyped, TypeUpload, Zenon DEF TypeInv
<1>4. MemoryOK'
  BY <1>1, Zenon DEF Clean, MemoryOK, TableOK, Attached
<1>5. TopOK'
  <2>1. \A i \in Slots : ~ (i <= NoIndex)
    BY Ranges DEF NoIndex
  <2>2. Top' = NoIndex
    BY <1>1, <1>2, Zenon DEF Top
  <2> QED BY <1>1, <1>2, <2>1, <2>2 DEF TopOK
<1>6. RequestOK'
  BY <1>1, <1>2, SMTT(30) DEF Clean, RequestOK
<1>7. (FlashOK /\ PagesOK)'
  BY <1>1 DEF Clean, FlashOK, PagesOK, TableOK
<1> QED BY <1>3, <1>4, <1>5, <1>6, <1>7, Zenon DEF Clean

(* An upload that goes on to the slot below leaves a sound table.          *)
LEMMA InvTrySlotBelow ==
  ASSUME Clean, pc \in {"erase", "write"}, ~ NoSpace, TrySlotBelow,
         UNCHANGED <<used, marked, worn, data, bb, op, acked>>,
         NEW left \in {stored[slots[n].block], NoTable, Torn},
         stored' = [stored EXCEPT ![slots[n].block] = left]
  PROVE  Clean'
<1>1. /\ slots' = [slots EXCEPT ![n].block = 0] /\ n' = n - 1 /\ pc' = "erase"
      /\ UNCHANGED <<idx, ret>>
  BY DEF TrySlotBelow
<1>2. n \in Slots /\ slots[n].block \in Blocks /\ n \in Nat
  BY TriedAside, Ranges
<1>3. TypeOK'
  BY CleanTyped, TypeTrySlotBelow, ZenonT(40) DEF TypeInv
<1>4. \A i \in Slots : /\ slots'[i].block # 0 => slots'[i] = slots[i]
                       /\ i # n => slots'[i] = slots[i]
  BY <1>1, <1>2 DEF Clean, TypeOK
<1>5. MemoryOK'
  BY <1>1, <1>4 DEF Clean, MemoryOK, TableOK, Attached
<1>6. TopOK'
  <2>1. ASSUME NEW i \in Slots, i <= n' PROVE i <= n /\ i # n
    BY <1>1, <1>2, <2>1, Ranges
  <2>2. \A i \in Slots : i <= n => slots[i].block # 0
    BY DEF Clean, TopOK, Top, Attached
  <2> QED BY <1>1, <1>4, <2>1, <2>2 DEF TopOK, Top, Attached
<1>7. RequestOK'
  BY <1>1, Zenon DEF Clean, RequestOK
<1>8. \A b \in Blocks : stored'[b] \notin {NoTable, Torn} => stored'[b] = stored[b]
  BY <1>2, Zenon DEF Clean, TypeOK
<1>9. FlashOK'
  BY <1>8 DEF Clean, FlashOK, TableOK
<1>10. PagesOK'
  BY DEF Clean, PagesOK
<1> QED BY <1>3, <1>5, <1>6, <1>7, <1>9, <1>10, Zenon DEF Clean

LEMMA InvEraseTable == Clean /\ EraseTable => Clean'
<1> SUFFICES ASSUME Clean, EraseTable PROVE Clean'
  OBVIOUS
<1>1. pc = "erase" /\ ~ NoSpace /\ UNCHANGED <<used, marked, worn, bb, op, acked>>
  BY DEF EraseTable
<1>2. CASE slots[n].block \in worn
  <2>1. TrySlotBelow /\ UNCHANGED data
    BY <1>2 DEF EraseTable
  <2>2. PICK left \in {stored[slots[n].block], NoTable} :
          stored' = [stored EXCEPT ![slots[n].block] = left]
    BY <1>2 DEF EraseTable
  <2> QED BY <1>1, <2>1, <2>2, InvTrySlotBelow, Zenon
<1>3. CASE slots[n].block \notin worn
  <2> DEFINE b == slots[n].block
  <2>1. /\ stored' = [stored EXCEPT ![b] = NoTable]
        /\ data' = [data EXCEPT ![b] = Blank]
        /\ pc' = "write" /\ UNCHANGED <<slots, n, idx, ret>>
    BY <1>3 DEF EraseTable
  <2>2. b \in Blocks /\ \A l \in Logical : bb[l] # b
    BY <1>1, TriedAside
  <2>3. TypeOK'
    BY CleanTyped, TypeUpload, Zenon DEF TypeInv
  <2>4. (MemoryOK /\ RequestOK)'
    BY <1>1, <2>1, Zenon DEF Clean, MemoryOK, TableOK, Attached, RequestOK
  <2>5. TopOK'
    BY <1>1, <2>1, Zenon DEF Clean, TopOK, Top, Attached, NoSpace
  <2>6. \A c \in Blocks : stored'[c] \notin {NoTable, Torn} => stored'[c] = stored[c]
    BY <2>1, <2>2, Zenon DEF Clean, TypeOK
  <2>7. FlashOK'
    BY <1>1, <2>6, FlashKept, Zenon
  <2>8. PagesOK'
    <3>1. \A l \in Main : ScanMap(marked)[l] \notin worn => ScanMap(marked)[l] # b
      BY <1>1, <2>2, Ranges, Zenon DEF Clean, MemoryOK, TableOK, Attached
    <3> QED BY <1>1, <2>1, <3>1 DEF Clean, PagesOK, TypeOK
  <2> QED BY <2>3, <2>4, <2>5, <2>7, <2>8, Zenon DEF Clean
<1> QED BY <1>2, <1>3, Zenon

LEMMA InvWriteTable == Clean /\ WriteTable => Clean'
<1> SUFFICES ASSUME Clean, WriteTable PROVE Clean'
  OBVIOUS
<1>1. pc = "write" /\ ~ NoSpace /\ UNCHANGED <<used, marked, worn, data, bb, op, acked>>
  BY DEF WriteTable, Clean, TopOK
<1>2. CASE slots[n].block \in worn
  <2>1. TrySlotBelow
    BY <1>2, Zenon DEF WriteTable
  <2>2. PICK left \in {NoTable, Torn} : stored' = [stored EXCEPT ![slots[n].block] = left]
    BY <1>2 DEF WriteTable
  <2> QED BY <1>1, <2>1, <2>2, InvTrySlotBelow, Zenon
<1>3. CASE slots[n].block \notin worn
  <2> DEFINE b == slots[n].block
             t == [bb |-> bb, slots |-> slots]
  <2>1. /\ stored' = [stored EXCEPT ![b] = t]
        /\ idx' = n /\ n' = NoIndex /\ ret' = "idle" /\ UNCHANGED slots
        /\ pc' = IF ret # "attach" THEN ret ELSE IF n = NoIndex THEN "failed" ELSE "idle"
    BY <1>3, Zenon DEF WriteTable, UploadReturns
  <2>2. n \in Slots /\ b \in Blocks /\ slots[n].mapped # "normal"
    BY <1>1, TriedAside, Zenon
  <2>3. pc' \in {"idle", "access"} /\ (pc' = "access" => ret = "access")
    BY <2>1, <2>2, Ranges DEF Clean, TypeOK, NoIndex
  <2>4. TypeOK'
    BY CleanTyped, TypeUpload DEF TypeInv
  <2>5. TableOK(bb, slots)
    BY <1>1, Zenon DEF Clean, MemoryOK, Attached
  <2>6. MemoryOK'
    BY <1>1, <2>1, <2>5, Zenon DEF MemoryOK, TableOK
  <2>7. TopOK'
    BY <1>1, <2>1, <2>2, <2>3, Zenon DEF Clean, TopOK, Top, Attached
  <2>8. RequestOK'
    BY <1>1, <2>1, <2>3, Zenon DEF Clean, RequestOK
  <2>9. FlashOK'
    <3> SUFFICES ASSUME NEW c \in Blocks, stored'[c] \notin {NoTable, Torn}
                 PROVE  TableOK(stored[c].bb, stored[c].slots)'
      BY Zenon DEF FlashOK
    <3>1. CASE c = b
      <4>1. stored'[c].bb = bb /\ stored'[c].slots = slots
        BY <2>1, <2>2, <3>1, SMTT(30) DEF Clean, TypeOK
      <4> QED BY <1>1, <2>5, <4>1 DEF TableOK
    <3>2. CASE c # b
      <4>1. stored'[c] = stored[c]
        BY <2>1, <2>2, <3>2, Zenon DEF Clean, TypeOK
      <4> QED BY <1>1, <4>1 DEF Clean, FlashOK, TableOK
    <3> QED BY <3>1, <3>2, Zenon
  <2>10. PagesOK'
    BY <1>1 DEF Clean, PagesOK
  <2> QED BY <2>4, <2>6, <2>7, <2>8, <2>9, <2>10, Zenon DEF Clean
<1> QED BY <1>2, <1>3

LEMMA InvSubmit ==
  ASSUME Clean, NEW l \in Main, NEW kind \in {"erase", "write"}, Submit(kind, l)
  PROVE  Clean'
<1>1. /\ UNCHANGED <<used, marked, worn, data, stored, bb, slots, idx, n, ret>>
      /\ pc = "idle" /\ pc' = "access" /\ op' = [kind |-> kind, block |-> l]
      /\ kind = "write" => acked[l] \in 0 .. (Pages - 1) /\ acked' = acked
      /\ kind = "erase" => acked' = [acked EXCEPT ![l] = Dirty]
  BY DEF Submit, flash, ram
<1>2. TypeOK'
  BY CleanTyped, TypeSubmit, SMTT(30) DEF TypeInv
<1>3. (MemoryOK /\ TopOK)'
  BY <1>1, Zenon DEF Clean, MemoryOK, TableOK, TopOK, Top, Attached
<1>4. RequestOK'
  BY <1>1, Zenon DEF Clean, RequestOK
<1>5. FlashOK'
  BY <1>1, FlashKept, Zenon
<1>6. \A k \in Main : acked'[k] # Dirty => acked'[k] = acked[k]
  BY <1>1, SMTT(30) DEF Clean, TypeOK
<1>7. PagesOK'
  BY <1>1, <1>6, Zenon DEF Clean, PagesOK
<1> QED BY <1>2, <1>3, <1>4, <1>5, <1>7, Zenon DEF Clean

LEMMA InvAccessDone == Clean /\ AccessDone => Clean'
<1> SUFFICES ASSUME Clean, AccessDone PROVE Clean'
  OBVIOUS
<1> DEFINE l == op.block
           k == IF op.kind = "erase" THEN 0 ELSE acked[l] + 1
           b == bb[l]
<1>1. /\ UNCHANGED <<used, marked, worn, bb, slots, idx, n, ret>>
      /\ pc = "access" /\ pc' = "idle" /\ op' = NoOp /\ b \notin worn
      /\ data' = [data EXCEPT ![b] =
                    IF k = 0 \/ data[b] = Holding(l, acked[l]) THEN Holding(l, k) ELSE data[b]]
      /\ stored' = [stored EXCEPT ![b] = IF k = 0 THEN NoTable ELSE stored[b]]
      /\ acked' = [acked EXCEPT ![l] = k]
  BY Zenon DEF AccessDone, ram
<1>2. l \in Main /\ l \in Logical /\ b \in Blocks
  BY Ranges DEF Clean, TypeOK, Ops, NoOp
<1> HIDE DEF k
<1>3. TypeOK'
  BY CleanTyped, TypeAccess, SMTT(30) DEF TypeInv
<1>4. (MemoryOK /\ TopOK)'
  BY <1>1, ZenonT(40) DEF Clean, MemoryOK, TableOK, TopOK, Top, Attached
<1>5. RequestOK'
  BY <1>1, ZenonT(40) DEF Clean, RequestOK
<1>6. \A c \in Blocks : stored'[c] \notin {NoTable, Torn} => stored'[c] = stored[c]
  BY <1>1, <1>2, SMTT(30) DEF Clean, TypeOK
<1>7. FlashOK'
  BY <1>1, <1>6, FlashKept, SMTT(30)
<1>8. PagesOK'
  <2> DEFINE home == ScanMap(marked)
  <2> SUFFICES ASSUME NEW m \in Main, home[m] \notin worn, acked'[m] # Dirty
               PROVE  data'[home[m]] = Holding(m, acked'[m])
    BY <1>1, SMTT(30) DEF PagesOK
  <2>1. m \in Logical /\ bb[m] = home[m]
    BY <1>1, Ranges, Zenon DEF Clean, MemoryOK, TableOK, Attached
  <2>2. CASE m = l
    <3>1. acked'[m] = k
      BY <1>1, <1>2, <2>2, SMTT(30) DEF Clean, TypeOK
    <3>2. k = 0 \/ data[b] = Holding(l, acked[l])
      <4>1. CASE op.kind = "erase"
        BY <4>1, Zenon DEF k
      <4>2. CASE op.kind # "erase"
        <5>1. acked[l] \in 0 .. (Pages - 1)
          BY <1>1, <4>2, Zenon DEF Clean, RequestOK
        <5>2. acked[l] # Dirty
          BY <5>1, PagesAssumption DEF Dirty
        <5>3. data[home[l]] = Holding(l, acked[l])
          BY <1>2, <2>2, <5>2, SMTT(30) DEF Clean, PagesOK
        <5> QED BY <2>1, <2>2, <5>3, Zenon
      <4> QED BY <4>1, <4>2, Zenon
    <3>3. data'[b] = Holding(l, k)
      BY <1>1, <1>2, <3>2, ZenonT(40) DEF Clean, TypeOK
    <3> QED BY <2>1, <2>2, <3>1, <3>3, SMTT(30)
  <2>3. CASE m # l
    <3>0. TableOK(bb, slots)
      BY <1>1, Zenon DEF Clean, MemoryOK, Attached
    <3>1. home[m] # b
      BY <1>2, <2>1, <2>3, <3>0, Zenon DEF TableOK
    <3>2. acked'[m] = acked[m] /\ data'[home[m]] = data[home[m]]
      BY <1>1, <2>1, <2>3, <3>1 DEF Clean, TypeOK
    <3> QED BY <3>2, SMTT(30) DEF Clean, PagesOK
  <2> QED BY <2>2, <2>3, Zenon
<1> QED BY <1>3, <1>4, <1>5, <1>7, <1>8, SMTT(30) DEF Clean

LEMMA InvAccessRemaps == Clean /\ AccessRemaps => Clean'
<1> SUFFICES ASSUME Clean, AccessRemaps PROVE Clean'
  OBVIOUS
<1> DEFINE l == op.block
           f == FirstFree
           new == slots[f].block
<1>1. /\ pc = "access" /\ bb[l] \in worn /\ idx # NoIndex /\ FreeSlots # {}
      /\ UNCHANGED <<used, marked, worn, idx, op, acked>>
      /\ slots' = [slots EXCEPT ![f].mapped = "normal"]
      /\ bb' = [bb EXCEPT ![l] = new]
      /\ n' = idx /\ ret' = "access" /\ pc' = "erase"
  BY DEF AccessRemaps, RemapBlock, StartUpload, RemapRefused
<1>2. \E c \in {data[bb[l]], Blank} :
        \/ UNCHANGED <<data, stored>>
        \/ /\ data' = [data EXCEPT ![new] = c]
           /\ stored' = [stored EXCEPT ![new] = NoTable]
  BY DEF AccessRemaps, RemapBlock
<1>3. f \in Slots /\ new # 0 /\ slots[f].mapped = "no"
  BY <1>1, FreeIsFree, Zenon
<1>4. l \in Main /\ l \in Logical /\ new \in Blocks /\ bb[l] \in Blocks
  BY <1>3, Ranges DEF Clean, TypeOK, Ops, NoOp
<1>5. \A m \in Logical : bb[m] # new
  BY <1>1, <1>3 DEF Clean, MemoryOK, TableOK, Attached
<1>6. TypeOK'
  BY CleanTyped, TypeAccess DEF TypeInv
<1>7. \A i \in Slots : /\ slots'[i].block = slots[i].block
                       /\ i # f => slots'[i] = slots[i]
                       /\ slots'[f].mapped = "normal"
  BY <1>1, <1>3 DEF Clean, TypeOK
<1>8. \A m \in Logical : bb'[m] = IF m = l THEN new ELSE bb[m]
  BY <1>1, <1>4, Zenon DEF Clean, TypeOK
<1> HIDE DEF f, l
<1>9. MemoryOK'
  <2>1. TableOK(bb, slots)
    BY <1>1, Zenon DEF Clean, MemoryOK, Attached
  <2>2. \A k, m \in Logical : bb'[k] = bb'[m] => k = m
    BY <1>5, <1>8, <2>1, Zenon DEF TableOK
  <2>3. \A i, j \in Slots : slots'[i].block # 0 /\ slots'[i].block = slots'[j].block => i = j
    BY <1>7, <2>1 DEF TableOK
  <2>4. ASSUME NEW m \in Logical, NEW i \in Slots,
               slots'[i].block # 0, slots'[i].block = bb'[m]
        PROVE  slots'[i].mapped = "normal"
    <3>1. CASE m = l
      <4>1. slots[i].block = slots[f].block
        BY <1>7, <1>8, <2>4, <3>1, Zenon
      <4>2. i = f
        BY <1>3, <1>7, <2>1, <2>4, <4>1, Zenon DEF TableOK
      <4> QED BY <1>7, <4>2, Zenon
    <3>2. CASE m # l
      <4>1. slots[i].mapped = "normal"
        BY <1>7, <1>8, <2>1, <2>4, <3>2 DEF TableOK
      <4> QED BY <1>7, <4>1, Zenon
    <3> QED BY <3>1, <3>2, Zenon
  <2>5. \A m \in Logical : bb'[m] = ScanMap(marked)[m] \/ ScanMap(marked)[m] \in worn
    BY <1>1, <1>8, <2>1 DEF TableOK, l
  <2> QED BY <1>1, <2>2, <2>3, <2>4, <2>5, Zenon DEF MemoryOK, TableOK
<1>10. TopOK'
  BY <1>1, <1>7, Zenon DEF Clean, TopOK, Top, Attached
<1>11. RequestOK'
  BY <1>1, Zenon DEF Clean, RequestOK
<1>12. \A c \in Blocks : stored'[c] \notin {NoTable, Torn} => stored'[c] = stored[c]
  BY <1>2, <1>4 DEF Clean, TypeOK
<1>13. FlashOK'
  BY <1>1, <1>12, FlashKept, Zenon
<1>14. PagesOK'
  <2>1. \A m \in Main : ScanMap(marked)[m] \notin worn =>
                           ScanMap(marked)[m] \in Blocks \ {new}
    BY <1>1, <1>5, Ranges, Zenon DEF Clean, TypeOK, MemoryOK, TableOK, Attached
  <2>2. \A c \in Blocks \ {new} : data'[c] = data[c]
    BY <1>2, <1>4, Zenon DEF Clean, TypeOK
  <2> QED BY <1>1, <2>1, <2>2, Zenon DEF Clean, PagesOK
<1> QED BY <1>6, <1>9, <1>10, <1>11, <1>13, <1>14 DEF Clean

LEMMA InvWear ==
  ASSUME Clean, NEW b \in Wearable, Wear(b)
  PROVE  Clean'
<1>1. /\ UNCHANGED <<used, marked, data, stored, bb, slots, idx, pc, n, ret, op, acked>>
      /\ worn' = worn \union {b} /\ b \in Blocks
  BY WearAssumption, Zenon DEF Wear, ram
<1>2. TypeOK'
  BY <1>1 DEF Clean, TypeOK
<1>3. \A m, s : TableOK(m, s) => TableOK(m, s)'
  BY <1>1, SMTT(30) DEF TableOK
<1>4. MemoryOK'
  BY <1>1, <1>3, SMTT(30) DEF Clean, MemoryOK, TableOK, Attached
<1>5. FlashOK'
  BY <1>1, <1>3, ZenonT(40) DEF Clean, FlashOK, TableOK
<1>6. TopOK'
  BY <1>1, ZenonT(40) DEF Clean, TopOK, Top, Attached, NoSpace
<1>7. RequestOK'
  BY <1>1, ZenonT(40) DEF Clean, RequestOK
<1>8. PagesOK'
  BY <1>1, Zenon DEF Clean, PagesOK
<1> QED BY <1>2, <1>4, <1>5, <1>6, <1>7, <1>8, Zenon DEF Clean

LEMMA InvPowerCut == Clean /\ PowerCut => Clean'
<1> SUFFICES ASSUME Clean, PowerCut PROVE Clean'
  OBVIOUS
<1>1. /\ UNCHANGED <<used, marked, worn, data, acked>>
      /\ bb' = [l \in Logical |-> 0] /\ slots' = [i \in Slots |-> Unused]
      /\ idx' = NoIndex /\ pc' = "off" /\ n' = NoIndex /\ ret' = "idle" /\ op' = NoOp
      /\ \/ UNCHANGED stored
         \/ pc = "write" /\ \E left \in {NoTable, Torn} :
              stored' = [stored EXCEPT ![slots[n].block] = left]
  BY DEF PowerCut
<1>2. \A c \in Blocks : \/ stored'[c] = stored[c]
                        \/ stored'[c] \in {NoTable, Torn}
  BY <1>1 DEF Clean, TypeOK
<1>3. TypeOK'
  BY CleanTyped, TypePowerCut, Zenon DEF TypeInv
<1>4. (MemoryOK /\ TopOK /\ RequestOK)'
  BY <1>1, Zenon DEF MemoryOK, TopOK, RequestOK, Attached
<1>5. FlashOK'
  BY <1>1, <1>2, FlashKept, Zenon
<1>6. PagesOK'
  BY <1>1 DEF Clean, PagesOK
<1> QED BY <1>3, <1>4, <1>5, <1>6 DEF Clean

LEMMA InvOther ==
  ASSUME Clean,
         \/ UNCHANGED vars
         \/ Next /\ ~ ((\E l \in Main : Unmap(l)) \/ FreeUnused \/ DebugUndefined)
  PROVE  Clean'
<1>1. CASE UNCHANGED vars
  <2>1. TypeOK'
    BY <1>1, Zenon DEF vars, Clean, TypeOK
  <2>2. FlashOK'
    BY <1>1, FlashKept, SMTT(30) DEF vars
  <2>3. (MemoryOK /\ TopOK /\ RequestOK)'
    BY <1>1, ZenonT(40)
      DEF vars, Clean, MemoryOK, TableOK, Attached, TopOK, Top, NoSpace, RequestOK
  <2>4. PagesOK'
    BY <1>1, Zenon DEF vars, Clean, PagesOK
  <2> QED BY <2>1, <2>2, <2>3, <2>4, Zenon DEF Clean
<1>2. CASE Boot \/ Work
  BY <1>2, InvIdleSteps, InvLoadTable, InvRebuild, InvUploadNoSpace, InvEraseTable,
     InvWriteTable, InvAccessDone, InvAccessRemaps DEF Boot, Work
<1>3. ASSUME NEW l \in Main, Submit("erase", l) \/ Submit("write", l) PROVE Clean'
  BY <1>3, InvSubmit
<1>4. ASSUME NEW b \in Wearable, Wear(b) PROVE Clean'
  BY <1>4, InvWear
<1>5. CASE PowerCut
  BY <1>5, InvPowerCut
<1> QED BY <1>1, <1>2, <1>3, <1>4, <1>5, Zenon DEF Next, Use

LEMMA InvStep ==
  ASSUME Clean, [Next]_vars, ~ used'
  PROVE  Clean'
<1>1. ~ ((\E l \in Main : Unmap(l)) \/ FreeUnused \/ DebugUndefined)
  BY DEF Unmap, FreeUnused, DebugUndefined
<1> QED BY <1>1, InvOther

(* Nothing but debugfs records that debugfs was used, and nothing forgets  *)
(* it.                                                                     *)
LEMMA UsedStays == ASSUME [Next]_vars, used PROVE used'
<1>1. CASE UNCHANGED vars
  BY <1>1, SMTT(30) DEF vars
<1>2. CASE Boot \/ Work
  BY <1>2, Zenon DEF Boot, LoadTable, LoadTorn, Rebuild, RebuildFails, Work, UploadNoSpace,
     EraseTable, WriteTable, AccessDone, AccessUndefined, AccessRefused, AccessRemaps
<1>3. CASE Next /\ ~ (Boot \/ Work)
  BY <1>3, ZenonT(40) DEF Next, Use, Submit, Unmap, FreeUnused, DebugUndefined, Wear, PowerCut
<1> QED BY <1>1, <1>2, <1>3

LEMMA UnusedStays == ASSUME DebugFs = FALSE, [Next]_vars, ~ used PROVE ~ used'
<1>1. CASE UNCHANGED vars
  BY <1>1 DEF vars
<1>2. CASE Boot \/ Work
  BY <1>2, Zenon DEF Boot, LoadTable, LoadTorn, Rebuild, RebuildFails, Work, UploadNoSpace,
     EraseTable, WriteTable, AccessDone, AccessUndefined, AccessRefused, AccessRemaps
<1>3. CASE Next /\ ~ (Boot \/ Work)
  BY <1>3 DEF Next, Use, Submit, Unmap, FreeUnused, DebugUndefined, Wear, PowerCut
<1> QED BY <1>1, <1>2, <1>3, Zenon

-----------------------------------------------------------------------------
(* debugfs.  Without factory marks every block is at home in the block of  *)
(* the same number, as unmap_block_v2 takes for granted, and the pool      *)
(* follows.                                                                *)
LEMMA PlainHomes ==
  /\ \A l \in Logical : ScanMap({})[l] = l
  /\ PoolPba({}) = PoolLba
<1>1. Good({}) = Blocks
  BY Ranges DEF Good
<1>2. \A l \in Logical : l \in Blocks /\ l \in Nat
  BY SizeAssumption DEF Logical, Blocks
<1>3. ASSUME NEW l \in Logical PROVE ScanMap({})[l] = l
  <2>1. {x \in Blocks : x < l} = 0 .. (l - 1)
    BY SizeAssumption DEF Logical, Blocks
  <2>2. Cardinality(0 .. (l - 1)) = l
    BY <1>2, FS_Interval
  <2>3. l \in Ranked(Blocks, l)
    BY <1>2, <2>1, <2>2, Zenon DEF Ranked, Below
  <2>4. ASSUME NEW b \in Ranked(Blocks, l) PROVE b = l
    <3>1. b \in Blocks /\ b <= l /\ l <= b
      BY <1>2, <2>3, RankedOnce
    <3> QED BY <1>2, <3>1, Ranges
  <2>5. (CHOOSE b \in Ranked(Blocks, l) : TRUE) = l
    BY <2>3, <2>4, Zenon
  <2> QED BY <1>1, <2>5 DEF ScanMap
<1>4. PoolLba - 1 \in Logical /\ PoolLba \in Int
  BY SizeAssumption DEF Logical
<1> QED BY <1>3, <1>4 DEF PoolPba

(* Marks stay and wear does not heal: where debugfs does not fit, it will  *)
(* not fit later.                                                          *)
LEMMA MarksStay == ASSUME [Next]_vars PROVE marked' = marked /\ worn \subseteq worn'
<1>1. CASE UNCHANGED vars
  BY <1>1 DEF vars
<1>2. CASE Boot \/ Work
  BY <1>2, Zenon DEF Boot, LoadTable, LoadTorn, Rebuild, RebuildFails, Work, UploadNoSpace,
     EraseTable, WriteTable, AccessDone, AccessUndefined, AccessRefused, AccessRemaps, flash
<1>3. CASE Next /\ ~ (Boot \/ Work)
  BY <1>3, ZenonT(40)
     DEF Next, Use, Submit, Unmap, FreeUnused, DebugUndefined, Wear, PowerCut, flash
<1> QED BY <1>1, <1>2, <1>3

LEMMA FitsBefore == ASSUME [Next]_vars, DebugFits' PROVE DebugFits
BY MarksStay, UsedStays, Zenon DEF DebugFits

(* Where slots lie, and what is not at home, matters to debugfs: a block   *)
(* that unmap_block_v2 sends home finds its home free.                     *)
LEMMA ApartHeld ==
  ASSUME ApartOK, marked' = marked,
         Attached' => /\ Attached /\ bb' = bb
                      /\ \A i \in Slots : slots'[i].block \in {slots[i].block, 0}
  PROVE  Attached' => InPool(bb, slots)'
BY Zenon DEF ApartOK, InPool

LEMMA ApartStored ==
  ASSUME ApartOK, marked' = marked,
         \A b \in Blocks : \/ stored'[b] \in {stored[b], NoTable, Torn}
                           \/ Attached /\ stored'[b] = [bb |-> bb, slots |-> slots]
  PROVE  \A b \in Blocks : stored'[b] \notin {NoTable, Torn}
                             => InPool(stored[b].bb, stored[b].slots)'
<1> SUFFICES ASSUME NEW b \in Blocks, stored'[b] \notin {NoTable, Torn}
             PROVE  InPool(stored[b].bb, stored[b].slots)'
  OBVIOUS
<1>1. CASE stored'[b] = stored[b]
  BY <1>1, Zenon DEF ApartOK, InPool
<1>2. CASE Attached /\ stored'[b] = [bb |-> bb, slots |-> slots]
  <2>1. stored'[b].bb = bb /\ stored'[b].slots = slots
    BY <1>2
  <2> QED BY <1>2, <2>1, Zenon DEF ApartOK, InPool
<1> QED BY <1>1, <1>2, Zenon

(* What a step may do to the tables in flash.                              *)
LEMMA StoredStep ==
  ASSUME TypeInv, [Next]_vars
  PROVE  \A b \in Blocks : \/ stored'[b] \in {stored[b], NoTable, Torn}
                           \/ Attached /\ stored'[b] = [bb |-> bb, slots |-> slots]
<1> SUFFICES ASSUME NEW b \in Blocks
             PROVE  \/ stored'[b] \in {stored[b], NoTable, Torn}
                    \/ Attached /\ stored'[b] = [bb |-> bb, slots |-> slots]
  OBVIOUS
<1>1. \A c, t : stored' = [stored EXCEPT ![c] = t] => stored'[b] \in {stored[b], t}
  BY Zenon DEF TypeInv, TypeOK
<1>2. CASE UNCHANGED stored
  BY <1>2, Zenon
<1>3. CASE EraseTable
  <2>1. \E c : \E t \in {stored[c], NoTable} : stored' = [stored EXCEPT ![c] = t]
    BY <1>3 DEF EraseTable
  <2> QED BY <1>1, <2>1 DEF TypeInv, TypeOK
<1>4. CASE WriteTable
  <2>1. Attached
    BY <1>4 DEF WriteTable, Attached
  <2>2. \E c : \E t \in {[bb |-> bb, slots |-> slots], NoTable, Torn} :
           stored' = [stored EXCEPT ![c] = t]
    BY <1>4, Zenon DEF WriteTable
  <2> QED BY <1>1, <2>1, <2>2, Zenon
<1>5. CASE AccessDone
  <2>1. \E c : \E t \in {stored[c], NoTable} : stored' = [stored EXCEPT ![c] = t]
    BY <1>5, Zenon DEF AccessDone
  <2> QED BY <1>1, <2>1 DEF TypeInv, TypeOK
<1>6. CASE AccessRemaps
  <2>1. \/ UNCHANGED stored
        \/ \E c : stored' = [stored EXCEPT ![c] = NoTable]
    BY <1>6 DEF AccessRemaps, RemapBlock
  <2> QED BY <1>1, <2>1, Zenon
<1>7. CASE PowerCut
  <2>1. \/ UNCHANGED stored
        \/ \E c : \E t \in {NoTable, Torn} : stored' = [stored EXCEPT ![c] = t]
    BY <1>7, Zenon DEF PowerCut
  <2> QED BY <1>1, <2>1
<1>8. CASE Boot \/ UploadNoSpace \/ AccessUndefined \/ AccessRefused
  <2>1. UNCHANGED stored
    BY <1>8, Zenon DEF Boot, LoadTable, LoadTorn, Rebuild, RebuildFails, UploadNoSpace,
       AccessUndefined, AccessRefused, flash
  <2> QED BY <2>1
<1>9. CASE \/ FreeUnused \/ DebugUndefined
           \/ \E l \in Main : Submit("erase", l) \/ Submit("write", l) \/ Unmap(l)
           \/ \E c \in Wearable \ worn : Wear(c)
  <2>1. UNCHANGED stored
    BY <1>9, Zenon DEF FreeUnused, DebugUndefined, Submit, Unmap, Wear, flash
  <2> QED BY <2>1
<1>10. CASE UNCHANGED vars
  BY <1>10, Zenon DEF vars
<1> QED BY <1>3, <1>4, <1>5, <1>6, <1>7, <1>8, <1>9, <1>10, Zenon DEF Next, Use, Work

(* What a step may do to the mapping in memory.                            *)
LEMMA ApartLoadTable ==
  ASSUME Clean, ApartOK, LoadTable
  PROVE  InPool(bb, slots)'
<1>1. /\ marked' = marked /\ Loadable
      /\ bb' = stored[TableFound].bb /\ slots' = stored[TableFound].slots
  BY DEF LoadTable, flash
<1>2. TableFound \in Blocks /\ stored[TableFound] \in Tables
  BY <1>1, FoundIsStored, Zenon DEF Clean
<1>3. InPool(stored[TableFound].bb, stored[TableFound].slots)
  BY <1>2, ContentAssumption, Zenon DEF ApartOK
<1> QED BY <1>1, <1>3, Zenon DEF InPool

LEMMA ApartRebuild ==
  ASSUME Clean, Rebuild
  PROVE  InPool(bb, slots)'
<1>1. /\ marked' = marked /\ ScanOK(marked) /\ marked \in SUBSET Blocks
      /\ bb' = ScanMap(marked) /\ slots' = ScanSlots(marked)
  BY Zenon DEF Rebuild, flash, Clean, TypeOK
<1>2. \A i \in Slots : slots'[i].block # 0 => slots'[i].block >= PoolPba(marked)
  BY <1>1, ScanSlotsFilled
<1> QED BY <1>1, <1>2, Zenon DEF InPool

LEMMA ApartAccessRemaps ==
  ASSUME Clean, ApartOK, AccessRemaps
  PROVE  InPool(bb, slots)'
<1> DEFINE l == op.block
           f == FirstFree
           new == slots[f].block
<1>1. /\ pc = "access" /\ FreeSlots # {} /\ marked' = marked
      /\ slots' = [slots EXCEPT ![f].mapped = "normal"]
      /\ bb' = [bb EXCEPT ![l] = new]
  BY DEF AccessRemaps, RemapBlock, RemapRefused
<1>2. f \in Slots /\ new # 0 /\ l \in Main
  BY <1>1, FreeIsFree, Ranges DEF Clean, TypeOK, Ops, NoOp
<1>3. \A i \in Slots : slots'[i].block = slots[i].block
  BY <1>1, <1>2, Zenon DEF Clean, TypeOK
<1>4. \A m \in Logical : bb'[m] = IF m = l THEN new ELSE bb[m]
  BY <1>1 DEF Clean, TypeOK
<1>5. InPool(bb, slots)
  BY <1>1, Zenon DEF ApartOK, Attached
<1> HIDE DEF f, l
<1>6. new >= PoolPba(marked)
  BY <1>2, <1>5, Zenon DEF InPool
<1> QED BY <1>1, <1>2, <1>3, <1>4, <1>5, <1>6 DEF InPool

LEMMA ApartUnmap ==
  ASSUME Clean, ApartOK, marked = {}, NEW l \in Main, Unmap(l)
  PROVE  InPool(bb, slots)'
<1>1. /\ pc = "idle" /\ marked' = marked /\ slots' = slots /\ bb' = [bb EXCEPT ![l] = l]
  BY Zenon DEF Unmap, flash
<1>2. \A m \in Logical : bb'[m] = IF m = l THEN l ELSE bb[m]
  BY <1>1, Zenon DEF Clean, TypeOK
<1>3. \A m \in Logical : ScanMap(marked)[m] = m
  BY PlainHomes, Zenon
<1>4. InPool(bb, slots)
  BY <1>1 DEF ApartOK, Attached
<1> QED BY <1>1, <1>2, <1>3, <1>4 DEF InPool

(* A step that leaves the mapping alone touches no block number of a slot, *)
(* unless it clears it.                                                    *)
LEMMA SlotBlocksKept ==
  ASSUME Clean, UNCHANGED bb,
         \/ UNCHANGED slots
         \/ TrySlotBelow
         \/ slots' = [i \in Slots |-> IF i \in Releasable
                                      THEN [slots[i] EXCEPT !.mapped = "no"] ELSE slots[i]]
  PROVE  \A i \in Slots : slots'[i].block \in {slots[i].block, 0}
BY DEF TrySlotBelow, Clean, TypeOK

LEMMA ApartMemory ==
  ASSUME Clean, ApartOK, [Next]_vars, DebugFits', Attached'
  PROVE  InPool(bb, slots)'
<1>0. marked' = marked
  BY MarksStay
<1>1. CASE UNCHANGED vars
  <2>1. Attached /\ bb' = bb /\ slots' = slots
    BY <1>1 DEF vars, Attached
  <2> QED BY <1>0, <2>1, ApartHeld, SlotBlocksKept, Zenon
<1>2. CASE LoadTable \/ Rebuild \/ AccessRemaps
  BY <1>2, ApartLoadTable, ApartRebuild, ApartAccessRemaps, Zenon
<1>3. CASE \E l \in Main : Unmap(l)
  <2>1. marked = {}
    BY <1>3, <1>0 DEF Unmap, DebugFits
  <2> QED BY <1>3, <2>1, ApartUnmap, Zenon
<1>4. CASE UploadNoSpace \/ EraseTable \/ WriteTable \/ AccessDone \/ AccessRefused
  <2>1. Attached /\ bb' = bb /\ (UNCHANGED slots \/ TrySlotBelow)
    BY <1>4, Zenon
       DEF UploadNoSpace, EraseTable, WriteTable, AccessDone, AccessRefused, Attached, ram
  <2> QED BY <1>0, <2>1, ApartHeld, SlotBlocksKept
<1>5. CASE FreeUnused
  <2>1. /\ Attached /\ bb' = bb
        /\ slots' = [i \in Slots |-> IF i \in Releasable
                                     THEN [slots[i] EXCEPT !.mapped = "no"] ELSE slots[i]]
    BY <1>5, Zenon DEF FreeUnused, Attached
  <2> QED BY <1>0, <2>1, ApartHeld, SlotBlocksKept
<1>6. CASE \/ \E l \in Main : Submit("erase", l) \/ Submit("write", l)
           \/ \E b \in Wearable \ worn : Wear(b)
  <2>1. Attached /\ bb' = bb /\ slots' = slots
    BY <1>6, Zenon DEF Submit, Wear, Attached, ram
  <2> QED BY <1>0, <2>1, ApartHeld, SlotBlocksKept
<1>7. ~ (LoadTorn \/ RebuildFails \/ AccessUndefined \/ DebugUndefined \/ PowerCut)
  BY Zenon DEF LoadTorn, RebuildFails, AccessUndefined, DebugUndefined, PowerCut, Attached
<1> QED BY <1>1, <1>2, <1>3, <1>4, <1>5, <1>6, <1>7, Zenon DEF Next, Use, Boot, Work

LEMMA ApartStep ==
  ASSUME Clean, ApartOK, [Next]_vars, DebugFits'
  PROVE  ApartOK'
<1>1. Attached' => InPool(bb, slots)'
  BY ApartMemory, Zenon
<1>2. \A b \in Blocks : stored'[b] \notin {NoTable, Torn}
                          => InPool(stored[b].bb, stored[b].slots)'
  BY MarksStay, StoredStep, CleanTyped, ApartStored, Zenon
<1> QED BY <1>1, <1>2 DEF ApartOK

-----------------------------------------------------------------------------
(* The steps of debugfs, where it fits.                                    *)
LEMMA InvUnmap ==
  ASSUME Clean, ApartOK, marked = {}, NEW l \in Main, Unmap(l)
  PROVE  Clean'
<1>1. /\ pc = "idle" /\ idx # NoIndex
      /\ UNCHANGED <<marked, worn, data, stored, slots, idx, op, acked>>
      /\ bb' = [bb EXCEPT ![l] = l] /\ n' = idx /\ ret' = "idle" /\ pc' = "erase"
  BY DEF Unmap, flash, StartUpload
<1>2. TypeOK'
  BY CleanTyped, TypeDebugFs, Zenon DEF TypeInv
<1>3. \A m \in Logical : bb'[m] = IF m = l THEN l ELSE bb[m]
  BY <1>1, Zenon DEF Clean, TypeOK
<1>4. /\ \A m \in Logical : ScanMap(marked)[m] = m
      /\ PoolPba(marked) = PoolLba /\ PoolLba \in Nat
      /\ \A m \in Logical : m \in Nat /\ m < PoolLba
      /\ l \in Logical
  BY PlainHomes, SizeAssumption, Ranges DEF Logical
<1>5. InPool(bb, slots) /\ TableOK(bb, slots)
  BY <1>1, Zenon DEF ApartOK, Attached, Clean, MemoryOK
<1>6. ASSUME NEW m \in Logical, m # l PROVE bb[m] # l
  BY <1>4, <1>5, <1>6 DEF InPool
<1>7. \A i \in Slots : slots[i].block # 0 => slots[i].block # l
  BY <1>4, <1>5 DEF InPool
<1>8. MemoryOK'
  <2>1. \A k, m \in Logical : bb'[k] = bb'[m] => k = m
    BY <1>3, <1>5, <1>6, Zenon DEF TableOK
  <2>2. \A m \in Logical, i \in Slots :
          slots[i].block # 0 /\ slots[i].block = bb'[m] => slots[i].mapped = "normal"
    BY <1>3, <1>5, <1>7 DEF TableOK
  <2>3. \A m \in Logical : bb'[m] = ScanMap(marked)[m] \/ ScanMap(marked)[m] \in worn
    BY <1>3, <1>4, <1>5 DEF TableOK
  <2>4. \A i, j \in Slots : slots[i].block # 0 /\ slots[i].block = slots[j].block => i = j
    BY <1>5, Zenon DEF TableOK
  <2> QED BY <1>1, <2>1, <2>2, <2>3, <2>4, Zenon DEF MemoryOK, TableOK
<1>9. TopOK'
  BY <1>1, Zenon DEF Clean, TopOK, Top, Attached
<1>10. RequestOK'
  BY <1>1, Zenon DEF Clean, RequestOK
<1>11. FlashOK'
  BY <1>1, FlashKept
<1>12. PagesOK'
  BY <1>1, Zenon DEF Clean, PagesOK
<1> QED BY <1>2, <1>8, <1>9, <1>10, <1>11, <1>12, Zenon DEF Clean

(* What is released is in no use: a block that its slot holds is not at    *)
(* home, it is not block 0, so the mask has its bit.                       *)
LEMMA ReleasedUnmapped ==
  ASSUME Clean, ApartOK, marked = {}, 0 \notin worn, pc = "idle", idx # NoIndex,
         NEW i \in Releasable, NEW l \in Logical, slots[i].block # 0
  PROVE  slots[i].block # bb[l]
<1>1. i \in Slots /\ slots[i].mapped = "normal" /\ slots[i].block \notin InUse
  BY Zenon DEF Releasable, Clean, TopOK
<1>2. /\ ScanMap(marked)[l] = l
      /\ PoolPba(marked) = PoolLba /\ PoolLba \in Nat /\ l \in Nat /\ l < PoolLba
  BY PlainHomes, SizeAssumption DEF Logical
<1>3. InPool(bb, slots) /\ TableOK(bb, slots)
  BY DEF ApartOK, Attached, Clean, MemoryOK
<1> SUFFICES ASSUME slots[i].block = bb[l] PROVE FALSE
  OBVIOUS
<1>4. bb[l] # l
  BY <1>1, <1>2, <1>3 DEF InPool
<1>5. l \in Main /\ l \in worn
  BY <1>2, <1>3, <1>4, Zenon DEF InPool, TableOK
<1>6. bb[l] \in InUse
  BY <1>4, <1>5, Zenon DEF InUse
<1> QED BY <1>1, <1>6, Zenon

LEMMA InvFreeUnused ==
  ASSUME Clean, ApartOK, marked = {}, 0 \notin worn, FreeUnused
  PROVE  Clean'
<1>1. /\ pc = "idle" /\ idx # NoIndex
      /\ UNCHANGED <<marked, worn, data, stored, bb, idx, op, acked>>
      /\ slots' = [i \in Slots |-> IF i \in Releasable
                                   THEN [slots[i] EXCEPT !.mapped = "no"] ELSE slots[i]]
      /\ n' = idx /\ ret' = "idle" /\ pc' = "erase"
  BY DEF FreeUnused, flash, StartUpload
<1>2. TypeOK'
  BY CleanTyped, TypeDebugFs DEF TypeInv
<1>3. \A i \in Slots : /\ slots'[i].block = slots[i].block
                       /\ i \notin Releasable => slots'[i] = slots[i]
  BY <1>1 DEF Clean, TypeOK
<1>4. TableOK(bb, slots)
  BY <1>1 DEF Attached, Clean, MemoryOK
<1>5. MemoryOK'
  <2>1. \A i, j \in Slots : slots'[i].block # 0 /\ slots'[i].block = slots'[j].block => i = j
    BY <1>3, <1>4 DEF TableOK
  <2>2. ASSUME NEW m \in Logical, NEW i \in Slots,
               slots'[i].block # 0, slots'[i].block = bb[m]
        PROVE  slots'[i].mapped = "normal"
    <3>1. i \notin Releasable
      BY <1>1, <1>3, <2>2, ReleasedUnmapped
    <3>2. slots[i].mapped = "normal"
      BY <1>3, <1>4, <2>2 DEF TableOK
    <3> QED BY <1>3, <3>1, <3>2
  <2>3. \A k, m \in Logical : bb[k] = bb[m] => k = m
    BY <1>4, Zenon DEF TableOK
  <2>4. \A m \in Logical : bb[m] = ScanMap(marked)[m] \/ ScanMap(marked)[m] \in worn
    BY <1>4 DEF TableOK
  <2> QED BY <1>1, <2>1, <2>2, <2>3, <2>4, Zenon DEF MemoryOK, TableOK
<1>6. TopOK'
  BY <1>1, <1>3 DEF Clean, TopOK, Top, Attached
<1>7. RequestOK'
  BY <1>1 DEF Clean, RequestOK
<1>8. FlashOK'
  BY <1>1, FlashKept
<1>9. PagesOK'
  BY <1>1, Zenon DEF Clean, PagesOK
<1> QED BY <1>2, <1>5, <1>6, <1>7, <1>8, <1>9, Zenon DEF Clean

LEMMA InvDebugUndefined == ASSUME Clean, DebugUndefined PROVE Clean'
<1>1. /\ UNCHANGED <<marked, worn, data, stored, bb, slots, idx, n, ret, op, acked>>
      /\ pc = "idle" /\ pc' = "undefined" /\ used' = TRUE
  BY DEF DebugUndefined, flash, ram
<1>2. TypeOK'
  BY CleanTyped, TypeDebugFs, Zenon DEF TypeInv
<1>3. (MemoryOK /\ TopOK /\ RequestOK)'
  BY <1>1, Zenon DEF Clean, MemoryOK, TopOK, RequestOK, Attached
<1>4. FlashOK'
  BY <1>1, FlashKept
<1>5. PagesOK'
  BY <1>1, Zenon DEF Clean, PagesOK
<1> QED BY <1>2, <1>3, <1>4, <1>5 DEF Clean

LEMMA CleanStep ==
  ASSUME Clean, ApartOK, [Next]_vars, DebugFits'
  PROVE  Clean'
<1>1. used' => marked = {} /\ 0 \notin worn
  BY MarksStay DEF DebugFits
<1>2. CASE ~ used'
  BY <1>2, InvStep, Zenon
<1>3. CASE used' /\ \E l \in Main : Unmap(l)
  BY <1>1, <1>3, InvUnmap, Zenon
<1>4. CASE used' /\ (FreeUnused \/ DebugUndefined)
  BY <1>1, <1>4, InvFreeUnused, InvDebugUndefined, Zenon
<1>5. CASE UNCHANGED vars \/ (Next /\ ~ ((\E l \in Main : Unmap(l)) \/ FreeUnused \/ DebugUndefined))
  BY <1>5, InvOther
<1> QED BY <1>2, <1>3, <1>4, <1>5, Zenon

-----------------------------------------------------------------------------
(* The inductive invariant holds of every behaviour of the driver in which *)
(* debugfs is used where it fits, for every size of flash, of pool and of  *)
(* block, every set of factory marks and every order of wear, of losses of *)
(* power, of remaps, and of blocks and slots given back through debugfs.   *)
THEOREM BmtInvariant == Spec => []IInv
<1>1. Init => IInv
  BY InvInit, ContentAssumption, Zenon DEF IInv, ApartOK, Attached, Init
<1>2. IInv /\ [Next]_vars => IInv'
  BY CleanStep, ApartStep, FitsBefore DEF IInv
<1> QED BY <1>1, <1>2, PTL DEF Spec

LEMMA AlwaysClean == ASSUME DebugFs = FALSE PROVE Spec => []Clean
<1>1. Init => ~ used
  BY DEF Init
<1>2. ~ used /\ [Next]_vars => ~ used'
  BY UnusedStays
<1>3. IInv /\ ~ used => Clean
  BY DEF IInv, DebugFits
<1> QED BY <1>1, <1>2, <1>3, BmtInvariant, PTL DEF Spec

(* remap_block_v2, unmap_block_v2, upload_bmt and the boot never let two   *)
(* logical blocks share a physical block.                                  *)
THEOREM BmtMappingInjective == Spec => []MappingInjective
<1>1. IInv => MappingInjective
  BY DEF IInv, Clean, MemoryOK, TableOK, MappingInjective
<1> QED BY <1>1, BmtInvariant, PTL

(* find_valid_block_in_pool never hands out a slot that bb_tbl uses, also  *)
(* after mtk_bmt_mark_good and the release of slots through debugfs.       *)
THEOREM BmtSlotsAccounted == Spec => []SlotsAccounted
<1>1. IInv => SlotsAccounted
  BY SMTT(30) DEF IInv, Clean, MemoryOK, TableOK, SlotsAccounted
<1> QED BY <1>1, BmtInvariant, PTL

(* upload_bmt never erases a block that a logical block is mapped to.      *)
THEOREM BmtTableAside == Spec => []TableAside
<1>1. IInv => TableAside
  <2> SUFFICES ASSUME IInv, DebugFits PROVE TableAside
    BY DEF TableAside
  <2>0. Clean
    BY Zenon DEF IInv
  <2>1. ASSUME pc = "idle", idx # NoIndex, NEW l \in Logical PROVE bb[l] # slots[idx].block
    <3>1. idx \in Slots /\ idx <= idx
      BY <2>0, <2>1, Ranges DEF Clean, TypeOK, NoIndex, Slots
    <3>2. slots[idx].block # 0 /\ slots[idx].mapped # "normal"
      BY <2>0, <2>1, <3>1, Zenon DEF Clean, TopOK, Top, Attached
    <3> QED BY <2>0, <2>1, <3>1, <3>2 DEF Clean, MemoryOK, TableOK, Attached
  <2>2. pc \in {"erase", "write"} /\ ~ NoSpace => \A l \in Logical : bb[l] # slots[n].block
    BY <2>0, TriedAside, Zenon
  <2> QED BY <2>1, <2>2, Zenon DEF TableAside
<1> QED BY <1>1, BmtInvariant, PTL

(* What is remapped, what the upload erases, what debugfs gives back and   *)
(* what a boot loads never reaches the pages of an mtd block whose own     *)
(* block is sound.                                                         *)
THEOREM BmtSoundBlockKept == Spec => []SoundBlockKept
<1>1. IInv => SoundBlockKept
  <2> SUFFICES ASSUME Clean, Attached, NEW l \in Main,
                      ScanMap(marked)[l] \notin worn, acked[l] # Dirty
               PROVE  data[bb[l]] = Holding(l, acked[l])
    BY Zenon DEF SoundBlockKept, IInv
  <2>1. bb[l] = ScanMap(marked)[l]
    BY Ranges DEF Clean, MemoryOK, TableOK
  <2> QED BY <2>1, Zenon DEF Clean, PagesOK
<1> QED BY <1>1, BmtInvariant, PTL
=============================================================================
