---------------------------- MODULE BmtBootProofs ---------------------------
(***************************************************************************)
(* The loops of scan_bad_blocks build the table that BmtScan defines, for  *)
(* every size of flash and of pool, every bound on the bad blocks that a   *)
(* search steps over and every set of marks; a driver that boots with the  *)
(* loops implements the one that scans in a step.                          *)
(***************************************************************************)
EXTENDS BmtBoot, MtkBmtProofs

(* Counting the elements of a set below a block, block after block.        *)
LEMMA BelowNext ==
  ASSUME NEW S \in SUBSET Blocks, NEW b \in Nat
  PROVE  /\ Below(S, b) \in Nat
         /\ b \in S => Below(S, b + 1) = Below(S, b) + 1
         /\ b \notin S => Below(S, b + 1) = Below(S, b)
<1> DEFINE A == {x \in S : x < b}
           B == {x \in S : x < b + 1}
<1>1. IsFiniteSet(Blocks)
  BY FS_Interval, SizeAssumption DEF Blocks
<1>2. IsFiniteSet(A)
  BY <1>1, FS_Subset
<1>3. \A x \in S : x \in Nat
  BY Ranges
<1>4. b \notin A
  OBVIOUS
<1>5. b \in S => B = A \union {b}
  <2>1. \A x \in S : x < b + 1 <=> x < b \/ x = b
    BY <1>3
  <2> QED BY <2>1, Zenon
<1>6. b \notin S => B = A
  BY <1>3
<1> HIDE DEF A, B
<1>7. Cardinality(A) \in Nat /\ Cardinality(A \union {b}) = Cardinality(A) + 1
  BY <1>2, <1>4, FS_AddElement, FS_CardinalityType
<1>8. Below(S, b) = Cardinality(A) /\ Below(S, b + 1) = Cardinality(B)
  BY DEF Below, A, B
<1> QED BY <1>5, <1>6, <1>7, <1>8, Zenon

LEMMA BelowBound ==
  ASSUME NEW S \in SUBSET Blocks, NEW b \in Nat
  PROVE  Below(S, b) <= b
<1> DEFINE A == {x \in S : x < b}
<1>1. A \subseteq 0 .. (b - 1)
  <2>1. \A x \in S : x \in Nat
    BY Ranges
  <2> QED BY <2>1
<1>2. IsFiniteSet(0 .. (b - 1)) /\ Cardinality(0 .. (b - 1)) = b
  BY FS_Interval
<1> HIDE DEF A
<1>3. Cardinality(A) <= b
  BY <1>1, <1>2, FS_Subset
<1> QED BY <1>3 DEF Below, A

LEMMA BelowNone ==
  ASSUME NEW S \in SUBSET Blocks, NEW b \in Nat, \A x \in S : b <= x
  PROVE  Below(S, b) = 0
<1>1. {x \in S : x < b} = {}
  <2>1. \A x \in S : x \in Nat
    BY Ranges
  <2> QED BY <2>1
<1> QED BY <1>1, FS_EmptySet DEF Below

LEMMA PoolOfGood ==
  ASSUME NEW m \in SUBSET Blocks
  PROVE  Good(m) \in SUBSET Blocks /\ Pool(m) \in SUBSET Blocks
BY Ranges DEF Good, Pool

(* A table that counts the good blocks is the one of BmtScan.              *)
LEMMA CountedIsScanned ==
  ASSUME NEW m \in SUBSET Blocks, NEW t \in [Logical -> Blocks],
         \A l \in Logical : t[l] \in Ranked(Good(m), l)
  PROVE  /\ t = ScanMap(m)
         /\ PoolPba(m) = t[PoolLba - 1] + 1
<1> DEFINE G == Good(m)
<1>1. G \in SUBSET Blocks
  BY PoolOfGood
<1> HIDE DEF G
<1>2. ASSUME NEW l \in Logical PROVE (CHOOSE b \in Ranked(G, l) : TRUE) = t[l]
  <2>1. l \in Nat /\ l <= l
    BY SizeAssumption DEF Logical
  <2>2. t[l] \in Ranked(G, l)
    BY DEF G
  <2>3. ASSUME NEW b \in Ranked(G, l) PROVE b = t[l]
    <3>1. b \in Blocks /\ t[l] \in Blocks /\ b <= t[l] /\ t[l] <= b
      BY <1>1, <2>1, <2>2, RankedOnce
    <3>2. b \in Nat /\ t[l] \in Nat
      BY <3>1, Ranges, Zenon
    <3> QED BY <3>1, <3>2
  <2> QED BY <2>2, <2>3, Zenon
<1>3. ScanMap(m) = [l \in Logical |-> CHOOSE b \in Ranked(G, l) : TRUE]
  BY DEF ScanMap, G
<1>4. t = ScanMap(m)
  BY <1>2, <1>3
<1> QED BY <1>4 DEF PoolPba

-----------------------------------------------------------------------------
(* A search: where it begins, steps over a block, ends and gives up.       *)
LEMMA SearchBegins ==
  ASSUME NEW m, NEW f \in Nat
  PROVE  SearchOK(m, f, f, 0)
<1>1. f .. (f - 1) = {}
  OBVIOUS
<1>2. f - 0 = f /\ f <= f /\ 0 <= BbMax
  BY SizeAssumption
<1> QED BY <1>1, <1>2 DEF SearchOK, Crossable

LEMMA SearchSteps ==
  ASSUME NEW m, NEW f \in Nat, NEW b \in Nat, NEW k \in Nat,
         SearchOK(m, f, b, k), b \in m, k < BbMax
  PROVE  SearchOK(m, f, b + 1, k + 1)
<1>0. BbMax \in Nat
  BY SizeAssumption
<1>1. /\ f <= b - k /\ (b - k = f \/ b - k - 1 \notin m)
      /\ (b - k) .. (b - 1) \subseteq m
      /\ Crossable(m, f, b - 1)
  BY DEF SearchOK
<1>2. (b + 1) - (k + 1) = b - k /\ (b + 1) - 1 = b
  OBVIOUS
<1>3. (b - k) .. b \subseteq m
  BY <1>1
<1>4. Crossable(m, f, b)
  <2> SUFFICES ASSUME NEW x \in f .. b, x .. (x + BbMax) \subseteq m \cap (f .. b)
               PROVE  FALSE
    BY DEF Crossable
  <2>1. x \in Nat /\ x + BbMax \in f .. b
    BY <1>0
  <2>2. CASE x + BbMax <= b - 1
    <3>1. x \in f .. (b - 1)
      BY <1>0, <2>1, <2>2
    <3>2. x .. (x + BbMax) \subseteq m \cap (f .. (b - 1))
      BY <1>0, <2>1, <2>2
    <3> QED BY <1>1, <3>1, <3>2 DEF Crossable
  <2>3. CASE x + BbMax = b
    <3>1. b - k - 1 \in x .. (x + BbMax) /\ b - k # f
      BY <1>0, <2>1, <2>3
    <3> QED BY <1>1, <3>1
  <2> QED BY <1>0, <2>1, <2>2, <2>3
<1>5. k + 1 <= BbMax
  BY <1>0
<1> QED BY <1>1, <1>2, <1>3, <1>4, <1>5 DEF SearchOK

LEMMA SearchEnds ==
  ASSUME NEW m, NEW f \in Nat, NEW b \in Nat, NEW k \in Nat,
         SearchOK(m, f, b, k), b \notin m
  PROVE  f <= b /\ Crossable(m, f, b) /\ SearchOK(m, f, b + 1, 0)
<1>0. BbMax \in Nat
  BY SizeAssumption
<1>1. f <= b - k /\ Crossable(m, f, b - 1)
  BY DEF SearchOK
<1>2. Crossable(m, f, b)
  <2> SUFFICES ASSUME NEW x \in f .. b, x .. (x + BbMax) \subseteq m \cap (f .. b)
               PROVE  FALSE
    BY DEF Crossable
  <2>1. x \in Nat /\ x + BbMax \in f .. b /\ x + BbMax \in m
    BY <1>0
  <2>2. x + BbMax <= b - 1
    BY <1>0, <2>1
  <2>3. x \in f .. (b - 1)
    BY <1>0, <2>1, <2>2
  <2>4. x .. (x + BbMax) \subseteq m \cap (f .. (b - 1))
    BY <1>0, <2>1, <2>2
  <2> QED BY <1>1, <2>3, <2>4 DEF Crossable
<1>3. f <= b /\ (b + 1) - 0 = b + 1 /\ (b + 1) - 1 = b /\ (b + 1) .. b = {} /\ f <= b + 1
  BY <1>1
<1> QED BY <1>0, <1>2, <1>3 DEF SearchOK

LEMMA SearchGivesUp ==
  ASSUME NEW m, NEW f \in Nat, NEW b \in Nat, NEW k \in Nat, NEW t \in Nat,
         SearchOK(m, f, b, k), b \in m, k >= BbMax, b <= t
  PROVE  ~ Crossable(m, f, t)
<1>0. BbMax \in Nat
  BY SizeAssumption
<1>1. k = BbMax /\ f <= b - k /\ (b - k) .. (b - 1) \subseteq m
  BY <1>0 DEF SearchOK
<1>2. b - k \in f .. t
  BY <1>1
<1>3. (b - k) .. ((b - k) + BbMax) \subseteq m \cap (f .. t)
  BY <1>0, <1>1
<1> QED BY <1>2, <1>3 DEF Crossable

-----------------------------------------------------------------------------
(* The facts about the flash that every step of the scan uses.             *)
LEMMA Sizes ==
  /\ Total \in Nat /\ PoolLba \in Nat /\ BbMax \in Nat
  /\ 0 \in Slots /\ 1 \in Slots /\ 1 \in Logical \ {0}
  /\ Logical \subseteq Slots /\ Logical \subseteq Nat
  /\ PoolLba - 1 \in Logical
  /\ \A l \in Logical : l <= PoolLba - 1
BY SizeAssumption DEF Slots, Logical

(* ScanOK promises what the loops look for.                                *)
LEMMA ScanOKSays ==
  ASSUME NEW m \in SUBSET Blocks, ScanOK(m)
  PROVE  /\ \A l \in Logical : ScanMap(m)[l] \in Ranked(Good(m), l)
         /\ Crossable(m, 1, PoolPba(m) - 1) /\ PoolPba(m) < Total - 2
         /\ Pool(m) # {}
<1>1. \A l \in Logical : Ranked(Good(m), l) # {}
  BY DEF ScanOK
<1>2. \A l \in Logical : ScanMap(m)[l] \in Ranked(Good(m), l)
  <2> DEFINE G == Good(m)
  <2>1. ScanMap(m) = [l \in Logical |-> CHOOSE b \in Ranked(G, l) : TRUE]
    BY DEF ScanMap
  <2> HIDE DEF G
  <2>2. \A l \in Logical : Ranked(G, l) # {}
    BY <1>1 DEF G
  <2>3. \A l \in Logical : ScanMap(m)[l] \in Ranked(G, l)
    BY <2>1, <2>2
  <2> QED BY <2>3 DEF G
<1>3. Crossable(m, 1, PoolPba(m) - 1) /\ PoolPba(m) < Total - 2
  BY DEF ScanOK
<1>4. Pool(m) # {}
  <2>1. PICK i \in Slots : LastSlot(Pool(m), i)
    BY DEF ScanOK
  <2>2. 0 \in Slots /\ 0 <= i
    BY SizeAssumption DEF Slots
  <2>3. Ranked(Pool(m), 0) # {}
    BY <2>1, <2>2 DEF LastSlot
  <2> QED BY <2>3 DEF Ranked
<1> QED BY <1>2, <1>3, <1>4

(* The search for an entry of bb_tbl that finds no block: it has come to   *)
(* the end, with too few good blocks before, or it has given up, with the  *)
(* block that it looks for behind it.                                      *)
LEMMA MissingFails ==
  ASSUME NEW m \in SUBSET Blocks, NEW e \in Logical, NEW b \in 0 .. Total, NEW k \in Nat,
         Below(Good(m), b) = e, SearchOK(m, 1, b, k),
         b >= Total \/ (b \in m /\ k >= BbMax)
  PROVE  ~ ScanOK(m)
<1> SUFFICES ASSUME ScanOK(m) PROVE FALSE
  OBVIOUS
<1> DEFINE G == Good(m)
           last == ScanMap(m)[PoolLba - 1]
<1>1. G \in SUBSET Blocks
  BY PoolOfGood
<1>2. last \in G /\ Below(G, last) = PoolLba - 1 /\ last \in Nat
  <2>1. last \in Ranked(G, PoolLba - 1)
    BY ScanOKSays, Sizes
  <2> HIDE DEF G, last
  <2>2. last \in G /\ Below(G, last) = PoolLba - 1
    BY <2>1 DEF Ranked
  <2> QED BY <2>2, <1>1, Ranges
<1>3. b \in Nat /\ e \in Nat /\ e <= PoolLba - 1 /\ Total \in Nat /\ PoolLba \in Nat
  BY Sizes
<1>4. PoolPba(m) = last + 1
  BY DEF PoolPba
<1> HIDE DEF G, last
<1>5. ~ (last < b)
  <2>1. last < b => Below(G, last) < Below(G, b)
    BY <1>1, <1>2, <1>3, BelowGrows
  <2> QED BY <1>2, <1>3, <2>1 DEF G
<1>6. last \in Blocks /\ last < Total
  BY <1>1, <1>2, SizeAssumption DEF Blocks
<1>7. b \in m /\ k >= BbMax /\ b <= last
  BY <1>2, <1>3, <1>5, <1>6
<1>8. ~ Crossable(m, 1, last)
  BY <1>2, <1>3, <1>7, SearchGivesUp
<1>9. PoolPba(m) - 1 = last
  BY <1>2, <1>4
<1> QED BY <1>8, <1>9, ScanOKSays

(* The last search for a block of the pool: nothing is left behind it.     *)
LEMMA PoolBehind ==
  ASSUME NEW m \in SUBSET Blocks, NEW b \in 0 .. Total, NEW k \in Nat,
         PoolPba(m) \in Nat, SearchOK(m, PoolPba(m), b, k),
         b >= Total \/ (b \in m /\ k >= BbMax)
  PROVE  \A x \in Pool(m) : x < b
<1> SUFFICES ASSUME NEW x \in Pool(m), ~ (x < b) PROVE FALSE
  OBVIOUS
<1>1. x \in Blocks /\ Crossable(m, PoolPba(m), x)
  BY PoolOfGood DEF Pool
<1>2. x \in Nat /\ x < Total /\ b \in Nat
  BY <1>1, SizeAssumption DEF Blocks
<1>3. b \in m /\ k >= BbMax /\ b <= x
  BY <1>2, SizeAssumption
<1> QED BY <1>1, <1>2, <1>3, SearchGivesUp

LEMMA PoolCounted ==
  ASSUME NEW m \in SUBSET Blocks, NEW e \in Slots, NEW b \in Nat,
         Below(Pool(m), b) = e, \A x \in Pool(m) : x < b,
         \A j \in Slots : j < e => Ranked(Pool(m), j) # {}
  PROVE  /\ e = 0 => Pool(m) = {}
         /\ e > 0 => LastSlot(Pool(m), e - 1) /\ ScanIdx(m) = e - 1
<1> DEFINE P == Pool(m)
<1>1. P \in SUBSET Blocks
  BY PoolOfGood
<1>2. \A x \in P : x < b
  OBVIOUS
<1>3. Below(P, b) = e /\ e \in Nat
  BY SizeAssumption DEF Slots
<1>4. \A j \in Slots : j < e => Ranked(P, j) # {}
  OBVIOUS
<1>5. ScanIdx(m) = CHOOSE i \in Slots : LastSlot(P, i)
  BY DEF ScanIdx
<1>6. SUFFICES /\ e = 0 => P = {}
               /\ e > 0 => LastSlot(P, e - 1) /\ ScanIdx(m) = e - 1
  OBVIOUS
<1> HIDE DEF P
<1>7. \A x \in P : Below(P, x) \in Nat /\ Below(P, x) < e
  BY <1>1, <1>2, <1>3, BelowGrows
<1>8. e = 0 => P = {}
  BY <1>3, <1>7
<1>9. ASSUME e > 0 PROVE LastSlot(P, e - 1) /\ ScanIdx(m) = e - 1
  <2>1. e - 1 \in Slots /\ \A j \in Slots : j \in Nat /\ (j <= e - 1 <=> j < e)
    BY <1>9, SizeAssumption DEF Slots
  <2>2. \A j \in Slots : Ranked(P, j) # {} => j < e
    BY <1>7 DEF Ranked
  <2>3. LastSlot(P, e - 1)
    BY <1>4, <2>1, <2>2 DEF LastSlot
  <2>4. ASSUME NEW i \in Slots, LastSlot(P, i) PROVE i = e - 1
    <3>1. i <= e - 1 /\ e - 1 <= i
      BY <2>1, <2>3, <2>4 DEF LastSlot
    <3> QED BY <2>1, <3>1
  <2>5. (CHOOSE i \in Slots : LastSlot(P, i)) = e - 1
    BY <2>1, <2>3, <2>4, Zenon
  <2> QED BY <1>5, <2>3, <2>5
<1> QED BY <1>8, <1>9

(* Slots that count the blocks of the pool, the last one marked, are those *)
(* of BmtScan.                                                             *)
LEMMA CountedSlots ==
  ASSUME NEW m \in SUBSET Blocks, NEW e \in Slots, e > 0,
         NEW s \in [Slots -> [block : Blocks, mapped : Mapped]],
         \A j \in Slots : IF j < e
                          THEN s[j].block \in Ranked(Pool(m), j) /\ s[j].mapped = "no"
                          ELSE s[j] = Unused,
         ScanIdx(m) = e - 1
  PROVE  [s EXCEPT ![e - 1].mapped = "bmt"] = ScanSlots(m)
<1> DEFINE P == Pool(m)
           last == ScanIdx(m)
           found(j) == CHOOSE b \in Ranked(P, j) : TRUE
<1>1. P \in SUBSET Blocks
  BY PoolOfGood
<1>2. ScanSlots(m) = [i \in Slots |->
                        IF i > last THEN Unused
                        ELSE [block |-> found(i),
                              mapped |-> IF i = last THEN "bmt" ELSE "no"]]
  BY DEF ScanSlots
<1>3. \A j \in Slots : j < e => s[j].block \in Ranked(P, j) /\ s[j].mapped = "no"
  OBVIOUS
<1>4. \A j \in Slots : ~ (j < e) => s[j] = Unused
  OBVIOUS
<1>5. last = e - 1 /\ e \in Nat /\ \A j \in Slots : j \in Nat
  BY SizeAssumption DEF Slots
<1> HIDE DEF P, last, found
<1>6. ASSUME NEW j \in Slots, j < e PROVE found(j) = s[j].block
  <2>1. s[j].block \in Ranked(P, j) /\ j <= j
    BY <1>3, <1>5, <1>6
  <2>2. ASSUME NEW b \in Ranked(P, j) PROVE b = s[j].block
    <3>1. b \in Blocks /\ s[j].block \in Blocks /\ b <= s[j].block /\ s[j].block <= b
      BY <1>1, <2>1, RankedOnce
    <3>2. b \in Nat /\ s[j].block \in Nat
      BY <3>1, Ranges, Zenon
    <3> QED BY <3>1, <3>2
  <2>3. (CHOOSE b \in Ranked(P, j) : TRUE) = s[j].block
    BY <2>1, <2>2, Zenon
  <2> QED BY <2>3 DEF found
<1>7. ASSUME NEW j \in Slots
      PROVE  [s EXCEPT ![e - 1].mapped = "bmt"][j] = ScanSlots(m)[j]
  <2>1. CASE j = e - 1
    <3>1. [s EXCEPT ![e - 1].mapped = "bmt"][j] = [block |-> s[j].block, mapped |-> "bmt"]
      BY <2>1
    <3>2. ScanSlots(m)[j] = [block |-> found(j), mapped |-> "bmt"]
      BY <1>2, <1>5, <2>1
    <3>3. found(j) = s[j].block
      BY <1>5, <1>6, <2>1
    <3> QED BY <3>1, <3>2, <3>3
  <2>2. CASE j < e - 1
    <3>1. [s EXCEPT ![e - 1].mapped = "bmt"][j] = s[j]
      BY <1>5, <2>2
    <3>2. s[j] = [block |-> s[j].block, mapped |-> "no"]
      BY <1>3, <1>5, <2>2
    <3>3. ScanSlots(m)[j] = [block |-> found(j), mapped |-> "no"]
      <4>1. j \in Nat /\ ~ (j > last) /\ j # last
        BY <1>5, <2>2
      <4> QED BY <1>2, <4>1
    <3>4. found(j) = s[j].block
      BY <1>5, <1>6, <2>2
    <3> QED BY <3>1, <3>2, <3>3, <3>4
  <2>3. CASE j > e - 1
    <3>1. [s EXCEPT ![e - 1].mapped = "bmt"][j] = s[j]
      BY <1>5, <2>3
    <3> QED BY <1>2, <1>4, <1>5, <2>3, <3>1
  <2> QED BY <1>5, <2>1, <2>2, <2>3
<1>8. ScanSlots(m) = [j \in Slots |-> ScanSlots(m)[j]]
  BY <1>2
<1> QED BY <1>7, <1>8, Zenon

-----------------------------------------------------------------------------
(* The steps of the scan.                                                  *)
BootInv == TypeInv /\ ScanInv

LEMMA Marks ==
  ASSUME BootInv
  PROVE  /\ marked \in SUBSET Blocks
         /\ block \in Nat /\ block <= Total /\ loop \in Nat /\ entry \in Nat
         /\ at = "pool" => PoolPba(marked) \in Nat /\ bbTbl = ScanMap(marked)
<1>1. marked \in SUBSET Blocks /\ bbTbl \in [Logical -> Blocks]
  BY DEF BootInv, TypeInv, TypeOK, ScanInv, ScanTypeOK
<1>2. block \in Nat /\ block <= Total /\ loop \in Nat /\ entry \in Nat
  BY SizeAssumption DEF BootInv, ScanInv, ScanTypeOK, Slots
<1>3. ASSUME at = "pool" PROVE PoolPba(marked) \in Nat /\ bbTbl = ScanMap(marked)
  <2>1. \A l \in Logical : bbTbl[l] \in Ranked(Good(marked), l)
    BY <1>3 DEF BootInv, ScanInv, DataDone
  <2>2. bbTbl = ScanMap(marked) /\ PoolPba(marked) = bbTbl[PoolLba - 1] + 1
    BY <1>1, <2>1, CountedIsScanned
  <2>3. bbTbl[PoolLba - 1] \in Nat
    BY <1>1, Sizes, Ranges, Zenon
  <2> QED BY <2>2, <2>3
<1> QED BY <1>1, <1>2, <1>3

LEMMA KeepsScan ==
  ASSUME ScanInv, UNCHANGED <<scan, marked>>, at # "none" => UNCHANGED <<pc, stored>>
  PROVE  ScanInv'
<1>1. UNCHANGED <<at, entry, block, loop, bbTbl, bmtTbl, marked>>
  BY DEF scan, search
<1>2. ScanTypeOK' /\ ScanAsCoded'
  BY <1>1 DEF ScanInv, ScanTypeOK, ScanAsCoded
<1>3. (at # "none" => pc = "off" /\ ~ Loadable /\ ~ TornFound)'
  BY <1>1 DEF ScanInv, Loadable, TornFound, TableFound, WithTable
<1>4. (at = "none" => NoScan)'
  BY <1>1 DEF ScanInv, NoScan
<1>5. (at = "data" => DataOK /\ bmtTbl = [j \in Slots |-> Unused])'
  BY <1>1 DEF ScanInv, DataOK
<1>6. (at = "pool" => DataDone /\ PoolOK)'
  BY <1>1, Zenon DEF ScanInv, DataDone, PoolOK
<1> QED BY <1>2, <1>3, <1>4, <1>5, <1>6 DEF ScanInv

(* While no step of the driver itself is taken, there is still no table.   *)
LEMMA StillNoTable ==
  ASSUME ScanInv, UNCHANGED vars, at # "none"
  PROVE  (pc = "off" /\ ~ Loadable /\ ~ TornFound)'
BY DEF ScanInv, vars, Loadable, TornFound, TableFound, WithTable

LEMMA EndsScan == ASSUME EndScan PROVE ScanInv'
<1>1. NoScan'
  BY DEF EndScan, NoScan
<1>2. ScanTypeOK'
  BY <1>1, Sizes, Ranges DEF NoScan, ScanTypeOK, Unused, Mapped
<1> QED BY <1>1, <1>2 DEF ScanInv, NoScan, ScanAsCoded

LEMMA ScanStarts == ASSUME BootInv, ScanStart PROVE ScanInv'
<1>1. /\ UNCHANGED <<vars, bbTbl, bmtTbl>> /\ pc = "off" /\ ~ Loadable /\ ~ TornFound
      /\ at = "none" /\ at' = "data" /\ entry' = 1 /\ block' = 1 /\ loop' = 0
  BY DEF ScanStart, SearchFrom
<1>2. /\ bbTbl = [l \in Logical |-> 0] /\ bmtTbl = [i \in Slots |-> Unused]
      /\ marked' = marked /\ marked \in SUBSET Blocks
  BY <1>1, Marks DEF BootInv, ScanInv, NoScan, vars
<1>3. ScanTypeOK'
  BY <1>1, SizeAssumption, Sizes DEF BootInv, ScanInv, ScanTypeOK
<1>4. (pc = "off" /\ ~ Loadable /\ ~ TornFound)'
  BY <1>1 DEF vars, Loadable, TornFound, TableFound, WithTable
<1>5. DataOK'
  <2>1. Good(marked) \in SUBSET Blocks /\ 0 \in Good(marked)
    BY <1>2, PoolOfGood, Zenon DEF Good
  <2>2. Below(Good(marked), 0) = 0
    BY <2>1, BelowNone, Ranges
  <2>3. Below(Good(marked), 1) = 1
    <3>1. Below(Good(marked), 0 + 1) = 0 + 1
      BY <2>1, <2>2, BelowNext
    <3> QED BY <3>1
  <2>4. 0 \in Ranked(Good(marked), 0)
    BY <2>1, <2>2 DEF Ranked
  <2>5. \A l \in Logical : l < 1 => l = 0 /\ bbTbl[l] = 0
    BY <1>2, Sizes
  <2>6. SearchOK(marked, 1, 1, 0)
    BY SearchBegins
  <2> QED BY <1>1, <1>2, <2>3, <2>4, <2>5, <2>6, Sizes, Zenon DEF DataOK
<1> QED BY <1>1, <1>2, <1>3, <1>4, <1>5 DEF ScanInv, ScanAsCoded

LEMMA StepsOver == ASSUME BootInv, StepOver PROVE ScanInv'
<1>1. /\ UNCHANGED <<vars, at, entry, bbTbl, bmtTbl>> /\ at \in {"data", "pool"}
      /\ block' = block + 1 /\ loop' = loop + 1 /\ ~ Found /\ ~ NotFound
  BY DEF StepOver
<1>2. block < Total /\ block \in marked /\ loop < BbMax
  BY <1>1, Marks, SizeAssumption DEF Found, NotFound
<1>3. marked' = marked /\ marked \in SUBSET Blocks /\ block \in Nat /\ loop \in Nat
  BY <1>1, Marks DEF vars
<1>4. ScanTypeOK'
  BY <1>1, <1>2, <1>3, SizeAssumption DEF BootInv, ScanInv, ScanTypeOK
<1>5. (pc = "off" /\ ~ Loadable /\ ~ TornFound)'
  BY <1>1, StillNoTable DEF BootInv
<1>6. CASE at = "data"
  <2>1. DataOK /\ bmtTbl = [j \in Slots |-> Unused]
    BY <1>6 DEF BootInv, ScanInv
  <2>2. SearchOK(marked, 1, block + 1, loop + 1)
    BY <1>2, <1>3, <2>1, SearchSteps, Zenon DEF DataOK
  <2>3. block \notin Good(marked)
    <3>1. 1 <= block - loop
      BY <2>1 DEF DataOK, SearchOK
    <3> QED BY <1>2, <1>3, <3>1 DEF Good
  <2>4. Below(Good(marked), block + 1) = entry
    BY <1>3, <2>1, <2>3, PoolOfGood, BelowNext DEF DataOK
  <2>5. DataOK'
    BY <1>1, <1>3, <2>1, <2>2, <2>4 DEF DataOK
  <2> QED BY <1>1, <1>4, <1>5, <1>6, <2>1, <2>5, Zenon DEF ScanInv, ScanAsCoded
<1>7. CASE at = "pool"
  <2>1. DataDone /\ PoolOK /\ PoolPba(marked) \in Nat
    BY <1>7, Marks, Zenon DEF BootInv, ScanInv
  <2>2. SearchOK(marked, PoolPba(marked), block + 1, loop + 1)
    BY <1>2, <1>3, <2>1, SearchSteps, Zenon DEF PoolOK
  <2>3. block \notin Pool(marked)
    <3>1. PoolPba(marked) > 0
      <4>1. bbTbl = ScanMap(marked)
        BY <1>7, Marks
      <4>2. bbTbl[PoolLba - 1] \in Nat
        BY Sizes, Ranges, Zenon DEF BootInv, ScanInv, ScanTypeOK
      <4> QED BY <4>1, <4>2 DEF PoolPba
    <3>2. PoolPba(marked) <= block - loop
      BY <2>1 DEF PoolOK, SearchOK
    <3>3. block # 0
      BY <1>3, <2>1, <3>1, <3>2
    <3> QED BY <1>2, <3>3 DEF Pool, Good
  <2>4. Below(Pool(marked), block + 1) = entry
    BY <1>3, <2>1, <2>3, PoolOfGood, BelowNext DEF PoolOK
  <2>5. PoolOK'
    BY <1>1, <1>3, <2>1, <2>2, <2>4 DEF PoolOK
  <2>6. DataDone'
    BY <1>1, <1>3, <2>1, Zenon DEF DataDone
  <2> QED BY <1>1, <1>4, <1>5, <1>7, <2>5, <2>6 DEF ScanInv, ScanAsCoded
<1> QED BY <1>1, <1>6, <1>7

LEMMA DataMissing == ASSUME BootInv, DataBlockMissing PROVE ScanInv'
<1>1. /\ UNCHANGED <<vars, entry, block, loop, bbTbl, bmtTbl>>
      /\ at = "data" /\ NotFound /\ at' = "failed"
  BY DEF DataBlockMissing, search
<1>2. DataOK /\ marked \in SUBSET Blocks /\ marked' = marked
  BY <1>1, Marks, Zenon DEF BootInv, ScanInv, vars
<1>3. ~ ScanOK(marked)
  <2>1. entry \in Logical /\ block \in 0 .. Total /\ loop \in Nat
    BY <1>2 DEF DataOK, BootInv, ScanInv, ScanTypeOK
  <2>2. Below(Good(marked), block) = entry /\ SearchOK(marked, 1, block, loop)
    BY <1>2 DEF DataOK
  <2>3. block >= Total \/ (block \in marked /\ loop >= BbMax)
    BY <1>1 DEF NotFound
  <2> QED BY <1>2, <2>1, <2>2, <2>3, MissingFails
<1>4. ScanTypeOK'
  BY <1>1 DEF BootInv, ScanInv, ScanTypeOK
<1>5. (pc = "off" /\ ~ Loadable /\ ~ TornFound)'
  BY <1>1, StillNoTable DEF BootInv
<1> QED BY <1>1, <1>2, <1>3, <1>4, <1>5 DEF ScanInv, ScanAsCoded

LEMMA DataFound == ASSUME BootInv, DataBlockFound PROVE ScanInv'
<1>1. /\ UNCHANGED <<vars, bmtTbl>> /\ at = "data" /\ Found
      /\ bbTbl' = [bbTbl EXCEPT ![entry] = block] /\ block' = block + 1 /\ loop' = 0
      /\ entry + 1 < PoolLba => entry' = entry + 1 /\ at' = "data"
      /\ ~ (entry + 1 < PoolLba) =>
           entry' = 0 /\ at' = IF block + 1 >= Total - 2 THEN "failed" ELSE "pool"
  BY DEF DataBlockFound, SearchFrom
<1>2. /\ DataOK /\ bmtTbl = [j \in Slots |-> Unused] /\ ScanTypeOK
      /\ marked \in SUBSET Blocks /\ marked' = marked
      /\ block \in Nat /\ loop \in Nat /\ entry \in Nat
  BY <1>1, Marks DEF BootInv, ScanInv, vars
<1>3. block \in Blocks /\ block \notin marked
  BY <1>1, <1>2, SizeAssumption DEF Found, Blocks
<1>4. block \in Good(marked) /\ Good(marked) \in SUBSET Blocks
  BY <1>2, <1>3, PoolOfGood, Zenon DEF Good
<1>5. block \in Ranked(Good(marked), entry) /\ entry \in Logical
  BY <1>2, <1>4, Zenon DEF Ranked, DataOK
<1>6. \A l \in Logical : bbTbl'[l] = IF l = entry THEN block ELSE bbTbl[l]
  BY <1>1, <1>2, <1>5, Zenon DEF ScanTypeOK
<1>7. \A l \in Logical : l < entry + 1 => bbTbl'[l] \in Ranked(Good(marked), l)
  <2>1. \A l \in Logical : l \in Nat /\ (l < entry + 1 => l < entry \/ l = entry)
    BY <1>2, Sizes
  <2> QED BY <1>2, <1>5, <1>6, <2>1, Zenon DEF DataOK
<1>8. Crossable(marked, 1, block) /\ SearchOK(marked, 1, block + 1, 0)
  BY <1>2, <1>3, SearchEnds DEF DataOK
<1>9. bbTbl' \in [Logical -> Blocks] /\ block' \in 0 .. Total /\ loop' \in Nat
  <2>1. bbTbl' \in [Logical -> Blocks]
    BY <1>1, <1>2, <1>3 DEF ScanTypeOK
  <2>2. block' \in 0 .. Total /\ loop' \in Nat
    BY <1>1, <1>2, SizeAssumption DEF Found
  <2> QED BY <2>1, <2>2
<1>10. (pc = "off" /\ ~ Loadable /\ ~ TornFound)'
  BY <1>1, StillNoTable DEF BootInv
<1>11. CASE entry + 1 < PoolLba
  <2>1. entry + 1 \in Logical \ {0} /\ entry + 1 \in Slots
    BY <1>2, <1>11, SizeAssumption DEF Logical, Slots
  <2>2. ScanTypeOK'
    BY <1>1, <1>2, <1>9, <1>11, <2>1 DEF ScanTypeOK
  <2>3. Below(Good(marked), block + 1) = entry + 1
    BY <1>2, <1>4, BelowNext DEF DataOK
  <2>4. DataOK'
    BY <1>1, <1>2, <1>7, <1>8, <1>11, <2>1, <2>3 DEF DataOK
  <2> QED BY <1>1, <1>2, <1>10, <1>11, <2>2, <2>4 DEF ScanInv, ScanAsCoded
<1>12. CASE ~ (entry + 1 < PoolLba)
  <2>1. entry = PoolLba - 1 /\ \A l \in Logical : l < entry + 1
    BY <1>2, <1>5, <1>12, SizeAssumption DEF Logical
  <2>2. \A l \in Logical : bbTbl'[l] \in Ranked(Good(marked), l)
    BY <1>7, <2>1
  <2>3. bbTbl'[PoolLba - 1] = block
    BY <1>5, <1>6, <2>1
  <2>4. PoolPba(marked) = block + 1
    BY <1>2, <1>9, <2>2, <2>3, CountedIsScanned
  <2>5. ScanTypeOK'
    BY <1>1, <1>2, <1>9, <1>12, Sizes DEF ScanTypeOK
  <2>6. CASE block + 1 >= Total - 2
    <3>1. ~ ScanOK(marked)
      BY <1>2, <2>4, <2>6, SizeAssumption DEF ScanOK
    <3> QED BY <1>1, <1>2, <1>10, <1>12, <2>5, <2>6, <3>1 DEF ScanInv, ScanAsCoded
  <2>7. CASE ~ (block + 1 >= Total - 2)
    <3>1. PoolPba(marked) < Total - 2 /\ PoolPba(marked) - 1 = block
      BY <1>2, <2>4, <2>7, SizeAssumption
    <3>2. DataDone'
      BY <1>2, <1>8, <2>2, <3>1 DEF DataDone
    <3>3. Below(Pool(marked), block + 1) = 0
      <4>1. Pool(marked) \in SUBSET Blocks /\ \A x \in Pool(marked) : block + 1 <= x
        BY <1>2, <2>4, PoolOfGood, SizeAssumption DEF Pool, Blocks
      <4> QED BY <1>2, <4>1, BelowNone
    <3>4. SearchOK(marked, PoolPba(marked), block + 1, 0)
      BY <1>2, <2>4, SearchBegins
    <3>5. \A j \in Slots : ~ (j < 0) /\ bmtTbl'[j] = Unused
      BY <1>1, <1>2, Ranges
    <3>6. PoolOK'
      BY <1>1, <1>2, <1>12, <3>3, <3>4, <3>5 DEF PoolOK
    <3> QED BY <1>1, <1>10, <1>12, <2>5, <2>7, <3>2, <3>6 DEF ScanInv, ScanAsCoded
  <2> QED BY <2>6, <2>7
<1> QED BY <1>11, <1>12

LEMMA PoolFound == ASSUME BootInv, PoolBlockFound PROVE ScanInv'
<1>1. /\ UNCHANGED <<vars, at, bbTbl>> /\ at = "pool" /\ Found
      /\ bmtTbl' = [bmtTbl EXCEPT ![entry] = [block |-> block, mapped |-> "no"]]
      /\ entry' = entry + 1 /\ block' = block + 1 /\ loop' = 0
  BY Zenon DEF PoolBlockFound, SearchFrom
<1>2. /\ DataDone /\ PoolOK /\ ScanTypeOK
      /\ marked \in SUBSET Blocks /\ marked' = marked /\ PoolPba(marked) \in Nat
      /\ block \in Nat /\ loop \in Nat /\ entry \in Nat /\ Total \in Nat
  BY <1>1, Marks, SizeAssumption, Zenon DEF BootInv, ScanInv, vars
<1>3. block \in Blocks /\ block \notin marked
  BY <1>1, <1>2, SizeAssumption DEF Found, Blocks
<1>4. /\ PoolPba(marked) <= block /\ Crossable(marked, PoolPba(marked), block)
      /\ SearchOK(marked, PoolPba(marked), block + 1, 0)
  BY <1>2, <1>3, SearchEnds, Zenon DEF PoolOK
<1>5. block \in Pool(marked) /\ Pool(marked) \in SUBSET Blocks
  BY <1>2, <1>3, <1>4, PoolOfGood, Zenon DEF Pool, Good
<1>6. Below(Pool(marked), block) = entry
  BY <1>2 DEF PoolOK
<1>7. block \in Ranked(Pool(marked), entry)
  BY <1>5, <1>6, Zenon DEF Ranked
<1>8. Below(Pool(marked), block + 1) = entry + 1
  BY <1>2, <1>5, <1>6, BelowNext, Zenon
<1>9. entry + 1 \in Slots /\ entry \in Slots
  <2>1. entry + 1 <= block + 1
    BY <1>2, <1>5, <1>8, BelowBound
  <2>2. block < Total
    BY <1>1, Zenon DEF Found
  <2> QED BY <1>2, <2>1, <2>2 DEF Slots
<1>10. \A j \in Slots : /\ j = entry => bmtTbl'[j] = [block |-> block, mapped |-> "no"]
                        /\ j # entry => bmtTbl'[j] = bmtTbl[j]
  BY <1>1, <1>2, Zenon DEF ScanTypeOK
<1>11. ASSUME NEW j \in Slots
       PROVE  IF j < entry + 1
              THEN bmtTbl'[j].block \in Ranked(Pool(marked), j) /\ bmtTbl'[j].mapped = "no"
              ELSE bmtTbl'[j] = Unused
  <2>1. j \in Nat
    BY Ranges, Zenon
  <2>2. CASE j = entry
    BY <1>2, <1>7, <1>10, <2>2
  <2>3. CASE j < entry
    BY <1>2, <1>10, <2>1, <2>3 DEF PoolOK
  <2>4. CASE j > entry
    <3>1. ~ (j < entry + 1) /\ ~ (j < entry) /\ j # entry
      BY <1>2, <2>1, <2>4
    <3> QED BY <1>2, <1>10, <3>1 DEF PoolOK
  <2> QED BY <1>2, <2>1, <2>2, <2>3, <2>4
<1>12. PoolOK'
  BY <1>1, <1>2, <1>4, <1>8, <1>11 DEF PoolOK
<1>13. DataDone'
  BY <1>1, <1>2 DEF DataDone
<1>14. ScanTypeOK'
  <2>1. bmtTbl' \in [Slots -> [block : Blocks, mapped : Mapped]]
    BY <1>1, <1>2, <1>3 DEF ScanTypeOK, Mapped
  <2>2. block' \in 0 .. Total /\ loop' \in Nat
    BY <1>1, <1>2 DEF Found
  <2> QED BY <1>1, <1>2, <1>9, <2>1, <2>2 DEF ScanTypeOK
<1>15. (pc = "off" /\ ~ Loadable /\ ~ TornFound)'
  BY <1>1, StillNoTable DEF BootInv
<1> QED BY <1>1, <1>12, <1>13, <1>14, <1>15 DEF ScanInv, ScanAsCoded

LEMMA PoolDone == ASSUME BootInv, PoolEnds PROVE ScanInv'
<1>1. /\ UNCHANGED <<vars, entry, block, loop, bbTbl>> /\ at = "pool" /\ NotFound
      /\ entry < 1 => at' = "failed" /\ bmtTbl' = bmtTbl
      /\ ~ (entry < 1) => /\ at' = "built"
                          /\ bmtTbl' = [bmtTbl EXCEPT ![entry - 1].mapped = "bmt"]
  BY DEF PoolEnds, search
<1>2. /\ DataDone /\ PoolOK /\ ScanTypeOK
      /\ marked \in SUBSET Blocks /\ marked' = marked
      /\ PoolPba(marked) \in Nat /\ bbTbl = ScanMap(marked)
      /\ block \in Nat /\ loop \in Nat /\ entry \in Nat
  BY <1>1, Marks, Zenon DEF BootInv, ScanInv, vars
<1>3. \A x \in Pool(marked) : x < block
  <2>1. block \in 0 .. Total /\ SearchOK(marked, PoolPba(marked), block, loop)
    BY <1>2 DEF ScanTypeOK, PoolOK
  <2>2. block >= Total \/ (block \in marked /\ loop >= BbMax)
    BY <1>1, Zenon DEF NotFound
  <2> QED BY <1>2, <2>1, <2>2, PoolBehind, Zenon
<1>4. /\ entry = 0 => Pool(marked) = {}
      /\ entry > 0 => LastSlot(Pool(marked), entry - 1) /\ ScanIdx(marked) = entry - 1
  <2>1. Below(Pool(marked), block) = entry /\ entry \in Slots
    BY <1>2, Zenon DEF PoolOK, ScanTypeOK
  <2>2. \A j \in Slots : j < entry => Ranked(Pool(marked), j) # {}
    BY <1>2 DEF PoolOK
  <2> QED BY <1>2, <1>3, <2>1, <2>2, PoolCounted, Zenon
<1>5. (pc = "off" /\ ~ Loadable /\ ~ TornFound)'
  BY <1>1, StillNoTable DEF BootInv
<1>6. CASE entry < 1
  <2>1. ~ ScanOK(marked)
    BY <1>2, <1>4, <1>6, ScanOKSays
  <2>2. ScanTypeOK'
    BY <1>1, <1>2, <1>6, Zenon DEF ScanTypeOK
  <2> QED BY <1>1, <1>2, <1>5, <1>6, <2>1, <2>2 DEF ScanInv, ScanAsCoded
<1>7. CASE ~ (entry < 1)
  <2>1. entry > 0 /\ entry \in Slots
    BY <1>2, <1>7 DEF ScanTypeOK
  <2>2. bmtTbl' = ScanSlots(marked)
    <3>1. bmtTbl \in [Slots -> [block : Blocks, mapped : Mapped]]
      BY <1>2 DEF ScanTypeOK
    <3>2. \A j \in Slots :
            IF j < entry
            THEN bmtTbl[j].block \in Ranked(Pool(marked), j) /\ bmtTbl[j].mapped = "no"
            ELSE bmtTbl[j] = Unused
      BY <1>2 DEF PoolOK
    <3> QED BY <1>1, <1>2, <1>4, <1>7, <2>1, <3>1, <3>2, CountedSlots, Zenon
  <2>3. ScanOK(marked)
    <3>1. \A l \in Logical : Ranked(Good(marked), l) # {}
      BY <1>2 DEF DataDone
    <3>2. entry - 1 \in Slots
      BY <1>2, <2>1, SizeAssumption DEF Slots
    <3>3. \E i \in Slots : LastSlot(Pool(marked), i)
      BY <1>4, <2>1, <3>2
    <3> QED BY <1>2, <3>1, <3>3 DEF ScanOK, DataDone
  <2>4. ScanTypeOK'
    <3>1. bmtTbl' \in [Slots -> [block : Blocks, mapped : Mapped]]
      BY <1>2, <2>2, <2>3, ScanSlotsOK, Zenon
    <3> QED BY <1>1, <1>2, <1>7, <3>1, Zenon DEF ScanTypeOK
  <2> QED BY <1>1, <1>2, <1>4, <1>5, <1>7, <2>1, <2>2, <2>3, <2>4 DEF ScanInv, ScanAsCoded
<1> QED BY <1>6, <1>7

-----------------------------------------------------------------------------
(* A step of the driver that does not scan.  During a scan blocks may only *)
(* wear out: the driver has nothing else to do, and nobody can ask it.     *)
LEMMA OtherSteps ==
  ASSUME BootInv, LoadTable \/ LoadTorn \/ Work \/ Use, UNCHANGED scan
  PROVE  ScanInv'
<1>1. marked' = marked
  BY MarksStay DEF Next, Boot
<1>2. ASSUME at # "none" PROVE UNCHANGED <<pc, stored>>
  <2>1. pc = "off" /\ ~ Loadable /\ ~ TornFound
    BY <1>2 DEF BootInv, ScanInv
  <2>2. ~ LoadTable /\ ~ LoadTorn /\ ~ Work
    BY <2>1, Zenon DEF LoadTable, LoadTorn, Work, UploadNoSpace, EraseTable, WriteTable,
       AccessDone, AccessUndefined, AccessRefused, AccessRemaps
  <2>3. \E b \in Wearable \ worn : Wear(b)
    BY <2>1, <2>2, Zenon DEF Use, Submit, Unmap, FreeUnused, DebugUndefined, PowerCut
  <2> QED BY <2>3 DEF Wear
<1> QED BY <1>1, <1>2, KeepsScan DEF BootInv

(* Every step of the driver that scans in loops is a step, or none, of the *)
(* one that scans in a step.                                               *)
LEMMA LoopStep == ASSUME BootInv, [BootNext]_bootVars PROVE [Next]_vars
<1>1. CASE UNCHANGED bootVars \/ ScanCut
  BY <1>1 DEF bootVars, ScanCut
<1>2. CASE \/ ScanStart \/ StepOver \/ DataBlockFound \/ DataBlockMissing
           \/ PoolBlockFound \/ PoolEnds
  BY <1>2, Zenon DEF ScanStart, StepOver, DataBlockFound, DataBlockMissing, PoolBlockFound, PoolEnds
<1>3. CASE ScanSucceeds
  <2>1. at = "built" /\ pc = "off" /\ ~ Loadable /\ ~ TornFound /\ ScanAsCoded
    BY <1>3, Zenon DEF ScanSucceeds, BootInv, ScanInv
  <2>2. Rebuild
    BY <1>3, <2>1 DEF ScanSucceeds, ScanAsCoded, Rebuild
  <2> QED BY <2>2 DEF Next, Boot
<1>4. CASE ScanFails
  <2>1. at = "failed" /\ pc = "off" /\ ~ Loadable /\ ~ TornFound /\ ScanAsCoded
    BY <1>4 DEF ScanFails, BootInv, ScanInv
  <2>2. RebuildFails
    BY <1>4, <2>1 DEF ScanFails, ScanAsCoded, RebuildFails
  <2> QED BY <2>2 DEF Next, Boot
<1>5. CASE LoadTable \/ LoadTorn \/ Work \/ Use
  BY <1>5 DEF Next, Boot
<1> QED BY <1>1, <1>2, <1>3, <1>4, <1>5, Zenon DEF BootNext, Scan

LEMMA BootStep == ASSUME BootInv, [BootNext]_bootVars PROVE BootInv'
<1>1. TypeInv'
  BY LoopStep, TypeStep DEF BootInv
<1>2. CASE UNCHANGED bootVars
  <2>1. UNCHANGED <<scan, marked, pc, stored>>
    BY <1>2 DEF bootVars, vars
  <2>2. ScanInv'
    BY <2>1, KeepsScan DEF BootInv
  <2> QED BY <1>1, <2>2, Zenon DEF BootInv
<1>3. CASE Scan
  <2>1. ScanSucceeds \/ ScanFails => ScanInv'
    BY EndsScan DEF ScanSucceeds, ScanFails
  <2>2. ScanInv'
    BY <1>3, <2>1, ScanStarts, StepsOver, DataFound, DataMissing, PoolFound, PoolDone DEF Scan
  <2> QED BY <1>1, <2>2 DEF BootInv
<1>4. CASE ScanCut
  BY <1>1, <1>4, EndsScan DEF ScanCut, BootInv
<1>5. CASE (LoadTable \/ LoadTorn \/ Work \/ Use) /\ UNCHANGED scan
  BY <1>1, <1>5, OtherSteps DEF BootInv
<1> QED BY <1>2, <1>3, <1>4, <1>5, Zenon DEF BootNext

LEMMA BootStarts == BootInit => BootInv
<1> SUFFICES ASSUME BootInit PROVE BootInv
  OBVIOUS
<1>1. TypeInv /\ NoScan
  BY TypeInit, Zenon DEF BootInit
<1>2. ScanTypeOK
  BY <1>1, Sizes, Ranges DEF NoScan, ScanTypeOK, Unused, Mapped
<1> QED BY <1>1, <1>2 DEF BootInv, ScanInv, NoScan, ScanAsCoded

LEMMA AlwaysBoots == BootSpec => []BootInv
BY BootStarts, BootStep, PTL DEF BootSpec

(* Each entry of bb_tbl is the good block of its number, the slots are the *)
(* good blocks behind them as far as find_valid_block gets, and            *)
(* scan_bad_blocks fails where there are too few of them, or too many bad  *)
(* ones in a row.                                                          *)
THEOREM BmtScanAsCoded == BootSpec => []ScanAsCoded
<1>1. BootInv => ScanAsCoded
  BY DEF BootInv, ScanInv
<1> QED BY <1>1, AlwaysBoots, PTL

(* The driver that scans block by block, and may lose power at any block,  *)
(* implements the driver that scans in a step.                             *)
THEOREM BmtLoopsImplementScan == BootSpec => LoopsImplementScan
<1>1. BootInit => Init
  BY DEF BootInit
<1>2. BootInv /\ [BootNext]_bootVars => [Next]_vars
  BY LoopStep
<1> QED BY <1>1, <1>2, AlwaysBoots, PTL DEF BootSpec, Spec, LoopsImplementScan

(* A step of a scan reads one more block of the flash, or is its last.     *)
ScanAdvances ==
  at \in {"data", "pool"} =>
    \/ block' = block + 1 /\ block' <= Total
    \/ at' \in {"none", "built", "failed"}
    \/ UNCHANGED scan

(* A scan ends: find_valid_block never looks at a block twice, nor beyond  *)
(* the end of the flash, and a step that looks at none ends the scan.      *)
THEOREM BmtScanEnds == BootSpec => [][ScanAdvances]_bootVars
<1>1. BootInv /\ [BootNext]_bootVars => [ScanAdvances]_bootVars
  <2> SUFFICES ASSUME BootInv, BootNext, at \in {"data", "pool"}
               PROVE  ScanAdvances
    BY DEF ScanAdvances
  <2>1. CASE StepOver \/ DataBlockFound \/ PoolBlockFound
    <3>1. block' = block + 1
      BY <2>1 DEF StepOver, DataBlockFound, PoolBlockFound, SearchFrom
    <3>2. BootInv'
      BY BootStep, Zenon
    <3>3. block' <= Total
      BY <3>2, SizeAssumption DEF BootInv, ScanInv, ScanTypeOK
    <3> QED BY <3>1, <3>3, Zenon DEF ScanAdvances
  <2>2. CASE DataBlockMissing \/ PoolEnds \/ ScanSucceeds \/ ScanFails \/ ScanCut
    BY <2>2 DEF DataBlockMissing, PoolEnds, ScanSucceeds, ScanFails, ScanCut, EndScan, ScanAdvances
  <2>3. CASE UNCHANGED scan
    BY <2>3 DEF ScanAdvances
  <2>4. ~ ScanStart
    BY DEF ScanStart
  <2> QED BY <2>1, <2>2, <2>3, <2>4, Zenon DEF BootNext, Scan
<1> QED BY <1>1, AlwaysBoots, PTL DEF BootSpec
=============================================================================
