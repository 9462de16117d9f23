---------------------------- MODULE IgcTxProofs -----------------------------
(***************************************************************************)
(* Proofs about IgcTx, for every size of the ring, every number of         *)
(* fragments, every set of frames and every budget of the poll.            *)
(***************************************************************************)
EXTENDS IgcTx, TLAPS

(* How far two descriptors are apart is less than the size of the ring,    *)
(* and tells them apart.                                                   *)
LEMMA DistType ==
  ASSUME NEW a \in Slots, NEW b \in Slots
  PROVE  /\ Dist(a, b) \in Slots /\ Dist(a, b) \in Nat /\ Dist(a, b) < Count
         /\ Dist(a, a) = 0
         /\ \A c \in Slots : Dist(a, b) = Dist(a, c) => b = c
BY RingAssumption DEF Dist, Slots

(* A step forward that does not pass the origin adds up. *)
LEMMA StepDist ==
  ASSUME NEW a \in Slots, NEW b \in Slots, NEW n \in Nat, Dist(a, b) + n < Count
  PROVE  Step(b, n) \in Slots /\ Dist(a, Step(b, n)) = Dist(a, b) + n
BY RingAssumption DEF Dist, Step, Slots

(* A step forward stays on the ring. *)
LEMMA StepType ==
  ASSUME NEW b \in Slots, NEW n \in 0 .. Count
  PROVE  Step(b, n) \in Slots
BY RingAssumption DEF Step, Slots

(* Places counted from a later origin. *)
LEMMA Rebase ==
  ASSUME NEW a \in Slots, NEW b \in Slots, NEW c \in Slots, Dist(a, b) <= Dist(a, c)
  PROVE  Dist(b, c) = Dist(a, c) - Dist(a, b)
BY RingAssumption DEF Dist, Slots

(* igc_desc_unused counts what is not between next_to_clean and            *)
(* next_to_use, but one.                                                   *)
LEMMA UnusedAt ==
  ASSUME TypeOK
  PROVE  DescUnused = Count - 1 - At(ntu)
BY RingAssumption DEF TypeOK, DescUnused, At, Dist, Slots

(* A frame has at least one descriptor and at most DESC_NEEDED - 2. *)
LEMMA FrameSize ==
  ASSUME NEW p \in AllFrames
  PROVE  /\ p.data \in Nat /\ p.data >= 1
         /\ Used(p) \in Nat /\ Used(p) >= 1 /\ Used(p) <= p.data + 1
BY RingAssumption DEF AllFrames, Used

-----------------------------------------------------------------------------
(* The first state. *)
LEMMA InvInit ==
  ASSUME Init
  PROVE  IInv
<1>1. 0 \in Slots /\ NoFrame \in AllFrames /\ Count \in Nat /\ Count > 8
  BY RingAssumption DEF Slots, AllFrames, NoFrame, WakeThreshold, DescNeeded
<1>2. TypeOK
  <2>1. watch \in [Slots -> Slots \cup {None}]
    BY DEF Init
  <2>2. {stopped, cleaned, link, carrier, reset, missed} \subseteq BOOLEAN
    BY Zenon DEF Init
  <2>3. left \in 0 .. Budget
    BY RingAssumption DEF Init
  <2>. QED
    BY <1>1, <2>1, <2>2, <2>3 DEF Init, TypeOK
<1>3. Dist(0, 0) = 0
  BY <1>1, DistType
<1>4. OrderOK
  BY <1>1, <1>3 DEF Init, OrderOK, At, Scan
<1>5. Starts = {}
  BY DEF Init, Starts
<1>6. ChainOK /\ StatusOK
  BY <1>5 DEF Init, ChainOK, StatusOK, Scan
<1>. QED
  BY <1>2, <1>4, <1>6 DEF IInv

-----------------------------------------------------------------------------
(* Places are numbers. *)
LEMMA AtType ==
  ASSUME TypeOK, NEW i \in Slots
  PROVE  /\ At(i) \in Nat /\ At(i) < Count /\ At(ntc) = 0
         /\ \A j \in Slots : At(i) = At(j) => i = j
BY DistType DEF At, TypeOK

(* Where a frame starts there is its last descriptor. *)
LEMMA StartsType ==
  ASSUME TypeOK, NEW s \in Starts
  PROVE  s \in Slots /\ watch[s] \in Slots
BY DEF TypeOK, Starts

(* Behind the tail the hardware finds a whole frame. *)
LEMMA HeadFrame ==
  ASSUME IInv, HwSend
  PROVE  /\ ChainOK /\ StatusOK
         /\ head \in Starts
         /\ At(watch[head]) < At(tail)
<1>1. TypeOK /\ OrderOK /\ head # tail
  BY DEF IInv, HwSend
<1>2. ChainOK /\ StatusOK
  BY <1>1 DEF IInv, Halted
<1>3. ntu \in Slots /\ head \in Slots /\ tail \in Slots
  BY <1>1 DEF TypeOK
<1>4. At(head) \in Nat /\ At(tail) \in Nat /\ At(ntu) \in Nat /\ At(head) # At(tail)
  BY <1>1, <1>3, AtType
<1>5. At(head) < At(tail) /\ At(tail) <= At(ntu)
  BY <1>1, <1>4 DEF OrderOK
<1>6. head \in Starts
  BY <1>2, <1>4, <1>5 DEF ChainOK
<1>7. CASE tail = ntu
  BY <1>2, <1>6, <1>7 DEF ChainOK
<1>8. CASE tail \in Starts
  BY <1>2, <1>5, <1>6, <1>8 DEF ChainOK
<1>. QED
  BY <1>2, <1>6, <1>7, <1>8 DEF ChainOK

(* A frame that the poll finds sent is one the hardware has gone past.     *)
LEMMA SentFrame ==
  ASSUME IInv, cpc = "scan", Sent
  PROVE  /\ ChainOK /\ StatusOK
         /\ cur \in Starts
         /\ At(watch[cur]) < At(head)
<1>1. TypeOK /\ OrderOK /\ ChainOK /\ StatusOK
  BY DEF IInv, Halted
<1>2. cur \in Starts /\ watch[cur] \in dd /\ Scan = cur
  BY <1>1 DEF Sent, Starts, TypeOK, Scan
<1>3. ntu \in Slots /\ head \in Slots /\ cur \in Slots
  BY <1>1 DEF TypeOK
<1>4. At(head) \in Nat /\ At(cur) \in Nat /\ At(ntu) \in Nat
  BY <1>1, <1>3, AtType
<1>5. At(cur) < At(head)
  BY <1>1, <1>2, <1>4 DEF StatusOK
<1>6. CASE head = ntu
  BY <1>1, <1>2, <1>6 DEF ChainOK
<1>7. CASE head \in Starts
  BY <1>1, <1>2, <1>5, <1>7 DEF ChainOK
<1>. QED
  BY <1>1, <1>2, <1>6, <1>7 DEF ChainOK

-----------------------------------------------------------------------------
(* Every step keeps the types, as long as the frames lie as they should.   *)
LEMMA TypeStep ==
  ASSUME IInv, [Next]_vars
  PROVE  TypeOK'
<1>. USE DEF TypeOK
<1>a. TypeOK /\ NoFrame \in AllFrames /\ 0 \in Slots /\ 0 \in 0 .. Budget
  BY RingAssumption DEF IInv, NoFrame, AllFrames, Slots, WakeThreshold, DescNeeded
<1>1. ASSUME NEW p \in Frames, XmitFrame(p) PROVE TypeOK'
  BY <1>a, <1>1, RingAssumption
     DEF XmitFrame, MaybeStop, ring, hardware, poll, supervision
<1>2. CASE StopTx
  <2>1. stopped' \in BOOLEAN
    BY <1>2, Zenon DEF StopTx
  <2>. QED
    BY <1>a, <1>2, <2>1 DEF StopTx, ring, hardware, poll, supervision
<1>3. CASE Recheck
  <2>1. stopped' \in BOOLEAN /\ missed' \in BOOLEAN
    BY <1>a, <1>3, Zenon DEF Recheck
  <2>2. pkt' \in AllFrames /\ back' \in {"map", "doorbell"}
        /\ xpc' \in {"idle", "map", "doorbell"}
    BY <1>a, <1>3 DEF Recheck
  <2>. QED
    BY <1>a, <1>3, <2>1, <2>2 DEF Recheck, ring, hardware, poll, supervision
<1>4. CASE TxMap
  <2>1. At(ntu) + Used(pkt) < Count /\ Used(pkt) \in Nat /\ Used(pkt) >= 1
        /\ At(ntu) \in Nat /\ Count \in Nat
    BY <1>a, <1>4, FrameSize, DistType, RingAssumption DEF TxMap, IInv, OrderOK, At
  <2>2. Step(ntu, Used(pkt)) \in Slots
    BY <1>a, <2>1, StepDist DEF At
  <2>3. Step(ntu, Used(pkt) - 1) \in Slots
    BY <1>a, <2>1, StepDist DEF At
  <2>4. watch' \in [Slots -> Slots \cup {None}] /\ dd' \subseteq Slots
    BY <1>a, <1>4, <2>3 DEF TxMap
  <2>. QED
    BY <1>a, <1>4, <2>2, <2>4 DEF TxMap, hardware, poll, supervision
<1>5. CASE Room
  BY <1>a, <1>5 DEF Room, MaybeStop, ring, hardware, poll, supervision
<1>6. ASSUME NEW k \in 0 .. (MaxFrags + 1), TxDropped(k) PROVE TypeOK'
  <2>1. dd' \subseteq Slots
    BY <1>a, <1>6 DEF TxDropped
  <2>. QED
    BY <1>a, <1>6, <2>1 DEF TxDropped, hardware, poll, supervision
<1>7. ASSUME NEW more \in BOOLEAN, Doorbell(more) PROVE TypeOK'
  BY <1>a, <1>7 DEF Doorbell, ring, poll, supervision
<1>8. CASE HwSend
  <2>1. head \in Starts
    BY <1>8, HeadFrame
  <2>2. watch[head] \in Slots
    BY <1>a, <2>1, StartsType
  <2>3. Step(watch[head], 1) \in Slots
    BY <2>2, StepType, RingAssumption DEF WakeThreshold, DescNeeded
  <2>4. \A k \in 0 .. Dist(head, watch[head]) : Step(head, k) \in Slots
    <3>1. Dist(head, watch[head]) \in Nat /\ Dist(head, watch[head]) < Count
      BY <1>a, <2>2, DistType
    <3>. QED
      BY <1>a, <3>1, StepType, RingAssumption
  <2>5. dd' \subseteq Slots
    BY <1>a, <1>8, <2>4 DEF HwSend
  <2>. QED
    BY <1>a, <1>8, <2>3, <2>5 DEF HwSend, xmit, poll, supervision
<1>9. CASE LinkChange
  <2>1. link' \in BOOLEAN
    BY <1>9, Zenon DEF LinkChange
  <2>. QED
    BY <1>a, <1>9, <2>1 DEF LinkChange, ring, hardware, xmit, poll
<1>10. CASE Watchdog
  <2>1. carrier' \in BOOLEAN /\ reset' \in BOOLEAN
    BY <1>a, <1>10, Zenon DEF Watchdog
  <2>. QED
    BY <1>a, <1>10, <2>1 DEF Watchdog, ring, hardware, xmit, poll
<1>11. CASE Reset
  <2>1. {stopped, reset, carrier, missed}' \subseteq BOOLEAN
    BY <1>11, Zenon DEF Reset, Down, Up
  <2>2. watch' \in [Slots -> Slots \cup {None}]
    BY <1>a, <1>11 DEF Reset, Down, CleanTxRing
  <2>. QED
    BY <1>a, <1>11, <2>1, <2>2
       DEF Reset, Down, Up, ConfigureTxRing, CleanTxRing, xmit, poll
<1>12. CASE Poll
  <2>1. cleaned' \in BOOLEAN
    BY <1>12, Zenon DEF Poll
  <2>2. left' \in 0 .. Budget
    BY <1>12, RingAssumption DEF Poll
  <2>. QED
    BY <1>a, <1>12, <2>1, <2>2 DEF Poll, ring, hardware, xmit, supervision
<1>13. CASE CleanFrame
  <2>1. cleaned' \in BOOLEAN
    BY <1>13, Zenon DEF CleanFrame
  <2>2. left' \in 0 .. Budget
    BY <1>a, <1>13, RingAssumption DEF CleanFrame
  <2>3. watch[cur] \in Slots
    BY <1>a, <1>13 DEF CleanFrame, Sent
  <2>4. cur' \in Slots
    BY <1>13, <2>3, StepType, RingAssumption DEF CleanFrame, WakeThreshold, DescNeeded
  <2>5. watch' \in [Slots -> Slots \cup {None}]
    BY <1>a, <1>13 DEF CleanFrame
  <2>. QED
    BY <1>a, <1>13, <2>1, <2>2, <2>4, <2>5 DEF CleanFrame, hardware, xmit, supervision
<1>14. CASE CleanDone
  BY <1>a, <1>14 DEF CleanDone, CleanEnd, hardware, xmit, supervision
<1>15. CASE CleanHang
  <2>1. {stopped, cleaned, missed}' \subseteq BOOLEAN
    BY <1>15, Zenon DEF CleanHang
  <2>. QED
    BY <1>a, <1>15, <2>1 DEF CleanHang, CleanEnd, hardware, xmit, supervision
<1>16. CASE CleanRoom
  <2>1. cleaned' \in BOOLEAN /\ missed' \in BOOLEAN
    BY <1>a, <1>16, Zenon DEF CleanRoom
  <2>. QED
    BY <1>a, <1>16, <2>1 DEF CleanRoom, ring, hardware, xmit, supervision
<1>17. CASE CleanWake
  <2>1. stopped' \in BOOLEAN /\ missed' \in BOOLEAN
    BY <1>a, <1>17, Zenon DEF CleanWake
  <2>. QED
    BY <1>a, <1>17, <2>1 DEF CleanWake, ring, hardware, xmit, supervision
<1>18. CASE UNCHANGED vars
  BY <1>a, <1>18 DEF vars
<1>. QED
  BY <1>1, <1>2, <1>3, <1>4, <1>5, <1>6, <1>7, <1>8, <1>9, <1>10, <1>11, <1>12,
     <1>13, <1>14, <1>15, <1>16, <1>17, <1>18 DEF Next

-----------------------------------------------------------------------------
(* A step that leaves the ring alone, or only clears a status, keeps the   *)
(* invariant if it does not promise the sender more room than there is.    *)
LEMMA RingKept ==
  ASSUME IInv, TypeOK',
         UNCHANGED <<ntu, ntc, watch, tail, head>>, dd' \subseteq dd,
         Scan' = Scan,
         xpc' = "map" => At(ntu) + pkt'.data + 4 <= Count,
         Halted => xpc' = "idle" /\ cpc' = "idle"
  PROVE  IInv'
<1>1. OrderOK'
  BY DEF IInv, OrderOK, At
<1>2. CASE Halted
  <2>1. Halted'
    BY <1>2 DEF Halted, WatchedIsPresent
  <2>. QED
    BY <1>1, <2>1 DEF IInv
<1>3. CASE ChainOK /\ StatusOK
  <2>1. Starts' = Starts
    BY DEF Starts
  <2>2. ChainOK'
    BY <1>3, <2>1 DEF ChainOK, At
  <2>3. StatusOK'
    BY <1>3, <2>1 DEF StatusOK, At
  <2>. QED
    BY <1>1, <2>2, <2>3 DEF IInv
<1>. QED
  BY <1>2, <1>3 DEF IInv

(* The sender finds room or not, drops the frame, writes the tail.         *)
LEMMA InvXmit ==
  ASSUME IInv, TypeOK',
         \/ \E p \in Frames : XmitFrame(p)
         \/ StopTx \/ Recheck \/ Room
         \/ \E k \in 0 .. (MaxFrags + 1) : TxDropped(k)
  PROVE  IInv'
<1>a. TypeOK /\ DescUnused = Count - 1 - At(ntu) /\ At(ntu) \in Nat /\ Count \in Nat
  BY UnusedAt, AtType, RingAssumption DEF IInv, TypeOK
<1>1. ASSUME NEW p \in Frames, XmitFrame(p) PROVE IInv'
  <2>1. ~ Halted
    BY <1>1 DEF XmitFrame, Halted
  <2>2. p.data \in Nat
    BY <1>1, FrameSize, RingAssumption
  <2>3. xpc' = "map" => DescUnused >= pkt'.data + 3
    BY <1>1 DEF XmitFrame, MaybeStop
  <2>4. xpc' = "map" => At(ntu) + pkt'.data + 4 <= Count
    BY <1>a, <1>1, <2>2, <2>3 DEF XmitFrame
  <2>. QED
    BY <1>1, <2>1, <2>4, RingKept DEF XmitFrame, ring, hardware, poll, Scan
<1>2. CASE StopTx
  BY <1>2, RingKept DEF StopTx, Halted, ring, hardware, poll, Scan
<1>3. CASE Recheck
  <2>1. pkt.data \in Nat
    BY <1>a, FrameSize DEF TypeOK
  <2>2. xpc' = "map" => DescUnused >= pkt.data + 3 /\ pkt' = pkt
    BY <1>a, <1>3, <2>1, RingAssumption DEF Recheck, Size
  <2>3. xpc' = "map" => At(ntu) + pkt'.data + 4 <= Count
    BY <1>a, <2>1, <2>2
  <2>. QED
    BY <1>3, <2>3, RingKept DEF Recheck, Halted, ring, hardware, poll, Scan
<1>4. CASE Room
  BY <1>4, RingKept DEF Room, MaybeStop, Halted, ring, hardware, poll, Scan
<1>5. ASSUME NEW k \in 0 .. (MaxFrags + 1), TxDropped(k) PROVE IInv'
  BY <1>5, RingKept DEF TxDropped, Halted, hardware, poll, Scan
<1>. QED
  BY <1>1, <1>2, <1>3, <1>4, <1>5

(* The poll starts, looks at the room and wakes; the link, the watchdog.   *)
LEMMA InvAside ==
  ASSUME IInv, TypeOK',
         Poll \/ CleanRoom \/ CleanWake \/ LinkChange \/ Watchdog \/ UNCHANGED vars
  PROVE  IInv'
<1>a. xpc = "map" => At(ntu) + pkt.data + 4 <= Count
  BY DEF IInv, OrderOK
<1>1. CASE Poll
  BY <1>a, <1>1, RingKept DEF Poll, Halted, ring, hardware, xmit, Scan
<1>2. CASE CleanRoom
  BY <1>a, <1>2, RingKept DEF CleanRoom, Halted, ring, hardware, xmit, Scan
<1>3. CASE CleanWake
  BY <1>a, <1>3, RingKept DEF CleanWake, Halted, ring, hardware, xmit, Scan
<1>4. CASE LinkChange
  BY <1>a, <1>4, RingKept DEF LinkChange, Halted, ring, hardware, xmit, poll, Scan
<1>5. CASE Watchdog
  BY <1>a, <1>5, RingKept DEF Watchdog, Halted, ring, hardware, xmit, poll, Scan
<1>6. CASE UNCHANGED vars
  BY <1>a, <1>6, RingKept DEF vars, Halted, Scan
<1>. QED
  BY <1>1, <1>2, <1>3, <1>4, <1>5, <1>6

(* The sender writes the tail, or leaves it to the next frame.             *)
LEMMA InvDoorbell ==
  ASSUME IInv, TypeOK', NEW more \in BOOLEAN, Doorbell(more)
  PROVE  IInv'
<1>1. ~ Halted /\ ChainOK /\ StatusOK /\ TypeOK /\ OrderOK
  BY DEF IInv, Halted, Doorbell
<1>2. At(head) \in Nat /\ At(tail) \in Nat /\ At(ntu) \in Nat
  BY <1>1, AtType DEF TypeOK
<1>3. /\ UNCHANGED <<ntu, ntc, watch, dd, head, cpc, cur>> /\ xpc' = "idle"
      /\ tail' = tail \/ tail' = ntu
  BY DEF Doorbell, ring, poll
<1>4. Starts' = Starts /\ Scan' = Scan
  BY <1>3 DEF Starts, Scan
<1>5. OrderOK'
  BY <1>1, <1>2, <1>3, <1>4 DEF OrderOK, At
<1>6. ChainOK'
  BY <1>1, <1>3, <1>4 DEF ChainOK, At
<1>7. StatusOK'
  BY <1>1, <1>3, <1>4 DEF StatusOK, At
<1>. QED
  BY <1>5, <1>6, <1>7 DEF IInv

(* A frame is put on the ring: it lies where next_to_use was, no frame was *)
(* there, and its descriptors do not look sent.                            *)
LEMMA InvTxMap ==
  ASSUME IInv, TypeOK', TxMap
  PROVE  IInv'
<1>. DEFINE last == Step(ntu, Used(pkt) - 1)
<1>1. TypeOK /\ OrderOK /\ ChainOK /\ StatusOK
  BY DEF IInv, Halted, TxMap
<1>2. Used(pkt) \in Nat /\ Used(pkt) >= 1 /\ At(ntu) + Used(pkt) + 3 <= Count
      /\ At(ntu) \in Nat /\ Count \in Nat
  BY <1>1, FrameSize, AtType, RingAssumption DEF TypeOK, TxMap, OrderOK
<1>3. last \in Slots /\ At(last) = At(ntu) + Used(pkt) - 1
  BY <1>1, <1>2, StepDist DEF TypeOK, At
<1>4. At(ntu') = At(ntu) + Used(pkt) /\ ntu' \in Slots
  BY <1>1, <1>2, StepDist DEF TypeOK, At, TxMap
<1>5. Step(last, 1) = ntu'
  <2>1. At(last) + 1 < Count
    BY <1>2, <1>3
  <2>2. Step(last, 1) \in Slots /\ At(Step(last, 1)) = At(last) + 1
    BY <1>1, <1>3, <2>1, StepDist DEF TypeOK, At
  <2>3. At(Step(last, 1)) = At(ntu')
    BY <1>2, <1>3, <1>4, <2>2
  <2>. QED
    BY <1>1, <1>4, <2>2, <2>3, AtType
<1>6. /\ watch' = [watch EXCEPT ![ntu] = last] /\ dd' \subseteq dd /\ last \notin dd'
      /\ UNCHANGED <<ntc, tail, head, cpc, cur>> /\ xpc' = "room"
  <2>1. last \in FirstDescs(Used(pkt))
    BY <1>2 DEF FirstDescs
  <2>. QED
    BY <2>1 DEF TxMap, hardware, poll
<1>7. Scan' = Scan /\ \A i : At(i)' = At(i)
  BY <1>6 DEF Scan, At
<1>8. Starts' = Starts \cup {ntu}
  BY <1>1, <1>3, <1>6, <1>2, SMTT(30) DEF TypeOK, Starts, None, Slots
<1>9. \A s \in Starts : s # ntu /\ At(s) < At(ntu) /\ s \in Slots /\ At(s) \in Nat
                        /\ watch[s] \in Slots /\ At(watch[s]) \in Nat /\ At(watch[s]) < At(ntu)
                        /\ watch'[s] = watch[s]
  <2>. SUFFICES ASSUME NEW s \in Starts
                PROVE  s # ntu /\ At(s) < At(ntu) /\ s \in Slots /\ At(s) \in Nat
                        /\ watch[s] \in Slots /\ At(watch[s]) \in Nat
                        /\ At(watch[s]) < At(ntu) /\ watch'[s] = watch[s]
    OBVIOUS
  <2>1. s \in Slots /\ watch[s] \in Slots
    BY <1>1, StartsType
  <2>2. At(s) \in Nat /\ At(watch[s]) \in Nat
    BY <1>1, <2>1, AtType
  <2>3. At(s) <= At(watch[s]) /\ At(watch[s]) < At(ntu)
    BY <1>1 DEF ChainOK
  <2>4. At(s) < At(ntu)
    BY <1>2, <2>2, <2>3
  <2>5. s # ntu
    BY <1>2, <2>4
  <2>6. watch'[s] = watch[s]
    BY <1>1, <1>6, <2>1, <2>5 DEF TypeOK
  <2>. QED
    BY <2>1, <2>2, <2>3, <2>4, <2>5, <2>6
<1>10. watch'[ntu] = last
  BY <1>1, <1>6 DEF TypeOK
<1>11. At(head) \in Nat /\ At(tail) \in Nat /\ At(Scan) \in Nat
  BY <1>1, AtType DEF TypeOK, Scan
<1>12. OrderOK'
  BY <1>1, <1>2, <1>4, <1>6, <1>7, <1>11 DEF OrderOK
<1>13. ChainOK'
  <2>1. ({Scan, head, tail} \subseteq Starts \cup {ntu})'
    BY <1>1, <1>6, <1>7, <1>8 DEF ChainOK
  <2>2. ASSUME NEW s \in Starts'
        PROVE  /\ At(Scan) <= At(s) /\ At(s) <= At(watch'[s]) /\ At(watch'[s]) < At(ntu')
               /\ Step(watch'[s], 1) \in Starts' \cup {ntu'}
               /\ \A t \in Starts' : At(s) < At(t) => At(watch'[s]) < At(t)
    <3>1. CASE s \in Starts
      <4>1. At(Scan) <= At(s) /\ At(s) <= At(watch[s])
            /\ Step(watch[s], 1) \in Starts \cup {ntu}
            /\ \A t \in Starts : At(s) < At(t) => At(watch[s]) < At(t)
        BY <1>1, <3>1 DEF ChainOK
      <4>. QED
        BY <1>2, <1>4, <1>8, <1>9, <3>1, <4>1
    <3>2. CASE s = ntu
      <4>1. At(Scan) <= At(ntu)
        BY <1>1, <1>11, <1>2 DEF OrderOK
      <4>2. \A t \in Starts' : ~ (At(s) < At(t))
        BY <1>2, <1>8, <1>9, <3>2
      <4>. QED
        BY <1>2, <1>3, <1>4, <1>5, <1>10, <3>2, <4>1, <4>2
    <3>. QED
      BY <1>8, <3>1, <3>2
  <2>. QED
    BY <1>7, <2>1, <2>2 DEF ChainOK
<1>14. StatusOK'
  <2>. SUFFICES ASSUME NEW s \in Starts', At(head) <= At(s)
                PROVE  watch'[s] \notin dd'
    BY <1>6, <1>7 DEF StatusOK
  <2>1. CASE s \in Starts
    BY <1>1, <1>6, <1>9, <2>1 DEF StatusOK
  <2>. QED
    BY <1>6, <1>8, <1>10, <2>1
<1>. QED
  BY <1>12, <1>13, <1>14 DEF IInv

(* The hardware sends a frame: it comes to stand before the next one or at *)
(* the tail, and what it reports lies behind it.                           *)
LEMMA InvHwSend ==
  ASSUME IInv, TypeOK', HwSend
  PROVE  IInv'
<1>. DEFINE last == watch[head]
            reported == {Step(head, k) : k \in 0 .. Dist(head, last)}
<1>1. TypeOK /\ OrderOK /\ ChainOK /\ StatusOK /\ head \in Starts /\ At(last) < At(tail)
  BY HeadFrame DEF IInv
<1>2. head \in Slots /\ last \in Slots /\ tail \in Slots /\ Count \in Nat
  BY <1>1, StartsType, RingAssumption DEF TypeOK
<1>3. /\ At(head) \in Nat /\ At(last) \in Nat /\ At(tail) \in Nat /\ At(tail) < Count
      /\ At(Scan) \in Nat
  BY <1>1, <1>2, AtType DEF TypeOK, Scan
<1>4. head' = Step(last, 1) /\ dd' = dd \cup reported
      /\ UNCHANGED <<ntu, ntc, watch, tail, xpc, pkt, cpc, cur>>
  BY DEF HwSend, xmit, poll
<1>5. At(head') = At(last) + 1
  BY <1>1, <1>2, <1>3, <1>4, StepDist DEF TypeOK, At
<1>6. Starts' = Starts /\ Scan' = Scan /\ \A i : At(i)' = At(i)
  BY <1>4 DEF Starts, Scan, At
<1>7. At(head) <= At(last)
  BY <1>1 DEF ChainOK
<1>8. OrderOK'
  BY <1>1, <1>3, <1>4, <1>5, <1>6, <1>7 DEF OrderOK
<1>9. ChainOK'
  BY <1>1, <1>4, <1>6 DEF ChainOK
<1>10. StatusOK'
  <2>. SUFFICES ASSUME NEW s \in Starts, At(head') <= At(s)
                PROVE  watch[s] \notin dd'
    BY <1>4, <1>6 DEF StatusOK
  <2>1. s \in Slots /\ watch[s] \in Slots /\ At(s) \in Nat /\ At(watch[s]) \in Nat
    BY <1>1, StartsType, AtType
  <2>2. At(s) <= At(watch[s])
    BY <1>1 DEF ChainOK
  <2>3. watch[s] \notin dd
    BY <1>1, <1>3, <1>5, <1>7, <2>1 DEF StatusOK
  <2>4. ASSUME NEW k \in 0 .. Dist(head, last) PROVE Step(head, k) # watch[s]
    <3>1. Dist(head, last) = At(last) - At(head)
      BY <1>1, <1>2, <1>7, Rebase DEF At, TypeOK
    <3>2. k \in Nat /\ At(head) + k <= At(last)
      BY <1>3, <3>1
    <3>3. At(Step(head, k)) = At(head) + k
      BY <1>1, <1>2, <1>3, <3>2, StepDist DEF At, TypeOK
    <3>. QED
      BY <1>3, <1>5, <2>1, <2>2, <3>2, <3>3
  <2>. QED
    BY <1>4, <2>3, <2>4
<1>. QED
  BY <1>8, <1>9, <1>10 DEF IInv

(* The poll frees a frame and stands before the next one.                  *)
LEMMA InvCleanFrame ==
  ASSUME IInv, TypeOK', CleanFrame
  PROVE  IInv'
<1>. DEFINE last == watch[cur]
<1>1. TypeOK /\ OrderOK /\ ChainOK /\ StatusOK /\ cur \in Starts /\ At(last) < At(head)
      /\ cpc = "scan"
  BY SentFrame DEF IInv, CleanFrame
<1>2. cur \in Slots /\ last \in Slots /\ head \in Slots /\ Count \in Nat
  BY <1>1, StartsType, RingAssumption DEF TypeOK
<1>3. /\ At(cur) \in Nat /\ At(last) \in Nat /\ At(head) \in Nat /\ At(head) < Count
  BY <1>1, <1>2, AtType DEF TypeOK
<1>4. cur' = Step(last, 1) /\ watch' = [watch EXCEPT ![cur] = None]
      /\ UNCHANGED <<ntu, ntc, dd, tail, head, xpc, pkt, cpc>>
  BY DEF CleanFrame, hardware, xmit
<1>5. Scan = cur /\ Scan' = cur' /\ At(cur') = At(last) + 1 /\ \A i : At(i)' = At(i)
  <2>1. At(Step(last, 1)) = At(last) + 1
    BY <1>1, <1>2, <1>3, StepDist DEF TypeOK, At
  <2>. QED
    BY <1>1, <1>4, <2>1 DEF Scan, At
<1>6. Starts' = Starts \ {cur} /\ \A s \in Starts \ {cur} : watch'[s] = watch[s]
  BY <1>1, <1>4 DEF TypeOK, Starts
<1>7. OrderOK'
  BY <1>1, <1>3, <1>4, <1>5 DEF OrderOK
<1>8. At(cur) <= At(last) /\ cur' \in Starts \cup {ntu}
  BY <1>1, <1>4 DEF ChainOK
<1>9. ntu \notin Starts /\ ntu \in Slots /\ At(ntu) \in Nat
  <2>1. ntu \in Slots /\ At(ntu) \in Nat
    BY <1>1, AtType DEF TypeOK
  <2>2. ASSUME ntu \in Starts PROVE FALSE
    <3>1. watch[ntu] \in Slots /\ At(watch[ntu]) \in Nat
      BY <1>1, <2>2, StartsType, AtType
    <3>. QED
      BY <1>1, <2>1, <2>2, <3>1 DEF ChainOK
  <2>. QED
    BY <2>1, <2>2
<1>10. ASSUME NEW s \in Starts'
       PROVE  /\ At(cur') <= At(s)
              /\ Step(watch[s], 1) # cur
  <2>1. s \in Starts /\ s # cur
    BY <1>6
  <2>2. s \in Slots /\ watch[s] \in Slots /\ At(s) \in Nat /\ At(watch[s]) \in Nat
        /\ At(s) # At(cur)
    BY <1>1, <1>2, <2>1, StartsType, AtType
  <2>3. At(cur) <= At(s) /\ At(s) <= At(watch[s]) /\ At(watch[s]) < At(ntu)
        /\ (At(cur) < At(s) => At(last) < At(s))
    BY <1>1, <1>5, <2>1 DEF ChainOK
  <2>4. At(ntu) < Count
    BY <1>1, <1>9, AtType
  <2>5. At(Step(watch[s], 1)) = At(watch[s]) + 1
    BY <1>1, <1>2, <1>9, <2>2, <2>3, <2>4, StepDist DEF TypeOK, At
  <2>. QED
    BY <1>3, <1>5, <2>2, <2>3, <2>5
<1>11. ChainOK'
  <2>1. cur' # cur /\ head # cur /\ tail # cur
    <3>1. At(tail) \in Nat
      BY <1>1, AtType DEF TypeOK
    <3>. QED
      BY <1>1, <1>3, <1>5, <1>8, <3>1 DEF OrderOK
  <2>2. ({Scan, head, tail} \subseteq Starts \cup {ntu})'
    BY <1>1, <1>4, <1>5, <1>6, <1>8, <2>1 DEF ChainOK
  <2>3. ASSUME NEW s \in Starts'
        PROVE  /\ At(cur') <= At(s) /\ At(s) <= At(watch'[s]) /\ At(watch'[s]) < At(ntu)
               /\ Step(watch'[s], 1) \in Starts' \cup {ntu}
               /\ \A t \in Starts' : At(s) < At(t) => At(watch'[s]) < At(t)
    BY <1>1, <1>6, <1>10 DEF ChainOK
  <2>. QED
    BY <1>4, <1>5, <2>2, <2>3 DEF ChainOK
<1>12. StatusOK'
  BY <1>1, <1>4, <1>5, <1>6 DEF StatusOK
<1>. QED
  BY <1>7, <1>11, <1>12 DEF IInv

(* The poll moves next_to_clean to where it stands: the same frames, their *)
(* places counted from there.                                              *)
LEMMA InvCleanEnd ==
  ASSUME IInv, TypeOK', CleanDone \/ CleanHang
  PROVE  IInv'
<1>1. TypeOK /\ OrderOK /\ ChainOK /\ StatusOK /\ Scan = cur
  BY DEF IInv, Halted, CleanDone, CleanHang, CleanEnd, Scan
<1>2. ntc' = cur /\ cpc' # "scan" /\ UNCHANGED <<ntu, watch, dd, tail, head, xpc, pkt>>
  BY DEF CleanDone, CleanHang, CleanEnd, hardware, xmit
<1>3. Scan' = cur /\ Starts' = Starts
  BY <1>2 DEF Scan, Starts
<1>4. cur \in Slots /\ ntc \in Slots /\ At(cur) \in Nat /\ Count \in Nat
  BY <1>1, AtType, RingAssumption DEF TypeOK
<1>5. ASSUME NEW i \in Slots, At(cur) <= At(i)
      PROVE  At(i) \in Nat /\ Dist(cur, i) = At(i) - At(cur)
  BY <1>1, <1>4, <1>5, AtType, Rebase DEF At
<1>6. head \in Slots /\ tail \in Slots /\ ntu \in Slots
      /\ At(head) \in Nat /\ At(tail) \in Nat /\ At(ntu) \in Nat
  BY <1>1, AtType DEF TypeOK
<1>7. At(cur) <= At(head) /\ At(cur) <= At(tail) /\ At(cur) <= At(ntu)
  BY <1>1, <1>4, <1>6 DEF OrderOK
<1>8. /\ Dist(cur, cur) = 0 /\ Dist(cur, head) = At(head) - At(cur)
      /\ Dist(cur, tail) = At(tail) - At(cur) /\ Dist(cur, ntu) = At(ntu) - At(cur)
  BY <1>4, <1>5, <1>6, <1>7, DistType
<1>9. OrderOK'
  <2>1. pkt.data \in Nat
    BY <1>1, FrameSize DEF TypeOK
  <2>2. /\ At(head) <= At(tail) /\ At(tail) <= At(ntu) /\ At(ntu) + 3 <= Count
        /\ xpc = "map" => At(ntu) + pkt.data + 4 <= Count
    BY <1>1 DEF OrderOK
  <2>3. /\ 0 <= Dist(cur, head) /\ Dist(cur, head) <= Dist(cur, tail)
        /\ Dist(cur, tail) <= Dist(cur, ntu) /\ Dist(cur, ntu) + 3 <= Count
        /\ xpc = "map" => Dist(cur, ntu) + pkt.data + 4 <= Count
    BY <1>4, <1>6, <1>7, <1>8, <2>1, <2>2
  <2>. QED
    BY <1>2, <1>3, <1>8, <2>3 DEF OrderOK, At
<1>10. ASSUME NEW s \in Starts
       PROVE  /\ s \in Slots /\ watch[s] \in Slots
              /\ At(s) \in Nat /\ Dist(cur, s) = At(s) - At(cur)
              /\ At(watch[s]) \in Nat /\ Dist(cur, watch[s]) = At(watch[s]) - At(cur)
              /\ At(cur) <= At(s) /\ At(s) <= At(watch[s]) /\ At(watch[s]) < At(ntu)
  <2>1. s \in Slots /\ watch[s] \in Slots
    BY <1>1, StartsType
  <2>2. At(cur) <= At(s) /\ At(s) <= At(watch[s]) /\ At(watch[s]) < At(ntu)
    BY <1>1 DEF ChainOK
  <2>3. At(s) \in Nat /\ At(watch[s]) \in Nat
    BY <1>1, <2>1, AtType
  <2>4. At(cur) <= At(watch[s])
    BY <1>4, <2>2, <2>3
  <2>. QED
    BY <1>5, <2>1, <2>2, <2>3, <2>4
<1>11. ChainOK'
  <2>1. {cur, head, tail} \subseteq Starts \cup {ntu}
    BY <1>1 DEF ChainOK
  <2>2. ASSUME NEW s \in Starts
        PROVE  /\ Dist(cur, cur) <= Dist(cur, s) /\ Dist(cur, s) <= Dist(cur, watch[s])
               /\ Dist(cur, watch[s]) < Dist(cur, ntu)
               /\ Step(watch[s], 1) \in Starts \cup {ntu}
               /\ \A t \in Starts :
                    Dist(cur, s) < Dist(cur, t) => Dist(cur, watch[s]) < Dist(cur, t)
    <3>1. /\ Step(watch[s], 1) \in Starts \cup {ntu}
          /\ \A t \in Starts : At(s) < At(t) => At(watch[s]) < At(t)
      BY <1>1 DEF ChainOK
    <3>. QED
      BY <1>4, <1>6, <1>8, <1>10, <3>1
  <2>. QED
    BY <1>2, <1>3, <2>1, <2>2 DEF ChainOK, At
<1>12. StatusOK'
  <2>1. ASSUME NEW s \in Starts, Dist(cur, head) <= Dist(cur, s)
        PROVE  watch[s] \notin dd
    BY <1>1, <1>4, <1>6, <1>8, <1>10, <2>1 DEF StatusOK
  <2>. QED
    BY <1>2, <1>3, <2>1 DEF StatusOK, At
<1>. QED
  BY <1>9, <1>11, <1>12 DEF IInv

(* A reset empties the ring; what it leaves of next_to_watch halts it.     *)
LEMMA InvReset ==
  ASSUME IInv, TypeOK', Reset
  PROVE  IInv'
<1>1. /\ ntu' = 0 /\ ntc' = 0 /\ head' = 0 /\ tail' = 0
      /\ xpc' = "idle" /\ cpc' = "idle"
  BY DEF Reset, Down, Up, ConfigureTxRing, CleanTxRing, xmit, poll
<1>2. 0 \in Slots /\ Count \in Nat /\ Count > 8 /\ Dist(0, 0) = 0
  <2>1. 0 \in Slots /\ Count \in Nat /\ Count > 8
    BY RingAssumption DEF Slots, WakeThreshold, DescNeeded
  <2>. QED
    BY <2>1, DistType
<1>3. OrderOK'
  BY <1>1, <1>2 DEF OrderOK, At, Scan
<1>4. CASE Starts' = {}
  <2>1. ChainOK' /\ StatusOK'
    BY <1>1, <1>4 DEF ChainOK, StatusOK, Scan
  <2>. QED
    BY <1>3, <2>1 DEF IInv
<1>5. CASE Starts' # {}
  <2>1. PICK i \in Slots : watch'[i] # None
    BY <1>5 DEF Starts
  <2>2. Dist(0, i) \in Nat
    BY <1>2, DistType
  <2>3. ~ (Dist(0, i) < Dist(0, 0))
    BY <1>2, <2>2
  <2>4. (~ WatchedIsPresent)'
    BY <1>1, <2>1, <2>3 DEF WatchedIsPresent
  <2>5. Halted'
    BY <1>1, <2>4 DEF Halted
  <2>. QED
    BY <1>3, <2>5 DEF IInv
<1>. QED
  BY <1>4, <1>5

-----------------------------------------------------------------------------
(* Every step keeps the inductive invariant. *)
LEMMA InvStep ==
  ASSUME IInv, [Next]_vars
  PROVE  IInv'
<1>1. TypeOK'
  BY TypeStep
<1>. QED
  BY <1>1, InvXmit, InvAside, InvDoorbell, InvTxMap, InvHwSend, InvCleanFrame,
     InvCleanEnd, InvReset DEF Next

(* On a ring of any size, with frames of any number of descriptors, the    *)
(* frames lie one after the other and those not sent do not look sent to   *)
(* igc_clean_tx_irq.                                                       *)
THEOREM IgcInductive == Spec => []IInv
<1>1. Init => IInv
  BY InvInit
<1>2. IInv /\ [Next]_vars => IInv'
  BY InvStep
<1>. QED
  BY <1>1, <1>2, PTL DEF Spec

(* The gap of two descriptors stays free, and neither the poll overtakes   *)
(* the hardware nor the hardware the sender (igc_xmit_frame_ring,          *)
(* igc_clean_tx_irq).                                                      *)
THEOREM IgcRingSound == Spec => []RingSound
<1>1. ASSUME IInv PROVE RingSound
  <2>1. TypeOK /\ OrderOK
    BY <1>1 DEF IInv
  <2>2. DescUnused = Count - 1 - At(ntu) /\ At(ntu) \in Nat /\ Count \in Nat
    BY <2>1, UnusedAt, AtType, RingAssumption DEF TypeOK
  <2>3. DescUnused >= 2
    BY <2>1, <2>2 DEF OrderOK
  <2>. QED
    BY <2>1, <2>3 DEF RingSound, OrderOK, Scan, At
<1>2. IInv => RingSound
  BY <1>1
<1>. QED
  BY <1>2, IgcInductive, PTL

-----------------------------------------------------------------------------
(* An empty ring has room for every frame, and enough to wake the queue. *)
LEMMA EmptyHasRoom ==
  ASSUME TypeOK, ntc = ntu
  PROVE  DescUnused >= WakeThreshold /\ DescUnused >= Size
<1>1. DescUnused = Count - 1 /\ Count \in Nat /\ Count > WakeThreshold
  BY RingAssumption DEF DescUnused, TypeOK, Slots
<1>2. WakeThreshold = 2 * MaxFrags + 8 /\ MaxFrags \in Nat
  BY RingAssumption DEF WakeThreshold, DescNeeded
<1>3. Size <= MaxFrags + 4 /\ Size \in Int
  <2>1. pkt.data \in 1 .. (MaxFrags + 1)
    BY DEF TypeOK, AllFrames
  <2>. QED
    BY <1>2, <2>1 DEF Size, DescNeeded
<1>. QED
  BY <1>1, <1>2, <1>3

(* The sender: it stops and looks again, and sees the room that a poll has *)
(* made; a frame it puts on the ring will be taken off.                    *)
LEMMA WakeXmit ==
  ASSUME WakeInv, IInv',
         \/ \E p \in Frames : XmitFrame(p)
         \/ StopTx \/ Recheck \/ TxMap \/ Room
         \/ \E k \in 0 .. (MaxFrags + 1) : TxDropped(k)
         \/ \E more \in BOOLEAN : Doorbell(more)
  PROVE  WakeInv'
<1>1. TypeOK /\ IInv /\ UNCHANGED <<ntc, cpc, cur, cleaned>>
  BY DEF WakeInv, IInv, XmitFrame, StopTx, Recheck, TxMap, Room, TxDropped, Doorbell,
     ring, poll
<1>2. WakePending'
  <2>1. CASE Recheck
    <3>1. ntu' = ntu /\ xpc = "recheck"
      BY <2>1 DEF Recheck, ring
    <3>2. CASE DescUnused < Size
      <4>1. ntc # ntu
        <5>1. DescUnused \in Int /\ Size \in Int
          BY <1>1, RingAssumption DEF TypeOK, DescUnused, Slots, Size, AllFrames, DescNeeded
        <5>. QED
          BY <1>1, <3>2, <5>1, EmptyHasRoom
      <4>. QED
        BY <1>1, <3>1, <4>1 DEF WakePending
    <3>3. CASE ~ (DescUnused < Size)
      BY <2>1, <3>3 DEF Recheck, WakePending
    <3>. QED
      BY <3>2, <3>3
  <2>2. CASE StopTx
    BY <2>2 DEF StopTx, WakePending
  <2>3. CASE TxMap
    <3>0. ntu \in Slots /\ ntc \in Slots /\ pkt \in AllFrames
      BY <1>1 DEF TypeOK
    <3>2. ntu' = Step(ntu, Used(pkt)) /\ xpc = "map"
      BY <2>3, Zenon DEF TxMap
    <3>3. At(ntu) \in Nat /\ Count \in Nat
      BY <1>1, <3>0, AtType, RingAssumption
    <3>6. At(ntu) + pkt.data + 4 <= Count
      BY <1>1, <3>2, Zenon DEF IInv, OrderOK
    <3>1. At(ntu) + Used(pkt) + 3 <= Count /\ Used(pkt) \in Nat /\ Used(pkt) >= 1
      BY <3>0, <3>3, <3>6, FrameSize
    <3>4. Dist(ntc, ntu') = Dist(ntc, ntu) + Used(pkt) /\ Dist(ntc, ntu) \in Nat
      BY <3>0, <3>1, <3>2, <3>3, StepDist DEF At
    <3>5. Dist(ntc, ntc) = 0
      BY <3>0, DistType
    <3>7. ntc # ntu'
      BY <3>1, <3>4, <3>5
    <3>. QED
      BY <1>1, <3>7, Zenon DEF WakePending
  <2>4. CASE \E p \in Frames : XmitFrame(p)
    BY <2>4 DEF XmitFrame, WakePending
  <2>5. CASE Room \/ (\E k \in 0 .. (MaxFrags + 1) : TxDropped(k))
             \/ (\E more \in BOOLEAN : Doorbell(more))
    <3>1. UNCHANGED <<stopped, missed, ntu>> /\ xpc # "recheck"
      BY <2>5 DEF Room, TxDropped, Doorbell, ring
    <3>. QED
      BY <1>1, <3>1 DEF WakeInv, WakePending
  <2>. QED
    BY <2>1, <2>2, <2>3, <2>4, <2>5
<1>. QED
  BY <1>1, <1>2 DEF WakeInv

(* The poll: it goes on to wake the queue when it has emptied the ring. *)
LEMMA WakeClean ==
  ASSUME WakeInv, IInv',
         Poll \/ CleanFrame \/ CleanDone \/ CleanHang \/ CleanRoom \/ CleanWake
  PROVE  WakeInv'
<1>1. TypeOK /\ UNCHANGED <<ntu, xpc>>
  BY DEF WakeInv, IInv, Poll, CleanFrame, CleanDone, CleanHang, CleanEnd, CleanRoom,
     CleanWake, ring, xmit
<1>2. CASE Poll
  BY <1>2 DEF Poll, WakeInv, WakePending, ring, xmit
<1>3. CASE CleanFrame
  BY <1>3 DEF CleanFrame, WakeInv, WakePending, xmit
<1>4. CASE CleanDone
  BY <1>4 DEF CleanDone, CleanEnd, WakeInv, WakePending, xmit
<1>5. CASE CleanHang
  BY <1>5 DEF CleanHang, CleanEnd, WakeInv, WakePending
<1>6. CASE CleanRoom
  <2>1. ntc = ntu => DescUnused >= WakeThreshold
    BY <1>1, EmptyHasRoom
  <2>2. cpc = "room" /\ UNCHANGED <<ntc, stopped>> /\ cpc' \in {"wake", "idle"}
    BY <1>6 DEF CleanRoom, ring
  <2>3. ASSUME stopped, ~ missed', ntc = ntu, xpc # "recheck"
        PROVE  cpc' = "wake"
    <3>1. ~ missed /\ cleaned
      BY <1>6, <2>2, <2>3 DEF CleanRoom, WakeInv, WakePending
    <3>2. carrier
      BY <1>6, <2>3, <3>1 DEF CleanRoom
    <3>. QED
      BY <1>6, <2>1, <2>3, <3>1, <3>2 DEF CleanRoom
  <2>. QED
    BY <1>1, <2>2, <2>3 DEF WakeInv, WakePending
<1>7. CASE CleanWake
  BY <1>7 DEF CleanWake, WakeInv, WakePending
<1>. QED
  BY <1>2, <1>3, <1>4, <1>5, <1>6, <1>7

(* The hardware, the link and the watchdog leave the queue alone; a reset  *)
(* starts it.                                                              *)
LEMMA WakeOther ==
  ASSUME WakeInv, IInv', HwSend \/ LinkChange \/ Watchdog \/ Reset \/ UNCHANGED vars
  PROVE  WakeInv'
<1>1. CASE Reset
  <2>1. stopped' = FALSE /\ cpc' = "idle"
    BY <1>1 DEF Reset, Up, poll
  <2>. QED
    BY <2>1, Zenon DEF WakeInv, WakePending
<1>2. CASE HwSend \/ LinkChange \/ Watchdog \/ UNCHANGED vars
  <2>1. UNCHANGED <<ntu, ntc, stopped, missed, xpc, cpc, cur, cleaned>>
    BY <1>2 DEF HwSend, LinkChange, Watchdog, ring, xmit, poll, vars
  <2>2. WakePending'
    BY <2>1, Zenon DEF WakeInv, WakePending
  <2>3. (cpc = "scan" /\ cur # ntc => cleaned)'
    BY <2>1, Zenon DEF WakeInv
  <2>. QED
    BY <2>2, <2>3, Zenon DEF WakeInv
<1>. QED
  BY <1>1, <1>2

(* On every ring, however the sender that stops the queue and the poll     *)
(* that frees frames interleave, a queue that no later poll would wake is  *)
(* about to be looked at again or woken (__igc_maybe_stop_tx,              *)
(* igc_clean_tx_irq).                                                      *)
THEOREM IgcNoLostWakeup == Spec => []WakePending
<1>1. Init => WakeInv
  <2>. SUFFICES ASSUME Init PROVE WakeInv
    OBVIOUS
  <2>1. IInv
    BY InvInit
  <2>. QED
    BY <2>1 DEF Init, WakeInv, WakePending
<1>2. WakeInv /\ [Next]_vars => WakeInv'
  <2>. SUFFICES ASSUME WakeInv, [Next]_vars PROVE WakeInv'
    OBVIOUS
  <2>1. IInv'
    BY InvStep DEF WakeInv
  <2>. QED
    BY <2>1, WakeXmit, WakeClean, WakeOther DEF Next
<1>3. WakeInv => WakePending
  BY DEF WakeInv
<1>. QED
  BY <1>1, <1>2, <1>3, PTL DEF Spec
=============================================================================
