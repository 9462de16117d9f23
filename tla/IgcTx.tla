------------------------------- MODULE IgcTx --------------------------------
(***************************************************************************)
(* The transmit path of the igc network driver, for one queue: frames are  *)
(* put on a ring of descriptors, the hardware sends them, NAPI takes them  *)
(* off again, and the queue is stopped and woken as the ring fills and     *)
(* empties.  The watchdog follows the link and asks for a reset when       *)
(* frames are left on the ring without one.                                *)
(*                                                                         *)
(* The thread that sends, the poll, the watchdog and the hardware run at   *)
(* the same time.  Each step reads or writes once what another of them     *)
(* changes; the barriers of the code make the steps happen in this order.  *)
(***************************************************************************)
EXTENDS Integers

CONSTANTS
  Count,     (* tx_ring->count                                             *)
  MaxFrags,  (* MAX_SKB_FRAGS; bound: no fragment needs two descriptors    *)
  Frames,    (* the frames that are sent, out of AllFrames                 *)
  Budget     (* q_vector->tx.work_limit                                    *)

DescNeeded == MaxFrags + 4
WakeThreshold == DescNeeded * 2

(* The data descriptors of a frame, and a context descriptor before them   *)
(* or none (igc_tso, igc_tx_csum).                                         *)
AllFrames == [data : 1 .. (MaxFrags + 1), ctx : {0, 1}]
NoFrame == [data |-> 1, ctx |-> 0]
Used(p) == p.data + p.ctx

(* IGC_MIN_TXD is 80 and MAX_SKB_FRAGS 17.                                 *)
ASSUME RingAssumption ==
  /\ MaxFrags \in Nat /\ Budget \in Nat \ {0}
  /\ Count \in Nat /\ Count > WakeThreshold
  /\ Frames \subseteq AllFrames

VARIABLES
  ntu,      (* next_to_use                                                 *)
  ntc,      (* next_to_clean                                               *)
  watch,    (* tx_buffer_info[].next_to_watch: a descriptor or None        *)
  dd,       (* the descriptors whose status says DD                        *)
  tail,     (* the tail register                                           *)
  head,     (* the first descriptor the hardware has not sent              *)
  stopped,  (* the queue is stopped                                        *)
  xpc,      (* where igc_xmit_frame_ring is                                *)
  pkt,      (* its frame                                                   *)
  back,     (* where igc_maybe_stop_tx goes on                             *)
  cpc,      (* where igc_clean_tx_irq is                                   *)
  cur,      (* its i                                                       *)
  left,     (* its budget                                                  *)
  cleaned,  (* its total_packets # 0                                       *)
  link,
  carrier,  (* netif_carrier_ok                                            *)
  reset,    (* reset_task is scheduled                                     *)
  missed    (* history: since the queue last ran a poll found a hang, or   *)
            (* freed frames without a carrier                              *)

ring == <<ntu, ntc, watch, dd>>
hardware == <<tail, head>>
xmit == <<xpc, pkt, back>>
poll == <<cpc, cur, left, cleaned>>
supervision == <<link, carrier, reset>>
vars == <<ntu, ntc, watch, dd, tail, head, stopped, xpc, pkt, back, cpc, cur, left,
          cleaned, link, carrier, reset, missed>>

Slots == 0 .. (Count - 1)
None == -1

(* The nth descriptor after i, and how far b comes after a on the ring.    *)
Step(i, n) == IF i + n >= Count THEN i + n - Count ELSE i + n
Dist(a, b) == IF b >= a THEN b - a ELSE b - a + Count

(* igc_desc_unused                                                         *)
DescUnused == (IF ntc > ntu THEN 0 ELSE Count) + ntc - ntu - 1

Init ==
  /\ ntu = 0 /\ ntc = 0 /\ watch = [i \in Slots |-> None] /\ dd = {}
  /\ tail = 0 /\ head = 0 /\ stopped = FALSE
  /\ xpc = "idle" /\ pkt = NoFrame /\ back = "map"
  /\ cpc = "idle" /\ cur = 0 /\ left = 0 /\ cleaned = FALSE
  /\ link \in BOOLEAN /\ carrier = FALSE
  /\ reset = FALSE /\ missed = FALSE

-----------------------------------------------------------------------------
(* "Set next_to_watch value indicating a packet is present": a buffer with *)
(* a next_to_watch is that of a frame on the ring (igc_tx_map,             *)
(* igc_clean_tx_irq, igc_clean_tx_ring).                                   *)
WatchedIsPresent ==
  \A i \in Slots : watch[i] # None => Dist(ntc, i) < Dist(ntc, ntu)

(* igc_maybe_stop_tx and __igc_maybe_stop_tx: look, stop, look again.      *)
MaybeStop(size, then) ==
  IF DescUnused >= size THEN xpc' = then /\ UNCHANGED back
                        ELSE xpc' = "stop" /\ back' = then

Size == IF back = "map" THEN pkt.data + 3 ELSE DescNeeded

StopTx ==
  /\ xpc = "stop"
  /\ stopped' = TRUE
  /\ xpc' = "recheck"
  /\ UNCHANGED <<ring, hardware, pkt, back, poll, supervision, missed>>

(* Mutant: the sender does not look again. *)
RecheckNever ==
  /\ xpc = "recheck"
  /\ xpc' = IF back = "map" THEN "idle" ELSE back
  /\ pkt' = NoFrame /\ back' = "map"
  /\ UNCHANGED <<ring, hardware, stopped, poll, supervision, missed>>

(* Without room igc_xmit_frame_ring returns NETDEV_TX_BUSY, igc_tx_map     *)
(* goes on.                                                                *)
Recheck ==
  /\ xpc = "recheck"
  /\ IF DescUnused < Size
     THEN /\ xpc' = IF back = "map" THEN "idle" ELSE back
          /\ pkt' = NoFrame /\ back' = "map"
          /\ UNCHANGED <<stopped, missed>>
     ELSE /\ xpc' = back /\ back' = "map"
          /\ stopped' = FALSE /\ missed' = FALSE
          /\ UNCHANGED pkt
  /\ UNCHANGED <<ring, hardware, poll, supervision>>

(* Mutant: the gap and the context descriptor are not counted. *)
XmitFrameTight(p) ==
  /\ xpc = "idle" /\ ~ stopped
  /\ WatchedIsPresent
  /\ pkt' = p
  /\ MaybeStop(p.data, "map")
  /\ UNCHANGED <<ring, hardware, stopped, poll, supervision, missed>>

(* igc_xmit_frame_ring.  Bound: once a reset has left a next_to_watch no   *)
(* frame follows, and no poll.                                             *)
XmitFrame(p) ==
  /\ xpc = "idle" /\ ~ stopped
  /\ WatchedIsPresent
  /\ pkt' = p
  /\ MaybeStop(p.data + 3, "map")
  /\ UNCHANGED <<ring, hardware, stopped, poll, supervision, missed>>

(* The first n descriptors from next_to_use on, whose status is written    *)
(* over: that of the context (igc_tx_ctxtdesc), then those of the data.    *)
FirstDescs(n) == {Step(ntu, k) : k \in 0 .. (n - 1)}

(* Mutant: olinfo_status is written in the first descriptor only. *)
TxMapStale ==
  /\ xpc = "map"
  /\ watch' = [watch EXCEPT ![ntu] = Step(ntu, Used(pkt) - 1)]
  /\ dd' = dd \ {ntu}
  /\ ntu' = Step(ntu, Used(pkt))
  /\ xpc' = "room" /\ pkt' = NoFrame
  /\ UNCHANGED <<ntc, hardware, stopped, back, poll, supervision, missed>>

(* igc_tx_ctxtdesc and igc_tx_map, up to next_to_use.                      *)
TxMap ==
  /\ xpc = "map"
  /\ watch' = [watch EXCEPT ![ntu] = Step(ntu, Used(pkt) - 1)]
  /\ dd' = dd \ FirstDescs(Used(pkt))
  /\ ntu' = Step(ntu, Used(pkt))
  /\ xpc' = "room" /\ pkt' = NoFrame
  /\ UNCHANGED <<ntc, hardware, stopped, back, poll, supervision, missed>>

(* igc_tso fails, or igc_tx_map at the kth buffer: the frame is dropped    *)
(* and next_to_use is what it was.                                         *)
TxDropped(k) ==
  /\ xpc = "map"
  /\ k <= pkt.data
  /\ dd' = IF k = 0 THEN dd ELSE dd \ FirstDescs(pkt.ctx + k)
  /\ xpc' = "idle" /\ pkt' = NoFrame
  /\ UNCHANGED <<ntu, ntc, watch, hardware, stopped, back, poll, supervision, missed>>

(* igc_tx_map: is there room for the next frame?                           *)
Room ==
  /\ xpc = "room"
  /\ MaybeStop(DescNeeded, "doorbell")
  /\ UNCHANGED <<ring, hardware, stopped, pkt, poll, supervision, missed>>

Doorbell(more) ==
  /\ xpc = "doorbell"
  /\ tail' = IF stopped \/ ~ more THEN ntu ELSE tail
  /\ xpc' = "idle"
  /\ UNCHANGED <<ring, head, stopped, pkt, back, poll, supervision, missed>>

-----------------------------------------------------------------------------
(* The hardware sends the next frame up to its last descriptor.  RS is set *)
(* on that one only; here the hardware reports the others too.             *)
HwSend ==
  /\ link /\ head # tail
  /\ dd' = dd \cup {Step(head, k) : k \in 0 .. Dist(head, watch[head])}
  /\ head' = Step(watch[head], 1)
  /\ UNCHANGED <<ntu, ntc, watch, tail, stopped, xmit, poll, supervision, missed>>

(* igc_poll and igc_clean_tx_irq.  The hardware interrupts after a frame,  *)
(* the watchdog in every period; here the poll may run at any time.        *)
Poll ==
  /\ cpc = "idle"
  /\ WatchedIsPresent
  /\ cpc' = "scan" /\ cur' = ntc /\ left' = Budget /\ cleaned' = FALSE
  /\ UNCHANGED <<ring, hardware, stopped, xmit, supervision, missed>>

Sent == watch[cur] # None /\ watch[cur] \in dd

CleanFrame ==
  /\ cpc = "scan" /\ left > 0 /\ Sent
  /\ watch' = [watch EXCEPT ![cur] = None]
  /\ cur' = Step(watch[cur], 1)
  /\ left' = left - 1 /\ cleaned' = TRUE
  /\ UNCHANGED <<ntu, ntc, dd, hardware, stopped, xmit, cpc, supervision, missed>>

(* A frame that was on the ring for too long when the watchdog asks (it    *)
(* sets IGC_RING_FLAG_TX_DETECT_HANG in every period) is a hang.           *)
CleanEnd ==
  /\ cpc = "scan" /\ (left = 0 \/ ~ Sent)
  /\ ntc' = cur
  /\ cur' = 0 /\ left' = 0
  /\ UNCHANGED <<ntu, watch, dd, hardware, xmit, supervision>>

CleanDone ==
  /\ CleanEnd
  /\ cpc' = "room"
  /\ UNCHANGED <<stopped, cleaned, missed>>

CleanHang ==
  /\ CleanEnd /\ watch[cur] # None
  /\ cpc' = "idle" /\ cleaned' = FALSE
  /\ stopped' = TRUE /\ missed' = TRUE

CleanRoom ==
  /\ cpc = "room"
  /\ cpc' = IF cleaned /\ carrier /\ DescUnused >= WakeThreshold THEN "wake" ELSE "idle"
  /\ missed' = (missed \/ (cleaned /\ ~ carrier))
  /\ cleaned' = FALSE
  /\ UNCHANGED <<ring, hardware, stopped, xmit, cur, left, supervision>>

CleanWake ==
  /\ cpc = "wake"
  /\ cpc' = "idle"
  /\ stopped' = FALSE
  /\ missed' = (missed /\ ~ stopped)
  /\ UNCHANGED <<ring, hardware, xmit, cur, left, cleaned, supervision>>

-----------------------------------------------------------------------------
(* The cable. *)
LinkChange ==
  /\ link' = ~ link
  /\ UNCHANGED <<ring, hardware, stopped, xmit, poll, carrier, reset, missed>>

(* igc_watchdog_task                                                       *)
Watchdog ==
  /\ ~ reset
  /\ carrier' = link
  /\ reset' = (~ link /\ DescUnused + 1 < Count)
  /\ UNCHANGED <<ring, hardware, stopped, xmit, poll, link, missed>>

(* igc_clean_tx_ring: the last descriptor of each frame on the ring.       *)
LastDescs ==
  {watch[i] : i \in {j \in Slots : watch[j] # None /\ Dist(ntc, j) < Dist(ntc, ntu)}}

CleanTxRing ==
  /\ watch' = [i \in Slots |-> IF i \in LastDescs THEN None ELSE watch[i]]
  /\ ntu' = 0 /\ ntc' = 0

ConfigureTxRing == tail' = 0 /\ head' = 0
Down == carrier' = FALSE /\ CleanTxRing
Up == ConfigureTxRing /\ stopped' = FALSE

(* igc_reset_task: igc_down and igc_up.  The sleep of igc_down outlasts a  *)
(* frame that is being put on the ring; napi_disable waits for the poll.   *)
Reset ==
  /\ reset /\ xpc = "idle" /\ cpc = "idle"
  /\ reset' = FALSE
  /\ Down /\ Up
  /\ missed' = FALSE
  /\ UNCHANGED <<dd, xmit, poll, link>>

Xmit == StopTx \/ Recheck \/ TxMap \/ Room \/ (\E more \in BOOLEAN : Doorbell(more))
Clean == Poll \/ CleanFrame \/ CleanDone \/ CleanHang \/ CleanRoom \/ CleanWake

Next ==
  \/ \E p \in Frames : XmitFrame(p)
  \/ StopTx \/ Recheck \/ TxMap \/ Room
  \/ \E k \in 0 .. (MaxFrags + 1) : TxDropped(k)
  \/ \E more \in BOOLEAN : Doorbell(more)
  \/ HwSend \/ LinkChange \/ Watchdog \/ Reset
  \/ Poll \/ CleanFrame \/ CleanDone \/ CleanHang \/ CleanRoom \/ CleanWake

Spec == Init /\ [][Next]_vars

(* The sender, the poll and the watchdog go on; the hardware sends when    *)
(* the link comes up again and again; the reset stops both and is not      *)
(* overtaken by them for ever.                                             *)
FairSpec ==
  /\ Spec
  /\ WF_vars(Xmit) /\ WF_vars(Clean) /\ WF_vars(Watchdog)
  /\ SF_vars(HwSend) /\ SF_vars(Reset)

-----------------------------------------------------------------------------
TypeOK ==
  /\ ntu \in Slots /\ ntc \in Slots /\ tail \in Slots /\ head \in Slots
  /\ watch \in [Slots -> Slots \cup {None}] /\ dd \subseteq Slots
  /\ xpc \in {"idle", "stop", "recheck", "map", "room", "doorbell"}
  /\ pkt \in AllFrames /\ back \in {"map", "doorbell"}
  /\ cpc \in {"idle", "scan", "room", "wake"}
  /\ cur \in Slots /\ left \in 0 .. Budget
  /\ {stopped, cleaned, link, carrier, reset, missed} \subseteq BOOLEAN

(* "2 desc gap to keep tail from touching head": next_to_use never comes   *)
(* closer than two descriptors to what has not been cleaned, and the poll, *)
(* the hardware, the tail and next_to_use follow each other in this order  *)
(* around the ring, so that no frame is freed before it was sent and none  *)
(* is sent before it is complete (igc_xmit_frame_ring, igc_clean_tx_irq).  *)
RingSound ==
  /\ DescUnused >= 2
  /\ cpc = "scan" => Dist(ntc, cur) <= Dist(ntc, head)
  /\ Dist(ntc, head) <= Dist(ntc, tail)
  /\ Dist(ntc, tail) <= Dist(ntc, ntu)

(* Places on the ring count from next_to_clean.                            *)
At(i) == Dist(ntc, i)
Scan == IF cpc = "scan" THEN cur ELSE ntc
Starts == {i \in Slots : watch[i] # None}

OrderOK ==
  /\ At(Scan) <= At(head) /\ At(head) <= At(tail) /\ At(tail) <= At(ntu)
  /\ At(ntu) + 3 <= Count
  /\ xpc = "map" => At(ntu) + pkt.data + 4 <= Count

(* From the poll to next_to_use there is one frame after the other: each   *)
(* ends where the next one starts, and the poll, the hardware and the tail *)
(* stand between two frames.                                               *)
ChainOK ==
  /\ {Scan, head, tail} \subseteq Starts \cup {ntu}
  /\ \A s \in Starts :
       /\ At(Scan) <= At(s) /\ At(s) <= At(watch[s]) /\ At(watch[s]) < At(ntu)
       /\ Step(watch[s], 1) \in Starts \cup {ntu}
       /\ \A t \in Starts : At(s) < At(t) => At(watch[s]) < At(t)

(* No frame that the hardware has not sent looks sent.                     *)
StatusOK == \A s \in Starts : At(head) <= At(s) => watch[s] \notin dd

(* A reset left a next_to_watch: nothing happens on the ring any more.     *)
Halted ==
  /\ ~ WatchedIsPresent
  /\ xpc = "idle" /\ cpc = "idle"
  /\ ntc = ntu /\ head = ntu /\ tail = ntu

(* The inductive invariant behind RingSound: how the frames lie on the     *)
(* ring while the sender, the poll and the hardware work on it.            *)
IInv == TypeOK /\ OrderOK /\ (Halted \/ (ChainOK /\ StatusOK))

(* No wake-up is lost: when the queue is stopped and every frame has been  *)
(* taken off the ring, so that no later poll will wake it, the sender has  *)
(* yet to look again or the poll is on its way to wake the queue, in       *)
(* whatever order they saw the ring (__igc_maybe_stop_tx,                  *)
(* igc_clean_tx_irq).  Excepted are the polls of missed.                   *)
WakePending ==
  stopped /\ ~ missed /\ ntc = ntu =>
    xpc = "recheck" \/ cpc = "wake" \/ (cpc = "room" /\ cleaned)

(* What makes it inductive: a poll that has passed a frame remembers it.   *)
WakeInv == IInv /\ WakePending /\ (cpc = "scan" /\ cur # ntc => cleaned)

(* A stopped queue runs again, whatever the sender that stops it and the   *)
(* poll that makes room do to each other (__igc_maybe_stop_tx,             *)
(* igc_clean_tx_irq).  Excepted are what the code does not handle: a poll  *)
(* that declared a hang or freed frames without a carrier, and a sender    *)
(* that was promised more frames, did not write the tail, and then met a   *)
(* full ring.                                                              *)
QueueResumes == []<>(~ stopped \/ missed \/ tail # ntu)
=============================================================================
