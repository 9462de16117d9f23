------------------------- MODULE ResetButtonProofs --------------------------
(***************************************************************************)
(* What the driver measures, filters and reports, and what procd and the   *)
(* script do with it, for every clock, every debounce and poll interval    *)
(* and any number of events in the work queue.                             *)
(***************************************************************************)
EXTENDS ResetButton, SequenceTheorems, TLAPS

(* The duration of an event is never too long, and is right where the      *)
(* clock could know it.                                                    *)
Measured(e) ==
  /\ e.seen <= e.real
  /\ e.exact => e.seen = e.real

(* bdata->seen is the time of the last event, or 0 where there is none to  *)
(* measure from.                                                           *)
Clock ==
  /\ ~ timed => seen = 0 /\ since = 0
  /\ timed => seen # 0
  /\ timed /\ since < Wrap => since = (jiffies - seen) % Wrap

(* The inductive invariant of PressLength and ActionFitsPress.             *)
MeasureInv ==
  /\ TypeOK
  /\ Clock
  /\ \A i \in 1 .. Len(works) : Measured(works[i])
  /\ Measured(cause)
  /\ asked = "reset" => cause.seen >= 2
  /\ asked = "reboot" => cause.seen < 1

(* The inductive invariant of NoActionUnpressed: whatever shows a press    *)
(* comes from a press.                                                     *)
PressInv ==
  /\ TypeOK
  /\ type = "EV_KEY"
  /\ (line = 1 \/ last = 1 \/ works # <<>> \/ asked # "none") => pressed

-----------------------------------------------------------------------------
(* A difference of two readings of a wrapping clock.                       *)
LEMMA ClockDifference ==
  ASSUME NEW W \in Nat \ {0}, NEW j \in 0 .. (W - 1), NEW s \in 0 .. (W - 1)
  PROVE  (j - s) % W = IF j >= s THEN j - s ELSE j - s + W
<1>1. CASE j >= s
  BY <1>1
<1>2. CASE j < s
  <2>1. j - s + W \in 0 .. (W - 1)
    BY <1>2
  <2>2. (j - s) % W = (j - s + W) % W
    BY <1>2, Z3
  <2> QED
    BY <1>2, <2>1, <2>2
<1> QED
  BY <1>1, <1>2

(* One jiffy later it is one more, until it wraps.                         *)
LEMMA ClockStep ==
  ASSUME NEW W \in Nat \ {0}, NEW j \in 0 .. (W - 1), NEW s \in 0 .. (W - 1),
         ((j - s) % W) + 1 < W
  PROVE  /\ (j + 1) % W \in 0 .. (W - 1)
         /\ (((j + 1) % W) - s) % W = ((j - s) % W) + 1
<1>1. (j - s) % W = IF j >= s THEN j - s ELSE j - s + W
  BY ClockDifference
<1>2. CASE j + 1 < W
  <2>1. (j + 1) % W = j + 1 /\ j + 1 \in 0 .. (W - 1)
    BY <1>2
  <2>2. (j + 1 - s) % W = IF j + 1 >= s THEN j + 1 - s ELSE j + 1 - s + W
    BY <2>1, ClockDifference
  <2>3. (j + 1 - s) % W = ((j - s) % W) + 1
    <3> DEFINE now == (j - s) % W  next == (j + 1 - s) % W
    <3> HIDE DEF now, next
    <3>1. /\ now = IF j >= s THEN j - s ELSE j - s + W
          /\ next = IF j + 1 >= s THEN j + 1 - s ELSE j + 1 - s + W
          /\ now + 1 < W
      BY <1>1, <2>2, Zenon DEF now, next
    <3>2. next = now + 1
      BY <3>1, <1>2
    <3> QED
      BY <3>2 DEF now, next
  <2> QED
    BY <2>1, <2>3
<1>3. CASE j + 1 = W
  <2>1. (j + 1) % W = 0 /\ 0 \in 0 .. (W - 1)
    BY <1>3
  <2>2. (0 - s) % W = IF 0 >= s THEN 0 - s ELSE 0 - s + W
    BY <2>1, ClockDifference
  <2>3. (0 - s) % W = ((j - s) % W) + 1
    <3> DEFINE now == (j - s) % W  next == (0 - s) % W
    <3> HIDE DEF now, next
    <3>1. /\ now = IF j >= s THEN j - s ELSE j - s + W
          /\ next = IF 0 >= s THEN 0 - s ELSE 0 - s + W
          /\ now + 1 < W
      BY <1>1, <2>2 DEF now, next
    <3>2. next = now + 1
      BY <3>1, <1>3
    <3> QED
      BY <3>2 DEF now, next
  <2> QED
    BY <2>1, <2>3
<1> QED
  BY <1>2, <1>3

(* Whole seconds grow with the jiffies they are made of.                   *)
LEMMA SecondsGrow ==
  ASSUME NEW a \in Nat, NEW b \in Nat, a <= b, NEW H \in Nat \ {0}
  PROVE  a \div H <= b \div H
  OBVIOUS

LEMMA SecondsBounded ==
  ASSUME NEW a \in Nat, NEW H \in Nat \ {0}
  PROVE  a \div H \in 0 .. a
  OBVIOUS

(* Taking one item from the work queue leaves items of it.                 *)
LEMMA RemoveAtKeeps ==
  ASSUME NEW S, NEW s \in Seq(S), NEW i \in 1 .. Len(s)
  PROVE  /\ RemoveAt(s, i) \in Seq(S)
         /\ Len(RemoveAt(s, i)) = Len(s) - 1
         /\ \A k \in 1 .. Len(RemoveAt(s, i)) : \E m \in 1 .. Len(s) : RemoveAt(s, i)[k] = s[m]
<1> DEFINE a == SubSeq(s, 1, i - 1)
           b == SubSeq(s, i + 1, Len(s))
<1>1. a \in Seq(S) /\ Len(a) = i - 1 /\ \A k \in 1 .. (i - 1) : a[k] = s[k]
  OBVIOUS
<1>2. b \in Seq(S) /\ Len(b) = Len(s) - i /\ \A k \in 1 .. (Len(s) - i) : b[k] = s[i + k]
  OBVIOUS
<1>3. RemoveAt(s, i) = a \o b
  BY DEF RemoveAt
<1> HIDE DEF a, b
<1>6. a \o b \in Seq(S) /\ Len(a \o b) = Len(a) + Len(b)
  BY <1>1, <1>2, ConcatProperties, Zenon
<1>7. \A k \in 1 .. (Len(a) + Len(b)) :
         (a \o b)[k] = IF k <= Len(a) THEN a[k] ELSE b[k - Len(a)]
  BY <1>1, <1>2
<1>4. /\ Len(a \o b) = Len(s) - 1
      /\ \A k \in 1 .. (Len(s) - 1) :
           (a \o b)[k] = IF k <= i - 1 THEN a[k] ELSE b[k - (i - 1)]
  BY <1>1, <1>2, <1>6, <1>7
<1>5. \A k \in 1 .. (Len(s) - 1) : \E m \in 1 .. Len(s) : (a \o b)[k] = s[m]
  <2> TAKE k \in 1 .. (Len(s) - 1)
  <2>1. CASE k <= i - 1
    <3>1. k \in 1 .. (i - 1) /\ k \in 1 .. Len(s)
      BY <2>1
    <3>2. (a \o b)[k] = s[k]
      BY <2>1, <3>1, <1>1, <1>4
    <3> QED
      BY <3>1, <3>2
  <2>2. CASE k > i - 1
    <3>1. k - (i - 1) \in 1 .. (Len(s) - i) /\ k + 1 \in 1 .. Len(s)
      BY <2>2
    <3>2. (a \o b)[k] = s[k + 1]
      BY <2>2, <3>1, <1>2, <1>4
    <3> QED
      BY <3>1, <3>2
  <2>3. k <= i - 1 \/ k > i - 1
    OBVIOUS
  <2> QED
    BY <2>1, <2>2, <2>3, Zenon
<1> QED
  BY <1>3, <1>4, <1>6, <1>5, SMTT(30)

-----------------------------------------------------------------------------
(* What a new event says is in range, and measured if the clock is right.  *)
LEMMA ThresholdNat ==
  Threshold \in Nat
<1>1. (Debounce + Interval - 1) \div Interval \in Nat
  <2>1. Debounce + Interval - 1 \in Nat /\ Interval \in Nat \ {0}
    BY ButtonAssumption
  <2> QED
    BY <2>1, SecondsBounded
<1> QED
  BY <1>1 DEF Threshold

LEMMA EventTyped ==
  ASSUME TypeOK, NEW state \in {0, 1}, NEW from \in 0 .. (Wrap - 1)
  PROVE  Event(state, from) \in Events
<1>1. Wrap \in Nat \ {0} /\ HZ \in Nat \ {0} /\ jiffies \in 0 .. (Wrap - 1)
      /\ since \in 0 .. Wrap /\ timed \in BOOLEAN
  BY ButtonAssumption DEF TypeOK
<1>2. (jiffies - from) % Wrap \in 0 .. (Wrap - 1)
  BY <1>1, ClockDifference
<1>3. ((jiffies - from) % Wrap) \div HZ \in 0 .. Wrap
  <2> DEFINE d == (jiffies - from) % Wrap
  <2>1. d \in 0 .. (Wrap - 1)
    BY <1>2, Zenon
  <2> HIDE DEF d
  <2>2. d \div HZ \in 0 .. d
    BY <2>1, <1>1, SecondsBounded
  <2>3. d \div HZ \in 0 .. Wrap
    BY <2>1, <2>2, <1>1
  <2> QED
    BY <2>3, Zenon DEF d
<1>4. since \div HZ \in 0 .. Wrap
  <2>1. since \div HZ \in 0 .. since
    BY <1>1, SecondsBounded
  <2> QED
    BY <2>1, <1>1
<1>5. (since < Wrap /\ timed) \in BOOLEAN /\ (state = 1) \in BOOLEAN
  OBVIOUS
<1> QED
  BY <1>3, <1>4, <1>5, Zenon DEF Event, Events

LEMMA EventMeasured ==
  ASSUME TypeOK, Clock, NEW state \in {0, 1}
  PROVE  Measured(Event(state, IF seen = 0 THEN jiffies ELSE seen))
<1> DEFINE from == IF seen = 0 THEN jiffies ELSE seen
           d == (jiffies - from) % Wrap
<1>1. Wrap \in Nat \ {0} /\ HZ \in Nat \ {0} /\ jiffies \in 0 .. (Wrap - 1)
      /\ since \in 0 .. Wrap /\ timed \in BOOLEAN /\ seen \in 0 .. (Wrap - 1)
  BY ButtonAssumption DEF TypeOK
<1>2. d \in 0 .. (Wrap - 1)
  BY <1>1, ClockDifference
<1>3. CASE ~ timed
  <2>1. seen = 0 /\ since = 0
    BY <1>3 DEF Clock
  <2>2. d = 0
    BY <2>1, <1>1, ClockDifference
  <2>3. d \div HZ <= since \div HZ
    <3> HIDE DEF d
    <3> QED
      BY <2>1, <2>2, <1>1, SecondsGrow
  <2> QED
    BY <1>3, <2>3, Zenon DEF Measured, Event
<1>4. CASE timed
  <2>1. from = seen /\ (since < Wrap => since = d)
    BY <1>4 DEF Clock
  <2>2. d <= since
    BY <2>1, <1>1, <1>2
  <2>3. d \div HZ <= since \div HZ
    <3> HIDE DEF d
    <3> QED
      BY <2>2, <1>1, <1>2, SecondsGrow
  <2>4. since < Wrap => d \div HZ = since \div HZ
    BY <2>1
  <2> QED
    BY <2>3, <2>4, Zenon DEF Measured, Event
<1> QED
  BY <1>1, <1>3, <1>4, Zenon

-----------------------------------------------------------------------------
(* Every step of the driver, of procd and of the script keeps the types.   *)
LEMMA ZeroTyped ==
  /\ 0 \in 0 .. Threshold /\ 0 \in 0 .. (Wrap - 1) /\ 0 \in 0 .. Wrap
  /\ {Idle, Interval, SoftwareDebounce} \subseteq Idle .. (Debounce + Interval)
  /\ NoEvent \in Events
  BY ThresholdNat, ButtonAssumption DEF Idle, SoftwareDebounce, NoEvent, Events

LEMMA InitTyped ==
  Init => TypeOK
<1> SUFFICES ASSUME Init PROVE TypeOK
  OBVIOUS
<1>1. NoEvent \in Events /\ Wrap \in Nat \ {0}
  BY ButtonAssumption DEF NoEvent, Events
<1>2. <<>> \in Seq(Events) /\ Len(<<>>) = 0
  OBVIOUS
<1>3. pressed \in BOOLEAN
  BY Zenon DEF Init, ButtonInit
<1>4. Len(works) <= MaxPending
  BY <1>2, ButtonAssumption DEF Init, ButtonInit
<1> QED
  BY <1>1, <1>2, <1>3, <1>4, ZeroTyped, Zenon DEF Init, ButtonInit, TypeOK

LEMMA ThresholdKept ==
  ASSUME polled' = polled
  PROVE  Threshold' = Threshold
  BY Zenon DEF Threshold

LEMMA TypeKept ==
  TypeOK /\ [Next]_vars => TypeOK'
<1> SUFFICES ASSUME TypeOK, [Next]_vars PROVE TypeOK'
  OBVIOUS
<1> USE ButtonAssumption, ThresholdNat
<1> USE DEF Idle, Unknown
<1>1. CASE UNCHANGED vars
  BY <1>1, ThresholdKept DEF vars, buttonVars, scriptVars, TypeOK
<1>2. CASE Driver(Probe)
  <2>1. /\ UNCHANGED <<line, jiffies, polled, type, edge, works, flaw, pressed, armed, asked, cause>>
        /\ last' = Unknown /\ count' = 0 /\ seen' = 0 /\ timed' = FALSE /\ since' = 0
        /\ timer' \in {Interval, SoftwareDebounce} /\ phase' \in {"up", "window"}
    BY <1>2 DEF Driver, Probe, scriptVars, kind
  <2>2. Threshold' = Threshold
    BY <2>1, ThresholdKept
  <2> QED
    BY <2>1, <2>2, ZeroTyped, Zenon DEF TypeOK
<1>3. CASE Driver(RequestIrq)
  <2>1. /\ UNCHANGED <<line, jiffies, polled, type, last, count, seen, timer, edge, works>>
        /\ UNCHANGED <<since, timed, samples, flaw, pressed, armed, asked, cause>>
    BY <1>3 DEF Driver, RequestIrq, scriptVars, kind, bdata, history
  <2>2. phase' = "up"
    BY <1>3 DEF Driver, RequestIrq
  <2>3. Threshold' = Threshold
    BY <2>1, ThresholdKept, Zenon
  <2> QED
    BY <2>1, <2>2, <2>3 DEF TypeOK
<1>4. CASE Driver(GpioKeysRemove)
  <2>1. /\ UNCHANGED <<line, jiffies, polled, type, works, pressed, armed, asked, cause>>
        /\ phase' = "off" /\ last' = 0 /\ count' = 0 /\ seen' = 0 /\ timer' = Idle
        /\ edge' = FALSE /\ timed' = FALSE /\ since' = 0 /\ flaw' = TRUE
    BY <1>4 DEF Driver, GpioKeysRemove, scriptVars, kind
  <2>2. Threshold' = Threshold
    BY <2>1, ThresholdKept
  <2> QED
    BY <2>1, <2>2, ZeroTyped, Zenon DEF TypeOK
<1>5. CASE Driver(HandleIrq)
  <2>1. /\ UNCHANGED <<line, jiffies, polled, type, phase, last, count, seen, works>>
        /\ UNCHANGED <<since, timed, flaw, pressed, armed, asked, cause>>
        /\ edge' = FALSE /\ timer' = SoftwareDebounce
    BY <1>5 DEF Driver, HandleIrq, scriptVars, kind, bdata, history
  <2>2. Threshold' = Threshold
    BY <2>1, ThresholdKept
  <2> QED
    BY <2>1, <2>2, ZeroTyped, Zenon DEF TypeOK
<1>6. CASE Driver(RunWork)
  <2>1. polled' = polled /\ Threshold' = Threshold
    BY <1>6, ThresholdKept, Zenon DEF Driver, RunWork, kind
  <2>2. CASE Report(line) /\ count >= Threshold
    <3>1. (IF seen = 0 THEN jiffies ELSE seen) \in 0 .. (Wrap - 1)
      BY DEF TypeOK
    <3>2. works' \in Seq(Events) /\ Len(works') <= MaxPending
      <4>1. CASE UNCHANGED works
        BY <4>1 DEF TypeOK
      <4>2. CASE works' = Append(works, Event(line, IF seen = 0 THEN jiffies ELSE seen))
        <5>1. Event(line, IF seen = 0 THEN jiffies ELSE seen) \in Events
          BY <3>1, EventTyped DEF TypeOK
        <5>2. works \in Seq(Events) /\ Len(works) < MaxPending
          BY <2>2, Zenon DEF Report, TypeOK
        <5> QED
          BY <4>2, <5>1, <5>2, AppendProperties
      <4> QED
        BY <2>2, <4>1, <4>2, Zenon DEF Report, CreateEvent
    <3>3. /\ UNCHANGED <<line, jiffies, polled, type, phase, edge, pressed, armed, asked, cause>>
          /\ timer' = IF polled THEN Interval ELSE Idle
      BY <1>6, Zenon DEF Driver, RunWork, scriptVars, kind
    <3>4. last' = line /\ count' = 0 /\ seen' = jiffies /\ since' = 0 /\ flaw' \in {flaw, TRUE}
      BY <2>2, Zenon DEF Report, CreateEvent
    <3>5. timed' \in BOOLEAN
      BY <2>2, Zenon DEF Report
    <3> QED
      BY <2>1, <3>2, <3>3, <3>4, <3>5, ZeroTyped, ZenonT(40) DEF TypeOK
  <2>3. CASE /\ count' \in 0 .. Threshold /\ last' \in {last, line}
             /\ UNCHANGED <<seen, works, since, timed, flaw>>
    BY <1>6, <2>1, <2>3 DEF Driver, Up, RunWork, TypeOK, scriptVars, kind
  <2>4. \/ Report(line) /\ count >= Threshold
        \/ /\ count' \in 0 .. Threshold /\ last' \in {last, line}
           /\ UNCHANGED <<seen, works, since, timed, flaw>>
    BY <1>6 DEF Driver, RunWork, HandleButton, TypeOK
  <2> QED
    BY <2>2, <2>3, <2>4
<1>7. CASE Driver(Toggle)
  BY <1>7, ThresholdKept DEF Driver, Up, Toggle, TypeOK, scriptVars, kind, bdata, history
<1>8. CASE Driver(Tick)
  <2>1. (jiffies + 1) % Wrap \in 0 .. (Wrap - 1)
    BY DEF TypeOK
  <2> QED
    BY <1>8, <2>1, ThresholdKept DEF Driver, Up, Tick, TypeOK, scriptVars, kind, bdata
<1>9. ASSUME NEW i \in 1 .. MaxPending, Up /\ Deliver(i) PROVE TypeOK'
  <2>1. i \in 1 .. Len(works) /\ works' = RemoveAt(works, i)
    BY <1>9, Zenon DEF Deliver, Broadcast
  <2>2. works' \in Seq(Events) /\ Len(works') <= MaxPending /\ works[i] \in Events
    BY <2>1, RemoveAtKeeps DEF TypeOK
  <2>3. NoEvent \in Events
    BY DEF NoEvent, Events
  <2>4. armed' \in BOOLEAN /\ asked' \in {"none", "reboot", "reset"} /\ cause' \in Events
    BY <1>9, <2>2, <2>3, ZenonT(40) DEF Deliver, Pressed, Released, Asks, TypeOK
  <2> QED
    BY <1>9, <2>2, <2>4, ThresholdKept DEF Deliver, Broadcast, TypeOK, kind, bdata
<1>10. ASSUME NEW i \in 1 .. MaxPending, Driver(NoMemory(i)) PROVE TypeOK'
  <2>1. i \in 1 .. Len(works) /\ works' = RemoveAt(works, i)
    BY <1>10, Zenon DEF Driver, NoMemory
  <2>2. works' \in Seq(Events) /\ Len(works') <= MaxPending
    BY <2>1, RemoveAtKeeps, SMTT(30) DEF TypeOK
  <2> QED
    BY <1>10, <2>2, ThresholdKept DEF Driver, Up, NoMemory, TypeOK, scriptVars, kind, bdata
<1>11. CASE Up /\ Timeout
  BY <1>11, ThresholdKept, ZenonT(40) DEF Up, Timeout, TypeOK, buttonVars
<1>12. CASE ResetFails
  <2>1. NoEvent \in Events
    BY DEF NoEvent, Events
  <2> QED
    BY <1>12, <2>1, ThresholdKept DEF ResetFails, TypeOK, buttonVars
<1>13. CASE Reboot
  <2>1. NoEvent \in Events
    BY DEF NoEvent, Events
  <2>2. <<>> \in Seq(Events) /\ Len(<<>>) = 0
    OBVIOUS
  <2>3. /\ UNCHANGED <<line, polled, type>> /\ jiffies' \in 0 .. (Wrap - 1)
        /\ phase' = "off" /\ last' = 0 /\ count' = 0 /\ seen' = 0 /\ timer' = Idle
        /\ edge' = FALSE /\ works' = <<>> /\ timed' = FALSE /\ since' = 0 /\ flaw' = FALSE
        /\ armed' = FALSE /\ asked' = "none" /\ cause' = NoEvent
    BY <1>13, Zenon DEF Reboot, kind
  <2>4. pressed' \in BOOLEAN
    BY <1>13, Zenon DEF Reboot
  <2>5. Threshold' = Threshold
    BY <2>3, ThresholdKept, Zenon
  <2>6. Len(works') <= MaxPending
    BY <2>2, <2>3
  <2> QED
    BY <2>1, <2>2, <2>3, <2>4, <2>5, <2>6, ZeroTyped, Zenon DEF TypeOK
<1> QED
  BY <1>1, <1>2, <1>3, <1>4, <1>5, <1>6, <1>7, <1>8, <1>9, <1>10, <1>11, <1>12, <1>13, Zenon DEF Next

(* "The variables have the types of the driver's and the script's data",   *)
(* the counter of gpio_keys_handle_button never above its threshold.       *)
THEOREM ButtonTyped ==
  Spec => []TypeOK
  BY InitTyped, TypeKept, PTL DEF Spec

-----------------------------------------------------------------------------
(* Steps that touch neither the clock of the button nor what it measured.  *)
LEMMA MeasureUntouched ==
  ASSUME MeasureInv, TypeOK', UNCHANGED <<jiffies, seen, timed, since, works, asked, cause>>
  PROVE  MeasureInv'
<1>1. Clock'
  BY DEF MeasureInv, Clock
<1>2. \A i \in 1 .. Len(works') : Measured(works'[i])
  BY DEF MeasureInv
<1>3. Measured(cause') /\ (asked' = "reset" => cause'.seen >= 2)
      /\ (asked' = "reboot" => cause'.seen < 1)
  BY DEF MeasureInv
<1> QED
  BY <1>1, <1>2, <1>3 DEF MeasureInv, Measured

(* The queue after an event has left it.                                   *)
LEMMA QueueMeasured ==
  ASSUME MeasureInv, NEW i \in 1 .. Len(works), works' = RemoveAt(works, i)
  PROVE  \A k \in 1 .. Len(works') : Measured(works'[k])
<1>1. works \in Seq(Events)
  BY DEF MeasureInv, TypeOK
<1>2. \A k \in 1 .. Len(works') : \E m \in 1 .. Len(works) : works'[k] = works[m]
  <2>1. \A k \in 1 .. Len(RemoveAt(works, i)) :
          \E m \in 1 .. Len(works) : RemoveAt(works, i)[k] = works[m]
    BY <1>1, RemoveAtKeeps
  <2> QED
    BY <2>1
<1> TAKE k \in 1 .. Len(works')
<1>3. PICK m \in 1 .. Len(works) : works'[k] = works[m]
  BY <1>2
<1>4. Measured(works[m])
  BY DEF MeasureInv
<1> QED
  BY <1>3, <1>4

LEMMA ClockUntouched ==
  ASSUME Clock, UNCHANGED <<jiffies, seen, timed, since>>
  PROVE  Clock'
  BY DEF Clock

LEMMA NoEventMeasured ==
  Measured(NoEvent)
  BY DEF Measured, NoEvent

LEMMA InitMeasured ==
  Init => MeasureInv
<1> SUFFICES ASSUME Init PROVE MeasureInv
  OBVIOUS
<1>1. TypeOK
  BY InitTyped
<1>2. Clock
  BY ButtonAssumption DEF Init, ButtonInit, Clock
<1>3. Len(works) = 0
  BY DEF Init, ButtonInit
<1> QED
  BY <1>1, <1>2, <1>3, NoEventMeasured DEF Init, MeasureInv

(* One step per action; only a new event, a jiffy and a delivery touch     *)
(* what is measured.                                                       *)
LEMMA MeasureKept ==
  MeasureInv /\ [Next]_vars => MeasureInv'
<1> SUFFICES ASSUME MeasureInv, [Next]_vars PROVE MeasureInv'
  OBVIOUS
<1>0. TypeOK /\ TypeOK' /\ Clock
  BY TypeKept, Zenon DEF MeasureInv
<1>1. CASE UNCHANGED vars
  BY <1>0, <1>1, MeasureUntouched DEF vars, buttonVars, scriptVars
<1>2. CASE Driver(Probe)
  <2>1. /\ UNCHANGED <<works, asked, cause>>
        /\ seen' = 0 /\ since' = 0 /\ timed' = FALSE
    BY <1>2, Zenon DEF Driver, Probe, scriptVars
  <2>2. Clock'
    BY <2>1, Zenon DEF Clock
  <2> QED
    BY <1>0, <2>1, <2>2 DEF MeasureInv, Measured
<1>3. CASE Driver(RequestIrq)
  BY <1>0, <1>3, MeasureUntouched, SMTT(30) DEF Driver, RequestIrq, scriptVars, bdata, history
<1>4. CASE Driver(GpioKeysRemove)
  <2>1. /\ UNCHANGED <<works, asked, cause>>
        /\ seen' = 0 /\ since' = 0 /\ timed' = FALSE
    BY <1>4 DEF Driver, GpioKeysRemove, scriptVars
  <2>2. Clock'
    BY <2>1 DEF Clock
  <2> QED
    BY <1>0, <2>1, <2>2 DEF MeasureInv, Measured
<1>5. CASE Driver(HandleIrq)
  BY <1>0, <1>5, MeasureUntouched DEF Driver, HandleIrq, scriptVars, bdata, history
<1>6. CASE Driver(RunWork)
  <2>1. UNCHANGED <<line, jiffies, asked, cause>>
    BY <1>6, Zenon DEF Driver, RunWork, scriptVars
  <2>2. CASE Report(line)
    <3>1. seen' = jiffies /\ since' = 0 /\ (timed' <=> jiffies # 0)
      BY <2>2, Zenon DEF Report
    <3>2. Clock'
      <4>1. jiffies \in 0 .. (Wrap - 1) /\ (jiffies - jiffies) % Wrap = 0
        BY <1>0, ButtonAssumption DEF TypeOK
      <4> QED
        BY <2>1, <3>1, <4>1 DEF Clock
    <3>3. \A i \in 1 .. Len(works') : Measured(works'[i])
      <4>1. CASE UNCHANGED works
        BY <4>1, Zenon DEF MeasureInv
      <4>2. CASE works' = Append(works, Event(line, IF seen = 0 THEN jiffies ELSE seen))
        <5> DEFINE e == Event(line, IF seen = 0 THEN jiffies ELSE seen)
        <5>1. Measured(e)
          BY <1>0, EventMeasured, SMTT(30) DEF TypeOK
        <5>2. e \in Events /\ works \in Seq(Events)
          BY <1>0, EventTyped, SMTT(30) DEF TypeOK
        <5> HIDE DEF e
        <5>3. /\ Len(works') = Len(works) + 1
              /\ \A i \in 1 .. Len(works) : works'[i] = works[i]
              /\ works'[Len(works) + 1] = e
          BY <4>2, <5>2, AppendProperties DEF e
        <5>4. \A i \in 1 .. Len(works') : i \in 1 .. Len(works) \/ i = Len(works) + 1
          BY <5>2, <5>3
        <5>5. \A i \in 1 .. Len(works) : Measured(works[i])
          BY DEF MeasureInv
        <5> QED
          BY <5>1, <5>3, <5>4, <5>5, Zenon
      <4> QED
        BY <2>2, <4>1, <4>2, Zenon DEF Report, CreateEvent
    <3> QED
      BY <1>0, <2>1, <3>2, <3>3 DEF MeasureInv, Measured
  <2>3. CASE UNCHANGED <<seen, works, since, timed>>
    BY <1>0, <2>1, <2>3, MeasureUntouched, Zenon
  <2> QED
    BY <1>6, <2>2, <2>3 DEF Driver, RunWork, HandleButton
<1>7. CASE Driver(Toggle)
  BY <1>0, <1>7, MeasureUntouched, Zenon DEF Driver, Toggle, scriptVars, bdata, history
<1>8. CASE Driver(Tick)
  <2>1. /\ UNCHANGED <<seen, timed, works, asked, cause>>
        /\ jiffies' = (jiffies + 1) % Wrap
        /\ since' = IF timed /\ since < Wrap THEN since + 1 ELSE since
    BY <1>8 DEF Driver, Tick, scriptVars, bdata
  <2>2. /\ Wrap \in Nat \ {0} /\ jiffies \in 0 .. (Wrap - 1) /\ seen \in 0 .. (Wrap - 1)
        /\ since \in 0 .. Wrap
    BY <1>0, ButtonAssumption DEF TypeOK
  <2>3. timed /\ since' < Wrap => since' = (jiffies' - seen) % Wrap
    <3> SUFFICES ASSUME timed, since' < Wrap PROVE since' = (jiffies' - seen) % Wrap
      OBVIOUS
    <3>1. since < Wrap /\ since' = since + 1
      BY <2>1, <2>2
    <3>2. since = (jiffies - seen) % Wrap
      BY <3>1, <1>0 DEF Clock
    <3> QED
      BY <2>1, <2>2, <3>1, <3>2, ClockStep, Zenon
  <2>4. Clock'
    BY <1>0, <2>1, <2>3 DEF Clock
  <2> QED
    BY <1>0, <2>1, <2>4, Zenon DEF MeasureInv, Measured
<1>9. ASSUME NEW i \in 1 .. MaxPending, Up /\ Deliver(i) PROVE MeasureInv'
  <2>1. /\ i \in 1 .. Len(works) /\ works' = RemoveAt(works, i)
        /\ UNCHANGED <<jiffies, seen, timed, since>>
    BY <1>9, Zenon DEF Deliver, Broadcast, bdata
  <2>2. \A k \in 1 .. Len(works') : Measured(works'[k])
    BY <2>1, QueueMeasured
  <2>3. Clock'
    BY <1>0, <2>1, ClockUntouched
  <2>4. Measured(works[i]) /\ Measured(cause) /\ works[i].seen \in Nat
    <3>1. works[i] \in Events
      BY <1>0, <2>1 DEF TypeOK
    <3>2. Measured(works[i]) /\ Measured(cause)
      BY <2>1, Zenon DEF MeasureInv
    <3> QED
      BY <3>1, <3>2, ButtonAssumption DEF Events
  <2>5. /\ Measured(cause') /\ (asked' = "reset" => cause'.seen >= 2)
        /\ (asked' = "reboot" => cause'.seen < 1)
    BY <1>9, <2>4, NoEventMeasured, SMTT(30) DEF Deliver, Pressed, Released, Asks, Up
  <2> QED
    BY <1>0, <2>2, <2>3, <2>5 DEF MeasureInv, Measured
<1>10. ASSUME NEW i \in 1 .. MaxPending, Driver(NoMemory(i)) PROVE MeasureInv'
  <2>1. /\ i \in 1 .. Len(works) /\ works' = RemoveAt(works, i)
        /\ UNCHANGED <<jiffies, seen, timed, since, asked, cause>>
    BY <1>10, Zenon DEF Driver, NoMemory, bdata, scriptVars
  <2>2. \A k \in 1 .. Len(works') : Measured(works'[k])
    BY <2>1, QueueMeasured
  <2>3. Clock'
    BY <1>0, <2>1, ClockUntouched
  <2> QED
    BY <1>0, <2>1, <2>2, <2>3 DEF MeasureInv, Measured
<1>11. CASE Up /\ Timeout
  BY <1>0, <1>11, MeasureUntouched DEF Timeout, buttonVars
<1>12. CASE ResetFails
  <2>1. UNCHANGED <<jiffies, seen, timed, since, works>> /\ asked' = "none" /\ cause' = NoEvent
    BY <1>12, Zenon DEF ResetFails, buttonVars
  <2>2. Clock'
    BY <1>0, <2>1, ClockUntouched
  <2> QED
    BY <1>0, <2>1, <2>2, NoEventMeasured DEF MeasureInv, Measured
<1>13. CASE Reboot
  <2>1. /\ seen' = 0 /\ since' = 0 /\ timed' = FALSE /\ works' = <<>>
        /\ asked' = "none" /\ cause' = NoEvent
    BY <1>13, Zenon DEF Reboot
  <2>2. Clock'
    BY <2>1, Zenon DEF Clock
  <2>3. Len(works') = 0
    BY <2>1
  <2> QED
    BY <1>0, <2>1, <2>2, <2>3, NoEventMeasured, SMTT(30) DEF MeasureInv, Measured
<1> QED
  BY <1>1, <1>2, <1>3, <1>4, <1>5, <1>6, <1>7, <1>8, <1>9, <1>10, <1>11, <1>12, <1>13, SMTT(30)
    DEF Next

(* The SEEN of a release is the time the button was held, for every clock, *)
(* debounce and poll interval, queue and number of lost events.            *)
THEOREM ButtonMeasuresPress ==
  Spec => []PressLength
<1>1. MeasureInv => PressLength
  BY DEF MeasureInv, PressLength, Measured
<1> QED
  BY <1>1, InitMeasured, MeasureKept, PTL DEF Spec

(* The script resets after a press of at least two seconds only and        *)
(* reboots after one of less than a second only, whatever events were lost *)
(* or overtook each other.                                                 *)
THEOREM ButtonActionFitsPress ==
  Spec => []ActionFitsPress
<1>1. MeasureInv => ActionFitsPress
  <2> SUFFICES ASSUME MeasureInv PROVE ActionFitsPress
    OBVIOUS
  <2>1. cause.seen \in Nat /\ cause.real \in Nat /\ Measured(cause)
    BY ButtonAssumption DEF MeasureInv, TypeOK, Events
  <2> QED
    BY <2>1 DEF MeasureInv, ActionFitsPress, Measured
<1> QED
  BY <1>1, InitMeasured, MeasureKept, PTL DEF Spec

-----------------------------------------------------------------------------
LEMMA InitUnpressed ==
  ASSUME Types = {"EV_KEY"}
  PROVE  Init => PressInv
<1> SUFFICES ASSUME Init PROVE PressInv
  OBVIOUS
<1>1. TypeOK
  BY InitTyped
<1>2. type = "EV_KEY" /\ (pressed <=> line = 1) /\ last = 0 /\ works = <<>> /\ asked = "none"
  BY ZenonT(40) DEF Init, ButtonInit
<1> QED
  BY <1>1, <1>2 DEF PressInv

(* Only a reading of 1, or one of 0 after it, makes an event.              *)
LEMMA PressKept ==
  PressInv /\ [Next]_vars => PressInv'
<1> SUFFICES ASSUME PressInv, [Next]_vars PROVE PressInv'
  OBVIOUS
<1>0. TypeOK /\ TypeOK' /\ type = "EV_KEY"
  BY TypeKept, Zenon DEF PressInv
<1>1. CASE UNCHANGED vars
  BY <1>0, <1>1 DEF PressInv, vars, buttonVars, scriptVars
<1>2. CASE Driver(Probe)
  BY <1>0, <1>2 DEF PressInv, Driver, Probe, scriptVars, kind, Unknown
<1>3. CASE Driver(RequestIrq)
  BY <1>0, <1>3 DEF PressInv, Driver, RequestIrq, scriptVars, kind, bdata
<1>4. CASE Driver(GpioKeysRemove)
  BY <1>0, <1>4 DEF PressInv, Driver, GpioKeysRemove, scriptVars, kind
<1>5. CASE Driver(HandleIrq)
  BY <1>0, <1>5 DEF PressInv, Driver, HandleIrq, scriptVars, kind, bdata
<1>6. CASE Driver(RunWork)
  <2>1. UNCHANGED <<line, type, pressed, asked>>
    BY <1>6 DEF Driver, RunWork, scriptVars, kind
  <2>2. CASE UNCHANGED works /\ last' \in {last, line}
    BY <1>0, <2>1, <2>2 DEF PressInv
  <2>3. CASE ~ Unadvertised /\ last # line
    <3>1. line = 1 \/ last = 1
      BY <1>0, <2>3 DEF Unadvertised, TypeOK, Unknown
    <3>2. pressed
      BY <3>1, Zenon DEF PressInv
    <3> QED
      BY <1>0, <2>1, <3>2 DEF PressInv
  <2> QED
    BY <1>6, <2>2, <2>3 DEF Driver, RunWork, HandleButton
<1>7. CASE Driver(Toggle)
  <2>1. /\ UNCHANGED <<type, last, works, asked>> /\ line' = 1 - line
        /\ pressed' <=> pressed \/ line = 0
    BY <1>7, Zenon DEF Driver, Toggle, scriptVars, kind, bdata
  <2>2. line' = 1 => line = 0
    BY <1>0, <2>1 DEF TypeOK
  <2> QED
    BY <1>0, <2>1, <2>2 DEF PressInv
<1>8. CASE Driver(Tick)
  BY <1>0, <1>8 DEF PressInv, Driver, Tick, scriptVars, kind, bdata
<1>9. ASSUME NEW i \in 1 .. MaxPending, Up /\ Deliver(i) PROVE PressInv'
  <2>1. i \in 1 .. Len(works) /\ UNCHANGED <<line, type, last, pressed>>
    BY <1>9, Zenon DEF Deliver, Broadcast, kind, bdata
  <2>2. pressed
    BY <2>1 DEF PressInv
  <2> QED
    BY <1>0, <2>1, <2>2 DEF PressInv
<1>10. ASSUME NEW i \in 1 .. MaxPending, Driver(NoMemory(i)) PROVE PressInv'
  <2>1. i \in 1 .. Len(works) /\ UNCHANGED <<line, type, last, pressed>>
    BY <1>10 DEF Driver, NoMemory, kind, bdata
  <2>2. pressed
    BY <2>1 DEF PressInv
  <2> QED
    BY <1>0, <2>1, <2>2 DEF PressInv
<1>11. CASE Up /\ Timeout
  BY <1>0, <1>11, Zenon DEF PressInv, Timeout, buttonVars
<1>12. CASE ResetFails
  BY <1>0, <1>12 DEF PressInv, ResetFails, buttonVars
<1>13. CASE Reboot
  <2>1. /\ UNCHANGED <<line, type>> /\ last' = 0 /\ works' = <<>> /\ asked' = "none"
        /\ pressed' <=> line = 1
    BY <1>13, Zenon DEF Reboot, kind
  <2> QED
    BY <1>0, <2>1 DEF PressInv
<1> QED
  BY <1>1, <1>2, <1>3, <1>4, <1>5, <1>6, <1>7, <1>8, <1>9, <1>10, <1>11, <1>12, <1>13 DEF Next

(* "Don't advertise unpressed buttons on initialization": a key that       *)
(* nobody presses causes neither a reboot nor a reset, however the driver  *)
(* is bound, its work scheduled and its events lost.                       *)
THEOREM ButtonNoActionUnpressed ==
  ASSUME Types = {"EV_KEY"}
  PROVE  Spec => []NoActionUnpressed
<1>1. PressInv => NoActionUnpressed
  BY DEF PressInv, NoActionUnpressed
<1>2. Init => PressInv
  BY InitUnpressed, Zenon
<1> QED
  BY <1>1, <1>2, PressKept, PTL DEF Spec

-----------------------------------------------------------------------------
(* What debouncing promises and what is left of a press in procd.          *)

(* What gpio_keys_handle_button counts: the readings of another state than *)
(* the reported one, which for a key that is not advertised yet is 1.      *)
NewState == IF last = Unknown THEN 1 ELSE 1 - last

(* The inductive invariant of GlitchFiltered: the count stands for the     *)
(* readings before this one.                                               *)
DebounceInv ==
  /\ TypeOK
  /\ samples \in Seq({0, 1}) /\ Len(samples) <= Threshold + 1
  /\ type = "EV_KEY" =>
       /\ count <= Len(samples)
       /\ \A k \in 1 .. Len(samples) :
            k > Len(samples) - count => samples[k] = NewState

(* The inductive invariant of TimeoutDisarmed: while nothing was lost, the *)
(* last event on its way, or else the timeout, agrees with the reported    *)
(* state; no work runs for a driver that is not bound.                     *)
DisarmInv ==
  /\ TypeOK
  /\ phase = "off" => timer = Idle /\ ~ edge
  /\ ~ flaw =>
       /\ phase = "off" \/ last = Unknown => works = <<>> /\ ~ armed
       /\ last # Unknown => IF works = <<>> THEN armed => last = 1
                            ELSE works[Len(works)].pressed <=> last = 1

-----------------------------------------------------------------------------
(* The window over the readings: the oldest one leaves when it is full.    *)
Window(s, T) == IF Len(s) > T THEN Tail(s) ELSE s

LEMMA WindowSlides ==
  ASSUME NEW s \in Seq({0, 1}), NEW T \in Nat, Len(s) <= T + 1
  PROVE  /\ Window(s, T) \in Seq({0, 1})
         /\ Len(Window(s, T)) = IF Len(s) > T THEN T ELSE Len(s)
         /\ \A k \in 1 .. Len(Window(s, T)) :
              Window(s, T)[k] = s[k + Len(s) - Len(Window(s, T))]
<1> DEFINE t == Window(s, T)
<1>1. CASE Len(s) > T
  <2>1. Len(s) = T + 1 /\ s # <<>>
    BY <1>1
  <2>2. t = Tail(s) /\ t \in Seq({0, 1}) /\ Len(t) = T /\ \A k \in 1 .. T : t[k] = s[k + 1]
    BY <1>1, <2>1, HeadTailProperties DEF Window
  <2>3. \A k \in 1 .. T : k + Len(s) - Len(t) = k + 1
    <3>1. \A k \in 1 .. T : k + (T + 1) - T = k + 1
      OBVIOUS
    <3> QED
      BY <2>1, <2>2, <3>1, Zenon
  <2>4. \A k \in 1 .. Len(t) : t[k] = s[k + Len(s) - Len(t)]
    BY <2>2, <2>3, Zenon
  <2> QED
    BY <1>1, <2>2, <2>4
<1>2. CASE ~ (Len(s) > T)
  <2>1. t = s /\ \A k \in 1 .. Len(t) : t[k] = s[k + Len(s) - Len(t)]
    BY <1>2 DEF Window
  <2> QED
    BY <1>2, <2>1, Zenon
<1> QED
  BY <1>1, <1>2

(* A reading that is counted is one more of the new state; when there are  *)
(* enough of them, all the window is.                                      *)
LEMMA ReadingCounted ==
  ASSUME DebounceInv, Driver(RunWork), type = "EV_KEY", ~ Unadvertised, last # line
  PROVE  /\ line = NewState
         /\ count < Threshold =>
              /\ count + 1 <= Len(samples')
              /\ \A k \in 1 .. Len(samples') :
                   k > Len(samples') - (count + 1) => samples'[k] = line
         /\ count >= Threshold =>
              /\ Len(samples') = Threshold + 1
              /\ \A k \in 1 .. Len(samples') : samples'[k] = line
<1> DEFINE t == Window(samples, Threshold)
<1>1. /\ line \in {0, 1} /\ last \in {Unknown, 0, 1} /\ Threshold \in Nat
      /\ count \in 0 .. Threshold /\ samples' = Append(t, line)
      /\ samples \in Seq({0, 1}) /\ Len(samples) <= Threshold + 1
  BY ThresholdNat, Zenon DEF DebounceInv, TypeOK, Driver, RunWork, Window
<1>2. line = NewState
  BY <1>1 DEF NewState, Unadvertised, Unknown
<1>8. /\ t \in Seq({0, 1}) /\ Len(t) = IF Len(samples) > Threshold THEN Threshold ELSE Len(samples)
      /\ \A k \in 1 .. Len(t) : t[k] = samples[k + Len(samples) - Len(t)]
  BY <1>1, WindowSlides, Zenon
<1> HIDE DEF t
<1>9. /\ Len(Append(t, line)) = Len(t) + 1
      /\ \A k \in 1 .. Len(t) : Append(t, line)[k] = t[k]
      /\ Append(t, line)[Len(t) + 1] = line
  BY <1>1, <1>8, AppendProperties
<1>3. /\ t \in Seq({0, 1}) /\ Len(t) = IF Len(samples) > Threshold THEN Threshold ELSE Len(samples)
      /\ \A k \in 1 .. Len(t) : t[k] = samples[k + Len(samples) - Len(t)]
      /\ Len(samples') = Len(t) + 1
      /\ \A k \in 1 .. Len(t) : samples'[k] = t[k]
      /\ samples'[Len(t) + 1] = line
  BY <1>1, <1>8, <1>9, Zenon
<1>4. count <= Len(samples) /\ \A k \in 1 .. Len(samples) :
                                  k > Len(samples) - count => samples[k] = line
  BY <1>2, Zenon DEF DebounceInv
<1>5. Len(t) \in Nat /\ Len(samples) \in Nat /\ count <= Len(t)
  BY <1>1, <1>3, <1>4
<1>6. ASSUME NEW k \in 1 .. Len(samples'), k > Len(samples') - (count + 1)
      PROVE  samples'[k] = line
  <2>1. CASE k = Len(t) + 1
    BY <1>3, <2>1
  <2>2. CASE k # Len(t) + 1
    <3>1. k \in 1 .. Len(t) /\ k > Len(t) - count
      BY <1>1, <1>3, <1>5, <1>6, <2>2
    <3>2. k + Len(samples) - Len(t) \in 1 .. Len(samples)
      BY <1>3, <1>5, <3>1
    <3>3. k + Len(samples) - Len(t) > Len(samples) - count
      BY <1>1, <1>5, <3>1
    <3> QED
      BY <1>3, <1>4, <3>1, <3>2, <3>3
  <2> QED
    BY <2>1, <2>2, Zenon
<1>7. ASSUME count >= Threshold
      PROVE  Len(samples') = Threshold + 1 /\ \A k \in 1 .. Len(samples') : samples'[k] = line
  <2>1. count = Threshold /\ Len(t) = Threshold
    BY <1>1, <1>3, <1>5, <1>7
  <2>2. \A k \in 1 .. Len(samples') : k > Len(samples') - (count + 1)
    BY <1>3, <2>1
  <2> QED
    BY <1>3, <1>6, <2>1, <2>2
<1>10. count + 1 <= Len(samples')
  BY <1>1, <1>3, <1>5
<1> QED
  BY <1>2, <1>6, <1>7, <1>10, Zenon

-----------------------------------------------------------------------------
(* A step that does not read the line leaves what was read, or forgets all *)
(* of it with the driver's data.                                           *)
LEMMA DebounceUntouched ==
  ASSUME DebounceInv, TypeOK', UNCHANGED <<polled, type, samples, count, last>>
  PROVE  DebounceInv'
<1>1. Threshold' = Threshold
  BY ThresholdKept
<1> QED
  BY <1>1, Zenon DEF DebounceInv, NewState

LEMMA DebounceForgotten ==
  ASSUME TypeOK', polled' = polled, samples' = <<>>, count' = 0
  PROVE  DebounceInv'
<1>1. Threshold' = Threshold /\ Threshold \in Nat
  BY ThresholdKept, ThresholdNat, Zenon
<1>2. samples' \in Seq({0, 1}) /\ Len(samples') = 0
  OBVIOUS
<1> QED
  BY <1>1, <1>2 DEF DebounceInv

(* What is read is a level of the line, and the window keeps its length.   *)
LEMMA SamplesTyped ==
  ASSUME DebounceInv, Driver(RunWork)
  PROVE  samples' \in Seq({0, 1}) /\ Len(samples') <= Threshold + 1
<1> DEFINE t == Window(samples, Threshold)
<1>1. /\ line \in {0, 1} /\ Threshold \in Nat /\ samples' = Append(t, line)
      /\ samples \in Seq({0, 1}) /\ Len(samples) <= Threshold + 1
  BY ThresholdNat, Zenon DEF DebounceInv, TypeOK, Driver, RunWork, Window
<1>2. t \in Seq({0, 1}) /\ Len(t) = IF Len(samples) > Threshold THEN Threshold ELSE Len(samples)
  BY <1>1, WindowSlides, Zenon
<1> HIDE DEF t
<1>3. Len(t) <= Threshold
  BY <1>1, <1>2
<1> QED
  BY <1>1, <1>2, <1>3, AppendProperties

LEMMA DebounceKept ==
  DebounceInv /\ [Next]_vars => DebounceInv'
<1> SUFFICES ASSUME DebounceInv, [Next]_vars PROVE DebounceInv'
  OBVIOUS
<1>0. TypeOK /\ TypeOK'
  BY TypeKept, Zenon DEF DebounceInv
<1>1. CASE UNCHANGED vars
  BY <1>0, <1>1, DebounceUntouched DEF vars, buttonVars
<1>2. CASE Driver(Probe)
  BY <1>0, <1>2, DebounceForgotten DEF Driver, Probe, kind
<1>3. CASE Driver(RequestIrq)
  BY <1>0, <1>3, DebounceUntouched DEF Driver, RequestIrq, kind, bdata, history
<1>4. CASE Driver(GpioKeysRemove)
  BY <1>0, <1>4, DebounceForgotten DEF Driver, GpioKeysRemove, kind
<1>5. CASE Driver(HandleIrq)
  BY <1>0, <1>5, DebounceUntouched DEF Driver, HandleIrq, kind, bdata, history
<1>6. CASE Driver(RunWork)
  <2>1. /\ UNCHANGED <<polled, type, line>> /\ Threshold' = Threshold
        /\ samples' \in Seq({0, 1}) /\ Len(samples') <= Threshold + 1
    BY <1>6, SamplesTyped, ThresholdKept DEF Driver, RunWork, kind
  <2>2. CASE count' = 0
    <3>1. Len(samples') \in Nat
      BY <2>1
    <3> QED
      BY <1>0, <2>1, <2>2, <3>1 DEF DebounceInv
  <2>3. CASE /\ ~ Unadvertised /\ last # line /\ count < Threshold
             /\ count' = count + 1 /\ last' = last
    <3>1. ASSUME type = "EV_KEY"
          PROVE  /\ count' <= Len(samples')
                 /\ \A k \in 1 .. Len(samples') :
                      k > Len(samples') - count' => samples'[k] = NewState'
      <4>1. NewState' = line
        BY <1>6, <2>3, <3>1, ReadingCounted DEF NewState
      <4> QED
        BY <1>6, <2>3, <3>1, <4>1, ReadingCounted, SMTT(30)
    <3> QED
      BY <1>0, <2>1, <3>1 DEF DebounceInv
  <2> QED
    BY <1>6, <2>2, <2>3 DEF Driver, RunWork, HandleButton, Report
<1>7. CASE Driver(Toggle)
  BY <1>0, <1>7, DebounceUntouched DEF Driver, Toggle, kind, bdata, history
<1>8. CASE Driver(Tick)
  BY <1>0, <1>8, DebounceUntouched DEF Driver, Tick, kind, bdata
<1>9. ASSUME NEW i \in 1 .. MaxPending, Up /\ Deliver(i) PROVE DebounceInv'
  BY <1>0, <1>9, DebounceUntouched DEF Deliver, Broadcast, kind, bdata
<1>10. ASSUME NEW i \in 1 .. MaxPending, Driver(NoMemory(i)) PROVE DebounceInv'
  BY <1>0, <1>10, DebounceUntouched DEF Driver, NoMemory, kind, bdata
<1>11. CASE Up /\ Timeout
  BY <1>0, <1>11, DebounceUntouched DEF Timeout, buttonVars
<1>12. CASE ResetFails
  BY <1>0, <1>12, DebounceUntouched DEF ResetFails, buttonVars
<1>13. CASE Reboot
  BY <1>0, <1>13, DebounceForgotten DEF Reboot, kind
<1> QED
  BY <1>1, <1>2, <1>3, <1>4, <1>5, <1>6, <1>7, <1>8, <1>9, <1>10, <1>11, <1>12, <1>13, SMTT(30)
    DEF Next

LEMMA InitDebounced ==
  Init => DebounceInv
<1> SUFFICES ASSUME Init PROVE DebounceInv
  OBVIOUS
<1>1. TypeOK /\ Threshold \in Nat
  BY InitTyped, ThresholdNat
<1>2. count = 0 /\ samples \in Seq({0, 1}) /\ Len(samples) = 0
  BY DEF Init, ButtonInit
<1> QED
  BY <1>1, <1>2 DEF DebounceInv

(* gpio_keys_handle_button reports a key only after the poll has read the  *)
(* new state Threshold times before this one, in a row, for every debounce *)
(* and poll interval and whatever the contact did before.                  *)
THEOREM ButtonFiltersGlitches ==
  Spec => GlitchFiltered
<1> DEFINE A == phase' = "up" /\ type = "EV_KEY" /\ last' # last /\ last' # Unknown
                  /\ (last = Unknown => last' = 1)
                => /\ Len(samples') = Threshold + 1
                   /\ \A i \in 1 .. Len(samples') : samples'[i] = last'
<1>1. DebounceInv /\ [Next]_vars => [A]_vars
  <2> SUFFICES ASSUME DebounceInv, Next, phase' = "up", type = "EV_KEY", last' # last,
                      last' # Unknown, last = Unknown => last' = 1
               PROVE  /\ Len(samples') = Threshold + 1
                      /\ \A i \in 1 .. Len(samples') : samples'[i] = last'
    BY SMTT(30) DEF vars, buttonVars
  <2>1. Driver(RunWork)
    BY Zenon
      DEF Next, Driver, Probe, RequestIrq, GpioKeysRemove, HandleIrq, Toggle, Tick, Deliver,
           Broadcast, NoMemory, Timeout, ResetFails, Reboot, bdata, buttonVars
  <2>2. ~ Unadvertised /\ last # line /\ count >= Threshold /\ last' = line
    BY <2>1 DEF Driver, RunWork, HandleButton, Unadvertised, Report
  <2> QED
    BY <2>1, <2>2, ReadingCounted
<1>2. Init => DebounceInv
  BY InitDebounced, Zenon
<1>3. DebounceInv /\ [Next]_vars => DebounceInv'
  BY DebounceKept, Zenon
<1> QED
  BY <1>1, <1>2, <1>3, PTL DEF Spec, GlitchFiltered

-----------------------------------------------------------------------------
(* Once the first item has left the work queue, the last one is the last.  *)
LEMMA FirstLeaves ==
  ASSUME NEW S, NEW s \in Seq(S), Len(s) > 0
  PROVE  /\ RemoveAt(s, 1) = <<>> => Len(s) = 1
         /\ RemoveAt(s, 1) # <<>> => /\ Len(s) > 1 /\ Len(RemoveAt(s, 1)) = Len(s) - 1
                                     /\ RemoveAt(s, 1)[Len(s) - 1] = s[Len(s)]
<1> DEFINE b == SubSeq(s, 1 + 1, Len(s))
<1>0. 1 \in 1 .. Len(s)
  BY LenProperties
<1>1. b \in Seq(S) /\ Len(b) = Len(s) - 1 /\ \A k \in 1 .. (Len(s) - 1) : b[k] = s[1 + k]
  <2>1. \A i \in 1 .. Len(s) :
          LET c == SubSeq(s, i + 1, Len(s))
          IN  c \in Seq(S) /\ Len(c) = Len(s) - i /\ \A k \in 1 .. (Len(s) - i) : c[k] = s[i + k]
    OBVIOUS
  <2> QED
    BY <1>0, <2>1, Zenon
<1>2. RemoveAt(s, 1) = <<>> \o b
  <2>1. SubSeq(s, 1, 1 - 1) = <<>>
    OBVIOUS
  <2> QED
    BY <2>1, Zenon DEF RemoveAt
<1> HIDE DEF b
<1>3. RemoveAt(s, 1) = b
  BY <1>1, <1>2
<1>4. b = <<>> <=> Len(s) = 1
  BY <1>1
<1>5. CASE Len(s) > 1
  <2>1. Len(s) - 1 \in 1 .. (Len(s) - 1) /\ 1 + (Len(s) - 1) = Len(s)
    BY <1>5
  <2>2. b[Len(s) - 1] = s[Len(s)]
    BY <1>1, <2>1
  <2> QED
    BY <1>1, <1>3, <1>4, <1>5, <2>2, Zenon
<1>6. CASE Len(s) = 1
  BY <1>3, <1>4, <1>6
<1>7. Len(s) > 1 \/ Len(s) = 1
  <2>1. \A n \in Nat : n > 0 => n > 1 \/ n = 1
    OBVIOUS
  <2> QED
    BY <2>1, LenProperties, Zenon
<1> QED
  BY <1>5, <1>6, <1>7, Zenon

LEMMA DisarmUntouched ==
  ASSUME DisarmInv, TypeOK', UNCHANGED <<phase, last, works, armed, flaw>>,
         phase = "off" => timer' = Idle /\ ~ edge'
  PROVE  DisarmInv'
  BY DEF DisarmInv

LEMMA InitDisarmed ==
  Init => DisarmInv
<1> SUFFICES ASSUME Init PROVE DisarmInv
  OBVIOUS
<1>1. TypeOK
  BY InitTyped
<1> QED
  BY <1>1 DEF Init, ButtonInit, DisarmInv, Unknown

(* A new event is the last one in the queue; delivering it arms procd for  *)
(* a press and disarms it for a release.                                   *)
LEMMA DisarmKept ==
  DisarmInv /\ [Next]_vars => DisarmInv'
<1> SUFFICES ASSUME DisarmInv, [Next]_vars PROVE DisarmInv'
  OBVIOUS
<1>0. TypeOK /\ TypeOK'
  BY TypeKept, Zenon DEF DisarmInv
<1>1. CASE UNCHANGED vars
  BY <1>0, <1>1, DisarmUntouched DEF vars, buttonVars, scriptVars, DisarmInv
<1>2. CASE Driver(Probe)
  <2>1. /\ phase = "off" /\ phase' # "off" /\ last' = Unknown /\ UNCHANGED <<works, armed, flaw>>
    BY <1>2, Zenon DEF Driver, Probe, scriptVars
  <2> QED
    BY <1>0, <2>1, Zenon DEF DisarmInv
<1>3. CASE Driver(RequestIrq)
  <2>1. phase = "window" /\ phase' = "up" /\ UNCHANGED <<last, works, armed, flaw>>
    BY <1>3, Zenon DEF Driver, RequestIrq, scriptVars, bdata, history
  <2> QED
    BY <1>0, <2>1, Zenon DEF DisarmInv
<1>4. CASE Driver(GpioKeysRemove)
  <2>1. timer' = Idle /\ ~ edge' /\ flaw'
    BY <1>4, Zenon DEF Driver, GpioKeysRemove
  <2> QED
    BY <1>0, <2>1, Zenon DEF DisarmInv
<1>5. CASE Driver(HandleIrq)
  <2>1. edge /\ UNCHANGED <<phase, last, works, armed, flaw>>
    BY <1>5, Zenon DEF Driver, HandleIrq, scriptVars, bdata, history
  <2>2. phase # "off"
    BY <2>1, Zenon DEF DisarmInv
  <2> QED
    BY <1>0, <2>1, <2>2, DisarmUntouched, SMTT(30)
<1>6. CASE Driver(RunWork)
  <2>1. timer = 0 /\ UNCHANGED <<phase, line, armed>>
    BY <1>6, Zenon DEF Driver, RunWork, scriptVars
  <2>2. phase # "off" /\ phase' # "off"
    BY <2>1 DEF DisarmInv, Idle
  <2>3. CASE UNCHANGED <<last, works, flaw>>
    BY <1>0, <2>1, <2>2, <2>3, DisarmUntouched, SMTT(30)
  <2>4. CASE Unadvertised /\ last' = line /\ UNCHANGED <<works, flaw>>
    BY <1>0, <2>1, <2>2, <2>4 DEF DisarmInv, Unadvertised, TypeOK, Unknown
  <2>5. CASE Report(line)
    <3>1. CASE flaw'
      BY <1>0, <2>2, <3>1 DEF DisarmInv
    <3>2. CASE ~ flaw'
      <4> DEFINE e == Event(line, IF seen = 0 THEN jiffies ELSE seen)
      <4>1. works' = Append(works, e) /\ last' = line
        BY <2>5, <3>2 DEF Report, CreateEvent
      <4>2. e \in Events /\ works \in Seq(Events) /\ line \in {0, 1}
        BY <1>0, EventTyped, SMTT(30) DEF TypeOK
      <4>3. e.pressed <=> line = 1
        BY Zenon DEF Event
      <4> HIDE DEF e
      <4>4. works' # <<>> /\ works'[Len(works')] = e
        BY <4>1, <4>2, AppendProperties
      <4>5. last' # Unknown
        BY <4>1, <4>2 DEF Unknown
      <4> QED
        BY <1>0, <2>2, <4>1, <4>3, <4>4, <4>5 DEF DisarmInv
    <3> QED
      BY <3>1, <3>2
  <2> QED
    BY <1>6, <2>3, <2>4, <2>5, SMTT(30) DEF Driver, RunWork, HandleButton
<1>7. CASE Driver(Toggle)
  <2>1. /\ UNCHANGED <<phase, timer, last, works, armed, flaw>>
        /\ edge' <=> edge \/ (~ polled /\ phase = "up")
    BY <1>7, Zenon DEF Driver, Toggle, scriptVars, bdata, history
  <2>2. phase = "off" => timer' = Idle /\ ~ edge'
    BY <2>1, Zenon DEF DisarmInv
  <2> QED
    BY <1>0, <2>1, <2>2, DisarmUntouched, Zenon
<1>8. CASE Driver(Tick)
  <2>1. /\ UNCHANGED <<phase, edge, last, works, armed, flaw>>
        /\ timer' = IF timer > 0 THEN timer - 1 ELSE timer
    BY <1>8, Zenon DEF Driver, Tick, scriptVars, bdata
  <2>2. phase = "off" => timer' = Idle /\ ~ edge'
    BY <2>1 DEF DisarmInv, Idle
  <2> QED
    BY <1>0, <2>1, <2>2, DisarmUntouched, Zenon
<1>9. ASSUME NEW i \in 1 .. MaxPending, Up /\ Deliver(i) PROVE DisarmInv'
  <2>1. /\ i \in 1 .. Len(works) /\ works' = RemoveAt(works, i) /\ (flaw' <=> flaw \/ i > 1)
        /\ UNCHANGED <<phase, timer, edge, last>>
    BY <1>9, Zenon DEF Deliver, Broadcast, bdata
  <2>2. CASE flaw'
    BY <1>0, <2>1, <2>2 DEF DisarmInv
  <2>3. CASE ~ flaw'
    <3>1. ~ flaw /\ i = 1 /\ works \in Seq(Events) /\ Len(works) > 0
      BY <1>0, <2>1, <2>3 DEF TypeOK
    <3>2. works # <<>> /\ phase # "off" /\ last # Unknown
      BY <3>1 DEF DisarmInv
    <3>3. works[Len(works)].pressed <=> last = 1
      BY <3>1, <3>2 DEF DisarmInv
    <3>4. CASE works' = <<>>
      <4>1. works[1].pressed <=> last = 1
        BY <2>1, <3>1, <3>3, <3>4, FirstLeaves, SMTT(30)
      <4>2. armed' => last = 1
        BY <1>9, <3>1, <4>1 DEF Deliver, Released
      <4> QED
        BY <1>0, <2>1, <3>2, <3>4, <4>2, SMTT(30) DEF DisarmInv
    <3>5. CASE works' # <<>>
      <4>1. works'[Len(works')] = works[Len(works)]
        BY <2>1, <3>1, <3>5, FirstLeaves
      <4> QED
        BY <1>0, <2>1, <3>2, <3>3, <3>5, <4>1, SMTT(30) DEF DisarmInv
    <3> QED
      BY <3>4, <3>5
  <2> QED
    BY <2>2, <2>3
<1>10. ASSUME NEW i \in 1 .. MaxPending, Driver(NoMemory(i)) PROVE DisarmInv'
  <2>1. flaw' /\ UNCHANGED <<phase, timer, edge>>
    BY <1>10, Zenon DEF Driver, NoMemory
  <2> QED
    BY <1>0, <2>1 DEF DisarmInv
<1>11. CASE Up /\ Timeout
  <2>1. ~ armed' /\ UNCHANGED <<phase, timer, edge, last, works, flaw>>
    BY <1>11, Zenon DEF Timeout, buttonVars
  <2> QED
    BY <1>0, <2>1 DEF DisarmInv
<1>12. CASE ResetFails
  BY <1>0, <1>12, DisarmUntouched DEF ResetFails, buttonVars, DisarmInv
<1>13. CASE Reboot
  <2>1. /\ phase' = "off" /\ last' = 0 /\ timer' = Idle /\ ~ edge' /\ works' = <<>> /\ ~ armed'
    BY <1>13 DEF Reboot
  <2> QED
    BY <1>0, <2>1 DEF DisarmInv
<1> QED
  BY <1>1, <1>2, <1>3, <1>4, <1>5, <1>6, <1>7, <1>8, <1>9, <1>10, <1>11, <1>12, <1>13 DEF Next

(* Once the events of a release are through, procd waits for no timeout of *)
(* the press, unless an event was lost or overtaken: for every button, any *)
(* queue, every interval.                                                  *)
THEOREM ButtonTimeoutDisarmed ==
  Spec => []TimeoutDisarmed
<1>1. DisarmInv => TimeoutDisarmed
  BY DEF DisarmInv, TimeoutDisarmed, Unknown
<1> QED
  BY <1>1, InitDisarmed, DisarmKept, PTL DEF Spec

-----------------------------------------------------------------------------
(* The inductive invariant of ReadingDue: a poll queues itself again.      *)
DueInv == TypeOK /\ ReadingDue /\ (polled /\ phase # "off" => timer # Idle)

(* The work of an interrupt reports what it reads; a poll is queued again. *)
LEMMA DueRunWork ==
  ASSUME DueInv, TypeOK', Driver(RunWork)
  PROVE  DueInv'
<1>1. /\ UNCHANGED <<line, polled, phase, edge>> /\ HandleButton
      /\ timer' = IF polled THEN Interval ELSE Idle
  BY DEF Driver, RunWork, kind
<1>2. Interval # Idle
  BY ButtonAssumption DEF Idle
<1>3. ~ polled => last' = line
  <2>1. ~ polled => Threshold = 0 /\ count >= Threshold
    BY DEF Threshold, DueInv, TypeOK
  <2>2. \/ last' = line
        \/ last = line /\ last' = last
        \/ count < Threshold
    BY <1>1, Zenon DEF HandleButton, Report
  <2>3. count \in Int /\ Threshold \in Int
    BY ThresholdNat DEF DueInv, TypeOK
  <2> QED
    BY <2>1, <2>2, <2>3
<1> QED
  BY <1>1, <1>2, <1>3 DEF DueInv, ReadingDue

(* Each of the other steps leaves a reading due where one is needed.       *)
LEMMA DueKept ==
  DueInv /\ [Next]_vars => DueInv'
<1> SUFFICES ASSUME DueInv, [Next]_vars PROVE DueInv'
  OBVIOUS
<1>0. TypeOK /\ TypeOK' /\ Debounce # Idle /\ Interval # Idle
  BY TypeKept, ButtonAssumption DEF DueInv, Idle
<1>1. CASE UNCHANGED <<line, polled, phase, last, timer, edge>>
  BY <1>0, <1>1, Zenon DEF DueInv, ReadingDue
<1>2. CASE Driver(Probe)
  <2>1. timer' # Idle
    BY <1>0, <1>2, Zenon DEF Driver, Probe, SoftwareDebounce
  <2> QED
    BY <1>0, <2>1, Zenon DEF DueInv, ReadingDue
<1>3. CASE Driver(RequestIrq)
  <2>1. phase # "off" /\ UNCHANGED <<line, polled, last, timer, edge>>
    BY <1>3, Zenon DEF Driver, RequestIrq, kind, bdata
  <2> QED
    BY <1>0, <2>1, Zenon DEF DueInv, ReadingDue
<1>4. CASE Driver(GpioKeysRemove) \/ Reboot
  <2>1. phase' = "off"
    BY <1>4 DEF Driver, GpioKeysRemove, Reboot
  <2> QED
    BY <1>0, <2>1 DEF DueInv, ReadingDue
<1>5. CASE Driver(HandleIrq)
  <2>1. timer' # Idle
    BY <1>0, <1>5 DEF Driver, HandleIrq, SoftwareDebounce
  <2> QED
    BY <1>0, <2>1 DEF DueInv, ReadingDue
<1>6. CASE Driver(RunWork)
  BY <1>0, <1>6, DueRunWork
<1>7. CASE Driver(Toggle)
  <2>1. /\ UNCHANGED <<polled, phase, timer>> /\ (phase = "window" => ~ QuietProbe)
        /\ ~ polled /\ phase = "up" => edge'
    BY <1>7, Zenon DEF Driver, Toggle, kind
  <2>2. phase \in {"off", "window", "up"}
    BY <1>0, Zenon DEF TypeOK
  <2> QED
    BY <1>0, <2>1, <2>2 DEF DueInv, ReadingDue
<1>8. CASE Driver(Tick)
  <2>1. /\ UNCHANGED <<line, polled, phase, last, edge>>
        /\ timer' = IF timer > 0 THEN timer - 1 ELSE timer
    BY <1>8, Zenon DEF Driver, Tick, kind, bdata
  <2>2. timer # Idle => timer' # Idle
    BY <1>0, <2>1 DEF TypeOK, Idle
  <2> QED
    BY <1>0, <2>1, <2>2 DEF DueInv, ReadingDue
<1>9. CASE Up /\ \E i \in 1 .. MaxPending : Deliver(i)
  BY <1>1, <1>9 DEF Deliver, Broadcast, kind, bdata
<1>10. CASE \E i \in 1 .. MaxPending : Driver(NoMemory(i))
  BY <1>1, <1>10 DEF Driver, NoMemory, kind, bdata
<1>11. CASE (Up /\ Timeout) \/ ResetFails \/ UNCHANGED vars
  BY <1>1, <1>11 DEF Timeout, ResetFails, vars, buttonVars
<1> QED
  BY <1>2, <1>3, <1>4, <1>5, <1>6, <1>7, <1>8, <1>9, <1>10, <1>11, Zenon DEF Next

(* No edge and no poll is forgotten, for every debounce and poll interval: *)
(* the safety half of LineReported (button_handle_irq,                     *)
(* gpio_keys_irq_work_func, gpio_keys_polled_poll).                        *)
THEOREM ButtonReadingDue ==
  Spec => []ReadingDue
<1>1. Init => DueInv
  <2> SUFFICES ASSUME Init PROVE DueInv
    OBVIOUS
  <2>1. TypeOK
    BY InitTyped
  <2> QED
    BY <2>1 DEF Init, ButtonInit, DueInv, ReadingDue
<1>2. DueInv => ReadingDue
  BY DEF DueInv
<1> QED
  BY <1>1, <1>2, DueKept, PTL DEF Spec
=============================================================================
