----------------------------- MODULE GpioButton -----------------------------
(***************************************************************************)
(* The driver of GPIO buttons, from the level of the line to the uevent:   *)
(* polled or interrupt driven, with its debouncing and its measure of how  *)
(* long a state lasted.  One button: others share only the poll.           *)
(*                                                                         *)
(* Time passes in jiffies, which wrap.  The work that sends an event is an *)
(* item of the system work queue: items may overtake each other, and an    *)
(* allocation that fails loses the event.                                  *)
(***************************************************************************)
EXTENDS Integers, Sequences, SequencesExt

CONSTANTS
  Types,       (* linux,input-type: a subset of {"EV_KEY", "EV_SW"}        *)
  Debounce,    (* debounce_interval, in jiffies                            *)
  Interval,    (* poll_interval, in jiffies                                *)
  HZ,
  Wrap,        (* jiffies are counted modulo Wrap                          *)
  MaxPending,  (* bound: events that wait in the work queue                *)
  QuietProbe   (* TRUE: the line keeps its level until the driver has its  *)
               (* interrupt                                                *)

ASSUME ButtonAssumption ==
  /\ Types \subseteq {"EV_KEY", "EV_SW"} /\ QuietProbe \in BOOLEAN
  /\ Debounce \in Nat /\ MaxPending \in Nat
  /\ Interval \in Nat \ {0} /\ HZ \in Nat \ {0} /\ Wrap \in Nat \ {0}

VARIABLES
  line,     (* the level of the GPIO: 1 is pressed                         *)
  jiffies,
  polled,   (* bdev->polled                                                *)
  type,     (* bdata->b->type                                              *)
  phase,    (* "off", "window" (before the interrupt is requested), "up"   *)
  last,     (* bdata->last_state                                           *)
  count,    (* bdata->count                                                *)
  seen,     (* bdata->seen                                                 *)
  timer,    (* jiffies until the delayed work may run, or Idle             *)
  edge,     (* an edge whose interrupt thread has not run                  *)
  works,    (* events in the work queue                                    *)
  timed,    (* history: there was an event since the probe, and the last   *)
            (* one was not at jiffies 0                                    *)
  since,    (* history: if so, jiffies since that event, up to Wrap        *)
  samples,  (* history: the last readings of the line                      *)
  pressed,  (* history: the line has been 1 since the boot                 *)
  flaw      (* history: an event was lost or overtaken, or the driver      *)
            (* unbound                                                     *)

kind == <<polled, type>>
bdata == <<last, count, seen>>
history == <<since, timed, samples, flaw>>
buttonVars == <<line, jiffies, polled, type, phase, last, count, seen, timer, edge,
                works, since, timed, samples, pressed, flaw>>

Idle == -1
Unknown == -1

Threshold == IF polled THEN (Debounce + Interval - 1) \div Interval ELSE 0
SoftwareDebounce == Debounce     (* where gpiolib provides no debouncing   *)

ButtonInit ==
  /\ line \in {0, 1} /\ jiffies \in 0 .. (Wrap - 1)
  /\ polled \in BOOLEAN /\ type \in Types
  /\ phase = "off" /\ last = 0 /\ count = 0 /\ seen = 0
  /\ timer = Idle /\ edge = FALSE /\ works = <<>>
  /\ since = 0 /\ timed = FALSE /\ samples = <<>>
  /\ pressed = (line = 1) /\ flaw = FALSE

-----------------------------------------------------------------------------
(* gpio_keys_button_probe, then gpio_keys_polled_probe, or gpio_keys_probe *)
(* up to the first delayed work.                                           *)
Probe ==
  /\ phase = "off"
  /\ last' = Unknown /\ count' = 0 /\ seen' = 0
  /\ timer' = IF polled THEN Interval ELSE SoftwareDebounce
  /\ phase' = IF polled THEN "up" ELSE "window"
  /\ samples' = <<>> /\ timed' = FALSE /\ since' = 0
  /\ UNCHANGED <<line, jiffies, kind, edge, works, pressed, flaw>>

RequestIrq ==
  /\ phase = "window"
  /\ phase' = "up"
  /\ UNCHANGED <<line, jiffies, kind, bdata, timer, edge, works, history, pressed>>

(* gpio_keys_remove: the interrupt is disabled and the work cancelled; the *)
(* memory of the button is the device's and goes with it.                  *)
GpioKeysRemove ==
  /\ phase = "up"
  /\ phase' = "off"
  /\ last' = 0 /\ count' = 0 /\ seen' = 0
  /\ timer' = Idle /\ edge' = FALSE
  /\ samples' = <<>> /\ timed' = FALSE /\ since' = 0
  /\ flaw' = TRUE
  /\ UNCHANGED <<line, jiffies, kind, works, pressed>>

(* The line changes: a finger, or a bounce of the contact.                 *)
Toggle ==
  /\ phase = "window" => ~ QuietProbe
  /\ line' = 1 - line
  /\ pressed' = (pressed \/ line = 0)
  /\ edge' = (edge \/ (~ polled /\ phase = "up"))
  /\ UNCHANGED <<jiffies, kind, phase, bdata, timer, works, history>>

(* button_handle_irq: the delay of the work starts again.                  *)
HandleIrq ==
  /\ edge
  /\ edge' = FALSE
  /\ timer' = SoftwareDebounce
  /\ UNCHANGED <<line, jiffies, kind, phase, bdata, works, history, pressed>>

Tick ==
  /\ jiffies' = (jiffies + 1) % Wrap
  /\ timer' = IF timer > 0 THEN timer - 1 ELSE timer
  /\ since' = IF timed /\ since < Wrap THEN since + 1 ELSE since
  /\ UNCHANGED <<line, kind, phase, bdata, edge, works, timed, samples, pressed, flaw>>

-----------------------------------------------------------------------------
(* button_hotplug_create_event.  For the properties, an event also says    *)
(* how long the state before it really lasted.                             *)
Event(state, from) ==
  [pressed |-> state = 1,
   seen    |-> ((jiffies - from) % Wrap) \div HZ,
   real    |-> since \div HZ,
   exact   |-> since < Wrap /\ timed]

CreateEvent(state, from) ==
  \/ works' = Append(works, Event(state, from)) /\ UNCHANGED flaw
  \/ flaw' = TRUE /\ UNCHANGED works

(* bdata->seen is set once and never brought up to date.                   *)
ReportFirst(state) ==
  /\ Len(works) < MaxPending
  /\ CreateEvent(state, IF seen = 0 THEN jiffies ELSE seen)
  /\ seen' = IF seen = 0 THEN jiffies ELSE seen
  /\ last' = state /\ count' = 0
  /\ since' = 0 /\ timed' = (jiffies # 0)

(* gpio_keys_handle_button, past its early returns.                        *)
Report(state) ==
  /\ Len(works) < MaxPending
  /\ CreateEvent(state, IF seen = 0 THEN jiffies ELSE seen)
  /\ seen' = jiffies
  /\ last' = state /\ count' = 0
  /\ since' = 0 /\ timed' = (jiffies # 0)

(* The first reading is treated like any other.                            *)
NeverUnadvertised == FALSE

Unadvertised == last = Unknown /\ type = "EV_KEY" /\ line = 0

(* One reading too many is counted.                                        *)
HandleButtonOver ==
  \/ /\ Unadvertised
     /\ last' = line /\ count' = 0
     /\ UNCHANGED <<seen, works, since, timed, flaw>>
  \/ /\ last = line
     /\ count' = 0
     /\ UNCHANGED <<last, seen, works, since, timed, flaw>>
  \/ /\ ~ Unadvertised /\ last # line
     /\ count <= Threshold
     /\ count' = count + 1
     /\ UNCHANGED <<last, seen, works, since, timed, flaw>>
  \/ /\ ~ Unadvertised /\ last # line
     /\ count > Threshold
     /\ Report(line)

(* A reading of the old state leaves the counter alone.                    *)
HandleButtonKeeps ==
  \/ /\ Unadvertised
     /\ last' = line /\ count' = 0
     /\ UNCHANGED <<seen, works, since, timed, flaw>>
  \/ /\ last = line
     /\ UNCHANGED <<last, count, seen, works, since, timed, flaw>>
  \/ /\ ~ Unadvertised /\ last # line
     /\ count < Threshold
     /\ count' = count + 1
     /\ UNCHANGED <<last, seen, works, since, timed, flaw>>
  \/ /\ ~ Unadvertised /\ last # line
     /\ count >= Threshold
     /\ Report(line)

(* gpio_keys_handle_button.                                                *)
HandleButton ==
  \/ /\ Unadvertised
     /\ last' = line /\ count' = 0
     /\ UNCHANGED <<seen, works, since, timed, flaw>>
  \/ /\ last = line
     /\ count' = 0
     /\ UNCHANGED <<last, seen, works, since, timed, flaw>>
  \/ /\ ~ Unadvertised /\ last # line
     /\ count < Threshold
     /\ count' = count + 1
     /\ UNCHANGED <<last, seen, works, since, timed, flaw>>
  \/ /\ ~ Unadvertised /\ last # line
     /\ count >= Threshold
     /\ Report(line)

(* The poll does not queue itself again.                                   *)
RunWorkOnce ==
  /\ timer = 0
  /\ HandleButton
  /\ samples' = Append(IF Len(samples) > Threshold THEN Tail(samples) ELSE samples, line)
  /\ timer' = Idle
  /\ UNCHANGED <<line, jiffies, kind, phase, edge, pressed>>

(* gpio_keys_polled_poll, which queues itself again, or                    *)
(* gpio_keys_irq_work_func.                                                *)
RunWork ==
  /\ timer = 0
  /\ HandleButton
  /\ samples' = Append(IF Len(samples) > Threshold THEN Tail(samples) ELSE samples, line)
  /\ timer' = IF polled THEN Interval ELSE Idle
  /\ UNCHANGED <<line, jiffies, kind, phase, edge, pressed>>

(* button_hotplug_work: event i is broadcast.  Without memory for the      *)
(* message it is freed.                                                    *)
Broadcast(i) ==
  /\ i \in 1 .. Len(works)
  /\ works' = RemoveAt(works, i)
  /\ flaw' = (flaw \/ i > 1)
  /\ UNCHANGED <<line, jiffies, kind, phase, bdata, timer, edge, since, timed, samples, pressed>>

NoMemory(i) ==
  /\ i \in 1 .. Len(works)
  /\ works' = RemoveAt(works, i)
  /\ flaw' = TRUE
  /\ UNCHANGED <<line, jiffies, kind, phase, bdata, timer, edge, since, timed, samples, pressed>>
=============================================================================
