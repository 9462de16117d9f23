---------------------------- MODULE ResetButton -----------------------------
(***************************************************************************)
(* The reset button: GpioButton, procd, which runs /etc/rc.button/reset    *)
(* for each event it receives, and what the script asks for.               *)
(***************************************************************************)
EXTENDS GpioButton

VARIABLES
  armed,    (* procd will report a timeout of the press                    *)
  asked,    (* "none", "reboot" or "reset"                                 *)
  cause     (* history: the event that asked for it                        *)

scriptVars == <<armed, asked, cause>>
vars == <<buttonVars, scriptVars>>

NoEvent == [pressed |-> FALSE, seen |-> 0, real |-> 0, exact |-> FALSE]

Init ==
  /\ ButtonInit
  /\ armed = FALSE /\ asked = "none" /\ cause = NoEvent

-----------------------------------------------------------------------------
(* /etc/rc.button/reset for a button that was pressed or released, with    *)
(* /overlay mounted or not.  procd takes the exit status of a press for    *)
(* the seconds until the timeout.                                          *)
Pressed(overlay) ==
  /\ armed' = overlay
  /\ UNCHANGED <<asked, cause>>

(* The factory reset after one second.                                     *)
AsksEarly(e, overlay) ==
  IF e.seen < 1 THEN "reboot"
  ELSE IF e.seen >= 1 /\ overlay THEN "reset" ELSE "none"

Asks(e, overlay) ==
  IF e.seen < 1 THEN "reboot"
  ELSE IF e.seen >= 2 /\ overlay THEN "reset" ELSE "none"

(* The exit status of a press, also for a release.                         *)
ReleasedArms(e, overlay) ==
  /\ armed' = overlay
  /\ asked' = Asks(e, overlay)
  /\ cause' = IF asked' = "none" THEN NoEvent ELSE e

Released(e, overlay) ==
  /\ armed' = FALSE
  /\ asked' = Asks(e, overlay)
  /\ cause' = IF asked' = "none" THEN NoEvent ELSE e

Deliver(i) ==
  /\ Broadcast(i)
  /\ \E overlay \in BOOLEAN :
       IF works[i].pressed THEN Pressed(overlay) ELSE Released(works[i], overlay)

(* The script shows the pattern of failsafe on the LED.                    *)
Timeout ==
  /\ armed
  /\ armed' = FALSE
  /\ UNCHANGED <<buttonVars, asked, cause>>

(* factoryreset -y && reboot: without the first, not the second.           *)
ResetFails ==
  /\ asked = "reset"
  /\ asked' = "none" /\ cause' = NoEvent
  /\ UNCHANGED <<buttonVars, armed>>

Reboot ==
  /\ asked # "none"
  /\ phase' = "off" /\ last' = 0 /\ count' = 0 /\ seen' = 0
  /\ jiffies' \in 0 .. (Wrap - 1)
  /\ timer' = Idle /\ edge' = FALSE /\ works' = <<>>
  /\ since' = 0 /\ timed' = FALSE /\ samples' = <<>>
  /\ pressed' = (line = 1) /\ flaw' = FALSE
  /\ armed' = FALSE /\ asked' = "none" /\ cause' = NoEvent
  /\ UNCHANGED <<line, kind>>

(* Bound: between what the script asks for and its end nothing else is     *)
(* looked at.                                                              *)
Up == asked = "none"

Driver(A) == Up /\ A /\ UNCHANGED scriptVars

Next ==
  \/ Driver(Probe) \/ Driver(RequestIrq) \/ Driver(GpioKeysRemove)
  \/ Driver(HandleIrq) \/ Driver(RunWork)
  \/ Driver(Toggle) \/ Driver(Tick)
  \/ Up /\ \E i \in 1 .. MaxPending : Deliver(i)
  \/ \E i \in 1 .. MaxPending : Driver(NoMemory(i))
  \/ Up /\ Timeout
  \/ ResetFails \/ Reboot

Fairness ==
  /\ WF_vars(Driver(HandleIrq)) /\ WF_vars(Driver(RunWork))
  /\ WF_vars(Driver(Tick)) /\ WF_vars(Up /\ Deliver(1))
  /\ WF_vars(ResetFails \/ Reboot)

Spec == Init /\ [][Next]_vars /\ Fairness

-----------------------------------------------------------------------------
(* The variables have the types of the driver's and the script's data.     *)
Events == [pressed : BOOLEAN, seen : 0 .. Wrap, real : 0 .. Wrap, exact : BOOLEAN]
TypeOK ==
  /\ line \in {0, 1} /\ jiffies \in 0 .. (Wrap - 1)
  /\ polled \in BOOLEAN /\ type \in Types
  /\ phase \in {"off", "window", "up"}
  /\ last \in {Unknown, 0, 1} /\ count \in 0 .. Threshold /\ seen \in 0 .. (Wrap - 1)
  /\ timer \in Idle .. (Debounce + Interval) /\ edge \in BOOLEAN
  /\ works \in Seq(Events) /\ Len(works) <= MaxPending
  /\ since \in 0 .. Wrap
  /\ timed \in BOOLEAN /\ pressed \in BOOLEAN /\ flaw \in BOOLEAN /\ armed \in BOOLEAN
  /\ asked \in {"none", "reboot", "reset"} /\ cause \in Events

(* The SEEN of a release is the time the button was held, across the wrap  *)
(* of jiffies, after lost events and after a rebind.  The one exception is *)
(* a press handled at jiffies 0, the value that means "no event yet".      *)
PressLength ==
  \A i \in 1 .. Len(works) :
    ~ works[i].pressed /\ works[i].exact => works[i].seen = works[i].real

(* A factory reset needs a press of two seconds that the driver measured,  *)
(* a reboot one of less than a second, whatever events were lost or        *)
(* overtook each other; a press between the two asks for nothing.          *)
ActionFitsPress ==
  /\ asked = "reset" => cause.real >= 2
  /\ asked = "reboot" /\ cause.exact => cause.real < 1

(* "Don't advertise unpressed buttons on initialization": no boot is       *)
(* followed by a reboot or a reset without somebody pressing the button.   *)
NoActionUnpressed == asked # "none" => pressed

(* An event of a key is preceded by as many polls that all read the new    *)
(* state as the debounce interval takes: a shorter bounce is not reported, *)
(* however often it comes back.                                            *)
GlitchFiltered ==
  [][ phase' = "up" /\ type = "EV_KEY" /\ last' # last /\ last' # Unknown
        /\ (last = Unknown => last' = 1)
      => /\ Len(samples') = Threshold + 1
         /\ \A i \in 1 .. Len(samples') : samples'[i] = last' ]_vars

(* Once the events of a release are through, procd no longer waits for the *)
(* timeout of the press: the LED does not announce failsafe for a button   *)
(* nobody holds, unless an event was lost or overtaken.                    *)
TimeoutDisarmed == ~ flaw /\ works = <<>> /\ phase = "up" /\ last = 0 => ~ armed

(* No change of the line is forgotten: while the reported state is not the *)
(* level of the line, an edge waits for its interrupt thread or a reading  *)
(* is due, however edges, the interrupt thread, the work and its delay     *)
(* come after each other.  Where there is an interrupt, the line keeps its *)
(* level while it is being requested.                                      *)
ReadingDue ==
  (polled \/ QuietProbe) /\ phase # "off" /\ last # line => edge \/ timer # Idle

(* A line that keeps its level is reported: no interrupt and no poll is    *)
(* forgotten, whatever bounced before.                                     *)
LineReported ==
  \A level \in {0, 1} : <>[](line = level /\ phase = "up") => <>[](last = level)
=============================================================================
