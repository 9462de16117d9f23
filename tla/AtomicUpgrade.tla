--------------------------- MODULE AtomicUpgrade ----------------------------
(***************************************************************************)
(* What a failsafe upgrade promises.  The device has one firmware, a       *)
(* version of each partition, that changes in a single step however often  *)
(* power is lost; what is running is the firmware found at power on.       *)
(***************************************************************************)
EXTENDS Integers

CONSTANTS
  Parts,        (* partition names                                         *)
  Versions,     (* versions of a partition                                 *)
  Off           (* nothing is running                                      *)

VARIABLES
  firmware,     (* what the next boot loads                                *)
  running       (* what the last boot loaded, or Off                       *)

vars == <<firmware, running>>

TypeOK ==
  /\ firmware \in [Parts -> Versions]
  /\ running \in [Parts -> Versions] \cup {Off}

Init ==
  /\ \E v \in Versions : firmware = [p \in Parts |-> v]
  /\ running = Off

PowerOn ==
  /\ running = Off
  /\ running' = firmware
  /\ UNCHANGED firmware

PowerOff ==
  /\ running # Off
  /\ running' = Off
  /\ UNCHANGED firmware

(* The whole image at once, never an older one, and only once per boot:    *)
(* what is installed replaces the firmware that is running.                *)
Install ==
  /\ running = firmware
  /\ \E v \in Versions, new \in SUBSET Parts :
       /\ \A p \in Parts : firmware[p] < v
       /\ firmware' = [p \in Parts |-> IF p \in new THEN v ELSE firmware[p]]
  /\ UNCHANGED running

Next == PowerOn \/ PowerOff \/ Install

Spec == Init /\ [][Next]_vars
=============================================================================
