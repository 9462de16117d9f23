------------------------------ MODULE MCButton ------------------------------
(* A second of two jiffies, on a clock that wraps after five of them.      *)
EXTENDS ResetButton

MCTypes == {"EV_KEY"}
=============================================================================
