------------------------------ MODULE MCIgcTx -------------------------------
(* Frames of a context and a data descriptor on a ring of eleven: the      *)
(* frames wrap in the middle, four of them fill the ring, and the queue is *)
(* woken when at most one is left.                                         *)
EXTENDS IgcTx

MCFrames == [data : {1}, ctx : {1}]
=============================================================================
