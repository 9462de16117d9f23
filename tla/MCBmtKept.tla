----------------------------- MODULE MCBmtKept ------------------------------
(* The pool is sound and no loss of power hits the upload: blocks of data  *)
(* wear out, one after another, until the pool is spent.                   *)
EXTENDS MtkBmt

MCWearable == 0 .. 3
MCFactoryBad == {{}, {1, 7}}
=============================================================================
