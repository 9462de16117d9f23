---------------------------- MODULE MCBmtFaults -----------------------------
(* Eight blocks: two for data, two for the PMT, four for the pool.  Any    *)
(* block but those of the factory may wear out and power may be lost at    *)
(* any point.                                                              *)
EXTENDS MtkBmt

MCWearable == Blocks
MCFactoryBad == {{}, {1}, {5}, {2, 6}, {1, 2}}
=============================================================================
