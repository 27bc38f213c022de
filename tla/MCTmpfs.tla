------------------------------- MODULE MCTmpfs -------------------------------
(* Model checking instance of Tmpfs: a file of three pages, so that a     *)
(* write can meet two separate gaps; two writers contending for the       *)
(* filesystem lock; three writes.  The constants are given in the cfg.    *)
EXTENDS Tmpfs
=============================================================================
