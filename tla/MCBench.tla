------------------------------ MODULE MCBench ------------------------------
(* Small instances of Bench for TLC; the values are in the .cfg files. *)
EXTENDS Bench
=============================================================================
