---------------------------- MODULE MCDisruptor ----------------------------
(* An instance of Disruptor for TLC. *)
EXTENDS Disruptor
=============================================================================
