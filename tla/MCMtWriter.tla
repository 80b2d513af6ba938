---------------------------- MODULE MCMtWriter ----------------------------
(* Model checking of MtWriter: the cfg files give the constants their values. *)
EXTENDS MtWriter
=============================================================================
