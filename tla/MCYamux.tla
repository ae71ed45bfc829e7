------------------------------ MODULE MCYamux ------------------------------
(***************************************************************************)
(* The instances of Yamux for TLC are given by the constants of its        *)
(* configurations alone.                                                   *)
(***************************************************************************)
EXTENDS Yamux
=============================================================================
