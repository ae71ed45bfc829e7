--------------------------- MODULE MCSecureStream ---------------------------
(***************************************************************************)
(* The instance of SecureStream for TLC is given by the constants of its   *)
(* configurations alone.                                                   *)
(***************************************************************************)
EXTENDS SecureStream
=============================================================================
