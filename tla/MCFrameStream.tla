---------------------------- MODULE MCFrameStream ----------------------------
(***************************************************************************)
(* Instances of FrameStream for TLC: a message without a body (a default   *)
(* CommandResponse), one that is sent as it is and one that is compressed. *)
(***************************************************************************)
EXTENDS FrameStream, TLC

CONSTANTS empty, small, large

\* Body lengths around a compression limit of 1
MCBodyLen == [m \in Messages |-> CASE m = empty -> 0 [] m = small -> 1 [] m = large -> 3]

MCZipLen == [m \in Messages |-> IF m = large THEN 2 ELSE 1]
=============================================================================
