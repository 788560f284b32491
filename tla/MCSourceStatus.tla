--------------------------- MODULE MCSourceStatus ---------------------------
(* A unit of time is about 20 to 30 seconds: a wait of 2 give or take 1,   *)
(* polls and applies of at most 1.                                         *)
EXTENDS SourceStatus
=============================================================================
