------------------------- MODULE MCParseTranscript -------------------------
(* What is said after a dispatch holds a whole further call; after a       *)
(* recording that begins empty, a whole call and a token more.             *)
EXTENDS ParseTranscriptProperties

MCMaxSaid ==
  [order \in Order |->
     CASE order = "channel first" -> 4
       [] order = "address first" -> 5
       [] order = "none" -> 6]
=============================================================================
