------------------------- MODULE MCTranscriptUpload -------------------------
(* The first file gives its recording another name, so that it is tried in *)
(* every round; the second is refused.                                     *)
EXTENDS TranscriptUploadProperties

CONSTANTS u1, u2

MCWavOf == [f \in File |-> IF f = 1 THEN 4 ELSE f]
=============================================================================
