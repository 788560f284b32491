--------------------- MODULE TranscriptUploadProperties ---------------------
(* What the upload of transcripts promises.                                *)
EXTENDS TranscriptUpload

UploadTypeOK ==
  /\ folder \in [File -> {"absent", "partial", "whole"}]
  /\ recorded \in [Wav -> {"no", "uploaded", "failed"}]
  /\ transcripts \in [Wav -> File \union {NoFile}]
  /\ upc \in [Uploader -> {"asleep", "loop", "read", "post", "record"}]
  /\ listed \in [Uploader -> SUBSET File]
  /\ attempted \in [Uploader -> 0..BatchSize]
  /\ job \in [Uploader -> File \union {NoFile}]
  /\ answer \in [Uploader -> {"none", "no json", "400", "200"}]
  /\ unread \subseteq File
  /\ faults \in 0..MaxFaults

(***************************************************************************)
(* The table never says uploaded of a recording the server does not have,  *)
(* whatever two uploaders, lost answers and crashes did (upload_transcript *)
(* records after the answer, and a 400 as a permanent failure).            *)
(***************************************************************************)
RecordedIsStored ==
  \A w \in Wav : recorded[w] = "uploaded" => transcripts[w] # NoFile

(***************************************************************************)
(* A recording the uploaders pass over for good while the server has no    *)
(* transcript of it was refused by the server, or its file could not be    *)
(* read, as when it was being written: no other course of events gives one *)
(* up (already_recorded skips every recorded name, failed ones included).  *)
(***************************************************************************)
GivenUpForCause ==
  \A f \in File : AlreadyRecorded(f) /\ transcripts[f] = NoFile
    => f \in unread \/ \E g \in Refused : WavOf[g] = f

\* Files that are tried in every round: nothing is recorded in their name.
Misnamed == {f \in File : WavOf[f] # f}

Deliverable(f) ==
  /\ f \notin Misnamed \union Refused
  /\ \A g \in File \ {f} : WavOf[g] # f

(***************************************************************************)
(* Every transcript that is written in full reaches the server or fails to *)
(* be read, as long as fewer files than a batch holds are tried again in   *)
(* every round (process_once counts them, and sorts them like the others). *)
(***************************************************************************)
EventuallyDelivered ==
  Cardinality(Misnamed) < BatchSize =>
    \A f \in File : Deliverable(f) =>
      (folder[f] = "whole" ~> transcripts[f] = f \/ f \in unread)
=============================================================================
