-------------------------- MODULE TranscriptProofs --------------------------
(***************************************************************************)
(* Proofs about transcripts: that the uploader's account of them is true,  *)
(* for every folder, any number of uploaders and any number of faults, and *)
(* that the parser takes the first dispatch of a recording, whole and      *)
(* alone, for a recording of any length and any distances.                 *)
(***************************************************************************)
EXTENDS TranscriptUploadProperties, ParseTranscriptProperties,
        SequenceTheorems, FiniteSetTheorems, TLAPS


-----------------------------------------------------------------------------
\* An uploader between a listing and its end is busy with a file, and what it
\* is about to record is so.
Busy(u) ==
  upc[u] \in {"read", "post", "record"} => job[u] \in File

Truthful(u) ==
  upc[u] = "record" =>
    \/ answer[u] = "no json" /\ job[u] \in unread
    \/ answer[u] = "400" /\ job[u] \in Refused
    \/ answer[u] = "200" /\ transcripts[WavOf[job[u]]] # NoFile

\* An entry of the table has its cause.
Caused(w) ==
  /\ recorded[w] = "uploaded" => transcripts[w] # NoFile
  /\ recorded[w] = "failed" => w \in unread \/ \E g \in Refused : WavOf[g] = w

UploadInv ==
  /\ UploadTypeOK
  /\ \A u \in Uploader : Busy(u) /\ Truthful(u)
  /\ \A w \in Wav : Caused(w)

\* The initial tables are empty.
LEMMA UploadInvInit == UploadInit => UploadInv
BY UploadBoundsAssumption
   DEF UploadInit, UploadInv, UploadTypeOK, Busy, Truthful, Caused, NoFile

\* A payload names a recording.
LEMMA WavOfFile == \A f \in File : WavOf[f] \in Wav
BY DEF Wav

\* What Proceed and Asleep assign is of its type.
UTypes ==
  /\ upc \in [Uploader -> {"asleep", "loop", "read", "post", "record"}]
  /\ job \in [Uploader -> File \union {NoFile}]
  /\ answer \in [Uploader -> {"none", "no json", "400", "200"}]

ATypes ==
  /\ UTypes
  /\ listed \in [Uploader -> SUBSET File]
  /\ attempted \in [Uploader -> 0..BatchSize]

LEMMA ProceedTypes ==
  ASSUME UploadTypeOK, NEW u \in Uploader, Proceed(u) PROVE UTypes'
BY DEF UploadTypeOK, Proceed, Goto, UTypes

LEMMA AsleepTypes ==
  ASSUME UploadTypeOK, NEW u \in Uploader, Asleep(u) PROVE ATypes'
<1>1. UTypes'
  BY DEF UploadTypeOK, Asleep, Goto, UTypes
<1>2. listed' \in [Uploader -> SUBSET File]
  BY DEF UploadTypeOK, Asleep
<1>3. attempted' \in [Uploader -> 0..BatchSize]
  <2>1. 0 \in 0..BatchSize
    BY UploadBoundsAssumption
  <2> QED
    BY <2>1 DEF UploadTypeOK, Asleep
<1> QED
  BY <1>1, <1>2, <1>3 DEF ATypes

\* A fault is one of MaxFaults.
LEMMA FaultType == ASSUME UploadTypeOK, Fault PROVE faults' \in 0..MaxFaults
<1>1. faults \in 0..MaxFaults
  BY DEF UploadTypeOK
<1>2. faults < MaxFaults /\ faults' = faults + 1
  BY DEF Fault
<1> QED
  BY <1>1, <1>2, UploadBoundsAssumption

\* Inserting a transcript stores one, and no row is ever lost.
LEMMA InsertKeeps ==
  ASSUME UploadTypeOK, NEW f \in File, InsertDispatchTranscript(f)
  PROVE  /\ transcripts' \in [Wav -> File \union {NoFile}]
         /\ transcripts'[WavOf[f]] # NoFile
         /\ \A w \in Wav : transcripts[w] # NoFile => transcripts'[w] # NoFile
<1>1. WavOf[f] \in Wav
  BY WavOfFile
<1>2. f # NoFile
  BY FilesAssumption DEF NoFile
<1>3. transcripts \in [Wav -> File \union {NoFile}]
  BY DEF UploadTypeOK
<1>4. transcripts' = [transcripts EXCEPT ![WavOf[f]] =
                        IF transcripts[WavOf[f]] = NoFile
                          THEN f ELSE transcripts[WavOf[f]]]
  BY DEF InsertDispatchTranscript
<1> QED
  BY <1>1, <1>2, <1>3, <1>4

\* Every step of process_once, of the endpoint and of the transcriber keeps
\* the invariant.
LEMMA UploadInvStep == UploadInv /\ [UploadNext]_uploadVars => UploadInv'
<1> SUFFICES ASSUME UploadInv, [UploadNext]_uploadVars PROVE UploadInv'
  OBVIOUS
<1> USE UploadBoundsAssumption, FilesAssumption DEF UploadInv
<1>1. ASSUME NEW f \in File, StartFile(f) \/ FinishFile(f) PROVE UploadInv'
  <2>1. UploadTypeOK'
    BY <1>1 DEF StartFile, FinishFile, table, uploaders, UploadTypeOK
  <2>2. ASSUME NEW v \in Uploader PROVE Busy(v)'
    BY <1>1 DEF StartFile, FinishFile, table, uploaders, UploadTypeOK, Busy
  <2>3. ASSUME NEW v \in Uploader PROVE Truthful(v)'
    BY <1>1
       DEF StartFile, FinishFile, table, uploaders, UploadTypeOK, Busy, Truthful
  <2>4. ASSUME NEW w \in Wav PROVE Caused(w)'
    BY <1>1
       DEF StartFile, FinishFile, table, uploaders, UploadTypeOK, Busy,
           Truthful, Caused
  <2> QED
    BY <2>1, <2>2, <2>3, <2>4
<1>2. ASSUME NEW u \in Uploader, ListFolder(u) PROVE UploadInv'
  <2>1. UploadTypeOK'
    BY <1>2 DEF ListFolder, Goto, table, UploadTypeOK
  <2>2. ASSUME NEW v \in Uploader PROVE Busy(v)'
    BY <1>2 DEF ListFolder, Goto, table, UploadTypeOK, Busy
  <2>3. ASSUME NEW v \in Uploader PROVE Truthful(v)'
    BY <1>2 DEF ListFolder, Goto, table, UploadTypeOK, Busy, Truthful
  <2>4. ASSUME NEW w \in Wav PROVE Caused(w)'
    BY <1>2 DEF ListFolder, Goto, table, UploadTypeOK, Busy, Truthful, Caused
  <2> QED
    BY <2>1, <2>2, <2>3, <2>4
<1>3. ASSUME NEW u \in Uploader, NEW f \in File, NextFile(u, f) PROVE UploadInv'
  <2>1. UploadTypeOK'
    <3>1. upc' \in [Uploader -> {"asleep", "loop", "read", "post", "record"}]
      BY <1>3 DEF NextFile, Goto, UploadTypeOK
    <3>2. listed' \in [Uploader -> SUBSET File]
      BY <1>3 DEF NextFile, UploadTypeOK
    <3>3. attempted' \in [Uploader -> 0..BatchSize]
      <4>1. attempted \in [Uploader -> 0..BatchSize] /\ attempted[u] < BatchSize
        BY <1>3 DEF NextFile, UploadTypeOK
      <4>2. attempted[u] + 1 \in 0..BatchSize
        BY <4>1
      <4>3. attempted' = [attempted EXCEPT ![u] = attempted[u] + 1]
        BY <1>3 DEF NextFile, Attempts
      <4> QED
        BY <4>1, <4>2, <4>3
    <3>4. job' \in [Uploader -> File \union {NoFile}]
      BY <1>3 DEF NextFile, UploadTypeOK
    <3> QED
      BY <1>3, <3>1, <3>2, <3>3, <3>4 DEF NextFile, table, UploadTypeOK
  <2>2. ASSUME NEW v \in Uploader PROVE Busy(v)'
    BY <1>3 DEF NextFile, Attempts, Goto, table, UploadTypeOK, Busy
  <2>3. ASSUME NEW v \in Uploader PROVE Truthful(v)'
    BY <1>3 DEF NextFile, Attempts, Goto, table, UploadTypeOK, Busy, Truthful
  <2>4. ASSUME NEW w \in Wav PROVE Caused(w)'
    BY <1>3
       DEF NextFile, Attempts, Goto, table, UploadTypeOK, Busy, Truthful, Caused
  <2> QED
    BY <2>1, <2>2, <2>3, <2>4
<1>4. ASSUME NEW u \in Uploader, EndOfBatch(u) PROVE UploadInv'
  <2>1. UploadTypeOK'
    <3>1. ATypes'
      BY <1>4, AsleepTypes DEF EndOfBatch
    <3> QED
      BY <1>4, <3>1 DEF EndOfBatch, Asleep, table, ATypes, UTypes, UploadTypeOK
  <2>2. ASSUME NEW v \in Uploader PROVE Busy(v)'
    BY <1>4 DEF EndOfBatch, Asleep, Goto, table, NoFile, UploadTypeOK, Busy
  <2>3. ASSUME NEW v \in Uploader PROVE Truthful(v)'
    BY <1>4
       DEF EndOfBatch, Asleep, Goto, table, NoFile, UploadTypeOK, Busy, Truthful
  <2>4. ASSUME NEW w \in Wav PROVE Caused(w)'
    BY <1>4
       DEF EndOfBatch, Asleep, Goto, table, NoFile, UploadTypeOK, Busy,
           Truthful, Caused
  <2> QED
    BY <2>1, <2>2, <2>3, <2>4
<1>5. ASSUME NEW u \in Uploader, ReadFails(u) PROVE UploadInv'
  <2>1. UploadTypeOK'
    <3>1. upc' \in [Uploader -> {"asleep", "loop", "read", "post", "record"}]
      BY <1>5 DEF ReadFails, Goto, UploadTypeOK
    <3>2. answer' \in [Uploader -> {"none", "no json", "400", "200"}]
      BY <1>5 DEF ReadFails, UploadTypeOK
    <3>3. unread' \subseteq File
      BY <1>5 DEF ReadFails, UploadTypeOK, Busy
    <3>4. faults' \in 0..MaxFaults
      BY <1>5, FaultType DEF ReadFails, UploadTypeOK
    <3> QED
      BY <1>5, <3>1, <3>2, <3>3, <3>4 DEF ReadFails, table, UploadTypeOK
  <2>2. ASSUME NEW v \in Uploader PROVE Busy(v)'
    BY <1>5 DEF ReadFails, Fault, Goto, table, UploadTypeOK, Busy
  <2>3. ASSUME NEW v \in Uploader PROVE Truthful(v)'
    BY <1>5 DEF ReadFails, Fault, Goto, table, UploadTypeOK, Busy, Truthful
  <2>4. ASSUME NEW w \in Wav PROVE Caused(w)'
    BY <1>5
       DEF ReadFails, Fault, Goto, table, UploadTypeOK, Busy, Truthful, Caused
  <2> QED
    BY <2>1, <2>2, <2>3, <2>4
<1>6. ASSUME NEW u \in Uploader, ReadFile(u) PROVE UploadInv'
  <2>1. UploadTypeOK'
    BY <1>6 DEF ReadFile, Goto, table, UploadTypeOK
  <2>2. ASSUME NEW v \in Uploader PROVE Busy(v)'
    BY <1>6 DEF ReadFile, Goto, table, UploadTypeOK, Busy
  <2>3. ASSUME NEW v \in Uploader PROVE Truthful(v)'
    BY <1>6 DEF ReadFile, Goto, table, UploadTypeOK, Busy, Truthful
  <2>4. ASSUME NEW w \in Wav PROVE Caused(w)'
    BY <1>6 DEF ReadFile, Goto, table, UploadTypeOK, Busy, Truthful, Caused
  <2> QED
    BY <2>1, <2>2, <2>3, <2>4
<1>7. ASSUME NEW u \in Uploader, Post(u) PROVE UploadInv'
  <2>1. UploadTypeOK'
    <3>1. upc' \in [Uploader -> {"asleep", "loop", "read", "post", "record"}]
      BY <1>7 DEF Post, Goto, UploadTypeOK
    <3>2. answer' \in [Uploader -> {"none", "no json", "400", "200"}]
      BY <1>7 DEF Post, UploadTypeOK
    <3>3. transcripts' \in [Wav -> File \union {NoFile}]
      BY <1>7, InsertKeeps DEF Post, UploadTypeOK, Busy
    <3> QED
      BY <1>7, <3>1, <3>2, <3>3 DEF Post, UploadTypeOK
  <2>2. ASSUME NEW v \in Uploader PROVE Busy(v)'
    BY <1>7 DEF Post, InsertDispatchTranscript, Goto, NoFile, UploadTypeOK, Busy
  <2>3. \A w \in Wav : transcripts[w] # NoFile => transcripts'[w] # NoFile
    BY <1>7, InsertKeeps DEF Post, Busy
  <2>4. recorded' = recorded /\ unread' = unread
    BY <1>7 DEF Post
  <2>5. ASSUME NEW v \in Uploader PROVE Truthful(v)'
    <3>1. CASE v = u
      <4>1. job' = job /\ job[u] \in File /\ upc[u] = "post"
        BY <1>7 DEF Post, Busy
      <4>2. CASE job[u] \in Refused
        <5>1. answer'[u] = "400"
          BY <1>7, <4>2 DEF Post, UploadTypeOK
        <5> QED
          BY <3>1, <4>1, <4>2, <5>1 DEF Truthful
      <4>3. CASE job[u] \notin Refused
        <5>1. answer'[u] = "200" /\ transcripts'[WavOf[job[u]]] # NoFile
          BY <1>7, <4>1, <4>3, InsertKeeps DEF Post, UploadTypeOK
        <5> QED
          BY <3>1, <4>1, <5>1 DEF Truthful
      <4> QED
        BY <4>2, <4>3
    <3>2. CASE v # u
      <4>1. /\ upc'[v] = upc[v] /\ answer'[v] = answer[v]
            /\ job'[v] = job[v]
        BY <1>7, <3>2 DEF Post, Goto, UploadTypeOK
      <4> QED
        BY <2>3, <2>4, <4>1, WavOfFile DEF Truthful, Busy
    <3> QED
      BY <3>1, <3>2
  <2>6. ASSUME NEW w \in Wav PROVE Caused(w)'
    BY <2>3, <2>4 DEF Caused
  <2> QED
    BY <2>1, <2>2, <2>5, <2>6
<1>8. ASSUME NEW u \in Uploader, PostFails(u) PROVE UploadInv'
  <2>1. UploadTypeOK'
    <3>1. transcripts' \in [Wav -> File \union {NoFile}]
      BY <1>8, InsertKeeps, PayloadAssumption DEF PostFails, UploadTypeOK, Busy
    <3>2. UTypes'
      BY <1>8, ProceedTypes DEF PostFails
    <3>3. faults' \in 0..MaxFaults
      BY <1>8, FaultType DEF PostFails, UploadTypeOK
    <3> QED
      BY <1>8, <3>1, <3>2, <3>3 DEF PostFails, UTypes, UploadTypeOK
  <2>2. ASSUME NEW v \in Uploader PROVE Busy(v)'
    BY <1>8
       DEF PostFails, Proceed, Fault, InsertDispatchTranscript, Goto, NoFile,
           UploadTypeOK, Busy
  <2>3. \A w \in Wav : transcripts[w] # NoFile => transcripts'[w] # NoFile
    BY <1>8, InsertKeeps DEF PostFails, Busy
  <2>4. recorded' = recorded /\ unread' = unread
    BY <1>8 DEF PostFails
  <2>5. ASSUME NEW v \in Uploader PROVE Truthful(v)'
    <3>1. CASE v = u
      BY <1>8, <3>1 DEF PostFails, Proceed, Goto, UploadTypeOK, Truthful
    <3>2. CASE v # u
      <4>1. /\ upc'[v] = upc[v] /\ answer'[v] = answer[v]
            /\ job'[v] = job[v]
        BY <1>8, <3>2 DEF PostFails, Proceed, Goto, UploadTypeOK
      <4> QED
        BY <2>3, <2>4, <4>1, WavOfFile DEF Truthful, Busy
    <3> QED
      BY <3>1, <3>2
  <2>6. ASSUME NEW w \in Wav PROVE Caused(w)'
    BY <2>3, <2>4 DEF Caused
  <2> QED
    BY <2>1, <2>2, <2>5, <2>6
<1>9. ASSUME NEW u \in Uploader, RecordOutcome(u) PROVE UploadInv'
  <2>1. UploadTypeOK'
    <3>1. recorded' \in [Wav -> {"no", "uploaded", "failed"}]
      BY <1>9, WavOfFile
         DEF RecordOutcome, Record, Recording, Wav, UploadTypeOK, Busy
    <3>2. UTypes'
      BY <1>9, ProceedTypes DEF RecordOutcome
    <3>3. faults' \in 0..MaxFaults
      BY <1>9, FaultType DEF RecordOutcome, UploadTypeOK
    <3> QED
      BY <1>9, <3>1, <3>2, <3>3 DEF RecordOutcome, UTypes, UploadTypeOK
  <2>2. ASSUME NEW v \in Uploader PROVE Busy(v)'
    BY <1>9
       DEF RecordOutcome, Record, Recording, Proceed, Fault, Goto, Wav, NoFile,
           UploadTypeOK, Busy
  <2>3. ASSUME NEW v \in Uploader PROVE Truthful(v)'
    BY <1>9, WavOfFile
       DEF RecordOutcome, Record, Recording, Proceed, Fault, Goto, Wav, NoFile,
           UploadTypeOK, Busy, Truthful
  <2>4. ASSUME NEW w \in Wav PROVE Caused(w)'
    <3>1. transcripts' = transcripts /\ unread' = unread
      BY <1>9 DEF RecordOutcome
    <3>2. CASE recorded'[w] = recorded[w]
      BY <3>1, <3>2 DEF Caused
    <3>3. CASE recorded'[w] # recorded[w]
      <4>1. upc[u] = "record" /\ job[u] \in File /\ Record(u)
        BY <1>9, <3>3 DEF RecordOutcome, Busy
      <4>2. w = Recording(u)
        BY <3>3, <4>1 DEF Record, UploadTypeOK
      <4>3. recorded'[w] = IF answer[u] = "200" THEN "uploaded" ELSE "failed"
        BY <4>1, <4>2 DEF Record, UploadTypeOK
      <4>4. Truthful(u)
        OBVIOUS
      <4> QED
        BY <3>1, <4>1, <4>2, <4>3, <4>4
           DEF Truthful, Caused, Recording
    <3> QED
      BY <3>2, <3>3
  <2> QED
    BY <2>1, <2>2, <2>3, <2>4
<1>10. ASSUME NEW u \in Uploader, Die(u) PROVE UploadInv'
  <2>1. UploadTypeOK'
    <3>1. ATypes'
      BY <1>10, AsleepTypes DEF Die
    <3>2. faults' \in 0..MaxFaults
      BY <1>10, FaultType DEF Die, UploadTypeOK
    <3> QED
      BY <1>10, <3>1, <3>2 DEF Die, Asleep, table, ATypes, UTypes, UploadTypeOK
  <2>2. ASSUME NEW v \in Uploader PROVE Busy(v)'
    BY <1>10 DEF Die, Asleep, Fault, Goto, table, NoFile, UploadTypeOK, Busy
  <2>3. ASSUME NEW v \in Uploader PROVE Truthful(v)'
    BY <1>10
       DEF Die, Asleep, Fault, Goto, table, NoFile, UploadTypeOK, Busy, Truthful
  <2>4. ASSUME NEW w \in Wav PROVE Caused(w)'
    BY <1>10
       DEF Die, Asleep, Fault, Goto, table, NoFile, UploadTypeOK, Busy,
           Truthful, Caused
  <2> QED
    BY <2>1, <2>2, <2>3, <2>4
<1>11. CASE UNCHANGED uploadVars
  BY <1>11 DEF uploadVars, table, uploaders, UploadTypeOK, Busy, Truthful,
               Caused
<1> QED
  BY <1>1, <1>2, <1>3, <1>4, <1>5, <1>6, <1>7, <1>8, <1>9, <1>10, <1>11
     DEF UploadNext, UploaderStep

\* The invariant holds of every behaviour of the uploaders.
THEOREM UploadInvariant == UploadSpec => []UploadInv
<1>1. UploadInit => UploadInv
  BY UploadInvInit
<1>2. UploadInv /\ [UploadNext]_uploadVars => UploadInv'
  BY UploadInvStep
<1> QED
  BY <1>1, <1>2, PTL DEF UploadSpec

\* The folder, the two tables and the uploaders keep their types, and no round
\* of process_once attempts more than a batch.
THEOREM UploadTypeCorrect == UploadSpec => []UploadTypeOK
<1>1. UploadInv => UploadTypeOK
  BY DEF UploadInv
<1> QED
  BY <1>1, UploadInvariant, PTL

\* What the uploaders' table calls uploaded is in dispatch_transcripts.
THEOREM RecordedIsStoredCorrect == UploadSpec => []RecordedIsStored
<1>1. UploadInv => RecordedIsStored
  BY DEF UploadInv, Caused, RecordedIsStored
<1> QED
  BY <1>1, UploadInvariant, PTL

\* A recording is given up only if the server refused it or its file could not
\* be read.
THEOREM GivenUpForCauseCorrect == UploadSpec => []GivenUpForCause
<1>1. UploadInv => GivenUpForCause
  <2> SUFFICES ASSUME UploadInv, NEW f \in File, AlreadyRecorded(f),
                      transcripts[f] = NoFile
               PROVE  f \in unread \/ \E g \in Refused : WavOf[g] = f
    BY DEF GivenUpForCause
  <2>1. f \in Wav
    BY DEF Wav
  <2>2. recorded[f] = "failed"
    BY <2>1 DEF UploadInv, UploadTypeOK, Caused, AlreadyRecorded
  <2> QED
    BY <2>1, <2>2 DEF UploadInv, Caused
<1> QED
  BY <1>1, UploadInvariant, PTL

-----------------------------------------------------------------------------
(***************************************************************************)
(* The parser.  The first token of a kind stays the first when a recording *)
(* goes on, and so do the end of the channel sequence, the units before    *)
(* and after the address, the nature and with them the whole segment that  *)
(* parseChannelFirstSegment takes (SegmentStays, CompleteStays).           *)
(*                                                                         *)
(* First and last positions.                                               *)
(***************************************************************************)

\* Every set of naturals that has a member has a least one.
LEMMA LeastNatural ==
  ASSUME NEW S, S \subseteq Nat, S # {}
  PROVE  \E m \in S : \A n \in S : m <= n
<1>1. PICK R : R = OpToRel(<, Nat)
  OBVIOUS
<1>2. IsWellFoundedOn(R, Nat)
  BY <1>1, NatLessThanWellFounded
<1>3. PICK x \in S : \A y \in S : ~(<<y, x>> \in R)
  <2>1. \E x \in S : \A y \in S : ~(<<y, x>> \in R)
    BY <1>2, WFMin
  <2>2. QED
    BY <2>1
<1>4. R = {p \in Nat \X Nat : p[1] < p[2]}
  BY <1>1 DEF OpToRel
<1>5. ASSUME NEW y \in S
      PROVE  x <= y
  <2>1. x \in Nat /\ y \in Nat /\ ~(<<y, x>> \in R)
    BY <1>3
  <2>2. y < x => <<y, x>> \in R
    BY <1>4, <2>1
  <2>3. QED
    BY <2>1, <2>2
<1>6. QED
  BY <1>5

\* A set of positions of a list that has a member has a last one, Max of it.
LEMMA LastPosition ==
  ASSUME NEW n \in Nat, NEW S, S \subseteq 1..n, S # {}
  PROVE  /\ Max(S) \in S
         /\ \A k \in S : k <= Max(S)
<1> DEFINE D == {d \in Nat : n - d \in S}
<1>1. D \subseteq Nat /\ D # {}
  <2>1. PICK k \in S : TRUE
    OBVIOUS
  <2>2. k \in 1..n
    BY <2>1
  <2>3. n - k \in Nat /\ n - (n - k) = k
    BY <2>2
  <2>4. n - k \in D
    BY <2>3
  <2>5. QED
    BY <2>4
<1>2. PICK d \in D : \A e \in D : d <= e
  <2> HIDE DEF D
  <2>1. QED
    BY <1>1, LeastNatural
<1>3. ASSUME NEW k \in S
      PROVE  n - d >= k
  <2>1. k \in 1..n /\ d \in Nat
    BY <1>2
  <2>2. n - k \in Nat /\ n - (n - k) = k
    BY <2>1
  <2>3. n - k \in D
    BY <2>2
  <2>4. d <= n - k
    BY <1>2, <2>3
  <2>5. QED
    BY <2>1, <2>4
<1>4. n - d \in S
  BY <1>2
<1>5. \E x \in S : \A y \in S : x >= y
  BY <1>3, <1>4
<1>6. Max(S) \in S /\ \A y \in S : Max(S) >= y
  BY <1>5 DEF Max
<1>7. QED
  <2>1. ASSUME NEW k \in S
        PROVE  k <= Max(S)
    <3>1. Max(S) \in 1..n /\ k \in 1..n /\ Max(S) >= k
      BY <1>6
    <3>2. QED
      BY <3>1
  <2>2. QED
    BY <1>6, <2>1

LEMMA PositionsAreNatural ==
  ASSUME NEW n \in Nat, NEW S, S \subseteq 1..n
  PROVE  /\ S \subseteq Nat
         /\ \A k \in S : k \in Nat /\ 1 <= k /\ k <= n
<1>1. ASSUME NEW k \in S
      PROVE  k \in Nat /\ 1 <= k /\ k <= n
  <2>1. k \in 1..n
    OBVIOUS
  <2>2. QED
    BY <2>1
<1>2. QED
  BY <1>1

LEMMA FirstPosition ==
  ASSUME NEW S, S \subseteq Nat, S # {}
  PROVE  Min(S) \in S /\ \A k \in S : Min(S) <= k
<1>1. PICK m \in S : \A n \in S : m <= n
  BY LeastNatural
<1>2. \E x \in S : \A y \in S : x =< y
  BY <1>1
<1>3. Min(S) \in S /\ \A y \in S : Min(S) =< y
  BY <1>2 DEF Min
<1>4. QED
  BY <1>3

LEMMA FirstPositionIs ==
  ASSUME NEW S, S \subseteq Nat, NEW m \in S, \A k \in S : m <= k
  PROVE  Min(S) = m
<1>1. Min(S) \in S /\ Min(S) <= m
  BY FirstPosition
<1>2. m <= Min(S) /\ m \in Nat /\ Min(S) \in Nat
  BY <1>1
<1>3. QED
  BY <1>1, <1>2

LEMMA LastPositionIs ==
  ASSUME NEW n \in Nat, NEW S, S \subseteq 1..n, NEW m \in S,
         \A k \in S : k <= m
  PROVE  Max(S) = m
<1>1. Max(S) \in S /\ m <= Max(S)
  BY LastPosition
<1>2. Max(S) <= m /\ m \in Nat /\ Max(S) \in Nat
  BY <1>1, PositionsAreNatural
<1>3. QED
  BY <1>1, <1>2

\* 0 stands for no position.
LEMMA FirstIn ==
  ASSUME NEW n \in Nat, NEW S, S \subseteq 1..n
  PROVE  /\ FirstOf(S) = 0 <=> S = {}
         /\ S # {} => FirstOf(S) \in S /\ \A k \in S : FirstOf(S) <= k
<1>1. CASE S = {}
  BY <1>1 DEF FirstOf
<1>2. CASE S # {}
  <2>1. /\ S \subseteq Nat /\ FirstOf(S) = Min(S)
        /\ \A k \in S : k \in Nat /\ 1 <= k
    BY <1>2, PositionsAreNatural DEF FirstOf
  <2>2. Min(S) \in S /\ \A k \in S : Min(S) <= k
    BY <1>2, <2>1, FirstPosition
  <2>3. Min(S) # 0
    <3>1. 1 <= Min(S)
      BY <2>1, <2>2
    <3>2. QED
      BY <3>1
  <2>4. QED
    BY <1>2, <2>1, <2>2, <2>3
<1>3. QED
  BY <1>1, <1>2

\* Positions added behind do not change which is the first.
LEMMA FirstStays ==
  ASSUME NEW n \in Nat, NEW S, NEW T, S \subseteq 1..n, S # {},
         S \subseteq T, T \subseteq S \union {n + 1}
  PROVE  FirstOf(T) = FirstOf(S)
<1>1. /\ S \subseteq Nat /\ Min(S) \in S /\ \A k \in S : Min(S) <= k
      /\ \A k \in S : k \in Nat /\ k <= n
  BY PositionsAreNatural, FirstPosition
<1>2. T \subseteq Nat /\ Min(S) \in T /\ T # {}
  <2>1. n + 1 \in Nat
    OBVIOUS
  <2>2. QED
    BY <1>1, <2>1
<1>3. \A k \in T : Min(S) <= k
  <2>1. Min(S) <= n + 1
    <3>1. Min(S) \in Nat /\ Min(S) <= n
      BY <1>1
    <3>2. QED
      BY <3>1
  <2>2. QED
    BY <1>1, <2>1
<1>4. Min(T) = Min(S)
  BY <1>2, <1>3, FirstPositionIs
<1>5. QED
  BY <1>2, <1>4 DEF FirstOf

-----------------------------------------------------------------------------
(* A text and the same text with one more token.                           *)

Name == {"", "1", "2", "3"}
Tok == [kind : Kind, name : Name]

Grown(short, long) ==
  /\ short \in Seq(Tok) /\ long \in Seq(Tok)
  /\ Len(long) = Len(short) + 1
  /\ \A i \in 1..Len(short) : long[i] = short[i]

LEMMA AtPositions ==
  ASSUME NEW t \in Seq(Tok), NEW kind, NEW from \in Nat, NEW to \in Int
  PROVE  /\ At(t, kind, from, to) \subseteq 1..Len(t)
         /\ \A i \in At(t, kind, from, to) :
              i \in Nat /\ 1 <= i /\ i <= Len(t) /\ from <= i /\ i <= to
              /\ t[i].kind = kind
<1>1. DOMAIN t = 1..Len(t) /\ Len(t) \in Nat
  BY LenProperties
<1>2. ASSUME NEW i \in At(t, kind, from, to)
      PROVE  i \in 1..Len(t) /\ i \in Nat /\ 1 <= i /\ i <= Len(t)
             /\ from <= i /\ i <= to /\ t[i].kind = kind
  <2>1. i \in from..to /\ i \in 1..Len(t) /\ t[i].kind = kind
    BY <1>1 DEF At
  <2>2. QED
    BY <1>1, <2>1
<1>3. QED
  BY <1>2

LEMMA AtSame ==
  ASSUME NEW short, NEW long, Grown(short, long), NEW kind,
         NEW from \in Nat, NEW to \in Int, to <= Len(short)
  PROVE  At(long, kind, from, to) = At(short, kind, from, to)
<1>1. /\ DOMAIN short = 1..Len(short) /\ Len(short) \in Nat
      /\ DOMAIN long = 1..(Len(short) + 1)
  BY LenProperties DEF Grown
<1>2. ASSUME NEW i \in from..to
      PROVE  i \in DOMAIN long /\ long[i].kind = kind
               <=> i \in DOMAIN short /\ short[i].kind = kind
  <2>1. i \in DOMAIN long <=> i \in DOMAIN short
    BY <1>1
  <2>2. i \in DOMAIN short => long[i] = short[i]
    BY <1>1 DEF Grown
  <2>3. QED
    BY <2>1, <2>2
<1>3. QED
  BY <1>2 DEF At

LEMMA AtGrown ==
  ASSUME NEW short, NEW long, Grown(short, long), NEW kind,
         NEW from \in Nat, NEW to \in Nat
  PROVE  /\ At(short, kind, from, to) \subseteq At(long, kind, from, to)
         /\ At(long, kind, from, to)
              \subseteq At(short, kind, from, to) \union {Len(short) + 1}
<1>1. /\ DOMAIN short = 1..Len(short) /\ Len(short) \in Nat
      /\ DOMAIN long = 1..(Len(short) + 1)
  BY LenProperties DEF Grown
<1>2. \A i \in DOMAIN short : i \in DOMAIN long /\ long[i] = short[i]
  BY <1>1 DEF Grown
<1>3. \A i \in DOMAIN long : i \in DOMAIN short \/ i = Len(short) + 1
  BY <1>1
<1>4. QED
  BY <1>2, <1>3 DEF At

\* The first token of a kind stays the first.
LEMMA FirstAtStays ==
  ASSUME NEW short, NEW long, Grown(short, long), NEW kind, NEW from \in Nat,
         FirstOf(At(short, kind, from, Len(short))) # 0
  PROVE  FirstOf(At(long, kind, from, Len(long)))
           = FirstOf(At(short, kind, from, Len(short)))
<1> DEFINE S == At(short, kind, from, Len(short))
           T == At(long, kind, from, Len(long))
           n == Len(short)
<1>1. n \in Nat /\ Len(long) = n + 1 /\ Len(long) \in Nat
  BY LenProperties DEF Grown
<1>2. S \subseteq 1..n
  BY <1>1, AtPositions DEF Grown
<1>3. S # {}
  BY DEF FirstOf
<1>4. S \subseteq T
  <2>1. ASSUME NEW i \in S
        PROVE  i \in T
    <3>1. i \in from..n /\ i \in DOMAIN short /\ short[i].kind = kind
      BY DEF At
    <3>2. i \in from..Len(long)
      BY <1>1, <3>1
    <3>3. i \in DOMAIN long /\ long[i] = short[i]
      BY <1>1, <1>2, LenProperties DEF Grown
    <3>4. QED
      BY <3>1, <3>2, <3>3 DEF At
  <2>2. QED
    BY <2>1
<1>5. T \subseteq S \union {n + 1}
  <2>1. ASSUME NEW i \in T, i # n + 1
        PROVE  i \in S
    <3>1. i \in from..Len(long) /\ i \in DOMAIN long /\ long[i].kind = kind
      BY DEF At
    <3>2. i \in from..n /\ i \in 1..n
      BY <1>1, <2>1, <3>1, LenProperties DEF Grown
    <3>3. i \in DOMAIN short /\ long[i] = short[i]
      BY <1>1, <3>2, LenProperties DEF Grown
    <3>4. QED
      BY <3>1, <3>2, <3>3 DEF At
  <2>2. QED
    BY <2>1
<1> HIDE DEF S, T, n
<1>6. FirstOf(T) = FirstOf(S)
  BY <1>1, <1>2, <1>3, <1>4, <1>5, FirstStays
<1>7. QED
  BY <1>6 DEF S, T

\* Where the short text has none, the long one has it at its end or not.
LEMMA FirstAtAppears ==
  ASSUME NEW short, NEW long, Grown(short, long), NEW kind, NEW from \in Nat,
         FirstOf(At(short, kind, from, Len(short))) = 0
  PROVE  FirstOf(At(long, kind, from, Len(long))) \in {0, Len(short) + 1}
<1> DEFINE T == At(long, kind, from, Len(long))
           n == Len(short)
<1>1. n \in Nat /\ Len(long) = n + 1 /\ Len(long) \in Nat
      /\ DOMAIN short = 1..n /\ DOMAIN long = 1..(n + 1)
  BY LenProperties DEF Grown
<1>2. At(short, kind, from, n) = {}
  BY <1>1, AtPositions, FirstIn DEF Grown
<1>3. ASSUME NEW i \in T
      PROVE  i = n + 1
  <2>1. i \in from..(n + 1) /\ i \in 1..(n + 1) /\ long[i].kind = kind
    BY <1>1 DEF At
  <2>2. CASE i # n + 1
    <3>1. i \in from..n /\ i \in 1..n
      BY <1>1, <2>1, <2>2
    <3>2. short[i].kind = kind
      BY <2>1, <3>1 DEF Grown
    <3>3. QED
      BY <1>1, <1>2, <3>1, <3>2 DEF At
  <2>3. QED
    BY <2>2
<1>4. T \subseteq 1..(n + 1)
  BY <1>1, AtPositions DEF Grown
<1> HIDE DEF T, n
<1>5. FirstOf(T) = 0 \/ FirstOf(T) \in T
  BY <1>1, <1>4, FirstIn
<1>6. QED
  BY <1>3, <1>5 DEF T, n

LEMMA UnitMatchesSame ==
  ASSUME NEW short, NEW long, Grown(short, long),
         NEW from \in Nat, NEW to \in Int, to <= Len(short)
  PROVE  UnitMatches(long, from, to) = UnitMatches(short, from, to)
<1>1. At(long, "unit", from, to) = At(short, "unit", from, to)
  BY AtSame
<1>2. ASSUME NEW i \in At(short, "unit", from, to)
      PROVE  /\ At(long, "unit", from, i - 1) = At(short, "unit", from, i - 1)
             /\ long[i] = short[i]
             /\ \A j \in At(short, "unit", from, i - 1) : long[j] = short[j]
  <2>1. Len(short) \in Nat /\ short \in Seq(Tok)
    BY LenProperties DEF Grown
  <2>2. i \in 1..Len(short)
    BY <2>1, AtPositions
  <2>3. i - 1 \in Int /\ i - 1 <= Len(short)
    BY <2>1, <2>2
  <2>4. At(long, "unit", from, i - 1) = At(short, "unit", from, i - 1)
    BY <2>3, AtSame
  <2>5. \A j \in At(short, "unit", from, i - 1) : j \in 1..Len(short)
    BY <2>1, <2>3, AtPositions
  <2>6. QED
    BY <2>2, <2>4, <2>5 DEF Grown
<1>3. QED
  BY <1>1, <1>2 DEF UnitMatches

LEMMA UnitMatchesGrown ==
  ASSUME NEW short, NEW long, Grown(short, long),
         NEW from \in Nat, NEW to \in Nat
  PROVE  /\ UnitMatches(short, from, to) \subseteq 1..Len(short)
         /\ UnitMatches(short, from, to) \subseteq UnitMatches(long, from, to)
         /\ UnitMatches(long, from, to)
              \subseteq UnitMatches(short, from, to) \union {Len(short) + 1}
<1>1. Len(short) \in Nat /\ short \in Seq(Tok)
  BY LenProperties DEF Grown
<1>2. At(short, "unit", from, to) \subseteq 1..Len(short)
  BY <1>1, AtPositions
<1>3. /\ At(short, "unit", from, to) \subseteq At(long, "unit", from, to)
      /\ At(long, "unit", from, to)
           \subseteq At(short, "unit", from, to) \union {Len(short) + 1}
  BY AtGrown
<1>4. ASSUME NEW i \in At(short, "unit", from, to)
      PROVE  i \in UnitMatches(short, from, to)
               <=> i \in UnitMatches(long, from, to)
  <2>1. i \in 1..Len(short)
    BY <1>2
  <2>2. i - 1 \in Int /\ i - 1 <= Len(short)
    BY <1>1, <2>1
  <2>3. At(long, "unit", from, i - 1) = At(short, "unit", from, i - 1)
    BY <2>2, AtSame
  <2>4. \A j \in At(short, "unit", from, i - 1) : j \in 1..Len(short)
    BY <1>1, <2>2, AtPositions
  <2>5. long[i] = short[i]
        /\ \A j \in At(short, "unit", from, i - 1) : long[j] = short[j]
    BY <2>1, <2>4 DEF Grown
  <2>6. i \in At(long, "unit", from, to)
    BY <1>3
  <2>7. QED
    BY <2>3, <2>5, <2>6 DEF UnitMatches
<1>5. QED
  BY <1>2, <1>3, <1>4 DEF UnitMatches

LEMMA SameGroupSame ==
  ASSUME NEW short, NEW long, Grown(short, long),
         NEW i \in 1..Len(short), NEW j \in 1..Len(short)
  PROVE  SameGroup(long, i, j) <=> SameGroup(short, i, j)
<1>1. Len(short) \in Nat
  BY LenProperties DEF Grown
<1>2. \A k \in (i + 1)..(j - 1) : k \in 1..Len(short)
  BY <1>1
<1>3. QED
  BY <1>2 DEF SameGroup, Grown

\* The walk back from the channel sees nothing behind it.
LEMMA SegmentStartSame ==
  ASSUME NEW short, NEW long, Grown(short, long), NEW c \in 1..Len(short)
  PROVE  /\ DispatchSegmentStart(long, c) = DispatchSegmentStart(short, c)
         /\ DispatchSegmentStart(short, c) \in UnitMatches(short, 1, c - 1) \union {c}
<1> DEFINE P == UnitMatches(short, 1, c - 1)
           After(k) == Min({j \in P : j > k})
           Starts(t) == {i \in P : \A k \in P :
                           k >= i /\ k # Max(P) => SameGroup(t, k, After(k))}
<1>1. /\ Len(short) \in Nat /\ short \in Seq(Tok)
      /\ c - 1 \in Int /\ c - 1 <= Len(short)
  BY LenProperties DEF Grown
<1>2. UnitMatches(long, 1, c - 1) = P
  BY <1>1, UnitMatchesSame
<1>3. P \subseteq 1..Len(short)
  BY <1>1, AtPositions DEF UnitMatches
<1>4. DispatchSegmentStart(short, c) = IF P = {} THEN c ELSE Min(Starts(short))
  BY DEF DispatchSegmentStart
<1>5. DispatchSegmentStart(long, c) = IF P = {} THEN c ELSE Min(Starts(long))
  BY <1>2 DEF DispatchSegmentStart
<1> HIDE DEF P
<1>6. ASSUME P # {}
      PROVE  Starts(long) = Starts(short) /\ Starts(short) # {}
  <2>1. Max(P) \in P /\ \A k \in P : k <= Max(P)
    BY <1>1, <1>3, <1>6, LastPosition
  <2>2. ASSUME NEW k \in P, k # Max(P)
        PROVE  SameGroup(long, k, After(k)) <=> SameGroup(short, k, After(k))
    <3>1. k <= Max(P) /\ k \in Nat /\ Max(P) \in Nat
      BY <1>3, <2>1, <1>1, PositionsAreNatural
    <3>2. Max(P) \in {j \in P : j > k}
      BY <2>1, <2>2, <3>1
    <3>3. {j \in P : j > k} \subseteq Nat
      BY <1>1, <1>3, PositionsAreNatural
    <3>4. After(k) \in P
      BY <3>2, <3>3, FirstPosition
    <3>5. QED
      BY <1>3, <3>4, SameGroupSame
  <2>3. Max(P) \in Starts(short)
    <3>1. \A k \in P : k >= Max(P) => k = Max(P)
      <4>1. ASSUME NEW k \in P, k >= Max(P)
            PROVE  k = Max(P)
        <5>1. k \in Nat /\ Max(P) \in Nat /\ k <= Max(P)
          BY <1>1, <1>3, <2>1, PositionsAreNatural
        <5>2. QED
          BY <4>1, <5>1
      <4>2. QED
        BY <4>1
    <3>2. QED
      BY <2>1, <3>1
  <2>4. QED
    BY <2>2, <2>3
<1>7. ASSUME P # {}
      PROVE  Min(Starts(short)) \in P
  <2>1. Starts(short) \subseteq Nat
    BY <1>1, <1>3, PositionsAreNatural
  <2>2. Min(Starts(short)) \in Starts(short)
    BY <1>6, <1>7, <2>1, FirstPosition
  <2>3. QED
    BY <2>2
<1> HIDE DEF Starts
<1>8. QED
  BY <1>4, <1>5, <1>6, <1>7 DEF P

\* An address behind the channel ends the channel's markers.
LEMMA ChannelEndSame ==
  ASSUME NEW short, NEW long, Grown(short, long),
         NEW c \in 1..Len(short), short[c].kind = "channel",
         NEW a \in 1..Len(short), c <= a, short[a].kind = "address"
  PROVE  ChannelSequenceEnd(long, c) = ChannelSequenceEnd(short, c)
<1> DEFINE J(t) == {j \in At(t, "channel", c, Len(t)) :
                      \A k \in c..j : t[k].kind \in {"channel", "stop"}}
           n == Len(short)
<1>1. n \in Nat /\ short \in Seq(Tok) /\ Len(long) = n + 1
      /\ DOMAIN short = 1..n /\ DOMAIN long = 1..(n + 1)
      /\ c \in Nat /\ 1 <= c
  BY LenProperties DEF Grown
<1>2. ASSUME NEW j \in J(short)
      PROVE  j \in J(long)
  <2>1. /\ j \in c..n /\ j \in 1..n /\ short[j].kind = "channel"
        /\ \A k \in c..j : short[k].kind \in {"channel", "stop"}
    BY <1>1 DEF At
  <2>2. j \in c..(n + 1) /\ j \in 1..(n + 1) /\ long[j] = short[j]
    BY <1>1, <2>1 DEF Grown
  <2>3. \A k \in c..j : k \in 1..n
    BY <1>1, <2>1
  <2>4. \A k \in c..j : long[k] = short[k]
    BY <2>3 DEF Grown
  <2>5. QED
    BY <1>1, <2>1, <2>2, <2>4 DEF At
<1>3. ASSUME NEW j \in J(long)
      PROVE  j \in J(short)
  <2>1. /\ j \in c..(n + 1) /\ j \in 1..(n + 1) /\ long[j].kind = "channel"
        /\ \A k \in c..j : long[k].kind \in {"channel", "stop"}
    BY <1>1 DEF At
  <2>2. long[a].kind = "address"
    BY DEF Grown
  <2>3. j # n + 1
    <3>1. j = n + 1 => a \in c..j
      BY <1>1, <2>1
    <3>2. QED
      BY <2>1, <2>2, <3>1
  <2>4. j \in c..n /\ j \in 1..n
    BY <1>1, <2>1, <2>3
  <2>5. \A k \in c..j : k \in 1..n
    BY <1>1, <2>4
  <2>6. long[j] = short[j] /\ \A k \in c..j : long[k] = short[k]
    BY <2>4, <2>5 DEF Grown
  <2>7. QED
    BY <1>1, <2>1, <2>4, <2>6 DEF At
<1>4. J(long) = J(short)
  BY <1>2, <1>3
<1> HIDE DEF J
<1>5. Max(J(long)) = Max(J(short))
  BY <1>4
<1>6. QED
  BY <1>5 DEF ChannelSequenceEnd, J

LEMMA ChannelEndBehind ==
  ASSUME NEW t \in Seq(Tok), NEW c \in 1..Len(t), t[c].kind = "channel"
  PROVE  ChannelSequenceEnd(t, c) \in c..Len(t)
<1> DEFINE J == {j \in At(t, "channel", c, Len(t)) :
                   \A k \in c..j : t[k].kind \in {"channel", "stop"}}
<1>1. Len(t) \in Nat /\ DOMAIN t = 1..Len(t) /\ c \in Nat
  BY LenProperties
<1>2. J \subseteq 1..Len(t) /\ \A j \in J : j \in c..Len(t)
  <2>1. ASSUME NEW j \in J
        PROVE  j \in 1..Len(t) /\ j \in c..Len(t)
    BY <1>1 DEF At
  <2>2. QED
    BY <2>1
<1>3. c \in J
  <2>1. c \in c..Len(t) /\ \A k \in c..c : k = c
    BY <1>1
  <2>2. QED
    BY <1>1, <2>1 DEF At
<1> HIDE DEF J
<1>4. Max(J) \in J
  BY <1>1, <1>2, <1>3, LastPosition
<1>5. QED
  BY <1>2, <1>4 DEF ChannelSequenceEnd, J

LEMMA KnownNatureSame ==
  ASSUME NEW short, NEW long, Grown(short, long),
         NEW from \in Nat, NEW to \in Int, to <= Len(short)
  PROVE  KnownNature(long, from, to) = KnownNature(short, from, to)
<1> DEFINE S == At(short, "nature", from, to)
<1>1. At(long, "nature", from, to) = S
  BY AtSame
<1>2. Len(short) \in Nat /\ S \subseteq 1..Len(short)
  BY LenProperties, AtPositions DEF Grown
<1> HIDE DEF S
<1>3. FirstOf(S) # 0 => FirstOf(S) \in 1..Len(short)
  BY <1>2, FirstIn
<1>4. FirstOf(S) # 0 => long[FirstOf(S)] = short[FirstOf(S)]
  BY <1>3 DEF Grown
<1>5. QED
  BY <1>1, <1>4 DEF KnownNature, S

LEMMA NatureSame ==
  ASSUME NEW short, NEW long, Grown(short, long),
         NEW e \in Nat, NEW a \in 1..Len(short)
  PROVE  ExtractNature(long, e, a) = ExtractNature(short, e, a)
<1> DEFINE Said(t) == {i \in (e + 1)..(a - 1) : t[i].kind # "stop"}
           first == FirstOf(Said(short))
           stop == FirstOf(At(short, "stop", first, a - 1))
           last == IF stop = 0 THEN a - 1 ELSE stop - 1
<1>1. /\ Len(short) \in Nat /\ short \in Seq(Tok)
      /\ a - 1 \in Int /\ a - 1 <= Len(short)
  BY LenProperties DEF Grown
<1>2. \A i \in (e + 1)..(a - 1) : i \in 1..Len(short)
  BY <1>1
<1>3. Said(long) = Said(short) /\ Said(short) \subseteq 1..Len(short)
  BY <1>2 DEF Grown
<1>4. first \in Nat
  <2> HIDE DEF Said
  <2>1. first = 0 \/ first \in 1..Len(short)
    BY <1>1, <1>3, FirstIn
  <2>2. QED
    BY <1>1, <2>1
<1>5. At(long, "stop", first, a - 1) = At(short, "stop", first, a - 1)
  <2> HIDE DEF first
  <2>1. QED
    BY <1>1, <1>4, AtSame
<1>6. last \in Int /\ last <= Len(short)
  <2> DEFINE S == At(short, "stop", first, a - 1)
  <2> HIDE DEF first
  <2>1. S \subseteq 1..Len(short)
    BY <1>1, <1>4, AtPositions
  <2> HIDE DEF S
  <2>2. FirstOf(S) = 0 \/ FirstOf(S) \in 1..Len(short)
    BY <1>1, <2>1, FirstIn
  <2>3. stop = 0 \/ stop \in 1..Len(short)
    BY <2>2 DEF S
  <2> HIDE DEF stop
  <2>4. QED
    BY <1>1, <2>3
<1>7. KnownNature(long, first, last) = KnownNature(short, first, last)
  <2> HIDE DEF first, last
  <2>1. QED
    BY <1>4, <1>6, KnownNatureSame
<1>8. ExtractNature(short, e, a) =
        IF Said(short) = {} THEN ""
        ELSE IF KnownNature(short, first, last) # ""
               THEN KnownNature(short, first, last) ELSE "Dispatch Call"
  BY DEF ExtractNature
<1>9. ExtractNature(long, e, a) =
        IF Said(short) = {} THEN ""
        ELSE IF KnownNature(long, first, last) # ""
               THEN KnownNature(long, first, last) ELSE "Dispatch Call"
  BY <1>3, <1>5 DEF ExtractNature
<1>10. QED
  BY <1>7, <1>8, <1>9

TrailingLimit(t, a) ==
  LET next == NextChannel(t, a + 1)
  IN IF next # 0 /\ next <= a + Reach THEN next - 1 ELSE a + Reach

\* A unit found after the address stays the one that is found.
LEMMA TrailingStays ==
  ASSUME NEW short, NEW long, Grown(short, long), NEW a \in 1..Len(short),
         TrailingUnit(short, a) # 0
  PROVE  /\ TrailingUnit(long, a) = TrailingUnit(short, a)
         /\ TrailingUnit(short, a) \in 1..Len(short)
<1> DEFINE n == Len(short)
           from == a + 1
           next == NextChannel(short, from)
           later == NextChannel(long, from)
           limit == TrailingLimit(short, a)
           limit2 == TrailingLimit(long, a)
           S == UnitMatches(short, from, limit)
<1>1. /\ n \in Nat /\ short \in Seq(Tok) /\ a \in Nat /\ from \in Nat
      /\ Len(long) = n + 1 /\ a + Reach \in Nat
      /\ At(short, "channel", from, n) \subseteq 1..n
  BY LenProperties, DistancesAssumption, AtPositions DEF Grown
<1>2. next = 0 \/ (next \in 1..n /\ next >= from)
  <2> DEFINE C == At(short, "channel", from, n)
  <2>1. \A i \in C : i >= from
    BY <1>1, AtPositions
  <2>2. next = FirstOf(C) /\ C \subseteq 1..n
    BY <1>1 DEF NextChannel
  <2> HIDE DEF C, next, n, from
  <2>3. QED
    BY <1>1, <2>1, <2>2, FirstIn
<1>3. IF next # 0 THEN later = next ELSE later \in {0, n + 1}
  BY <1>1, FirstAtStays, FirstAtAppears DEF NextChannel
<1>4. limit \in Nat
  BY <1>1, <1>2 DEF TrailingLimit
<1>5. \/ limit2 = limit
      \/ limit2 = n /\ n <= limit
  BY <1>1, <1>2, <1>3 DEF TrailingLimit
<1>6. TrailingUnit(short, a) = FirstOf(S)
  BY DEF TrailingUnit, TrailingLimit
<1>7. TrailingUnit(long, a) = FirstOf(UnitMatches(long, from, limit2))
  BY DEF TrailingUnit, TrailingLimit
<1>8. S # {}
  BY <1>6 DEF FirstOf
<1> HIDE DEF n, from, next, later, limit, limit2, S
<1>9. S \subseteq 1..n
  BY <1>1, <1>4, UnitMatchesGrown DEF S, n
<1>10. FirstOf(UnitMatches(long, from, limit2)) = FirstOf(S)
  <2>1. CASE limit2 = limit
    <3> DEFINE T == UnitMatches(long, from, limit2)
    <3>1. S \subseteq T /\ T \subseteq S \union {n + 1}
      BY <1>1, <1>4, <2>1, UnitMatchesGrown DEF S, n
    <3> HIDE DEF T
    <3>2. FirstOf(T) = FirstOf(S)
      BY <1>1, <1>8, <1>9, <3>1, FirstStays
    <3>3. QED
      BY <3>2 DEF T
  <2>2. CASE limit2 = n /\ n <= limit
    <3>1. UnitMatches(long, from, n) = UnitMatches(short, from, n)
      <4>1. n \in Int /\ n <= Len(short)
        BY <1>1 DEF n
      <4>2. QED
        BY <1>1, <4>1, UnitMatchesSame
    <3>2. At(short, "unit", from, n) = At(short, "unit", from, limit)
      <4>1. ASSUME NEW i \in DOMAIN short
            PROVE  i \in from..n <=> i \in from..limit
        <5>1. i \in 1..n
          BY <1>1, <4>1, LenProperties DEF n
        <5>2. QED
          BY <1>1, <1>4, <2>2, <5>1
      <4>2. QED
        BY <4>1 DEF At
    <3>3. UnitMatches(short, from, n) = S
      BY <3>2 DEF UnitMatches, S
    <3>4. QED
      BY <2>2, <3>1, <3>3
  <2>3. QED
    BY <1>5, <2>1, <2>2
<1>11. FirstOf(S) \in 1..n
  BY <1>1, <1>8, <1>9, FirstIn
<1>12. QED
  BY <1>6, <1>7, <1>10, <1>11 DEF n

-----------------------------------------------------------------------------
(* What a text that is complete says, it says with one more token.         *)

AddressOf(t, c) == FindAddress(t, ChannelSequenceEnd(t, c) + 1, Len(t))

Found(t, c) ==
  /\ AddressOf(t, c) # 0
  /\ NextChannel(t, ChannelSequenceEnd(t, c) + 1) \notin 1..(AddressOf(t, c) - 1)

UnitsOf(t, c) ==
  LET segment == UnitMatches(t, DispatchSegmentStart(t, c), AddressOf(t, c))
      trailing == TrailingUnit(t, AddressOf(t, c))
  IN IF segment = {} /\ trailing # 0 THEN {trailing} ELSE segment

NatureOf(t, c) == ExtractNature(t, ChannelSequenceEnd(t, c), AddressOf(t, c))

\* parseChannelFirstSegment, with its local variables named.
LEMMA SegmentByParts ==
  ASSUME NEW t, NEW c
  PROVE  /\ ParseChannelFirstSegment(t, c).ok
              <=> Found(t, c) /\ UnitsOf(t, c) # {} /\ NatureOf(t, c) # ""
         /\ ParseChannelFirstSegment(t, c).ok =>
              ParseChannelFirstSegment(t, c) =
                Parsed(Names(t, UnitsOf(t, c)), t[c].name, NatureOf(t, c),
                       t[AddressOf(t, c)].name)
<1> DEFINE result == Parsed(Names(t, UnitsOf(t, c)), t[c].name, NatureOf(t, c),
                            t[AddressOf(t, c)].name)
<1>1. ParseChannelFirstSegment(t, c) =
        IF ~Found(t, c) THEN Rejected("missing_address")
        ELSE IF UnitsOf(t, c) = {} THEN Rejected("missing_unit")
        ELSE IF NatureOf(t, c) = "" THEN Rejected("missing_nature")
        ELSE result
  BY DEF ParseChannelFirstSegment, Found, UnitsOf, NatureOf, AddressOf
<1>2. \A reason : Rejected(reason).ok = FALSE
  BY DEF Rejected
<1>3. result.ok = TRUE
  BY DEF Parsed
<1> HIDE DEF result
<1>4. CASE ~Found(t, c)
  BY <1>1, <1>2, <1>4
<1>5. CASE Found(t, c) /\ UnitsOf(t, c) = {}
  BY <1>1, <1>2, <1>5
<1>6. CASE Found(t, c) /\ UnitsOf(t, c) # {} /\ NatureOf(t, c) = ""
  BY <1>1, <1>2, <1>6
<1>7. CASE Found(t, c) /\ UnitsOf(t, c) # {} /\ NatureOf(t, c) # ""
  <2>1. ParseChannelFirstSegment(t, c) = result
    BY <1>1, <1>7
  <2>2. QED
    BY <1>3, <1>7, <2>1 DEF result
<1>8. QED
  BY <1>4, <1>5, <1>6, <1>7

LEMMA SegmentStays ==
  ASSUME NEW short, NEW long, Grown(short, long),
         NEW c \in 1..Len(short), short[c].kind = "channel",
         ParseChannelFirstSegment(short, c).ok
  PROVE  ParseChannelFirstSegment(long, c) = ParseChannelFirstSegment(short, c)
<1> DEFINE e == ChannelSequenceEnd(short, c)
           a == AddressOf(short, c)
           n == Len(short)
           from == e + 1
<1>1. /\ n \in Nat /\ short \in Seq(Tok) /\ Len(long) = n + 1
      /\ DOMAIN short = 1..n
  BY LenProperties DEF Grown
<1>2. Found(short, c) /\ UnitsOf(short, c) # {} /\ NatureOf(short, c) # ""
  BY SegmentByParts
<1>3. e \in c..n
  BY <1>1, ChannelEndBehind
<1>4. from \in Nat /\ e \in Nat /\ c \in Nat /\ c <= e
  BY <1>1, <1>3
<1>5. a = FirstOf(At(short, "address", from, n)) /\ a # 0
  BY <1>2 DEF AddressOf, FindAddress, Found
<1>6. /\ a \in 1..n /\ a \in Nat /\ c <= a /\ short[a].kind = "address"
  <2> DEFINE S == At(short, "address", from, n)
  <2>1. S \subseteq 1..n /\ \A i \in S : i \in Nat /\ from <= i
                                         /\ short[i].kind = "address"
    BY <1>1, <1>4, AtPositions
  <2>2. a = FirstOf(S) /\ S # {}
    BY <1>5 DEF FirstOf
  <2> HIDE DEF S, a, from
  <2>3. a \in S
    BY <1>1, <2>1, <2>2, FirstIn
  <2>4. c <= from
    BY <1>4 DEF from
  <2>5. QED
    BY <1>4, <2>1, <2>3, <2>4
<1>7. ChannelSequenceEnd(long, c) = e
  BY <1>6, ChannelEndSame
<1>8. AddressOf(long, c) = a
  <2>1. FirstOf(At(long, "address", from, Len(long))) = a
    BY <1>4, <1>5, FirstAtStays
  <2>2. QED
    BY <1>7, <2>1 DEF AddressOf, FindAddress
<1>9. Found(long, c)
  <2> DEFINE next == NextChannel(short, from)
             later == NextChannel(long, from)
  <2>1. next \notin 1..(a - 1)
    BY <1>2 DEF Found
  <2>2. IF next # 0 THEN later = next ELSE later \in {0, n + 1}
    BY <1>4, FirstAtStays, FirstAtAppears DEF NextChannel
  <2>3. later \notin 1..(a - 1)
    <3> HIDE DEF next, later
    <3>1. 0 \notin 1..(a - 1) /\ n + 1 \notin 1..(a - 1)
      BY <1>1, <1>6
    <3>2. QED
      BY <2>1, <2>2, <3>1
  <2>4. QED
    BY <1>5, <1>7, <1>8, <2>3 DEF Found
<1>10. NatureOf(long, c) = NatureOf(short, c)
  <2>1. ExtractNature(long, e, a) = ExtractNature(short, e, a)
    BY <1>4, <1>6, NatureSame
  <2>2. QED
    BY <1>7, <1>8, <2>1 DEF NatureOf
<1> DEFINE start == DispatchSegmentStart(short, c)
           segment == UnitMatches(short, start, a)
<1>11. DispatchSegmentStart(long, c) = start /\ start \in Nat
  <2>1. start \in UnitMatches(short, 1, c - 1) \union {c}
    BY SegmentStartSame
  <2>2. UnitMatches(short, 1, c - 1) \subseteq 1..n
    BY <1>1, <1>4, AtPositions DEF UnitMatches
  <2>3. QED
    BY <1>1, <1>4, <2>1, <2>2, SegmentStartSame
<1>12. UnitMatches(long, start, a) = segment /\ segment \subseteq 1..n
  <2>1. a \in Int /\ a <= n
    BY <1>1, <1>6
  <2> HIDE DEF start, a
  <2>2. UnitMatches(long, start, a) = UnitMatches(short, start, a)
    BY <1>1, <1>11, <2>1, UnitMatchesSame
  <2>3. UnitMatches(short, start, a) \subseteq 1..n
    BY <1>1, <1>11, <2>1, AtPositions DEF UnitMatches
  <2>4. QED
    BY <2>2, <2>3
<1>13. UnitsOf(long, c) = UnitsOf(short, c) /\ UnitsOf(short, c) \subseteq 1..n
  <2>1. CASE segment # {}
    BY <1>8, <1>11, <1>12, <2>1 DEF UnitsOf
  <2>2. CASE segment = {}
    <3>1. TrailingUnit(short, a) # 0
      BY <1>2, <2>2 DEF UnitsOf
    <3>2. TrailingUnit(long, a) = TrailingUnit(short, a)
          /\ TrailingUnit(short, a) \in 1..n
      BY <1>6, <3>1, TrailingStays
    <3>3. QED
      BY <1>8, <1>11, <1>12, <2>2, <3>2 DEF UnitsOf
  <2>3. QED
    BY <2>1, <2>2
<1>14. long[c] = short[c] /\ long[a] = short[a]
       /\ \A i \in UnitsOf(short, c) : long[i] = short[i]
  BY <1>6, <1>13 DEF Grown
<1>15. Names(long, UnitsOf(long, c)) = Names(short, UnitsOf(short, c))
  BY <1>13, <1>14 DEF Names
<1>16. ParseChannelFirstSegment(long, c).ok
  BY <1>2, <1>9, <1>10, <1>13, SegmentByParts
<1> HIDE DEF a
<1>17. QED
  BY <1>8, <1>10, <1>14, <1>15, <1>16, SegmentByParts DEF a

\* The channel-first attempt that succeeds is what is parsed.
LEMMA FirstAttempt ==
  ASSUME NEW t, NextChannel(t, 1) # 0,
         ParseChannelFirstSegment(t, NextChannel(t, 1)).ok
  PROVE  ParseTranscript(t, TRUE) = ParseChannelFirstSegment(t, NextChannel(t, 1))
<1> DEFINE k == NextChannel(t, 1)
           s == ParseChannelFirstSegment(t, k)
<1>1. s = Parsed(Names(t, UnitsOf(t, k)), t[k].name, NatureOf(t, k),
                 t[AddressOf(t, k)].name)
  BY SegmentByParts
<1>2. ASSUME NEW units, NEW channel, NEW nature, NEW address
      PROVE  Parsed(units, channel, nature, address).reason = ""
  BY DEF Parsed
<1>3. ParseTranscript(t, TRUE) =
        IF s.reason = "missing_address"
        THEN ParseAddressBeforeChannelSegment(t, k) ELSE s
  BY DEF ParseTranscript
<1> HIDE DEF s, k
<1>4. s.reason = ""
  BY <1>1, <1>2, Zenon
<1>5. QED
  BY <1>3, <1>4 DEF s, k

\* So a complete text stays complete, and its meaning stays.
LEMMA CompleteStays ==
  ASSUME NEW short, NEW long, Grown(short, long),
         NextChannel(short, 1) # 0,
         ParseChannelFirstSegment(short, NextChannel(short, 1)).ok
  PROVE  /\ NextChannel(long, 1) = NextChannel(short, 1)
         /\ ParseChannelFirstSegment(long, NextChannel(short, 1))
              = ParseChannelFirstSegment(short, NextChannel(short, 1))
         /\ ParseTranscript(long, TRUE) = ParseTranscript(short, TRUE)
         /\ ParseTranscript(short, TRUE)
              = ParseChannelFirstSegment(short, NextChannel(short, 1))
<1> DEFINE c == NextChannel(short, 1)
<1>1. Len(short) \in Nat /\ short \in Seq(Tok)
  BY LenProperties DEF Grown
<1>2. c \in 1..Len(short) /\ short[c].kind = "channel"
  <2> DEFINE S == At(short, "channel", 1, Len(short))
  <2>1. S \subseteq 1..Len(short) /\ \A i \in S : short[i].kind = "channel"
    BY <1>1, AtPositions
  <2>2. FirstOf(S) # 0
    BY DEF NextChannel
  <2> HIDE DEF S
  <2>3. FirstOf(S) \in S
    BY <1>1, <2>1, <2>2, FirstIn
  <2>4. c = FirstOf(S)
    BY DEF NextChannel, S
  <2>5. QED
    BY <2>1, <2>3, <2>4
<1>3. NextChannel(long, 1) = c
  BY FirstAtStays DEF NextChannel
<1>4. ParseChannelFirstSegment(long, c) = ParseChannelFirstSegment(short, c)
  BY <1>2, SegmentStays
<1>5. ParseTranscript(short, TRUE) = ParseChannelFirstSegment(short, c)
  BY FirstAttempt
<1>6. NextChannel(long, 1) # 0 /\ ParseChannelFirstSegment(long, c).ok
  BY <1>3, <1>4
<1>7. ParseTranscript(long, TRUE) = ParseChannelFirstSegment(long, c)
  BY <1>3, FirstAttempt, <1>6
<1>8. ParseTranscript(long, TRUE) = ParseTranscript(short, TRUE)
  BY <1>4, <1>5, <1>7, Zenon
<1>9. QED
  BY <1>3, <1>4, <1>5, <1>8, Zenon

\* The transcript is made of tokens.
SpokenText == text \in Seq(Tok)

LEMMA TokensAre ==
  /\ \A kind \in Kind : \A name \in Name :
       /\ Token(kind, name) \in Tok
       /\ Token(kind, name).kind = kind
       /\ Token(kind, name).name = name
  /\ Word \in Tok /\ Word.kind = "word"
  /\ Stop \in Tok /\ Stop.kind = "stop"
  /\ Channel \in Tok /\ Channel.kind = "channel" /\ Channel.name = "1"
<1>1. \A kind \in Kind : \A name \in Name :
         /\ Token(kind, name) \in Tok
         /\ Token(kind, name).kind = kind
         /\ Token(kind, name).name = name
  <2>1. ASSUME NEW kind \in Kind, NEW name \in Name
        PROVE  /\ Token(kind, name) \in Tok
               /\ Token(kind, name).kind = kind
               /\ Token(kind, name).name = name
    BY DEF Token, Tok
  <2>2. QED
    BY <2>1
<1>2. "word" \in Kind /\ "stop" \in Kind /\ "channel" \in Kind
      /\ "" \in Name /\ "1" \in Name
  BY DEF Kind, Name
<1>3. QED
  BY <1>1, <1>2 DEF Word, Stop, Channel

LEMMA OtherTokens == \A t \in Other : t \in Tok /\ t.kind # "channel"
                                      /\ (t.kind = "unit" => t.name = "3")
<1>1. ASSUME NEW t \in Other
      PROVE  t \in Tok /\ t.kind # "channel" /\ (t.kind = "unit" => t.name = "3")
  <2>1. CASE t = Word
    BY <2>1, TokensAre
  <2>2. CASE t # Word
    <3>1. PICK kind \in {"unit", "nature", "address"} : t = Token(kind, "3")
      BY <2>2, Zenon DEF Other
    <3>2. kind \in Kind /\ "3" \in Name
      BY DEF Kind, Name
    <3>3. t \in Tok /\ t.kind = kind /\ t.name = "3"
      BY <3>1, <3>2, TokensAre
    <3>4. QED
      BY <3>3
  <2>3. QED
    BY <2>1, <2>2
<1>2. QED
  BY <1>1

LEMMA SpeechTokens == Speech \subseteq Tok
<1>1. Token("channel", "3") \in Tok /\ Token("unit", "1") \in Tok
  <2>1. "channel" \in Kind /\ "unit" \in Kind /\ "3" \in Name /\ "1" \in Name
    BY DEF Kind, Name
  <2>2. QED
    BY <2>1, TokensAre
<1>2. ASSUME NEW t \in Speech
      PROVE  t \in Tok
  <2>1. t \in Other \/ t = Token("channel", "3") \/ t = Token("unit", "1") \/ t = Stop
    BY Zenon DEF Speech
  <2>2. CASE t \in Other
    BY <2>2, OtherTokens
  <2>3. CASE t \notin Other
    BY <1>1, <2>1, <2>3, TokensAre
  <2>4. QED
    BY <2>2, <2>3
<1>3. QED
  BY <1>2

\* What Say does to the text.
LEMMA SayGrows ==
  ASSUME SpokenText, [SpeechNext]_speechVars
  PROVE  SpokenText' /\ (text' = text \/ Grown(text, text'))
<1>1. CASE \E t \in Speech : Say(t)
  <2>1. PICK t \in Speech : Say(t)
    BY <1>1
  <2>2. t \in Tok /\ text' = Append(text, t)
    BY <2>1, SpeechTokens DEF Say
  <2>3. QED
    BY <2>2, AppendProperties DEF SpokenText, Grown
<1>2. CASE UNCHANGED speechVars
  BY <1>2 DEF speechVars, SpokenText
<1>3. QED
  BY <1>1, <1>2 DEF SpeechNext

-----------------------------------------------------------------------------
(* The beginnings with a dispatch in the order units, channel, nature,     *)
(* address: where its parts are.                                           *)

Shaped(t, p, u, c, e, v) ==
  /\ t \in Seq(Tok)
  /\ p \in Nat /\ u \in Nat /\ c \in Nat /\ e \in Nat /\ v \in Nat
  /\ p < u /\ c = u + 1 /\ c <= e /\ e < v /\ v <= e + 2 /\ v < Len(t)
  /\ \A i \in 1..p : t[i].kind # "channel" /\ (t[i].kind = "unit" => t[i].name = "3")
  /\ p # 0 => t[p].kind = "stop"
  /\ t[p + 1].kind = "unit" /\ t[p + 1].name = "1"
  /\ u # p + 1 => t[u].kind = "unit" /\ t[u].name = "2" /\ u - p - 2 <= GroupGap
  /\ \A i \in (p + 2)..(u - 1) : t[i].kind = "word"
  /\ t[c].kind = "channel" /\ t[c].name = "1" /\ t[e].kind = "channel"
  /\ \A i \in c..e : t[i].kind \in {"channel", "stop"}
  /\ \A i \in (e + 1)..(v - 1) : t[i].kind \in {"word", "stop"}
  /\ t[v].kind = "nature" /\ t[v].name = "1"
  /\ \A i \in (v + 1)..(Len(t) - 1) : t[i].kind \in {"word", "stop"}
  /\ t[Len(t)].kind = "address" /\ t[Len(t)].name = "1"

\* Where the tokens of each kind are.
LEMMA ShapedKinds ==
  ASSUME NEW t, NEW p, NEW u, NEW c, NEW e, NEW v, Shaped(t, p, u, c, e, v),
         NEW i \in 1..Len(t)
  PROVE  /\ t[i].kind = "channel" => c <= i /\ i <= e
         /\ t[i].kind = "address" => i <= p \/ i = Len(t)
         /\ t[i].kind = "unit" => i <= p \/ i = p + 1 \/ i = u
         /\ t[i].kind = "nature" => i <= p \/ i = v
         /\ t[i].kind = "stop" => i <= p \/ (c <= i /\ i # v /\ i # Len(t))
<1> DEFINE a == Len(t)
<1>1. a \in Nat /\ i \in Nat /\ i <= a /\ 1 <= i
  BY LenProperties DEF Shaped
<1>2. /\ p \in Nat /\ u \in Nat /\ c \in Nat /\ e \in Nat /\ v \in Nat
      /\ p < u /\ c = u + 1 /\ c <= e /\ e < v /\ v < a
  BY DEF Shaped
<1> HIDE DEF a
<1>3. \/ i \in 1..p \/ i = p + 1 \/ i \in (p + 2)..(u - 1) \/ (i = u /\ u # p + 1)
      \/ i \in c..e \/ i \in (e + 1)..(v - 1) \/ i = v \/ i \in (v + 1)..(a - 1)
      \/ i = a
  BY <1>1, <1>2
<1>4. CASE i \in 1..p
  <2>1. i <= p /\ t[i].kind # "channel"
    BY <1>2, <1>4 DEF Shaped
  <2>2. QED
    BY <2>1
<1>5. CASE i = p + 1
  BY <1>5 DEF Shaped
<1>6. CASE i \in (p + 2)..(u - 1)
  BY <1>6 DEF Shaped
<1>7. CASE i = u /\ u # p + 1
  BY <1>7 DEF Shaped
<1>8. CASE i \in c..e
  <2>1. t[i].kind \in {"channel", "stop"}
    BY <1>8 DEF Shaped
  <2>2. c <= i /\ i <= e /\ i # v /\ i # a
    BY <1>2, <1>8, <1>1
  <2>3. QED
    BY <2>1, <2>2 DEF a
<1>9. CASE i \in (e + 1)..(v - 1)
  <2>1. t[i].kind \in {"word", "stop"}
    BY <1>9 DEF Shaped
  <2>2. c <= i /\ i # v /\ i # a
    BY <1>2, <1>9, <1>1
  <2>3. QED
    BY <2>1, <2>2 DEF a
<1>10. CASE i = v
  BY <1>10 DEF Shaped
<1>11. CASE i \in (v + 1)..(a - 1)
  <2>1. t[i].kind \in {"word", "stop"}
    BY <1>11 DEF Shaped, a
  <2>2. c <= i /\ i # v /\ i # a
    BY <1>2, <1>11, <1>1
  <2>3. QED
    BY <2>1, <2>2 DEF a
<1>12. CASE i = a
  BY <1>12 DEF Shaped, a
<1>13. QED
  BY <1>3, <1>4, <1>5, <1>6, <1>7, <1>8, <1>9, <1>10, <1>11, <1>12

\* The first token of a kind, and that there is none.
LEMMA FirstAtIs ==
  ASSUME NEW t \in Seq(Tok), NEW kind, NEW from \in Nat, NEW to \in Int,
         NEW m \in 1..Len(t), from <= m, m <= to, t[m].kind = kind,
         \A i \in 1..Len(t) : from <= i /\ i <= to /\ t[i].kind = kind => m <= i
  PROVE  FirstOf(At(t, kind, from, to)) = m
<1> DEFINE S == At(t, kind, from, to)
<1>1. S \subseteq 1..Len(t) /\ S \subseteq Nat /\ Len(t) \in Nat /\ DOMAIN t = 1..Len(t)
  BY AtPositions, LenProperties
<1>2. m \in S
  <2>1. m \in from..to
    BY <1>1
  <2>2. QED
    BY <1>1, <2>1 DEF At
<1>3. ASSUME NEW k \in S
      PROVE  m <= k
  <2>1. k \in 1..Len(t) /\ from <= k /\ k <= to /\ t[k].kind = kind
    BY <1>1, AtPositions
  <2>2. QED
    BY <2>1
<1> HIDE DEF S
<1>4. Min(S) = m
  BY <1>1, <1>2, <1>3, FirstPositionIs
<1>5. QED
  BY <1>2, <1>4 DEF FirstOf, S

LEMMA NoneAt ==
  ASSUME NEW t \in Seq(Tok), NEW kind, NEW from \in Nat, NEW to \in Int,
         \A i \in 1..Len(t) : from <= i /\ i <= to => t[i].kind # kind
  PROVE  At(t, kind, from, to) = {} /\ FirstOf(At(t, kind, from, to)) = 0
<1>1. At(t, kind, from, to) = {}
  <2>1. ASSUME NEW i \in At(t, kind, from, to)
        PROVE  FALSE
    <3>1. i \in 1..Len(t) /\ from <= i /\ i <= to /\ t[i].kind = kind
      BY AtPositions
    <3>2. QED
      BY <3>1
  <2>2. QED
    BY <2>1
<1>2. QED
  BY <1>1 DEF FirstOf

\* Distances and kinds in a text so shaped, for the lemmas that follow.
LEMMA ShapedOrder ==
  ASSUME NEW t, NEW p, NEW u, NEW c, NEW e, NEW v, Shaped(t, p, u, c, e, v)
  PROVE  /\ t \in Seq(Tok) /\ Len(t) \in Nat
         /\ p \in Nat /\ u \in Nat /\ c \in Nat /\ e \in Nat /\ v \in Nat
         /\ p < u /\ c = u + 1 /\ c <= e /\ e < v /\ v <= e + 2 /\ v < Len(t)
         /\ p + 1 \in 1..Len(t) /\ u \in 1..Len(t) /\ c \in 1..Len(t)
         /\ e \in 1..Len(t) /\ v \in 1..Len(t) /\ Len(t) \in 1..Len(t)
         /\ t[u].kind = "unit"
<1>1. t \in Seq(Tok) /\ Len(t) \in Nat
  BY LenProperties DEF Shaped
<1>2. /\ p \in Nat /\ u \in Nat /\ c \in Nat /\ e \in Nat /\ v \in Nat
      /\ p < u /\ c = u + 1 /\ c <= e /\ e < v /\ v <= e + 2 /\ v < Len(t)
  BY DEF Shaped
<1>3. /\ p + 1 \in 1..Len(t) /\ u \in 1..Len(t) /\ c \in 1..Len(t)
      /\ e \in 1..Len(t) /\ v \in 1..Len(t) /\ Len(t) \in 1..Len(t)
  BY <1>1, <1>2
<1>4. t[u].kind = "unit"
  <2>1. CASE u = p + 1
    BY <2>1 DEF Shaped
  <2>2. CASE u # p + 1
    BY <2>2 DEF Shaped
  <2>3. QED
    BY <2>1, <2>2
<1>5. QED
  BY <1>1, <1>2, <1>3, <1>4

LEMMA ShapedChannel ==
  ASSUME NEW t, NEW p, NEW u, NEW c, NEW e, NEW v, Shaped(t, p, u, c, e, v)
  PROVE  /\ NextChannel(t, 1) = c
         /\ ChannelSequenceEnd(t, c) = e
         /\ AddressOf(t, c) = Len(t)
         /\ Found(t, c)
<1> DEFINE a == Len(t)
<1>1. /\ t \in Seq(Tok) /\ a \in Nat /\ c \in Nat /\ e \in Nat /\ v \in Nat
      /\ p \in Nat /\ p < c /\ c <= e /\ e < v /\ v < a
      /\ c \in 1..a /\ e \in 1..a /\ a \in 1..a
  BY ShapedOrder
<1>2. t[c].kind = "channel" /\ t[e].kind = "channel" /\ t[a].kind = "address"
      /\ t[v].kind = "nature" /\ \A i \in c..e : t[i].kind \in {"channel", "stop"}
  BY DEF Shaped
<1>3. ASSUME NEW i \in 1..a
      PROVE  /\ t[i].kind = "channel" => c <= i /\ i <= e
             /\ t[i].kind = "address" => i <= p \/ i = a
  BY ShapedKinds
<1>4. NextChannel(t, 1) = c
  <2>1. FirstOf(At(t, "channel", 1, a)) = c
    <3> HIDE DEF a
    <3>1. 1 <= c /\ c <= a /\ 1 \in Nat /\ a \in Int
      BY <1>1
    <3>2. QED
      BY <1>1, <1>2, <1>3, <3>1, FirstAtIs DEF a
  <2>2. QED
    BY <2>1 DEF NextChannel
<1>5. ChannelSequenceEnd(t, c) = e
  <2> DEFINE J == {j \in At(t, "channel", c, a) :
                     \A k \in c..j : t[k].kind \in {"channel", "stop"}}
  <2>1. J \subseteq 1..a /\ \A j \in J : j \in 1..a /\ t[j].kind = "channel"
    BY <1>1, AtPositions
  <2>2. e \in J
    <3>1. e \in c..a /\ e \in DOMAIN t
      BY <1>1, LenProperties
    <3>2. e \in At(t, "channel", c, a)
      BY <1>2, <3>1 DEF At
    <3>3. QED
      BY <1>2, <3>2
  <2>3. \A j \in J : j <= e
    BY <1>3, <2>1
  <2> HIDE DEF J
  <2>4. Max(J) = e
    BY <1>1, <2>1, <2>2, <2>3, LastPositionIs
  <2>5. QED
    BY <2>4 DEF ChannelSequenceEnd, J
<1>6. AddressOf(t, c) = a
  <2>1. FirstOf(At(t, "address", e + 1, a)) = a
    <3>1. e + 1 \in Nat /\ e + 1 <= a /\ a <= a /\ a \in Int
      BY <1>1
    <3>2. \A i \in 1..a : e + 1 <= i /\ i <= a /\ t[i].kind = "address" => a <= i
      <4>1. ASSUME NEW i \in 1..a, e + 1 <= i, t[i].kind = "address"
            PROVE  a <= i
        <5>1. i <= p \/ i = a
          BY <1>3, <4>1
        <5>2. QED
          BY <1>1, <4>1, <5>1
      <4>2. QED
        BY <4>1
    <3> HIDE DEF a
    <3>3. QED
      BY <1>1, <1>2, <3>1, <3>2, FirstAtIs DEF a
  <2>2. QED
    BY <1>5, <2>1 DEF AddressOf, FindAddress
<1>7. NextChannel(t, e + 1) = 0
  <2>1. e + 1 \in Nat /\ a \in Int
    BY <1>1
  <2>2. \A i \in 1..a : e + 1 <= i /\ i <= a => t[i].kind # "channel"
    BY <1>1, <1>3
  <2>3. FirstOf(At(t, "channel", e + 1, a)) = 0
    <3> HIDE DEF a
    <3>1. t \in Seq(Tok) /\ e + 1 \in Nat /\ a \in Int
      BY <1>1, <2>1
    <3>2. \A i \in 1..Len(t) : e + 1 <= i /\ i <= a => t[i].kind # "channel"
      BY <2>2 DEF a
    <3>3. QED
      BY <3>1, <3>2, NoneAt
  <2>4. QED
    BY <2>3 DEF NextChannel
<1>8. Found(t, c)
  BY <1>1, <1>5, <1>6, <1>7 DEF Found
<1>9. QED
  BY <1>4, <1>5, <1>6, <1>8

LEMMA ShapedNature ==
  ASSUME NEW t, NEW p, NEW u, NEW c, NEW e, NEW v, Shaped(t, p, u, c, e, v)
  PROVE  NatureOf(t, c) = "1"
<1> DEFINE a == Len(t)
           spoken == {i \in (e + 1)..(a - 1) : t[i].kind # "stop"}
           first == FirstOf(spoken)
           stop == FirstOf(At(t, "stop", first, a - 1))
           last == IF stop = 0 THEN a - 1 ELSE stop - 1
<1>1. /\ t \in Seq(Tok) /\ a \in Nat /\ c \in Nat /\ e \in Nat /\ v \in Nat
      /\ p \in Nat /\ p < c /\ c <= e /\ e < v /\ v <= e + 2 /\ v < a
      /\ v \in 1..a /\ a - 1 \in Int
  BY ShapedOrder
<1>2. t[v].kind = "nature" /\ t[v].name = "1"
  BY DEF Shaped
<1>3. spoken \subseteq 1..a /\ v \in spoken
  BY <1>1, <1>2
<1>4. first \in spoken /\ first <= v
  <2> HIDE DEF spoken
  <2>1. QED
    BY <1>1, <1>3, FirstIn
<1>5. first \in Nat /\ e + 1 <= first /\ first <= v /\ t[first].kind # "stop"
  <2> HIDE DEF first
  <2>1. QED
    BY <1>1, <1>4
<1>6. ASSUME NEW i \in 1..a, first <= i, i <= a - 1, t[i].kind = "stop"
      PROVE  v < i
  <2> HIDE DEF first, a
  <2>1. i # v /\ i # first
    BY <1>2, <1>5, <1>6
  <2>2. QED
    BY <1>1, <1>5, <1>6, <2>1
<1>7. last \in Int /\ v <= last /\ last <= a - 1
  <2> DEFINE S == At(t, "stop", first, a - 1)
  <2> HIDE DEF first, spoken
  <2>1. S \subseteq 1..a /\ \A i \in S : first <= i /\ i <= a - 1 /\ t[i].kind = "stop"
    BY <1>1, <1>5, AtPositions
  <2>2. stop = 0 \/ stop \in S
    <3> HIDE DEF S
    <3>1. FirstOf(S) = 0 \/ FirstOf(S) \in S
      BY <1>1, <2>1, FirstIn
    <3>2. QED
      BY <3>1 DEF S
  <2> HIDE DEF S, stop, a
  <2>3. CASE stop = 0
    BY <1>1, <2>3
  <2>4. CASE stop \in S
    <3>1. stop \in 1..a /\ v < stop /\ stop <= a - 1
      BY <1>6, <2>1, <2>4
    <3>2. QED
      BY <1>1, <3>1
  <2>5. QED
    BY <2>2, <2>3, <2>4
<1>8. KnownNature(t, first, last) = "1"
  <2> HIDE DEF first, last, a, spoken
  <2>1. \A i \in 1..a : first <= i /\ i <= last /\ t[i].kind = "nature" => v <= i
    <3>1. ASSUME NEW i \in 1..a, first <= i, t[i].kind = "nature"
          PROVE  v <= i
      <4>1. i <= p \/ i = v
        BY <3>1, ShapedKinds DEF a
      <4>2. QED
        BY <1>1, <1>5, <3>1, <4>1
    <3>2. QED
      BY <3>1
  <2>2. FirstOf(At(t, "nature", first, last)) = v
    BY <1>1, <1>2, <1>5, <1>7, <2>1, FirstAtIs DEF a
  <2>3. v # 0
    BY <1>1
  <2>4. QED
    BY <1>2, <2>2, <2>3 DEF KnownNature
<1>9. ExtractNature(t, e, a) = "1"
  <2>1. spoken # {} /\ KnownNature(t, first, last) # ""
    BY <1>3, <1>8
  <2>2. QED
    BY <1>8, <2>1 DEF ExtractNature
<1>10. QED
  BY <1>9, ShapedChannel DEF NatureOf

\* The units of the dispatch are the only ones from where it begins.
LEMMA ShapedMatches ==
  ASSUME NEW t, NEW p, NEW u, NEW c, NEW e, NEW v, Shaped(t, p, u, c, e, v),
         NEW from \in Nat, from <= p + 1, NEW to \in Nat, u <= to, to <= Len(t)
  PROVE  /\ p + 1 \in UnitMatches(t, from, to)
         /\ u \in UnitMatches(t, from, to)
         /\ \A i \in UnitMatches(t, from, to) :
              i \in 1..Len(t) /\ from <= i /\ t[i].kind = "unit"
              /\ (i <= p \/ i = p + 1 \/ i = u)
<1>1. /\ t \in Seq(Tok) /\ Len(t) \in Nat /\ DOMAIN t = 1..Len(t)
      /\ p \in Nat /\ u \in Nat /\ p < u
      /\ p + 1 \in 1..Len(t) /\ u \in 1..Len(t) /\ t[u].kind = "unit"
  BY ShapedOrder, LenProperties
<1>2. t[p + 1].kind = "unit" /\ t[p + 1].name = "1"
      /\ (u # p + 1 => t[u].name = "2")
      /\ \A i \in 1..p : t[i].kind = "unit" => t[i].name = "3"
  BY DEF Shaped
<1>3. ASSUME NEW j \in 1..Len(t), t[j].kind = "unit"
      PROVE  j \in 1..p \/ j = p + 1 \/ j = u
  <2>1. j <= p \/ j = p + 1 \/ j = u
    BY <1>3, ShapedKinds
  <2>2. QED
    BY <1>1, <2>1
<1>4. p + 1 \in UnitMatches(t, from, to)
  <2>1. p + 1 \in At(t, "unit", from, to)
    <3>1. p + 1 \in from..to
      BY <1>1
    <3>2. QED
      BY <1>1, <1>2, <3>1 DEF At
  <2>2. ASSUME NEW j \in At(t, "unit", from, (p + 1) - 1)
        PROVE  t[j].name # t[p + 1].name
    <3>1. j \in 1..Len(t) /\ j <= p /\ t[j].kind = "unit"
      <4>1. (p + 1) - 1 \in Int /\ (p + 1) - 1 = p
        BY <1>1
      <4>2. QED
        BY <1>1, <4>1, AtPositions
    <3>2. j \in 1..p
      BY <1>1, <3>1
    <3>3. QED
      BY <1>2, <3>1, <3>2
  <2>3. QED
    BY <2>1, <2>2 DEF UnitMatches
<1>5. u \in UnitMatches(t, from, to)
  <2>1. CASE u = p + 1
    BY <1>4, <2>1
  <2>2. CASE u # p + 1
    <3>1. u \in At(t, "unit", from, to)
      <4>1. u \in from..to
        BY <1>1
      <4>2. QED
        BY <1>1, <4>1 DEF At
    <3>2. ASSUME NEW j \in At(t, "unit", from, u - 1)
          PROVE  t[j].name # t[u].name
      <4>1. j \in 1..Len(t) /\ j <= u - 1 /\ t[j].kind = "unit"
        <5>1. u - 1 \in Int
          BY <1>1
        <5>2. QED
          BY <1>1, <5>1, AtPositions
      <4>2. j \in 1..p \/ j = p + 1
        BY <1>1, <1>3, <4>1
      <4>3. t[j].name \in {"1", "3"}
        BY <1>2, <4>1, <4>2
      <4>4. QED
        BY <1>2, <2>2, <4>3
    <3>3. QED
      BY <3>1, <3>2 DEF UnitMatches
  <2>3. QED
    BY <2>1, <2>2
<1>6. ASSUME NEW i \in UnitMatches(t, from, to)
      PROVE  i \in 1..Len(t) /\ from <= i /\ t[i].kind = "unit"
             /\ (i <= p \/ i = p + 1 \/ i = u)
  <2>1. i \in At(t, "unit", from, to)
    BY DEF UnitMatches
  <2>2. i \in 1..Len(t) /\ from <= i /\ t[i].kind = "unit"
    BY <1>1, <2>1, AtPositions
  <2>3. QED
    BY <2>2, ShapedKinds
<1>7. QED
  BY <1>4, <1>5, <1>6

\* The walk back ends where the dispatch begins: a stop keeps it apart from
\* what was said before.
LEMMA ShapedStart ==
  ASSUME NEW t, NEW p, NEW u, NEW c, NEW e, NEW v, Shaped(t, p, u, c, e, v)
  PROVE  DispatchSegmentStart(t, c) = p + 1
<1> DEFINE P == UnitMatches(t, 1, c - 1)
           After(i) == Min({j \in P : j > i})
           Starts == {i \in P : \A k \in P :
                        k >= i /\ k # Max(P) => SameGroup(t, k, After(k))}
<1>1. /\ t \in Seq(Tok) /\ Len(t) \in Nat /\ p \in Nat /\ u \in Nat /\ p < u
      /\ c = u + 1 /\ c \in 1..Len(t) /\ c - 1 = u /\ u <= Len(t)
  BY ShapedOrder
<1>2. /\ p + 1 \in P /\ u \in P
      /\ \A i \in P : i \in 1..Len(t) /\ t[i].kind = "unit"
                      /\ (i <= p \/ i = p + 1 \/ i = u)
  <2>1. 1 \in Nat /\ 1 <= p + 1 /\ u <= u
    BY <1>1
  <2>2. QED
    BY <1>1, <2>1, ShapedMatches
<1> HIDE DEF P
<1>3. P \subseteq 1..Len(t) /\ P \subseteq Nat /\ \A i \in P : i \in Nat /\ i <= u
  <2>1. ASSUME NEW i \in P
        PROVE  i \in 1..Len(t) /\ i \in Nat /\ i <= u
    <3>1. i \in 1..Len(t) /\ (i <= p \/ i = p + 1 \/ i = u)
      BY <1>2
    <3>2. QED
      BY <1>1, <3>1
  <2>2. QED
    BY <2>1
<1>4. Max(P) = u
  BY <1>1, <1>2, <1>3, LastPositionIs
<1>5. ASSUME NEW k \in P, NEW m \in P, k < m, \A j \in P : k < j => m <= j
      PROVE  After(k) = m
  <2> DEFINE S == {j \in P : j > k}
  <2>1. S \subseteq Nat /\ m \in S /\ \A j \in S : m <= j
    BY <1>3, <1>5
  <2> HIDE DEF S
  <2>2. Min(S) = m
    BY <2>1, FirstPositionIs
  <2>3. QED
    BY <2>2 DEF S
<1>6. u # p + 1 => SameGroup(t, p + 1, After(p + 1))
  <2>1. SUFFICES ASSUME u # p + 1
                 PROVE  SameGroup(t, p + 1, After(p + 1))
    OBVIOUS
  <2>2. p + 1 < u /\ \A j \in P : p + 1 < j => u <= j
    <3>1. ASSUME NEW j \in P, p + 1 < j
          PROVE  u <= j
      <4>1. j \in Nat /\ (j <= p \/ j = p + 1 \/ j = u)
        BY <1>2, <1>3
      <4>2. QED
        BY <1>1, <3>1, <4>1
    <3>2. QED
      BY <1>1, <2>1, <3>1
  <2>3. After(p + 1) = u
    BY <1>2, <1>5, <2>2
  <2>4. \A k \in ((p + 1) + 1)..(u - 1) : t[k].kind # "stop"
    <3>1. (p + 1) + 1 = p + 2
      BY <1>1
    <3>2. \A k \in (p + 2)..(u - 1) : t[k].kind = "word"
      BY DEF Shaped
    <3>3. QED
      BY <3>1, <3>2
  <2>5. u - (p + 1) - 1 <= GroupGap
    <3>1. u - p - 2 <= GroupGap
      BY <2>1 DEF Shaped
    <3>2. u - (p + 1) - 1 = u - p - 2
      BY <1>1
    <3>3. QED
      BY <3>1, <3>2
  <2> HIDE DEF After
  <2>6. QED
    BY <2>3, <2>4, <2>5 DEF SameGroup
<1>7. p + 1 \in Starts
  <2>1. ASSUME NEW k \in P, k >= p + 1, k # Max(P)
        PROVE  SameGroup(t, k, After(k))
    <3>1. k = p + 1 /\ u # p + 1
      <4>1. k \in Nat /\ (k <= p \/ k = p + 1 \/ k = u) /\ k # u
        BY <1>2, <1>3, <1>4, <2>1
      <4>2. QED
        BY <1>1, <2>1, <4>1
    <3> HIDE DEF After
    <3>2. QED
      BY <1>6, <3>1
  <2> HIDE DEF After
  <2>2. QED
    BY <1>2, <2>1
<1>8. ASSUME NEW i \in Starts
      PROVE  p + 1 <= i
  <2>1. SUFFICES ASSUME ~(p + 1 <= i)
                 PROVE  FALSE
    OBVIOUS
  <2> DEFINE Q == {k \in P : k <= p}
             k == Max(Q)
  <2>2. i \in P /\ i \in Nat /\ i <= p
    <3>1. i \in P
      OBVIOUS
    <3>2. i \in Nat
      BY <1>3, <3>1
    <3> HIDE DEF Starts
    <3>3. QED
      BY <1>1, <2>1, <3>1, <3>2
  <2>3. i \in Q /\ Q \subseteq 1..Len(t)
    BY <1>3, <2>2
  <2>4. k \in Q /\ \A j \in Q : j <= k
    <3> HIDE DEF Q
    <3>1. Q # {}
      BY <2>3
    <3>2. QED
      BY <1>1, <2>3, <3>1, LastPosition
  <2>5. k \in P /\ k <= p /\ i <= k /\ k \in Nat /\ k \in 1..Len(t)
    BY <1>3, <2>3, <2>4
  <2>6. \A j \in P : k < j => p + 1 <= j
    <3>1. ASSUME NEW j \in P, k < j
          PROVE  p + 1 <= j
      <4>1. ~(j <= p)
        <5>1. CASE j <= p
          <6>1. j \in Q
            BY <5>1
          <6>2. j <= k /\ j \in Nat /\ k \in Nat
            BY <1>3, <2>4, <2>5, <6>1
          <6> HIDE DEF k
          <6>3. QED
            BY <3>1, <6>2
        <5>2. QED
          BY <5>1
      <4>2. j \in Nat
        BY <1>3
      <4>3. QED
        BY <1>1, <4>1, <4>2
    <3> HIDE DEF k
    <3>2. QED
      BY <3>1
  <2> HIDE DEF k, Q
  <2>7. k < p + 1 /\ k # u /\ k >= i
    BY <1>1, <2>2, <2>5
  <2>8. After(k) = p + 1
    BY <1>2, <1>5, <2>5, <2>6, <2>7
  <2> HIDE DEF After
  <2>9. SameGroup(t, k, p + 1)
    BY <1>4, <2>5, <2>7, <2>8
  <2>10. t[p].kind = "stop" /\ t[k].kind = "unit"
    <3>1. p # 0
      BY <1>1, <2>5
    <3>2. QED
      BY <1>2, <2>5, <3>1 DEF Shaped
  <2>11. p \in (k + 1)..((p + 1) - 1)
    <3>1. k # p
      BY <2>10
    <3>2. QED
      BY <1>1, <2>5, <3>1
  <2>12. QED
    BY <2>9, <2>10, <2>11 DEF SameGroup
<1>9. Min(Starts) = p + 1
  <2>1. Starts \subseteq Nat
    BY <1>3
  <2> HIDE DEF Starts
  <2>2. QED
    BY <1>7, <1>8, <2>1, FirstPositionIs
<1>10. DispatchSegmentStart(t, c) = IF P = {} THEN c ELSE Min(Starts)
  BY DEF DispatchSegmentStart, P
<1> HIDE DEF Starts
<1>11. QED
  BY <1>2, <1>9, <1>10

\* A dispatch so shaped is parsed, and says what it means.
LEMMA ShapedParsed ==
  ASSUME NEW t, NEW p, NEW u, NEW c, NEW e, NEW v, Shaped(t, p, u, c, e, v)
  PROVE  /\ NextChannel(t, 1) = c /\ c # 0
         /\ ParseChannelFirstSegment(t, c).ok
         /\ ParseChannelFirstSegment(t, c)
              = Parsed({t[p + 1].name, t[u].name}, "1", "1", "1")
<1> DEFINE a == Len(t)
<1>1. /\ t \in Seq(Tok) /\ a \in Nat /\ p \in Nat /\ u \in Nat /\ p < u /\ c = u + 1
      /\ u <= a /\ p + 1 \in Nat
  BY ShapedOrder
<1>2. NextChannel(t, 1) = c /\ AddressOf(t, c) = a /\ Found(t, c)
  BY ShapedChannel
<1>3. NatureOf(t, c) = "1"
  BY ShapedNature
<1> DEFINE segment == UnitMatches(t, p + 1, a)
<1>4. segment = {p + 1, u}
  <2>1. /\ p + 1 \in segment /\ u \in segment
        /\ \A i \in segment : i \in 1..a /\ p + 1 <= i /\ (i <= p \/ i = p + 1 \/ i = u)
    BY <1>1, ShapedMatches
  <2>2. ASSUME NEW i \in segment
        PROVE  i \in {p + 1, u}
    <3> HIDE DEF segment
    <3>1. i \in 1..a /\ p + 1 <= i /\ (i <= p \/ i = p + 1 \/ i = u)
      BY <2>1
    <3>2. QED
      BY <1>1, <3>1
  <2> HIDE DEF segment
  <2>3. QED
    BY <2>1, <2>2
<1>5. UnitsOf(t, c) = {p + 1, u}
  BY <1>2, <1>4, ShapedStart DEF UnitsOf
<1>6. Names(t, UnitsOf(t, c)) = {t[p + 1].name, t[u].name}
  BY <1>5 DEF Names
<1>7. t[c].name = "1" /\ t[a].name = "1"
  BY DEF Shaped
<1>8. ParseChannelFirstSegment(t, c).ok
  BY <1>2, <1>3, <1>5, SegmentByParts
<1>9. ParseChannelFirstSegment(t, c)
        = Parsed(Names(t, UnitsOf(t, c)), t[c].name, NatureOf(t, c),
                 t[AddressOf(t, c)].name)
  BY <1>8, SegmentByParts
<1>10. c # 0
  BY <1>1
<1>11. QED
  BY <1>2, <1>3, <1>6, <1>7, <1>8, <1>9, <1>10

\* One text after another.
Joined(s, x, t) ==
  /\ t \in Seq(Tok) /\ Len(t) = Len(s) + Len(x)
  /\ \A i \in 1..Len(s) : t[i] = s[i]
  /\ \A i \in 1..Len(x) : t[Len(s) + i] = x[i]

LEMMA Joins ==
  ASSUME NEW s \in Seq(Tok), NEW x \in Seq(Tok)
  PROVE  Joined(s, x, s \o x)
<1>1. /\ s \o x \in Seq(Tok) /\ Len(s \o x) = Len(s) + Len(x)
      /\ Len(s) \in Nat /\ Len(x) \in Nat
  BY ConcatProperties, LenProperties
<1>2. \A i \in 1..(Len(s) + Len(x)) :
         (s \o x)[i] = IF i <= Len(s) THEN s[i] ELSE x[i - Len(s)]
  BY ConcatProperties
<1>3. ASSUME NEW i \in 1..Len(s)
      PROVE  (s \o x)[i] = s[i]
  <2>1. i \in 1..(Len(s) + Len(x)) /\ i <= Len(s)
    BY <1>1
  <2>2. QED
    BY <1>2, <2>1
<1>4. ASSUME NEW i \in 1..Len(x)
      PROVE  (s \o x)[Len(s) + i] = x[i]
  <2>1. Len(s) + i \in 1..(Len(s) + Len(x)) /\ ~(Len(s) + i <= Len(s))
        /\ (Len(s) + i) - Len(s) = i
    BY <1>1
  <2>2. QED
    BY <1>2, <2>1
<1>5. QED
  BY <1>1, <1>3, <1>4 DEF Joined

LEMMA OneToken ==
  ASSUME NEW x \in Tok
  PROVE  <<x>> \in Seq(Tok) /\ Len(<<x>>) = 1 /\ <<x>>[1] = x
OBVIOUS

Unit(name) == Token("unit", name)

LEMMA UnitTokens ==
  /\ Unit("1") \in Tok /\ Unit("1").kind = "unit" /\ Unit("1").name = "1"
  /\ Unit("2") \in Tok /\ Unit("2").kind = "unit" /\ Unit("2").name = "2"
<1>1. "unit" \in Kind /\ "1" \in Name /\ "2" \in Name
  BY DEF Kind, Name
<1>2. QED
  BY <1>1, TokensAre DEF Unit

UnitsShaped(s) ==
  /\ s \in Seq(Tok) /\ Len(s) \in Nat /\ 1 <= Len(s)
  /\ s[1] = Unit("1")
  /\ Len(s) # 1 => s[Len(s)] = Unit("2") /\ Len(s) - 2 <= GroupGap
  /\ \A i \in 2..(Len(s) - 1) : s[i] = Word

LEMMA UnitsSaidAre ==
  ASSUME NEW s \in UnitsSaid
  PROVE  UnitsShaped(s)
<1>1. CASE s = <<Unit("1")>>
  <2>1. s \in Seq(Tok) /\ Len(s) = 1 /\ s[1] = Unit("1")
    BY <1>1, UnitTokens, OneToken
  <2>2. QED
    BY <2>1 DEF UnitsShaped
<1>2. CASE s # <<Unit("1")>>
  <2>1. PICK n \in 0..GroupGap :
               s = (<<Unit("1")>> \o [k \in 1..n |-> Word]) \o <<Unit("2")>>
    BY <1>2 DEF UnitsSaid, Unit
  <2> DEFINE words == [k \in 1..n |-> Word]
             front == <<Unit("1")>> \o words
  <2>2. n \in Nat /\ n <= GroupGap /\ GroupGap \in Nat
    BY DistancesAssumption
  <2>3. words \in Seq(Tok) /\ Len(words) = n /\ \A i \in 1..n : words[i] = Word
    <3>1. Word \in Tok
      BY TokensAre
    <3> HIDE DEF Tok, Word
    <3>2. QED
      BY <2>2, <3>1
  <2> HIDE DEF words
  <2>4. Joined(<<Unit("1")>>, words, front)
    BY <2>3, UnitTokens, OneToken, Joins
  <2>5. front \in Seq(Tok) /\ Len(front) = n + 1 /\ front[1] = Unit("1")
        /\ \A i \in 1..n : front[1 + i] = Word
    <3>1. Len(<<Unit("1")>>) = 1 /\ <<Unit("1")>>[1] = Unit("1")
      BY UnitTokens, OneToken
    <3> DEFINE head == <<Unit("1")>>
    <3> HIDE DEF front
    <3>2. /\ front \in Seq(Tok) /\ Len(front) = Len(head) + Len(words)
          /\ \A i \in 1..Len(head) : front[i] = head[i]
          /\ \A i \in 1..Len(words) : front[Len(head) + i] = words[i]
      BY <2>4 DEF Joined
    <3>3. Len(head) = 1 /\ head[1] = Unit("1") /\ 1 \in 1..1
      BY <3>1
    <3> HIDE DEF head
    <3>4. Len(front) = n + 1
      BY <2>2, <2>3, <3>2, <3>3
    <3>5. \A i \in 1..n : front[1 + i] = Word
      BY <2>3, <3>2, <3>3
    <3>6. QED
      BY <3>2, <3>3, <3>4, <3>5
  <2> HIDE DEF front
  <2>6. Joined(front, <<Unit("2")>>, s)
    BY <2>1, <2>5, UnitTokens, OneToken, Joins DEF front, words
  <2>7. s \in Seq(Tok) /\ Len(s) = n + 2 /\ s[n + 2] = Unit("2")
        /\ \A i \in 1..(n + 1) : s[i] = front[i]
    <3>1. Len(<<Unit("2")>>) = 1 /\ <<Unit("2")>>[1] = Unit("2")
      BY UnitTokens, OneToken
    <3>2. (n + 1) + 1 = n + 2 /\ 1 \in 1..1
      BY <2>2
    <3>3. s \in Seq(Tok) /\ Len(s) = (n + 1) + 1 /\ s[(n + 1) + 1] = Unit("2")
          /\ \A i \in 1..(n + 1) : s[i] = front[i]
      <4> DEFINE last == <<Unit("2")>>
      <4>1. /\ s \in Seq(Tok) /\ Len(s) = Len(front) + Len(last)
            /\ \A i \in 1..Len(front) : s[i] = front[i]
            /\ \A i \in 1..Len(last) : s[Len(front) + i] = last[i]
        BY <2>6 DEF Joined
      <4>2. Len(last) = 1 /\ last[1] = Unit("2") /\ Len(front) = n + 1
        BY <2>5, <3>1
      <4> HIDE DEF last
      <4>3. s[Len(front) + 1] = last[1]
        BY <3>2, <4>1, <4>2
      <4>4. QED
        BY <4>1, <4>2, <4>3
    <3>4. QED
      BY <3>2, <3>3
  <2>8. s[1] = Unit("1")
    BY <2>2, <2>5, <2>7
  <2>9. ASSUME NEW i \in 2..(Len(s) - 1)
        PROVE  s[i] = Word
    <3>1. i - 1 \in 1..n /\ i \in 1..(n + 1) /\ 1 + (i - 1) = i
      BY <2>2, <2>7
    <3>2. front[1 + (i - 1)] = Word
      BY <2>5, <3>1
    <3>3. QED
      BY <2>7, <3>1, <3>2
  <2>10. Len(s) - 2 <= GroupGap /\ Len(s) \in Nat /\ 1 <= Len(s)
    BY <2>2, <2>7
  <2>11. QED
    BY <2>7, <2>8, <2>9, <2>10 DEF UnitsShaped
<1>3. QED
  BY <1>1, <1>2

\* The channel said again, and what is said in a pause.
AgainShaped(s) ==
  /\ s \in Seq(Tok) /\ Len(s) \in Nat
  /\ Len(s) # 0 => s[Len(s)].kind = "channel"
  /\ \A i \in 1..Len(s) : s[i].kind \in {"channel", "stop"}

PauseShaped(s) ==
  /\ s \in Seq(Tok) /\ Len(s) \in {0, 1}
  /\ \A i \in 1..Len(s) : s[i].kind \in {"word", "stop"}

LEMMA AgainAre == \A s \in {<<>>, <<Channel>>, <<Stop, Channel>>} : AgainShaped(s)
<1>1. AgainShaped(<<>>)
  BY DEF AgainShaped
<1>2. AgainShaped(<<Channel>>)
  <2>1. Channel \in Tok /\ Channel.kind = "channel"
    BY TokensAre
  <2> HIDE DEF Channel, Tok
  <2>2. QED
    BY <2>1 DEF AgainShaped
<1>3. AgainShaped(<<Stop, Channel>>)
  <2>1. Channel \in Tok /\ Channel.kind = "channel" /\ Stop \in Tok /\ Stop.kind = "stop"
    BY TokensAre
  <2> HIDE DEF Channel, Stop, Tok
  <2>2. QED
    BY <2>1 DEF AgainShaped
<1>4. QED
  BY <1>1, <1>2, <1>3

LEMMA PausesAre == \A s \in Pauses : PauseShaped(s)
<1>1. PauseShaped(<<>>)
  BY DEF PauseShaped
<1>2. PauseShaped(<<Stop>>) /\ PauseShaped(<<Word>>)
  <2>1. Stop \in Tok /\ Stop.kind = "stop" /\ Word \in Tok /\ Word.kind = "word"
    BY TokensAre
  <2> HIDE DEF Stop, Word, Tok
  <2>2. QED
    BY <2>1 DEF PauseShaped
<1>3. QED
  BY <1>1, <1>2 DEF Pauses

Dispatch(units, again, pause, before) ==
  units \o <<Channel>> \o again \o pause \o <<Token("nature", "1")>>
    \o before \o <<Token("address", "1")>>

\* The parts of a dispatch and where they are.
DispatchIs(d, units, again, pause, before, u, e, v) ==
  /\ d \in Seq(Tok)
  /\ u \in Nat /\ 1 <= u /\ e \in Nat /\ u + 1 <= e
  /\ v \in Nat /\ e + 1 <= v /\ v <= e + 2
  /\ Len(d) = v + Len(before) + 1
  /\ \A i \in 1..u : d[i] = units[i]
  /\ d[u + 1] = Channel
  /\ \A i \in 1..Len(again) : d[u + 1 + i] = again[i]
  /\ \A i \in 1..Len(pause) : d[e + i] = pause[i]
  /\ d[v] = Token("nature", "1")
  /\ \A i \in 1..Len(before) : d[v + i] = before[i]
  /\ d[v + Len(before) + 1] = Token("address", "1")

LEMMA DispatchParts ==
  ASSUME NEW units, UnitsShaped(units), NEW again, AgainShaped(again),
         NEW pause, PauseShaped(pause), NEW before, PauseShaped(before),
         NEW u, u = Len(units), NEW e, e = u + 1 + Len(again),
         NEW v, v = e + Len(pause) + 1
  PROVE  DispatchIs(Dispatch(units, again, pause, before),
                    units, again, pause, before, u, e, v)
<1> DEFINE nat == Token("nature", "1")
           addr == Token("address", "1")
           w1 == units \o <<Channel>>
           w2 == w1 \o again
           w3 == w2 \o pause
           w4 == w3 \o <<nat>>
           w5 == w4 \o before
           w6 == w5 \o <<addr>>
<1>1. Channel \in Tok /\ nat \in Tok /\ addr \in Tok
  <2>1. "nature" \in Kind /\ "address" \in Kind /\ "1" \in Name
    BY DEF Kind, Name
  <2>2. QED
    BY <2>1, TokensAre
<1>2. /\ <<Channel>> \in Seq(Tok) /\ Len(<<Channel>>) = 1 /\ <<Channel>>[1] = Channel
      /\ <<nat>> \in Seq(Tok) /\ Len(<<nat>>) = 1 /\ <<nat>>[1] = nat
      /\ <<addr>> \in Seq(Tok) /\ Len(<<addr>>) = 1 /\ <<addr>>[1] = addr
  BY <1>1, OneToken
<1>3. /\ units \in Seq(Tok) /\ u \in Nat /\ 1 <= u
      /\ again \in Seq(Tok) /\ Len(again) \in Nat
      /\ pause \in Seq(Tok) /\ Len(pause) \in {0, 1}
      /\ before \in Seq(Tok) /\ Len(before) \in {0, 1}
  BY DEF UnitsShaped, AgainShaped, PauseShaped
<1>4. Dispatch(units, again, pause, before) = w6
  BY DEF Dispatch
<1> DEFINE ch == <<Channel>>
           na == <<nat>>
           ad == <<addr>>
<1>5. /\ Joined(units, ch, w1) /\ Joined(w1, again, w2) /\ Joined(w2, pause, w3)
      /\ Joined(w3, na, w4) /\ Joined(w4, before, w5) /\ Joined(w5, ad, w6)
      /\ w1 \in Seq(Tok) /\ w2 \in Seq(Tok) /\ w3 \in Seq(Tok) /\ w4 \in Seq(Tok)
      /\ w5 \in Seq(Tok) /\ w6 \in Seq(Tok)
  <2>1. Joined(units, ch, w1) /\ w1 \in Seq(Tok)
    BY <1>2, <1>3, Joins DEF Joined
  <2> HIDE DEF w1
  <2>2. Joined(w1, again, w2) /\ w2 \in Seq(Tok)
    BY <1>3, <2>1, Joins DEF Joined
  <2> HIDE DEF w2
  <2>3. Joined(w2, pause, w3) /\ w3 \in Seq(Tok)
    BY <1>3, <2>2, Joins DEF Joined
  <2> HIDE DEF w3
  <2>4. Joined(w3, na, w4) /\ w4 \in Seq(Tok)
    BY <1>2, <2>3, Joins DEF Joined
  <2> HIDE DEF w4
  <2>5. Joined(w4, before, w5) /\ w5 \in Seq(Tok)
    BY <1>3, <2>4, Joins DEF Joined
  <2> HIDE DEF w5
  <2>6. Joined(w5, ad, w6) /\ w6 \in Seq(Tok)
    BY <1>2, <2>5, Joins DEF Joined
  <2>7. QED
    BY <2>1, <2>2, <2>3, <2>4, <2>5, <2>6
<1> HIDE DEF w1, w2, w3, w4, w5, w6
<1>6. Len(ch) = 1 /\ ch[1] = Channel /\ Len(na) = 1 /\ na[1] = nat
      /\ Len(ad) = 1 /\ ad[1] = addr /\ 1 \in 1..1
  BY <1>2
<1> HIDE DEF ch, na, ad
<1>7. /\ Len(w1) = u + 1 /\ Len(w2) = e /\ Len(w3) = v - 1 /\ Len(w4) = v
      /\ Len(w5) = v + Len(before) /\ Len(w6) = v + Len(before) + 1
  <2>1. Len(w1) = u + 1
    BY <1>5, <1>6 DEF Joined
  <2>2. Len(w2) = e
    BY <1>5, <2>1 DEF Joined
  <2>3. Len(w3) = v - 1 /\ Len(w3) + 1 = v
    <3>1. Len(w3) = e + Len(pause)
      BY <1>5, <2>2 DEF Joined
    <3>2. QED
      BY <1>3, <3>1
  <2>4. Len(w4) = v
    BY <1>5, <1>6, <2>3 DEF Joined
  <2>5. Len(w5) = v + Len(before)
    BY <1>5, <2>4 DEF Joined
  <2>6. Len(w6) = v + Len(before) + 1
    BY <1>5, <1>6, <2>5 DEF Joined
  <2>7. QED
    BY <2>1, <2>2, <2>3, <2>4, <2>5, <2>6
<1>8. /\ e \in Nat /\ u + 1 <= e /\ v \in Nat /\ e + 1 <= v /\ v <= e + 2
      /\ (v - 1) + 1 = v
  <2>1. e \in Nat /\ u + 1 <= e
    BY <1>3
  <2>2. Len(pause) = 0 \/ Len(pause) = 1
    BY <1>3
  <2>3. v = e + 1 \/ v = e + 2
    <3>1. CASE Len(pause) = 0
      <4>1. v = e + 0 + 1
        BY <3>1
      <4>2. QED
        BY <2>1, <4>1
    <3>2. CASE Len(pause) = 1
      <4>1. v = e + 1 + 1
        BY <3>2
      <4>2. QED
        BY <2>1, <4>1
    <3>3. QED
      BY <2>2, <3>1, <3>2
  <2>4. e + 1 <= v /\ v <= e + 2 /\ v \in Nat
    BY <2>1, <2>3
  <2>5. (v - 1) + 1 = v
    BY <2>4
  <2>6. QED
    BY <2>1, <2>4, <2>5
\* Each part of the text stays where it is to the end.
<1>9. \A i \in 1..(v + Len(before)) : w6[i] = w5[i]
  BY <1>5, <1>7 DEF Joined
<1>10. \A i \in 1..v : w6[i] = w4[i]
  <2>1. \A i \in 1..v : w5[i] = w4[i]
    BY <1>5, <1>7 DEF Joined
  <2>2. \A i \in 1..v : i \in 1..(v + Len(before))
    BY <1>3, <1>8
  <2>3. QED
    BY <1>9, <2>1, <2>2
<1>11. \A i \in 1..(v - 1) : w6[i] = w3[i]
  <2>1. \A i \in 1..(v - 1) : w4[i] = w3[i]
    BY <1>5, <1>7 DEF Joined
  <2>2. \A i \in 1..(v - 1) : i \in 1..v
    BY <1>8
  <2>3. QED
    BY <1>10, <2>1, <2>2
<1>12. \A i \in 1..e : w6[i] = w2[i]
  <2>1. \A i \in 1..e : w3[i] = w2[i]
    BY <1>5, <1>7 DEF Joined
  <2>2. \A i \in 1..e : i \in 1..(v - 1)
    BY <1>8
  <2>3. QED
    BY <1>11, <2>1, <2>2
<1>13. \A i \in 1..(u + 1) : w6[i] = w1[i]
  <2>1. \A i \in 1..(u + 1) : w2[i] = w1[i]
    BY <1>5, <1>7 DEF Joined
  <2>2. \A i \in 1..(u + 1) : i \in 1..e
    BY <1>3, <1>8
  <2>3. QED
    BY <1>12, <2>1, <2>2
<1>14. \A i \in 1..u : w6[i] = units[i]
  <2>1. \A i \in 1..u : w1[i] = units[i]
    BY <1>5 DEF Joined
  <2>2. \A i \in 1..u : i \in 1..(u + 1)
    BY <1>3
  <2>3. QED
    BY <1>13, <2>1, <2>2
<1>15. w6[u + 1] = Channel
  <2>1. w1[u + 1] = Channel
    BY <1>5, <1>6 DEF Joined
  <2>2. u + 1 \in 1..(u + 1)
    BY <1>3
  <2>3. QED
    BY <1>13, <2>1, <2>2
<1>16. \A i \in 1..Len(again) : w6[u + 1 + i] = again[i]
  <2>1. \A i \in 1..Len(again) : w2[u + 1 + i] = again[i]
    BY <1>5, <1>7 DEF Joined
  <2>2. \A i \in 1..Len(again) : u + 1 + i \in 1..e
    BY <1>3, <1>8
  <2>3. QED
    BY <1>12, <2>1, <2>2
<1>17. \A i \in 1..Len(pause) : w6[e + i] = pause[i]
  <2>1. \A i \in 1..Len(pause) : w3[e + i] = pause[i]
    BY <1>5, <1>7 DEF Joined
  <2>2. \A i \in 1..Len(pause) : e + i \in 1..(v - 1)
    BY <1>3, <1>8
  <2>3. QED
    BY <1>11, <2>1, <2>2
<1>18. w6[v] = nat
  <2>1. w4[(v - 1) + 1] = nat
    BY <1>5, <1>6, <1>7 DEF Joined
  <2>2. v \in 1..v
    BY <1>8
  <2>3. QED
    BY <1>8, <1>10, <2>1, <2>2
<1>19. \A i \in 1..Len(before) : w6[v + i] = before[i]
  <2>1. \A i \in 1..Len(before) : w5[v + i] = before[i]
    BY <1>5, <1>7 DEF Joined
  <2>2. \A i \in 1..Len(before) : v + i \in 1..(v + Len(before))
    BY <1>3, <1>8
  <2>3. QED
    BY <1>9, <2>1, <2>2
<1>20. w6[v + Len(before) + 1] = addr
  BY <1>5, <1>6, <1>7 DEF Joined
<1> HIDE DEF nat, addr
<1>21. QED
  BY <1>3, <1>4, <1>5, <1>7, <1>8, <1>14, <1>15, <1>16, <1>17, <1>18, <1>19, <1>20
     DEF nat, addr, DispatchIs

LEMMA DispatchShaped ==
  ASSUME NEW d \in ChannelFirst
  PROVE  \E u, e, v : Shaped(d, 0, u, u + 1, e, v)
<1>1. PICK units \in UnitsSaid, again \in {<<>>, <<Channel>>, <<Stop, Channel>>},
           pause \in Pauses, before \in Pauses :
             d = Dispatch(units, again, pause, before)
  <2>1. ChannelFirst =
          {Dispatch(units, again, pause, before) :
             units \in UnitsSaid, again \in {<<>>, <<Channel>>, <<Stop, Channel>>},
             pause \in Pauses, before \in Pauses}
    BY DEF ChannelFirst, Dispatch
  <2>2. QED
    BY <2>1
<1>2. UnitsShaped(units) /\ AgainShaped(again) /\ PauseShaped(pause)
      /\ PauseShaped(before)
  BY UnitsSaidAre, AgainAre, PausesAre
<1>3. PICK u : u = Len(units)
  OBVIOUS
<1>4. PICK e : e = u + 1 + Len(again)
  OBVIOUS
<1>5. PICK v : v = e + Len(pause) + 1
  OBVIOUS
<1>6. /\ d \in Seq(Tok)
      /\ u \in Nat /\ 1 <= u /\ e \in Nat /\ u + 1 <= e
      /\ v \in Nat /\ e + 1 <= v /\ v <= e + 2
      /\ Len(d) = v + Len(before) + 1
      /\ \A i \in 1..u : d[i] = units[i]
      /\ d[u + 1] = Channel
      /\ \A i \in 1..Len(again) : d[u + 1 + i] = again[i]
      /\ \A i \in 1..Len(pause) : d[e + i] = pause[i]
      /\ d[v] = Token("nature", "1")
      /\ \A i \in 1..Len(before) : d[v + i] = before[i]
      /\ d[v + Len(before) + 1] = Token("address", "1")
  <2>1. DispatchIs(Dispatch(units, again, pause, before),
                   units, again, pause, before, u, e, v)
    BY <1>2, <1>3, <1>4, <1>5, DispatchParts, Zenon
  <2>2. QED
    BY <1>1, <2>1 DEF DispatchIs
<1>7. /\ Len(again) \in Nat /\ Len(pause) \in Nat /\ Len(before) \in Nat
  <2>1. Len(again) \in Nat /\ Len(pause) \in {0, 1} /\ Len(before) \in {0, 1}
    BY <1>2 DEF AgainShaped, PauseShaped
  <2>2. QED
    BY <2>1
<1> DEFINE a == Len(d)
<1>8. /\ v < a /\ e < v /\ u + 1 <= e /\ 0 < u /\ a \in Nat
  BY <1>6, <1>7
<1>9. d[1].kind = "unit" /\ d[1].name = "1"
  <2>1. d[1] = units[1] /\ units[1] = Unit("1")
    BY <1>2, <1>6 DEF UnitsShaped
  <2>2. QED
    BY <2>1, UnitTokens
<1>10. u # 0 + 1 => d[u].kind = "unit" /\ d[u].name = "2" /\ u - 0 - 2 <= GroupGap
  <2>1. SUFFICES ASSUME u # 1
                 PROVE  d[u].kind = "unit" /\ d[u].name = "2" /\ u - 2 <= GroupGap
    BY <1>6
  <2>2. u \in 1..u
    BY <1>6
  <2>3. d[u] = units[u] /\ units[u] = Unit("2") /\ u - 2 <= GroupGap
    BY <1>2, <1>3, <1>6, <2>1, <2>2 DEF UnitsShaped
  <2>4. QED
    BY <2>3, UnitTokens
<1>11. ASSUME NEW i \in 2..(u - 1)
       PROVE  d[i].kind = "word"
  <2>1. i \in 1..u
    BY <1>6
  <2>2. d[i] = units[i] /\ units[i] = Word
    BY <1>2, <1>3, <1>6, <2>1 DEF UnitsShaped
  <2>3. QED
    BY <2>2, TokensAre
<1>12. d[u + 1].kind = "channel" /\ d[u + 1].name = "1"
  BY <1>6, TokensAre
<1>13. ASSUME NEW i \in (u + 1)..e
       PROVE  d[i].kind \in {"channel", "stop"}
  <2>1. CASE i = u + 1
    BY <1>12, <2>1
  <2>2. CASE i # u + 1
    <3>1. PICK j : j = i - (u + 1)
      OBVIOUS
    <3>2. j \in 1..Len(again) /\ u + 1 + j = i
      BY <1>4, <1>6, <1>7, <2>2, <3>1
    <3>3. d[i] = again[j]
      BY <1>6, <3>2
    <3>4. again[j].kind \in {"channel", "stop"}
      BY <1>2, <3>2 DEF AgainShaped
    <3>5. QED
      BY <3>3, <3>4
  <2>3. QED
    BY <2>1, <2>2
<1>14. d[e].kind = "channel"
  <2>1. CASE Len(again) = 0
    <3>1. e = u + 1
      BY <1>4, <1>6, <2>1
    <3>2. QED
      BY <1>12, <3>1
  <2>2. CASE Len(again) # 0
    <3>1. Len(again) \in 1..Len(again) /\ u + 1 + Len(again) = e
      BY <1>4, <1>7, <2>2
    <3>2. d[e] = again[Len(again)]
      BY <1>6, <3>1
    <3>3. again[Len(again)].kind = "channel"
      BY <1>2, <2>2 DEF AgainShaped
    <3>4. QED
      BY <3>2, <3>3
  <2>3. QED
    BY <2>1, <2>2
<1>15. ASSUME NEW i \in (e + 1)..(v - 1)
       PROVE  d[i].kind \in {"word", "stop"}
  <2>1. PICK j : j = i - e
    OBVIOUS
  <2>2. j \in 1..Len(pause) /\ e + j = i
    <3>1. i \in Int /\ e + 1 <= i /\ i <= v - 1 /\ v - 1 = e + Len(pause)
      BY <1>5, <1>6, <1>7
    <3>2. QED
      BY <1>6, <1>7, <2>1, <3>1
  <2>3. d[i] = pause[j]
    BY <1>6, <2>2
  <2>4. pause[j].kind \in {"word", "stop"}
    BY <1>2, <2>2 DEF PauseShaped
  <2>5. QED
    BY <2>3, <2>4
<1>16. ASSUME NEW i \in (v + 1)..(a - 1)
       PROVE  d[i].kind \in {"word", "stop"}
  <2>1. PICK j : j = i - v
    OBVIOUS
  <2>2. j \in 1..Len(before) /\ v + j = i
    <3>1. v \in Nat /\ Len(before) \in Nat /\ a - 1 = v + Len(before)
      BY <1>6, <1>7
    <3> HIDE DEF a
    <3>2. i \in Int /\ v + 1 <= i /\ i <= a - 1
      BY <1>8, <3>1
    <3>3. QED
      BY <2>1, <3>1, <3>2
  <2>3. d[i] = before[j]
    BY <1>6, <2>2
  <2>4. before[j].kind \in {"word", "stop"}
    BY <1>2, <2>2 DEF PauseShaped
  <2>5. QED
    BY <2>3, <2>4
<1>17. /\ d[v].kind = "nature" /\ d[v].name = "1"
       /\ d[a].kind = "address" /\ d[a].name = "1"
  <2>1. "nature" \in Kind /\ "address" \in Kind /\ "1" \in Name
    BY DEF Kind, Name
  <2>2. d[v] = Token("nature", "1") /\ d[a] = Token("address", "1")
    BY <1>6
  <2>3. QED
    BY <2>1, <2>2, TokensAre
<1>18. Shaped(d, 0, u, u + 1, e, v)
  <2>1. 0 + 1 = 1 /\ 0 + 2 = 2 /\ 1..0 = {}
    OBVIOUS
  <2>2. u + 1 \in Nat /\ 0 \in Nat
    BY <1>6
  <2>3. QED
    BY <1>6, <1>8, <1>9, <1>10, <1>11, <1>12, <1>13, <1>14, <1>15, <1>16, <1>17,
       <2>1, <2>2 DEF Shaped
<1>19. QED
  BY <1>18

\* What is said before the dispatch, and ends with a stop.
BeforeShaped(b) ==
  /\ b \in Seq(Tok) /\ Len(b) \in Nat
  /\ Len(b) # 0 => b[Len(b)].kind = "stop"
  /\ \A i \in 1..Len(b) : b[i].kind # "channel" /\ (b[i].kind = "unit" => b[i].name = "3")

LEMMA BeforesAre ==
  ASSUME NEW b \in Before
  PROVE  BeforeShaped(b)
<1>1. CASE b = <<>>
  BY <1>1 DEF BeforeShaped
<1>2. CASE b # <<>>
  <2>1. PICK n \in 0..MaxBefore : \E s \in [1..n -> Other] : b = Append(s, Stop)
    BY <1>2 DEF Before
  <2> PICK s \in [1..n -> Other] : b = Append(s, Stop)
    BY <2>1
  <2>2. n \in Nat
    BY SpeechBoundsAssumption
  <2>3. s \in Seq(Tok) /\ Len(s) = n /\ \A i \in 1..n : s[i] \in Other
    <3>1. Other \subseteq Tok
      BY OtherTokens
    <3>2. s \in [1..n -> Tok]
      BY <3>1
    <3>3. s \in Seq(Tok)
      BY <2>2, <3>2
    <3>4. Len(s) = n
      BY <2>2, <3>2, <3>3, LenProperties
    <3>5. QED
      BY <3>3, <3>4
  <2>4. /\ b \in Seq(Tok) /\ Len(b) = n + 1 /\ b[n + 1] = Stop
        /\ \A i \in 1..n : b[i] = s[i]
    BY <2>3, TokensAre, AppendProperties
  <2>5. ASSUME NEW i \in 1..(n + 1)
        PROVE  b[i].kind # "channel" /\ (b[i].kind = "unit" => b[i].name = "3")
    <3>1. CASE i = n + 1
      BY <2>4, <3>1, TokensAre
    <3>2. CASE i # n + 1
      <4>1. i \in 1..n
        BY <2>2, <3>2
      <4>2. QED
        BY <2>3, <2>4, <4>1, OtherTokens
    <3>3. QED
      BY <3>1, <3>2
  <2>6. n + 1 \in Nat /\ b[n + 1].kind = "stop"
    BY <2>2, <2>4, TokensAre
  <2>7. QED
    BY <2>4, <2>5, <2>6 DEF BeforeShaped
<1>3. QED
  BY <1>1, <1>2

\* A dispatch after other speech has its shape, further on.
LEMMA ShapedBehind ==
  ASSUME NEW b, BeforeShaped(b), NEW d, NEW u, NEW c, NEW e, NEW v,
         Shaped(d, 0, u, c, e, v), NEW t, Joined(b, d, t), NEW p, p = Len(b)
  PROVE  /\ Shaped(t, p, p + u, p + c, p + e, p + v)
         /\ t[p + 1].name = d[1].name /\ t[p + u].name = d[u].name
<1> DEFINE a == Len(d)
<1>1. /\ p \in Nat /\ a \in Nat /\ u \in Nat /\ c \in Nat /\ e \in Nat /\ v \in Nat
      /\ 0 < u /\ c = u + 1 /\ c <= e /\ e < v /\ v <= e + 2 /\ v < a
  BY ShapedOrder DEF BeforeShaped
<1>2. /\ t \in Seq(Tok) /\ Len(t) = p + a
      /\ \A i \in 1..p : t[i] = b[i]
      /\ \A i \in 1..a : t[p + i] = d[i]
  BY DEF Joined
<1> HIDE DEF a
<1>3. /\ t[p + 1] = d[1] /\ t[p + u] = d[u] /\ t[p + c] = d[c] /\ t[p + e] = d[e]
      /\ t[p + v] = d[v] /\ t[p + a] = d[a]
  <2>1. 1 \in 1..a /\ u \in 1..a /\ c \in 1..a /\ e \in 1..a /\ v \in 1..a /\ a \in 1..a
    BY <1>1
  <2>2. QED
    BY <1>2, <2>1
<1>4. ASSUME NEW from \in Nat, NEW to \in Int, 1 <= from, to <= a,
             NEW kinds, \A j \in from..to : d[j].kind \in kinds,
             NEW i \in (p + from)..(p + to)
      PROVE  t[i].kind \in kinds
  <2>1. PICK j : j = i - p
    OBVIOUS
  <2>2. j \in from..to /\ j \in 1..a /\ p + j = i
    BY <1>1, <1>4, <2>1
  <2>3. t[i] = d[j]
    BY <1>2, <2>2
  <2>4. QED
    BY <1>4, <2>2, <2>3
<1>5. /\ p + u \in Nat /\ p + c \in Nat /\ p + e \in Nat /\ p + v \in Nat
      /\ p < p + u /\ p + c = (p + u) + 1 /\ p + c <= p + e /\ p + e < p + v
      /\ p + v <= (p + e) + 2 /\ p + v < p + a
  BY <1>1
<1>6. \A i \in 1..p : t[i].kind # "channel" /\ (t[i].kind = "unit" => t[i].name = "3")
  BY <1>2 DEF BeforeShaped
<1>7. p # 0 => t[p].kind = "stop"
  <2>1. SUFFICES ASSUME p # 0
                 PROVE  t[p].kind = "stop"
    OBVIOUS
  <2>2. p \in 1..p
    BY <1>1, <2>1
  <2>3. QED
    BY <1>2, <2>1, <2>2 DEF BeforeShaped
<1>8. d[1].kind = "unit" /\ d[1].name = "1"
  <2>1. 0 + 1 = 1
    OBVIOUS
  <2>2. QED
    BY <2>1 DEF Shaped
<1>9. p + u # p + 1 => t[p + u].kind = "unit" /\ t[p + u].name = "2"
                        /\ (p + u) - p - 2 <= GroupGap
  <2>1. SUFFICES ASSUME p + u # p + 1
                 PROVE  t[p + u].kind = "unit" /\ t[p + u].name = "2"
                        /\ (p + u) - p - 2 <= GroupGap
    OBVIOUS
  <2>2. u # 0 + 1 /\ (p + u) - p - 2 = u - 0 - 2
    BY <1>1, <2>1
  <2>3. d[u].kind = "unit" /\ d[u].name = "2" /\ u - 0 - 2 <= GroupGap
    BY <2>2 DEF Shaped
  <2>4. QED
    BY <1>3, <2>2, <2>3
<1>10. \A i \in (p + 2)..((p + u) - 1) : t[i].kind = "word"
  <2>1. \A j \in 2..(u - 1) : d[j].kind \in {"word"}
    <3>1. 0 + 2 = 2
      OBVIOUS
    <3>2. QED
      BY <3>1 DEF Shaped
  <2>2. u - 1 \in Int /\ u - 1 <= a /\ p + (u - 1) = (p + u) - 1
    BY <1>1
  <2>3. PICK kinds : kinds = {"word"}
    OBVIOUS
  <2>4. 2 \in Nat /\ 1 <= 2 /\ \A j \in 2..(u - 1) : d[j].kind \in kinds
    BY <2>1, <2>3
  <2>5. \A i \in (p + 2)..(p + (u - 1)) : t[i].kind \in kinds
    BY <1>4, <2>2, <2>4
  <2>6. QED
    BY <2>2, <2>3, <2>5
<1>11. \A i \in (p + c)..(p + e) : t[i].kind \in {"channel", "stop"}
  <2>1. \A j \in c..e : d[j].kind \in {"channel", "stop"}
    BY DEF Shaped
  <2>2. 1 <= c /\ e <= a /\ e \in Int
    BY <1>1
  <2>3. QED
    BY <1>1, <1>4, <2>1, <2>2
<1>12. \A i \in ((p + e) + 1)..((p + v) - 1) : t[i].kind \in {"word", "stop"}
  <2>1. \A j \in (e + 1)..(v - 1) : d[j].kind \in {"word", "stop"}
    BY DEF Shaped
  <2>2. /\ e + 1 \in Nat /\ 1 <= e + 1 /\ v - 1 \in Int /\ v - 1 <= a
        /\ p + (e + 1) = (p + e) + 1 /\ p + (v - 1) = (p + v) - 1
    BY <1>1
  <2>3. \A i \in (p + (e + 1))..(p + (v - 1)) : t[i].kind \in {"word", "stop"}
    BY <1>4, <2>1, <2>2
  <2>4. QED
    BY <2>2, <2>3
<1>13. \A i \in ((p + v) + 1)..((p + a) - 1) : t[i].kind \in {"word", "stop"}
  <2>1. \A j \in (v + 1)..(a - 1) : d[j].kind \in {"word", "stop"}
    BY DEF Shaped, a
  <2>2. /\ v + 1 \in Nat /\ 1 <= v + 1 /\ a - 1 \in Int /\ a - 1 <= a
        /\ p + (v + 1) = (p + v) + 1 /\ p + (a - 1) = (p + a) - 1
    BY <1>1
  <2>3. \A i \in (p + (v + 1))..(p + (a - 1)) : t[i].kind \in {"word", "stop"}
    BY <1>4, <2>1, <2>2
  <2>4. QED
    BY <2>2, <2>3
<1>14. /\ d[c].kind = "channel" /\ d[c].name = "1" /\ d[e].kind = "channel"
       /\ d[v].kind = "nature" /\ d[v].name = "1"
       /\ d[a].kind = "address" /\ d[a].name = "1"
  BY DEF Shaped, a
<1>15. Shaped(t, p, p + u, p + c, p + e, p + v)
  BY <1>1, <1>2, <1>3, <1>5, <1>6, <1>7, <1>8, <1>9, <1>10, <1>11, <1>12, <1>13,
     <1>14 DEF Shaped
<1>16. QED
  BY <1>3, <1>15

\* The units that a dispatch names.
LEMMA ShapedMeaning ==
  ASSUME NEW d, NEW u, NEW c, NEW e, NEW v, Shaped(d, 0, u, c, e, v)
  PROVE  Names(d, At(d, "unit", 1, Len(d))) = {d[1].name, d[u].name}
<1>1. /\ d \in Seq(Tok) /\ Len(d) \in Nat /\ u \in Nat /\ 0 < u
      /\ 1 \in 1..Len(d) /\ u \in 1..Len(d) /\ d[u].kind = "unit" /\ DOMAIN d = 1..Len(d)
  <2>1. 0 + 1 = 1
    OBVIOUS
  <2>2. QED
    BY <2>1, ShapedOrder, LenProperties
<1>2. d[1].kind = "unit"
  <2>1. 0 + 1 = 1
    OBVIOUS
  <2>2. QED
    BY <2>1 DEF Shaped
<1>3. At(d, "unit", 1, Len(d)) = {1, u}
  <2>1. ASSUME NEW i \in At(d, "unit", 1, Len(d))
        PROVE  i \in {1, u}
    <3>1. i \in 1..Len(d) /\ d[i].kind = "unit"
      BY <1>1, AtPositions
    <3>2. i <= 0 \/ i = 0 + 1 \/ i = u
      BY <3>1, ShapedKinds
    <3>3. QED
      BY <1>1, <3>1, <3>2
  <2>2. 1 \in At(d, "unit", 1, Len(d)) /\ u \in At(d, "unit", 1, Len(d))
    BY <1>1, <1>2 DEF At
  <2>3. QED
    BY <2>1, <2>2
<1>4. QED
  BY <1>3 DEF Names

-----------------------------------------------------------------------------
(***************************************************************************)
(* Every beginning of a recording with a channel-first dispatch is of the  *)
(* shape that is parsed, and every token said after it keeps that.         *)
(***************************************************************************)

\* What the text is known to say.
SaysFirst ==
  meant.order = "channel first" =>
    Complete /\ ParseTranscript(text, TRUE) = meant.fields

SpeechInv == SpokenText /\ SaysFirst

LEMMA AddressFirstTokens ==
  ASSUME NEW d \in AddressFirst
  PROVE  d \in Seq(Tok)
<1> DEFINE nat == <<Token("nature", "1")>>
           addr == <<Token("address", "1")>>
           ch == <<Channel>>
<1>1. nat \in Seq(Tok) /\ addr \in Seq(Tok) /\ ch \in Seq(Tok)
  <2>1. "nature" \in Kind /\ "address" \in Kind /\ "1" \in Name
    BY DEF Kind, Name
  <2>2. QED
    BY <2>1, TokensAre, OneToken
<1> HIDE DEF nat, addr, ch
<1>2. PICK units \in UnitsSaid, pause \in Pauses :
             d = nat \o pause \o addr \o units \o ch
  <2> DEFINE D(units, pause) == nat \o pause \o addr \o units \o ch
  <2>1. AddressFirst = {D(units, pause) : units \in UnitsSaid, pause \in Pauses}
    BY DEF AddressFirst, nat, addr, ch
  <2> HIDE DEF D
  <2>2. \E units \in UnitsSaid, pause \in Pauses : d = D(units, pause)
    BY <2>1
  <2>3. QED
    BY <2>2 DEF D
<1>3. units \in Seq(Tok) /\ pause \in Seq(Tok)
  BY UnitsSaidAre, PausesAre DEF UnitsShaped, PauseShaped
<1>4. nat \o pause \in Seq(Tok)
  BY <1>1, <1>3, ConcatProperties
<1>5. nat \o pause \o addr \in Seq(Tok)
  BY <1>1, <1>4, ConcatProperties
<1>6. nat \o pause \o addr \o units \in Seq(Tok)
  BY <1>3, <1>5, ConcatProperties
<1>7. QED
  BY <1>1, <1>2, <1>6, ConcatProperties

LEMMA SpeechInitially ==
  ASSUME SpeechInit
  PROVE  SpeechInv
<1>1. CASE text = <<>> /\ meant = Nothing
  <2>1. meant.order = "none"
    BY <1>1 DEF Nothing
  <2>2. SpokenText
    BY <1>1 DEF SpokenText
  <2>3. QED
    BY <2>1, <2>2 DEF SpeechInv, SaysFirst
<1>2. CASE \E before \in Before, dispatch \in ChannelFirst :
             text = before \o dispatch /\ meant = Meaning("channel first", dispatch)
  <2>1. PICK b \in Before, d \in ChannelFirst :
               text = b \o d /\ meant = Meaning("channel first", d)
    BY <1>2
  <2>2. PICK u, e, v : Shaped(d, 0, u, u + 1, e, v)
    BY DispatchShaped
  <2>3. BeforeShaped(b) /\ b \in Seq(Tok) /\ d \in Seq(Tok)
    BY <2>2, BeforesAre DEF BeforeShaped, Shaped
  <2>4. Joined(b, d, text)
    BY <2>1, <2>3, Joins
  <2>5. PICK p : p = Len(b)
    OBVIOUS
  <2>6. /\ Shaped(text, p, p + u, p + (u + 1), p + e, p + v)
        /\ text[p + 1].name = d[1].name /\ text[p + u].name = d[u].name
    BY <2>2, <2>3, <2>4, <2>5, ShapedBehind
  <2> DEFINE c == p + (u + 1)
             fields == Parsed({d[1].name, d[u].name}, "1", "1", "1")
  <2>7. /\ NextChannel(text, 1) = c /\ c # 0
        /\ ParseChannelFirstSegment(text, c).ok
        /\ ParseChannelFirstSegment(text, c) = fields
    <3> DEFINE said1 == Parsed({text[p + 1].name, text[p + u].name}, "1", "1", "1")
    <3>1. /\ NextChannel(text, 1) = c /\ c # 0
          /\ ParseChannelFirstSegment(text, c).ok
          /\ ParseChannelFirstSegment(text, c) = said1
      <4>1. Shaped(text, p, p + u, c, p + e, p + v)
        BY <2>6
      <4> HIDE DEF c
      <4>2. QED
        BY <4>1, ShapedParsed
    <3>2. said1 = fields
      BY <2>6
    <3> HIDE DEF said1, fields, c
    <3>3. QED
      BY <3>1, <3>2
  <2>8. meant.fields = fields
    <3>1. meant.fields
            = Parsed(Names(d, At(d, "unit", 1, Len(d))), "1", "1", "1")
      BY <2>1 DEF Meaning
    <3>2. QED
      BY <2>2, <3>1, ShapedMeaning
  <2> HIDE DEF fields, c
  <2>9. Complete
    BY <2>7 DEF Complete
  <2>10. ParseTranscript(text, TRUE) = fields
    <3>1. ParseTranscript(text, TRUE)
            = ParseChannelFirstSegment(text, NextChannel(text, 1))
      BY <2>9, FirstAttempt DEF Complete
    <3>2. QED
      BY <2>7, <3>1
  <2>11. QED
    BY <2>3, <2>4, <2>8, <2>9, <2>10 DEF SpeechInv, SaysFirst, SpokenText, Joined
<1>3. CASE \E dispatch \in AddressFirst :
             text = dispatch /\ meant = Meaning("address first", dispatch)
  <2>1. PICK d \in AddressFirst : text = d /\ meant = Meaning("address first", d)
    BY <1>3
  <2>2. meant.order = "address first"
    BY <2>1 DEF Meaning
  <2>3. d \in Seq(Tok)
    BY AddressFirstTokens
  <2>4. QED
    BY <2>1, <2>2, <2>3 DEF SpeechInv, SaysFirst, SpokenText
<1>4. QED
  BY <1>1, <1>2, <1>3 DEF SpeechInit

LEMMA SpeechInductive ==
  ASSUME SpeechInv, [SpeechNext]_speechVars
  PROVE  /\ SpeechInv'
         /\ Complete => Complete' /\ ParseTranscript(text', TRUE) = ParseTranscript(text, TRUE)
<1>1. SpokenText' /\ (text' = text \/ Grown(text, text'))
  BY SayGrows DEF SpeechInv
<1>2. meant' = meant
  BY DEF SpeechNext, Say, speechVars
<1>3. Complete => Complete' /\ ParseTranscript(text', TRUE) = ParseTranscript(text, TRUE)
  <2>1. CASE text' = text
    BY <2>1 DEF Complete
  <2>2. CASE Grown(text, text') /\ Complete
    <3> DEFINE c == NextChannel(text, 1)
    <3>1. /\ NextChannel(text', 1) = c
          /\ ParseChannelFirstSegment(text', c) = ParseChannelFirstSegment(text, c)
          /\ ParseTranscript(text', TRUE) = ParseTranscript(text, TRUE)
      BY <2>2, CompleteStays DEF Complete
    <3>2. c # 0 /\ ParseChannelFirstSegment(text, c).ok
      BY <2>2 DEF Complete
    <3> HIDE DEF c
    <3>3. ParseChannelFirstSegment(text', c).ok
      BY <3>1, <3>2
    <3>4. Complete'
      BY <3>1, <3>2, <3>3 DEF Complete
    <3>5. QED
      BY <3>1, <3>4
  <2>3. QED
    BY <1>1, <2>1, <2>2
<1>4. QED
  BY <1>1, <1>2, <1>3 DEF SpeechInv, SaysFirst

(***************************************************************************)
(* ParseTranscript reads the first dispatch of a recording in the order    *)
(* units, channel, nature, address whole and alone, whatever is said       *)
(* before it, however many words apart its units are within the gap, and   *)
(* however the recording goes on: the beginnings are parsed by             *)
(* ShapedParsed, and no token said later changes that.                     *)
(***************************************************************************)
THEOREM FirstDispatchExtractedCorrect == SpeechSpec => []FirstDispatchExtracted
<1>1. SpeechInit => SpeechInv
  BY SpeechInitially
<1>2. SpeechInv /\ [SpeechNext]_speechVars => SpeechInv'
  BY SpeechInductive
<1>3. SpeechInv => FirstDispatchExtracted
  BY DEF SpeechInv, SaysFirst, FirstDispatchExtracted
<1>4. QED
  BY <1>1, <1>2, <1>3, PTL DEF SpeechSpec

(***************************************************************************)
(* Once parseChannelFirstSegment takes a recording, of any beginning, what *)
(* is said after a stop does not change what it is taken to say.  (On      *)
(* tokens CompleteStays needs no stop; on words the address patterns do.)  *)
(***************************************************************************)
THEOREM LaterSpeechIgnoredCorrect == SpeechSpec => LaterSpeechIgnored
<1>1. SpeechInit => SpeechInv
  BY SpeechInitially
<1>2. SpeechInv /\ [SpeechNext]_speechVars => SpeechInv'
  BY SpeechInductive
<1>3. SpeechInv /\ [SpeechNext]_speechVars
        => [Complete /\ Paused => ParseTranscript(text', TRUE) = ParseTranscript(text, TRUE)]_speechVars
  BY SpeechInductive
<1>4. QED
  BY <1>1, <1>2, <1>3, PTL DEF SpeechSpec, LaterSpeechIgnored
=============================================================================
