-------------------------- MODULE TranscriptUpload --------------------------
(***************************************************************************)
(* From the folder of transcripts to dispatch_transcripts: the processes   *)
(* of scripts/cactus_uploader, the SQLite table they share and the         *)
(* endpoint they post to.                                                  *)
(*                                                                         *)
(* A recording is named by its WAV file.  File f is the transcript beside  *)
(* recording f, files are numbered in the order of their names; what it    *)
(* says of itself in its field "wav" is WavOf[f].                          *)
(***************************************************************************)
EXTENDS Integers, FiniteSets

CONSTANTS
  File,        \* the transcripts, 1..n
  Uploader,    \* the uploader processes
  WavOf,       \* the recording each names, in File or another
  Refused,     \* what the endpoint's validation turns down
  BatchSize,   \* CACTUS_UPLOADER_BATCH_SIZE
  MaxFaults    \* bound: crashes, failing reads, requests and SQLite calls

ASSUME FilesAssumption == File \subseteq Nat \ {0} /\ IsFiniteSet(File)
ASSUME PayloadAssumption == DOMAIN WavOf = File /\ Refused \subseteq File
ASSUME UploadBoundsAssumption == BatchSize \in Nat \ {0} /\ MaxFaults \in Nat

VARIABLES
  folder,      \* how much of each file is written
  recorded,    \* uploaded_transcripts: "uploaded" or "failed"
  transcripts, \* dispatch_transcripts: the file each row was made from
  upc,         \* where each uploader is in process_once
  listed,      \* what is left of its sorted listing
  attempted,   \* attempted_count
  job,         \* transcript_path
  answer,      \* what became of the request or of reading the file
  unread,      \* history: files that were opened and could not be read
  faults

table == <<recorded, transcripts>>
uploaders == <<upc, listed, attempted, job, answer>>
uploadVars == <<folder, table, uploaders, unread, faults>>

NoFile == 0
Wav == File \union {WavOf[f] : f \in File}

\* Mutated: permanent failures are looked over.
AlreadyUploaded(f) == recorded[f] = "uploaded"

AlreadyRecorded(f) == recorded[f] # "no"

Goto(u, place) == upc' = [upc EXCEPT ![u] = place]
Fault == faults < MaxFaults /\ faults' = faults + 1

UploadInit ==
  /\ folder = [f \in File |-> "absent"]
  /\ recorded = [w \in Wav |-> "no"]
  /\ transcripts = [w \in Wav |-> NoFile]
  /\ upc = [u \in Uploader |-> "asleep"]
  /\ listed = [u \in Uploader |-> {}]
  /\ attempted = [u \in Uploader |-> 0]
  /\ job = [u \in Uploader |-> NoFile]
  /\ answer = [u \in Uploader |-> "none"]
  /\ unread = {}
  /\ faults = 0

\* The transcriber opens a file under its final name and writes it there.  The
\* files appear in any order.
StartFile(f) ==
  /\ folder[f] = "absent"
  /\ folder' = [folder EXCEPT ![f] = "partial"]
  /\ UNCHANGED <<table, uploaders, unread, faults>>

FinishFile(f) ==
  /\ folder[f] = "partial"
  /\ folder' = [folder EXCEPT ![f] = "whole"]
  /\ UNCHANGED <<table, uploaders, unread, faults>>

\* process_once lists the folder.
ListFolder(u) ==
  /\ upc[u] = "asleep"
  /\ Goto(u, "loop")
  /\ listed' = [listed EXCEPT ![u] = {f \in File : folder[f] # "absent"}]
  /\ UNCHANGED <<folder, table, attempted, job, answer, unread, faults>>

\* What is listed and not recorded.  Nothing is ever taken out of the table,
\* so it does not matter when exactly a file before the next is looked up.
Pending(u) == {f \in listed[u] : ~AlreadyRecorded(f)}

\* Mutated: the files passed over count towards the batch.
AttemptsCountingAll(u, f) ==
  attempted[u] + Cardinality({g \in listed[u] : g <= f})

Attempts(u, f) == attempted[u] + 1

\* The first of them is tried.
NextFile(u, f) ==
  /\ upc[u] = "loop" /\ attempted[u] < BatchSize
  /\ f \in Pending(u) /\ \A g \in Pending(u) : f <= g
  /\ Goto(u, "read")
  /\ listed' = [listed EXCEPT ![u] = {g \in @ : g > f}]
  /\ attempted' = [attempted EXCEPT ![u] = Attempts(u, f)]
  /\ job' = [job EXCEPT ![u] = f]
  /\ UNCHANGED <<folder, table, answer, unread, faults>>

\* process_once is over, and main sleeps.
Asleep(u) ==
  /\ Goto(u, "asleep")
  /\ listed' = [listed EXCEPT ![u] = {}]
  /\ attempted' = [attempted EXCEPT ![u] = 0]
  /\ job' = [job EXCEPT ![u] = NoFile]
  /\ answer' = [answer EXCEPT ![u] = "none"]
  /\ UNCHANGED <<folder, table, unread>>

\* The listing is done or the batch is full.
EndOfBatch(u) ==
  /\ upc[u] = "loop"
  /\ Pending(u) = {} \/ attempted[u] >= BatchSize
  /\ Asleep(u)
  /\ UNCHANGED faults

\* The file is done with, or its exception caught: on to the next.
Proceed(u) ==
  /\ Goto(u, "loop")
  /\ job' = [job EXCEPT ![u] = NoFile]
  /\ answer' = [answer EXCEPT ![u] = "none"]

\* A half-written file is no JSON, and reading a whole one may fail.
ReadFails(u) ==
  /\ upc[u] = "read"
  /\ \/ folder[job[u]] = "partial" /\ UNCHANGED faults
     \/ folder[job[u]] = "whole" /\ Fault
  /\ Goto(u, "record")
  /\ answer' = [answer EXCEPT ![u] = "no json"]
  /\ unread' = unread \union {job[u]}
  /\ UNCHANGED <<folder, table, listed, attempted, job>>

\* Every name is taken to begin with the time of the capture; one that does
\* not raises here and is tried in every round, as a misnamed one is.
ReadFile(u) ==
  /\ upc[u] = "read" /\ folder[job[u]] = "whole"
  /\ Goto(u, "post")
  /\ UNCHANGED <<folder, table, listed, attempted, job, answer, unread, faults>>

\* ON CONFLICT keeps the row and says so; either way the answer is 200.
InsertDispatchTranscript(f) ==
  transcripts' = [transcripts EXCEPT ![WavOf[f]] = IF @ = NoFile THEN f ELSE @]

\* The endpoint validates and inserts.
Post(u) ==
  LET f == job[u] IN
  /\ upc[u] = "post"
  /\ Goto(u, "record")
  /\ IF f \in Refused
       THEN /\ answer' = [answer EXCEPT ![u] = "400"]
            /\ UNCHANGED transcripts
       ELSE /\ answer' = [answer EXCEPT ![u] = "200"]
            /\ InsertDispatchTranscript(f)
  /\ UNCHANGED <<folder, recorded, listed, attempted, job, unread, faults>>

\* Mutated: any answer in the four and five hundreds is permanent.
PostFailsForGood(u) ==
  /\ upc[u] = "post"
  /\ Fault
  /\ Goto(u, "record")
  /\ answer' = [answer EXCEPT ![u] = "400"]
  /\ UNCHANGED <<folder, table, listed, attempted, job, unread>>

\* 401, 429, 5xx or no answer: it is retried another time.  The row may
\* have been inserted, when what is lost is the answer.
PostFails(u) ==
  /\ upc[u] = "post"
  /\ Fault
  /\ Proceed(u)
  /\ \/ UNCHANGED transcripts
     \/ job[u] \notin Refused /\ InsertDispatchTranscript(job[u])
  /\ UNCHANGED <<folder, recorded, listed, attempted, unread>>

\* What could not be read goes by the name of its file, anything else by the
\* name in the payload.
Recording(u) == IF answer[u] = "no json" THEN job[u] ELSE WavOf[job[u]]

\* Mutated: any answer of the server is recorded as an upload.
RecordAllUploaded(u) ==
  recorded' = [recorded EXCEPT ![Recording(u)] =
                 IF answer[u] = "no json" THEN "failed" ELSE "uploaded"]

\* record_uploaded and record_permanent_failure.
Record(u) ==
  recorded' = [recorded EXCEPT ![Recording(u)] =
                 IF answer[u] = "200" THEN "uploaded" ELSE "failed"]

\* The outcome is recorded, or SQLite refuses, which costs the attempt only.
RecordOutcome(u) ==
  /\ upc[u] = "record"
  /\ Proceed(u)
  /\ \/ Record(u) /\ UNCHANGED faults
     \/ Fault /\ UNCHANGED recorded
  /\ UNCHANGED <<folder, transcripts, listed, attempted, unread>>

\* The process dies, wherever it is, and is started again; or an exception no
\* file is to blame for ends the round.
Die(u) ==
  /\ upc[u] # "asleep"
  /\ Fault
  /\ Asleep(u)

UploaderStep(u) ==
  \/ ListFolder(u) \/ (\E f \in File : NextFile(u, f)) \/ EndOfBatch(u)
  \/ ReadFails(u) \/ ReadFile(u) \/ Post(u) \/ RecordOutcome(u)

UploadNext ==
  \/ \E f \in File : StartFile(f) \/ FinishFile(f)
  \/ \E u \in Uploader : UploaderStep(u) \/ PostFails(u) \/ Die(u)

UploadSpec == UploadInit /\ [][UploadNext]_uploadVars

\* main never leaves its loop, and requests.post has a timeout.
FairUploadSpec ==
  UploadSpec /\ \A u \in Uploader : WF_uploadVars(UploaderStep(u))
=============================================================================
