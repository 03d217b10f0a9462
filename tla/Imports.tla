------------------------------- MODULE Imports --------------------------------
(***************************************************************************)
(* ImportService with its two repositories, and the worker that takes its  *)
(* payloads from the queue.                                                *)
(*                                                                         *)
(* An upload suspends while the artifact is scanned.  The worker exists as *)
(* a contract only: it reports through transitionJobStatus and             *)
(* setStagedOutput, may crash, and after a restart is sent the jobs that   *)
(* listResumableJobs finds.                                                *)
(***************************************************************************)
EXTENDS Naturals, Sequences, FiniteSets

CONSTANTS
  MaxRetries,     \* DEFAULT_IMPORT_JOB_RETRY_CONFIG.maxRetries
  MaxArtifacts,   \* bound: uploads
  MaxImports,     \* bound: import jobs
  MaxCrashes,     \* bound: crashes of the worker
  MaxByHand       \* bound: calls of transitionJobStatus by others than the worker

ASSUME ImportAssumption ==
  /\ MaxRetries \in Nat /\ MaxArtifacts \in Nat /\ MaxImports \in Nat
  /\ MaxCrashes \in Nat /\ MaxByHand \in Nat

VARIABLES
  artifacts,    \* ImportArtifactRecords, with the upload that awaits the scan
  importJobs,   \* ImportJobRecords in creation order
  payloads,     \* what was dispatched: in the queue, in the worker's hands, done
  crashes,      \* crashes of the worker so far
  up,           \* is the worker running?
  astray,       \* history: jobs that wait, by somebody else's doing, undispatched
  byHand        \* calls of transitionJobStatus by others so far

importVars == <<artifacts, importJobs, payloads, crashes, up, astray, byHand>>

UploadStatus == {"pending", "stored", "rejected", "scan-failed"}

JobStatus == {"pending", "processing", "staged", "failed", "completed"}

JobTransitions ==
  [pending    |-> {"processing", "failed"},
   processing |-> {"staged", "failed"},
   staged     |-> {"completed", "failed"},
   failed     |-> {"pending"},
   completed  |-> {}]

Artifact  == [status: UploadStatus, scanning: BOOLEAN, exists: BOOLEAN]
ImportJob == [artifact: Nat, status: JobStatus, retries: Nat]
Payload   == [job: Nat, resumed: BOOLEAN, at: {"queue", "worker", "done"}]

ImportInit ==
  /\ artifacts = << >> /\ importJobs = << >> /\ payloads = << >>
  /\ crashes = 0 /\ up = TRUE /\ astray = {} /\ byHand = 0

Dispatch(j) == payloads' = Append(payloads, [job |-> j, resumed |-> FALSE, at |-> "queue"])

SetStatus(j, status) == importJobs' = [importJobs EXCEPT ![j].status = status]

JobsOf(a) == {j \in DOMAIN importJobs : importJobs[j].artifact = a}

(* findByArtifactId: the first job of the artifact.                        *)
IsFirstJob(a, j) == j \in JobsOf(a) /\ \A i \in JobsOf(a) : j <= i

IsActive(j) == importJobs[j].status \notin {"completed", "failed"}

(* No active job, as far as createImportJob and deleteArtifact look.       *)
IsIdle(a) == \A j \in JobsOf(a) : IsFirstJob(a, j) => ~IsActive(j)

CreateImportJob(a) ==
  /\ IsIdle(a) /\ Len(importJobs) < MaxImports
  /\ importJobs' = Append(importJobs, [artifact |-> a, status |-> "pending",
                                       retries |-> 0])

-----------------------------------------------------------------------------
(* Uploads.                                                                *)

UploadArtifact ==
  /\ Len(artifacts) < MaxArtifacts
  /\ artifacts' = Append(artifacts, [status |-> "pending", scanning |-> TRUE,
                                     exists |-> TRUE])
  /\ UNCHANGED <<importJobs, payloads, crashes, up, astray, byHand>>

(* updateStatus does nothing to a record that was deleted meanwhile.       *)
ScanEnds(a, status) ==
  /\ artifacts[a].scanning
  /\ artifacts' = [artifacts EXCEPT ![a].scanning = FALSE,
                     ![a].status = IF artifacts[a].exists THEN status ELSE @]

(* Infected, or the scanner failed.                                        *)
ScanRefuses(a) ==
  /\ \E status \in {"rejected", "scan-failed"} : ScanEnds(a, status)
  /\ UNCHANGED <<importJobs, payloads, crashes, up, astray, byHand>>

(* Clean, or skipped for want of a scanner; the job is made and dispatched
   whether or not the artifact is still there.                             *)
ScanPasses(a) ==
  /\ ScanEnds(a, "stored")
  /\ CreateImportJob(a)
  /\ Dispatch(Len(importJobs) + 1)
  /\ UNCHANGED <<crashes, up, astray, byHand>>

(* createImportJob by anybody else, who then dispatches the job or does not.
   Nobody asks whether the artifact is there, let alone scanned.           *)
Reimport(a) ==
  /\ CreateImportJob(a)
  /\ \/ Dispatch(Len(importJobs) + 1) /\ UNCHANGED astray
     \/ astray' = astray \cup {Len(importJobs) + 1} /\ UNCHANGED payloads
  /\ UNCHANGED <<artifacts, crashes, up, byHand>>

DeleteArtifact(a) ==
  /\ artifacts[a].exists /\ IsIdle(a)
  /\ artifacts' = [artifacts EXCEPT ![a].exists = FALSE]
  /\ UNCHANGED <<importJobs, payloads, crashes, up, astray, byHand>>

-----------------------------------------------------------------------------
(* Jobs.                                                                   *)

CanBecome(j, status) == status \in JobTransitions[importJobs[j].status]

(* transitionJobStatus by anybody: along the table, whether there is output or
   not, and nothing is dispatched for a job that is to wait or to be processed. *)
TransitionJobStatus(j, status) ==
  /\ CanBecome(j, status)
  /\ SetStatus(j, status)
  /\ astray' = IF status \in {"pending", "processing"} THEN astray \cup {j} ELSE astray
  /\ byHand < MaxByHand /\ byHand' = byHand + 1
  /\ UNCHANGED <<artifacts, payloads, crashes, up>>

(* Mutant: the retry is counted but not dispatched.                        *)
RetryJob_NoDispatch(j) ==
  /\ importJobs[j].status = "failed" /\ importJobs[j].retries < MaxRetries
  /\ importJobs' = [importJobs EXCEPT ![j].status = "pending", ![j].retries = @ + 1]
  /\ astray' = astray \ {j}
  /\ UNCHANGED <<artifacts, payloads, crashes, up, byHand>>

(* The status is written before the artifact is looked up: when that is gone
   the call throws and leaves the job pending.                             *)
RetryJob(j) ==
  /\ importJobs[j].status = "failed" /\ importJobs[j].retries < MaxRetries
  /\ importJobs' = [importJobs EXCEPT ![j].status = "pending", ![j].retries = @ + 1]
  /\ astray' = astray \ {j}
  /\ IF artifacts[importJobs[j].artifact].exists
       THEN Dispatch(j) ELSE UNCHANGED payloads
  /\ UNCHANGED <<artifacts, crashes, up, byHand>>

-----------------------------------------------------------------------------
(* The worker.                                                             *)

MovePayload(p, place) == payloads' = [payloads EXCEPT ![p].at = place]

(* A resumed payload continues a job that is processing already.           *)
MayStart(p) == LET j == payloads[p].job IN
  CanBecome(j, "processing") \/ (payloads[p].resumed /\ importJobs[j].status = "processing")

StartJob(p) ==
  /\ up /\ payloads[p].at = "queue" /\ MayStart(p)
  /\ SetStatus(payloads[p].job, "processing")
  /\ MovePayload(p, "worker")
  /\ UNCHANGED <<artifacts, crashes, up, astray, byHand>>

DropPayload(p) ==
  /\ up /\ payloads[p].at = "queue" /\ ~MayStart(p)
  /\ MovePayload(p, "done")
  /\ UNCHANGED <<artifacts, importJobs, crashes, up, astray, byHand>>

(* setStagedOutput: nobody looks at the output itself, and output that comes
   too late is refused.                                                    *)
StageOutput(p) == LET j == payloads[p].job IN
  /\ payloads[p].at = "worker"
  /\ MovePayload(p, "done")
  /\ importJobs' = IF importJobs[j].status \in {"processing", "staged"}
       THEN [importJobs EXCEPT ![j].status = "staged"]
       ELSE importJobs
  /\ UNCHANGED <<artifacts, crashes, up, astray, byHand>>

FailJob(p) == LET j == payloads[p].job IN
  /\ payloads[p].at = "worker"
  /\ MovePayload(p, "done")
  /\ IF CanBecome(j, "failed") THEN SetStatus(j, "failed") ELSE UNCHANGED importJobs
  /\ UNCHANGED <<artifacts, crashes, up, astray, byHand>>

WorkerCrashes ==
  /\ up /\ crashes < MaxCrashes
  /\ up' = FALSE /\ crashes' = crashes + 1
  /\ payloads' = [p \in DOMAIN payloads |->
       IF payloads[p].at = "worker" THEN [payloads[p] EXCEPT !.at = "done"] ELSE payloads[p]]
  /\ UNCHANGED <<artifacts, importJobs, astray, byHand>>

(* listResumableJobs: "in-progress before a worker restart", except those whose
   artifact, without which nothing can be dispatched, is gone.             *)
Resumable(j) ==
  importJobs[j].status = "processing" /\ artifacts[importJobs[j].artifact].exists

(* Mutant: the interrupted jobs are not looked for.                        *)
WorkerRestarts_Forgets ==
  /\ ~up /\ up' = TRUE
  /\ UNCHANGED <<artifacts, importJobs, payloads, crashes, astray, byHand>>

(* They are dispatched in the order in which they were created.            *)
WorkerRestarts ==
  LET interrupted == {j \in DOMAIN importJobs : Resumable(j)} IN
  /\ ~up /\ up' = TRUE
  /\ \E order \in [1..Cardinality(interrupted) -> interrupted] :
       /\ \A j \in interrupted : \E i \in DOMAIN order : order[i] = j
       /\ \A i, k \in DOMAIN order : i < k => order[i] < order[k]
       /\ payloads' = payloads \o
            [i \in DOMAIN order |-> [job |-> order[i], resumed |-> TRUE, at |-> "queue"]]
  /\ astray' = astray \ interrupted
  /\ UNCHANGED <<artifacts, importJobs, crashes, byHand>>

-----------------------------------------------------------------------------
ImportNext ==
  \/ UploadArtifact
  \/ \E a \in DOMAIN artifacts :
       ScanRefuses(a) \/ ScanPasses(a) \/ Reimport(a) \/ DeleteArtifact(a)
  \/ \E j \in DOMAIN importJobs :
       \/ \E status \in JobStatus : TransitionJobStatus(j, status)
       \/ RetryJob(j)
  \/ \E p \in DOMAIN payloads :
       StartJob(p) \/ DropPayload(p) \/ StageOutput(p) \/ FailJob(p)
  \/ WorkerCrashes
  \/ WorkerRestarts

FairImports ==
  /\ WF_importVars(WorkerRestarts)
  /\ WF_importVars(\E p \in DOMAIN payloads :
       StartJob(p) \/ DropPayload(p) \/ StageOutput(p) \/ FailJob(p))

ImportSpec == ImportInit /\ [][ImportNext]_importVars

-----------------------------------------------------------------------------
(* Properties.                                                             *)

ImportTypeOK ==
  /\ artifacts \in Seq(Artifact)
  /\ importJobs \in Seq(ImportJob)
  /\ \A j \in DOMAIN importJobs : importJobs[j].artifact \in DOMAIN artifacts
  /\ payloads \in Seq(Payload)
  /\ \A p \in DOMAIN payloads : payloads[p].job \in DOMAIN importJobs
  /\ crashes \in 0..MaxCrashes /\ up \in BOOLEAN
  /\ astray \subseteq DOMAIN importJobs /\ byHand \in 0..MaxByHand

ArtifactOf(j) == artifacts[importJobs[j].artifact]

HasPayload(j, places) ==
  \E p \in DOMAIN payloads : payloads[p].job = j /\ payloads[p].at \in places

(* Through retries, late results, crashes and restarts no job is lost that
   nobody took into their own hands: pending, it is in the queue; processing,
   the worker has it, will get it again, or is down.  There are two ways to
   lose one, and both need its artifact to be deleted: retryJob finds it gone
   when the status is written already, and so does the restart.            *)
NoImportIsLost ==
  \A j \in DOMAIN importJobs \ astray :
    LET gone == ~ArtifactOf(j).exists IN
    /\ importJobs[j].status = "pending" =>
         HasPayload(j, {"queue"}) \/ (gone /\ importJobs[j].retries > 0)
    /\ importJobs[j].status = "processing" =>
         ~up \/ HasPayload(j, {"queue", "worker"}) \/ (gone /\ crashes > 0)

(* "Check that no active job references this artifact"                     *)
ActiveJobsHaveArtifacts ==
  \A j \in DOMAIN importJobs : IsActive(j) => ArtifactOf(j).exists

(* What was dispatched is brought to an end, unless its artifact is deleted or
   somebody sets it back by hand: neither crashes nor refused reports of other
   attempts leave it hanging.                                              *)
IsUnderWay(j) ==
  /\ j \in DOMAIN importJobs /\ importJobs[j].status \in {"pending", "processing"}
  /\ ArtifactOf(j).exists /\ j \notin astray

ImportsEnd == \A j \in 1..MaxImports : IsUnderWay(j) ~> ~IsUnderWay(j)
=============================================================================
