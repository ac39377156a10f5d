----------------------------- MODULE ExportJobs -----------------------------
(***************************************************************************)
(* Asynchronous exports (internal/registry/exports.go): a row per job, a   *)
(* channel of closures, and a pool of workers that build a file, upload it *)
(* and update the row. A client learns of the outcome by polling Get,      *)
(* which declares a job dead that is unfinished after exportJobStaleAfter. *)
(* The channel is in memory only: a restart loses it. The UPDATEs go by id *)
(* and look at no status, and Get reads the row in one statement and       *)
(* writes it in another.                                                   *)
(*                                                                         *)
(* What a file holds, who may see it and the order of blocked senders are  *)
(* left out. The object store is external.                                 *)
(***************************************************************************)
EXTENDS Naturals, Sequences, SequencesExt

CONSTANTS
  Job,
  Worker,     \* 4 in the code
  QueueSize,  \* 100 in the code
  MaxFaults,  \* failing builds, uploads and statements, and restarts
  None        \* no job

ASSUME ExportJobsAssumption ==
  /\ QueueSize \in Nat \ {0}
  /\ MaxFaults \in Nat
  /\ None \notin Job

VARIABLES
  storage,   \* the object store is configured
  status,    \* export_jobs.status; "none": no row yet
  result,    \* export_jobs.result_key is set
  stored,    \* jobs whose file is in the object store
  old,       \* created more than exportJobStaleAfter ago
  sending,   \* requests at e.jobs <-
  jobs,      \* the channel
  worker,    \* the job each worker runs, and how far it is
  judged,    \* jobs that a poll read as stale and is about to mark
  faults,    \* how many so far
  excused    \* jobs one of whose own steps failed, or that a restart lost

vars == <<storage, status, result, stored, old, sending, jobs, worker, judged, faults, excused>>

Idle == [pc |-> "idle", job |-> None]
Open == {"pending", "running"}
Closed == {"completed", "failed"}

Init ==
  /\ storage \in BOOLEAN
  /\ status = [j \in Job |-> "none"]
  /\ result = [j \in Job |-> FALSE]
  /\ stored = {}
  /\ old = {}
  /\ sending = {}
  /\ jobs = <<>>
  /\ worker = [w \in Worker |-> Idle]
  /\ judged = {}
  /\ faults = 0
  /\ excused = {}

(* A step of the jobs in J fails.                                            *)
Fault(J) ==
  /\ faults < MaxFaults
  /\ faults' = faults + 1
  /\ excused' = excused \cup J

Fine == UNCHANGED <<faults, excused>>

-----------------------------------------------------------------------------
(* Create: the row, then the channel, which may be full.                    *)

(* An INSERT whose answer is lost leaves a row that nothing will run.        *)
Create(j) ==
  /\ status[j] = "none"
  /\ status' = [status EXCEPT ![j] = "pending"]
  /\ \/ sending' = sending \cup {j} /\ Fine
     \/ UNCHANGED sending /\ Fault({j})
  /\ UNCHANGED <<storage, result, stored, old, jobs, worker, judged>>

Enqueue(j) ==
  /\ j \in sending
  /\ Len(jobs) < QueueSize
  /\ sending' = sending \ {j}
  /\ jobs' = Append(jobs, j)
  /\ UNCHANGED <<storage, status, result, stored, old, worker, judged, faults, excused>>

-----------------------------------------------------------------------------
(* run, in a worker.                                                        *)

Goto(w, pc) == worker' = [worker EXCEPT ![w].pc = pc]
Finish(w) == worker' = [worker EXCEPT ![w] = Idle]
Become(j, s) == status' = [status EXCEPT ![j] = s]

\* Mutant: a job stays in the channel until it is done, and another worker sees it.
TakePeek(w) ==
  /\ worker[w] = Idle
  /\ jobs # <<>>
  /\ worker' = [worker EXCEPT ![w] = [pc |-> "start", job |-> Head(jobs)]]
  /\ UNCHANGED <<storage, status, result, stored, old, sending, jobs, judged, faults, excused>>

Take(w) ==
  /\ worker[w] = Idle
  /\ jobs # <<>>
  /\ worker' = [worker EXCEPT ![w] = [pc |-> "start", job |-> Head(jobs)]]
  /\ jobs' = Tail(jobs)
  /\ UNCHANGED <<storage, status, result, stored, old, sending, judged, faults, excused>>

(* No storage is a failure; so is nothing done if the row cannot be marked   *)
(* running: run returns and leaves it as it is.                              *)
Start(w) ==
  LET j == worker[w].job IN
  /\ worker[w].pc = "start"
  /\ \/ ~storage /\ Goto(w, "fail") /\ Fine /\ UNCHANGED status
     \/ storage /\ Goto(w, "build") /\ Fine /\ Become(j, "running")
     \/ storage /\ Finish(w) /\ Fault({j}) /\ (Become(j, "running") \/ UNCHANGED status)
  /\ UNCHANGED <<storage, result, stored, old, sending, jobs, judged>>

Build(w) ==
  /\ worker[w].pc = "build"
  /\ \/ Goto(w, "upload") /\ Fine
     \/ Goto(w, "fail") /\ Fault({worker[w].job})
  /\ UNCHANGED <<storage, status, result, stored, old, sending, jobs, judged>>

\* Mutant: an upload's error is not looked at.
UploadUnchecked(w) ==
  LET j == worker[w].job IN
  /\ worker[w].pc = "upload"
  /\ Goto(w, "complete")
  /\ \/ Fine /\ stored' = stored \cup {j}
     \/ Fault({j}) /\ UNCHANGED stored
  /\ UNCHANGED <<storage, status, result, old, sending, jobs, judged>>

Upload(w) ==
  LET j == worker[w].job IN
  /\ worker[w].pc = "upload"
  /\ \/ Goto(w, "complete") /\ Fine /\ stored' = stored \cup {j}
     \/ Goto(w, "fail") /\ Fault({j}) /\ (stored' = stored \cup {j} \/ UNCHANGED stored)
  /\ UNCHANGED <<storage, status, result, old, sending, jobs, judged>>

(* MarkExportJobCompleted; its failure is logged.                            *)
Complete(w) ==
  LET j == worker[w].job IN
  /\ worker[w].pc = "complete"
  /\ Finish(w)
  /\ \/ Become(j, "completed") /\ result' = [result EXCEPT ![j] = TRUE] /\ (Fine \/ Fault({j}))
     \/ UNCHANGED <<status, result>> /\ Fault({j})
  /\ UNCHANGED <<storage, stored, old, sending, jobs, judged>>

(* MarkExportJobFailed; its failure is logged.                               *)
Fail(w) ==
  LET j == worker[w].job IN
  /\ worker[w].pc = "fail"
  /\ Finish(w)
  /\ \/ Become(j, "failed") /\ (Fine \/ Fault({j}))
     \/ UNCHANGED status /\ Fault({j})
  /\ UNCHANGED <<storage, result, stored, old, sending, jobs, judged>>

-----------------------------------------------------------------------------
(* Get, in a poll. A job is polled by the one client that wants it, one      *)
(* request at a time.                                                        *)

Stale(j) == status[j] \in Open /\ j \in old

Judge(j) ==
  /\ j \notin judged
  /\ Stale(j)
  /\ judged' = judged \cup {j}
  /\ UNCHANGED <<storage, status, result, stored, old, sending, jobs, worker, faults, excused>>

\* Mutant: the poll answers "failed" and leaves the row as it is.
HealNot(j) ==
  /\ j \in judged
  /\ judged' = judged \ {j}
  /\ UNCHANGED <<storage, status, result, stored, old, sending, jobs, worker, faults, excused>>

(* Marked failed, whatever has become of it meanwhile; an error is ignored.  *)
Heal(j) ==
  /\ j \in judged
  /\ judged' = judged \ {j}
  /\ \/ Become(j, "failed") /\ (Fine \/ Fault({j}))
     \/ UNCHANGED status /\ Fault({j})
  /\ UNCHANGED <<storage, result, stored, old, sending, jobs, worker>>

-----------------------------------------------------------------------------
TimePasses(j) ==
  /\ status[j] \in Open
  /\ j \notin old
  /\ old' = old \cup {j}
  /\ UNCHANGED <<storage, status, result, stored, sending, jobs, worker, judged, faults, excused>>

InMemory ==
  sending \cup ToSet(jobs) \cup {worker[w].job : w \in {v \in Worker : worker[v] # Idle}}

(* The process ends and another starts. Rows and files stay.                 *)
Restart ==
  /\ Fault(InMemory)
  /\ sending' = {}
  /\ jobs' = <<>>
  /\ worker' = [w \in Worker |-> Idle]
  /\ judged' = {}
  /\ UNCHANGED <<storage, status, result, stored, old>>

Poll(j) == Judge(j) \/ Heal(j)

Run(w) == Take(w) \/ Start(w) \/ Build(w) \/ Upload(w) \/ Complete(w) \/ Fail(w)

Next ==
  \/ \E j \in Job : Create(j) \/ Enqueue(j) \/ Poll(j) \/ TimePasses(j)
  \/ \E w \in Worker : Run(w)
  \/ Restart

Spec == Init /\ [][Next]_vars

(* Workers and blocked senders run on, time passes, and the client that wants *)
(* a job's outcome polls until it has one: Get alone finds a lost job.       *)
FairSpec ==
  /\ Spec
  /\ \A j \in Job : WF_vars(Enqueue(j)) /\ WF_vars(Poll(j)) /\ WF_vars(TimePasses(j))
  /\ \A w \in Worker : WF_vars(Run(w))

-----------------------------------------------------------------------------
TypeOK ==
  /\ storage \in BOOLEAN
  /\ status \in [Job -> Open \cup Closed \cup {"none"}]
  /\ result \in [Job -> BOOLEAN]
  /\ stored \in SUBSET Job
  /\ old \in SUBSET Job
  /\ sending \in SUBSET Job
  /\ jobs \in Seq(Job) /\ Len(jobs) <= QueueSize
  /\ worker \in [Worker -> [pc : {"start", "build", "upload", "complete", "fail"}, job : Job]
                           \cup {Idle}]
  /\ judged \in SUBSET Job
  /\ faults \in 0..MaxFaults
  /\ excused \in SUBSET Job

(* A job said to be completed has a file to download, whatever failed.       *)
CompletedHasFile == \A j \in Job : status[j] = "completed" => result[j] /\ j \in stored

(* Nobody is told that an export failed for no reason: either no store is    *)
(* configured, or a step of that job failed or was lost, or it took too long. *)
FailedHasReason ==
  \A j \in Job : status[j] = "failed" => ~storage \/ j \in excused \/ j \in old

(* What the client of a job that ends in time is told stays true: only a job *)
(* older than exportJobStaleAfter changes its outcome.                       *)
YoungOutcomeIsFinal ==
  [][\A j \in Job : status[j] \in Closed /\ j \notin old => status'[j] = status[j]]_vars

(* Every job comes to an outcome that stays, however many wait for a worker, *)
(* and whatever a restart loses.                                             *)
EveryJobEnds ==
  \A j \in Job : (status[j] # "none") ~> [](status[j] \in Closed)

=============================================================================
