-------------------------- MODULE ExportJobs_proofs --------------------------
(***************************************************************************)
(* Proofs about ExportJobs for every number of jobs, workers, failures and *)
(* restarts, and every size of the channel.                                *)
(***************************************************************************)
EXTENDS ExportJobs, SequenceTheorems, TLAPS

USE ExportJobsAssumption

Task == [pc : {"start", "build", "upload", "complete", "fail"}, job : Job]

(* No job is twice in the channel, ...                                       *)
Distinct == \A i, k \in 1..Len(jobs) : jobs[i] = jobs[k] => i = k

(* ... or in two places.                                                     *)
OnePlace ==
  /\ sending \cap ToSet(jobs) = {}
  /\ \A w \in Worker : worker[w] # Idle =>
       /\ worker[w].job \notin sending \cup ToSet(jobs)
       /\ \A v \in Worker \ {w} : worker[v].job # worker[w].job

(* A job in memory has a row, which says so as long as no poll may doubt it. *)
Unfinished(j) == status[j] # "none" /\ (j \notin old => status[j] \in Open)

Held == \A j \in InMemory : Unfinished(j)

Reason(j) == ~storage \/ j \in excused \/ j \in old

(* What a worker that is about to report has to show.                        *)
Ready(w) ==
  /\ worker[w].pc = "complete" => worker[w].job \in stored
  /\ worker[w].pc = "fail" => Reason(worker[w].job)

IInv ==
  /\ TypeOK
  /\ Distinct
  /\ OnePlace
  /\ Held
  /\ judged \subseteq old
  /\ \A w \in Worker : Ready(w)
  /\ CompletedHasFile
  /\ FailedHasReason

-----------------------------------------------------------------------------
(* What the channel holds.                                                  *)

LEMMA EmptyChannel == ToSet(<<>>) = {}
  BY DEF ToSet

LEMMA SentToChannel ==
  ASSUME NEW s \in Seq(Job), NEW j \in Job
  PROVE  /\ Append(s, j) \in Seq(Job)
         /\ ToSet(Append(s, j)) = ToSet(s) \cup {j}
  <1>1. /\ Append(s, j) \in Seq(Job)
        /\ Len(Append(s, j)) = Len(s) + 1
        /\ \A i \in 1..Len(s) : Append(s, j)[i] = s[i]
        /\ Append(s, j)[Len(s) + 1] = j
    BY AppendProperties
  <1>2. ToSet(s) = {s[i] : i \in 1..Len(s)}
    BY DEF ToSet
  <1>3. ToSet(Append(s, j)) = {Append(s, j)[i] : i \in 1..Len(s) + 1}
    BY <1>1 DEF ToSet
  <1>4. Len(s) \in Nat
    OBVIOUS
  <1>. QED
    BY <1>1, <1>2, <1>3, <1>4

LEMMA TakenFromChannel ==
  ASSUME NEW s \in Seq(Job), s # <<>>,
         \A i, k \in 1..Len(s) : s[i] = s[k] => i = k
  PROVE  /\ Head(s) \in Job /\ Tail(s) \in Seq(Job)
         /\ Head(s) \in ToSet(s)
         /\ ToSet(Tail(s)) = ToSet(s) \ {Head(s)}
         /\ \A i, k \in 1..Len(Tail(s)) : Tail(s)[i] = Tail(s)[k] => i = k
  <1>1. /\ Head(s) \in Job /\ Tail(s) \in Seq(Job)
        /\ Len(Tail(s)) = Len(s) - 1
        /\ \A i \in 1..Len(Tail(s)) : Tail(s)[i] = s[i + 1]
    BY HeadTailProperties
  <1>2. Head(s) = s[1] /\ Len(s) \in Nat \ {0}
    BY EmptySeq
  <1>3. \A e : e \in ToSet(s) <=> \E i \in 1..Len(s) : e = s[i]
    BY DEF ToSet
  <1>4. \A e : e \in ToSet(Tail(s)) <=> \E i \in 1..Len(s) - 1 : e = s[i + 1]
    <2>. DEFINE t == Tail(s)
    <2>1. DOMAIN t = 1..Len(s) - 1 /\ \A i \in 1..Len(s) - 1 : t[i] = s[i + 1]
      BY <1>1
    <2>. HIDE DEF t
    <2>2. \A e : e \in ToSet(t) <=> \E i \in DOMAIN t : e = t[i]
      BY DEF ToSet
    <2>3. ASSUME NEW e
          PROVE  (\E i \in DOMAIN t : e = t[i]) <=> \E i \in 1..Len(s) - 1 : e = s[i + 1]
      BY <2>1
    <2>. QED
      BY <2>2, <2>3 DEF t
  <1>5. ASSUME NEW e
        PROVE  e \in ToSet(s) \ {s[1]} <=> \E i \in 1..Len(s) - 1 : e = s[i + 1]
    <2>1. ASSUME NEW i \in 1..Len(s), s[i] # s[1]
          PROVE  \E k \in 1..Len(s) - 1 : s[i] = s[k + 1]
      <3>1. i - 1 \in 1..Len(s) - 1 /\ (i - 1) + 1 = i
        BY <1>2, <2>1
      <3>. QED
        BY <3>1
    <2>2. ASSUME NEW k \in 1..Len(s) - 1
          PROVE  k + 1 \in 1..Len(s) /\ s[k + 1] # s[1]
      BY <1>2
    <2>. QED
      BY <1>3, <2>1, <2>2
  <1>6. Head(s) \in ToSet(s)
    BY <1>2, <1>3
  <1>7. \A i, k \in 1..Len(Tail(s)) : Tail(s)[i] = Tail(s)[k] => i = k
    BY <1>1, <1>2
  <1>. QED
    BY <1>1, <1>2, <1>4, <1>5, <1>6, <1>7

-----------------------------------------------------------------------------
LEMMA InvInit == Init => IInv
  <1>. SUFFICES ASSUME Init PROVE IInv
    OBVIOUS
  <1>1. jobs = <<>> /\ Len(jobs) = 0 /\ jobs \in Seq(Job) /\ ToSet(jobs) = {}
    BY EmptySeq, EmptyChannel DEF Init
  <1>2. TypeOK
    BY <1>1 DEF Init, TypeOK, Idle
  <1>3. Distinct
    BY <1>1 DEF Distinct
  <1>4. OnePlace /\ Held
    BY <1>1 DEF Init, OnePlace, Held, InMemory
  <1>5. judged \subseteq old /\ \A w \in Worker : Ready(w)
    BY DEF Init, Ready, Idle
  <1>6. CompletedHasFile /\ FailedHasReason
    BY DEF Init, CompletedHasFile, FailedHasReason
  <1>. QED
    BY <1>2, <1>3, <1>4, <1>5, <1>6 DEF IInv

LEMMA FaultType ==
  ASSUME TypeOK, NEW J \in SUBSET Job, Fine \/ Fault(J)
  PROVE  faults' \in 0..MaxFaults /\ excused' \subseteq Job /\ excused \subseteq excused'
  BY DEF TypeOK, Fine, Fault

(* The job of a worker.                                                      *)
LEMMA TaskType ==
  ASSUME IInv, NEW w \in Worker, worker[w] # Idle
  PROVE  /\ worker[w] \in Task
         /\ worker[w].job \in Job
         /\ worker[w].job \in InMemory
         /\ Unfinished(worker[w].job)
  <1>1. worker[w] \in Task
    BY DEF IInv, TypeOK, Task
  <1>2. worker[w].job \in InMemory
    BY DEF InMemory
  <1>. QED
    BY <1>1, <1>2 DEF Task, IInv, Held

(* The steps of a worker that has a job: only that job's row and file change, *)
(* and no outcome is told without its file or its reason.                    *)
Working(w, j) ==
  /\ worker[w] # Idle /\ worker[w].job = j
  /\ UNCHANGED <<storage, old, sending, jobs, judged>>
  /\ worker' = [worker EXCEPT ![w] = worker'[w]]
  /\ worker'[w] = Idle \/ (worker'[w] \in Task /\ worker'[w].job = j /\ Unfinished(j)')
  /\ Ready(w)'
  /\ status' \in [Job -> Open \cup Closed \cup {"none"}]
  /\ result' \in [Job -> BOOLEAN]
  /\ \A i \in Job \ {j} : status'[i] = status[i] /\ result'[i] = result[i]
  /\ status'[j] = "completed" => result'[j] /\ j \in stored'
  /\ status'[j] = "failed" => Reason(j)'
  /\ stored \subseteq stored' /\ stored' \subseteq Job
  /\ faults' \in 0..MaxFaults
  /\ excused \subseteq excused' /\ excused' \subseteq Job

LEMMA WorkingKeeps ==
  ASSUME IInv, NEW w \in Worker, NEW j \in Job, Working(w, j)
  PROVE  IInv'
  <1>. USE DEF IInv
  <1>0. Idle.job = None /\ Idle.pc = "idle"
    BY DEF Idle
  <1>1. \A v \in Worker \ {w} : worker'[v] = worker[v]
    BY DEF Working, TypeOK
  <1>2. TypeOK'
    BY DEF Working, TypeOK, Task
  <1>3. Distinct'
    BY DEF Working, Distinct
  <1>4. \A v \in Worker : worker'[v] # Idle => worker[v] # Idle /\ worker'[v].job = worker[v].job
    BY <1>1 DEF Working
  <1>5. OnePlace'
    <2>. SUFFICES ASSUME NEW v \in Worker, worker'[v] # Idle, NEW u \in Worker \ {v}
                  PROVE  worker'[v].job \notin sending \cup ToSet(jobs) /\ worker'[u].job # worker'[v].job
      BY <1>4 DEF OnePlace, Working
    <2>1. worker[v] # Idle /\ worker'[v].job = worker[v].job /\ worker'[v].job \in Job
      BY <1>4, TaskType
    <2>2. worker'[u].job \in {worker[u].job, None}
      BY <1>0, <1>1 DEF Working
    <2>. QED
      BY <2>1, <2>2 DEF OnePlace
  <1>6. Held'
    <2>. SUFFICES ASSUME NEW i \in InMemory' PROVE Unfinished(i)'
      BY DEF Held
    <2>1. CASE i = j
      <3>1. i \notin sending' \cup ToSet(jobs')
        BY <2>1 DEF OnePlace, Working
      <3>2. PICK v \in Worker : worker'[v] # Idle /\ i = worker'[v].job
        BY <3>1 DEF InMemory
      <3>3. worker[w] # Idle /\ worker[v].job = worker[w].job
        BY <1>4, <2>1, <3>2 DEF Working
      <3>4. v = w
        BY <3>3 DEF OnePlace
      <3>. QED
        BY <2>1, <3>2, <3>4 DEF Working
    <2>2. CASE i # j
      <3>1. i \in InMemory
        BY <1>4 DEF InMemory, Working
      <3>2. i \in Job
        BY <3>1, TaskType DEF InMemory, TypeOK, ToSet
      <3>. QED
        BY <2>2, <3>1, <3>2 DEF Held, Unfinished, Working
    <2>. QED
      BY <2>1, <2>2
  <1>7. judged' \subseteq old'
    BY DEF Working
  <1>8. ASSUME NEW v \in Worker PROVE Ready(v)'
    BY <1>1 DEF Ready, Reason, Working
  <1>9. CompletedHasFile'
    BY DEF CompletedHasFile, Working
  <1>10. FailedHasReason'
    BY DEF FailedHasReason, Reason, Working
  <1>. QED
    BY <1>2, <1>3, <1>5, <1>6, <1>7, <1>8, <1>9, <1>10

LEMMA StartWorks ==
  ASSUME IInv, NEW w \in Worker, Start(w)
  PROVE  \E j \in Job : Working(w, j)
  <1>. USE DEF IInv
  <1>1. worker[w].pc = "start" /\ worker[w] # Idle
    BY DEF Start, Idle
  <1>. PICK j \in Job : j = worker[w].job
    BY <1>1, TaskType
  <1>2. worker[w] \in Task /\ Unfinished(j)
    BY <1>1, TaskType
  <1>3. UNCHANGED <<storage, result, stored, old, sending, jobs, judged>>
    BY DEF Start
  <1>4. /\ faults' \in 0..MaxFaults
        /\ excused \subseteq excused' /\ excused' \subseteq Job
    BY <1>2, FaultType DEF Start
  <1>5. \/ worker' = [worker EXCEPT ![w].pc = "fail"] /\ ~storage /\ status' = status
        \/ worker' = [worker EXCEPT ![w].pc = "build"] /\ status' = [status EXCEPT ![j] = "running"]
        \/ /\ worker' = [worker EXCEPT ![w] = Idle]
           /\ status' = [status EXCEPT ![j] = "running"] \/ status' = status
    BY DEF Start, Goto, Finish, Become
  <1>6. \/ worker'[w] = Idle
        \/ /\ worker'[w] \in Task /\ worker'[w].job = j
           /\ worker'[w].pc \in {"fail", "build"} /\ (worker'[w].pc = "fail" => ~storage)
    BY <1>2, <1>5 DEF TypeOK, Task
  <1>7. worker' = [worker EXCEPT ![w] = worker'[w]]
    BY <1>5 DEF TypeOK
  <1>8. Ready(w)'
    BY <1>3, <1>6 DEF Ready, Reason, Idle
  <1>9. /\ status' \in [Job -> Open \cup Closed \cup {"none"}]
        /\ \A i \in Job \ {j} : status'[i] = status[i]
        /\ status'[j] \in {status[j], "running"}
    BY <1>2, <1>5 DEF TypeOK, Open
  <1>10. Unfinished(j)'
    BY <1>2, <1>3, <1>9 DEF Unfinished, Open
  <1>11. status'[j] = "completed" => result'[j] /\ j \in stored'
    BY <1>2, <1>3, <1>9 DEF CompletedHasFile
  <1>12. status'[j] = "failed" => Reason(j)'
    BY <1>2, <1>3, <1>4, <1>9 DEF FailedHasReason, Reason
  <1>. QED
    <2>1. Working(w, j)
      BY <1>1, <1>3, <1>4, <1>6, <1>7, <1>8, <1>9, <1>10, <1>11, <1>12 DEF Working, TypeOK
    <2>. QED
      BY <2>1

(* A step that leaves the job's row as it is, and moves on.                  *)
LEMMA StepWorks ==
  ASSUME IInv, NEW w \in Worker, worker[w] # Idle,
         UNCHANGED <<storage, status, result, old, sending, jobs, judged>>,
         NEW pc \in {"upload", "complete", "fail"}, Goto(w, pc),
         pc = "complete" => worker[w].job \in stored',
         pc = "fail" => worker[w].job \in excused',
         Fine \/ Fault({worker[w].job}),
         stored \subseteq stored', stored' \subseteq Job
  PROVE  \E j \in Job : Working(w, j)
  <1>. USE DEF IInv
  <1>. PICK j \in Job : j = worker[w].job
    BY TaskType
  <1>1. worker[w] \in Task /\ Unfinished(j)
    BY TaskType
  <1>2. /\ faults' \in 0..MaxFaults
        /\ excused \subseteq excused' /\ excused' \subseteq Job
    BY <1>1, FaultType
  <1>3. worker'[w] \in Task /\ worker'[w].job = j /\ worker'[w].pc = pc
    BY <1>1 DEF Goto, TypeOK, Task
  <1>4. worker' = [worker EXCEPT ![w] = worker'[w]]
    BY DEF Goto, TypeOK
  <1>5. Ready(w)'
    BY <1>3 DEF Ready, Reason
  <1>6. Unfinished(j)'
    BY <1>1 DEF Unfinished
  <1>7. status'[j] = "completed" => result'[j] /\ j \in stored'
    BY <1>1 DEF CompletedHasFile
  <1>8. status'[j] = "failed" => Reason(j)'
    BY <1>1, <1>2 DEF FailedHasReason, Reason
  <1>. QED
    <2>1. Working(w, j)
      BY <1>2, <1>3, <1>4, <1>5, <1>6, <1>7, <1>8 DEF Working, TypeOK
    <2>. QED
      BY <2>1

LEMMA BuildWorks ==
  ASSUME IInv, NEW w \in Worker, Build(w)
  PROVE  \E j \in Job : Working(w, j)
  <1>1. worker[w] # Idle /\ UNCHANGED <<storage, status, result, stored, old, sending, jobs, judged>>
    BY DEF Build, Idle
  <1>2. stored \subseteq Job
    BY DEF IInv, TypeOK
  <1>3. CASE Goto(w, "upload") /\ Fine
    BY <1>1, <1>2, <1>3, StepWorks
  <1>4. CASE Goto(w, "fail") /\ Fault({worker[w].job})
    <2>1. worker[w].job \in excused'
      BY <1>4 DEF Fault
    <2>. QED
      BY <1>1, <1>2, <1>4, <2>1, StepWorks
  <1>. QED
    BY <1>3, <1>4 DEF Build

LEMMA UploadWorks ==
  ASSUME IInv, NEW w \in Worker, Upload(w)
  PROVE  \E j \in Job : Working(w, j)
  <1>1. worker[w] # Idle /\ UNCHANGED <<storage, status, result, old, sending, jobs, judged>>
    BY DEF Upload, Idle
  <1>2. stored \subseteq stored' /\ stored' \subseteq Job
    BY <1>1, TaskType DEF Upload, IInv, TypeOK
  <1>3. CASE Goto(w, "complete") /\ Fine /\ stored' = stored \cup {worker[w].job}
    BY <1>1, <1>2, <1>3, StepWorks
  <1>4. CASE Goto(w, "fail") /\ Fault({worker[w].job})
    <2>1. worker[w].job \in excused'
      BY <1>4 DEF Fault
    <2>. QED
      BY <1>1, <1>2, <1>4, <2>1, StepWorks
  <1>. QED
    BY <1>3, <1>4 DEF Upload

(* A step that ends a job, its row updated with good reason or not at all.   *)
LEMMA EndWorks ==
  ASSUME IInv, NEW w \in Worker, worker[w] # Idle, Finish(w),
         UNCHANGED <<storage, stored, old, sending, jobs, judged>>,
         Fine \/ Fault({worker[w].job}),
         \/ UNCHANGED <<status, result>>
         \/ /\ Become(worker[w].job, "completed") /\ worker[w].job \in stored
            /\ result' = [result EXCEPT ![worker[w].job] = TRUE]
         \/ Become(worker[w].job, "failed") /\ Reason(worker[w].job) /\ UNCHANGED result
  PROVE  \E j \in Job : Working(w, j)
  <1>. USE DEF IInv
  <1>. PICK j \in Job : j = worker[w].job
    BY TaskType
  <1>2. /\ faults' \in 0..MaxFaults
        /\ excused \subseteq excused' /\ excused' \subseteq Job
    BY FaultType
  <1>3. worker'[w] = Idle /\ worker' = [worker EXCEPT ![w] = worker'[w]]
    BY DEF Finish, TypeOK
  <1>4. Ready(w)'
    BY <1>3 DEF Ready, Idle
  <1>5. /\ status' \in [Job -> Open \cup Closed \cup {"none"}]
        /\ result' \in [Job -> BOOLEAN]
        /\ \A i \in Job \ {j} : status'[i] = status[i] /\ result'[i] = result[i]
    BY DEF Become, TypeOK, Closed
  <1>6. status'[j] = "completed" => result'[j] /\ j \in stored'
    BY DEF Become, TypeOK, CompletedHasFile
  <1>7. status'[j] = "failed" => Reason(j)'
    BY <1>2 DEF Become, TypeOK, FailedHasReason, Reason
  <1>. QED
    <2>1. Working(w, j)
      BY <1>2, <1>3, <1>4, <1>5, <1>6, <1>7 DEF Working, TypeOK
    <2>. QED
      BY <2>1

LEMMA CompleteWorks ==
  ASSUME IInv, NEW w \in Worker, Complete(w)
  PROVE  \E j \in Job : Working(w, j)
  <1>1. worker[w] # Idle /\ worker[w].job \in stored
    BY DEF Complete, Idle, IInv, Ready
  <1>. QED
    BY <1>1, EndWorks DEF Complete

LEMMA FailWorks ==
  ASSUME IInv, NEW w \in Worker, Fail(w)
  PROVE  \E j \in Job : Working(w, j)
  <1>1. worker[w] # Idle /\ Reason(worker[w].job)
    BY DEF Fail, Idle, IInv, Ready
  <1>. QED
    BY <1>1, EndWorks DEF Fail

-----------------------------------------------------------------------------
(* A job that is about to get its row is not in memory.                      *)
LEMMA CreateKeeps ==
  ASSUME IInv, NEW j \in Job, Create(j)
  PROVE  IInv'
  <1>. USE DEF IInv
  <1>1. /\ status[j] = "none" /\ status' = [status EXCEPT ![j] = "pending"]
        /\ UNCHANGED <<storage, result, stored, old, jobs, worker, judged>>
        /\ sending' \in {sending, sending \cup {j}}
        /\ Fine \/ Fault({j})
    BY DEF Create
  <1>2. /\ faults' \in 0..MaxFaults
        /\ excused \subseteq excused' /\ excused' \subseteq Job
    BY <1>1, FaultType
  <1>3. j \notin InMemory
    BY <1>1 DEF Held, Unfinished
  <1>4. TypeOK'
    BY <1>1, <1>2 DEF TypeOK, Open
  <1>5. Distinct'
    BY <1>1 DEF Distinct
  <1>6. OnePlace'
    BY <1>1, <1>3 DEF OnePlace, InMemory
  <1>7. Held'
    <2>. SUFFICES ASSUME NEW i \in InMemory' PROVE Unfinished(i)'
      BY DEF Held
    <2>1. CASE i = j
      BY <1>1, <2>1 DEF Unfinished, TypeOK, Open
    <2>2. CASE i # j
      <3>1. i \in InMemory
        BY <1>1, <2>2 DEF InMemory
      <3>2. i \in Job
        BY <3>1, TaskType DEF InMemory, TypeOK, ToSet
      <3>. QED
        BY <1>1, <2>2, <3>1, <3>2 DEF Held, Unfinished, TypeOK
    <2>. QED
      BY <2>1, <2>2
  <1>8. judged' \subseteq old' /\ \A w \in Worker : Ready(w)'
    BY <1>1, <1>2 DEF Ready, Reason
  <1>9. CompletedHasFile' /\ FailedHasReason'
    BY <1>1, <1>2 DEF CompletedHasFile, FailedHasReason, TypeOK
  <1>. QED
    BY <1>4, <1>5, <1>6, <1>7, <1>8, <1>9

(* A step that touches no row and no file, and whatever is in memory was.    *)
LEMMA RowsRest ==
  ASSUME IInv, UNCHANGED <<storage, status, result, stored, old>>,
         excused \subseteq excused', InMemory' \subseteq InMemory
  PROVE  /\ Held'
         /\ CompletedHasFile'
         /\ FailedHasReason'
  BY DEF IInv, Held, Unfinished, CompletedHasFile, FailedHasReason

(* From a blocked sender to the end of the channel.                          *)
LEMMA EnqueueKeeps ==
  ASSUME IInv, NEW j \in Job, Enqueue(j)
  PROVE  IInv'
  <1>. USE DEF IInv
  <1>1. /\ j \in sending /\ Len(jobs) < QueueSize
        /\ sending' = sending \ {j} /\ jobs' = Append(jobs, j)
        /\ UNCHANGED <<storage, status, result, stored, old, worker, judged, faults, excused>>
    BY DEF Enqueue
  <1>2. jobs \in Seq(Job) /\ j \notin ToSet(jobs)
    BY <1>1 DEF TypeOK, OnePlace
  <1>3. jobs' \in Seq(Job) /\ ToSet(jobs') = ToSet(jobs) \cup {j}
    BY <1>1, <1>2, SentToChannel
  <1>4. /\ Len(jobs') = Len(jobs) + 1
        /\ \A i \in 1..Len(jobs) : jobs'[i] = jobs[i]
        /\ jobs'[Len(jobs) + 1] = j
    BY <1>1, <1>2, AppendProperties
  <1>5. TypeOK'
    BY <1>1, <1>2, <1>3, <1>4 DEF TypeOK
  <1>6. Distinct'
    <2>1. Len(jobs) \in Nat /\ \A i \in 1..Len(jobs) : jobs[i] # j
      BY <1>2 DEF ToSet
    <2>. QED
      BY <1>4, <2>1 DEF Distinct
  <1>7. OnePlace'
    BY <1>1, <1>2, <1>3 DEF OnePlace
  <1>8. InMemory' \subseteq InMemory
    BY <1>1, <1>3 DEF InMemory
  <1>9. Held' /\ CompletedHasFile' /\ FailedHasReason'
    BY <1>1, <1>8, RowsRest
  <1>10. judged' \subseteq old' /\ \A w \in Worker : Ready(w)'
    BY <1>1 DEF Ready, Reason
  <1>. QED
    BY <1>5, <1>6, <1>7, <1>9, <1>10

(* From the head of the channel to a worker that was idle.                   *)
LEMMA TakeKeeps ==
  ASSUME IInv, NEW w \in Worker, Take(w)
  PROVE  IInv'
  <1>. USE DEF IInv
  <1>. DEFINE j == Head(jobs)
  <1>1. /\ worker[w] = Idle /\ jobs # <<>> /\ jobs' = Tail(jobs)
        /\ worker' = [worker EXCEPT ![w] = [pc |-> "start", job |-> j]]
        /\ UNCHANGED <<storage, status, result, stored, old, sending, judged, faults, excused>>
    BY DEF Take
  <1>2. /\ jobs \in Seq(Job) /\ Len(jobs) <= QueueSize
        /\ \A i, k \in 1..Len(jobs) : jobs[i] = jobs[k] => i = k
    BY DEF TypeOK, Distinct
  <1>3. /\ j \in Job /\ Tail(jobs) \in Seq(Job)
        /\ j \in ToSet(jobs)
        /\ ToSet(jobs') = ToSet(jobs) \ {j}
    BY <1>1, <1>2, TakenFromChannel
  <1>4. Distinct'
    BY <1>1, <1>2, TakenFromChannel DEF Distinct
  <1>5. Len(jobs') <= QueueSize
    BY <1>1, <1>2, HeadTailProperties
  <1>. HIDE DEF j
  <1>6. worker'[w] = [pc |-> "start", job |-> j] /\ \A v \in Worker \ {w} : worker'[v] = worker[v]
    BY <1>1 DEF TypeOK
  <1>7. TypeOK'
    BY <1>1, <1>3, <1>5 DEF TypeOK
  <1>8. j # None /\ Idle.job = None
    BY <1>3 DEF Idle
  <1>9. \A v \in Worker \ {w} : worker[v].job # j
    <2>. SUFFICES ASSUME NEW v \in Worker \ {w} PROVE worker[v].job # j
      OBVIOUS
    <2>1. CASE worker[v] = Idle
      BY <1>8, <2>1
    <2>2. CASE worker[v] # Idle
      BY <1>3, <2>2 DEF OnePlace
    <2>. QED
      BY <2>1, <2>2
  <1>10. OnePlace'
    <2>1. sending' \cap ToSet(jobs') = {}
      BY <1>1, <1>3 DEF OnePlace
    <2>2. worker'[w].job = j /\ j \notin sending' \cup ToSet(jobs')
      BY <1>1, <1>3, <1>6 DEF OnePlace
    <2>3. ASSUME NEW v \in Worker \ {w}, worker'[v] # Idle
          PROVE  /\ worker'[v].job \notin sending' \cup ToSet(jobs')
                 /\ \A u \in Worker \ {v} : worker'[u].job # worker'[v].job
      <3>1. worker'[v] = worker[v] /\ worker[v] # Idle
        BY <1>6, <2>3
      <3>. QED
        BY <1>1, <1>3, <1>6, <1>9, <2>2, <3>1 DEF OnePlace
    <2>. QED
      BY <1>6, <1>9, <2>1, <2>2, <2>3 DEF OnePlace
  <1>11. InMemory' \subseteq InMemory
    BY <1>1, <1>3, <1>6 DEF InMemory
  <1>12. Held' /\ CompletedHasFile' /\ FailedHasReason'
    BY <1>1, <1>11, RowsRest
  <1>13. judged' \subseteq old' /\ \A v \in Worker : Ready(v)'
    BY <1>1, <1>6 DEF Ready, Reason
  <1>. QED
    BY <1>4, <1>7, <1>10, <1>12, <1>13

LEMMA JudgeKeeps ==
  ASSUME IInv, NEW j \in Job, Judge(j)
  PROVE  IInv'
  <1>. USE DEF IInv
  <1>1. /\ j \in old /\ judged' = judged \cup {j}
        /\ UNCHANGED <<storage, status, result, stored, old, sending, jobs, worker, faults, excused>>
    BY DEF Judge, Stale
  <1>2. TypeOK' /\ judged' \subseteq old'
    BY <1>1 DEF TypeOK
  <1>3. Distinct' /\ OnePlace' /\ InMemory' = InMemory
    BY <1>1 DEF Distinct, OnePlace, InMemory
  <1>4. Held' /\ CompletedHasFile' /\ FailedHasReason'
    BY <1>1, <1>3, RowsRest
  <1>5. \A w \in Worker : Ready(w)'
    BY <1>1 DEF Ready, Reason
  <1>. QED
    BY <1>2, <1>3, <1>4, <1>5

(* The job marked failed is old: a reason, and no promise about it is left.  *)
LEMMA HealKeeps ==
  ASSUME IInv, NEW j \in Job, Heal(j)
  PROVE  IInv'
  <1>. USE DEF IInv
  <1>1. /\ j \in judged /\ judged' = judged \ {j}
        /\ status' = [status EXCEPT ![j] = "failed"] \/ status' = status
        /\ Fine \/ Fault({j})
        /\ UNCHANGED <<storage, result, stored, old, sending, jobs, worker>>
    BY DEF Heal, Become
  <1>2. /\ faults' \in 0..MaxFaults
        /\ excused \subseteq excused' /\ excused' \subseteq Job
    BY <1>1, FaultType
  <1>3. j \in old /\ \A i \in Job \ {j} : status'[i] = status[i]
    BY <1>1 DEF TypeOK
  <1>4. TypeOK' /\ judged' \subseteq old'
    BY <1>1, <1>2 DEF TypeOK, Closed
  <1>5. Distinct' /\ OnePlace' /\ InMemory' = InMemory
    BY <1>1 DEF Distinct, OnePlace, InMemory
  <1>6. InMemory \subseteq Job
    BY TaskType DEF InMemory, TypeOK, ToSet
  <1>7. Held'
    <2>. SUFFICES ASSUME NEW i \in InMemory PROVE Unfinished(i)'
      BY <1>5 DEF Held
    <2>. QED
      BY <1>1, <1>3, <1>6 DEF Held, Unfinished, TypeOK
  <1>8. \A w \in Worker : Ready(w)'
    BY <1>1, <1>2 DEF Ready, Reason
  <1>9. CompletedHasFile'
    BY <1>1, <1>3 DEF CompletedHasFile, TypeOK
  <1>10. FailedHasReason'
    BY <1>1, <1>2, <1>3 DEF FailedHasReason
  <1>. QED
    BY <1>4, <1>5, <1>7, <1>8, <1>9, <1>10

LEMMA TimePassesKeeps ==
  ASSUME IInv, NEW j \in Job, TimePasses(j)
  PROVE  IInv'
  <1>. USE DEF IInv
  <1>1. /\ old' = old \cup {j}
        /\ UNCHANGED <<storage, status, result, stored, sending, jobs, worker, judged, faults, excused>>
    BY DEF TimePasses
  <1>2. TypeOK' /\ judged' \subseteq old'
    BY <1>1 DEF TypeOK
  <1>3. Distinct' /\ OnePlace' /\ InMemory' = InMemory
    BY <1>1 DEF Distinct, OnePlace, InMemory
  <1>4. Held'
    BY <1>1, <1>3 DEF Held, Unfinished
  <1>5. CompletedHasFile' /\ FailedHasReason' /\ \A w \in Worker : Ready(w)'
    BY <1>1 DEF CompletedHasFile, FailedHasReason, Ready, Reason
  <1>. QED
    BY <1>2, <1>3, <1>4, <1>5

LEMMA RestartKeeps ==
  ASSUME IInv, Restart
  PROVE  IInv'
  <1>. USE DEF IInv
  <1>1. /\ sending' = {} /\ jobs' = <<>> /\ worker' = [w \in Worker |-> Idle] /\ judged' = {}
        /\ Fault(InMemory)
        /\ UNCHANGED <<storage, status, result, stored, old>>
    BY DEF Restart
  <1>2. InMemory \subseteq Job
    BY TaskType DEF InMemory, TypeOK, ToSet
  <1>3. /\ faults' \in 0..MaxFaults
        /\ excused \subseteq excused' /\ excused' \subseteq Job
    BY <1>1, <1>2, FaultType
  <1>4. jobs' \in Seq(Job) /\ Len(jobs') = 0 /\ ToSet(jobs') = {}
    BY <1>1, EmptySeq, EmptyChannel
  <1>5. TypeOK'
    BY <1>1, <1>3, <1>4 DEF TypeOK
  <1>6. Distinct' /\ OnePlace' /\ InMemory' = {}
    BY <1>1, <1>4 DEF Distinct, OnePlace, InMemory
  <1>7. Held' /\ CompletedHasFile' /\ FailedHasReason'
    BY <1>1, <1>3, <1>6, RowsRest
  <1>8. judged' \subseteq old' /\ \A w \in Worker : Ready(w)'
    BY <1>1 DEF Ready, Idle
  <1>. QED
    BY <1>5, <1>6, <1>7, <1>8

(* A worker with a job works on it, whichever step it takes.                 *)
LEMMA RunWorks ==
  ASSUME IInv, NEW w \in Worker, Run(w), ~Take(w)
  PROVE  \E j \in Job : Working(w, j)
  BY StartWorks, BuildWorks, UploadWorks, CompleteWorks, FailWorks DEF Run

LEMMA InvStep == IInv /\ [Next]_vars => IInv'
  <1>. SUFFICES ASSUME IInv, [Next]_vars PROVE IInv'
    OBVIOUS
  <1>1. ASSUME NEW j \in Job, Create(j) \/ Enqueue(j) \/ Poll(j) \/ TimePasses(j)
        PROVE  IInv'
    BY <1>1, CreateKeeps, EnqueueKeeps, JudgeKeeps, HealKeeps, TimePassesKeeps DEF Poll
  <1>2. ASSUME NEW w \in Worker, Run(w)
        PROVE  IInv'
    BY <1>2, TakeKeeps, RunWorks, WorkingKeeps
  <1>3. CASE Restart
    BY <1>3, RestartKeeps
  <1>4. CASE UNCHANGED vars
    BY <1>4 DEF vars, IInv, TypeOK, Distinct, OnePlace, Held, InMemory, Unfinished, Ready, Reason,
                CompletedHasFile, FailedHasReason
  <1>. QED
    BY <1>1, <1>2, <1>3, <1>4 DEF Next

THEOREM Invariance == Spec => []IInv
  <1>1. Init => IInv
    BY InvInit
  <1>2. IInv /\ [Next]_vars => IInv'
    BY InvStep
  <1>. QED
    BY <1>1, <1>2, PTL DEF Spec

-----------------------------------------------------------------------------
(* Every variable keeps its type; the channel never holds more than it may.  *)
THEOREM JobsTypeCorrect == Spec => []TypeOK
  <1>1. IInv => TypeOK
    BY DEF IInv
  <1>. QED
    BY <1>1, Invariance, PTL

(* A completed job has its file, whatever failed on the way.                 *)
THEOREM CompletedMeansFile == Spec => []CompletedHasFile
  <1>1. IInv => CompletedHasFile
    BY DEF IInv
  <1>. QED
    BY <1>1, Invariance, PTL

(* A failed job failed for a reason of its own.                              *)
THEOREM FailedMeansReason == Spec => []FailedHasReason
  <1>1. IInv => FailedHasReason
    BY DEF IInv
  <1>. QED
    BY <1>1, Invariance, PTL

(* Nothing changes the outcome of a job that is not yet old: nothing holds it, *)
(* and no poll has it in hand.                                               *)
THEOREM YoungOutcomesStay == Spec => YoungOutcomeIsFinal
  <1>1. IInv /\ [Next]_vars
          => [\A j \in Job : status[j] \in Closed /\ j \notin old => status'[j] = status[j]]_vars
    <2>. SUFFICES ASSUME IInv, [Next]_vars, NEW j \in Job, status[j] \in Closed, j \notin old
                  PROVE  status'[j] = status[j]
      OBVIOUS
    <2>1. j \notin InMemory /\ j \notin judged
      BY DEF IInv, Held, Unfinished, Open, Closed
    <2>2. ASSUME NEW i \in Job, Create(i) \/ Enqueue(i) \/ Poll(i) \/ TimePasses(i)
          PROVE  status'[j] = status[j]
      BY <2>1, <2>2 DEF Create, Enqueue, Poll, Judge, Heal, TimePasses, Become, IInv, TypeOK, Closed
    <2>3. ASSUME NEW w \in Worker, Run(w)
          PROVE  status'[j] = status[j]
      <3>1. CASE Take(w)
        BY <3>1 DEF Take
      <3>2. CASE ~Take(w)
        <4>1. PICK i \in Job : Working(w, i)
          BY <2>3, <3>2, RunWorks
        <4>2. i # j
          BY <2>1, <4>1, TaskType DEF Working
        <4>. QED
          BY <4>1, <4>2 DEF Working
      <3>. QED
        BY <3>1, <3>2
    <2>4. CASE Restart
      BY <2>4 DEF Restart
    <2>5. CASE UNCHANGED vars
      BY <2>5 DEF vars
    <2>. QED
      BY <2>2, <2>3, <2>4, <2>5 DEF Next
  <1>. QED
    BY <1>1, Invariance, PTL DEF Spec, YoungOutcomeIsFinal

=============================================================================
