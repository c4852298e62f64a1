--------------------------- MODULE ReportWorkerProofs ---------------------------
(***************************************************************************)
(* Proofs about ReportWorker, for any number of reports, workers, analysts, *)
(* retries, lost workers, killed children and failed calls.                 *)
(***************************************************************************)
EXTENDS ReportWorker, TLAPS

\* The bounds are natural numbers.
LEMMA Bounds == {MaxRetries, MaxCrashes, MaxKills, MaxSwitches, MaxOutages, MaxDeletes} \subseteq Nat
PROOF BY ConstantsAssumption

-----------------------------------------------------------------------------
(* Type correctness                                                          *)

\* A task in execution is a record of its point, its job and the data read.
LEMMA WorkShape ==
    ASSUME TypeOK, NEW w \in Workers, work[w].pc \in Points
    PROVE  /\ work[w] \in [pc : Points, job : Job, data : Content]
           /\ work[w] # Idle
           /\ work[w].job \in Job /\ work[w].data \in Content
           /\ work[w].job.id \in Reports
           /\ work[w].job.task \in {"generate", "push"}
           /\ work[w].job.retries \in 0..MaxRetries
PROOF
<1>1. work[w] \in [pc : Points, job : Job, data : Content] /\ work[w] # Idle
    BY DEF TypeOK, Task, Points, Idle
<1>2. work[w].job \in Job /\ work[w].data \in Content
    BY <1>1
<1> QED BY <1>1, <1>2 DEF Job

\* Moving a worker to another point keeps its task well formed.
LEMMA GotoType ==
    ASSUME TypeOK, NEW w \in Workers, work[w].pc \in Points, NEW p \in Points, Goto(w, p)
    PROVE  work' \in [Workers -> Task]
PROOF
<1>1. [work[w] EXCEPT !.pc = p] \in Task
    BY WorkShape DEF Task
<1> QED BY <1>1 DEF TypeOK, Goto

\* Sending and taking a message keep the counters of the queue natural numbers.
LEMMA JobsType ==
    ASSUME TypeOK, NEW j \in Job
    PROVE  /\ [jobs EXCEPT ![j] = @ + 1] \in [Job -> Nat]
           /\ jobs[j] > 0 => [jobs EXCEPT ![j] = @ - 1] \in [Job -> Nat]
PROOF BY DEF TypeOK

\* A message of the queue is taken: it becomes the job of the worker.
LEMMA TakeType ==
    ASSUME TypeOK, NEW w \in Workers, NEW j \in Job, NEW p \in Points, NEW d \in Content,
           work' = [work EXCEPT ![w] = [pc |-> p, job |-> j, data |-> d]]
    PROVE  work' \in [Workers -> Task]
PROOF BY DEF TypeOK, Task

\* Rows, files and messages start with their types.
LEMMA InitTypeOK == Init => TypeOK
PROOF BY Bounds DEF Init, TypeOK, Status, Content, Task, Deletion, Idle, Job, Generate

\* No call of a task, no loss of a worker and no deletion leaves the types.
LEMMA StepTypeOK == TypeOK /\ [Next]_vars => TypeOK'
PROOF
<1> SUFFICES ASSUME TypeOK, [Next]_vars PROVE TypeOK'
    OBVIOUS
<1> USE DEF bounds, delivery
<1>1. ASSUME NEW w \in Workers, NEW id \in Reports, Begin(w, id) PROVE TypeOK'
    <2>1. PICK n \in 0..MaxRetries :
              LET j == [task |-> "generate", id |-> id, retries |-> n]
              IN  jobs[j] > 0 /\ jobs' = [jobs EXCEPT ![j] = @ - 1]
                  /\ work' = [work EXCEPT ![w] = [pc |-> "begun", job |-> j, data |-> "none"]]
        BY <1>1 DEF Begin
    <2> DEFINE j == [task |-> "generate", id |-> id, retries |-> n]
    <2>2. j \in Job
        BY DEF Job
    <2>3. jobs' \in [Job -> Nat]
        BY <2>1, <2>2, JobsType
    <2>4. "begun" \in Points /\ "none" \in Content
        BY DEF Points, Content
    <2>5. work' \in [Workers -> Task]
        BY <2>1, <2>2, <2>4, TakeType
    <2> QED BY <1>1, <2>3, <2>5 DEF Begin, TypeOK, Status
<1>2. ASSUME NEW w \in Workers, NEW id \in Reports, BeginMissing(w, id) PROVE TypeOK'
    <2>1. PICK n \in 0..MaxRetries :
              LET j == [task |-> "generate", id |-> id, retries |-> n]
              IN  jobs[j] > 0 /\ jobs' = [jobs EXCEPT ![j] = @ - 1]
        BY <1>2 DEF BeginMissing
    <2> DEFINE j == [task |-> "generate", id |-> id, retries |-> n]
    <2>2. j \in Job
        BY DEF Job
    <2>3. jobs' \in [Job -> Nat]
        BY <2>1, <2>2, JobsType
    <2> QED BY <1>2, <2>3 DEF BeginMissing, TypeOK
<1>3. ASSUME NEW w \in Workers, NEW id \in Reports, PushBegin(w, id) PROVE TypeOK'
    <2>1. PICK n \in 0..MaxRetries :
              LET j == [task |-> "push", id |-> id, retries |-> n]
              IN  jobs[j] > 0 /\ jobs' = [jobs EXCEPT ![j] = @ - 1]
                  /\ work' = [work EXCEPT ![w] =
                                 [pc |-> IF file[id] = "none" THEN "retrying" ELSE "fetched",
                                  job |-> j, data |-> file[id]]]
        BY <1>3 DEF PushBegin
    <2> DEFINE j == [task |-> "push", id |-> id, retries |-> n]
    <2>2. j \in Job
        BY DEF Job
    <2>3. jobs' \in [Job -> Nat]
        BY <2>1, <2>2, JobsType
    <2>4. {"retrying", "fetched"} \subseteq Points /\ file[id] \in Content
        BY DEF Points, TypeOK
    <2>5. work' \in [Workers -> Task]
        BY <2>1, <2>2, <2>4, TakeType
    <2> QED BY <1>3, <2>3, <2>5 DEF PushBegin, TypeOK
<1>4. ASSUME NEW w \in Workers, NEW id \in Reports, PushSkips(w, id) PROVE TypeOK'
    <2>1. PICK n \in 0..MaxRetries :
              LET j == [task |-> "push", id |-> id, retries |-> n]
              IN  jobs[j] > 0 /\ jobs' = [jobs EXCEPT ![j] = @ - 1]
        BY <1>4 DEF PushSkips
    <2> DEFINE j == [task |-> "push", id |-> id, retries |-> n]
    <2>2. j \in Job
        BY DEF Job
    <2>3. jobs' \in [Job -> Nat]
        BY <2>1, <2>2, JobsType
    <2> QED BY <1>4, <2>3 DEF PushSkips, TypeOK
<1>5. ASSUME NEW w \in Workers, Render(w) PROVE TypeOK'
    <2>1. work[w].pc \in Points /\ work' \in [Workers -> Task]
        BY <1>5, GotoType DEF Render, Points
    <2> QED BY <1>5, <2>1, WorkShape DEF Render, TypeOK
<1>6. ASSUME NEW w \in Workers, StoreBegin(w) PROVE TypeOK'
    <2>1. work[w].pc \in Points /\ work' \in [Workers -> Task]
        BY <1>6, GotoType DEF StoreBegin, Points
    <2> QED BY <1>6, <2>1, WorkShape DEF StoreBegin, TypeOK, Content
<1>7. ASSUME NEW w \in Workers, StoreEnd(w) PROVE TypeOK'
    <2>1. work[w].pc \in Points /\ work' \in [Workers -> Task]
        BY <1>7, GotoType DEF StoreEnd, Points
    <2> QED BY <1>7, <2>1, WorkShape DEF StoreEnd, TypeOK, Content
<1>8. ASSUME NEW w \in Workers, Finish(w) PROVE TypeOK'
    <2>1. work[w].pc \in Points /\ work' \in [Workers -> Task]
        BY <1>8, GotoType DEF Finish, Points
    <2> QED BY <1>8, <2>1, WorkShape DEF Finish, TypeOK, Status
<1>9. ASSUME NEW w \in Workers, RequestPush(w) PROVE TypeOK'
    <2>1. work[w].pc \in Points /\ work' \in [Workers -> Task]
        BY <1>9, GotoType DEF RequestPush, Points
    <2>2. Push(work[w].job.id) \in Job
        BY <2>1, WorkShape, Bounds DEF Push, Job
    <2>3. jobs' \in [Job -> Nat]
        BY <1>9, <2>2, JobsType DEF RequestPush, TypeOK
    <2> QED BY <1>9, <2>1, <2>3 DEF RequestPush, TypeOK
<1>10. ASSUME NEW w \in Workers, GenerateRaises(w) PROVE TypeOK'
    <2>1. work[w].pc \in Points /\ work' \in [Workers -> Task]
        BY <1>10, GotoType DEF GenerateRaises, Points
    <2> QED BY <1>10, <2>1, WorkShape DEF GenerateRaises, TypeOK
<1>11. ASSUME NEW w \in Workers, FinishStale(w) PROVE TypeOK'
    <2>1. work[w].pc \in Points /\ work' \in [Workers -> Task]
        BY <1>11, GotoType DEF FinishStale, Points
    <2> QED BY <1>11, <2>1, WorkShape DEF FinishStale, TypeOK
<1>12. ASSUME NEW w \in Workers, FinishFails(w) PROVE TypeOK'
    <2>1. work[w].pc \in Points /\ work' \in [Workers -> Task]
        BY <1>12, GotoType DEF FinishFails, Points
    <2> QED BY <1>12, <2>1, WorkShape DEF FinishFails, TypeOK, Outage
<1>13. ASSUME NEW w \in Workers, RequestPushFails(w) PROVE TypeOK'
    <2>1. work[w].pc \in Points /\ work' \in [Workers -> Task]
        BY <1>13, GotoType DEF RequestPushFails, Points
    <2> QED BY <1>13, <2>1, WorkShape DEF RequestPushFails, TypeOK, Outage
<1>14. ASSUME NEW w \in Workers, PersistFailed(w) PROVE TypeOK'
    <2>1. work[w].pc \in Points /\ work' \in [Workers -> Task]
        BY <1>14, GotoType DEF PersistFailed, Points
    <2> QED BY <1>14, <2>1, WorkShape DEF PersistFailed, TypeOK, Status
<1>15. ASSUME NEW w \in Workers, PersistFailedFails(w) PROVE TypeOK'
    <2>1. work[w].pc \in Points /\ work' \in [Workers -> Task]
        BY <1>15, GotoType DEF PersistFailedFails, Points
    <2> QED BY <1>15, <2>1, WorkShape DEF PersistFailedFails, TypeOK, Outage
<1>16. ASSUME NEW w \in Workers, Upload(w) PROVE TypeOK'
    <2>1. work[w].pc \in Points /\ work' \in [Workers -> Task]
        BY <1>16, GotoType DEF Upload, Points
    <2> QED BY <1>16, <2>1, WorkShape DEF Upload, TypeOK
<1>17. ASSUME NEW w \in Workers, UploadFails(w) PROVE TypeOK'
    <2>1. work[w].pc \in Points /\ work' \in [Workers -> Task]
        BY <1>17, GotoType DEF UploadFails, Points
    <2> QED BY <1>17, <2>1, WorkShape DEF UploadFails, TypeOK
<1>18. ASSUME NEW w \in Workers, RecordUrl(w) PROVE TypeOK'
    <2>1. work[w].pc \in Points /\ work' \in [Workers -> Task]
        BY <1>18, GotoType DEF RecordUrl, Points
    <2> QED BY <1>18, <2>1, WorkShape DEF RecordUrl, TypeOK
<1>19. ASSUME NEW w \in Workers, RecordUrlFails(w) PROVE TypeOK'
    <2>1. work[w].pc \in Points /\ work' \in [Workers -> Task]
        BY <1>19, GotoType DEF RecordUrlFails, Points
    <2> QED BY <1>19, <2>1, WorkShape DEF RecordUrlFails, TypeOK, Outage
<1>20. ASSUME NEW w \in Workers, Retry(w) PROVE TypeOK'
    <2> DEFINE j == work[w].job
               again == [task |-> j.task, id |-> j.id, retries |-> j.retries + 1]
    <2>1. work[w].pc \in Points /\ work' \in [Workers -> Task]
        BY <1>20, GotoType DEF Retry, Points
    <2>2. j.retries < MaxRetries => again \in Job
        BY <2>1, WorkShape, Bounds DEF Job
    <2>3. jobs' \in [Job -> Nat]
        BY <1>20, <2>2, JobsType DEF Retry, TypeOK
    <2>4. givenUp' \subseteq {"generate", "push"} \X Reports
        BY <1>20, <2>1, WorkShape DEF Retry, TypeOK
    <2> QED BY <1>20, <2>1, <2>3, <2>4 DEF Retry, TypeOK
<1>21. ASSUME NEW w \in Workers, RetryFails(w) PROVE TypeOK'
    <2>1. work[w].pc \in Points /\ work' \in [Workers -> Task]
        BY <1>21, GotoType DEF RetryFails, Points
    <2> QED BY <1>21, <2>1, WorkShape DEF RetryFails, TypeOK, Outage
<1>22. ASSUME NEW w \in Workers, Acknowledge(w) PROVE TypeOK'
    BY <1>22 DEF Acknowledge, TypeOK, Task
<1>23. ASSUME NEW w \in Workers, WorkerLost(w) PROVE TypeOK'
    <2>1. work[w].pc \in Points
        BY <1>23 DEF WorkerLost, TypeOK, Task
    <2>2. jobs' \in [Job -> Nat]
        BY <1>23, <2>1, WorkShape, JobsType DEF WorkerLost
    <2> QED BY <1>23, <2>2 DEF WorkerLost, TypeOK, Task
<1>24. ASSUME NEW a \in Analysts, DeleteFile(a) PROVE TypeOK'
    BY <1>24 DEF DeleteFile, TypeOK, Content, Deletion, Idle, Status, Outage, InTable
<1>25. ASSUME NEW a \in Analysts, DeleteFileFails(a) PROVE TypeOK'
    BY <1>25 DEF DeleteFileFails, TypeOK, Content, Deletion, Idle, Status, Outage, InTable
<1>26. ASSUME NEW a \in Analysts, DeleteRow(a) PROVE TypeOK'
    BY <1>26 DEF DeleteRow, TypeOK, Content, Deletion, Idle, Status, Outage, InTable
<1>27. ASSUME NEW a \in Analysts, DeleteRowFails(a) PROVE TypeOK'
    BY <1>27 DEF DeleteRowFails, TypeOK, Content, Deletion, Idle, Status, Outage, InTable
<1>28. ASSUME NEW a \in Analysts, NEW id \in Reports, DeleteRead(a, id) PROVE TypeOK'
    BY <1>28 DEF DeleteRead, TypeOK, Content, Deletion, Idle, Status, Outage, InTable
<1>30. ASSUME NEW w \in Workers, NEW id \in Reports, PushDeclined(w, id) PROVE TypeOK'
    <2>1. PICK n \in 0..MaxRetries :
              LET j == [task |-> "push", id |-> id, retries |-> n]
              IN  jobs[j] > 0 /\ jobs' = [jobs EXCEPT ![j] = @ - 1]
        BY <1>30 DEF PushDeclined
    <2> DEFINE j == [task |-> "push", id |-> id, retries |-> n]
    <2>2. j \in Job
        BY DEF Job
    <2>3. jobs' \in [Job -> Nat]
        BY <2>1, <2>2, JobsType
    <2> QED BY <1>30, <2>3 DEF PushDeclined, TypeOK
<1>31. ASSUME NEW w \in Workers, ChildLost(w) PROVE TypeOK'
    <2>1. work[w].pc \in Points
        BY <1>31 DEF ChildLost, TypeOK, Task
    <2> QED BY <1>31, <2>1, WorkShape DEF ChildLost, TypeOK, Task
<1>32. CASE SwitchLibrary
    BY <1>32 DEF SwitchLibrary, TypeOK
<1>29. CASE UNCHANGED vars
    BY <1>29 DEF vars, TypeOK
<1> QED
    BY <1>1, <1>2, <1>3, <1>4, <1>5, <1>6, <1>7, <1>8, <1>9, <1>10, <1>11, <1>12, <1>13,
       <1>14, <1>15, <1>16, <1>17, <1>18, <1>19, <1>20, <1>21, <1>22, <1>23, <1>24,
       <1>25, <1>26, <1>27, <1>28, <1>29, <1>30, <1>31, <1>32
    DEF Next, WorkerStep, DeletionStep

\* Rows, files, messages and tasks have the shapes the code gives them; no
\* message is taken that is not there.
THEOREM TypeCorrect == Spec => []TypeOK
PROOF BY InitTypeOK, StepTypeOK, PTL DEF Spec

-----------------------------------------------------------------------------
(* Reports whose jobs are gone                                               *)

Waiting(task, id) == \E n \in 0..MaxRetries : jobs[[task |-> task, id |-> id, retries |-> n]] > 0

\* A worker executes the task for the report and is at one of the points.
At(task, id, points) ==
    \E w \in Workers : /\ work[w].pc \in points
                       /\ work[w].job.task = task /\ work[w].job.id = id

Generating == {"begun", "rendered", "storing", "stored", "failing"}
Pushing == {"fetched", "uploaded", "retrying"}

\* What was killed or declined stays so.
LEMMA MarksStay == [Next]_vars => killed \subseteq killed' /\ declined \subseteq declined'
PROOF
<1> SUFFICES ASSUME [Next]_vars PROVE killed \subseteq killed' /\ declined \subseteq declined'
    OBVIOUS
<1> USE DEF delivery
<1>1. ASSUME NEW w \in Workers, WorkerStep(w)
      PROVE  UNCHANGED killed /\ declined \subseteq declined'
    BY <1>1 DEF WorkerStep, Begin, BeginMissing, PushBegin, PushSkips, PushDeclined, Render,
        StoreBegin, StoreEnd, Finish, RequestPush, GenerateRaises, FinishStale, FinishFails,
        RequestPushFails, PersistFailed, PersistFailedFails, Upload, UploadFails, RecordUrl,
        RecordUrlFails, Retry, RetryFails, Acknowledge
<1>2. ASSUME NEW a \in Analysts, DeletionStep(a) \/ \E id \in Reports : DeleteRead(a, id)
      PROVE  UNCHANGED <<killed, declined>>
    BY <1>2 DEF DeletionStep, DeleteFile, DeleteFileFails, DeleteRow, DeleteRowFails, DeleteRead
<1>3. ASSUME NEW w \in Workers, WorkerLost(w) \/ ChildLost(w)
      PROVE  killed \subseteq killed' /\ UNCHANGED declined
    BY <1>3 DEF WorkerLost, ChildLost
<1> QED BY <1>1, <1>2, <1>3 DEF Next, SwitchLibrary, vars

\* An unfinished report has a generation ahead of it, unless it was killed; a
\* failed one too, unless its retries are used.
UnfinishedIsWorkedOn ==
    outages = 0 => \A id \in Reports : <<"generate", id>> \notin killed =>
        /\ row[id].status \in {"pending", "generating"} =>
              Waiting("generate", id) \/ At("generate", id, Generating)
        /\ row[id].status = "failed" =>
              \/ Waiting("generate", id) \/ At("generate", id, Generating \cup {"retrying"})
              \/ <<"generate", id>> \in givenUp

\* Each task only reaches its own points.
TasksKeepToTheirPoints ==
    \A w \in Workers : work[w] # Idle =>
        /\ work[w].job.task = "push" =>
              work[w].pc \in Pushing \cup {"done"}
        /\ work[w].job.task = "generate" =>
              work[w].pc \in Generating \cup {"ready", "retrying", "done"}

\* A message is determined by its task, its report and its retries.
LEMMA JobIsRecord ==
    \A j \in Job : j = [task |-> j.task, id |-> j.id, retries |-> j.retries]
PROOF BY DEF Job

\* A message is waiting after a step that takes none of its kind, ...
LEMMA WaitingMore ==
    ASSUME TypeOK, TypeOK', NEW task \in {"generate", "push"}, NEW id \in Reports,
           Waiting(task, id),
           \A j \in Job : j.task = task /\ j.id = id => jobs'[j] >= jobs[j]
    PROVE  Waiting(task, id)'
PROOF
<1>1. PICK n \in 0..MaxRetries : jobs[[task |-> task, id |-> id, retries |-> n]] > 0
    BY DEF Waiting
<1> DEFINE j == [task |-> task, id |-> id, retries |-> n]
<1>2. j \in Job /\ j.task = task /\ j.id = id
    BY DEF Job
<1>3. jobs[j] \in Nat /\ jobs'[j] \in Nat
    BY <1>2 DEF TypeOK
<1>4. jobs'[j] > 0
    BY <1>1, <1>2, <1>3
<1> QED BY <1>4 DEF Waiting

\* ... and after a step that puts one there.
LEMMA WaitingNow ==
    ASSUME NEW j \in Job, jobs'[j] > 0
    PROVE  Waiting(j.task, j.id)'
PROOF BY JobIsRecord DEF Waiting, Job

\* A drained task has no message left.
LEMMA DrainedIsNotWaiting ==
    ASSUME NEW task, NEW id, Drained(task, id)
    PROVE  ~Waiting(task, id)
PROOF
<1> SUFFICES ASSUME NEW n \in 0..MaxRetries,
                    jobs[[task |-> task, id |-> id, retries |-> n]] > 0
             PROVE  FALSE
    BY DEF Waiting
<1>1. jobs[[task |-> task, id |-> id, retries |-> n]] = 0
    BY DEF Drained
<1> QED BY <1>1

\* No call takes a task to a point of the other task.
LEMMA StepTasks == TypeOK /\ TasksKeepToTheirPoints /\ [Next]_vars => TasksKeepToTheirPoints'
PROOF
<1> SUFFICES ASSUME TypeOK, TasksKeepToTheirPoints, [Next]_vars PROVE TasksKeepToTheirPoints'
    OBVIOUS
<1> USE DEF bounds, delivery, Goto, TasksKeepToTheirPoints, Generating, Pushing, TypeOK
<1>1. ASSUME NEW w \in Workers, NEW i \in Reports, Begin(w, i) PROVE TasksKeepToTheirPoints'
    BY <1>1 DEF Begin, Task, Idle
<1>2. ASSUME NEW w \in Workers, NEW i \in Reports, BeginMissing(w, i) PROVE TasksKeepToTheirPoints'
    BY <1>2 DEF BeginMissing, Task, Idle
<1>3. ASSUME NEW w \in Workers, NEW i \in Reports, PushBegin(w, i) PROVE TasksKeepToTheirPoints'
    BY <1>3 DEF PushBegin, Task, Idle
<1>4. ASSUME NEW w \in Workers, NEW i \in Reports, PushSkips(w, i) PROVE TasksKeepToTheirPoints'
    BY <1>4 DEF PushSkips, Task, Idle
<1>5. ASSUME NEW w \in Workers, Render(w) PROVE TasksKeepToTheirPoints'
    BY <1>5 DEF Render, Task, Idle
<1>6. ASSUME NEW w \in Workers, StoreBegin(w) PROVE TasksKeepToTheirPoints'
    BY <1>6 DEF StoreBegin, Task, Idle
<1>7. ASSUME NEW w \in Workers, StoreEnd(w) PROVE TasksKeepToTheirPoints'
    BY <1>7 DEF StoreEnd, Task, Idle
<1>8. ASSUME NEW w \in Workers, Finish(w) PROVE TasksKeepToTheirPoints'
    BY <1>8 DEF Finish, Task, Idle
<1>9. ASSUME NEW w \in Workers, RequestPush(w) PROVE TasksKeepToTheirPoints'
    BY <1>9 DEF RequestPush, Task, Idle, Push
<1>10. ASSUME NEW w \in Workers, GenerateRaises(w) PROVE TasksKeepToTheirPoints'
    BY <1>10 DEF GenerateRaises, Task, Idle
<1>11. ASSUME NEW w \in Workers, FinishStale(w) PROVE TasksKeepToTheirPoints'
    BY <1>11 DEF FinishStale, Task, Idle
<1>12. ASSUME NEW w \in Workers, FinishFails(w) PROVE TasksKeepToTheirPoints'
    BY <1>12 DEF FinishFails, Task, Idle, Outage
<1>13. ASSUME NEW w \in Workers, RequestPushFails(w) PROVE TasksKeepToTheirPoints'
    BY <1>13 DEF RequestPushFails, Task, Idle, Outage
<1>14. ASSUME NEW w \in Workers, PersistFailed(w) PROVE TasksKeepToTheirPoints'
    BY <1>14 DEF PersistFailed, Task, Idle
<1>15. ASSUME NEW w \in Workers, PersistFailedFails(w) PROVE TasksKeepToTheirPoints'
    BY <1>15 DEF PersistFailedFails, Task, Idle, Outage
<1>16. ASSUME NEW w \in Workers, Upload(w) PROVE TasksKeepToTheirPoints'
    BY <1>16 DEF Upload, Task, Idle
<1>17. ASSUME NEW w \in Workers, UploadFails(w) PROVE TasksKeepToTheirPoints'
    BY <1>17 DEF UploadFails, Task, Idle
<1>18. ASSUME NEW w \in Workers, RecordUrl(w) PROVE TasksKeepToTheirPoints'
    BY <1>18 DEF RecordUrl, Task, Idle
<1>19. ASSUME NEW w \in Workers, RecordUrlFails(w) PROVE TasksKeepToTheirPoints'
    BY <1>19 DEF RecordUrlFails, Task, Idle, Outage
<1>20. ASSUME NEW w \in Workers, Retry(w) PROVE TasksKeepToTheirPoints'
    BY <1>20 DEF Retry, Task, Idle
<1>21. ASSUME NEW w \in Workers, RetryFails(w) PROVE TasksKeepToTheirPoints'
    BY <1>21 DEF RetryFails, Task, Idle, Outage
<1>22. ASSUME NEW w \in Workers, Acknowledge(w) PROVE TasksKeepToTheirPoints'
    BY <1>22 DEF Acknowledge, Task, Idle
<1>23. ASSUME NEW w \in Workers, WorkerLost(w) PROVE TasksKeepToTheirPoints'
    BY <1>23 DEF WorkerLost, Task, Idle
<1>24. ASSUME NEW a \in Analysts, DeleteFile(a) PROVE TasksKeepToTheirPoints'
    BY <1>24 DEF DeleteFile, Task, Idle
<1>25. ASSUME NEW a \in Analysts, DeleteFileFails(a) PROVE TasksKeepToTheirPoints'
    BY <1>25 DEF DeleteFileFails, Task, Idle, Outage
<1>26. ASSUME NEW a \in Analysts, DeleteRow(a) PROVE TasksKeepToTheirPoints'
    BY <1>26 DEF DeleteRow, Task, Idle
<1>27. ASSUME NEW a \in Analysts, DeleteRowFails(a) PROVE TasksKeepToTheirPoints'
    BY <1>27 DEF DeleteRowFails, Task, Idle, Outage
<1>28. ASSUME NEW a \in Analysts, NEW i \in Reports, DeleteRead(a, i) PROVE TasksKeepToTheirPoints'
    BY <1>28 DEF DeleteRead, Task, Idle
<1>30. ASSUME NEW w \in Workers, NEW i \in Reports, PushDeclined(w, i) PROVE TasksKeepToTheirPoints'
    BY <1>30 DEF PushDeclined, Task, Idle
<1>31. ASSUME NEW w \in Workers, ChildLost(w) PROVE TasksKeepToTheirPoints'
    BY <1>31 DEF ChildLost, Task, Idle
<1>32. CASE SwitchLibrary
    BY <1>32 DEF SwitchLibrary, Task, Idle
<1>29. CASE UNCHANGED vars
    BY <1>29 DEF vars, Task, Idle
<1> QED
    BY <1>1, <1>2, <1>3, <1>4, <1>5, <1>6, <1>7, <1>8, <1>9, <1>10, <1>11, <1>12, <1>13,
       <1>14, <1>15, <1>16, <1>17, <1>18, <1>19, <1>20, <1>21, <1>22, <1>23, <1>24,
       <1>25, <1>26, <1>27, <1>28, <1>29, <1>30, <1>31, <1>32
    DEF Next, WorkerStep, DeletionStep

\* Every step leaves an unfinished report with a message or a worker.
LEMMA StepUnfinished ==
    TypeOK /\ TasksKeepToTheirPoints /\ UnfinishedIsWorkedOn /\ [Next]_vars => UnfinishedIsWorkedOn'
PROOF
<1> DEFINE Unfinished(id) ==
        /\ row[id].status \in {"pending", "generating"} =>
              Waiting("generate", id) \/ At("generate", id, Generating)
        /\ row[id].status = "failed" =>
              \/ Waiting("generate", id) \/ At("generate", id, Generating \cup {"retrying"})
              \/ <<"generate", id>> \in givenUp
<1> SUFFICES ASSUME TypeOK, TasksKeepToTheirPoints, UnfinishedIsWorkedOn, [Next]_vars,
                    outages' = 0, NEW id \in Reports, <<"generate", id>> \notin killed'
             PROVE  Unfinished(id)'
    BY DEF UnfinishedIsWorkedOn
<1>0. outages = 0 => Unfinished(id)
    BY MarksStay DEF UnfinishedIsWorkedOn
<1>t. TypeOK'
    BY StepTypeOK
<1> USE DEF bounds, delivery, Goto, TypeOK
<1>1. ASSUME NEW w \in Workers, NEW i \in Reports, Begin(w, i) PROVE Unfinished(id)'
    <2>1. PICK n \in 0..MaxRetries :
              jobs' = [jobs EXCEPT ![[task |-> "generate", id |-> i, retries |-> n]] = @ - 1]
        BY <1>1 DEF Begin
    <2>2. \A j \in Job : j.task # "generate" \/ j.id # i => jobs'[j] = jobs[j]
        BY <2>1
    <2>3. CASE id = i
        BY <1>1, <2>3 DEF Begin, At, Generating
    <2>4. CASE id # i
        <3>0. \A j \in Job : j.task = "generate" /\ j.id = id => jobs'[j] >= jobs[j]
            BY <2>2, <2>4
        <3>1. Waiting("generate", id) => Waiting("generate", id)'
            BY <3>0, <1>t, WaitingMore, Zenon
        <3>2. \A v \in Workers : work[v].pc \in Generating \cup {"retrying"} => work'[v] = work[v]
            BY <1>1 DEF Begin, Generating, Idle
        <3>3. row'[id] = row[id] /\ outages = 0 /\ givenUp' = givenUp
            BY <1>1, <2>4 DEF Begin
        <3> QED BY <1>0, <3>1, <3>2, <3>3 DEF At
    <2> QED BY <2>3, <2>4
<1>2. ASSUME NEW w \in Workers, NEW i \in Reports, BeginMissing(w, i) PROVE Unfinished(id)'
    <2>1. PICK n \in 0..MaxRetries :
              jobs' = [jobs EXCEPT ![[task |-> "generate", id |-> i, retries |-> n]] = @ - 1]
        BY <1>2 DEF BeginMissing
    <2>2. \A j \in Job : j.task # "generate" \/ j.id # i => jobs'[j] = jobs[j]
        BY <2>1
    <2>3. CASE id = i
        BY <1>2, <2>3 DEF BeginMissing, InTable
    <2>4. CASE id # i
        <3>0. \A j \in Job : j.task = "generate" /\ j.id = id => jobs'[j] >= jobs[j]
            BY <2>2, <2>4
        <3>1. Waiting("generate", id) => Waiting("generate", id)'
            BY <3>0, <1>t, WaitingMore, Zenon
        <3>2. work' = work /\ row' = row /\ outages = 0 /\ givenUp' = givenUp
            BY <1>2 DEF BeginMissing
        <3> QED BY <1>0, <3>1, <3>2 DEF At
    <2> QED BY <2>3, <2>4
<1>3. ASSUME NEW w \in Workers, NEW i \in Reports, PushBegin(w, i) PROVE Unfinished(id)'
    <2>1. PICK n \in 0..MaxRetries :
              jobs' = [jobs EXCEPT ![[task |-> "push", id |-> i, retries |-> n]] = @ - 1]
        BY <1>3 DEF PushBegin
    <2>2. \A j \in Job : j.task # "push" \/ j.id # i => jobs'[j] = jobs[j]
        BY <2>1
    <2>3. Waiting("generate", id) => Waiting("generate", id)'
        <3>1. \A j \in Job : j.task = "generate" /\ j.id = id => jobs'[j] >= jobs[j]
            BY <2>2
        <3> QED BY <1>t, <3>1, WaitingMore
    <2>4. \A v \in Workers : work[v].pc \in Generating \cup {"retrying"} => work'[v] = work[v]
        BY <1>3 DEF PushBegin, Generating, Idle
    <2>5. row' = row /\ outages = 0 /\ givenUp' = givenUp
        BY <1>3 DEF PushBegin
    <2> QED BY <1>0, <2>3, <2>4, <2>5 DEF At
<1>4. ASSUME NEW w \in Workers, NEW i \in Reports, PushSkips(w, i) PROVE Unfinished(id)'
    <2>1. PICK n \in 0..MaxRetries :
              jobs' = [jobs EXCEPT ![[task |-> "push", id |-> i, retries |-> n]] = @ - 1]
        BY <1>4 DEF PushSkips
    <2>2. \A j \in Job : j.task # "push" \/ j.id # i => jobs'[j] = jobs[j]
        BY <2>1
    <2>3. Waiting("generate", id) => Waiting("generate", id)'
        <3>1. \A j \in Job : j.task = "generate" /\ j.id = id => jobs'[j] >= jobs[j]
            BY <2>2
        <3> QED BY <1>t, <3>1, WaitingMore
    <2>4. \A v \in Workers : work[v].pc \in Generating \cup {"retrying"} => work'[v] = work[v]
        BY <1>4 DEF PushSkips, Generating, Idle
    <2>5. row' = row /\ outages = 0 /\ givenUp' = givenUp
        BY <1>4 DEF PushSkips
    <2> QED BY <1>0, <2>3, <2>4, <2>5 DEF At
<1>5. ASSUME NEW w \in Workers, Render(w) PROVE Unfinished(id)'
    BY <1>5, <1>0, WorkShape, JobIsRecord DEF Render, Waiting, At, Generating,
        TasksKeepToTheirPoints, Task, Idle, InTable, Points
<1>6. ASSUME NEW w \in Workers, StoreBegin(w) PROVE Unfinished(id)'
    BY <1>6, <1>0, WorkShape, JobIsRecord DEF StoreBegin, Waiting, At, Generating,
        TasksKeepToTheirPoints, Task, Idle, InTable, Points
<1>7. ASSUME NEW w \in Workers, StoreEnd(w) PROVE Unfinished(id)'
    BY <1>7, <1>0, WorkShape, JobIsRecord DEF StoreEnd, Waiting, At, Generating,
        TasksKeepToTheirPoints, Task, Idle, InTable, Points
<1>8. ASSUME NEW w \in Workers, Finish(w) PROVE Unfinished(id)'
    <2>1. CASE id = work[w].job.id
        BY <1>8, <2>1 DEF Finish
    <2>2. CASE id # work[w].job.id
        <3>1. row'[id] = row[id] /\ outages = 0 /\ givenUp' = givenUp /\ jobs' = jobs
            BY <1>8, <2>2 DEF Finish
        <3>2. \A v \in Workers : v # w => work'[v] = work[v]
            BY <1>8 DEF Finish
        <3> QED BY <1>0, <2>2, <3>1, <3>2 DEF At, Waiting
    <2> QED BY <2>1, <2>2
<1>9. ASSUME NEW w \in Workers, RequestPush(w) PROVE Unfinished(id)'
    <2>1. \A j \in Job : jobs'[j] >= jobs[j]
        BY <1>9 DEF RequestPush
    <2>2. Waiting("generate", id) => Waiting("generate", id)'
        BY <2>1, <1>t, WaitingMore
    <2>3. \A v \in Workers : work[v].pc \in Generating \cup {"retrying"} => work'[v] = work[v]
        BY <1>9 DEF RequestPush, Generating
    <2>4. row' = row /\ outages = 0 /\ givenUp' = givenUp
        BY <1>9 DEF RequestPush
    <2> QED BY <1>0, <2>2, <2>3, <2>4 DEF At
<1>10. ASSUME NEW w \in Workers, GenerateRaises(w) PROVE Unfinished(id)'
    BY <1>10, <1>0, WorkShape, JobIsRecord DEF GenerateRaises, Waiting, At, Generating,
        TasksKeepToTheirPoints, Task, Idle, InTable, Points
<1>11. ASSUME NEW w \in Workers, FinishStale(w) PROVE Unfinished(id)'
    BY <1>11, <1>0, WorkShape, JobIsRecord DEF FinishStale, Waiting, At, Generating,
        TasksKeepToTheirPoints, Task, Idle, InTable, Points
<1>12. ASSUME NEW w \in Workers, FinishFails(w) PROVE Unfinished(id)'
    BY <1>12, <1>0, WorkShape, JobIsRecord DEF FinishFails, Waiting, At, Generating,
        TasksKeepToTheirPoints, Task, Idle, InTable, Points, Outage
<1>13. ASSUME NEW w \in Workers, RequestPushFails(w) PROVE Unfinished(id)'
    BY <1>13, <1>0, WorkShape, JobIsRecord DEF RequestPushFails, Waiting, At, Generating,
        TasksKeepToTheirPoints, Task, Idle, InTable, Points, Outage
<1>14. ASSUME NEW w \in Workers, PersistFailed(w) PROVE Unfinished(id)'
    <2>1. work[w].pc \in Points /\ work[w].pc = "failing"
        BY <1>14 DEF PersistFailed, Points
    <2>2. work[w].job.task = "generate" /\ work[w] # Idle
        BY <2>1, WorkShape DEF TasksKeepToTheirPoints, Pushing
    <2>3. work'[w].pc = "retrying" /\ work'[w].job = work[w].job
        BY <1>14, <2>1, WorkShape DEF PersistFailed
    <2>4. outages = 0 /\ givenUp' = givenUp /\ jobs' = jobs
        BY <1>14 DEF PersistFailed
    <2>5. \A v \in Workers : v # w => work'[v] = work[v]
        BY <1>14 DEF PersistFailed
    <2>6. CASE id = work[w].job.id
        <3>1. At("generate", id, Generating \cup {"retrying"})'
            BY <2>2, <2>3, <2>6 DEF At
        <3>2. row'[id].status \notin {"pending", "generating"}
            <4>1. CASE InTable(id)
                BY <1>14, <2>6, <4>1 DEF PersistFailed
            <4>2. CASE ~InTable(id)
                BY <1>14, <2>6, <4>2 DEF PersistFailed, InTable
            <4> QED BY <4>1, <4>2
        <3> QED BY <3>1, <3>2
    <2>7. CASE id # work[w].job.id
        <3>1. row'[id] = row[id]
            BY <1>14, <2>7 DEF PersistFailed
        <3> QED BY <1>0, <2>4, <2>5, <2>7, <3>1 DEF At, Waiting
    <2> QED BY <2>6, <2>7
<1>15. ASSUME NEW w \in Workers, PersistFailedFails(w) PROVE Unfinished(id)'
    BY <1>15, <1>0, WorkShape, JobIsRecord DEF PersistFailedFails, Waiting, At, Generating,
        TasksKeepToTheirPoints, Task, Idle, InTable, Points, Outage
<1>16. ASSUME NEW w \in Workers, Upload(w) PROVE Unfinished(id)'
    BY <1>16, <1>0, WorkShape, JobIsRecord DEF Upload, Waiting, At, Generating,
        TasksKeepToTheirPoints, Task, Idle, InTable, Points
<1>17. ASSUME NEW w \in Workers, UploadFails(w) PROVE Unfinished(id)'
    BY <1>17, <1>0, WorkShape, JobIsRecord DEF UploadFails, Waiting, At, Generating,
        TasksKeepToTheirPoints, Task, Idle, InTable, Points
<1>18. ASSUME NEW w \in Workers, RecordUrl(w) PROVE Unfinished(id)'
    BY ZenonT(40), <1>18, <1>0, WorkShape, JobIsRecord DEF RecordUrl, Waiting, At, Generating,
        TasksKeepToTheirPoints, Task, Idle, InTable, Points
<1>19. ASSUME NEW w \in Workers, RecordUrlFails(w) PROVE Unfinished(id)'
    BY <1>19, <1>0, WorkShape, JobIsRecord DEF RecordUrlFails, Waiting, At, Generating,
        TasksKeepToTheirPoints, Task, Idle, InTable, Points, Outage
<1>20. ASSUME NEW w \in Workers, Retry(w) PROVE Unfinished(id)'
    <2>0. PICK j : j = work[w].job
        OBVIOUS
    <2> DEFINE again == [task |-> j.task, id |-> j.id, retries |-> j.retries + 1]
    <2>1. j \in Job /\ work[w].pc = "retrying"
        BY <1>20, <2>0, WorkShape DEF Retry, Points
    <2>2. row' = row /\ outages = 0
        BY <1>20 DEF Retry
    <2>3. \A v \in Workers : v # w => work'[v] = work[v]
        BY <1>20 DEF Retry
    <2>4. CASE j.retries < MaxRetries
        <3>1. jobs' = [jobs EXCEPT ![again] = @ + 1] /\ givenUp' = givenUp
            BY <1>20, <2>0, <2>4 DEF Retry
        <3>2. again \in Job
            BY <2>1, <2>4, Bounds DEF Job
        <3>3. jobs'[again] > 0 /\ \A k \in Job : jobs'[k] >= jobs[k]
            BY <3>1, <3>2
        <3>4. Waiting(j.task, j.id)'
            BY <3>2, <3>3, WaitingNow, again.task = j.task, again.id = j.id
        <3>5. Waiting("generate", id) => Waiting("generate", id)'
            BY <3>3, <1>t, WaitingMore
        <3> QED BY <1>0, <2>0, <2>1, <2>2, <2>3, <3>1, <3>4, <3>5 DEF At, Generating
    <2>5. CASE ~(j.retries < MaxRetries)
        <3>1. jobs' = jobs /\ givenUp' = givenUp \cup {<<j.task, j.id>>}
            BY <1>20, <2>0, <2>5 DEF Retry
        <3> QED BY <1>0, <2>0, <2>1, <2>2, <2>3, <3>1 DEF At, Generating, Waiting
    <2> QED BY <2>4, <2>5
<1>21. ASSUME NEW w \in Workers, RetryFails(w) PROVE Unfinished(id)'
    BY <1>21, <1>0, WorkShape, JobIsRecord DEF RetryFails, Waiting, At, Generating,
        TasksKeepToTheirPoints, Task, Idle, InTable, Points, Outage
<1>22. ASSUME NEW w \in Workers, Acknowledge(w) PROVE Unfinished(id)'
    BY <1>22, <1>0, WorkShape, JobIsRecord DEF Acknowledge, Waiting, At, Generating,
        TasksKeepToTheirPoints, Task, Idle, InTable, Points
<1>23. ASSUME NEW w \in Workers, WorkerLost(w) PROVE Unfinished(id)'
    <2>0. PICK j : j = work[w].job
        OBVIOUS
    <2>1. j \in Job
        BY <1>23, <2>0, WorkShape DEF WorkerLost, Task
    <2>2. jobs' = [jobs EXCEPT ![j] = @ + 1] /\ row' = row /\ outages = 0 /\ givenUp' = givenUp
        BY <1>23, <2>0 DEF WorkerLost
    <2>3. jobs'[j] > 0 /\ \A k \in Job : jobs'[k] >= jobs[k]
        BY <2>1, <2>2
    <2>4. Waiting(j.task, j.id)'
        BY <2>1, <2>3, WaitingNow
    <2>5. Waiting("generate", id) => Waiting("generate", id)'
        BY <2>3, <1>t, WaitingMore
    <2>6. \A v \in Workers : v # w => work'[v] = work[v]
        BY <1>23 DEF WorkerLost
    <2> QED BY <1>0, <2>0, <2>2, <2>4, <2>5, <2>6 DEF At
<1>24. ASSUME NEW a \in Analysts, DeleteFile(a) PROVE Unfinished(id)'
    BY <1>24, <1>0, WorkShape, JobIsRecord DEF DeleteFile, Waiting, At, Generating,
        TasksKeepToTheirPoints, Task, Idle, InTable, Points
<1>25. ASSUME NEW a \in Analysts, DeleteFileFails(a) PROVE Unfinished(id)'
    BY <1>25, <1>0, WorkShape, JobIsRecord DEF DeleteFileFails, Waiting, At, Generating,
        TasksKeepToTheirPoints, Task, Idle, InTable, Points, Outage
<1>26. ASSUME NEW a \in Analysts, DeleteRow(a) PROVE Unfinished(id)'
    BY <1>26, <1>0, WorkShape, JobIsRecord DEF DeleteRow, Waiting, At, Generating,
        TasksKeepToTheirPoints, Task, Idle, InTable, Points
<1>27. ASSUME NEW a \in Analysts, DeleteRowFails(a) PROVE Unfinished(id)'
    BY <1>27, <1>0, WorkShape, JobIsRecord DEF DeleteRowFails, Waiting, At, Generating,
        TasksKeepToTheirPoints, Task, Idle, InTable, Points, Outage
<1>28. ASSUME NEW a \in Analysts, NEW i \in Reports, DeleteRead(a, i) PROVE Unfinished(id)'
    BY <1>28, <1>0, WorkShape, JobIsRecord DEF DeleteRead, Waiting, At, Generating,
        TasksKeepToTheirPoints, Task, Idle, InTable, Points
<1>30. ASSUME NEW w \in Workers, NEW i \in Reports, PushDeclined(w, i) PROVE Unfinished(id)'
    <2>1. PICK n \in 0..MaxRetries :
              jobs' = [jobs EXCEPT ![[task |-> "push", id |-> i, retries |-> n]] = @ - 1]
        BY <1>30 DEF PushDeclined
    <2>2. \A j \in Job : j.task # "push" \/ j.id # i => jobs'[j] = jobs[j]
        BY <2>1
    <2>3. Waiting("generate", id) => Waiting("generate", id)'
        <3>1. \A j \in Job : j.task = "generate" /\ j.id = id => jobs'[j] >= jobs[j]
            BY <2>2
        <3> QED BY <1>t, <3>1, WaitingMore
    <2>4. \A v \in Workers : work[v].pc \in Generating \cup {"retrying"} => work'[v] = work[v]
        BY <1>30 DEF PushDeclined, Generating, Idle
    <2>5. row' = row /\ outages = 0 /\ givenUp' = givenUp
        BY <1>30 DEF PushDeclined
    <2> QED BY <1>0, <2>3, <2>4, <2>5 DEF At
<1>31. ASSUME NEW w \in Workers, ChildLost(w) PROVE Unfinished(id)'
    <2>1. /\ row' = row /\ jobs' = jobs /\ outages = 0 /\ givenUp' = givenUp
          /\ \A v \in Workers : v # w => work'[v] = work[v]
        BY <1>31 DEF ChildLost
    <2>2. ~(work[w].job.task = "generate" /\ work[w].job.id = id)
        BY <1>31 DEF ChildLost
    <2> QED BY <1>0, <2>1, <2>2 DEF At, Waiting
<1>32. CASE SwitchLibrary
    BY <1>32, <1>0 DEF SwitchLibrary, Waiting, At
<1>29. CASE UNCHANGED vars
    BY <1>29, <1>0, WorkShape, JobIsRecord DEF vars, Waiting, At, Generating,
        TasksKeepToTheirPoints, Task, Idle, InTable, Points
<1> QED
    BY <1>1, <1>2, <1>3, <1>4, <1>5, <1>6, <1>7, <1>8, <1>9, <1>10, <1>11, <1>12, <1>13,
       <1>14, <1>15, <1>16, <1>17, <1>18, <1>19, <1>20, <1>21, <1>22, <1>23, <1>24,
       <1>25, <1>26, <1>27, <1>28, <1>29, <1>30, <1>31, <1>32
    DEF Next, WorkerStep, DeletionStep


\* Whatever workers are lost, and however often, no report stays pending or
\* generating once its jobs are gone, and "failed" is only left when all retries are
\* used, unless the task was killed.
THEOREM NoReportIsAbandoned == Spec => []DrainedIsSettled
PROOF
<1> DEFINE I == TypeOK /\ TasksKeepToTheirPoints /\ UnfinishedIsWorkedOn
<1>1. Init => I
    <2>1. ASSUME Init, NEW id \in Reports PROVE Waiting("generate", id)
        <3>1. Generate(id) \in Job /\ Generate(id).id = id
            BY Bounds DEF Generate, Job
        <3>2. jobs[Generate(id)] = 1
            BY <2>1, <3>1 DEF Init
        <3> QED BY <3>2, Bounds DEF Waiting, Generate
    <2>2. Init => TasksKeepToTheirPoints
        BY DEF Init, TasksKeepToTheirPoints
    <2>3. Init => UnfinishedIsWorkedOn
        BY <2>1 DEF Init, UnfinishedIsWorkedOn
    <2> QED BY <2>2, <2>3, InitTypeOK
<1>2. I /\ [Next]_vars => I'
    BY StepTypeOK, StepTasks, StepUnfinished
<1>3. I => DrainedIsSettled
    <2> SUFFICES ASSUME I, outages = 0, NEW id \in Reports, Drained("generate", id),
                        <<"generate", id>> \notin killed
                 PROVE  /\ row[id].status \in {"ready", "failed", "deleted"}
                        /\ row[id].status = "failed" => <<"generate", id>> \in givenUp
        BY DEF DrainedIsSettled
    <2>1. ~Waiting("generate", id)
        BY DrainedIsNotWaiting
    <2>2. ~At("generate", id, Generating \cup {"retrying"})
        BY DEF Drained, At, Idle, Generating
    <2>3. ~At("generate", id, Generating)
        BY <2>2 DEF At
    <2>4. row[id].status \in Status
        BY DEF TypeOK
    <2> QED BY <2>1, <2>2, <2>3, <2>4 DEF UnfinishedIsWorkedOn, Status
<1> QED BY <1>1, <1>2, <1>3, PTL DEF Spec

-----------------------------------------------------------------------------
(* Reports for the document library                                          *)

\* No task of the report was killed and no push of it declined.
Unhindered(id) ==
    id \notin declined /\ {<<"generate", id>>, <<"push", id>>} \cap killed = {}

\* A finished report that belongs in the library is there, or has its push ahead
\* of it, if need be after one more generation.
ReadyIsPushed ==
    outages = 0 => \A id \in flagged : row[id].status = "ready" /\ Unhindered(id) =>
        \/ row[id].url \/ <<"push", id>> \in givenUp
        \/ Waiting("push", id) \/ At("push", id, Pushing)
        \/ Waiting("generate", id) \/ At("generate", id, {"ready"})

ReadyHasPath == \A id \in Reports : row[id].status = "ready" => row[id].path

\* A row becomes ready together with its storage path.
LEMMA StepReadyHasPath == TypeOK /\ ReadyHasPath /\ [Next]_vars => ReadyHasPath'
PROOF
<1> SUFFICES ASSUME TypeOK, ReadyHasPath, [Next]_vars PROVE ReadyHasPath'
    OBVIOUS
<1> USE DEF bounds, delivery, TypeOK, ReadyHasPath
<1>1. ASSUME NEW w \in Workers, NEW i \in Reports, Begin(w, i) PROVE ReadyHasPath'
    BY <1>1 DEF Begin, Status
<1>2. ASSUME NEW w \in Workers, NEW i \in Reports, BeginMissing(w, i) PROVE ReadyHasPath'
    BY <1>2 DEF BeginMissing, Status
<1>3. ASSUME NEW w \in Workers, NEW i \in Reports, PushBegin(w, i) PROVE ReadyHasPath'
    BY <1>3 DEF PushBegin, Status
<1>4. ASSUME NEW w \in Workers, NEW i \in Reports, PushSkips(w, i) PROVE ReadyHasPath'
    BY <1>4 DEF PushSkips, Status
<1>5. ASSUME NEW w \in Workers, Render(w) PROVE ReadyHasPath'
    BY <1>5 DEF Render, Status
<1>6. ASSUME NEW w \in Workers, StoreBegin(w) PROVE ReadyHasPath'
    BY <1>6 DEF StoreBegin, Status
<1>7. ASSUME NEW w \in Workers, StoreEnd(w) PROVE ReadyHasPath'
    BY <1>7 DEF StoreEnd, Status
<1>8. ASSUME NEW w \in Workers, Finish(w) PROVE ReadyHasPath'
    BY <1>8 DEF Finish, Status
<1>9. ASSUME NEW w \in Workers, RequestPush(w) PROVE ReadyHasPath'
    BY <1>9 DEF RequestPush, Status, Push
<1>10. ASSUME NEW w \in Workers, GenerateRaises(w) PROVE ReadyHasPath'
    BY <1>10 DEF GenerateRaises, Status
<1>11. ASSUME NEW w \in Workers, FinishStale(w) PROVE ReadyHasPath'
    BY <1>11 DEF FinishStale, Status
<1>12. ASSUME NEW w \in Workers, FinishFails(w) PROVE ReadyHasPath'
    BY <1>12 DEF FinishFails, Status, Outage
<1>13. ASSUME NEW w \in Workers, RequestPushFails(w) PROVE ReadyHasPath'
    BY <1>13 DEF RequestPushFails, Status, Outage
<1>14. ASSUME NEW w \in Workers, PersistFailed(w) PROVE ReadyHasPath'
    BY <1>14 DEF PersistFailed, Status
<1>15. ASSUME NEW w \in Workers, PersistFailedFails(w) PROVE ReadyHasPath'
    BY <1>15 DEF PersistFailedFails, Status, Outage
<1>16. ASSUME NEW w \in Workers, Upload(w) PROVE ReadyHasPath'
    BY <1>16 DEF Upload, Status
<1>17. ASSUME NEW w \in Workers, UploadFails(w) PROVE ReadyHasPath'
    BY <1>17 DEF UploadFails, Status
<1>18. ASSUME NEW w \in Workers, RecordUrl(w) PROVE ReadyHasPath'
    BY <1>18 DEF RecordUrl, Status
<1>19. ASSUME NEW w \in Workers, RecordUrlFails(w) PROVE ReadyHasPath'
    BY <1>19 DEF RecordUrlFails, Status, Outage
<1>20. ASSUME NEW w \in Workers, Retry(w) PROVE ReadyHasPath'
    BY <1>20 DEF Retry, Status
<1>21. ASSUME NEW w \in Workers, RetryFails(w) PROVE ReadyHasPath'
    BY <1>21 DEF RetryFails, Status, Outage
<1>22. ASSUME NEW w \in Workers, Acknowledge(w) PROVE ReadyHasPath'
    BY <1>22 DEF Acknowledge, Status
<1>23. ASSUME NEW w \in Workers, WorkerLost(w) PROVE ReadyHasPath'
    BY <1>23 DEF WorkerLost, Status
<1>24. ASSUME NEW a \in Analysts, DeleteFile(a) PROVE ReadyHasPath'
    BY <1>24 DEF DeleteFile, Status
<1>25. ASSUME NEW a \in Analysts, DeleteFileFails(a) PROVE ReadyHasPath'
    BY <1>25 DEF DeleteFileFails, Status, Outage
<1>26. ASSUME NEW a \in Analysts, DeleteRow(a) PROVE ReadyHasPath'
    BY <1>26 DEF DeleteRow, Status
<1>27. ASSUME NEW a \in Analysts, DeleteRowFails(a) PROVE ReadyHasPath'
    BY <1>27 DEF DeleteRowFails, Status, Outage
<1>28. ASSUME NEW a \in Analysts, NEW i \in Reports, DeleteRead(a, i) PROVE ReadyHasPath'
    BY <1>28 DEF DeleteRead, Status
<1>30. ASSUME NEW w \in Workers, NEW i \in Reports, PushDeclined(w, i) PROVE ReadyHasPath'
    BY <1>30 DEF PushDeclined, Status
<1>31. ASSUME NEW w \in Workers, ChildLost(w) PROVE ReadyHasPath'
    BY <1>31 DEF ChildLost
<1>32. CASE SwitchLibrary
    BY <1>32 DEF SwitchLibrary
<1>29. CASE UNCHANGED vars
    BY <1>29 DEF vars, Status
<1> QED
    BY <1>1, <1>2, <1>3, <1>4, <1>5, <1>6, <1>7, <1>8, <1>9, <1>10, <1>11, <1>12, <1>13,
       <1>14, <1>15, <1>16, <1>17, <1>18, <1>19, <1>20, <1>21, <1>22, <1>23, <1>24,
       <1>25, <1>26, <1>27, <1>28, <1>29, <1>30, <1>31, <1>32
    DEF Next, WorkerStep, DeletionStep

\* Every step leaves a ready report of the library with its push ahead.
LEMMA StepReadyIsPushed ==
    TypeOK /\ TasksKeepToTheirPoints /\ ReadyHasPath /\ ReadyIsPushed /\ [Next]_vars
        => ReadyIsPushed'
PROOF
<1> DEFINE Pushed(id) ==
        \/ row[id].url \/ <<"push", id>> \in givenUp
        \/ Waiting("push", id) \/ At("push", id, Pushing)
        \/ Waiting("generate", id) \/ At("generate", id, {"ready"})
<1> SUFFICES ASSUME TypeOK, TasksKeepToTheirPoints, ReadyHasPath, ReadyIsPushed, [Next]_vars,
                    outages' = 0, NEW id \in flagged', row'[id].status = "ready",
                    Unhindered(id)'
             PROVE  Pushed(id)'
    BY DEF ReadyIsPushed
<1>0. id \in flagged /\ outages = 0 /\ row[id].status = "ready" => Pushed(id)
    BY MarksStay DEF ReadyIsPushed, Unhindered
<1>t. TypeOK' /\ id \in Reports
    BY StepTypeOK DEF TypeOK
<1> USE DEF bounds, delivery, Goto, TypeOK
<1>k. ASSUME NEW w \in Workers, work[w].pc # "ready", row[id].status = "ready",
             row'[id].url = row[id].url, flagged' = flagged, outages = 0,
             givenUp' = givenUp, jobs' = jobs,
             \A v \in Workers : v # w => work'[v] = work[v],
             work[w].pc \in Pushing => work'[w].pc \in Pushing /\ work'[w].job = work[w].job
      PROVE  Pushed(id)'
    BY <1>k, <1>0 DEF At, Waiting
<1>1. ASSUME NEW w \in Workers, NEW i \in Reports, Begin(w, i) PROVE Pushed(id)'
    <2>1. PICK n \in 0..MaxRetries :
              jobs' = [jobs EXCEPT ![[task |-> "generate", id |-> i, retries |-> n]] = @ - 1]
        BY <1>1 DEF Begin
    <2>2. \A j \in Job : j.task # "generate" \/ j.id # i => jobs'[j] = jobs[j]
        BY <2>1
    <2>3. flagged' = flagged /\ outages = 0 /\ givenUp' = givenUp
        BY <1>1 DEF Begin
    <2>4. CASE id = i
        BY <1>1, <2>4 DEF Begin
    <2>5. CASE id # i
        <3>1. Waiting("generate", id) => Waiting("generate", id)'
            <4>1. \A j \in Job : j.task = "generate" /\ j.id = id => jobs'[j] >= jobs[j]
                BY <2>2, <2>5
            <4> QED BY <1>t, <4>1, WaitingMore
        <3>2. Waiting("push", id) => Waiting("push", id)'
            <4>1. \A j \in Job : j.task = "push" /\ j.id = id => jobs'[j] >= jobs[j]
                BY <2>2
            <4> QED BY <1>t, <4>1, WaitingMore
        <3>3. \A v \in Workers : work[v] # Idle => work'[v] = work[v]
            BY <1>1 DEF Begin
        <3>4. row'[id] = row[id]
            BY <1>1, <2>5 DEF Begin
        <3>5. \A v \in Workers : work[v].pc \in Pushing \cup {"ready"} => work'[v] = work[v]
            BY <3>3 DEF Pushing, Idle
        <3> QED BY <1>0, <2>3, <3>1, <3>2, <3>4, <3>5 DEF At
    <2> QED BY <2>4, <2>5
<1>2. ASSUME NEW w \in Workers, NEW i \in Reports, BeginMissing(w, i) PROVE Pushed(id)'
    <2>1. PICK n \in 0..MaxRetries :
              jobs' = [jobs EXCEPT ![[task |-> "generate", id |-> i, retries |-> n]] = @ - 1]
        BY <1>2 DEF BeginMissing
    <2>2. \A j \in Job : j.task # "generate" \/ j.id # i => jobs'[j] = jobs[j]
        BY <2>1
    <2>3. flagged' = flagged /\ outages = 0 /\ givenUp' = givenUp
        BY <1>2 DEF BeginMissing
    <2>4. CASE id = i
        BY <1>2, <2>4 DEF BeginMissing, InTable
    <2>5. CASE id # i
        <3>1. Waiting("generate", id) => Waiting("generate", id)'
            <4>1. \A j \in Job : j.task = "generate" /\ j.id = id => jobs'[j] >= jobs[j]
                BY <2>2, <2>5
            <4> QED BY <1>t, <4>1, WaitingMore
        <3>2. Waiting("push", id) => Waiting("push", id)'
            <4>1. \A j \in Job : j.task = "push" /\ j.id = id => jobs'[j] >= jobs[j]
                BY <2>2
            <4> QED BY <1>t, <4>1, WaitingMore
        <3>3. \A v \in Workers : work[v] # Idle => work'[v] = work[v]
            BY <1>2 DEF BeginMissing
        <3>4. row'[id] = row[id]
            BY <1>2, <2>5 DEF BeginMissing
        <3>5. \A v \in Workers : work[v].pc \in Pushing \cup {"ready"} => work'[v] = work[v]
            BY <3>3 DEF Pushing, Idle
        <3> QED BY <1>0, <2>3, <3>1, <3>2, <3>4, <3>5 DEF At
    <2> QED BY <2>4, <2>5
<1>3. ASSUME NEW w \in Workers, NEW i \in Reports, PushBegin(w, i) PROVE Pushed(id)'
    <2>1. PICK n \in 0..MaxRetries :
              jobs' = [jobs EXCEPT ![[task |-> "push", id |-> i, retries |-> n]] = @ - 1]
        BY <1>3 DEF PushBegin
    <2>2. \A j \in Job : j.task # "push" \/ j.id # i => jobs'[j] = jobs[j]
        BY <2>1
    <2>3. flagged' = flagged /\ outages = 0 /\ givenUp' = givenUp
        BY <1>3 DEF PushBegin
    <2>4. row' = row
        BY <1>3 DEF PushBegin
    <2>5. CASE id = i
        <3>1. At("push", id, Pushing)'
            BY <1>3, <2>5 DEF PushBegin, At, Pushing
        <3> QED BY <3>1
    <2>6. CASE id # i
        <3>1. Waiting("generate", id) => Waiting("generate", id)'
            <4>1. \A j \in Job : j.task = "generate" /\ j.id = id => jobs'[j] >= jobs[j]
                BY <2>2
            <4> QED BY <1>t, <4>1, WaitingMore
        <3>2. Waiting("push", id) => Waiting("push", id)'
            <4>1. \A j \in Job : j.task = "push" /\ j.id = id => jobs'[j] >= jobs[j]
                BY <2>2, <2>6
            <4> QED BY <1>t, <4>1, WaitingMore
        <3>3. \A v \in Workers : work[v].pc \in Pushing \cup {"ready"} => work'[v] = work[v]
            BY <1>3 DEF PushBegin, Pushing, Idle
        <3> QED BY <1>0, <2>3, <2>4, <3>1, <3>2, <3>3 DEF At
    <2> QED BY <2>5, <2>6
<1>4. ASSUME NEW w \in Workers, NEW i \in Reports, PushSkips(w, i) PROVE Pushed(id)'
    <2>1. PICK n \in 0..MaxRetries :
              jobs' = [jobs EXCEPT ![[task |-> "push", id |-> i, retries |-> n]] = @ - 1]
        BY <1>4 DEF PushSkips
    <2>2. \A j \in Job : j.task # "push" \/ j.id # i => jobs'[j] = jobs[j]
        BY <2>1
    <2>3. flagged' = flagged /\ outages = 0 /\ givenUp' = givenUp
        BY <1>4 DEF PushSkips
    <2>4. row' = row /\ work' = work
        BY <1>4 DEF PushSkips
    <2>5. id # i
        BY <1>4, <1>t, <2>4 DEF PushSkips, ReadyHasPath
    <2>6. Waiting("generate", id) => Waiting("generate", id)'
        <3>1. \A j \in Job : j.task = "generate" /\ j.id = id => jobs'[j] >= jobs[j]
            BY <2>2
        <3> QED BY <1>t, <3>1, WaitingMore
    <2>7. Waiting("push", id) => Waiting("push", id)'
        <3>1. \A j \in Job : j.task = "push" /\ j.id = id => jobs'[j] >= jobs[j]
            BY <2>2, <2>5
        <3> QED BY <1>t, <3>1, WaitingMore
    <2> QED BY <1>0, <2>3, <2>4, <2>6, <2>7 DEF At
<1>5. ASSUME NEW w \in Workers, Render(w) PROVE Pushed(id)'
    <2>1. /\ work[w].pc # "ready" /\ flagged' = flagged /\ outages = 0
          /\ givenUp' = givenUp /\ jobs' = jobs
          /\ \A v \in Workers : v # w => work'[v] = work[v]
        BY <1>5 DEF Render
    <2>2. row[id].status = "ready" /\ row'[id].url = row[id].url
        BY <1>5 DEF Render
    <2>3. work[w].pc \in Pushing => work'[w].pc \in Pushing /\ work'[w].job = work[w].job
        BY <1>5, WorkShape DEF Render, Pushing, Points
    <2> QED BY <1>k, <2>1, <2>2, <2>3
<1>6. ASSUME NEW w \in Workers, StoreBegin(w) PROVE Pushed(id)'
    <2>1. /\ work[w].pc # "ready" /\ flagged' = flagged /\ outages = 0
          /\ givenUp' = givenUp /\ jobs' = jobs
          /\ \A v \in Workers : v # w => work'[v] = work[v]
        BY <1>6 DEF StoreBegin
    <2>2. row[id].status = "ready" /\ row'[id].url = row[id].url
        BY <1>6 DEF StoreBegin
    <2>3. work[w].pc \in Pushing => work'[w].pc \in Pushing /\ work'[w].job = work[w].job
        BY <1>6, WorkShape DEF StoreBegin, Pushing, Points
    <2> QED BY <1>k, <2>1, <2>2, <2>3
<1>7. ASSUME NEW w \in Workers, StoreEnd(w) PROVE Pushed(id)'
    <2>1. /\ work[w].pc # "ready" /\ flagged' = flagged /\ outages = 0
          /\ givenUp' = givenUp /\ jobs' = jobs
          /\ \A v \in Workers : v # w => work'[v] = work[v]
        BY <1>7 DEF StoreEnd
    <2>2. row[id].status = "ready" /\ row'[id].url = row[id].url
        BY <1>7 DEF StoreEnd
    <2>3. work[w].pc \in Pushing => work'[w].pc \in Pushing /\ work'[w].job = work[w].job
        BY <1>7, WorkShape DEF StoreEnd, Pushing, Points
    <2> QED BY <1>k, <2>1, <2>2, <2>3
<1>8. ASSUME NEW w \in Workers, Finish(w) PROVE Pushed(id)'
    <2>0. PICK i : i = work[w].job.id
        OBVIOUS
    <2>1. /\ work[w].pc = "stored" /\ flagged' = flagged /\ outages = 0
          /\ givenUp' = givenUp /\ jobs' = jobs
          /\ \A v \in Workers : v # w => work'[v] = work[v]
        BY <1>8 DEF Finish
    <2>2. /\ work[w].job.task = "generate"
          /\ work'[w].pc = "ready" /\ work'[w].job = work[w].job
        BY <1>8, <2>1, WorkShape DEF Finish, Points, TasksKeepToTheirPoints, Pushing
    <2>3. CASE id = i
        <3>1. At("generate", id, {"ready"})'
            BY <2>0, <2>2, <2>3 DEF At
        <3> QED BY <3>1
    <2>4. CASE id # i
        <3>1. row'[id] = row[id]
            BY <1>8, <2>0, <2>4 DEF Finish
        <3>2. work[w].pc \notin Pushing
            BY <2>1 DEF Pushing
        <3> QED BY <1>k, <2>1, <3>1, <3>2
    <2> QED BY <2>3, <2>4
<1>9. ASSUME NEW w \in Workers, RequestPush(w) PROVE Pushed(id)'
    <2>0. PICK i : i = work[w].job.id
        OBVIOUS
    <2>1. work[w].pc = "ready" /\ i \in Reports
        BY <1>9, <2>0, WorkShape DEF RequestPush, Points
    <2>2. jobs' = IF i \in flagged THEN [jobs EXCEPT ![Push(i)] = @ + 1] ELSE jobs
        BY <1>9, <2>0 DEF RequestPush
    <2>3. Push(i) \in Job /\ Push(i).task = "push" /\ Push(i).id = i
        BY <2>1, Bounds DEF Push, Job
    <2>4. \A j \in Job : jobs'[j] >= jobs[j]
        BY <2>2, <2>3
    <2>5. i \in flagged => Waiting("push", i)'
        <3>1. i \in flagged => jobs'[Push(i)] > 0
            BY <2>2, <2>3
        <3> QED BY <2>3, <3>1, WaitingNow
    <2>6. /\ Waiting("push", id) => Waiting("push", id)'
          /\ Waiting("generate", id) => Waiting("generate", id)'
        BY <1>t, <2>4, WaitingMore
    <2>7. flagged' = flagged /\ outages = 0 /\ givenUp' = givenUp /\ row' = row
        BY <1>9 DEF RequestPush
    <2>8. \A v \in Workers : v # w => work'[v] = work[v]
        BY <1>9 DEF RequestPush
    <2> QED BY <1>0, <2>0, <2>1, <2>5, <2>6, <2>7, <2>8 DEF At, Pushing
<1>10. ASSUME NEW w \in Workers, GenerateRaises(w) PROVE Pushed(id)'
    <2>1. /\ work[w].pc # "ready" /\ flagged' = flagged /\ outages = 0
          /\ givenUp' = givenUp /\ jobs' = jobs
          /\ \A v \in Workers : v # w => work'[v] = work[v]
        BY <1>10 DEF GenerateRaises
    <2>2. row[id].status = "ready" /\ row'[id].url = row[id].url
        BY <1>10 DEF GenerateRaises
    <2>3. work[w].pc \in Pushing => work'[w].pc \in Pushing /\ work'[w].job = work[w].job
        BY <1>10, WorkShape DEF GenerateRaises, Pushing, Points
    <2> QED BY <1>k, <2>1, <2>2, <2>3
<1>11. ASSUME NEW w \in Workers, FinishStale(w) PROVE Pushed(id)'
    <2>1. /\ work[w].pc # "ready" /\ flagged' = flagged /\ outages = 0
          /\ givenUp' = givenUp /\ jobs' = jobs
          /\ \A v \in Workers : v # w => work'[v] = work[v]
        BY <1>11 DEF FinishStale
    <2>2. row[id].status = "ready" /\ row'[id].url = row[id].url
        BY <1>11 DEF FinishStale
    <2>3. work[w].pc \in Pushing => work'[w].pc \in Pushing /\ work'[w].job = work[w].job
        BY <1>11, WorkShape DEF FinishStale, Pushing, Points
    <2> QED BY <1>k, <2>1, <2>2, <2>3
<1>12. ASSUME NEW w \in Workers, FinishFails(w) PROVE Pushed(id)'
    BY <1>12 DEF FinishFails, Outage
<1>13. ASSUME NEW w \in Workers, RequestPushFails(w) PROVE Pushed(id)'
    BY <1>13 DEF RequestPushFails, Outage
<1>14. ASSUME NEW w \in Workers, PersistFailed(w) PROVE Pushed(id)'
    <2>1. flagged' = flagged /\ outages = 0 /\ givenUp' = givenUp /\ jobs' = jobs
        BY <1>14 DEF PersistFailed
    <2>2. id # work[w].job.id
        <3> SUFFICES ASSUME id = work[w].job.id PROVE FALSE
            OBVIOUS
        <3>1. CASE InTable(id)
            BY <1>14, <1>t, <3>1 DEF PersistFailed
        <3>2. CASE ~InTable(id)
            BY <1>14, <3>2 DEF PersistFailed, InTable
        <3> QED BY <3>1, <3>2
    <2>3. row'[id] = row[id]
        BY <1>14, <2>2 DEF PersistFailed
    <2>4. \A v \in Workers : v # w => work'[v] = work[v]
        BY <1>14 DEF PersistFailed
    <2> QED BY <1>0, <2>1, <2>2, <2>3, <2>4 DEF At, Waiting
<1>15. ASSUME NEW w \in Workers, PersistFailedFails(w) PROVE Pushed(id)'
    BY <1>15 DEF PersistFailedFails, Outage
<1>16. ASSUME NEW w \in Workers, Upload(w) PROVE Pushed(id)'
    <2>1. /\ work[w].pc # "ready" /\ flagged' = flagged /\ outages = 0
          /\ givenUp' = givenUp /\ jobs' = jobs
          /\ \A v \in Workers : v # w => work'[v] = work[v]
        BY <1>16 DEF Upload
    <2>2. row[id].status = "ready" /\ row'[id].url = row[id].url
        BY <1>16 DEF Upload
    <2>3. work[w].pc \in Pushing => work'[w].pc \in Pushing /\ work'[w].job = work[w].job
        BY <1>16, WorkShape DEF Upload, Pushing, Points
    <2> QED BY <1>k, <2>1, <2>2, <2>3
<1>17. ASSUME NEW w \in Workers, UploadFails(w) PROVE Pushed(id)'
    <2>1. /\ work[w].pc # "ready" /\ flagged' = flagged /\ outages = 0
          /\ givenUp' = givenUp /\ jobs' = jobs
          /\ \A v \in Workers : v # w => work'[v] = work[v]
        BY <1>17 DEF UploadFails
    <2>2. row[id].status = "ready" /\ row'[id].url = row[id].url
        BY <1>17 DEF UploadFails
    <2>3. work[w].pc \in Pushing => work'[w].pc \in Pushing /\ work'[w].job = work[w].job
        BY <1>17, WorkShape DEF UploadFails, Pushing, Points
    <2> QED BY <1>k, <2>1, <2>2, <2>3
<1>18. ASSUME NEW w \in Workers, RecordUrl(w) PROVE Pushed(id)'
    <2>0. PICK i : i = work[w].job.id
        OBVIOUS
    <2>1. flagged' = flagged /\ outages = 0 /\ givenUp' = givenUp /\ jobs' = jobs
        BY <1>18 DEF RecordUrl
    <2>2. \A v \in Workers : v # w => work'[v] = work[v]
        BY <1>18 DEF RecordUrl, Goto
    <2>3. work[w].pc = "uploaded" /\ work[w].job.task # "generate"
        BY <1>18, WorkShape DEF RecordUrl, TasksKeepToTheirPoints, Points, Generating
    <2>4. row[id].status = "ready" /\ row'[id].status = "ready"
        BY <1>18, <1>t DEF RecordUrl
    <2>5. CASE id = i
        <3>1. row'[id].url
            BY <1>18, <2>0, <2>4, <2>5 DEF RecordUrl, InTable
        <3> QED BY <3>1
    <2>6. CASE id # i
        <3>1. row'[id] = row[id]
            BY <1>18, <2>0, <2>6 DEF RecordUrl
        <3>2. CASE work[w].job.id = id
            BY <2>0, <2>6, <3>2
        <3> QED BY <1>0, <2>0, <2>1, <2>2, <2>3, <2>4, <2>6, <3>1 DEF At, Waiting
    <2> QED BY <2>5, <2>6
<1>19. ASSUME NEW w \in Workers, RecordUrlFails(w) PROVE Pushed(id)'
    BY <1>19 DEF RecordUrlFails, Outage
<1>20. ASSUME NEW w \in Workers, Retry(w) PROVE Pushed(id)'
    <2>0. PICK j : j = work[w].job
        OBVIOUS
    <2> DEFINE again == [task |-> j.task, id |-> j.id, retries |-> j.retries + 1]
    <2>1. j \in Job /\ work[w].pc = "retrying"
        BY <1>20, <2>0, WorkShape DEF Retry, Points
    <2>2. row' = row /\ outages = 0 /\ flagged' = flagged
        BY <1>20 DEF Retry
    <2>3. \A v \in Workers : v # w => work'[v] = work[v]
        BY <1>20 DEF Retry
    <2>4. CASE j.retries < MaxRetries
        <3>1. jobs' = [jobs EXCEPT ![again] = @ + 1] /\ givenUp' = givenUp
            BY <1>20, <2>0, <2>4 DEF Retry
        <3>2. again \in Job
            BY <2>1, <2>4, Bounds DEF Job
        <3>3. jobs'[again] > 0 /\ \A k \in Job : jobs'[k] >= jobs[k]
            BY <3>1, <3>2
        <3>4. Waiting(j.task, j.id)'
            BY <3>2, <3>3, WaitingNow, again.task = j.task, again.id = j.id
        <3>5. /\ Waiting("generate", id) => Waiting("generate", id)'
              /\ Waiting("push", id) => Waiting("push", id)'
            BY <3>3, <1>t, WaitingMore
        <3> QED BY <1>0, <2>0, <2>1, <2>2, <2>3, <3>1, <3>4, <3>5 DEF At, Pushing
    <2>5. CASE ~(j.retries < MaxRetries)
        <3>1. jobs' = jobs /\ givenUp' = givenUp \cup {<<j.task, j.id>>}
            BY <1>20, <2>0, <2>5 DEF Retry
        <3> QED BY <1>0, <2>0, <2>1, <2>2, <2>3, <3>1 DEF At, Pushing, Waiting
    <2> QED BY <2>4, <2>5
<1>21. ASSUME NEW w \in Workers, RetryFails(w) PROVE Pushed(id)'
    BY <1>21 DEF RetryFails, Outage
<1>22. ASSUME NEW w \in Workers, Acknowledge(w) PROVE Pushed(id)'
    <2>1. /\ work[w].pc # "ready" /\ flagged' = flagged /\ outages = 0
          /\ givenUp' = givenUp /\ jobs' = jobs
          /\ \A v \in Workers : v # w => work'[v] = work[v]
        BY <1>22 DEF Acknowledge
    <2>2. row[id].status = "ready" /\ row'[id].url = row[id].url
        BY <1>22 DEF Acknowledge
    <2>3. work[w].pc \in Pushing => work'[w].pc \in Pushing /\ work'[w].job = work[w].job
        BY <1>22, WorkShape DEF Acknowledge, Pushing, Points
    <2> QED BY <1>k, <2>1, <2>2, <2>3
<1>23. ASSUME NEW w \in Workers, WorkerLost(w) PROVE Pushed(id)'
    <2>0. PICK j : j = work[w].job
        OBVIOUS
    <2>1. j \in Job
        BY <1>23, <2>0, WorkShape DEF WorkerLost, Task
    <2>2. /\ jobs' = [jobs EXCEPT ![j] = @ + 1] /\ row' = row /\ outages = 0 /\ givenUp' = givenUp
          /\ flagged' = flagged
        BY <1>23, <2>0 DEF WorkerLost
    <2>3. jobs'[j] > 0 /\ \A k \in Job : jobs'[k] >= jobs[k]
        BY <2>1, <2>2
    <2>4. Waiting(j.task, j.id)'
        BY <2>1, <2>3, WaitingNow
    <2>5. /\ Waiting("generate", id) => Waiting("generate", id)'
          /\ Waiting("push", id) => Waiting("push", id)'
        BY <2>3, <1>t, WaitingMore
    <2>6. \A v \in Workers : v # w => work'[v] = work[v]
        BY <1>23 DEF WorkerLost
    <2>7. work[w] # Idle /\ (j.task = "generate" \/ j.task = "push")
        BY <1>23, <2>1 DEF WorkerLost, Job
    <2> QED BY <1>0, <2>7, <2>0, <2>2, <2>4, <2>5, <2>6 DEF At
<1>24. ASSUME NEW a \in Analysts, DeleteFile(a) PROVE Pushed(id)'
    <2>1. flagged' = flagged /\ outages = 0 /\ givenUp' = givenUp /\ jobs' = jobs /\ work' = work
        BY <1>24 DEF DeleteFile
    <2>2. row[id].status = "ready" /\ row'[id].url = row[id].url
        BY <1>24, <1>t DEF DeleteFile
    <2> QED BY <1>0, <2>1, <2>2 DEF At, Waiting
<1>25. ASSUME NEW a \in Analysts, DeleteFileFails(a) PROVE Pushed(id)'
    BY <1>25 DEF DeleteFileFails, Outage
<1>26. ASSUME NEW a \in Analysts, DeleteRow(a) PROVE Pushed(id)'
    <2>1. flagged' = flagged /\ outages = 0 /\ givenUp' = givenUp /\ jobs' = jobs /\ work' = work
        BY <1>26 DEF DeleteRow
    <2>2. row[id].status = "ready" /\ row'[id].url = row[id].url
        BY <1>26, <1>t DEF DeleteRow
    <2> QED BY <1>0, <2>1, <2>2 DEF At, Waiting
<1>27. ASSUME NEW a \in Analysts, DeleteRowFails(a) PROVE Pushed(id)'
    BY <1>27 DEF DeleteRowFails, Outage
<1>28. ASSUME NEW a \in Analysts, NEW i \in Reports, DeleteRead(a, i) PROVE Pushed(id)'
    <2>1. flagged' = flagged /\ outages = 0 /\ givenUp' = givenUp /\ jobs' = jobs /\ work' = work
        BY <1>28 DEF DeleteRead
    <2>2. row[id].status = "ready" /\ row'[id].url = row[id].url
        BY <1>28, <1>t DEF DeleteRead
    <2> QED BY <1>0, <2>1, <2>2 DEF At, Waiting
<1>30. ASSUME NEW w \in Workers, NEW i \in Reports, PushDeclined(w, i) PROVE Pushed(id)'
    <2>1. PICK n \in 0..MaxRetries :
              jobs' = [jobs EXCEPT ![[task |-> "push", id |-> i, retries |-> n]] = @ - 1]
        BY <1>30 DEF PushDeclined
    <2>2. id # i
        BY <1>30 DEF PushDeclined, Unhindered
    <2>3. \A j \in Job : j.id = id => jobs'[j] = jobs[j]
        BY <2>1, <2>2
    <2>4. /\ Waiting("generate", id) => Waiting("generate", id)'
          /\ Waiting("push", id) => Waiting("push", id)'
        <3>1. \A j \in Job : j.id = id => jobs'[j] >= jobs[j]
            BY <2>3
        <3> QED BY <1>t, <3>1, WaitingMore
    <2>5. work' = work /\ row' = row /\ flagged' = flagged /\ outages = 0 /\ givenUp' = givenUp
        BY <1>30 DEF PushDeclined
    <2> QED BY <1>0, <2>4, <2>5 DEF At
<1>31. ASSUME NEW w \in Workers, ChildLost(w) PROVE Pushed(id)'
    <2>1. /\ row' = row /\ jobs' = jobs /\ outages = 0 /\ givenUp' = givenUp
          /\ flagged' = flagged /\ \A v \in Workers : v # w => work'[v] = work[v]
        BY <1>31 DEF ChildLost
    <2>2. ~(work[w].job.task \in {"generate", "push"} /\ work[w].job.id = id)
        BY <1>31 DEF ChildLost, Unhindered
    <2> QED BY <1>0, <2>1, <2>2 DEF At, Waiting
<1>32. CASE SwitchLibrary
    BY <1>32, <1>0 DEF SwitchLibrary, Waiting, At
<1>29. CASE UNCHANGED vars
    <2>1. /\ flagged' = flagged /\ outages = 0 /\ givenUp' = givenUp /\ jobs' = jobs
          /\ work' = work /\ row' = row
        BY <1>29 DEF vars
    <2> QED BY <1>0, <2>1 DEF At, Waiting
<1> QED
    BY <1>1, <1>2, <1>3, <1>4, <1>5, <1>6, <1>7, <1>8, <1>9, <1>10, <1>11, <1>12, <1>13,
       <1>14, <1>15, <1>16, <1>17, <1>18, <1>19, <1>20, <1>21, <1>22, <1>23, <1>24,
       <1>25, <1>26, <1>27, <1>28, <1>29, <1>30, <1>31, <1>32
    DEF Next, WorkerStep, DeletionStep


\* Whatever workers are lost between COMMIT and push, a ready version that belongs
\* in the document library gets there, unless its push has used all its retries or
\* found the integration disabled, or a task of the report was killed.
THEOREM NoPushIsLost == Spec => []DrainedReadyIsPushed
PROOF
<1> DEFINE I == TypeOK /\ TasksKeepToTheirPoints /\ ReadyHasPath /\ ReadyIsPushed
<1>1. Init => I
    <2>1. Init => ReadyHasPath /\ ReadyIsPushed /\ TasksKeepToTheirPoints
        BY DEF Init, TypeOK, ReadyHasPath, ReadyIsPushed, TasksKeepToTheirPoints
    <2> QED BY <2>1, InitTypeOK
<1>2. I /\ [Next]_vars => I'
    BY StepTypeOK, StepTasks, StepReadyHasPath, StepReadyIsPushed
<1>3. I => DrainedReadyIsPushed
    <2> SUFFICES ASSUME I, outages = 0, NEW id \in flagged, row[id].status = "ready",
                        Drained("generate", id), Drained("push", id), Unhindered(id)
                 PROVE  row[id].url \/ <<"push", id>> \in givenUp
        BY DEF DrainedReadyIsPushed, Unhindered
    <2>1. ~Waiting("generate", id) /\ ~Waiting("push", id)
        BY DrainedIsNotWaiting
    <2>2. ~At("push", id, Pushing)
        BY DEF Drained, At, Idle, Pushing
    <2>3. ~At("generate", id, {"ready"})
        BY DEF Drained, At, Idle
    <2> QED BY <2>1, <2>2, <2>3 DEF ReadyIsPushed
<1> QED BY <1>1, <1>2, <1>3, PTL DEF Spec

-----------------------------------------------------------------------------
(* Ready reports                                                             *)

\* A generation message of a report.
Message(id, n) == [task |-> "generate", id |-> id, retries |-> n]

\* Worker w executes generate_report for the report and is at one of the points.
Running == Generating \cup {"ready", "retrying"}
RunsAt(w, id, points) ==
    work[w].pc \in points /\ work[w].job.task = "generate" /\ work[w].job.id = id

\* As long as no worker was lost a report has one generation at most: one worker that
\* executes it, or one message that waits.
OneExecution ==
    crashes = 0 => \A id \in Reports :
        /\ \A v, w \in Workers : RunsAt(v, id, Running) /\ RunsAt(w, id, Running) => v = w
        /\ \A w \in Workers, n \in 0..MaxRetries :
              RunsAt(w, id, Running) => jobs[Message(id, n)] = 0
        /\ \A n \in 0..MaxRetries : jobs[Message(id, n)] <= 1
        /\ \A m, n \in 0..MaxRetries :
              jobs[Message(id, m)] > 0 /\ jobs[Message(id, n)] > 0 => m = n

\* The report whose PDF is being built says so, or is deleted.
BuildsGenerating ==
    crashes = 0 => \A id \in Reports, w \in Workers :
        RunsAt(w, id, {"begun", "rendered", "storing", "stored"}) =>
            row[id].status \in {"generating", "deleted"}

\* As long as no call failed either, the status tells how far the generation has
\* come, and the path is there with "ready" only, for a deletion too.
StatusTellsTheRun ==
    crashes = 0 /\ outages = 0 => \A id \in Reports :
        /\ \A w \in Workers :
              /\ RunsAt(w, id, {"failing"}) => row[id].status \in {"generating", "deleted"}
              /\ RunsAt(w, id, {"retrying"}) => row[id].status \in {"failed", "deleted"}
        /\ Waiting("generate", id) => row[id].status \in {"pending", "failed", "deleted"}
        /\ row[id].path => row[id].status = "ready"
        /\ \A a \in Analysts : deletion[a] # Idle /\ deletion[a].id = id /\ deletion[a].path =>
              row[id].status \in {"ready", "deleted"}

\* A deletion that is under way has been counted.
DeletionsCounted == deletes = 0 => \A a \in Analysts : deletion[a] = Idle

\* A report that is about to become ready, or is ready, has its whole PDF, unless a
\* deletion has taken the file.
FileOfRun ==
    crashes = 0 /\ (deletes = 0 \/ outages = 0) => \A id \in Reports :
        /\ \A w \in Workers : RunsAt(w, id, {"stored"}) /\ InTable(id) => file[id] = "whole"
        /\ row[id].status = "ready" => file[id] = "whole" \/ Deleting(id)

\* Every generation message is a message, and counted in natural numbers.
LEMMA MessageIsJob ==
    ASSUME NEW id \in Reports, NEW n \in 0..MaxRetries
    PROVE  /\ Message(id, n) \in Job
           /\ Message(id, n).task = "generate" /\ Message(id, n).id = id
           /\ Message(id, n).retries = n
PROOF BY DEF Message, Job

\* A step that starts no execution and sends no message keeps a report's one
\* generation the only one.
LEMMA NothingStarted ==
    ASSUME TypeOK, TypeOK', OneExecution, crashes = 0, NEW id \in Reports,
           \A v \in Workers : RunsAt(v, id, Running)' => RunsAt(v, id, Running),
           \A j \in Job : j.task = "generate" /\ j.id = id => jobs'[j] <= jobs[j]
    PROVE  /\ \A v, w \in Workers : RunsAt(v, id, Running)' /\ RunsAt(w, id, Running)' => v = w
           /\ \A w \in Workers, n \in 0..MaxRetries :
                 RunsAt(w, id, Running)' => jobs'[Message(id, n)] = 0
           /\ \A n \in 0..MaxRetries : jobs'[Message(id, n)] <= 1
           /\ \A m, n \in 0..MaxRetries :
                 jobs'[Message(id, m)] > 0 /\ jobs'[Message(id, n)] > 0 => m = n
PROOF
<1>1. \A n \in 0..MaxRetries :
          /\ jobs[Message(id, n)] \in Nat /\ jobs'[Message(id, n)] \in Nat
          /\ jobs'[Message(id, n)] <= jobs[Message(id, n)]
    BY MessageIsJob DEF TypeOK
<1> QED BY <1>1 DEF OneExecution

\* No call gives a report a second generation.
LEMMA StepOneExecution ==
    TypeOK /\ TasksKeepToTheirPoints /\ OneExecution /\ [Next]_vars => OneExecution'
PROOF
<1> DEFINE One(id) ==
        /\ \A v, w \in Workers : RunsAt(v, id, Running) /\ RunsAt(w, id, Running) => v = w
        /\ \A w \in Workers, n \in 0..MaxRetries :
              RunsAt(w, id, Running) => jobs[Message(id, n)] = 0
        /\ \A n \in 0..MaxRetries : jobs[Message(id, n)] <= 1
        /\ \A m, n \in 0..MaxRetries :
              jobs[Message(id, m)] > 0 /\ jobs[Message(id, n)] > 0 => m = n
<1> SUFFICES ASSUME TypeOK, TasksKeepToTheirPoints, OneExecution, [Next]_vars, crashes' = 0, NEW id \in Reports
             PROVE  One(id)'
    BY DEF OneExecution
<1>t. TypeOK'
    BY StepTypeOK
<1>k. ASSUME crashes = 0,
             \A v \in Workers : RunsAt(v, id, Running)' => RunsAt(v, id, Running),
             \A j \in Job : j.task = "generate" /\ j.id = id => jobs'[j] <= jobs[j]
      PROVE  One(id)'
    BY <1>k, <1>t, NothingStarted
<1>o. crashes = 0 => One(id)
    BY DEF OneExecution
<1>n. \A n \in 0..MaxRetries : jobs[Message(id, n)] \in Nat
    BY MessageIsJob DEF TypeOK
<1> USE DEF bounds, delivery, Goto, TypeOK, Running, Generating
<1>1. ASSUME NEW w \in Workers, NEW i \in Reports, Begin(w, i) PROVE One(id)'
    <2>1. PICK n \in 0..MaxRetries :
              /\ jobs[Message(i, n)] > 0
              /\ jobs' = [jobs EXCEPT ![Message(i, n)] = @ - 1]
              /\ work' = [work EXCEPT ![w] = [pc |-> "begun", job |-> Message(i, n), data |-> "none"]]
        BY <1>1 DEF Begin, Message
    <2>2. crashes = 0 /\ Message(i, n) \in Job /\ Message(i, n).id = i
        BY <1>1, MessageIsJob DEF Begin
    <2>3. CASE id = i
        <3>1. \A m \in 0..MaxRetries : jobs'[Message(id, m)] = 0
            <4> TAKE m \in 0..MaxRetries
            <4>1. CASE m = n
                BY <1>n, <1>o, <2>1, <2>2, <2>3, <4>1
            <4>2. CASE m # n
                <5>1. Message(id, m) # Message(id, n) /\ jobs[Message(id, m)] = 0
                    BY <1>n, <1>o, <2>1, <2>2, <2>3, <4>2 DEF Message
                <5> QED BY <2>1, <2>3, <5>1
            <4> QED BY <4>1, <4>2
        <3>2. \A v \in Workers : ~RunsAt(v, id, Running)
            BY <1>n, <1>o, <2>1, <2>2, <2>3
        <3>3. \A v \in Workers : RunsAt(v, id, Running)' => v = w
            BY <2>1, <3>2 DEF RunsAt
        <3> QED BY <3>1, <3>3
    <2>4. CASE id # i
        <3>1. \A v \in Workers : RunsAt(v, id, Running)' => RunsAt(v, id, Running)
            BY <2>1, <2>2, <2>4 DEF RunsAt
        <3>2. \A j \in Job : j.task = "generate" /\ j.id = id => jobs'[j] <= jobs[j]
            BY <2>1, <2>2, <2>4
        <3> QED BY <1>k, <2>2, <3>1, <3>2
    <2> QED BY <2>3, <2>4
<1>2. ASSUME NEW w \in Workers, NEW i \in Reports, BeginMissing(w, i) PROVE One(id)'
    <2>1. PICK n \in 0..MaxRetries :
              jobs' = [jobs EXCEPT ![[task |-> "generate", id |-> i, retries |-> n]] = @ - 1]
        BY <1>2 DEF BeginMissing
    <2>2. \A j \in Job : jobs'[j] <= jobs[j]
        BY <2>1
    <2> QED BY <1>k, <1>2, <2>2 DEF BeginMissing, RunsAt
<1>3. ASSUME NEW w \in Workers, NEW i \in Reports, PushBegin(w, i) PROVE One(id)'
    <2>1. PICK n \in 0..MaxRetries :
              LET j == [task |-> "push", id |-> i, retries |-> n]
              IN  /\ jobs' = [jobs EXCEPT ![j] = @ - 1]
                  /\ work' = [work EXCEPT ![w] =
                                 [pc |-> IF file[i] = "none" THEN "retrying" ELSE "fetched",
                                  job |-> j, data |-> file[i]]]
        BY <1>3 DEF PushBegin
    <2>2. \A j \in Job : jobs'[j] <= jobs[j]
        BY <2>1
    <2>3. \A v \in Workers : RunsAt(v, id, Running)' => RunsAt(v, id, Running)
        BY <2>1 DEF RunsAt
    <2> QED BY <1>k, <1>3, <2>2, <2>3 DEF PushBegin
<1>4. ASSUME NEW w \in Workers, NEW i \in Reports, PushSkips(w, i) PROVE One(id)'
    <2>1. PICK n \in 0..MaxRetries :
              jobs' = [jobs EXCEPT ![[task |-> "push", id |-> i, retries |-> n]] = @ - 1]
        BY <1>4 DEF PushSkips
    <2>2. \A j \in Job : jobs'[j] <= jobs[j]
        BY <2>1
    <2> QED BY <1>k, <1>4, <2>2 DEF PushSkips, RunsAt
<1>5. ASSUME NEW w \in Workers, Render(w) PROVE One(id)'
    <2>1. \A v \in Workers : RunsAt(v, id, Running)' => RunsAt(v, id, Running)
        BY <1>5 DEF Render, RunsAt
    <2> QED BY <1>k, <1>5, <2>1 DEF Render
<1>6. ASSUME NEW w \in Workers, StoreBegin(w) PROVE One(id)'
    <2>1. \A v \in Workers : RunsAt(v, id, Running)' => RunsAt(v, id, Running)
        BY <1>6 DEF StoreBegin, RunsAt
    <2> QED BY <1>k, <1>6, <2>1 DEF StoreBegin
<1>7. ASSUME NEW w \in Workers, StoreEnd(w) PROVE One(id)'
    <2>1. \A v \in Workers : RunsAt(v, id, Running)' => RunsAt(v, id, Running)
        BY <1>7 DEF StoreEnd, RunsAt
    <2> QED BY <1>k, <1>7, <2>1 DEF StoreEnd
<1>8. ASSUME NEW w \in Workers, Finish(w) PROVE One(id)'
    <2>1. \A v \in Workers : RunsAt(v, id, Running)' => RunsAt(v, id, Running)
        BY <1>8 DEF Finish, RunsAt
    <2> QED BY <1>k, <1>8, <2>1 DEF Finish
<1>9. ASSUME NEW w \in Workers, RequestPush(w) PROVE One(id)'
    <2>1. \A j \in Job : j.task = "generate" => jobs'[j] = jobs[j]
        BY <1>9 DEF RequestPush, Push
    <2>2. \A v \in Workers : RunsAt(v, id, Running)' => RunsAt(v, id, Running)
        BY <1>9 DEF RequestPush, RunsAt
    <2> QED BY <1>k, <1>9, <2>1, <2>2 DEF RequestPush
<1>10. ASSUME NEW w \in Workers, GenerateRaises(w) PROVE One(id)'
    <2>1. \A v \in Workers : RunsAt(v, id, Running)' => RunsAt(v, id, Running)
        BY <1>10 DEF GenerateRaises, RunsAt
    <2> QED BY <1>k, <1>10, <2>1 DEF GenerateRaises
<1>11. ASSUME NEW w \in Workers, FinishStale(w) PROVE One(id)'
    <2>1. \A v \in Workers : RunsAt(v, id, Running)' => RunsAt(v, id, Running)
        BY <1>11 DEF FinishStale, RunsAt
    <2> QED BY <1>k, <1>11, <2>1 DEF FinishStale
<1>12. ASSUME NEW w \in Workers, FinishFails(w) PROVE One(id)'
    <2>1. \A v \in Workers : RunsAt(v, id, Running)' => RunsAt(v, id, Running)
        BY <1>12 DEF FinishFails, RunsAt, Outage
    <2> QED BY <1>k, <1>12, <2>1 DEF FinishFails, Outage
<1>13. ASSUME NEW w \in Workers, RequestPushFails(w) PROVE One(id)'
    <2>1. \A v \in Workers : RunsAt(v, id, Running)' => RunsAt(v, id, Running)
        BY <1>13 DEF RequestPushFails, RunsAt, Outage
    <2> QED BY <1>k, <1>13, <2>1 DEF RequestPushFails, Outage
<1>14. ASSUME NEW w \in Workers, PersistFailed(w) PROVE One(id)'
    <2>1. \A v \in Workers : RunsAt(v, id, Running)' => RunsAt(v, id, Running)
        BY <1>14 DEF PersistFailed, RunsAt
    <2> QED BY <1>k, <1>14, <2>1 DEF PersistFailed
<1>15. ASSUME NEW w \in Workers, PersistFailedFails(w) PROVE One(id)'
    <2>1. \A v \in Workers : RunsAt(v, id, Running)' => RunsAt(v, id, Running)
        BY <1>15 DEF PersistFailedFails, RunsAt, Outage
    <2> QED BY <1>k, <1>15, <2>1 DEF PersistFailedFails, Outage
<1>16. ASSUME NEW w \in Workers, Upload(w) PROVE One(id)'
    <2>1. \A v \in Workers : RunsAt(v, id, Running)' => RunsAt(v, id, Running)
        BY <1>16, WorkShape DEF Upload, RunsAt, TasksKeepToTheirPoints, Points
    <2> QED BY <1>k, <1>16, <2>1 DEF Upload
<1>17. ASSUME NEW w \in Workers, UploadFails(w) PROVE One(id)'
    <2>1. \A v \in Workers : RunsAt(v, id, Running)' => RunsAt(v, id, Running)
        BY <1>17, WorkShape DEF UploadFails, RunsAt, TasksKeepToTheirPoints, Points
    <2> QED BY <1>k, <1>17, <2>1 DEF UploadFails
<1>18. ASSUME NEW w \in Workers, RecordUrl(w) PROVE One(id)'
    <2>1. \A v \in Workers : RunsAt(v, id, Running)' => RunsAt(v, id, Running)
        BY <1>18, WorkShape DEF RecordUrl, RunsAt, TasksKeepToTheirPoints, Points
    <2> QED BY <1>k, <1>18, <2>1 DEF RecordUrl
<1>19. ASSUME NEW w \in Workers, RecordUrlFails(w) PROVE One(id)'
    <2>1. \A v \in Workers : RunsAt(v, id, Running)' => RunsAt(v, id, Running)
        BY <1>19, WorkShape DEF RecordUrlFails, RunsAt, Outage, TasksKeepToTheirPoints, Points
    <2> QED BY <1>k, <1>19, <2>1 DEF RecordUrlFails, Outage
<1>20. ASSUME NEW w \in Workers, Retry(w) PROVE One(id)'
    <2>0. PICK j : j = work[w].job
        OBVIOUS
    <2>1. /\ work[w].pc = "retrying" /\ j \in Job /\ crashes = 0
          /\ work' = [work EXCEPT ![w].pc = "done"]
        BY <1>20, <2>0, WorkShape DEF Retry, Points
    <2>2. \A v \in Workers : RunsAt(v, id, Running)' => v # w /\ RunsAt(v, id, Running)
        BY <2>1 DEF RunsAt
    <2>3. CASE j.task = "generate" /\ j.id = id /\ j.retries < MaxRetries
        <3>1. /\ j.retries + 1 \in 0..MaxRetries
              /\ jobs' = [jobs EXCEPT ![Message(id, j.retries + 1)] = @ + 1]
            BY <1>20, <2>0, <2>1, <2>3, Bounds DEF Retry, Message, Job
        <3>2. RunsAt(w, id, Running)
            BY <2>0, <2>1, <2>3 DEF RunsAt
        <3>3. \A v \in Workers : ~RunsAt(v, id, Running)'
            BY <1>o, <2>1, <2>2, <3>2
        <3>4. \A m \in 0..MaxRetries : jobs[Message(id, m)] = 0
            BY <1>o, <2>1, <3>2
        <3>5. \A m \in 0..MaxRetries :
                  jobs'[Message(id, m)] = IF m = j.retries + 1 THEN 1 ELSE 0
            BY <3>1, <3>4, MessageIsJob
        <3> QED BY <3>3, <3>5
    <2>4. CASE ~(j.task = "generate" /\ j.id = id /\ j.retries < MaxRetries)
        <3>1. \A k \in Job : k.task = "generate" /\ k.id = id => jobs'[k] <= jobs[k]
            BY <1>20, <2>0, <2>1, <2>4 DEF Retry
        <3> QED BY <1>k, <2>1, <2>2, <3>1
    <2> QED BY <2>3, <2>4
<1>21. ASSUME NEW w \in Workers, RetryFails(w) PROVE One(id)'
    <2>1. \A v \in Workers : RunsAt(v, id, Running)' => RunsAt(v, id, Running)
        BY <1>21 DEF RetryFails, RunsAt, Outage
    <2> QED BY <1>k, <1>21, <2>1 DEF RetryFails, Outage
<1>22. ASSUME NEW w \in Workers, Acknowledge(w) PROVE One(id)'
    <2>1. \A v \in Workers : RunsAt(v, id, Running)' => RunsAt(v, id, Running)
        BY <1>22 DEF Acknowledge, RunsAt, Idle
    <2> QED BY <1>k, <1>22, <2>1 DEF Acknowledge, Idle
<1>23. ASSUME NEW w \in Workers, WorkerLost(w) PROVE One(id)'
    BY <1>23 DEF WorkerLost
<1>24. ASSUME NEW a \in Analysts, DeleteFile(a) PROVE One(id)'
    BY <1>k, <1>24 DEF DeleteFile, RunsAt
<1>25. ASSUME NEW a \in Analysts, DeleteFileFails(a) PROVE One(id)'
    BY <1>k, <1>25 DEF DeleteFileFails, RunsAt, Outage
<1>26. ASSUME NEW a \in Analysts, DeleteRow(a) PROVE One(id)'
    BY <1>k, <1>26 DEF DeleteRow, RunsAt
<1>27. ASSUME NEW a \in Analysts, DeleteRowFails(a) PROVE One(id)'
    BY <1>k, <1>27 DEF DeleteRowFails, RunsAt, Outage
<1>28. ASSUME NEW a \in Analysts, NEW i \in Reports, DeleteRead(a, i) PROVE One(id)'
    BY <1>k, <1>28 DEF DeleteRead, RunsAt
<1>30. ASSUME NEW w \in Workers, NEW i \in Reports, PushDeclined(w, i) PROVE One(id)'
    <2>1. PICK n \in 0..MaxRetries :
              jobs' = [jobs EXCEPT ![[task |-> "push", id |-> i, retries |-> n]] = @ - 1]
        BY <1>30 DEF PushDeclined
    <2>2. \A j \in Job : jobs'[j] <= jobs[j]
        BY <2>1
    <2> QED BY <1>k, <1>30, <2>2 DEF PushDeclined, RunsAt
<1>31. ASSUME NEW w \in Workers, ChildLost(w) PROVE One(id)'
    <2>1. \A v \in Workers : RunsAt(v, id, Running)' => RunsAt(v, id, Running)
        BY <1>31 DEF ChildLost, RunsAt, Idle
    <2>2. jobs' = jobs /\ crashes = 0
        BY <1>31 DEF ChildLost
    <2>3. One(id)
        BY <1>o, <2>2
    <2> QED BY <2>1, <2>2, <2>3
<1>32. CASE SwitchLibrary
    BY <1>k, <1>32 DEF SwitchLibrary, RunsAt
<1>29. CASE UNCHANGED vars
    BY <1>k, <1>29 DEF vars, RunsAt
<1> HIDE DEF One
<1> QED
    BY <1>1, <1>2, <1>3, <1>4, <1>5, <1>6, <1>7, <1>8, <1>9, <1>10, <1>11, <1>12, <1>13,
       <1>14, <1>15, <1>16, <1>17, <1>18, <1>19, <1>20, <1>21, <1>22, <1>23, <1>24,
       <1>25, <1>26, <1>27, <1>28, <1>29, <1>30, <1>31, <1>32
    DEF Next, WorkerStep, DeletionStep


\* The PDF of a report is only built while the row says so.
LEMMA StepBuildsGenerating ==
    TypeOK /\ TasksKeepToTheirPoints /\ OneExecution /\ BuildsGenerating /\ [Next]_vars
        => BuildsGenerating'
PROOF
<1> DEFINE Building == {"begun", "rendered", "storing", "stored"}
           Says(id) == row[id].status \in {"generating", "deleted"}
<1> SUFFICES ASSUME TypeOK, TasksKeepToTheirPoints, OneExecution, BuildsGenerating, [Next]_vars,
                    crashes' = 0, NEW id \in Reports, NEW v \in Workers, RunsAt(v, id, Building)'
             PROVE  Says(id)'
    BY DEF BuildsGenerating
<1>k. ASSUME crashes = 0, RunsAt(v, id, Building),
             row'[id].status \in {row[id].status, "deleted"}
      PROVE  Says(id)'
    BY <1>k DEF BuildsGenerating
<1>u. ASSUME crashes = 0, NEW w \in Workers, v # w, RunsAt(w, id, Running)
      PROVE  ~RunsAt(v, id, Building)
    BY <1>u DEF OneExecution, RunsAt, Running, Generating
<1> USE DEF bounds, delivery, Goto, TypeOK
<1>1. ASSUME NEW w \in Workers, NEW i \in Reports, Begin(w, i) PROVE Says(id)'
    <2>1. CASE id = i
        BY <1>1, <2>1 DEF Begin
    <2>2. CASE id # i
        <3>1. RunsAt(v, id, Building)
            BY <1>1, <2>2 DEF Begin, RunsAt
        <3> QED BY <1>1, <1>k, <2>2, <3>1 DEF Begin
    <2> QED BY <2>1, <2>2
<1>2. ASSUME NEW w \in Workers, NEW i \in Reports, BeginMissing(w, i) PROVE Says(id)'
    <2>1. RunsAt(v, id, Building)
        BY <1>2 DEF BeginMissing, RunsAt
    <2> QED BY <1>k, <1>2, <2>1 DEF BeginMissing
<1>3. ASSUME NEW w \in Workers, NEW i \in Reports, PushBegin(w, i) PROVE Says(id)'
    <2>1. RunsAt(v, id, Building)
        BY <1>3 DEF PushBegin, RunsAt
    <2> QED BY <1>k, <1>3, <2>1 DEF PushBegin
<1>4. ASSUME NEW w \in Workers, NEW i \in Reports, PushSkips(w, i) PROVE Says(id)'
    <2>1. RunsAt(v, id, Building)
        BY <1>4 DEF PushSkips, RunsAt
    <2> QED BY <1>k, <1>4, <2>1 DEF PushSkips
<1>5. ASSUME NEW w \in Workers, Render(w) PROVE Says(id)'
    <2>1. RunsAt(v, id, Building)
        BY <1>5 DEF Render, RunsAt
    <2> QED BY <1>k, <1>5, <2>1 DEF Render
<1>6. ASSUME NEW w \in Workers, StoreBegin(w) PROVE Says(id)'
    <2>1. RunsAt(v, id, Building)
        BY <1>6 DEF StoreBegin, RunsAt
    <2> QED BY <1>k, <1>6, <2>1 DEF StoreBegin
<1>7. ASSUME NEW w \in Workers, StoreEnd(w) PROVE Says(id)'
    <2>1. RunsAt(v, id, Building)
        BY <1>7 DEF StoreEnd, RunsAt
    <2> QED BY <1>k, <1>7, <2>1 DEF StoreEnd
<1>8. ASSUME NEW w \in Workers, Finish(w) PROVE Says(id)'
    <2>0. PICK i : i = work[w].job.id
        OBVIOUS
    <2>1. v # w /\ RunsAt(v, id, Building) /\ crashes = 0
        BY <1>8 DEF Finish, RunsAt
    <2>2. work[w].pc \in Running /\ work[w].pc \in Points /\ work[w].job.task = "generate"
        BY <1>8, WorkShape DEF Finish, Running, Generating, Points, TasksKeepToTheirPoints, Pushing
    <2>3. id # i
        BY <1>u, <2>0, <2>1, <2>2 DEF RunsAt
    <2>4. row'[id] = row[id]
        BY <1>8, <2>0, <2>3 DEF Finish
    <2> QED BY <1>k, <2>1, <2>4
<1>9. ASSUME NEW w \in Workers, RequestPush(w) PROVE Says(id)'
    <2>1. RunsAt(v, id, Building)
        BY <1>9 DEF RequestPush, RunsAt
    <2> QED BY <1>k, <1>9, <2>1 DEF RequestPush
<1>10. ASSUME NEW w \in Workers, GenerateRaises(w) PROVE Says(id)'
    <2>1. RunsAt(v, id, Building)
        BY <1>10 DEF GenerateRaises, RunsAt
    <2> QED BY <1>k, <1>10, <2>1 DEF GenerateRaises
<1>11. ASSUME NEW w \in Workers, FinishStale(w) PROVE Says(id)'
    <2>1. RunsAt(v, id, Building)
        BY <1>11 DEF FinishStale, RunsAt
    <2> QED BY <1>k, <1>11, <2>1 DEF FinishStale
<1>12. ASSUME NEW w \in Workers, FinishFails(w) PROVE Says(id)'
    <2>1. RunsAt(v, id, Building)
        BY <1>12 DEF FinishFails, RunsAt, Outage
    <2> QED BY <1>k, <1>12, <2>1 DEF FinishFails, Outage
<1>13. ASSUME NEW w \in Workers, RequestPushFails(w) PROVE Says(id)'
    <2>1. RunsAt(v, id, Building)
        BY <1>13 DEF RequestPushFails, RunsAt, Outage
    <2> QED BY <1>k, <1>13, <2>1 DEF RequestPushFails, Outage
<1>14. ASSUME NEW w \in Workers, PersistFailed(w) PROVE Says(id)'
    <2>0. PICK i : i = work[w].job.id
        OBVIOUS
    <2>1. v # w /\ RunsAt(v, id, Building) /\ crashes = 0
        BY <1>14 DEF PersistFailed, RunsAt
    <2>2. work[w].pc \in Running /\ work[w].pc \in Points /\ work[w].job.task = "generate"
        BY <1>14, WorkShape DEF PersistFailed, Running, Generating, Points, TasksKeepToTheirPoints, Pushing
    <2>3. id # i
        BY <1>u, <2>0, <2>1, <2>2 DEF RunsAt
    <2>4. row'[id] = row[id]
        BY <1>14, <2>0, <2>3 DEF PersistFailed
    <2> QED BY <1>k, <2>1, <2>4
<1>15. ASSUME NEW w \in Workers, PersistFailedFails(w) PROVE Says(id)'
    <2>1. RunsAt(v, id, Building)
        BY <1>15 DEF PersistFailedFails, RunsAt, Outage
    <2> QED BY <1>k, <1>15, <2>1 DEF PersistFailedFails, Outage
<1>16. ASSUME NEW w \in Workers, Upload(w) PROVE Says(id)'
    <2>1. RunsAt(v, id, Building)
        BY <1>16, WorkShape DEF Upload, RunsAt
    <2> QED BY <1>k, <1>16, <2>1 DEF Upload
<1>17. ASSUME NEW w \in Workers, UploadFails(w) PROVE Says(id)'
    <2>1. RunsAt(v, id, Building)
        BY <1>17, WorkShape DEF UploadFails, RunsAt
    <2> QED BY <1>k, <1>17, <2>1 DEF UploadFails
<1>18. ASSUME NEW w \in Workers, RecordUrl(w) PROVE Says(id)'
    <2>1. RunsAt(v, id, Building)
        BY <1>18, WorkShape DEF RecordUrl, RunsAt
    <2> QED BY <1>k, <1>18, <2>1 DEF RecordUrl
<1>19. ASSUME NEW w \in Workers, RecordUrlFails(w) PROVE Says(id)'
    <2>1. RunsAt(v, id, Building)
        BY <1>19, WorkShape DEF RecordUrlFails, RunsAt, Outage
    <2> QED BY <1>k, <1>19, <2>1 DEF RecordUrlFails, Outage
<1>20. ASSUME NEW w \in Workers, Retry(w) PROVE Says(id)'
    <2>1. RunsAt(v, id, Building)
        BY <1>20 DEF Retry, RunsAt
    <2> QED BY <1>k, <1>20, <2>1 DEF Retry
<1>21. ASSUME NEW w \in Workers, RetryFails(w) PROVE Says(id)'
    <2>1. RunsAt(v, id, Building)
        BY <1>21 DEF RetryFails, RunsAt, Outage
    <2> QED BY <1>k, <1>21, <2>1 DEF RetryFails, Outage
<1>22. ASSUME NEW w \in Workers, Acknowledge(w) PROVE Says(id)'
    <2>1. RunsAt(v, id, Building)
        BY <1>22 DEF Acknowledge, RunsAt, Idle
    <2> QED BY <1>k, <1>22, <2>1 DEF Acknowledge, Idle
<1>23. ASSUME NEW w \in Workers, WorkerLost(w) PROVE Says(id)'
    <2>1. RunsAt(v, id, Building)
        BY <1>23 DEF WorkerLost, RunsAt
    <2> QED BY <1>k, <1>23, <2>1 DEF WorkerLost
<1>24. ASSUME NEW a \in Analysts, DeleteFile(a) PROVE Says(id)'
    <2>1. RunsAt(v, id, Building)
        BY <1>24 DEF DeleteFile, RunsAt
    <2> QED BY <1>k, <1>24, <2>1 DEF DeleteFile
<1>25. ASSUME NEW a \in Analysts, DeleteFileFails(a) PROVE Says(id)'
    <2>1. RunsAt(v, id, Building)
        BY <1>25 DEF DeleteFileFails, RunsAt, Outage
    <2> QED BY <1>k, <1>25, <2>1 DEF DeleteFileFails, Outage
<1>26. ASSUME NEW a \in Analysts, DeleteRow(a) PROVE Says(id)'
    <2>1. RunsAt(v, id, Building)
        BY <1>26 DEF DeleteRow, RunsAt
    <2> QED BY <1>k, <1>26, <2>1 DEF DeleteRow
<1>27. ASSUME NEW a \in Analysts, DeleteRowFails(a) PROVE Says(id)'
    <2>1. RunsAt(v, id, Building)
        BY <1>27 DEF DeleteRowFails, RunsAt, Outage
    <2> QED BY <1>k, <1>27, <2>1 DEF DeleteRowFails, Outage
<1>28. ASSUME NEW a \in Analysts, NEW i \in Reports, DeleteRead(a, i) PROVE Says(id)'
    <2>1. RunsAt(v, id, Building)
        BY <1>28 DEF DeleteRead, RunsAt
    <2> QED BY <1>k, <1>28, <2>1 DEF DeleteRead
<1>30. ASSUME NEW w \in Workers, NEW i \in Reports, PushDeclined(w, i) PROVE Says(id)'
    <2>1. RunsAt(v, id, Building)
        BY <1>30 DEF PushDeclined, RunsAt
    <2> QED BY <1>k, <1>30, <2>1 DEF PushDeclined
<1>31. ASSUME NEW w \in Workers, ChildLost(w) PROVE Says(id)'
    <2>1. RunsAt(v, id, Building)
        BY <1>31 DEF ChildLost, RunsAt, Idle
    <2> QED BY <1>k, <1>31, <2>1 DEF ChildLost
<1>32. CASE SwitchLibrary
    <2>1. RunsAt(v, id, Building)
        BY <1>32 DEF SwitchLibrary, RunsAt
    <2> QED BY <1>k, <1>32, <2>1 DEF SwitchLibrary
<1>29. CASE UNCHANGED vars
    BY <1>k, <1>29 DEF vars, RunsAt
<1> HIDE DEF Says
<1> QED
    BY <1>1, <1>2, <1>3, <1>4, <1>5, <1>6, <1>7, <1>8, <1>9, <1>10, <1>11, <1>12, <1>13,
       <1>14, <1>15, <1>16, <1>17, <1>18, <1>19, <1>20, <1>21, <1>22, <1>23, <1>24,
       <1>25, <1>26, <1>27, <1>28, <1>29, <1>30, <1>31, <1>32
    DEF Next, WorkerStep, DeletionStep

\* Without a failed call the status follows the generation, and the path the status.
LEMMA StepStatusTellsTheRun ==
    /\ TypeOK /\ TasksKeepToTheirPoints /\ OneExecution /\ BuildsGenerating
    /\ StatusTellsTheRun /\ [Next]_vars
    => StatusTellsTheRun'
PROOF
<1> DEFINE Told(id) ==
        /\ \A w \in Workers :
              /\ RunsAt(w, id, {"failing"}) => row[id].status \in {"generating", "deleted"}
              /\ RunsAt(w, id, {"retrying"}) => row[id].status \in {"failed", "deleted"}
        /\ Waiting("generate", id) => row[id].status \in {"pending", "failed", "deleted"}
        /\ row[id].path => row[id].status = "ready"
        /\ \A a \in Analysts : deletion[a] # Idle /\ deletion[a].id = id /\ deletion[a].path =>
              row[id].status \in {"ready", "deleted"}
<1> SUFFICES ASSUME TypeOK, TasksKeepToTheirPoints, OneExecution, BuildsGenerating,
                    StatusTellsTheRun, [Next]_vars,
                    crashes' = 0, outages' = 0, NEW id \in Reports
             PROVE  Told(id)'
    BY DEF StatusTellsTheRun
<1>t. TypeOK'
    BY StepTypeOK
<1>o. crashes = 0 /\ outages = 0 => Told(id)
    BY DEF StatusTellsTheRun
<1> DEFINE NoNewRun ==
        \A v \in Workers : /\ RunsAt(v, id, {"failing"})' => RunsAt(v, id, {"failing"})
                           /\ RunsAt(v, id, {"retrying"})' => RunsAt(v, id, {"retrying"})
<1>k. ASSUME crashes = 0, outages = 0, NoNewRun,
             Waiting("generate", id)' => Waiting("generate", id),
             row'[id].status = row[id].status, row'[id].path = row[id].path,
             deletion' = deletion
      PROVE  Told(id)'
    BY <1>o, <1>k
<1>j. ASSUME \A j \in Job : j.task = "generate" /\ j.id = id => jobs'[j] <= jobs[j]
      PROVE  Waiting("generate", id)' => Waiting("generate", id)
    <2>1. \A n \in 0..MaxRetries : LET j == [task |-> "generate", id |-> id, retries |-> n]
                                   IN  jobs'[j] <= jobs[j] /\ jobs[j] \in Nat /\ jobs'[j] \in Nat
        BY <1>j, <1>t, MessageIsJob DEF Message, TypeOK
    <2> QED BY <2>1 DEF Waiting
<1>w. ASSUME crashes = 0, NEW w \in Workers, RunsAt(w, id, Running)
      PROVE  /\ ~Waiting("generate", id)
             /\ \A v \in Workers : RunsAt(v, id, Running) => v = w
    <2>1. \A n \in 0..MaxRetries : jobs[[task |-> "generate", id |-> id, retries |-> n]] = 0
        BY <1>w DEF OneExecution, Message
    <2>2. \A v \in Workers : RunsAt(v, id, Running) => v = w
        BY <1>w DEF OneExecution
    <2>3. ~Waiting("generate", id)
        <3> SUFFICES ASSUME NEW n \in 0..MaxRetries,
                            jobs[[task |-> "generate", id |-> id, retries |-> n]] > 0
                     PROVE  FALSE
            BY DEF Waiting
        <3>1. jobs[[task |-> "generate", id |-> id, retries |-> n]] = 0
            BY <2>1
        <3> QED BY <3>1
    <2> QED BY <2>2, <2>3
<1>r. \A v \in Workers, p \in Running : RunsAt(v, id, {p}) => RunsAt(v, id, Running)
    BY DEF RunsAt
<1> USE DEF bounds, delivery, Goto, TypeOK
<1>1. ASSUME NEW w \in Workers, NEW i \in Reports, Begin(w, i) PROVE Told(id)'
    <2>1. PICK n \in 0..MaxRetries :
              /\ jobs[Message(i, n)] > 0
              /\ jobs' = [jobs EXCEPT ![Message(i, n)] = @ - 1]
              /\ work' = [work EXCEPT ![w] = [pc |-> "begun", job |-> Message(i, n), data |-> "none"]]
        BY <1>1 DEF Begin, Message
    <2>2. crashes = 0 /\ outages = 0 /\ deletion' = deletion /\ Message(i, n) \in Job
        BY <1>1, MessageIsJob DEF Begin
    <2>3. CASE id = i
        <3>1. Waiting("generate", id) /\ row[id].status \in {"pending", "failed"}
            BY <1>1, <1>o, <2>1, <2>2, <2>3 DEF Waiting, Message, Begin, InTable
        <3>2. /\ \A m \in 0..MaxRetries : jobs[Message(id, m)] > 0 => m = n
              /\ jobs[Message(id, n)] <= 1
              /\ \A v \in Workers : ~RunsAt(v, id, Running)
            BY <2>1, <2>2, <2>3 DEF OneExecution
        <3>3. ~Waiting("generate", id)'
            <4> SUFFICES ASSUME NEW m \in 0..MaxRetries PROVE ~(jobs'[Message(id, m)] > 0)
                BY DEF Waiting, Message
            <4>1. Message(id, m) \in Job /\ jobs[Message(id, m)] \in Nat
                BY MessageIsJob
            <4>2. CASE m = n
                BY <2>1, <2>2, <2>3, <3>2, <4>1, <4>2
            <4>3. CASE m # n
                <5>1. Message(id, m) # Message(id, n)
                    BY <4>3 DEF Message
                <5> QED BY <2>1, <2>2, <2>3, <3>2, <4>1, <4>3, <5>1
            <4> QED BY <4>2, <4>3
        <3>4. row'[id].status = "generating" /\ row'[id].path = row[id].path
            BY <1>1, <2>3 DEF Begin
        <3>5. ~row[id].path
            BY <1>o, <2>2, <3>1
        <3>6. \A v \in Workers : ~RunsAt(v, id, {"failing"})' /\ ~RunsAt(v, id, {"retrying"})'
            BY <2>1, <3>2 DEF RunsAt, Running, Generating
        <3>7. \A a \in Analysts : ~(deletion[a] # Idle /\ deletion[a].id = id /\ deletion[a].path)
            BY <1>o, <2>2, <3>1
        <3> QED BY <2>2, <3>3, <3>4, <3>5, <3>6, <3>7
    <2>4. CASE id # i
        <3>1. NoNewRun
            BY <2>1 DEF RunsAt
        <3>2. \A j \in Job : j.task = "generate" /\ j.id = id => jobs'[j] <= jobs[j]
            BY <2>1, <2>2, <2>4 DEF Message
        <3>3. row'[id] = row[id]
            BY <1>1, <2>4 DEF Begin
        <3> QED BY <1>j, <1>k, <2>2, <3>1, <3>2, <3>3
    <2> QED BY <2>3, <2>4
<1>2. ASSUME NEW w \in Workers, NEW i \in Reports, BeginMissing(w, i) PROVE Told(id)'
    <2>1. PICK n \in 0..MaxRetries :
              jobs' = [jobs EXCEPT ![[task |-> "generate", id |-> i, retries |-> n]] = @ - 1]
        BY <1>2 DEF BeginMissing
    <2>2. \A j \in Job : jobs'[j] <= jobs[j]
        BY <2>1
    <2>3. NoNewRun
        BY <1>2 DEF BeginMissing, RunsAt
    <2> QED BY <1>j, <1>k, <1>2, <2>2, <2>3 DEF BeginMissing
<1>3. ASSUME NEW w \in Workers, NEW i \in Reports, PushBegin(w, i) PROVE Told(id)'
    <2>1. PICK n \in 0..MaxRetries :
              jobs' = [jobs EXCEPT ![[task |-> "push", id |-> i, retries |-> n]] = @ - 1]
        BY <1>3 DEF PushBegin
    <2>2. \A j \in Job : jobs'[j] <= jobs[j]
        BY <2>1
    <2>3. NoNewRun
        BY <1>3 DEF PushBegin, RunsAt
    <2> QED BY <1>j, <1>k, <1>3, <2>2, <2>3 DEF PushBegin
<1>4. ASSUME NEW w \in Workers, NEW i \in Reports, PushSkips(w, i) PROVE Told(id)'
    <2>1. PICK n \in 0..MaxRetries :
              jobs' = [jobs EXCEPT ![[task |-> "push", id |-> i, retries |-> n]] = @ - 1]
        BY <1>4 DEF PushSkips
    <2>2. \A j \in Job : jobs'[j] <= jobs[j]
        BY <2>1
    <2>3. NoNewRun
        BY <1>4 DEF PushSkips, RunsAt
    <2> QED BY <1>j, <1>k, <1>4, <2>2, <2>3 DEF PushSkips
<1>5. ASSUME NEW w \in Workers, Render(w) PROVE Told(id)'
    <2>1. NoNewRun
        BY <1>5 DEF Render, RunsAt
    <2> QED BY <1>k, <1>5, <2>1 DEF Render, Waiting
<1>6. ASSUME NEW w \in Workers, StoreBegin(w) PROVE Told(id)'
    <2>1. NoNewRun
        BY <1>6 DEF StoreBegin, RunsAt
    <2> QED BY <1>k, <1>6, <2>1 DEF StoreBegin, Waiting
<1>7. ASSUME NEW w \in Workers, StoreEnd(w) PROVE Told(id)'
    <2>1. NoNewRun
        BY <1>7 DEF StoreEnd, RunsAt
    <2> QED BY <1>k, <1>7, <2>1 DEF StoreEnd, Waiting
<1>8. ASSUME NEW w \in Workers, Finish(w) PROVE Told(id)'
    <2>0. PICK i : i = work[w].job.id
        OBVIOUS
    <2>1. /\ crashes = 0 /\ outages = 0 /\ deletion' = deletion /\ jobs' = jobs
          /\ work[w].pc = "stored" /\ work' = [work EXCEPT ![w].pc = "ready"]
        BY <1>8 DEF Finish
    <2>2. RunsAt(w, i, Running)
        BY <2>0, <2>1, WorkShape
        DEF RunsAt, Running, Generating, Points, TasksKeepToTheirPoints, Pushing
    <2>3. \A v \in Workers, p \in {"failing", "retrying"} :
              RunsAt(v, id, {p})' => v # w /\ RunsAt(v, id, {p})
        BY <2>1 DEF RunsAt
    <2>4. Waiting("generate", id)' <=> Waiting("generate", id)
        BY <2>1 DEF Waiting
    <2>5. CASE id = i
        <3>1. row'[id].status = "ready"
            BY <1>8, <2>0, <2>5 DEF Finish
        <3>2. ~Waiting("generate", id) /\ \A v \in Workers : RunsAt(v, id, Running) => v = w
            BY <1>w, <2>1, <2>2, <2>5
        <3>3. \A v \in Workers : ~RunsAt(v, id, {"failing"})' /\ ~RunsAt(v, id, {"retrying"})'
            BY <1>r, <2>3, <3>2 DEF Running, Generating
        <3> QED BY <2>4, <3>1, <3>2, <3>3
    <2>6. CASE id # i
        <3>1. row'[id] = row[id]
            BY <1>8, <2>0, <2>6 DEF Finish
        <3> QED BY <1>k, <2>1, <2>3, <2>4, <3>1
    <2> QED BY <2>5, <2>6
<1>9. ASSUME NEW w \in Workers, RequestPush(w) PROVE Told(id)'
    <2>1. \A j \in Job : j.task = "generate" => jobs'[j] <= jobs[j]
        BY <1>9 DEF RequestPush, Push
    <2>2. NoNewRun
        BY <1>9 DEF RequestPush, RunsAt
    <2> QED BY <1>j, <1>k, <1>9, <2>1, <2>2 DEF RequestPush
<1>10. ASSUME NEW w \in Workers, GenerateRaises(w) PROVE Told(id)'
    <2>1. /\ crashes = 0 /\ outages = 0 /\ deletion' = deletion /\ jobs' = jobs /\ row' = row
          /\ work[w].pc \in {"begun", "rendered", "storing"}
          /\ work' = [work EXCEPT ![w].pc = "failing"]
        BY <1>10 DEF GenerateRaises
    <2>2. Waiting("generate", id)' <=> Waiting("generate", id)
        BY <2>1 DEF Waiting
    <2>3. \A v \in Workers : RunsAt(v, id, {"retrying"})' => RunsAt(v, id, {"retrying"})
        BY <2>1 DEF RunsAt
    <2>4. \A v \in Workers : RunsAt(v, id, {"failing"})' =>
              \/ RunsAt(v, id, {"failing"})
              \/ RunsAt(v, id, {"begun", "rendered", "storing", "stored"})
        BY <2>1, WorkShape DEF RunsAt, Points
    <2> QED BY <1>o, <2>1, <2>2, <2>3, <2>4 DEF BuildsGenerating
<1>11. ASSUME NEW w \in Workers, FinishStale(w) PROVE Told(id)'
    <2>1. /\ crashes = 0 /\ outages = 0 /\ deletion' = deletion /\ jobs' = jobs /\ row' = row
          /\ work[w].pc = "stored" /\ row[work[w].job.id].status = "deleted"
          /\ work' = [work EXCEPT ![w].pc = "retrying"]
        BY <1>11 DEF FinishStale, InTable
    <2>2. Waiting("generate", id)' <=> Waiting("generate", id)
        BY <2>1 DEF Waiting
    <2>3. \A v \in Workers : RunsAt(v, id, {"failing"})' => RunsAt(v, id, {"failing"})
        BY <2>1 DEF RunsAt
    <2>4. \A v \in Workers : RunsAt(v, id, {"retrying"})' =>
              RunsAt(v, id, {"retrying"}) \/ row[id].status = "deleted"
        BY <2>1, WorkShape DEF RunsAt, Points
    <2> QED BY <1>o, <2>1, <2>2, <2>3, <2>4
<1>12. ASSUME NEW w \in Workers, FinishFails(w) PROVE Told(id)'
    BY <1>12 DEF FinishFails, Outage
<1>13. ASSUME NEW w \in Workers, RequestPushFails(w) PROVE Told(id)'
    BY <1>13 DEF RequestPushFails, Outage
<1>14. ASSUME NEW w \in Workers, PersistFailed(w) PROVE Told(id)'
    <2>0. PICK i : i = work[w].job.id
        OBVIOUS
    <2>1. /\ crashes = 0 /\ outages = 0 /\ deletion' = deletion /\ jobs' = jobs
          /\ work[w].pc = "failing" /\ work' = [work EXCEPT ![w].pc = "retrying"]
          /\ row' = IF InTable(i) THEN [row EXCEPT ![i].status = "failed"] ELSE row
        BY <1>14, <2>0 DEF PersistFailed
    <2>2. RunsAt(w, i, Running) /\ RunsAt(w, i, {"failing"})
        BY <2>0, <2>1, WorkShape
        DEF RunsAt, Running, Generating, Points, TasksKeepToTheirPoints, Pushing
    <2>3. \A v \in Workers, p \in {"failing", "retrying"} :
              v # w /\ RunsAt(v, id, {p})' => RunsAt(v, id, {p})
        BY <2>1 DEF RunsAt
    <2>4. Waiting("generate", id)' <=> Waiting("generate", id)
        BY <2>1 DEF Waiting
    <2>5. CASE id = i
        <3>1. row[id].status \in {"generating", "deleted"}
            BY <1>o, <2>1, <2>2, <2>5
        <3>2. row'[id].status \in {"failed", "deleted"} /\ row'[id].path = row[id].path
            BY <2>1, <2>5, <3>1 DEF InTable
        <3>3. ~Waiting("generate", id) /\ \A v \in Workers : RunsAt(v, id, Running) => v = w
            BY <1>w, <2>1, <2>2, <2>5
        <3>4. \A v \in Workers : ~RunsAt(v, id, {"failing"})'
            BY <1>r, <2>1, <2>3, <3>3, WorkShape DEF RunsAt, Running, Generating, Points
        <3>5. ~row[id].path
            BY <1>o, <2>1, <3>1
        <3>6. \A a \in Analysts : deletion[a] # Idle /\ deletion[a].id = id /\ deletion[a].path =>
                  row'[id].status = "deleted"
            BY <1>o, <2>1, <2>5, <3>1 DEF InTable
        <3> QED BY <2>1, <2>4, <3>2, <3>3, <3>4, <3>5, <3>6
    <2>6. CASE id # i
        <3>1. row'[id] = row[id]
            BY <2>1, <2>6
        <3>2. NoNewRun
            BY <2>0, <2>1, <2>3, <2>6, WorkShape DEF RunsAt, Points
        <3> QED BY <1>k, <2>1, <2>4, <3>1, <3>2
    <2> QED BY <2>5, <2>6
<1>15. ASSUME NEW w \in Workers, PersistFailedFails(w) PROVE Told(id)'
    BY <1>15 DEF PersistFailedFails, Outage
<1>16. ASSUME NEW w \in Workers, Upload(w) PROVE Told(id)'
    <2>1. NoNewRun
        BY <1>16, WorkShape DEF Upload, RunsAt, TasksKeepToTheirPoints, Points, Generating
    <2> QED BY <1>k, <1>16, <2>1 DEF Upload, Waiting
<1>17. ASSUME NEW w \in Workers, UploadFails(w) PROVE Told(id)'
    <2>1. NoNewRun
        BY <1>17, WorkShape DEF UploadFails, RunsAt, TasksKeepToTheirPoints, Points, Generating
    <2> QED BY <1>k, <1>17, <2>1 DEF UploadFails, Waiting
<1>18. ASSUME NEW w \in Workers, RecordUrl(w) PROVE Told(id)'
    <2>1. NoNewRun
        BY <1>18, WorkShape DEF RecordUrl, RunsAt, TasksKeepToTheirPoints, Points, Generating
    <2> QED BY <1>k, <1>18, <2>1 DEF RecordUrl, Waiting, InTable
<1>19. ASSUME NEW w \in Workers, RecordUrlFails(w) PROVE Told(id)'
    BY <1>19 DEF RecordUrlFails, Outage
<1>20. ASSUME NEW w \in Workers, Retry(w) PROVE Told(id)'
    <2>0. PICK j : j = work[w].job
        OBVIOUS
    <2>1. /\ crashes = 0 /\ outages = 0 /\ deletion' = deletion /\ row' = row
          /\ work[w].pc = "retrying" /\ j \in Job
          /\ work' = [work EXCEPT ![w].pc = "done"]
        BY <1>20, <2>0, WorkShape DEF Retry, Points
    <2>2. NoNewRun
        BY <2>1 DEF RunsAt
    <2>3. CASE j.task = "generate" /\ j.id = id
        <3>1. RunsAt(w, id, {"retrying"})
            BY <2>0, <2>1, <2>3 DEF RunsAt
        <3>2. row[id].status \in {"failed", "deleted"}
            BY <1>o, <2>1, <3>1
        <3> QED BY <1>o, <2>1, <2>2, <3>2
    <2>4. CASE ~(j.task = "generate" /\ j.id = id)
        <3>1. \A k \in Job : k.task = "generate" /\ k.id = id => jobs'[k] <= jobs[k]
            BY <1>20, <2>0, <2>1, <2>4 DEF Retry
        <3> QED BY <1>j, <1>k, <2>1, <2>2, <3>1
    <2> QED BY <2>3, <2>4
<1>21. ASSUME NEW w \in Workers, RetryFails(w) PROVE Told(id)'
    BY <1>21 DEF RetryFails, Outage
<1>22. ASSUME NEW w \in Workers, Acknowledge(w) PROVE Told(id)'
    <2>1. NoNewRun
        BY <1>22 DEF Acknowledge, RunsAt, Idle
    <2> QED BY <1>k, <1>22, <2>1 DEF Acknowledge, Waiting, Idle
<1>23. ASSUME NEW w \in Workers, WorkerLost(w) PROVE Told(id)'
    BY <1>23 DEF WorkerLost
<1>24. ASSUME NEW a \in Analysts, DeleteFile(a) PROVE Told(id)'
    <2>1. /\ crashes = 0 /\ outages = 0 /\ jobs' = jobs /\ row' = row /\ work' = work
          /\ deletion[a].pc = "read" /\ deletion' = [deletion EXCEPT ![a].pc = "unlinked"]
        BY <1>24 DEF DeleteFile
    <2>2. \A b \in Analysts : deletion'[b] # Idle =>
              /\ deletion[b] # Idle /\ deletion'[b].id = deletion[b].id
              /\ deletion'[b].path = deletion[b].path
        BY <2>1 DEF Deletion, Idle
    <2> QED BY <1>o, <2>1, <2>2 DEF RunsAt, Waiting
<1>25. ASSUME NEW a \in Analysts, DeleteFileFails(a) PROVE Told(id)'
    BY <1>25 DEF DeleteFileFails, Outage
<1>26. ASSUME NEW a \in Analysts, DeleteRow(a) PROVE Told(id)'
    <2>0. PICK i : i = deletion[a].id
        OBVIOUS
    <2>1. /\ crashes = 0 /\ outages = 0 /\ jobs' = jobs /\ work' = work
          /\ deletion' = [deletion EXCEPT ![a] = Idle]
          /\ row' = [row EXCEPT ![i] = [status |-> "deleted", path |-> FALSE, url |-> FALSE]]
        BY <1>26, <2>0 DEF DeleteRow
    <2>2. CASE id = i
        BY <2>1, <2>2
    <2>3. CASE id # i
        BY <1>o, <2>1, <2>3 DEF RunsAt, Waiting
    <2> QED BY <2>2, <2>3
<1>27. ASSUME NEW a \in Analysts, DeleteRowFails(a) PROVE Told(id)'
    BY <1>27 DEF DeleteRowFails, Outage
<1>28. ASSUME NEW a \in Analysts, NEW i \in Reports, DeleteRead(a, i) PROVE Told(id)'
    <2>1. /\ crashes = 0 /\ outages = 0 /\ jobs' = jobs /\ row' = row /\ work' = work
          /\ deletion' = [deletion EXCEPT ![a] = [pc |-> "read", id |-> i, path |-> row[i].path]]
        BY <1>28 DEF DeleteRead
    <2> QED BY <1>o, <2>1 DEF RunsAt, Waiting
<1>30. ASSUME NEW w \in Workers, NEW i \in Reports, PushDeclined(w, i) PROVE Told(id)'
    <2>1. PICK n \in 0..MaxRetries :
              jobs' = [jobs EXCEPT ![[task |-> "push", id |-> i, retries |-> n]] = @ - 1]
        BY <1>30 DEF PushDeclined
    <2>2. \A j \in Job : jobs'[j] <= jobs[j]
        BY <2>1
    <2>3. NoNewRun
        BY <1>30 DEF PushDeclined, RunsAt
    <2> QED BY <1>j, <1>k, <1>30, <2>2, <2>3 DEF PushDeclined
<1>31. ASSUME NEW w \in Workers, ChildLost(w) PROVE Told(id)'
    <2>1. NoNewRun
        BY <1>31 DEF ChildLost, RunsAt, Idle
    <2> QED BY <1>k, <1>31, <2>1 DEF ChildLost, Waiting
<1>32. CASE SwitchLibrary
    BY <1>k, <1>32 DEF SwitchLibrary, RunsAt, Waiting
<1>29. CASE UNCHANGED vars
    BY <1>k, <1>29 DEF vars, RunsAt, Waiting
<1> HIDE DEF Told
<1> QED
    BY <1>1, <1>2, <1>3, <1>4, <1>5, <1>6, <1>7, <1>8, <1>9, <1>10, <1>11, <1>12, <1>13,
       <1>14, <1>15, <1>16, <1>17, <1>18, <1>19, <1>20, <1>21, <1>22, <1>23, <1>24,
       <1>25, <1>26, <1>27, <1>28, <1>29, <1>30, <1>31, <1>32
    DEF Next, WorkerStep, DeletionStep



\* A deletion is counted before it reads its row.
LEMMA StepDeletionsCounted == TypeOK /\ DeletionsCounted /\ [Next]_vars => DeletionsCounted'
PROOF
<1> SUFFICES ASSUME TypeOK, DeletionsCounted, [Next]_vars PROVE DeletionsCounted'
    OBVIOUS
<1> USE DEF bounds, delivery, TypeOK, DeletionsCounted
<1>1. ASSUME NEW w \in Workers, NEW i \in Reports, Begin(w, i) PROVE DeletionsCounted'
    BY <1>1 DEF Begin
<1>2. ASSUME NEW w \in Workers, NEW i \in Reports, BeginMissing(w, i) PROVE DeletionsCounted'
    BY <1>2 DEF BeginMissing
<1>3. ASSUME NEW w \in Workers, NEW i \in Reports, PushBegin(w, i) PROVE DeletionsCounted'
    BY <1>3 DEF PushBegin
<1>4. ASSUME NEW w \in Workers, NEW i \in Reports, PushSkips(w, i) PROVE DeletionsCounted'
    BY <1>4 DEF PushSkips
<1>5. ASSUME NEW w \in Workers, Render(w) PROVE DeletionsCounted'
    BY <1>5 DEF Render
<1>6. ASSUME NEW w \in Workers, StoreBegin(w) PROVE DeletionsCounted'
    BY <1>6 DEF StoreBegin
<1>7. ASSUME NEW w \in Workers, StoreEnd(w) PROVE DeletionsCounted'
    BY <1>7 DEF StoreEnd
<1>8. ASSUME NEW w \in Workers, Finish(w) PROVE DeletionsCounted'
    BY <1>8 DEF Finish
<1>9. ASSUME NEW w \in Workers, RequestPush(w) PROVE DeletionsCounted'
    BY <1>9 DEF RequestPush
<1>10. ASSUME NEW w \in Workers, GenerateRaises(w) PROVE DeletionsCounted'
    BY <1>10 DEF GenerateRaises
<1>11. ASSUME NEW w \in Workers, FinishStale(w) PROVE DeletionsCounted'
    BY <1>11 DEF FinishStale
<1>12. ASSUME NEW w \in Workers, FinishFails(w) PROVE DeletionsCounted'
    BY <1>12 DEF FinishFails, Outage
<1>13. ASSUME NEW w \in Workers, RequestPushFails(w) PROVE DeletionsCounted'
    BY <1>13 DEF RequestPushFails, Outage
<1>14. ASSUME NEW w \in Workers, PersistFailed(w) PROVE DeletionsCounted'
    BY <1>14 DEF PersistFailed
<1>15. ASSUME NEW w \in Workers, PersistFailedFails(w) PROVE DeletionsCounted'
    BY <1>15 DEF PersistFailedFails, Outage
<1>16. ASSUME NEW w \in Workers, Upload(w) PROVE DeletionsCounted'
    BY <1>16 DEF Upload
<1>17. ASSUME NEW w \in Workers, UploadFails(w) PROVE DeletionsCounted'
    BY <1>17 DEF UploadFails
<1>18. ASSUME NEW w \in Workers, RecordUrl(w) PROVE DeletionsCounted'
    BY <1>18 DEF RecordUrl
<1>19. ASSUME NEW w \in Workers, RecordUrlFails(w) PROVE DeletionsCounted'
    BY <1>19 DEF RecordUrlFails, Outage
<1>20. ASSUME NEW w \in Workers, Retry(w) PROVE DeletionsCounted'
    BY <1>20 DEF Retry
<1>21. ASSUME NEW w \in Workers, RetryFails(w) PROVE DeletionsCounted'
    BY <1>21 DEF RetryFails, Outage
<1>22. ASSUME NEW w \in Workers, Acknowledge(w) PROVE DeletionsCounted'
    BY <1>22 DEF Acknowledge
<1>23. ASSUME NEW w \in Workers, WorkerLost(w) PROVE DeletionsCounted'
    BY <1>23 DEF WorkerLost
<1>24. ASSUME NEW a \in Analysts, DeleteFile(a) PROVE DeletionsCounted'
    BY <1>24 DEF DeleteFile, Idle
<1>25. ASSUME NEW a \in Analysts, DeleteFileFails(a) PROVE DeletionsCounted'
    BY <1>25 DEF DeleteFileFails, Outage, Idle
<1>26. ASSUME NEW a \in Analysts, DeleteRow(a) PROVE DeletionsCounted'
    BY <1>26 DEF DeleteRow
<1>27. ASSUME NEW a \in Analysts, DeleteRowFails(a) PROVE DeletionsCounted'
    BY <1>27 DEF DeleteRowFails, Outage
<1>28. ASSUME NEW a \in Analysts, NEW i \in Reports, DeleteRead(a, i) PROVE DeletionsCounted'
    BY <1>28 DEF DeleteRead
<1>30. ASSUME NEW w \in Workers, NEW i \in Reports, PushDeclined(w, i) PROVE DeletionsCounted'
    BY <1>30 DEF PushDeclined
<1>31. ASSUME NEW w \in Workers, ChildLost(w) PROVE DeletionsCounted'
    BY <1>31 DEF ChildLost
<1>32. CASE SwitchLibrary
    BY <1>32 DEF SwitchLibrary
<1>29. CASE UNCHANGED vars
    BY <1>29 DEF vars
<1> HIDE DEF DeletionsCounted
<1> QED
    BY <1>1, <1>2, <1>3, <1>4, <1>5, <1>6, <1>7, <1>8, <1>9, <1>10, <1>11, <1>12, <1>13,
       <1>14, <1>15, <1>16, <1>17, <1>18, <1>19, <1>20, <1>21, <1>22, <1>23, <1>24,
       <1>25, <1>26, <1>27, <1>28, <1>29, <1>30, <1>31, <1>32
    DEF Next, WorkerStep, DeletionStep

\* The file of a report that is ready, or about to be, only goes with a deletion.
LEMMA StepFileOfRun ==
    /\ TypeOK /\ TasksKeepToTheirPoints /\ OneExecution /\ BuildsGenerating
    /\ StatusTellsTheRun /\ DeletionsCounted /\ FileOfRun /\ [Next]_vars
    => FileOfRun'
PROOF
<1> DEFINE Filed(id) ==
        /\ \A w \in Workers : RunsAt(w, id, {"stored"}) /\ InTable(id) => file[id] = "whole"
        /\ row[id].status = "ready" => file[id] = "whole" \/ Deleting(id)
<1> SUFFICES ASSUME TypeOK, TasksKeepToTheirPoints, OneExecution, BuildsGenerating,
                    StatusTellsTheRun, DeletionsCounted, FileOfRun, [Next]_vars,
                    crashes' = 0, deletes' = 0 \/ outages' = 0, NEW id \in Reports
             PROVE  Filed(id)'
    BY DEF FileOfRun
<1>o. crashes = 0 /\ (deletes = 0 \/ outages = 0) => Filed(id)
    BY DEF FileOfRun
<1>k. ASSUME crashes = 0, deletes = 0 \/ outages = 0,
             \A v \in Workers : RunsAt(v, id, {"stored"})' => RunsAt(v, id, {"stored"}),
             InTable(id)' => InTable(id),
             row'[id].status = "ready" => row[id].status = "ready",
             file'[id] = file[id], deletion' = deletion
      PROVE  Filed(id)'
    BY <1>o, <1>k DEF Deleting
<1>b. ASSUME crashes = 0, NEW w \in Workers, NEW i \in Reports,
             RunsAt(w, i, {"begun", "rendered", "storing", "stored"})
      PROVE  /\ row[i].status \in {"generating", "deleted"}
             /\ \A v \in Workers : v # w => ~RunsAt(v, i, {"stored"})
    BY <1>b DEF BuildsGenerating, OneExecution, RunsAt, Running, Generating
<1> USE DEF bounds, delivery, Goto, TypeOK
<1>1. ASSUME NEW w \in Workers, NEW i \in Reports, Begin(w, i) PROVE Filed(id)'
    <2>1. \A v \in Workers : RunsAt(v, id, {"stored"})' => RunsAt(v, id, {"stored"})
        BY <1>1 DEF Begin, RunsAt
    <2>2. /\ row'[id].status = "ready" => row[id].status = "ready"
          /\ InTable(id)' => InTable(id)
        BY <1>1 DEF Begin, InTable
    <2> QED BY <1>k, <1>1, <2>1, <2>2 DEF Begin
<1>2. ASSUME NEW w \in Workers, NEW i \in Reports, BeginMissing(w, i) PROVE Filed(id)'
    <2>1. \A v \in Workers : RunsAt(v, id, {"stored"})' => RunsAt(v, id, {"stored"})
        BY <1>2 DEF BeginMissing, RunsAt
    <2> QED BY <1>k, <1>2, <2>1 DEF BeginMissing, InTable
<1>3. ASSUME NEW w \in Workers, NEW i \in Reports, PushBegin(w, i) PROVE Filed(id)'
    <2>1. \A v \in Workers : RunsAt(v, id, {"stored"})' => RunsAt(v, id, {"stored"})
        BY <1>3 DEF PushBegin, RunsAt
    <2> QED BY <1>k, <1>3, <2>1 DEF PushBegin, InTable
<1>4. ASSUME NEW w \in Workers, NEW i \in Reports, PushSkips(w, i) PROVE Filed(id)'
    <2>1. \A v \in Workers : RunsAt(v, id, {"stored"})' => RunsAt(v, id, {"stored"})
        BY <1>4 DEF PushSkips, RunsAt
    <2> QED BY <1>k, <1>4, <2>1 DEF PushSkips, InTable
<1>5. ASSUME NEW w \in Workers, Render(w) PROVE Filed(id)'
    <2>1. \A v \in Workers : RunsAt(v, id, {"stored"})' => RunsAt(v, id, {"stored"})
        BY <1>5 DEF Render, RunsAt
    <2> QED BY <1>k, <1>5, <2>1 DEF Render, InTable
<1>6. ASSUME NEW w \in Workers, StoreBegin(w) PROVE Filed(id)'
    <2>0. PICK i : i = work[w].job.id
        OBVIOUS
    <2>1. /\ crashes = 0 /\ (deletes = 0 \/ outages = 0) /\ deletion' = deletion /\ row' = row
          /\ work[w].pc = "rendered" /\ work' = [work EXCEPT ![w].pc = "storing"]
          /\ file' = [file EXCEPT ![i] = "partial"]
        BY <1>6, <2>0 DEF StoreBegin
    <2>2. RunsAt(w, i, {"begun", "rendered", "storing", "stored"}) /\ i \in Reports
        BY <2>0, <2>1, WorkShape DEF RunsAt, Points, TasksKeepToTheirPoints, Pushing
    <2>3. \A v \in Workers : v # w /\ RunsAt(v, id, {"stored"})' => RunsAt(v, id, {"stored"})
        BY <2>1 DEF RunsAt
    <2>4. CASE id = i
        BY <1>b, <2>1, <2>2, <2>3, <2>4 DEF RunsAt
    <2>5. CASE id # i
        <3>1. ~RunsAt(w, id, {"stored"})'
            BY <2>0, <2>1, <2>5, WorkShape DEF RunsAt, Points
        <3> QED BY <1>k, <2>1, <2>3, <2>5, <3>1 DEF InTable
    <2> QED BY <2>4, <2>5
<1>7. ASSUME NEW w \in Workers, StoreEnd(w) PROVE Filed(id)'
    <2>0. PICK i : i = work[w].job.id
        OBVIOUS
    <2>1. /\ crashes = 0 /\ (deletes = 0 \/ outages = 0) /\ deletion' = deletion /\ row' = row
          /\ work[w].pc = "storing" /\ work' = [work EXCEPT ![w].pc = "stored"]
          /\ file' = [file EXCEPT ![i] = "whole"]
        BY <1>7, <2>0 DEF StoreEnd
    <2>2. RunsAt(w, i, {"begun", "rendered", "storing", "stored"}) /\ i \in Reports
        BY <2>0, <2>1, WorkShape DEF RunsAt, Points, TasksKeepToTheirPoints, Pushing
    <2>3. \A v \in Workers : v # w /\ RunsAt(v, id, {"stored"})' => RunsAt(v, id, {"stored"})
        BY <2>1 DEF RunsAt
    <2>4. CASE id = i
        BY <1>b, <2>1, <2>2, <2>3, <2>4 DEF RunsAt
    <2>5. CASE id # i
        <3>1. ~RunsAt(w, id, {"stored"})'
            BY <2>0, <2>1, <2>5, WorkShape DEF RunsAt, Points
        <3> QED BY <1>k, <2>1, <2>3, <2>5, <3>1 DEF InTable
    <2> QED BY <2>4, <2>5
<1>8. ASSUME NEW w \in Workers, Finish(w) PROVE Filed(id)'
    <2>0. PICK i : i = work[w].job.id
        OBVIOUS
    <2>1. /\ crashes = 0 /\ (deletes = 0 \/ outages = 0) /\ deletion' = deletion /\ file' = file
          /\ work[w].pc = "stored" /\ work' = [work EXCEPT ![w].pc = "ready"] /\ InTable(i)
        BY <1>8, <2>0 DEF Finish
    <2>2. RunsAt(w, i, {"stored"})
        BY <2>0, <2>1, WorkShape DEF RunsAt, Points, TasksKeepToTheirPoints, Pushing
    <2>3. \A v \in Workers : RunsAt(v, id, {"stored"})' => RunsAt(v, id, {"stored"})
        BY <2>1 DEF RunsAt
    <2>4. CASE id = i
        BY <1>o, <2>1, <2>2, <2>4
    <2>5. CASE id # i
        <3>1. row'[id] = row[id]
            BY <1>8, <2>0, <2>5 DEF Finish
        <3> QED BY <1>k, <2>1, <2>3, <3>1 DEF InTable
    <2> QED BY <2>4, <2>5
<1>9. ASSUME NEW w \in Workers, RequestPush(w) PROVE Filed(id)'
    <2>1. \A v \in Workers : RunsAt(v, id, {"stored"})' => RunsAt(v, id, {"stored"})
        BY <1>9 DEF RequestPush, RunsAt
    <2> QED BY <1>k, <1>9, <2>1 DEF RequestPush, InTable
<1>10. ASSUME NEW w \in Workers, GenerateRaises(w) PROVE Filed(id)'
    <2>1. \A v \in Workers : RunsAt(v, id, {"stored"})' => RunsAt(v, id, {"stored"})
        BY <1>10 DEF GenerateRaises, RunsAt
    <2> QED BY <1>k, <1>10, <2>1 DEF GenerateRaises, InTable
<1>11. ASSUME NEW w \in Workers, FinishStale(w) PROVE Filed(id)'
    <2>1. \A v \in Workers : RunsAt(v, id, {"stored"})' => RunsAt(v, id, {"stored"})
        BY <1>11 DEF FinishStale, RunsAt
    <2> QED BY <1>k, <1>11, <2>1 DEF FinishStale, InTable
<1>12. ASSUME NEW w \in Workers, FinishFails(w) PROVE Filed(id)'
    <2>1. \A v \in Workers : RunsAt(v, id, {"stored"})' => RunsAt(v, id, {"stored"})
        BY <1>12 DEF FinishFails, RunsAt, Outage
    <2> QED BY <1>k, <1>12, <2>1 DEF FinishFails, InTable, Outage
<1>13. ASSUME NEW w \in Workers, RequestPushFails(w) PROVE Filed(id)'
    <2>1. \A v \in Workers : RunsAt(v, id, {"stored"})' => RunsAt(v, id, {"stored"})
        BY <1>13 DEF RequestPushFails, RunsAt, Outage
    <2> QED BY <1>k, <1>13, <2>1 DEF RequestPushFails, InTable, Outage
<1>14. ASSUME NEW w \in Workers, PersistFailed(w) PROVE Filed(id)'
    <2>1. \A v \in Workers : RunsAt(v, id, {"stored"})' => RunsAt(v, id, {"stored"})
        BY <1>14 DEF PersistFailed, RunsAt
    <2>2. /\ row'[id].status = "ready" => row[id].status = "ready"
          /\ InTable(id)' => InTable(id)
        BY <1>14 DEF PersistFailed, InTable
    <2> QED BY <1>k, <1>14, <2>1, <2>2 DEF PersistFailed
<1>15. ASSUME NEW w \in Workers, PersistFailedFails(w) PROVE Filed(id)'
    <2>1. \A v \in Workers : RunsAt(v, id, {"stored"})' => RunsAt(v, id, {"stored"})
        BY <1>15 DEF PersistFailedFails, RunsAt, Outage
    <2> QED BY <1>k, <1>15, <2>1 DEF PersistFailedFails, InTable, Outage
<1>16. ASSUME NEW w \in Workers, Upload(w) PROVE Filed(id)'
    <2>1. \A v \in Workers : RunsAt(v, id, {"stored"})' => RunsAt(v, id, {"stored"})
        BY <1>16 DEF Upload, RunsAt
    <2> QED BY <1>k, <1>16, <2>1 DEF Upload, InTable
<1>17. ASSUME NEW w \in Workers, UploadFails(w) PROVE Filed(id)'
    <2>1. \A v \in Workers : RunsAt(v, id, {"stored"})' => RunsAt(v, id, {"stored"})
        BY <1>17 DEF UploadFails, RunsAt
    <2> QED BY <1>k, <1>17, <2>1 DEF UploadFails, InTable
<1>18. ASSUME NEW w \in Workers, RecordUrl(w) PROVE Filed(id)'
    <2>1. \A v \in Workers : RunsAt(v, id, {"stored"})' => RunsAt(v, id, {"stored"})
        BY <1>18 DEF RecordUrl, RunsAt
    <2> QED BY <1>k, <1>18, <2>1 DEF RecordUrl, InTable
<1>19. ASSUME NEW w \in Workers, RecordUrlFails(w) PROVE Filed(id)'
    <2>1. \A v \in Workers : RunsAt(v, id, {"stored"})' => RunsAt(v, id, {"stored"})
        BY <1>19 DEF RecordUrlFails, RunsAt, Outage
    <2> QED BY <1>k, <1>19, <2>1 DEF RecordUrlFails, InTable, Outage
<1>20. ASSUME NEW w \in Workers, Retry(w) PROVE Filed(id)'
    <2>1. \A v \in Workers : RunsAt(v, id, {"stored"})' => RunsAt(v, id, {"stored"})
        BY <1>20 DEF Retry, RunsAt
    <2> QED BY <1>k, <1>20, <2>1 DEF Retry, InTable
<1>21. ASSUME NEW w \in Workers, RetryFails(w) PROVE Filed(id)'
    <2>1. \A v \in Workers : RunsAt(v, id, {"stored"})' => RunsAt(v, id, {"stored"})
        BY <1>21 DEF RetryFails, RunsAt, Outage
    <2> QED BY <1>k, <1>21, <2>1 DEF RetryFails, InTable, Outage
<1>22. ASSUME NEW w \in Workers, Acknowledge(w) PROVE Filed(id)'
    <2>1. \A v \in Workers : RunsAt(v, id, {"stored"})' => RunsAt(v, id, {"stored"})
        BY <1>22 DEF Acknowledge, RunsAt, Idle
    <2> QED BY <1>k, <1>22, <2>1 DEF Acknowledge, InTable, Idle
<1>23. ASSUME NEW w \in Workers, WorkerLost(w) PROVE Filed(id)'
    BY <1>23 DEF WorkerLost
<1>24. ASSUME NEW a \in Analysts, DeleteFile(a) PROVE Filed(id)'
    <2>1. /\ crashes = 0 /\ row' = row /\ work' = work
          /\ deletion[a].pc = "read" /\ deletion' = [deletion EXCEPT ![a].pc = "unlinked"]
          /\ file' = IF deletion[a].path THEN [file EXCEPT ![deletion[a].id] = "none"] ELSE file
        BY <1>24 DEF DeleteFile
    <2>2. deletion[a] # Idle /\ deletes # 0 /\ outages = 0
        BY <1>24, <2>1 DEF DeleteFile, DeletionsCounted, Idle
    <2>3. Deleting(id) => Deleting(id)'
        BY <2>1 DEF Deleting
    <2>4. CASE deletion[a].path /\ deletion[a].id = id
        <3>1. row[id].status \in {"ready", "deleted"}
            BY <2>1, <2>2, <2>4 DEF StatusTellsTheRun
        <3>2. Deleting(id)'
            BY <2>1, <2>2, <2>4 DEF Deleting, Deletion
        <3>3. \A v \in Workers : RunsAt(v, id, {"stored"})' => ~InTable(id)'
            BY <1>b, <2>1, <3>1 DEF RunsAt, InTable
        <3> QED BY <3>2, <3>3
    <2>5. CASE ~(deletion[a].path /\ deletion[a].id = id)
        <3>1. file'[id] = file[id]
            BY <2>1, <2>5
        <3> QED BY <1>o, <2>1, <2>2, <2>3, <3>1 DEF RunsAt, InTable
    <2> QED BY <2>4, <2>5
<1>25. ASSUME NEW a \in Analysts, DeleteFileFails(a) PROVE Filed(id)'
    BY <1>25 DEF DeleteFileFails, Outage, DeletionsCounted, Idle
<1>26. ASSUME NEW a \in Analysts, DeleteRow(a) PROVE Filed(id)'
    <2>0. PICK i : i = deletion[a].id
        OBVIOUS
    <2>1. /\ crashes = 0 /\ (deletes = 0 \/ outages = 0) /\ work' = work /\ file' = file
          /\ deletion' = [deletion EXCEPT ![a] = Idle]
          /\ row' = [row EXCEPT ![i] = [status |-> "deleted", path |-> FALSE, url |-> FALSE]]
        BY <1>26, <2>0 DEF DeleteRow
    <2>2. CASE id = i
        BY <2>1, <2>2 DEF InTable
    <2>3. CASE id # i
        <3>1. Deleting(id) => Deleting(id)'
            BY <2>0, <2>1, <2>3 DEF Deleting
        <3> QED BY <1>o, <2>1, <2>3, <3>1 DEF RunsAt, InTable
    <2> QED BY <2>2, <2>3
<1>27. ASSUME NEW a \in Analysts, DeleteRowFails(a) PROVE Filed(id)'
    BY <1>27 DEF DeleteRowFails, Outage, DeletionsCounted, Idle
<1>28. ASSUME NEW a \in Analysts, NEW i \in Reports, DeleteRead(a, i) PROVE Filed(id)'
    <2>1. /\ crashes = 0 /\ row' = row /\ work' = work /\ file' = file /\ outages = 0
          /\ deletion[a] = Idle
          /\ deletion' = [deletion EXCEPT ![a] = [pc |-> "read", id |-> i, path |-> row[i].path]]
        BY <1>28 DEF DeleteRead
    <2>2. Deleting(id) => Deleting(id)'
        BY <2>1 DEF Deleting, Idle
    <2> QED BY <1>o, <2>1, <2>2 DEF RunsAt, InTable
<1>30. ASSUME NEW w \in Workers, NEW i \in Reports, PushDeclined(w, i) PROVE Filed(id)'
    <2>1. \A v \in Workers : RunsAt(v, id, {"stored"})' => RunsAt(v, id, {"stored"})
        BY <1>30 DEF PushDeclined, RunsAt
    <2> QED BY <1>k, <1>30, <2>1 DEF PushDeclined, InTable
<1>31. ASSUME NEW w \in Workers, ChildLost(w) PROVE Filed(id)'
    <2>1. \A v \in Workers : RunsAt(v, id, {"stored"})' => RunsAt(v, id, {"stored"})
        BY <1>31 DEF ChildLost, RunsAt, Idle
    <2> QED BY <1>k, <1>31, <2>1 DEF ChildLost, InTable
<1>32. CASE SwitchLibrary
    BY <1>k, <1>32 DEF SwitchLibrary, RunsAt, InTable
<1>29. CASE UNCHANGED vars
    BY <1>k, <1>29 DEF vars, RunsAt, InTable
<1> HIDE DEF Filed
<1> QED
    BY <1>1, <1>2, <1>3, <1>4, <1>5, <1>6, <1>7, <1>8, <1>9, <1>10, <1>11, <1>12, <1>13,
       <1>14, <1>15, <1>16, <1>17, <1>18, <1>19, <1>20, <1>21, <1>22, <1>23, <1>24,
       <1>25, <1>26, <1>27, <1>28, <1>29, <1>30, <1>31, <1>32
    DEF Next, WorkerStep, DeletionStep

\* What the proofs about ready reports rest on.
ReadyInv ==
    /\ TypeOK /\ TasksKeepToTheirPoints /\ ReadyHasPath /\ OneExecution /\ BuildsGenerating
    /\ StatusTellsTheRun /\ DeletionsCounted /\ FileOfRun

LEMMA InitReadyInv == Init => ReadyInv
PROOF
<1> SUFFICES ASSUME Init PROVE ReadyInv
    OBVIOUS
<1>1. TypeOK
    BY InitTypeOK
<1>2. \A id \in Reports, n \in 0..MaxRetries :
          jobs[Message(id, n)] = IF n = 0 THEN 1 ELSE 0
    BY MessageIsJob DEF Init, Generate, Message
<1>3. \A w \in Workers, id \in Reports, points \in SUBSET Points : ~RunsAt(w, id, points)
    BY DEF Init, RunsAt, Idle, Points
<1>4. OneExecution
    <2>1. \A w \in Workers, id \in Reports : ~RunsAt(w, id, Running)
        BY <1>3 DEF Running, Generating, Points
    <2>2. \A id \in Reports, n \in 0..MaxRetries :
              jobs[Message(id, n)] <= 1 /\ (jobs[Message(id, n)] > 0 => n = 0)
        BY <1>2
    <2> QED BY <2>1, <2>2 DEF OneExecution
<1>5. BuildsGenerating /\ StatusTellsTheRun /\ DeletionsCounted /\ FileOfRun
    BY <1>3 DEF Init, BuildsGenerating, StatusTellsTheRun, DeletionsCounted, FileOfRun, Points
<1>6. TasksKeepToTheirPoints /\ ReadyHasPath
    BY DEF Init, TasksKeepToTheirPoints, ReadyHasPath
<1> QED BY <1>1, <1>4, <1>5, <1>6 DEF ReadyInv

LEMMA StepReadyInv == ReadyInv /\ [Next]_vars => ReadyInv'
PROOF BY StepTypeOK, StepTasks, StepReadyHasPath, StepOneExecution, StepBuildsGenerating,
         StepStatusTellsTheRun, StepDeletionsCounted, StepFileOfRun DEF ReadyInv

\* download_report serves every ready report: its PDF is there and complete, unless
\* it is being deleted, a deletion failed half way, or a lost worker left two
\* executions.
THEOREM ReadyReportsAreWhole == Spec => []ReadyIsWhole
PROOF
<1>1. ReadyInv => ReadyIsWhole
    <2> SUFFICES ASSUME ReadyInv, NEW id \in Reports, row[id].status = "ready", ~Deleting(id),
                        ~(deletes > 0 /\ outages > 0), ~(crashes > 0)
                 PROVE  row[id].path /\ file[id] = "whole"
        BY DEF ReadyIsWhole
    <2>1. crashes = 0 /\ (deletes = 0 \/ outages = 0)
        BY DEF ReadyInv, TypeOK
    <2> QED BY <2>1 DEF ReadyInv, FileOfRun, ReadyHasPath
<1> QED BY <1>1, InitReadyInv, StepReadyInv, PTL DEF Spec

\* Without a crash and a failed call no step turns "ready" back.
LEMMA StepReadyStays ==
    ASSUME ReadyInv, [Next]_vars, crashes' = 0, outages' = 0, NEW id \in Reports,
           row[id].status = "ready"
    PROVE  row'[id].status \in {"ready", "deleted"}
PROOF
<1> DEFINE Stays(r) == row[r].status \in {"ready", "deleted"}
<1> SUFFICES Stays(id)'
    OBVIOUS
<1>t. TypeOK /\ TasksKeepToTheirPoints /\ StatusTellsTheRun
    BY DEF ReadyInv
<1>s. crashes = 0 /\ outages = 0 => /\ ~Waiting("generate", id)
                                    /\ \A w \in Workers : ~RunsAt(w, id, {"failing"})
    BY <1>t DEF StatusTellsTheRun
<1> USE DEF bounds, delivery, Goto, TypeOK
<1>1. ASSUME NEW w \in Workers, NEW i \in Reports, Begin(w, i) PROVE Stays(id)'
    <2>1. crashes = 0 /\ outages = 0 /\ Waiting("generate", i)
        BY <1>1 DEF Begin, Waiting
    <2>2. id # i
        BY <1>s, <2>1
    <2> QED BY <1>1, <2>2 DEF Begin
<1>2. ASSUME NEW w \in Workers, NEW i \in Reports, BeginMissing(w, i) PROVE Stays(id)'
    BY <1>2, <1>t DEF BeginMissing
<1>3. ASSUME NEW w \in Workers, NEW i \in Reports, PushBegin(w, i) PROVE Stays(id)'
    BY <1>3, <1>t DEF PushBegin
<1>4. ASSUME NEW w \in Workers, NEW i \in Reports, PushSkips(w, i) PROVE Stays(id)'
    BY <1>4, <1>t DEF PushSkips
<1>5. ASSUME NEW w \in Workers, Render(w) PROVE Stays(id)'
    BY <1>5, <1>t DEF Render
<1>6. ASSUME NEW w \in Workers, StoreBegin(w) PROVE Stays(id)'
    BY <1>6, <1>t DEF StoreBegin
<1>7. ASSUME NEW w \in Workers, StoreEnd(w) PROVE Stays(id)'
    BY <1>7, <1>t DEF StoreEnd
<1>8. ASSUME NEW w \in Workers, Finish(w) PROVE Stays(id)'
    BY <1>8, <1>t DEF Finish
<1>9. ASSUME NEW w \in Workers, RequestPush(w) PROVE Stays(id)'
    BY <1>9, <1>t DEF RequestPush
<1>10. ASSUME NEW w \in Workers, GenerateRaises(w) PROVE Stays(id)'
    BY <1>10, <1>t DEF GenerateRaises
<1>11. ASSUME NEW w \in Workers, FinishStale(w) PROVE Stays(id)'
    BY <1>11, <1>t DEF FinishStale
<1>12. ASSUME NEW w \in Workers, FinishFails(w) PROVE Stays(id)'
    BY <1>12, <1>t DEF FinishFails, Outage
<1>13. ASSUME NEW w \in Workers, RequestPushFails(w) PROVE Stays(id)'
    BY <1>13, <1>t DEF RequestPushFails, Outage
<1>14. ASSUME NEW w \in Workers, PersistFailed(w) PROVE Stays(id)'
    <2>0. PICK i : i = work[w].job.id
        OBVIOUS
    <2>1. crashes = 0 /\ outages = 0 /\ RunsAt(w, i, {"failing"})
        BY <1>14, <1>t, <2>0, WorkShape
        DEF PersistFailed, RunsAt, TasksKeepToTheirPoints, Pushing, Points
    <2>2. id # i
        BY <1>s, <2>1
    <2> QED BY <1>14, <2>0, <2>2 DEF PersistFailed
<1>15. ASSUME NEW w \in Workers, PersistFailedFails(w) PROVE Stays(id)'
    BY <1>15, <1>t DEF PersistFailedFails, Outage
<1>16. ASSUME NEW w \in Workers, Upload(w) PROVE Stays(id)'
    BY <1>16, <1>t DEF Upload
<1>17. ASSUME NEW w \in Workers, UploadFails(w) PROVE Stays(id)'
    BY <1>17, <1>t DEF UploadFails
<1>18. ASSUME NEW w \in Workers, RecordUrl(w) PROVE Stays(id)'
    BY <1>18, <1>t DEF RecordUrl
<1>19. ASSUME NEW w \in Workers, RecordUrlFails(w) PROVE Stays(id)'
    BY <1>19, <1>t DEF RecordUrlFails, Outage
<1>20. ASSUME NEW w \in Workers, Retry(w) PROVE Stays(id)'
    BY <1>20, <1>t DEF Retry
<1>21. ASSUME NEW w \in Workers, RetryFails(w) PROVE Stays(id)'
    BY <1>21, <1>t DEF RetryFails, Outage
<1>22. ASSUME NEW w \in Workers, Acknowledge(w) PROVE Stays(id)'
    BY <1>22, <1>t DEF Acknowledge
<1>23. ASSUME NEW w \in Workers, WorkerLost(w) PROVE Stays(id)'
    BY <1>23, <1>t DEF WorkerLost
<1>24. ASSUME NEW a \in Analysts, DeleteFile(a) PROVE Stays(id)'
    BY <1>24, <1>t DEF DeleteFile
<1>25. ASSUME NEW a \in Analysts, DeleteFileFails(a) PROVE Stays(id)'
    BY <1>25, <1>t DEF DeleteFileFails, Outage
<1>26. ASSUME NEW a \in Analysts, DeleteRow(a) PROVE Stays(id)'
    BY <1>26, <1>t DEF DeleteRow
<1>27. ASSUME NEW a \in Analysts, DeleteRowFails(a) PROVE Stays(id)'
    BY <1>27, <1>t DEF DeleteRowFails, Outage
<1>28. ASSUME NEW a \in Analysts, NEW i \in Reports, DeleteRead(a, i) PROVE Stays(id)'
    BY <1>28, <1>t DEF DeleteRead
<1>30. ASSUME NEW w \in Workers, NEW i \in Reports, PushDeclined(w, i) PROVE Stays(id)'
    BY <1>30, <1>t DEF PushDeclined
<1>31. ASSUME NEW w \in Workers, ChildLost(w) PROVE Stays(id)'
    BY <1>31, <1>t DEF ChildLost
<1>32. CASE SwitchLibrary
    BY <1>32, <1>t DEF SwitchLibrary
<1>29. CASE UNCHANGED vars
    BY <1>29 DEF vars
<1> HIDE DEF Stays
<1> QED
    BY <1>1, <1>2, <1>3, <1>4, <1>5, <1>6, <1>7, <1>8, <1>9, <1>10, <1>11, <1>12, <1>13,
       <1>14, <1>15, <1>16, <1>17, <1>18, <1>19, <1>20, <1>21, <1>22, <1>23, <1>24,
       <1>25, <1>26, <1>27, <1>28, <1>29, <1>30, <1>31, <1>32
    DEF Next, WorkerStep, DeletionStep

\* A finished report does not go back to generating or failed, unless a worker
\* was lost or a call failed.
THEOREM ReadyReportsStayReady == Spec => ReadyStaysReady
PROOF
<1>1. ReadyInv /\ [Next]_vars =>
          [ crashes' = 0 /\ outages' = 0 =>
              \A id \in Reports : row[id].status = "ready" =>
                  row'[id].status \in {"ready", "deleted"} ]_vars
    BY StepReadyStays
<1> QED BY <1>1, InitReadyInv, StepReadyInv, PTL DEF Spec, ReadyStaysReady

=============================================================================
