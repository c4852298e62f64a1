------------------------------ MODULE ReportWorker ------------------------------
(***************************************************************************)
(* The life of a report once its row is committed and its job is queued:    *)
(* the Celery tasks generate_report and push_report_to_sharepoint, and      *)
(* deletion by an analyst (report_service.delete_report).                   *)
(*                                                                          *)
(* A row, its PDF in the storage backend and its jobs in the broker are     *)
(* three stores without a common transaction.  One action is one call to    *)
(* one of them, so that a crash, another worker or a deletion can fall      *)
(* between any two.  task_acks_late: a message stays with the broker until  *)
(* the task returns.  A worker lost as a whole gives it back; one that only *)
(* loses the child process of the task acknowledges it, for                 *)
(* task_reject_on_worker_lost is not set, and the task is gone.             *)
(***************************************************************************)
EXTENDS Integers, FiniteSets

CONSTANTS
    Reports,      \* reports of the run, each with a pending row and one job
    Workers,      \* Celery worker processes
    Analysts,     \* clients of the DELETE endpoint
    MaxRetries,   \* max_retries of both tasks
    MaxCrashes,   \* bound: workers that are lost during a task
    MaxKills,     \* bound: tasks whose child process is killed
    MaxSwitches,  \* bound: times the integration is enabled or disabled
    MaxOutages,   \* bound: broker or database calls that fail
    MaxDeletes    \* bound: deletions

ASSUME ConstantsAssumption ==
    {MaxRetries, MaxCrashes, MaxKills, MaxSwitches, MaxOutages, MaxDeletes} \subseteq Nat

VARIABLES
    row,       \* reports table: status, whether storage_path and sharepoint_url are set
    flagged,   \* jobs that carry org_id and are AI assisted or trigger_sharepoint
    file,      \* the storage backend: "none", "partial" or "whole" PDF of a report
    remote,    \* what SharePoint holds of a report: "none", "partial" or "whole"
    jobs,      \* broker: number of undelivered messages of each kind
    work,      \* the task each worker executes
    library,   \* whether the SharePoint integration is enabled
    givenUp,   \* tasks that used all their retries, as <<task, report>>
    killed,    \* tasks whose child process was killed, as <<task, report>>
    declined,  \* history: reports whose push found the integration disabled
    deletion,  \* the DELETE request of each analyst
    crashes, switches, outages, deletes

vars == <<row, flagged, file, remote, jobs, work, library, givenUp, killed,
          declined, deletion, crashes, switches, outages, deletes>>
bounds == <<crashes, outages, deletes>>
delivery == <<library, switches, killed, declined>>

-----------------------------------------------------------------------------

Status == {"pending", "generating", "ready", "failed", "deleted"}
Job == [task : {"generate", "push"}, id : Reports, retries : 0..MaxRetries]
Generate(id) == [task |-> "generate", id |-> id, retries |-> 0]
Push(id) == [task |-> "push", id |-> id, retries |-> 0]

Idle == [pc |-> "idle"]

\* A task in execution.  begun, rendered, stored, ready are the points
\* generate_report has reached; fetched and uploaded those of the push;
\* failing is the except branch, retrying what follows it.
Points == {"begun", "rendered", "storing", "stored", "ready",
           "fetched", "uploaded", "failing", "retrying", "done"}
Content == {"none", "partial", "whole"}
\* data: the bytes a push has read.
Task == {Idle} \cup [pc : Points, job : Job, data : Content]
Deletion == {Idle} \cup [pc : {"read", "unlinked"}, id : Reports, path : BOOLEAN]

InTable(id) == row[id].status # "deleted"

Init ==
    /\ row = [id \in Reports |-> [status |-> "pending", path |-> FALSE, url |-> FALSE]]
    /\ flagged \in SUBSET Reports
    /\ file = [id \in Reports |-> "none"]
    /\ remote = [id \in Reports |-> "none"]
    /\ jobs = [j \in Job |-> IF j = Generate(j.id) THEN 1 ELSE 0]
    /\ work = [w \in Workers |-> Idle]
    /\ library = TRUE
    /\ givenUp = {} /\ killed = {} /\ declined = {}
    /\ deletion = [a \in Analysts |-> Idle]
    /\ crashes = 0 /\ switches = 0 /\ outages = 0 /\ deletes = 0

\* Worker w moves to another point of the task it executes.
Goto(w, point) == work' = [work EXCEPT ![w].pc = point]
Outage == outages < MaxOutages /\ outages' = outages + 1

-----------------------------------------------------------------------------
(* generate_report                                                           *)

\* The row is read, its status becomes "generating", COMMIT.
Begin(w, id) ==
    \E n \in 0..MaxRetries :
        LET j == [task |-> "generate", id |-> id, retries |-> n] IN
        /\ work[w] = Idle /\ jobs[j] > 0
        /\ InTable(id)
        /\ jobs' = [jobs EXCEPT ![j] = @ - 1]
        /\ work' = [work EXCEPT ![w] = [pc |-> "begun", job |-> j, data |-> "none"]]
        /\ row' = [row EXCEPT ![id].status = "generating"]
        /\ UNCHANGED <<flagged, file, remote, givenUp, deletion, bounds, delivery>>

\* "report not found": the task returns.
BeginMissing(w, id) ==
    \E n \in 0..MaxRetries :
        LET j == [task |-> "generate", id |-> id, retries |-> n] IN
        /\ work[w] = Idle /\ jobs[j] > 0
        /\ ~InTable(id)
        /\ jobs' = [jobs EXCEPT ![j] = @ - 1]
        /\ UNCHANGED <<row, flagged, file, remote, work, givenUp, deletion, bounds, delivery>>

\* Payload, graph, AI narrative and PDF; any of them may raise.
Render(w) ==
    /\ work[w].pc = "begun"
    /\ Goto(w, "rendered")
    /\ UNCHANGED <<row, flagged, file, remote, jobs, givenUp, deletion, bounds, delivery>>

\* Slip kept for the checks: the call of the storage backend is not awaited.
StoreNotAwaited(w) ==
    /\ work[w].pc = "rendered"
    /\ file' = [file EXCEPT ![work[w].job.id] = "partial"]
    /\ Goto(w, "stored")
    /\ UNCHANGED <<row, flagged, remote, jobs, givenUp, deletion, bounds, delivery>>

\* backend.store: the file is truncated, then written.
StoreBegin(w) ==
    /\ work[w].pc = "rendered"
    /\ file' = [file EXCEPT ![work[w].job.id] = "partial"]
    /\ Goto(w, "storing")
    /\ UNCHANGED <<row, flagged, remote, jobs, givenUp, deletion, bounds, delivery>>

StoreEnd(w) ==
    /\ work[w].pc = "storing"
    /\ file' = [file EXCEPT ![work[w].job.id] = "whole"]
    /\ Goto(w, "stored")
    /\ UNCHANGED <<row, flagged, remote, jobs, givenUp, deletion, bounds, delivery>>

\* status, storage_path and generated_at are committed.
Finish(w) ==
    LET id == work[w].job.id IN
    /\ work[w].pc = "stored"
    /\ InTable(id)
    /\ row' = [row EXCEPT ![id].status = "ready", ![id].path = TRUE]
    /\ Goto(w, "ready")
    /\ UNCHANGED <<flagged, file, remote, jobs, givenUp, deletion, bounds, delivery>>

\* Slip kept for the checks: only the first attempt asks for the push.
RequestPushOnce(w) ==
    LET id == work[w].job.id IN
    /\ work[w].pc = "ready"
    /\ jobs' = IF id \in flagged /\ work[w].job.retries = 0
               THEN [jobs EXCEPT ![Push(id)] = @ + 1] ELSE jobs
    /\ Goto(w, "done")
    /\ UNCHANGED <<row, flagged, file, remote, givenUp, deletion, bounds, delivery>>

\* push_report_to_sharepoint.delay, when the version goes to the library.
RequestPush(w) ==
    LET id == work[w].job.id IN
    /\ work[w].pc = "ready"
    /\ jobs' = IF id \in flagged THEN [jobs EXCEPT ![Push(id)] = @ + 1] ELSE jobs
    /\ Goto(w, "done")
    /\ UNCHANGED <<row, flagged, file, remote, givenUp, deletion, bounds, delivery>>

\* Slip kept for the checks: the WebSocket notice after COMMIT may raise as well.
RaisesAfterReady(w) ==
    /\ work[w].pc \in {"begun", "rendered", "storing", "ready"}
    /\ Goto(w, "failing")
    /\ UNCHANGED <<row, flagged, file, remote, jobs, givenUp, deletion, bounds, delivery>>

\* What the try block may raise: rendering or storage fails, ...
GenerateRaises(w) ==
    /\ work[w].pc \in {"begun", "rendered", "storing"}
    /\ Goto(w, "failing")
    /\ UNCHANGED <<row, flagged, file, remote, jobs, givenUp, deletion, bounds, delivery>>

\* ... the UPDATE of a row deleted meanwhile matches nothing (StaleDataError).
\* The session cannot be used before a rollback: no status is written either.
FinishStale(w) ==
    /\ work[w].pc = "stored"
    /\ ~InTable(work[w].job.id)
    /\ Goto(w, "retrying")
    /\ UNCHANGED <<row, flagged, file, remote, jobs, givenUp, deletion, bounds, delivery>>

\* ... the COMMIT fails, with the same effect on the session,
FinishFails(w) ==
    /\ work[w].pc = "stored"
    /\ Outage
    /\ Goto(w, "retrying")
    /\ UNCHANGED <<row, flagged, file, remote, jobs, givenUp, deletion, crashes, deletes, delivery>>

\* ... or the broker refuses the push after the report was committed as ready.
RequestPushFails(w) ==
    /\ work[w].pc = "ready" /\ work[w].job.id \in flagged
    /\ Outage
    /\ Goto(w, "failing")
    /\ UNCHANGED <<row, flagged, file, remote, jobs, givenUp, deletion, crashes, deletes, delivery>>

\* The except branch: status "failed" and error_message are committed; an UPDATE
\* without a row raises again and is only logged.
PersistFailed(w) ==
    LET id == work[w].job.id IN
    /\ work[w].pc = "failing"
    /\ row' = IF InTable(id) THEN [row EXCEPT ![id].status = "failed"] ELSE row
    /\ Goto(w, "retrying")
    /\ UNCHANGED <<flagged, file, remote, jobs, givenUp, deletion, bounds, delivery>>

PersistFailedFails(w) ==
    /\ work[w].pc = "failing"
    /\ Outage
    /\ Goto(w, "retrying")
    /\ UNCHANGED <<row, flagged, file, remote, jobs, givenUp, deletion, crashes, deletes, delivery>>

-----------------------------------------------------------------------------
(* push_report_to_sharepoint                                                 *)

\* The report is ready and its file is read; FileNotFoundError leads to a retry.
PushBegin(w, id) ==
    \E n \in 0..MaxRetries :
        LET j == [task |-> "push", id |-> id, retries |-> n] IN
        /\ work[w] = Idle /\ jobs[j] > 0
        /\ row[id].status = "ready" /\ row[id].path /\ library
        /\ jobs' = [jobs EXCEPT ![j] = @ - 1]
        /\ work' = [work EXCEPT ![w] =
                       [pc |-> IF file[id] = "none" THEN "retrying" ELSE "fetched",
                        job |-> j, data |-> file[id]]]
        /\ UNCHANGED <<row, flagged, file, remote, givenUp, deletion, bounds, delivery>>

\* "not ready or no storage_path": the task returns.
PushSkips(w, id) ==
    \E n \in 0..MaxRetries :
        LET j == [task |-> "push", id |-> id, retries |-> n] IN
        /\ work[w] = Idle /\ jobs[j] > 0
        /\ ~(row[id].status = "ready" /\ row[id].path)
        /\ jobs' = [jobs EXCEPT ![j] = @ - 1]
        /\ UNCHANGED <<row, flagged, file, remote, work, givenUp, deletion, bounds, delivery>>

\* The report is ready, but the integration is disabled: the task returns.
PushDeclined(w, id) ==
    \E n \in 0..MaxRetries :
        LET j == [task |-> "push", id |-> id, retries |-> n] IN
        /\ work[w] = Idle /\ jobs[j] > 0
        /\ row[id].status = "ready" /\ row[id].path /\ ~library
        /\ jobs' = [jobs EXCEPT ![j] = @ - 1]
        /\ declined' = declined \cup {id}
        /\ UNCHANGED <<row, flagged, file, remote, work, library, switches, givenUp, killed,
                       deletion, bounds>>

\* An administrator enables or disables the integration.
SwitchLibrary ==
    /\ switches < MaxSwitches /\ switches' = switches + 1
    /\ library' = ~library
    /\ UNCHANGED <<row, flagged, file, remote, jobs, work, givenUp, killed, declined, deletion,
                   bounds>>

Upload(w) ==
    /\ work[w].pc = "fetched"
    /\ remote' = [remote EXCEPT ![work[w].job.id] = work[w].data]
    /\ Goto(w, "uploaded")
    /\ UNCHANGED <<row, flagged, file, jobs, givenUp, deletion, bounds, delivery>>

UploadFails(w) ==
    /\ work[w].pc = "fetched"
    /\ Goto(w, "retrying")
    /\ UNCHANGED <<row, flagged, file, remote, jobs, givenUp, deletion, bounds, delivery>>

\* sharepoint_url is committed; without a row the task is retried, and skips.
RecordUrl(w) ==
    LET id == work[w].job.id IN
    /\ work[w].pc = "uploaded"
    /\ row' = IF InTable(id) THEN [row EXCEPT ![id].url = TRUE] ELSE row
    /\ Goto(w, IF InTable(id) THEN "done" ELSE "retrying")
    /\ UNCHANGED <<flagged, file, remote, jobs, givenUp, deletion, bounds, delivery>>

RecordUrlFails(w) ==
    /\ work[w].pc = "uploaded"
    /\ Outage
    /\ Goto(w, "retrying")
    /\ UNCHANGED <<row, flagged, file, remote, jobs, givenUp, deletion, crashes, deletes, delivery>>

-----------------------------------------------------------------------------
(* self.retry, acknowledgement, redelivery                                   *)

\* A new message with one more retry; none when max_retries is reached.
Retry(w) ==
    LET j == work[w].job
        again == [task |-> j.task, id |-> j.id, retries |-> j.retries + 1] IN
    /\ work[w].pc = "retrying"
    /\ IF j.retries < MaxRetries
       THEN jobs' = [jobs EXCEPT ![again] = @ + 1] /\ UNCHANGED givenUp
       ELSE givenUp' = givenUp \cup {<<j.task, j.id>>} /\ UNCHANGED jobs
    /\ Goto(w, "done")
    /\ UNCHANGED <<row, flagged, file, remote, deletion, bounds, delivery>>

\* The broker refuses the new message: the task is rejected, not requeued.
RetryFails(w) ==
    /\ work[w].pc = "retrying" /\ work[w].job.retries < MaxRetries
    /\ Outage
    /\ Goto(w, "done")
    /\ UNCHANGED <<row, flagged, file, remote, jobs, givenUp, deletion, crashes, deletes, delivery>>

\* Slips kept for the checks: the message is removed twice; a message is gone as
\* soon as a worker takes it (early acknowledgement).
AcknowledgeTwice(w) ==
    /\ work[w].pc = "done"
    /\ jobs' = [jobs EXCEPT ![work[w].job] = @ - 1]
    /\ work' = [work EXCEPT ![w] = Idle]
    /\ UNCHANGED <<row, flagged, file, remote, givenUp, deletion, bounds, delivery>>

WorkerLostAfterEarlyAck(w) ==
    /\ work[w] # Idle
    /\ crashes < MaxCrashes /\ crashes' = crashes + 1
    /\ work' = [work EXCEPT ![w] = Idle]
    /\ UNCHANGED <<row, flagged, file, remote, jobs, givenUp, deletion, outages, deletes, delivery>>

\* task_acks_late: the message goes when the task has ended.
Acknowledge(w) ==
    /\ work[w].pc = "done"
    /\ work' = [work EXCEPT ![w] = Idle]
    /\ UNCHANGED <<row, flagged, file, remote, jobs, givenUp, deletion, bounds, delivery>>

\* The whole worker is lost before that: the message is delivered again.
WorkerLost(w) ==
    /\ work[w] # Idle
    /\ crashes < MaxCrashes /\ crashes' = crashes + 1
    /\ jobs' = [jobs EXCEPT ![work[w].job] = @ + 1]
    /\ work' = [work EXCEPT ![w] = Idle]
    /\ UNCHANGED <<row, flagged, file, remote, givenUp, deletion, outages, deletes, delivery>>

\* Only the child process is killed: its worker acknowledges the message, and
\* nothing of the task runs any more.
ChildLost(w) ==
    /\ work[w] # Idle
    /\ Cardinality(killed) < MaxKills
    /\ killed' = killed \cup {<<work[w].job.task, work[w].job.id>>}
    /\ work' = [work EXCEPT ![w] = Idle]
    /\ UNCHANGED <<row, flagged, file, remote, jobs, library, switches, givenUp, declined,
                   deletion, bounds>>

-----------------------------------------------------------------------------
(* delete_report                                                             *)

DeleteRead(a, id) ==
    /\ deletion[a] = Idle /\ InTable(id)
    /\ deletes < MaxDeletes /\ deletes' = deletes + 1
    /\ deletion' = [deletion EXCEPT ![a] =
                      [pc |-> "read", id |-> id, path |-> row[id].path]]
    /\ UNCHANGED <<row, flagged, file, remote, jobs, work, givenUp, crashes, outages, delivery>>

\* backend.delete when the row had a path; its errors are only logged.
DeleteFile(a) ==
    /\ deletion[a].pc = "read"
    /\ file' = IF deletion[a].path THEN [file EXCEPT ![deletion[a].id] = "none"] ELSE file
    /\ deletion' = [deletion EXCEPT ![a].pc = "unlinked"]
    /\ UNCHANGED <<row, flagged, remote, jobs, work, givenUp, bounds, delivery>>

DeleteFileFails(a) ==
    /\ deletion[a].pc = "read" /\ deletion[a].path
    /\ Outage
    /\ deletion' = [deletion EXCEPT ![a].pc = "unlinked"]
    /\ UNCHANGED <<row, flagged, file, remote, jobs, work, givenUp, crashes, deletes, delivery>>

DeleteRow(a) ==
    /\ deletion[a].pc = "unlinked"
    /\ row' = [row EXCEPT ![deletion[a].id] =
                  [status |-> "deleted", path |-> FALSE, url |-> FALSE]]
    /\ deletion' = [deletion EXCEPT ![a] = Idle]
    /\ UNCHANGED <<flagged, file, remote, jobs, work, givenUp, bounds, delivery>>

\* The COMMIT fails: the request ends, the file is gone, the row stays.
DeleteRowFails(a) ==
    /\ deletion[a].pc = "unlinked"
    /\ Outage
    /\ deletion' = [deletion EXCEPT ![a] = Idle]
    /\ UNCHANGED <<row, flagged, file, remote, jobs, work, givenUp, crashes, deletes, delivery>>

-----------------------------------------------------------------------------

\* Everything a worker does of its own accord, its errors included.
WorkerStep(w) ==
    \/ \E id \in Reports : \/ Begin(w, id) \/ BeginMissing(w, id)
                           \/ PushBegin(w, id) \/ PushSkips(w, id)
                           \/ PushDeclined(w, id)
    \/ Render(w) \/ StoreBegin(w) \/ StoreEnd(w) \/ Finish(w) \/ RequestPush(w)
    \/ GenerateRaises(w) \/ FinishStale(w) \/ FinishFails(w) \/ RequestPushFails(w)
    \/ PersistFailed(w) \/ PersistFailedFails(w)
    \/ Upload(w) \/ UploadFails(w) \/ RecordUrl(w) \/ RecordUrlFails(w)
    \/ Retry(w) \/ RetryFails(w) \/ Acknowledge(w)

DeletionStep(a) ==
    \/ DeleteFile(a) \/ DeleteFileFails(a) \/ DeleteRow(a) \/ DeleteRowFails(a)

Next ==
    \/ \E w \in Workers : WorkerStep(w) \/ WorkerLost(w) \/ ChildLost(w)
    \/ SwitchLibrary
    \/ \E a \in Analysts : DeletionStep(a) \/ \E id \in Reports : DeleteRead(a, id)

Spec == Init /\ [][Next]_vars

\* Workers go on working and a request that began is completed.
FairSpec == /\ Spec
            /\ \A w \in Workers : WF_vars(WorkerStep(w))
            /\ \A a \in Analysts : WF_vars(DeletionStep(a))

-----------------------------------------------------------------------------
(* Properties *)

TypeOK ==
    /\ row \in [Reports -> [status : Status, path : BOOLEAN, url : BOOLEAN]]
    /\ flagged \subseteq Reports
    /\ file \in [Reports -> Content] /\ remote \in [Reports -> Content]
    /\ jobs \in [Job -> Nat]
    /\ work \in [Workers -> Task]
    /\ library \in BOOLEAN
    /\ givenUp \subseteq {"generate", "push"} \X Reports
    /\ killed \subseteq {"generate", "push"} \X Reports /\ declined \subseteq Reports
    /\ deletion \in [Analysts -> Deletion]
    /\ crashes \in Nat /\ switches \in Nat /\ outages \in Nat /\ deletes \in Nat

Deleting(id) == \E a \in Analysts : deletion[a].pc = "unlinked" /\ deletion[a].id = id

\* No message of the task is left for the report and no worker executes one.
Drained(task, id) ==
    /\ \A n \in 0..MaxRetries : jobs[[task |-> task, id |-> id, retries |-> n]] = 0
    /\ \A w \in Workers : work[w] # Idle => work[w].job.task # task \/ work[w].job.id # id

\* download_report serves every ready report: its PDF is there and complete,
\* unless it is being deleted, a deletion failed half way, or the message of a
\* lost worker left two executions of one report.  A killed child does no harm.
ReadyIsWhole ==
    \A id \in Reports : row[id].status = "ready" =>
        \/ row[id].path /\ file[id] = "whole"
        \/ Deleting(id)
        \/ deletes > 0 /\ outages > 0
        \/ crashes > 0

\* Whatever workers are lost, no report is left pending or generating once its
\* jobs are gone, and "failed" is only left when all retries are used; the one
\* exception is a report whose task was killed.
DrainedIsSettled ==
    outages = 0 => \A id \in Reports :
        Drained("generate", id) /\ <<"generate", id>> \notin killed =>
            /\ row[id].status \in {"ready", "failed", "deleted"}
            /\ row[id].status = "failed" => <<"generate", id>> \in givenUp

\* A ready version that belongs in the library gets there, whatever workers are
\* lost between COMMIT and push, unless its push used all its retries or found
\* the integration disabled, or a task of the report was killed.
DrainedReadyIsPushed ==
    outages = 0 => \A id \in flagged :
        Drained("generate", id) /\ Drained("push", id) /\ row[id].status = "ready" =>
            \/ row[id].url
            \/ <<"push", id>> \in givenUp
            \/ id \in declined
            \/ {<<"generate", id>>, <<"push", id>>} \cap killed # {}

\* A finished report does not go back to generating or failed, unless a worker
\* was lost or a call failed.
ReadyStaysReady ==
    [][ crashes' = 0 /\ outages' = 0 =>
          \A id \in Reports : row[id].status = "ready" =>
              row'[id].status \in {"ready", "deleted"} ]_vars

\* Every report comes to rest, whatever workers are lost, unless its task was
\* killed: then it may stay as it is.
EventuallySettled ==
    \A id \in Reports : <>[](\/ row[id].status \in {"ready", "failed", "deleted"}
                             \/ <<"generate", id>> \in killed)

=============================================================================
