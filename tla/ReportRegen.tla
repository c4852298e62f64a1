------------------------------ MODULE ReportRegen ------------------------------
(***************************************************************************)
(* Automatic regeneration of the reports of one incident                    *)
(* (services/report_regen_service.py, the auto_regenerate_reports task) and *)
(* the other writers of the incident's report rows: manual generation,      *)
(* deletion of a report, deletion of a report template.                     *)
(*                                                                          *)
(* Every handler that changes an incident arms a trailing-edge debounce     *)
(* before its transaction commits: it SETs a fresh token in Redis and       *)
(* schedules a run carrying that token.  A run regenerates only when its    *)
(* token is still the stored one.  Time is explicit: Tick is one unit, the  *)
(* token has a TTL, a scheduled message a countdown.                        *)
(*                                                                          *)
(* Incidents do not share a token, a run or a version sequence, so one      *)
(* incident is enough.  generate_report is one step here (Render); its      *)
(* retries and its file are the subject of ReportWorker.                    *)
(***************************************************************************)
EXTENDS Integers, FiniteSets

CONSTANTS
    Clients,      \* request handlers that may be in flight at the same time
    Workers,      \* Celery worker processes
    Templates,    \* report templates of the organisation
    Base,         \* the seed of reports without a template (NULL)
    Reports,      \* identifiers a report row may get
    Debounces,    \* values resolve_debounce_seconds may return, in ticks
    Margin,       \* _TOKEN_TTL_MARGIN_SECONDS, in ticks
    Handling,     \* longest time a handler takes from the trigger to COMMIT
    Backlog,      \* longest time a due message waits for a worker
    Visibility,   \* delay after which the broker redelivers a lost message
    MaxChanges,   \* bound: changes to the incident
    Reserve,      \* bound: identifiers manual generation leaves unused
    MaxFaults,    \* bound: Redis, broker and worker failures
    MaxDeletes    \* bound: deletions of reports and templates

ASSUME ConstantsAssumption ==
    /\ Base \notin Templates
    /\ Debounces \subseteq Nat
    /\ IsFiniteSet(Reports)
    /\ {Margin, Handling, Backlog, Visibility} \subseteq Nat
    /\ {MaxChanges, Reserve, MaxFaults, MaxDeletes} \subseteq Nat

VARIABLES
    content,    \* number of committed changes of the incident
    armed,      \* number of tokens handed out; token n is the n-th SET
    key,        \* the Redis key report_regen:{incident}: token (0: absent), ttl
    messages,   \* scheduled auto_regenerate_reports messages
    client,     \* the request each client has in flight
    run,        \* the auto_regenerate_reports run of each worker
    rows,       \* the reports table
    templates,  \* report templates that still exist
    queue,      \* generate_report messages: report ids
    faults,     \* failures so far
    deletes,    \* deletions so far
    broken,     \* history: the newest change may have lost its regeneration
    lastRun     \* history: the last run that passed its check, for one debounce

vars == <<content, armed, key, messages, client, run, rows, templates, queue,
          faults, deletes, broken, lastRun>>

triggerVars == <<armed, key, messages>>
tableVars   == <<rows, templates, queue>>
boundVars   == <<faults, deletes>>
historyVars == <<broken, lastRun>>

-----------------------------------------------------------------------------
(* Values *)

Seeds == Templates \cup {Base}
Ids(n) == 0..n                      \* token numbers; 0 is no token

Row == [status  : {"none", "pending", "ready", "deleted"},
        seed    : Seeds,
        version : Nat,
        basis   : Nat]              \* content committed when the row was inserted
NoRow == [status |-> "none", seed |-> Base, version |-> 0, basis |-> 0]

Idle == [pc |-> "idle"]
Request ==
    {Idle}
    \cup [pc : {"armed"}, token : Nat, wait : Debounces, age : 0..Handling]
    \cup [pc : {"handled"}, age : 0..Handling]
    \cup [pc : {"enqueue"}, seed : Seeds, version : Nat]
    \cup [pc : {"enqueued"}, id : Reports]
Run ==
    {Idle}
    \cup [pc : {"checked"}, token : Nat]
    \cup [pc : {"planned"}, token : Nat, seeds : SUBSET Seeds, version : [Seeds -> Nat]]
    \cup [pc : {"created"}, token : Nat, jobs : SUBSET Reports]
Message == [token : Nat, delay : Int]

InTable(id) == rows[id].status \in {"pending", "ready"}

\* Slip kept for the checks: only finished reports count as seeds.
ReadySeeds == {rows[id].seed : id \in {i \in Reports : rows[i].status = "ready"}}

\* The seeds create_regeneration_reports finds: one per distinct template.
LiveSeeds == {rows[id].seed : id \in {i \in Reports : InTable(i)}}

\* next_version_number: MAX(version_number) + 1 over the rows of the seed, or 1.
\* The set holds exactly that number.
VersionNumbers == 1..(Cardinality(Reports) + 1)
Versions(s) == {rows[id].version : id \in {i \in Reports : InTable(i) /\ rows[i].seed = s}}
NextVersion(s) ==
    {n \in VersionNumbers : /\ \A v \in Versions(s) : v < n
                            /\ n = 1 \/ n - 1 \in Versions(s)}

Exists(s) == s \in templates \cup {Base}     \* a row may refer to it
Unused == {id \in Reports : rows[id].status = "none"}

\* Fresh identifiers (uuid4) for one new row per seed of S: no choice, as they
\* differ in nothing; none when the bound on identifiers is reached.
Fresh(S) ==
    LET Injections == {f \in [S -> Unused] : \A s, t \in S : f[s] = f[t] => s = t}
    IN  IF Injections = {} THEN {} ELSE {CHOOSE f \in Injections : TRUE}

Init ==
    /\ content = 0
    /\ armed = 0
    /\ key = [token |-> 0, ttl |-> 0]
    /\ messages = {}
    /\ client = [c \in Clients |-> Idle]
    /\ run = [w \in Workers |-> Idle]
    /\ rows = [id \in Reports |-> NoRow]
    /\ templates = Templates
    /\ queue = {}
    /\ faults = 0
    /\ deletes = 0
    /\ broken = FALSE
    /\ lastRun = [token |-> 0, age |-> 0]

-----------------------------------------------------------------------------
(* A handler that changes the incident: maybe_trigger_report_regen, COMMIT   *)

\* The failures a run of the model may spend.
Fault == faults < MaxFaults /\ faults' = faults + 1

\* Slips kept for the checks: the TTL is the debounce alone; a change that finds
\* a token leaves it in place (a leading-edge debounce, SET NX).
ArmWithoutMargin(c) ==
    /\ client[c] = Idle
    /\ armed < MaxChanges
    /\ \E d \in Debounces :
          /\ client' = [client EXCEPT ![c] =
                           [pc |-> "armed", token |-> armed + 1, wait |-> d, age |-> 0]]
          /\ key' = [token |-> armed + 1, ttl |-> d]
    /\ armed' = armed + 1
    /\ UNCHANGED <<content, messages, run, tableVars, boundVars, historyVars>>

ArmUnlessArmed(c) ==
    /\ client[c] = Idle
    /\ armed < MaxChanges
    /\ \E d \in Debounces :
          /\ client' = [client EXCEPT ![c] =
                           [pc |-> "armed", token |-> armed + 1, wait |-> d, age |-> 0]]
          /\ key' = IF key.token = 0 THEN [token |-> armed + 1, ttl |-> d + Margin] ELSE key
    /\ armed' = armed + 1
    /\ UNCHANGED <<content, messages, run, tableVars, boundVars, historyVars>>

\* r.set(key, token, ex = debounce + margin).
Arm(c) ==
    /\ client[c] = Idle
    /\ armed < MaxChanges
    /\ \E d \in Debounces :
          /\ client' = [client EXCEPT ![c] =
                           [pc |-> "armed", token |-> armed + 1, wait |-> d, age |-> 0]]
          /\ key' = [token |-> armed + 1, ttl |-> d + Margin]
    /\ armed' = armed + 1
    /\ UNCHANGED <<content, messages, run, tableVars, boundVars, historyVars>>

\* Redis is down, or the settings cannot be read: the error is swallowed and
\* the handler goes on.
ArmFails(c) ==
    /\ client[c] = Idle
    /\ Fault
    /\ client' = [client EXCEPT ![c] = [pc |-> "handled", age |-> 0]]
    /\ broken' = TRUE
    /\ UNCHANGED <<content, triggerVars, run, tableVars, deletes, lastRun>>

\* auto_regenerate_reports.apply_async(args, countdown = debounce).
Schedule(c) ==
    /\ client[c].pc = "armed"
    /\ messages' = messages \cup {[token |-> client[c].token, delay |-> client[c].wait]}
    /\ client' = [client EXCEPT ![c] = [pc |-> "handled", age |-> client[c].age]]
    /\ broken' = (broken /\ key.token # client[c].token)
    /\ UNCHANGED <<content, armed, key, run, tableVars, boundVars, lastRun>>

\* apply_async raises after the token is stored; swallowed as well.
ScheduleFails(c) ==
    /\ client[c].pc = "armed"
    /\ Fault
    /\ client' = [client EXCEPT ![c] = [pc |-> "handled", age |-> client[c].age]]
    /\ broken' = (broken \/ client[c].token = armed)
    /\ UNCHANGED <<content, triggerVars, run, tableVars, deletes, lastRun>>

\* get_db: COMMIT after the handler, or ROLLBACK when it raised.
Commit(c) ==
    /\ client[c].pc = "handled"
    /\ content' = content + 1
    /\ client' = [client EXCEPT ![c] = Idle]
    /\ UNCHANGED <<triggerVars, run, tableVars, boundVars, historyVars>>

Rollback(c) ==
    /\ client[c].pc = "handled"
    /\ client' = [client EXCEPT ![c] = Idle]
    /\ UNCHANGED <<content, triggerVars, run, tableVars, boundVars, historyVars>>

-----------------------------------------------------------------------------
(* auto_regenerate_reports on a worker                                       *)

\* Slip kept for the checks: every due run goes on.
CheckAlwaysPasses(w, m) ==
    /\ run[w] = Idle /\ m \in messages /\ m.delay <= 0
    /\ messages' = messages \ {m}
    /\ run' = [run EXCEPT ![w] = [pc |-> "checked", token |-> m.token]]
    /\ lastRun' = [token |-> m.token, age |-> 0]
    /\ UNCHANGED <<content, armed, key, client, tableVars, boundVars, broken>>

\* is_latest_token holds: the run goes on.
CheckPasses(w, m) ==
    /\ run[w] = Idle /\ m \in messages /\ m.delay <= 0
    /\ key.token = m.token
    /\ messages' = messages \ {m}
    /\ run' = [run EXCEPT ![w] = [pc |-> "checked", token |-> m.token]]
    /\ lastRun' = [token |-> m.token, age |-> 0]
    /\ UNCHANGED <<content, armed, key, client, tableVars, boundVars, broken>>

\* Superseded, or the token is gone: nothing to do, the message is acknowledged.
CheckSkips(w, m) ==
    /\ run[w] = Idle /\ m \in messages /\ m.delay <= 0
    /\ key.token # m.token
    /\ messages' = messages \ {m}
    /\ UNCHANGED <<content, armed, key, client, run, tableVars, boundVars, historyVars>>

\* Redis does not answer the check: the task fails and is not retried.
CheckFails(w, m) ==
    /\ run[w] = Idle /\ m \in messages /\ m.delay <= 0
    /\ Fault
    /\ messages' = messages \ {m}
    /\ broken' = TRUE
    /\ UNCHANGED <<content, armed, key, client, run, tableVars, deletes, lastRun>>

\* create_regeneration_reports reads the seeds and their next versions.  With no
\* seed there is nothing to regenerate.
Plan(w) ==
    /\ run[w].pc = "checked"
    /\ IF LiveSeeds = {}
       THEN run' = [run EXCEPT ![w] = Idle]
       ELSE \E v \in [Seeds -> VersionNumbers] :
               /\ \A s \in Seeds : v[s] \in NextVersion(s)
               /\ run' = [run EXCEPT ![w] = [pc |-> "planned", token |-> run[w].token,
                                             seeds |-> LiveSeeds, version |-> v]]
    /\ UNCHANGED <<content, triggerVars, client, tableVars, boundVars, historyVars>>

\* ... and commits one pending row per seed.
CreateRows(w) ==
    /\ run[w].pc = "planned"
    /\ \A s \in run[w].seeds : Exists(s)
    /\ \E new \in Fresh(run[w].seeds) :
          /\ rows' = [id \in Reports |->
                IF \E s \in run[w].seeds : new[s] = id
                THEN LET s == CHOOSE x \in run[w].seeds : new[x] = id
                     IN [status |-> "pending", seed |-> s,
                         version |-> run[w].version[s], basis |-> content]
                ELSE rows[id]]
          /\ run' = [run EXCEPT ![w] = [pc |-> "created", token |-> run[w].token,
                                        jobs |-> {new[s] : s \in run[w].seeds}]]
    /\ UNCHANGED <<content, triggerVars, client, templates, queue, boundVars, historyVars>>

\* A template of the plan was deleted meanwhile: the INSERT violates the foreign
\* key, the whole transaction fails and the task with it (no self.retry).
CreateFails(w) ==
    /\ run[w].pc = "planned"
    /\ \E s \in run[w].seeds : ~Exists(s)
    /\ run' = [run EXCEPT ![w] = Idle]
    /\ broken' = TRUE
    /\ UNCHANGED <<content, triggerVars, client, tableVars, boundVars, lastRun>>

\* A query or the COMMIT fails: no row is inserted, the task fails.
PlanFails(w) ==
    /\ run[w].pc \in {"checked", "planned"}
    /\ Fault
    /\ run' = [run EXCEPT ![w] = Idle]
    /\ broken' = TRUE
    /\ UNCHANGED <<content, triggerVars, client, tableVars, deletes, lastRun>>

\* generate_report.apply_async, one job after the other.
Dispatch(w, id) ==
    /\ run[w].pc = "created" /\ id \in run[w].jobs
    /\ queue' = queue \cup {id}
    /\ run' = [run EXCEPT ![w].jobs = @ \ {id}]
    /\ UNCHANGED <<content, triggerVars, client, rows, templates, boundVars, historyVars>>

\* The broker refuses a job: the task fails, the remaining rows keep no message.
DispatchFails(w) ==
    /\ run[w].pc = "created" /\ run[w].jobs # {}
    /\ Fault
    /\ run' = [run EXCEPT ![w] = Idle]
    /\ UNCHANGED <<content, triggerVars, client, tableVars, deletes, historyVars>>

\* Slip kept for the checks: a run that is superseded while it sends its jobs stops.
FinishSuperseded(w) ==
    /\ run[w].pc = "created"
    /\ run[w].jobs = {} \/ key.token # run[w].token
    /\ run' = [run EXCEPT ![w] = Idle]
    /\ UNCHANGED <<content, triggerVars, client, tableVars, boundVars, historyVars>>

FinishRun(w) ==
    /\ run[w].pc = "created" /\ run[w].jobs = {}
    /\ run' = [run EXCEPT ![w] = Idle]
    /\ UNCHANGED <<content, triggerVars, client, tableVars, boundVars, historyVars>>

\* The task dies.  If its whole worker does, the message was not acknowledged
\* (task_acks_late) and the broker delivers it again, after its visibility
\* timeout; if only the child process does, the worker acknowledges it
\* (task_reject_on_worker_lost is not set) and it is gone.
CrashRun(w) ==
    /\ run[w] # Idle
    /\ Fault
    /\ \/ messages' = messages \cup {[token |-> run[w].token, delay |-> Visibility]}
       \/ UNCHANGED messages
    /\ run' = [run EXCEPT ![w] = Idle]
    /\ broken' = TRUE
    /\ UNCHANGED <<content, armed, key, client, tableVars, deletes, lastRun>>

\* The worker that holds a message until its countdown ends dies.
CrashWaiting(m) ==
    /\ m \in messages /\ m.delay > 0
    /\ Fault
    /\ messages' = (messages \ {m}) \cup {[m EXCEPT !.delay = Visibility]}
    /\ broken' = TRUE
    /\ UNCHANGED <<content, armed, key, client, run, tableVars, deletes, lastRun>>

-----------------------------------------------------------------------------
(* Manual generation: report_service.enqueue_report                          *)

EnqueueRead(c, s) ==
    /\ client[c] = Idle
    /\ Exists(s)
    /\ Cardinality(Unused) > Reserve + Cardinality({d \in Clients : client[d].pc = "enqueue"})
    /\ \E n \in NextVersion(s) :
          client' = [client EXCEPT ![c] = [pc |-> "enqueue", seed |-> s, version |-> n]]
    /\ UNCHANGED <<content, triggerVars, run, tableVars, boundVars, historyVars>>

EnqueueCommit(c) ==
    /\ client[c].pc = "enqueue"
    /\ Exists(client[c].seed)
    /\ LET s == client[c].seed IN
       \E new \in Fresh({s}) :
          /\ rows' = [rows EXCEPT ![new[s]] =
                [status |-> "pending", seed |-> s,
                 version |-> client[c].version, basis |-> content]]
          /\ client' = [client EXCEPT ![c] = [pc |-> "enqueued", id |-> new[s]]]
    /\ UNCHANGED <<content, triggerVars, run, templates, queue, boundVars, historyVars>>

\* The template was deleted after it was looked up: foreign key error, 500.
EnqueueRejected(c) ==
    /\ client[c].pc = "enqueue"
    /\ ~Exists(client[c].seed)
    /\ client' = [client EXCEPT ![c] = Idle]
    /\ UNCHANGED <<content, triggerVars, run, tableVars, boundVars, historyVars>>

\* generate_report.delay, after the row is committed.
EnqueueSend(c) ==
    /\ client[c].pc = "enqueued"
    /\ queue' = queue \cup {client[c].id}
    /\ client' = [client EXCEPT ![c] = Idle]
    /\ UNCHANGED <<content, triggerVars, run, rows, templates, boundVars, historyVars>>

EnqueueSendFails(c) ==
    /\ client[c].pc = "enqueued"
    /\ Fault
    /\ client' = [client EXCEPT ![c] = Idle]
    /\ UNCHANGED <<content, triggerVars, run, tableVars, deletes, historyVars>>

-----------------------------------------------------------------------------
(* The rest of the system                                                    *)

\* generate_report: the row becomes ready; a row deleted meanwhile is skipped.
Render(id) ==
    /\ id \in queue
    /\ queue' = queue \ {id}
    /\ rows' = IF InTable(id) THEN [rows EXCEPT ![id].status = "ready"] ELSE rows
    /\ UNCHANGED <<content, triggerVars, client, run, templates, boundVars, historyVars>>

Deletion == deletes < MaxDeletes /\ deletes' = deletes + 1

DeleteReport(id) ==
    /\ InTable(id)
    /\ Deletion
    /\ rows' = [rows EXCEPT ![id].status = "deleted"]
    /\ UNCHANGED <<content, triggerVars, client, run, templates, queue, faults, historyVars>>

\* reports.report_template_id is a foreign key ON DELETE SET NULL.
DeleteTemplate(t) ==
    /\ t \in templates
    /\ Deletion
    /\ templates' = templates \ {t}
    /\ rows' = [id \in Reports |-> IF rows[id].seed = t THEN [rows[id] EXCEPT !.seed = Base]
                                                        ELSE rows[id]]
    /\ UNCHANGED <<content, triggerVars, client, run, queue, faults, historyVars>>

\* Redis runs with maxmemory-policy allkeys-lru: a key may go before its TTL.
Evict ==
    /\ key.token # 0
    /\ Fault
    /\ key' = [token |-> 0, ttl |-> 0]
    /\ broken' = TRUE
    /\ UNCHANGED <<content, armed, messages, client, run, tableVars, deletes, lastRun>>

\* A handler between its trigger and the end of its transaction.
Open(c) == client[c].pc \in {"armed", "handled"}

\* Slip kept for the checks: the TTL runs on but never removes the token.
TickPastZero ==
    /\ \A c \in Clients : Open(c) => client[c].age < Handling
    /\ \A m \in messages : m.delay > -Backlog
    /\ key' = [key EXCEPT !.ttl = IF key.token = 0 THEN @ ELSE @ - 1]
    /\ messages' = {[m EXCEPT !.delay = @ - 1] : m \in messages}
    /\ client' = [c \in Clients |-> IF Open(c) THEN [client[c] EXCEPT !.age = @ + 1]
                                              ELSE client[c]]
    /\ UNCHANGED <<content, armed, run, tableVars, boundVars, historyVars>>

\* One unit of time.  It waits for the handlers and the workers that are at the
\* end of the time they are given.
Tick ==
    /\ \A c \in Clients : Open(c) => client[c].age < Handling
    /\ \A m \in messages : m.delay > -Backlog
    /\ key' = IF key.ttl <= 1 THEN [token |-> 0, ttl |-> 0]
                              ELSE [key EXCEPT !.ttl = @ - 1]
    /\ messages' = {[m EXCEPT !.delay = @ - 1] : m \in messages}
    /\ client' = [c \in Clients |-> IF Open(c) THEN [client[c] EXCEPT !.age = @ + 1]
                                              ELSE client[c]]
    /\ lastRun' = IF lastRun.token # 0 /\ \E d \in Debounces : lastRun.age + 1 < d
                  THEN [lastRun EXCEPT !.age = @ + 1]
                  ELSE [token |-> 0, age |-> 0]
    /\ UNCHANGED <<content, armed, run, tableVars, boundVars, broken>>

-----------------------------------------------------------------------------

HandlerStep(c) ==
    \/ Schedule(c) \/ ScheduleFails(c) \/ Commit(c) \/ Rollback(c)
    \/ EnqueueCommit(c) \/ EnqueueRejected(c) \/ EnqueueSend(c) \/ EnqueueSendFails(c)

WorkerStep(w) ==
    \/ \E m \in messages : CheckPasses(w, m) \/ CheckSkips(w, m) \/ CheckFails(w, m)
    \/ Plan(w) \/ PlanFails(w) \/ CreateRows(w) \/ CreateFails(w)
    \/ \E id \in Reports : Dispatch(w, id)
    \/ DispatchFails(w) \/ FinishRun(w)

Next ==
    \/ \E c \in Clients : \/ Arm(c) \/ ArmFails(c) \/ HandlerStep(c)
                          \/ \E s \in Seeds : EnqueueRead(c, s)
    \/ \E w \in Workers : WorkerStep(w) \/ CrashRun(w)
    \/ \E m \in messages : CrashWaiting(m)
    \/ \E id \in Reports : Render(id) \/ DeleteReport(id)
    \/ \E t \in Templates : DeleteTemplate(t)
    \/ Evict
    \/ Tick

\* A request that started is completed, the workers work and time passes; no
\* user has to act.
Fairness ==
    /\ \A c \in Clients : WF_vars(HandlerStep(c))
    /\ \A w \in Workers : WF_vars(WorkerStep(w))
    /\ \A id \in Reports : WF_vars(Render(id))
    /\ WF_vars(Tick)

Spec == Init /\ [][Next]_vars
FairSpec == Spec /\ Fairness

-----------------------------------------------------------------------------
(* Properties *)

TypeOK ==
    /\ content \in Nat /\ armed \in Nat
    /\ key \in [token : Nat, ttl : Nat]
    /\ messages \subseteq Message
    /\ client \in [Clients -> Request]
    /\ run \in [Workers -> Run]
    /\ rows \in [Reports -> Row]
    /\ templates \subseteq Templates
    /\ queue \subseteq Reports
    /\ faults \in Nat /\ deletes \in Nat
    /\ broken \in BOOLEAN
    /\ lastRun \in [token : Nat, age : Nat]

\* The timing the settings give: a handler commits before its run is due, and
\* the token outlives the latest check of its run.
Timely == /\ \A d \in Debounces : Handling < d
          /\ Handling + Backlog < Margin

\* A row of the seed was inserted after the last committed change.
Covered(s) == \E id \in Reports : /\ rows[id].status # "none"
                                  /\ rows[id].seed = s
                                  /\ rows[id].basis >= content

Quiet == /\ messages = {}
         /\ \A c \in Clients : client[c] = Idle
         /\ \A w \in Workers : run[w] = Idle

\* A burst of edits is regenerated in its final state: when no request, run or
\* message is left, every seed has a version made after the last change, unless
\* a fault hit the newest change ("yields one regeneration reflecting the final
\* state", report_regen_service).
QuietMeansCurrent == Quiet /\ ~broken => \A s \in LiveSeeds : Covered(s)

\* "The token must outlive the countdown, otherwise the scheduled run would find
\* no token and skip itself": the run of the newest change finds its token.
NewestRunFindsToken ==
    ~broken => \A m \in messages : m.token = armed => key.token = armed

\* A committed pending row always has a job on its way, unless something failed.
PendingHasJob ==
    faults = 0 =>
        \A id \in Reports : rows[id].status = "pending" =>
            \/ id \in queue
            \/ \E c \in Clients : client[c] = [pc |-> "enqueued", id |-> id]
            \/ \E w \in Workers : run[w].pc = "created" /\ id \in run[w].jobs

-----------------------------------------------------------------------------
(* The inductive invariant behind QuietMeansCurrent and NewestRunFindsToken  *)

\* The stored token is the newest one; every other token was handed out before.
TokensHandedOut ==
    /\ key.token \in {0, armed}
    /\ \A c \in Clients : client[c].pc = "armed" => client[c].token \in 1..armed
    /\ \A m \in messages : m.token \in 1..armed
    /\ \A w \in Workers : run[w] # Idle => run[w].token \in 1..armed

\* A token that is not scheduled yet is known to its handler only.
UnscheduledIsPrivate ==
    \A c \in Clients : client[c].pc = "armed" =>
        /\ \A d \in Clients : client[d].pc = "armed" /\ client[d].token = client[c].token => d = c
        /\ \A m \in messages : m.token # client[c].token
        /\ \A w \in Workers : run[w] # Idle => run[w].token # client[c].token

\* The TTL that was set less the time since then.
TtlRunsFromSet ==
    \A c \in Clients : client[c].pc = "armed" /\ key.token = client[c].token =>
        key.ttl + client[c].age >= client[c].wait + Margin

\* The newest token is stored until the latest check of its run.
TokenOutlivesRun ==
    ~broken =>
        /\ \A c \in Clients : client[c].pc = "armed" /\ client[c].token = armed =>
              key.token = armed
        /\ \A m \in messages : m.token = armed =>
              key.token = armed /\ key.ttl > m.delay + Backlog

\* The newest change still has its regeneration ahead.
NewestUnscheduled == \E c \in Clients : client[c].pc = "armed" /\ client[c].token = armed
NewestWaiting == \E m \in messages : m.token = armed

\* No handler can commit after the newest run has made its check.
RunWaitsForHandlers ==
    ~broken => \A c \in Clients : Open(c) =>
        \/ NewestUnscheduled
        \/ \E m \in messages : m.token = armed /\ m.delay + client[c].age > Handling

\* A seed without a current version has one on its way.
StaleSeedIsPlanned ==
    ~broken => \A s \in LiveSeeds :
        \/ Covered(s)
        \/ NewestUnscheduled
        \/ NewestWaiting
        \/ \E w \in Workers : run[w].pc = "checked"
        \/ \E w \in Workers : /\ run[w].pc = "planned"
                              /\ s \in run[w].seeds \/ \E t \in run[w].seeds : ~Exists(t)

\* Tokens, TTLs, open handlers and stale seeds together: while no fault hits the
\* newest change, its run cannot be skipped and cannot come before a COMMIT.
Inductive ==
    /\ TypeOK
    /\ TokensHandedOut
    /\ UnscheduledIsPrivate
    /\ TtlRunsFromSet
    /\ TokenOutlivesRun
    /\ RunWaitsForHandlers
    /\ StaleSeedIsPlanned

-----------------------------------------------------------------------------

\* A burst yields one regeneration: between runs of two different changes that
\* pass their check lies at least the debounce of the later one.
OneRunPerDebounce ==
    [][ lastRun'.token \notin {0, lastRun.token} /\ lastRun.token # 0 =>
          \E d \in Debounces : lastRun.age >= d ]_vars

\* Documented, not true: next_version_number gives the next version of the seed.
VersionsUnique ==
    \A i, j \in Reports :
        InTable(i) /\ InTable(j) /\ rows[i].seed = rows[j].seed
            /\ rows[i].version = rows[j].version => i = j

\* Every change reaches every seed: a report of the seed made after the change
\* becomes ready, or all reports of the seed are deleted.
EveryChangeReachesEverySeed ==
    \A n \in 1..MaxChanges, s \in Seeds :
        (content = n /\ s \in LiveSeeds)
            ~> \/ s \notin LiveSeeds
               \/ \E id \in Reports : /\ rows[id].status = "ready"
                                      /\ rows[id].seed = s
                                      /\ rows[id].basis >= n

=============================================================================
