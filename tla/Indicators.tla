------------------------------- MODULE Indicators -------------------------------
(***************************************************************************)
(* The indicators (IOCs) of an incident: the page that adds, detects,      *)
(* marks and deletes them, the server that stores them and queues their    *)
(* enrichment, and the workers that run the threat intelligence plugins    *)
(* and tell the page.  A request is answered before it is committed.       *)
(***************************************************************************)
EXTENDS Naturals, FiniteSets, TLC

CONSTANTS Spans,        \* what a pasted text may consist of
          Ids,          \* indicators that may come to exist
          Statuses,
          TaskSlots,    \* enrichments on their way at once
          MaxClicks, MaxFaults

VARIABLES
    rows,        \* id -> indicator, as committed
    uncommitted, \* the same, of a request that is answered and not committed
    task,        \* slot -> an enrichment: where it is, and the row as it read it
    event,       \* an ioc:enriched event on its way to the page
    hasPlugins,  \* whether a plugin is enabled
    seen,        \* the page's list
    typed,       \* the value field
    text,        \* the pasted text
    detected,    \* what the page found in it
    selected,    \* what is ticked
    modal,       \* whether the dialog is open
    waiting,     \* the requests on their way: what, and about what
    clicks, faults

vars == <<rows, uncommitted, task, event, hasPlugins, seen, typed, text, detected, selected,
          modal, waiting, clicks, faults>>
server == <<rows, uncommitted, task, event, hasPlugins>>
page == <<typed, text, detected, selected, modal>>

-----------------------------------------------------------------------------
(* Detection.  A span of text may match several patterns: an address of a   *)
(* page has a domain in it, and so has a mail address.                      *)

Patterns == <<"url", "email", "ip", "domain">>
Matches(span) ==
    CASE span = "https://e.io/x" -> ("url" :> span) @@ ("domain" :> "e.io")
      [] span = "ann@e.io" -> ("email" :> span) @@ ("domain" :> "e.io")
      [] span = "10.0.0.1" -> ("ip" :> span)
      [] span = "hello" -> [p \in {} |-> span]

Found(span, p) == [ioc_type |-> p, value |-> Matches(span)[p]]

(* The page takes a span out of the text once a pattern has matched it, ...  *)
DetectIOCs(spans) ==
    {Found(s, Patterns[CHOOSE n \in DOMAIN Patterns :
              /\ Patterns[n] \in DOMAIN Matches(s)
              /\ \A m \in 1..(n - 1) : Patterns[m] \notin DOMAIN Matches(s)])
       : s \in {t \in spans : DOMAIN Matches(t) # {}}}

(* ... the server matches every pattern against all of it. *)
AutoDetect(spans) == UNION {{Found(s, p) : p \in DOMAIN Matches(s)} : s \in spans}

-----------------------------------------------------------------------------
(* Confidence, of what the two scoring plugins report. *)
Plugins == {"virustotal", "abuseipdb"}
CalculateConfidence(enrichment) ==
    CASE enrichment = {} -> 50
      [] enrichment = {"virustotal"} -> 90
      [] enrichment = {"abuseipdb"} -> 50
      [] enrichment = Plugins -> 74

NoTask == [at |-> "free", ioc |-> 0, enrichment |-> {}, confidence |-> 0]
NoEvent == [ioc |-> 0, enrichment |-> {}, confidence |-> 0]
Plain == [what |-> "none", ioc |-> 0, status |-> "none", found |-> {}]
Active == "active"
NewRow(found, confidence) ==
    [ioc |-> found, status |-> Active, enrichment |-> {}, confidence |-> confidence]

Init ==
    /\ rows = [i \in {} |-> 0] /\ uncommitted = rows /\ seen = rows
    /\ task = [k \in TaskSlots |-> NoTask] /\ event = NoEvent /\ hasPlugins \in BOOLEAN
    /\ typed = "" /\ text = {} /\ detected = {} /\ selected = {} /\ modal = FALSE
    /\ waiting = {} /\ clicks = 0 /\ faults = 0

Click == clicks < MaxClicks /\ clicks' = clicks + 1
Fault == faults < MaxFaults /\ faults' = faults + 1

-----------------------------------------------------------------------------
(* The page. *)

TypeValue(span) ==
    /\ Click /\ typed # span /\ typed' = span
    /\ UNCHANGED <<server, seen, text, detected, selected, modal, waiting, faults>>

(* A paste of several lines never enters the field: it is searched, and what *)
(* is found is offered, all of it ticked.                                    *)
ValuePaste(spans) ==
    /\ Click /\ ~modal /\ text' = spans
    /\ IF DetectIOCs(spans) = {} THEN UNCHANGED <<detected, selected, modal>>
       ELSE detected' = DetectIOCs(spans) /\ selected' = detected' /\ modal' = TRUE
    /\ UNCHANGED <<server, seen, typed, waiting, faults>>

Tick(found) ==
    /\ Click /\ modal /\ found \in detected
    /\ selected' = (selected \ {found}) \cup ({found} \ selected)
    /\ UNCHANGED <<server, seen, typed, text, detected, modal, waiting, faults>>

CloseModal ==
    /\ modal /\ modal' = FALSE
    /\ UNCHANGED <<server, seen, typed, text, detected, selected, waiting, clicks, faults>>

(* Requests overlap; a button waits for the answer to its own, the select of *)
(* the status and the button to delete do not.                               *)
Ask(request) == waiting' = waiting \cup {request} /\ UNCHANGED <<server, page, seen, faults>>
Idle(what, i) == ~\E r \in waiting : r.what = what /\ r.ioc = i

(* A value is sent with the type that is chosen beside it. *)
AddIOC(p) ==
    /\ typed # "" /\ Idle("add", 0) /\ Click
    /\ Ask([Plain EXCEPT !.what = "add", !.found = {[ioc_type |-> p, value |-> typed]}])

(* The dialog sends the text. *)
BulkAdd ==
    /\ modal /\ selected # {} /\ Idle("bulk", 0) /\ UNCHANGED clicks
    /\ Ask([Plain EXCEPT !.what = "bulk", !.found = AutoDetect(text)])

StatusChange(i, s) ==
    /\ i \in DOMAIN seen /\ seen[i].status # s /\ Click
    /\ Ask([Plain EXCEPT !.what = "status", !.ioc = i, !.status = s])

(* Asked about first. *)
Delete(i) ==
    /\ i \in DOMAIN seen /\ Click /\ Ask([Plain EXCEPT !.what = "delete", !.ioc = i])

Enrich(i) ==
    /\ i \in DOMAIN seen /\ Idle("enrich", i) /\ Click
    /\ Ask([Plain EXCEPT !.what = "enrich", !.ioc = i])

(* The list is replaced by what the server has committed.                    *)
Refetch ==
    /\ seen # rows /\ seen' = rows
    /\ UNCHANGED <<server, page, waiting, clicks, faults>>

(* An event changes the row it is about, if the page lists it.               *)
HandleEnriched ==
    /\ event # NoEvent /\ event' = NoEvent
    /\ seen' = [i \in DOMAIN seen |->
                  IF i = event.ioc
                  THEN [seen[i] EXCEPT !.enrichment = event.enrichment, !.confidence = event.confidence]
                  ELSE seen[i]]
    /\ UNCHANGED <<rows, uncommitted, task, hasPlugins, page, waiting, clicks, faults>>

-----------------------------------------------------------------------------
(* The server. *)

Used == DOMAIN rows \cup DOMAIN uncommitted \cup DOMAIN seen \cup {task[k].ioc : k \in TaskSlots}
(* The order of the values and of the slots makes no difference. *)
OneToOne(S, T) == CHOOSE f \in [S -> T] : \A i, j \in S : f[i] = f[j] => i = j

Queued(ids) ==
    IF ~hasPlugins THEN UNCHANGED task
    ELSE LET free == {k \in TaskSlots : task[k] = NoTask}
             slot == OneToOne(ids, free)
         IN  /\ Cardinality(ids) <= Cardinality(free)
             /\ task' = [k \in TaskSlots |->
                   IF \E i \in ids : slot[i] = k
                   THEN [NoTask EXCEPT !.at = "queued", !.ioc = CHOOSE i \in ids : slot[i] = k]
                   ELSE task[k]]

Answered(r) == waiting' = waiting \ {r} /\ UNCHANGED <<hasPlugins, event, seen, clicks, faults>>

(* New rows: their enrichments are queued, the page is answered, and then    *)
(* they are committed.                                                       *)
CreateIOCs(r) ==
    LET choices == {S \in SUBSET (Ids \ Used) : Cardinality(S) = Cardinality(r.found)} IN
    /\ r.what \in {"add", "bulk"} /\ DOMAIN uncommitted = {} /\ choices # {}
    /\ LET ids == CHOOSE S \in choices : TRUE
           order == OneToOne(ids, r.found)
       IN  /\ uncommitted' = [i \in ids |-> NewRow(order[i], IF r.what = "add" THEN 80 ELSE 50)]
           /\ Queued(ids)
    /\ typed' = (IF r.what = "add" THEN "" ELSE typed)
    /\ IF r.what = "bulk" THEN modal' = FALSE /\ detected' = {} /\ text' = {}
                                ELSE UNCHANGED <<modal, detected, text>>
    /\ Answered(r) /\ UNCHANGED <<rows, selected>>

Commit ==
    /\ DOMAIN uncommitted # {} /\ uncommitted' = [i \in {} |-> 0]
    /\ rows' = [i \in DOMAIN rows \cup DOMAIN uncommitted |->
                  IF i \in DOMAIN rows THEN rows[i] ELSE uncommitted[i]]
    /\ UNCHANGED <<task, event, hasPlugins, page, seen, waiting, clicks, faults>>

(* The columns of the request are written, and no other. *)
UpdateIOC(r) ==
    /\ r.what = "status" /\ r.ioc \in DOMAIN rows
    /\ rows' = [rows EXCEPT ![r.ioc].status = r.status]
    /\ Answered(r) /\ UNCHANGED <<uncommitted, task, page>>

DeleteIOC(r) ==
    /\ r.what = "delete" /\ r.ioc \in DOMAIN rows
    /\ rows' = [i \in DOMAIN rows \ {r.ioc} |-> rows[i]]
    /\ Answered(r) /\ UNCHANGED <<uncommitted, task, page>>

EnrichIOC(r) ==
    /\ r.what = "enrich" /\ Queued({r.ioc})
    /\ Answered(r) /\ UNCHANGED <<rows, uncommitted, page>>

(* The indicator is gone, or the request fails: what was typed stays.        *)
RequestFails(r) ==
    LET gone == r.ioc \notin DOMAIN rows \cup {0} IN
    /\ waiting' = waiting \ {r}
    /\ IF gone THEN UNCHANGED faults ELSE Fault
    /\ UNCHANGED <<server, page, seen, clicks>>

-----------------------------------------------------------------------------
(* The workers. *)

(* The row is read, or the task ends for want of it. *)
EnrichBegin(k) ==
    /\ task[k].at = "queued"
    /\ task' = [task EXCEPT ![k] =
                  IF task[k].ioc \notin DOMAIN rows THEN NoTask
                  ELSE [at |-> "asking", ioc |-> task[k].ioc,
                        enrichment |-> rows[task[k].ioc].enrichment,
                        confidence |-> rows[task[k].ioc].confidence]]
    /\ UNCHANGED <<rows, uncommitted, event, hasPlugins, page, seen, waiting, clicks, faults>>

(* Slip kept for the checks: the row is written as it was read. *)
MergedAsRead(row, read, got) ==
    [row EXCEPT !.enrichment = read.enrichment \cup got, !.status = Active]

(* What the plugins returned is merged into what was read; a confidence that *)
(* has not changed since it was read is not written.                         *)
Merged(row, read, got) ==
    LET merged == read.enrichment \cup got
        confidence == CalculateConfidence(merged)
    IN  [row EXCEPT !.enrichment = merged,
                    !.confidence = IF confidence = read.confidence THEN row.confidence ELSE confidence]

(* The plugins that answered are got; the write of a deleted row fails, and  *)
(* the retry finds nothing.                                                  *)
EnrichEnd(k, got) ==
    LET t == task[k] IN
    /\ t.at = "asking" /\ task' = [task EXCEPT ![k] = NoTask]
    /\ IF t.ioc \in DOMAIN rows
       THEN /\ rows' = [rows EXCEPT ![t.ioc] = Merged(rows[t.ioc], t, got)]
            /\ event' = [ioc |-> t.ioc, enrichment |-> t.enrichment \cup got,
                         confidence |-> CalculateConfidence(t.enrichment \cup got)]
       ELSE UNCHANGED <<rows, event>>
    /\ UNCHANGED <<uncommitted, hasPlugins, page, seen, waiting, clicks, faults>>

(* The socket is down, or nobody listens. *)
EventLost ==
    /\ event # NoEvent /\ event' = NoEvent
    /\ UNCHANGED <<rows, uncommitted, task, hasPlugins, page, seen, waiting, clicks, faults>>

Next ==
    \/ \E s \in Spans : TypeValue(s)
    \/ \E s \in SUBSET Spans : ValuePaste(s)
    \/ \E f \in detected : Tick(f)
    \/ CloseModal
    \/ AddIOC("ip")
    \/ BulkAdd
    \/ \E i \in DOMAIN seen : \E s \in Statuses : StatusChange(i, s)
    \/ \E i \in DOMAIN seen : Delete(i)
    \/ \E i \in DOMAIN seen : Enrich(i)
    \/ Refetch
    \/ HandleEnriched
    \/ \E r \in waiting : CreateIOCs(r)
    \/ Commit
    \/ \E r \in waiting : UpdateIOC(r)
    \/ \E r \in waiting : DeleteIOC(r)
    \/ \E r \in waiting : EnrichIOC(r)
    \/ \E r \in waiting : RequestFails(r)
    \/ \E k \in TaskSlots : EnrichBegin(k)
    \/ \E k \in TaskSlots : \E got \in SUBSET Plugins : EnrichEnd(k, got)
    \/ EventLost

Spec == Init /\ [][Next]_vars

-----------------------------------------------------------------------------
(* Properties. *)

TypeOK ==
    /\ DOMAIN rows \subseteq Ids /\ DOMAIN seen \subseteq Ids /\ DOMAIN uncommitted \subseteq Ids
    /\ \A i \in DOMAIN rows : /\ rows[i].status \in Statuses /\ rows[i].enrichment \subseteq Plugins
                              /\ rows[i].confidence \in 0..100
    /\ \A k \in TaskSlots : task[k].at \in {"free", "queued", "asking"}
    /\ selected \subseteq detected \/ ~modal
    /\ hasPlugins \in BOOLEAN /\ modal \in BOOLEAN

(* The analyst's word stands: only a request of the page changes a status,   *)
(* and a deleted indicator stays deleted, whatever an enrichment that read   *)
(* the row before writes after.                                              *)
AnalystsWordStands ==
    [][/\ \A i \in DOMAIN rows \cap DOMAIN rows' :
            rows'[i].status # rows[i].status =>
                \E r \in waiting : r.what = "status" /\ r.ioc = i /\ rows'[i].status = r.status
       /\ DOMAIN rows' \subseteq DOMAIN rows \cup DOMAIN uncommitted]_vars

(* "Select IOCs to add to this incident": what was detected and is not       *)
(* ticked is not added.                                                      *)
UntickedIsNotAdded ==
    [][BulkAdd => \A r \in waiting' : r.what = "bulk" => r.found \cap detected \subseteq selected]_vars

=============================================================================
