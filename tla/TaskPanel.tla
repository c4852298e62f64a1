------------------------------- MODULE TaskPanel -------------------------------
(***************************************************************************)
(* The task list beside an incident: a click is shown at once, sent, taken *)
(* back when it fails and followed by a fetch when it is settled; the same *)
(* requests of other analysts; and the endpoint, which answers before it   *)
(* commits.                                                                *)
(***************************************************************************)
EXTENDS Naturals

CONSTANTS Tasks, MaxClicks, MaxOthers, MaxFaults

VARIABLES
    tasks,      \* task -> done, and whether completed_at and completed_by are set
    panel,      \* task -> done, as the list shows it
    toggles,    \* updates that are not committed
    fetch,      \* the fetch of the list: none, wanted, or what it read
    clicks, others, faults

vars == <<tasks, panel, toggles, fetch, clicks, others, faults>>

TaskRows == [done : BOOLEAN, completed : BOOLEAN]
NoFetch == [at |-> "none", list |-> << >>]

Init ==
    /\ tasks = [t \in Tasks |-> [done |-> FALSE, completed |-> FALSE]]
    /\ panel = [t \in Tasks |-> FALSE] /\ toggles = {} /\ fetch = NoFetch
    /\ clicks = 0 /\ others = 0 /\ faults = 0

(* Invalidating the list fetches it again, whatever fetch was on its way.   *)
Invalidate == fetch' = [at |-> "wanted", list |-> << >>]

(* A click on a row: the fetch on its way is dropped, the list as it was is *)
(* kept, the row is flipped and the update sent.                            *)
ToggleTask(t) ==
    /\ clicks < MaxClicks /\ clicks' = clicks + 1
    /\ panel' = [panel EXCEPT ![t] = ~panel[t]] /\ fetch' = NoFetch
    /\ toggles' = toggles \cup {[n |-> clicks', mine |-> TRUE, task |-> t, done |-> ~panel[t],
                                 previous |-> panel, at |-> "sent"]}
    /\ UNCHANGED <<tasks, others, faults>>

OtherToggle(t, done) ==
    /\ others < MaxOthers /\ others' = others + 1
    /\ toggles' = toggles \cup {[n |-> others', mine |-> FALSE, task |-> t, done |-> done,
                                 previous |-> << >>, at |-> "sent"]}
    /\ UNCHANGED <<tasks, panel, fetch, clicks, faults>>

-----------------------------------------------------------------------------
(* PUT /incidents/{id}/tasks/{task}. *)

Advance(g, h) == toggles' = (toggles \ {g}) \cup {h}

Read(g) ==
    /\ g.at = "sent"
    /\ Advance(g, [n |-> g.n, mine |-> g.mine, task |-> g.task, done |-> g.done,
                   previous |-> g.previous, at |-> "read", was |-> tasks[g.task].done])
    /\ UNCHANGED <<tasks, panel, fetch, clicks, others, faults>>

(* Slip kept for the checks: a reopened task keeps its time of completion.  *)
WrittenOnce(g) ==
    IF g.done = g.was THEN tasks[g.task]
    ELSE [done |-> g.done, completed |-> g.done \/ tasks[g.task].completed]

(* The status and the mark of completion are written together, or, when the *)
(* status is the one that was read, not at all.                             *)
Written(g) == IF g.done = g.was THEN tasks[g.task] ELSE [done |-> g.done, completed |-> g.done]

(* Flushed, which locks the row, and answered: the list is fetched again.   *)
Answer(g) ==
    /\ g.at = "read"
    /\ ~\E h \in toggles : h.at = "answered" /\ h.task = g.task
    /\ Advance(g, [g EXCEPT !.at = "answered"])
    /\ IF g.mine THEN Invalidate ELSE UNCHANGED fetch
    /\ UNCHANGED <<tasks, panel, clicks, others, faults>>

Commit(g) ==
    /\ g.at = "answered" /\ toggles' = toggles \ {g}
    /\ tasks' = [tasks EXCEPT ![g.task] = Written(g)]
    /\ UNCHANGED <<panel, fetch, clicks, others, faults>>

(* onError puts the list back as it was before this click, onSettled has it *)
(* fetched again.                                                           *)
Fail(g) ==
    /\ g.at # "answered" /\ faults < MaxFaults /\ faults' = faults + 1
    /\ toggles' = toggles \ {g}
    /\ IF g.mine THEN panel' = g.previous /\ Invalidate ELSE UNCHANGED <<panel, fetch>>
    /\ UNCHANGED <<tasks, clicks, others>>

ReadList ==
    /\ fetch.at = "wanted" /\ fetch' = [at |-> "read", list |-> [t \in Tasks |-> tasks[t].done]]
    /\ UNCHANGED <<tasks, panel, toggles, clicks, others, faults>>

ShowList ==
    /\ fetch.at = "read" /\ panel' = fetch.list /\ fetch' = NoFetch
    /\ UNCHANGED <<tasks, toggles, clicks, others, faults>>

Next ==
    \/ \E t \in Tasks : ToggleTask(t)
    \/ \E t \in Tasks : \E done \in BOOLEAN : OtherToggle(t, done)
    \/ \E g \in toggles : Read(g)
    \/ \E g \in toggles : Answer(g)
    \/ \E g \in toggles : Commit(g)
    \/ \E g \in toggles : Fail(g)
    \/ ReadList
    \/ ShowList

Spec == Init /\ [][Next]_vars

-----------------------------------------------------------------------------
(* Properties. *)

TypeOK ==
    /\ tasks \in [Tasks -> TaskRows] /\ panel \in [Tasks -> BOOLEAN]
    /\ fetch.at \in {"none", "wanted", "read"}

(* A task is marked as completed exactly if it is done, however the ticks   *)
(* of several analysts overlap.                                             *)
SignedOff == \A t \in Tasks : tasks[t].done <=> tasks[t].completed

=============================================================================
