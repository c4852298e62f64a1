----------------------------- MODULE TaskTemplates -----------------------------
(***************************************************************************)
(* The incident templates page: the list, with clone, hide and delete, and *)
(* the editor, whose draft is a name, a slug and a list of tasks that are  *)
(* shown phase by phase.  The templates of the seed are the system's; they *)
(* list their tasks without an id and without an order.                    *)
(***************************************************************************)
EXTENDS Naturals, SequencesExt, TLC

CONSTANTS Ids,                 \* templates that may come to exist
          Titles, PhaseNames,  \* what may be typed for a task and a phase
          MaxClicks, MaxTasks

VARIABLES
    rows,      \* id -> template
    seen,      \* the list as the page has it
    open,      \* whether the editor is shown
    editing,   \* the template it is opened for, None for a new one
    draft,     \* what the editor holds
    saving,    \* the template on its way to the server, and what to do
    stamp,     \* the clock that names new tasks
    clicks

vars == <<rows, seen, open, editing, draft, saving, stamp, clicks>>

System == "system"
None == "none"
NoStamp == 0
Blank == [name |-> "", slug |-> "", tasks |-> <<>>]
NotSaving == [to |-> None, what |-> Blank, on |-> FALSE]
Seeded(title, phase) == [id |-> NoStamp, title |-> title, phase |-> phase, sort_order |-> NoStamp]

(* The seeded template: tasks with a title and a phase only.  NoStamp stands *)
(* for the missing id and the missing order; those of the editor are larger. *)
Seed == [name |-> "Phishing", slug |-> "phishing", hidden |-> FALSE,
         tasks |-> <<Seeded("identify", "Detection"), Seeded("block", "Containment")>>]

Init ==
    /\ rows = [t \in {System} |-> Seed] /\ seen = rows
    /\ open = FALSE /\ editing = None /\ draft = Blank /\ saving = NotSaving
    /\ stamp = 0 /\ clicks = 0

Click == clicks < MaxClicks /\ clicks' = clicks + 1

-----------------------------------------------------------------------------
(* The list. *)

Fresh == Ids \ (DOMAIN rows \cup DOMAIN seen \cup {editing})

(* The copy of a template, its tasks as they are (a random suffix keeps the  *)
(* slugs of several copies apart).                                           *)
Copy(row) == [row EXCEPT !.name = row.name \o " (Copy)", !.slug = row.slug \o "-copy", !.hidden = FALSE]

(* The answer comes before the commit: the fetch that follows it reads what   *)
(* was there before, or after.                                                *)
Fetched == seen' \in {rows, rows'}

(* What each request leaves of the templates. *)
With(id, row) == [t \in DOMAIN rows \cup {id} |-> IF t = id THEN row ELSE rows[t]]
Cloned(t, id) == With(id, Copy(rows[t]))
Hidden(flag) == [rows EXCEPT ![System].hidden = flag]
Removed(t) == [u \in DOMAIN rows \ {t} |-> rows[u]]

Clone(t, id) ==
    /\ Click /\ t \in DOMAIN seen \cap DOMAIN rows /\ id \in Fresh
    /\ rows' = Cloned(t, id) /\ Fetched
    /\ UNCHANGED <<open, editing, draft, saving, stamp>>

ToggleHide ==
    /\ Click /\ rows' = Hidden(~seen[System].hidden) /\ Fetched
    /\ UNCHANGED <<open, editing, draft, saving, stamp>>

Organisations(list) == DOMAIN list \ {System}

Delete(t) ==
    /\ Click /\ t \in Organisations(seen) /\ rows' = Removed(t) /\ Fetched
    /\ UNCHANGED <<open, editing, draft, saving, stamp>>

(* The editor takes its draft from the template when it appears; while it is *)
(* on screen, "Edit" and "New" change the template and leave the draft.      *)
Edit(t) ==
    /\ Click /\ t \in Organisations(seen) /\ editing' = t /\ open' = TRUE
    /\ draft' = IF open THEN draft
                ELSE [name |-> seen[t].name, slug |-> seen[t].slug, tasks |-> seen[t].tasks]
    /\ UNCHANGED <<rows, seen, saving, stamp>>

New ==
    /\ Click /\ editing' = None /\ open' = TRUE
    /\ draft' = IF open THEN draft ELSE Blank
    /\ UNCHANGED <<rows, seen, saving, stamp>>

Close ==
    /\ open /\ open' = FALSE /\ editing' = None /\ draft' = Blank
    /\ UNCHANGED <<rows, seen, saving, stamp, clicks>>

-----------------------------------------------------------------------------
(* The editor. *)

(* Filtering and sorting, by ranks and not by recursion: the k-th place of   *)
(* the result is the one that k - 1 others come before.                      *)
Ranked(s, before) ==
    [k \in 1 .. Cardinality(DOMAIN before) |->
        s[CHOOSE i \in DOMAIN before : Cardinality(before[i]) = k - 1]]
Picked(s, places) == Ranked(s, [i \in places |-> {j \in places : j < i}])

Phases(tasks) == LET used == {tasks[i].phase : i \in DOMAIN tasks} IN used \cup {"general"}
Of(tasks, phase) == Picked(tasks, {i \in DOMAIN tasks : tasks[i].phase = phase})
Others(tasks, phase) == Picked(tasks, {i \in DOMAIN tasks : tasks[i].phase # phase})

(* The tasks of a phase as they are shown: by their order.  Where one of the *)
(* seed's tasks has none, the comparison says nothing: as they come.         *)
Shown(tasks, phase) ==
    LET here == Of(tasks, phase)
        Before(i, j) == \/ here[i].sort_order < here[j].sort_order
                        \/ here[i].sort_order = here[j].sort_order /\ i < j
    IN  IF \E i \in DOMAIN here : here[i].sort_order = NoStamp THEN here
        ELSE Ranked(here, [i \in DOMAIN here |-> {j \in DOMAIN here : Before(j, i)}])

Change(tasks) ==
    /\ Click /\ open /\ draft' = [draft EXCEPT !.tasks = tasks] /\ draft' # draft
    /\ UNCHANGED <<rows, seen, open, editing, saving>>

(* What a name becomes in lower case, with dashes for its spaces. *)
GenerateSlug(name) ==
    CASE name = "Plan B" -> "plan-b" [] name = "?!" -> ""

(* The slug follows the name until the template has been saved. *)
NameChange(name) ==
    /\ Click /\ open /\ draft.name # name
    /\ draft' = [draft EXCEPT !.name = name, !.slug = IF editing = None THEN GenerateSlug(name) ELSE @]
    /\ UNCHANGED <<rows, seen, open, editing, saving, stamp>>

(* A new task comes last: its order is one past the tasks of its phase.      *)
(* Orders count from one here, NoStamp being none.                           *)
Added(tasks, phase) ==
    Append(tasks, [id |-> stamp + 1, title |-> "", phase |-> phase,
                   sort_order |-> Len(Of(tasks, phase)) + 1])

AddTask(phase) ==
    /\ Len(draft.tasks) < MaxTasks /\ phase \in Phases(draft.tasks)
    /\ Change(Added(draft.tasks, phase)) /\ stamp' = stamp + 1

NewPhase(n) == "phase-" \o ToString(n)

AddPhase ==
    /\ Len(draft.tasks) < MaxTasks /\ stamp' = stamp + 1
    /\ Change(Added(draft.tasks, NewPhase(Cardinality(Phases(draft.tasks)) + 1)))

(* A row of a task changes and removes what has the task's id. *)
UpdateTask(i, title) ==
    /\ i \in DOMAIN draft.tasks
    /\ Change([j \in DOMAIN draft.tasks |->
                 IF draft.tasks[j].id = draft.tasks[i].id
                 THEN [draft.tasks[j] EXCEPT !.title = title] ELSE draft.tasks[j]])
    /\ UNCHANGED stamp

DeleteTask(i) ==
    /\ i \in DOMAIN draft.tasks
    /\ Change(Picked(draft.tasks, {j \in DOMAIN draft.tasks : draft.tasks[j].id # draft.tasks[i].id}))
    /\ UNCHANGED stamp

RenamePhase(old, new) ==
    /\ old \in Phases(draft.tasks) /\ new # old
    /\ Change([j \in DOMAIN draft.tasks |->
                 IF draft.tasks[j].phase = old THEN [draft.tasks[j] EXCEPT !.phase = new]
                 ELSE draft.tasks[j]])
    /\ UNCHANGED stamp

(* The sequence with its i-th element taken out and put back as the j-th. *)
ArrayMove(s, i, j) == InsertAt(RemoveAt(s, i), j, s[i])

(* Slip kept for the checks: the tasks move and keep their orders. *)
ReorderedUnnumbered(tasks, phase, i, j) ==
    Others(tasks, phase) \o ArrayMove(Of(tasks, phase), i, j)

(* The phase in its new order, numbered anew, after all the others. *)
Reordered(tasks, phase, i, j) ==
    LET moved == ArrayMove(Of(tasks, phase), i, j)
    IN  Others(tasks, phase)
        \o [k \in DOMAIN moved |-> [moved[k] EXCEPT !.sort_order = k]]

(* A task is dropped on another of its phase.  Where both rows have no id,   *)
(* nothing happens.                                                          *)
DragEnd(phase, i, j) ==
    LET here == Of(draft.tasks, phase) IN
    /\ {i, j} \subseteq DOMAIN here /\ here[i].id # here[j].id
    /\ Change(Reordered(draft.tasks, phase,
                        SelectInSeq(here, LAMBDA t : t.id = here[i].id),
                        SelectInSeq(here, LAMBDA t : t.id = here[j].id)))
    /\ UNCHANGED stamp

(* Both fields are required. *)
Submit ==
    /\ open /\ ~saving.on /\ draft.name # "" /\ draft.slug # ""
    /\ saving' = [to |-> editing, what |-> draft, on |-> TRUE]
    /\ UNCHANGED <<rows, seen, open, editing, draft, stamp, clicks>>

Written(row, what) == [row EXCEPT !.name = what.name, !.slug = what.slug, !.tasks = what.tasks]
Updated(t, what) == [rows EXCEPT ![t] = Written(@, what)]
Created(id, what) == With(id, Written([Seed EXCEPT !.hidden = FALSE], what))

(* What is saved under an id, or created.  Whatever editor is on screen when *)
(* the answer arrives is closed.                                             *)

Saved ==
    /\ saving.on /\ saving' = NotSaving
    /\ IF saving.to = None
       THEN \E id \in Fresh : rows' = Created(id, saving.what)
       ELSE saving.to \in DOMAIN rows /\ rows' = Updated(saving.to, saving.what)
    /\ Fetched /\ open' = FALSE /\ editing' = None /\ draft' = Blank
    /\ UNCHANGED <<stamp, clicks>>

(* The template is gone, or the request failed: the editor stays as it is. *)
SaveFailed ==
    /\ saving.on /\ saving' = NotSaving
    /\ UNCHANGED <<rows, seen, open, editing, draft, stamp, clicks>>

(* Another administrator deletes a template, and the page hears of it later. *)
DeletedElsewhere(t) ==
    /\ Click /\ t \in Organisations(rows) /\ rows' = Removed(t)
    /\ UNCHANGED <<seen, open, editing, draft, saving, stamp>>

Refetch ==
    /\ seen # rows /\ seen' = rows
    /\ UNCHANGED <<rows, open, editing, draft, saving, stamp, clicks>>

Next ==
    \/ \E t \in Ids \cup {System} : \E id \in Ids : Clone(t, id)
    \/ ToggleHide
    \/ \E t \in Ids : Delete(t)
    \/ \E t \in Ids : Edit(t)
    \/ New
    \/ Close
    \/ \E n \in {"Plan B", "?!"} : NameChange(n)
    \/ \E p \in Phases(draft.tasks) : AddTask(p)
    \/ AddPhase
    \/ \E i \in DOMAIN draft.tasks : \E t \in Titles : UpdateTask(i, t)
    \/ \E i \in DOMAIN draft.tasks : DeleteTask(i)
    \/ \E p \in Phases(draft.tasks) : \E n \in PhaseNames : RenamePhase(p, n)
    \/ \E p \in Phases(draft.tasks) : \E i, j \in DOMAIN draft.tasks : DragEnd(p, i, j)
    \/ Submit
    \/ Saved
    \/ SaveFailed
    \/ \E t \in Ids : DeletedElsewhere(t)
    \/ Refetch

Spec == Init /\ [][Next]_vars

-----------------------------------------------------------------------------
(* Properties. *)

TitlesInUse == Titles \cup {"", "identify", "block"}
PhasesInUse == PhaseNames \cup {"general", "Detection", "Containment"}
                 \cup {NewPhase(n) : n \in 1 .. MaxTasks + 1}
Task == [id : Nat, title : TitlesInUse, phase : PhasesInUse, sort_order : Nat]

TypeOK ==
    /\ System \in DOMAIN rows /\ DOMAIN rows \subseteq Ids \cup {System}
    /\ System \in DOMAIN seen /\ DOMAIN seen \subseteq Ids \cup {System}
    /\ open \in BOOLEAN /\ editing \in Ids \cup {None} /\ saving.on \in BOOLEAN
    /\ \A i \in DOMAIN draft.tasks : draft.tasks[i] \in Task
    /\ (~open => editing = None /\ draft = Blank)

(* Dragging a task reorders its phase and nothing else: no task is lost or   *)
(* doubled, the other phases stay, and what is shown afterwards is the order *)
(* the tasks have in the template, and so in an incident made from it.       *)
DragReordersItsPhase ==
    [][\A p \in Phases(draft.tasks) : \A i, j \in DOMAIN draft.tasks : DragEnd(p, i, j) =>
         /\ Shown(draft'.tasks, p) = Of(draft'.tasks, p)
         /\ {[t EXCEPT !.sort_order = 0] : t \in ToSet(draft'.tasks)}
              = {[t EXCEPT !.sort_order = 0] : t \in ToSet(draft.tasks)}
         /\ Len(draft'.tasks) = Len(draft.tasks)
         /\ \A q \in Phases(draft.tasks) \ {p} : Of(draft'.tasks, q) = Of(draft.tasks, q)]_vars

(* Clones "are fully editable": a row of the editor changes its own task.    *)
RowEditsItsTask ==
    [][\A i \in DOMAIN draft.tasks : \A t \in Titles : UpdateTask(i, t) =>
         \A j \in DOMAIN draft.tasks \ {i} : draft'.tasks[j] = draft.tasks[j]]_vars

=============================================================================
