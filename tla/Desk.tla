--------------------------------- MODULE Desk ---------------------------------
(***************************************************************************)
(* The head of the incident workspace in the tab of one analyst: renaming  *)
(* in place, severity, status, disposition and assignee, the dialogs that  *)
(* close and delete; the same requests of other analysts; and the          *)
(* endpoints, which answer before they commit.                             *)
(***************************************************************************)
EXTENDS Naturals, FiniteSets

CONSTANTS Titles, Severities, Dispositions, Analysts, MaxClicks, MaxOthers, MaxFaults

VARIABLES
    inc,        \* the row of the incident
    there,      \* whether it exists
    cache,      \* the row as the tab has it
    editor,     \* the title in place: editing, draft, saving, done
    closing,    \* the dialog that closes: open, choice
    deleting,   \* the dialog that deletes: no, open, sent
    requests,   \* updates that are not committed
    latest,     \* the number of the update the tab sent last
    clicks, others, faults

tabVars == <<cache, editor, closing, deleting>>
vars == <<inc, there, tabVars, requests, latest, clicks, others, faults>>

None == "none"
(* The fourth status, "monitoring", is treated as "open" is.                *)
Statuses == {"open", "contained", "closed"}
Rows == [title : Titles, severity : Severities, status : Statuses,
         disposition : Dispositions \cup {None}, assigned_to : Analysts \cup {None},
         contained_at : BOOLEAN, closed_at : BOOLEAN]

Field(name, value) == [f \in {name} |-> value]

-----------------------------------------------------------------------------
(* The tab. *)

(* An editor and a dialog that are not shown: both start afresh when opened. *)
NotEditing == [editing |-> FALSE, draft |-> None, saving |-> FALSE, done |-> TRUE]
Shut == [open |-> FALSE, choice |-> None]

Init ==
    /\ inc = [title |-> CHOOSE t \in Titles : TRUE, severity |-> CHOOSE s \in Severities : TRUE,
              status |-> "open", disposition |-> None, assigned_to |-> CHOOSE a \in Analysts : TRUE,
              contained_at |-> FALSE, closed_at |-> FALSE]
    /\ there = TRUE /\ cache = inc 
    /\ editor = NotEditing /\ closing = Shut /\ deleting = "no"
    /\ requests = {} /\ latest = 0
    /\ clicks = 0 /\ others = 0 /\ faults = 0

(* A dialog covers the rest of the page. *)
Here == there /\ ~closing.open /\ deleting = "no"
Click == there /\ clicks < MaxClicks /\ clicks' = clicks + 1

Update(patch) ==
    /\ requests' = requests \cup {[n |-> clicks', mine |-> TRUE, patch |-> patch, at |-> "sent"]}
    /\ latest' = clicks'

(* updateIncident.isPending is about the update that was sent last.         *)
Pending == \E r \in requests : r.mine /\ r.n = latest /\ r.at # "answered"

(* The four selects of the header.                                          *)
Choose(field, value) ==
    /\ Here /\ Click /\ ~Pending /\ value # cache[field] /\ Update(Field(field, value))
    /\ UNCHANGED <<inc, there, tabVars, others, faults>>

SeverityChange(s) == Choose("severity", s)
DispositionChange(d) == (cache.disposition # None \/ cache.status = "closed") /\ Choose("disposition", d)

(* Unassigned is sent as null, which the endpoint takes for "not given".    *)
AssigneeChange(a) ==
    IF a # None THEN Choose("assigned_to", a)
    ELSE /\ Here /\ Click /\ ~Pending /\ cache.assigned_to # None /\ Update(<< >>)
         /\ UNCHANGED <<inc, there, tabVars, others, faults>>

StatusChange(s) ==
    IF s = "closed" /\ cache.disposition = None
    THEN /\ Here /\ ~Pending /\ closing' = [open |-> TRUE, choice |-> None]
         /\ UNCHANGED <<inc, there, cache, editor, deleting, requests, latest,
                        clicks, others, faults>>
    ELSE Choose("status", s)

(* The dialog that closes an incident. *)
ChooseDisposition(d) ==
    /\ closing.open /\ closing.choice # d /\ closing' = [closing EXCEPT !.choice = d]
    /\ UNCHANGED <<inc, there, cache, editor, deleting, requests, latest, clicks, others, faults>>

CloseConfirm ==
    /\ Click /\ closing.open /\ closing.choice # None /\ ~Pending
    /\ Update([f \in {"status", "disposition"} |-> IF f = "status" THEN "closed" ELSE closing.choice])
    /\ UNCHANGED <<inc, there, tabVars, others, faults>>

Dismiss ==
    /\ closing.open \/ deleting = "open"
    /\ closing' = Shut
    /\ deleting' = IF deleting = "open" THEN "no" ELSE deleting
    /\ UNCHANGED <<inc, there, cache, editor, requests, latest, clicks, others, faults>>

(* EditableTitle. *)
StartRename ==
    /\ Here /\ ~editor.editing
    /\ editor' = [editing |-> TRUE, draft |-> cache.title, saving |-> FALSE, done |-> FALSE]
    /\ UNCHANGED <<inc, there, cache, closing, deleting, requests, latest, clicks, others, faults>>

TypeTitle(t) ==
    /\ Here /\ editor.editing /\ ~editor.saving /\ editor.draft # t
    /\ editor' = [editor EXCEPT !.draft = t]
    /\ UNCHANGED <<inc, there, cache, closing, deleting, requests, latest, clicks, others, faults>>

CancelRename ==
    /\ editor.editing /\ ~editor.saving
    /\ editor' = NotEditing
    /\ UNCHANGED <<inc, there, cache, closing, deleting, requests, latest, clicks, others, faults>>

(* Enter, and the blur that follows it or comes alone; the title unchanged  *)
(* cancels.                                                                 *)
CommitRename ==
    /\ editor.editing /\ ~editor.done
    /\ IF editor.draft = cache.title
       THEN /\ editor' = NotEditing
            /\ UNCHANGED <<requests, latest, clicks>>
       ELSE /\ editor' = [editor EXCEPT !.saving = TRUE, !.done = TRUE]
            /\ Click /\ Update(Field("title", editor.draft))
    /\ UNCHANGED <<inc, there, cache, closing, deleting, others, faults>>

OpenDelete ==
    /\ Here /\ deleting' = "open"
    /\ UNCHANGED <<inc, there, cache, editor, closing, requests, latest, clicks, others, faults>>

DeleteConfirm ==
    /\ deleting = "open" /\ deleting' = "sent"
    /\ UNCHANGED <<inc, there, cache, editor, closing, requests, latest, clicks, others, faults>>

(* A refetch of the incident. *)
Refetch ==
    /\ there /\ cache' = inc /\ cache' # cache
    /\ UNCHANGED <<inc, there, editor, closing, deleting, requests, latest, clicks, others, faults>>

-----------------------------------------------------------------------------
(* PUT and DELETE /incidents/{id}. *)

OtherUpdate(patch) ==
    /\ others < MaxOthers /\ others' = others + 1
    /\ requests' = requests \cup {[n |-> others', mine |-> FALSE, patch |-> patch, at |-> "sent"]}
    /\ UNCHANGED <<inc, there, tabVars, latest, clicks, faults>>

Advance(r, s) == requests' = (requests \ {r}) \cup {s}

(* Slip kept for the checks: the disposition is left to the dialog to ask.  *)
MayApplyUnchecked(r, row) == "status" \in DOMAIN r.patch => row.title \in Titles

(* Closing needs a disposition, in the request or on the row. *)
MayApplyTo(r, row) ==
    "status" \in DOMAIN r.patch /\ r.patch["status"] = "closed"
       => "disposition" \in DOMAIN r.patch \/ row.disposition # None

Read(r) ==
    /\ r.at = "sent" /\ there /\ MayApplyTo(r, inc)
    /\ Advance(r, [n |-> r.n, mine |-> r.mine, patch |-> r.patch, at |-> "read", row |-> inc])
    /\ UNCHANGED <<inc, there, tabVars, latest, clicks, others, faults>>

(* What a request assigns, and what of it differs from the row it read: the *)
(* session writes no other column.                                          *)
Assigned(r) ==
    [f \in DOMAIN r.row |->
       IF f \in DOMAIN r.patch THEN r.patch[f]
       ELSE IF "status" \in DOMAIN r.patch /\ r.patch["status"] = "contained" /\ f = "contained_at" THEN TRUE
       ELSE IF "status" \in DOMAIN r.patch /\ r.patch["status"] = "closed" /\ f = "closed_at" THEN TRUE
       ELSE r.row[f]]
Columns(r) == {f \in DOMAIN r.row : Assigned(r)[f] # r.row[f]}
Written(r) == [f \in DOMAIN inc |-> IF f \in Columns(r) THEN Assigned(r)[f] ELSE inc[f]]

(* The update is flushed, which locks the row, and answered: the tab takes  *)
(* the answer for the incident and closes the editor or the dialog.         *)
Answer(r) ==
    /\ r.at = "read" /\ there
    /\ Columns(r) # {} => ~\E q \in requests : q.at = "answered" /\ Columns(q) # {}
    /\ Advance(r, [r EXCEPT !.at = "answered", !.n = 0])
    /\ IF ~r.mine THEN UNCHANGED <<cache, editor, closing>>
       ELSE /\ cache' = Written(r)
            /\ editor' = IF "title" \in DOMAIN r.patch
                         THEN NotEditing ELSE editor
            /\ closing' = IF Cardinality(DOMAIN r.patch) = 2 THEN Shut ELSE closing
    /\ UNCHANGED <<inc, there, deleting, latest, clicks, others, faults>>

Commit(r) ==
    /\ r.at = "answered" /\ inc' = Written(r) /\ requests' = requests \ {r}
    /\ UNCHANGED <<there, tabVars, latest, clicks, others, faults>>

(* Slip kept for the checks: a rename that failed still counts as done. *)
FailForDone(r) ==
    /\ r.at # "answered"
    /\ IF there /\ MayApplyTo(r, inc) THEN faults < MaxFaults /\ faults' = faults + 1
                                      ELSE UNCHANGED faults
    /\ requests' = requests \ {r}
    /\ editor' = IF r.mine /\ "title" \in DOMAIN r.patch /\ editor.editing
                 THEN [editor EXCEPT !.saving = FALSE] ELSE editor
    /\ UNCHANGED <<inc, there, cache, closing, deleting, latest, clicks, others>>

(* Refused, or failed on the way. The title editor stays open with its text. *)
Fail(r) ==
    /\ r.at # "answered"
    /\ IF there /\ MayApplyTo(r, inc) THEN faults < MaxFaults /\ faults' = faults + 1
                                      ELSE UNCHANGED faults
    /\ requests' = requests \ {r}
    /\ editor' = IF r.mine /\ "title" \in DOMAIN r.patch /\ editor.editing
                 THEN [editor EXCEPT !.saving = FALSE, !.done = FALSE] ELSE editor
    /\ UNCHANGED <<inc, there, cache, closing, deleting, latest, clicks, others>>

(* The server dies between an answer and its commit. *)
Lose(r) ==
    /\ r.at = "answered" /\ faults < MaxFaults /\ faults' = faults + 1
    /\ requests' = requests \ {r}
    /\ UNCHANGED <<inc, there, tabVars, latest, clicks, others>>

Delete ==
    /\ deleting = "sent" /\ there
    /\ ~\E r \in requests : r.at = "answered"
    /\ there' = FALSE /\ deleting' = "no"
    /\ editor' = NotEditing /\ closing' = Shut
    /\ UNCHANGED <<inc, cache, requests, latest, clicks, others, faults>>

DeleteFails ==
    /\ deleting = "sent" /\ faults < MaxFaults /\ faults' = faults + 1 /\ deleting' = "open"
    /\ UNCHANGED <<inc, there, cache, editor, closing, requests, latest, clicks, others>>

(* Others reopen or close, with a disposition or counting on the row's.     *)
Patches ==
    {Field("status", "open"), Field("status", "closed")}
    \cup {[f \in {"status", "disposition"} |-> IF f = "status" THEN "closed" ELSE d] : d \in Dispositions}

Next ==
    \/ \E s \in Severities : SeverityChange(s)
    \/ \E d \in Dispositions : DispositionChange(d)
    \/ \E a \in Analysts \cup {None} : AssigneeChange(a)
    \/ \E s \in Statuses : StatusChange(s)
    \/ \E d \in Dispositions : ChooseDisposition(d)
    \/ CloseConfirm
    \/ Dismiss
    \/ StartRename
    \/ \E t \in Titles : TypeTitle(t)
    \/ CancelRename
    \/ CommitRename
    \/ OpenDelete
    \/ DeleteConfirm
    \/ Refetch
    \/ \E p \in Patches : OtherUpdate(p)
    \/ \E r \in requests : Read(r) \/ Answer(r) \/ Commit(r) \/ Fail(r) \/ Lose(r)
    \/ Delete
    \/ DeleteFails

Spec == Init /\ [][Next]_vars

-----------------------------------------------------------------------------
(* Properties. *)

TypeOK ==
    /\ inc \in Rows /\ cache \in Rows /\ there \in BOOLEAN
    /\ editor \in [editing : BOOLEAN, draft : Titles \cup {None}, saving : BOOLEAN, done : BOOLEAN]
    /\ closing \in [open : BOOLEAN, choice : Dispositions \cup {None}]
    /\ deleting \in {"no", "open", "sent"}
    /\ editor.editing => (editor.done <=> editor.saving)

(* A closed incident says how and when it ended, a contained one that it    *)
(* was contained, however the requests of the analysts overlap, which check *)
(* and read first and write only the columns they change, and whichever of  *)
(* them are lost.                                                           *)
SignedOff ==
    /\ inc.status = "closed" => inc.disposition # None /\ inc.closed_at
    /\ inc.status = "contained" => inc.contained_at

=============================================================================
