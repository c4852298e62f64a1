-------------------------------- MODULE Timeline --------------------------------
(***************************************************************************)
(* The timeline of an incident: the list of entries with its filter, the   *)
(* form that adds one, which creates the entry, then uploads its files one *)
(* by one and then links its assets, and the dialog that edits one, in     *)
(* which files are removed and assets linked at once and the rest is saved *)
(* at the end.  An entry is its type, whether it is pinned, whether its    *)
(* text was edited, its files and its assets.                              *)
(***************************************************************************)
EXTENDS Naturals, SequencesExt

CONSTANTS Ids,          \* entries that may come to exist
          EntryTypes, Files, Assets,
          MaxClicks, MaxFaults

VARIABLES
    entries,   \* id -> entry
    taken,     \* <<entry, file>> of every upload the server took
    seen,      \* the page's list
    filter,
    add,       \* the form: whether there is a text, its files, its assets
    creating,  \* submissions whose entries are being created
    jobs,      \* submissions whose entry is there: files left, failed, and assets
    edit,      \* the dialog: its entry and files, a new text, new files, removed files, linked assets
    saves,     \* saves of the dialog: whether updated, files left and failed
    toggles,   \* link requests of the dialog on their way
    clicks, faults

vars == <<entries, taken, seen, filter, add, creating, jobs, edit, saves, toggles, clicks, faults>>

None == 0
Empty == [text |-> FALSE, files |-> <<>>, assets |-> {}, type |-> "note"]
Closed == [entry |-> None, had |-> {}, changed |-> FALSE, files |-> <<>>, removed |-> {}, linked |-> {}]

Init ==
    /\ entries = [e \in {} |-> 0] /\ taken = {} /\ seen = entries /\ filter = "all"
    /\ add = Empty /\ creating = {} /\ jobs = {}
    /\ edit = Closed /\ saves = {} /\ toggles = {} /\ clicks = 0 /\ faults = 0

Click == clicks < MaxClicks /\ clicks' = clicks + 1
Fault == faults < MaxFaults /\ faults' = faults + 1

-----------------------------------------------------------------------------
(* The form. *)

Filled(form) ==
    /\ add' = form /\ add' # add
    /\ UNCHANGED <<entries, taken, seen, filter, creating, jobs, edit, saves, toggles, faults>>

TypeText == Click /\ Filled([add EXCEPT !.text = TRUE])
ChooseType(t) == Click /\ Filled([add EXCEPT !.type = t])
PickAsset(a) == Click /\ Filled([add EXCEPT !.assets = (@ \ {a}) \cup ({a} \ @)])

Clear == Click /\ Filled([add EXCEPT !.text = FALSE, !.files = <<>>, !.assets = {}])

(* Files are chosen or dropped into one of the two zones; a screenshot that  *)
(* is pasted lands in every zone there is.                                   *)
AddFiles(f) ==
    /\ Click /\ f \notin ToSet(add.files) /\ Filled([add EXCEPT !.files = Append(@, f)])

AddFilesInDialog(f) ==
    /\ Click /\ edit.entry # None /\ f \notin ToSet(edit.files)
    /\ edit' = [edit EXCEPT !.files = Append(@, f)]
    /\ UNCHANGED <<entries, taken, seen, filter, add, creating, jobs, saves, toggles, faults>>

Paste(f) ==
    /\ Click /\ f \notin ToSet(add.files) \cup ToSet(edit.files)
    /\ add' = [add EXCEPT !.files = Append(@, f)]
    /\ edit' = IF edit.entry = None THEN edit ELSE [edit EXCEPT !.files = Append(@, f)]
    /\ UNCHANGED <<entries, taken, seen, filter, creating, jobs, saves, toggles, faults>>

(* Nothing is sent without a text.  The button waits while an entry is being *)
(* created; then the form is free again, and keeps what was sent until all   *)
(* of it is done.                                                            *)
Submit(form) == creating' = IF form.text THEN creating \cup {form} ELSE creating

HandleSubmit ==
    /\ add.text /\ creating = {} /\ Submit(add)
    /\ UNCHANGED <<entries, taken, seen, filter, add, jobs, edit, saves, toggles, clicks, faults>>

(* The cross on a file is a button of the form: unless it goes with the last *)
(* of the files, it submits the form as well.                                *)
RemoveFile(i) ==
    LET form == [add EXCEPT !.files = RemoveAt(@, i)] IN
    /\ Click /\ i \in DOMAIN add.files /\ add' = form
    /\ IF i < Len(add.files) THEN Submit(form) ELSE UNCHANGED creating
    /\ UNCHANGED <<entries, taken, seen, filter, jobs, edit, saves, toggles, faults>>

Fresh == Ids \ (DOMAIN entries \cup DOMAIN seen \cup {edit.entry}
                \cup {j.entry : j \in jobs \cup saves \cup toggles})
NewEntry(form) == [type |-> form.type, pinned |-> FALSE, edited |-> FALSE, files |-> {}, assets |-> {}]

(* The answer comes before the commit: the fetch that follows it reads what   *)
(* was there before, or after.                                                *)
Fetched == seen' \in {entries, entries'}

CreateEntry(form) ==
    /\ form \in creating /\ creating' = creating \ {form}
    /\ Fresh # {}
    /\ LET e == CHOOSE e \in Fresh : TRUE IN
         /\ entries' = [d \in DOMAIN entries \cup {e} |->
                          IF d = e THEN NewEntry(form) ELSE entries[d]]
         /\ jobs' = jobs \cup {[entry |-> e, sent |-> ToSet(form.files), left |-> form.files,
                                failed |-> {}, assets |-> form.assets]}
    /\ Fetched
    /\ UNCHANGED <<taken, filter, add, edit, saves, toggles, clicks, faults>>

CreateFails(form) ==
    /\ form \in creating /\ Fault /\ creating' = creating \ {form}
    /\ UNCHANGED <<entries, taken, seen, filter, add, jobs, edit, saves, toggles, clicks>>

(* An upload takes the file, or is refused, or fails before or after the     *)
(* server took it; an entry that is gone takes none.                         *)
Store(e, f, takes) ==
    IF takes /\ e \in DOMAIN entries
    THEN entries' = [entries EXCEPT ![e].files = @ \cup {f}] /\ taken' = taken \cup {<<e, f>>}
    ELSE UNCHANGED <<entries, taken>>

Tried(e, ok) ==
    /\ ok \/ e \notin DOMAIN entries \/ faults < MaxFaults
    /\ faults' = IF ok \/ e \notin DOMAIN entries THEN faults ELSE faults + 1

(* Slip kept for the checks: the first failure ends the uploads. *)
AfterTheFirstFailure(j, ok) ==
    [j EXCEPT !.left = IF ok THEN Tail(@) ELSE <<>>, !.failed = IF ok THEN @ ELSE @ \cup {Head(j.left)}]

(* One that fails is passed over, and told of in the end. *)
After(j, ok) == [j EXCEPT !.left = Tail(@), !.failed = IF ok THEN @ ELSE @ \cup {Head(j.left)}]

Upload(j, takes, answered) ==
    LET ok == takes /\ answered /\ j.entry \in DOMAIN entries IN
    /\ j.left # <<>> /\ Store(j.entry, Head(j.left), takes) /\ Tried(j.entry, ok)
    /\ jobs' = (jobs \ {j}) \cup {After(j, ok)}
    /\ UNCHANGED <<seen, filter, add, creating, edit, saves, toggles, clicks>>

(* The list is fetched again for the files, the assets are linked, and the   *)
(* form is reset, whatever is in it by now.                                  *)
Finish(j, linked) ==
    /\ j.left = <<>> /\ jobs' = jobs \ {j}
    /\ IF linked /\ j.entry \in DOMAIN entries
       THEN entries' = [entries EXCEPT ![j.entry].assets = @ \cup j.assets] ELSE UNCHANGED entries
    /\ linked \/ (j.assets # {} /\ faults < MaxFaults)
    /\ faults' = IF linked THEN faults ELSE faults + 1
    /\ seen' = IF j.sent # {} THEN entries ELSE seen
    /\ add' = [Empty EXCEPT !.type = add.type]
    /\ UNCHANGED <<taken, filter, creating, edit, saves, toggles, clicks>>

-----------------------------------------------------------------------------
(* The list. *)

(* Pinned entries come first, then by time; the filter is the server's.      *)
Listed(e) == e \in DOMAIN seen /\ filter \in {"all", seen[e].type}

ChooseFilter(t) ==
    /\ Click /\ filter # t /\ filter' = t /\ seen' = entries
    /\ UNCHANGED <<entries, taken, add, creating, jobs, edit, saves, toggles, faults>>

(* Events of the socket, or of the page coming into view, fetch it again.    *)
Refetch ==
    /\ seen # entries /\ seen' = entries
    /\ UNCHANGED <<entries, taken, filter, add, creating, jobs, edit, saves, toggles, clicks, faults>>

Pin(e) ==
    /\ Click /\ Listed(e) /\ e \in DOMAIN entries
    /\ entries' = [entries EXCEPT ![e].pinned = ~seen[e].pinned] /\ Fetched
    /\ UNCHANGED <<taken, filter, add, creating, jobs, edit, saves, toggles, faults>>

(* The files of an entry and its links go with it. *)
Delete(e) ==
    /\ Click /\ Listed(e) /\ entries' = [d \in DOMAIN entries \ {e} |-> entries[d]] /\ Fetched
    /\ UNCHANGED <<taken, filter, add, creating, jobs, edit, saves, toggles, faults>>

(* The link of a file is fetched when it is clicked, and fails for one that  *)
(* is gone.                                                                  *)
Offered(e) == IF Listed(e) THEN seen[e].files ELSE {}

-----------------------------------------------------------------------------
(* The dialog. *)

(* It is filled from the entry as the list had it, and from a query of its   *)
(* own for the assets, which may be older: a new link does not renew it.     *)
EditRequest(e) ==
    /\ Click /\ Listed(e) /\ edit = Closed
    /\ \E known \in SUBSET Assets :
         edit' = [Closed EXCEPT !.entry = e, !.had = seen[e].files, !.linked = known]
    /\ UNCHANGED <<entries, taken, seen, filter, add, creating, jobs, saves, toggles, faults>>

EditText ==
    /\ edit.entry # None /\ ~edit.changed /\ Click /\ edit' = [edit EXCEPT !.changed = TRUE]
    /\ UNCHANGED <<entries, taken, seen, filter, add, creating, jobs, saves, toggles, faults>>

Close ==
    /\ edit.entry # None /\ edit' = Closed
    /\ UNCHANGED <<entries, taken, seen, filter, add, creating, jobs, saves, toggles, clicks, faults>>

VisibleAttachments == edit.had \ edit.removed

(* A file is removed at once, and stays so if the dialog is cancelled.       *)
DeleteAttachment(f) ==
    /\ Click /\ f \in VisibleAttachments /\ edit.entry \in DOMAIN entries
    /\ f \in entries[edit.entry].files
    /\ entries' = [entries EXCEPT ![edit.entry].files = @ \ {f}]
    /\ edit' = [edit EXCEPT !.removed = @ \cup {f}]
    /\ UNCHANGED <<taken, seen, filter, add, creating, jobs, saves, toggles, faults>>

(* An asset is shown linked or not before the server knows; it is put back   *)
(* if the request fails.  An unlinked one makes the query fetch again, from  *)
(* before the commit or after it.                                            *)
ToggleAsset(a) ==
    /\ Click /\ edit.entry # None
    /\ edit' = [edit EXCEPT !.linked = (@ \ {a}) \cup ({a} \ @)]
    /\ toggles' = toggles \cup {[entry |-> edit.entry, asset |-> a, on |-> a \notin edit.linked]}
    /\ UNCHANGED <<entries, taken, seen, filter, add, creating, jobs, saves, faults>>

ToggleDone(t) ==
    /\ t \in toggles /\ toggles' = toggles \ {t} /\ t.entry \in DOMAIN entries
    /\ entries' = [entries EXCEPT ![t.entry].assets = IF t.on THEN @ \cup {t.asset} ELSE @ \ {t.asset}]
    /\ \E known \in {edit.linked, entries'[t.entry].assets} :
         edit' = IF ~t.on /\ edit.entry = t.entry THEN [edit EXCEPT !.linked = known] ELSE edit
    /\ UNCHANGED <<taken, seen, filter, add, creating, jobs, saves, clicks, faults>>

ToggleFails(t) ==
    /\ t \in toggles /\ toggles' = toggles \ {t}
    /\ t.entry \in DOMAIN entries => faults < MaxFaults
    /\ faults' = IF t.entry \in DOMAIN entries THEN faults + 1 ELSE faults
    /\ edit' = IF edit.entry = None THEN edit
               ELSE [edit EXCEPT !.linked = IF t.on THEN @ \ {t.asset} ELSE @ \cup {t.asset}]
    /\ UNCHANGED <<entries, taken, seen, filter, add, creating, jobs, saves, clicks>>

(* The text and the fields first, then the new files; one that fails is told *)
(* of and passed over.  The cross on a file is again a button of the form.   *)
SubmitEdit(dialog) ==
    saves' = saves \cup {[entry |-> dialog.entry, changed |-> dialog.changed, updated |-> FALSE,
                          sent |-> ToSet(dialog.files), left |-> dialog.files, failed |-> {}]}

Save ==
    /\ edit.entry # None /\ \A v \in saves : v.updated
    /\ Click /\ SubmitEdit(edit)
    /\ UNCHANGED <<entries, taken, seen, filter, add, creating, jobs, edit, toggles, faults>>

RemoveFileInDialog(i) ==
    LET dialog == [edit EXCEPT !.files = RemoveAt(@, i)] IN
    /\ Click /\ i \in DOMAIN edit.files /\ edit' = dialog
    /\ IF i < Len(edit.files) THEN SubmitEdit(dialog) ELSE UNCHANGED saves
    /\ UNCHANGED <<entries, taken, seen, filter, add, creating, jobs, toggles, faults>>

Update(v) ==
    /\ v \in saves /\ ~v.updated /\ v.entry \in DOMAIN entries
    /\ entries' = [entries EXCEPT ![v.entry].edited = @ \/ v.changed] /\ Fetched
    /\ saves' = (saves \ {v}) \cup {[v EXCEPT !.updated = TRUE]}
    /\ UNCHANGED <<taken, filter, add, creating, jobs, edit, toggles, clicks, faults>>

UpdateFails(v) ==
    /\ v \in saves /\ ~v.updated /\ saves' = saves \ {v} /\ Tried(v.entry, FALSE)
    /\ UNCHANGED <<entries, taken, seen, filter, add, creating, jobs, edit, toggles, clicks>>

UploadNew(v, takes, answered) ==
    LET ok == takes /\ answered /\ v.entry \in DOMAIN entries IN
    /\ v.updated /\ v.left # <<>> /\ Store(v.entry, Head(v.left), takes) /\ Tried(v.entry, ok)
    /\ saves' = (saves \ {v}) \cup {After(v, ok)}
    /\ UNCHANGED <<seen, filter, add, creating, jobs, edit, toggles, clicks>>

(* A save that is done closes the dialog, whichever it is by now. *)
Saved(v) ==
    /\ v \in saves /\ v.updated /\ v.left = <<>> /\ saves' = saves \ {v}
    /\ edit' = Closed /\ seen' = entries
    /\ UNCHANGED <<entries, taken, filter, add, creating, jobs, toggles, clicks, faults>>

Next ==
    \/ TypeText
    \/ \E t \in EntryTypes : ChooseType(t)
    \/ \E a \in Assets : PickAsset(a)
    \/ Clear
    \/ \E f \in Files : AddFiles(f)
    \/ \E f \in Files : AddFilesInDialog(f)
    \/ \E f \in Files : Paste(f)
    \/ HandleSubmit
    \/ \E i \in DOMAIN add.files : RemoveFile(i)
    \/ \E form \in creating : CreateEntry(form)
    \/ \E form \in creating : CreateFails(form)
    \/ \E j \in jobs : \E takes, answered \in BOOLEAN : Upload(j, takes, answered)
    \/ \E j \in jobs : \E linked \in BOOLEAN : Finish(j, linked)
    \/ \E t \in EntryTypes \cup {"all"} : ChooseFilter(t)
    \/ Refetch
    \/ \E e \in Ids : Pin(e)
    \/ \E e \in Ids : Delete(e)
    \/ \E e \in Ids : EditRequest(e)
    \/ EditText
    \/ Close
    \/ \E f \in Files : DeleteAttachment(f)
    \/ \E a \in Assets : ToggleAsset(a)
    \/ \E t \in toggles : ToggleDone(t)
    \/ \E t \in toggles : ToggleFails(t)
    \/ Save
    \/ \E i \in DOMAIN edit.files : RemoveFileInDialog(i)
    \/ \E v \in saves : Update(v)
    \/ \E v \in saves : UpdateFails(v)
    \/ \E v \in saves : \E takes, answered \in BOOLEAN : UploadNew(v, takes, answered)
    \/ \E v \in saves : Saved(v)

Spec == Init /\ [][Next]_vars

-----------------------------------------------------------------------------
(* Properties. *)

TypeOK ==
    /\ DOMAIN entries \subseteq Ids /\ DOMAIN seen \subseteq Ids /\ taken \subseteq Ids \X Files
    /\ \A e \in DOMAIN entries : entries[e].files \subseteq Files /\ entries[e].assets \subseteq Assets
    /\ ToSet(add.files) \subseteq Files /\ add.assets \subseteq Assets /\ add.type \in EntryTypes
    /\ edit.entry \in Ids \cup {None} /\ \A v \in saves : v.entry \in Ids /\ v.updated \in BOOLEAN
    /\ (edit.entry = None => edit = Closed)

(* "Entry added", "Entry updated": when that is said, each file that was     *)
(* sent has been taken for its entry by the server, or is among those that   *)
(* failed, though files fail one by one, entries are deleted under their     *)
(* uploads, and others are submitted and saved meanwhile.                    *)
EveryFileIsAccountedFor ==
    \A j \in jobs \cup saves : \A f \in j.sent :
        f \in ToSet(j.left) \/ f \in j.failed \/ <<j.entry, f>> \in taken

=============================================================================
