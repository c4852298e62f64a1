---------------------------- MODULE TemplateEditor ----------------------------
(***************************************************************************)
(* Report templates in one tab: the list, with its dialog, and the editor, *)
(* where the layout waits for Save while colour and company name are saved *)
(* on their own, debounced together; and the endpoints, some of which      *)
(* answer before they commit.                                              *)
(***************************************************************************)
EXTENDS Naturals, SequencesExt

CONSTANTS System, Existing, Ids,   \* templates: of the system, of the start, that may come
          Names, Colours, Companies, Types, AiTypes, AiDisabled,
          MaxBlocks, MaxClicks, MaxRequests, MaxFaults

VARIABLES
    rows,       \* id -> template
    listed,     \* the list as the tab has it
    cached,     \* single templates as the tab has them
    at,         \* where the tab is: page, id, failed (the template could not be fetched)
    dialog,     \* "New Report Template": open, name
    editor,     \* what the editor holds
    pending,    \* colour and company that wait for the timer
    leftover,   \* timers of an editor that was left: id, patch
    requests,   \* requests that are not committed or not answered
    typed,      \* field -> what the user chose for it since it was shown
    unsure,     \* a save failed since then, or several overlapped
    clicks, faults

vars == <<rows, listed, cached, at, dialog, editor, pending, leftover, requests,
          typed, unsure, clicks, faults>>

None == "none"
NoText == ""
Unset == << >>                     \* a patch and a record of choices without a field
Brand == {"colour", "company"}
DefaultColour == CHOOSE c \in Colours : TRUE

(* f, and v for x.  (The provers do not know @@.) *)
With(f, x, v) == [y \in DOMAIN f \cup {x} |-> IF y = x THEN v ELSE f[y]]

Stripped(blocks) == [k \in DOMAIN blocks |-> [type |-> blocks[k].type, set |-> blocks[k].set]]

(* A template of that name, and its copy: neither has a brand of its own.   *)
Template(name, blocks) ==
    [name |-> name, blocks |-> blocks, colour |-> DefaultColour, company |-> NoText,
     logo |-> FALSE, ai |-> FALSE, hidden |-> FALSE]

(* The editor before it has been given a template. *)
Blank == [name |-> NoText, blocks |-> <<>>, colour |-> DefaultColour, company |-> NoText, logo |-> FALSE,
          dirty |-> FALSE, saving |-> FALSE, hydrated |-> None, selected |-> 0]

(* What an editor shows of a template: blocks get an id of their own. *)
Hydrated(e, id, row) ==
    [e EXCEPT !.name = row.name, !.colour = row.colour, !.company = row.company, !.logo = row.logo,
              !.blocks = [k \in DOMAIN row.blocks |->
                            [key |-> k, type |-> row.blocks[k].type, set |-> row.blocks[k].set]],
              !.dirty = FALSE, !.hydrated = id, !.selected = 0]

ListPage == [page |-> "list", id |-> None, failed |-> FALSE]

Init ==
    /\ rows = [i \in System \cup Existing |->
                 Template("n", <<[type |-> CHOOSE t \in Types : TRUE, set |-> FALSE]>>)]
    /\ listed = rows
    /\ \/ cached = Unset /\ at = ListPage /\ editor = Blank
       \/ \E i \in Existing : /\ cached = [j \in {i} |-> rows[j]] /\ editor = Hydrated(Blank, i, rows[i])
                             /\ at = [page |-> "edit", id |-> i, failed |-> FALSE]
    /\ dialog = [open |-> FALSE, name |-> NoText]
    /\ pending = Unset /\ leftover = {} /\ requests = {}
    /\ typed = Unset /\ unsure = FALSE
    /\ clicks = 0 /\ faults = 0

Click == clicks < MaxClicks /\ clicks' = clicks + 1

-----------------------------------------------------------------------------
(* Requests. *)

Fresh == Ids \ (DOMAIN rows \cup DOMAIN listed \cup DOMAIN cached \cup {at.id}
                 \cup {r.id : r \in requests})

InFlight(kind) == \E r \in requests : r.mine /\ ~r.answered /\ r.kind = kind

Send(r) == Cardinality(requests) < MaxRequests /\ requests' = requests \cup {r}

Requested(kind, id, patch) ==
    [n |-> CHOOSE n \in 1..MaxRequests : \A r \in requests : r.n # n,
     kind |-> kind, id |-> id, patch |-> patch, save |-> FALSE, mine |-> TRUE,
     at |-> "sent", base |-> Unset, answered |-> FALSE]

Saves(r, id) == r.kind = "put" /\ r.id = id /\ DOMAIN r.patch \cap Brand # {}
Overlaps(id) == \E r \in requests : Saves(r, id)

-----------------------------------------------------------------------------
(* What the tab does with a template that arrives. *)

(* The effect fills the editor once per template. *)
MustHydrate(id) == editor.hydrated # id

Receive(id, row, uploaded) ==
    LET e == IF uploaded THEN [editor EXCEPT !.logo = TRUE] ELSE editor
    IN  /\ cached' = With(cached, id, row)
        /\ IF at.page = "edit" /\ at.id = id /\ MustHydrate(id)
           THEN /\ editor' = Hydrated(e, id, row)
                /\ at' = [at EXCEPT !.failed = FALSE]
                /\ typed' = IF editor.hydrated = id THEN typed ELSE Unset
           ELSE editor' = e /\ UNCHANGED <<at, typed>>

(* To a template: the editor stays the same one on the way from "new", or   *)
(* when a creation is answered late.  Without the template it shows that it *)
(* is loading.                                                              *)
Enter(id, shown) ==
    LET e == IF at.page = "list" THEN Blank ELSE shown
    IN  /\ at' = [page |-> "edit", id |-> id, failed |-> FALSE]
        /\ editor' = IF id \in DOMAIN cached THEN Hydrated(e, id, cached[id])
                     ELSE [e EXCEPT !.selected = 0]
        /\ typed' = Unset /\ unsure' = (Overlaps(id) \/ leftover # {} \/ pending # Unset)

Loading == at.page = "edit" /\ at.id \notin DOMAIN cached /\ ~at.failed

(* A fetch of the template shown, the first one or a later one. *)
Fetch ==
    /\ at.page = "edit" /\ at.id \in DOMAIN rows /\ Receive(at.id, rows[at.id], FALSE)
    /\ UNCHANGED <<rows, listed, dialog, pending, leftover, requests, unsure, clicks, faults>>

(* It fails twice, or the template is gone or not committed yet. *)
FetchFails ==
    /\ Loading
    /\ IF at.id \in DOMAIN rows THEN faults < MaxFaults /\ faults' = faults + 1 ELSE faults' = faults
    /\ at' = [at EXCEPT !.failed = TRUE]
    /\ UNCHANGED <<rows, listed, cached, dialog, editor, pending, leftover, requests, typed, unsure, clicks>>

FetchList ==
    /\ at.page = "list" /\ listed' = rows /\ listed' # listed
    /\ UNCHANGED <<rows, cached, at, dialog, editor, pending, leftover, requests, typed, unsure, clicks, faults>>

-----------------------------------------------------------------------------
(* The list. *)

OnList == at.page = "list" /\ ~dialog.open
Own == DOMAIN listed \ System

(* What the row of a template offers; a button waits for its own answer.    *)
Offers(id, what) ==
    /\ OnList /\ (what # "delete" => ~InFlight(what))
    /\ \/ id \in System /\ what \in {"hide", "clone"}
       \/ id \in Own /\ what \in {"ai", "edit", "clone", "delete"}
    /\ ~(what = "ai" /\ AiDisabled)

FromList(r) ==
    /\ Click /\ Send(r)
    /\ UNCHANGED <<rows, listed, cached, at, dialog, editor, pending, leftover, typed, unsure, faults>>

ToggleHide(id) == Offers(id, "hide") /\ FromList(Requested("hide", id, [hidden |-> ~listed[id].hidden]))
ToggleAi(id) == Offers(id, "ai") /\ FromList(Requested("ai", id, [ai |-> ~listed[id].ai]))
Clone(id, copy) ==
    Offers(id, "clone") /\ copy \in Fresh /\ FromList(Requested("clone", copy, [source |-> id]))
Delete(id) == Offers(id, "delete") /\ FromList(Requested("delete", id, Unset))

Edit(id) ==
    /\ Click /\ Offers(id, "edit") /\ Enter(id, Blank)
    /\ requests' = {[r EXCEPT !.mine = FALSE] : r \in requests}
    /\ UNCHANGED <<rows, listed, cached, dialog, pending, leftover, faults>>

(* By its address, or by the link shown while there is no template. *)
New ==
    /\ Click /\ OnList /\ at' = [ListPage EXCEPT !.page = "new"] /\ editor' = Blank
    /\ requests' = {[r EXCEPT !.mine = FALSE] : r \in requests}
    /\ UNCHANGED <<rows, listed, cached, dialog, pending, leftover, typed, unsure, faults>>

Dialog(d) ==
    /\ at.page = "list" /\ dialog' = d /\ dialog' # dialog
    /\ UNCHANGED <<rows, listed, cached, at, editor, pending, leftover, requests, typed, unsure, faults>>

OpenDialog == Click /\ ~dialog.open /\ Dialog([dialog EXCEPT !.open = TRUE])
CancelDialog == dialog.open /\ Dialog([dialog EXCEPT !.open = FALSE]) /\ clicks' = clicks
TypeNewName(n) == dialog.open /\ Dialog([dialog EXCEPT !.name = n]) /\ clicks' = clicks

(* The button waits for the answer, the Enter key does not. *)
CreateAndEdit(id) ==
    /\ Click /\ at.page = "list" /\ dialog.open /\ dialog.name # NoText /\ id \in Fresh
    /\ Send(Requested("create", id, [name |-> dialog.name, blocks |-> <<>>]))
    /\ UNCHANGED <<rows, listed, cached, at, dialog, editor, pending, leftover, typed, unsure, faults>>

-----------------------------------------------------------------------------
(* The editor. *)

Shown == at.page # "list" /\ ~Loading

(* The user changes a field. *)
Choose(field, value) ==
    /\ Click /\ Shown
    /\ typed' = With(typed, field, value)
    /\ UNCHANGED <<rows, listed, cached, at, dialog, leftover, requests, unsure, faults>>

TypeName(n) ==
    /\ n # editor.name /\ Choose("name", n)
    /\ editor' = [editor EXCEPT !.name = n, !.dirty = TRUE] /\ pending' = pending

SetBlocks(blocks, selected) ==
    /\ Choose("blocks", blocks)
    /\ editor' = [editor EXCEPT !.blocks = blocks, !.dirty = TRUE, !.selected = selected]
    /\ pending' = pending

NewId == 1 + Max({0} \cup {editor.blocks[k].key : k \in DOMAIN editor.blocks})

(* An entry of the library. *)
Offered(type) == ~(type \in AiTypes /\ AiDisabled)

AddBlock(type) ==
    /\ Len(editor.blocks) < MaxBlocks /\ Offered(type)
    /\ SetBlocks(Append(editor.blocks, [key |-> NewId, type |-> type, set |-> FALSE]), NewId)

(* The settings of a block are shown under the one that is selected. *)
SettingsShown(k) == editor.selected = editor.blocks[k].key

RemoveBlock(k) ==
    SetBlocks(RemoveAt(editor.blocks, k),
              IF SettingsShown(k) THEN 0 ELSE editor.selected)

UpdateBlock(k) ==
    /\ SettingsShown(k)
    /\ SetBlocks([editor.blocks EXCEPT ![k].set = ~@], editor.selected)

Drag(k, l) == k # l /\ SetBlocks(InsertAt(RemoveAt(editor.blocks, k), l, editor.blocks[k]), editor.selected)

SelectBlock(k) ==
    /\ Shown
    /\ editor' = [editor EXCEPT !.selected = IF @ = editor.blocks[k].key THEN 0 ELSE editor.blocks[k].key]
    /\ UNCHANGED <<rows, listed, cached, at, dialog, pending, leftover, requests, typed, unsure, clicks, faults>>

(* Slip kept for the checks: the second change replaces the first (#142).   *)
QueuedAlone(field, value) == [f \in {field} |-> value]

(* Colour and company share one timer; what waits is merged. *)
Queued(field, value) == With(pending, field, value)

(* Only a template that exists has the controls of the brand. *)
BrandShown == at.page = "edit"

PickColour(c) ==
    /\ BrandShown /\ c # editor.colour /\ Choose("colour", c)
    /\ editor' = [editor EXCEPT !.colour = c] /\ pending' = Queued("colour", c)

TypeCompany(c) ==
    /\ BrandShown /\ c # editor.company /\ Choose("company", c)
    /\ editor' = [editor EXCEPT !.company = c] /\ pending' = Queued("company", c)

BrandTimer ==
    /\ pending # Unset /\ pending' = Unset
    /\ Send(Requested("put", at.id, pending))
    /\ unsure' = (unsure \/ Overlaps(at.id))
    /\ UNCHANGED <<rows, listed, cached, at, dialog, editor, leftover, typed, clicks, faults>>

(* The timer of an editor that was left fires all the same. *)
LeftoverTimer(t) ==
    /\ t \in leftover /\ leftover' = leftover \ {t}
    /\ Send([Requested("put", t.id, t.patch) EXCEPT !.mine = FALSE])
    /\ UNCHANGED <<rows, listed, cached, at, dialog, editor, pending, typed, unsure, clicks, faults>>

UploadLogo ==
    /\ Click /\ Shown /\ BrandShown /\ (editor.logo \/ ~InFlight("logo"))
    /\ Send(Requested("logo", at.id, [logo |-> TRUE]))
    /\ UNCHANGED <<rows, listed, cached, at, dialog, editor, pending, leftover, typed, unsure, faults>>

MaySave == Shown /\ ~editor.saving /\ editor.name # NoText /\ (at.page = "new" \/ editor.dirty)

HandleSave(id) ==
    /\ Click /\ MaySave
    /\ editor' = [editor EXCEPT !.saving = TRUE]
    /\ LET layout == [name |-> editor.name, blocks |-> Stripped(editor.blocks)]
           whole == [name |-> layout.name, blocks |-> layout.blocks,
                     colour |-> editor.colour, company |-> editor.company]
       IN  IF at.page = "new"
           THEN id \in Fresh /\ Send([Requested("create", id, layout) EXCEPT !.save = TRUE])
           ELSE id = at.id /\ Send([Requested("put", id, whole) EXCEPT !.save = TRUE])
    /\ unsure' = (unsure \/ Overlaps(id))
    /\ UNCHANGED <<rows, listed, cached, at, dialog, pending, leftover, typed, faults>>

Back ==
    /\ Click /\ at.page # "list" /\ at' = ListPage /\ dialog' = [open |-> FALSE, name |-> NoText]
    /\ editor' = Blank /\ typed' = Unset /\ unsure' = FALSE
    /\ leftover' = leftover \cup (IF pending = Unset THEN {} ELSE {[id |-> at.id, patch |-> pending]})
    /\ pending' = Unset
    /\ requests' = {[r EXCEPT !.mine = FALSE] : r \in requests}
    /\ UNCHANGED <<rows, listed, cached, faults>>

-----------------------------------------------------------------------------
(* The endpoints. *)

Source(r) == IF r.kind = "clone" THEN r.patch.source ELSE r.id
Becomes(r, s) == (requests \ {r}) \cup {s}
Server == UNCHANGED <<listed, cached, at, dialog, editor, pending, leftover, typed, unsure, clicks, faults>>

Read(r) ==
    /\ r.at = "sent" /\ r.kind # "create" /\ Source(r) \in DOMAIN rows
    /\ requests' = Becomes(r, [r EXCEPT !.at = "read", !.base = rows[Source(r)]])
    /\ UNCHANGED rows /\ Server

(* A flush locks the row until the commit.                                  *)
Flush(r) ==
    /\ IF r.kind = "create" THEN r.at = "sent"
       ELSE r.at = "read" /\ (r.kind = "clone" \/ r.id \in DOMAIN rows)
    /\ \A s \in requests : s.id = r.id => s.at # "flushed"
    /\ requests' = Becomes(r, [r EXCEPT !.at = "flushed"])
    /\ UNCHANGED rows /\ Server

(* Only what differs from the row that was read is written. *)
Written(r) ==
    CASE r.kind = "create" -> With(rows, r.id, Template(r.patch.name, r.patch.blocks))
      [] r.kind = "clone"  -> With(rows, r.id, Template(r.base.name \o " (Copy)", r.base.blocks))
      [] r.kind = "delete" -> [i \in DOMAIN rows \ {r.id} |-> rows[i]]
      [] OTHER -> [rows EXCEPT ![r.id] =
                     [f \in DOMAIN @ |-> IF f \in DOMAIN r.patch /\ r.patch[f] # r.base[f]
                                         THEN r.patch[f] ELSE @[f]]]

Commit(r) ==
    /\ r.at = "flushed" /\ rows' = Written(r)
    /\ requests' = IF r.answered THEN requests \ {r}
                   ELSE Becomes(r, [r EXCEPT !.at = "committed",
                                             !.base = IF r.kind = "logo" THEN rows'[r.id] ELSE Unset])
    /\ Server

-----------------------------------------------------------------------------
(* Answers. *)

Answered(r) == requests' = IF r.at = "committed" THEN requests \ {r}
                           ELSE Becomes(r, [r EXCEPT !.answered = TRUE])
(* A save is over, whatever came of it. *)
Finished(r) == IF r.save /\ r.mine THEN [editor EXCEPT !.saving = FALSE] ELSE editor

CommitsFirst(r) == r.kind \in {"clone", "logo"}

Answer(r) ==
    /\ ~r.answered /\ r.at \in {"flushed", "committed"} /\ Answered(r)
    /\ CommitsFirst(r) => r.at = "committed"
    /\ UNCHANGED <<rows, listed, pending, leftover, clicks, faults>>
    /\ CASE r.kind = "create" ->
              /\ Enter(r.id, Finished(r)) /\ UNCHANGED cached
              /\ dialog' = IF r.save THEN dialog ELSE [open |-> FALSE, name |-> NoText]
         [] r.kind = "logo" ->
              /\ Receive(r.id, r.base, r.mine) /\ UNCHANGED <<dialog, unsure>>
         [] OTHER ->
              /\ editor' = [Finished(r) EXCEPT !.dirty = @ /\ ~(r.save /\ r.mine)]
              /\ UNCHANGED <<cached, at, dialog, typed, unsure>>

(* The tab is told that a request failed.                                   *)
Told(r) ==
    /\ ~r.answered
    /\ editor' = Finished(r)
    /\ unsure' = (unsure \/ Saves(r, at.id))
    /\ UNCHANGED <<rows, listed, cached, at, dialog, pending, leftover, typed, clicks>>

(* The template is gone. *)
Refuse(r) ==
    /\ r.at \in {"sent", "read"} /\ r.kind # "create" /\ Source(r) \notin DOMAIN rows
    /\ Told(r) /\ requests' = requests \ {r} /\ UNCHANGED faults

(* A request, or its answer, is lost. *)
Fail(r) ==
    /\ faults < MaxFaults /\ faults' = faults + 1 /\ Told(r)
    /\ IF r.at = "sent" THEN requests' = requests \ {r} ELSE Answered(r)

-----------------------------------------------------------------------------
Next ==
    \/ \E id \in Ids : ToggleHide(id) \/ ToggleAi(id) \/ Delete(id) \/ Edit(id)
                          \/ CreateAndEdit(id) \/ HandleSave(id)
    \/ \E id, copy \in Ids : Clone(id, copy)
    \/ New \/ OpenDialog \/ CancelDialog \/ Back \/ BrandTimer \/ UploadLogo
    \/ \E n \in Names : TypeNewName(n) \/ TypeName(n)
    \/ \E t \in Types : AddBlock(t)
    \/ \E k \in DOMAIN editor.blocks :
          RemoveBlock(k) \/ UpdateBlock(k) \/ SelectBlock(k) \/ \E l \in DOMAIN editor.blocks : Drag(k, l)
    \/ \E c \in Colours : PickColour(c)
    \/ \E c \in Companies : TypeCompany(c)
    \/ \E t \in leftover : LeftoverTimer(t)
    \/ Fetch \/ FetchFails \/ FetchList
    \/ \E r \in requests : Read(r) \/ Flush(r) \/ Commit(r) \/ Answer(r) \/ Refuse(r) \/ Fail(r)

Spec == Init /\ [][Next]_vars

-----------------------------------------------------------------------------
TypeOK ==
    /\ DOMAIN rows \subseteq Ids /\ DOMAIN listed \subseteq Ids /\ DOMAIN cached \subseteq Ids
    /\ System \subseteq DOMAIN rows
    /\ at.page \in {"list", "new", "edit"} /\ at.id \in Ids \cup {None}
    /\ DOMAIN pending \subseteq Brand /\ (pending # Unset => at.page = "edit")
    /\ editor.colour \in Colours /\ editor.company \in Companies
    /\ editor.selected \in {0} \cup {editor.blocks[k].key : k \in DOMAIN editor.blocks}

(* "Changing a report template's colour or company name lost the unsaved    *)
(* layout ... in quick succession could also lose the colour change" (#142  *)
(* of the changelog): whatever is fetched, saved or uploaded meanwhile,     *)
(* what the user chose since the template was shown stays on screen, and    *)
(* once no timer and no save is left, colour and company name are stored,   *)
(* unless a save failed or two overlapped.                                  *)
ChoicesStay ==
    /\ \A f \in DOMAIN typed : editor[f] = typed[f]
    /\ at.page = "edit" /\ at.id \in DOMAIN rows /\ ~unsure /\ pending = Unset /\ ~Overlaps(at.id) =>
          \A f \in DOMAIN typed \cap Brand : rows[at.id][f] = typed[f]
=============================================================================
