--------------------------------- MODULE Assets ---------------------------------
(***************************************************************************)
(* The assets of an incident and the relationships between them: the page  *)
(* with its two tabs and its two dialogs, and the server, which deletes an *)
(* asset's relationships with the asset.  The page has the two lists by    *)
(* two queries, and a request about one list fetches that list only.       *)
(* An asset is its name, its status and its description.                   *)
(***************************************************************************)
EXTENDS Naturals, FiniteSets

CONSTANTS Ids,          \* assets that may come to exist
          Statuses, LinkTypes,
          MaxClicks, MaxFaults

VARIABLES
    rows,     \* id -> asset
    links,    \* relationships: source, target, type
    checked,  \* a relationship another analyst asks for, found not to exist yet
    seen,     \* the page's assets
    shown,    \* the page's relationships
    unlinked, \* relationships that were removed as such, by whomever
    tab,
    names,    \* the lines of the name field
    editing,  \* the dialog to edit: its asset and its fields
    deleting, \* the dialog to delete: its asset
    ends,     \* the form of a relationship: source and target
    waiting,  \* requests on their way
    clicks, faults

vars == <<rows, links, checked, seen, shown, unlinked, tab, names, editing, deleting, ends,
          waiting, clicks, faults>>
dialogs == <<names, editing, deleting, ends>>

None == 0
Suspected == "suspected"   \* the status of a new asset
NoLink == [source |-> None, target |-> None, type |-> "none"]
Links == [source : Ids, target : Ids, type : LinkTypes]
NotEditing == [id |-> None, status |-> "none", described |-> FALSE]
NoEnds == [source |-> None, target |-> None]
Request == [what |-> "none", id |-> None, link |-> NoLink, status |-> "none", described |-> FALSE,
            count |-> 0]

Init ==
    /\ rows = [i \in {} |-> 0] /\ links = {} /\ checked = NoLink /\ seen = rows /\ shown = {}
    /\ unlinked = {}
    /\ tab = "list" /\ names = 0 /\ editing = NotEditing /\ deleting = None /\ ends = NoEnds
    /\ waiting = {} /\ clicks = 0 /\ faults = 0

Click == clicks < MaxClicks /\ clicks' = clicks + 1
Fault == faults < MaxFaults /\ faults' = faults + 1

-----------------------------------------------------------------------------
(* The page. *)

ShowTab(t) ==
    /\ tab # t /\ tab' = t
    /\ UNCHANGED <<rows, links, checked, seen, shown, unlinked, dialogs, waiting, clicks, faults>>

(* The name field: so many names, one a line. *)
TypeNames(n) ==
    /\ Click /\ tab = "list" /\ names # n /\ names' = n
    /\ UNCHANGED <<rows, links, checked, seen, shown, unlinked, tab, editing, deleting, ends, waiting, faults>>

Ask(request) ==
    /\ \A r \in waiting : r.what # request.what
    /\ waiting' = waiting \cup {request}
    /\ UNCHANGED <<rows, links, checked, seen, shown, unlinked, tab, dialogs, faults>>

(* One name is one request and several are another. *)
Add ==
    /\ tab = "list" /\ names # 0 /\ UNCHANGED clicks
    /\ Ask([Request EXCEPT !.what = "add", !.count = names])

(* A row's pen and bin open the dialogs. *)
OpenEdit(i) ==
    /\ Click /\ tab = "list" /\ i \in DOMAIN seen /\ editing = NotEditing /\ deleting = None
    /\ editing' = [id |-> i, status |-> seen[i].status, described |-> seen[i].described]
    /\ UNCHANGED <<rows, links, checked, seen, shown, unlinked, tab, names, deleting, ends, waiting, faults>>

EditField(status, described) ==
    /\ Click /\ editing.id # None
    /\ editing' = [editing EXCEPT !.status = status, !.described = described] /\ editing' # editing
    /\ UNCHANGED <<rows, links, checked, seen, shown, unlinked, tab, names, deleting, ends, waiting, faults>>

SaveEdit ==
    /\ editing.id # None /\ UNCHANGED clicks
    /\ Ask([Request EXCEPT !.what = "update", !.id = editing.id, !.status = editing.status,
                           !.described = editing.described])

OpenDelete(i) ==
    /\ Click /\ tab = "list" /\ i \in DOMAIN seen /\ editing = NotEditing /\ deleting = None
    /\ deleting' = i
    /\ UNCHANGED <<rows, links, checked, seen, shown, unlinked, tab, names, editing, ends, waiting, faults>>

DeleteConfirm ==
    /\ deleting # None /\ UNCHANGED clicks
    /\ Ask([Request EXCEPT !.what = "delete", !.id = deleting])

CancelDialog ==
    /\ editing # NotEditing \/ deleting # None
    /\ editing' = NotEditing /\ deleting' = None
    /\ UNCHANGED <<rows, links, checked, seen, shown, unlinked, tab, names, ends, waiting, clicks, faults>>

(* The ends of a relationship.  The list of targets leaves the source out.   *)
ChooseSource(i) ==
    /\ Click /\ tab = "relationships" /\ i \in DOMAIN seen /\ ends' = [ends EXCEPT !.source = i] /\ ends' # ends
    /\ UNCHANGED <<rows, links, checked, seen, shown, unlinked, tab, names, editing, deleting, waiting, faults>>

ChooseTarget(i) ==
    /\ Click /\ tab = "relationships" /\ i \in DOMAIN seen \ {ends.source}
    /\ ends' = [ends EXCEPT !.target = i] /\ ends' # ends
    /\ UNCHANGED <<rows, links, checked, seen, shown, unlinked, tab, names, editing, deleting, waiting, faults>>

CreateLink(type) ==
    /\ tab = "relationships" /\ ends.source # None /\ ends.target # None /\ ends.source # ends.target
    /\ UNCHANGED clicks
    /\ Ask([Request EXCEPT !.what = "link", !.link = [source |-> ends.source, target |-> ends.target, type |-> type]])

(* Slip kept for the checks: a relationship is listed whatever its ends are. *)
ListedBare(l) == l \in shown

(* A relationship is listed with the names of its ends, or not at all. *)
Listed(l) == l \in shown /\ {l.source, l.target} \subseteq DOMAIN seen

DeleteLink(l) ==
    /\ tab = "relationships" /\ Listed(l) /\ Click
    /\ Ask([Request EXCEPT !.what = "unlink", !.link = l])

Refetch ==
    /\ seen # rows \/ shown # links
    /\ \/ seen' = rows /\ UNCHANGED shown
       \/ shown' = links /\ UNCHANGED seen
    /\ UNCHANGED <<rows, links, checked, unlinked, tab, dialogs, waiting, clicks, faults>>

-----------------------------------------------------------------------------
(* The server, and what the page does with its answer. *)

(* The answer comes before the commit: the fetch that follows it reads what   *)
(* was there before, or after.                                                *)
Answered(r, fetched, fetchedLinks) ==
    /\ r \in waiting /\ waiting' = waiting \ {r} /\ seen' \in fetched /\ shown' \in fetchedLinks
    /\ UNCHANGED <<checked, tab, clicks, faults>>

Fresh == Ids \ (DOMAIN rows \cup DOMAIN seen \cup {ends.source, ends.target, editing.id, deleting}
                \cup {r.id : r \in waiting} \cup {l.source : l \in shown} \cup {l.target : l \in shown})

(* One name is one asset; a list of them is written by one transaction. *)
CreatesAssets(r) ==
    /\ r.what = "add" /\ Cardinality(Fresh) >= r.count
    /\ LET ids == CHOOSE S \in SUBSET Fresh : Cardinality(S) = r.count IN
       rows' = [i \in DOMAIN rows \cup ids |->
                  IF i \in ids THEN [status |-> Suspected, described |-> TRUE] ELSE rows[i]]
    /\ UNCHANGED <<links, unlinked>>

(* A field that is sent as null is not written. *)
UpdatesAsset(r) ==
    /\ r.what = "update" /\ r.id \in DOMAIN rows
    /\ rows' = [rows EXCEPT ![r.id] = [status |-> r.status, described |-> r.described \/ rows[r.id].described]]
    /\ UNCHANGED <<links, unlinked>>

Without(ls, i) == {l \in ls : l.source # i /\ l.target # i}

DeletesAsset(r) ==
    /\ r.what = "delete" /\ r.id \in DOMAIN rows
    /\ rows' = [i \in DOMAIN rows \ {r.id} |-> rows[i]] /\ links' = Without(links, r.id)
    /\ UNCHANGED unlinked

(* Both ends exist and the relationship does not: the first by its keys, the *)
(* second by a look that is made again, by a constraint, when it is written. *)
MayLink(l) == {l.source, l.target} \subseteq DOMAIN rows /\ l \notin links

CreatesLink(r) ==
    /\ r.what = "link" /\ MayLink(r.link)
    /\ links' = links \cup {r.link} /\ unlinked' = unlinked \ {r.link}
    /\ UNCHANGED rows

DeletesLink(r) ==
    /\ r.what = "unlink" /\ r.link \in links
    /\ links' = links \ {r.link} /\ unlinked' = unlinked \cup {r.link}
    /\ UNCHANGED rows

CreateAssets(r) ==
    /\ CreatesAssets(r) /\ Answered(r, {rows, rows'}, {shown})
    /\ names' = 0 /\ UNCHANGED <<editing, deleting, ends>>

UpdateAsset(r) ==
    /\ UpdatesAsset(r) /\ Answered(r, {rows, rows'}, {shown})
    /\ editing' = NotEditing /\ UNCHANGED <<names, deleting, ends>>

DeleteAsset(r) ==
    /\ DeletesAsset(r) /\ Answered(r, {rows, rows'}, {shown})
    /\ deleting' = None /\ UNCHANGED <<names, editing, ends>>

CreateAssetLink(r) ==
    /\ CreatesLink(r) /\ Answered(r, {seen}, {links, links'})
    /\ ends' = NoEnds /\ UNCHANGED <<names, editing, deleting>>

DeleteAssetLink(r) ==
    /\ DeletesLink(r) /\ Answered(r, {seen}, {links, links'})
    /\ UNCHANGED dialogs

(* What was asked is done, and the page is not told: it fetches nothing.     *)
AnswerLost(r) ==
    /\ r \in waiting /\ waiting' = waiting \ {r} /\ Fault
    /\ CreatesAssets(r) \/ UpdatesAsset(r) \/ DeletesAsset(r) \/ CreatesLink(r) \/ DeletesLink(r)
    /\ UNCHANGED <<checked, seen, shown, tab, dialogs, clicks>>

(* Refused, or failed: the dialog and the fields stay. *)
RequestFails(r) ==
    /\ r \in waiting /\ waiting' = waiting \ {r}
    /\ \/ r.what \in {"update", "delete"} /\ r.id \notin DOMAIN rows /\ UNCHANGED faults
       \/ r.what = "link" /\ ~MayLink(r.link) /\ UNCHANGED faults
       \/ r.what = "unlink" /\ r.link \notin links /\ UNCHANGED faults
       \/ Fault
    /\ UNCHANGED <<rows, links, checked, seen, shown, unlinked, tab, dialogs, clicks>>

(* Another analyst deletes an asset, *)
DeletedElsewhere(i) ==
    /\ Fault /\ i \in DOMAIN rows
    /\ rows' = [j \in DOMAIN rows \ {i} |-> rows[j]] /\ links' = Without(links, i)
    /\ UNCHANGED <<checked, seen, shown, unlinked, tab, dialogs, waiting, clicks>>

(* removes a relationship, *)
UnlinkedElsewhere(l) ==
    /\ Fault /\ l \in links /\ links' = links \ {l} /\ unlinked' = unlinked \cup {l}
    /\ UNCHANGED <<rows, checked, seen, shown, tab, dialogs, waiting, clicks>>

(* or relates two assets: the look for the same relationship and the write   *)
(* of it are two steps.                                                      *)
LookElsewhere(l) ==
    /\ Fault /\ checked = NoLink /\ l.source # l.target /\ l \notin links /\ checked' = l
    /\ {l.source, l.target} \subseteq DOMAIN rows
    /\ UNCHANGED <<rows, links, seen, shown, unlinked, tab, dialogs, waiting, clicks>>

(* Slip kept for the checks: the write trusts the look. *)
LinkElsewhereBlind ==
    /\ checked # NoLink /\ checked' = NoLink /\ links' = links \cup {checked}
    /\ unlinked' = unlinked \ {checked}
    /\ UNCHANGED <<rows, seen, shown, tab, dialogs, waiting, clicks, faults>>

LinkElsewhere ==
    /\ checked # NoLink /\ checked' = NoLink
    /\ IF MayLink(checked)
       THEN links' = links \cup {checked} /\ unlinked' = unlinked \ {checked}
       ELSE UNCHANGED <<links, unlinked>>
    /\ UNCHANGED <<rows, seen, shown, tab, dialogs, waiting, clicks, faults>>

Next ==
    \/ \E t \in {"list", "relationships"} : ShowTab(t)
    \/ \E n \in 0..2 : TypeNames(n)
    \/ Add
    \/ \E i \in Ids : OpenEdit(i)
    \/ \E s \in Statuses : \E d \in BOOLEAN : EditField(s, d)
    \/ SaveEdit
    \/ \E i \in Ids : OpenDelete(i)
    \/ DeleteConfirm
    \/ CancelDialog
    \/ \E i \in Ids : ChooseSource(i)
    \/ \E i \in Ids : ChooseTarget(i)
    \/ \E t \in LinkTypes : CreateLink(t)
    \/ \E l \in shown : DeleteLink(l)
    \/ Refetch
    \/ \E r \in waiting : CreateAssets(r)
    \/ \E r \in waiting : UpdateAsset(r)
    \/ \E r \in waiting : DeleteAsset(r)
    \/ \E r \in waiting : CreateAssetLink(r)
    \/ \E r \in waiting : DeleteAssetLink(r)
    \/ \E r \in waiting : RequestFails(r)
    \/ \E r \in waiting : AnswerLost(r)
    \/ \E i \in Ids : DeletedElsewhere(i)
    \/ \E l \in links : UnlinkedElsewhere(l)
    \/ \E l \in Links : LookElsewhere(l)
    \/ LinkElsewhere

Spec == Init /\ [][Next]_vars

-----------------------------------------------------------------------------
(* Properties. *)

TypeOK ==
    /\ DOMAIN rows \subseteq Ids /\ DOMAIN seen \subseteq Ids /\ links \subseteq Links /\ shown \subseteq Links
    /\ \A i \in DOMAIN rows : rows[i].status \in Statuses /\ rows[i].described \in BOOLEAN
    /\ tab \in {"list", "relationships"} /\ names \in 0..2
    /\ editing.id \in Ids \cup {None} /\ deleting \in Ids \cup {None}

(* Relationships join two assets of the incident, whatever is deleted while *)
(* they are asked for.  And deleting an asset fetches the assets again and   *)
(* not the relationships that went with it: still, as long as the page shows *)
(* no asset that is gone, a relationship it lists is there, or somebody      *)
(* removed that relationship itself.                                         *)
RelationshipsJoinAssets ==
    /\ \A l \in links : l.source # l.target /\ {l.source, l.target} \subseteq DOMAIN rows
    /\ DOMAIN seen \subseteq DOMAIN rows => \A l \in shown : Listed(l) => l \in links \cup unlinked

=============================================================================
