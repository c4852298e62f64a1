-------------------------------- MODULE Autosave --------------------------------
(***************************************************************************)
(* One rich-text field of the incident summary, edited and saved from       *)
(* several browser tabs: RichTextSection (its debounce and save state),     *)
(* RichTextEditor (the effects that copy the cached incident into the       *)
(* editor and raise the banner), useUpdateIncident and useIncident (the     *)
(* query cache) and update_incident (the server keeps what arrives last).   *)
(*                                                                          *)
(* A text is the set of edits it contains: an edit is a keystroke of a tab, *)
(* and saving a text drops the edits it does not contain.  The normalising  *)
(* of the HTML keeps every edit and is left out.  Tabs belong to different  *)
(* users; timers may fire late, as they do in a browser, never lost.        *)
(***************************************************************************)
EXTENDS Integers, FiniteSets

CONSTANTS
    Tabs,         \* open summary pages of the incident, one per user
    MaxEdits,     \* bound: edits of all tabs
    MaxReads,     \* bound: GETs, and PUTs of other fields, that are answered
    MaxFailures,  \* bound: PUTs that fail
    MaxLeaves     \* bound: times a user leaves the page

ASSUME ConstantsAssumption ==
    {MaxEdits, MaxReads, MaxFailures, MaxLeaves} \subseteq Nat

VARIABLES
    stored,     \* the text in the database
    cache,      \* the text in the query cache of each tab
    text,       \* the text in the editor of each tab
    state,      \* saveState of each tab; "away": the page is not mounted
    draft,      \* the html handleChange was last called with since the page opened
    gen,        \* saveGenRef; a remount counts as a step, it starts a new one
    timer,      \* is the 2.5 s debounce of each tab pending?  It holds the draft
    idleTimers, \* 3 s timers that will call setSaveState('idle')
    puts,       \* PUTs of this field on their way
    reads,      \* answers that carry the incident, on their way to a tab
    banner,     \* hasRemoteChange
    spent,      \* edits, reads, failures and leaves so far
    applied     \* history: the texts the server stored

vars == <<stored, cache, text, state, draft, gen, timer, idleTimers, puts, reads,
          banner, spent, applied>>

serverVars == <<stored, applied>>
editVars   == <<draft, gen>>
-----------------------------------------------------------------------------
(* Values *)

Edits == Tabs \X (1..MaxEdits)
Texts == SUBSET Edits

States  == {"away", "idle", "dirty", "saving", "saved", "error"}
Editing == {"dirty", "saving"}          \* isDirty

Put  == [tab : Tabs, gen : Nat, text : Texts, phase : {"sent", "applied", "failed"}]
Read == [tab : Tabs, text : Texts]

Spend(what) == spent' = [spent EXCEPT ![what] = @ + 1]

\* The save that answers is still the one for the newest text of a mounted page.
Current(p) == gen[p.tab] = p.gen

Init ==
    /\ stored = {}
    /\ cache = [t \in Tabs |-> {}]
    /\ text = [t \in Tabs |-> {}]
    /\ state = [t \in Tabs |-> "idle"]
    /\ draft = [t \in Tabs |-> {}]
    /\ gen = [t \in Tabs |-> 0]
    /\ timer = [t \in Tabs |-> FALSE]
    /\ idleTimers = [t \in Tabs |-> 0]
    /\ puts = {}
    /\ reads = {}
    /\ banner = [t \in Tabs |-> FALSE]
    /\ spent = [edits |-> 0, reads |-> 0, failures |-> 0, leaves |-> 0]
    /\ applied = {{}}
-----------------------------------------------------------------------------
(* The effects of RichTextEditor that follow a change of state or cache      *)

\* The editor shows the cached text unless the user has unsaved edits.
Sync(t, shown) ==
    text' = [text EXCEPT ![t] = IF state'[t] \in Editing THEN shown ELSE cache'[t]]

\* Slip kept for the checks: the banner is taken for a comparison, not a flag.
NoticeLast(t) ==
    banner' = [banner EXCEPT ![t] =
        /\ state'[t] \in Editing
        /\ cache'[t] # cache[t]
        /\ text'[t] # cache'[t]]

\* hasRemoteChange: the cache changed under unsaved edits and differs from them.
Notice(t) ==
    banner' = [banner EXCEPT ![t] =
        /\ state'[t] \in Editing
        /\ @ \/ (cache'[t] # cache[t] /\ text'[t] # cache'[t])]

Render(t, shown) == Sync(t, shown) /\ Notice(t)
-----------------------------------------------------------------------------
(* The user *)

\* handleChange
Type(t) ==
    LET edit == <<t, spent.edits + 1>> IN
    /\ state[t] # "away"
    /\ spent.edits < MaxEdits
    /\ Spend("edits")
    /\ state' = [state EXCEPT ![t] = "dirty"]
    /\ draft' = [draft EXCEPT ![t] = text[t] \cup {edit}]
    /\ gen' = [gen EXCEPT ![t] = @ + 1]
    /\ timer' = [timer EXCEPT ![t] = TRUE]
    /\ UNCHANGED <<serverVars, cache, idleTimers, puts, reads>>
    /\ Render(t, text[t] \cup {edit})

\* Slip kept for the checks: the cleanup forgets the debounce.
LeaveKeepsTimer(t) ==
    /\ state[t] # "away"
    /\ spent.leaves < MaxLeaves
    /\ Spend("leaves")
    /\ state' = [state EXCEPT ![t] = "away"]
    /\ draft' = [draft EXCEPT ![t] = {}]
    /\ gen' = [gen EXCEPT ![t] = @ + 1]
    /\ idleTimers' = [idleTimers EXCEPT ![t] = 0]
    /\ UNCHANGED <<serverVars, cache, timer, puts, reads>>
    /\ Render(t, text[t])

\* The page is unmounted: both timers are cleared, a save that answers later
\* finds nobody to tell.
Leave(t) ==
    /\ state[t] # "away"
    /\ spent.leaves < MaxLeaves
    /\ Spend("leaves")
    /\ state' = [state EXCEPT ![t] = "away"]
    /\ draft' = [draft EXCEPT ![t] = {}]
    /\ gen' = [gen EXCEPT ![t] = @ + 1]
    /\ timer' = [timer EXCEPT ![t] = FALSE]
    /\ idleTimers' = [idleTimers EXCEPT ![t] = 0]
    /\ UNCHANGED <<serverVars, cache, puts, reads>>
    /\ Render(t, text[t])

Return(t) ==
    /\ state[t] = "away"
    /\ state' = [state EXCEPT ![t] = "idle"]
    /\ UNCHANGED <<serverVars, editVars, cache, timer, idleTimers, puts, reads, spent>>
    /\ Render(t, text[t])
-----------------------------------------------------------------------------
(* Timers *)

\* Slip kept for the checks: no save is started while another is in flight.
FireUnlessSaving(t) ==
    /\ timer[t]
    /\ timer' = [timer EXCEPT ![t] = FALSE]
    /\ state' = [state EXCEPT ![t] = "saving"]
    /\ puts' = puts \cup (IF \E p \in puts : p.tab = t THEN {}
                          ELSE {[tab |-> t, gen |-> gen[t], text |-> draft[t], phase |-> "sent"]})
    /\ UNCHANGED <<serverVars, editVars, cache, idleTimers, reads, spent>>
    /\ Render(t, text[t])

\* The debounce: saving, with the draft and the generation of its keystroke.
Fire(t) ==
    /\ timer[t]
    /\ timer' = [timer EXCEPT ![t] = FALSE]
    /\ state' = [state EXCEPT ![t] = "saving"]
    /\ puts' = puts \cup {[tab |-> t, gen |-> gen[t], text |-> draft[t], phase |-> "sent"]}
    /\ UNCHANGED <<serverVars, editVars, cache, idleTimers, reads, spent>>
    /\ Render(t, text[t])

\* setSaveState('idle'), whatever the state is by then: handleChange does not
\* clear savedTimerRef.
IdleTimer(t) ==
    /\ idleTimers[t] > 0
    /\ idleTimers' = [idleTimers EXCEPT ![t] = @ - 1]
    /\ state' = [state EXCEPT ![t] = "idle"]
    /\ UNCHANGED <<serverVars, editVars, cache, timer, puts, reads, spent>>
    /\ Render(t, text[t])
-----------------------------------------------------------------------------
(* Requests *)

To(p, phase) == (puts \ {p}) \cup {[p EXCEPT !.phase = phase]}

\* update_incident: the field gets the text of the request.
Apply(p) ==
    /\ p.phase = "sent"
    /\ stored' = p.text
    /\ applied' = applied \cup {p.text}
    /\ puts' = To(p, "applied")
    /\ UNCHANGED <<editVars, cache, text, state, timer, idleTimers, reads, banner, spent>>

\* The request or its answer is lost, or the server refuses.
Fail(p) ==
    /\ p.phase # "failed"
    /\ spent.failures < MaxFailures
    /\ Spend("failures")
    /\ puts' = To(p, "failed")
    /\ UNCHANGED <<serverVars, editVars, cache, text, state, timer, idleTimers, reads, banner>>

\* useUpdateIncident, onSuccess: the answer becomes the cached incident.
CacheAnswer(p) == cache' = [cache EXCEPT ![p.tab] = p.text]

\* Slip kept for the checks: the answer does not look at the generation.
ReceivePutAnyGeneration(p) ==
    /\ p.phase = "applied"
    /\ puts' = puts \ {p}
    /\ CacheAnswer(p)
    /\ IF state[p.tab] # "away"
       THEN /\ state' = [state EXCEPT ![p.tab] = "saved"]
            /\ idleTimers' = [idleTimers EXCEPT ![p.tab] = @ + 1]
       ELSE UNCHANGED <<state, idleTimers>>
    /\ UNCHANGED <<serverVars, editVars, timer, reads, spent>>
    /\ Render(p.tab, text[p.tab])

\* The save succeeded; the state becomes 'saved' if nothing was typed meanwhile.
ReceivePut(p) ==
    /\ p.phase = "applied"
    /\ puts' = puts \ {p}
    /\ CacheAnswer(p)
    /\ IF Current(p)
       THEN /\ state' = [state EXCEPT ![p.tab] = "saved"]
            /\ idleTimers' = [idleTimers EXCEPT ![p.tab] = @ + 1]
       ELSE UNCHANGED <<state, idleTimers>>
    /\ UNCHANGED <<serverVars, editVars, timer, reads, spent>>
    /\ Render(p.tab, text[p.tab])

ReceiveFailure(p) ==
    /\ p.phase = "failed"
    /\ puts' = puts \ {p}
    /\ state' = IF Current(p) THEN [state EXCEPT ![p.tab] = "error"] ELSE state
    /\ UNCHANGED <<serverVars, editVars, cache, timer, idleTimers, reads, spent>>
    /\ Render(p.tab, text[p.tab])

\* The server answers a GET of the incident (stale query, focus, an AI event) or
\* a PUT of another field.  Nothing makes another tab do so after a save.
Refetch(t) ==
    /\ spent.reads < MaxReads
    /\ Spend("reads")
    /\ reads' = reads \cup {[tab |-> t, text |-> stored]}
    /\ UNCHANGED <<serverVars, editVars, cache, text, state, timer, idleTimers, puts, banner>>

ReceiveRead(r) ==
    /\ reads' = reads \ {r}
    /\ cache' = [cache EXCEPT ![r.tab] = r.text]
    /\ UNCHANGED <<serverVars, editVars, state, timer, idleTimers, puts, spent>>
    /\ Render(r.tab, text[r.tab])
-----------------------------------------------------------------------------
User     == \E t \in Tabs : Type(t) \/ Leave(t) \/ Return(t) \/ Refetch(t)
Timers   == \E t \in Tabs : Fire(t) \/ IdleTimer(t)
Answers  == \/ \E p \in puts : Apply(p) \/ ReceivePut(p) \/ ReceiveFailure(p)
            \/ \E r \in reads : ReceiveRead(r)
Failures == \E p \in puts : Fail(p)

Next == User \/ Timers \/ Answers \/ Failures

Spec == Init /\ [][Next]_vars

\* Timers fire and requests are answered; nobody has to type, leave or return.
FairSpec == Spec /\ WF_vars(Timers) /\ WF_vars(Answers)
-----------------------------------------------------------------------------
(* Properties *)

\* Type correctness; a page that is not mounted has no timer pending
\* (RichTextSection's cleanup effect).
TypeOK ==
    /\ stored \in Texts
    /\ cache \in [Tabs -> Texts]
    /\ text \in [Tabs -> Texts]
    /\ state \in [Tabs -> States]
    /\ draft \in [Tabs -> Texts]
    /\ gen \in [Tabs -> Nat]
    /\ timer \in [Tabs -> BOOLEAN]
    /\ idleTimers \in [Tabs -> Nat]
    /\ puts \subseteq Put
    /\ reads \subseteq Read
    /\ banner \in [Tabs -> BOOLEAN]
    /\ spent \in [edits : 0..MaxEdits, reads : Nat, failures : Nat, leaves : Nat]
    /\ applied \subseteq Texts
    /\ \A t \in Tabs : state[t] = "away" => ~timer[t] /\ idleTimers[t] = 0

\* "Saved" is said only when the text typed last reached the database, even if
\* saves overlap, fail or are answered out of order (saveGenRef).
SavedMeansStored ==
    \A t \in Tabs : state[t] = "saved" => draft[t] \in applied

\* While a page says "Unsaved changes" or "Saving" the text typed last is still
\* on its way: a debounce is pending, or a request of this generation is
\* (handleChange replaces the debounce it clears).
DraftIsOnItsWay ==
    \A t \in Tabs :
        state[t] \in Editing =>
            \/ timer[t]
            \/ \E p \in puts : p.tab = t /\ p.gen = gen[t] /\ p.text = draft[t]

\* An edit of somebody else that reached the tab and is missing in the text the
\* user is editing is announced: the banner stays until the edits are saved.
ForeignEdits(t, s) == {e \in s : e[1] # t}
RemoteChangeIsAnnounced ==
    \A t \in Tabs :
        state[t] \in Editing /\ ~banner[t] => ForeignEdits(t, cache[t]) \subseteq text[t]

\* The text typed last on a page that stays open reaches the database, however
\* saves and other users' saves overlap, unless a request fails.
DraftIsStored ==
    \A t \in Tabs :
        <>[](state[t] = "away" \/ draft[t] \in applied \/ spent.failures > 0)

\* An edit that no save has stored yet stays in the editor while the page is
\* open: what RichTextEditor says of its sync effect.
Unsaved(t) == {e \in text[t] : e[1] = t /\ \A s \in applied : e \notin s}
UnsavedEditsStay ==
    [][\A t \in Tabs :
          "away" \notin {state[t], state'[t]} => Unsaved(t) \subseteq text'[t]]_vars

=============================================================================
