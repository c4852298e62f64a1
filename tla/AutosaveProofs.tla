----------------------------- MODULE AutosaveProofs -----------------------------
(***************************************************************************)
(* Theorems of Autosave, for any number of tabs, edits, reads, failures and *)
(* remounts: type correctness, what "Saved" means, that an unsaved draft is *)
(* on its way, and that a foreign edit under unsaved edits is announced.    *)
(*                                                                          *)
(* Inductive relates the generation counter to the requests in flight: a    *)
(* request of the current generation carries the draft, and there is none   *)
(* while the debounce is pending.                                           *)
(***************************************************************************)
EXTENDS Autosave, TLAPS

\* A request never has a generation its tab has not reached.
PutsAreOld == \A p \in puts : p.gen <= gen[p.tab]

\* The request of the current generation carries the draft, and the debounce
\* that sent it is over.
CurrentPutIsDraft ==
    \A p \in puts : Current(p) => p.text = draft[p.tab] /\ ~timer[p.tab]

\* What the server answered it has stored.
AppliedIsStored == \A p \in puts : p.phase = "applied" => p.text \in applied

\* 'dirty' means that the debounce is pending, 'saving' that the request of the
\* current generation is in flight.
EditingIsServed ==
    \A t \in Tabs :
        /\ state[t] = "dirty" => timer[t]
        /\ state[t] = "saving" => \E p \in puts : p.tab = t /\ Current(p)

\* Without unsaved edits the editor shows the cache.
ShownIsCache == \A t \in Tabs : state[t] \notin Editing => text[t] = cache[t]

Inductive == /\ TypeOK
             /\ PutsAreOld
             /\ CurrentPutIsDraft
             /\ AppliedIsStored
             /\ EditingIsServed
             /\ SavedMeansStored
             /\ ShownIsCache
             /\ RemoteChangeIsAnnounced

USE DEF Current

\* The effects write Booleans and texts.
LEMMA RenderType ==
    ASSUME TypeOK, cache' \in [Tabs -> Texts], state' \in [Tabs -> States],
           NEW t \in Tabs, NEW shown \in Texts, Render(t, shown)
    PROVE  text' \in [Tabs -> Texts] /\ banner' \in [Tabs -> BOOLEAN]
PROOF
<1>1. text' \in [Tabs -> Texts]
    BY DEF Render, Sync, TypeOK
<1>2. banner' \in [Tabs -> BOOLEAN]
    BY DEF Render, Notice, TypeOK
<1> QED BY <1>1, <1>2

LEMMA InitTypeOK == Init => TypeOK
PROOF BY ConstantsAssumption DEF Init, TypeOK, States, Texts, Put, Read

\* No keystroke, timer or answer leaves the types.
LEMMA StepTypeOK == TypeOK /\ [Next]_vars => TypeOK'
PROOF
<1> SUFFICES ASSUME TypeOK, [Next]_vars PROVE TypeOK'
    OBVIOUS
<1> USE ConstantsAssumption DEF serverVars, editVars, States, Spend
<1>1. ASSUME NEW t \in Tabs, Type(t) PROVE TypeOK'
    <2>1. PICK edit : edit = <<t, spent.edits + 1>>
        OBVIOUS
    <2>2. edit \in Edits
        BY <1>1, <2>1 DEF Type, TypeOK, Edits
    <2>3. text[t] \cup {edit} \in Texts
        BY <2>2 DEF TypeOK, Texts
    <2>4. text' \in [Tabs -> Texts] /\ banner' \in [Tabs -> BOOLEAN]
        BY <1>1, <2>1, <2>3, RenderType DEF Type, TypeOK
    <2>5. draft' \in [Tabs -> Texts]
        BY <1>1, <2>1, <2>3 DEF Type, TypeOK
    <2> QED BY <1>1, <2>4, <2>5 DEF Type, TypeOK
<1>2. ASSUME NEW t \in Tabs, Leave(t) PROVE TypeOK'
    <2>1. text' \in [Tabs -> Texts] /\ banner' \in [Tabs -> BOOLEAN]
        BY <1>2, RenderType DEF Leave, TypeOK
    <2>2. draft' \in [Tabs -> Texts]
        BY <1>2 DEF Leave, TypeOK, Texts
    <2> QED BY <1>2, <2>1, <2>2 DEF Leave, TypeOK
<1>3. ASSUME NEW t \in Tabs, Return(t) PROVE TypeOK'
    <2>1. text' \in [Tabs -> Texts] /\ banner' \in [Tabs -> BOOLEAN]
        BY <1>3, RenderType DEF Return, TypeOK
    <2> QED BY <1>3, <2>1 DEF Return, TypeOK
<1>4. ASSUME NEW t \in Tabs, Refetch(t) PROVE TypeOK'
    BY <1>4 DEF Refetch, TypeOK, Read
<1>5. ASSUME NEW t \in Tabs, Fire(t) PROVE TypeOK'
    <2>1. text' \in [Tabs -> Texts] /\ banner' \in [Tabs -> BOOLEAN]
        BY <1>5, RenderType DEF Fire, TypeOK
    <2>2. puts' \subseteq Put
        BY <1>5 DEF Fire, TypeOK, Put
    <2> QED BY <1>5, <2>1, <2>2 DEF Fire, TypeOK
<1>6. ASSUME NEW t \in Tabs, IdleTimer(t) PROVE TypeOK'
    <2>1. text' \in [Tabs -> Texts] /\ banner' \in [Tabs -> BOOLEAN]
        BY <1>6, RenderType DEF IdleTimer, TypeOK
    <2>2. idleTimers' \in [Tabs -> Nat]
        BY <1>6 DEF IdleTimer, TypeOK
    <2>3. \A u \in Tabs : state'[u] = "away" => ~timer'[u] /\ idleTimers'[u] = 0
        BY <1>6 DEF IdleTimer, TypeOK
    <2>4. state' \in [Tabs -> States]
        BY <1>6 DEF IdleTimer, TypeOK
    <2>5. UNCHANGED <<stored, applied, draft, gen, cache, timer, puts, reads, spent>>
        BY <1>6 DEF IdleTimer
    <2> QED BY <2>1, <2>2, <2>3, <2>4, <2>5 DEF TypeOK
<1>7. ASSUME NEW p \in puts, Apply(p) PROVE TypeOK'
    <2>1. p \in Put /\ [p EXCEPT !.phase = "applied"] \in Put
        BY DEF TypeOK, Put
    <2> QED BY <1>7, <2>1 DEF Apply, TypeOK, To, Put
<1>8. ASSUME NEW p \in puts, ReceivePut(p) PROVE TypeOK'
    <2>1. p \in Put
        BY DEF TypeOK
    <2>2. cache' \in [Tabs -> Texts] /\ state' \in [Tabs -> States] /\ puts' \subseteq Put
        BY <1>8, <2>1 DEF ReceivePut, CacheAnswer, TypeOK, Put
    <2>3. text' \in [Tabs -> Texts] /\ banner' \in [Tabs -> BOOLEAN]
        BY <1>8, <2>1, <2>2, RenderType DEF ReceivePut, TypeOK, Put
    <2> QED BY <1>8, <2>1, <2>2, <2>3 DEF ReceivePut, TypeOK, Put
<1>9. ASSUME NEW p \in puts, ReceiveFailure(p) PROVE TypeOK'
    <2>1. p \in Put
        BY DEF TypeOK
    <2>2. text' \in [Tabs -> Texts] /\ banner' \in [Tabs -> BOOLEAN]
        BY <1>9, <2>1, RenderType DEF ReceiveFailure, TypeOK, Put
    <2> QED BY <1>9, <2>1, <2>2 DEF ReceiveFailure, TypeOK, Put
<1>10. ASSUME NEW r \in reads, ReceiveRead(r) PROVE TypeOK'
    <2>1. r \in Read
        BY DEF TypeOK
    <2>2. cache' \in [Tabs -> Texts]
        BY <1>10, <2>1 DEF ReceiveRead, TypeOK, Read
    <2>3. text' \in [Tabs -> Texts] /\ banner' \in [Tabs -> BOOLEAN]
        BY <1>10, <2>1, <2>2, RenderType DEF ReceiveRead, TypeOK, Read
    <2> QED BY <1>10, <2>1, <2>2, <2>3 DEF ReceiveRead, TypeOK, Read
<1>11. ASSUME NEW p \in puts, Fail(p) PROVE TypeOK'
    <2>1. p \in Put /\ [p EXCEPT !.phase = "failed"] \in Put
        BY DEF TypeOK, Put
    <2> QED BY <1>11, <2>1 DEF Fail, TypeOK, To
<1>12. CASE UNCHANGED vars
    BY <1>12 DEF vars, TypeOK
<1> QED
    BY <1>1, <1>2, <1>3, <1>4, <1>5, <1>6, <1>7, <1>8, <1>9, <1>10, <1>11, <1>12
    DEF Next, User, Timers, Answers, Failures

\* Type correctness.
THEOREM TypeCorrect == Spec => []TypeOK
PROOF
<1>1. Init => TypeOK
    BY InitTypeOK
<1>2. TypeOK /\ [Next]_vars => TypeOK'
    BY StepTypeOK
<1> QED BY <1>1, <1>2, PTL DEF Spec

LEMMA InitInductive == Init => Inductive
PROOF
<1> SUFFICES ASSUME Init PROVE Inductive
    OBVIOUS
<1>1. PutsAreOld /\ CurrentPutIsDraft /\ AppliedIsStored
    BY DEF Init, PutsAreOld, CurrentPutIsDraft, AppliedIsStored
<1>2. EditingIsServed /\ SavedMeansStored /\ ShownIsCache /\ RemoteChangeIsAnnounced
    BY DEF Init, EditingIsServed, SavedMeansStored, ShownIsCache, RemoteChangeIsAnnounced, Editing
<1> QED BY <1>1, <1>2, InitTypeOK DEF Inductive

\* Requests in flight: none is ahead of its tab, the current one carries the draft,
\* an answered one is stored.
LEMMA StepRequests ==
    Inductive /\ [Next]_vars => PutsAreOld' /\ CurrentPutIsDraft' /\ AppliedIsStored'
PROOF
<1> DEFINE Goal == PutsAreOld /\ CurrentPutIsDraft /\ AppliedIsStored
<1> SUFFICES ASSUME TypeOK, PutsAreOld, CurrentPutIsDraft, AppliedIsStored, [Next]_vars
             PROVE  Goal'
    BY DEF Inductive
<1> USE DEF serverVars, editVars, PutsAreOld, CurrentPutIsDraft, AppliedIsStored
<1>0. \A q \in puts : q \in Put /\ q.tab \in Tabs /\ q.gen \in Nat /\ gen[q.tab] \in Nat
    BY DEF TypeOK, Put
<1>1. ASSUME NEW t \in Tabs, Type(t) PROVE Goal'
    BY <1>1, <1>0 DEF Type, TypeOK
<1>2. ASSUME NEW t \in Tabs, Leave(t) PROVE Goal'
    BY <1>2, <1>0 DEF Leave, TypeOK
<1>3. ASSUME NEW t \in Tabs, Return(t) PROVE Goal'
    BY <1>3, <1>0 DEF Return
<1>4. ASSUME NEW t \in Tabs, Refetch(t) PROVE Goal'
    BY <1>4, <1>0 DEF Refetch
<1>5. ASSUME NEW t \in Tabs, Fire(t) PROVE Goal'
    <2>1. PICK n : n = [tab |-> t, gen |-> gen[t], text |-> draft[t], phase |-> "sent"]
        OBVIOUS
    <2>2. n.tab = t /\ n.gen = gen[t] /\ n.text = draft[t] /\ n.phase = "sent"
        BY <2>1
    <2>3. /\ puts' = puts \cup {n} /\ UNCHANGED <<gen, draft, applied>>
          /\ timer' = [timer EXCEPT ![t] = FALSE]
        BY <1>5, <2>1 DEF Fire
    <2> QED BY <1>0, <2>2, <2>3 DEF TypeOK
<1>6. ASSUME NEW t \in Tabs, IdleTimer(t) PROVE Goal'
    BY <1>6, <1>0 DEF IdleTimer
<1>7. ASSUME NEW p \in puts, Apply(p) PROVE Goal'
    <2>1. PICK n : n = [p EXCEPT !.phase = "applied"]
        OBVIOUS
    <2>2. n.tab = p.tab /\ n.gen = p.gen /\ n.text = p.text /\ n.phase = "applied"
        BY <1>0, <2>1 DEF Put
    <2>3. puts' = (puts \ {p}) \cup {n} /\ UNCHANGED <<gen, draft, timer>>
        BY <1>7, <2>1 DEF Apply, To
    <2>4. applied \subseteq applied' /\ (n.phase = "applied" => n.text \in applied')
        BY <1>7, <2>2 DEF Apply
    <2> QED BY <2>2, <2>3, <2>4
<1>8. ASSUME NEW p \in puts, ReceivePut(p) PROVE Goal'
    BY <1>8, <1>0 DEF ReceivePut
<1>9. ASSUME NEW p \in puts, ReceiveFailure(p) PROVE Goal'
    BY <1>9, <1>0 DEF ReceiveFailure
<1>10. ASSUME NEW r \in reads, ReceiveRead(r) PROVE Goal'
    BY <1>10, <1>0 DEF ReceiveRead
<1>11. ASSUME NEW p \in puts, Fail(p) PROVE Goal'
    <2>1. PICK n : n = [p EXCEPT !.phase = "failed"]
        OBVIOUS
    <2>2. n.tab = p.tab /\ n.gen = p.gen /\ n.text = p.text /\ n.phase = "failed"
        BY <1>0, <2>1 DEF Put
    <2>3. puts' = (puts \ {p}) \cup {n} /\ UNCHANGED <<gen, draft, timer>>
        BY <1>11, <2>1 DEF Fail, To
    <2>4. applied \subseteq applied' /\ (n.phase = "applied" => n.text \in applied')
        BY <1>11, <2>2 DEF Fail
    <2> QED BY <2>2, <2>3, <2>4
<1>12. CASE UNCHANGED vars
    BY <1>12 DEF vars
<1> QED
    BY <1>1, <1>2, <1>3, <1>4, <1>5, <1>6, <1>7, <1>8, <1>9, <1>10, <1>11, <1>12
    DEF Next, User, Timers, Answers, Failures

\* While there are unsaved edits the debounce is pending or the request is on its
\* way.
LEMMA StepServed == Inductive /\ [Next]_vars => EditingIsServed'
PROOF
<1> SUFFICES ASSUME TypeOK, EditingIsServed, CurrentPutIsDraft, [Next]_vars
             PROVE  EditingIsServed'
    BY DEF Inductive
<1> USE DEF serverVars, editVars, EditingIsServed
<1>0. \A q \in puts : q \in Put /\ q.tab \in Tabs
    BY DEF TypeOK, Put
<1>1. ASSUME NEW t \in Tabs, Type(t) PROVE EditingIsServed'
    BY <1>1 DEF Type, TypeOK
<1>2. ASSUME NEW t \in Tabs, Leave(t) PROVE EditingIsServed'
    BY <1>2 DEF Leave, TypeOK
<1>3. ASSUME NEW t \in Tabs, Return(t) PROVE EditingIsServed'
    BY <1>3 DEF Return, TypeOK
<1>4. ASSUME NEW t \in Tabs, Refetch(t) PROVE EditingIsServed'
    BY <1>4 DEF Refetch
<1>5. ASSUME NEW t \in Tabs, Fire(t) PROVE EditingIsServed'
    <2>1. PICK n : n = [tab |-> t, gen |-> gen[t], text |-> draft[t], phase |-> "sent"]
        OBVIOUS
    <2>2. n.tab = t /\ n.gen = gen[t]
        BY <2>1
    <2>3. /\ puts' = puts \cup {n} /\ gen' = gen
          /\ timer' = [timer EXCEPT ![t] = FALSE]
          /\ state' = [state EXCEPT ![t] = "saving"]
        BY <1>5, <2>1 DEF Fire
    <2> QED BY <2>2, <2>3 DEF TypeOK
<1>6. ASSUME NEW t \in Tabs, IdleTimer(t) PROVE EditingIsServed'
    BY <1>6 DEF IdleTimer, TypeOK
<1>7. ASSUME NEW p \in puts, Apply(p) PROVE EditingIsServed'
    <2>1. PICK n : n = [p EXCEPT !.phase = "applied"]
        OBVIOUS
    <2>2. n.tab = p.tab /\ n.gen = p.gen
        BY <1>0, <2>1 DEF Put
    <2>3. puts' = (puts \ {p}) \cup {n} /\ UNCHANGED <<state, gen, timer>>
        BY <1>7, <2>1 DEF Apply, To
    <2> QED BY <2>2, <2>3
<1>8. ASSUME NEW p \in puts, ReceivePut(p) PROVE EditingIsServed'
    <2>1. SUFFICES ASSUME NEW u \in Tabs
                   PROVE  /\ state'[u] = "dirty" => timer'[u]
                          /\ state'[u] = "saving" => \E q \in puts' : q.tab = u /\ gen'[u] = q.gen
        BY <1>8 DEF ReceivePut
    <2>2. /\ puts' = puts \ {p} /\ UNCHANGED <<gen, timer>>
          /\ \A v \in Tabs : v # p.tab => state'[v] = state[v]
          /\ ~Current(p) => state' = state
          /\ Current(p) => state'[p.tab] \in {"saved", "error"}
        BY <1>8, <1>0 DEF ReceivePut, TypeOK
    <2>3. CASE u = p.tab /\ Current(p)
        BY <2>2, <2>3
    <2>4. CASE u # p.tab \/ ~Current(p)
        <3>1. state'[u] = state[u]
            BY <2>2, <2>4
        <3>2. \A q \in puts : q.tab = u /\ gen[u] = q.gen => q \in puts'
            BY <2>2, <2>4
        <3> QED BY <2>2, <3>1, <3>2
    <2> QED BY <2>3, <2>4
<1>9. ASSUME NEW p \in puts, ReceiveFailure(p) PROVE EditingIsServed'
    <2>1. SUFFICES ASSUME NEW u \in Tabs
                   PROVE  /\ state'[u] = "dirty" => timer'[u]
                          /\ state'[u] = "saving" => \E q \in puts' : q.tab = u /\ gen'[u] = q.gen
        BY <1>9 DEF ReceiveFailure
    <2>2. /\ puts' = puts \ {p} /\ UNCHANGED <<gen, timer>>
          /\ \A v \in Tabs : v # p.tab => state'[v] = state[v]
          /\ ~Current(p) => state' = state
          /\ Current(p) => state'[p.tab] \in {"saved", "error"}
        BY <1>9, <1>0 DEF ReceiveFailure, TypeOK
    <2>3. CASE u = p.tab /\ Current(p)
        BY <2>2, <2>3
    <2>4. CASE u # p.tab \/ ~Current(p)
        <3>1. state'[u] = state[u]
            BY <2>2, <2>4
        <3>2. \A q \in puts : q.tab = u /\ gen[u] = q.gen => q \in puts'
            BY <2>2, <2>4
        <3> QED BY <2>2, <3>1, <3>2
    <2> QED BY <2>3, <2>4
<1>10. ASSUME NEW r \in reads, ReceiveRead(r) PROVE EditingIsServed'
    BY <1>10 DEF ReceiveRead
<1>11. ASSUME NEW p \in puts, Fail(p) PROVE EditingIsServed'
    <2>1. PICK n : n = [p EXCEPT !.phase = "failed"]
        OBVIOUS
    <2>2. n.tab = p.tab /\ n.gen = p.gen
        BY <1>0, <2>1 DEF Put
    <2>3. puts' = (puts \ {p}) \cup {n} /\ UNCHANGED <<state, gen, timer>>
        BY <1>11, <2>1 DEF Fail, To
    <2> QED BY <2>2, <2>3
<1>12. CASE UNCHANGED vars
    BY <1>12 DEF vars
<1> QED
    BY <1>1, <1>2, <1>3, <1>4, <1>5, <1>6, <1>7, <1>8, <1>9, <1>10, <1>11, <1>12
    DEF Next, User, Timers, Answers, Failures

\* Nothing but the answer to the newest save says "Saved".
LEMMA StepSaved == Inductive /\ [Next]_vars => SavedMeansStored'
PROOF
<1> SUFFICES ASSUME TypeOK, SavedMeansStored, CurrentPutIsDraft, AppliedIsStored, [Next]_vars
             PROVE  SavedMeansStored'
    BY DEF Inductive
<1> USE DEF serverVars, editVars, SavedMeansStored, TypeOK
<1>0. \A q \in puts : q.tab \in Tabs
    BY DEF TypeOK, Put
<1>1. ASSUME NEW t \in Tabs, Type(t) PROVE SavedMeansStored'
    BY <1>1 DEF Type
<1>2. ASSUME NEW t \in Tabs, Leave(t) PROVE SavedMeansStored'
    BY <1>2 DEF Leave
<1>3. ASSUME NEW t \in Tabs, Return(t) PROVE SavedMeansStored'
    BY <1>3 DEF Return
<1>4. ASSUME NEW t \in Tabs, Refetch(t) PROVE SavedMeansStored'
    BY <1>4 DEF Refetch
<1>5. ASSUME NEW t \in Tabs, Fire(t) PROVE SavedMeansStored'
    BY <1>5 DEF Fire
<1>6. ASSUME NEW t \in Tabs, IdleTimer(t) PROVE SavedMeansStored'
    BY <1>6 DEF IdleTimer
<1>7. ASSUME NEW p \in puts, Apply(p) PROVE SavedMeansStored'
    BY <1>7 DEF Apply
<1>8. ASSUME NEW p \in puts, ReceivePut(p) PROVE SavedMeansStored'
    <2>1. UNCHANGED <<draft, applied>>
        BY <1>8 DEF ReceivePut
    <2>2. Current(p) => draft[p.tab] \in applied
        BY <1>8 DEF ReceivePut, CurrentPutIsDraft, AppliedIsStored
    <2>3. \A u \in Tabs : state'[u] = "saved" => state[u] = "saved" \/ (u = p.tab /\ Current(p))
        BY <1>8, <1>0 DEF ReceivePut
    <2> QED BY <2>1, <2>2, <2>3
<1>9. ASSUME NEW p \in puts, ReceiveFailure(p) PROVE SavedMeansStored'
    BY <1>9, <1>0 DEF ReceiveFailure
<1>10. ASSUME NEW r \in reads, ReceiveRead(r) PROVE SavedMeansStored'
    BY <1>10 DEF ReceiveRead
<1>11. ASSUME NEW p \in puts, Fail(p) PROVE SavedMeansStored'
    BY <1>11 DEF Fail
<1>12. CASE UNCHANGED vars
    BY <1>12 DEF vars
<1> QED
    BY <1>1, <1>2, <1>3, <1>4, <1>5, <1>6, <1>7, <1>8, <1>9, <1>10, <1>11, <1>12
    DEF Next, User, Timers, Answers, Failures

\* One render: a clean editor shows the cache, and a text that lacks a foreign edit
\* of the cache has the banner.
LEMMA RenderAnnounces ==
    ASSUME TypeOK, TypeOK', NEW t \in Tabs, NEW shown \in Texts, Render(t, shown),
           ShownIsCache, RemoteChangeIsAnnounced,
           \A u \in Tabs : u # t => state'[u] = state[u] /\ cache'[u] = cache[u],
           text[t] \subseteq shown
    PROVE  ShownIsCache' /\ RemoteChangeIsAnnounced'
PROOF
<1>1. /\ text'[t] = IF state'[t] \in Editing THEN shown ELSE cache'[t]
      /\ \A u \in Tabs : u # t => text'[u] = text[u]
    BY DEF Render, Sync, TypeOK
<1>2. /\ banner'[t] = (/\ state'[t] \in Editing
                       /\ banner[t] \/ (cache'[t] # cache[t] /\ text'[t] # cache'[t]))
      /\ \A u \in Tabs : u # t => banner'[u] = banner[u]
    BY DEF Render, Notice, TypeOK
<1>3. ShownIsCache'
    BY <1>1 DEF ShownIsCache
<1>4. ASSUME state'[t] \in Editing, ~banner'[t]
      PROVE  ForeignEdits(t, cache'[t]) \subseteq text'[t]
    <2>1. CASE cache'[t] # cache[t]
        BY <1>2, <1>4, <2>1 DEF ForeignEdits
    <2>2. CASE cache'[t] = cache[t]
        <3>1. CASE state[t] \in Editing
            BY <1>1, <1>2, <1>4, <2>2, <3>1 DEF RemoteChangeIsAnnounced, ForeignEdits
        <3>2. CASE state[t] \notin Editing
            BY <1>1, <1>4, <2>2, <3>2 DEF ShownIsCache, ForeignEdits
        <3> QED BY <3>1, <3>2
    <2> QED BY <2>1, <2>2
<1>5. RemoteChangeIsAnnounced'
    BY <1>1, <1>2, <1>4 DEF RemoteChangeIsAnnounced, ForeignEdits
<1> QED BY <1>3, <1>5

LEMMA StepAnnounced == Inductive /\ [Next]_vars => ShownIsCache' /\ RemoteChangeIsAnnounced'
PROOF
<1> SUFFICES ASSUME TypeOK, TypeOK', ShownIsCache, RemoteChangeIsAnnounced, [Next]_vars
             PROVE  ShownIsCache' /\ RemoteChangeIsAnnounced'
    BY StepTypeOK DEF Inductive
<1>0. /\ \A q \in puts : q.tab \in Tabs
      /\ \A r \in reads : r.tab \in Tabs
      /\ \A u \in Tabs : text[u] \in Texts
    BY DEF TypeOK, Put, Read
<1>1. ASSUME NEW t \in Tabs, Type(t) PROVE ShownIsCache' /\ RemoteChangeIsAnnounced'
    <2>0. PICK shown : shown = text[t] \cup {<<t, spent.edits + 1>>}
        OBVIOUS
    <2>1. shown \in Texts /\ Render(t, shown)
        BY <1>1, <1>0, <2>0 DEF Type, TypeOK, Texts, Edits
    <2>2. \A u \in Tabs : u # t => state'[u] = state[u] /\ cache'[u] = cache[u]
        BY <1>1 DEF Type, TypeOK
    <2>3. text[t] \subseteq shown
        BY <2>0
    <2> QED BY <2>1, <2>2, <2>3, RenderAnnounces
<1>2. ASSUME NEW t \in Tabs, Leave(t) PROVE ShownIsCache' /\ RemoteChangeIsAnnounced'
    <2>1. Render(t, text[t])
        BY <1>2 DEF Leave
    <2>2. \A u \in Tabs : u # t => state'[u] = state[u] /\ cache'[u] = cache[u]
        BY <1>2, <1>0 DEF Leave, CacheAnswer, TypeOK
    <2> QED BY <1>0, <2>1, <2>2, RenderAnnounces
<1>3. ASSUME NEW t \in Tabs, Return(t) PROVE ShownIsCache' /\ RemoteChangeIsAnnounced'
    <2>1. Render(t, text[t])
        BY <1>3 DEF Return
    <2>2. \A u \in Tabs : u # t => state'[u] = state[u] /\ cache'[u] = cache[u]
        BY <1>3, <1>0 DEF Return, CacheAnswer, TypeOK
    <2> QED BY <1>0, <2>1, <2>2, RenderAnnounces
<1>4. ASSUME NEW t \in Tabs, Refetch(t) PROVE ShownIsCache' /\ RemoteChangeIsAnnounced'
    BY <1>4 DEF Refetch, serverVars, editVars, ShownIsCache, RemoteChangeIsAnnounced
<1>5. ASSUME NEW t \in Tabs, Fire(t) PROVE ShownIsCache' /\ RemoteChangeIsAnnounced'
    <2>1. Render(t, text[t])
        BY <1>5 DEF Fire
    <2>2. \A u \in Tabs : u # t => state'[u] = state[u] /\ cache'[u] = cache[u]
        BY <1>5, <1>0 DEF Fire, CacheAnswer, TypeOK
    <2> QED BY <1>0, <2>1, <2>2, RenderAnnounces
<1>6. ASSUME NEW t \in Tabs, IdleTimer(t) PROVE ShownIsCache' /\ RemoteChangeIsAnnounced'
    <2>1. Render(t, text[t])
        BY <1>6 DEF IdleTimer
    <2>2. \A u \in Tabs : u # t => state'[u] = state[u] /\ cache'[u] = cache[u]
        BY <1>6, <1>0 DEF IdleTimer, CacheAnswer, TypeOK
    <2> QED BY <1>0, <2>1, <2>2, RenderAnnounces
<1>7. ASSUME NEW p \in puts, Apply(p) PROVE ShownIsCache' /\ RemoteChangeIsAnnounced'
    BY <1>7 DEF Apply, serverVars, editVars, ShownIsCache, RemoteChangeIsAnnounced
<1>8. ASSUME NEW p \in puts, ReceivePut(p) PROVE ShownIsCache' /\ RemoteChangeIsAnnounced'
    <2>1. Render(p.tab, text[p.tab])
        BY <1>8 DEF ReceivePut
    <2>2. \A u \in Tabs : u # p.tab => state'[u] = state[u] /\ cache'[u] = cache[u]
        BY <1>8, <1>0 DEF ReceivePut, CacheAnswer, TypeOK
    <2> QED BY <1>0, <2>1, <2>2, RenderAnnounces
<1>9. ASSUME NEW p \in puts, ReceiveFailure(p) PROVE ShownIsCache' /\ RemoteChangeIsAnnounced'
    <2>1. Render(p.tab, text[p.tab])
        BY <1>9 DEF ReceiveFailure
    <2>2. \A u \in Tabs : u # p.tab => state'[u] = state[u] /\ cache'[u] = cache[u]
        BY <1>9, <1>0 DEF ReceiveFailure, CacheAnswer, TypeOK
    <2> QED BY <1>0, <2>1, <2>2, RenderAnnounces
<1>10. ASSUME NEW r \in reads, ReceiveRead(r) PROVE ShownIsCache' /\ RemoteChangeIsAnnounced'
    <2>1. Render(r.tab, text[r.tab])
        BY <1>10 DEF ReceiveRead
    <2>2. \A u \in Tabs : u # r.tab => state'[u] = state[u] /\ cache'[u] = cache[u]
        BY <1>10, <1>0 DEF ReceiveRead, CacheAnswer, TypeOK
    <2> QED BY <1>0, <2>1, <2>2, RenderAnnounces
<1>11. ASSUME NEW p \in puts, Fail(p) PROVE ShownIsCache' /\ RemoteChangeIsAnnounced'
    BY <1>11 DEF Fail, serverVars, editVars, ShownIsCache, RemoteChangeIsAnnounced
<1>12. CASE UNCHANGED vars
    BY <1>12 DEF vars, ShownIsCache, RemoteChangeIsAnnounced
<1> QED
    BY <1>1, <1>2, <1>3, <1>4, <1>5, <1>6, <1>7, <1>8, <1>9, <1>10, <1>11, <1>12
    DEF Next, User, Timers, Answers, Failures

LEMMA StepInductive == Inductive /\ [Next]_vars => Inductive'
PROOF
<1> SUFFICES ASSUME Inductive, [Next]_vars PROVE Inductive'
    OBVIOUS
<1> QED BY StepTypeOK, StepRequests, StepServed, StepSaved, StepAnnounced DEF Inductive

\* The invariant that ties generations, drafts and requests together.
THEOREM InductiveHolds == Spec => []Inductive
PROOF
<1> QED BY InitInductive, StepInductive, PTL DEF Spec

\* "Saved" is only said of a text that reached the database.
THEOREM SavedIsStored == Spec => []SavedMeansStored
PROOF
<1>1. Inductive => SavedMeansStored
    BY DEF Inductive
<1> QED BY <1>1, InductiveHolds, PTL

\* No interleaving of keystrokes, saves and failures leaves unsaved edits behind
\* without a debounce or a request for them.
THEOREM UnsavedDraftIsOnItsWay == Spec => []DraftIsOnItsWay
PROOF
<1>1. Inductive => DraftIsOnItsWay
    <2> SUFFICES ASSUME Inductive, NEW t \in Tabs, state[t] \in Editing
                 PROVE  \/ timer[t]
                        \/ \E p \in puts : p.tab = t /\ p.gen = gen[t] /\ p.text = draft[t]
        BY DEF DraftIsOnItsWay
    <2>1. CASE state[t] = "dirty"
        BY <2>1 DEF Inductive, EditingIsServed
    <2>2. CASE state[t] = "saving"
        <3>1. PICK p \in puts : p.tab = t /\ Current(p)
            BY <2>2 DEF Inductive, EditingIsServed
        <3> QED BY <3>1 DEF Inductive, CurrentPutIsDraft
    <2> QED BY <2>1, <2>2 DEF Editing
<1> QED BY <1>1, InductiveHolds, PTL

\* A foreign edit the tab has received is in the text or announced.
THEOREM ForeignEditsAreAnnounced == Spec => []RemoteChangeIsAnnounced
PROOF
<1>1. Inductive => RemoteChangeIsAnnounced
    BY DEF Inductive
<1> QED BY <1>1, InductiveHolds, PTL

=============================================================================
