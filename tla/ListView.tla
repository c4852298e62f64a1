------------------------------- MODULE ListView -------------------------------
(***************************************************************************)
(* What the incidents list promises to its user, apart from URLs, timers   *)
(* and caches: there is one view at a time (page, page size, filter,       *)
(* search, order); a narrowing or reordering of it starts again on page 1, *)
(* turning pages changes nothing else, and every other change leads back   *)
(* to a view that was on screen before, or away to the default view.       *)
(***************************************************************************)
EXTENDS Integers

CONSTANTS Views,        \* records with the fields below
          DefaultView

VARIABLES view,         \* the view on screen, or the one "back" returns to
          trail         \* views the browser's history and the session remember

vars == <<view, trail>>

Aspects == {"perPage", "status", "search", "sorting"}

Init == view \in Views /\ trail = {view}

(* One aspect of the view is changed; the page is the first again. *)
Narrow ==
    /\ view' \in Views
    /\ \E aspect \in Aspects : view' = [view EXCEPT ![aspect] = view'[aspect], !.page = 1]

Turn == view' \in Views /\ view' = [view EXCEPT !.page = view'.page]

(* An earlier view, on an earlier page of it if it has fewer pages by now. *)
Revisit == \E v \in trail \cup {DefaultView} :
               view'.page <= v.page /\ view' = [v EXCEPT !.page = view'.page]

Next == (Narrow \/ Turn \/ Revisit) /\ trail' \subseteq trail \cup {view, view', DefaultView}

Spec == Init /\ [][Next]_vars

=============================================================================
