---------------------------- MODULE MCIncidentList ----------------------------
(* A small instance of IncidentList for TLC. *)
EXTENDS IncidentList

MCMatching == [w \in Words |-> IF w = "" THEN Incidents ELSE {1, 3}]

(* The menu, a link to a page that may not exist, one with an order left out. *)
MCLinks == {BareURL, [BareURL EXCEPT !.page = 3, !.search = "w"],
            [BareURL EXCEPT !.sort = "title", !.status = "closed"]}

=============================================================================
