--------------------------------- MODULE Team ---------------------------------
(***************************************************************************)
(* Accounts, roles and invitations: the team part of the organisation page *)
(* in the tab of one administrator, the requests of others, the invitation *)
(* page in the tabs of those who follow a link, and the endpoints between  *)
(* them, which read and check first and write later, so that two overlap.  *)
(***************************************************************************)
EXTENDS Naturals, FiniteSets

CONSTANTS Admins,       \* accounts that start as administrators
          Me,           \* the one of them whose tab is modelled
          Analysts,     \* other accounts that exist from the start
          Newcomers,    \* addresses that can be invited
          Invites,      \* identities of invitations
          Guests,       \* tabs with an invitation link
          MaxClicks, MaxRequests, MaxFaults

VARIABLES
    users,      \* account -> role, whether active, whether MFA is set up
    invites,    \* invitation -> address, role, whether accepted or expired
    shown,      \* the accounts the tab fetched last
    page,       \* the row being edited, the role chosen, the dialog
    jobs,       \* requests that are not answered
    guest,      \* guest tab -> the invitation of its link and what it shows
    clicks, requests, faults

vars == <<users, invites, shown, page, jobs, guest, clicks, requests, faults>>

Roles == {"analyst", "admin"}
Nobody == "nobody"
Accounts == Admins \cup Analysts \cup Newcomers
Kinds == {"role", "deactivate", "resetMfa", "invite", "revoke"}
Jobs == [by : Admins, kind : Kinds, on : Accounts \cup Invites, role : Roles,
         read : BOOLEAN, admins : SUBSET Accounts]
Pages == [editing : Accounts \cup {Nobody}, role : Roles,
          dialog : {"none", "deactivate", "resetMfa", "invite"}, on : Accounts \cup {Nobody}]

ActiveAdmins == {u \in DOMAIN users : users[u].active /\ users[u].role = "admin"}
Pending(i) == i \in DOMAIN invites /\ ~invites[i].accepted /\ ~invites[i].expired
Put(f, k, v) == [x \in DOMAIN f \cup {k} |-> IF x = k THEN v ELSE f[x]]

-----------------------------------------------------------------------------
(* The tab of an administrator. *)

Closed == [editing |-> Nobody, role |-> "analyst", dialog |-> "none", on |-> Nobody]

Init ==
    /\ users = [u \in Admins \cup Analysts |->
                  [role |-> IF u \in Admins THEN "admin" ELSE "analyst",
                   active |-> TRUE, mfa |-> TRUE]]
    /\ invites = << >>
    /\ shown = users /\ page = Closed
    /\ jobs = {} /\ guest = [g \in Guests |-> [link |-> Nobody, at |-> "closed"]]
    /\ clicks = 0 /\ requests = 0 /\ faults = 0

Clicks == clicks < MaxClicks /\ clicks' = clicks + 1

(* The table of members: what the row of account u offers.                  *)
Offers(u, what) ==
    /\ u \in DOMAIN shown
    /\ CASE what = "role" -> page.editing # u
         [] what = "resetMfa" -> shown[u].mfa
         [] what = "deactivate" -> u # Me /\ shown[u].active

EditRole(u) ==
    /\ Clicks /\ Offers(u, "role")
    /\ page' = [page EXCEPT !.editing = u, !.role = shown[u].role]
    /\ UNCHANGED <<users, invites, shown, jobs, guest, requests, faults>>

PickRole(r) ==
    /\ Clicks /\ page.editing # Nobody /\ r # page.role
    /\ page' = [page EXCEPT !.role = r]
    /\ UNCHANGED <<users, invites, shown, jobs, guest, requests, faults>>

CancelEdit ==
    /\ page.editing # Nobody /\ page' = [page EXCEPT !.editing = Nobody]
    /\ UNCHANGED <<users, invites, shown, jobs, guest, clicks, requests, faults>>

OpenDialog(d, u) ==
    /\ Clicks /\ page.dialog = "none"
    /\ IF d = "invite" THEN u = Nobody ELSE u \in Accounts /\ Offers(u, d)
    /\ page' = [page EXCEPT !.dialog = d, !.on = u]
    /\ UNCHANGED <<users, invites, shown, jobs, guest, requests, faults>>

CloseDialog ==
    /\ page.dialog # "none" /\ page' = [page EXCEPT !.dialog = "none", !.on = Nobody]
    /\ UNCHANGED <<users, invites, shown, jobs, guest, clicks, requests, faults>>

Waiting(kind) == \E j \in jobs : j.by = Me /\ j.kind = kind

Send(a, kind, on, role) ==
    /\ requests < MaxRequests /\ requests' = requests + 1
    /\ jobs' = jobs \cup {[by |-> a, kind |-> kind, on |-> on, role |-> role,
                           read |-> FALSE, admins |-> {}]}
    /\ UNCHANGED <<users, invites, shown, page, guest, clicks, faults>>

(* The buttons that send: Save in a row, and those of the dialogs.          *)
RoleSave ==
    page.editing # Nobody /\ ~Waiting("role") /\ Send(Me, "role", page.editing, page.role)

(* Only this button stays enabled while its request is on the way. *)
Deactivate == page.dialog = "deactivate" /\ Send(Me, "deactivate", page.on, "analyst")

ResetMFA ==
    page.dialog = "resetMfa" /\ ~Waiting("resetMfa") /\ Send(Me, "resetMfa", page.on, "analyst")

SendInvite(e, r) == page.dialog = "invite" /\ ~Waiting("invite") /\ Send(Me, "invite", e, r)

(* The list of pending invitations: each can be sent again or revoked.      *)
Resend(i) == Pending(i) /\ Send(Me, "invite", invites[i].email, invites[i].role)
Revoke(i) == Pending(i) /\ Send(Me, "revoke", i, "analyst")

(* Another administrator does one of these things in a tab of their own.    *)
Elsewhere(a, kind, u, r) ==
    a # Me /\ (kind = "deactivate" => u # a) /\ Send(a, kind, u, r)

(* The list of active accounts is fetched (again). *)
Fetch ==
    /\ shown' = [u \in {v \in DOMAIN users : users[v].active} |-> users[u]] /\ shown' # shown
    /\ UNCHANGED <<users, invites, page, jobs, guest, clicks, requests, faults>>

-----------------------------------------------------------------------------
(* The endpoints. *)

Removes(j) == j.kind = "deactivate" \/ j.role # "admin"

(* Slip kept for the checks: the count allows for no administrator left. *)
AllowedOffByOne(j) ==
    /\ j.by \in ActiveAdmins
    /\ CASE j.kind \in {"role", "deactivate"} ->
              /\ j.on \in DOMAIN users /\ (j.kind = "deactivate" => j.on # j.by)
              /\ users[j.on].role = "admin" /\ Removes(j) => Cardinality(ActiveAdmins) > 0
         [] j.kind = "resetMfa" -> j.on \in DOMAIN users
         [] j.kind = "invite" -> TRUE
         [] j.kind = "revoke" -> j.on \in DOMAIN invites

(* What the endpoint checks on the rows it read.  It counts only when the   *)
(* row is an administrator's who would be one no longer.                    *)
Allowed(j) ==
    /\ j.by \in ActiveAdmins
    /\ CASE j.kind \in {"role", "deactivate"} ->
              /\ j.on \in DOMAIN users /\ (j.kind = "deactivate" => j.on # j.by)
              /\ users[j.on].role = "admin" /\ Removes(j) => Cardinality(ActiveAdmins) > 1
         [] j.kind = "resetMfa" -> j.on \in DOMAIN users
         [] j.kind = "invite" -> TRUE
         [] j.kind = "revoke" -> j.on \in DOMAIN invites

(* The request keeps, for the properties, who was an administrator then.    *)
Read(j) ==
    /\ ~j.read /\ Allowed(j)
    /\ jobs' = (jobs \ {j}) \cup {[j EXCEPT !.read = TRUE, !.admins = ActiveAdmins]}
    /\ UNCHANGED <<users, invites, shown, page, guest, clicks, requests, faults>>

WriteRole(j) == users' = [users EXCEPT ![j.on].role = j.role] /\ UNCHANGED invites
WriteDeactivate(j) == users' = [users EXCEPT ![j.on].active = FALSE] /\ UNCHANGED invites
WriteResetMFA(j) == users' = [users EXCEPT ![j.on].mfa = FALSE] /\ UNCHANGED invites
WriteInvite(j) ==
    \E i \in Invites \ DOMAIN invites :
       /\ invites' = Put(invites, i, [email |-> j.on, role |-> j.role,
                                      accepted |-> FALSE, expired |-> FALSE])
       /\ UNCHANGED users
WriteRevoke(j) ==
    /\ j.on \in DOMAIN invites
    /\ invites' = [i \in DOMAIN invites \ {j.on} |-> invites[i]] /\ UNCHANGED users

(* On success the editor or the dialog that sent the request is closed,     *)
(* whichever row it shows by then.                                          *)
Succeeded(j) ==
    page' = IF j.by # Me THEN page
            ELSE IF j.kind = "role" THEN [page EXCEPT !.editing = Nobody]
            ELSE IF j.kind = page.dialog THEN [page EXCEPT !.dialog = "none", !.on = Nobody]
            ELSE page

Write(j) ==
    /\ j.read
    /\ CASE j.kind = "role" -> WriteRole(j)
         [] j.kind = "deactivate" -> WriteDeactivate(j)
         [] j.kind = "resetMfa" -> WriteResetMFA(j)
         [] j.kind = "invite" -> WriteInvite(j)
         [] j.kind = "revoke" -> WriteRevoke(j)
    /\ Succeeded(j) /\ jobs' = jobs \ {j}
    /\ UNCHANGED <<shown, guest, clicks, requests, faults>>

(* The request is refused, or fails before its commit: nothing is closed.   *)
Fail(j) ==
    /\ IF j.read \/ Allowed(j) THEN faults < MaxFaults /\ faults' = faults + 1
                               ELSE UNCHANGED faults
    /\ jobs' = jobs \ {j}
    /\ UNCHANGED <<users, invites, shown, page, guest, clicks, requests>>

-----------------------------------------------------------------------------
(* The page an invitation link leads to, and its endpoints. *)

Goes(g, at) == guest' = [guest EXCEPT ![g].at = at]

OpenLink(g, i) ==
    /\ i \in DOMAIN invites /\ guest[g].at = "closed"
    /\ guest' = [guest EXCEPT ![g] = [link |-> i, at |-> "loading"]]
    /\ UNCHANGED <<users, invites, shown, page, jobs, clicks, requests, faults>>

(* The form is shown for a pending invitation, else a dead end. *)
Validate(g) ==
    /\ guest[g].at = "loading"
    /\ Goes(g, IF Pending(guest[g].link) THEN "form" ELSE "invalid")
    /\ UNCHANGED <<users, invites, shown, page, jobs, clicks, requests, faults>>

(* handleAccept's request: the invitation and the address are checked.      *)
Accept(g) ==
    /\ guest[g].at = "form" /\ Pending(guest[g].link)
    /\ invites[guest[g].link].email \notin DOMAIN users
    /\ Goes(g, "joining")
    /\ UNCHANGED <<users, invites, shown, page, jobs, clicks, requests, faults>>

Join(g) ==
    LET i == guest[g].link IN
    /\ users' = Put(users, invites[i].email,
                    [role |-> invites[i].role, active |-> TRUE, mfa |-> FALSE])
    /\ invites' = [invites EXCEPT ![i].accepted = TRUE]
    /\ Goes(g, "joined")

(* Slip kept for the checks: the account is written whatever became of the  *)
(* invitation.                                                              *)
CommitBlind(g) ==
    /\ guest[g].at = "joining"
    /\ LET i == guest[g].link IN
       IF i \in DOMAIN invites THEN Join(g)
       ELSE /\ \E e \in Newcomers : users' = Put(users, e, [role |-> "analyst", active |-> TRUE, mfa |-> FALSE])
            /\ Goes(g, "joined") /\ UNCHANGED invites
    /\ UNCHANGED <<shown, page, jobs, clicks, requests, faults>>

(* The commit: an address has one account (unique index), and an invitation *)
(* deleted meanwhile fails the update that marks it accepted.               *)
Commit(g) ==
    /\ guest[g].at = "joining"
    /\ LET i == guest[g].link IN
       IF i \in DOMAIN invites /\ invites[i].email \notin DOMAIN users THEN Join(g)
       ELSE Goes(g, "form") /\ UNCHANGED <<users, invites>>
    /\ UNCHANGED <<shown, page, jobs, clicks, requests, faults>>

Expire(i) ==
    /\ Pending(i) /\ faults < MaxFaults /\ faults' = faults + 1
    /\ invites' = [invites EXCEPT ![i].expired = TRUE]
    /\ UNCHANGED <<users, shown, page, jobs, guest, clicks, requests>>

Next ==
    \/ \E u \in Accounts : EditRole(u)
    \/ \E r \in Roles : PickRole(r)
    \/ CancelEdit
    \/ \E d \in {"deactivate", "resetMfa", "invite"} :
          \E u \in Accounts \cup {Nobody} : OpenDialog(d, u)
    \/ CloseDialog
    \/ RoleSave
    \/ Deactivate
    \/ ResetMFA
    \/ \E e \in Newcomers : \E r \in Roles : SendInvite(e, r)
    \/ \E i \in Invites : Resend(i)
    \/ \E i \in Invites : Revoke(i)
    \/ \E a \in Admins : \E kind \in {"role", "deactivate"} :
          \E u \in Accounts : \E r \in Roles : Elsewhere(a, kind, u, r)
    \/ Fetch
    \/ \E j \in jobs : Read(j)
    \/ \E j \in jobs : Write(j)
    \/ \E j \in jobs : Fail(j)
    \/ \E g \in Guests : \E i \in Invites : OpenLink(g, i)
    \/ \E g \in Guests : Validate(g)
    \/ \E g \in Guests : Accept(g)
    \/ \E g \in Guests : Commit(g)
    \/ \E i \in Invites : Expire(i)

Spec == Init /\ [][Next]_vars

-----------------------------------------------------------------------------
(* Properties. *)

TypeOK ==
    /\ DOMAIN users \subseteq Accounts /\ DOMAIN invites \subseteq Invites
    /\ \A u \in DOMAIN users : users[u] \in [role : Roles, active : BOOLEAN, mfa : BOOLEAN]
    /\ \A i \in DOMAIN invites :
          invites[i] \in [email : Newcomers, role : Roles, accepted : BOOLEAN, expired : BOOLEAN]
    /\ DOMAIN shown \subseteq DOMAIN users
    /\ \A u \in DOMAIN shown : shown[u] \in [role : Roles, active : BOOLEAN, mfa : BOOLEAN]
    /\ page \in Pages /\ jobs \subseteq Jobs
    /\ guest \in [Guests -> [link : Invites \cup {Nobody},
          at : {"closed", "loading", "form", "invalid", "joining", "joined"}]]

(* "Cannot remove the last admin", says update_user_role of users.py, and  *)
(* "A permanent local admin account is always retained", the page.          *)
LastAdminStays == ActiveAdmins # {}

(* When the last administrator goes, the request that removes them found    *)
(* another one when it was checked, who left before its commit: counting    *)
(* for the rows of administrators only leaves no way besides this race.     *)
LastAdminGoesOnlyOnAStaleCount ==
    [][ActiveAdmins # {} /\ ActiveAdmins' = {} =>
         \E j \in jobs \ jobs' : j.read /\ ~(j.admins \subseteq ActiveAdmins)]_vars

(* Whoever gets an account was let in by an invitation that nobody revoked  *)
(* or used before, with the role it names, however many tabs, links and     *)
(* requests overlap; and no account is ever replaced.                       *)
AdmitsOnce ==
    /\ \A e \in DOMAIN users' \ DOMAIN users :
          \E i \in DOMAIN invites \cap DOMAIN invites' :
             /\ invites[i].email = e /\ invites[i].role = users'[e].role
             /\ ~invites[i].accepted /\ invites'[i].accepted
    /\ DOMAIN users \subseteq DOMAIN users'
    /\ \A i \in DOMAIN invites : invites[i].accepted =>
          i \notin DOMAIN invites' \/ invites'[i].accepted

(* Every step that changes something admits as AdmitsOnce says: the routes  *)
(* of invites.py and the acceptance in invite_service, in any order.        *)
InvitationAdmitsOnce == [][AdmitsOnce]_vars

=============================================================================
