------------------------------- MODULE PagesProofs ------------------------------
(***************************************************************************)
(* What is proved of the pages, for any number of accounts, files, rows,   *)
(* clicks and requests, each page beside all the others.                   *)
(***************************************************************************)
EXTENDS Pages, Sequences, SequenceTheorems, FiniteSetTheorems, TLAPS

UserRows == [role : Roles, active : BOOLEAN, mfa : BOOLEAN]
InviteRows == [email : Newcomers, role : Roles, accepted : BOOLEAN, expired : BOOLEAN]

(* A request names what its kind is about; one that was read found its      *)
(* account, and found an administrator besides the account it takes away.   *)
Asked(j) == j.kind = "invite" => j.on \in Newcomers
Found(j) == j.read /\ j.kind \in {"role", "deactivate", "resetMfa"} => j.on \in DOMAIN users
NotAlone(j) ==
    j.read /\ j.kind \in {"role", "deactivate"} /\ Removes(j)
        => \E u \in j.admins : u # j.on

JobsSound == \A j \in jobs : Asked(j) /\ Found(j) /\ NotAlone(j)
DialogSound == page.dialog \in {"deactivate", "resetMfa"} => page.on \in Accounts
AcceptedHaveAccounts == \A i \in DOMAIN invites : invites[i].accepted => invites[i].email \in DOMAIN users

TeamInductive == TypeOK /\ JobsSound /\ DialogSound /\ AcceptedHaveAccounts

-----------------------------------------------------------------------------
(* The parts of the state, one at a time. *)

UsersOK(u) == DOMAIN u \subseteq Accounts /\ \A a \in DOMAIN u : u[a] \in UserRows
InvitesOK(v) == DOMAIN v \subseteq Invites /\ \A i \in DOMAIN v : v[i] \in InviteRows

LEMMA RolesAndSwitches ==
    ASSUME TeamInductive, NEW a \in DOMAIN users, NEW row \in UserRows,
           users' = [users EXCEPT ![a] = row]
    PROVE  UsersOK(users') /\ DOMAIN users' = DOMAIN users
  BY DEF TeamInductive, TypeOK, UsersOK, UserRows

(* Steps that leave accounts and invitations alone and whose jobs and page  *)
(* are sound by themselves. *)
LEMMA TabSteps ==
    ASSUME TeamInductive, UNCHANGED <<users, invites>>,
           DOMAIN shown' \subseteq DOMAIN users, \A u \in DOMAIN shown' : shown'[u] \in UserRows,
           page' \in Pages, DialogSound',
           jobs' \subseteq Jobs, \A j \in jobs' : Asked(j) /\ Found(j) /\ NotAlone(j),
           guest' \in [Guests -> [link : Invites \cup {Nobody},
               at : {"closed", "loading", "form", "invalid", "joining", "joined"}]]
    PROVE  TeamInductive'
  BY DEF TeamInductive, TypeOK, JobsSound, Asked, Found, NotAlone, Removes, AcceptedHaveAccounts, UserRows

LEMMA InitInductive == ASSUME Me \in Admins PROVE Init => TeamInductive
  <1> SUFFICES ASSUME Init PROVE TeamInductive
    OBVIOUS
  <1>1. UsersOK(users)
    BY DEF Init, UsersOK, UserRows, Accounts, Roles
  <1>2. page \in Pages /\ DialogSound
    BY DEF Init, Closed, Pages, Roles, DialogSound
  <1>3. invites = << >> /\ DOMAIN invites = {}
    BY DEF Init
  <1>4. guest \in [Guests -> [link : Invites \cup {Nobody},
               at : {"closed", "loading", "form", "invalid", "joining", "joined"}]]
    BY DEF Init
  <1> QED
    BY <1>1, <1>2, <1>3, <1>4
       DEF Init, TeamInductive, TypeOK, JobsSound, AcceptedHaveAccounts, UsersOK, UserRows

(* A new request. *)
LEMMA SendInductive ==
    ASSUME TeamInductive, NEW a \in Admins, NEW kind \in Kinds, NEW on \in Accounts \cup Invites,
           NEW role \in Roles, kind = "invite" => on \in Newcomers, Send(a, kind, on, role)
    PROVE  TeamInductive'
  <1> DEFINE new == [by |-> a, kind |-> kind, on |-> on, role |-> role,
                     read |-> FALSE, admins |-> {}]
  <1>1. new \in Jobs /\ Asked(new) /\ Found(new) /\ NotAlone(new)
    BY DEF Jobs, Asked, Found, NotAlone
  <1>2. jobs' = jobs \cup {new} /\ UNCHANGED <<users, invites, shown, page, guest>>
    BY DEF Send
  <1> HIDE DEF new
  <1>3. jobs' \subseteq Jobs /\ \A j \in jobs' : Asked(j) /\ Found(j) /\ NotAlone(j)
    BY <1>1, <1>2 DEF TeamInductive, TypeOK, JobsSound
  <1> QED
    BY <1>2, <1>3, TabSteps DEF TeamInductive, TypeOK, UserRows, DialogSound

(* The administrator's own tab, without its requests. *)
LEMMA PageInductive ==
    ASSUME TeamInductive, page' \in Pages, DialogSound',
           UNCHANGED <<users, invites, shown, jobs, guest>>
    PROVE  TeamInductive'
  BY TabSteps DEF TeamInductive, TypeOK, JobsSound, UserRows

LEMMA TabInductive ==
    ASSUME TeamInductive, Me \in Admins,
           \/ \E u \in Accounts : EditRole(u)
           \/ \E r \in Roles : PickRole(r)
           \/ CancelEdit
           \/ \E d \in {"deactivate", "resetMfa", "invite"} :
                 \E u \in Accounts \cup {Nobody} : OpenDialog(d, u)
           \/ CloseDialog
    PROVE  TeamInductive'
  <1>0. page \in Pages /\ DialogSound /\ \A u \in DOMAIN shown : shown[u].role \in Roles
    BY DEF TeamInductive, TypeOK
  <1>1. ASSUME NEW u \in Accounts, EditRole(u) PROVE TeamInductive'
    <2>1. page' \in Pages /\ DialogSound'
      BY <1>0, <1>1 DEF EditRole, Offers, Pages, DialogSound
    <2> QED
      BY <1>1, <2>1, PageInductive DEF EditRole
  <1>2. ASSUME NEW r \in Roles, PickRole(r) PROVE TeamInductive'
    <2>1. page' \in Pages /\ DialogSound'
      BY <1>0, <1>2 DEF PickRole, Pages, DialogSound
    <2> QED
      BY <1>2, <2>1, PageInductive DEF PickRole
  <1>3. CASE CancelEdit
    <2>1. page' \in Pages /\ DialogSound'
      BY <1>0, <1>3 DEF CancelEdit, Pages, DialogSound
    <2> QED
      BY <1>3, <2>1, PageInductive DEF CancelEdit
  <1>4. ASSUME NEW d \in {"deactivate", "resetMfa", "invite"}, NEW u \in Accounts \cup {Nobody},
               OpenDialog(d, u)
        PROVE  TeamInductive'
    <2>1. page' \in Pages /\ DialogSound'
      BY <1>0, <1>4 DEF OpenDialog, Pages, DialogSound
    <2> QED
      BY <1>4, <2>1, PageInductive DEF OpenDialog
  <1>5. CASE CloseDialog
    <2>1. page' \in Pages /\ DialogSound'
      BY <1>0, <1>5 DEF CloseDialog, Pages, DialogSound
    <2> QED
      BY <1>5, <2>1, PageInductive DEF CloseDialog
  <1> QED
    BY <1>1, <1>2, <1>3, <1>4, <1>5

LEMMA RequestInductive ==
    ASSUME TeamInductive, Me \in Admins,
           \/ RoleSave \/ Deactivate \/ ResetMFA
           \/ \E e \in Newcomers : \E r \in Roles : SendInvite(e, r)
           \/ \E i \in Invites : Resend(i)
           \/ \E i \in Invites : Revoke(i)
           \/ \E a \in Admins : \E kind \in {"role", "deactivate"} :
                 \E u \in Accounts : \E r \in Roles : Elsewhere(a, kind, u, r)
    PROVE  TeamInductive'
  <1>0. /\ page \in Pages /\ DialogSound /\ "analyst" \in Roles
        /\ \A i \in DOMAIN invites : invites[i] \in InviteRows
    BY DEF TeamInductive, TypeOK, Roles, InviteRows
  <1>1. CASE RoleSave
    <2>1. page.editing \in Accounts /\ page.role \in Roles
      BY <1>0, <1>1 DEF RoleSave, Pages
    <2> QED
      BY <1>1, <2>1, SendInductive DEF RoleSave, Kinds
  <1>2. CASE Deactivate
    BY <1>0, <1>2, SendInductive DEF Deactivate, Kinds, DialogSound
  <1>3. CASE ResetMFA
    BY <1>0, <1>3, SendInductive DEF ResetMFA, Kinds, DialogSound
  <1>4. ASSUME NEW e \in Newcomers, NEW r \in Roles, SendInvite(e, r) PROVE TeamInductive'
    BY <1>4, SendInductive DEF SendInvite, Kinds, Accounts
  <1>5. ASSUME NEW i \in Invites, Resend(i) PROVE TeamInductive'
    <2>1. invites[i].email \in Newcomers /\ invites[i].role \in Roles
      BY <1>0, <1>5 DEF Resend, Pending, InviteRows
    <2> QED
      BY <1>5, <2>1, SendInductive DEF Resend, Kinds, Accounts
  <1>6. ASSUME NEW i \in Invites, Revoke(i) PROVE TeamInductive'
    BY <1>0, <1>6, SendInductive DEF Revoke, Kinds
  <1>7. ASSUME NEW a \in Admins, NEW kind \in {"role", "deactivate"}, NEW u \in Accounts,
               NEW r \in Roles, Elsewhere(a, kind, u, r)
        PROVE  TeamInductive'
    BY <1>7, SendInductive DEF Elsewhere, Kinds
  <1> QED
    BY <1>1, <1>2, <1>3, <1>4, <1>5, <1>6, <1>7

(* More than one administrator counted is somebody else. *)
LEMMA SomebodyElse ==
    ASSUME NEW S, NEW x, Cardinality(S) > 1
    PROVE  \E u \in S : u # x
  <1> SUFFICES ASSUME \A u \in S : u = x PROVE FALSE
    OBVIOUS
  <1>1. CASE S = {}
    BY <1>1, FS_EmptySet
  <1>2. CASE S # {}
    <2>1. S = {x}
      BY <1>2
    <2> QED
      BY <2>1, FS_Singleton
  <1> QED
    BY <1>1, <1>2

LEMMA ReadInductive ==
    ASSUME TeamInductive, NEW j \in jobs, Read(j)
    PROVE  TeamInductive'
  <1> DEFINE new == [j EXCEPT !.read = TRUE, !.admins = ActiveAdmins]
  <1>0. j \in Jobs /\ Asked(j)
    BY DEF TeamInductive, TypeOK, JobsSound
  <1>1. ActiveAdmins \subseteq Accounts
    BY DEF ActiveAdmins, TeamInductive, TypeOK
  <1>2. new \in Jobs /\ Asked(new)
    BY <1>0, <1>1 DEF Jobs, Asked
  <1>3. /\ new.kind = j.kind /\ new.on = j.on /\ new.role = j.role /\ new.by = j.by
        /\ new.admins = ActiveAdmins
    BY <1>0 DEF Jobs
  <1>4. Found(new)
    BY <1>3 DEF Read, Allowed, Found
  <1>5. NotAlone(new)
    <2> SUFFICES ASSUME j.kind \in {"role", "deactivate"}, Removes(j)
                 PROVE  \E u \in ActiveAdmins : u # j.on
      BY <1>3 DEF NotAlone, Removes
    <2>1. j.by \in ActiveAdmins
      BY DEF Read, Allowed
    <2>2. CASE users[j.on].role = "admin"
      <3>1. Cardinality(ActiveAdmins) > 1
        BY <2>2 DEF Read, Allowed
      <3> QED
        BY <3>1, SomebodyElse
    <2>3. CASE users[j.on].role # "admin"
      BY <2>1, <2>3 DEF ActiveAdmins
    <2> QED
      BY <2>2, <2>3
  <1>6. /\ jobs' = (jobs \ {j}) \cup {new}
        /\ UNCHANGED <<users, invites, shown, page, guest>>
    BY DEF Read
  <1> HIDE DEF new
  <1>7. jobs' \subseteq Jobs /\ \A k \in jobs' : Asked(k) /\ Found(k) /\ NotAlone(k)
    BY <1>2, <1>4, <1>5, <1>6 DEF TeamInductive, TypeOK, JobsSound
  <1> QED
    BY <1>6, <1>7, TabSteps DEF TeamInductive, TypeOK, UserRows, DialogSound

(* Steps of the database: accounts stay, what is accepted has an account.   *)
LEMMA DatabaseSteps ==
    ASSUME TeamInductive, UsersOK(users'), InvitesOK(invites'), DOMAIN users \subseteq DOMAIN users',
           \A i \in DOMAIN invites' : invites'[i].accepted => invites'[i].email \in DOMAIN users',
           jobs' \subseteq jobs, page' \in Pages, DialogSound', UNCHANGED shown,
           guest' \in [Guests -> [link : Invites \cup {Nobody},
               at : {"closed", "loading", "form", "invalid", "joining", "joined"}]]
    PROVE  TeamInductive'
  <1>1. JobsSound'
    BY DEF TeamInductive, JobsSound, Asked, Found, NotAlone, Removes
  <1> QED
    BY <1>1 DEF TeamInductive, TypeOK, UsersOK, InvitesOK, UserRows, InviteRows, AcceptedHaveAccounts

LEMMA WriteInductive ==
    ASSUME TeamInductive, NEW j \in jobs, Write(j)
    PROVE  TeamInductive'
  <1>0. /\ j \in Jobs /\ Asked(j) /\ Found(j) /\ j.read /\ j.kind \in Kinds /\ j.role \in Roles
        /\ UsersOK(users) /\ InvitesOK(invites) /\ AcceptedHaveAccounts
        /\ page \in Pages /\ DialogSound
    BY DEF TeamInductive, TypeOK, JobsSound, Write, Jobs, UsersOK, InvitesOK, UserRows, InviteRows
  <1>1. page' \in Pages /\ DialogSound'
    BY <1>0 DEF Write, Succeeded, Pages, DialogSound
  <1>2. jobs' \subseteq jobs /\ UNCHANGED <<shown, guest>>
    BY DEF Write
  <1>3. guest' \in [Guests -> [link : Invites \cup {Nobody},
               at : {"closed", "loading", "form", "invalid", "joining", "joined"}]]
    BY <1>2 DEF TeamInductive, TypeOK
  <1>4. ASSUME NEW row \in UserRows, users' = [users EXCEPT ![j.on] = row], UNCHANGED invites,
               j.on \in DOMAIN users
        PROVE  TeamInductive'
    <2>1. UsersOK(users') /\ DOMAIN users' = DOMAIN users
      BY <1>4, RolesAndSwitches
    <2>2. \A i \in DOMAIN invites' : invites'[i].accepted => invites'[i].email \in DOMAIN users'
      BY <1>0, <1>4, <2>1 DEF AcceptedHaveAccounts
    <2> QED
      BY <1>0, <1>1, <1>2, <1>3, <1>4, <2>1, <2>2, DatabaseSteps
  <1>5. CASE j.kind = "role"
    <2>1. j.on \in DOMAIN users /\ users' = [users EXCEPT ![j.on].role = j.role] /\ UNCHANGED invites
      BY <1>0, <1>5 DEF Write, WriteRole, Found
    <2>2. [users[j.on] EXCEPT !.role = j.role] \in UserRows
      BY <1>0, <2>1 DEF UsersOK, UserRows
    <2> QED
      BY <1>4, <2>1, <2>2
  <1>6. CASE j.kind = "deactivate"
    <2>1. j.on \in DOMAIN users /\ users' = [users EXCEPT ![j.on].active = FALSE] /\ UNCHANGED invites
      BY <1>0, <1>6 DEF Write, WriteDeactivate, Found
    <2>2. [users[j.on] EXCEPT !.active = FALSE] \in UserRows
      BY <1>0, <2>1 DEF UsersOK, UserRows
    <2> QED
      BY <1>4, <2>1, <2>2
  <1>7. CASE j.kind = "resetMfa"
    <2>1. j.on \in DOMAIN users /\ users' = [users EXCEPT ![j.on].mfa = FALSE] /\ UNCHANGED invites
      BY <1>0, <1>7 DEF Write, WriteResetMFA, Found
    <2>2. [users[j.on] EXCEPT !.mfa = FALSE] \in UserRows
      BY <1>0, <2>1 DEF UsersOK, UserRows
    <2> QED
      BY <1>4, <2>1, <2>2
  <1>8. CASE j.kind = "invite"
    <2>1. WriteInvite(j)
      BY <1>8 DEF Write
    <2>2. PICK i \in Invites \ DOMAIN invites :
            invites' = Put(invites, i, [email |-> j.on, role |-> j.role,
                                        accepted |-> FALSE, expired |-> FALSE])
      BY <2>1 DEF WriteInvite
    <2>3. UNCHANGED users
      BY <2>1 DEF WriteInvite
    <2>4. [email |-> j.on, role |-> j.role, accepted |-> FALSE, expired |-> FALSE] \in InviteRows
      BY <1>0, <1>8 DEF Asked, InviteRows
    <2>5. /\ InvitesOK(invites')
          /\ \A k \in DOMAIN invites' : invites'[k].accepted => invites'[k].email \in DOMAIN users'
      BY <1>0, <2>2, <2>3, <2>4 DEF Put, InvitesOK, AcceptedHaveAccounts
    <2> QED
      BY <1>0, <1>1, <1>2, <1>3, <2>3, <2>5, DatabaseSteps
  <1>9. CASE j.kind = "revoke"
    <2>1. /\ invites' = [i \in DOMAIN invites \ {j.on} |-> invites[i]]
          /\ UNCHANGED users
      BY <1>9 DEF Write, WriteRevoke
    <2>2. /\ InvitesOK(invites')
          /\ \A k \in DOMAIN invites' : invites'[k].accepted => invites'[k].email \in DOMAIN users'
      BY <1>0, <2>1 DEF InvitesOK, AcceptedHaveAccounts
    <2> QED
      BY <1>0, <1>1, <1>2, <1>3, <2>1, <2>2, DatabaseSteps
  <1> QED
    BY <1>0, <1>5, <1>6, <1>7, <1>8, <1>9 DEF Kinds

LEMMA FailInductive ==
    ASSUME TeamInductive, NEW j \in jobs, Fail(j)
    PROVE  TeamInductive'
  BY TabSteps DEF Fail, TeamInductive, TypeOK, JobsSound, DialogSound, UserRows

-----------------------------------------------------------------------------
(* The page a link leads to. *)

LEMMA GuestInductive ==
    ASSUME TeamInductive, NEW g \in Guests,
           \/ \E i \in Invites : OpenLink(g, i)
           \/ Validate(g)
           \/ Accept(g)
    PROVE  TeamInductive'
  <1>1. /\ UNCHANGED <<users, invites, shown, page, jobs>>
        /\ guest' \in [Guests -> [link : Invites \cup {Nobody},
               at : {"closed", "loading", "form", "invalid", "joining", "joined"}]]
    BY DEF TeamInductive, TypeOK, OpenLink, Validate, Accept, Goes
  <1> QED
    BY <1>1, TabSteps DEF TeamInductive, TypeOK, JobsSound, DialogSound, UserRows

(* What the commit of an acceptance does: nothing, or one account for one   *)
(* invitation that was not accepted before.                                 *)
Admits(i) ==
    /\ i \in DOMAIN invites /\ invites[i].email \notin DOMAIN users
    /\ users' = Put(users, invites[i].email,
                    [role |-> invites[i].role, active |-> TRUE, mfa |-> FALSE])
    /\ invites' = [invites EXCEPT ![i].accepted = TRUE]

LEMMA CommitAdmits ==
    ASSUME NEW g \in Guests, Commit(g)
    PROVE  UNCHANGED <<users, invites>> \/ \E i : Admits(i)
  BY DEF Commit, Join, Admits

LEMMA CommitInductive ==
    ASSUME TeamInductive, NEW g \in Guests, Commit(g)
    PROVE  TeamInductive'
  <1>0. /\ UsersOK(users) /\ InvitesOK(invites) /\ AcceptedHaveAccounts
        /\ page \in Pages /\ DialogSound
    BY DEF TeamInductive, TypeOK, UsersOK, InvitesOK, UserRows, InviteRows
  <1>1. /\ UNCHANGED <<shown, page, jobs>> /\ DialogSound'
        /\ guest' \in [Guests -> [link : Invites \cup {Nobody},
               at : {"closed", "loading", "form", "invalid", "joining", "joined"}]]
    BY <1>0 DEF TeamInductive, TypeOK, Commit, Join, Goes, DialogSound
  <1>2. CASE UNCHANGED <<users, invites>>
    BY <1>0, <1>1, <1>2, DatabaseSteps DEF AcceptedHaveAccounts
  <1>3. ASSUME NEW i, Admits(i) PROVE TeamInductive'
    <2>1. invites[i] \in InviteRows /\ i \in DOMAIN invites
      BY <1>0, <1>3 DEF Admits, InvitesOK
    <2>2. [invites[i] EXCEPT !.accepted = TRUE] \in InviteRows
            /\ [invites[i] EXCEPT !.accepted = TRUE].email = invites[i].email
      BY <2>1 DEF InviteRows
    <2>3. InvitesOK(invites') /\ DOMAIN invites' = DOMAIN invites
      BY <1>0, <1>3, <2>1, <2>2 DEF Admits, InvitesOK
    <2>4. [role |-> invites[i].role, active |-> TRUE, mfa |-> FALSE] \in UserRows
            /\ invites[i].email \in Accounts
      BY <2>1 DEF InviteRows, UserRows, Accounts
    <2>5. UsersOK(users') /\ DOMAIN users' = DOMAIN users \cup {invites[i].email}
      BY <1>0, <1>3, <2>4 DEF Admits, Put, UsersOK
    <2>6. \A k \in DOMAIN invites' : invites'[k].accepted => invites'[k].email \in DOMAIN users'
      BY <1>0, <1>3, <2>1, <2>2, <2>3, <2>5 DEF Admits, AcceptedHaveAccounts
    <2> QED
      BY <1>0, <1>1, <2>3, <2>5, <2>6, DatabaseSteps
  <1> QED
    BY <1>2, <1>3, CommitAdmits

LEMMA FetchInductive ==
    ASSUME TeamInductive, Fetch
    PROVE  TeamInductive'
  <1>1. /\ DOMAIN shown' \subseteq DOMAIN users
        /\ \A u \in DOMAIN shown' : shown'[u] \in UserRows
        /\ UNCHANGED <<users, invites, page, jobs, guest>>
    BY DEF Fetch, TeamInductive, TypeOK, UserRows
  <1> QED
    BY <1>1, TabSteps DEF TeamInductive, TypeOK, JobsSound, DialogSound

LEMMA ExpireInductive ==
    ASSUME TeamInductive, NEW i \in Invites, Expire(i)
    PROVE  TeamInductive'
  <1>0. /\ UsersOK(users) /\ InvitesOK(invites) /\ AcceptedHaveAccounts
        /\ page \in Pages /\ DialogSound
    BY DEF TeamInductive, TypeOK, UsersOK, InvitesOK, UserRows, InviteRows
  <1>1. /\ invites' = [invites EXCEPT ![i].expired = TRUE] /\ i \in DOMAIN invites
        /\ UNCHANGED <<users, shown, page, jobs, guest>>
    BY DEF Expire, Pending
  <1>2. [invites[i] EXCEPT !.expired = TRUE] \in InviteRows
        /\ [invites[i] EXCEPT !.expired = TRUE].email = invites[i].email
        /\ [invites[i] EXCEPT !.expired = TRUE].accepted = invites[i].accepted
    BY <1>0, <1>1 DEF InvitesOK, InviteRows
  <1>3. InvitesOK(invites')
    BY <1>0, <1>1, <1>2 DEF InvitesOK
  <1>4. \A k \in DOMAIN invites' : invites'[k].accepted => invites'[k].email \in DOMAIN users'
    BY <1>0, <1>1, <1>2 DEF AcceptedHaveAccounts
  <1>5. /\ DialogSound' /\ page' \in Pages
        /\ guest' \in [Guests -> [link : Invites \cup {Nobody},
               at : {"closed", "loading", "form", "invalid", "joining", "joined"}]]
    BY <1>0, <1>1 DEF DialogSound, TeamInductive, TypeOK
  <1> QED
    BY <1>0, <1>1, <1>3, <1>4, <1>5, DatabaseSteps

LEMMA StepInductive ==
    ASSUME TeamInductive, Me \in Admins, [Next]_vars
    PROVE  TeamInductive'
  <1>1. ASSUME NEW j \in jobs, Read(j) \/ Write(j) \/ Fail(j) PROVE TeamInductive'
    BY <1>1, ReadInductive, WriteInductive, FailInductive
  <1>2. ASSUME NEW g \in Guests,
               (\E i \in Invites : OpenLink(g, i)) \/ Validate(g) \/ Accept(g) \/ Commit(g)
        PROVE  TeamInductive'
    BY <1>2, GuestInductive, CommitInductive
  <1>3. CASE UNCHANGED vars
    BY <1>3, PageInductive DEF vars, TeamInductive, TypeOK, DialogSound
  <1> QED
    BY <1>1, <1>2, <1>3, TabInductive, RequestInductive, FetchInductive, ExpireInductive DEF Next

LEMMA InductiveHolds == ASSUME Me \in Admins PROVE Spec => []TeamInductive
  <1>1. Init => TeamInductive
    BY InitInductive
  <1>2. TeamInductive /\ [Next]_vars => TeamInductive'
    BY StepInductive
  <1> QED
    BY <1>1, <1>2, PTL DEF Spec

(* Accounts, invitations, requests, the table, the editor and the tabs of    *)
(* guests have their types in every behaviour.                               *)
THEOREM TypeCorrect == ASSUME Me \in Admins PROVE Spec => []TypeOK
  <1>1. TeamInductive => TypeOK
    BY DEF TeamInductive
  <1> QED
    BY <1>1, InductiveHolds, PTL

-----------------------------------------------------------------------------
(* The last administrator. *)

(* Which steps touch the accounts at all. *)
LEMMA AccountsChange ==
    ASSUME [Next]_vars
    PROVE  \/ UNCHANGED users
           \/ \E j \in jobs : Write(j)
           \/ \E g \in Guests : Commit(g)
  BY DEF Next, vars, EditRole, PickRole, CancelEdit, OpenDialog, CloseDialog, RoleSave, Deactivate,
         ResetMFA, SendInvite, Resend, Revoke, Elsewhere, Send, Fetch, Read, Fail, OpenLink,
         Validate, Accept, Expire

(* A commit that leaves an administrator out is about that administrator,   *)
(* and its request removes.                                                 *)
LEMMA OnlyTheirRequest ==
    ASSUME TeamInductive, NEW j \in jobs, Write(j), Found(j), NEW u \in ActiveAdmins, u \notin ActiveAdmins'
    PROVE  u = j.on /\ j.kind \in {"role", "deactivate"} /\ Removes(j)
  <1>1. u \in DOMAIN users /\ users[u].active /\ users[u].role = "admin"
    BY DEF ActiveAdmins
  <1>2. CASE j.kind = "role"
    <2>1. users' = [users EXCEPT ![j.on].role = j.role]
      BY <1>2 DEF Write, WriteRole
    <2>2. users'[u] = IF u = j.on THEN [users[u] EXCEPT !.role = j.role] ELSE users[u]
      BY <1>1, <2>1
    <2>3. u \in DOMAIN users' /\ ~(users'[u].active /\ users'[u].role = "admin")
      BY <1>1, <2>1 DEF ActiveAdmins
    <2>4. u = j.on
      BY <1>1, <2>2, <2>3
    <2>5. users[u] \in UserRows
      BY <1>1 DEF TeamInductive, TypeOK, UserRows
    <2>6. j.role # "admin"
      BY <1>1, <2>2, <2>3, <2>4, <2>5 DEF UserRows
    <2> QED
      BY <1>2, <2>4, <2>6 DEF Removes
  <1>3. CASE j.kind = "deactivate"
    <2>1. users' = [users EXCEPT ![j.on].active = FALSE]
      BY <1>3 DEF Write, WriteDeactivate
    <2> QED
      BY <1>1, <1>3, <2>1 DEF ActiveAdmins, Removes
  <1>4. CASE j.kind = "resetMfa"
    <2>1. users' = [users EXCEPT ![j.on].mfa = FALSE]
      BY <1>4 DEF Write, WriteResetMFA
    <2>2. DOMAIN users' = DOMAIN users
      BY <2>1
    <2>5. users[u] \in UserRows
      BY <1>1 DEF TeamInductive, TypeOK, UserRows
    <2>3. users'[u].active /\ users'[u].role = "admin"
      BY <1>1, <2>1, <2>5 DEF UserRows
    <2> QED
      BY <1>1, <2>2, <2>3 DEF ActiveAdmins
  <1>5. CASE j.kind \notin {"role", "deactivate", "resetMfa"}
    <2>1. j.kind \in {"invite", "revoke"}
      BY <1>5 DEF TeamInductive, TypeOK, Jobs, Kinds
    <2>2. WriteInvite(j) \/ WriteRevoke(j)
      BY <2>1 DEF Write
    <2>3. UNCHANGED users
      BY <2>2 DEF WriteInvite, WriteRevoke
    <2> QED
      BY <1>1, <2>3 DEF ActiveAdmins
  <1> QED
    BY <1>2, <1>3, <1>4, <1>5

LEMMA CommitKeepsAdmins ==
    ASSUME NEW g \in Guests, Commit(g)
    PROVE  ActiveAdmins \subseteq ActiveAdmins'
  <1>1. CASE UNCHANGED users
    BY <1>1 DEF ActiveAdmins
  <1>2. ASSUME NEW i, Admits(i) PROVE ActiveAdmins \subseteq ActiveAdmins'
    BY <1>2 DEF Admits, Put, ActiveAdmins
  <1> QED
    BY <1>1, <1>2, CommitAdmits

(* update_user_role and deactivate_user look before they commit, and count  *)
(* when the row they read is an administrator's: when no active one is left *)
(* all the same, the request that removed the last had found somebody else, *)
(* who was gone by then.                                                    *)
THEOREM LastAdminNeedsAStaleCount ==
    ASSUME Me \in Admins PROVE Spec => LastAdminGoesOnlyOnAStaleCount
  <1>1. ASSUME TeamInductive, [Next]_vars
        PROVE  [ActiveAdmins # {} /\ ActiveAdmins' = {} =>
                  \E j \in jobs \ jobs' : j.read /\ ~(j.admins \subseteq ActiveAdmins)]_vars
    <2> SUFFICES ASSUME ActiveAdmins # {}, ActiveAdmins' = {}
                 PROVE  \E j \in jobs \ jobs' : j.read /\ ~(j.admins \subseteq ActiveAdmins)
      OBVIOUS
    <2>1. ~UNCHANGED users
      BY DEF ActiveAdmins
    <2>2. PICK j \in jobs : Write(j)
      BY <1>1, <2>1, AccountsChange, CommitKeepsAdmins
    <2>3. Found(j) /\ NotAlone(j)
      BY <1>1 DEF TeamInductive, JobsSound
    <2>4. \A u \in ActiveAdmins : u = j.on /\ j.kind \in {"role", "deactivate"} /\ Removes(j)
      BY <1>1, <2>2, <2>3, OnlyTheirRequest
    <2>5. j.read /\ j \notin jobs'
      BY <2>2 DEF Write
    <2>6. PICK u \in j.admins : u # j.on
      BY <2>3, <2>4, <2>5 DEF NotAlone
    <2> QED
      BY <2>4, <2>5, <2>6
  <1> QED
    BY <1>1, InductiveHolds, PTL DEF Spec, LastAdminGoesOnlyOnAStaleCount

-----------------------------------------------------------------------------
(* Invitations. *)

(* Which steps touch the invitations, and that none but a commit accepts.   *)
LEMMA InvitesChange ==
    ASSUME TeamInductive, [Next]_vars
    PROVE  \/ UNCHANGED <<users, invites>>
           \/ \E j \in jobs : Write(j)
           \/ \E g \in Guests : Commit(g)
           \/ \E i \in Invites : Expire(i)
  BY DEF Next, vars, EditRole, PickRole, CancelEdit, OpenDialog, CloseDialog, RoleSave, Deactivate,
         ResetMFA, SendInvite, Resend, Revoke, Elsewhere, Send, Fetch, Read, Fail, OpenLink,
         Validate, Accept

LEMMA WriteAdmitsOnce ==
    ASSUME TeamInductive, NEW j \in jobs, Write(j)
    PROVE  AdmitsOnce
  <1>1. CASE j.kind \in {"role", "deactivate", "resetMfa"}
    <2>1. DOMAIN users' = DOMAIN users /\ UNCHANGED invites
      BY <1>1 DEF Write, WriteRole, WriteDeactivate, WriteResetMFA
    <2> QED
      BY <2>1 DEF AdmitsOnce
  <1>2. CASE j.kind = "invite"
    <2>1. WriteInvite(j)
      BY <1>2 DEF Write
    <2> QED
      BY <2>1 DEF WriteInvite, Put, AdmitsOnce
  <1>3. CASE j.kind = "revoke"
    <2>1. WriteRevoke(j)
      BY <1>3 DEF Write
    <2> QED
      BY <2>1 DEF WriteRevoke, AdmitsOnce
  <1>4. j.kind \in Kinds
    BY DEF TeamInductive, TypeOK, Jobs
  <1> QED
    BY <1>1, <1>2, <1>3, <1>4 DEF Kinds

LEMMA CommitAdmitsOnce ==
    ASSUME TeamInductive, NEW g \in Guests, Commit(g)
    PROVE  AdmitsOnce
  <1>1. CASE UNCHANGED <<users, invites>>
    BY <1>1 DEF AdmitsOnce
  <1>2. ASSUME NEW i, Admits(i) PROVE AdmitsOnce
    <2>1. i \in DOMAIN invites /\ invites[i].email \notin DOMAIN users
          /\ DOMAIN users' = DOMAIN users \cup {invites[i].email}
          /\ users'[invites[i].email].role = invites[i].role
      BY <1>2 DEF Admits, Put
    <2>2. ~invites[i].accepted
      BY <2>1 DEF TeamInductive, AcceptedHaveAccounts
    <2>3. invites[i] \in InviteRows
      BY <2>1 DEF TeamInductive, TypeOK, InviteRows
    <2>4. DOMAIN invites' = DOMAIN invites /\ invites'[i].accepted
          /\ \A k \in DOMAIN invites : k # i => invites'[k] = invites[k]
      BY <1>2, <2>1, <2>3 DEF Admits, InviteRows
    <2> QED
      BY <2>1, <2>2, <2>4 DEF AdmitsOnce
  <1> QED
    BY <1>1, <1>2, CommitAdmits

LEMMA ExpireAdmitsOnce ==
    ASSUME TeamInductive, NEW i \in Invites, Expire(i)
    PROVE  AdmitsOnce
  <1>1. UNCHANGED users /\ DOMAIN invites' = DOMAIN invites /\ i \in DOMAIN invites
        /\ invites' = [invites EXCEPT ![i].expired = TRUE]
    BY DEF Expire, Pending
  <1>2. invites[i] \in InviteRows
    BY <1>1 DEF TeamInductive, TypeOK, InviteRows
  <1>3. \A k \in DOMAIN invites : invites[k].accepted => invites'[k].accepted
    BY <1>1, <1>2 DEF InviteRows
  <1> QED
    BY <1>1, <1>3 DEF AdmitsOnce

(* Nobody gets an account but through an invitation that stood unused and   *)
(* unrevoked at the commit, with the role it names; no account is replaced  *)
(* and no invitation is taken back to unused.                               *)
THEOREM InvitationsAdmitOnce ==
    ASSUME Me \in Admins PROVE Spec => InvitationAdmitsOnce
  <1>1. ASSUME TeamInductive, [Next]_vars PROVE [AdmitsOnce]_vars
    <2>1. CASE UNCHANGED <<users, invites>>
      BY <2>1 DEF AdmitsOnce
    <2> QED
      BY <1>1, <2>1, InvitesChange, WriteAdmitsOnce, CommitAdmitsOnce, ExpireAdmitsOnce
  <1> QED
    BY <1>1, InductiveHolds, PTL DEF Spec, InvitationAdmitsOnce

-----------------------------------------------------------------------------
(* One page at a time.  A step of the pages is a step of one of them, which *)
(* is told by its Next, and leaves the others' variables alone.             *)

LEMMA OnePageSteps ==
    ASSUME [PagesNext]_pagesVars
    PROVE  /\ Next \/ UNCHANGED teamVars
           /\ OrgFormPage!Next \/ UNCHANGED orgFormVars
           /\ ConnectorsPage!Next \/ UNCHANGED connectorsVars
           /\ TaskTemplatesPage!Next \/ UNCHANGED taskTemplatesVars
           /\ IndicatorsPage!Next \/ UNCHANGED indicatorsVars
           /\ AssetsPage!Next \/ UNCHANGED assetsVars
           /\ TimelinePage!Next \/ UNCHANGED timelineVars
           /\ DeskPage!Next \/ UNCHANGED deskVars
           /\ TemplateEditorPage!Next \/ UNCHANGED templateEditorVars
           /\ TaskPanelPage!Next \/ UNCHANGED taskPanelVars
  BY DEF PagesNext, pagesVars

LEMMA PagesFacts ==
    /\ Titles # {} /\ Severities # {} /\ Assignees # {} /\ "none" \notin Dispositions
    /\ IsFiniteSet(AssetIds) /\ 0 \notin EntryIds /\ "note" \in EntryTypes
  BY PagesAssumption DEF DeskPage!None, TimelinePage!None, TimelinePage!Empty

-----------------------------------------------------------------------------
(* Indicators.  An enrichment writes some columns of a row, a request the   *)
(* status, and nobody takes a column away.                                  *)

RowsHaveStatus ==
    /\ \A i \in DOMAIN iRows : "status" \in DOMAIN iRows[i]
    /\ \A i \in DOMAIN uncommitted : "status" \in DOMAIN uncommitted[i]

WordStands ==
    /\ \A i \in DOMAIN iRows \cap DOMAIN iRows' :
          iRows'[i].status # iRows[i].status =>
              \E r \in iWaiting : r.what = "status" /\ r.ioc = i /\ iRows'[i].status = r.status
    /\ DOMAIN iRows' \subseteq DOMAIN iRows \cup DOMAIN uncommitted

LEMMA IndicatorsStep ==
    ASSUME RowsHaveStatus, IndicatorsPage!Next
    PROVE  RowsHaveStatus' /\ WordStands
  <1> USE DEF RowsHaveStatus, WordStands
  <1>1. ASSUME UNCHANGED <<iRows, uncommitted>> PROVE RowsHaveStatus' /\ WordStands
    BY <1>1
  <1>2. ASSUME UNCHANGED IndicatorsPage!server PROVE RowsHaveStatus' /\ WordStands
    BY <1>1, <1>2 DEF IndicatorsPage!server
  <1>3. ASSUME NEW r \in iWaiting, IndicatorsPage!CreateIOCs(r) PROVE RowsHaveStatus' /\ WordStands
    <2>1. UNCHANGED iRows /\ \A i \in DOMAIN uncommitted' : "status" \in DOMAIN uncommitted'[i]
      BY <1>3 DEF IndicatorsPage!CreateIOCs, IndicatorsPage!NewRow
    <2> QED
      BY <2>1
  <1>4. CASE IndicatorsPage!Commit
    BY <1>4 DEF IndicatorsPage!Commit
  <1>5. ASSUME NEW r \in iWaiting, IndicatorsPage!UpdateIOC(r) PROVE RowsHaveStatus' /\ WordStands
    BY <1>5 DEF IndicatorsPage!UpdateIOC
  <1>6. ASSUME NEW r \in iWaiting, IndicatorsPage!DeleteIOC(r) PROVE RowsHaveStatus' /\ WordStands
    BY <1>6 DEF IndicatorsPage!DeleteIOC
  <1>7. ASSUME NEW k \in TaskSlots, NEW got, IndicatorsPage!EnrichEnd(k, got)
        PROVE  RowsHaveStatus' /\ WordStands
    <2>1. UNCHANGED uncommitted
      BY <1>7 DEF IndicatorsPage!EnrichEnd
    <2>2. CASE UNCHANGED iRows
      BY <2>1, <2>2
    <2>3. CASE \E i \in DOMAIN iRows : iRows' = [iRows EXCEPT ![i] =
                 IndicatorsPage!Merged(iRows[i], task[k], got)]
      <3>1. PICK i \in DOMAIN iRows : iRows' = [iRows EXCEPT ![i] =
                   IndicatorsPage!Merged(iRows[i], task[k], got)]
        BY <2>3
      <3>2. "status" \in DOMAIN iRows[i]
        OBVIOUS
      <3> DEFINE row == IndicatorsPage!Merged(iRows[i], task[k], got)
      <3>3. row.status = iRows[i].status /\ "status" \in DOMAIN row
        BY <3>2 DEF IndicatorsPage!Merged
      <3>4. DOMAIN iRows' = DOMAIN iRows
            /\ \A j \in DOMAIN iRows : iRows'[j] = IF j = i THEN row ELSE iRows[j]
        BY <3>1
      <3> HIDE DEF row
      <3> QED
        BY <2>1, <3>3, <3>4
    <2> QED
      BY <1>7, <2>2, <2>3 DEF IndicatorsPage!EnrichEnd
  <1>8. CASE \/ \E r \in iWaiting : IndicatorsPage!EnrichIOC(r)
             \/ IndicatorsPage!HandleEnriched
             \/ IndicatorsPage!EventLost
             \/ \E k \in TaskSlots : IndicatorsPage!EnrichBegin(k)
    BY <1>8, <1>1 DEF IndicatorsPage!EnrichIOC, IndicatorsPage!HandleEnriched,
                      IndicatorsPage!EventLost, IndicatorsPage!EnrichBegin
  <1>9. CASE \/ \E s \in Spans : IndicatorsPage!TypeValue(s)
             \/ \E s \in SUBSET Spans : IndicatorsPage!ValuePaste(s)
             \/ \E f \in detected : IndicatorsPage!Tick(f)
             \/ IndicatorsPage!CloseModal
             \/ IndicatorsPage!AddIOC("ip")
             \/ IndicatorsPage!BulkAdd
             \/ \E i \in DOMAIN iSeen : \E s \in IndicatorStatuses : IndicatorsPage!StatusChange(i, s)
             \/ \E i \in DOMAIN iSeen : IndicatorsPage!Delete(i) \/ IndicatorsPage!Enrich(i)
             \/ IndicatorsPage!Refetch
             \/ \E r \in iWaiting : IndicatorsPage!RequestFails(r)
    BY <1>9, <1>2 DEF IndicatorsPage!TypeValue, IndicatorsPage!ValuePaste, IndicatorsPage!Tick,
         IndicatorsPage!CloseModal, IndicatorsPage!AddIOC, IndicatorsPage!BulkAdd,
         IndicatorsPage!StatusChange, IndicatorsPage!Delete, IndicatorsPage!Enrich,
         IndicatorsPage!Refetch, IndicatorsPage!RequestFails, IndicatorsPage!Ask
  <1> QED
    BY <1>3, <1>4, <1>5, <1>6, <1>7, <1>8, <1>9 DEF IndicatorsPage!Next

(* A status only changes to what a request of the page asks for, and no     *)
(* enrichment that read its row before brings a deleted indicator back.     *)
THEOREM TheAnalystsWordStands == PagesSpec => AnalystsWordStands
  <1>1. PagesInit => RowsHaveStatus
    BY DEF PagesInit, IndicatorsPage!Init, RowsHaveStatus
  <1>2. ASSUME RowsHaveStatus, [PagesNext]_pagesVars PROVE RowsHaveStatus' /\ WordStands
    <2>1. CASE IndicatorsPage!Next
      BY <1>2, <2>1, IndicatorsStep
    <2>2. CASE UNCHANGED indicatorsVars
      BY <1>2, <2>2 DEF indicatorsVars, RowsHaveStatus, WordStands
    <2> QED
      BY <1>2, <2>1, <2>2, OnePageSteps
  <1>3. RowsHaveStatus /\ [PagesNext]_pagesVars
          => [/\ \A i \in DOMAIN iRows \cap DOMAIN iRows' :
                   iRows'[i].status # iRows[i].status =>
                       \E r \in iWaiting : r.what = "status" /\ r.ioc = i /\ iRows'[i].status = r.status
              /\ DOMAIN iRows' \subseteq DOMAIN iRows \cup DOMAIN uncommitted]_IndicatorsPage!vars
    BY <1>2 DEF WordStands
  <1> QED
    BY <1>1, <1>2, <1>3, PTL DEF PagesSpec, AnalystsWordStands, IndicatorsPage!AnalystsWordStands

-----------------------------------------------------------------------------
(* Assets.  A relationship that is gone although the page shows it either   *)
(* was removed as such or went with one of its ends, and no new asset takes *)
(* the name of an end that is shown.                                        *)

Joined(l) == {l.source, l.target} \subseteq DOMAIN aRows

AssetsInductive ==
    /\ \A l \in links : l.source # l.target /\ Joined(l)
    /\ \A l \in aShown : l \in links \cup unlinked \/ ~Joined(l)
    /\ \A r \in aWaiting : r.what = "link" => r.link.source # r.link.target
    /\ checked # AssetsPage!NoLink => checked.source # checked.target
    /\ names \in 0..2 /\ \A r \in aWaiting : r.what = "add" => r.count \in 0..2

LEMMA AssetsJoin == AssetsInductive => RelationshipsJoinAssets
  BY DEF AssetsInductive, Joined, RelationshipsJoinAssets, AssetsPage!RelationshipsJoinAssets,
         AssetsPage!Listed

(* What a request of the page asks for. *)
LEMMA Asking ==
    ASSUME AssetsInductive, NEW request, AssetsPage!Ask(request),
           request.what = "link" => request.link.source # request.link.target,
           request.what = "add" => request.count = names
    PROVE  AssetsInductive'
  <1>1. UNCHANGED <<aRows, links, unlinked, aShown, checked, names>>
        /\ aWaiting' = aWaiting \cup {request}
    BY DEF AssetsPage!Ask, AssetsPage!dialogs
  <1> QED
    BY <1>1 DEF AssetsInductive, Joined

(* A choice of new names finds them among the fresh ones. *)
LEMMA FreshNames ==
    ASSUME NEW S, IsFiniteSet(S), NEW n \in 0..2, Cardinality(S) >= n
    PROVE  (CHOOSE T \in SUBSET S : Cardinality(T) = n) \subseteq S
  <1>1. \E T \in SUBSET S : Cardinality(T) = n
    <2>1. CASE n = 0
      <3>1. {} \in SUBSET S /\ Cardinality({}) = 0
        BY FS_EmptySet
      <3> QED
        BY <2>1, <3>1
    <2>2. CASE n = 1
      <3>1. S # {}
        BY <2>2, FS_EmptySet
      <3>2. PICK x \in S : TRUE
        BY <3>1
      <3>3. Cardinality({x}) = 1
        BY FS_Singleton
      <3> QED
        BY <2>2, <3>2, <3>3
    <2>3. CASE n = 2
      <3>1. S # {}
        BY <2>3, FS_EmptySet
      <3>2. PICK x \in S : TRUE
        BY <3>1
      <3>3. IsFiniteSet(S \ {x}) /\ Cardinality(S \ {x}) = Cardinality(S) - 1
        BY <3>2, FS_RemoveElement
      <3>4. S \ {x} # {}
        <4>1. Cardinality(S) \in Nat
          BY FS_CardinalityType
        <4> QED
          BY <2>3, <3>3, <4>1, FS_EmptySet
      <3>5. PICK y \in S \ {x} : TRUE
        BY <3>4
      <3>6. IsFiniteSet({x}) /\ Cardinality({x}) = 1
        BY FS_Singleton
      <3>7. y \notin {x}
        BY <3>5
      <3>8. Cardinality({x} \cup {y}) = Cardinality({x}) + 1
        BY <3>6, <3>7, FS_AddElement
      <3> QED
        BY <2>3, <3>2, <3>5, <3>6, <3>8
    <2> QED
      BY <2>1, <2>2, <2>3
  <1> QED
    BY <1>1

LEMMA AssetsCount == ASSUME NEW S PROVE AssetsPage!Cardinality(S) = Cardinality(S)
  BY DEF AssetsPage!Cardinality, Cardinality

LEMMA AddsFresh ==
    ASSUME IsFiniteSet(AssetIds), AssetsInductive, NEW r \in aWaiting, AssetsPage!CreatesAssets(r)
    PROVE  \E ids : /\ ids \subseteq AssetsPage!Fresh
                    /\ aRows' = [i \in DOMAIN aRows \cup ids |->
                         IF i \in ids THEN [status |-> AssetsPage!Suspected, described |-> TRUE] ELSE aRows[i]]
  <1> DEFINE ids == CHOOSE S \in SUBSET AssetsPage!Fresh : AssetsPage!Cardinality(S) = r.count
  <1>1. r.count \in 0..2 /\ Cardinality(AssetsPage!Fresh) >= r.count
    BY AssetsCount DEF AssetsPage!CreatesAssets, AssetsInductive
  <1>2. IsFiniteSet(AssetsPage!Fresh)
    BY FS_Subset DEF AssetsPage!Fresh
  <1>3. ids = CHOOSE S \in SUBSET AssetsPage!Fresh : Cardinality(S) = r.count
    BY AssetsCount
  <1>4. aRows' = [i \in DOMAIN aRows \cup ids |->
                    IF i \in ids THEN [status |-> AssetsPage!Suspected, described |-> TRUE] ELSE aRows[i]]
    BY DEF AssetsPage!CreatesAssets
  <1> HIDE DEF ids
  <1>5. ids \subseteq AssetsPage!Fresh
    BY <1>1, <1>2, <1>3, FreshNames
  <1> QED
    BY <1>4, <1>5

(* What the server does with a request, whether or not the page learns of   *)
(* it and whenever the page reads the relationships.                        *)
AssetsDone(r) ==
    \/ AssetsPage!CreatesAssets(r) \/ AssetsPage!UpdatesAsset(r) \/ AssetsPage!DeletesAsset(r)
    \/ AssetsPage!CreatesLink(r) \/ AssetsPage!DeletesLink(r)

LEMMA AssetsDoneInductive ==
    ASSUME IsFiniteSet(AssetIds), AssetsInductive, NEW r \in aWaiting, AssetsDone(r),
           UNCHANGED checked, aWaiting' \subseteq aWaiting, names' \in {names, 0},
           aShown' \in {aShown, links, links'}
    PROVE  AssetsInductive'
  <1> USE DEF AssetsInductive, Joined
  <1>1. CASE AssetsPage!CreatesAssets(r)
    <2>1. PICK ids : /\ ids \subseteq AssetsPage!Fresh
                     /\ aRows' = [i \in DOMAIN aRows \cup ids |->
                          IF i \in ids THEN [status |-> AssetsPage!Suspected, described |-> TRUE] ELSE aRows[i]]
      BY <1>1, AddsFresh
    <2>2. DOMAIN aRows' = DOMAIN aRows \cup ids /\ UNCHANGED <<links, unlinked>>
      BY <1>1, <2>1 DEF AssetsPage!CreatesAssets
    <2>3. \A l \in aShown : l.source \notin ids /\ l.target \notin ids
      BY <2>1 DEF AssetsPage!Fresh
    <2> QED
      BY <2>2, <2>3
  <1>2. CASE AssetsPage!UpdatesAsset(r)
    <2>1. DOMAIN aRows' = DOMAIN aRows /\ UNCHANGED <<links, unlinked>>
      BY <1>2 DEF AssetsPage!UpdatesAsset
    <2> QED
      BY <2>1
  <1>3. CASE AssetsPage!DeletesAsset(r)
    <2>1. /\ DOMAIN aRows' = DOMAIN aRows \ {r.id} /\ UNCHANGED unlinked
          /\ links' = AssetsPage!Without(links, r.id)
      BY <1>3 DEF AssetsPage!DeletesAsset
    <2> QED
      BY <2>1 DEF AssetsPage!Without
  <1>4. CASE AssetsPage!CreatesLink(r)
    <2>1. /\ AssetsPage!MayLink(r.link) /\ links' = links \cup {r.link}
          /\ unlinked' = unlinked \ {r.link} /\ UNCHANGED aRows
          /\ r.link.source # r.link.target
      BY <1>4 DEF AssetsPage!CreatesLink
    <2> QED
      BY <2>1 DEF AssetsPage!MayLink
  <1>5. CASE AssetsPage!DeletesLink(r)
    <2>1. /\ links' = links \ {r.link} /\ unlinked' = unlinked \cup {r.link}
          /\ UNCHANGED aRows
      BY <1>5 DEF AssetsPage!DeletesLink
    <2> QED
      BY <2>1
  <1> QED
    BY <1>1, <1>2, <1>3, <1>4, <1>5 DEF AssetsDone

LEMMA AssetsStep ==
    ASSUME IsFiniteSet(AssetIds), AssetsInductive, AssetsPage!Next
    PROVE  AssetsInductive'
  <1> USE DEF AssetsInductive, Joined, AssetsPage!dialogs
  <1>0. ASSUME UNCHANGED <<aRows, links, unlinked, aShown, checked>>, aWaiting' \subseteq aWaiting,
               names' \in 0..2
        PROVE  AssetsInductive'
    BY <1>0
  <1>1. CASE \/ \E t \in {"list", "relationships"} : AssetsPage!ShowTab(t)
             \/ \E n \in 0..2 : AssetsPage!TypeNames(n)
             \/ \E i \in AssetIds : AssetsPage!OpenEdit(i) \/ AssetsPage!OpenDelete(i)
             \/ \E s \in AssetStatuses : \E d \in BOOLEAN : AssetsPage!EditField(s, d)
             \/ AssetsPage!CancelDialog
             \/ \E i \in AssetIds : AssetsPage!ChooseSource(i) \/ AssetsPage!ChooseTarget(i)
             \/ \E r \in aWaiting : AssetsPage!RequestFails(r)
    BY <1>0, <1>1 DEF AssetsPage!ShowTab, AssetsPage!TypeNames, AssetsPage!OpenEdit,
         AssetsPage!OpenDelete, AssetsPage!EditField, AssetsPage!CancelDialog,
         AssetsPage!ChooseSource, AssetsPage!ChooseTarget, AssetsPage!RequestFails
  <1>2. CASE AssetsPage!Add \/ AssetsPage!SaveEdit \/ AssetsPage!DeleteConfirm
    BY <1>2, Asking DEF AssetsPage!Add, AssetsPage!SaveEdit, AssetsPage!DeleteConfirm,
                        AssetsPage!Request
  <1>3. ASSUME NEW t \in LinkTypes, AssetsPage!CreateLink(t) PROVE AssetsInductive'
    BY <1>3, Asking DEF AssetsPage!CreateLink, AssetsPage!Request
  <1>4. ASSUME NEW l \in aShown, AssetsPage!DeleteLink(l) PROVE AssetsInductive'
    BY <1>4, Asking DEF AssetsPage!DeleteLink, AssetsPage!Request
  <1>5. CASE AssetsPage!Refetch
    BY <1>5 DEF AssetsPage!Refetch
  <1>6. ASSUME NEW r \in aWaiting,
               \/ AssetsPage!CreateAssets(r) \/ AssetsPage!UpdateAsset(r) \/ AssetsPage!DeleteAsset(r)
               \/ AssetsPage!CreateAssetLink(r) \/ AssetsPage!DeleteAssetLink(r)
               \/ AssetsPage!AnswerLost(r)
        PROVE  AssetsInductive'
    <2>1. /\ AssetsDone(r) /\ UNCHANGED checked /\ aWaiting' \subseteq aWaiting
          /\ names' \in {names, 0} /\ aShown' \in {aShown, links, links'}
      BY <1>6 DEF AssetsDone, AssetsPage!CreateAssets, AssetsPage!UpdateAsset,
           AssetsPage!DeleteAsset, AssetsPage!CreateAssetLink, AssetsPage!DeleteAssetLink,
           AssetsPage!AnswerLost, AssetsPage!Answered
    <2> QED
      BY <2>1, AssetsDoneInductive
  <1>7. ASSUME NEW i \in AssetIds, AssetsPage!DeletedElsewhere(i) PROVE AssetsInductive'
    BY <1>7 DEF AssetsPage!DeletedElsewhere, AssetsPage!Without
  <1>8. ASSUME NEW l \in links, AssetsPage!UnlinkedElsewhere(l) PROVE AssetsInductive'
    BY <1>8 DEF AssetsPage!UnlinkedElsewhere
  <1>9. ASSUME NEW l \in AssetsPage!Links, AssetsPage!LookElsewhere(l) PROVE AssetsInductive'
    BY <1>9 DEF AssetsPage!LookElsewhere
  <1>10. CASE AssetsPage!LinkElsewhere
    <2>1. /\ UNCHANGED <<aRows, aShown, aWaiting, names>> /\ checked' = AssetsPage!NoLink
          /\ checked # AssetsPage!NoLink
          /\ \/ UNCHANGED <<links, unlinked>>
             \/ /\ links' = links \cup {checked} /\ unlinked' = unlinked \ {checked}
                /\ AssetsPage!MayLink(checked)
      BY <1>10 DEF AssetsPage!LinkElsewhere
    <2> QED
      BY <2>1 DEF AssetsPage!MayLink
  <1> QED
    BY <1>1, <1>2, <1>3, <1>4, <1>5, <1>6, <1>7, <1>8, <1>9, <1>10 DEF AssetsPage!Next

LEMMA AssetsInit ==
    ASSUME AssetsPage!Init
    PROVE  AssetsInductive
  BY DEF AssetsPage!Init, AssetsInductive

LEMMA AssetsHold == PagesSpec => []AssetsInductive
  <1>1. PagesInit => AssetsInductive
    BY AssetsInit DEF PagesInit
  <1>2. ASSUME AssetsInductive, [PagesNext]_pagesVars PROVE AssetsInductive'
    <2>1. CASE AssetsPage!Next
      BY <1>2, <2>1, AssetsStep, PagesFacts
    <2>2. CASE UNCHANGED assetsVars
      BY <1>2, <2>2 DEF assetsVars, AssetsInductive, Joined
    <2> QED
      BY <1>2, <2>1, <2>2, OnePageSteps
  <1> QED
    BY <1>1, <1>2, PTL DEF PagesSpec

(* Every relationship joins two assets of the incident, and what the page   *)
(* lists of them, all its assets there, is stored or removed by somebody,   *)
(* whatever is deleted meanwhile and whichever answers are lost.            *)
THEOREM RelationshipsJoin == PagesSpec => []RelationshipsJoinAssets
  BY AssetsHold, AssetsJoin, PTL

-----------------------------------------------------------------------------
(* The timeline.  A loop over files passes each of them on exactly once: it *)
(* is left, or taken for its entry, or among those that failed.             *)

FileLists == Seq(EntryFiles)
Accounted(j) ==
    /\ j.left \in FileLists
    /\ \A f \in j.sent : f \in TimelinePage!ToSet(j.left) \/ f \in j.failed \/ <<j.entry, f>> \in taken

LEMMA HeadAndTail ==
    ASSUME NEW s \in FileLists, s # << >>
    PROVE  /\ Tail(s) \in FileLists
           /\ \A f \in TimelinePage!ToSet(s) : f = Head(s) \/ f \in TimelinePage!ToSet(Tail(s))
  <1>1. Tail(s) \in FileLists /\ Len(Tail(s)) = Len(s) - 1 /\ Len(s) \in Nat
        /\ \A i \in 1..Len(Tail(s)) : Tail(s)[i] = s[i + 1]
    BY DEF FileLists
  <1>2. ASSUME NEW i \in 1..Len(s) PROVE s[i] = Head(s) \/ s[i] \in TimelinePage!ToSet(Tail(s))
    <2>1. CASE i = 1
      BY <2>1 DEF FileLists
    <2>2. CASE i # 1
      <3>1. i - 1 \in 1..Len(Tail(s)) /\ Tail(s)[i - 1] = s[i]
        BY <1>1, <2>2
      <3>2. DOMAIN Tail(s) = 1..Len(Tail(s))
        BY <1>1 DEF FileLists
      <3> QED
        BY <3>1, <3>2 DEF TimelinePage!ToSet
    <2> QED
      BY <2>1, <2>2
  <1>3. DOMAIN s = 1..Len(s)
    BY DEF FileLists
  <1> QED
    BY <1>1, <1>2, <1>3 DEF TimelinePage!ToSet

LEMMA RemovingIsTyped ==
    ASSUME NEW s \in FileLists, NEW i \in DOMAIN s
    PROVE  TimelinePage!RemoveAt(s, i) \in FileLists
  <1>1. SubSeq(s, 1, i - 1) \in FileLists /\ SubSeq(s, i + 1, Len(s)) \in FileLists
    BY DEF FileLists
  <1> QED
    BY <1>1 DEF FileLists, TimelinePage!RemoveAt

(* One upload, of the form's loop or of the dialog's. *)
LEMMA OneUpload ==
    ASSUME NEW j, Accounted(j), j.left # << >>, NEW takes \in BOOLEAN, NEW ok \in BOOLEAN,
           TimelinePage!Store(j.entry, Head(j.left), takes),
           ok => takes /\ j.entry \in DOMAIN entries
    PROVE  Accounted(TimelinePage!After(j, ok))' /\ taken \subseteq taken'
  <1> DEFINE k == TimelinePage!After(j, ok)
  <1>1. /\ k.left = Tail(j.left) /\ k.sent = j.sent /\ k.entry = j.entry
        /\ k.failed = IF ok THEN j.failed ELSE j.failed \cup {Head(j.left)}
    BY DEF TimelinePage!After
  <1>2. taken \subseteq taken' /\ (ok => <<j.entry, Head(j.left)>> \in taken')
    BY DEF TimelinePage!Store
  <1>3. /\ Tail(j.left) \in FileLists
        /\ \A f \in TimelinePage!ToSet(j.left) :
              f = Head(j.left) \/ f \in TimelinePage!ToSet(Tail(j.left))
    BY HeadAndTail DEF Accounted
  <1> HIDE DEF k
  <1>4. Accounted(k)'
    BY <1>1, <1>2, <1>3 DEF Accounted
  <1> QED
    BY <1>2, <1>4 DEF k

(* What the page keeps: entries, the form, the dialog, submissions, saves. *)
EntryRecords == [type : EntryTypes, pinned : BOOLEAN, edited : BOOLEAN,
                 files : SUBSET EntryFiles, assets : SUBSET EntryAssets]
IsTable(t) == DOMAIN t \subseteq EntryIds /\ \A e \in DOMAIN t : t[e] \in EntryRecords
EntryForms == [text : BOOLEAN, files : FileLists, assets : SUBSET EntryAssets, type : EntryTypes]
Dialogs == [entry : EntryIds \cup {0}, had : SUBSET EntryFiles, changed : BOOLEAN,
            files : FileLists, removed : SUBSET EntryFiles, linked : SUBSET EntryAssets]
Submissions == [entry : EntryIds, sent : SUBSET EntryFiles, left : FileLists,
                failed : SUBSET EntryFiles, assets : SUBSET EntryAssets]
Saves == [entry : EntryIds, changed : BOOLEAN, updated : BOOLEAN, sent : SUBSET EntryFiles,
          left : FileLists, failed : SUBSET EntryFiles]
LinkRequests == [entry : EntryIds, asset : EntryAssets, on : BOOLEAN]

TablesOK == IsTable(entries) /\ IsTable(lSeen) /\ taken \subseteq EntryIds \X EntryFiles
DialogOK == edit \in Dialogs /\ (edit.entry = 0 => edit = TimelinePage!Closed)
TimelineInductive ==
    /\ TablesOK
    /\ add \in EntryForms /\ creating \subseteq EntryForms
    /\ DialogOK
    /\ lJobs \subseteq Submissions /\ saves \subseteq Saves /\ lToggles \subseteq LinkRequests
    /\ \A j \in lJobs \cup saves : Accounted(j)

(* The lists of files that Empty, Closed and Append make. *)
LEMMA FilesIn ==
    ASSUME NEW s \in FileLists
    PROVE  /\ TimelinePage!ToSet(s) \subseteq EntryFiles
           /\ s # << >> => Head(s) \in EntryFiles
           /\ \A f \in EntryFiles : Append(s, f) \in FileLists
           /\ << >> \in FileLists /\ TimelinePage!ToSet(<< >>) = {}
  BY DEF FileLists, TimelinePage!ToSet

LEMMA ClosedIsDialog == TimelinePage!Closed \in Dialogs /\ TimelinePage!Closed.entry = 0
                        /\ TimelinePage!Closed.files = << >>
  BY FilesIn DEF TimelinePage!Closed, TimelinePage!None, Dialogs, FileLists

LEMMA EmptyIsForm == TimelinePage!Empty \in EntryForms
  BY PagesFacts DEF TimelinePage!Empty, EntryForms, FileLists

(* A table stays one when a row of it becomes another one, or goes. *)
LEMMA TableEdits ==
    ASSUME NEW t, IsTable(t), NEW e \in DOMAIN t
    PROVE  /\ t[e] \in EntryRecords
           /\ \A F \in SUBSET EntryFiles : IsTable([t EXCEPT ![e].files = F])
           /\ \A A \in SUBSET EntryAssets : IsTable([t EXCEPT ![e].assets = A])
           /\ \A b \in BOOLEAN : IsTable([t EXCEPT ![e].pinned = b]) /\ IsTable([t EXCEPT ![e].edited = b])
  <1>1. t[e] \in EntryRecords
    BY DEF IsTable
  <1>2. ASSUME NEW r \in EntryRecords PROVE IsTable([t EXCEPT ![e] = r])
    BY DEF IsTable
  <1>3. /\ \A F \in SUBSET EntryFiles : [t[e] EXCEPT !.files = F] \in EntryRecords
        /\ \A A \in SUBSET EntryAssets : [t[e] EXCEPT !.assets = A] \in EntryRecords
        /\ \A b \in BOOLEAN : [t[e] EXCEPT !.pinned = b] \in EntryRecords
                              /\ [t[e] EXCEPT !.edited = b] \in EntryRecords
    BY <1>1 DEF EntryRecords
  <1> QED
    BY <1>1, <1>2, <1>3

LEMMA SubmitForm ==
    ASSUME NEW form \in EntryForms, creating \subseteq EntryForms, TimelinePage!Submit(form)
    PROVE  creating' \subseteq EntryForms
  BY DEF TimelinePage!Submit

LEMMA SubmitDialog ==
    ASSUME NEW d \in Dialogs, d.entry # 0, saves \subseteq Saves, \A v \in saves : Accounted(v),
           TimelinePage!SubmitEdit(d)
    PROVE  saves' \subseteq Saves /\ \A v \in saves' : v \in saves \/ Accounted(v)
  <1> DEFINE v == [entry |-> d.entry, changed |-> d.changed, updated |-> FALSE,
                   sent |-> TimelinePage!ToSet(d.files), left |-> d.files, failed |-> {}]
  <1>1. d.files \in FileLists /\ TimelinePage!ToSet(d.files) \subseteq EntryFiles
    BY FilesIn DEF Dialogs
  <1>2. v \in Saves
    BY <1>1 DEF Saves, Dialogs
  <1>3. v.left = d.files /\ v.sent = TimelinePage!ToSet(d.files)
    OBVIOUS
  <1>4. saves' = saves \cup {v}
    BY DEF TimelinePage!SubmitEdit
  <1> HIDE DEF v
  <1>5. Accounted(v)
    BY <1>1, <1>3 DEF Accounted
  <1> QED
    BY <1>2, <1>4, <1>5

(* Everything is as it was but the form, which stays one. *)
LEMMA FormFilled ==
    ASSUME TimelineInductive, NEW form \in EntryForms, TimelinePage!Filled(form)
    PROVE  TimelineInductive'
  BY DEF TimelineInductive, TimelinePage!Filled, TablesOK, IsTable, DialogOK, Accounted

LEMMA TypingSteps ==
    ASSUME TimelineInductive,
           \/ TimelinePage!TypeText
           \/ \E t \in EntryTypes : TimelinePage!ChooseType(t)
           \/ \E a \in EntryAssets : TimelinePage!PickAsset(a)
           \/ TimelinePage!Clear
           \/ \E f \in EntryFiles : TimelinePage!AddFiles(f)
    PROVE  TimelineInductive'
  <1>1. add \in EntryForms
    BY DEF TimelineInductive
  <1>2. CASE TimelinePage!TypeText
    <2>1. [add EXCEPT !.text = TRUE] \in EntryForms
      BY <1>1 DEF EntryForms
    <2> QED
      BY <1>2, <2>1, FormFilled DEF TimelinePage!TypeText
  <1>3. ASSUME NEW t \in EntryTypes, TimelinePage!ChooseType(t) PROVE TimelineInductive'
    <2>1. [add EXCEPT !.type = t] \in EntryForms
      BY <1>1 DEF EntryForms
    <2> QED
      BY <1>3, <2>1, FormFilled DEF TimelinePage!ChooseType
  <1>4. ASSUME NEW a \in EntryAssets, TimelinePage!PickAsset(a) PROVE TimelineInductive'
    <2>1. [add EXCEPT !.assets = (@ \ {a}) \cup ({a} \ @)] \in EntryForms
      BY <1>1 DEF EntryForms
    <2> QED
      BY <1>4, <2>1, FormFilled DEF TimelinePage!PickAsset
  <1>5. CASE TimelinePage!Clear
    <2>1. [add EXCEPT !.text = FALSE, !.files = <<>>, !.assets = {}] \in EntryForms
      BY <1>1, FilesIn DEF EntryForms
    <2> QED
      BY <1>5, <2>1, FormFilled DEF TimelinePage!Clear
  <1>6. ASSUME NEW f \in EntryFiles, TimelinePage!AddFiles(f) PROVE TimelineInductive'
    <2>1. Append(add.files, f) \in FileLists
      BY <1>1, FilesIn DEF EntryForms
    <2>2. [add EXCEPT !.files = Append(@, f)] \in EntryForms
      BY <1>1, <2>1 DEF EntryForms
    <2> QED
      BY <1>6, <2>2, FormFilled DEF TimelinePage!AddFiles
  <1> QED
    BY <1>2, <1>3, <1>4, <1>5, <1>6

LEMMA FormSteps ==
    ASSUME TimelineInductive,
           \/ \E f \in EntryFiles : TimelinePage!Paste(f)
           \/ TimelinePage!HandleSubmit
           \/ \E i \in DOMAIN add.files : TimelinePage!RemoveFile(i)
           \/ \E form \in creating : TimelinePage!CreateEntry(form)
           \/ \E form \in creating : TimelinePage!CreateFails(form)
    PROVE  TimelineInductive'
  <1>1. /\ add \in EntryForms /\ add.files \in FileLists /\ creating \subseteq EntryForms
        /\ edit \in Dialogs /\ edit.files \in FileLists
    BY DEF TimelineInductive, EntryForms, Dialogs, DialogOK
  <1>2. ASSUME NEW f \in EntryFiles, TimelinePage!Paste(f) PROVE TimelineInductive'
    <2>1. Append(add.files, f) \in FileLists /\ Append(edit.files, f) \in FileLists
      BY <1>1, FilesIn
    <2>2. [add EXCEPT !.files = Append(@, f)] \in EntryForms
      BY <1>1, <2>1 DEF EntryForms
    <2> DEFINE d == [edit EXCEPT !.files = Append(@, f)]
    <2>3. d \in Dialogs /\ d.entry = edit.entry
      BY <1>1, <2>1 DEF Dialogs
    <2>4. edit' = (IF edit.entry = 0 THEN edit ELSE d)
      BY <1>2 DEF TimelinePage!Paste, TimelinePage!None
    <2> HIDE DEF d
    <2>5. DialogOK'
      BY <2>3, <2>4 DEF TimelineInductive, DialogOK
    <2> QED
      BY <1>2, <2>2, <2>5 DEF TimelinePage!Paste, TimelineInductive, TablesOK, IsTable, Accounted
  <1>3. CASE TimelinePage!HandleSubmit
    <2>1. creating' \subseteq EntryForms
      BY <1>1, <1>3, SubmitForm DEF TimelinePage!HandleSubmit
    <2> QED
      BY <1>3, <2>1 DEF TimelinePage!HandleSubmit, TimelineInductive, TablesOK, IsTable, DialogOK, Accounted
  <1>4. ASSUME NEW i \in DOMAIN add.files, TimelinePage!RemoveFile(i) PROVE TimelineInductive'
    <2> DEFINE form == [add EXCEPT !.files = TimelinePage!RemoveAt(@, i)]
    <2>1. TimelinePage!RemoveAt(add.files, i) \in FileLists
      BY <1>1, RemovingIsTyped
    <2>2. form \in EntryForms
      BY <1>1, <2>1 DEF EntryForms
    <2>3. add' = form /\ (TimelinePage!Submit(form) \/ UNCHANGED creating)
          /\ UNCHANGED <<entries, taken, lSeen, filter, lJobs, edit, saves, lToggles>>
      BY <1>4 DEF TimelinePage!RemoveFile
    <2> HIDE DEF form
    <2>4. creating' \subseteq EntryForms
      BY <1>1, <2>2, <2>3, SubmitForm
    <2> QED
      BY <2>2, <2>3, <2>4 DEF TimelineInductive, TablesOK, IsTable, DialogOK, Accounted
  <1>5. ASSUME NEW form \in creating, TimelinePage!CreateEntry(form) PROVE TimelineInductive'
    <2> DEFINE e == CHOOSE e \in TimelinePage!Fresh : TRUE
               j == [entry |-> e, sent |-> TimelinePage!ToSet(form.files), left |-> form.files,
                     failed |-> {}, assets |-> form.assets]
               r == TimelinePage!NewEntry(form)
    <2>1. /\ entries' = [d \in DOMAIN entries \cup {e} |-> IF d = e THEN r ELSE entries[d]]
          /\ lJobs' = lJobs \cup {j} /\ creating' = creating \ {form} /\ TimelinePage!Fetched
          /\ UNCHANGED <<taken, add, edit, saves, lToggles>>
      BY <1>5 DEF TimelinePage!CreateEntry
    <2>2. e \in EntryIds
      BY <1>5 DEF TimelinePage!CreateEntry, TimelinePage!Fresh
    <2>3. form \in EntryForms /\ form.files \in FileLists /\ form.type \in EntryTypes
          /\ form.assets \subseteq EntryAssets
      BY <1>1 DEF EntryForms
    <2>4. r \in EntryRecords
      BY <2>3 DEF TimelinePage!NewEntry, EntryRecords
    <2>5. TimelinePage!ToSet(form.files) \subseteq EntryFiles
      BY <2>3, FilesIn
    <2>6. j \in Submissions
      BY <2>2, <2>3, <2>5 DEF Submissions
    <2>7. j.left = form.files /\ j.sent = TimelinePage!ToSet(form.files)
      OBVIOUS
    <2> HIDE DEF j, r, e
    <2>8. Accounted(j)
      BY <2>3, <2>7 DEF Accounted
    <2>9. IsTable(entries') /\ IsTable(entries)
      BY <2>1, <2>2, <2>4 DEF TimelineInductive, TablesOK, IsTable
    <2>10. TablesOK'
      BY <2>1, <2>9 DEF TimelineInductive, TablesOK, TimelinePage!Fetched
    <2> QED
      BY <2>1, <2>6, <2>8, <2>10 DEF TimelineInductive, DialogOK, Accounted
  <1>6. ASSUME NEW form \in creating, TimelinePage!CreateFails(form) PROVE TimelineInductive'
    BY <1>6 DEF TimelinePage!CreateFails, TimelineInductive, TablesOK, IsTable, DialogOK, Accounted
  <1> QED
    BY <1>2, <1>3, <1>4, <1>5, <1>6

(* A file that the server takes leaves the tables what they are. *)
LEMMA StoringIsTyped ==
    ASSUME TablesOK, NEW e \in EntryIds, NEW f \in EntryFiles, NEW takes \in BOOLEAN,
           TimelinePage!Store(e, f, takes), UNCHANGED lSeen
    PROVE  TablesOK'
  <1>1. CASE UNCHANGED <<entries, taken>>
    BY <1>1 DEF TablesOK, IsTable
  <1>2. CASE /\ e \in DOMAIN entries /\ taken' = taken \cup {<<e, f>>}
             /\ entries' = [entries EXCEPT ![e].files = @ \cup {f}]
    <2>1. entries[e].files \cup {f} \in SUBSET EntryFiles
      BY <1>2 DEF TablesOK, IsTable, EntryRecords
    <2>2. IsTable(entries')
      BY <1>2, <2>1, TableEdits DEF TablesOK
    <2> QED
      BY <1>2, <2>2 DEF TablesOK
  <1> QED
    BY <1>1, <1>2 DEF TimelinePage!Store

LEMMA JobSteps ==
    ASSUME TimelineInductive, NEW j \in lJobs,
           \/ \E takes, answered \in BOOLEAN : TimelinePage!Upload(j, takes, answered)
           \/ \E linked \in BOOLEAN : TimelinePage!Finish(j, linked)
    PROVE  TimelineInductive'
  <1>1. j \in Submissions /\ Accounted(j) /\ j.entry \in EntryIds /\ j.left \in FileLists
        /\ j.assets \in SUBSET EntryAssets
    BY DEF TimelineInductive, Submissions
  <1>2. ASSUME NEW takes \in BOOLEAN, NEW answered \in BOOLEAN, TimelinePage!Upload(j, takes, answered)
        PROVE  TimelineInductive'
    <2> PICK ok \in BOOLEAN : ok = (takes /\ answered /\ j.entry \in DOMAIN entries)
      OBVIOUS
    <2> DEFINE k == TimelinePage!After(j, ok)
    <2>1. /\ j.left # << >> /\ TimelinePage!Store(j.entry, Head(j.left), takes)
          /\ lJobs' = (lJobs \ {j}) \cup {k}
          /\ UNCHANGED <<lSeen, add, creating, edit, saves, lToggles>>
      BY <1>2 DEF TimelinePage!Upload
    <2>2. Accounted(k)' /\ taken \subseteq taken'
      BY <1>1, <2>1, OneUpload
    <2>3. Head(j.left) \in EntryFiles /\ Tail(j.left) \in FileLists
      BY <1>1, <2>1, FilesIn, HeadAndTail
    <2>4. k \in Submissions
      BY <1>1, <2>3 DEF TimelinePage!After, Submissions
    <2>5. TablesOK'
      BY <1>1, <2>1, <2>3, StoringIsTyped DEF TimelineInductive
    <2> HIDE DEF k
    <2> QED
      BY <2>1, <2>2, <2>4, <2>5 DEF TimelineInductive, DialogOK, Accounted
  <1>3. ASSUME NEW linked \in BOOLEAN, TimelinePage!Finish(j, linked) PROVE TimelineInductive'
    <2>1. IsTable(entries')
      <3>1. CASE UNCHANGED entries
        BY <3>1 DEF TimelineInductive, TablesOK
      <3>2. CASE /\ j.entry \in DOMAIN entries
                 /\ entries' = [entries EXCEPT ![j.entry].assets = @ \cup j.assets]
        <4>1. entries[j.entry].assets \cup j.assets \in SUBSET EntryAssets
          BY <1>1, <3>2 DEF TimelineInductive, TablesOK, IsTable, EntryRecords
        <4> QED
          BY <3>2, <4>1, TableEdits DEF TimelineInductive, TablesOK
      <3> QED
        BY <1>3, <3>1, <3>2 DEF TimelinePage!Finish
    <2>2. TablesOK'
      BY <1>3, <2>1 DEF TimelinePage!Finish, TimelineInductive, TablesOK
    <2>3. add' \in EntryForms
      <3>1. add.type \in EntryTypes
        BY DEF TimelineInductive, EntryForms
      <3>2. [TimelinePage!Empty EXCEPT !.type = add.type] \in EntryForms
        BY <3>1, EmptyIsForm DEF EntryForms
      <3> QED
        BY <1>3, <3>2 DEF TimelinePage!Finish
    <2> QED
      BY <1>3, <2>2, <2>3 DEF TimelinePage!Finish, TimelineInductive, DialogOK, Accounted
  <1> QED
    BY <1>2, <1>3

LEMMA ListSteps ==
    ASSUME TimelineInductive,
           \/ \E t \in EntryTypes \cup {"all"} : TimelinePage!ChooseFilter(t)
           \/ TimelinePage!Refetch
           \/ \E e \in EntryIds : TimelinePage!Pin(e)
           \/ \E e \in EntryIds : TimelinePage!Delete(e)
    PROVE  TimelineInductive'
  <1>1. IsTable(entries) /\ IsTable(lSeen)
    BY DEF TimelineInductive, TablesOK
  <1>2. UNCHANGED <<taken, add, creating, lJobs, edit, saves, lToggles>>
        /\ lSeen' \in {entries, entries'}
    BY DEF TimelinePage!ChooseFilter, TimelinePage!Refetch, TimelinePage!Pin, TimelinePage!Delete,
           TimelinePage!Fetched
  <1>3. IsTable(entries')
    <2>1. ASSUME NEW e \in EntryIds, TimelinePage!Pin(e) PROVE IsTable(entries')
      <3>1. e \in DOMAIN lSeen /\ e \in DOMAIN entries
            /\ entries' = [entries EXCEPT ![e].pinned = ~lSeen[e].pinned]
        BY <2>1 DEF TimelinePage!Pin, TimelinePage!Listed
      <3>2. lSeen[e] \in EntryRecords
        BY <1>1, <3>1, TableEdits
      <3>3. (~lSeen[e].pinned) \in BOOLEAN
        OBVIOUS
      <3> QED
        BY <1>1, <3>1, <3>3, TableEdits
    <2>2. ASSUME NEW e \in EntryIds, TimelinePage!Delete(e) PROVE IsTable(entries')
      BY <1>1, <2>2 DEF TimelinePage!Delete, IsTable
    <2>3. CASE UNCHANGED entries
      BY <1>1, <2>3
    <2> QED
      BY <2>1, <2>2, <2>3 DEF TimelinePage!ChooseFilter, TimelinePage!Refetch
  <1> QED
    BY <1>1, <1>2, <1>3 DEF TimelineInductive, TablesOK, DialogOK, Accounted

LEMMA DialogSteps ==
    ASSUME TimelineInductive,
           \/ \E f \in EntryFiles : TimelinePage!AddFilesInDialog(f)
           \/ \E e \in EntryIds : TimelinePage!EditRequest(e)
           \/ TimelinePage!EditText
           \/ TimelinePage!Close
           \/ \E f \in EntryFiles : TimelinePage!DeleteAttachment(f)
           \/ \E a \in EntryAssets : TimelinePage!ToggleAsset(a)
    PROVE  TimelineInductive'
  <1>1. edit \in Dialogs /\ edit.files \in FileLists /\ TablesOK
    BY DEF TimelineInductive, Dialogs, DialogOK
  <1>2. ASSUME NEW f \in EntryFiles, TimelinePage!AddFilesInDialog(f) PROVE TimelineInductive'
    <2>1. Append(edit.files, f) \in FileLists
      BY <1>1, FilesIn
    <2> DEFINE d == [edit EXCEPT !.files = Append(@, f)]
    <2>2. d \in Dialogs /\ d.entry = edit.entry
      BY <1>1, <2>1 DEF Dialogs
    <2>3. edit' = d /\ edit.entry # 0
      BY <1>2 DEF TimelinePage!AddFilesInDialog, TimelinePage!None
    <2> HIDE DEF d
    <2>4. DialogOK'
      BY <2>2, <2>3 DEF DialogOK
    <2> QED
      BY <1>2, <2>4 DEF TimelinePage!AddFilesInDialog, TimelineInductive, TablesOK, IsTable, Accounted
  <1>3. ASSUME NEW e \in EntryIds, TimelinePage!EditRequest(e) PROVE TimelineInductive'
    <2>1. PICK known \in SUBSET EntryAssets :
            edit' = [TimelinePage!Closed EXCEPT !.entry = e, !.had = lSeen[e].files, !.linked = known]
      BY <1>3 DEF TimelinePage!EditRequest
    <2>2. e \in DOMAIN lSeen
      BY <1>3 DEF TimelinePage!EditRequest, TimelinePage!Listed
    <2>3. lSeen[e].files \in SUBSET EntryFiles
      BY <1>1, <2>2 DEF TablesOK, IsTable, EntryRecords
    <2>4. edit' \in Dialogs /\ edit'.entry = e
      BY <2>1, <2>3, ClosedIsDialog DEF Dialogs
    <2>5. DialogOK'
      BY <2>4, PagesFacts DEF DialogOK
    <2> QED
      BY <1>3, <2>5 DEF TimelinePage!EditRequest, TimelineInductive, TablesOK, IsTable, Accounted
  <1>4. CASE TimelinePage!EditText
    <2> DEFINE d == [edit EXCEPT !.changed = TRUE]
    <2>1. d \in Dialogs /\ d.entry = edit.entry
      BY <1>1 DEF Dialogs
    <2>2. edit' = d /\ edit.entry # 0
      BY <1>4 DEF TimelinePage!EditText, TimelinePage!None
    <2> HIDE DEF d
    <2>3. DialogOK'
      BY <2>1, <2>2 DEF DialogOK
    <2> QED
      BY <1>4, <2>3 DEF TimelinePage!EditText, TimelineInductive, TablesOK, IsTable, Accounted
  <1>5. CASE TimelinePage!Close
    <2>1. DialogOK'
      BY <1>5, ClosedIsDialog DEF DialogOK, TimelinePage!Close, TimelinePage!Closed
    <2> QED
      BY <1>5, <2>1 DEF TimelinePage!Close, TimelineInductive, TablesOK, IsTable, Accounted
  <1>6. ASSUME NEW f \in EntryFiles, TimelinePage!DeleteAttachment(f) PROVE TimelineInductive'
    <2>1. /\ edit.entry \in DOMAIN entries
          /\ entries' = [entries EXCEPT ![edit.entry].files = @ \ {f}]
      BY <1>6 DEF TimelinePage!DeleteAttachment
    <2>2. (entries[edit.entry].files \ {f}) \in SUBSET EntryFiles
      BY <1>1, <2>1 DEF TablesOK, IsTable, EntryRecords
    <2>3. IsTable(entries')
      BY <1>1, <2>1, <2>2, TableEdits DEF TablesOK
    <2> DEFINE d == [edit EXCEPT !.removed = @ \cup {f}]
    <2>4. d \in Dialogs /\ d.entry = edit.entry
      BY <1>1 DEF Dialogs
    <2>5. edit' = d
      BY <1>6 DEF TimelinePage!DeleteAttachment
    <2>6. edit.entry # 0
      BY <1>1, <2>1, PagesFacts DEF TablesOK, IsTable
    <2> HIDE DEF d
    <2>7. DialogOK' /\ TablesOK'
      BY <1>1, <1>6, <2>3, <2>4, <2>5, <2>6 DEF TimelinePage!DeleteAttachment, DialogOK, TablesOK
    <2> QED
      BY <1>6, <2>7 DEF TimelinePage!DeleteAttachment, TimelineInductive, Accounted
  <1>7. ASSUME NEW a \in EntryAssets, TimelinePage!ToggleAsset(a) PROVE TimelineInductive'
    <2> DEFINE d == [edit EXCEPT !.linked = (@ \ {a}) \cup ({a} \ @)]
               t == [entry |-> edit.entry, asset |-> a, on |-> a \notin edit.linked]
    <2>1. d \in Dialogs /\ d.entry = edit.entry /\ edit.entry \in EntryIds \cup {0}
      BY <1>1 DEF Dialogs
    <2>2. edit' = d /\ edit.entry # 0 /\ lToggles' = lToggles \cup {t}
      BY <1>7 DEF TimelinePage!ToggleAsset, TimelinePage!None
    <2>3. t \in LinkRequests
      BY <2>1, <2>2 DEF LinkRequests
    <2> HIDE DEF d, t
    <2>4. DialogOK'
      BY <2>1, <2>2 DEF DialogOK
    <2> QED
      BY <1>7, <2>2, <2>3, <2>4
         DEF TimelinePage!ToggleAsset, TimelineInductive, TablesOK, IsTable, Accounted
  <1> QED
    BY <1>2, <1>3, <1>4, <1>5, <1>6, <1>7

LEMMA LinkSteps ==
    ASSUME TimelineInductive, NEW t \in lToggles, TimelinePage!ToggleDone(t) \/ TimelinePage!ToggleFails(t)
    PROVE  TimelineInductive'
  <1>1. t \in LinkRequests /\ t.asset \in EntryAssets /\ edit \in Dialogs /\ DialogOK /\ TablesOK
    BY DEF TimelineInductive, DialogOK, LinkRequests
  <1>2. ASSUME NEW known \in SUBSET EntryAssets
        PROVE  [edit EXCEPT !.linked = known] \in Dialogs
               /\ [edit EXCEPT !.linked = known].entry = edit.entry
    BY <1>1 DEF Dialogs
  <1>3. CASE TimelinePage!ToggleDone(t)
    <2> DEFINE S == IF t.on THEN entries[t.entry].assets \cup {t.asset}
                    ELSE entries[t.entry].assets \ {t.asset}
    <2>1. /\ t.entry \in DOMAIN entries /\ entries' = [entries EXCEPT ![t.entry].assets = S]
          /\ t.entry # 0
      BY <1>1, <1>3, PagesFacts DEF TimelinePage!ToggleDone, TablesOK, IsTable
    <2>2. S \in SUBSET EntryAssets
      BY <1>1, <2>1 DEF TablesOK, IsTable, EntryRecords
    <2> HIDE DEF S
    <2>3. IsTable(entries')
      BY <1>1, <2>1, <2>2, TableEdits DEF TablesOK
    <2>4. entries'[t.entry].assets \in SUBSET EntryAssets
      BY <2>1, <2>3 DEF IsTable, EntryRecords
    <2>5. PICK known \in {edit.linked, entries'[t.entry].assets} :
            edit' = IF ~t.on /\ edit.entry = t.entry THEN [edit EXCEPT !.linked = known] ELSE edit
      BY <1>3 DEF TimelinePage!ToggleDone
    <2>6. known \in SUBSET EntryAssets
      BY <1>1, <2>4, <2>5 DEF Dialogs
    <2> DEFINE d == [edit EXCEPT !.linked = known]
    <2>7. d \in Dialogs /\ d.entry = edit.entry
      BY <1>1, <2>6 DEF Dialogs
    <2>8. edit' = IF ~t.on /\ edit.entry = t.entry THEN d ELSE edit
      BY <2>5
    <2> HIDE DEF d
    <2>9. DialogOK'
      BY <1>1, <2>1, <2>7, <2>8 DEF DialogOK
    <2>10. TablesOK'
      BY <1>1, <1>3, <2>3 DEF TimelinePage!ToggleDone, TablesOK
    <2> QED
      BY <1>3, <2>9, <2>10 DEF TimelinePage!ToggleDone, TimelineInductive, Accounted
  <1>4. CASE TimelinePage!ToggleFails(t)
    <2> DEFINE known == IF t.on THEN edit.linked \ {t.asset} ELSE edit.linked \cup {t.asset}
               d == [edit EXCEPT !.linked = known]
    <2>1. known \in SUBSET EntryAssets
      BY <1>1 DEF Dialogs
    <2> HIDE DEF known
    <2>2. d \in Dialogs /\ d.entry = edit.entry
      BY <1>1, <2>1 DEF Dialogs
    <2>3. edit' = IF edit.entry = 0 THEN edit ELSE d
      BY <1>4 DEF TimelinePage!ToggleFails, TimelinePage!None, known
    <2> HIDE DEF d
    <2>4. DialogOK'
      BY <1>1, <2>2, <2>3 DEF DialogOK
    <2> QED
      BY <1>4, <2>4 DEF TimelinePage!ToggleFails, TimelineInductive, TablesOK, IsTable, Accounted
  <1> QED
    BY <1>3, <1>4

LEMMA SaveSteps ==
    ASSUME TimelineInductive,
           \/ TimelinePage!Save
           \/ \E i \in DOMAIN edit.files : TimelinePage!RemoveFileInDialog(i)
           \/ \E v \in saves : TimelinePage!UpdateFails(v)
           \/ \E v \in saves : TimelinePage!Saved(v)
    PROVE  TimelineInductive'
  <1>1. /\ edit \in Dialogs /\ edit.files \in FileLists /\ TablesOK /\ saves \subseteq Saves
        /\ \A v \in saves : Accounted(v)
    BY DEF TimelineInductive, DialogOK, Dialogs
  <1>2. CASE TimelinePage!Save
    <2>1. edit.entry # 0 /\ TimelinePage!SubmitEdit(edit)
      BY <1>2 DEF TimelinePage!Save, TimelinePage!None
    <2>2. saves' \subseteq Saves /\ \A v \in saves' : v \in saves \/ Accounted(v)
      BY <1>1, <2>1, SubmitDialog
    <2> QED
      BY <1>2, <2>2 DEF TimelinePage!Save, TimelineInductive, TablesOK, IsTable, DialogOK, Accounted
  <1>3. ASSUME NEW i \in DOMAIN edit.files, TimelinePage!RemoveFileInDialog(i) PROVE TimelineInductive'
    <2> DEFINE d == [edit EXCEPT !.files = TimelinePage!RemoveAt(@, i)]
    <2>1. TimelinePage!RemoveAt(edit.files, i) \in FileLists
      BY <1>1, RemovingIsTyped
    <2>2. d \in Dialogs /\ d.entry = edit.entry
      BY <1>1, <2>1 DEF Dialogs
    <2>3. edit.entry # 0
      <3>1. edit.files # << >>
        <4> SUFFICES ASSUME edit.files = << >> PROVE FALSE
          OBVIOUS
        <4> QED
          OBVIOUS
      <3> QED
        BY <3>1, ClosedIsDialog DEF TimelineInductive, DialogOK
    <2>4. edit' = d /\ (TimelinePage!SubmitEdit(d) \/ UNCHANGED saves)
          /\ UNCHANGED <<entries, taken, lSeen, filter, add, creating, lJobs, lToggles>>
      BY <1>3 DEF TimelinePage!RemoveFileInDialog
    <2> HIDE DEF d
    <2>5. saves' \subseteq Saves /\ \A v \in saves' : v \in saves \/ Accounted(v)
      BY <1>1, <2>2, <2>3, <2>4, SubmitDialog
    <2>6. DialogOK'
      BY <2>2, <2>3, <2>4 DEF DialogOK
    <2> QED
      BY <2>4, <2>5, <2>6 DEF TimelineInductive, TablesOK, IsTable, Accounted
  <1>4. ASSUME NEW v \in saves, TimelinePage!UpdateFails(v) PROVE TimelineInductive'
    BY <1>4 DEF TimelinePage!UpdateFails, TimelineInductive, TablesOK, IsTable, DialogOK, Accounted
  <1>5. ASSUME NEW v \in saves, TimelinePage!Saved(v) PROVE TimelineInductive'
    <2>1. DialogOK'
      BY <1>5, ClosedIsDialog DEF DialogOK, TimelinePage!Saved, TimelinePage!Closed
    <2>2. TablesOK'
      BY <1>5 DEF TimelinePage!Saved, TimelineInductive, TablesOK, IsTable
    <2> QED
      BY <1>5, <2>1, <2>2 DEF TimelinePage!Saved, TimelineInductive, Accounted
  <1> QED
    BY <1>2, <1>3, <1>4, <1>5

LEMMA SavingSteps ==
    ASSUME TimelineInductive, NEW v \in saves,
           \/ TimelinePage!Update(v)
           \/ \E takes, answered \in BOOLEAN : TimelinePage!UploadNew(v, takes, answered)
    PROVE  TimelineInductive'
  <1>1. /\ v \in Saves /\ Accounted(v) /\ v.entry \in EntryIds /\ v.left \in FileLists
        /\ v.changed \in BOOLEAN /\ TablesOK
    BY DEF TimelineInductive, Saves
  <1>2. CASE TimelinePage!Update(v)
    <2> DEFINE w == [v EXCEPT !.updated = TRUE]
    <2>1. w \in Saves /\ w.left = v.left /\ w.sent = v.sent /\ w.failed = v.failed /\ w.entry = v.entry
      BY <1>1 DEF Saves
    <2>2. saves' = (saves \ {v}) \cup {w}
      BY <1>2 DEF TimelinePage!Update
    <2> HIDE DEF w
    <2>3. Accounted(w)
      BY <1>1, <2>1 DEF Accounted
    <2> DEFINE b == entries[v.entry].edited \/ v.changed
    <2>4. v.entry \in DOMAIN entries /\ entries' = [entries EXCEPT ![v.entry].edited = b]
          /\ lSeen' \in {entries, entries'} /\ UNCHANGED <<taken, filter, add, creating, lJobs, edit, lToggles>>
      BY <1>2 DEF TimelinePage!Update, TimelinePage!Fetched
    <2>5. b \in BOOLEAN
      OBVIOUS
    <2> HIDE DEF b
    <2>6. IsTable(entries')
      BY <1>1, <2>4, <2>5, TableEdits DEF TablesOK
    <2>7. TablesOK'
      BY <1>1, <2>4, <2>6 DEF TablesOK
    <2> QED
      BY <2>1, <2>2, <2>3, <2>4, <2>7 DEF TimelineInductive, DialogOK, Accounted
  <1>3. ASSUME NEW takes \in BOOLEAN, NEW answered \in BOOLEAN, TimelinePage!UploadNew(v, takes, answered)
        PROVE  TimelineInductive'
    <2> PICK ok \in BOOLEAN : ok = (takes /\ answered /\ v.entry \in DOMAIN entries)
      OBVIOUS
    <2> DEFINE k == TimelinePage!After(v, ok)
    <2>1. /\ v.left # << >> /\ TimelinePage!Store(v.entry, Head(v.left), takes)
          /\ saves' = (saves \ {v}) \cup {k}
          /\ UNCHANGED <<lSeen, add, creating, edit, lJobs, lToggles>>
      BY <1>3 DEF TimelinePage!UploadNew
    <2>2. Accounted(k)' /\ taken \subseteq taken'
      BY <1>1, <2>1, OneUpload
    <2>3. Head(v.left) \in EntryFiles /\ Tail(v.left) \in FileLists
      BY <1>1, <2>1, FilesIn, HeadAndTail
    <2>4. k \in Saves
      BY <1>1, <2>3 DEF TimelinePage!After, Saves
    <2>5. TablesOK'
      BY <1>1, <2>1, <2>3, StoringIsTyped DEF TimelineInductive
    <2> HIDE DEF k
    <2> QED
      BY <2>1, <2>2, <2>4, <2>5 DEF TimelineInductive, DialogOK, Accounted
  <1> QED
    BY <1>2, <1>3

LEMMA TimelineStep ==
    ASSUME TimelineInductive, TimelinePage!Next
    PROVE  TimelineInductive'
  BY TypingSteps, FormSteps, JobSteps, ListSteps, DialogSteps, LinkSteps, SaveSteps, SavingSteps, Zenon
     DEF TimelinePage!Next

LEMMA TimelineInit ==
    ASSUME TimelinePage!Init
    PROVE  TimelineInductive
  BY ClosedIsDialog, EmptyIsForm
     DEF TimelinePage!Init, TimelineInductive, TablesOK, IsTable, DialogOK

LEMMA TimelineHolds == PagesSpec => []TimelineInductive
  <1>1. PagesInit => TimelineInductive
    BY TimelineInit DEF PagesInit
  <1>2. ASSUME TimelineInductive, [PagesNext]_pagesVars PROVE TimelineInductive'
    <2>1. CASE TimelinePage!Next
      BY <1>2, <2>1, TimelineStep
    <2>2. CASE UNCHANGED timelineVars
      BY <1>2, <2>2 DEF timelineVars, TimelineInductive, TablesOK, IsTable, DialogOK, Accounted
    <2> QED
      BY <1>2, <2>1, <2>2, OnePageSteps
  <1> QED
    BY <1>1, <1>2, PTL DEF PagesSpec

(* What the loops promise, of every list of files and of every interleaving. *)
THEOREM FilesAreAccountedFor == PagesSpec => []EveryFileIsAccountedFor
  <1>1. TimelineInductive => EveryFileIsAccountedFor
    BY DEF TimelineInductive, Accounted, EveryFileIsAccountedFor, TimelinePage!EveryFileIsAccountedFor
  <1> QED
    BY <1>1, TimelineHolds, PTL

-----------------------------------------------------------------------------
(* The organisation's settings.  The form shows the settings the tab has    *)
(* until somebody types, and an answer that equals them changes neither.    *)

FormShows ==
    oCache # OrgFormPage!Unknown =>
        oForm \in OrgFormPage!Forms /\ (~touched => oForm = OrgFormPage!Filled(oCache))
ReadsAreSettings == \A p \in puts : p.at # "sent" => p.read \in OrgFormPage!Orgs
OrgInductive == OrgFormPage!TypeOK /\ FormShows /\ ReadsAreSettings

Filling == [text : OrgTexts \cup {""}, minutes : OrgMinutes \cup {0}]
LEMMA OrgParts ==
    OrgFormPage!TypeOK <=>
        /\ org \in OrgFormPage!Orgs /\ oCache \in OrgFormPage!Orgs \cup {OrgFormPage!Unknown}
        /\ oForm \in Filling /\ touched \in BOOLEAN
        /\ source \in OrgFormPage!Sources \cup {"left"} /\ asking \in BOOLEAN
        /\ puts \subseteq OrgFormPage!Puts
  BY DEF OrgFormPage!TypeOK, Filling

LEMMA PatchedIsSettings ==
    ASSUME NEW o \in OrgFormPage!Orgs, NEW patch \in OrgFormPage!Patches
    PROVE  OrgFormPage!Patched(o, patch) \in OrgFormPage!Orgs
  <1>1. patch.text = {} \/ (CHOOSE x \in patch.text : TRUE) \in OrgTexts
    BY DEF OrgFormPage!Patches, OrgFormPage!None
  <1>2. patch.minutes = {} \/ (CHOOSE x \in patch.minutes : TRUE) \in OrgMinutes \cup {0}
    BY DEF OrgFormPage!Patches, OrgFormPage!None
  <1>3. patch.mfa = {} \/ (CHOOSE x \in patch.mfa : TRUE) \in BOOLEAN
    BY DEF OrgFormPage!Patches, OrgFormPage!None
  <1> QED
    BY <1>1, <1>2, <1>3 DEF OrgFormPage!Patched, OrgFormPage!Orgs, OrgFormPage!None

(* A field is the one of the patch, or stays. *)
LEMMA PatchedField ==
    ASSUME NEW o, NEW patch \in OrgFormPage!Patches, NEW f \in {"text", "minutes", "mfa"}
    PROVE  \/ patch[f] = {OrgFormPage!Patched(o, patch)[f]}
           \/ patch[f] = {} /\ OrgFormPage!Patched(o, patch)[f] = o[f]
  <1>1. patch[f] = {} \/ \E x : patch[f] = {x}
    BY DEF OrgFormPage!Patches, OrgFormPage!None
  <1> DEFINE Field(g) == IF patch[g] = {} THEN o[g] ELSE CHOOSE x \in patch[g] : TRUE
  <1>2. OrgFormPage!Patched(o, patch)
          = [text |-> Field("text"), minutes |-> Field("minutes"), mfa |-> Field("mfa")]
    BY Zenon DEF OrgFormPage!Patched, OrgFormPage!None
  <1> HIDE DEF Field
  <1>3. OrgFormPage!Patched(o, patch)[f] = Field(f)
    BY <1>2
  <1>4. OrgFormPage!Patched(o, patch)[f] = IF patch[f] = {} THEN o[f] ELSE CHOOSE x \in patch[f] : TRUE
    BY <1>3 DEF Field
  <1>5. \A x : (CHOOSE y \in {x} : TRUE) = x
    OBVIOUS
  <1> HIDE DEF OrgFormPage!Patched
  <1> QED
    BY <1>1, <1>4, <1>5

LEMMA PatchesSent ==
    /\ \A f \in OrgFormPage!Forms : OrgFormPage!SavedPatch(f) \in OrgFormPage!Patches
    /\ \A b \in BOOLEAN : [OrgFormPage!NoPatch EXCEPT !.mfa = {b}] \in OrgFormPage!Patches
    /\ \A m \in OrgMinutes \cup {0} : [OrgFormPage!NoPatch EXCEPT !.minutes = {m}] \in OrgFormPage!Patches
    /\ \A t \in OrgTexts : [OrgFormPage!NoPatch EXCEPT !.text = {t}] \in OrgFormPage!Patches
  BY DEF OrgFormPage!SavedPatch, OrgFormPage!NoPatch, OrgFormPage!None,
         OrgFormPage!Patches, OrgFormPage!Forms

LEMMA PuttingIsTyped ==
    ASSUME OrgInductive, NEW mine \in BOOLEAN, NEW patch \in OrgFormPage!Patches,
           puts' = puts \cup {[mine |-> mine, patch |-> patch, read |-> OrgFormPage!Unknown,
                               at |-> "sent"]}
    PROVE  puts' \subseteq OrgFormPage!Puts /\ ReadsAreSettings'
  <1>1. puts \subseteq OrgFormPage!Puts /\ ReadsAreSettings
    BY OrgParts DEF OrgInductive
  <1> DEFINE p == [mine |-> mine, patch |-> patch, read |-> OrgFormPage!Unknown, at |-> "sent"]
  <1>2. p \in OrgFormPage!Puts /\ p.at = "sent"
    BY DEF OrgFormPage!Puts
  <1> HIDE DEF p
  <1>3. puts' = puts \cup {p}
    BY DEF p
  <1> QED
    BY <1>1, <1>2, <1>3 DEF ReadsAreSettings

LEMMA Learning ==
    ASSUME OrgInductive, NEW o \in OrgFormPage!Orgs, OrgFormPage!Learn(o)
    PROVE  /\ oCache' \in OrgFormPage!Orgs \cup {OrgFormPage!Unknown} /\ touched' \in BOOLEAN
           /\ oForm' \in Filling /\ FormShows'
  <1>1. CASE o = oCache
    BY <1>1, OrgParts DEF OrgInductive, OrgFormPage!Learn, FormShows
  <1>2. CASE o # oCache
    <2>1. oCache' = o /\ oForm' = OrgFormPage!Filled(o) /\ touched' = FALSE
      BY <1>2 DEF OrgFormPage!Learn
    <2>2. o.text \in OrgTexts /\ o.minutes \in OrgMinutes \cup {0}
      BY DEF OrgFormPage!Orgs
    <2>3. OrgFormPage!Filled(o) \in Filling
      BY <2>2 DEF OrgFormPage!Filled, Filling
    <2>4. OrgFormPage!Filled(o) \in OrgFormPage!Forms
      BY <2>2 DEF OrgFormPage!Filled, OrgFormPage!Forms
    <2> QED
      BY <2>1, <2>3, <2>4 DEF FormShows
  <1> QED
    BY <1>1, <1>2

LEMMA OrgStep ==
    ASSUME OrgInductive, OrgFormPage!Next
    PROVE  OrgInductive'
  <1>0. /\ org \in OrgFormPage!Orgs /\ oCache \in OrgFormPage!Orgs \cup {OrgFormPage!Unknown}
        /\ oForm \in Filling /\ touched \in BOOLEAN
        /\ source \in OrgFormPage!Sources \cup {"left"} /\ asking \in BOOLEAN
        /\ puts \subseteq OrgFormPage!Puts /\ FormShows /\ ReadsAreSettings
    BY OrgParts DEF OrgInductive
  (* Requests come, go and move on, and what the tab shows stays. *)
  <1>1. ASSUME UNCHANGED <<oCache, oForm, touched>>, org' \in OrgFormPage!Orgs,
               source' \in OrgFormPage!Sources \cup {"left"}, asking' \in BOOLEAN,
               puts' \subseteq OrgFormPage!Puts, ReadsAreSettings'
        PROVE  OrgInductive'
    <2>1. FormShows'
      BY <1>0, <1>1 DEF FormShows
    <2>2. OrgFormPage!TypeOK'
      <3>1. /\ oCache' \in OrgFormPage!Orgs \cup {OrgFormPage!Unknown} /\ oForm' \in Filling
            /\ touched' \in BOOLEAN
        BY <1>0, <1>1
      <3> QED
        BY <1>1, <3>1 DEF OrgFormPage!TypeOK, Filling
    <2> QED
      BY <1>1, <2>1, <2>2 DEF OrgInductive
  <1>2. ASSUME UNCHANGED <<org, source>>, asking' \in BOOLEAN, NEW o \in OrgFormPage!Orgs,
               OrgFormPage!Learn(o), puts' \subseteq puts
        PROVE  OrgInductive'
    <2>1. /\ oCache' \in OrgFormPage!Orgs \cup {OrgFormPage!Unknown} /\ touched' \in BOOLEAN
          /\ oForm' \in Filling /\ FormShows'
      BY <1>2, Learning
    <2>2. puts' \subseteq OrgFormPage!Puts /\ ReadsAreSettings'
      BY <1>0, <1>2 DEF ReadsAreSettings
    <2>3. OrgFormPage!TypeOK'
      BY <1>0, <1>2, <2>1, <2>2 DEF OrgFormPage!TypeOK, Filling
    <2> QED
      BY <2>1, <2>2, <2>3 DEF OrgInductive
  <1>3. ASSUME UNCHANGED <<oCache, oForm, touched, org, source>>, asking' \in BOOLEAN,
               NEW mine \in BOOLEAN, NEW patch \in OrgFormPage!Patches, OrgFormPage!Put(mine, patch)
        PROVE  OrgInductive'
    <2>1. puts' \subseteq OrgFormPage!Puts /\ ReadsAreSettings'
      BY <1>3, PuttingIsTyped DEF OrgFormPage!Put
    <2> QED
      BY <1>0, <1>1, <1>3, <2>1
  <1>4. ASSUME UNCHANGED <<oCache, oForm, touched, org, puts>>, asking' \in BOOLEAN,
               source' \in OrgFormPage!Sources \cup {"left"}
        PROVE  OrgInductive'
    <2>1. ReadsAreSettings'
      BY <1>0, <1>4 DEF ReadsAreSettings
    <2> QED
      BY <1>0, <1>1, <1>4, <2>1
  <1>5. CASE OrgFormPage!Fetch
    BY <1>0, <1>2, <1>5 DEF OrgFormPage!Fetch
  <1>6. ASSUME NEW f \in OrgFormPage!Forms, OrgFormPage!Edit(f) PROVE OrgInductive'
    <2>1. /\ UNCHANGED <<org, oCache, source, asking, puts>> /\ oForm' = f /\ touched' = TRUE
      BY <1>6 DEF OrgFormPage!Edit
    <2>2. f \in Filling
      BY DEF OrgFormPage!Forms, Filling
    <2>3. OrgFormPage!TypeOK'
      BY <1>0, <2>1, <2>2 DEF OrgFormPage!TypeOK, Filling
    <2>4. FormShows' /\ ReadsAreSettings'
      BY <1>0, <2>1 DEF FormShows, ReadsAreSettings
    <2> QED
      BY <2>3, <2>4 DEF OrgInductive
  <1>7. ASSUME NEW s \in OrgFormPage!Sources, OrgFormPage!ChooseSource(s) PROVE OrgInductive'
    BY <1>0, <1>4, <1>7 DEF OrgFormPage!ChooseSource
  <1>8. CASE OrgFormPage!ConfigureSSO \/ OrgFormPage!Dismiss
    BY <1>0, <1>4, <1>8 DEF OrgFormPage!ConfigureSSO, OrgFormPage!Dismiss
  <1>9. CASE OrgFormPage!Save
    <2>1. oForm \in OrgFormPage!Forms
      BY <1>0, <1>9 DEF OrgFormPage!Save, FormShows
    <2> QED
      BY <1>0, <1>3, <1>9, <2>1, PatchesSent DEF OrgFormPage!Save
  <1>10. CASE OrgFormPage!Toggle
    <2>1. CASE oCache.mfa
      BY <1>0, <1>3, <1>10, <2>1, PatchesSent DEF OrgFormPage!Toggle
    <2>2. CASE ~oCache.mfa
      BY <1>0, <1>4, <1>10, <2>2 DEF OrgFormPage!Toggle
    <2> QED
      BY <2>1, <2>2
  <1>11. CASE OrgFormPage!Enable
    BY <1>0, <1>3, <1>11, PatchesSent DEF OrgFormPage!Enable
  <1>12. ASSUME NEW f \in OrgFormPage!Forms, OrgFormPage!Elsewhere(OrgFormPage!SavedPatch(f))
         PROVE  OrgInductive'
    BY <1>0, <1>3, <1>12, PatchesSent DEF OrgFormPage!Elsewhere
  <1>13. ASSUME NEW b \in BOOLEAN, OrgFormPage!Elsewhere([OrgFormPage!NoPatch EXCEPT !.mfa = {b}])
         PROVE  OrgInductive'
    BY <1>0, <1>3, <1>13, PatchesSent DEF OrgFormPage!Elsewhere
  <1>18. ASSUME NEW m \in OrgMinutes \cup {0},
                OrgFormPage!Elsewhere([OrgFormPage!NoPatch EXCEPT !.minutes = {m}])
         PROVE  OrgInductive'
    BY <1>0, <1>3, <1>18, PatchesSent DEF OrgFormPage!Elsewhere
  <1>19. ASSUME NEW t \in OrgTexts, OrgFormPage!Elsewhere([OrgFormPage!NoPatch EXCEPT !.text = {t}])
         PROVE  OrgInductive'
    BY <1>0, <1>3, <1>19, PatchesSent DEF OrgFormPage!Elsewhere
  <1>14. ASSUME NEW p \in puts, OrgFormPage!Read(p) PROVE OrgInductive'
    <2> DEFINE q == [p EXCEPT !.at = "read", !.read = org]
    <2>1. puts' = (puts \ {p}) \cup {q} /\ UNCHANGED <<org, oCache, oForm, touched, source, asking>>
      BY <1>14 DEF OrgFormPage!Read
    <2>2. q \in OrgFormPage!Puts /\ q.read = org
      BY <1>0 DEF OrgFormPage!Puts
    <2> HIDE DEF q
    <2>3. puts' \subseteq OrgFormPage!Puts /\ ReadsAreSettings'
      BY <1>0, <2>1, <2>2 DEF ReadsAreSettings
    <2> QED
      BY <1>0, <1>1, <2>1, <2>3
  <1>20. ASSUME NEW p \in puts, OrgFormPage!Refuse(p) PROVE OrgInductive'
    <2> DEFINE q == [p EXCEPT !.at = "refused", !.read = org]
    <2>1. puts' \subseteq puts \cup {q} /\ UNCHANGED <<org, oCache, oForm, touched, source, asking>>
      BY <1>20 DEF OrgFormPage!Refuse
    <2>2. q \in OrgFormPage!Puts /\ q.read = org
      BY <1>0 DEF OrgFormPage!Puts
    <2> HIDE DEF q
    <2>3. puts' \subseteq OrgFormPage!Puts /\ ReadsAreSettings'
      BY <1>0, <2>1, <2>2 DEF ReadsAreSettings
    <2> QED
      BY <1>0, <1>1, <2>1, <2>3
  <1>15. ASSUME NEW p \in puts, OrgFormPage!Write(p) PROVE OrgInductive'
    <2> DEFINE mine == OrgFormPage!Patched(p.read, p.patch)
               q == [p EXCEPT !.at = "done", !.read = mine]
    <2>1. /\ puts' \subseteq puts \cup {q} /\ p.at = "read"
          /\ UNCHANGED <<oCache, oForm, touched, source, asking>>
          /\ \E o \in {org, mine} : \E t \in {org.text, mine.text} : org' = [o EXCEPT !.text = t]
      BY <1>15 DEF OrgFormPage!Write
    <2>2. p.read \in OrgFormPage!Orgs /\ p.patch \in OrgFormPage!Patches
      BY <1>0, <2>1 DEF OrgFormPage!Puts, ReadsAreSettings
    <2>3. mine \in OrgFormPage!Orgs
      BY <2>2, PatchedIsSettings
    <2> HIDE DEF mine
    <2>4. org' \in OrgFormPage!Orgs
      BY <1>0, <2>1, <2>3 DEF OrgFormPage!Orgs
    <2>5. q \in OrgFormPage!Puts /\ q.read = mine
      BY <1>0, <2>3 DEF OrgFormPage!Puts
    <2> HIDE DEF q
    <2>6. puts' \subseteq OrgFormPage!Puts /\ ReadsAreSettings'
      BY <1>0, <2>1, <2>3, <2>5 DEF ReadsAreSettings
    <2> QED
      BY <1>0, <1>1, <2>1, <2>4, <2>6
  <1>16. ASSUME NEW p \in puts, OrgFormPage!Answer(p) PROVE OrgInductive'
    <2>1. p.read \in OrgFormPage!Orgs /\ OrgFormPage!Learn(p.read)
      BY <1>0, <1>16 DEF OrgFormPage!Answer, ReadsAreSettings
    <2>2. puts' \subseteq puts /\ UNCHANGED <<org, source>> /\ asking' \in BOOLEAN
      BY <1>0, <1>16 DEF OrgFormPage!Answer
    <2> QED
      BY <1>2, <2>1, <2>2
  <1>17. ASSUME NEW p \in puts, OrgFormPage!Fail(p) PROVE OrgInductive'
    <2>1. puts' \subseteq puts /\ UNCHANGED <<org, oCache, oForm, touched, source, asking>>
      BY <1>17 DEF OrgFormPage!Fail
    <2>2. puts' \subseteq OrgFormPage!Puts /\ ReadsAreSettings'
      BY <1>0, <2>1 DEF ReadsAreSettings
    <2> QED
      BY <1>0, <1>1, <2>1, <2>2
  <1> QED
    BY <1>5, <1>6, <1>7, <1>8, <1>9, <1>10, <1>11, <1>12, <1>13, <1>14, <1>15, <1>16, <1>17, <1>18,
       <1>19, <1>20
       DEF OrgFormPage!Next

LEMMA OrgInit == OrgFormPage!Init => OrgInductive
  <1> SUFFICES ASSUME OrgFormPage!Init PROVE OrgInductive
    OBVIOUS
  <1>1. oForm \in Filling
    BY DEF OrgFormPage!Init, Filling
  <1>2. /\ org \in OrgFormPage!Orgs /\ oCache = OrgFormPage!Unknown /\ touched = FALSE
        /\ source = "local" /\ asking = FALSE /\ puts = {}
    BY DEF OrgFormPage!Init
  <1>3. OrgFormPage!TypeOK
    BY <1>1, <1>2, OrgParts DEF OrgFormPage!Sources
  <1> QED
    BY <1>2, <1>3 DEF OrgInductive, FormShows, ReadsAreSettings

Unasked ==
    /\ org'.text # org.text => \E p \in puts : p.patch.text = {org'.text}
    /\ \A f \in {"minutes", "mfa"} : org'[f] # org[f] =>
          \E p \in puts : p.at = "read" /\ (p.patch[f] = {org'[f]} \/ p.read[f] = org'[f])

LEMMA WritesWhatIsAsked ==
    ASSUME OrgInductive, NEW p \in puts, OrgFormPage!Write(p)
    PROVE  Unasked
  <1> DEFINE mine == OrgFormPage!Patched(p.read, p.patch)
  <1>1. /\ p.at = "read" /\ p.patch \in OrgFormPage!Patches /\ p.read \in OrgFormPage!Orgs
        /\ org \in OrgFormPage!Orgs
    BY OrgParts DEF OrgInductive, OrgFormPage!Puts, ReadsAreSettings, OrgFormPage!Write
  <1>2. mine \in OrgFormPage!Orgs
    BY <1>1, PatchedIsSettings
  <1>3. \A f \in {"text", "minutes", "mfa"} : p.patch[f] = {mine[f]} \/ mine[f] = p.read[f]
    BY <1>1, PatchedField
  <1>4. /\ org'.text = IF mine.text = p.read.text THEN org.text ELSE mine.text
        /\ org'.minutes \in {org.minutes, mine.minutes} /\ org'.mfa \in {org.mfa, mine.mfa}
    <2>1. \E o \in {org, mine} : org' = [o EXCEPT !.text =
                                    IF mine.text = p.read.text THEN org.text ELSE mine.text]
      BY DEF OrgFormPage!Write
    <2> HIDE DEF mine
    <2> QED
      BY <1>1, <1>2, <2>1 DEF OrgFormPage!Orgs
  <1> HIDE DEF mine
  <1>5. org'.text # org.text => p.patch.text = {org'.text}
    BY <1>3, <1>4
  <1>6. ASSUME NEW f \in {"minutes", "mfa"}, org'[f] # org[f]
        PROVE  p.patch[f] = {org'[f]} \/ p.read[f] = org'[f]
    BY <1>3, <1>4, <1>6
  <1> QED
    BY <1>1, <1>5, <1>6 DEF Unasked

LEMMA OrgChanges ==
    ASSUME OrgInductive, OrgFormPage!Next
    PROVE  Unasked
  <1>1. CASE UNCHANGED org
    BY <1>1 DEF Unasked
  <1>2. UNCHANGED org \/ \E p \in puts : OrgFormPage!Write(p)
    BY DEF OrgFormPage!Next, OrgFormPage!Fetch, OrgFormPage!Edit, OrgFormPage!ChooseSource,
       OrgFormPage!ConfigureSSO, OrgFormPage!Save, OrgFormPage!Toggle, OrgFormPage!Enable,
       OrgFormPage!Dismiss, OrgFormPage!Elsewhere, OrgFormPage!Read, OrgFormPage!Refuse,
       OrgFormPage!Answer, OrgFormPage!Fail
  <1> QED
    BY <1>1, <1>2, WritesWhatIsAsked

LEMMA OrgHolds == PagesSpec => []OrgInductive
  <1>1. PagesInit => OrgInductive
    BY OrgInit DEF PagesInit
  <1>2. ASSUME OrgInductive, [PagesNext]_pagesVars PROVE OrgInductive'
    <2>1. CASE OrgFormPage!Next
      BY <1>2, <2>1, OrgStep
    <2>2. CASE UNCHANGED orgFormVars
      BY <1>2, <2>2, Zenon DEF orgFormVars, OrgInductive, FormShows, ReadsAreSettings, OrgFormPage!TypeOK
    <2> QED
      BY <1>2, <2>1, <2>2, OnePageSteps
  <1> QED
    BY <1>1, <1>2, PTL DEF PagesSpec

(* The name, the limits and the MFA requirement only change to what some    *)
(* request asks for, or, as far as they share a column, back to what one    *)
(* read: however many requests overlap, and whichever are refused or fail.  *)
THEOREM SettingsAreAskedFor == PagesSpec => UnaskedSettingsStay
  <1>1. OrgInductive /\ [PagesNext]_pagesVars => [Unasked]_OrgFormPage!vars
    <2> SUFFICES ASSUME OrgInductive, [PagesNext]_pagesVars PROVE [Unasked]_OrgFormPage!vars
      OBVIOUS
    <2>1. CASE OrgFormPage!Next
      BY <2>1, OrgChanges
    <2>2. CASE UNCHANGED orgFormVars
      BY <2>2 DEF orgFormVars, Unasked
    <2> QED
      BY <2>1, <2>2, OnePageSteps
  <1>2. [][Unasked]_OrgFormPage!vars => UnaskedSettingsStay
    BY DEF Unasked, UnaskedSettingsStay, OrgFormPage!UnaskedSettingsStay
  <1> QED
    BY <1>1, <1>2, OrgHolds, PTL DEF PagesSpec

-----------------------------------------------------------------------------
(* Tasks.  However old what a request read is when it writes, it writes the *)
(* mark of completion that goes with the status it writes, or nothing.      *)

PanelInductive ==
    /\ TaskPanelPage!TypeOK
    /\ fetch.at = "read" => fetch.list \in [Tasks -> BOOLEAN]
    /\ \A g \in pToggles : /\ g.done \in BOOLEAN /\ g.task \in Tasks
                           /\ g.mine => g.previous \in [Tasks -> BOOLEAN]
    /\ TaskPanelPage!SignedOff

LEMMA PanelStep ==
    ASSUME PanelInductive, TaskPanelPage!Next
    PROVE  PanelInductive'
  <1> USE DEF PanelInductive, TaskPanelPage!SignedOff, TaskPanelPage!TypeOK, TaskPanelPage!TaskRows
  <1>1. ASSUME NEW t \in Tasks, TaskPanelPage!ToggleTask(t) PROVE PanelInductive'
    <2>1. panel' \in [Tasks -> BOOLEAN] /\ fetch'.at = "none" /\ UNCHANGED tasks
      BY <1>1 DEF TaskPanelPage!ToggleTask, TaskPanelPage!NoFetch
    <2> DEFINE g == [n |-> clicks', mine |-> TRUE, task |-> t, done |-> ~panel[t],
                     previous |-> panel, at |-> "sent"]
    <2>2. pToggles' = pToggles \cup {g}
      BY <1>1 DEF TaskPanelPage!ToggleTask
    <2>3. g.task = t /\ g.done \in BOOLEAN /\ g.previous = panel
      OBVIOUS
    <2> HIDE DEF g
    <2> QED
      BY <2>1, <2>2, <2>3
  <1>2. ASSUME NEW t \in Tasks, NEW done \in BOOLEAN, TaskPanelPage!OtherToggle(t, done)
        PROVE  PanelInductive'
    BY <1>2 DEF TaskPanelPage!OtherToggle
  <1>3. ASSUME NEW g \in pToggles, TaskPanelPage!Read(g) PROVE PanelInductive'
    BY <1>3 DEF TaskPanelPage!Read, TaskPanelPage!Advance
  <1>4. ASSUME NEW g \in pToggles, TaskPanelPage!Answer(g) PROVE PanelInductive'
    <2>1. UNCHANGED <<tasks, panel>> 
          /\ (fetch'.at = "wanted" \/ fetch' = fetch)
      BY <1>4 DEF TaskPanelPage!Answer, TaskPanelPage!Invalidate
    <2> DEFINE h == [g EXCEPT !.at = "answered"]
    <2>2. h.done = g.done /\ h.task = g.task /\ h.mine = g.mine /\ h.previous = g.previous
      OBVIOUS
    <2>3. pToggles' = (pToggles \ {g}) \cup {h}
      BY <1>4 DEF TaskPanelPage!Answer, TaskPanelPage!Advance
    <2> HIDE DEF h
    <2> QED
      BY <2>1, <2>2, <2>3
  <1>5. ASSUME NEW g \in pToggles, TaskPanelPage!Commit(g) PROVE PanelInductive'
    <2>1. TaskPanelPage!Written(g) \in [done : BOOLEAN, completed : BOOLEAN]
          /\ (TaskPanelPage!Written(g).done <=> TaskPanelPage!Written(g).completed)
      BY DEF TaskPanelPage!Written
    <2> QED
      BY <1>5, <2>1 DEF TaskPanelPage!Commit
  <1>6. ASSUME NEW g \in pToggles, TaskPanelPage!Fail(g) PROVE PanelInductive'
    BY <1>6 DEF TaskPanelPage!Fail, TaskPanelPage!Invalidate
  <1>7. CASE TaskPanelPage!ReadList
    BY <1>7 DEF TaskPanelPage!ReadList
  <1>8. CASE TaskPanelPage!ShowList
    BY <1>8 DEF TaskPanelPage!ShowList, TaskPanelPage!NoFetch
  <1> QED
    BY <1>1, <1>2, <1>3, <1>4, <1>5, <1>6, <1>7, <1>8 DEF TaskPanelPage!Next

-----------------------------------------------------------------------------
(* The head of an incident.  A disposition and the two times are set and    *)
(* never taken back, so a request that found them when it read the row may  *)
(* count on them when it writes: what it does not write is there.           *)

Dated(early, late) ==
    /\ early.disposition # DeskPage!None => late.disposition # DeskPage!None
    /\ early.closed_at => late.closed_at
    /\ early.contained_at => late.contained_at

PatchOK(p) ==
    /\ DOMAIN p \subseteq {"title", "severity", "status", "disposition", "assigned_to"}
    /\ "title" \in DOMAIN p => p["title"] \in Titles
    /\ "severity" \in DOMAIN p => p["severity"] \in Severities
    /\ "status" \in DOMAIN p => p["status"] \in DeskPage!Statuses
    /\ "disposition" \in DOMAIN p => p["disposition"] \in Dispositions
    /\ "assigned_to" \in DOMAIN p => p["assigned_to"] \in Assignees

RequestOK(r) ==
    /\ PatchOK(r.patch)
    /\ r.at \in {"read", "answered"} =>
          r.row \in DeskPage!Rows /\ DeskPage!MayApplyTo(r, r.row) /\ Dated(r.row, inc)

DeskInductive ==
    /\ DeskPage!TypeOK /\ DeskPage!SignedOff
    /\ dEditor.editing => dEditor.draft \in Titles
    /\ \A r \in dRequests : RequestOK(r)

LEMMA RowAfter ==
    ASSUME NEW r, PatchOK(r.patch), r.row \in DeskPage!Rows, DeskPage!MayApplyTo(r, r.row),
           Dated(r.row, inc), inc \in DeskPage!Rows, DeskPage!SignedOff
    PROVE  LET row == DeskPage!Written(r) IN
           /\ row \in DeskPage!Rows /\ Dated(inc, row)
           /\ row.status = "closed" => row.disposition # DeskPage!None /\ row.closed_at
           /\ row.status = "contained" => row.contained_at
  <1> DEFINE F == {"title", "severity", "status", "disposition", "assigned_to",
                   "contained_at", "closed_at"}
             w == DeskPage!Written(r)
             a == DeskPage!Assigned(r)
             p == r.patch
  <1>1. DOMAIN inc = F /\ DOMAIN r.row = F
    BY DEF DeskPage!Rows
  <1>2. \A f \in F : a[f] =
           IF f \in DOMAIN p THEN p[f]
           ELSE IF "status" \in DOMAIN p /\ p["status"] = "contained" /\ f = "contained_at" THEN TRUE
           ELSE IF "status" \in DOMAIN p /\ p["status"] = "closed" /\ f = "closed_at" THEN TRUE
           ELSE r.row[f]
    BY <1>1 DEF DeskPage!Assigned
  <1>3. w = [f \in F |-> IF a[f] # r.row[f] THEN a[f] ELSE inc[f]]
    BY <1>1 DEF DeskPage!Written, DeskPage!Columns
  <1>4. \A f \in F : w[f] = IF a[f] # r.row[f] THEN a[f] ELSE inc[f]
    BY <1>3
  <1> HIDE DEF a
  <1>5. /\ w.title \in Titles /\ w.severity \in Severities /\ w.status \in DeskPage!Statuses
        /\ w.assigned_to \in Assignees \cup {DeskPage!None}
    BY <1>2, <1>4 DEF DeskPage!Rows, PatchOK
  <1>6. /\ w.disposition = inc.disposition \/ w.disposition \in Dispositions
        /\ "disposition" \in DOMAIN p /\ w.disposition = inc.disposition
              => inc.disposition # DeskPage!None
    <2>1. w.disposition = IF a.disposition # r.row.disposition THEN a.disposition ELSE inc.disposition
      BY <1>4
    <2>2. a.disposition = IF "disposition" \in DOMAIN p THEN p["disposition"] ELSE r.row.disposition
      BY <1>2
    <2> QED
      BY <2>1, <2>2, PagesFacts DEF DeskPage!None, PatchOK, Dated
  <1>7. /\ w.closed_at = inc.closed_at \/ w.closed_at = TRUE
        /\ w.contained_at = inc.contained_at \/ w.contained_at = TRUE
    <2>1. /\ w.closed_at = IF a.closed_at # r.row.closed_at THEN a.closed_at ELSE inc.closed_at
          /\ w.contained_at = IF a.contained_at # r.row.contained_at THEN a.contained_at
                              ELSE inc.contained_at
      BY <1>4
    <2>2. /\ "closed_at" \in DOMAIN p => p["closed_at"] = TRUE
          /\ "contained_at" \in DOMAIN p => p["contained_at"] = TRUE
      BY DEF PatchOK
    <2>3. a.closed_at = TRUE \/ a.closed_at = r.row.closed_at
      BY <1>2, <2>2
    <2>4. a.contained_at = TRUE \/ a.contained_at = r.row.contained_at
      BY <1>2, <2>2
    <2> QED
      BY <2>1, <2>3, <2>4
  <1>8. w.status = inc.status \/ (w.status = p["status"] /\ "status" \in DOMAIN p)
    BY <1>2, <1>4
  <1>9. ASSUME "status" \in DOMAIN p, p["status"] = "closed" PROVE w.closed_at
    <2>1. a.closed_at = TRUE
      BY <1>2, <1>9 DEF PatchOK
    <2>2. r.row.closed_at \in BOOLEAN /\ inc.closed_at \in BOOLEAN
      BY DEF DeskPage!Rows
    <2>3. w.closed_at = IF a.closed_at # r.row.closed_at THEN a.closed_at ELSE inc.closed_at
      BY <1>4
    <2> QED
      BY <2>1, <2>2, <2>3 DEF Dated
  <1>10. ASSUME "status" \in DOMAIN p, p["status"] = "contained" PROVE w.contained_at
    <2>1. a.contained_at = TRUE
      BY <1>2, <1>10 DEF PatchOK
    <2>2. r.row.contained_at \in BOOLEAN /\ inc.contained_at \in BOOLEAN
      BY DEF DeskPage!Rows
    <2>3. w.contained_at = IF a.contained_at # r.row.contained_at THEN a.contained_at ELSE inc.contained_at
      BY <1>4
    <2> QED
      BY <2>1, <2>2, <2>3 DEF Dated
  <1>11. ASSUME "status" \in DOMAIN p, p["status"] = "closed"
         PROVE  w.disposition # DeskPage!None
    BY <1>6, <1>11, PagesFacts DEF Dated, DeskPage!MayApplyTo, DeskPage!None
  <1>12. Dated(inc, w)
    BY <1>6, <1>7, PagesFacts DEF Dated, DeskPage!None
  <1>13. w \in DeskPage!Rows
    <2>1. w.disposition \in Dispositions \cup {DeskPage!None}
      BY <1>6 DEF DeskPage!Rows
    <2>2. w.closed_at \in BOOLEAN /\ w.contained_at \in BOOLEAN
      BY <1>7 DEF DeskPage!Rows
    <2>3. w = [title |-> w.title, severity |-> w.severity, status |-> w.status,
               disposition |-> w.disposition, assigned_to |-> w.assigned_to,
               contained_at |-> w.contained_at, closed_at |-> w.closed_at]
      BY <1>3
    <2> HIDE DEF w
    <2> QED
      BY <1>5, <2>1, <2>2, <2>3 DEF DeskPage!Rows
  <1> HIDE DEF w
  <1>14. w.status = "closed" => w.disposition # DeskPage!None /\ w.closed_at
    BY <1>7, <1>8, <1>9, <1>11, <1>12 DEF Dated, DeskPage!SignedOff
  <1>15. w.status = "contained" => w.contained_at
    BY <1>8, <1>10, <1>12 DEF Dated, DeskPage!SignedOff
  <1> QED
    BY <1>12, <1>13, <1>14, <1>15 DEF w

(* The patches that the tab and the others send. *)
LEMMA FieldOK ==
    ASSUME NEW field, NEW value,
           \/ field = "title" /\ value \in Titles
           \/ field = "severity" /\ value \in Severities
           \/ field = "status" /\ value \in DeskPage!Statuses
           \/ field = "disposition" /\ value \in Dispositions
           \/ field = "assigned_to" /\ value \in Assignees
    PROVE  PatchOK(DeskPage!Field(field, value))
  BY DEF DeskPage!Field, PatchOK

LEMMA ClosingOK ==
    ASSUME NEW d \in Dispositions
    PROVE  PatchOK([f \in {"status", "disposition"} |-> IF f = "status" THEN "closed" ELSE d])
  BY DEF PatchOK, DeskPage!Statuses

LEMMA Sending ==
    ASSUME DeskInductive, NEW p, PatchOK(p), NEW n, NEW mine, UNCHANGED <<inc, dThere, dCache>>,
           dRequests' = dRequests \cup {[n |-> n, mine |-> mine, patch |-> p, at |-> "sent"]},
           \/ UNCHANGED <<dEditor, closing, dDeleting>>
           \/ /\ DeskPage!TypeOK' /\ (dEditor'.editing => dEditor'.draft \in Titles)
    PROVE  DeskInductive'
  <1>1. \A r \in dRequests' : RequestOK(r)'
    <2> SUFFICES ASSUME NEW r \in dRequests' PROVE RequestOK(r)'
      OBVIOUS
    <2>1. CASE r \in dRequests
      BY <2>1 DEF DeskInductive, RequestOK, PatchOK, Dated, DeskPage!MayApplyTo
    <2>2. CASE r = [n |-> n, mine |-> mine, patch |-> p, at |-> "sent"]
      <3>1. r.patch = p /\ r.at = "sent"
        BY <2>2
      <3> QED
        BY <3>1 DEF RequestOK, PatchOK
    <2> QED
      BY <2>1, <2>2
  <1>2. DeskPage!TypeOK' /\ DeskPage!SignedOff' /\ (dEditor'.editing => dEditor'.draft \in Titles)
    BY DEF DeskInductive, DeskPage!TypeOK, DeskPage!SignedOff
  <1> QED
    BY <1>1, <1>2 DEF DeskInductive

(* Steps of the tab alone. *)
LEMMA AtTheDesk ==
    ASSUME DeskInductive, UNCHANGED <<inc, dRequests>>,
           DeskPage!TypeOK', dEditor'.editing => dEditor'.draft \in Titles
    PROVE  DeskInductive'
  BY DEF DeskInductive, DeskPage!SignedOff, RequestOK, Dated, DeskPage!MayApplyTo

LEMMA Choosing ==
    ASSUME DeskInductive, NEW field, NEW value, DeskPage!Choose(field, value),
           PatchOK(DeskPage!Field(field, value))
    PROVE  DeskInductive'
  <1>1. /\ UNCHANGED <<inc, dThere, dCache, dEditor, closing, dDeleting>>
        /\ dRequests' = dRequests \cup {[n |-> clicks', mine |-> TRUE,
                                         patch |-> DeskPage!Field(field, value), at |-> "sent"]}
    BY DEF DeskPage!Choose, DeskPage!Update, DeskPage!tabVars
  <1> QED
    BY <1>1, Sending

(* A request on its way moves on, ends, or writes. *)
LEMMA Advancing ==
    ASSUME DeskInductive, NEW r \in dRequests, UNCHANGED <<inc, dThere, dDeleting>>,
           NEW s, RequestOK(s), dRequests' \subseteq dRequests \cup {s},
           DeskPage!TypeOK', dEditor'.editing => dEditor'.draft \in Titles
    PROVE  DeskInductive'
  <1>1. \A q \in dRequests' : RequestOK(q)
    BY DEF DeskInductive
  <1>2. \A q \in dRequests' : RequestOK(q)'
    BY <1>1 DEF RequestOK, Dated, DeskPage!MayApplyTo, PatchOK
  <1> QED
    BY <1>2 DEF DeskInductive, DeskPage!SignedOff

LEMMA DeskSends ==
    ASSUME DeskInductive,
           \/ \E s \in Severities : DeskPage!SeverityChange(s)
           \/ \E d \in Dispositions : DeskPage!DispositionChange(d)
           \/ \E a \in Assignees \cup {DeskPage!None} : DeskPage!AssigneeChange(a)
           \/ \E s \in DeskPage!Statuses : DeskPage!StatusChange(s)
           \/ DeskPage!CloseConfirm
           \/ DeskPage!CommitRename
           \/ \E p \in DeskPage!Patches : DeskPage!OtherUpdate(p)
    PROVE  DeskInductive'
  <1>0. DeskPage!TypeOK
    BY DEF DeskInductive
  <1>1. ASSUME NEW s \in Severities, DeskPage!SeverityChange(s) PROVE DeskInductive'
    BY <1>1, Choosing, FieldOK DEF DeskPage!SeverityChange
  <1>2. ASSUME NEW d \in Dispositions, DeskPage!DispositionChange(d) PROVE DeskInductive'
    BY <1>2, Choosing, FieldOK DEF DeskPage!DispositionChange
  <1>3. ASSUME NEW a \in Assignees \cup {DeskPage!None}, DeskPage!AssigneeChange(a)
        PROVE  DeskInductive'
    <2>1. CASE a # DeskPage!None
      BY <1>3, <2>1, Choosing, FieldOK DEF DeskPage!AssigneeChange
    <2>2. CASE a = DeskPage!None
      <3>1. /\ UNCHANGED <<inc, dThere, dCache, dEditor, closing, dDeleting>>
            /\ dRequests' = dRequests \cup {[n |-> clicks', mine |-> TRUE, patch |-> << >>, at |-> "sent"]}
        BY <1>3, <2>2 DEF DeskPage!AssigneeChange, DeskPage!Update, DeskPage!tabVars
      <3>2. PatchOK(<< >>)
        BY DEF PatchOK
      <3> QED
        BY <3>1, <3>2, Sending
    <2> QED
      BY <2>1, <2>2
  <1>4. ASSUME NEW s \in DeskPage!Statuses, DeskPage!StatusChange(s) PROVE DeskInductive'
    <2>1. CASE s = "closed" /\ dCache.disposition = DeskPage!None
      <3>1. /\ closing' = [open |-> TRUE, choice |-> DeskPage!None]
            /\ UNCHANGED <<inc, dThere, dCache, dEditor, dDeleting, dRequests>>
        BY <1>4, <2>1 DEF DeskPage!StatusChange
      <3>2. DeskPage!TypeOK'
        BY <1>0, <3>1 DEF DeskPage!TypeOK
      <3> QED
        BY <3>1, <3>2, AtTheDesk DEF DeskInductive
    <2>2. CASE ~(s = "closed" /\ dCache.disposition = DeskPage!None)
      BY <1>4, <2>2, Choosing, FieldOK DEF DeskPage!StatusChange
    <2> QED
      BY <2>1, <2>2
  <1>5. CASE DeskPage!CloseConfirm
    <2> DEFINE p == [f \in {"status", "disposition"} |-> IF f = "status" THEN "closed" ELSE closing.choice]
    <2>1. /\ UNCHANGED <<inc, dThere, dCache, dEditor, closing, dDeleting>>
          /\ dRequests' = dRequests \cup {[n |-> clicks', mine |-> TRUE, patch |-> p, at |-> "sent"]}
          /\ closing.choice # DeskPage!None
      BY <1>5 DEF DeskPage!CloseConfirm, DeskPage!Update, DeskPage!tabVars
    <2>2. closing.choice \in Dispositions
      BY <1>0, <2>1 DEF DeskPage!TypeOK
    <2>3. PatchOK(p)
      BY <2>2, ClosingOK
    <2> HIDE DEF p
    <2> QED
      BY <2>1, <2>3, Sending
  <1>6. CASE DeskPage!CommitRename
    <2>1. UNCHANGED <<inc, dThere, dCache, closing, dDeleting>> /\ dEditor.editing
      BY <1>6 DEF DeskPage!CommitRename
    <2>2. CASE dEditor.draft = dCache.title
      <3>1. dEditor' = DeskPage!NotEditing /\ UNCHANGED dRequests
        BY <1>6, <2>2 DEF DeskPage!CommitRename
      <3>2. DeskPage!TypeOK'
        BY <1>0, <2>1, <3>1 DEF DeskPage!TypeOK, DeskPage!NotEditing
      <3> QED
        BY <2>1, <3>1, <3>2, AtTheDesk DEF DeskPage!NotEditing
    <2>3. CASE dEditor.draft # dCache.title
      <3>1. /\ dEditor' = [dEditor EXCEPT !.saving = TRUE, !.done = TRUE]
            /\ dRequests' = dRequests \cup {[n |-> clicks', mine |-> TRUE,
                   patch |-> DeskPage!Field("title", dEditor.draft), at |-> "sent"]}
        BY <1>6, <2>3 DEF DeskPage!CommitRename, DeskPage!Update
      <3>2. DeskPage!TypeOK' /\ dEditor'.draft = dEditor.draft /\ dEditor.draft \in Titles
        BY <1>0, <2>1, <3>1 DEF DeskPage!TypeOK, DeskInductive
      <3>3. PatchOK(DeskPage!Field("title", dEditor.draft))
        BY <3>2, FieldOK
      <3> QED
        BY <2>1, <3>1, <3>2, <3>3, Sending
    <2> QED
      BY <2>2, <2>3
  <1>7. ASSUME NEW p \in DeskPage!Patches, DeskPage!OtherUpdate(p) PROVE DeskInductive'
    <2>1. /\ UNCHANGED <<inc, dThere, dCache, dEditor, closing, dDeleting>>
          /\ dRequests' = dRequests \cup {[n |-> dOthers', mine |-> FALSE, patch |-> p, at |-> "sent"]}
      BY <1>7 DEF DeskPage!OtherUpdate, DeskPage!tabVars
    <2>2. PatchOK(p)
      BY FieldOK, ClosingOK DEF DeskPage!Patches, DeskPage!Statuses
    <2> QED
      BY <2>1, <2>2, Sending
  <1> QED
    BY <1>1, <1>2, <1>3, <1>4, <1>5, <1>6, <1>7

LEMMA DeskRequests ==
    ASSUME DeskInductive, NEW r \in dRequests,
           DeskPage!Read(r) \/ DeskPage!Answer(r) \/ DeskPage!Commit(r) \/ DeskPage!Fail(r)
              \/ DeskPage!Lose(r)
    PROVE  DeskInductive'
  <1>0. /\ DeskPage!TypeOK /\ DeskPage!SignedOff /\ RequestOK(r) /\ inc \in DeskPage!Rows
        /\ (dEditor.editing => dEditor.draft \in Titles)
    BY DEF DeskInductive, DeskPage!TypeOK
  <1>1. CASE DeskPage!Read(r)
    <2> DEFINE s == [n |-> r.n, mine |-> r.mine, patch |-> r.patch, at |-> "read", row |-> inc]
    <2>1. /\ UNCHANGED <<inc, dThere, dCache, dEditor, closing, dDeleting>>
          /\ DeskPage!MayApplyTo(r, inc) /\ dRequests' = (dRequests \ {r}) \cup {s}
      BY <1>1 DEF DeskPage!Read, DeskPage!Advance, DeskPage!tabVars
    <2>2. s.patch = r.patch /\ s.at = "read" /\ s.row = inc
      OBVIOUS
    <2> HIDE DEF s
    <2>3. RequestOK(s)
      BY <1>0, <2>1, <2>2 DEF RequestOK, Dated, DeskPage!MayApplyTo
    <2>4. DeskPage!TypeOK'
      BY <1>0, <2>1 DEF DeskPage!TypeOK
    <2> QED
      BY <1>0, <2>1, <2>3, <2>4, Advancing
  <1>2. CASE DeskPage!Answer(r)
    <2> DEFINE s == [r EXCEPT !.at = "answered", !.n = 0]
    <2>1. /\ r.at = "read" /\ UNCHANGED <<inc, dThere, dDeleting>>
          /\ dRequests' = (dRequests \ {r}) \cup {s}
      BY <1>2 DEF DeskPage!Answer, DeskPage!Advance
    <2>2. s.patch = r.patch /\ s.row = r.row
      OBVIOUS
    <2> HIDE DEF s
    <2>3. RequestOK(s)
      BY <1>0, <2>1, <2>2 DEF RequestOK, DeskPage!MayApplyTo
    <2>4. DeskPage!Written(r) \in DeskPage!Rows
      BY <1>0, <2>1, RowAfter DEF RequestOK
    <2>5. /\ dCache' \in {dCache, DeskPage!Written(r)}
          /\ dEditor' \in {dEditor, DeskPage!NotEditing}
          /\ closing' \in {closing, DeskPage!Shut}
      BY <1>2 DEF DeskPage!Answer
    <2>6. /\ dEditor' \in [editing : BOOLEAN, draft : Titles \cup {DeskPage!None},
                          saving : BOOLEAN, done : BOOLEAN]
          /\ dEditor'.editing => (dEditor'.done <=> dEditor'.saving) /\ dEditor'.draft \in Titles
      <3>1. CASE dEditor' = dEditor
        BY <1>0, <3>1 DEF DeskPage!TypeOK
      <3>2. CASE dEditor' = DeskPage!NotEditing
        BY <3>2 DEF DeskPage!NotEditing
      <3> QED
        BY <2>5, <3>1, <3>2
    <2>7. /\ dCache' \in DeskPage!Rows
          /\ closing' \in [open : BOOLEAN, choice : Dispositions \cup {DeskPage!None}]
      <3>1. DeskPage!Shut \in [open : BOOLEAN, choice : Dispositions \cup {DeskPage!None}]
        BY DEF DeskPage!Shut
      <3>2. dCache \in DeskPage!Rows
            /\ closing \in [open : BOOLEAN, choice : Dispositions \cup {DeskPage!None}]
        BY <1>0 DEF DeskPage!TypeOK
      <3> QED
        BY <2>4, <2>5, <3>1, <3>2
    <2>8. DeskPage!TypeOK'
      BY <1>0, <2>1, <2>6, <2>7 DEF DeskPage!TypeOK
    <2> QED
      BY <2>1, <2>3, <2>6, <2>8, Advancing
  <1>3. CASE DeskPage!Commit(r)
    <2>1. /\ r.at = "answered" /\ inc' = DeskPage!Written(r) /\ dRequests' = dRequests \ {r}
          /\ UNCHANGED <<dThere, dCache, dEditor, closing, dDeleting>>
      BY <1>3 DEF DeskPage!Commit, DeskPage!tabVars
    <2> DEFINE w == DeskPage!Written(r)
    <2>2. /\ w \in DeskPage!Rows /\ Dated(inc, w)
          /\ w.status = "closed" => w.disposition # DeskPage!None /\ w.closed_at
          /\ w.status = "contained" => w.contained_at
      BY <1>0, <2>1, RowAfter DEF RequestOK
    <2> HIDE DEF w
    <2>3. inc' = w
      BY <2>1 DEF w
    <2>4. DeskPage!TypeOK' /\ DeskPage!SignedOff'
      BY <1>0, <2>1, <2>2, <2>3 DEF DeskPage!TypeOK, DeskPage!SignedOff
    <2>5. ASSUME NEW q \in dRequests' PROVE RequestOK(q)'
      <3>1. RequestOK(q)
        BY <2>1, <2>5 DEF DeskInductive
      <3>2. q.at \in {"read", "answered"} => Dated(q.row, w)
        BY <2>2, <3>1 DEF RequestOK, Dated
      <3> QED
        BY <2>3, <3>1, <3>2 DEF RequestOK, PatchOK, Dated, DeskPage!MayApplyTo
    <2> QED
      BY <1>0, <2>1, <2>4, <2>5 DEF DeskInductive
  <1>4. CASE DeskPage!Fail(r)
    <2>1. /\ UNCHANGED <<inc, dThere, dCache, closing, dDeleting>> /\ dRequests' = dRequests \ {r}
          /\ dEditor' = dEditor \/ dEditor' = [dEditor EXCEPT !.saving = FALSE, !.done = FALSE]
      BY <1>4 DEF DeskPage!Fail
    <2>2. DeskPage!TypeOK' /\ (dEditor'.editing => dEditor'.draft \in Titles)
      BY <1>0, <2>1 DEF DeskPage!TypeOK
    <2> QED
      BY <1>0, <2>1, <2>2, Advancing
  <1>5. CASE DeskPage!Lose(r)
    <2>1. /\ UNCHANGED <<inc, dThere, dCache, dEditor, closing, dDeleting>>
          /\ dRequests' = dRequests \ {r}
      BY <1>5 DEF DeskPage!Lose, DeskPage!tabVars
    <2>2. DeskPage!TypeOK'
      BY <1>0, <2>1 DEF DeskPage!TypeOK
    <2> QED
      BY <1>0, <2>1, <2>2, Advancing
  <1> QED
    BY <1>1, <1>2, <1>3, <1>4, <1>5

LEMMA DeskTab ==
    ASSUME DeskInductive,
           \/ \E d \in Dispositions : DeskPage!ChooseDisposition(d)
           \/ DeskPage!Dismiss \/ DeskPage!StartRename
           \/ \E t \in Titles : DeskPage!TypeTitle(t)
           \/ DeskPage!CancelRename \/ DeskPage!OpenDelete \/ DeskPage!DeleteConfirm
           \/ DeskPage!Refetch \/ DeskPage!Delete \/ DeskPage!DeleteFails
    PROVE  DeskInductive'
  <1>0. DeskPage!TypeOK /\ (dEditor.editing => dEditor.draft \in Titles)
    BY DEF DeskInductive
  <1>1. UNCHANGED <<inc, dRequests>>
    BY DEF DeskPage!ChooseDisposition, DeskPage!Dismiss, DeskPage!StartRename, DeskPage!TypeTitle,
           DeskPage!CancelRename, DeskPage!OpenDelete, DeskPage!DeleteConfirm, DeskPage!Refetch,
           DeskPage!Delete, DeskPage!DeleteFails
  <1> USE DEF DeskPage!TypeOK
  <1>2. ASSUME NEW d \in Dispositions, DeskPage!ChooseDisposition(d) PROVE DeskInductive'
    BY <1>0, <1>1, <1>2, AtTheDesk DEF DeskPage!ChooseDisposition
  <1>3. CASE DeskPage!Dismiss
    BY <1>0, <1>1, <1>3, AtTheDesk DEF DeskPage!Dismiss, DeskPage!Shut
  <1>4. CASE DeskPage!StartRename
    <2>1. dCache.title \in Titles
      BY <1>0 DEF DeskPage!Rows
    <2> QED
      BY <1>0, <1>1, <1>4, <2>1, AtTheDesk DEF DeskPage!StartRename
  <1>5. ASSUME NEW t \in Titles, DeskPage!TypeTitle(t) PROVE DeskInductive'
    BY <1>0, <1>1, <1>5, AtTheDesk DEF DeskPage!TypeTitle
  <1>6. CASE DeskPage!CancelRename
    BY <1>0, <1>1, <1>6, AtTheDesk DEF DeskPage!CancelRename, DeskPage!NotEditing
  <1>7. CASE DeskPage!OpenDelete \/ DeskPage!DeleteConfirm \/ DeskPage!DeleteFails
    BY <1>0, <1>1, <1>7, AtTheDesk DEF DeskPage!OpenDelete, DeskPage!DeleteConfirm,
                                       DeskPage!DeleteFails
  <1>8. CASE DeskPage!Refetch
    BY <1>0, <1>1, <1>8, AtTheDesk DEF DeskPage!Refetch
  <1>9. CASE DeskPage!Delete
    BY <1>0, <1>1, <1>9, AtTheDesk DEF DeskPage!Delete, DeskPage!NotEditing, DeskPage!Shut
  <1> QED
    BY <1>2, <1>3, <1>4, <1>5, <1>6, <1>7, <1>8, <1>9

LEMMA DeskStep ==
    ASSUME DeskInductive, DeskPage!Next
    PROVE  DeskInductive'
  BY DeskSends, DeskRequests, DeskTab DEF DeskPage!Next

LEMMA DeskInit == DeskPage!Init => DeskInductive
  <1> SUFFICES ASSUME DeskPage!Init PROVE DeskInductive
    OBVIOUS
  <1>1. inc \in DeskPage!Rows
    BY PagesFacts DEF DeskPage!Init, DeskPage!Rows, DeskPage!Statuses
  <1> QED
    BY <1>1 DEF DeskPage!Init, DeskInductive, DeskPage!TypeOK, DeskPage!SignedOff,
                DeskPage!NotEditing, DeskPage!Shut

LEMMA PanelInit ==
    ASSUME TaskPanelPage!Init
    PROVE  PanelInductive
  BY DEF TaskPanelPage!Init, PanelInductive, TaskPanelPage!TypeOK, TaskPanelPage!TaskRows,
         TaskPanelPage!SignedOff, TaskPanelPage!NoFetch

LEMMA DeskHolds == PagesSpec => []DeskInductive
  <1>1. PagesInit => DeskInductive
    BY DeskInit DEF PagesInit
  <1>2. ASSUME DeskInductive, [PagesNext]_pagesVars PROVE DeskInductive'
    <2>1. CASE DeskPage!Next
      BY <1>2, <2>1, DeskStep
    <2>2. CASE UNCHANGED deskVars
      BY <1>2, <2>2 DEF deskVars, DeskInductive, RequestOK, Dated, DeskPage!TypeOK, DeskPage!SignedOff
    <2> QED
      BY <1>2, <2>1, <2>2, OnePageSteps
  <1> QED
    BY <1>1, <1>2, PTL DEF PagesSpec

LEMMA PanelHolds == PagesSpec => []PanelInductive
  <1>1. PagesInit => PanelInductive
    BY PanelInit DEF PagesInit
  <1>2. ASSUME PanelInductive, [PagesNext]_pagesVars PROVE PanelInductive'
    <2>1. CASE TaskPanelPage!Next
      BY <1>2, <2>1, PanelStep
    <2>2. CASE UNCHANGED taskPanelVars
      BY <1>2, <2>2 DEF taskPanelVars, PanelInductive, TaskPanelPage!TypeOK, TaskPanelPage!SignedOff
    <2> QED
      BY <1>2, <2>1, <2>2, OnePageSteps
  <1> QED
    BY <1>1, <1>2, PTL DEF PagesSpec

(* What is closed has its disposition and its time, what is contained its   *)
(* time, and what is done its mark, under any number of overlapping and     *)
(* lost updates.                                                            *)
THEOREM EverythingIsSignedOff == PagesSpec => []SignedOff
  <1>1. DeskInductive /\ PanelInductive => SignedOff
    BY DEF DeskInductive, PanelInductive, SignedOff
  <1> QED
    BY <1>1, DeskHolds, PanelHolds, PTL

-----------------------------------------------------------------------------
(* Report templates.  What was chosen of colour and company name waits for  *)
(* the timer, or is in the one save under way, or is stored; and a request  *)
(* that read its row knows what is stored.                                  *)

Brand == TemplateEditorPage!Brand
Layout == {"name", "blocks"}
RequestParts == {"n", "kind", "id", "patch", "save", "mine", "at", "base", "answered"}
RequestFits(r) ==
    /\ DOMAIN r = RequestParts
    /\ r.kind \in {"create", "clone", "put", "logo", "ai", "hide", "delete"}
    /\ r.kind \in {"logo", "ai", "hide"} => DOMAIN r.patch \cap Brand = {}

Shapes ==
    /\ \A i \in DOMAIN eRows : Brand \subseteq DOMAIN eRows[i]
    /\ Layout \cup Brand \subseteq DOMAIN eEditor
    /\ {"page", "id", "failed"} \subseteq DOMAIN eAt /\ DOMAIN pending \subseteq Brand
    /\ \A r \in eRequests : RequestFits(r)

(* What is being made is not there yet, and nobody has read it. *)
Making(r) == r.kind \in {"create", "clone"} /\ r.at \in {"sent", "read", "flushed"}
Apart ==
    \A c \in eRequests : Making(c) =>
        /\ c.id \notin DOMAIN eRows
        /\ \A r \in eRequests : r.id = c.id /\ r.kind \notin {"create", "clone"} => r.at = "sent"
        /\ \A d \in eRequests : Making(d) /\ d.id = c.id => d = c

OnScreen ==
    /\ DOMAIN eTyped \subseteq Layout \cup Brand /\ \A f \in DOMAIN eTyped : eEditor[f] = eTyped[f]
    /\ eAt.page = "list" => eTyped = << >>

Saver(r) == TemplateEditorPage!Saves(r, eAt.id)
Saving(r) == Saver(r) /\ r.at \in {"sent", "read", "flushed"}
OneSaver == \A r, s \in eRequests : Saver(r) /\ Saver(s) => r = s
ReadIsStored ==
    \A r \in eRequests : Saver(r) /\ r.at \in {"read", "flushed"} /\ eAt.id \in DOMAIN eRows =>
        \A f \in Brand : r.base[f] = eRows[eAt.id][f]
WaitingIsChosen == \A f \in DOMAIN eTyped \cap DOMAIN pending : pending[f] = eTyped[f]
Waits(f) == f \in DOMAIN pending
Carried(f) == \E r \in eRequests : Saving(r) /\ f \in DOMAIN r.patch /\ r.patch[f] = eTyped[f]
IsStored(f) ==
    /\ \A r \in eRequests : Saving(r) => f \notin DOMAIN r.patch
    /\ \A c \in eRequests : Making(c) => c.id # eAt.id
    /\ eAt.id \in DOMAIN eRows => eRows[eAt.id][f] = eTyped[f]
EachIsSomewhere == \A f \in DOMAIN eTyped \cap Brand : Waits(f) \/ Carried(f) \/ IsStored(f)

Sure ==
    eAt.page = "edit" /\ ~unsure =>
        leftover = {} /\ OneSaver /\ ReadIsStored /\ WaitingIsChosen /\ EachIsSomewhere

EditorInductive == Shapes /\ Apart /\ OnScreen /\ Sure

LEMMA ChoicesAreInductive == EditorInductive => ChoicesStay
  <1> SUFFICES ASSUME EditorInductive PROVE ChoicesStay
    OBVIOUS
  <1>1. ASSUME eAt.page = "edit", eAt.id \in DOMAIN eRows, ~unsure, pending = << >>,
               ~TemplateEditorPage!Overlaps(eAt.id), NEW f \in DOMAIN eTyped \cap Brand
        PROVE  eRows[eAt.id][f] = eTyped[f]
    <2>1. ~Waits(f)
      BY <1>1 DEF Waits
    <2>2. ~Carried(f)
      BY <1>1 DEF Carried, Saving, Saver, TemplateEditorPage!Overlaps
    <2> QED
      BY <1>1, <2>1, <2>2 DEF EditorInductive, Sure, EachIsSomewhere, IsStored
  <1> QED
    BY <1>1 DEF EditorInductive, OnScreen, ChoicesStay, TemplateEditorPage!ChoicesStay,
                TemplateEditorPage!Unset, Brand

-----------------------------------------------------------------------------
(* Requests. *)

(* The same request, further on. *)
Same(r, s) == s.kind = r.kind /\ s.id = r.id /\ s.patch = r.patch /\ DOMAIN s = RequestParts
Like(r, s) == Same(r, s) /\ s.at = r.at /\ s.base = r.base

LEMMA MovedOn ==
    ASSUME NEW r, DOMAIN r = RequestParts, NEW v
    PROVE  /\ Like(r, [r EXCEPT !.mine = v]) /\ Like(r, [r EXCEPT !.answered = v])
           /\ Like(r, [r EXCEPT !.save = v])
           /\ Same(r, [r EXCEPT !.at = v]) /\ [r EXCEPT !.at = v].at = v
           /\ [r EXCEPT !.at = v].base = r.base
  BY DEF RequestParts, Like, Same

LEMMA SentAsAsked ==
    ASSUME NEW kind, NEW id, NEW patch
    PROVE  LET r == TemplateEditorPage!Requested(kind, id, patch)
           IN  r.kind = kind /\ r.id = id /\ r.patch = patch /\ r.at = "sent" /\ DOMAIN r = RequestParts
  BY DEF TemplateEditorPage!Requested, RequestParts

(* The request set: some go, one comes, one moves on, or all change hands.  *)
LEMMA ApartQuiet ==
    ASSUME Apart, DOMAIN eRows' = DOMAIN eRows, eRequests' \subseteq eRequests
    PROVE  Apart'
  BY DEF Apart, Making

LEMMA ApartSend ==
    ASSUME Apart, UNCHANGED eRows, NEW r, eRequests' = eRequests \cup {r}, r.at = "sent",
           r.kind \in {"create", "clone"} =>
               r.id \notin DOMAIN eRows /\ \A q \in eRequests : q.id # r.id
    PROVE  Apart'
  BY DEF Apart, Making

LEMMA ApartLike ==
    ASSUME Apart, UNCHANGED eRows, NEW r \in eRequests, NEW s, Like(r, s),
           eRequests' = (eRequests \ {r}) \cup {s}
    PROVE  Apart'
  BY DEF Apart, Making, Like, Same

LEMMA ApartLeave ==
    ASSUME Apart, UNCHANGED eRows, \A r \in eRequests : DOMAIN r = RequestParts,
           eRequests' = {[r EXCEPT !.mine = FALSE] : r \in eRequests}
    PROVE  Apart'
  <1> DEFINE Left(r) == [r EXCEPT !.mine = FALSE]
  <1>1. \A r \in eRequests : Like(r, Left(r))
    BY MovedOn
  <1>2. eRequests' = {Left(r) : r \in eRequests}
    OBVIOUS
  <1> HIDE DEF Left
  <1> QED
    BY <1>1, <1>2 DEF Apart, Making, Like, Same

LEMMA ApartMoves ==
    ASSUME Apart, UNCHANGED eRows, NEW r \in eRequests, NEW s, Same(r, s),
           eRequests' = (eRequests \ {r}) \cup {s},
           Making(s) => Making(r),
           r.kind \notin {"create", "clone"} => r.at # "sent" \/ r.id \in DOMAIN eRows
    PROVE  Apart'
  BY DEF Apart, Making, Same

LEMMA ApartCommits ==
    ASSUME Apart, NEW r \in eRequests, r.at = "flushed",
           DOMAIN eRows' \subseteq DOMAIN eRows \cup (IF r.kind \in {"create", "clone"} THEN {r.id} ELSE {}),
           \/ eRequests' = eRequests \ {r}
           \/ \E s : Same(r, s) /\ s.at = "committed" /\ eRequests' = (eRequests \ {r}) \cup {s}
    PROVE  Apart'
  <1>1. ASSUME NEW c \in eRequests, Making(c), c # r
        PROVE  c.id \notin DOMAIN eRows'
    BY <1>1 DEF Apart, Making
  <1>2. CASE eRequests' = eRequests \ {r}
    BY <1>1, <1>2 DEF Apart, Making
  <1>3. ASSUME NEW s, Same(r, s), s.at = "committed", eRequests' = (eRequests \ {r}) \cup {s}
        PROVE  Apart'
    <2>1. ~Making(s)
      BY <1>3 DEF Making
    <2>2. \A c \in eRequests' : Making(c) => c \in eRequests /\ c # r
      BY <2>1, <1>3
    <2>3. ASSUME NEW c \in eRequests, Making(c), c # r,
                 NEW q \in eRequests', q.id = c.id, q.kind \notin {"create", "clone"}
          PROVE  q.at = "sent"
      BY <1>3, <2>3 DEF Apart, Making, Same
    <2> QED
      BY <1>1, <2>2, <2>3 DEF Apart, Making
  <1> QED
    BY <1>2, <1>3

-----------------------------------------------------------------------------
(* What happens to the choices.  A page that is not the editor, or one that *)
(* is not sure, owes nothing; neither does one that was just entered.       *)

TabStays ==
    /\ eAt'.page = eAt.page /\ eAt'.id = eAt.id /\ UNCHANGED <<pending, leftover, eTyped>>
    /\ unsure => unsure'

LEMMA SureStill ==
    ASSUME Sure, TabStays, UNCHANGED eRows, eRequests' = eRequests
    PROVE  Sure'
  BY DEF Sure, TabStays, OneSaver, ReadIsStored, WaitingIsChosen, EachIsSomewhere, Waits, Carried,
         IsStored, Saver, Saving, Making

LEMMA SureOnEntry ==
    ASSUME eTyped' = << >>,
           eAt'.page = "edit" /\ ~unsure' =>
               leftover' = {} /\ \A r \in eRequests' : ~TemplateEditorPage!Saves(r, eAt'.id)
    PROVE  Sure'
  <1>1. DOMAIN eTyped' = {}
    OBVIOUS
  <1> QED
    BY <1>1 DEF Sure, OneSaver, ReadIsStored, WaitingIsChosen, EachIsSomewhere, Saver

LEMMA SureHydrated ==
    ASSUME Sure, eAt'.page = eAt.page, eAt'.id = eAt.id, UNCHANGED <<leftover, unsure, eRows>>,
           eTyped' = << >>, eRequests' \subseteq eRequests
    PROVE  Sure'
  <1>1. DOMAIN eTyped' = {}
    OBVIOUS
  <1> QED
    BY <1>1 DEF Sure, OneSaver, ReadIsStored, WaitingIsChosen, EachIsSomewhere, Saver

LEMMA SureSends ==
    ASSUME Sure, TabStays, UNCHANGED eRows, NEW r, eRequests' = eRequests \cup {r}, ~Saver(r),
           r.kind \in {"create", "clone"} => r.id # eAt.id
    PROVE  Sure'
  BY DEF Sure, TabStays, OneSaver, ReadIsStored, WaitingIsChosen, EachIsSomewhere, Waits, Carried,
         IsStored, Saver, Saving, Making

(* A save of the timer, or of the layout with all that is on screen. *)
LEMMA SureSaves ==
    ASSUME Sure, UNCHANGED <<eAt, eTyped, leftover, eRows>>, NEW r, eRequests' = eRequests \cup {r},
           r.kind = "put", r.id = eAt.id, r.at = "sent",
           unsure' = (unsure \/ TemplateEditorPage!Overlaps(eAt.id)),
           DOMAIN pending' \subseteq DOMAIN pending, \A f \in DOMAIN pending' : pending'[f] = pending[f],
           eAt.page = "edit" /\ ~unsure =>
               \A f \in DOMAIN eTyped \cap DOMAIN r.patch \cap Brand : r.patch[f] = eTyped[f],
           \A f \in DOMAIN pending \ DOMAIN pending' : f \in DOMAIN r.patch
    PROVE  Sure'
  <1> SUFFICES ASSUME eAt.page = "edit", ~unsure'
               PROVE  (leftover = {} /\ OneSaver /\ ReadIsStored /\ WaitingIsChosen /\ EachIsSomewhere)'
    BY DEF Sure
  <1>1. ~unsure /\ \A q \in eRequests : ~Saver(q)
    BY DEF TemplateEditorPage!Overlaps, Saver
  <1>2. leftover = {} /\ WaitingIsChosen /\ EachIsSomewhere
    BY <1>1 DEF Sure
  <1>3. OneSaver' /\ ReadIsStored'
    BY <1>1 DEF OneSaver, ReadIsStored, Saver
  <1>4. WaitingIsChosen'
    BY <1>2 DEF WaitingIsChosen
  <1>5. ASSUME NEW f \in DOMAIN eTyped \cap Brand PROVE (Waits(f) \/ Carried(f) \/ IsStored(f))'
    <2>1. CASE f \in DOMAIN r.patch
      <3>1. r.patch[f] = eTyped[f]
        BY <1>1, <2>1
      <3>2. Saving(r)'
        BY <2>1 DEF Saving, Saver, TemplateEditorPage!Saves, Brand
      <3> QED
        BY <2>1, <3>1, <3>2 DEF Carried
    <2>2. CASE f \notin DOMAIN r.patch /\ f \in DOMAIN pending
      BY <2>2 DEF Waits
    <2>3. CASE f \notin DOMAIN r.patch /\ f \notin DOMAIN pending
      <3>1. IsStored(f)
        BY <1>1, <1>2, <2>3 DEF EachIsSomewhere, Waits, Carried, Saving
      <3> QED
        BY <1>1, <2>3, <3>1 DEF IsStored, Saving, Saver, Making
    <2> QED
      BY <2>1, <2>2, <2>3
  <1> QED
    BY <1>2, <1>3, <1>4, <1>5 DEF EachIsSomewhere

(* A choice of a field, colour and company name with their timer. *)
LEMMA SureChosen ==
    ASSUME Sure, UNCHANGED <<eAt, leftover, eRows, unsure>>, eRequests' = eRequests, NEW f, NEW v,
           eTyped' = TemplateEditorPage!With(eTyped, f, v),
           \/ f \notin Brand /\ UNCHANGED pending /\ f \notin DOMAIN pending
           \/ pending' = TemplateEditorPage!With(pending, f, v)
    PROVE  Sure'
  <1>1. /\ DOMAIN eTyped' = DOMAIN eTyped \cup {f} /\ eTyped'[f] = v
        /\ \A g \in DOMAIN eTyped \ {f} : eTyped'[g] = eTyped[g]
    BY DEF TemplateEditorPage!With
  <1>2. CASE f \notin Brand /\ UNCHANGED pending /\ f \notin DOMAIN pending
    BY <1>1, <1>2 DEF Sure, OneSaver, ReadIsStored, WaitingIsChosen, EachIsSomewhere, Waits, Carried,
         IsStored, Saver, Saving, Making
  <1>3. CASE pending' = TemplateEditorPage!With(pending, f, v)
    <2>1. /\ DOMAIN pending' = DOMAIN pending \cup {f} /\ pending'[f] = v
          /\ \A g \in DOMAIN pending \ {f} : pending'[g] = pending[g]
      BY <1>3 DEF TemplateEditorPage!With
    <2> QED
      BY <1>1, <2>1 DEF Sure, OneSaver, ReadIsStored, WaitingIsChosen, EachIsSomewhere, Waits, Carried,
         IsStored, Saver, Saving, Making
  <1> QED
    BY <1>2, <1>3

(* A request that is no save under way is over. *)
LEMMA SureEnds ==
    ASSUME Sure, TabStays, UNCHANGED eRows, NEW r \in eRequests, eRequests' = eRequests \ {r},
           Saving(r) => unsure'
    PROVE  Sure'
  BY DEF Sure, TabStays, OneSaver, ReadIsStored, WaitingIsChosen, EachIsSomewhere, Waits, Carried,
         IsStored, Saver, Saving, Making

(* A request moves on within its transaction, or is answered. *)
LEMMA SureMoves ==
    ASSUME Sure, TabStays, UNCHANGED eRows, NEW r \in eRequests, NEW s, Same(r, s),
           eRequests' = (eRequests \ {r}) \cup {s},
           s.at \in {"sent", "read", "flushed"} <=> r.at \in {"sent", "read", "flushed"},
           Saver(s) /\ s.at \in {"read", "flushed"} =>
               \/ r.at \in {"read", "flushed"} /\ s.base = r.base
               \/ s.base = eRows[s.id]
    PROVE  Sure'
  <1> SUFFICES ASSUME eAt.page = "edit", ~unsure, ~unsure'
               PROVE  (leftover = {} /\ OneSaver /\ ReadIsStored /\ WaitingIsChosen /\ EachIsSomewhere)'
    BY DEF Sure, TabStays
  <1>1. leftover = {} /\ OneSaver /\ ReadIsStored /\ WaitingIsChosen /\ EachIsSomewhere
    BY DEF Sure
  <1>2. /\ Saver(s)' <=> Saver(r)
        /\ Saving(s)' <=> Saving(r)
        /\ Making(s) <=> Making(r)
        /\ \A q : (Saver(q)' <=> Saver(q)) /\ (Saving(q)' <=> Saving(q))
    BY DEF Saver, Saving, Making, Same, TemplateEditorPage!Saves, TabStays
  <1>3. OneSaver'
    BY <1>1, <1>2 DEF OneSaver
  <1>4. ReadIsStored'
    <2>1. Saver(s) => s.id = eAt.id
      BY DEF Saver, TemplateEditorPage!Saves
    <2> QED
      BY <1>1, <1>2, <2>1 DEF ReadIsStored, TabStays
  <1>5. WaitingIsChosen' /\ leftover' = {}
    BY <1>1 DEF WaitingIsChosen, TabStays
  <1>6. ASSUME NEW f \in DOMAIN eTyped \cap Brand PROVE (Waits(f) \/ Carried(f) \/ IsStored(f))'
    <2>1. CASE Waits(f)
      BY <2>1 DEF Waits, TabStays
    <2>2. CASE Carried(f)
      BY <1>2, <2>2 DEF Carried, Same, TabStays
    <2>3. CASE IsStored(f)
      BY <1>2, <2>3 DEF IsStored, Same, TabStays
    <2> QED
      BY <1>1, <2>1, <2>2, <2>3 DEF EachIsSomewhere
  <1> QED
    BY <1>3, <1>4, <1>5, <1>6 DEF EachIsSomewhere, TabStays

(* What a commit does to a template: a save under way that has read it      *)
(* leaves its own colour and company name, other requests leave both.       *)
LEMMA SureCommits ==
    ASSUME Sure, Apart, TabStays, NEW r \in eRequests, r.at = "flushed",
           \/ eRequests' = eRequests \ {r}
           \/ \E s : Same(r, s) /\ s.at = "committed" /\ eRequests' = (eRequests \ {r}) \cup {s},
           DOMAIN eRows' \subseteq DOMAIN eRows \cup (IF r.kind \in {"create", "clone"} THEN {r.id} ELSE {}),
           \A i \in DOMAIN eRows' \cap DOMAIN eRows : \A f \in Brand :
               eRows'[i][f] = IF i = r.id /\ r.kind \notin {"create", "clone"}
                                    /\ f \in DOMAIN r.patch /\ r.patch[f] # r.base[f]
                              THEN r.patch[f] ELSE eRows[i][f],
           r.kind \in {"logo", "ai", "hide"} => DOMAIN r.patch \cap Brand = {},
           r.kind \in {"create", "clone", "put", "logo", "ai", "hide", "delete"},
           r.kind = "delete" => r.id \notin DOMAIN eRows'
    PROVE  Sure'
  <1> DEFINE id == eAt.id
  <1> SUFFICES ASSUME eAt.page = "edit", ~unsure, ~unsure'
               PROVE  (leftover = {} /\ OneSaver /\ ReadIsStored /\ WaitingIsChosen /\ EachIsSomewhere)'
    BY DEF Sure, TabStays
  <1>1. leftover = {} /\ OneSaver /\ ReadIsStored /\ WaitingIsChosen /\ EachIsSomewhere
    BY DEF Sure
  <1>2. /\ \A q : (Saver(q)' <=> Saver(q)) /\ (Saving(q)' <=> Saving(q))
        /\ \A q \in eRequests' : (q \in eRequests /\ q # r) \/ (Same(r, q) /\ q.at = "committed")
        /\ \A q \in eRequests : q # r => q \in eRequests'
    <2>1. \A q : (Saver(q)' <=> Saver(q)) /\ (Saving(q)' <=> Saving(q))
      BY DEF Saver, Saving, TabStays, TemplateEditorPage!Saves
    <2>2. ASSUME NEW q \in eRequests', q \notin eRequests \/ q = r
          PROVE  Same(r, q) /\ q.at = "committed"
      BY <2>2
    <2>3. ASSUME NEW q \in eRequests, q # r PROVE q \in eRequests'
      BY <2>3
    <2> QED
      BY <2>1, <2>2, <2>3
  <1>3. \A q \in eRequests' : Saver(q) => \/ q \in eRequests /\ q # r
                                          \/ Saver(r) /\ q.at = "committed"
    BY <1>2 DEF Saver, Same, TemplateEditorPage!Saves
  <1>4. OneSaver'
    <2>1. ASSUME NEW s, Same(r, s), s.at = "committed", eRequests' = (eRequests \ {r}) \cup {s}
          PROVE  OneSaver'
      <3>1. Saver(s) <=> Saver(r)
        BY <2>1 DEF Saver, Same, TemplateEditorPage!Saves
      <3> QED
        BY <1>1, <1>2, <2>1, <3>1 DEF OneSaver
    <2>2. CASE eRequests' = eRequests \ {r}
      BY <1>1, <1>2, <2>2 DEF OneSaver
    <2> QED
      BY <2>1, <2>2
  <1>5. \A q \in eRequests' : Saving(q) => q \in eRequests /\ q # r
    BY <1>2 DEF Saving
  <1>6. \A q \in eRequests' : Making(q) => q \in eRequests /\ q # r
    BY <1>2 DEF Making
  (* Who makes the template that is shown makes it for the first time.       *)
  <1>7. ASSUME id \in DOMAIN eRows', id \notin DOMAIN eRows
        PROVE  Making(r) /\ r.id = id
    BY <1>7 DEF Making
  <1>8. ReadIsStored'
    <2> SUFFICES ASSUME NEW q \in eRequests, q # r, Saver(q), q.at \in {"read", "flushed"},
                        id \in DOMAIN eRows', NEW f \in Brand
                 PROVE  q.base[f] = eRows'[id][f]
      BY <1>2, <1>3 DEF ReadIsStored, TabStays
    <2>1. q.id = id /\ q.kind = "put"
      BY DEF Saver, TemplateEditorPage!Saves
    <2>2. id \in DOMAIN eRows
      BY <1>7, <2>1 DEF Apart
    <2>3. q.base[f] = eRows[id][f]
      BY <1>1, <2>2 DEF ReadIsStored
    <2>4. ~Saver(r)
      BY <1>1 DEF OneSaver
    <2>5. r.id = id /\ r.kind = "put" => DOMAIN r.patch \cap Brand = {}
      BY <2>4 DEF Saver, TemplateEditorPage!Saves, Brand
    <2>6. eRows'[id][f] = eRows[id][f]
      BY <2>2, <2>5
    <2> QED
      BY <2>3, <2>6
  <1>9. WaitingIsChosen' /\ leftover' = {}
    BY <1>1 DEF WaitingIsChosen, TabStays
  <1>10. ASSUME NEW f \in DOMAIN eTyped \cap Brand PROVE (Waits(f) \/ Carried(f) \/ IsStored(f))'
    <2>1. CASE Waits(f)
      BY <2>1 DEF Waits, TabStays
    <2>2. ASSUME NEW q \in eRequests, Saving(q), f \in DOMAIN q.patch, q.patch[f] = eTyped[f], q # r
          PROVE  Carried(f)'
      BY <1>2, <2>2 DEF Carried, TabStays
    <2>3. CASE Saving(r) /\ f \in DOMAIN r.patch /\ r.patch[f] = eTyped[f]
      <3>1. r.id = id /\ r.kind = "put" /\ Saver(r)
        BY <2>3 DEF Saving, Saver, TemplateEditorPage!Saves
      <3>2. \A q \in eRequests' : ~Saving(q)
        BY <1>1, <1>5, <3>1 DEF OneSaver, Saving
      <3>3. \A c \in eRequests' : Making(c) => c.id # id
        BY <1>6, <3>1 DEF Apart
      <3>4. ASSUME id \in DOMAIN eRows' PROVE eRows'[id][f] = eTyped[f]
        <4>1. id \in DOMAIN eRows
          BY <1>7, <3>1, <3>4 DEF Making
        <4>2. r.base[f] = eRows[id][f]
          BY <1>1, <3>1, <4>1 DEF ReadIsStored
        <4> QED
          BY <2>3, <3>1, <3>4, <4>1, <4>2
      <3> QED
        BY <1>2, <3>2, <3>3, <3>4 DEF IsStored, TabStays, Making
    <2>4. CASE IsStored(f)
      <3>1. \A q \in eRequests' : Saving(q) => f \notin DOMAIN q.patch
        BY <1>5, <2>4 DEF IsStored
      <3>2. \A c \in eRequests' : Making(c) => c.id # id
        BY <1>6, <2>4 DEF IsStored
      <3>3. ASSUME id \in DOMAIN eRows' PROVE eRows'[id][f] = eTyped[f]
        <4>1. id \in DOMAIN eRows
          BY <1>7, <2>4, <3>3 DEF IsStored
        <4>2. r.id = id /\ r.kind = "put" => f \notin DOMAIN r.patch
          BY <2>4 DEF IsStored, Saving, Saver, TemplateEditorPage!Saves, Brand
        <4> QED
          BY <2>4, <3>3, <4>1, <4>2 DEF IsStored
      <3> QED
        BY <1>2, <3>1, <3>2, <3>3 DEF IsStored, TabStays, Making
    <2> QED
      BY <1>1, <2>1, <2>2, <2>3, <2>4 DEF EachIsSomewhere, Carried
  <1> QED
    BY <1>4, <1>8, <1>9, <1>10 DEF EachIsSomewhere, TabStays

-----------------------------------------------------------------------------
(* The steps. *)

(* Flags and marks of the editor are not what the user chose. *)
Shows(e) ==
    /\ Layout \cup Brand \subseteq DOMAIN e
    /\ \A f \in Layout \cup Brand : e[f] = eEditor[f]

LEMMA Marks ==
    ASSUME NEW e, Shows(e), NEW v
    PROVE  /\ Shows([e EXCEPT !.dirty = v]) /\ Shows([e EXCEPT !.saving = v])
           /\ Shows([e EXCEPT !.logo = v]) /\ Shows([e EXCEPT !.selected = v])
  BY DEF Shows, Layout, Brand, TemplateEditorPage!Brand

LEMMA Fills ==
    ASSUME NEW e, NEW id, NEW row, Layout \cup Brand \subseteq DOMAIN e
    PROVE  /\ Layout \cup Brand \subseteq DOMAIN TemplateEditorPage!Hydrated(e, id, row)
           /\ Layout \cup Brand \subseteq DOMAIN [e EXCEPT !.selected = 0]
           /\ Layout \cup Brand \subseteq DOMAIN TemplateEditorPage!Blank
  BY DEF TemplateEditorPage!Hydrated, TemplateEditorPage!Blank, Layout, Brand, TemplateEditorPage!Brand

LEMMA StillOnScreen ==
    ASSUME EditorInductive, Shows(eEditor'), UNCHANGED eTyped, eAt'.page = eAt.page \/ eAt'.page # "list"
    PROVE  OnScreen' /\ Layout \cup Brand \subseteq DOMAIN eEditor'
  BY DEF EditorInductive, OnScreen, Shows

LEMMA NothingChosen ==
    ASSUME eTyped' = << >> PROVE OnScreen'
  <1>1. DOMAIN eTyped' = {}
    OBVIOUS
  <1> QED
    BY <1>1 DEF OnScreen

LEMMA FitsOn == ASSUME NEW r, RequestFits(r), NEW s, Same(r, s) PROVE RequestFits(s)
  BY DEF RequestFits, Same

(* Steps of the page that send nothing.                                     *)
LEMMA PageStill ==
    ASSUME EditorInductive, UNCHANGED <<eRows, eRequests>>, TabStays, Shows(eEditor'),
           {"page", "id", "failed"} \subseteq DOMAIN eAt'
    PROVE  EditorInductive'
  <1>1. Sure' /\ Apart'
    BY SureStill, ApartQuiet DEF EditorInductive
  <1>2. OnScreen' /\ Layout \cup Brand \subseteq DOMAIN eEditor'
    BY StillOnScreen DEF TabStays
  <1> QED
    BY <1>1, <1>2 DEF EditorInductive, Shapes, TabStays

LEMMA ShowsItself == ASSUME EditorInductive PROVE Shows(eEditor)
  BY DEF EditorInductive, Shapes, Shows

LEMMA Looking ==
    ASSUME EditorInductive,
           \/ TemplateEditorPage!FetchFails \/ TemplateEditorPage!FetchList
           \/ TemplateEditorPage!OpenDialog \/ TemplateEditorPage!CancelDialog
           \/ \E n \in Names : TemplateEditorPage!TypeNewName(n)
           \/ \E k \in DOMAIN eEditor.blocks : TemplateEditorPage!SelectBlock(k)
    PROVE  EditorInductive'
  <1> DEFINE Parts == {"page", "id", "failed"}
  <1>0. Parts \subseteq DOMAIN eAt /\ Shows(eEditor)
    BY ShowsItself DEF EditorInductive, Shapes
  <1>1. CASE TemplateEditorPage!FetchFails
    <2>1. /\ eAt' = [eAt EXCEPT !.failed = TRUE]
          /\ UNCHANGED <<eRows, eRequests, eEditor, pending, leftover, eTyped, unsure>>
      BY <1>1 DEF TemplateEditorPage!FetchFails
    <2>2. eAt'.page = eAt.page /\ eAt'.id = eAt.id /\ Parts \subseteq DOMAIN eAt'
      BY <1>0, <2>1
    <2> QED
      BY <1>0, <2>1, <2>2, PageStill DEF TabStays
  <1>2. CASE UNCHANGED <<eRows, eRequests, eEditor, eAt, pending, leftover, eTyped, unsure>>
    BY <1>0, <1>2, PageStill DEF TabStays
  <1>3. ASSUME NEW k \in DOMAIN eEditor.blocks, TemplateEditorPage!SelectBlock(k)
        PROVE  EditorInductive'
    <2>1. PICK v : /\ eEditor' = [eEditor EXCEPT !.selected = v]
                   /\ UNCHANGED <<eRows, eRequests, eAt, pending, leftover, eTyped, unsure>>
      BY <1>3 DEF TemplateEditorPage!SelectBlock
    <2>2. Shows([eEditor EXCEPT !.selected = v])
      BY <1>0, Marks
    <2> QED
      BY <1>0, <2>1, <2>2, PageStill DEF TabStays
  <1> QED
    BY <1>1, <1>2, <1>3 DEF TemplateEditorPage!FetchList, TemplateEditorPage!OpenDialog,
       TemplateEditorPage!CancelDialog, TemplateEditorPage!TypeNewName, TemplateEditorPage!Dialog

(* The user types, or picks. *)
LEMMA TypingChoices ==
    ASSUME EditorInductive, NEW f \in Layout \cup Brand, NEW v, TemplateEditorPage!Choose(f, v),
           Layout \cup Brand \subseteq DOMAIN eEditor', eEditor'[f] = v,
           \A g \in (Layout \cup Brand) \ {f} : eEditor'[g] = eEditor[g],
           \/ f \in Layout /\ UNCHANGED pending
           \/ f \in Brand /\ pending' = TemplateEditorPage!With(pending, f, v)
    PROVE  EditorInductive'
  <1>1. /\ eTyped' = TemplateEditorPage!With(eTyped, f, v) /\ eAt.page # "list"
        /\ UNCHANGED <<eRows, eAt, leftover, eRequests, unsure>>
    BY DEF TemplateEditorPage!Choose, TemplateEditorPage!Shown
  <1>2. DOMAIN pending \subseteq Brand /\ DOMAIN pending' \subseteq Brand
    BY DEF EditorInductive, Shapes, TemplateEditorPage!With
  <1>3. Sure'
    <2>1. f \in Layout => f \notin Brand
      BY DEF Layout, Brand, TemplateEditorPage!Brand
    <2> QED
      BY <1>1, <1>2, <2>1, SureChosen DEF EditorInductive
  <1>4. OnScreen'
    <2>1. DOMAIN eTyped' = DOMAIN eTyped \cup {f} /\ eTyped'[f] = v
          /\ \A g \in DOMAIN eTyped \ {f} : eTyped'[g] = eTyped[g]
      BY <1>1 DEF TemplateEditorPage!With
    <2> QED
      BY <1>1, <2>1 DEF EditorInductive, OnScreen
  <1>5. Apart'
    BY <1>1, ApartQuiet DEF EditorInductive
  <1> QED
    BY <1>1, <1>2, <1>3, <1>4, <1>5 DEF EditorInductive, Shapes

LEMMA ChooseLayout ==
    ASSUME EditorInductive,
           \/ \E n \in Names : TemplateEditorPage!TypeName(n)
           \/ \E t \in Types : TemplateEditorPage!AddBlock(t)
           \/ \E k \in DOMAIN eEditor.blocks :
                 \/ TemplateEditorPage!RemoveBlock(k) \/ TemplateEditorPage!UpdateBlock(k)
                 \/ \E l \in DOMAIN eEditor.blocks : TemplateEditorPage!Drag(k, l)
    PROVE  EditorInductive'
  <1>0. Layout \cup Brand \subseteq DOMAIN eEditor
    BY DEF EditorInductive, Shapes
  <1>1. ASSUME NEW n \in Names, TemplateEditorPage!TypeName(n) PROVE EditorInductive'
    <2>1. /\ TemplateEditorPage!Choose("name", n) /\ UNCHANGED pending
          /\ eEditor' = [eEditor EXCEPT !.name = n, !.dirty = TRUE]
      BY <1>1 DEF TemplateEditorPage!TypeName
    <2>2. /\ Layout \cup Brand \subseteq DOMAIN eEditor' /\ eEditor'["name"] = n
          /\ \A g \in (Layout \cup Brand) \ {"name"} : eEditor'[g] = eEditor[g]
      BY <1>0, <2>1 DEF Layout, Brand, TemplateEditorPage!Brand
    <2> QED
      BY <2>1, <2>2, TypingChoices DEF Layout
  <1>2. ASSUME NEW blocks, NEW mark, TemplateEditorPage!SetBlocks(blocks, mark)
        PROVE  EditorInductive'
    <2>1. /\ TemplateEditorPage!Choose("blocks", blocks) /\ UNCHANGED pending
          /\ eEditor' = [eEditor EXCEPT !.blocks = blocks, !.dirty = TRUE, !.selected = mark]
      BY <1>2 DEF TemplateEditorPage!SetBlocks
    <2>2. /\ Layout \cup Brand \subseteq DOMAIN eEditor' /\ eEditor'["blocks"] = blocks
          /\ \A g \in (Layout \cup Brand) \ {"blocks"} : eEditor'[g] = eEditor[g]
      BY <1>0, <2>1 DEF Layout, Brand, TemplateEditorPage!Brand
    <2> QED
      BY <2>1, <2>2, TypingChoices DEF Layout
  <1> QED
    BY <1>1, <1>2 DEF TemplateEditorPage!AddBlock, TemplateEditorPage!RemoveBlock,
       TemplateEditorPage!UpdateBlock, TemplateEditorPage!Drag

LEMMA ChooseBrand ==
    ASSUME EditorInductive,
           \/ \E c \in Colours : TemplateEditorPage!PickColour(c)
           \/ \E c \in Companies : TemplateEditorPage!TypeCompany(c)
    PROVE  EditorInductive'
  <1>0. Layout \cup Brand \subseteq DOMAIN eEditor
    BY DEF EditorInductive, Shapes
  <1>1. ASSUME NEW c \in Colours, TemplateEditorPage!PickColour(c) PROVE EditorInductive'
    <2>1. /\ TemplateEditorPage!Choose("colour", c) /\ eEditor' = [eEditor EXCEPT !.colour = c]
          /\ pending' = TemplateEditorPage!With(pending, "colour", c)
      BY <1>1 DEF TemplateEditorPage!PickColour, TemplateEditorPage!Queued
    <2>2. /\ Layout \cup Brand \subseteq DOMAIN eEditor' /\ eEditor'["colour"] = c
          /\ \A g \in (Layout \cup Brand) \ {"colour"} : eEditor'[g] = eEditor[g]
      BY <1>0, <2>1 DEF Layout, Brand, TemplateEditorPage!Brand
    <2> QED
      BY <2>1, <2>2, TypingChoices DEF Brand, TemplateEditorPage!Brand
  <1>2. ASSUME NEW c \in Companies, TemplateEditorPage!TypeCompany(c) PROVE EditorInductive'
    <2>1. /\ TemplateEditorPage!Choose("company", c) /\ eEditor' = [eEditor EXCEPT !.company = c]
          /\ pending' = TemplateEditorPage!With(pending, "company", c)
      BY <1>2 DEF TemplateEditorPage!TypeCompany, TemplateEditorPage!Queued
    <2>2. /\ Layout \cup Brand \subseteq DOMAIN eEditor' /\ eEditor'["company"] = c
          /\ \A g \in (Layout \cup Brand) \ {"company"} : eEditor'[g] = eEditor[g]
      BY <1>0, <2>1 DEF Layout, Brand, TemplateEditorPage!Brand
    <2> QED
      BY <2>1, <2>2, TypingChoices DEF Brand, TemplateEditorPage!Brand
  <1> QED
    BY <1>1, <1>2

(* Going from page to page.  Requests of a page that was left stay under way. *)
Leaves == eRequests' = {[r EXCEPT !.mine = FALSE] : r \in eRequests}

LEMMA LeavingRequests ==
    ASSUME EditorInductive, Leaves, UNCHANGED eRows
    PROVE  /\ Apart' /\ \A s \in eRequests' : RequestFits(s)
           /\ \A s \in eRequests' : \E r \in eRequests : Like(r, s)
  <1>1. \A r \in eRequests : RequestFits(r) /\ Like(r, [r EXCEPT !.mine = FALSE])
    BY MovedOn DEF EditorInductive, Shapes, RequestFits
  <1>2. \A s \in eRequests' : \E r \in eRequests : Like(r, s) /\ RequestFits(r)
    BY <1>1 DEF Leaves
  <1>3. Apart'
    BY ApartLeave DEF EditorInductive, Shapes, RequestFits, Leaves
  <1> QED
    BY <1>2, <1>3, FitsOn DEF Like

LEMMA ToOtherPages ==
    ASSUME EditorInductive, TemplateEditorPage!New \/ TemplateEditorPage!Back
    PROVE  EditorInductive'
  <1>1. /\ Leaves /\ UNCHANGED eRows /\ eEditor' = TemplateEditorPage!Blank
        /\ eTyped' = << >>
        /\ eAt'.page # "edit" /\ {"page", "id", "failed"} \subseteq DOMAIN eAt'
        /\ pending' \in {pending, << >>}
    <2>1. CASE TemplateEditorPage!New
      BY <2>1 DEF TemplateEditorPage!New, Leaves, TemplateEditorPage!ListPage, EditorInductive, OnScreen,
                  TemplateEditorPage!OnList
    <2>2. CASE TemplateEditorPage!Back
      BY <2>2 DEF TemplateEditorPage!Back, Leaves, TemplateEditorPage!ListPage, TemplateEditorPage!Unset
    <2> QED
      BY <2>1, <2>2
  <1>2. Apart' /\ \A s \in eRequests' : RequestFits(s)
    BY <1>1, LeavingRequests
  <1>3. OnScreen' /\ Sure'
    BY <1>1, NothingChosen DEF Sure
  <1>4. DOMAIN pending' \subseteq Brand
    BY <1>1 DEF EditorInductive, Shapes
  <1>5. Layout \cup Brand \subseteq DOMAIN eEditor'
    BY <1>1, Fills DEF EditorInductive, Shapes
  <1> QED
    BY <1>1, <1>2, <1>3, <1>4, <1>5 DEF EditorInductive, Shapes

(* Into the editor of a template, from the list or by a creation answered.  *)
LEMMA Entering ==
    ASSUME EditorInductive, NEW id, NEW was, Layout \cup Brand \subseteq DOMAIN was,
           TemplateEditorPage!Enter(id, was), UNCHANGED <<eRows, pending, leftover>>,
           \A s \in eRequests' : RequestFits(s) /\ \E r \in eRequests : Same(r, s)
    PROVE  OnScreen' /\ Shapes' /\ Sure'
  <1>1. /\ eAt' = [page |-> "edit", id |-> id, failed |-> FALSE] /\ eTyped' = << >>
        /\ unsure' = (TemplateEditorPage!Overlaps(id) \/ leftover # {} \/ pending # << >>)
    BY DEF TemplateEditorPage!Enter, TemplateEditorPage!Unset
  <1>2. Layout \cup Brand \subseteq DOMAIN eEditor'
    <2>1. \A e \in {TemplateEditorPage!Blank, was} : Layout \cup Brand \subseteq DOMAIN e
      BY Fills
    <2>2. PICK e \in {TemplateEditorPage!Blank, was} :
            \/ \E row : eEditor' = TemplateEditorPage!Hydrated(e, id, row)
            \/ eEditor' = [e EXCEPT !.selected = 0]
      BY DEF TemplateEditorPage!Enter
    <2> QED
      BY <2>1, <2>2, Fills
  <1>3. ASSUME ~unsure', NEW s \in eRequests' PROVE ~TemplateEditorPage!Saves(s, id)
    <2>1. PICK r \in eRequests : Same(r, s)
      OBVIOUS
    <2>2. ~TemplateEditorPage!Saves(r, id)
      BY <1>1, <1>3 DEF TemplateEditorPage!Overlaps
    <2> QED
      BY <2>1, <2>2 DEF Same, TemplateEditorPage!Saves
  <1>4. Sure'
    BY <1>1, <1>3, SureOnEntry
  <1>5. {"page", "id", "failed"} \subseteq DOMAIN eAt'
    BY <1>1
  <1> QED
    BY <1>1, <1>2, <1>4, <1>5, NothingChosen DEF EditorInductive, Shapes

LEMMA Editing ==
    ASSUME EditorInductive, NEW id, TemplateEditorPage!Edit(id)
    PROVE  EditorInductive'
  <1>1. /\ Leaves /\ UNCHANGED <<eRows, pending, leftover>>
        /\ TemplateEditorPage!Enter(id, TemplateEditorPage!Blank)
    BY DEF TemplateEditorPage!Edit, Leaves
  <1>2. Apart' /\ \A s \in eRequests' : RequestFits(s) /\ \E r \in eRequests : Same(r, s)
    BY <1>1, LeavingRequests DEF Like
  <1> QED
    BY <1>1, <1>2, Entering, Fills DEF EditorInductive, Shapes

(* A template that arrives: the editor is filled from it once.              *)
LEMMA Receiving ==
    ASSUME EditorInductive, NEW id, NEW row, NEW uploaded,
           TemplateEditorPage!Receive(id, row, uploaded),
           UNCHANGED <<eRows, pending, leftover, unsure>>, Apart',
           \A s \in eRequests' : RequestFits(s),
           \/ eRequests' = eRequests
           \/ \E r \in eRequests : eRequests' = eRequests \ {r} /\ ~Saving(r)
    PROVE  EditorInductive'
  <1> DEFINE e == IF uploaded THEN [eEditor EXCEPT !.logo = TRUE] ELSE eEditor
  <1>1. Shows(e)
    BY ShowsItself, Marks
  <1>2. CASE /\ eEditor' = TemplateEditorPage!Hydrated(e, id, row)
             /\ eAt' = [eAt EXCEPT !.failed = FALSE] /\ eTyped' = << >>
    <2>1. eAt'.page = eAt.page /\ eAt'.id = eAt.id /\ {"page", "id", "failed"} \subseteq DOMAIN eAt'
      BY <1>2 DEF EditorInductive, Shapes
    <2>2. Layout \cup Brand \subseteq DOMAIN eEditor'
      BY <1>1, <1>2, Fills DEF Shows
    <2>3. Sure'
      BY <1>2, <2>1, SureHydrated DEF EditorInductive
    <2> QED
      BY <1>2, <2>1, <2>2, <2>3, NothingChosen DEF EditorInductive, Shapes
  <1>3. CASE eEditor' = e /\ UNCHANGED <<eAt, eTyped>>
    <2>1. TabStays
      BY <1>3 DEF TabStays
    <2>2. Sure'
      BY <2>1, SureStill, SureEnds DEF EditorInductive
    <2>3. OnScreen' /\ Layout \cup Brand \subseteq DOMAIN eEditor'
      BY <1>1, <1>3, StillOnScreen
    <2> QED
      BY <1>3, <2>2, <2>3 DEF EditorInductive, Shapes
  <1>4. (/\ eEditor' = TemplateEditorPage!Hydrated(e, id, row)
         /\ eAt' = [eAt EXCEPT !.failed = FALSE] /\ eTyped' = << >>)
        \/ (eEditor' = e /\ UNCHANGED <<eAt, eTyped>>)
    BY DEF TemplateEditorPage!Receive, TemplateEditorPage!MustHydrate, TemplateEditorPage!Unset
  <1> QED
    BY <1>2, <1>3, <1>4

LEMMA Fetching ==
    ASSUME EditorInductive, TemplateEditorPage!Fetch
    PROVE  EditorInductive'
  <1>1. /\ TemplateEditorPage!Receive(eAt.id, eRows[eAt.id], FALSE)
        /\ UNCHANGED <<eRows, pending, leftover, unsure, eRequests>>
    BY DEF TemplateEditorPage!Fetch
  <1>2. Apart' /\ \A s \in eRequests' : RequestFits(s)
    BY <1>1, ApartQuiet DEF EditorInductive, Shapes
  <1> QED
    BY <1>1, <1>2, Receiving

(* What the page sends. *)
LEMMA FromThePage ==
    ASSUME EditorInductive, NEW r, eRequests' = eRequests \cup {r}, RequestFits(r), r.at = "sent",
           ~Saver(r), TabStays, UNCHANGED <<eRows, eAt>>, Shows(eEditor'),
           r.kind \in {"create", "clone"} => r.id \in TemplateEditorPage!Fresh
    PROVE  EditorInductive'
  <1>1. r.kind \in {"create", "clone"} =>
            r.id \notin DOMAIN eRows /\ r.id # eAt.id /\ \A q \in eRequests : q.id # r.id
    BY DEF TemplateEditorPage!Fresh
  <1>2. Apart'
    BY <1>1, ApartSend DEF EditorInductive
  <1>3. Sure'
    BY <1>1, SureSends DEF EditorInductive
  <1>4. OnScreen' /\ Layout \cup Brand \subseteq DOMAIN eEditor'
    BY StillOnScreen DEF TabStays
  <1> QED
    BY <1>2, <1>3, <1>4 DEF EditorInductive, Shapes, TabStays

LEMMA FromTheList ==
    ASSUME EditorInductive, NEW id,
           \/ TemplateEditorPage!ToggleHide(id) \/ TemplateEditorPage!ToggleAi(id)
           \/ TemplateEditorPage!Delete(id) \/ TemplateEditorPage!CreateAndEdit(id)
           \/ \E copy \in ReportTemplates : TemplateEditorPage!Clone(id, copy)
           \/ TemplateEditorPage!UploadLogo
    PROVE  EditorInductive'
  <1>1. ASSUME NEW kind \in {"hide", "ai", "delete", "clone", "create", "logo"}, NEW i, NEW patch,
               eRequests' = eRequests \cup {TemplateEditorPage!Requested(kind, i, patch)},
               UNCHANGED <<eRows, eAt, eEditor, pending, leftover, eTyped, unsure>>,
               kind \in {"clone", "create"} => i \in TemplateEditorPage!Fresh,
               kind \in {"hide", "ai", "logo"} => DOMAIN patch \cap Brand = {}
        PROVE  EditorInductive'
    <2> DEFINE r == TemplateEditorPage!Requested(kind, i, patch)
    <2>1. r.kind = kind /\ r.id = i /\ r.patch = patch /\ r.at = "sent" /\ DOMAIN r = RequestParts
      BY SentAsAsked
    <2> HIDE DEF r
    <2>2. RequestFits(r) /\ ~Saver(r)
      BY <1>1, <2>1 DEF RequestFits, Saver, TemplateEditorPage!Saves
    <2>3. TabStays /\ Shows(eEditor')
      BY <1>1, ShowsItself DEF TabStays, Shows
    <2>4. eRequests' = eRequests \cup {r}
      BY <1>1 DEF r
    <2> QED
      BY <1>1, <2>1, <2>2, <2>3, <2>4, FromThePage
  <1>2. /\ \A v : DOMAIN [hidden |-> v] \cap Brand = {} /\ DOMAIN [ai |-> v] \cap Brand = {}
        /\ \A v : DOMAIN [logo |-> v] \cap Brand = {}
    BY DEF Brand, TemplateEditorPage!Brand
  <1>3. CASE TemplateEditorPage!ToggleHide(id) \/ TemplateEditorPage!ToggleAi(id)
    BY <1>1, <1>2, <1>3 DEF TemplateEditorPage!ToggleHide, TemplateEditorPage!ToggleAi,
       TemplateEditorPage!FromList, TemplateEditorPage!Send
  <1>4. CASE TemplateEditorPage!Delete(id) \/ \E copy \in ReportTemplates : TemplateEditorPage!Clone(id, copy)
    BY <1>1, <1>4 DEF TemplateEditorPage!Delete, TemplateEditorPage!Clone,
       TemplateEditorPage!FromList, TemplateEditorPage!Send
  <1>5. CASE TemplateEditorPage!CreateAndEdit(id) \/ TemplateEditorPage!UploadLogo
    BY <1>1, <1>2, <1>5 DEF TemplateEditorPage!CreateAndEdit, TemplateEditorPage!UploadLogo,
       TemplateEditorPage!Send
  <1> QED
    BY <1>3, <1>4, <1>5

(* Saves: of the timer, of the timer of an editor that was left, of Save.   *)
LEMMA SavingSends ==
    ASSUME EditorInductive, NEW r, eRequests' = eRequests \cup {r}, RequestFits(r),
           r.kind = "put", r.at = "sent", UNCHANGED <<eRows, eAt, eTyped>>, Shows(eEditor'),
           DOMAIN pending' \subseteq Brand, Sure'
    PROVE  EditorInductive'
  <1>1. Apart'
    BY ApartSend DEF EditorInductive
  <1> QED
    BY <1>1, StillOnScreen DEF EditorInductive, Shapes

LEMMA BrandTimerSaves ==
    ASSUME EditorInductive, TemplateEditorPage!BrandTimer
    PROVE  EditorInductive'
  <1> DEFINE r == TemplateEditorPage!Requested("put", eAt.id, pending)
  <1>1. /\ eRequests' = eRequests \cup {r} /\ pending' = << >>
        /\ unsure' = (unsure \/ TemplateEditorPage!Overlaps(eAt.id))
        /\ UNCHANGED <<eRows, eAt, eEditor, leftover, eTyped>>
    BY DEF TemplateEditorPage!BrandTimer, TemplateEditorPage!Send, TemplateEditorPage!Unset
  <1>2. r.kind = "put" /\ r.id = eAt.id /\ r.patch = pending /\ r.at = "sent" /\ DOMAIN r = RequestParts
    BY SentAsAsked
  <1> HIDE DEF r
  <1>3. eAt.page = "edit" /\ ~unsure =>
            \A f \in DOMAIN eTyped \cap DOMAIN r.patch \cap Brand : r.patch[f] = eTyped[f]
    BY <1>2 DEF EditorInductive, Sure, WaitingIsChosen
  <1>4. DOMAIN pending' = {}
    BY <1>1
  <1>5. Sure'
    BY <1>1, <1>2, <1>3, <1>4, SureSaves DEF EditorInductive
  <1>6. RequestFits(r) /\ Shows(eEditor')
    BY <1>1, <1>2, ShowsItself DEF RequestFits, Shows
  <1> QED
    BY <1>1, <1>2, <1>4, <1>5, <1>6, SavingSends

LEMMA LeftoverTimerSaves ==
    ASSUME EditorInductive, NEW t \in leftover, TemplateEditorPage!LeftoverTimer(t)
    PROVE  EditorInductive'
  <1> DEFINE q == TemplateEditorPage!Requested("put", t.id, t.patch)
             r == [q EXCEPT !.mine = FALSE]
  <1>1. /\ eRequests' = eRequests \cup {r} /\ UNCHANGED pending
        /\ UNCHANGED <<eRows, eAt, eEditor, eTyped, unsure>>
    BY DEF TemplateEditorPage!LeftoverTimer, TemplateEditorPage!Send
  <1>2. q.kind = "put" /\ q.at = "sent" /\ DOMAIN q = RequestParts
    BY SentAsAsked
  <1> HIDE DEF q
  <1>3. r.kind = "put" /\ r.at = "sent" /\ DOMAIN r = RequestParts
    BY <1>2, MovedOn DEF Like, Same
  <1> HIDE DEF r
  <1>4. Sure'
    BY <1>1 DEF EditorInductive, Sure
  <1>5. RequestFits(r) /\ Shows(eEditor') /\ DOMAIN pending' \subseteq Brand
    BY <1>1, <1>3, ShowsItself DEF RequestFits, Shows, EditorInductive, Shapes
  <1> QED
    BY <1>1, <1>3, <1>4, <1>5, SavingSends

LEMMA HandleSaveSaves ==
    ASSUME EditorInductive, NEW id, TemplateEditorPage!HandleSave(id)
    PROVE  EditorInductive'
  <1> DEFINE layout == [name |-> eEditor.name, blocks |-> TemplateEditorPage!Stripped(eEditor.blocks)]
             whole == [name |-> layout.name, blocks |-> layout.blocks,
                       colour |-> eEditor.colour, company |-> eEditor.company]
             made == TemplateEditorPage!Requested("create", id, layout)
             saved == TemplateEditorPage!Requested("put", id, whole)
  <1>1. /\ eEditor' = [eEditor EXCEPT !.saving = TRUE]
        /\ unsure' = (unsure \/ TemplateEditorPage!Overlaps(id))
        /\ UNCHANGED <<eRows, eAt, pending, leftover, eTyped>>
    BY DEF TemplateEditorPage!HandleSave
  <1>2. Shows(eEditor')
    BY <1>1, ShowsItself, Marks
  <1>3. \/ /\ eAt.page = "new" /\ id \in TemplateEditorPage!Fresh
           /\ eRequests' = eRequests \cup {[made EXCEPT !.save = TRUE]}
        \/ id = eAt.id /\ eRequests' = eRequests \cup {[saved EXCEPT !.save = TRUE]}
    BY DEF TemplateEditorPage!HandleSave, TemplateEditorPage!Send
  <1>4. /\ made.kind = "create" /\ made.id = id /\ made.at = "sent" /\ DOMAIN made = RequestParts
        /\ saved.kind = "put" /\ saved.id = id /\ saved.at = "sent" /\ DOMAIN saved = RequestParts
        /\ saved.patch = whole
    BY SentAsAsked
  <1>5. \A f \in Brand : f \in DOMAIN whole /\ whole[f] = eEditor[f]
    BY DEF Brand, TemplateEditorPage!Brand
  <1> HIDE DEF made, saved, whole
  <1>6. CASE /\ eAt.page = "new" /\ id \in TemplateEditorPage!Fresh
             /\ eRequests' = eRequests \cup {[made EXCEPT !.save = TRUE]}
    <2> DEFINE r == [made EXCEPT !.save = TRUE]
    <2>1. r.kind = "create" /\ r.id = id /\ r.at = "sent" /\ DOMAIN r = RequestParts
      BY <1>4, MovedOn DEF Like, Same
    <2>2. eRequests' = eRequests \cup {r}
      BY <1>6
    <2> HIDE DEF r
    <2>3. RequestFits(r) /\ ~Saver(r) /\ TabStays
      BY <1>1, <2>1 DEF RequestFits, Saver, TemplateEditorPage!Saves, TabStays
    <2> QED
      BY <1>1, <1>2, <1>6, <2>1, <2>2, <2>3, FromThePage
  <1>7. CASE id = eAt.id /\ eRequests' = eRequests \cup {[saved EXCEPT !.save = TRUE]}
    <2> DEFINE r == [saved EXCEPT !.save = TRUE]
    <2>1. /\ r.kind = "put" /\ r.id = eAt.id /\ r.at = "sent" /\ r.patch = whole
          /\ DOMAIN r = RequestParts
      BY <1>4, <1>7, MovedOn DEF Like, Same
    <2>2. eRequests' = eRequests \cup {r}
      BY <1>7
    <2> HIDE DEF r
    <2>3. \A f \in DOMAIN eTyped \cap DOMAIN r.patch \cap Brand : r.patch[f] = eTyped[f]
      BY <1>5, <2>1 DEF EditorInductive, OnScreen
    <2>4. Sure'
      BY <1>1, <1>7, <2>1, <2>2, <2>3, SureSaves DEF EditorInductive
    <2>5. RequestFits(r) /\ DOMAIN pending' \subseteq Brand
      BY <1>1, <2>1 DEF RequestFits, EditorInductive, Shapes
    <2> QED
      BY <1>1, <1>2, <2>1, <2>2, <2>4, <2>5, SavingSends
  <1> QED
    BY <1>3, <1>6, <1>7

(* The server.  The tab is not part of it. *)
LEMMA Serving ==
    ASSUME EditorInductive, TemplateEditorPage!Server, Apart', Sure',
           \A i \in DOMAIN eRows' : Brand \subseteq DOMAIN eRows'[i],
           \A s \in eRequests' : RequestFits(s)
    PROVE  EditorInductive'
  <1>1. UNCHANGED <<eAt, eEditor, pending, eTyped>>
    BY DEF TemplateEditorPage!Server
  <1>2. OnScreen' /\ Layout \cup Brand \subseteq DOMAIN eEditor'
    BY <1>1, ShowsItself, StillOnScreen DEF Shows
  <1> QED
    BY <1>1, <1>2 DEF EditorInductive, Shapes

LEMMA Reading ==
    ASSUME EditorInductive, NEW r \in eRequests, TemplateEditorPage!Read(r)
    PROVE  EditorInductive'
  <1> DEFINE s == [r EXCEPT !.at = "read", !.base = eRows[TemplateEditorPage!Source(r)]]
  <1>1. /\ r.at = "sent" /\ r.kind # "create" /\ TemplateEditorPage!Source(r) \in DOMAIN eRows
        /\ eRequests' = (eRequests \ {r}) \cup {s}
        /\ UNCHANGED eRows /\ TemplateEditorPage!Server
    BY DEF TemplateEditorPage!Read, TemplateEditorPage!Becomes
  <1>2. RequestFits(r) /\ TabStays
    BY <1>1 DEF EditorInductive, Shapes, TemplateEditorPage!Server, TabStays
  <1>3. Same(r, s) /\ s.at = "read" /\ s.base = eRows[TemplateEditorPage!Source(r)]
    <2>1. DOMAIN r = RequestParts
      BY <1>2 DEF RequestFits
    <2> QED
      BY <2>1 DEF RequestParts, Same
  <1> HIDE DEF s
  <1>4. r.kind # "clone" => TemplateEditorPage!Source(r) = r.id
    BY DEF TemplateEditorPage!Source
  <1>5. Apart'
    BY <1>1, <1>3, <1>4, ApartMoves DEF EditorInductive, Making, Same
  <1>6. Saver(s) => s.base = eRows[s.id]
    BY <1>3, <1>4 DEF Saver, TemplateEditorPage!Saves, Same
  <1>7. Sure'
    BY <1>1, <1>2, <1>3, <1>6, SureMoves DEF EditorInductive
  <1> QED
    BY <1>1, <1>2, <1>3, <1>5, <1>7, FitsOn, Serving DEF EditorInductive, Shapes

LEMMA Flushing ==
    ASSUME EditorInductive, NEW r \in eRequests, TemplateEditorPage!Flush(r)
    PROVE  EditorInductive'
  <1> DEFINE s == [r EXCEPT !.at = "flushed"]
  <1>1. /\ IF r.kind = "create" THEN r.at = "sent" ELSE r.at = "read"
        /\ eRequests' = (eRequests \ {r}) \cup {s}
        /\ UNCHANGED eRows /\ TemplateEditorPage!Server
    BY DEF TemplateEditorPage!Flush, TemplateEditorPage!Becomes
  <1>2. RequestFits(r) /\ TabStays
    BY <1>1 DEF EditorInductive, Shapes, TemplateEditorPage!Server, TabStays
  <1>3. Same(r, s) /\ s.at = "flushed" /\ s.base = r.base
    <2>1. DOMAIN r = RequestParts
      BY <1>2 DEF RequestFits
    <2> QED
      BY <2>1, MovedOn
  <1> HIDE DEF s
  <1>4. Apart'
    BY <1>1, <1>3, ApartMoves DEF EditorInductive, Making, Same
  <1>5. Saver(s) => r.at = "read"
    BY <1>1, <1>3 DEF Saver, TemplateEditorPage!Saves, Same
  <1>6. Sure'
    BY <1>1, <1>2, <1>3, <1>5, SureMoves DEF EditorInductive
  <1> QED
    BY <1>1, <1>2, <1>3, <1>4, <1>6, FitsOn, Serving DEF EditorInductive, Shapes

(* What a commit writes. *)
LEMMA Writing ==
    ASSUME EditorInductive, NEW r \in eRequests, r.at = "flushed",
           eRows' = TemplateEditorPage!Written(r)
    PROVE  /\ \A i \in DOMAIN eRows' : Brand \subseteq DOMAIN eRows'[i]
           /\ DOMAIN eRows' \subseteq
                 DOMAIN eRows \cup (IF r.kind \in {"create", "clone"} THEN {r.id} ELSE {})
           /\ \A i \in DOMAIN eRows' \cap DOMAIN eRows : \A f \in Brand :
                 eRows'[i][f] = IF i = r.id /\ r.kind \notin {"create", "clone"}
                                      /\ f \in DOMAIN r.patch /\ r.patch[f] # r.base[f]
                                THEN r.patch[f] ELSE eRows[i][f]
           /\ r.kind = "delete" => r.id \notin DOMAIN eRows'
  <1>0. /\ \A i \in DOMAIN eRows : Brand \subseteq DOMAIN eRows[i]
        /\ r.kind \in {"create", "clone"} => r.id \notin DOMAIN eRows
    BY DEF EditorInductive, Shapes, Apart, Making
  <1>1. CASE r.kind \in {"create", "clone"}
    <2>1. PICK row : eRows' = TemplateEditorPage!With(eRows, r.id, row) /\ Brand \subseteq DOMAIN row
      <3>1. \A name, blocks : Brand \subseteq DOMAIN TemplateEditorPage!Template(name, blocks)
        BY DEF TemplateEditorPage!Template, Brand, TemplateEditorPage!Brand
      <3>2. \E name, blocks :
              eRows' = TemplateEditorPage!With(eRows, r.id, TemplateEditorPage!Template(name, blocks))
        BY <1>1 DEF TemplateEditorPage!Written
      <3> QED
        BY <3>1, <3>2
    <2>2. /\ DOMAIN eRows' = DOMAIN eRows \cup {r.id} /\ eRows'[r.id] = row
          /\ \A i \in DOMAIN eRows \ {r.id} : eRows'[i] = eRows[i]
      BY <2>1 DEF TemplateEditorPage!With
    <2> QED
      BY <1>0, <1>1, <2>1, <2>2
  <1>2. CASE r.kind = "delete"
    <2>1. eRows' = [i \in DOMAIN eRows \ {r.id} |-> eRows[i]]
      BY <1>2 DEF TemplateEditorPage!Written
    <2>2. DOMAIN r.patch \cap Brand = {} \/ r.id \notin DOMAIN eRows'
      BY <2>1
    <2> QED
      BY <1>0, <1>2, <2>1
  <1>3. CASE r.kind \notin {"create", "clone", "delete"}
    <2>1. eRows' = [eRows EXCEPT ![r.id] =
                      [f \in DOMAIN @ |-> IF f \in DOMAIN r.patch /\ r.patch[f] # r.base[f]
                                          THEN r.patch[f] ELSE @[f]]]
      BY <1>3 DEF TemplateEditorPage!Written
    <2>2. DOMAIN eRows' = DOMAIN eRows /\ \A i \in DOMAIN eRows \ {r.id} : eRows'[i] = eRows[i]
      BY <2>1
    <2>3. r.id \in DOMAIN eRows =>
            eRows'[r.id] = [f \in DOMAIN eRows[r.id] |->
                              IF f \in DOMAIN r.patch /\ r.patch[f] # r.base[f]
                              THEN r.patch[f] ELSE eRows[r.id][f]]
      BY <2>1
    <2> QED
      BY <1>0, <1>3, <2>2, <2>3
  <1> QED
    BY <1>1, <1>2, <1>3

LEMMA Committing ==
    ASSUME EditorInductive, NEW r \in eRequests, TemplateEditorPage!Commit(r)
    PROVE  EditorInductive'
  <1>1. r.at = "flushed" /\ eRows' = TemplateEditorPage!Written(r) /\ TemplateEditorPage!Server
    BY DEF TemplateEditorPage!Commit
  <1>2. RequestFits(r) /\ TabStays
    BY <1>1 DEF EditorInductive, Shapes, TemplateEditorPage!Server, TabStays
  <1>3. \/ eRequests' = eRequests \ {r}
        \/ \E s : Same(r, s) /\ s.at = "committed" /\ eRequests' = (eRequests \ {r}) \cup {s}
    <2>1. ASSUME NEW b, eRequests' = (eRequests \ {r}) \cup {[r EXCEPT !.at = "committed", !.base = b]}
          PROVE  \E s : Same(r, s) /\ s.at = "committed" /\ eRequests' = (eRequests \ {r}) \cup {s}
      <3> DEFINE s == [r EXCEPT !.at = "committed", !.base = b]
      <3>1. DOMAIN r = RequestParts
        BY <1>2 DEF RequestFits
      <3>2. Same(r, s) /\ s.at = "committed"
        BY <3>1 DEF RequestParts, Same
      <3> QED
        BY <2>1, <3>2
    <2>2. \/ eRequests' = eRequests \ {r}
          \/ \E b : eRequests' = (eRequests \ {r}) \cup {[r EXCEPT !.at = "committed", !.base = b]}
      BY DEF TemplateEditorPage!Commit, TemplateEditorPage!Becomes
    <2> QED
      BY <2>1, <2>2
  <1>4. Apart'
    BY <1>1, <1>3, Writing, ApartCommits DEF EditorInductive
  <1>5. Sure'
    BY <1>1, <1>2, <1>3, Writing, SureCommits DEF EditorInductive, RequestFits
  <1>6. \A s \in eRequests' : RequestFits(s)
    BY <1>2, <1>3, FitsOn DEF EditorInductive, Shapes
  <1> QED
    BY <1>1, <1>4, <1>5, <1>6, Writing, Serving

-----------------------------------------------------------------------------
(* Answers. *)

(* An answer ends a committed request and marks another one.                *)
LEMMA Answering ==
    ASSUME EditorInductive, NEW r \in eRequests, TemplateEditorPage!Answered(r), UNCHANGED eRows
    PROVE  /\ Apart' /\ \A s \in eRequests' : RequestFits(s) /\ \E q \in eRequests : Same(q, s)
           /\ TabStays => Sure'
  <1>1. RequestFits(r) /\ \A q \in eRequests : RequestFits(q) /\ Same(q, q)
    BY DEF EditorInductive, Shapes, Same, RequestFits
  <1>2. CASE r.at = "committed" /\ eRequests' = eRequests \ {r}
    <2>1. Apart'
      BY <1>2, ApartQuiet DEF EditorInductive
    <2>2. TabStays => Sure'
      BY <1>2, SureEnds DEF EditorInductive, Saving
    <2> QED
      BY <1>1, <1>2, <2>1, <2>2
  <1>3. CASE r.at # "committed" /\ eRequests' = (eRequests \ {r}) \cup {[r EXCEPT !.answered = TRUE]}
    <2> DEFINE s == [r EXCEPT !.answered = TRUE]
    <2>1. Like(r, s)
      BY <1>1, MovedOn DEF RequestFits
    <2>2. eRequests' = (eRequests \ {r}) \cup {s}
      BY <1>3
    <2> HIDE DEF s
    <2>3. Apart'
      BY <2>1, <2>2, ApartLike DEF EditorInductive
    <2>4. TabStays => Sure'
      BY <2>1, <2>2, SureMoves DEF EditorInductive, Like
    <2> QED
      BY <1>1, <2>1, <2>2, <2>3, <2>4, FitsOn DEF Like
  <1> QED
    BY <1>2, <1>3 DEF TemplateEditorPage!Answered, TemplateEditorPage!Becomes

LEMMA FinishedShows ==
    ASSUME EditorInductive, NEW r PROVE Shows(TemplateEditorPage!Finished(r))
  BY ShowsItself, Marks DEF TemplateEditorPage!Finished

LEMMA AnswersArrive ==
    ASSUME EditorInductive, NEW r \in eRequests, TemplateEditorPage!Answer(r)
    PROVE  EditorInductive'
  <1>1. TemplateEditorPage!Answered(r) /\ UNCHANGED <<eRows, pending, leftover>>
    BY DEF TemplateEditorPage!Answer
  <1>2. /\ Apart' /\ \A s \in eRequests' : RequestFits(s) /\ \E q \in eRequests : Same(q, s)
        /\ TabStays => Sure'
    BY <1>1, Answering
  <1>3. CASE r.kind = "create"
    <2>1. TemplateEditorPage!Enter(r.id, TemplateEditorPage!Finished(r))
      BY <1>3 DEF TemplateEditorPage!Answer
    <2>2. Layout \cup Brand \subseteq DOMAIN TemplateEditorPage!Finished(r)
      BY FinishedShows DEF Shows
    <2> QED
      BY <1>1, <1>2, <2>1, <2>2, Entering DEF EditorInductive
  <1>4. CASE r.kind = "logo"
    <2>1. /\ TemplateEditorPage!Receive(r.id, r.base, r.mine) /\ UNCHANGED unsure
          /\ r.at = "committed"
      BY <1>4 DEF TemplateEditorPage!Answer, TemplateEditorPage!CommitsFirst
    <2>2. eRequests' = eRequests \ {r} /\ ~Saving(r)
      BY <1>1, <2>1 DEF TemplateEditorPage!Answered, Saving
    <2> QED
      BY <1>1, <1>2, <2>1, <2>2, Receiving
  <1>5. CASE r.kind \notin {"create", "logo"}
    <2>1. PICK v : /\ UNCHANGED <<eAt, eTyped, unsure>>
                   /\ eEditor' = [TemplateEditorPage!Finished(r) EXCEPT !.dirty = v]
      BY <1>5 DEF TemplateEditorPage!Answer
    <2>2. Shows([TemplateEditorPage!Finished(r) EXCEPT !.dirty = v])
      BY FinishedShows, Marks
    <2>3. TabStays
      BY <1>1, <2>1 DEF TabStays
    <2>4. OnScreen' /\ Layout \cup Brand \subseteq DOMAIN eEditor'
      BY <2>1, <2>2, StillOnScreen
    <2> QED
      BY <1>1, <1>2, <2>1, <2>3, <2>4 DEF EditorInductive, Shapes
  <1> QED
    BY <1>3, <1>4, <1>5

LEMMA Failing ==
    ASSUME EditorInductive, NEW r \in eRequests, TemplateEditorPage!Refuse(r) \/ TemplateEditorPage!Fail(r)
    PROVE  EditorInductive'
  <1>1. /\ eEditor' = TemplateEditorPage!Finished(r)
        /\ unsure' = (unsure \/ TemplateEditorPage!Saves(r, eAt.id))
        /\ UNCHANGED <<eRows, eAt, pending, leftover, eTyped>>
    BY DEF TemplateEditorPage!Refuse, TemplateEditorPage!Fail, TemplateEditorPage!Told
  <1>2. TabStays /\ (Saving(r) => unsure')
    BY <1>1 DEF TabStays, Saving, Saver
  <1>3. CASE eRequests' = eRequests \ {r}
    <2>1. Sure' /\ Apart'
      BY <1>1, <1>2, <1>3, SureEnds, ApartQuiet DEF EditorInductive
    <2> QED
      BY <1>1, <1>3, <2>1, FinishedShows, StillOnScreen DEF EditorInductive, Shapes
  <1>4. CASE TemplateEditorPage!Answered(r)
    <2>1. Apart' /\ Sure' /\ \A s \in eRequests' : RequestFits(s)
      BY <1>1, <1>2, <1>4, Answering
    <2> QED
      BY <1>1, <2>1, FinishedShows, StillOnScreen DEF EditorInductive, Shapes
  <1> QED
    BY <1>3, <1>4 DEF TemplateEditorPage!Refuse, TemplateEditorPage!Fail

LEMMA EditorStep ==
    ASSUME EditorInductive, TemplateEditorPage!Next
    PROVE  EditorInductive'
  BY Looking, ChooseLayout, ChooseBrand, ToOtherPages, Editing, Fetching, FromTheList,
     BrandTimerSaves, LeftoverTimerSaves, HandleSaveSaves, Reading, Flushing, Committing,
     AnswersArrive, Failing DEF TemplateEditorPage!Next

LEMMA EditorInit == TemplateEditorPage!Init => EditorInductive
  <1> SUFFICES ASSUME TemplateEditorPage!Init PROVE EditorInductive
    OBVIOUS
  <1>1. eRequests = {} /\ pending = << >> /\ leftover = {} /\ eTyped = << >>
    BY DEF TemplateEditorPage!Init, TemplateEditorPage!Unset
  <1>2. \A i \in DOMAIN eRows : Brand \subseteq DOMAIN eRows[i]
    BY DEF TemplateEditorPage!Init, TemplateEditorPage!Template, Brand, TemplateEditorPage!Brand
  <1>3. {"page", "id", "failed"} \subseteq DOMAIN eAt
    BY DEF TemplateEditorPage!Init, TemplateEditorPage!ListPage
  <1>5. Layout \cup Brand \subseteq DOMAIN eEditor
    <2>1. \/ eEditor = TemplateEditorPage!Blank
          \/ \E id, row : eEditor = TemplateEditorPage!Hydrated(TemplateEditorPage!Blank, id, row)
      BY DEF TemplateEditorPage!Init
    <2>2. Layout \cup Brand \subseteq DOMAIN TemplateEditorPage!Blank
      BY DEF TemplateEditorPage!Blank, Layout, Brand, TemplateEditorPage!Brand
    <2> QED
      BY <2>1, <2>2, Fills
  <1>4. DOMAIN pending = {} /\ DOMAIN eTyped = {}
    BY <1>1
  <1> QED
    BY <1>1, <1>2, <1>3, <1>4, <1>5 DEF EditorInductive, Shapes, Apart, OnScreen, Sure, OneSaver,
       ReadIsStored, WaitingIsChosen, EachIsSomewhere

LEMMA EditorHolds == PagesSpec => []EditorInductive
  <1>1. PagesInit => EditorInductive
    BY EditorInit DEF PagesInit
  <1>2. ASSUME EditorInductive, [PagesNext]_pagesVars PROVE EditorInductive'
    <2>1. CASE TemplateEditorPage!Next
      BY <1>2, <2>1, EditorStep
    <2>2. CASE UNCHANGED templateEditorVars
      BY <1>2, <2>2 DEF templateEditorVars, EditorInductive, Shapes, Apart, Making, OnScreen, Sure,
         OneSaver, ReadIsStored, WaitingIsChosen, EachIsSomewhere, Waits, Carried, IsStored, Saver, Saving,
         RequestFits
    <2> QED
      BY <1>2, <2>1, <2>2, OnePageSteps
  <1> QED
    BY <1>1, <1>2, PTL DEF PagesSpec

(* What the user chose stays on screen, and is stored once nothing is under *)
(* way, for any number of templates, blocks, choices, requests and failures *)
(* but those that the property names.                                       *)
THEOREM ChoicesAreKept == PagesSpec => []ChoicesStay
  BY EditorHolds, ChoicesAreInductive, PTL

-----------------------------------------------------------------------------
(* Incident templates.  Filtering keeps the order of a list: what is k-th   *)
(* of the places filtered has k - 1 of them before it.                      *)

Before(I, i) == {j \in I : j < i}
Rank(I, i) == Cardinality(Before(I, i))
Place(I, k) == CHOOSE i \in I : Rank(I, i) = k - 1

LEMMA RanksAreOneToOne ==
    ASSUME NEW I \in SUBSET Nat, IsFiniteSet(I)
    PROVE  /\ Cardinality(I) \in Nat
           /\ \A i \in I : Rank(I, i) \in 0 .. Cardinality(I) - 1
           /\ \A i, j \in I : i < j <=> Rank(I, i) < Rank(I, j)
           /\ \A k \in 1 .. Cardinality(I) : Place(I, k) \in I /\ Rank(I, Place(I, k)) = k - 1
           /\ \A i \in I : Place(I, Rank(I, i) + 1) = i
  <1> DEFINE n == Cardinality(I)
             T == 0 .. n - 1
             rank == [i \in I |-> Rank(I, i)]
  <1>1. n \in Nat /\ IsFiniteSet(T) /\ Cardinality(T) = n
    <2>1. n \in Nat
      BY FS_CardinalityType
    <2> HIDE DEF n
    <2>2. 0 \in Int /\ n - 1 \in Int /\ (IF 0 > n - 1 THEN 0 ELSE (n - 1) - 0 + 1) = n
      BY <2>1
    <2> QED
      BY <2>1, <2>2, FS_Interval
  <1> HIDE DEF n
  <1>2. ASSUME NEW i \in I, NEW V \in SUBSET I, Before(I, i) \cup {i} \subseteq V
        PROVE  Rank(I, i) \in Nat /\ Rank(I, i) < Cardinality(V)
    <2>1. IsFiniteSet(V) /\ IsFiniteSet(Before(I, i)) /\ i \notin Before(I, i)
      <3>1. i \in Nat /\ Before(I, i) \in SUBSET I
        BY DEF Before
      <3>2. ~(i < i)
        BY <3>1
      <3> QED
        BY <3>1, <3>2, FS_Subset DEF Before
    <2>2. /\ Rank(I, i) \in Nat /\ Cardinality(V) \in Nat
          /\ Cardinality(Before(I, i) \cup {i}) = Rank(I, i) + 1
          /\ Cardinality(Before(I, i) \cup {i}) <= Cardinality(V)
      BY <1>2, <2>1, FS_CardinalityType, FS_AddElement, FS_Subset DEF Rank
    <2> QED
      BY <2>2
  <1>3. ASSUME NEW i \in I PROVE Rank(I, i) \in T
    <2>1. Before(I, i) \cup {i} \subseteq I
      BY DEF Before
    <2>2. Rank(I, i) \in Nat /\ Rank(I, i) < n
      BY <1>2, <2>1 DEF n
    <2> QED
      BY <1>1, <2>2
  <1>4. ASSUME NEW i \in I, NEW j \in I, i < j PROVE Rank(I, i) < Rank(I, j)
    <2>0. \A h \in I : h < i => h < j
      BY <1>4
    <2>1. Before(I, j) \in SUBSET I /\ Before(I, i) \cup {i} \subseteq Before(I, j)
      BY <1>4, <2>0 DEF Before
    <2> QED
      BY <1>2, <2>1 DEF Rank
  <1>5. ASSUME NEW i \in I, NEW j \in I PROVE i < j <=> Rank(I, i) < Rank(I, j)
    <2>1. Rank(I, i) \in Nat /\ Rank(I, j) \in Nat /\ (i < j \/ i = j \/ j < i)
      BY <1>1, <1>3
    <2> QED
      BY <1>4, <2>1
  <1>6. \A i, j \in I : Rank(I, i) = Rank(I, j) => i = j
    <2>1. ASSUME NEW i \in I, NEW j \in I, Rank(I, i) = Rank(I, j) PROVE i = j
      <3>1. Rank(I, i) \in Nat /\ (i < j \/ i = j \/ j < i)
        BY <1>1, <1>3
      <3> QED
        BY <1>4, <2>1, <3>1
    <2> QED
      BY <2>1
  <1>7. rank \in Injection(I, T)
    BY <1>3, <1>6 DEF Injection, IsInjective
  <1>8. rank \in Surjection(I, T)
    <2> HIDE DEF rank, T
    <2> QED
      BY <1>1, <1>7, FS_Injection DEF n
  <1>9. ASSUME NEW k \in 1 .. n PROVE Place(I, k) \in I /\ Rank(I, Place(I, k)) = k - 1
    <2>1. k - 1 \in T
      BY <1>1
    <2>2. \E i \in I : Rank(I, i) = k - 1
      BY <1>8, <2>1 DEF Surjection
    <2> QED
      BY <2>2 DEF Place
  <1>10. ASSUME NEW i \in I PROVE Place(I, Rank(I, i) + 1) = i
    <2>1. Rank(I, i) \in Nat /\ (Rank(I, i) + 1) - 1 = Rank(I, i)
      BY <1>1, <1>3
    <2>2. Place(I, Rank(I, i) + 1) = CHOOSE j \in I : Rank(I, j) = Rank(I, i)
      BY <2>1 DEF Place
    <2> QED
      BY <1>6, <2>2
  <1> QED
    BY <1>1, <1>3, <1>5, <1>9, <1>10 DEF n, T

Picked(s, I) == TaskTemplatesPage!Picked(s, I)

(* What is filtered: the tasks at the places, in their order. *)
LEMMA PickedIsInOrder ==
    ASSUME NEW S, NEW s \in Seq(S), NEW I \in SUBSET DOMAIN s
    PROVE  /\ IsFiniteSet(I) /\ I \subseteq Nat
           /\ Picked(s, I) \in Seq(S) /\ Len(Picked(s, I)) = Cardinality(I)
           /\ \A k \in 1 .. Cardinality(I) : Place(I, k) \in I /\ Picked(s, I)[k] = s[Place(I, k)]
           /\ \A i \in I : /\ Rank(I, i) + 1 \in 1 .. Cardinality(I)
                           /\ Picked(s, I)[Rank(I, i) + 1] = s[i]
  <1>1. Len(s) \in Nat /\ DOMAIN s = 1 .. Len(s) /\ \A i \in I : s[i] \in S
    BY LenProperties
  <1>2. IsFiniteSet(I) /\ I \subseteq Nat
    <2>1. IsFiniteSet(1 .. Len(s))
      BY <1>1, FS_Interval
    <2> QED
      BY <1>1, <2>1, FS_Subset
  <1> DEFINE before == [i \in I |-> {j \in I : j < i}]
  <1>3. \A i \in I : Cardinality(before[i]) = Rank(I, i)
    BY DEF Rank, Before
  <1>4. DOMAIN before = I
    OBVIOUS
  <1>5. Picked(s, I) = TaskTemplatesPage!Ranked(s, before)
    BY DEF Picked, TaskTemplatesPage!Picked
  <1> HIDE DEF before
  <1>6. \A k : (CHOOSE i \in I : Cardinality(before[i]) = k - 1) = Place(I, k)
    BY <1>3, Zenon DEF Place
  <1>7. Picked(s, I) = [k \in 1 .. Cardinality(I) |-> s[Place(I, k)]]
    <2>1. \A X : TaskTemplatesPage!Cardinality(X) = Cardinality(X)
      BY DEF TaskTemplatesPage!Cardinality, Cardinality
    <2>2. Picked(s, I) = [k \in 1 .. Cardinality(I) |-> s[CHOOSE i \in I : Cardinality(before[i]) = k - 1]]
      BY <1>4, <1>5, <2>1 DEF TaskTemplatesPage!Ranked
    <2> QED
      BY <1>6, <2>2
  <1>8. /\ Cardinality(I) \in Nat
        /\ \A k \in 1 .. Cardinality(I) : Place(I, k) \in I
        /\ \A i \in I : Rank(I, i) \in 0 .. Cardinality(I) - 1 /\ Place(I, Rank(I, i) + 1) = i
    BY <1>2, RanksAreOneToOne
  <1>9. Picked(s, I) \in Seq(S) /\ Len(Picked(s, I)) = Cardinality(I)
    BY <1>1, <1>7, <1>8
  <1>10. ASSUME NEW i \in I PROVE Rank(I, i) + 1 \in 1 .. Cardinality(I) /\ Picked(s, I)[Rank(I, i) + 1] = s[i]
    BY <1>7, <1>8
  <1> QED
    BY <1>2, <1>7, <1>8, <1>9, <1>10

(* And what has the tasks of the places in their order is what is filtered. *)
Lists(e, t, s, I) ==
    /\ I \in SUBSET DOMAIN s /\ e \in [1 .. Len(t) -> I]
    /\ \A k, l \in 1 .. Len(t) : k < l => e[k] < e[l]
    /\ \A i \in I : \E k \in 1 .. Len(t) : e[k] = i
    /\ \A k \in 1 .. Len(t) : t[k] = s[e[k]]

LEMMA InOrderIsPicked ==
    ASSUME NEW S, NEW s \in Seq(S), NEW t \in Seq(S), NEW e, NEW I, Lists(e, t, s, I)
    PROVE  t = Picked(s, I)
  <1> USE DEF Lists
  <1> DEFINE m == Len(t)
  <1>1. m \in Nat /\ IsFiniteSet(1 .. m) /\ Cardinality(1 .. m) = m
    <2>1. m \in Nat
      BY LenProperties
    <2> HIDE DEF m
    <2>2. 1 \in Int /\ m \in Int /\ (IF 1 > m THEN 0 ELSE m - 1 + 1) = m
      BY <2>1
    <2> QED
      BY <2>1, <2>2, FS_Interval
  <1>2. I \subseteq Nat /\ IsFiniteSet(I) /\ \A k \in 1 .. m : e[k] \in Nat
    BY PickedIsInOrder
  <1> HIDE DEF m
  <1>3. \A k, l \in 1 .. m : e[k] = e[l] => k = l
    <2>1. ASSUME NEW k \in 1 .. m, NEW l \in 1 .. m, e[k] = e[l] PROVE k = l
      <3>1. k < l \/ k = l \/ l < k
        BY <1>1
      <3> QED
        BY <1>2, <2>1, <3>1 DEF m
    <2> QED
      BY <2>1
  <1>4. Cardinality(I) = m
    <2>1. e \in Bijection(1 .. m, I)
      BY <1>3 DEF m, Bijection, Injection, Surjection, IsInjective
    <2> QED
      BY <1>1, <2>1, FS_Bijection DEF ExistsBijection
  <1>5. ASSUME NEW k \in 1 .. m PROVE Rank(I, e[k]) = k - 1
    <2> DEFINE f == [l \in 1 .. k - 1 |-> e[l]]
    <2>1. \A l \in 1 .. k - 1 : l \in 1 .. m /\ l < k /\ e[l] \in I /\ e[l] < e[k]
      BY <1>1 DEF m
    <2>2. \A i \in Before(I, e[k]) : \E l \in 1 .. k - 1 : e[l] = i
      <3>1. ASSUME NEW i \in I, i < e[k] PROVE \E l \in 1 .. k - 1 : e[l] = i
        <4>1. PICK l \in 1 .. m : e[l] = i
          BY DEF m
        <4>2. l # k /\ ~(k < l)
          BY <1>2, <3>1, <4>1 DEF m
        <4>3. l \in 1 .. k - 1
          BY <1>1, <4>2
        <4> QED
          BY <4>1, <4>3
      <3> QED
        BY <3>1 DEF Before
    <2>3. f \in Bijection(1 .. k - 1, Before(I, e[k]))
      <3>1. f \in [1 .. k - 1 -> Before(I, e[k])]
        BY <2>1 DEF Before
      <3>2. \A a, b \in 1 .. k - 1 : f[a] = f[b] => a = b
        BY <1>3, <2>1
      <3>3. \A i \in Before(I, e[k]) : \E l \in 1 .. k - 1 : f[l] = i
        BY <2>2
      <3> HIDE DEF f
      <3> QED
        BY <3>1, <3>2, <3>3 DEF Bijection, Injection, Surjection, IsInjective
    <2>4. k \in Int /\ IsFiniteSet(1 .. k - 1) /\ Cardinality(1 .. k - 1) = k - 1
      BY <1>1, FS_Interval
    <2> QED
      BY <2>3, <2>4, FS_Bijection DEF ExistsBijection, Rank
  <1>6. ASSUME NEW k \in 1 .. m PROVE Place(I, k) = e[k]
    <2>1. e[k] \in I /\ k \in Int /\ Rank(I, e[k]) + 1 = k
      BY <1>1, <1>5 DEF m
    <2>2. Place(I, Rank(I, e[k]) + 1) = e[k]
      BY <1>2, <2>1, RanksAreOneToOne
    <2> QED
      BY <2>1, <2>2
  <1>7. /\ Picked(s, I) \in Seq(S) /\ Len(Picked(s, I)) = m
        /\ \A k \in 1 .. m : Picked(s, I)[k] = t[k]
    BY <1>4, <1>6, PickedIsInOrder DEF m
  <1> QED
    BY <1>7, SeqEqual DEF m

(* The first with a property. *)
LEMMA LeastPlace ==
    ASSUME NEW n \in Nat, NEW I \in SUBSET (1 .. n), I # {}
    PROVE  TaskTemplatesPage!Min(I) \in I
  <1>1. IsFiniteSet(I) /\ I \subseteq Nat
    <2>1. IsFiniteSet(1 .. n) /\ 1 .. n \subseteq Nat
      BY FS_Interval
    <2> QED
      BY <2>1, FS_Subset
  <1>2. Cardinality(I) \in Nat /\ Cardinality(I) # 0
    BY <1>1, FS_CardinalityType, FS_EmptySet
  <1>3. Place(I, 1) \in I /\ Rank(I, Place(I, 1)) = 0
    <2>1. 1 \in 1 .. Cardinality(I) /\ 1 - 1 = 0
      BY <1>2
    <2> QED
      BY <1>1, <2>1, RanksAreOneToOne
  <1>4. Before(I, Place(I, 1)) = {}
    <2>1. IsFiniteSet(Before(I, Place(I, 1)))
      BY <1>1, FS_Subset DEF Before
    <2> QED
      BY <1>3, <2>1, FS_EmptySet DEF Rank
  <1>5. \A j \in I : Place(I, 1) <= j
    <2>1. \A j \in I : j \in Nat /\ Place(I, 1) \in Nat /\ ~(j < Place(I, 1))
      BY <1>1, <1>3, <1>4 DEF Before
    <2> QED
      BY <2>1
  <1> QED
    BY <1>3, <1>5 DEF TaskTemplatesPage!Min

ArrayMove(s, i, j) == TaskTemplatesPage!ArrayMove(s, i, j)

(* What is taken out of a list leaves the others in their places. *)
LEMMA RemovedIsGone ==
    ASSUME NEW S, NEW s \in Seq(S), NEW i \in 1 .. Len(s)
    PROVE  LET r == TaskTemplatesPage!RemoveAt(s, i) IN
           /\ r \in Seq(S) /\ Len(r) = Len(s) - 1
           /\ \A k \in 1 .. Len(s) - 1 : r[k] = IF k < i THEN s[k] ELSE s[k + 1]
  <1> DEFINE n == Len(s)
             r == SubSeq(s, 1, i - 1) \o SubSeq(s, i + 1, n)
  <1>0. n \in Nat /\ i \in Int /\ 1 <= i /\ i <= n /\ \A k \in 1 .. n : s[k] \in S
    BY LenProperties
  <1>6. TaskTemplatesPage!RemoveAt(s, i) = r
    BY DEF TaskTemplatesPage!RemoveAt
  <1> HIDE DEF n
  <1> DEFINE a == SubSeq(s, 1, i - 1)
             b == SubSeq(s, i + 1, n)
  <1>1. a \in Seq(S) /\ Len(a) = i - 1 /\ \A k \in 1 .. i - 1 : a[k] = s[k]
    <2>1. i - 1 \in Int /\ \A k \in 1 .. i - 1 : s[k] \in S /\ 1 + k - 1 = k
      BY <1>0
    <2> QED
      BY <1>0, <2>1, SubSeqProperties
  <1>2. b \in Seq(S) /\ Len(b) = n - i /\ \A k \in 1 .. n - i : b[k] = s[i + k]
    <2>1. i + 1 \in Int /\ n \in Int /\ \A k \in i + 1 .. n : s[k] \in S
      BY <1>0
    <2>2. n - (i + 1) + 1 = n - i /\ (IF i + 1 <= n THEN n - (i + 1) + 1 ELSE 0) = n - i
          /\ \A k \in 1 .. n - i : (i + 1) + k - 1 = i + k
      BY <1>0
    <2>3. /\ b \in Seq(S) /\ Len(b) = IF i + 1 <= n THEN n - (i + 1) + 1 ELSE 0
          /\ \A k \in 1 .. n - (i + 1) + 1 : b[k] = s[(i + 1) + k - 1]
      BY <2>1, SubSeqProperties
    <2> QED
      BY <2>2, <2>3
  <1> HIDE DEF a, b
  <1>3. /\ a \o b \in Seq(S) /\ Len(a \o b) = Len(a) + Len(b)
        /\ \A k \in 1 .. Len(a) + Len(b) : (a \o b)[k] = IF k <= Len(a) THEN a[k] ELSE b[k - Len(a)]
    BY <1>1, <1>2, ConcatProperties
  <1>4. Len(a \o b) = n - 1
    BY <1>0, <1>1, <1>2, <1>3
  <1>5. ASSUME NEW k \in 1 .. n - 1 PROVE (a \o b)[k] = IF k < i THEN s[k] ELSE s[k + 1]
    <2>1. k \in 1 .. Len(a) + Len(b) /\ (k <= Len(a) <=> k < i)
      BY <1>0, <1>1, <1>2
    <2>2. k < i => k \in 1 .. i - 1
      BY <1>0
    <2>3. ~(k < i) => k - (i - 1) \in 1 .. n - i /\ i + (k - (i - 1)) = k + 1
      BY <1>0
    <2> QED
      BY <1>1, <1>2, <1>3, <2>1, <2>2, <2>3
  <1> QED
    BY <1>3, <1>4, <1>5, <1>6 DEF a, b, n

(* Moving a task loses none and doubles none. *)
LEMMA MovedIsThere ==
    ASSUME NEW S, NEW s \in Seq(S), NEW i \in 1 .. Len(s), NEW j \in 1 .. Len(s)
    PROVE  /\ ArrayMove(s, i, j) \in Seq(S) /\ Len(ArrayMove(s, i, j)) = Len(s)
           /\ \A k \in 1 .. Len(s) : \E l \in 1 .. Len(s) : ArrayMove(s, i, j)[k] = s[l]
           /\ \A l \in 1 .. Len(s) : \E k \in 1 .. Len(s) : ArrayMove(s, i, j)[k] = s[l]
  <1> DEFINE n == Len(s)
             r == SubSeq(s, 1, i - 1) \o SubSeq(s, i + 1, n)
             x == SubSeq(r, 1, j - 1) \o <<s[i]>> \o SubSeq(r, j, n - 1)
  <1>1. n \in Nat /\ i \in Int /\ j \in Int /\ 1 <= i /\ i <= n /\ 1 <= j /\ j <= n
        /\ \A k \in 1 .. n : s[k] \in S
    BY LenProperties
  <1> HIDE DEF n
  <1>2. /\ r \in Seq(S) /\ Len(r) = n - 1
        /\ \A k \in 1 .. n - 1 : r[k] = IF k < i THEN s[k] ELSE s[k + 1]
    BY RemovedIsGone DEF TaskTemplatesPage!RemoveAt, n
  <1>3. \A k \in 1 .. n - 1 : r[k] \in S
    BY <1>1, <1>2
  <1> HIDE DEF r
  <1>4. /\ x \in Seq(S) /\ Len(x) = n
        /\ \A k \in 1 .. n : x[k] = IF k < j THEN r[k] ELSE IF k = j THEN s[i] ELSE r[k - 1]
    <2> DEFINE a == SubSeq(r, 1, j - 1)
               b == SubSeq(r, j, n - 1)
    <2>1. a \in Seq(S) /\ Len(a) = j - 1 /\ \A k \in 1 .. j - 1 : a[k] = r[k]
      <3>1. j - 1 \in Int /\ \A k \in 1 .. j - 1 : r[k] \in S /\ 1 + k - 1 = k
        BY <1>1, <1>3
      <3> QED
        BY <1>1, <3>1, SubSeqProperties
    <2>2. b \in Seq(S) /\ Len(b) = n - j /\ \A k \in 1 .. n - j : b[k] = r[j + k - 1]
      <3>1. j \in Int /\ n - 1 \in Int /\ \A k \in j .. n - 1 : r[k] \in S
        BY <1>1, <1>3
      <3>2. (n - 1) - j + 1 = n - j /\ (IF j <= n - 1 THEN (n - 1) - j + 1 ELSE 0) = n - j
        BY <1>1
      <3> QED
        BY <3>1, <3>2, SubSeqProperties
    <2>3. <<s[i]>> \in Seq(S) /\ Len(<<s[i]>>) = 1 /\ <<s[i]>>[1] = s[i]
      BY <1>1
    <2> HIDE DEF a, b
    <2> DEFINE c == a \o <<s[i]>>
    <2>4. c \in Seq(S) /\ Len(c) = j /\ \A k \in 1 .. j : c[k] = IF k < j THEN r[k] ELSE s[i]
      <3>1. /\ c \in Seq(S) /\ Len(c) = Len(a) + 1
            /\ \A k \in 1 .. Len(a) + 1 : c[k] = IF k <= Len(a) THEN a[k] ELSE <<s[i]>>[k - Len(a)]
        BY <2>1, <2>3, ConcatProperties
      <3>2. Len(a) + 1 = j
        BY <1>1, <2>1
      <3>3. ASSUME NEW k \in 1 .. j PROVE c[k] = IF k < j THEN r[k] ELSE s[i]
        <4>1. k <= Len(a) <=> k < j
          BY <1>1, <2>1
        <4>2. k < j => k \in 1 .. j - 1
          BY <1>1
        <4>3. ~(k < j) => k - Len(a) = 1
          BY <1>1, <2>1
        <4> QED
          BY <2>1, <2>3, <3>1, <3>2, <4>1, <4>2, <4>3
      <3> QED
        BY <3>1, <3>2, <3>3
    <2> HIDE DEF c
    <2>5. /\ c \o b \in Seq(S) /\ Len(c \o b) = Len(c) + Len(b)
          /\ \A k \in 1 .. Len(c) + Len(b) : (c \o b)[k] = IF k <= Len(c) THEN c[k] ELSE b[k - Len(c)]
      BY <2>2, <2>4, ConcatProperties
    <2>6. Len(c) + Len(b) = n
      BY <1>1, <2>2, <2>4
    <2>7. ASSUME NEW k \in 1 .. n
          PROVE  (c \o b)[k] = IF k < j THEN r[k] ELSE IF k = j THEN s[i] ELSE r[k - 1]
      <3>1. k <= Len(c) <=> k <= j
        BY <2>4
      <3>2. k <= j => k \in 1 .. j /\ (k < j \/ k = j)
        BY <1>1
      <3>3. ~(k <= j) => k - j \in 1 .. n - j /\ j + (k - j) - 1 = k - 1 /\ ~(k < j) /\ k # j
        BY <1>1
      <3> QED
        BY <2>2, <2>4, <2>5, <2>6, <3>1, <3>2, <3>3
    <2> QED
      BY <2>5, <2>6, <2>7 DEF a, b, c
  <1>5. ArrayMove(s, i, j) = x
    <2>1. TaskTemplatesPage!RemoveAt(s, i) = r
      BY DEF TaskTemplatesPage!RemoveAt, r, n
    <2>2. TaskTemplatesPage!InsertAt(r, j, s[i]) = x
      BY <1>2 DEF TaskTemplatesPage!InsertAt
    <2> QED
      BY <2>1, <2>2 DEF ArrayMove, TaskTemplatesPage!ArrayMove
  <1> HIDE DEF x
  <1>6. ASSUME NEW k \in 1 .. n PROVE \E l \in 1 .. n : x[k] = s[l]
    <2>1. CASE k = j
      BY <1>4, <2>1 DEF n
    <2>2. CASE k < j
      <3>1. k \in 1 .. n - 1 /\ k \in 1 .. n /\ k + 1 \in 1 .. n
        BY <1>1, <2>2
      <3> QED
        BY <1>2, <1>4, <2>2, <3>1
    <2>3. CASE j < k
      <3>1. k - 1 \in 1 .. n - 1 /\ k - 1 \in 1 .. n /\ (k - 1) + 1 = k /\ ~(k < j) /\ k # j
        BY <1>1, <2>3
      <3> QED
        BY <1>2, <1>4, <3>1
    <2> QED
      BY <1>1, <2>1, <2>2, <2>3
  <1>7. ASSUME NEW l \in 1 .. n PROVE \E k \in 1 .. n : x[k] = s[l]
    <2>1. CASE l = i
      BY <1>4, <2>1 DEF n
    <2>2. CASE l # i
      <3> DEFINE h == IF l < i THEN l ELSE l - 1
      <3>1. h \in 1 .. n - 1 /\ (h < i <=> l < i) /\ (~(l < i) => h + 1 = l)
        BY <1>1, <2>2
      <3>2. r[h] = s[l]
        <4> HIDE DEF h
        <4>1. CASE l < i
          BY <1>2, <3>1, <4>1 DEF h
        <4>2. CASE ~(l < i)
          BY <1>2, <3>1, <4>2
        <4> QED
          BY <4>1, <4>2
      <3> HIDE DEF h
      <3>3. CASE h < j
        <4>1. h \in 1 .. n
          BY <1>1, <3>1
        <4> QED
          BY <1>4, <3>2, <3>3, <4>1
      <3>4. CASE ~(h < j)
        <4>1. h + 1 \in 1 .. n /\ ~(h + 1 < j) /\ h + 1 # j /\ (h + 1) - 1 = h
          BY <1>1, <3>1, <3>4
        <4> QED
          BY <1>4, <3>2, <4>1
      <3> QED
        BY <3>3, <3>4
    <2> QED
      BY <2>1, <2>2
  <1> QED
    BY <1>4, <1>5, <1>6, <1>7 DEF n

Of(s, p) == TaskTemplatesPage!Of(s, p)
Others(s, p) == TaskTemplatesPage!Others(s, p)
In(s, p) == {i \in DOMAIN s : s[i].phase = p}
Out(s, p) == {i \in DOMAIN s : s[i].phase # p}

LEMMA Filters ==
    ASSUME NEW s, NEW p
    PROVE  Of(s, p) = Picked(s, In(s, p)) /\ Others(s, p) = Picked(s, Out(s, p))
  BY DEF Of, Others, Picked, In, Out, TaskTemplatesPage!Of, TaskTemplatesPage!Others

(* The selection of a phase from tasks of other phases and then tasks of    *)
(* that one is the latter, and it is shown as it comes if it is numbered.   *)
LEMMA PhaseAtTheEnd ==
    ASSUME NEW S, NEW o \in Seq(S), NEW m \in Seq(S), NEW p,
           \A k \in 1 .. Len(o) : o[k].phase # p,
           \A k \in 1 .. Len(m) : m[k].phase = p
    PROVE  Of(o \o m, p) = m
  <1> DEFINE r == o \o m
             I == In(r, p)
             e == [k \in 1 .. Len(m) |-> Len(o) + k]
  <1>1. /\ Len(o) \in Nat /\ Len(m) \in Nat /\ r \in Seq(S) /\ DOMAIN r = 1 .. Len(o) + Len(m)
        /\ \A i \in 1 .. Len(o) + Len(m) : r[i] = IF i <= Len(o) THEN o[i] ELSE m[i - Len(o)]
    BY ConcatProperties, LenProperties
  <1> HIDE DEF r
  <1>2. \A k \in 1 .. Len(m) : e[k] \in I /\ e[k] = Len(o) + k /\ m[k] = r[e[k]]
    <2>1. ASSUME NEW k \in 1 .. Len(m) PROVE Len(o) + k \in I /\ m[k] = r[Len(o) + k]
      <3>1. Len(o) + k \in 1 .. Len(o) + Len(m) /\ ~(Len(o) + k <= Len(o)) /\ (Len(o) + k) - Len(o) = k
        BY <1>1
      <3> QED
        BY <1>1, <3>1 DEF In
    <2> QED
      BY <2>1
  <1>3. ASSUME NEW i \in I PROVE \E k \in 1 .. Len(m) : e[k] = i
    <2>1. i \in 1 .. Len(o) + Len(m) /\ r[i].phase = p
      BY <1>1 DEF In
    <2>2. ~(i <= Len(o))
      <3>1. i <= Len(o) => i \in 1 .. Len(o)
        BY <1>1, <2>1
      <3> QED
        BY <1>1, <2>1, <3>1
    <2>3. i - Len(o) \in 1 .. Len(m) /\ Len(o) + (i - Len(o)) = i
      BY <1>1, <2>1, <2>2
    <2> QED
      BY <2>3
  <1>4. \A k, l \in 1 .. Len(m) : k < l => e[k] < e[l]
    BY <1>1
  <1>5. I \in SUBSET DOMAIN r /\ e \in [1 .. Len(m) -> I]
    BY <1>2 DEF In
  <1> HIDE DEF e, I
  <1>6. Lists(e, m, r, I)
    BY <1>2, <1>3, <1>4, <1>5 DEF Lists
  <1>7. m = Picked(r, I)
    BY <1>1, <1>6, InOrderIsPicked
  <1> QED
    BY <1>7, Filters DEF I, r

(* The selection of another phase is untouched by what is put at the end. *)
LEMMA OtherPhasesStay ==
    ASSUME NEW S, NEW s \in Seq(S), NEW m \in Seq(S), NEW p, NEW q, q # p,
           \A k \in 1 .. Len(m) : m[k].phase = p
    PROVE  Of(Others(s, p) \o m, q) = Of(s, q)
  <1> DEFINE O == Out(s, p)
             J == In(s, q)
             o == Others(s, p)
             r == o \o m
             t == Of(s, q)
             e == [k \in 1 .. Len(t) |-> Rank(O, Place(J, k)) + 1]
             I == In(r, q)
  <1>1. O \in SUBSET DOMAIN s /\ J \in SUBSET O /\ J \in SUBSET DOMAIN s
    BY DEF In, Out
  <1>2. /\ IsFiniteSet(O) /\ O \in SUBSET Nat /\ o \in Seq(S) /\ Len(o) = Cardinality(O)
        /\ \A k \in 1 .. Len(o) : Place(O, k) \in O /\ o[k] = s[Place(O, k)]
        /\ \A i \in O : Rank(O, i) + 1 \in 1 .. Len(o) /\ o[Rank(O, i) + 1] = s[i]
    BY <1>1, Filters, PickedIsInOrder
  <1>3. /\ IsFiniteSet(J) /\ J \in SUBSET Nat /\ t \in Seq(S) /\ Len(t) = Cardinality(J)
        /\ \A k \in 1 .. Len(t) : Place(J, k) \in J /\ t[k] = s[Place(J, k)]
        /\ \A i \in J : Rank(J, i) + 1 \in 1 .. Len(t)
    BY <1>1, Filters, PickedIsInOrder
  <1>4. /\ Len(o) \in Nat /\ Len(m) \in Nat /\ r \in Seq(S) /\ DOMAIN r = 1 .. Len(o) + Len(m)
        /\ \A i \in 1 .. Len(o) + Len(m) : r[i] = IF i <= Len(o) THEN o[i] ELSE m[i - Len(o)]
    <2>1. o \in Seq(S)
      BY <1>2
    <2> HIDE DEF o
    <2>2. /\ r \in Seq(S) /\ Len(r) = Len(o) + Len(m)
          /\ \A i \in 1 .. Len(o) + Len(m) : r[i] = IF i <= Len(o) THEN o[i] ELSE m[i - Len(o)]
      BY <2>1, ConcatProperties
    <2> HIDE DEF r
    <2> QED
      BY <2>1, <2>2, LenProperties
  <1>5. \A i \in 1 .. Len(o) : i \in DOMAIN r /\ r[i] = o[i]
    BY <1>4
  <1>6. \A i \in DOMAIN r : i \notin 1 .. Len(o) => r[i].phase = p
    <2>1. ASSUME NEW i \in DOMAIN r, i \notin 1 .. Len(o) PROVE r[i].phase = p
      <3>1. i \in 1 .. Len(o) + Len(m) /\ ~(i <= Len(o)) /\ i - Len(o) \in 1 .. Len(m)
        BY <1>4, <2>1
      <3> QED
        BY <1>4, <3>1
    <2> QED
      BY <2>1
  <1>7. \A i \in J : s[i].phase = q
    BY DEF In
  <1>8. \A i \in 1 .. Len(o) : o[i].phase = q => Place(O, i) \in J
    BY <1>1, <1>2 DEF In
  <1>9. I = {i \in 1 .. Len(o) : o[i].phase = q}
    BY <1>5, <1>6 DEF In
  <1>10. I \in SUBSET DOMAIN r
    BY DEF In
  <1> HIDE DEF O, J, o, r, t, I
  <1>11. \A k \in 1 .. Len(t) : e[k] = Rank(O, Place(J, k)) + 1 /\ e[k] \in I /\ t[k] = r[e[k]]
    BY <1>1, <1>2, <1>3, <1>5, <1>7, <1>9
  <1>12. ASSUME NEW i \in I PROVE \E k \in 1 .. Len(t) : e[k] = i
    <2>1. i \in 1 .. Len(o) /\ Place(O, i) \in J /\ i \in Nat
      BY <1>2, <1>4, <1>8, <1>9
    <2>2. Rank(O, Place(O, i)) = i - 1
      BY <1>2, <2>1, RanksAreOneToOne
    <2>3. Rank(J, Place(O, i)) + 1 \in 1 .. Len(t) /\ Place(J, Rank(J, Place(O, i)) + 1) = Place(O, i)
      BY <1>3, <2>1, RanksAreOneToOne
    <2>4. e[Rank(J, Place(O, i)) + 1] = (i - 1) + 1
      BY <2>2, <2>3
    <2> QED
      BY <2>1, <2>3, <2>4
  <1>13. ASSUME NEW k \in 1 .. Len(t), NEW l \in 1 .. Len(t), k < l PROVE e[k] < e[l]
    <2>1. /\ Place(J, k) \in J /\ Place(J, l) \in J
          /\ Rank(J, Place(J, k)) = k - 1 /\ Rank(J, Place(J, l)) = l - 1
      BY <1>3, RanksAreOneToOne
    <2>2. Place(J, k) < Place(J, l)
      <3>1. k - 1 < l - 1
        BY <1>3, <1>13
      <3>2. \A i, j \in J : i < j <=> Rank(J, i) < Rank(J, j)
        BY <1>3, RanksAreOneToOne
      <3> QED
        BY <2>1, <3>1, <3>2
    <2>3. Rank(O, Place(J, k)) < Rank(O, Place(J, l))
      BY <1>1, <1>2, <2>1, <2>2, RanksAreOneToOne
    <2>4. Rank(O, Place(J, k)) \in Int /\ Rank(O, Place(J, l)) \in Int
      <3>1. \A i \in O : Rank(O, i) \in 0 .. Cardinality(O) - 1
        BY <1>2, RanksAreOneToOne
      <3> QED
        BY <1>1, <2>1, <3>1
    <2> QED
      BY <1>11, <2>3, <2>4
  <1>14. e \in [1 .. Len(t) -> I]
    BY <1>11
  <1> HIDE DEF e
  <1>15. Lists(e, t, r, I)
    BY <1>10, <1>11, <1>12, <1>13, <1>14 DEF Lists
  <1>16. t = Picked(r, I)
    BY <1>3, <1>4, <1>15, InOrderIsPicked
  <1> QED
    BY <1>16, Filters DEF r, o, t, I

Dragged(s, p, i, j) == TaskTemplatesPage!Reordered(s, p, i, j)
TemplateTasks == TaskTemplatesPage!Task
Unnumbered(t) == [t EXCEPT !.sort_order = 0]

(* A list is the tasks of a phase and the others. *)
SplitByPhase(s, p) ==
    /\ Of(s, p) \in Seq(TemplateTasks) /\ Others(s, p) \in Seq(TemplateTasks)
    /\ Len(Others(s, p)) + Len(Of(s, p)) = Len(s)
    /\ \A k \in 1 .. Len(Of(s, p)) : Of(s, p)[k].phase = p
          /\ \E i \in 1 .. Len(s) : Of(s, p)[k] = s[i]
    /\ \A k \in 1 .. Len(Others(s, p)) : Others(s, p)[k].phase # p
          /\ \E i \in 1 .. Len(s) : Others(s, p)[k] = s[i]
    /\ \A i \in 1 .. Len(s) : \/ \E k \in 1 .. Len(Of(s, p)) : Of(s, p)[k] = s[i]
                              \/ \E k \in 1 .. Len(Others(s, p)) : Others(s, p)[k] = s[i]

LEMMA TasksOfAPhase ==
    ASSUME NEW s \in Seq(TemplateTasks), NEW p
    PROVE  SplitByPhase(s, p)
  <1> DEFINE I == In(s, p)
             O == Out(s, p)
  <1>1. /\ I \in SUBSET DOMAIN s /\ O \in SUBSET DOMAIN s /\ I \cup O = DOMAIN s /\ I \cap O = {}
        /\ \A i \in I : s[i].phase = p
        /\ \A i \in O : s[i].phase # p
    BY DEF In, Out
  <1>2. Of(s, p) = Picked(s, I) /\ Others(s, p) = Picked(s, O)
    BY Filters
  <1>3. Len(s) \in Nat /\ DOMAIN s = 1 .. Len(s)
    BY LenProperties
  <1> HIDE DEF I, O
  <1>4. /\ IsFiniteSet(I) /\ Picked(s, I) \in Seq(TemplateTasks) /\ Len(Picked(s, I)) = Cardinality(I)
        /\ \A k \in 1 .. Cardinality(I) : Place(I, k) \in I /\ Picked(s, I)[k] = s[Place(I, k)]
        /\ \A i \in I : Rank(I, i) + 1 \in 1 .. Cardinality(I) /\ Picked(s, I)[Rank(I, i) + 1] = s[i]
    BY <1>1, PickedIsInOrder
  <1>5. /\ IsFiniteSet(O) /\ Picked(s, O) \in Seq(TemplateTasks) /\ Len(Picked(s, O)) = Cardinality(O)
        /\ \A k \in 1 .. Cardinality(O) : Place(O, k) \in O /\ Picked(s, O)[k] = s[Place(O, k)]
        /\ \A i \in O : Rank(O, i) + 1 \in 1 .. Cardinality(O) /\ Picked(s, O)[Rank(O, i) + 1] = s[i]
    BY <1>1, PickedIsInOrder
  <1>6. Cardinality(O) + Cardinality(I) = Len(s)
    <2>1. Cardinality(1 .. Len(s)) = Len(s)
      BY <1>3, FS_Interval
    <2>2. Cardinality(I \cup O) = Cardinality(I) + Cardinality(O) - Cardinality(I \cap O)
      BY <1>4, <1>5, FS_Union
    <2>4. Cardinality(1 .. Len(s)) = Cardinality(I) + Cardinality(O) - Cardinality({})
      BY <1>1, <1>3, <2>2, Zenon
    <2>3. Cardinality({}) = 0 /\ Cardinality(I) \in Nat /\ Cardinality(O) \in Nat
      BY <1>4, <1>5, FS_EmptySet, FS_CardinalityType
    <2> QED
      BY <1>3, <2>1, <2>3, <2>4
  <1>7. \A k \in 1 .. Cardinality(I) : Picked(s, I)[k].phase = p /\ \E i \in 1 .. Len(s) : Picked(s, I)[k] = s[i]
    BY <1>1, <1>3, <1>4
  <1>8. \A k \in 1 .. Cardinality(O) : Picked(s, O)[k].phase # p /\ \E i \in 1 .. Len(s) : Picked(s, O)[k] = s[i]
    BY <1>1, <1>3, <1>5
  <1>9. \A i \in 1 .. Len(s) : \/ \E k \in 1 .. Cardinality(I) : Picked(s, I)[k] = s[i]
                               \/ \E k \in 1 .. Cardinality(O) : Picked(s, O)[k] = s[i]
    BY <1>1, <1>3, <1>4, <1>5
  <1> QED
    BY <1>2, <1>4, <1>5, <1>6, <1>7, <1>8, <1>9 DEF SplitByPhase

(* Numbered from one, a phase is shown as it comes. *)
LEMMA NumberedIsShown ==
    ASSUME NEW s, NEW p, NEW m \in Seq(TemplateTasks), Of(s, p) = m,
           \A k \in 1 .. Len(m) : m[k].sort_order = k
    PROVE  TaskTemplatesPage!Shown(s, p) = m
  <1> DEFINE D == DOMAIN m
             Sooner(i, j) == \/ m[i].sort_order < m[j].sort_order
                             \/ m[i].sort_order = m[j].sort_order /\ i < j
             e == [k \in 1 .. Len(m) |-> k]
  <1>1. Len(m) \in Nat /\ D = 1 .. Len(m) /\ \A i \in D : m[i].sort_order = i /\ i \in Nat /\ i # 0
    BY LenProperties
  <1>2. Lists(e, m, m, D)
    BY <1>1 DEF Lists
  <1>3. m = Picked(m, D)
    <2> HIDE DEF e, D
    <2> QED
      BY <1>2, InOrderIsPicked
  <1>4. [i \in D |-> {j \in D : Sooner(j, i)}] = [i \in D |-> {j \in D : j < i}]
    <2>1. \A i, j \in D : Sooner(j, i) <=> j < i
      BY <1>1
    <2> HIDE DEF D, Sooner
    <2> QED
      BY <2>1
  <1>5. ~ \E i \in D : m[i].sort_order = TaskTemplatesPage!NoStamp
    BY <1>1 DEF TaskTemplatesPage!NoStamp
  <1>6. TaskTemplatesPage!Shown(s, p) = TaskTemplatesPage!Ranked(m, [i \in D |-> {j \in D : Sooner(j, i)}])
    BY <1>5 DEF TaskTemplatesPage!Shown, Of
  <1>7. Picked(m, D) = TaskTemplatesPage!Ranked(m, [i \in D |-> {j \in D : j < i}])
    BY DEF Picked, TaskTemplatesPage!Picked
  <1> QED
    BY <1>3, <1>4, <1>6, <1>7

(* What a drag does to the tasks. *)
LEMMA DragReorders ==
    ASSUME NEW s \in Seq(TemplateTasks), NEW p,
           NEW i \in 1 .. Len(Of(s, p)), NEW j \in 1 .. Len(Of(s, p))
    PROVE  LET r == Dragged(s, p, i, j) IN
           /\ r \in Seq(TemplateTasks) /\ Len(r) = Len(s)
           /\ TaskTemplatesPage!Shown(r, p) = Of(r, p)
           /\ \A q : q # p => Of(r, q) = Of(s, q)
           /\ \A k \in 1 .. Len(r) : \E l \in 1 .. Len(s) : Unnumbered(r[k]) = Unnumbered(s[l])
           /\ \A l \in 1 .. Len(s) : \E k \in 1 .. Len(r) : Unnumbered(r[k]) = Unnumbered(s[l])
  <1> DEFINE here == Of(s, p)
             o == Others(s, p)
             x == ArrayMove(here, i, j)
             m == [k \in DOMAIN x |-> [x[k] EXCEPT !.sort_order = k]]
             r == Dragged(s, p, i, j)
  <1>0. SplitByPhase(s, p)
    BY TasksOfAPhase
  <1>1. r = o \o m
    BY DEF Dragged, TaskTemplatesPage!Reordered, Others, Of, ArrayMove
  <1>2. /\ here \in Seq(TemplateTasks) /\ o \in Seq(TemplateTasks)
        /\ Len(o) + Len(here) = Len(s) /\ Len(o) \in Nat /\ Len(here) \in Nat
    BY <1>0, LenProperties DEF SplitByPhase
  <1>3. /\ x \in Seq(TemplateTasks) /\ Len(x) = Len(here)
        /\ \A k \in 1 .. Len(here) : \E l \in 1 .. Len(here) : x[k] = here[l]
        /\ \A l \in 1 .. Len(here) : \E k \in 1 .. Len(here) : x[k] = here[l]
    <2>1. i \in 1 .. Len(here) /\ j \in 1 .. Len(here)
      OBVIOUS
    <2> HIDE DEF here
    <2> QED
      BY <1>2, <2>1, MovedIsThere
  <1>4. \A k \in 1 .. Len(here) : here[k].phase = p /\ \E l \in 1 .. Len(s) : here[k] = s[l]
    BY Zenon, <1>0 DEF SplitByPhase
  <1>5. \A k \in 1 .. Len(o) : o[k].phase # p /\ \E l \in 1 .. Len(s) : o[k] = s[l]
    BY Zenon, <1>0 DEF SplitByPhase
  <1>6. \A k \in 1 .. Len(here) : \E l \in 1 .. Len(s) : here[k] = s[l]
    BY <1>4
  <1>7. \A l \in 1 .. Len(s) : \/ \E k \in 1 .. Len(here) : here[k] = s[l]
                               \/ \E k \in 1 .. Len(o) : o[k] = s[l]
    BY Zenon, <1>0 DEF SplitByPhase
  <1> HIDE DEF here, o, x, r
  <1>8. DOMAIN x = 1 .. Len(here) /\ \A k \in 1 .. Len(here) : x[k] \in TemplateTasks
    BY <1>3, LenProperties
  <1>9. \A k \in 1 .. Len(here) : /\ m[k] \in TemplateTasks /\ m[k].phase = p /\ m[k].sort_order = k
                                  /\ Unnumbered(m[k]) = Unnumbered(x[k])
    <2>1. ASSUME NEW k \in 1 .. Len(here)
          PROVE  /\ m[k] \in TemplateTasks /\ m[k].phase = p /\ m[k].sort_order = k
                 /\ Unnumbered(m[k]) = Unnumbered(x[k])
      <3>1. x[k] \in TemplateTasks /\ x[k].phase = p /\ k \in Nat
        <4>1. PICK l \in 1 .. Len(here) : x[k] = here[l]
          BY <1>3
        <4> QED
          BY <1>2, <1>4, <1>8, <4>1
      <3>2. m[k] = [x[k] EXCEPT !.sort_order = k]
        BY <1>8
      <3> QED
        BY <3>1, <3>2 DEF TemplateTasks, TaskTemplatesPage!Task, Unnumbered
    <2> QED
      BY <2>1
  <1>10. m \in Seq(TemplateTasks) /\ Len(m) = Len(here)
    <2>1. m \in [1 .. Len(here) -> TemplateTasks]
      BY <1>8, <1>9
    <2> HIDE DEF m
    <2> QED
      BY <1>2, <2>1
  <1> HIDE DEF m
  <1>11. /\ r \in Seq(TemplateTasks) /\ Len(r) = Len(s)
         /\ \A k \in 1 .. Len(s) : r[k] = IF k <= Len(o) THEN o[k] ELSE m[k - Len(o)]
    BY <1>1, <1>2, <1>10, ConcatProperties
  <1>12. Of(r, p) = m
    BY <1>1, <1>2, <1>5, <1>9, <1>10, PhaseAtTheEnd
  <1>13. TaskTemplatesPage!Shown(r, p) = m
    BY <1>9, <1>10, <1>12, NumberedIsShown
  <1>14. \A q : q # p => Of(r, q) = Of(s, q)
    <2>1. \A k \in 1 .. Len(m) : m[k].phase = p
      BY <1>9, <1>10
    <2> QED
      BY <1>1, <1>10, <2>1, OtherPhasesStay DEF o
  <1>15. ASSUME NEW k \in 1 .. Len(s) PROVE \E l \in 1 .. Len(s) : Unnumbered(r[k]) = Unnumbered(s[l])
    <2>1. CASE k <= Len(o)
      <3>1. k \in 1 .. Len(o) /\ r[k] = o[k]
        BY <1>2, <1>11, <2>1
      <3> QED
        BY <1>5, <3>1
    <2>2. CASE ~(k <= Len(o))
      <3> DEFINE h == k - Len(o)
      <3>1. h \in 1 .. Len(here)
        BY <1>2, <2>2
      <3>2. r[k] = m[h]
        BY <1>11, <2>2
      <3> HIDE DEF h
      <3>3. PICK g \in 1 .. Len(here) : x[h] = here[g]
        BY <1>3, <3>1
      <3>4. PICK l \in 1 .. Len(s) : here[g] = s[l]
        BY <1>6
      <3> QED
        BY <1>9, <3>1, <3>2, <3>3, <3>4
    <2> QED
      BY <2>1, <2>2
  <1>16. ASSUME NEW l \in 1 .. Len(s) PROVE \E k \in 1 .. Len(s) : Unnumbered(r[k]) = Unnumbered(s[l])
    <2>1. CASE \E k \in 1 .. Len(o) : o[k] = s[l]
      <3>1. \A k \in 1 .. Len(o) : k \in 1 .. Len(s) /\ r[k] = o[k]
        BY <1>2, <1>11
      <3> QED
        BY <2>1, <3>1
    <2>2. CASE \E k \in 1 .. Len(here) : here[k] = s[l]
      <3>1. PICK k \in 1 .. Len(here) : x[k] = s[l]
        BY <1>3, <2>2
      <3>2. Len(o) + k \in 1 .. Len(s) /\ ~(Len(o) + k <= Len(o)) /\ (Len(o) + k) - Len(o) = k
        BY <1>2
      <3>3. r[Len(o) + k] = m[k]
        BY <1>11, <3>2
      <3> QED
        BY <1>9, <3>1, <3>2, <3>3
    <2> QED
      BY <1>7, <2>1, <2>2
  <1> QED
    BY <1>11, <1>12, <1>13, <1>14, <1>15, <1>16 DEF r

-----------------------------------------------------------------------------
(* Every list of tasks is a sequence of tasks: in the rows, in the page's   *)
(* list of them, in the draft and in what is on its way to the server.      *)

HasTasks(row) == "tasks" \in DOMAIN row /\ row.tasks \in Seq(TemplateTasks)
AreTemplates(list) ==
    /\ TaskTemplatesPage!System \in DOMAIN list
    /\ DOMAIN list \subseteq IncidentTemplates \cup {TaskTemplatesPage!System}
    /\ \A t \in DOMAIN list : HasTasks(list[t])
IsDraft(d) == DOMAIN d = {"name", "slug", "tasks"} /\ HasTasks(d)
EditorSound ==
    /\ mOpen \in BOOLEAN /\ mEditing \in IncidentTemplates \cup {TaskTemplatesPage!None}
    /\ IsDraft(draft) /\ stamp \in Nat
    /\ ~mOpen => mEditing = TaskTemplatesPage!None /\ draft = TaskTemplatesPage!Blank
SavingSound ==
    /\ saving.on \in BOOLEAN /\ saving.to \in IncidentTemplates \cup {TaskTemplatesPage!None}
    /\ HasTasks(saving.what)

TemplatesInductive == AreTemplates(mRows) /\ AreTemplates(mSeen) /\ EditorSound /\ SavingSound

LEMMA TemplatesTyped == TemplatesInductive => TaskTemplatesPage!TypeOK
  <1> SUFFICES ASSUME TemplatesInductive PROVE TaskTemplatesPage!TypeOK
    OBVIOUS
  <1>1. \A i \in DOMAIN draft.tasks : draft.tasks[i] \in TemplateTasks
    BY LenProperties DEF TemplatesInductive, EditorSound, IsDraft, HasTasks
  <1> QED
    BY <1>1 DEF TemplatesInductive, EditorSound, SavingSound, AreTemplates, TaskTemplatesPage!TypeOK, TemplateTasks

(* The constants of the page: what it starts from. *)
LEMMA BlankIsADraft == IsDraft(TaskTemplatesPage!Blank)
  <1>1. /\ DOMAIN TaskTemplatesPage!Blank = {"name", "slug", "tasks"}
        /\ TaskTemplatesPage!Blank.tasks = << >>
    BY Zenon DEF TaskTemplatesPage!Blank
  <1> QED
    BY <1>1 DEF IsDraft, HasTasks

LEMMA NamesInUse ==
    /\ {"general", "Detection", "Containment"} \subseteq TaskTemplatesPage!PhasesInUse
    /\ "identify" \in TaskTemplatesPage!TitlesInUse /\ "block" \in TaskTemplatesPage!TitlesInUse
    /\ "" \in TaskTemplatesPage!TitlesInUse /\ TaskTitles \subseteq TaskTemplatesPage!TitlesInUse
    /\ PhaseNames \subseteq TaskTemplatesPage!PhasesInUse
    /\ \A n \in 1 .. MaxTasks + 1 : TaskTemplatesPage!NewPhase(n) \in TaskTemplatesPage!PhasesInUse
  BY Zenon DEF TaskTemplatesPage!PhasesInUse, TaskTemplatesPage!TitlesInUse

LEMMA SeedHasTasks == HasTasks(TaskTemplatesPage!Seed)
  <1> DEFINE a == TaskTemplatesPage!Seeded("identify", "Detection")
             b == TaskTemplatesPage!Seeded("block", "Containment")
  <1>1. a \in TemplateTasks /\ b \in TemplateTasks
    BY NamesInUse DEF TemplateTasks, TaskTemplatesPage!Task, TaskTemplatesPage!Seeded, TaskTemplatesPage!NoStamp
  <1>2. "tasks" \in DOMAIN TaskTemplatesPage!Seed /\ TaskTemplatesPage!Seed.tasks = <<a, b>>
    BY DEF TaskTemplatesPage!Seed
  <1> HIDE DEF a, b
  <1> QED
    BY <1>1, <1>2 DEF HasTasks

(* What a request leaves of the templates. *)
LEMMA JoinedTemplates ==
    ASSUME AreTemplates(mRows), NEW id \in IncidentTemplates, NEW row, HasTasks(row)
    PROVE  AreTemplates(TaskTemplatesPage!With(id, row))
  BY DEF AreTemplates, TaskTemplatesPage!With

LEMMA RowsHaveTasks ==
    /\ \A row : HasTasks(row) => HasTasks(TaskTemplatesPage!Copy(row))
    /\ \A row, what : HasTasks(row) /\ HasTasks(what) => HasTasks(TaskTemplatesPage!Written(row, what))
  BY DEF HasTasks, TaskTemplatesPage!Copy, TaskTemplatesPage!Written

LEMMA RequestsLeaveTemplates ==
    ASSUME AreTemplates(mRows)
    PROVE  /\ \A t \in DOMAIN mRows : \A id \in IncidentTemplates : AreTemplates(TaskTemplatesPage!Cloned(t, id))
           /\ \A flag : AreTemplates(TaskTemplatesPage!Hidden(flag))
           /\ \A t : t # TaskTemplatesPage!System => AreTemplates(TaskTemplatesPage!Removed(t))
           /\ \A what : HasTasks(what) =>
                 /\ \A t \in DOMAIN mRows : AreTemplates(TaskTemplatesPage!Updated(t, what))
                 /\ \A id \in IncidentTemplates : AreTemplates(TaskTemplatesPage!Created(id, what))
  <1>1. ASSUME NEW t \in DOMAIN mRows, NEW id \in IncidentTemplates PROVE AreTemplates(TaskTemplatesPage!Cloned(t, id))
    BY JoinedTemplates, RowsHaveTasks DEF AreTemplates, TaskTemplatesPage!Cloned
  <1>2. ASSUME NEW flag PROVE AreTemplates(TaskTemplatesPage!Hidden(flag))
    BY DEF AreTemplates, HasTasks, TaskTemplatesPage!Hidden
  <1>3. ASSUME NEW t, t # TaskTemplatesPage!System PROVE AreTemplates(TaskTemplatesPage!Removed(t))
    BY <1>3 DEF AreTemplates, TaskTemplatesPage!Removed
  <1>4. ASSUME NEW what, HasTasks(what), NEW t \in DOMAIN mRows PROVE AreTemplates(TaskTemplatesPage!Updated(t, what))
    BY <1>4, RowsHaveTasks DEF AreTemplates, TaskTemplatesPage!Updated
  <1>5. ASSUME NEW what, HasTasks(what), NEW id \in IncidentTemplates PROVE AreTemplates(TaskTemplatesPage!Created(id, what))
    <2> DEFINE new == [TaskTemplatesPage!Seed EXCEPT !.hidden = FALSE]
    <2>1. HasTasks(new)
      BY SeedHasTasks DEF HasTasks
    <2> HIDE DEF new
    <2>2. HasTasks(TaskTemplatesPage!Written(new, what))
      BY <1>5, <2>1, RowsHaveTasks
    <2> QED
      BY <2>2, JoinedTemplates DEF TaskTemplatesPage!Created, new
  <1> QED
    BY <1>1, <1>2, <1>3, <1>4, <1>5

-----------------------------------------------------------------------------
(* The editor. *)

LEMMA DraftOf ==
    ASSUME TemplatesInductive
    PROVE  /\ draft.tasks \in Seq(TemplateTasks) /\ Len(draft.tasks) \in Nat
           /\ DOMAIN draft.tasks = 1 .. Len(draft.tasks)
           /\ \A i \in DOMAIN draft.tasks : draft.tasks[i] \in TemplateTasks
  BY LenProperties DEF TemplatesInductive, EditorSound, IsDraft, HasTasks

LEMMA ChangedDraft ==
    ASSUME TemplatesInductive, NEW list \in Seq(TemplateTasks), TaskTemplatesPage!Change(list), stamp' \in Nat
    PROVE  TemplatesInductive'
  <1>1. mOpen /\ draft' = [draft EXCEPT !.tasks = list] /\ UNCHANGED <<mRows, mSeen, mOpen, mEditing, saving>>
    BY DEF TaskTemplatesPage!Change
  <1>2. IsDraft(draft')
    BY <1>1 DEF TemplatesInductive, EditorSound, IsDraft, HasTasks
  <1>3. EditorSound'
    BY <1>1, <1>2 DEF TemplatesInductive, EditorSound, IsDraft, HasTasks
  <1> QED
    BY <1>1, <1>3 DEF TemplatesInductive, AreTemplates, SavingSound, HasTasks

LEMMA AddedTasks ==
    ASSUME TemplatesInductive, NEW p \in TaskTemplatesPage!PhasesInUse
    PROVE  TaskTemplatesPage!Added(draft.tasks, p) \in Seq(TemplateTasks)
  <1> DEFINE o == Len(Of(draft.tasks, p)) + 1
             n == stamp + 1
  <1>1. o \in Nat /\ n \in Nat
    <2>1. Of(draft.tasks, p) \in Seq(TemplateTasks) /\ stamp \in Nat
      BY DraftOf, TasksOfAPhase DEF SplitByPhase, TemplatesInductive, EditorSound
    <2> QED
      BY <2>1, LenProperties
  <1> HIDE DEF o, n
  <1>2. [id |-> n, title |-> "", phase |-> p, sort_order |-> o] \in TemplateTasks
    BY <1>1, NamesInUse, Zenon DEF TemplateTasks, TaskTemplatesPage!Task
  <1>3. TaskTemplatesPage!Added(draft.tasks, p)
          = Append(draft.tasks, [id |-> n, title |-> "", phase |-> p, sort_order |-> o])
    BY Zenon DEF TaskTemplatesPage!Added, o, n, Of
  <1>4. \A t \in TemplateTasks : Append(draft.tasks, t) \in Seq(TemplateTasks)
    BY DraftOf
  <1> QED
    BY <1>2, <1>3, <1>4, Zenon

LEMMA PhasesOfTheDraft ==
    ASSUME TemplatesInductive
    PROVE  /\ TaskTemplatesPage!Phases(draft.tasks) \subseteq TaskTemplatesPage!PhasesInUse
           /\ IsFiniteSet(TaskTemplatesPage!Phases(draft.tasks))
           /\ Cardinality(TaskTemplatesPage!Phases(draft.tasks)) \in 1 .. Len(draft.tasks) + 1
  <1> DEFINE D == DOMAIN draft.tasks
             used == {draft.tasks[i].phase : i \in D}
             f == [i \in D |-> draft.tasks[i].phase]
  <1>1. IsFiniteSet(D) /\ Cardinality(D) = Len(draft.tasks) /\ Len(draft.tasks) \in Nat
    <2>1. 1 \in Int /\ Len(draft.tasks) \in Nat /\ D = 1 .. Len(draft.tasks)
      BY DraftOf
    <2> HIDE DEF D
    <2> QED
      BY <2>1, FS_Interval
  <1>2. \A i \in D : draft.tasks[i].phase \in TaskTemplatesPage!PhasesInUse
    BY DraftOf DEF TemplateTasks, TaskTemplatesPage!Task
  <1>3. f \in Surjection(D, used)
    BY DEF Surjection
  <1>4. IsFiniteSet(used) /\ Cardinality(used) <= Len(draft.tasks)
    <2> HIDE DEF D, used, f
    <2> QED
      BY <1>1, <1>3, FS_Surjection
  <1>5. TaskTemplatesPage!Phases(draft.tasks) = used \cup {"general"}
    BY DEF TaskTemplatesPage!Phases
  <1>6. used \subseteq TaskTemplatesPage!PhasesInUse
    BY <1>2
  <1> HIDE DEF used
  <1>7. /\ IsFiniteSet(used \cup {"general"})
        /\ Cardinality(used) \in Nat
        /\ Cardinality(used \cup {"general"}) \in Nat
        /\ Cardinality(used \cup {"general"}) <= Cardinality(used) + 1
        /\ Cardinality(used \cup {"general"}) # 0
    <2>1. IsFiniteSet(used \cup {"general"})
          /\ Cardinality(used \cup {"general"}) = IF "general" \in used THEN Cardinality(used) ELSE Cardinality(used) + 1
      BY <1>4, FS_AddElement
    <2>2. Cardinality(used) \in Nat /\ Cardinality(used \cup {"general"}) \in Nat
      BY <1>4, <2>1, FS_CardinalityType
    <2>3. Cardinality(used \cup {"general"}) # 0
      BY <2>1, FS_EmptySet
    <2> QED
      BY <2>1, <2>2, <2>3
  <1> QED
    <2>1. used \cup {"general"} \subseteq TaskTemplatesPage!PhasesInUse
      BY <1>6, NamesInUse
    <2>2. Cardinality(used \cup {"general"}) \in 1 .. Len(draft.tasks) + 1
      BY <1>1, <1>4, <1>7
    <2> QED
      BY <1>5, <1>7, <2>1, <2>2

(* A drag is between two places of the phase. *)
LEMMA DragPlaces ==
    ASSUME TemplatesInductive, NEW p, NEW i, NEW j, TaskTemplatesPage!DragEnd(p, i, j)
    PROVE  \E a, b \in 1 .. Len(Of(draft.tasks, p)) :
              TaskTemplatesPage!Change(Dragged(draft.tasks, p, a, b)) /\ UNCHANGED stamp
  <1> DEFINE here == Of(draft.tasks, p)
             First(id) == TaskTemplatesPage!SelectInSeq(here, LAMBDA t : t.id = id)
  <1>1. Len(here) \in Nat /\ DOMAIN here = 1 .. Len(here)
    BY DraftOf, TasksOfAPhase, LenProperties DEF SplitByPhase
  <1>2. /\ i \in DOMAIN here /\ j \in DOMAIN here
        /\ TaskTemplatesPage!Change(Dragged(draft.tasks, p, First(here[i].id), First(here[j].id)))
        /\ UNCHANGED stamp
    BY DEF TaskTemplatesPage!DragEnd, Of, Dragged
  <1> HIDE DEF here
  <1>3. ASSUME NEW k \in 1 .. Len(here) PROVE First(here[k].id) \in 1 .. Len(here)
    <2> DEFINE I == {l \in 1 .. Len(here) : here[l].id = here[k].id}
    <2>1. I # {} /\ I \in SUBSET (1 .. Len(here))
      OBVIOUS
    <2>2. First(here[k].id) = TaskTemplatesPage!Min(I)
      BY <2>1 DEF TaskTemplatesPage!SelectInSeq
    <2> HIDE DEF I
    <2> QED
      BY <1>1, <2>1, <2>2, LeastPlace
  <1> HIDE DEF First
  <1> QED
    BY <1>1, <1>2, <1>3 DEF here

LEMMA DraftChanges ==
    ASSUME TemplatesInductive, MaxTasks \in Nat,
           \/ \E p \in TaskTemplatesPage!Phases(draft.tasks) : TaskTemplatesPage!AddTask(p)
           \/ TaskTemplatesPage!AddPhase
           \/ \E i \in DOMAIN draft.tasks : \E t \in TaskTitles : TaskTemplatesPage!UpdateTask(i, t)
           \/ \E i \in DOMAIN draft.tasks : TaskTemplatesPage!DeleteTask(i)
           \/ \E p \in TaskTemplatesPage!Phases(draft.tasks) : \E n \in PhaseNames : TaskTemplatesPage!RenamePhase(p, n)
           \/ \E p \in TaskTemplatesPage!Phases(draft.tasks) : \E i, j \in DOMAIN draft.tasks :
                 TaskTemplatesPage!DragEnd(p, i, j)
    PROVE  TemplatesInductive'
  <1> DEFINE s == draft.tasks
  <1>0. /\ s \in Seq(TemplateTasks) /\ Len(s) \in Nat /\ DOMAIN s = 1 .. Len(s)
        /\ \A i \in DOMAIN s : s[i] \in TemplateTasks
        /\ stamp \in Nat
    BY DraftOf DEF TemplatesInductive, EditorSound
  <1>1. ASSUME NEW p \in TaskTemplatesPage!Phases(s), TaskTemplatesPage!AddTask(p) PROVE TemplatesInductive'
    <2>1. p \in TaskTemplatesPage!PhasesInUse
      BY PhasesOfTheDraft
    <2>2. TaskTemplatesPage!Change(TaskTemplatesPage!Added(s, p)) /\ stamp' \in Nat
      BY <1>0, <1>1 DEF TaskTemplatesPage!AddTask
    <2> QED
      BY <2>1, <2>2, AddedTasks, ChangedDraft
  <1>2. CASE TaskTemplatesPage!AddPhase
    <2> DEFINE n == Cardinality(TaskTemplatesPage!Phases(s)) + 1
    <2>1. Len(s) < MaxTasks /\ stamp' = stamp + 1
          /\ TaskTemplatesPage!Change(TaskTemplatesPage!Added(s, TaskTemplatesPage!NewPhase(n)))
      <3>1. \A X : TaskTemplatesPage!Cardinality(X) = Cardinality(X)
        BY DEF TaskTemplatesPage!Cardinality, Cardinality
      <3> QED
        BY <1>2, <3>1 DEF TaskTemplatesPage!AddPhase
    <2>2. n \in 1 .. MaxTasks + 1
      BY <1>0, <2>1, PhasesOfTheDraft
    <2> HIDE DEF n
    <2>3. TaskTemplatesPage!NewPhase(n) \in TaskTemplatesPage!PhasesInUse
      BY <2>2, NamesInUse
    <2>4. stamp' \in Nat
      BY <1>0, <2>1
    <2> QED
      BY <2>1, <2>3, <2>4, AddedTasks, ChangedDraft
  <1>3. ASSUME NEW i \in DOMAIN s, NEW t \in TaskTitles, TaskTemplatesPage!UpdateTask(i, t) PROVE TemplatesInductive'
    <2> DEFINE new == [j \in DOMAIN s |-> IF s[j].id = s[i].id THEN [s[j] EXCEPT !.title = t] ELSE s[j]]
    <2>1. t \in TaskTemplatesPage!TitlesInUse
      BY NamesInUse
    <2>2. \A j \in DOMAIN s : [s[j] EXCEPT !.title = t] \in TemplateTasks
      BY <1>0, <2>1 DEF TemplateTasks, TaskTemplatesPage!Task
    <2>3. new \in [1 .. Len(s) -> TemplateTasks]
      BY <1>0, <2>2
    <2>4. TaskTemplatesPage!Change(new) /\ stamp' = stamp
      BY <1>3 DEF TaskTemplatesPage!UpdateTask
    <2> HIDE DEF new
    <2>5. new \in Seq(TemplateTasks)
      BY <1>0, <2>3
    <2> QED
      BY <1>0, <2>4, <2>5, ChangedDraft
  <1>4. ASSUME NEW i \in DOMAIN s, TaskTemplatesPage!DeleteTask(i) PROVE TemplatesInductive'
    <2> DEFINE I == {j \in DOMAIN s : s[j].id # s[i].id}
    <2>1. Picked(s, I) \in Seq(TemplateTasks)
      <3>1. I \in SUBSET DOMAIN s
        OBVIOUS
      <3> HIDE DEF I
      <3> QED
        BY <1>0, <3>1, PickedIsInOrder
    <2>2. TaskTemplatesPage!Change(Picked(s, I)) /\ stamp' = stamp
      BY <1>4 DEF TaskTemplatesPage!DeleteTask, Picked
    <2> QED
      BY <1>0, <2>1, <2>2, ChangedDraft
  <1>5. ASSUME NEW p \in TaskTemplatesPage!Phases(s), NEW n \in PhaseNames, TaskTemplatesPage!RenamePhase(p, n)
        PROVE  TemplatesInductive'
    <2> DEFINE new == [j \in DOMAIN s |-> IF s[j].phase = p THEN [s[j] EXCEPT !.phase = n] ELSE s[j]]
    <2>1. n \in TaskTemplatesPage!PhasesInUse
      BY NamesInUse
    <2>2. \A j \in DOMAIN s : [s[j] EXCEPT !.phase = n] \in TemplateTasks
      BY <1>0, <2>1 DEF TemplateTasks, TaskTemplatesPage!Task
    <2>3. new \in [1 .. Len(s) -> TemplateTasks]
      BY <1>0, <2>2
    <2>4. TaskTemplatesPage!Change(new) /\ stamp' = stamp
      BY <1>5 DEF TaskTemplatesPage!RenamePhase
    <2> HIDE DEF new
    <2>5. new \in Seq(TemplateTasks)
      BY <1>0, <2>3
    <2> QED
      BY <1>0, <2>4, <2>5, ChangedDraft
  <1>6. ASSUME NEW p, NEW i, NEW j, TaskTemplatesPage!DragEnd(p, i, j) PROVE TemplatesInductive'
    <2>1. PICK a, b \in 1 .. Len(Of(s, p)) : TaskTemplatesPage!Change(Dragged(s, p, a, b)) /\ UNCHANGED stamp
      BY <1>6, DragPlaces
    <2>2. Dragged(s, p, a, b) \in Seq(TemplateTasks)
      BY <1>0, DragReorders
    <2> QED
      BY <1>0, <2>1, <2>2, ChangedDraft
  <1> QED
    BY <1>1, <1>2, <1>3, <1>4, <1>5, <1>6

LEMMA TemplatesStep ==
    ASSUME TemplatesInductive, MaxTasks \in Nat, TaskTemplatesPage!Next
    PROVE  TemplatesInductive'
  <1>0. AreTemplates(mRows) /\ AreTemplates(mSeen) /\ EditorSound /\ SavingSound
    BY DEF TemplatesInductive
  <1>1. ASSUME AreTemplates(mRows'), TaskTemplatesPage!Fetched \/ UNCHANGED mSeen, UNCHANGED <<mOpen, mEditing, draft, stamp, saving>>
        PROVE  TemplatesInductive'
    BY <1>0, <1>1 DEF TaskTemplatesPage!Fetched, TemplatesInductive, AreTemplates, EditorSound, SavingSound
  <1>2. ASSUME NEW t, NEW id \in IncidentTemplates, TaskTemplatesPage!Clone(t, id) PROVE TemplatesInductive'
    <2>1. AreTemplates(mRows')
      BY <1>0, <1>2, RequestsLeaveTemplates DEF TaskTemplatesPage!Clone
    <2> QED
      BY <1>1, <1>2, <2>1 DEF TaskTemplatesPage!Clone
  <1>3. CASE TaskTemplatesPage!ToggleHide
    <2>1. AreTemplates(mRows')
      BY <1>0, <1>3, RequestsLeaveTemplates DEF TaskTemplatesPage!ToggleHide
    <2> QED
      BY <1>1, <1>3, <2>1 DEF TaskTemplatesPage!ToggleHide
  <1>4. ASSUME NEW t, TaskTemplatesPage!Delete(t) \/ TaskTemplatesPage!DeletedElsewhere(t) PROVE TemplatesInductive'
    <2>1. mRows' = TaskTemplatesPage!Removed(t) /\ t # TaskTemplatesPage!System
      BY <1>4 DEF TaskTemplatesPage!Delete, TaskTemplatesPage!DeletedElsewhere, TaskTemplatesPage!Organisations
    <2>2. AreTemplates(mRows')
      BY <1>0, <2>1, RequestsLeaveTemplates
    <2> QED
      BY <1>1, <1>4, <2>2 DEF TaskTemplatesPage!Delete, TaskTemplatesPage!DeletedElsewhere
  <1>5. ASSUME EditorSound', UNCHANGED <<mRows, mSeen, saving>> PROVE TemplatesInductive'
    BY <1>0, <1>5 DEF TemplatesInductive, AreTemplates, SavingSound
  <1>6. ASSUME NEW t \in IncidentTemplates, TaskTemplatesPage!Edit(t) PROVE TemplatesInductive'
    <2> DEFINE d == [name |-> mSeen[t].name, slug |-> mSeen[t].slug, tasks |-> mSeen[t].tasks]
    <2>1. HasTasks(mSeen[t])
      BY <1>0, <1>6 DEF TaskTemplatesPage!Edit, TaskTemplatesPage!Organisations, AreTemplates
    <2>2. IsDraft(d)
      BY <2>1 DEF IsDraft, HasTasks
    <2> HIDE DEF d
    <2>3. draft' = IF mOpen THEN draft ELSE d
      BY <1>6 DEF TaskTemplatesPage!Edit, d
    <2>4. IsDraft(draft')
      BY <1>0, <2>2, <2>3 DEF EditorSound
    <2>5. EditorSound'
      BY <1>0, <1>6, <2>4 DEF EditorSound, IsDraft, HasTasks, TaskTemplatesPage!Edit
    <2> QED
      BY <1>5, <1>6, <2>5 DEF TaskTemplatesPage!Edit
  <1>7. CASE TaskTemplatesPage!New
    <2>1. IsDraft(draft')
      BY <1>0, <1>7, BlankIsADraft DEF EditorSound, TaskTemplatesPage!New
    <2>2. EditorSound'
      BY <1>0, <1>7, <2>1 DEF EditorSound, IsDraft, HasTasks, TaskTemplatesPage!New
    <2> QED
      BY <1>5, <1>7, <2>2 DEF TaskTemplatesPage!New
  <1>8. CASE TaskTemplatesPage!Close
    <2>1. IsDraft(draft')
      BY <1>8, BlankIsADraft DEF TaskTemplatesPage!Close
    <2>2. EditorSound'
      BY <1>0, <1>8, <2>1 DEF EditorSound, IsDraft, HasTasks, TaskTemplatesPage!Close
    <2> QED
      BY <1>5, <1>8, <2>2 DEF TaskTemplatesPage!Close
  <1>9. ASSUME NEW n, TaskTemplatesPage!NameChange(n) PROVE TemplatesInductive'
    <2> DEFINE slug == IF mEditing = TaskTemplatesPage!None THEN TaskTemplatesPage!GenerateSlug(n) ELSE draft.slug
    <2>1. mOpen /\ draft' = [draft EXCEPT !.name = n, !.slug = slug]
      BY <1>9 DEF TaskTemplatesPage!NameChange
    <2> HIDE DEF slug
    <2>2. IsDraft(draft')
      BY <1>0, <2>1 DEF EditorSound, IsDraft, HasTasks
    <2>3. EditorSound'
      BY <1>0, <1>9, <2>1, <2>2 DEF EditorSound, IsDraft, HasTasks, TaskTemplatesPage!NameChange
    <2> QED
      BY <1>5, <1>9, <2>3 DEF TaskTemplatesPage!NameChange
  <1>10. CASE TaskTemplatesPage!Submit
    <2>1. saving' = [to |-> mEditing, what |-> draft, on |-> TRUE] /\ UNCHANGED <<mRows, mSeen, mOpen, mEditing, draft, stamp>>
      BY <1>10 DEF TaskTemplatesPage!Submit
    <2>2. SavingSound'
      BY <1>0, <2>1 DEF SavingSound, EditorSound, IsDraft
    <2> QED
      BY <1>0, <2>1, <2>2 DEF TemplatesInductive, AreTemplates, EditorSound
  <1>11. ASSUME UNCHANGED saving \/ saving' = TaskTemplatesPage!NotSaving PROVE SavingSound'
    <2>1. /\ TaskTemplatesPage!NotSaving.on \in BOOLEAN /\ TaskTemplatesPage!NotSaving.to = TaskTemplatesPage!None
          /\ TaskTemplatesPage!NotSaving.what = TaskTemplatesPage!Blank
      BY DEF TaskTemplatesPage!NotSaving
    <2>2. HasTasks(TaskTemplatesPage!Blank)
      BY BlankIsADraft DEF IsDraft
    <2> QED
      BY <1>0, <1>11, <2>1, <2>2 DEF SavingSound
  <1>12. CASE TaskTemplatesPage!Saved
    <2>1. HasTasks(saving.what)
      BY <1>0 DEF SavingSound
    <2>2. AreTemplates(mRows')
      <3>1. CASE saving.to = TaskTemplatesPage!None
        <4>1. PICK id \in TaskTemplatesPage!Fresh : mRows' = TaskTemplatesPage!Created(id, saving.what)
          BY <1>12, <3>1 DEF TaskTemplatesPage!Saved
        <4>2. id \in IncidentTemplates
          BY DEF TaskTemplatesPage!Fresh
        <4> QED
          BY <1>0, <2>1, <4>1, <4>2, RequestsLeaveTemplates
      <3>2. CASE saving.to # TaskTemplatesPage!None
        BY <1>0, <1>12, <2>1, <3>2, RequestsLeaveTemplates DEF TaskTemplatesPage!Saved
      <3> QED
        BY <3>1, <3>2
    <2>3. AreTemplates(mSeen')
      BY <1>0, <1>12, <2>2 DEF TaskTemplatesPage!Saved, TaskTemplatesPage!Fetched
    <2>4. IsDraft(draft')
      BY <1>12, BlankIsADraft DEF TaskTemplatesPage!Saved
    <2>5. EditorSound'
      BY <1>0, <1>12, <2>4 DEF EditorSound, IsDraft, HasTasks, TaskTemplatesPage!Saved
    <2>6. SavingSound'
      BY <1>11, <1>12 DEF TaskTemplatesPage!Saved
    <2> QED
      BY <2>2, <2>3, <2>5, <2>6 DEF TemplatesInductive, AreTemplates
  <1>13. CASE TaskTemplatesPage!SaveFailed
    <2>1. SavingSound'
      BY <1>11, <1>13 DEF TaskTemplatesPage!SaveFailed
    <2> QED
      BY <1>0, <1>13, <2>1 DEF TaskTemplatesPage!SaveFailed, TemplatesInductive, AreTemplates, EditorSound
  <1>14. CASE TaskTemplatesPage!Refetch
    BY <1>0, <1>14 DEF TaskTemplatesPage!Refetch, TemplatesInductive, AreTemplates, EditorSound, SavingSound
  <1> QED
    BY <1>2, <1>3, <1>4, <1>6, <1>7, <1>8, <1>9, <1>10, <1>12, <1>13, <1>14, DraftChanges
       DEF TaskTemplatesPage!Next

LEMMA TemplatesInit == TaskTemplatesPage!Init => TemplatesInductive
  <1> SUFFICES ASSUME TaskTemplatesPage!Init PROVE TemplatesInductive
    OBVIOUS
  <1>1. AreTemplates(mRows) /\ AreTemplates(mSeen)
    BY SeedHasTasks DEF TaskTemplatesPage!Init, AreTemplates
  <1>2. EditorSound
    BY BlankIsADraft DEF TaskTemplatesPage!Init, EditorSound
  <1>3. SavingSound
    <2>1. /\ TaskTemplatesPage!NotSaving.on \in BOOLEAN /\ TaskTemplatesPage!NotSaving.to = TaskTemplatesPage!None
          /\ TaskTemplatesPage!NotSaving.what = TaskTemplatesPage!Blank
      BY DEF TaskTemplatesPage!NotSaving
    <2> QED
      BY <2>1, BlankIsADraft DEF TaskTemplatesPage!Init, SavingSound, IsDraft
  <1> QED
    BY <1>1, <1>2, <1>3 DEF TemplatesInductive

PhaseReordered(p) ==
    /\ TaskTemplatesPage!Shown(draft'.tasks, p) = TaskTemplatesPage!Of(draft'.tasks, p)
    /\ {[t EXCEPT !.sort_order = 0] : t \in TaskTemplatesPage!ToSet(draft'.tasks)}
         = {[t EXCEPT !.sort_order = 0] : t \in TaskTemplatesPage!ToSet(draft.tasks)}
    /\ Len(draft'.tasks) = Len(draft.tasks)
    /\ \A q \in TaskTemplatesPage!Phases(draft.tasks) \ {p} :
          TaskTemplatesPage!Of(draft'.tasks, q) = TaskTemplatesPage!Of(draft.tasks, q)

LEMMA DragEnds ==
    ASSUME TemplatesInductive, NEW p, NEW i, NEW j, TaskTemplatesPage!DragEnd(p, i, j)
    PROVE  PhaseReordered(p)
  <1> DEFINE s == draft.tasks
  <1>1. s \in Seq(TemplateTasks) /\ "tasks" \in DOMAIN draft
    BY DraftOf DEF TemplatesInductive, EditorSound, IsDraft, HasTasks
  <1>2. PICK a, b \in 1 .. Len(Of(s, p)) : TaskTemplatesPage!Change(Dragged(s, p, a, b))
    BY DragPlaces
  <1> DEFINE r == Dragged(s, p, a, b)
  <1>3. draft'.tasks = r
    BY <1>1, <1>2 DEF TaskTemplatesPage!Change
  <1>4. /\ r \in Seq(TemplateTasks) /\ Len(r) = Len(s)
        /\ TaskTemplatesPage!Shown(r, p) = Of(r, p)
        /\ \A q : q # p => Of(r, q) = Of(s, q)
        /\ \A k \in 1 .. Len(r) : \E l \in 1 .. Len(s) : Unnumbered(r[k]) = Unnumbered(s[l])
        /\ \A l \in 1 .. Len(s) : \E k \in 1 .. Len(r) : Unnumbered(r[k]) = Unnumbered(s[l])
    BY <1>1, DragReorders
  <1>5. DOMAIN r = 1 .. Len(r) /\ DOMAIN s = 1 .. Len(s)
    BY <1>1, <1>4, LenProperties
  <1> HIDE DEF r, s
  <1>6. /\ TaskTemplatesPage!ToSet(r) = {r[k] : k \in DOMAIN r}
        /\ TaskTemplatesPage!ToSet(s) = {s[k] : k \in DOMAIN s}
    BY DEF TaskTemplatesPage!ToSet
  <1>7. {Unnumbered(t) : t \in TaskTemplatesPage!ToSet(r)} = {Unnumbered(t) : t \in TaskTemplatesPage!ToSet(s)}
    <2>1. {Unnumbered(t) : t \in TaskTemplatesPage!ToSet(r)} = {Unnumbered(r[k]) : k \in 1 .. Len(r)}
      BY <1>5, <1>6
    <2>2. {Unnumbered(t) : t \in TaskTemplatesPage!ToSet(s)} = {Unnumbered(s[k]) : k \in 1 .. Len(s)}
      BY <1>5, <1>6
    <2>3. {Unnumbered(r[k]) : k \in 1 .. Len(r)} = {Unnumbered(s[k]) : k \in 1 .. Len(s)}
      BY <1>4
    <2> QED
      BY <2>1, <2>2, <2>3
  <1>8. {[t EXCEPT !.sort_order = 0] : t \in TaskTemplatesPage!ToSet(r)}
          = {[t EXCEPT !.sort_order = 0] : t \in TaskTemplatesPage!ToSet(s)}
    BY <1>7 DEF Unnumbered
  <1> QED
    BY <1>3, <1>4, <1>8 DEF PhaseReordered, Of, s

LEMMA TemplatesHold == PagesSpec => []TemplatesInductive
  <1>1. PagesInit => TemplatesInductive
    BY TemplatesInit DEF PagesInit
  <1>2. ASSUME TemplatesInductive, [PagesNext]_pagesVars PROVE TemplatesInductive'
    <2>1. CASE TaskTemplatesPage!Next
      BY <1>2, <2>1, TemplatesStep, PagesAssumption
    <2>2. CASE UNCHANGED taskTemplatesVars
      BY <1>2, <2>2 DEF taskTemplatesVars, TemplatesInductive, AreTemplates, EditorSound, SavingSound
    <2> QED
      BY <1>2, <2>1, <2>2, OnePageSteps
  <1> QED
    BY <1>1, <1>2, PTL DEF PagesSpec

(* Dragging a task reorders its phase and nothing else, in any list of      *)
(* tasks that the editor can hold.                                          *)
THEOREM DragsReorder == PagesSpec => DragReordersItsPhase
  <1>1. TemplatesInductive
          => [\A p \in TaskTemplatesPage!Phases(draft.tasks) : \A i, j \in DOMAIN draft.tasks :
                TaskTemplatesPage!DragEnd(p, i, j) => PhaseReordered(p)]_TaskTemplatesPage!vars
    BY DragEnds
  <1>2. [][\A p \in TaskTemplatesPage!Phases(draft.tasks) : \A i, j \in DOMAIN draft.tasks :
             TaskTemplatesPage!DragEnd(p, i, j) => PhaseReordered(p)]_TaskTemplatesPage!vars
          => DragReordersItsPhase
    BY DEF DragReordersItsPhase, TaskTemplatesPage!DragReordersItsPhase, PhaseReordered
  <1> QED
    BY <1>1, <1>2, TemplatesHold, PTL DEF PagesSpec

-----------------------------------------------------------------------------
(* Settings sections.  Their own theory holds of the pages as they are      *)
(* composed: the definitions of the two are the same, and a step of another *)
(* page changes none of their variables but the shared counters.            *)

ConnectorsTheory == INSTANCE ConnectorsProofs WITH
    Texts <- ConnectorTexts, MaxClicks <- ClickLimit["Connectors"],
    MaxFaults <- FaultLimit["Connectors"], rows <- cRows, form <- cForm,
    seen <- cSeen, open <- cOpen, waiting <- cWaiting, sent <- cSent

LEMMA SameConnectors ==
    /\ ConnectorsPage!Init <=> ConnectorsTheory!Init
    /\ ConnectorsPage!Next <=> ConnectorsTheory!Next
    /\ EnabledIsComplete <=> ConnectorsTheory!EnabledIsComplete
  BY Zenon
     DEF EnabledIsComplete, ConnectorsPage!Plugins, ConnectorsPage!Required, ConnectorsPage!Configured,
         ConnectorsPage!Sections, ConnectorsPage!Any, ConnectorsPage!Configs,
         ConnectorsPage!Nothing, ConnectorsPage!Fields, ConnectorsPage!PluginFilled,
         ConnectorsPage!SsoFilled, ConnectorsPage!SmtpFilled, ConnectorsPage!AiFilled,
         ConnectorsPage!Filled, ConnectorsPage!PluginComplete, ConnectorsPage!SsoComplete,
         ConnectorsPage!SmtpComplete, ConnectorsPage!AiComplete, ConnectorsPage!Complete,
         ConnectorsPage!Kept, ConnectorsPage!PluginStored, ConnectorsPage!SsoStored,
         ConnectorsPage!SmtpStored, ConnectorsPage!AiStored, ConnectorsPage!Stored,
         ConnectorsPage!Fill, ConnectorsPage!Init, ConnectorsPage!Click,
         ConnectorsPage!Fault, ConnectorsPage!ChooseCategory, ConnectorsPage!Open,
         ConnectorsPage!Collapse, ConnectorsPage!PluginFields, ConnectorsPage!SsoFields,
         ConnectorsPage!SmtpFields, ConnectorsPage!AiFields, ConnectorsPage!Offered,
         ConnectorsPage!Type, ConnectorsPage!FlipInForm, ConnectorsPage!FlipPlugin,
         ConnectorsPage!Save, ConnectorsPage!Test, ConnectorsPage!Commit,
         ConnectorsPage!SaveDone, ConnectorsPage!EnableDone, ConnectorsPage!TestSaveDone,
         ConnectorsPage!TestDone, ConnectorsPage!ToggleDone, ConnectorsPage!Fail,
         ConnectorsPage!Elsewhere, ConnectorsPage!Refetch, ConnectorsPage!Next,
         ConnectorsPage!EnabledIsComplete, ConnectorsTheory!Plugins,
         ConnectorsTheory!Required, ConnectorsTheory!Configured,
         ConnectorsTheory!Sections, ConnectorsTheory!Any,
         ConnectorsTheory!Configs, ConnectorsTheory!Nothing, ConnectorsTheory!Fields,
         ConnectorsTheory!PluginFilled, ConnectorsTheory!SsoFilled,
         ConnectorsTheory!SmtpFilled, ConnectorsTheory!AiFilled, ConnectorsTheory!Filled,
         ConnectorsTheory!PluginComplete, ConnectorsTheory!SsoComplete,
         ConnectorsTheory!SmtpComplete, ConnectorsTheory!AiComplete,
         ConnectorsTheory!Complete, ConnectorsTheory!Kept, ConnectorsTheory!PluginStored,
         ConnectorsTheory!SsoStored, ConnectorsTheory!SmtpStored, ConnectorsTheory!AiStored,
         ConnectorsTheory!Stored, ConnectorsTheory!Fill, ConnectorsTheory!Init,
         ConnectorsTheory!Click, ConnectorsTheory!Fault, ConnectorsTheory!ChooseCategory,
         ConnectorsTheory!Open, ConnectorsTheory!Collapse, ConnectorsTheory!PluginFields,
         ConnectorsTheory!SsoFields, ConnectorsTheory!SmtpFields, ConnectorsTheory!AiFields,
         ConnectorsTheory!Offered, ConnectorsTheory!Type, ConnectorsTheory!FlipInForm,
         ConnectorsTheory!FlipPlugin, ConnectorsTheory!Save, ConnectorsTheory!Test,
         ConnectorsTheory!Commit, ConnectorsTheory!SaveDone, ConnectorsTheory!EnableDone,
         ConnectorsTheory!TestSaveDone, ConnectorsTheory!TestDone,
         ConnectorsTheory!ToggleDone, ConnectorsTheory!Fail, ConnectorsTheory!Elsewhere,
         ConnectorsTheory!Refetch, ConnectorsTheory!Next, ConnectorsTheory!EnabledIsComplete

LEMMA ConnectorsStep ==
    ASSUME ConnectorsTheory!Inductive, [PagesNext]_pagesVars
    PROVE  ConnectorsTheory!Inductive' /\ ConnectorsTheory!Keeps
  <1>1. CASE ConnectorsPage!Next
    BY <1>1, SameConnectors, ConnectorsTheory!StepInductive
  <1>2. CASE UNCHANGED connectorsVars
    BY <1>2, Zenon
       DEF connectorsVars, ConnectorsTheory!Inductive, ConnectorsTheory!TypeOK,
           ConnectorsTheory!RowsSound, ConnectorsTheory!SentSound, ConnectorsTheory!SeenSound,
           ConnectorsTheory!FormSound, ConnectorsTheory!EnableSound, ConnectorsTheory!Keeps
  <1> QED
    BY <1>1, <1>2, OnePageSteps

LEMMA ConnectorsInductive == PagesSpec => []ConnectorsTheory!Inductive
  <1>1. PagesInit => ConnectorsTheory!Inductive
    BY SameConnectors, ConnectorsTheory!InitInductive DEF PagesInit
  <1>2. ConnectorsTheory!Inductive /\ [PagesNext]_pagesVars => ConnectorsTheory!Inductive'
    BY ConnectorsStep
  <1> QED
    BY <1>1, <1>2, PTL DEF PagesSpec

(* What is switched on in a section has what it needs, whichever saves,     *)
(* switches and tests of the page and of others overlap or fail.            *)
THEOREM WhatIsOnIsComplete == PagesSpec => []EnabledIsComplete
  <1>1. ConnectorsTheory!Inductive => EnabledIsComplete
    BY SameConnectors, Zenon
       DEF ConnectorsTheory!Inductive, ConnectorsTheory!RowsSound, ConnectorsTheory!Sound,
           ConnectorsTheory!Configured, ConnectorsTheory!EnabledIsComplete
  <1> QED
    BY <1>1, ConnectorsInductive, PTL

(* No step of any page takes a stored secret away.                          *)
THEOREM SecretsStay == PagesSpec => SecretIsNeverDropped
  <1>1. ConnectorsTheory!Inductive /\ [PagesNext]_pagesVars
          => [\A s \in ConnectorsPage!Sections :
                cRows[s].secret # "" => cRows'[s].secret # ""]_ConnectorsPage!vars
    BY ConnectorsStep, Zenon
       DEF ConnectorsTheory!Keeps, ConnectorsTheory!Sections, ConnectorsTheory!Plugins,
           ConnectorsPage!Sections, ConnectorsPage!Plugins
  <1> QED
    BY <1>1, ConnectorsInductive, PTL
       DEF PagesSpec, SecretIsNeverDropped, ConnectorsPage!SecretIsNeverDropped

-----------------------------------------------------------------------------
(* The types of the other pages.  What an indicator, an asset and a template *)
(* is made of, wherever a copy of it is: stored, on its way, or on screen.   *)

AssetRows == [status : AssetStatuses, described : BOOLEAN]
AreAssets(list) == DOMAIN list \subseteq AssetIds /\ \A i \in DOMAIN list : list[i] \in AssetRows
IsAssetRequest(r) ==
    /\ r.what = "update" => r.status \in AssetStatuses /\ r.described \in BOOLEAN
    /\ r.what = "link" => r.link \in AssetsPage!Links
EditedAssets == [id : AssetIds, status : AssetStatuses, described : BOOLEAN]
AssetEnds == [source : AssetIds \cup {AssetsPage!None}, target : AssetIds \cup {AssetsPage!None}]

AssetsTyped ==
    /\ AreAssets(aRows) /\ AreAssets(aSeen)
    /\ links \subseteq AssetsPage!Links /\ aShown \subseteq AssetsPage!Links
    /\ checked = AssetsPage!NoLink \/ checked \in AssetsPage!Links
    /\ tab \in {"list", "relationships"}
    /\ aEditing = AssetsPage!NotEditing \/ aEditing \in EditedAssets
    /\ aDeleting \in AssetIds \cup {AssetsPage!None}
    /\ ends \in AssetEnds
    /\ \A r \in aWaiting : IsAssetRequest(r)

LEMMA AssetsTypes == AssetsInductive /\ AssetsTyped => AssetsPage!TypeOK
  BY DEF AssetsInductive, AssetsTyped, AreAssets, AssetRows, EditedAssets, AssetsPage!TypeOK,
         AssetsPage!NotEditing

LEMMA AssetsInitTyped == AssetsPage!Init => AssetsTyped
  BY DEF AssetsPage!Init, AssetsTyped, AreAssets, AssetEnds, AssetsPage!NoEnds

(* What asks changes nothing else; what the server answers to removes the   *)
(* request and lets the lists be read before or after.                       *)
LEMMA AssetsAsking ==
    ASSUME AssetsTyped, NEW request, AssetsPage!Ask(request), IsAssetRequest(request)
    PROVE  AssetsTyped'
  <1>1. /\ UNCHANGED <<aRows, aSeen, links, aShown, checked, tab, aEditing, aDeleting, ends>>
        /\ aWaiting' = aWaiting \cup {request}
    BY DEF AssetsPage!Ask, AssetsPage!dialogs
  <1> QED
    BY <1>1 DEF AssetsTyped, AreAssets

LEMMA AssetsServed ==
    ASSUME AssetsTyped, AreAssets(aRows'), links' \subseteq AssetsPage!Links, NEW r,
           NEW read, NEW readLinks, AssetsPage!Answered(r, read, readLinks),
           read \subseteq {aRows, aRows', aSeen}, readLinks \subseteq {links, links', aShown},
           aEditing' \in {aEditing, AssetsPage!NotEditing},
           aDeleting' \in {aDeleting, AssetsPage!None}, ends' \in {ends, AssetsPage!NoEnds}
    PROVE  AssetsTyped'
  <1>1. /\ aWaiting' \subseteq aWaiting /\ aSeen' \in {aRows, aRows', aSeen}
        /\ aShown' \in {links, links', aShown} /\ UNCHANGED <<checked, tab>>
    BY DEF AssetsPage!Answered
  <1>2. AreAssets(aSeen')
    BY <1>1 DEF AssetsTyped
  <1>3. aShown' \subseteq AssetsPage!Links
    BY <1>1 DEF AssetsTyped
  <1>4. AssetsPage!NoEnds \in AssetEnds
    BY DEF AssetsPage!NoEnds, AssetEnds
  <1> QED
    BY <1>1, <1>2, <1>3, <1>4 DEF AssetsTyped

LEMMA AssetsDoneTyped ==
    ASSUME AssetsInductive, AssetsTyped, NEW r \in aWaiting, AssetsDone(r)
    PROVE  AreAssets(aRows') /\ links' \subseteq AssetsPage!Links
  <1>1. CASE AssetsPage!CreatesAssets(r)
    <2>1. PICK ids : /\ ids \subseteq AssetsPage!Fresh
                     /\ aRows' = [i \in DOMAIN aRows \cup ids |->
                          IF i \in ids THEN [status |-> AssetsPage!Suspected, described |-> TRUE] ELSE aRows[i]]
      BY <1>1, AddsFresh, PagesAssumption
    <2>2. UNCHANGED links
      BY <1>1 DEF AssetsPage!CreatesAssets
    <2> QED
      BY <2>1, <2>2, PagesAssumption DEF AssetsTyped, AreAssets, AssetRows, AssetsPage!Fresh
  <1>2. CASE AssetsPage!UpdatesAsset(r)
    BY <1>2 DEF AssetsPage!UpdatesAsset, AssetsTyped, AreAssets, AssetRows, IsAssetRequest
  <1>3. CASE AssetsPage!DeletesAsset(r)
    BY <1>3 DEF AssetsPage!DeletesAsset, AssetsPage!Without, AssetsTyped, AreAssets
  <1>4. CASE AssetsPage!CreatesLink(r) \/ AssetsPage!DeletesLink(r)
    BY <1>4 DEF AssetsPage!CreatesLink, AssetsPage!DeletesLink, AssetsTyped, IsAssetRequest
  <1> QED
    BY <1>1, <1>2, <1>3, <1>4 DEF AssetsDone

LEMMA AssetsStepTyped ==
    ASSUME AssetsInductive, AssetsTyped, AssetsPage!Next
    PROVE  AssetsTyped'
  <1> USE DEF AssetsPage!dialogs
  <1>1. CASE \/ \E t \in {"list", "relationships"} : AssetsPage!ShowTab(t)
             \/ \E n \in 0..2 : AssetsPage!TypeNames(n)
             \/ AssetsPage!CancelDialog
             \/ \E r \in aWaiting : AssetsPage!RequestFails(r)
             \/ AssetsPage!Refetch
    BY <1>1 DEF AssetsPage!ShowTab, AssetsPage!TypeNames, AssetsPage!CancelDialog,
         AssetsPage!RequestFails, AssetsPage!Refetch, AssetsTyped
  <1>2. CASE \/ \E i \in AssetIds : AssetsPage!OpenEdit(i) \/ AssetsPage!OpenDelete(i)
             \/ \E s \in AssetStatuses : \E d \in BOOLEAN : AssetsPage!EditField(s, d)
    <2>1. ASSUME NEW i \in AssetIds, AssetsPage!OpenEdit(i) PROVE AssetsTyped'
      <3>1. aEditing' \in EditedAssets
        BY <2>1 DEF AssetsPage!OpenEdit, AssetsTyped, AreAssets, AssetRows, EditedAssets
      <3> QED
        BY <2>1, <3>1 DEF AssetsPage!OpenEdit, AssetsTyped
    <2>2. ASSUME NEW i \in AssetIds, AssetsPage!OpenDelete(i) PROVE AssetsTyped'
      BY <2>2 DEF AssetsPage!OpenDelete, AssetsTyped
    <2>3. ASSUME NEW s \in AssetStatuses, NEW d \in BOOLEAN, AssetsPage!EditField(s, d) PROVE AssetsTyped'
      <3>1. aEditing \in EditedAssets
        BY <2>3 DEF AssetsPage!EditField, AssetsTyped, AssetsPage!NotEditing
      <3>2. aEditing' \in EditedAssets
        BY <2>3, <3>1 DEF AssetsPage!EditField, EditedAssets
      <3> QED
        BY <2>3, <3>2 DEF AssetsPage!EditField, AssetsTyped
    <2> QED
      BY <1>2, <2>1, <2>2, <2>3
  <1>3. CASE \E i \in AssetIds : AssetsPage!ChooseSource(i) \/ AssetsPage!ChooseTarget(i)
    BY <1>3 DEF AssetsPage!ChooseSource, AssetsPage!ChooseTarget, AssetsTyped, AssetEnds
  <1>4. CASE AssetsPage!Add \/ AssetsPage!DeleteConfirm \/ \E l \in aShown : AssetsPage!DeleteLink(l)
    BY <1>4, AssetsAsking DEF AssetsPage!Add, AssetsPage!DeleteConfirm, AssetsPage!DeleteLink,
         AssetsPage!Request, IsAssetRequest
  <1>5. CASE AssetsPage!SaveEdit
    <2>1. aEditing \in EditedAssets
      BY <1>5 DEF AssetsPage!SaveEdit, AssetsTyped, AssetsPage!NotEditing
    <2> QED
      BY <1>5, <2>1, AssetsAsking DEF AssetsPage!SaveEdit, EditedAssets, AssetsPage!Request, IsAssetRequest
  <1>6. ASSUME NEW t \in LinkTypes, AssetsPage!CreateLink(t) PROVE AssetsTyped'
    <2> DEFINE l == [source |-> ends.source, target |-> ends.target, type |-> t]
    <2>1. l \in AssetsPage!Links
      BY <1>6 DEF AssetsPage!CreateLink, AssetsTyped, AssetEnds, AssetsPage!Links
    <2>2. AssetsPage!Ask([AssetsPage!Request EXCEPT !.what = "link", !.link = l])
      BY <1>6 DEF AssetsPage!CreateLink
    <2>3. IsAssetRequest([AssetsPage!Request EXCEPT !.what = "link", !.link = l])
      BY <2>1 DEF AssetsPage!Request, IsAssetRequest
    <2> QED
      BY <2>2, <2>3, AssetsAsking
  <1>7. ASSUME NEW r \in aWaiting,
               \/ AssetsPage!CreateAssets(r) \/ AssetsPage!UpdateAsset(r) \/ AssetsPage!DeleteAsset(r)
               \/ AssetsPage!CreateAssetLink(r) \/ AssetsPage!DeleteAssetLink(r)
        PROVE  AssetsTyped'
    <2>1. AssetsDone(r)
      BY <1>7 DEF AssetsDone, AssetsPage!CreateAssets, AssetsPage!UpdateAsset,
           AssetsPage!DeleteAsset, AssetsPage!CreateAssetLink, AssetsPage!DeleteAssetLink
    <2>2. AreAssets(aRows') /\ links' \subseteq AssetsPage!Links
      BY <2>1, AssetsDoneTyped
    <2>3. /\ aEditing' \in {aEditing, AssetsPage!NotEditing}
          /\ aDeleting' \in {aDeleting, AssetsPage!None} /\ ends' \in {ends, AssetsPage!NoEnds}
          /\ \/ AssetsPage!Answered(r, {aRows, aRows'}, {aShown})
             \/ AssetsPage!Answered(r, {aSeen}, {links, links'})
      BY <1>7 DEF AssetsPage!CreateAssets, AssetsPage!UpdateAsset,
           AssetsPage!DeleteAsset, AssetsPage!CreateAssetLink, AssetsPage!DeleteAssetLink
    <2>4. CASE AssetsPage!Answered(r, {aRows, aRows'}, {aShown})
      BY <2>2, <2>3, <2>4, AssetsServed
    <2>5. CASE AssetsPage!Answered(r, {aSeen}, {links, links'})
      BY <2>2, <2>3, <2>5, AssetsServed
    <2> QED
      BY <2>3, <2>4, <2>5
  <1>8. ASSUME NEW r \in aWaiting, AssetsPage!AnswerLost(r) PROVE AssetsTyped'
    <2>1. AssetsDone(r)
      BY <1>8 DEF AssetsDone, AssetsPage!AnswerLost
    <2>2. AreAssets(aRows') /\ links' \subseteq AssetsPage!Links
      BY <2>1, AssetsDoneTyped
    <2> QED
      BY <1>8, <2>2 DEF AssetsPage!AnswerLost, AssetsTyped
  <1>9. CASE \E i \in AssetIds : AssetsPage!DeletedElsewhere(i)
    BY <1>9 DEF AssetsPage!DeletedElsewhere, AssetsPage!Without, AssetsTyped, AreAssets
  <1>10. CASE \/ AssetsPage!LinkElsewhere \/ \E l \in AssetsPage!Links : AssetsPage!LookElsewhere(l)
              \/ \E l \in links : AssetsPage!UnlinkedElsewhere(l)
    BY <1>10 DEF AssetsPage!LinkElsewhere, AssetsPage!LookElsewhere, AssetsPage!UnlinkedElsewhere,
         AssetsTyped
  <1> QED
    BY <1>1, <1>2, <1>3, <1>4, <1>5, <1>6, <1>7, <1>8, <1>9, <1>10 DEF AssetsPage!Next

-----------------------------------------------------------------------------
(* Indicators. *)

IsIndicator(row) ==
    /\ {"status", "enrichment", "confidence"} \subseteq DOMAIN row
    /\ row.status \in IndicatorStatuses /\ row.enrichment \subseteq IndicatorsPage!Plugins
    /\ row.confidence \in 0..100
AreIndicators(list) == DOMAIN list \subseteq IndicatorIds /\ \A i \in DOMAIN list : IsIndicator(list[i])
Enrichments ==
    [at : {"free", "queued", "asking"}, ioc : IndicatorIds \cup {0},
     enrichment : SUBSET IndicatorsPage!Plugins, confidence : 0..100]

IndicatorsTyped ==
    /\ AreIndicators(iRows) /\ AreIndicators(uncommitted) /\ DOMAIN iSeen \subseteq IndicatorIds
    /\ task \in [TaskSlots -> Enrichments] /\ hasPlugins \in BOOLEAN /\ modal \in BOOLEAN
    /\ selected \subseteq detected \/ ~modal
    /\ \A r \in iWaiting : /\ r.what = "status" => r.status \in IndicatorStatuses
                           /\ r.what = "enrich" => r.ioc \in IndicatorIds

LEMMA IndicatorsTypes == IndicatorsTyped => IndicatorsPage!TypeOK
  BY DEF IndicatorsTyped, AreIndicators, IsIndicator, Enrichments, IndicatorsPage!TypeOK

LEMMA IndicatorsInitTyped == IndicatorsPage!Init => IndicatorsTyped
  <1> SUFFICES ASSUME IndicatorsPage!Init PROVE IndicatorsTyped
    OBVIOUS
  <1>1. IndicatorsPage!NoTask \in Enrichments
    BY DEF IndicatorsPage!NoTask, Enrichments
  <1>2. task \in [TaskSlots -> Enrichments]
    BY <1>1 DEF IndicatorsPage!Init
  <1> QED
    BY <1>2 DEF IndicatorsPage!Init, IndicatorsTyped, AreIndicators

(* What the plugins report makes a percentage. *)
LEMMA Percentages ==
    ASSUME NEW got \in SUBSET IndicatorsPage!Plugins
    PROVE  IndicatorsPage!CalculateConfidence(got) \in 0..100
  <1>1. got \in {{}, {"virustotal"}, {"abuseipdb"}, IndicatorsPage!Plugins}
    BY DEF IndicatorsPage!Plugins
  <1> QED
    BY <1>1 DEF IndicatorsPage!CalculateConfidence, IndicatorsPage!Plugins

LEMMA MergedIsAnIndicator ==
    ASSUME NEW row, IsIndicator(row), NEW read \in Enrichments, NEW got \in SUBSET IndicatorsPage!Plugins
    PROVE  IsIndicator(IndicatorsPage!Merged(row, read, got))
  <1> DEFINE merged == read.enrichment \cup got
             confidence == IndicatorsPage!CalculateConfidence(merged)
  <1>1. merged \in SUBSET IndicatorsPage!Plugins
    BY DEF Enrichments
  <1>2. confidence \in 0..100
    BY <1>1, Percentages
  <1>3. IndicatorsPage!Merged(row, read, got) =
          [row EXCEPT !.enrichment = merged,
                      !.confidence = IF confidence = read.confidence THEN row.confidence ELSE confidence]
    BY DEF IndicatorsPage!Merged
  <1> HIDE DEF merged, confidence
  <1> QED
    BY <1>1, <1>2, <1>3 DEF IsIndicator

(* An enrichment queued is about one of the indicators it was queued for. *)
LEMMA QueuedAreTyped ==
    ASSUME IndicatorsTyped, NEW ids \in SUBSET IndicatorIds, IndicatorsPage!Queued(ids)
    PROVE  task' \in [TaskSlots -> Enrichments]
  <1>1. CASE UNCHANGED task
    BY <1>1 DEF IndicatorsTyped
  <1>2. CASE hasPlugins
    <2> DEFINE slot == IndicatorsPage!OneToOne(ids, {k \in TaskSlots : task[k] = IndicatorsPage!NoTask})
    <2>1. task' = [k \in TaskSlots |->
                   IF \E i \in ids : slot[i] = k
                   THEN [IndicatorsPage!NoTask EXCEPT !.at = "queued", !.ioc = CHOOSE i \in ids : slot[i] = k]
                   ELSE task[k]]
      BY <1>2 DEF IndicatorsPage!Queued
    <2> HIDE DEF slot
    <2>2. ASSUME NEW k \in TaskSlots, \E i \in ids : slot[i] = k
          PROVE  [IndicatorsPage!NoTask EXCEPT !.at = "queued", !.ioc = CHOOSE i \in ids : slot[i] = k]
                    \in Enrichments
      <3>1. PICK i \in ids : i = CHOOSE j \in ids : slot[j] = k
        BY <2>2
      <3>2. IndicatorsPage!NoTask \in Enrichments
        BY DEF IndicatorsPage!NoTask, Enrichments
      <3>3. [IndicatorsPage!NoTask EXCEPT !.at = "queued", !.ioc = i] \in Enrichments
        BY <3>2 DEF Enrichments
      <3> QED
        BY <3>1, <3>3
    <2>3. \A k \in TaskSlots : task[k] \in Enrichments
      BY DEF IndicatorsTyped
    <2> QED
      BY <2>1, <2>2, <2>3
  <1> QED
    BY <1>1, <1>2 DEF IndicatorsPage!Queued

LEMMA IndicatorsStepTyped ==
    ASSUME IndicatorsTyped, IndicatorsPage!Next
    PROVE  IndicatorsTyped'
  <1>1. ASSUME UNCHANGED IndicatorsPage!server, UNCHANGED <<iSeen, iWaiting, modal, selected, detected>>
        PROVE  IndicatorsTyped'
    BY <1>1 DEF IndicatorsPage!server, IndicatorsTyped
  <1>2. ASSUME NEW request, IndicatorsPage!Ask(request),
               request.what = "status" => request.status \in IndicatorStatuses,
               request.what = "enrich" => request.ioc \in IndicatorIds
        PROVE  IndicatorsTyped'
    BY <1>2 DEF IndicatorsPage!Ask, IndicatorsPage!server, IndicatorsPage!page, IndicatorsTyped
  <1>3. CASE \/ \E s \in Spans : IndicatorsPage!TypeValue(s)
             \/ \E s \in SUBSET Spans : IndicatorsPage!ValuePaste(s)
             \/ \E f \in detected : IndicatorsPage!Tick(f)
             \/ IndicatorsPage!CloseModal
             \/ IndicatorsPage!Refetch \/ IndicatorsPage!HandleEnriched \/ IndicatorsPage!EventLost
    <2> DEFINE Keeps ==
          /\ UNCHANGED <<iRows, uncommitted, task, hasPlugins, iWaiting>>
          /\ selected' \subseteq detected' \/ ~modal'
          /\ modal' \in BOOLEAN
          /\ DOMAIN iSeen' \subseteq IndicatorIds
    <2>1. (\E s \in Spans : IndicatorsPage!TypeValue(s)) => Keeps
      BY DEF IndicatorsPage!TypeValue, IndicatorsPage!server, IndicatorsTyped
    <2>2. (\E s \in SUBSET Spans : IndicatorsPage!ValuePaste(s)) => Keeps
      BY DEF IndicatorsPage!ValuePaste, IndicatorsPage!server, IndicatorsTyped
    <2>3. (\E f \in detected : IndicatorsPage!Tick(f)) \/ IndicatorsPage!CloseModal => Keeps
      BY DEF IndicatorsPage!Tick, IndicatorsPage!CloseModal, IndicatorsPage!server, IndicatorsTyped
    <2>4. CASE IndicatorsPage!Refetch \/ IndicatorsPage!HandleEnriched \/ IndicatorsPage!EventLost
      <3>1. DOMAIN iSeen' \in {DOMAIN iSeen, DOMAIN iRows}
        BY <2>4 DEF IndicatorsPage!Refetch, IndicatorsPage!HandleEnriched, IndicatorsPage!EventLost
      <3>2. UNCHANGED <<iRows, uncommitted, task, hasPlugins, iWaiting, IndicatorsPage!page>>
        BY <2>4 DEF IndicatorsPage!Refetch, IndicatorsPage!HandleEnriched, IndicatorsPage!EventLost,
                    IndicatorsPage!server
      <3> QED
        BY <3>1, <3>2 DEF IndicatorsPage!page, IndicatorsTyped, AreIndicators
    <2> HIDE DEF Keeps
    <2>5. CASE Keeps
      BY <2>5 DEF IndicatorsTyped, Keeps
    <2> QED
      BY <1>3, <2>1, <2>2, <2>3, <2>4, <2>5
  <1>4. CASE IndicatorsPage!AddIOC("ip") \/ IndicatorsPage!BulkAdd
    BY <1>2, <1>4 DEF IndicatorsPage!AddIOC, IndicatorsPage!BulkAdd, IndicatorsPage!Plain
  <1>5. CASE \E i \in DOMAIN iSeen : \/ \E s \in IndicatorStatuses : IndicatorsPage!StatusChange(i, s)
                                    \/ IndicatorsPage!Delete(i) \/ IndicatorsPage!Enrich(i)
    BY <1>2, <1>5 DEF IndicatorsPage!StatusChange, IndicatorsPage!Delete, IndicatorsPage!Enrich,
         IndicatorsPage!Plain, IndicatorsTyped
  <1>6. ASSUME NEW r \in iWaiting, IndicatorsPage!CreateIOCs(r) PROVE IndicatorsTyped'
    <2>1. PICK ids \in SUBSET (IndicatorIds \ IndicatorsPage!Used) : \E order :
            /\ uncommitted' = [i \in ids |-> IndicatorsPage!NewRow(order[i],
                                               IF r.what = "add" THEN 80 ELSE 50)]
            /\ IndicatorsPage!Queued(ids)
      BY <1>6 DEF IndicatorsPage!CreateIOCs
    <2>2. task' \in [TaskSlots -> Enrichments]
      BY <2>1, QueuedAreTyped
    <2>3. AreIndicators(uncommitted')
      BY <2>1, PagesAssumption DEF IndicatorsPage!NewRow, AreIndicators, IsIndicator
    <2>4. /\ UNCHANGED <<iRows, hasPlugins, iSeen, selected>> /\ iWaiting' \subseteq iWaiting
          /\ modal' \in BOOLEAN /\ (~modal' \/ UNCHANGED <<modal, detected>>)
      BY <1>6 DEF IndicatorsPage!CreateIOCs, IndicatorsPage!Answered, IndicatorsTyped
    <2> QED
      BY <2>2, <2>3, <2>4 DEF IndicatorsTyped
  <1>7. CASE IndicatorsPage!Commit
    <2>1. AreIndicators(iRows') /\ AreIndicators(uncommitted')
      BY <1>7 DEF IndicatorsPage!Commit, IndicatorsTyped, AreIndicators
    <2> QED
      BY <1>7, <2>1 DEF IndicatorsPage!Commit, IndicatorsPage!page, IndicatorsTyped
  <1>8. ASSUME NEW r \in iWaiting, IndicatorsPage!Answered(r), AreIndicators(iRows'), UNCHANGED <<uncommitted, IndicatorsPage!page>>,
               task' \in [TaskSlots -> Enrichments]
        PROVE  IndicatorsTyped'
    BY <1>8 DEF IndicatorsPage!Answered, IndicatorsPage!page, IndicatorsTyped
  <1>9. ASSUME NEW r \in iWaiting, IndicatorsPage!UpdateIOC(r) PROVE IndicatorsTyped'
    <2>1. AreIndicators(iRows')
      BY <1>9 DEF IndicatorsPage!UpdateIOC, IndicatorsTyped, AreIndicators, IsIndicator
    <2> QED
      BY <1>8, <1>9, <2>1 DEF IndicatorsPage!UpdateIOC, IndicatorsTyped
  <1>10. ASSUME NEW r \in iWaiting, IndicatorsPage!DeleteIOC(r) PROVE IndicatorsTyped'
    <2>1. AreIndicators(iRows')
      BY <1>10 DEF IndicatorsPage!DeleteIOC, IndicatorsTyped, AreIndicators
    <2> QED
      BY <1>8, <1>10, <2>1 DEF IndicatorsPage!DeleteIOC, IndicatorsTyped
  <1>11. ASSUME NEW r \in iWaiting, IndicatorsPage!EnrichIOC(r) PROVE IndicatorsTyped'
    <2>1. {r.ioc} \in SUBSET IndicatorIds /\ IndicatorsPage!Queued({r.ioc})
      BY <1>11 DEF IndicatorsPage!EnrichIOC, IndicatorsTyped
    <2> QED
      BY <1>8, <1>11, <2>1, QueuedAreTyped DEF IndicatorsPage!EnrichIOC, IndicatorsTyped
  <1>12. ASSUME NEW r \in iWaiting, IndicatorsPage!RequestFails(r) PROVE IndicatorsTyped'
    BY <1>12 DEF IndicatorsPage!RequestFails, IndicatorsPage!server, IndicatorsPage!page, IndicatorsTyped
  <1>13. ASSUME NEW k \in TaskSlots, IndicatorsPage!EnrichBegin(k) PROVE IndicatorsTyped'
    <2> DEFINE read == [at |-> "asking", ioc |-> task[k].ioc, enrichment |-> iRows[task[k].ioc].enrichment,
                        confidence |-> iRows[task[k].ioc].confidence]
    <2>1. IndicatorsPage!NoTask \in Enrichments /\ task[k] \in Enrichments
      BY DEF IndicatorsPage!NoTask, Enrichments, IndicatorsTyped
    <2>2. task[k].ioc \in DOMAIN iRows => read \in Enrichments
      BY <2>1 DEF IndicatorsTyped, AreIndicators, IsIndicator, Enrichments
    <2>3. /\ task' = [task EXCEPT ![k] = IF task[k].ioc \notin DOMAIN iRows THEN IndicatorsPage!NoTask ELSE read]
          /\ UNCHANGED <<iRows, uncommitted, hasPlugins, IndicatorsPage!page, iSeen, iWaiting>>
      BY <1>13 DEF IndicatorsPage!EnrichBegin
    <2> HIDE DEF read
    <2>4. task' \in [TaskSlots -> Enrichments]
      BY <2>1, <2>2, <2>3 DEF IndicatorsTyped
    <2> QED
      BY <2>3, <2>4 DEF IndicatorsPage!page, IndicatorsTyped
  <1>14. ASSUME NEW k \in TaskSlots, NEW got \in SUBSET IndicatorsPage!Plugins, IndicatorsPage!EnrichEnd(k, got)
         PROVE  IndicatorsTyped'
    <2>1. IndicatorsPage!NoTask \in Enrichments /\ task[k] \in Enrichments
      BY DEF IndicatorsPage!NoTask, Enrichments, IndicatorsTyped
    <2>2. /\ task' = [task EXCEPT ![k] = IndicatorsPage!NoTask]
          /\ UNCHANGED <<uncommitted, hasPlugins, IndicatorsPage!page, iSeen, iWaiting>>
          /\ \/ UNCHANGED iRows
             \/ /\ task[k].ioc \in DOMAIN iRows
                /\ iRows' = [iRows EXCEPT ![task[k].ioc] =
                                IndicatorsPage!Merged(iRows[task[k].ioc], task[k], got)]
      BY <1>14 DEF IndicatorsPage!EnrichEnd
    <2>3. task' \in [TaskSlots -> Enrichments]
      BY <2>1, <2>2 DEF IndicatorsTyped
    <2>4. task[k].ioc \in DOMAIN iRows => IsIndicator(IndicatorsPage!Merged(iRows[task[k].ioc], task[k], got))
      BY <2>1, MergedIsAnIndicator DEF IndicatorsTyped, AreIndicators
    <2>5. AreIndicators(iRows')
      BY <2>2, <2>4 DEF IndicatorsTyped, AreIndicators
    <2> QED
      BY <2>2, <2>3, <2>5 DEF IndicatorsPage!page, IndicatorsTyped
  <1> QED
    BY <1>3, <1>4, <1>5, <1>6, <1>7, <1>9, <1>10, <1>11, <1>12, <1>13, <1>14 DEF IndicatorsPage!Next

-----------------------------------------------------------------------------
(* Report templates. *)

IsList(b) == b \in Seq({b[k] : k \in DOMAIN b})
IsReport(t) ==
    /\ Layout \cup Brand \subseteq DOMAIN t /\ IsList(t.blocks)
    /\ t.colour \in Colours /\ t.company \in Companies
AreReports(list) == DOMAIN list \subseteq ReportTemplates /\ \A i \in DOMAIN list : IsReport(list[i])
IsPatch(p) ==
    /\ "colour" \in DOMAIN p => p.colour \in Colours
    /\ "company" \in DOMAIN p => p.company \in Companies
    /\ "blocks" \in DOMAIN p => IsList(p.blocks)

(* The editor marks none of its blocks, or one of them. *)
EditorParts == {"name", "blocks", "colour", "company", "logo", "dirty", "saving", "hydrated", "selected"}
MarksOne(b, mark) == mark \in {0} \cup {b[k].key : k \in DOMAIN b}
AreKeyed(b) == IsList(b) /\ \A k \in DOMAIN b : "key" \in DOMAIN b[k]
IsEditor(e) ==
    /\ DOMAIN e = EditorParts /\ AreKeyed(e.blocks) /\ MarksOne(e.blocks, e.selected)
    /\ e.colour \in Colours /\ e.company \in Companies

IsRequest(r) ==
    /\ r.id \in ReportTemplates /\ IsPatch(r.patch)
    /\ r.kind = "delete" => r.id \notin Shipped
    /\ r.kind = "create" => "blocks" \in DOMAIN r.patch
    /\ r.kind # "create" /\ r.at \in {"read", "flushed"} => IsReport(r.base)
    /\ r.kind = "logo" /\ r.at = "committed" => IsReport(r.base)

(* A flush locks its row: nobody else's takes it away before the commit. *)
Locked ==
    /\ \A r, s \in eRequests : r.at = "flushed" /\ s.at = "flushed" /\ r.id = s.id => r = s
    /\ \A r \in eRequests : r.at = "flushed" /\ r.kind \notin {"create", "clone"} => r.id \in DOMAIN eRows

TablesTyped == AreReports(eRows) /\ AreReports(listed) /\ AreReports(cached) /\ Shipped \subseteq DOMAIN eRows
PageTyped ==
    /\ eAt.page \in {"list", "new", "edit"} /\ eAt.id \in ReportTemplates \cup {TemplateEditorPage!None}
    /\ eAt.page = "edit" => eAt.id \in ReportTemplates
TimersTyped ==
    /\ pending # << >> => eAt.page = "edit"
    /\ IsPatch(pending) /\ \A t \in leftover : t.id \in ReportTemplates /\ IsPatch(t.patch)
RequestsTyped == Locked /\ \A r \in eRequests : IsRequest(r)
EditorTyped == TablesTyped /\ PageTyped /\ TimersTyped /\ RequestsTyped /\ IsEditor(eEditor)

LEMMA EditorTypes == EditorInductive /\ EditorTyped => TemplateEditorPage!TypeOK
  BY DEF EditorInductive, Shapes, EditorTyped, TablesTyped, AreReports, PageTyped, TimersTyped,
         IsEditor, MarksOne, TemplateEditorPage!TypeOK, TemplateEditorPage!Unset, Brand

(* Lists. *)
LEMMA ListsAreLists ==
    ASSUME NEW S, NEW b \in Seq(S)
    PROVE  IsList(b) /\ DOMAIN b = 1 .. Len(b) /\ Len(b) \in Nat
  <1>1. Len(b) \in Nat /\ b \in [1 .. Len(b) -> S] /\ DOMAIN b = 1 .. Len(b)
    BY LenProperties
  <1>2. b \in [1 .. Len(b) -> {b[k] : k \in DOMAIN b}]
    BY <1>1
  <1> QED
    BY <1>1, <1>2, SeqDef DEF IsList

LEMMA AsLong ==
    ASSUME NEW b, IsList(b), NEW c, DOMAIN c = DOMAIN b, c = [k \in DOMAIN c |-> c[k]]
    PROVE  IsList(c)
  <1>1. Len(b) \in Nat /\ DOMAIN c = 1 .. Len(b)
    BY LenProperties DEF IsList
  <1> DEFINE all == {c[k] : k \in DOMAIN c}
  <1>2. c \in [1 .. Len(b) -> all]
    BY <1>1
  <1> HIDE DEF all
  <1>3. c \in Seq(all)
    BY <1>1, <1>2, SeqDef
  <1> QED
    BY <1>3 DEF IsList, all

LEMMA ShortLists ==
    /\ IsList(<< >>) /\ DOMAIN << >> = {}
    /\ \A x : IsList(<<x>>)
  <1>1. << >> \in Seq({})
    BY EmptySeq
  <1>2. ASSUME NEW x PROVE <<x>> \in Seq({x})
    OBVIOUS
  <1>3. \A x : IsList(<<x>>)
    BY <1>2, ListsAreLists
  <1>4. IsList(<< >>)
    BY <1>1, ListsAreLists
  <1>5. DOMAIN << >> = {}
    OBVIOUS
  <1> QED
    BY <1>3, <1>4, <1>5

LEMMA DefaultsAreTyped ==
    /\ TemplateEditorPage!DefaultColour \in Colours /\ TemplateEditorPage!NoText \in Companies
    /\ IsEditor(TemplateEditorPage!Blank)
    /\ \A name, blocks : IsList(blocks) => IsReport(TemplateEditorPage!Template(name, blocks))
  <1>1. TemplateEditorPage!DefaultColour \in Colours /\ TemplateEditorPage!NoText \in Companies
    BY PagesAssumption DEF TemplateEditorPage!DefaultColour
  <1>2. IsEditor(TemplateEditorPage!Blank)
    BY <1>1, ShortLists DEF TemplateEditorPage!Blank, IsEditor, EditorParts, AreKeyed, MarksOne
  <1>3. ASSUME NEW name, NEW blocks, IsList(blocks) PROVE IsReport(TemplateEditorPage!Template(name, blocks))
    BY <1>1, <1>3 DEF TemplateEditorPage!Template, IsReport, Layout, Brand, TemplateEditorPage!Brand
  <1> QED
    BY <1>1, <1>2, <1>3

LEMMA FilledIsAnEditor ==
    ASSUME NEW e, IsEditor(e), NEW row, IsReport(row), NEW id
    PROVE  IsEditor(TemplateEditorPage!Hydrated(e, id, row))
  <1> DEFINE b == [k \in DOMAIN row.blocks |->
                     [key |-> k, type |-> row.blocks[k].type, set |-> row.blocks[k].set]]
             h == TemplateEditorPage!Hydrated(e, id, row)
  <1>1. AreKeyed(b)
    BY AsLong DEF AreKeyed, IsReport
  <1>2. /\ DOMAIN h = EditorParts /\ h.blocks = b /\ h.selected = 0
        /\ h.colour = row.colour /\ h.company = row.company
    BY DEF TemplateEditorPage!Hydrated, IsEditor, EditorParts
  <1> HIDE DEF b, h
  <1>3. AreKeyed(h.blocks) /\ MarksOne(h.blocks, h.selected)
    BY <1>1, <1>2 DEF MarksOne
  <1> QED
    BY <1>2, <1>3 DEF IsEditor, IsReport, h

LEMMA MarkedIsAnEditor ==
    ASSUME NEW e, IsEditor(e), NEW v
    PROVE  /\ IsEditor([e EXCEPT !.dirty = v]) /\ IsEditor([e EXCEPT !.saving = v])
           /\ IsEditor([e EXCEPT !.logo = v]) /\ IsEditor([e EXCEPT !.name = v])
           /\ IsEditor([e EXCEPT !.selected = 0])
           /\ MarksOne(e.blocks, v) => IsEditor([e EXCEPT !.selected = v])
           /\ v \in Colours => IsEditor([e EXCEPT !.colour = v])
           /\ v \in Companies => IsEditor([e EXCEPT !.company = v])
  BY DEF IsEditor, EditorParts, MarksOne

(* Requests. *)
LEMMA IsRequestStill ==
    ASSUME NEW r, IsRequest(r), NEW s, Like(r, s)
    PROVE  IsRequest(s)
  BY DEF IsRequest, Like, Same

LEMMA RequestsFewer ==
    ASSUME RequestsTyped, UNCHANGED eRows, eRequests' \subseteq eRequests
    PROVE  RequestsTyped'
  BY DEF RequestsTyped, Locked

LEMMA RequestsSent ==
    ASSUME RequestsTyped, UNCHANGED eRows, NEW r, eRequests' = eRequests \cup {r}, r.at = "sent", IsRequest(r)
    PROVE  RequestsTyped'
  BY DEF RequestsTyped, Locked

LEMMA RequestsLeft ==
    ASSUME EditorInductive, RequestsTyped, UNCHANGED eRows, Leaves
    PROVE  RequestsTyped'
  <1> DEFINE Left(r) == [r EXCEPT !.mine = FALSE]
  <1>1. \A r \in eRequests : Like(r, Left(r))
    BY MovedOn DEF EditorInductive, Shapes, RequestFits
  <1>2. eRequests' = {Left(r) : r \in eRequests}
    BY DEF Leaves
  <1> HIDE DEF Left
  <1>3. \A s \in eRequests' : IsRequest(s)
    BY <1>1, <1>2, IsRequestStill DEF RequestsTyped
  <1>4. Locked'
    BY <1>1, <1>2 DEF RequestsTyped, Locked, Like, Same
  <1> QED
    BY <1>3, <1>4 DEF RequestsTyped

LEMMA RequestsMarked ==
    ASSUME RequestsTyped, UNCHANGED eRows, NEW r \in eRequests, NEW s, Like(r, s),
           eRequests' = (eRequests \ {r}) \cup {s}
    PROVE  RequestsTyped'
  <1>1. \A q \in eRequests' : IsRequest(q)
    BY IsRequestStill DEF RequestsTyped
  <1>2. Locked'
    BY DEF RequestsTyped, Locked, Like, Same
  <1> QED
    BY <1>1, <1>2 DEF RequestsTyped

LEMMA RequestsAnswered ==
    ASSUME EditorInductive, RequestsTyped, UNCHANGED eRows, NEW r \in eRequests, TemplateEditorPage!Answered(r)
    PROVE  RequestsTyped'
  <1>1. CASE eRequests' = eRequests \ {r}
    BY <1>1, RequestsFewer
  <1>2. CASE eRequests' = (eRequests \ {r}) \cup {[r EXCEPT !.answered = TRUE]}
    <2>1. Like(r, [r EXCEPT !.answered = TRUE])
      BY MovedOn DEF EditorInductive, Shapes, RequestFits
    <2> QED
      BY <1>2, <2>1, RequestsMarked
  <1> QED
    BY <1>1, <1>2 DEF TemplateEditorPage!Answered, TemplateEditorPage!Becomes

(* What the page does by itself. *)
LEMMA EditsTyped ==
    ASSUME EditorTyped, UNCHANGED <<eRows, listed, cached, leftover, eRequests>>,
           eAt'.page = eAt.page, eAt'.id = eAt.id, IsEditor(eEditor'), IsPatch(pending'),
           pending' # << >> => eAt.page = "edit"
    PROVE  EditorTyped'
  BY DEF EditorTyped, TablesTyped, PageTyped, TimersTyped, RequestsTyped, Locked

LEMMA LookingTyped ==
    ASSUME EditorInductive, EditorTyped,
           \/ TemplateEditorPage!FetchFails \/ TemplateEditorPage!FetchList
           \/ TemplateEditorPage!OpenDialog \/ TemplateEditorPage!CancelDialog
           \/ \E n \in Names : TemplateEditorPage!TypeNewName(n)
           \/ \E k \in DOMAIN eEditor.blocks : TemplateEditorPage!SelectBlock(k)
    PROVE  EditorTyped'
  <1>0. IsEditor(eEditor) /\ IsPatch(pending) /\ (pending # << >> => eAt.page = "edit")
    BY DEF EditorTyped, TimersTyped
  <1>1. CASE TemplateEditorPage!FetchFails
    <2>1. /\ eAt' = [eAt EXCEPT !.failed = TRUE]
          /\ UNCHANGED <<eRows, listed, cached, leftover, eRequests, eEditor, pending>>
      BY <1>1 DEF TemplateEditorPage!FetchFails
    <2>2. eAt'.page = eAt.page /\ eAt'.id = eAt.id
      BY <2>1 DEF EditorInductive, Shapes
    <2> QED
      BY <1>0, <2>1, <2>2, EditsTyped
  <1>2. CASE TemplateEditorPage!FetchList
    <2>1. UNCHANGED <<eRows, cached, eAt, leftover, eRequests, eEditor, pending>> /\ listed' = eRows
      BY <1>2 DEF TemplateEditorPage!FetchList
    <2> QED
      BY <2>1 DEF EditorTyped, TablesTyped, PageTyped, TimersTyped, RequestsTyped, Locked
  <1>3. CASE UNCHANGED <<eRows, listed, cached, eAt, leftover, eRequests, eEditor, pending>>
    BY <1>0, <1>3, EditsTyped
  <1>4. ASSUME NEW k \in DOMAIN eEditor.blocks, TemplateEditorPage!SelectBlock(k)
        PROVE  EditorTyped'
    <2>1. PICK v \in {0, eEditor.blocks[k].key} :
            /\ eEditor' = [eEditor EXCEPT !.selected = v]
            /\ UNCHANGED <<eRows, listed, cached, eAt, leftover, eRequests, pending>>
      BY <1>4 DEF TemplateEditorPage!SelectBlock
    <2>2. MarksOne(eEditor.blocks, v)
      BY DEF MarksOne
    <2>3. IsEditor(eEditor')
      BY <1>0, <2>1, <2>2, MarkedIsAnEditor
    <2> QED
      BY <1>0, <2>1, <2>3, EditsTyped
  <1> QED
    BY <1>1, <1>2, <1>3, <1>4 DEF TemplateEditorPage!OpenDialog, TemplateEditorPage!CancelDialog,
       TemplateEditorPage!TypeNewName, TemplateEditorPage!Dialog

(* The user types, or picks. *)
LEMMA ChoosingTyped ==
    ASSUME EditorTyped,
           \/ \E n \in Names : TemplateEditorPage!TypeName(n)
           \/ \E c \in Colours : TemplateEditorPage!PickColour(c)
           \/ \E c \in Companies : TemplateEditorPage!TypeCompany(c)
    PROVE  EditorTyped'
  <1>0. IsEditor(eEditor) /\ IsPatch(pending) /\ (pending # << >> => eAt.page = "edit")
    BY DEF EditorTyped, TimersTyped
  <1>1. ASSUME NEW f, NEW v, TemplateEditorPage!Choose(f, v), IsEditor(eEditor'), IsPatch(pending'),
               pending' = pending \/ eAt.page = "edit"
        PROVE  EditorTyped'
    BY <1>0, <1>1, EditsTyped DEF TemplateEditorPage!Choose
  <1>2. ASSUME NEW n \in Names, TemplateEditorPage!TypeName(n) PROVE EditorTyped'
    <2>1. /\ TemplateEditorPage!Choose("name", n) /\ UNCHANGED pending
          /\ eEditor' = [[eEditor EXCEPT !.name = n] EXCEPT !.dirty = TRUE]
      BY <1>2 DEF TemplateEditorPage!TypeName
    <2>2. IsEditor(eEditor')
      BY <1>0, <2>1, MarkedIsAnEditor
    <2> QED
      BY <1>0, <1>1, <2>1, <2>2
  <1>3. ASSUME NEW c \in Colours, TemplateEditorPage!PickColour(c) PROVE EditorTyped'
    <2>1. /\ TemplateEditorPage!Choose("colour", c) /\ eEditor' = [eEditor EXCEPT !.colour = c]
          /\ pending' = TemplateEditorPage!With(pending, "colour", c) /\ eAt.page = "edit"
      BY <1>3 DEF TemplateEditorPage!PickColour, TemplateEditorPage!Queued, TemplateEditorPage!BrandShown
    <2>2. IsEditor(eEditor')
      BY <1>0, <2>1, MarkedIsAnEditor
    <2>3. IsPatch(pending')
      BY <1>0, <2>1 DEF IsPatch, TemplateEditorPage!With
    <2> QED
      BY <1>1, <2>1, <2>2, <2>3
  <1>4. ASSUME NEW c \in Companies, TemplateEditorPage!TypeCompany(c) PROVE EditorTyped'
    <2>1. /\ TemplateEditorPage!Choose("company", c) /\ eEditor' = [eEditor EXCEPT !.company = c]
          /\ pending' = TemplateEditorPage!With(pending, "company", c) /\ eAt.page = "edit"
      BY <1>4 DEF TemplateEditorPage!TypeCompany, TemplateEditorPage!Queued, TemplateEditorPage!BrandShown
    <2>2. IsEditor(eEditor')
      BY <1>0, <2>1, MarkedIsAnEditor
    <2>3. IsPatch(pending')
      BY <1>0, <2>1 DEF IsPatch, TemplateEditorPage!With
    <2> QED
      BY <1>1, <2>1, <2>2, <2>3
  <1> QED
    BY <1>2, <1>3, <1>4

LEMMA BlocksTyped ==
    ASSUME EditorTyped, NEW blocks, NEW mark, TemplateEditorPage!SetBlocks(blocks, mark),
           AreKeyed(blocks), MarksOne(blocks, mark)
    PROVE  EditorTyped'
  <1>0. IsEditor(eEditor) /\ IsPatch(pending) /\ (pending # << >> => eAt.page = "edit")
    BY DEF EditorTyped, TimersTyped
  <1>1. /\ eEditor' = [eEditor EXCEPT !.blocks = blocks, !.dirty = TRUE, !.selected = mark]
        /\ UNCHANGED <<eRows, listed, cached, eAt, leftover, eRequests, pending>>
    BY DEF TemplateEditorPage!SetBlocks, TemplateEditorPage!Choose
  <1>2. IsEditor(eEditor')
    BY <1>0, <1>1 DEF IsEditor, EditorParts
  <1> QED
    BY <1>0, <1>1, <1>2, EditsTyped

LEMMA BlockSteps ==
    ASSUME EditorTyped,
           \/ \E t \in Types : TemplateEditorPage!AddBlock(t)
           \/ \E k \in DOMAIN eEditor.blocks :
                 \/ TemplateEditorPage!RemoveBlock(k) \/ TemplateEditorPage!UpdateBlock(k)
                 \/ \E l \in DOMAIN eEditor.blocks : TemplateEditorPage!Drag(k, l)
    PROVE  EditorTyped'
  <1> DEFINE b == eEditor.blocks
             S == {b[k] : k \in DOMAIN b}
             mark == eEditor.selected
  <1>1. b \in Seq(S) /\ \A k \in DOMAIN b : "key" \in DOMAIN b[k]
    BY DEF EditorTyped, IsEditor, AreKeyed, IsList
  <1>2. DOMAIN b = 1 .. Len(b) /\ Len(b) \in Nat /\ MarksOne(b, mark)
    BY <1>1, ListsAreLists DEF EditorTyped, IsEditor
  <1>3. ASSUME NEW t \in Types, TemplateEditorPage!AddBlock(t) PROVE EditorTyped'
    <2> DEFINE new == [key |-> TemplateEditorPage!NewId, type |-> t, set |-> FALSE]
               c == Append(b, new)
    <2>1. TemplateEditorPage!SetBlocks(c, TemplateEditorPage!NewId)
      BY <1>3 DEF TemplateEditorPage!AddBlock
    <2>2. new.key = TemplateEditorPage!NewId /\ "key" \in DOMAIN new
      OBVIOUS
    <2> HIDE DEF b, S, new
    <2>3. c \in Seq(S \cup {new}) /\ Len(c) = Len(b) + 1
          /\ \A k \in 1 .. Len(b) + 1 : c[k] = IF k <= Len(b) THEN b[k] ELSE new
      BY <1>1, <1>2
    <2> HIDE DEF c
    <2>4. IsList(c) /\ DOMAIN c = 1 .. Len(b) + 1
      BY <2>3, ListsAreLists
    <2>5. ASSUME NEW k \in DOMAIN c PROVE "key" \in DOMAIN c[k]
      <3>1. k <= Len(b) => k \in DOMAIN b
        BY <1>2, <2>4
      <3> QED
        BY <1>1, <2>2, <2>3, <2>4, <3>1
    <2>6. c[Len(b) + 1] = new /\ Len(b) + 1 \in DOMAIN c
      BY <1>2, <2>3, <2>4
    <2> QED
      BY <2>1, <2>2, <2>4, <2>5, <2>6, BlocksTyped DEF AreKeyed, MarksOne
  <1>4. ASSUME NEW k \in DOMAIN b, TemplateEditorPage!RemoveBlock(k) PROVE EditorTyped'
    <2> DEFINE c == TaskTemplatesPage!RemoveAt(b, k)
               m == IF mark = b[k].key THEN 0 ELSE mark
    <2>1. TemplateEditorPage!SetBlocks(c, m)
      BY <1>4 DEF TemplateEditorPage!RemoveBlock, TemplateEditorPage!SettingsShown,
                  TemplateEditorPage!RemoveAt, TaskTemplatesPage!RemoveAt
    <2> HIDE DEF b, S
    <2>2. /\ c \in Seq(S) /\ Len(c) = Len(b) - 1
          /\ \A i \in 1 .. Len(b) - 1 : c[i] = IF i < k THEN b[i] ELSE b[i + 1]
      BY <1>1, <1>2, RemovedIsGone
    <2> HIDE DEF c
    <2>3. IsList(c) /\ DOMAIN c = 1 .. Len(b) - 1
      BY <2>2, ListsAreLists
    <2>4. ASSUME NEW i \in DOMAIN c PROVE "key" \in DOMAIN c[i]
      <3>1. i \in DOMAIN b /\ i + 1 \in DOMAIN b
        BY <1>2, <2>3
      <3> QED
        BY <1>1, <2>2, <2>3, <3>1
    <2>5. ASSUME NEW j \in DOMAIN b, j # k PROVE \E i \in DOMAIN c : c[i] = b[j]
      <3>1. CASE j < k
        <4>1. j \in 1 .. Len(b) - 1
          BY <1>2, <3>1
        <4> QED
          BY <2>2, <2>3, <3>1, <4>1
      <3>2. CASE k < j
        <4>1. j - 1 \in 1 .. Len(b) - 1 /\ ~(j - 1 < k) /\ (j - 1) + 1 = j
          BY <1>2, <3>2
        <4> QED
          BY <2>2, <2>3, <4>1
      <3> QED
        BY <1>2, <2>5, <3>1, <3>2
    <2>6. MarksOne(c, m)
      <3>1. CASE m = 0
        BY <3>1 DEF MarksOne
      <3>2. CASE m # 0
        <4>1. PICK j \in DOMAIN b : b[j].key = mark /\ j # k /\ m = mark
          BY <1>2, <3>2 DEF MarksOne
        <4>2. PICK i \in DOMAIN c : c[i] = b[j]
          BY <2>5, <4>1
        <4> QED
          BY <4>1, <4>2 DEF MarksOne
      <3> QED
        BY <3>1, <3>2
    <2> QED
      BY <2>1, <2>3, <2>4, <2>6, BlocksTyped DEF AreKeyed
  <1>5. ASSUME NEW k \in DOMAIN b, TemplateEditorPage!UpdateBlock(k) PROVE EditorTyped'
    <2> DEFINE c == [b EXCEPT ![k].set = ~@]
    <2>1. TemplateEditorPage!SetBlocks(c, mark)
      BY <1>5 DEF TemplateEditorPage!UpdateBlock
    <2> HIDE DEF b
    <2>2. /\ DOMAIN c = DOMAIN b /\ c = [i \in DOMAIN c |-> c[i]]
          /\ \A i \in DOMAIN b : "key" \in DOMAIN c[i] /\ c[i].key = b[i].key
      BY <1>1
    <2>3. IsList(b)
      BY <1>1, ListsAreLists
    <2> HIDE DEF c
    <2>4. IsList(c)
      BY <2>2, <2>3, AsLong
    <2>5. MarksOne(c, mark)
      BY <1>2, <2>2 DEF MarksOne
    <2> QED
      BY <2>1, <2>2, <2>4, <2>5, BlocksTyped DEF AreKeyed
  <1>6. ASSUME NEW k \in DOMAIN b, NEW l \in DOMAIN b, TemplateEditorPage!Drag(k, l) PROVE EditorTyped'
    <2> DEFINE c == ArrayMove(b, k, l)
    <2>1. TemplateEditorPage!SetBlocks(c, mark)
      BY <1>6 DEF TemplateEditorPage!Drag, TemplateEditorPage!RemoveAt, TemplateEditorPage!InsertAt,
             ArrayMove, TaskTemplatesPage!ArrayMove, TaskTemplatesPage!RemoveAt, TaskTemplatesPage!InsertAt
    <2> HIDE DEF b, S
    <2>2. /\ c \in Seq(S) /\ Len(c) = Len(b)
          /\ \A i \in 1 .. Len(b) : \E j \in 1 .. Len(b) : c[i] = b[j]
          /\ \A j \in 1 .. Len(b) : \E i \in 1 .. Len(b) : c[i] = b[j]
      <3>1. b \in Seq(S) /\ k \in 1 .. Len(b) /\ l \in 1 .. Len(b)
        BY <1>1, <1>2
      <3> QED
        BY <3>1, MovedIsThere, Zenon
    <2> HIDE DEF c
    <2>3. IsList(c) /\ DOMAIN c = DOMAIN b
      BY <1>2, <2>2, ListsAreLists
    <2>4. AreKeyed(c)
      BY <1>1, <1>2, <2>2, <2>3 DEF AreKeyed
    <2>5. MarksOne(c, mark)
      <3>1. CASE mark = 0
        BY <3>1 DEF MarksOne
      <3>2. CASE mark # 0
        <4>1. PICK j \in DOMAIN b : b[j].key = mark
          BY <1>2, <3>2 DEF MarksOne
        <4>2. PICK i \in DOMAIN c : c[i] = b[j]
          BY <1>2, <2>2, <2>3, <4>1
        <4> QED
          BY <4>1, <4>2 DEF MarksOne
      <3> QED
        BY <3>1, <3>2
    <2> QED
      BY <2>1, <2>4, <2>5, BlocksTyped
  <1> QED
    BY <1>3, <1>4, <1>5, <1>6

(* From page to page, and what arrives. *)
LEMMA EnterTyped ==
    ASSUME EditorTyped, NEW id \in ReportTemplates, NEW was, IsEditor(was), TemplateEditorPage!Enter(id, was)
    PROVE  IsEditor(eEditor') /\ PageTyped' /\ eAt'.page = "edit"
  <1> DEFINE e == IF eAt.page = "list" THEN TemplateEditorPage!Blank ELSE was
  <1>1. IsEditor(e)
    BY DefaultsAreTyped
  <1>2. /\ eAt' = [page |-> "edit", id |-> id, failed |-> FALSE]
        /\ eEditor' = IF id \in DOMAIN cached THEN TemplateEditorPage!Hydrated(e, id, cached[id])
                      ELSE [e EXCEPT !.selected = 0]
    BY DEF TemplateEditorPage!Enter
  <1> HIDE DEF e
  <1>3. id \in DOMAIN cached => IsReport(cached[id])
    BY DEF EditorTyped, TablesTyped, AreReports
  <1>4. IsEditor(eEditor')
    BY <1>1, <1>2, <1>3, FilledIsAnEditor, MarkedIsAnEditor
  <1> QED
    BY <1>2, <1>4 DEF PageTyped

LEMMA LeavingTyped ==
    ASSUME EditorInductive, EditorTyped,
           \/ TemplateEditorPage!New \/ TemplateEditorPage!Back
           \/ \E id \in ReportTemplates : TemplateEditorPage!Edit(id)
    PROVE  EditorTyped'
  <1>0. IsPatch(<< >>)
    BY ShortLists DEF IsPatch
  <1>1. ASSUME Leaves, UNCHANGED <<eRows, listed, cached>>, IsEditor(eEditor'), PageTyped', TimersTyped'
        PROVE  EditorTyped'
    BY <1>1, RequestsLeft DEF EditorTyped, TablesTyped
  <1>2. CASE TemplateEditorPage!New
    <2>1. /\ Leaves /\ UNCHANGED <<eRows, listed, cached, pending, leftover>> /\ eAt.page = "list"
          /\ eEditor' = TemplateEditorPage!Blank /\ eAt' = [TemplateEditorPage!ListPage EXCEPT !.page = "new"]
      BY <1>2 DEF TemplateEditorPage!New, TemplateEditorPage!OnList, Leaves
    <2>2. eAt'.page = "new" /\ eAt'.id = TemplateEditorPage!None
      BY <2>1 DEF TemplateEditorPage!ListPage
    <2>3. PageTyped' /\ TimersTyped'
      BY <2>1, <2>2 DEF EditorTyped, TimersTyped, PageTyped
    <2> QED
      BY <1>1, <2>1, <2>3, DefaultsAreTyped
  <1>3. CASE TemplateEditorPage!Back
    <2>1. /\ Leaves /\ UNCHANGED <<eRows, listed, cached>> /\ pending' = << >>
          /\ eEditor' = TemplateEditorPage!Blank /\ eAt' = TemplateEditorPage!ListPage
          /\ leftover' = leftover \cup (IF pending = << >> THEN {} ELSE {[id |-> eAt.id, patch |-> pending]})
      BY <1>3 DEF TemplateEditorPage!Back, TemplateEditorPage!Unset, Leaves
    <2>2. PageTyped'
      BY <2>1 DEF TemplateEditorPage!ListPage, PageTyped
    <2>3. ASSUME NEW t \in leftover' PROVE t.id \in ReportTemplates /\ IsPatch(t.patch)
      <3>1. CASE t \in leftover
        BY <3>1 DEF EditorTyped, TimersTyped
      <3>2. CASE pending # << >> /\ t = [id |-> eAt.id, patch |-> pending]
        BY <3>2 DEF EditorTyped, TimersTyped, PageTyped
      <3> QED
        BY <2>1, <3>1, <3>2
    <2>4. TimersTyped'
      BY <1>0, <2>1, <2>3 DEF TimersTyped
    <2> QED
      BY <1>1, <2>1, <2>2, <2>4, DefaultsAreTyped
  <1>4. ASSUME NEW id \in ReportTemplates, TemplateEditorPage!Edit(id) PROVE EditorTyped'
    <2>1. /\ Leaves /\ UNCHANGED <<eRows, listed, cached, pending, leftover>>
          /\ TemplateEditorPage!Enter(id, TemplateEditorPage!Blank)
      BY <1>4 DEF TemplateEditorPage!Edit, Leaves
    <2>2. IsEditor(eEditor') /\ PageTyped' /\ eAt'.page = "edit"
      BY <2>1, EnterTyped, DefaultsAreTyped
    <2>3. TimersTyped'
      BY <2>1, <2>2 DEF EditorTyped, TimersTyped
    <2> QED
      BY <1>1, <2>1, <2>2, <2>3
  <1> QED
    BY <1>2, <1>3, <1>4

LEMMA ReceiveTyped ==
    ASSUME EditorInductive, EditorTyped, NEW id \in ReportTemplates, NEW row, IsReport(row), NEW uploaded,
           TemplateEditorPage!Receive(id, row, uploaded), UNCHANGED <<eRows, listed, pending, leftover>>,
           RequestsTyped'
    PROVE  EditorTyped'
  <1> DEFINE e == IF uploaded THEN [eEditor EXCEPT !.logo = TRUE] ELSE eEditor
  <1>1. IsEditor(e)
    BY MarkedIsAnEditor DEF EditorTyped
  <1>2. /\ cached' = TemplateEditorPage!With(cached, id, row)
        /\ eEditor' = TemplateEditorPage!Hydrated(e, id, row) \/ eEditor' = e
        /\ eAt' = [eAt EXCEPT !.failed = FALSE] \/ eAt' = eAt
    BY DEF TemplateEditorPage!Receive
  <1> HIDE DEF e
  <1>3. IsEditor(eEditor')
    BY <1>1, <1>2, FilledIsAnEditor
  <1>4. eAt'.page = eAt.page /\ eAt'.id = eAt.id
    BY <1>2 DEF EditorInductive, Shapes
  <1>5. AreReports(cached')
    BY <1>2 DEF EditorTyped, TablesTyped, AreReports, TemplateEditorPage!With
  <1> QED
    BY <1>3, <1>4, <1>5 DEF EditorTyped, TablesTyped, PageTyped, TimersTyped

LEMMA FetchTyped ==
    ASSUME EditorInductive, EditorTyped, TemplateEditorPage!Fetch
    PROVE  EditorTyped'
  <1>1. /\ eAt.id \in DOMAIN eRows /\ TemplateEditorPage!Receive(eAt.id, eRows[eAt.id], FALSE)
        /\ UNCHANGED <<eRows, listed, pending, leftover, eRequests>>
    BY DEF TemplateEditorPage!Fetch
  <1>2. eAt.id \in ReportTemplates /\ IsReport(eRows[eAt.id])
    BY <1>1 DEF EditorTyped, TablesTyped, AreReports
  <1>3. RequestsTyped'
    BY <1>1, RequestsFewer DEF EditorTyped
  <1> QED
    BY <1>1, <1>2, <1>3, ReceiveTyped

(* What the page sends. *)
LEMMA SentTyped ==
    ASSUME EditorTyped, NEW r, eRequests' = eRequests \cup {r}, r.at = "sent", IsRequest(r),
           UNCHANGED <<eRows, listed, cached, eAt>>, IsEditor(eEditor'), TimersTyped'
    PROVE  EditorTyped'
  BY RequestsSent DEF EditorTyped, TablesTyped, PageTyped

LEMMA FromTheListTyped ==
    ASSUME EditorTyped, NEW id \in ReportTemplates,
           \/ TemplateEditorPage!ToggleHide(id) \/ TemplateEditorPage!ToggleAi(id)
           \/ TemplateEditorPage!Delete(id) \/ TemplateEditorPage!CreateAndEdit(id)
           \/ \E copy \in ReportTemplates : TemplateEditorPage!Clone(id, copy)
           \/ TemplateEditorPage!UploadLogo
    PROVE  EditorTyped'
  <1>1. ASSUME NEW kind, NEW i \in ReportTemplates, NEW patch, IsPatch(patch),
               eRequests' = eRequests \cup {TemplateEditorPage!Requested(kind, i, patch)},
               UNCHANGED <<eRows, listed, cached, eAt, eEditor, pending, leftover>>,
               kind = "delete" => i \notin Shipped, kind = "create" => "blocks" \in DOMAIN patch
        PROVE  EditorTyped'
    <2> DEFINE r == TemplateEditorPage!Requested(kind, i, patch)
    <2>1. r.kind = kind /\ r.id = i /\ r.patch = patch /\ r.at = "sent"
      BY SentAsAsked
    <2>2. eRequests' = eRequests \cup {r}
      BY <1>1
    <2> HIDE DEF r
    <2>3. IsRequest(r)
      BY <1>1, <2>1 DEF IsRequest
    <2>4. IsEditor(eEditor') /\ TimersTyped'
      BY <1>1 DEF EditorTyped, TimersTyped
    <2> QED
      BY <1>1, <2>1, <2>2, <2>3, <2>4, SentTyped
  <1>2. /\ \A v : IsPatch([hidden |-> v]) /\ IsPatch([ai |-> v]) /\ IsPatch([logo |-> v])
        /\ \A v : IsPatch([source |-> v]) /\ IsPatch([name |-> v, blocks |-> << >>])
        /\ IsPatch(<< >>)
    BY ShortLists DEF IsPatch
  <1> DEFINE OnlySends(r) == eRequests' = eRequests \cup {r}
                             /\ UNCHANGED <<eRows, listed, cached, eAt, eEditor, pending, leftover>>
  <1>3. CASE TemplateEditorPage!ToggleHide(id) \/ TemplateEditorPage!ToggleAi(id)
    <2>1. PICK v : \/ OnlySends(TemplateEditorPage!Requested("hide", id, [hidden |-> v]))
                   \/ OnlySends(TemplateEditorPage!Requested("ai", id, [ai |-> v]))
      BY <1>3 DEF TemplateEditorPage!ToggleHide, TemplateEditorPage!ToggleAi,
         TemplateEditorPage!FromList, TemplateEditorPage!Send
    <2>2. IsPatch([hidden |-> v]) /\ IsPatch([ai |-> v])
      BY <1>2
    <2>3. CASE OnlySends(TemplateEditorPage!Requested("hide", id, [hidden |-> v]))
      BY <1>1, <2>2, <2>3
    <2>4. CASE OnlySends(TemplateEditorPage!Requested("ai", id, [ai |-> v]))
      BY <1>1, <2>2, <2>4
    <2> QED
      BY <2>1, <2>3, <2>4
  <1>4. CASE TemplateEditorPage!Delete(id)
    <2>1. id \notin Shipped
      BY <1>4 DEF TemplateEditorPage!Delete, TemplateEditorPage!Offers, TemplateEditorPage!Own
    <2> QED
      BY <1>1, <1>2, <1>4, <2>1 DEF TemplateEditorPage!Delete, TemplateEditorPage!FromList,
         TemplateEditorPage!Send, TemplateEditorPage!Unset
  <1>5. CASE \E copy \in ReportTemplates : TemplateEditorPage!Clone(id, copy)
    <2>1. PICK copy \in ReportTemplates :
            OnlySends(TemplateEditorPage!Requested("clone", copy, [source |-> id]))
      BY <1>5 DEF TemplateEditorPage!Clone, TemplateEditorPage!FromList, TemplateEditorPage!Send
    <2>2. IsPatch([source |-> id])
      BY <1>2
    <2> QED
      BY <1>1, <2>1, <2>2
  <1>6. CASE TemplateEditorPage!CreateAndEdit(id)
    <2> DEFINE patch == [name |-> dialog.name, blocks |-> << >>]
    <2>1. OnlySends(TemplateEditorPage!Requested("create", id, patch))
      BY <1>6 DEF TemplateEditorPage!CreateAndEdit, TemplateEditorPage!Send
    <2>2. IsPatch(patch) /\ "blocks" \in DOMAIN patch
      BY <1>2
    <2> HIDE DEF patch
    <2> QED
      BY <1>1, <2>1, <2>2
  <1>7. CASE TemplateEditorPage!UploadLogo
    <2>1. eAt.id \in ReportTemplates
      BY <1>7 DEF TemplateEditorPage!UploadLogo, TemplateEditorPage!BrandShown, EditorTyped, PageTyped
    <2>2. OnlySends(TemplateEditorPage!Requested("logo", eAt.id, [logo |-> TRUE]))
      BY <1>7 DEF TemplateEditorPage!UploadLogo, TemplateEditorPage!Send
    <2>3. IsPatch([logo |-> TRUE])
      BY <1>2
    <2> QED
      BY <1>1, <2>1, <2>2, <2>3
  <1> QED
    BY <1>3, <1>4, <1>5, <1>6, <1>7

LEMMA SavesTyped ==
    ASSUME EditorTyped,
           \/ TemplateEditorPage!BrandTimer \/ \E t \in leftover : TemplateEditorPage!LeftoverTimer(t)
           \/ \E id \in ReportTemplates : TemplateEditorPage!HandleSave(id)
    PROVE  EditorTyped'
  <1>1. ASSUME NEW kind \in {"put", "create"}, NEW id \in ReportTemplates, NEW patch, IsPatch(patch),
               NEW r, Like(TemplateEditorPage!Requested(kind, id, patch), r),
               kind = "create" => "blocks" \in DOMAIN patch
        PROVE  IsRequest(r) /\ r.at = "sent"
    <2> DEFINE q == TemplateEditorPage!Requested(kind, id, patch)
    <2>1. q.kind = kind /\ q.id = id /\ q.patch = patch /\ q.at = "sent"
      BY SentAsAsked
    <2> HIDE DEF q
    <2>2. Like(q, r)
      BY <1>1 DEF q
    <2> QED
      BY <1>1, <2>1, <2>2 DEF IsRequest, Like, Same
  <1>2. CASE TemplateEditorPage!BrandTimer
    <2> DEFINE r == TemplateEditorPage!Requested("put", eAt.id, pending)
    <2>1. /\ eRequests' = eRequests \cup {r} /\ pending # << >> /\ pending' = << >>
          /\ UNCHANGED <<eRows, listed, cached, eAt, eEditor, leftover>>
      BY <1>2 DEF TemplateEditorPage!BrandTimer, TemplateEditorPage!Send, TemplateEditorPage!Unset
    <2>2. eAt.id \in ReportTemplates /\ IsPatch(pending)
      BY <2>1 DEF EditorTyped, TimersTyped, PageTyped
    <2>3. r.kind = "put" /\ r.id = eAt.id /\ r.patch = pending /\ r.at = "sent" /\ DOMAIN r = RequestParts
      BY SentAsAsked
    <2> HIDE DEF r
    <2>4. IsRequest(r)
      BY <2>2, <2>3 DEF IsRequest
    <2>5. TimersTyped'
      BY <2>1, ShortLists DEF EditorTyped, TimersTyped, IsPatch
    <2>6. IsEditor(eEditor')
      BY <2>1 DEF EditorTyped
    <2> QED
      BY <2>1, <2>3, <2>4, <2>5, <2>6, SentTyped
  <1>3. ASSUME NEW t \in leftover, TemplateEditorPage!LeftoverTimer(t) PROVE EditorTyped'
    <2> DEFINE q == TemplateEditorPage!Requested("put", t.id, t.patch)
               r == [q EXCEPT !.mine = FALSE]
    <2>1. /\ eRequests' = eRequests \cup {r} /\ leftover' \subseteq leftover
          /\ UNCHANGED <<eRows, listed, cached, eAt, eEditor, pending>>
      BY <1>3 DEF TemplateEditorPage!LeftoverTimer, TemplateEditorPage!Send
    <2>2. t.id \in ReportTemplates /\ IsPatch(t.patch)
      BY DEF EditorTyped, TimersTyped
    <2>3. DOMAIN q = RequestParts
      BY SentAsAsked
    <2>4. Like(q, r)
      BY <2>3, MovedOn
    <2>5. IsRequest(r) /\ r.at = "sent"
      BY <1>1, <2>2, <2>4
    <2> HIDE DEF r
    <2>6. TimersTyped' /\ IsEditor(eEditor')
      BY <2>1 DEF EditorTyped, TimersTyped
    <2> QED
      BY <2>1, <2>5, <2>6, SentTyped
  <1>4. ASSUME NEW id \in ReportTemplates, TemplateEditorPage!HandleSave(id) PROVE EditorTyped'
    <2> DEFINE stripped == TemplateEditorPage!Stripped(eEditor.blocks)
               layout == [name |-> eEditor.name, blocks |-> stripped]
               whole == [name |-> layout.name, blocks |-> layout.blocks,
                         colour |-> eEditor.colour, company |-> eEditor.company]
               made == TemplateEditorPage!Requested("create", id, layout)
               saved == TemplateEditorPage!Requested("put", id, whole)
    <2>1. /\ eEditor' = [eEditor EXCEPT !.saving = TRUE]
          /\ UNCHANGED <<eRows, listed, cached, eAt, pending, leftover>>
          /\ \E r \in {[made EXCEPT !.save = TRUE], [saved EXCEPT !.save = TRUE]} :
                eRequests' = eRequests \cup {r}
      BY <1>4 DEF TemplateEditorPage!HandleSave, TemplateEditorPage!Send
    <2>2. IsList(stripped)
      BY AsLong DEF TemplateEditorPage!Stripped, EditorTyped, IsEditor, AreKeyed
    <2> HIDE DEF stripped
    <2>3. IsPatch(layout) /\ "blocks" \in DOMAIN layout
      BY <2>2 DEF IsPatch
    <2>4. IsPatch(whole)
      BY <2>2 DEF IsPatch, EditorTyped, IsEditor
    <2> HIDE DEF layout, whole
    <2>5. DOMAIN made = RequestParts /\ DOMAIN saved = RequestParts
      BY SentAsAsked
    <2>6. Like(made, [made EXCEPT !.save = TRUE]) /\ Like(saved, [saved EXCEPT !.save = TRUE])
      BY <2>5, MovedOn
    <2>7. \A r \in {[made EXCEPT !.save = TRUE], [saved EXCEPT !.save = TRUE]} : IsRequest(r) /\ r.at = "sent"
      <3>1. IsRequest([made EXCEPT !.save = TRUE]) /\ [made EXCEPT !.save = TRUE].at = "sent"
        BY <1>1, <2>3, <2>6
      <3>2. IsRequest([saved EXCEPT !.save = TRUE]) /\ [saved EXCEPT !.save = TRUE].at = "sent"
        BY <1>1, <2>4, <2>6
      <3> QED
        BY <3>1, <3>2
    <2> HIDE DEF made, saved
    <2>8. TimersTyped' /\ IsEditor(eEditor')
      BY <2>1, MarkedIsAnEditor DEF EditorTyped, TimersTyped
    <2> QED
      BY <2>1, <2>7, <2>8, SentTyped
  <1> QED
    BY <1>2, <1>3, <1>4

(* The server. *)
LEMMA ServedTyped ==
    ASSUME EditorTyped, TemplateEditorPage!Server, AreReports(eRows'), Shipped \subseteq DOMAIN eRows', RequestsTyped'
    PROVE  EditorTyped'
  BY DEF EditorTyped, TablesTyped, PageTyped, TimersTyped, TemplateEditorPage!Server

LEMMA RequestMoves ==
    ASSUME RequestsTyped, UNCHANGED eRows, NEW r \in eRequests, NEW s, Same(r, s), IsRequest(s),
           eRequests' = (eRequests \ {r}) \cup {s},
           s.at = "flushed" => /\ \A q \in eRequests : q.id = r.id => q.at # "flushed"
                               /\ r.kind \notin {"create", "clone"} => r.id \in DOMAIN eRows
    PROVE  RequestsTyped'
  <1>1. \A q \in eRequests' : IsRequest(q)
    BY DEF RequestsTyped
  <1>2. Locked'
    BY DEF RequestsTyped, Locked, Same
  <1> QED
    BY <1>1, <1>2 DEF RequestsTyped

LEMMA ReadsTyped ==
    ASSUME EditorInductive, EditorTyped, NEW r \in eRequests,
           TemplateEditorPage!Read(r) \/ TemplateEditorPage!Flush(r)
    PROVE  EditorTyped'
  <1>0. /\ DOMAIN r = RequestParts /\ IsRequest(r) /\ RequestsTyped
        /\ AreReports(eRows) /\ Shipped \subseteq DOMAIN eRows
    BY DEF EditorInductive, Shapes, RequestFits, EditorTyped, RequestsTyped, TablesTyped
  <1>1. CASE TemplateEditorPage!Read(r)
    <2> DEFINE s == [r EXCEPT !.at = "read", !.base = eRows[TemplateEditorPage!Source(r)]]
    <2>1. /\ TemplateEditorPage!Source(r) \in DOMAIN eRows /\ UNCHANGED eRows /\ TemplateEditorPage!Server
          /\ eRequests' = (eRequests \ {r}) \cup {s}
      BY <1>1 DEF TemplateEditorPage!Read, TemplateEditorPage!Becomes
    <2>2. Same(r, s) /\ s.at = "read" /\ s.base = eRows[TemplateEditorPage!Source(r)]
      BY <1>0 DEF RequestParts, Same
    <2> HIDE DEF s
    <2>3. IsReport(s.base)
      BY <1>0, <2>1, <2>2 DEF AreReports
    <2>4. IsRequest(s)
      BY <1>0, <2>2, <2>3 DEF IsRequest, Same
    <2>5. RequestsTyped'
      BY <1>0, <2>1, <2>2, <2>4, RequestMoves
    <2> QED
      BY <1>0, <2>1, <2>5, ServedTyped
  <1>2. CASE TemplateEditorPage!Flush(r)
    <2> DEFINE s == [r EXCEPT !.at = "flushed"]
    <2>1. /\ IF r.kind = "create" THEN r.at = "sent"
             ELSE r.at = "read" /\ (r.kind = "clone" \/ r.id \in DOMAIN eRows)
          /\ \A q \in eRequests : q.id = r.id => q.at # "flushed"
          /\ UNCHANGED eRows /\ TemplateEditorPage!Server /\ eRequests' = (eRequests \ {r}) \cup {s}
      BY <1>2 DEF TemplateEditorPage!Flush, TemplateEditorPage!Becomes
    <2>2. Same(r, s) /\ s.at = "flushed" /\ s.base = r.base
      BY <1>0, MovedOn
    <2> HIDE DEF s
    <2>3. IsRequest(s)
      BY <1>0, <2>1, <2>2 DEF IsRequest, Same
    <2>4. RequestsTyped'
      BY <1>0, <2>1, <2>2, <2>3, RequestMoves
    <2> QED
      BY <1>0, <2>1, <2>4, ServedTyped
  <1> QED
    BY <1>1, <1>2

LEMMA WrittenTyped ==
    ASSUME EditorInductive, EditorTyped, NEW r \in eRequests, r.at = "flushed",
           eRows' = TemplateEditorPage!Written(r)
    PROVE  /\ AreReports(eRows') /\ Shipped \subseteq DOMAIN eRows'
           /\ DOMAIN eRows \ (IF r.kind = "delete" THEN {r.id} ELSE {}) \subseteq DOMAIN eRows'
  <1>0. /\ IsRequest(r) /\ AreReports(eRows) /\ Shipped \subseteq DOMAIN eRows
        /\ r.id \in ReportTemplates
    BY DEF EditorTyped, RequestsTyped, TablesTyped, IsRequest
  <1>1. CASE r.kind \in {"create", "clone"}
    <2>1. PICK row : eRows' = TemplateEditorPage!With(eRows, r.id, row) /\ IsReport(row)
      <3>1. CASE r.kind = "create"
        <4>1. IsList(r.patch.blocks)
          BY <1>0, <3>1 DEF IsRequest, IsPatch
        <4> QED
          BY <3>1, <4>1, DefaultsAreTyped DEF TemplateEditorPage!Written
      <3>2. CASE r.kind = "clone"
        <4>1. IsList(r.base.blocks)
          BY <1>0, <3>2 DEF IsRequest, IsReport
        <4> QED
          BY <3>2, <4>1, DefaultsAreTyped DEF TemplateEditorPage!Written
      <3> QED
        BY <1>1, <3>1, <3>2
    <2>2. /\ DOMAIN eRows' = DOMAIN eRows \cup {r.id} /\ eRows'[r.id] = row
          /\ \A i \in DOMAIN eRows \ {r.id} : eRows'[i] = eRows[i]
      BY <2>1 DEF TemplateEditorPage!With
    <2> QED
      BY <1>0, <2>1, <2>2 DEF AreReports
  <1>2. CASE r.kind = "delete"
    <2>1. eRows' = [i \in DOMAIN eRows \ {r.id} |-> eRows[i]]
      BY <1>2 DEF TemplateEditorPage!Written
    <2> QED
      BY <1>0, <1>2, <2>1 DEF AreReports, IsRequest
  <1>3. CASE r.kind \notin {"create", "clone", "delete"}
    <2> DEFINE was == eRows[r.id]
               new == [f \in DOMAIN was |-> IF f \in DOMAIN r.patch /\ r.patch[f] # r.base[f]
                                            THEN r.patch[f] ELSE was[f]]
    <2>1. eRows' = [eRows EXCEPT ![r.id] = new]
      BY <1>3 DEF TemplateEditorPage!Written
    <2>2. r.id \in DOMAIN eRows => IsReport(was)
      BY <1>0 DEF AreReports
    <2>3. r.id \in DOMAIN eRows => IsReport(new)
      <3> SUFFICES ASSUME r.id \in DOMAIN eRows PROVE IsReport(new)
        OBVIOUS
      <3>1. DOMAIN new = DOMAIN was /\ Layout \cup Brand \subseteq DOMAIN was
        BY <2>2 DEF IsReport
      <3>2. /\ "blocks" \in DOMAIN was /\ "colour" \in DOMAIN was /\ "company" \in DOMAIN was
            /\ IsList(was.blocks) /\ was.colour \in Colours /\ was.company \in Companies
        BY <2>2, <3>1 DEF IsReport, Layout, Brand, TemplateEditorPage!Brand
      <3>3. IsPatch(r.patch)
        BY <1>0 DEF IsRequest
      <3> HIDE DEF was
      <3>4. IsList(new.blocks) /\ new.colour \in Colours /\ new.company \in Companies
        BY <3>2, <3>3 DEF IsPatch
      <3> QED
        BY <3>1, <3>4 DEF IsReport
    <2> HIDE DEF new
    <2> QED
      BY <1>0, <2>1, <2>3 DEF AreReports
  <1> QED
    BY <1>1, <1>2, <1>3

LEMMA CommitTyped ==
    ASSUME EditorInductive, EditorTyped, NEW r \in eRequests, TemplateEditorPage!Commit(r)
    PROVE  EditorTyped'
  <1>0. DOMAIN r = RequestParts /\ IsRequest(r) /\ RequestsTyped /\ Locked
    BY DEF EditorInductive, Shapes, RequestFits, EditorTyped, RequestsTyped
  <1>1. r.at = "flushed" /\ eRows' = TemplateEditorPage!Written(r) /\ TemplateEditorPage!Server
    BY DEF TemplateEditorPage!Commit
  <1>2. /\ AreReports(eRows') /\ Shipped \subseteq DOMAIN eRows'
        /\ DOMAIN eRows \ (IF r.kind = "delete" THEN {r.id} ELSE {}) \subseteq DOMAIN eRows'
    BY <1>1, WrittenTyped
  <1>3. \A q \in eRequests \ {r} : q.at = "flushed" => q.id # r.id
    BY <1>0, <1>1 DEF Locked
  <1>4. CASE eRequests' = eRequests \ {r}
    <2>1. RequestsTyped'
      BY <1>0, <1>2, <1>3, <1>4 DEF RequestsTyped, Locked
    <2> QED
      BY <1>1, <1>2, <2>1, ServedTyped
  <1>5. ASSUME NEW base, r.kind = "logo" => base = eRows'[r.id],
               eRequests' = (eRequests \ {r}) \cup {[r EXCEPT !.at = "committed", !.base = base]}
        PROVE  EditorTyped'
    <2> DEFINE s == [r EXCEPT !.at = "committed", !.base = base]
    <2>1. Same(r, s) /\ s.at = "committed" /\ s.base = base
      BY <1>0 DEF RequestParts, Same
    <2>2. eRequests' = (eRequests \ {r}) \cup {s}
      BY <1>5
    <2> HIDE DEF s
    <2>3. r.kind = "logo" => IsReport(base)
      BY <1>0, <1>1, <1>2, <1>5 DEF Locked, AreReports
    <2>4. IsRequest(s)
      BY <1>0, <2>1, <2>3 DEF IsRequest, Same
    <2>5. Locked'
      BY <1>0, <1>2, <1>3, <2>1, <2>2 DEF Locked
    <2>6. RequestsTyped'
      BY <1>0, <2>2, <2>4, <2>5 DEF RequestsTyped
    <2> QED
      BY <1>1, <1>2, <2>6, ServedTyped
  <1> QED
    BY <1>4, <1>5 DEF TemplateEditorPage!Commit, TemplateEditorPage!Becomes

(* Answers. *)
LEMMA AnswerTyped ==
    ASSUME EditorInductive, EditorTyped, NEW r \in eRequests, TemplateEditorPage!Answer(r)
    PROVE  EditorTyped'
  <1>1. TemplateEditorPage!Answered(r) /\ UNCHANGED <<eRows, listed, pending, leftover>>
    BY DEF TemplateEditorPage!Answer
  <1>2. RequestsTyped' /\ IsRequest(r) /\ IsEditor(eEditor)
    BY <1>1, RequestsAnswered DEF EditorTyped, RequestsTyped
  <1>3. IsEditor(TemplateEditorPage!Finished(r)) /\ r.id \in ReportTemplates
    BY <1>2, MarkedIsAnEditor DEF TemplateEditorPage!Finished, IsRequest
  <1>4. CASE r.kind = "create"
    <2>1. TemplateEditorPage!Enter(r.id, TemplateEditorPage!Finished(r)) /\ UNCHANGED cached
      BY <1>4 DEF TemplateEditorPage!Answer
    <2>2. IsEditor(eEditor') /\ PageTyped' /\ eAt'.page = "edit"
      BY <1>3, <2>1, EnterTyped
    <2> QED
      BY <1>1, <1>2, <2>1, <2>2 DEF EditorTyped, TablesTyped, TimersTyped
  <1>5. CASE r.kind = "logo"
    <2>1. TemplateEditorPage!Receive(r.id, r.base, r.mine) /\ r.at = "committed"
      BY <1>5 DEF TemplateEditorPage!Answer, TemplateEditorPage!CommitsFirst
    <2>2. IsReport(r.base)
      BY <1>2, <1>5, <2>1 DEF IsRequest
    <2> QED
      BY <1>1, <1>2, <1>3, <2>1, <2>2, ReceiveTyped
  <1>6. CASE r.kind \notin {"create", "logo"}
    <2>1. PICK v : /\ UNCHANGED <<cached, eAt>>
                   /\ eEditor' = [TemplateEditorPage!Finished(r) EXCEPT !.dirty = v]
      BY <1>6 DEF TemplateEditorPage!Answer
    <2>2. IsEditor(eEditor')
      BY <1>3, <2>1, MarkedIsAnEditor
    <2> QED
      BY <1>1, <1>2, <2>1, <2>2 DEF EditorTyped, TablesTyped, PageTyped, TimersTyped
  <1> QED
    BY <1>4, <1>5, <1>6

LEMMA FailureTyped ==
    ASSUME EditorInductive, EditorTyped, NEW r \in eRequests,
           TemplateEditorPage!Refuse(r) \/ TemplateEditorPage!Fail(r)
    PROVE  EditorTyped'
  <1>1. /\ eEditor' = TemplateEditorPage!Finished(r)
        /\ UNCHANGED <<eRows, listed, cached, eAt, pending, leftover>>
        /\ eRequests' = eRequests \ {r} \/ TemplateEditorPage!Answered(r)
    BY DEF TemplateEditorPage!Refuse, TemplateEditorPage!Fail, TemplateEditorPage!Told
  <1>2. IsEditor(eEditor')
    BY <1>1, MarkedIsAnEditor DEF TemplateEditorPage!Finished, EditorTyped
  <1>3. RequestsTyped'
    BY <1>1, RequestsFewer, RequestsAnswered DEF EditorTyped
  <1> QED
    BY <1>1, <1>2, <1>3 DEF EditorTyped, TablesTyped, PageTyped, TimersTyped

LEMMA EditorStepTyped ==
    ASSUME EditorInductive, EditorTyped, TemplateEditorPage!Next
    PROVE  EditorTyped'
  <1>1. CASE \/ TemplateEditorPage!FetchFails \/ TemplateEditorPage!FetchList
             \/ TemplateEditorPage!OpenDialog \/ TemplateEditorPage!CancelDialog
             \/ \E n \in Names : TemplateEditorPage!TypeNewName(n)
             \/ \E k \in DOMAIN eEditor.blocks : TemplateEditorPage!SelectBlock(k)
    BY <1>1, LookingTyped
  <1>2. CASE \/ \E n \in Names : TemplateEditorPage!TypeName(n)
             \/ \E c \in Colours : TemplateEditorPage!PickColour(c)
             \/ \E c \in Companies : TemplateEditorPage!TypeCompany(c)
    BY <1>2, ChoosingTyped
  <1>3. CASE \/ \E t \in Types : TemplateEditorPage!AddBlock(t)
             \/ \E k \in DOMAIN eEditor.blocks :
                   \/ TemplateEditorPage!RemoveBlock(k) \/ TemplateEditorPage!UpdateBlock(k)
                   \/ \E l \in DOMAIN eEditor.blocks : TemplateEditorPage!Drag(k, l)
    BY <1>3, BlockSteps
  <1>4. CASE \/ TemplateEditorPage!New \/ TemplateEditorPage!Back
             \/ \E id \in ReportTemplates : TemplateEditorPage!Edit(id)
    BY <1>4, LeavingTyped
  <1>5. CASE TemplateEditorPage!Fetch
    BY <1>5, FetchTyped
  <1>6. ASSUME NEW id \in ReportTemplates,
               \/ TemplateEditorPage!ToggleHide(id) \/ TemplateEditorPage!ToggleAi(id)
               \/ TemplateEditorPage!Delete(id) \/ TemplateEditorPage!CreateAndEdit(id)
               \/ \E copy \in ReportTemplates : TemplateEditorPage!Clone(id, copy)
        PROVE  EditorTyped'
    BY <1>6, FromTheListTyped
  <1>7. CASE TemplateEditorPage!UploadLogo
    <2>1. eAt.id \in ReportTemplates
      BY <1>7 DEF TemplateEditorPage!UploadLogo, TemplateEditorPage!BrandShown, EditorTyped, PageTyped
    <2> QED
      BY <1>7, <2>1, FromTheListTyped
  <1>8. CASE \/ TemplateEditorPage!BrandTimer \/ \E t \in leftover : TemplateEditorPage!LeftoverTimer(t)
             \/ \E id \in ReportTemplates : TemplateEditorPage!HandleSave(id)
    BY <1>8, SavesTyped
  <1>9. ASSUME NEW r \in eRequests,
               \/ TemplateEditorPage!Read(r) \/ TemplateEditorPage!Flush(r) \/ TemplateEditorPage!Commit(r)
               \/ TemplateEditorPage!Answer(r) \/ TemplateEditorPage!Refuse(r) \/ TemplateEditorPage!Fail(r)
        PROVE  EditorTyped'
    BY <1>9, ReadsTyped, CommitTyped, AnswerTyped, FailureTyped
  <1> QED
    BY <1>1, <1>2, <1>3, <1>4, <1>5, <1>6, <1>7, <1>8, <1>9 DEF TemplateEditorPage!Next

LEMMA EditorInitTyped == TemplateEditorPage!Init => EditorTyped
  <1> SUFFICES ASSUME TemplateEditorPage!Init PROVE EditorTyped
    OBVIOUS
  <1> DEFINE first == TemplateEditorPage!Template("n", <<[type |-> CHOOSE t \in Types : TRUE, set |-> FALSE]>>)
  <1>1. IsReport(first)
    BY ShortLists, DefaultsAreTyped
  <1>2. eRows = [i \in Shipped \cup Existing |-> first] /\ listed = eRows
    BY DEF TemplateEditorPage!Init
  <1> HIDE DEF first
  <1>3. AreReports(eRows) /\ Shipped \subseteq DOMAIN eRows
    BY <1>1, <1>2, PagesAssumption DEF AreReports
  <1>4. ASSUME cached = << >>, eAt = TemplateEditorPage!ListPage, eEditor = TemplateEditorPage!Blank
        PROVE  AreReports(cached) /\ PageTyped /\ IsEditor(eEditor)
    <2>1. AreReports(cached)
      BY <1>4, ShortLists DEF AreReports
    <2>2. PageTyped
      BY <1>4 DEF PageTyped, TemplateEditorPage!ListPage
    <2> QED
      BY <1>4, <2>1, <2>2, DefaultsAreTyped
  <1>5. ASSUME NEW i \in Existing, cached = [j \in {i} |-> eRows[j]],
               eEditor = TemplateEditorPage!Hydrated(TemplateEditorPage!Blank, i, eRows[i]),
               eAt = [page |-> "edit", id |-> i, failed |-> FALSE]
        PROVE  AreReports(cached) /\ PageTyped /\ IsEditor(eEditor)
    <2>1. i \in ReportTemplates /\ IsReport(eRows[i])
      BY <1>2, <1>3, PagesAssumption DEF AreReports
    <2>2. AreReports(cached) /\ PageTyped
      BY <1>5, <2>1 DEF AreReports, PageTyped
    <2>3. IsEditor(eEditor)
      BY <1>5, <2>1, FilledIsAnEditor, DefaultsAreTyped
    <2> QED
      BY <2>2, <2>3
  <1>6. AreReports(cached) /\ PageTyped /\ IsEditor(eEditor)
    BY <1>4, <1>5, DefaultsAreTyped DEF TemplateEditorPage!Init, TemplateEditorPage!Unset
  <1>7. pending = << >> /\ leftover = {} /\ eRequests = {}
    BY DEF TemplateEditorPage!Init, TemplateEditorPage!Unset
  <1>8. TimersTyped /\ RequestsTyped
    BY <1>7, ShortLists DEF TimersTyped, IsPatch, RequestsTyped, Locked
  <1> QED
    BY <1>2, <1>3, <1>6, <1>8 DEF EditorTyped, TablesTyped

-----------------------------------------------------------------------------
(* All pages. *)

LEMMA TimelineTypes == TimelineInductive => TimelinePage!TypeOK
  <1> SUFFICES ASSUME TimelineInductive PROVE TimelinePage!TypeOK
    OBVIOUS
  <1>1. /\ DOMAIN entries \subseteq EntryIds /\ DOMAIN lSeen \subseteq EntryIds
        /\ taken \subseteq EntryIds \X EntryFiles /\ \A e \in DOMAIN entries : entries[e] \in EntryRecords
        /\ add \in EntryForms /\ edit \in Dialogs /\ saves \subseteq Saves
        /\ edit.entry = 0 => edit = TimelinePage!Closed
    BY DEF TimelineInductive, TablesOK, IsTable, DialogOK
  <1>2. TimelinePage!ToSet(add.files) \subseteq EntryFiles
    BY <1>1, FilesIn DEF EntryForms
  <1> QED
    BY <1>1, <1>2 DEF TimelinePage!TypeOK, TimelinePage!None, EntryRecords, EntryForms, Dialogs, Saves

LEMMA TeamHolds == ASSUME Me \in Admins PROVE PagesSpec => []TeamInductive
  <1>1. PagesInit => TeamInductive
    BY InitInductive DEF PagesInit
  <1>2. ASSUME TeamInductive, [PagesNext]_pagesVars PROVE TeamInductive'
    <2>1. CASE Next
      BY <1>2, <2>1, StepInductive
    <2>2. CASE UNCHANGED teamVars
      BY <1>2, <2>2, PageInductive DEF teamVars, TeamInductive, TypeOK, DialogSound
    <2> QED
      BY <1>2, <2>1, <2>2, OnePageSteps
  <1> QED
    BY <1>1, <1>2, PTL DEF PagesSpec

LEMMA IndicatorsHold == PagesSpec => []IndicatorsTyped
  <1>1. PagesInit => IndicatorsTyped
    BY IndicatorsInitTyped DEF PagesInit
  <1>2. ASSUME IndicatorsTyped, [PagesNext]_pagesVars PROVE IndicatorsTyped'
    <2>1. CASE IndicatorsPage!Next
      BY <1>2, <2>1, IndicatorsStepTyped
    <2>2. CASE UNCHANGED indicatorsVars
      BY <1>2, <2>2 DEF indicatorsVars, IndicatorsTyped, AreIndicators
    <2> QED
      BY <1>2, <2>1, <2>2, OnePageSteps
  <1> QED
    BY <1>1, <1>2, PTL DEF PagesSpec

LEMMA AssetsAreTyped == PagesSpec => []AssetsTyped
  <1>1. PagesInit => AssetsTyped
    BY AssetsInitTyped DEF PagesInit
  <1>2. ASSUME AssetsInductive, AssetsTyped, [PagesNext]_pagesVars PROVE AssetsTyped'
    <2>1. CASE AssetsPage!Next
      BY <1>2, <2>1, AssetsStepTyped
    <2>2. CASE UNCHANGED assetsVars
      BY <1>2, <2>2 DEF assetsVars, AssetsTyped, AreAssets
    <2> QED
      BY <1>2, <2>1, <2>2, OnePageSteps
  <1> QED
    BY <1>1, <1>2, AssetsHold, PTL DEF PagesSpec

LEMMA EditorIsTyped == PagesSpec => []EditorTyped
  <1>1. PagesInit => EditorTyped
    BY EditorInitTyped DEF PagesInit
  <1>2. ASSUME EditorInductive, EditorTyped, [PagesNext]_pagesVars PROVE EditorTyped'
    <2>1. CASE TemplateEditorPage!Next
      BY <1>2, <2>1, EditorStepTyped
    <2>2. CASE UNCHANGED templateEditorVars
      BY <1>2, <2>2 DEF templateEditorVars, EditorTyped, TablesTyped, PageTyped, TimersTyped,
         RequestsTyped, Locked
    <2> QED
      BY <1>2, <2>1, <2>2, OnePageSteps
  <1> QED
    BY <1>1, <1>2, EditorHolds, PTL DEF PagesSpec

(* Whatever page a run works on, and whatever happens there, its state has  *)
(* its types: what is listed, open, being edited and on its way exists or   *)
(* may come to exist, no selection is dangling, and the templates that are  *)
(* shipped are there.                                                       *)
THEOREM PagesTypeCorrect == ASSUME Me \in Admins PROVE PagesSpec => []PagesTypeOK
  <1>1. TeamInductive => TypeOK
    BY DEF TeamInductive
  <1>2. OrgInductive => OrgFormPage!TypeOK
    BY DEF OrgInductive
  <1>4. ConnectorsTheory!Inductive => ConnectorsPage!TypeOK
    BY Zenon DEF ConnectorsTheory!Inductive, ConnectorsTheory!TypeOK, ConnectorsPage!TypeOK,
       ConnectorsTheory!Plugins, ConnectorsPage!Plugins, ConnectorsTheory!Sections, ConnectorsTheory!Configs, ConnectorsTheory!Any,
       ConnectorsPage!Sections, ConnectorsPage!Configs, ConnectorsPage!Any
  <1>5. TemplatesInductive => TaskTemplatesPage!TypeOK
    BY TemplatesTyped
  <1>6. IndicatorsTyped => IndicatorsPage!TypeOK
    BY IndicatorsTypes
  <1>7. AssetsInductive /\ AssetsTyped => AssetsPage!TypeOK
    BY AssetsTypes
  <1>8. TimelineInductive => TimelinePage!TypeOK
    BY TimelineTypes
  <1>9. DeskInductive => DeskPage!TypeOK
    BY DEF DeskInductive
  <1>10. EditorInductive /\ EditorTyped => TemplateEditorPage!TypeOK
    BY EditorTypes
  <1>11. PanelInductive => TaskPanelPage!TypeOK
    BY DEF PanelInductive
  <1> DEFINE All ==
        /\ TypeOK /\ OrgFormPage!TypeOK /\ ConnectorsPage!TypeOK
        /\ TaskTemplatesPage!TypeOK /\ IndicatorsPage!TypeOK /\ AssetsPage!TypeOK /\ TimelinePage!TypeOK
        /\ DeskPage!TypeOK /\ TemplateEditorPage!TypeOK /\ TaskPanelPage!TypeOK
  <1>12. All => PagesTypeOK
    BY Zenon DEF PagesTypeOK
  <1> QED
    BY <1>1, <1>2, <1>4, <1>5, <1>6, <1>7, <1>8, <1>9, <1>10, <1>11, <1>12, TeamHolds, OrgHolds,
       ConnectorsInductive, TemplatesHold, IndicatorsHold, AssetsHold, AssetsAreTyped,
       TimelineHolds, DeskHolds, EditorHolds, EditorIsTyped, PanelHolds, PTL

=============================================================================
