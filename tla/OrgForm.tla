-------------------------------- MODULE OrgForm --------------------------------
(***************************************************************************)
(* The organisation's settings: the form, the MFA switch and the choice of *)
(* an authentication source in one administrator's tab, PUT /admin/org,    *)
(* which reads the settings and writes all of them back, and the same      *)
(* requests from elsewhere.  A text stands for the organisation's name,    *)
(* minutes for the session timeouts.  Of the logo it matters only whether  *)
(* a request has one: the schema takes URLs only, which the empty field of *)
(* the form is not, and a URL is an object that the JSON column cannot     *)
(* hold, so a request with a logo changes nothing.                         *)
(***************************************************************************)
EXTENDS Naturals, FiniteSets

CONSTANTS Texts, Minutes, MaxClicks, MaxPuts

VARIABLES
    org,        \* the row: the text, the minutes (0: no override), MFA required
    cache,      \* the settings the tab has, or Unknown
    form,       \* the fields as typed; minutes 0 is the empty field
    touched,    \* whether the user typed since the form was filled
    source,     \* the authentication source whose panel is open, or "left"
    asking,     \* whether the dialog that confirms the MFA switch is open
    puts,       \* requests in flight
    clicks, sent

vars == <<org, cache, form, touched, source, asking, puts, clicks, sent>>

Orgs == [text : Texts, minutes : Minutes \cup {0}, mfa : BOOLEAN]
Forms == [text : Texts, minutes : Minutes \cup {0}]
Unknown == [text |-> "", minutes |-> 0, mfa |-> FALSE]
Sources == {"local", "azure", "onprem"}
None == {}      \* a field a patch does not have

(* A patch has at most one value for each field. *)
Patches == [text : {None} \cup {{t} : t \in Texts}, minutes : {None} \cup {{m} : m \in Minutes \cup {0}},
            mfa : {None, {TRUE}, {FALSE}}, logo : BOOLEAN]
Puts == [mine : BOOLEAN, patch : Patches, read : Orgs \cup {Unknown},
         at : {"sent", "read", "done", "refused"}]

-----------------------------------------------------------------------------
(* The server: zero minutes remove the override. *)

(* Slip kept for the checks: minutes that are not sent are no minutes. *)
PatchedResetting(o, patch) ==
    LET Field(f) == IF patch[f] = None THEN o[f] ELSE CHOOSE x \in patch[f] : TRUE
    IN [text |-> Field("text"), mfa |-> Field("mfa"),
        minutes |-> IF patch.minutes = None THEN 0 ELSE Field("minutes")]

Patched(o, patch) ==
    LET Field(f) == IF patch[f] = None THEN o[f] ELSE CHOOSE x \in patch[f] : TRUE
    IN [text |-> Field("text"), minutes |-> Field("minutes"), mfa |-> Field("mfa")]

Read(p) ==
    /\ p.at = "sent" /\ ~p.patch.logo
    /\ puts' = (puts \ {p}) \cup {[p EXCEPT !.at = "read", !.read = org]}
    /\ UNCHANGED <<org, cache, form, touched, source, asking, clicks, sent>>

(* A logo: 422 for what is no URL, 500 for what is one. *)
Refuse(p) ==
    /\ p.at = "sent" /\ p.patch.logo
    /\ puts' = (puts \ {p}) \cup (IF p.mine THEN {[p EXCEPT !.at = "refused", !.read = org]} ELSE {})
    /\ UNCHANGED <<org, cache, form, touched, source, asking, clicks, sent>>

(* The name and the column with all the settings are written when the       *)
(* request changes them, as the request read them; the answer is its view.  *)
Write(p) ==
    LET mine == Patched(p.read, p.patch)
        settings == [mine EXCEPT !.text = p.read.text]
    IN /\ p.at = "read"
       /\ org' = [IF settings = p.read THEN org ELSE mine EXCEPT
                     !.text = IF mine.text = p.read.text THEN org.text ELSE mine.text]
       /\ puts' = (puts \ {p}) \cup (IF p.mine THEN {[p EXCEPT !.at = "done", !.read = mine]} ELSE {})
       /\ UNCHANGED <<cache, form, touched, source, asking, clicks, sent>>

-----------------------------------------------------------------------------
(* The tab. *)

(* The effect on the settings fills the form: a zero is the empty field.    *)
Filled(o) == [text |-> o.text, minutes |-> o.minutes]

(* Settings that equal those the tab has do not run the effect.             *)
Learn(o) ==
    /\ cache' = o
    /\ IF o = cache THEN UNCHANGED <<form, touched>> ELSE form' = Filled(o) /\ touched' = FALSE

Init ==
    /\ org \in Orgs /\ cache = Unknown
    /\ form = [text |-> "", minutes |-> 0] /\ touched = FALSE
    /\ source = "local" /\ asking = FALSE /\ puts = {} /\ clicks = 0 /\ sent = 0

Fetch ==
    /\ cache # org /\ Learn(org)
    /\ UNCHANGED <<org, source, asking, puts, clicks, sent>>

Pending == \E p \in puts : p.mine
Click == clicks < MaxClicks /\ clicks' = clicks + 1 /\ source # "left"

Edit(f) ==
    /\ Click /\ cache # Unknown /\ form # f /\ form' = f /\ touched' = TRUE
    /\ UNCHANGED <<org, cache, source, asking, puts, sent>>

ChooseSource(s) ==
    /\ Click /\ source' = s /\ source # s
    /\ UNCHANGED <<org, cache, form, touched, asking, puts, sent>>

(* The panels of the two directories lead to the integrations page. *)
ConfigureSSO ==
    /\ source \in {"azure", "onprem"} /\ source' = "left" /\ asking' = FALSE
    /\ cache' = cache /\ form' = form /\ touched' = touched
    /\ UNCHANGED <<org, puts, clicks, sent>>

Put(mine, patch) ==
    /\ sent < MaxPuts /\ sent' = sent + 1
    /\ puts' = puts \cup {[mine |-> mine, patch |-> patch, read |-> Unknown, at |-> "sent"]}

NoPatch == [text |-> None, minutes |-> None, mfa |-> None, logo |-> FALSE]

(* handleSave: every field, empty minutes as zero, and the logo as it is. *)
SavedPatch(f) == [NoPatch EXCEPT !.text = {f.text}, !.minutes = {f.minutes}, !.logo = TRUE]

Save ==
    /\ Click /\ cache # Unknown /\ ~Pending /\ Put(TRUE, SavedPatch(form))
    /\ UNCHANGED <<org, cache, form, touched, source, asking>>

(* The switch: off at once, on after a question. *)
Toggle ==
    /\ Click /\ ~asking
    /\ IF cache.mfa THEN Put(TRUE, [NoPatch EXCEPT !.mfa = {FALSE}]) /\ UNCHANGED asking
                    ELSE asking' = TRUE /\ UNCHANGED <<puts, sent>>
    /\ UNCHANGED <<org, cache, form, touched, source>>

Enable ==
    /\ asking /\ ~Pending /\ Put(TRUE, [NoPatch EXCEPT !.mfa = {TRUE}])
    /\ UNCHANGED <<org, cache, form, touched, source, asking, clicks>>

Dismiss ==
    /\ asking /\ asking' = FALSE
    /\ UNCHANGED <<org, cache, form, touched, source, puts, clicks, sent>>

(* The answer: the settings it carries are those the tab has from now on.   *)
Answer(p) ==
    /\ p.at = "done" /\ puts' = puts \ {p} /\ Learn(p.read)
    /\ asking' = (asking /\ p.patch.mfa # {TRUE})
    /\ UNCHANGED <<org, source, clicks, sent>>

(* The request fails before or after its commit, or was refused. *)
Fail(p) ==
    /\ p.mine /\ puts' = puts \ {p}
    /\ UNCHANGED <<org, cache, form, touched, source, asking, clicks, sent>>

(* Another administrator saves the form or turns the switch, or a client of *)
(* the API sends the limits or the name alone.                              *)
Elsewhere(patch) ==
    /\ Put(FALSE, patch)
    /\ UNCHANGED <<org, cache, form, touched, source, asking, clicks>>

Next ==
    \/ Fetch
    \/ \E f \in Forms : Edit(f)
    \/ \E s \in Sources : ChooseSource(s)
    \/ ConfigureSSO
    \/ Save
    \/ Toggle
    \/ Enable
    \/ Dismiss
    \/ \E f \in Forms : Elsewhere(SavedPatch(f))
    \/ \E b \in BOOLEAN : Elsewhere([NoPatch EXCEPT !.mfa = {b}])
    \/ \E m \in Minutes \cup {0} : Elsewhere([NoPatch EXCEPT !.minutes = {m}])
    \/ \E t \in Texts : Elsewhere([NoPatch EXCEPT !.text = {t}])
    \/ \E p \in puts : Read(p)
    \/ \E p \in puts : Refuse(p)
    \/ \E p \in puts : Write(p)
    \/ \E p \in puts : Answer(p)
    \/ \E p \in puts : Fail(p)

Spec == Init /\ [][Next]_vars

-----------------------------------------------------------------------------
(* Properties. *)

TypeOK ==
    /\ org \in Orgs /\ cache \in Orgs \cup {Unknown}
    /\ form \in [text : Texts \cup {""}, minutes : Minutes \cup {0}] /\ touched \in BOOLEAN
    /\ source \in Sources \cup {"left"} /\ asking \in BOOLEAN /\ puts \subseteq Puts

(* However the updates of several administrators overlap, the name, the     *)
(* limits and the MFA requirement only ever change to what a request asks   *)
(* for; or, since the limits and the requirement share a column that is     *)
(* written whole, back to what a request read before another changed it.    *)
UnaskedSettingsStay ==
    [][ /\ org'.text # org.text => \E p \in puts : p.patch.text = {org'.text}
        /\ \A f \in {"minutes", "mfa"} : org'[f] # org[f] =>
              \E p \in puts :
                  p.at = "read" /\ (p.patch[f] = {org'[f]} \/ p.read[f] = org'[f]) ]_vars

(* "Admins can change both limits for the organisation in Org Settings":     *)
(* when the server has answered a save of the page, the limits are the ones  *)
(* that were saved.                                                          *)
SavedLimitsHold ==
    \A p \in puts : p.mine /\ p.at \in {"done", "refused"} /\ p.patch.minutes # None =>
        p.patch.minutes = {p.read.minutes}

=============================================================================
