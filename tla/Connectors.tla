------------------------------- MODULE Connectors -------------------------------
(***************************************************************************)
(* The integrations page: plugins, single sign-on, SMTP and the local AI,  *)
(* each a form that is filled from the stored configuration, a test and a  *)
(* save.  A configuration is: whether it is on, its address (host, tenant  *)
(* and client, webhook, account), an optional text (base URL, channel, role *)
(* mapping) and its secret; the empty text is "not set".  Secrets are never *)
(* sent to the page.  Plugins come in three kinds: with an account and its *)
(* secret, with a key alone, and with a webhook alone.                     *)
(***************************************************************************)
EXTENDS Naturals

CONSTANTS Texts,        \* what can be typed, without the empty text
          MaxClicks, MaxFaults

VARIABLES
    rows,       \* section -> what is stored
    section,    \* the section the administrator works in
    form,       \* its form
    seen,       \* the configuration the form was filled from
    open,       \* whether the form is on screen
    waiting,    \* the request on the way: none, save, enable, test, test save, toggle
    sent,       \* the form as it was sent
    verdict,    \* the result of the last test shown: none, ok or failed
    clicks, faults

vars == <<rows, section, form, seen, open, waiting, sent, verdict, clicks, faults>>

Plugins == {"account", "key", "webhook"}
Sections == Plugins \cup {"sso", "smtp", "ai"}
Any == Texts \cup {""}
Configs == [on : BOOLEAN, address : Any, extra : Any, secret : Any]
Nothing == [on |-> FALSE, address |-> "", extra |-> "", secret |-> ""]
Fields == {"address", "extra", "secret"}

(* What a section cannot work without: the fields its schema requires.      *)
Required(s) == CASE s \in {"account", "sso"} -> {"address", "secret"}
                 [] s = "key" -> {"secret"}
                 [] s \in {"webhook", "smtp", "ai"} -> {"address"}

-----------------------------------------------------------------------------
(* How each section fills its form from what is stored, ... *)

PluginFilled(row) == [row EXCEPT !.secret = ""]
SsoFilled(row) == [row EXCEPT !.secret = ""]
SmtpFilled(row) == [row EXCEPT !.secret = ""]
AiFilled(row) == [row EXCEPT !.secret = ""]

Filled(s, row) == CASE s \in Plugins -> PluginFilled(row) [] s = "sso" -> SsoFilled(row)
                    [] s = "smtp" -> SmtpFilled(row) [] s = "ai" -> AiFilled(row)

(* ... when it refuses to send it, ... *)

(* Required fields, the secret among them, whenever the form is saved.      *)
PluginComplete(s, f) == \A field \in Required(s) : f[field] # ""

(* Slip kept for the checks: the first save does not ask for the secret. *)
SsoCompleteLax(f, known) == f.address # ""

(* The secret is asked for until a client has been saved.                   *)
SsoComplete(f, known) == f.address # "" /\ (known.address = "" => f.secret # "")
SmtpComplete(f) == f.address # ""
AiComplete(f) == f.on => f.address # ""

Complete(s, f, known) == CASE s \in Plugins -> PluginComplete(s, f) [] s = "sso" -> SsoComplete(f, known)
                           [] s = "smtp" -> SmtpComplete(f) [] s = "ai" -> AiComplete(f)

(* ... and what the server makes of it: a plugin's configuration is replaced *)
(* but for the switch; elsewhere a blank secret keeps the one that is there. *)
Kept(new, old) == IF new = "" THEN old ELSE new

PluginStored(row, f) == [f EXCEPT !.on = row.on]
SsoStored(row, f) == [f EXCEPT !.secret = Kept(f.secret, row.secret)]

(* Slip kept for the checks: the password of the form is stored as it is. *)
SmtpStoredAsSent(row, f) == [f EXCEPT !.extra = Kept(f.extra, row.extra)]

(* Fields that are blank are left out by the form or by the endpoint. *)
SmtpStored(row, f) ==
    [f EXCEPT !.extra = Kept(f.extra, row.extra), !.secret = Kept(f.secret, row.secret)]
AiStored(row, f) == [f EXCEPT !.secret = ""]

Stored(s, row, f) == CASE s \in Plugins -> PluginStored(row, f) [] s = "sso" -> SsoStored(row, f)
                       [] s = "smtp" -> SmtpStored(row, f) [] s = "ai" -> AiStored(row, f)

-----------------------------------------------------------------------------
(* The page. *)

Fill(s) == section' = s /\ form' = Filled(s, rows[s]) /\ seen' = rows[s]

Init ==
    /\ rows = [s \in Sections |-> Nothing] /\ section = "account" /\ form = Nothing
    /\ seen = Nothing /\ open = FALSE /\ waiting = "none" /\ sent = Nothing /\ verdict = "none"
    /\ clicks = 0 /\ faults = 0

Click == clicks < MaxClicks /\ clicks' = clicks + 1
Fault == faults < MaxFaults /\ faults' = faults + 1

(* A category tab: the sections of the others are closed, and lose what was *)
(* typed.                                                                   *)
ChooseCategory(s) ==
    /\ Click /\ s # section /\ waiting = "none"
    /\ Fill(s) /\ open' = FALSE /\ verdict' = "none"
    /\ UNCHANGED <<rows, waiting, sent, faults>>

(* "Configure" shows the form; a plugin's is filled each time it is opened. *)
Open ==
    /\ ~open /\ open' = TRUE /\ Click
    /\ IF section \in Plugins THEN Fill(section) /\ verdict' = "none"
                               ELSE UNCHANGED <<section, form, seen, verdict>>
    /\ UNCHANGED <<rows, waiting, sent, faults>>

Collapse ==
    /\ open /\ open' = FALSE
    /\ UNCHANGED <<rows, section, form, seen, waiting, sent, verdict, clicks, faults>>

(* The fields each form offers. *)
PluginFields(s) == Required(s) \cup {"extra"}
SsoFields == Fields
SmtpFields == Fields
AiFields == {"address", "extra"}
Offered(s) == CASE s \in Plugins -> PluginFields(s) [] s = "sso" -> SsoFields
                [] s = "smtp" -> SmtpFields [] s = "ai" -> AiFields

Type(field, text) ==
    /\ Click /\ open /\ field \in Offered(section) /\ form[field] # text
    /\ form' = [form EXCEPT ![field] = text]
    /\ UNCHANGED <<rows, section, seen, open, waiting, sent, verdict, faults>>

(* The switch of the last three is part of the form.                        *)
FlipInForm ==
    /\ Click /\ section \notin Plugins /\ form' = [form EXCEPT !.on = ~form.on]
    /\ open' = (open \/ section = "sso" \/ (section = "ai" /\ form'.on))
    /\ UNCHANGED <<rows, section, seen, waiting, sent, verdict, faults>>

(* A record is only ever saved with what is required. *)
Configured(s, row) == \A field \in Required(s) : row[field] # ""

(* A plugin's switch asks for a configuration first, and acts at once.      *)
FlipPlugin ==
    /\ Click /\ section \in Plugins /\ waiting = "none"
    /\ IF Configured(section, seen) THEN waiting' = "toggle" /\ UNCHANGED open
                                    ELSE open' = TRUE /\ UNCHANGED waiting
    /\ UNCHANGED <<rows, section, form, seen, sent, verdict, faults>>

Save ==
    /\ open /\ waiting = "none" /\ Complete(section, form, seen) /\ waiting' = "save"
    /\ sent' = form
    /\ UNCHANGED <<rows, section, form, seen, open, verdict, clicks, faults>>

(* A plugin is tested as stored, so its form is saved first; the others are *)
(* tested as typed.                                                         *)
Test ==
    /\ Click /\ open /\ waiting = "none"
    /\ CASE section \in Plugins -> PluginComplete(section, form) /\ waiting' = "test save" /\ UNCHANGED verdict
         [] section \in {"smtp", "ai"} -> form.address # "" /\ waiting' = "test" /\ verdict' = "none"
         [] section = "sso" -> FALSE
    /\ sent' = form
    /\ UNCHANGED <<rows, section, form, seen, open, faults>>

Commit == rows' = [rows EXCEPT ![section] = Stored(section, rows[section], sent)]

(* The save is answered; the configuration is fetched and fills the form    *)
(* again.  A plugin that is off is then turned on by a second request.      *)
SaveDone ==
    /\ waiting = "save" /\ Commit
    /\ seen' = rows'[section]
    /\ IF section \in Plugins
       THEN /\ form' = form
            /\ IF seen.on THEN waiting' = "none" /\ open' = FALSE
                          ELSE waiting' = "enable" /\ UNCHANGED open
       ELSE form' = Filled(section, rows'[section]) /\ waiting' = "none" /\ UNCHANGED open
    /\ UNCHANGED <<section, sent, verdict, clicks, faults>>

EnableDone ==
    /\ waiting = "enable" /\ rows' = [rows EXCEPT ![section].on = TRUE]
    /\ seen' = rows'[section] /\ waiting' = "none" /\ open' = FALSE
    /\ UNCHANGED <<section, form, sent, verdict, clicks, faults>>

TestSaveDone ==
    /\ waiting = "test save" /\ Commit /\ seen' = rows'[section] /\ waiting' = "test"
    /\ UNCHANGED <<section, form, open, sent, verdict, clicks, faults>>

TestDone(v) ==
    /\ waiting = "test" /\ waiting' = "none" /\ verdict' = v
    /\ UNCHANGED <<rows, section, form, seen, open, sent, clicks, faults>>

(* The endpoint refuses a plugin that has no record. *)
ToggleDone ==
    /\ waiting = "toggle" /\ Configured(section, rows[section])
    /\ rows' = [rows EXCEPT ![section].on = ~seen.on] /\ seen' = rows'[section]
    /\ waiting' = "none"
    /\ UNCHANGED <<section, form, open, sent, verdict, clicks, faults>>

(* A request fails, before or after what it does is committed: the form     *)
(* stays as it is.                                                          *)
Fail ==
    /\ waiting # "none" /\ Fault /\ waiting' = "none"
    /\ \/ UNCHANGED rows
       \/ waiting \in {"save", "test save"} /\ Commit
    /\ verdict' = IF waiting = "test" /\ section \notin Plugins THEN "failed" ELSE verdict
    /\ UNCHANGED <<section, form, seen, open, sent, clicks>>

(* Another administrator saves the same form from a page of their own.      *)
Elsewhere(f) ==
    /\ Fault /\ Complete(section, f, rows[section])
    /\ \A field \in Fields \ Offered(section) : f[field] = ""
    /\ rows' = [rows EXCEPT ![section] = Stored(section, rows[section], f)]
    /\ UNCHANGED <<section, form, seen, open, waiting, sent, verdict, clicks>>

(* The configuration is fetched again, and fills the form when it changed.  *)
Refetch ==
    /\ seen # rows[section] /\ seen' = rows[section]
    /\ form' = IF section \in Plugins THEN form ELSE Filled(section, rows[section])
    /\ UNCHANGED <<rows, section, open, waiting, sent, verdict, clicks, faults>>

Next ==
    \/ \E s \in Sections : ChooseCategory(s)
    \/ Open
    \/ Collapse
    \/ \E f \in Fields : \E t \in Any : Type(f, t)
    \/ FlipInForm
    \/ FlipPlugin
    \/ Save
    \/ Test
    \/ SaveDone
    \/ EnableDone
    \/ TestSaveDone
    \/ \E v \in {"ok", "failed"} : TestDone(v)
    \/ ToggleDone
    \/ Fail
    \/ \E f \in Configs : Elsewhere(f)
    \/ Refetch

Spec == Init /\ [][Next]_vars

-----------------------------------------------------------------------------
(* Properties. *)

TypeOK ==
    /\ rows \in [Sections -> Configs] /\ section \in Sections
    /\ form \in Configs /\ sent \in Configs /\ seen \in Configs /\ open \in BOOLEAN
    /\ waiting \in {"none", "save", "enable", "test", "test save", "toggle"}
    /\ verdict \in {"none", "ok", "failed"}

(* Whatever is turned on has everything it requires, its address, its       *)
(* secret or both, though the switch, the configuration and the secret      *)
(* travel in different requests, of which any may fail, and though others   *)
(* save the same section.                                                   *)
EnabledIsComplete ==
    \A s \in Sections : rows[s].on => \A field \in Required(s) : rows[s][field] # ""

(* A secret that was stored is only ever replaced by one somebody typed:    *)
(* "leave blank to keep existing", "None = keep existing".                  *)
SecretIsNeverDropped ==
    [][\A s \in Sections : rows[s].secret # "" => rows'[s].secret # ""]_vars

=============================================================================
