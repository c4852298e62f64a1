---------------------------- MODULE ConnectorsProofs ----------------------------
(***************************************************************************)
(* What is proved of the integrations page, for any texts and any number   *)
(* of clicks, failures and other administrators.                           *)
(***************************************************************************)
EXTENDS Connectors, TLAPS

(* A configuration that is stored: what is on has all it requires, single   *)
(* sign-on that has an address has a secret, webhooks and the AI have none. *)
Sound(s, row) ==
    /\ row.on => Configured(s, row)
    /\ s = "sso" /\ row.address # "" => row.secret # ""
    /\ s \in {"ai", "webhook"} => row.secret = ""

(* What a save on its way may rely on. *)
Sendable(s, f, row) ==
    /\ s \in Plugins => Configured(s, f)
    /\ s = "webhook" => f.secret = ""
    /\ s \in {"sso", "smtp"} => f.address # ""
    /\ s = "sso" => f.secret # "" \/ row.secret # ""
    /\ s = "ai" /\ f.on => f.address # ""

RowsSound == \A s \in Sections : Sound(s, rows[s])
SentSound == waiting \in {"save", "test save"} => Sendable(section, sent, rows[section])
(* A client the page knows of has a secret, however old that knowledge is.  *)
SeenSound == section = "sso" /\ seen.address # "" => rows["sso"].secret # ""
(* A webhook's form has no field for a secret. *)
FormSound == section = "webhook" => form.secret = ""
EnableSound ==
    /\ waiting \in {"enable", "toggle"} => section \in Plugins
    /\ waiting = "enable" => Configured(section, rows[section])

Inductive == TypeOK /\ RowsSound /\ SentSound /\ SeenSound /\ FormSound /\ EnableSound

-----------------------------------------------------------------------------
(* One save. *)

LEMMA StoredIsTyped ==
    ASSUME NEW s \in Sections, NEW row \in Configs, NEW f \in Configs
    PROVE  Stored(s, row, f) \in Configs
  BY DEF Sections, Plugins, Configs, Any, Stored, PluginStored, SsoStored, SmtpStored, AiStored, Kept

LEMMA StoredIsSound ==
    ASSUME NEW s \in Sections, NEW row \in Configs, NEW f \in Configs,
           Sound(s, row), Sendable(s, f, row)
    PROVE  /\ Sound(s, Stored(s, row, f))
           /\ row.secret # "" => Stored(s, row, f).secret # ""
           /\ s \in Plugins => Configured(s, Stored(s, row, f))
  <1> USE DEF Configs, Any, Sound, Sendable, Stored, Kept, Configured, Required, Plugins
  <1>1. CASE s \in Plugins
    <2>1. /\ Stored(s, row, f) = [f EXCEPT !.on = row.on]
          /\ \A field \in Required(s) : f[field] # ""
      BY <1>1 DEF PluginStored
    <2>2. CASE s = "account"
      BY <2>1, <2>2
    <2>3. CASE s = "key"
      BY <2>1, <2>3
    <2>4. CASE s = "webhook"
      BY <2>1, <2>4
    <2> QED
      BY <1>1, <2>2, <2>3, <2>4
  <1>2. CASE s = "sso"
    BY <1>2 DEF SsoStored
  <1>3. CASE s = "smtp"
    BY <1>3 DEF SmtpStored
  <1>4. CASE s = "ai"
    BY <1>4 DEF AiStored
  <1> QED
    BY <1>1, <1>2, <1>3, <1>4 DEF Sections

LEMMA CompleteIsSendable ==
    ASSUME NEW s \in Sections, NEW f \in Configs, NEW row \in Configs, NEW known \in Configs,
           Complete(s, f, known), s = "webhook" => f.secret = "", s = "sso" /\ known.address # "" => row.secret # ""
    PROVE  Sendable(s, f, row)
  BY DEF Sections, Plugins, Complete, PluginComplete, SsoComplete, SmtpComplete, AiComplete,
         Sendable, Configured

LEMMA FilledIsTyped ==
    ASSUME NEW s \in Sections, NEW row \in Configs
    PROVE  Filled(s, row) \in Configs /\ (s \in Plugins => Filled(s, row).secret = "")
  BY DEF Sections, Plugins, Configs, Any, Filled, PluginFilled, SsoFilled, SmtpFilled, AiFilled

-----------------------------------------------------------------------------
(* A step that stores f in the section s keeps the rows sound and no secret *)
(* is dropped.                                                              *)

Keeps == \A s \in Sections : rows[s].secret # "" => rows'[s].secret # ""

LEMMA StoringIsSound ==
    ASSUME Inductive, NEW f \in Configs, Sendable(section, f, rows[section]),
           rows' = [rows EXCEPT ![section] = Stored(section, rows[section], f)]
    PROVE  /\ rows' \in [Sections -> Configs] /\ RowsSound' /\ Keeps
           /\ section \in Plugins => Configured(section, rows'[section])
  <1>1. section \in Sections /\ rows \in [Sections -> Configs] /\ RowsSound
    BY DEF Inductive, TypeOK
  <1>2. Stored(section, rows[section], f) \in Configs
    BY <1>1, StoredIsTyped
  <1>3. /\ Sound(section, Stored(section, rows[section], f))
        /\ rows[section].secret # "" => Stored(section, rows[section], f).secret # ""
        /\ section \in Plugins => Configured(section, Stored(section, rows[section], f))
    BY <1>1, StoredIsSound DEF RowsSound
  <1>4. rows' \in [Sections -> Configs]
    BY <1>1, <1>2
  <1>5. \A s \in Sections : rows'[s] = IF s = section THEN Stored(section, rows[section], f)
                                                      ELSE rows[s]
    BY <1>1
  <1>6. RowsSound'
    BY <1>1, <1>3, <1>5 DEF RowsSound
  <1>7. Keeps
    BY <1>1, <1>3, <1>5 DEF Keeps
  <1> QED
    BY <1>3, <1>4, <1>5, <1>6, <1>7, <1>1

(* The other way a row changes is a plugin's switch. *)
LEMMA SwitchingIsSound ==
    ASSUME Inductive, NEW b \in BOOLEAN, Configured(section, rows[section]),
           rows' = [rows EXCEPT ![section].on = b]
    PROVE  /\ rows' \in [Sections -> Configs] /\ RowsSound' /\ Keeps
  <1>1. rows \in [Sections -> Configs] /\ RowsSound /\ section \in Sections
    BY DEF Inductive, TypeOK
  <1>2. [rows[section] EXCEPT !.on = b] \in Configs
    BY <1>1 DEF Configs
  <1>3. \A s \in Sections : rows'[s] = IF s = section THEN [rows[section] EXCEPT !.on = b]
                                                      ELSE rows[s]
    BY <1>1
  <1>4. rows' \in [Sections -> Configs]
    BY <1>1, <1>2
  <1>5. RowsSound'
    <2>1. Configured(section, [rows[section] EXCEPT !.on = b])
      BY <1>1 DEF Configured, Required, Configs, Sections, Plugins
    <2>2. Sound(section, [rows[section] EXCEPT !.on = b])
      BY <1>1, <2>1 DEF RowsSound, Sound, Configs
    <2> QED
      BY <1>1, <1>3, <2>2 DEF RowsSound
  <1>6. Keeps
    BY <1>1, <1>3 DEF Keeps, Configs
  <1> QED
    BY <1>4, <1>5, <1>6

LEMMA InitInductive == Init => Inductive
  <1> SUFFICES ASSUME Init PROVE Inductive
    OBVIOUS
  <1>1. Nothing \in Configs
    BY DEF Nothing, Configs, Any
  <1>2. \A s \in Sections : rows[s] = Nothing /\ Sound(s, Nothing)
    BY DEF Init, Sound, Nothing
  <1>3. TypeOK
    BY <1>1 DEF Init, TypeOK, Sections, Plugins
  <1> QED
    BY <1>2, <1>3 DEF Init, Inductive, RowsSound, SentSound, SeenSound, FormSound, EnableSound, Nothing

(* The steps that change no row. *)
LEMMA QuietSteps ==
    ASSUME Inductive, UNCHANGED rows,
           TypeOK', SentSound', SeenSound', FormSound', EnableSound'
    PROVE  Inductive' /\ Keeps
  BY DEF Inductive, RowsSound, Keeps

LEMMA StepInductive ==
    ASSUME Inductive, [Next]_vars
    PROVE  Inductive' /\ Keeps
  <1>0. /\ TypeOK /\ RowsSound /\ SentSound /\ SeenSound /\ FormSound /\ EnableSound
        /\ rows \in [Sections -> Configs] /\ section \in Sections /\ form \in Configs
        /\ sent \in Configs /\ seen \in Configs /\ rows[section] \in Configs
        /\ section \in Plugins => section # "sso"
    BY DEF Inductive, TypeOK, Plugins
  <1>1. ASSUME NEW s \in Sections, ChooseCategory(s) PROVE Inductive' /\ Keeps
    <2>1. rows[s] \in Configs /\ Filled(s, rows[s]) \in Configs
      BY <1>0, FilledIsTyped
    <2>3. FormSound'
      BY <1>1, <1>0, <2>1, FilledIsTyped DEF ChooseCategory, Fill, FormSound, Plugins
    <2>4. TypeOK'
      BY <1>1, <1>0, <2>1 DEF ChooseCategory, Fill, TypeOK
    <2>5. SentSound' /\ EnableSound'
      BY <1>1, <1>0 DEF ChooseCategory, SentSound, EnableSound
    <2>2. SeenSound'
      BY <1>1, <1>0 DEF ChooseCategory, Fill, SeenSound, RowsSound, Sound
    <2> QED
      BY <1>1, <2>2, <2>3, <2>4, <2>5, QuietSteps DEF ChooseCategory
  <1>2. CASE Open
    <2>1. rows[section] \in Configs /\ Filled(section, rows[section]) \in Configs
      BY <1>0, FilledIsTyped
    <2>2. TypeOK'
      BY <1>2, <1>0, <2>1 DEF Open, Fill, TypeOK
    <2>3. SentSound' /\ SeenSound' /\ EnableSound'
      BY <1>2, <1>0 DEF Open, Fill, SentSound, SeenSound, EnableSound, RowsSound, Sound
    <2>4. FormSound'
      <3>1. CASE section \in Plugins
        <4>1. Filled(section, rows[section]).secret = ""
          BY <1>0, <3>1, FilledIsTyped
        <4> QED
          BY <1>2, <3>1, <4>1 DEF Open, Fill, FormSound
      <3>2. CASE section \notin Plugins
        BY <1>2, <3>2 DEF Open, FormSound, Plugins
      <3> QED
        BY <3>1, <3>2
    <2> QED
      BY <1>2, <2>2, <2>3, <2>4, QuietSteps DEF Open
  <1>3. CASE Collapse
    BY <1>3, <1>0, QuietSteps DEF Collapse, TypeOK, SentSound, SeenSound, FormSound, EnableSound
  <1>4. ASSUME NEW field \in Fields, NEW t \in Any, Type(field, t) PROVE Inductive' /\ Keeps
    <2>1. form' \in Configs
      BY <1>4, <1>0 DEF Type, Fields, Configs
    <2>2. FormSound'
      <3>1. section = "webhook" => field # "secret"
        BY <1>4 DEF Type, Offered, PluginFields, Required, Plugins
      <3> QED
        BY <1>4, <1>0, <3>1 DEF Type, FormSound, Configs, Fields
    <2> QED
      BY <1>4, <1>0, <2>1, <2>2, QuietSteps DEF Type, TypeOK, SentSound, SeenSound, EnableSound
  <1>5. CASE FlipInForm
    <2>1. form' \in Configs
      BY <1>5, <1>0 DEF FlipInForm, Configs
    <2>2. open' \in BOOLEAN
      BY <1>5 DEF FlipInForm
    <2>3. FormSound'
      BY <1>5, <1>0 DEF FlipInForm, FormSound, Plugins
    <2> QED
      BY <1>5, <1>0, <2>1, <2>2, <2>3, QuietSteps
         DEF FlipInForm, TypeOK, SentSound, SeenSound, EnableSound
  <1>6. CASE FlipPlugin
    BY <1>6, <1>0, QuietSteps DEF FlipPlugin, TypeOK, SentSound, SeenSound, FormSound, EnableSound
  <1>7. CASE Save
    <2>1. Sendable(section, form, rows[section])
      <3>1. /\ section = "webhook" => form.secret = ""
            /\ section = "sso" /\ seen.address # "" => rows[section].secret # ""
            /\ Complete(section, form, seen)
        BY <1>7, <1>0 DEF Save, SeenSound, FormSound
      <3> QED
        BY <1>0, <3>1, CompleteIsSendable
    <2> QED
      BY <1>7, <1>0, <2>1, QuietSteps DEF Save, TypeOK, SentSound, SeenSound, FormSound, EnableSound
  <1>8. CASE Test
    <2>1. /\ waiting' \in {"test save", "test"} /\ sent' = form
          /\ verdict' \in {"none", "ok", "failed"}
          /\ UNCHANGED <<rows, section, form, seen, open>>
      BY <1>8, <1>0 DEF Test, TypeOK, Sections, Plugins
    <2>2. waiting' = "test save" => Sendable(section, form, rows[section])
      BY <1>8, <1>0 DEF Test, PluginComplete, Sendable, Sections, Plugins, Configured,
                        FormSound
    <2> QED
      BY <1>0, <2>1, <2>2, QuietSteps DEF TypeOK, SentSound, SeenSound, FormSound, EnableSound
  <1>9. CASE SaveDone
    <2>1. Sendable(section, sent, rows[section])
      BY <1>9, <1>0 DEF SaveDone, SentSound
    <2>2. rows' = [rows EXCEPT ![section] = Stored(section, rows[section], sent)]
      BY <1>9 DEF SaveDone, Commit
    <2>3. /\ rows' \in [Sections -> Configs] /\ RowsSound' /\ Keeps
          /\ section \in Plugins => Configured(section, rows'[section])
      BY <1>0, <2>1, <2>2, StoringIsSound
    <2>4. /\ seen' = rows'[section] /\ section' = section
          /\ waiting' \in {"none", "enable"} /\ (waiting' = "enable" => section \in Plugins)
          /\ form' \in {form, Filled(section, rows'[section])}
          /\ open' \in {open, FALSE} /\ UNCHANGED <<sent, verdict>>
      BY <1>9 DEF SaveDone
    <2>5. /\ rows'[section] \in Configs /\ Filled(section, rows'[section]) \in Configs
          /\ section \in Plugins => Filled(section, rows'[section]).secret = ""
      BY <1>0, <2>3, FilledIsTyped
    <2>6. TypeOK'
      BY <1>0, <2>3, <2>4, <2>5 DEF TypeOK
    <2>7. SeenSound'
      BY <1>0, <2>3, <2>4 DEF SeenSound, RowsSound, Sound
    <2>8. FormSound'
      BY <1>0, <2>4, <2>5 DEF FormSound, Plugins
    <2>9. SentSound' /\ EnableSound'
      BY <1>0, <2>3, <2>4 DEF SentSound, EnableSound
    <2> QED
      BY <2>3, <2>6, <2>7, <2>8, <2>9 DEF Inductive
  <1>10. CASE EnableDone
    <2>1. /\ rows' = [rows EXCEPT ![section].on = TRUE] /\ Configured(section, rows[section])
          /\ section \in Plugins
      BY <1>10, <1>0 DEF EnableDone, EnableSound
    <2>2. rows' \in [Sections -> Configs] /\ RowsSound' /\ Keeps
      BY <2>1, SwitchingIsSound
    <2>3. rows'[section] \in Configs
      BY <1>0, <2>2
    <2>4. TypeOK'
      BY <1>10, <1>0, <2>2, <2>3 DEF EnableDone, TypeOK
    <2>5. SeenSound'
      BY <1>10, <2>1 DEF EnableDone, SeenSound, Plugins
    <2> QED
      BY <1>10, <1>0, <2>2, <2>4, <2>5 DEF EnableDone, Inductive, SentSound, FormSound, EnableSound
  <1>11. CASE TestSaveDone
    <2>1. Sendable(section, sent, rows[section])
      BY <1>11, <1>0 DEF TestSaveDone, SentSound
    <2>2. rows' = [rows EXCEPT ![section] = Stored(section, rows[section], sent)]
      BY <1>11 DEF TestSaveDone, Commit
    <2>3. rows' \in [Sections -> Configs] /\ RowsSound' /\ Keeps
      BY <1>0, <2>1, <2>2, StoringIsSound
    <2>4. rows'[section] \in Configs
      BY <1>0, <2>3
    <2>5. TypeOK'
      BY <1>11, <1>0, <2>3, <2>4 DEF TestSaveDone, TypeOK
    <2>6. SeenSound'
      BY <1>11, <1>0, <2>3 DEF TestSaveDone, SeenSound, RowsSound, Sound
    <2> QED
      BY <1>11, <1>0, <2>3, <2>5, <2>6 DEF TestSaveDone, Inductive, SentSound, FormSound, EnableSound
  <1>12. ASSUME NEW v \in {"ok", "failed"}, TestDone(v) PROVE Inductive' /\ Keeps
    BY <1>12, <1>0, QuietSteps DEF TestDone, TypeOK, SentSound, SeenSound, FormSound, EnableSound
  <1>13. CASE ToggleDone
    <2>1. /\ rows' = [rows EXCEPT ![section].on = ~seen.on]
          /\ Configured(section, rows[section]) /\ section \in Plugins
      BY <1>13, <1>0 DEF ToggleDone, EnableSound
    <2>0. (~seen.on) \in BOOLEAN
      OBVIOUS
    <2>2. rows' \in [Sections -> Configs] /\ RowsSound' /\ Keeps
      BY <2>0, <2>1, SwitchingIsSound
    <2>3. rows'[section] \in Configs
      BY <1>0, <2>2
    <2>4. TypeOK'
      BY <1>13, <1>0, <2>2, <2>3 DEF ToggleDone, TypeOK
    <2>5. SeenSound'
      BY <1>13, <2>1 DEF ToggleDone, SeenSound, Plugins
    <2> QED
      BY <1>13, <1>0, <2>2, <2>4, <2>5 DEF ToggleDone, Inductive, SentSound, FormSound, EnableSound
  <1>14. CASE Fail
    <2>1. /\ waiting' = "none" /\ verdict' \in {"failed", verdict}
          /\ UNCHANGED <<section, form, seen, open, sent>>
      BY <1>14 DEF Fail
    <2>2. CASE UNCHANGED rows
      BY <1>0, <2>1, <2>2, QuietSteps DEF TypeOK, SentSound, SeenSound, FormSound, EnableSound
    <2>3. CASE waiting \in {"save", "test save"} /\ Commit
      <3>1. rows' \in [Sections -> Configs] /\ RowsSound' /\ Keeps
        BY <1>0, <2>3, StoringIsSound DEF Commit, SentSound
      <3>2. TypeOK'
        BY <1>0, <2>1, <3>1 DEF TypeOK
      <3>3. SeenSound'
        BY <1>0, <2>1, <3>1 DEF SeenSound, Keeps
      <3> QED
        BY <1>0, <2>1, <3>1, <3>2, <3>3 DEF Inductive, SentSound, FormSound, EnableSound
    <2> QED
      BY <1>14, <2>2, <2>3 DEF Fail
  <1>15. ASSUME NEW f \in Configs, Elsewhere(f) PROVE Inductive' /\ Keeps
    <2>0. section = "webhook" => f.secret = ""
      BY <1>15 DEF Elsewhere, Fields, Offered, PluginFields, Required, Plugins
    <2>1. Sendable(section, f, rows[section])
      BY <1>15, <1>0, <2>0, CompleteIsSendable DEF Elsewhere, RowsSound, Sound
    <2>2. /\ rows' \in [Sections -> Configs] /\ RowsSound' /\ Keeps
          /\ section \in Plugins => Configured(section, rows'[section])
      BY <1>15, <1>0, <2>1, StoringIsSound DEF Elsewhere
    <2>3. TypeOK'
      BY <1>15, <1>0, <2>2 DEF Elsewhere, TypeOK
    <2>4. SeenSound' /\ EnableSound' /\ FormSound'
      BY <1>15, <1>0, <2>2 DEF Elsewhere, SeenSound, EnableSound, Keeps, FormSound
    <2>5. SentSound'
      BY <1>15, <1>0, <2>2 DEF Elsewhere, SentSound, Sendable, Keeps
    <2> QED
      BY <2>2, <2>3, <2>4, <2>5 DEF Inductive
  <1>16. CASE Refetch
    <2>1. Filled(section, rows[section]) \in Configs
      BY <1>0, FilledIsTyped
    <2>2. TypeOK'
      BY <1>16, <1>0, <2>1 DEF Refetch, TypeOK
    <2>3. SeenSound'
      BY <1>16, <1>0 DEF Refetch, SeenSound, RowsSound, Sound
    <2>4. FormSound'
      BY <1>16, <1>0 DEF Refetch, FormSound, Plugins
    <2> QED
      BY <1>16, <1>0, <2>2, <2>3, <2>4, QuietSteps DEF Refetch, SentSound, EnableSound
  <1>17. CASE UNCHANGED vars
    BY <1>17, <1>0, QuietSteps DEF vars, TypeOK, SentSound, SeenSound, FormSound, EnableSound
  <1> QED
    BY <1>1, <1>2, <1>3, <1>4, <1>5, <1>6, <1>7, <1>8, <1>9, <1>10, <1>11, <1>12, <1>13,
       <1>14, <1>15, <1>16, <1>17 DEF Next

LEMMA InductiveHolds == Spec => []Inductive
  <1>1. Inductive /\ [Next]_vars => Inductive'
    BY StepInductive
  <1> QED
    BY <1>1, InitInductive, PTL DEF Spec

-----------------------------------------------------------------------------
(* Type correctness of the sections, the form and what is on its way.       *)
THEOREM TypeCorrect == Spec => []TypeOK
  <1>1. Inductive => TypeOK
    BY DEF Inductive
  <1> QED
    BY <1>1, InductiveHolds, PTL

(* Whatever saves, switches and failures overlap, what is on can work.      *)
THEOREM WhatIsOnIsComplete == Spec => []EnabledIsComplete
  <1>1. Inductive => EnabledIsComplete
    BY DEF Inductive, RowsSound, Sound, Configured, EnabledIsComplete
  <1> QED
    BY <1>1, InductiveHolds, PTL

(* No step of the page, of a late request or of another administrator takes *)
(* a stored secret away.                                                    *)
THEOREM SecretsStay == Spec => SecretIsNeverDropped
  <1>1. Inductive /\ [Next]_vars
          => [\A s \in Sections : rows[s].secret # "" => rows'[s].secret # ""]_vars
    BY StepInductive DEF Keeps
  <1> QED
    BY <1>1, InductiveHolds, PTL DEF Spec, SecretIsNeverDropped

=============================================================================
