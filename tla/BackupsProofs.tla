----------------------------- MODULE BackupsProofs -----------------------------
(***************************************************************************)
(* What is proved of the backups page and its runs, for any number of      *)
(* runs, files, retentions and storages.                                   *)
(***************************************************************************)
EXTENDS Backups, TLAPS

-----------------------------------------------------------------------------
(* The conversion of the form. *)

LEMMA RetentionIsShown ==
    ASSUME NEW days \in Nat
    PROVE  RetentionFromDays(days) \in [value : Nat, unit : Units]
  <1>1. days \div 365 \in Nat /\ days \div 30 \in Nat
    BY SMT
  <1> QED
    BY <1>1 DEF RetentionFromDays, Units

(* Every number of days is shown as a value and a unit that give it back. *)
LEMMA ShownGivesBack ==
    ASSUME NEW days \in Nat
    PROVE  RetentionToDays(RetentionFromDays(days).value, RetentionFromDays(days).unit) = days
  <1>2. CASE days >= 365 /\ days % 365 = 0
    <2>1. (days \div 365) * 365 = days
      BY <1>2
    <2>2. RetentionFromDays(days) = [value |-> days \div 365, unit |-> "years"]
      BY <1>2 DEF RetentionFromDays
    <2> QED
      BY <2>1, <2>2 DEF RetentionToDays
  <1>3. CASE days >= 30 /\ days % 30 = 0 /\ ~(days >= 365 /\ days % 365 = 0)
    <2>1. (days \div 30) * 30 = days
      BY <1>3
    <2>2. RetentionFromDays(days) = [value |-> days \div 30, unit |-> "months"]
      BY <1>3 DEF RetentionFromDays
    <2> QED
      BY <2>1, <2>2 DEF RetentionToDays
  <1>4. CASE ~(days >= 365 /\ days % 365 = 0) /\ ~(days >= 30 /\ days % 30 = 0)
    <2>1. RetentionFromDays(days) = [value |-> days, unit |-> "days"]
      BY <1>4 DEF RetentionFromDays
    <2> QED
      BY <2>1 DEF RetentionToDays
  <1> QED
    BY <1>2, <1>3, <1>4

-----------------------------------------------------------------------------
(* Types, and that a run past its start has a file that is not old. *)

Active(r) == run[r].at \notin {"idle", "queued"}
RunsHaveFiles == \A r \in Runs : Active(r) => run[r].file \in Files \ old

LEMMA SettingsOfForms == ASSUME NEW f \in FormRows PROVE Saved(f) \in SettingsRows
  BY DEF Saved, RetentionToDays, Units, FormRows, SettingsRows

LEMMA FormsOfSettings == ASSUME NEW s \in SettingsRows PROVE FormOf(s) \in FormRows
  <1>1. RetentionFromDays(s.days) \in [value : Nat, unit : Units]
    BY RetentionIsShown DEF SettingsRows
  <1> QED
    BY <1>1 DEF FormOf, SettingsRows, FormRows

LEMMA InitTypeOK == Init => TypeOK /\ RunsHaveFiles
  <1> SUFFICES ASSUME Init PROVE TypeOK /\ RunsHaveFiles
    OBVIOUS
  <1>1. Idle \in Steps
    BY DEF Idle, Steps, Destinations
  <1>2. Default \in SettingsRows /\ Blank \in FormRows
    BY DEF Default, SettingsRows, Blank, FormRows, Destinations, Units
  <1> QED
    BY <1>1, <1>2 DEF Init, TypeOK, RunsHaveFiles, Active, Idle, Statuses, Content

(* A run that has a file goes on with it. *)
LEMMA GoingOn ==
    ASSUME NEW step \in Steps, step.at \notin {"idle", "queued"},
           NEW at \in {"dump", "writing", "written", "stored", "committed", "retained"}
    PROVE  [step EXCEPT !.at = at] \in Steps
  <1>1. step \in [at : {"dump", "writing", "written", "stored", "committed", "retained"},
                  file : Files, destination : Destinations]
    BY DEF Steps
  <1>2. [step EXCEPT !.at = at] \in
              [at : {"dump", "writing", "written", "stored", "committed", "retained"},
               file : Files, destination : Destinations]
    BY <1>1
  <1> QED
    BY <1>2 DEF Steps

LEMMA SucceededIsARecord ==
    ASSUME TypeOK, RunsHaveFiles, NEW r \in Runs, Active(r)
    PROVE  Succeeded(r) \in Records
  <1>1. run[r] \in Steps /\ run[r].file \in Files
    BY DEF TypeOK, RunsHaveFiles
  <1>2. run[r].destination \in Destinations
    BY <1>1 DEF Steps, Destinations
  <1> QED
    BY <1>1, <1>2 DEF Succeeded, Records

(* What an upload adds is an object of a storage that exists. *)
LEMMA UploadedIsAnObject ==
    ASSUME TypeOK, RunsHaveFiles, NEW r \in Runs, Active(r), Uploads(r)
    PROVE  <<storage, run[r].file>> \in Storages \X Files
  BY DEF TypeOK, RunsHaveFiles, Uploads

LEMMA StepTypeOK ==
    ASSUME TypeOK, RunsHaveFiles, [Next]_vars
    PROVE  TypeOK'
  <1> USE DEF TypeOK
  <1>0. Idle \in Steps /\ [Idle EXCEPT !.at = "queued"] \in Steps
    BY DEF Idle, Steps, Destinations
  <1>1. ASSUME NEW f \in Forms, Edit(f) PROVE TypeOK'
    BY <1>1, BackupsAssumption DEF Edit, history
  <1>2. CASE Save
    BY <1>2, SettingsOfForms DEF Save, history
  <1>3. CASE SaveArrives \/ SaveFails
    BY <1>3 DEF SaveArrives, SaveFails, history
  <1>4. ASSUME NEW days \in RetentionDays, SaveElsewhere(days) PROVE TypeOK'
    <2>1. settings' \in SettingsRows
      BY <1>4, BackupsAssumption DEF SaveElsewhere, SettingsRows
    <2> QED
      BY <1>4, <2>1 DEF SaveElsewhere, history
  <1>5. ASSUME NEW s \in Storages, SwitchStorage(s) PROVE TypeOK'
    BY <1>5 DEF SwitchStorage, history
  <1>6. CASE RunNow
    BY <1>6 DEF RunNow, history
  <1>7. CASE Trigger
    <2>1. run' \in [Runs -> Steps]
      BY <1>0, <1>7 DEF Trigger, Put
    <2> QED
      BY <1>7, <2>1 DEF Trigger, Statuses, history
  <1>8. CASE FetchConfig
    BY <1>8, FormsOfSettings DEF FetchConfig, history
  <1>9. ASSUME NEW r \in Runs, CheckAndRun(r) PROVE TypeOK'
    BY <1>9, <1>0 DEF CheckAndRun, Put, history, page
  <1>10. ASSUME NEW r \in Runs, NEW f \in Files, Begin(r, f) PROVE TypeOK'
    <2>1. settings.destination \in Destinations
      BY DEF SettingsRows
    <2>2. [at |-> "dump", file |-> f, destination |-> settings.destination] \in Steps
      BY <2>1 DEF Steps
    <2> QED
      BY <1>10, <2>2 DEF Begin, Put, Statuses, page
  <1>11. ASSUME NEW r \in Runs, OpenFile(r) \/ CloseFile(r) PROVE TypeOK'
    <2>1. run[r] \in Steps /\ run[r].at \notin {"idle", "queued"}
      BY <1>11 DEF OpenFile, CloseFile
    <2>2. \A at \in {"writing", "written"} : [run[r] EXCEPT !.at = at] \in Steps
      BY <2>1, GoingOn
    <2>3. run' \in [Runs -> Steps]
      BY <1>11, <2>2 DEF OpenFile, CloseFile, Put
    <2>4. local' \in [Files -> Content]
      BY <1>11 DEF OpenFile, CloseFile, Content
    <2> QED
      BY <1>11, <2>3, <2>4 DEF OpenFile, CloseFile, history, page
  <1>12. ASSUME NEW r \in Runs, Upload(r) PROVE TypeOK'
    <2>1. Active(r)
      BY <1>12 DEF Upload, Active
    <2>2. run' \in [Runs -> Steps]
      BY <1>12, GoingOn DEF Upload, Put
    <2>3. cloud' \subseteq Storages \X Files /\ unsent' \subseteq Files
      BY <1>12, <2>1, UploadedIsAnObject DEF Upload, RunsHaveFiles
    <2> QED
      BY <1>12, <2>2, <2>3 DEF Upload, page
  <1>13. ASSUME NEW r \in Runs, Commit(r) PROVE TypeOK'
    <2>1. Succeeded(r) \in Records
      BY <1>13, SucceededIsARecord DEF Commit, Active
    <2>2. run' \in [Runs -> Steps]
      BY <1>13, GoingOn DEF Commit, Put
    <2> QED
      BY <1>13, <2>1, <2>2 DEF Commit, Statuses, page
  <1>14. ASSUME NEW r \in Runs, Retain(r) PROVE TypeOK'
    <2>1. run' \in [Runs -> Steps]
      BY <1>14, GoingOn DEF Retain, Put
    <2>2. local' \in [Files -> Content]
      BY <1>14 DEF Retain, Content
    <2> QED
      BY <1>14, <2>1, <2>2 DEF Retain, history, page
  <1>15. ASSUME NEW r \in Runs, Forget(r) PROVE TypeOK'
    BY <1>15, <1>0 DEF Forget, Put, page
  <1>16. ASSUME NEW r \in Runs, Raise(r) PROVE TypeOK'
    <2>1. Active(r)
      BY <1>16 DEF Raise, Active
    <2>2. [file |-> run[r].file, destination |-> settings.destination, ok |-> FALSE] \in Records
      BY <2>1 DEF Records, SettingsRows, RunsHaveFiles
    <2>3. cloud' \subseteq Storages \X Files
      BY <1>16, <2>1, UploadedIsAnObject DEF Raise
    <2> QED
      BY <1>16, <1>0, <2>2, <2>3 DEF Raise, Put, Fault, Statuses, page
  <1>17. ASSUME NEW r \in Runs, Die(r) PROVE TypeOK'
    <2>1. \A at \in {"idle", "queued"} : [Idle EXCEPT !.at = at] \in Steps
      BY <1>0 DEF Idle, Steps
    <2> QED
      BY <1>17, <2>1 DEF Die, Put, history, page
  <1>18. ASSUME NEW f \in Files, Age(f) PROVE TypeOK'
    BY <1>18 DEF Age, page
  <1>19. CASE UNCHANGED vars
    BY <1>19 DEF vars
  <1> QED
    BY <1>1, <1>2, <1>3, <1>4, <1>5, <1>6, <1>7, <1>8, <1>9, <1>10, <1>11, <1>12, <1>13,
       <1>14, <1>15, <1>16, <1>17, <1>18, <1>19 DEF Next

(* What the steps do to the runs: nothing, or one of them is queued or ends,*)
(* or takes a name that is not old, or goes on with the one it has.         *)
Started(r, file) ==
    /\ file \notin old /\ run' = [run EXCEPT ![r] = run'[r]] /\ run'[r].file = file
    /\ run'[r].at = "dump" /\ shared' = IF Taken(file) THEN shared \cup {file} ELSE shared
    /\ UNCHANGED <<local, cloud, unsent, records, old>>
Stopped(r) ==
    /\ run' = [run EXCEPT ![r] = run'[r]] /\ run'[r].at \in {"idle", "queued"}
    /\ UNCHANGED <<old, shared, unsent>>
GoesOn(r) ==
    /\ Active(r) /\ run' = [run EXCEPT ![r] = run'[r]]
    /\ run'[r].file = run[r].file /\ run'[r].destination = run[r].destination
    /\ UNCHANGED <<old, shared>>

LEMMA StepOfRuns ==
    ASSUME TypeOK, [Next]_vars
    PROVE  \/ UNCHANGED <<run, local, cloud, records, old, shared, unsent>>
           \/ \E r \in Runs : Stopped(r) /\ UNCHANGED <<local, cloud, records>>
           \/ \E r \in Runs, f \in Files : Started(r, f)
           \/ \E r \in Runs : /\ GoesOn(r)
                              /\ \/ OpenFile(r) /\ run'[r].at = "writing"
                                 \/ CloseFile(r) /\ run'[r].at = "written"
                                 \/ Upload(r) /\ run'[r].at = "stored"
                                 \/ Commit(r) /\ run'[r].at = "committed"
                                 \/ Retain(r) /\ run'[r].at = "retained"
           \/ \E r \in Runs : Stopped(r) /\ (Forget(r) \/ Raise(r)) /\ Active(r)
           \/ \E f \in Files : Age(f)
  <1>0. run \in [Runs -> Steps]
    BY DEF TypeOK
  <1>1. CASE \/ \E f \in Forms : Edit(f)
             \/ Save \/ SaveArrives \/ SaveFails
             \/ \E days \in RetentionDays : SaveElsewhere(days)
             \/ \E s \in Storages : SwitchStorage(s)
             \/ RunNow \/ FetchConfig \/ UNCHANGED vars
    BY <1>1 DEF Edit, Save, SaveArrives, SaveFails, SaveElsewhere, SwitchStorage, RunNow, FetchConfig,
         vars, history
  <1>2. CASE Trigger
    <2>1. UNCHANGED <<local, cloud, records, old, shared, unsent>>
      BY <1>2 DEF Trigger, history
    <2>2. CASE UNCHANGED run
      BY <2>1, <2>2
    <2>3. ASSUME NEW r \in Runs, Put(r, [Idle EXCEPT !.at = "queued"])
          PROVE  Stopped(r)
      <3>1. run' = [run EXCEPT ![r] = run'[r]] /\ run'[r] = [Idle EXCEPT !.at = "queued"]
        BY <1>0, <2>3 DEF Put
      <3> QED
        BY <2>1, <3>1 DEF Stopped, Idle
    <2> QED
      BY <1>2, <2>1, <2>2, <2>3 DEF Trigger
  <1>3. ASSUME NEW r \in Runs, CheckAndRun(r) \/ Die(r)
        PROVE  Stopped(r) /\ UNCHANGED <<local, cloud, records>>
    <2>1. UNCHANGED <<local, cloud, records, old, shared, unsent>>
      BY <1>3 DEF CheckAndRun, Die, history
    <2>2. \E at \in {"idle", "queued"} : Put(r, [Idle EXCEPT !.at = at])
      BY <1>3 DEF CheckAndRun, Die
    <2>3. run' = [run EXCEPT ![r] = run'[r]] /\ run'[r].at \in {"idle", "queued"}
      BY <1>0, <2>2 DEF Put, Idle
    <2> QED
      BY <2>1, <2>3 DEF Stopped
  <1>4. ASSUME NEW r \in Runs, NEW f \in Files, Begin(r, f) PROVE Started(r, f)
    BY <1>0, <1>4 DEF Begin, Put, Started
  <1>5. ASSUME NEW r \in Runs, OpenFile(r)
        PROVE  GoesOn(r) /\ run'[r].at = "writing"
    BY <1>0, <1>5 DEF OpenFile, Put, Steps, GoesOn, Active, history
  <1>6. ASSUME NEW r \in Runs, CloseFile(r)
        PROVE  GoesOn(r) /\ run'[r].at = "written"
    BY <1>0, <1>6 DEF CloseFile, Put, Steps, GoesOn, Active, history
  <1>7. ASSUME NEW r \in Runs, Upload(r)
        PROVE  GoesOn(r) /\ run'[r].at = "stored"
    BY <1>0, <1>7 DEF Upload, Put, Steps, GoesOn, Active
  <1>8. ASSUME NEW r \in Runs, Commit(r)
        PROVE  GoesOn(r) /\ run'[r].at = "committed"
    BY <1>0, <1>8 DEF Commit, Put, Steps, GoesOn, Active
  <1>9. ASSUME NEW r \in Runs, Retain(r)
        PROVE  GoesOn(r) /\ run'[r].at = "retained"
    BY <1>0, <1>9 DEF Retain, Put, Steps, GoesOn, Active, history
  <1>10. ASSUME NEW r \in Runs, Forget(r) \/ Raise(r) PROVE Stopped(r) /\ Active(r)
    <2>1. run' = [run EXCEPT ![r] = Idle] /\ UNCHANGED <<old, shared, unsent>> /\ Active(r)
      BY <1>10 DEF Forget, Raise, Put, Active
    <2> QED
      BY <1>0, <2>1 DEF Stopped, Idle
  <1> QED
    BY <1>1, <1>2, <1>3, <1>4, <1>5, <1>6, <1>7, <1>8, <1>9, <1>10 DEF Next

(* Only the newly started run takes a name, and Age waits for runs to end. *)
LEMMA StepRunsHaveFiles ==
    ASSUME TypeOK, RunsHaveFiles, [Next]_vars
    PROVE  RunsHaveFiles'
  <1> USE DEF RunsHaveFiles, Active
  <1>0. run \in [Runs -> Steps]
    BY DEF TypeOK
  <1>1. CASE UNCHANGED <<run, old>>
    BY <1>1
  <1>2. ASSUME NEW r \in Runs, Stopped(r) PROVE RunsHaveFiles'
    BY <1>0, <1>2 DEF Stopped
  <1>3. ASSUME NEW r \in Runs, NEW f \in Files, Started(r, f) PROVE RunsHaveFiles'
    BY <1>0, <1>3 DEF Started
  <1>4. ASSUME NEW r \in Runs, GoesOn(r) PROVE RunsHaveFiles'
    BY <1>0, <1>4 DEF GoesOn
  <1>5. ASSUME NEW f \in Files, Age(f) PROVE RunsHaveFiles'
    BY <1>5 DEF Age
  <1> QED
    BY <1>1, <1>2, <1>3, <1>4, <1>5, StepOfRuns

(* Type correctness of the page, the settings, the runs and their records.  *)
THEOREM TypeCorrect == Spec => []TypeOK
  <1>1. Init => TypeOK /\ RunsHaveFiles
    BY InitTypeOK
  <1>2. TypeOK /\ RunsHaveFiles /\ [Next]_vars => (TypeOK /\ RunsHaveFiles)'
    BY StepTypeOK, StepRunsHaveFiles
  <1> QED
    BY <1>1, <1>2, PTL DEF Spec

-----------------------------------------------------------------------------
(* The form.  What it shows of settings saves them, and it shows those the  *)
(* page fetched last until somebody types.                                  *)

LEMMA FormGivesBack == ASSUME NEW s \in SettingsRows PROVE Saved(FormOf(s)) = s
  <1>1. s = [enabled |-> s.enabled, destination |-> s.destination, days |-> s.days] /\ s.days \in Nat
    BY DEF SettingsRows
  <1>2. Saved(FormOf(s)) =
          [enabled |-> s.enabled, destination |-> s.destination,
           days |-> RetentionToDays(RetentionFromDays(s.days).value, RetentionFromDays(s.days).unit)]
    BY DEF Saved, FormOf
  <1> QED
    BY <1>1, <1>2, ShownGivesBack

FormIsFilled == cache.loaded /\ ~typed => form = FormOf(cache.settings)

LEMMA StepFormIsFilled ==
    ASSUME FormIsFilled, [Next]_vars
    PROVE  FormIsFilled'
  <1> USE DEF FormIsFilled
  <1>1. CASE FetchConfig
    BY <1>1 DEF FetchConfig
  <1>2. ASSUME NEW f \in Forms, Edit(f) PROVE FormIsFilled'
    BY <1>2 DEF Edit
  <1>3. ASSUME UNCHANGED <<form, typed, cache>> PROVE FormIsFilled'
    BY <1>3
  <1>4. CASE \/ Save \/ SaveArrives \/ SaveFails \/ RunNow \/ Trigger
             \/ \E days \in RetentionDays : SaveElsewhere(days)
             \/ \E s \in Storages : SwitchStorage(s)
             \/ UNCHANGED vars
    BY <1>3, <1>4 DEF Save, SaveArrives, SaveFails, RunNow, Trigger, SaveElsewhere, SwitchStorage, vars
  <1>5. CASE \E r \in Runs : \/ CheckAndRun(r) \/ OpenFile(r) \/ CloseFile(r) \/ Upload(r) \/ Commit(r)
                             \/ Retain(r) \/ Forget(r) \/ Raise(r) \/ Die(r)
    BY <1>3, <1>5 DEF CheckAndRun, OpenFile, CloseFile, Upload, Commit, Retain, Forget, Raise, Die, page
  <1>6. CASE \E f \in Files : Age(f) \/ \E r \in Runs : Begin(r, f)
    BY <1>3, <1>6 DEF Age, Begin, page
  <1> QED
    BY <1>1, <1>2, <1>4, <1>5, <1>6 DEF Next

(* Whoever changes the settings and whatever is fetched and saved: a form   *)
(* of BackupsPage that was filled and not typed in saves what filled it,    *)
(* for every number of days.                                                *)
THEOREM RetentionIsKept == Spec => []RetentionKeepsItsDays
  <1>1. Init => FormIsFilled
    BY DEF Init, FormIsFilled
  <1>2. FormIsFilled /\ [Next]_vars => FormIsFilled'
    BY StepFormIsFilled
  <1>3. TypeOK /\ FormIsFilled => RetentionKeepsItsDays
    BY FormGivesBack DEF TypeOK, FormIsFilled, RetentionKeepsItsDays
  <1> QED
    BY <1>1, <1>2, <1>3, TypeCorrect, PTL DEF Spec

-----------------------------------------------------------------------------
(* A success is stored.  A run carries its file to the places its record    *)
(* will name before the record is committed.  Whoever else writes to that   *)
(* file has taken the same name, and what retention removes is old; old     *)
(* names are never given again.                                             *)

NotCommitted == {"dump", "writing", "written", "stored"}

(* Two runs, or a run and a record of an earlier one, have one name only if *)
(* that name is known to be shared.                                         *)
NamesAreOwn ==
    /\ \A q, r \in Runs : q # r /\ Active(q) /\ Active(r) /\ run[q].file = run[r].file
                             => run[r].file \in shared
    /\ \A r \in Runs : \A rec \in records :
          run[r].at \in NotCommitted /\ rec.file = run[r].file => run[r].file \in shared

InCloud(file) == \E s \in Storages : <<s, file>> \in cloud

RunStores(r) ==
    /\ run[r].at \in {"written", "stored"} /\ run[r].file \notin shared
          => local[run[r].file] = "whole"
    /\ run[r].at = "stored" /\ run[r].destination = "cloud" /\ run[r].file \notin unsent
          => InCloud(run[r].file)
RunsStore == \A r \in Runs : RunStores(r)

Inductive == TypeOK /\ RunsHaveFiles /\ NamesAreOwn /\ RunsStore /\ SuccessIsStored

LEMMA StepNamesAreOwn ==
    ASSUME Inductive, [Next]_vars
    PROVE  NamesAreOwn'
  <1> USE DEF NamesAreOwn, Active, NotCommitted
  <1>0. run \in [Runs -> Steps] /\ NamesAreOwn
    BY DEF Inductive, TypeOK
  <1>1. CASE UNCHANGED <<run, records, shared>>
    BY <1>0, <1>1
  <1>2. ASSUME NEW r \in Runs, Stopped(r), UNCHANGED records PROVE NamesAreOwn'
    BY <1>0, <1>2 DEF Stopped
  <1>3. ASSUME NEW r \in Runs, NEW f \in Files, Started(r, f) PROVE NamesAreOwn'
    <2>1. /\ \A q \in Runs : run'[q] = IF q = r THEN run'[r] ELSE run[q]
          /\ run'[r].file = f /\ records' = records
      BY <1>0, <1>3 DEF Started
    <2>2. shared \subseteq shared' /\ (Taken(f) => f \in shared')
      BY <1>3 DEF Started
    <2>3. (\E q \in Runs : run[q].file = f) \/ (\E rec \in records : rec.file = f) => Taken(f)
      BY DEF Taken
    <2> QED
      BY <1>0, <2>1, <2>2, <2>3
  <1>5. ASSUME NEW r \in Runs, GoesOn(r), run'[r].at \in NotCommitted => run[r].at \in NotCommitted,
               records' = records \/ (records' = records \cup {Succeeded(r)} /\ run'[r].at = "committed")
        PROVE  NamesAreOwn'
    <2>1. /\ \A q \in Runs : run'[q] = IF q = r THEN run'[r] ELSE run[q]
          /\ shared' = shared /\ run'[r].file = run[r].file /\ Active(r)
      BY <1>0, <1>5 DEF GoesOn
    <2>2. \A p, q \in Runs : p # q /\ Active(p)' /\ Active(q)' /\ run'[p].file = run'[q].file
                                => run'[q].file \in shared'
      BY <1>0, <2>1
    <2>3. ASSUME NEW q \in Runs, NEW rec \in records',
                 run'[q].at \in NotCommitted /\ rec.file = run'[q].file
          PROVE  run'[q].file \in shared'
      <3>1. run'[q].file = run[q].file /\ run[q].at \in NotCommitted
        BY <1>5, <2>1, <2>3
      <3>2. CASE rec \in records
        BY <1>0, <2>1, <2>3, <3>1, <3>2
      <3>3. CASE rec = Succeeded(r) /\ run'[r].at = "committed"
        <4>1. rec.file = run[r].file /\ q # r /\ Active(q)
          BY <2>3, <3>1, <3>3 DEF Succeeded
        <4> QED
          BY <1>0, <2>1, <2>3, <3>1, <4>1
      <3> QED
        BY <1>5, <3>2, <3>3
    <2> QED
      BY <2>2, <2>3
  <1>6. ASSUME NEW r \in Runs, Stopped(r), Forget(r) \/ Raise(r), Active(r) PROVE NamesAreOwn'
    <2>1. /\ \A q \in Runs : run'[q] = IF q = r THEN run'[r] ELSE run[q]
          /\ shared' = shared /\ run'[r].at \in {"idle", "queued"}
      BY <1>0, <1>6 DEF Stopped
    <2>2. \A rec \in records' : rec \in records \/ rec.file = run[r].file
      BY <1>6 DEF Forget, Raise
    <2> QED
      BY <1>0, <1>6, <2>1, <2>2
  <1>7. ASSUME NEW f \in Files, Age(f) PROVE NamesAreOwn'
    BY <1>0, <1>7 DEF Age
  <1>8. ASSUME NEW r \in Runs, GoesOn(r),
               \/ OpenFile(r) /\ run'[r].at = "writing"
               \/ CloseFile(r) /\ run'[r].at = "written"
               \/ Upload(r) /\ run'[r].at = "stored"
               \/ Commit(r) /\ run'[r].at = "committed"
               \/ Retain(r) /\ run'[r].at = "retained"
        PROVE  NamesAreOwn'
    <2>1. \/ records' = records
          \/ records' = records \cup {Succeeded(r)} /\ run'[r].at = "committed"
      BY <1>8 DEF OpenFile, CloseFile, Upload, Commit, Retain, history
    <2>2. run'[r].at \in NotCommitted => run[r].at \in NotCommitted
      BY <1>8 DEF OpenFile, CloseFile, Upload, Commit, Retain
    <2> QED
      BY <1>5, <1>8, <2>1, <2>2
  <1> QED
    BY <1>1, <1>2, <1>3, <1>6, <1>7, <1>8, StepOfRuns DEF Inductive

LEMMA StepRunsStore ==
    ASSUME Inductive, [Next]_vars
    PROVE  RunsStore'
  <1> USE DEF RunsStore, RunStores
  <1>0. run \in [Runs -> Steps] /\ local \in [Files -> Content] /\ RunsHaveFiles /\ NamesAreOwn /\ RunsStore
    BY DEF Inductive, TypeOK
  (* A step that is no write to a file a run has written, and loses no object of one. *)
  <1>1. ASSUME NEW r \in Runs,
               \A q \in Runs : run'[q] = run[q] \/ (q = r /\ run'[q].at \notin {"written", "stored"}),
               shared \subseteq shared', unsent \subseteq unsent',
               \A q \in Runs : q # r /\ run[q].at \in {"written", "stored"} /\ run[q].file \notin shared
                                 => local'[run[q].file] = local[run[q].file],
               \A q \in Runs : q # r /\ Active(q) /\ InCloud(run[q].file) => InCloud(run[q].file)',
               run'[r] = run[r] => UNCHANGED <<local, cloud>>
        PROVE  RunsStore'
    <2> SUFFICES ASSUME NEW q \in Runs PROVE RunStores(q)'
      OBVIOUS
    <2>1. CASE run'[q] = run[q] /\ q # r
      BY <1>0, <1>1, <2>1 DEF Active
    <2>2. CASE run'[q] = run[q] /\ q = r
      BY <1>0, <1>1, <2>2 DEF InCloud
    <2>3. CASE q = r /\ run'[q].at \notin {"written", "stored"}
      BY <2>3
    <2> QED
      BY <1>1, <2>1, <2>2, <2>3
  <1>2. CASE UNCHANGED <<run, local, cloud, records, old, shared, unsent>>
    BY <1>0, <1>2 DEF InCloud
  <1>3. ASSUME NEW r \in Runs, Stopped(r), UNCHANGED <<local, cloud>> PROVE RunsStore'
    BY <1>0, <1>3, <1>1 DEF Stopped, InCloud
  <1>4. ASSUME NEW r \in Runs, NEW f \in Files, Started(r, f) PROVE RunsStore'
    BY <1>0, <1>4, <1>1 DEF Started, InCloud
  <1>5. ASSUME NEW r \in Runs, GoesOn(r), OpenFile(r), run'[r].at = "writing" PROVE RunsStore'
    <2>1. \A q \in Runs : q # r /\ run[q].at \in {"written", "stored"} /\ run[q].file \notin shared
                            => run[q].file # run[r].file
      BY <1>0, <1>5 DEF NamesAreOwn, Active, GoesOn
    <2>2. /\ local' = [local EXCEPT ![run[r].file] = "partial"] /\ UNCHANGED <<cloud, shared, unsent>>
          /\ \A q \in Runs : run'[q] = IF q = r THEN run'[r] ELSE run[q]
          /\ run[r].at = "dump"
      BY <1>0, <1>5 DEF OpenFile, history, GoesOn
    <2>3. \A q \in Runs : q # r /\ run[q].at \in {"written", "stored"} /\ run[q].file \notin shared
                            => local'[run[q].file] = local[run[q].file]
      BY <1>0, <2>1, <2>2 DEF RunsHaveFiles, Active
    <2> QED
      BY <1>1, <1>5, <2>2, <2>3 DEF InCloud
  <1>6. ASSUME NEW r \in Runs, GoesOn(r), CloseFile(r), run'[r].at = "written" PROVE RunsStore'
    <2>1. \A q \in Runs : q # r /\ run[q].at \in {"written", "stored"} /\ run[q].file \notin shared
                            => run[q].file # run[r].file
      BY <1>0, <1>6 DEF NamesAreOwn, Active, GoesOn
    <2>2. /\ UNCHANGED <<cloud, shared, unsent>> /\ run[r].file \in Files
          /\ \A q \in Runs : run'[q] = IF q = r THEN run'[r] ELSE run[q]
          /\ run'[r].file = run[r].file
      BY <1>0, <1>6 DEF CloseFile, history, GoesOn, RunsHaveFiles
    <2>3. PICK c : /\ local' = [local EXCEPT ![run[r].file] = c]
                   /\ run[r].file \notin shared => c = "whole"
      BY <1>6 DEF CloseFile
    <2>4. \A q \in Runs : q # r /\ run[q].at \in {"written", "stored"} /\ run[q].file \notin shared
                            => local'[run[q].file] = local[run[q].file]
      BY <1>0, <2>1, <2>3 DEF RunsHaveFiles, Active
    <2>5. run[r].file \notin shared => local'[run[r].file] = "whole"
      BY <1>0, <2>2, <2>3
    <2> QED
      BY <1>0, <1>6, <2>2, <2>4, <2>5 DEF InCloud
  <1>7. ASSUME NEW r \in Runs, GoesOn(r), Upload(r), run'[r].at = "stored" PROVE RunsStore'
    <2>1. /\ run[r].at = "written" /\ UNCHANGED <<local, shared, storage>> /\ cloud \subseteq cloud'
          /\ unsent \subseteq unsent'
          /\ \A q \in Runs : run'[q] = IF q = r THEN run'[r] ELSE run[q]
          /\ run'[r].file = run[r].file /\ run'[r].destination = run[r].destination
      BY <1>0, <1>7 DEF Upload, GoesOn
    <2>2. Uploads(r) => InCloud(run[r].file)'
      <3>1. Uploads(r) => storage \in Storages /\ <<storage, run[r].file>> \in cloud'
        BY <1>7 DEF Upload, Uploads, Inductive, TypeOK
      <3> QED
        BY <3>1, <2>1 DEF InCloud
    <2>3. ~Uploads(r) => run[r].file \in unsent'
      BY <1>7 DEF Upload
    <2>4. \A f : InCloud(f) => InCloud(f)'
      BY <2>1 DEF InCloud
    <2> SUFFICES ASSUME NEW q \in Runs PROVE RunStores(q)'
      OBVIOUS
    <2>5. CASE q = r
      BY <1>0, <2>1, <2>2, <2>3, <2>5 DEF Uploads, InCloud
    <2>6. CASE q # r
      BY <1>0, <2>1, <2>4, <2>6 DEF InCloud
    <2> QED
      BY <2>5, <2>6
  <1>8. ASSUME NEW r \in Runs, GoesOn(r), Commit(r), run'[r].at = "committed" PROVE RunsStore'
    BY <1>0, <1>8, <1>1 DEF Commit, GoesOn, InCloud
  <1>9. ASSUME NEW r \in Runs, GoesOn(r), Retain(r), run'[r].at = "retained" PROVE RunsStore'
    <2>1. \A f \in Files : f \notin old => local'[f] = local[f]
      BY <1>9 DEF Retain
    <2>2. UNCHANGED <<cloud, shared, unsent>> /\ run[r].at = "committed"
      BY <1>9 DEF Retain, history
    <2>4. \A q \in Runs : run'[q] = IF q = r THEN run'[r] ELSE run[q]
      BY <1>0, <1>9 DEF GoesOn
    <2>3. \A q \in Runs : q # r /\ run[q].at \in {"written", "stored"} /\ run[q].file \notin shared
                            => local'[run[q].file] = local[run[q].file]
      BY <1>0, <2>1 DEF RunsHaveFiles, Active
    <2> QED
      BY <1>1, <1>9, <2>2, <2>3, <2>4 DEF InCloud
  <1>10. ASSUME NEW r \in Runs, Stopped(r), Forget(r) \/ Raise(r), Active(r) PROVE RunsStore'
    <2>1. /\ local' = local /\ UNCHANGED <<shared, unsent>>
          /\ \A q \in Runs : run'[q] = IF q = r THEN run'[r] ELSE run[q]
          /\ run'[r].at \in {"idle", "queued"}
      BY <1>0, <1>10 DEF Forget, Raise, Stopped
    <2>2. \A s, f : <<s, f>> \in cloud /\ f \notin old => <<s, f>> \in cloud'
      BY <1>10 DEF Forget, Raise
    <2>3. \A q \in Runs : q # r /\ Active(q) /\ InCloud(run[q].file) => InCloud(run[q].file)'
      <3> SUFFICES ASSUME NEW q \in Runs, q # r, Active(q), InCloud(run[q].file)
                   PROVE  \E s \in Storages : <<s, run'[q].file>> \in cloud' /\ run'[q].file = run[q].file
        BY <2>1 DEF InCloud
      <3>1. run[q].file \notin old
        BY <1>0 DEF RunsHaveFiles
      <3> QED
        BY <2>1, <2>2, <3>1 DEF InCloud
    <2> SUFFICES ASSUME NEW q \in Runs PROVE RunStores(q)'
      OBVIOUS
    <2>4. CASE q = r
      BY <2>1, <2>4
    <2>5. CASE q # r
      BY <1>0, <2>1, <2>3, <2>5 DEF Active, InCloud
    <2> QED
      BY <2>4, <2>5
  <1>11. ASSUME NEW f \in Files, Age(f) PROVE RunsStore'
    BY <1>0, <1>11 DEF Age, InCloud
  <1> QED
    BY <1>2, <1>3, <1>4, <1>5, <1>6, <1>7, <1>8, <1>9, <1>10, <1>11, StepOfRuns DEF Inductive

LEMMA StepSuccessIsStored ==
    ASSUME Inductive, [Next]_vars
    PROVE  SuccessIsStored'
  <1> USE DEF SuccessIsStored
  <1>0. /\ run \in [Runs -> Steps] /\ local \in [Files -> Content] /\ RunsHaveFiles /\ NamesAreOwn
        /\ RunsStore /\ SuccessIsStored /\ records \subseteq Records
    BY DEF Inductive, TypeOK
  (* The records that are not shared or old keep what they have. *)
  <1>1. ASSUME shared \subseteq shared', old \subseteq old', unsent \subseteq unsent',
               \A rec \in records' : rec.ok => rec \in records,
               \A f \in Files \ (old \cup shared) :
                   (\E rec \in records : rec.file = f) => local'[f] = local[f],
               \A s \in Storages, f \in Files : <<s, f>> \in cloud /\ f \notin old => <<s, f>> \in cloud'
        PROVE  SuccessIsStored'
    <2> SUFFICES ASSUME NEW rec \in records', rec.ok, rec.file \notin old' \cup shared'
                 PROVE  /\ local'[rec.file] = "whole"
                        /\ rec.destination = "cloud" /\ rec.file \notin unsent' =>
                              \E s \in Storages : <<s, rec.file>> \in cloud'
      OBVIOUS
    <2>1. rec \in records /\ rec.file \in Files /\ rec.file \notin old \cup shared
      BY <1>0, <1>1 DEF Records
    <2> QED
      BY <1>0, <1>1, <2>1
  <1>2. CASE UNCHANGED <<run, local, cloud, records, old, shared, unsent>>
    BY <1>0, <1>2
  <1>3. ASSUME NEW r \in Runs, Stopped(r), UNCHANGED <<local, cloud, records>> PROVE SuccessIsStored'
    BY <1>1, <1>3 DEF Stopped
  <1>4. ASSUME NEW r \in Runs, NEW f \in Files, Started(r, f) PROVE SuccessIsStored'
    BY <1>1, <1>4 DEF Started
  <1>5. ASSUME NEW r \in Runs, OpenFile(r) \/ CloseFile(r) PROVE SuccessIsStored'
    <2>1. run[r].at \in {"dump", "writing"} /\ UNCHANGED <<cloud, records, old, shared, unsent>>
      BY <1>5 DEF OpenFile, CloseFile, history
    <2>2. \A rec \in records : rec.file = run[r].file => rec.file \in shared
      BY <1>0, <2>1 DEF NamesAreOwn, NotCommitted
    <2>3. \A f \in Files : f # run[r].file => local'[f] = local[f]
      BY <1>0, <1>5 DEF OpenFile, CloseFile
    <2> QED
      BY <1>1, <2>1, <2>2, <2>3
  <1>6. ASSUME NEW r \in Runs, Upload(r) PROVE SuccessIsStored'
    BY <1>1, <1>6 DEF Upload
  <1>7. ASSUME NEW r \in Runs, Commit(r) PROVE SuccessIsStored'
    <2>1. Succeeded(r).file = run[r].file /\ Succeeded(r).destination = run[r].destination
      BY DEF Succeeded
    <2>2. records' = records \cup {Succeeded(r)} /\ run[r].at = "stored"
          /\ UNCHANGED <<local, cloud, old, shared, unsent>>
      BY <1>7 DEF Commit
    <2> QED
      BY <1>0, <2>1, <2>2 DEF RunsStore, RunStores, InCloud
  <1>8. ASSUME NEW r \in Runs, Retain(r) PROVE SuccessIsStored'
    <2>1. \A f \in Files : f \notin old => local'[f] = local[f]
      BY <1>8 DEF Retain
    <2> QED
      BY <1>1, <1>8, <2>1 DEF Retain, history
  <1>9. ASSUME NEW r \in Runs, Forget(r) \/ Raise(r) PROVE SuccessIsStored'
    <2>1. UNCHANGED <<local, old, shared, unsent>>
      BY <1>9 DEF Forget, Raise
    <2>2. \A s, f : <<s, f>> \in cloud /\ f \notin old => <<s, f>> \in cloud'
      BY <1>9 DEF Forget, Raise
    <2>3. \A rec \in records' : rec.ok => rec \in records
      BY <1>9 DEF Forget, Raise
    <2> QED
      BY <1>1, <2>1, <2>2, <2>3
  <1>10. ASSUME NEW f \in Files, Age(f) PROVE SuccessIsStored'
    BY <1>1, <1>10 DEF Age
  <1> QED
    BY <1>2, <1>3, <1>4, <1>5, <1>6, <1>7, <1>8, <1>9, <1>10, StepOfRuns DEF Inductive

LEMMA InitInductive == Init => Inductive
  BY InitTypeOK DEF Init, Inductive, NamesAreOwn, RunsStore, RunStores, SuccessIsStored, Idle, Active, NotCommitted

LEMMA StepInductive == Inductive /\ [Next]_vars => Inductive'
  BY StepTypeOK, StepRunsHaveFiles, StepNamesAreOwn, StepRunsStore, StepSuccessIsStored DEF Inductive

(* Whatever runs overlap, fail and die, and whatever settings and storages  *)
(* change meanwhile: a backup that the history calls a success is there and *)
(* complete until it is past the retention, unless its name was taken twice *)
(* (the file) or its upload found no storage (the object).                  *)
THEOREM SuccessesAreStored == Spec => []SuccessIsStored
  <1>1. Inductive => SuccessIsStored
    BY DEF Inductive
  <1> QED
    BY InitInductive, StepInductive, <1>1, PTL DEF Spec

=============================================================================
