-------------------------------- MODULE Backups --------------------------------
(***************************************************************************)
(* Backups: the page with its settings, its "Run Now" and its history, the *)
(* hourly schedule, and runs of backup_service.run_backup that overlap,    *)
(* fail and die.  A file name is the second a run started in, so two runs  *)
(* may share one and write over each other.  A file and the record of it   *)
(* are past the retention together, once Age has made the name old.        *)
(***************************************************************************)
EXTENDS Naturals, FiniteSets

CONSTANTS Files, Runs,
          RetentionDays,  \* numbers of days
          Forms,          \* what may be typed into the form
          Storages,       \* cloud storages that may be configured
          MaxClicks, MaxFaults

VARIABLES
    settings,   \* the row: enabled, destination, retention in days
    status,     \* last_backup_status
    run,        \* run -> where it is, its file, its destination
    local,      \* the backup directory: "none", "partial" or "whole" file
    cloud,      \* objects: the storage and the file
    storage,    \* the cloud storage that is configured, or "none"
    records,    \* backup_records
    old,        \* names past the retention
    shared,     \* history: names that two runs have taken
    unsent,     \* history: names whose upload found no storage configured
    form,       \* the form: enabled, destination, value and unit; or Blank
    typed,      \* whether somebody typed since the form was filled
    cache,      \* the settings and the status as the page has them
    saving,     \* the settings that are being saved
    starting,   \* whether "Run Now" is on its way
    clicks, faults

vars == <<settings, status, run, local, cloud, storage, records, old, shared, unsent,
          form, typed, cache, saving, starting, clicks, faults>>
page == <<form, typed, cache, saving, starting, clicks>>
history == <<records, old, shared, unsent>>

Destinations == {"local", "cloud"}
Content == {"none", "partial", "whole"}
Statuses == {"none", "running", "success", "failed"}
Records == [file : Files, destination : Destinations, ok : BOOLEAN]
Units == {"days", "months", "years"}
NoFile == "no file"
SettingsRows == [enabled : BOOLEAN, destination : Destinations, days : Nat]
FormRows == [enabled : BOOLEAN, destination : Destinations,
             retention : [value : Nat, unit : Units]]

(* People choose and type whole numbers. *)
ASSUME BackupsAssumption == RetentionDays \subseteq Nat /\ Forms \subseteq FormRows

(* A run has a file from its start on. *)
Steps == [at : {"idle", "queued"}, file : {NoFile}, destination : {"local"}]
    \cup [at : {"dump", "writing", "written", "stored", "committed", "retained"},
          file : Files, destination : Destinations]

-----------------------------------------------------------------------------
(* The retention as the form shows it. *)

(* Slip kept for the checks: any number of days from a year on is in years. *)
RetentionFromDaysRough(days) ==
    CASE days >= 365 -> [value |-> days \div 365, unit |-> "years"]
      [] days < 365 /\ days >= 30 /\ days % 30 = 0 -> [value |-> days \div 30, unit |-> "months"]
      [] OTHER -> [value |-> days, unit |-> "days"]

RetentionFromDays(days) ==
    CASE days >= 365 /\ days % 365 = 0 -> [value |-> days \div 365, unit |-> "years"]
      [] days >= 30 /\ days % 30 = 0 /\ ~(days >= 365 /\ days % 365 = 0) ->
            [value |-> days \div 30, unit |-> "months"]
      [] OTHER -> [value |-> days, unit |-> "days"]

RetentionToDays(value, unit) ==
    CASE unit = "years" -> value * 365
      [] unit = "months" -> value * 30
      [] unit = "days" -> value

-----------------------------------------------------------------------------
(* The page. *)

Blank == [enabled |-> FALSE, destination |-> "local", retention |-> [value |-> 30, unit |-> "days"]]
FormOf(s) == [enabled |-> s.enabled, destination |-> s.destination, retention |-> RetentionFromDays(s.days)]
Saved(f) == [enabled |-> f.enabled, destination |-> f.destination,
             days |-> RetentionToDays(f.retention.value, f.retention.unit)]

Idle == [at |-> "idle", file |-> NoFile, destination |-> "local"]
Default == [enabled |-> FALSE, destination |-> "local", days |-> 90]

Init ==
    /\ settings = Default /\ status = "none"
    /\ run = [r \in Runs |-> Idle] /\ local = [f \in Files |-> "none"]
    /\ cloud = {} /\ storage \in Storages \cup {"none"}
    /\ records = {} /\ old = {} /\ shared = {} /\ unsent = {}
    /\ form = Blank /\ typed = FALSE
    /\ cache = [loaded |-> FALSE, settings |-> Default, status |-> "none"]
    /\ saving = {} /\ starting = FALSE
    /\ clicks = 0 /\ faults = 0

Click == clicks < MaxClicks /\ clicks' = clicks + 1
Fault == faults < MaxFaults /\ faults' = faults + 1

(* The configuration card: a switch, a destination, a retention.            *)
Edit(f) ==
    /\ Click /\ form' = f /\ form # f /\ typed' = TRUE
    /\ UNCHANGED <<settings, status, run, local, cloud, storage, history, cache, saving,
                   starting, faults>>

(* The button needs no settings: a blank form can be saved as well. *)
Save ==
    /\ Click /\ saving = {} /\ saving' = {Saved(form)}
    /\ UNCHANGED <<settings, status, run, local, cloud, storage, history, form, typed, cache,
                   starting, faults>>

(* PUT /admin/backup/config, all of the settings at once.                   *)
SaveArrives ==
    /\ saving # {} /\ saving' = {} /\ settings' \in saving
    /\ UNCHANGED <<status, run, local, cloud, storage, history, form, typed, cache, starting,
                   clicks, faults>>

SaveFails ==
    /\ saving # {} /\ saving' = {} /\ Fault
    /\ UNCHANGED <<settings, status, run, local, cloud, storage, history, form, typed, cache,
                   starting, clicks>>

(* Somebody else changes the retention, *)
SaveElsewhere(days) ==
    /\ Click /\ settings' = [settings EXCEPT !.days = days]
    /\ UNCHANGED <<status, run, local, cloud, storage, history, form, typed, cache, saving,
                   starting, faults>>

(* or configures another cloud storage; what is stored stays where it is.   *)
SwitchStorage(s) ==
    /\ Click /\ storage' = s
    /\ UNCHANGED <<settings, status, run, local, cloud, history, form, typed, cache, saving,
                   starting, faults>>

IsRunning == cache.status = "running" \/ starting

(* The status card: "Run Now" is disabled while a run is known. *)
RunNow ==
    /\ Click /\ ~IsRunning /\ starting' = TRUE
    /\ UNCHANGED <<settings, status, run, local, cloud, storage, history, form, typed, cache,
                   saving, faults>>

Put(r, step) == run' = [run EXCEPT ![r] = step]

(* POST /admin/backup/run: the status is committed, then the task is sent,  *)
(* and lost if the broker is down.                                          *)
Trigger ==
    /\ starting /\ starting' = FALSE /\ status' = "running"
    /\ \/ (\E r \in Runs : run[r] = Idle /\ Put(r, [Idle EXCEPT !.at = "queued"])) /\ UNCHANGED faults
       \/ Fault /\ UNCHANGED run
    /\ UNCHANGED <<settings, local, cloud, storage, history, form, typed, cache, saving, clicks>>

(* The settings fill the form when anything of them is news to the page,    *)
(* the status included, whatever is typed there.                            *)
FetchConfig ==
    LET now == [loaded |-> TRUE, settings |-> settings, status |-> status] IN
    /\ cache # now /\ cache' = now /\ form' = FormOf(settings) /\ typed' = FALSE
    /\ UNCHANGED <<settings, status, run, local, cloud, storage, history, saving, starting,
                   clicks, faults>>

-----------------------------------------------------------------------------
(* The hourly task, and run_backup. *)

CheckAndRun(r) ==
    /\ settings.enabled /\ run[r] = Idle
    /\ Put(r, [Idle EXCEPT !.at = "queued"])
    /\ UNCHANGED <<settings, status, local, cloud, storage, history, page, faults>>

Taken(file) ==
    \/ local[file] # "none"
    \/ \E r \in Runs : run[r].file = file
    \/ \E rec \in records : rec.file = file

Begin(r, file) ==
    /\ run[r].at = "queued" /\ file \notin old
    /\ status' = "running"
    /\ Put(r, [at |-> "dump", file |-> file, destination |-> settings.destination])
    /\ shared' = IF Taken(file) THEN shared \cup {file} ELSE shared
    /\ UNCHANGED <<settings, local, cloud, storage, records, old, unsent, page, faults>>

(* Dump, archive, bundle, encrypt; the file is truncated, *)
OpenFile(r) ==
    /\ run[r].at = "dump" /\ local' = [local EXCEPT ![run[r].file] = "partial"]
    /\ Put(r, [run[r] EXCEPT !.at = "writing"])
    /\ UNCHANGED <<settings, status, cloud, storage, history, page, faults>>

(* then written, perhaps over and under what another run writes there.      *)
CloseFile(r) ==
    /\ run[r].at = "writing"
    /\ \E c \in IF run[r].file \in shared THEN {"partial", "whole"} ELSE {"whole"} :
          local' = [local EXCEPT ![run[r].file] = c]
    /\ Put(r, [run[r] EXCEPT !.at = "written"])
    /\ UNCHANGED <<settings, status, cloud, storage, history, page, faults>>

Uploads(r) == run[r].destination = "cloud" /\ storage # "none"

(* Without a cloud storage the upload is skipped in silence. *)
Upload(r) ==
    /\ run[r].at = "written"
    /\ cloud' = IF Uploads(r) THEN cloud \cup {<<storage, run[r].file>>} ELSE cloud
    /\ unsent' = IF Uploads(r) THEN unsent ELSE unsent \cup {run[r].file}
    /\ Put(r, [run[r] EXCEPT !.at = "stored"])
    /\ UNCHANGED <<settings, status, local, storage, records, old, shared, page, faults>>

Succeeded(r) == [file |-> run[r].file, destination |-> run[r].destination, ok |-> TRUE]

(* Slip kept for the checks: the success is committed before the upload. *)
CommitEarly(r) ==
    /\ run[r].at = "written" /\ status' = "success" /\ records' = records \cup {Succeeded(r)}
    /\ Put(r, [run[r] EXCEPT !.at = "committed"])
    /\ UNCHANGED <<settings, local, cloud, storage, old, shared, unsent, page, faults>>

Commit(r) ==
    /\ run[r].at = "stored" /\ status' = "success" /\ records' = records \cup {Succeeded(r)}
    /\ Put(r, [run[r] EXCEPT !.at = "committed"])
    /\ UNCHANGED <<settings, local, cloud, storage, old, shared, unsent, page, faults>>

(* Retention first removes old files, *)
Retain(r) ==
    /\ run[r].at = "committed"
    /\ local' = [f \in Files |-> IF f \in old THEN "none" ELSE local[f]]
    /\ Put(r, [run[r] EXCEPT !.at = "retained"])
    /\ UNCHANGED <<settings, status, cloud, storage, history, page, faults>>

(* then old records and what the configured storage has of them.            *)
Forget(r) ==
    LET gone == {rec \in records : rec.file \in old} IN
    /\ run[r].at = "retained" /\ records' = records \ gone
    /\ cloud' = IF Uploads(r)
                THEN cloud \ {<<storage, rec.file>> : rec \in {g \in gone : g.destination = "cloud"}}
                ELSE cloud
    /\ Put(r, Idle)
    /\ UNCHANGED <<settings, status, local, storage, old, shared, unsent, page, faults>>

(* Any step from the dump on may raise: a failed record is added, with the   *)
(* destination of the settings as they are by then, also after the success   *)
(* was committed.  The upload may also have been done before it did.         *)
Raise(r) ==
    /\ run[r].at \notin {"idle", "queued"} /\ Fault
    /\ status' = "failed"
    /\ records' = records \cup
          {[file |-> run[r].file, destination |-> settings.destination, ok |-> FALSE]}
    /\ cloud' \in {cloud, IF run[r].at = "written" /\ Uploads(r)
                          THEN cloud \cup {<<storage, run[r].file>>} ELSE cloud}
    /\ Put(r, Idle)
    /\ UNCHANGED <<settings, local, storage, old, shared, unsent, page>>

(* Slip kept for the checks: a task delivered again keeps the file it had. *)
DieInPlace(r) ==
    /\ run[r] # Idle /\ Fault
    /\ \E at \in {"idle", "queued"} : Put(r, [run[r] EXCEPT !.at = at])
    /\ UNCHANGED <<settings, status, local, cloud, storage, history, page>>

(* The worker dies: its task is lost, or delivered again. *)
Die(r) ==
    /\ run[r] # Idle /\ Fault
    /\ \E at \in {"idle", "queued"} : Put(r, [Idle EXCEPT !.at = at])
    /\ UNCHANGED <<settings, status, local, cloud, storage, history, page>>

(* Retention is days and a run takes minutes. *)
Age(file) ==
    /\ file \notin old /\ old' = old \cup {file}
    /\ \A r \in Runs : run[r].file # file
    /\ \E rec \in records : rec.file = file
    /\ UNCHANGED <<settings, status, run, local, cloud, storage, records, shared, unsent, page, faults>>

Next ==
    \/ \E f \in Forms : Edit(f)
    \/ Save
    \/ SaveArrives
    \/ SaveFails
    \/ \E days \in RetentionDays : SaveElsewhere(days)
    \/ \E s \in Storages : SwitchStorage(s)
    \/ RunNow
    \/ Trigger
    \/ FetchConfig
    \/ \E r \in Runs : CheckAndRun(r)
    \/ \E r \in Runs : \E f \in Files : Begin(r, f)
    \/ \E r \in Runs : OpenFile(r)
    \/ \E r \in Runs : CloseFile(r)
    \/ \E r \in Runs : Upload(r)
    \/ \E r \in Runs : Commit(r)
    \/ \E r \in Runs : Retain(r)
    \/ \E r \in Runs : Forget(r)
    \/ \E r \in Runs : Raise(r)
    \/ \E r \in Runs : Die(r)
    \/ \E f \in Files : Age(f)

Spec == Init /\ [][Next]_vars

-----------------------------------------------------------------------------
(* Properties. *)

TypeOK ==
    /\ settings \in SettingsRows /\ status \in Statuses
    /\ run \in [Runs -> Steps]
    /\ local \in [Files -> Content] /\ cloud \subseteq Storages \X Files
    /\ storage \in Storages \cup {"none"}
    /\ records \subseteq Records /\ old \subseteq Files /\ shared \subseteq Files
    /\ unsent \subseteq Files
    /\ form \in FormRows /\ typed \in BOOLEAN
    /\ cache \in [loaded : BOOLEAN, settings : SettingsRows, status : Statuses]
    /\ saving \subseteq SettingsRows /\ starting \in BOOLEAN

(* A backup that the history calls a success is there and complete until    *)
(* the retention is over, in the directory and, if its destination was the   *)
(* cloud, in a storage too: whatever other runs, failures, dead workers and  *)
(* changes of settings and storage come between.  "A failed upload never     *)
(* produces a contradictory committed success record."  Two exceptions the   *)
(* code has: runs that started in the same second write to one file, and     *)
(* without a storage the upload is skipped.                                  *)
SuccessIsStored ==
    \A rec \in records : rec.ok /\ rec.file \notin old \cup shared =>
        /\ local[rec.file] = "whole"
        /\ rec.destination = "cloud" /\ rec.file \notin unsent =>
              \E s \in Storages : <<s, rec.file>> \in cloud

(* A form that was filled with the settings and in which nobody has typed    *)
(* saves what it was filled with, its retention shown as years, months or    *)
(* days: whoever changes the settings and whatever is saved and fetched.  (A *)
(* form that is still blank saves its blank values.)                         *)
RetentionKeepsItsDays ==
    cache.loaded /\ ~typed => Saved(form) = cache.settings

=============================================================================
