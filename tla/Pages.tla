--------------------------------- MODULE Pages ---------------------------------
(***************************************************************************)
(* The pages of the application side by side.  They share no state but the *)
(* two counters that bound a run; a behaviour works on one page, the one   *)
(* it chooses at its start.                                                *)
(***************************************************************************)
EXTENDS Team

CONSTANTS
    ClickLimit, FaultLimit,              \* page -> how much is done there, and fails
    OrgTexts, OrgMinutes, MaxPuts,
    ConnectorTexts,
    IncidentTemplates, TaskTitles, PhaseNames, MaxTasks,
    Spans, IndicatorIds, IndicatorStatuses, TaskSlots,
    AssetIds, AssetStatuses, LinkTypes,
    EntryIds, EntryTypes, EntryFiles, EntryAssets,
    Titles, Severities, Dispositions, Assignees, MaxOthers,
    Shipped, Existing, ReportTemplates, Names, Colours, Companies, Types, AiTypes,
    AiDisabled, MaxBlocks,
    Tasks

VARIABLES
    active,   \* the page a run works on
    org, oCache, oForm, touched, source, asking, puts, oSent,
    cRows, section, cForm, cSeen, cOpen, cWaiting, cSent, verdict,
    mRows, mSeen, mOpen, mEditing, draft, saving, stamp,
    iRows, uncommitted, task, event, hasPlugins, iSeen, iTyped, text,
    detected, selected, modal, iWaiting,
    aRows, links, checked, aSeen, aShown, unlinked, tab, names, aEditing,
    aDeleting, ends, aWaiting,
    entries, taken, lSeen, filter, add, creating, lJobs, edit, saves,
    lToggles,
    inc, dThere, dCache, dEditor, closing, dDeleting, dRequests, latest,
    dOthers,
    eRows, listed, cached, eAt, dialog, eEditor, pending, leftover,
    eRequests, eTyped, unsure,
    tasks, panel, pToggles, fetch, pOthers

OrgFormPage == INSTANCE OrgForm WITH
    Texts <- OrgTexts, Minutes <- OrgMinutes,
    MaxClicks <- ClickLimit["OrgForm"], cache <- oCache, form <- oForm,
    sent <- oSent

ConnectorsPage == INSTANCE Connectors WITH
    Texts <- ConnectorTexts, MaxClicks <- ClickLimit["Connectors"],
    MaxFaults <- FaultLimit["Connectors"], rows <- cRows, form <- cForm,
    seen <- cSeen, open <- cOpen, waiting <- cWaiting, sent <- cSent

TaskTemplatesPage == INSTANCE TaskTemplates WITH
    Ids <- IncidentTemplates, Titles <- TaskTitles,
    MaxClicks <- ClickLimit["TaskTemplates"], rows <- mRows, seen <- mSeen,
    open <- mOpen, editing <- mEditing

IndicatorsPage == INSTANCE Indicators WITH
    Ids <- IndicatorIds, Statuses <- IndicatorStatuses,
    MaxClicks <- ClickLimit["Indicators"],
    MaxFaults <- FaultLimit["Indicators"], rows <- iRows, seen <- iSeen,
    typed <- iTyped, waiting <- iWaiting

AssetsPage == INSTANCE Assets WITH
    Ids <- AssetIds, Statuses <- AssetStatuses,
    MaxClicks <- ClickLimit["Assets"], MaxFaults <- FaultLimit["Assets"],
    rows <- aRows, seen <- aSeen, shown <- aShown, editing <- aEditing,
    deleting <- aDeleting, waiting <- aWaiting

TimelinePage == INSTANCE Timeline WITH
    Ids <- EntryIds, Files <- EntryFiles, Assets <- EntryAssets,
    MaxClicks <- ClickLimit["Timeline"], MaxFaults <- FaultLimit["Timeline"],
    seen <- lSeen, jobs <- lJobs, toggles <- lToggles

DeskPage == INSTANCE Desk WITH
    Analysts <- Assignees, MaxClicks <- ClickLimit["Desk"],
    MaxFaults <- FaultLimit["Desk"], there <- dThere, cache <- dCache,
    editor <- dEditor, deleting <- dDeleting, requests <- dRequests,
    others <- dOthers

TemplateEditorPage == INSTANCE TemplateEditor WITH
    Ids <- ReportTemplates, System <- Shipped,
    MaxClicks <- ClickLimit["TemplateEditor"],
    MaxFaults <- FaultLimit["TemplateEditor"], rows <- eRows, at <- eAt,
    editor <- eEditor, requests <- eRequests, typed <- eTyped

TaskPanelPage == INSTANCE TaskPanel WITH
    MaxClicks <- ClickLimit["TaskPanel"],
    MaxFaults <- FaultLimit["TaskPanel"], toggles <- pToggles,
    others <- pOthers

(* The lists that people choose from are not empty, and what stands for      *)
(* nothing in the modules above is none of the values it stands beside.      *)
ASSUME PagesAssumption ==
    /\ Titles # {} /\ Severities # {} /\ Assignees # {}
    /\ DeskPage!None \notin Dispositions
    /\ IsFiniteSet(AssetIds) /\ MaxTasks \in Nat
    /\ IndicatorsPage!Active \in IndicatorStatuses /\ AssetsPage!Suspected \in AssetStatuses
    /\ Shipped \cup Existing \subseteq ReportTemplates
    /\ Colours # {} /\ TemplateEditorPage!NoText \in Companies
    /\ TimelinePage!None \notin EntryIds /\ TimelinePage!Empty.type \in EntryTypes

teamVars == <<
    users, invites, shown, page, jobs, guest, requests >>
orgFormVars == <<
    org, oCache, oForm, touched, source, asking, puts, oSent >>
connectorsVars == <<
    cRows, section, cForm, cSeen, cOpen, cWaiting, cSent, verdict >>
taskTemplatesVars == <<
    mRows, mSeen, mOpen, mEditing, draft, saving, stamp >>
indicatorsVars == <<
    iRows, uncommitted, task, event, hasPlugins, iSeen, iTyped, text,
    detected, selected, modal, iWaiting >>
assetsVars == <<
    aRows, links, checked, aSeen, aShown, unlinked, tab, names, aEditing,
    aDeleting, ends, aWaiting >>
timelineVars == <<
    entries, taken, lSeen, filter, add, creating, lJobs, edit, saves,
    lToggles >>
deskVars == <<
    inc, dThere, dCache, dEditor, closing, dDeleting, dRequests, latest,
    dOthers >>
templateEditorVars == <<
    eRows, listed, cached, eAt, dialog, eEditor, pending, leftover,
    eRequests, eTyped, unsure >>
taskPanelVars == <<
    tasks, panel, pToggles, fetch, pOthers >>

pagesVars == <<active, clicks, faults,
          teamVars, orgFormVars, connectorsVars, taskTemplatesVars,
          indicatorsVars, assetsVars, timelineVars, deskVars,
          templateEditorVars, taskPanelVars>>

PagesInit ==
    /\ active \in {"Team", "OrgForm", "Connectors", "TaskTemplates", "Indicators",
                "Assets", "Timeline", "Desk", "TemplateEditor", "TaskPanel"}
    /\ Init
    /\ OrgFormPage!Init
    /\ ConnectorsPage!Init
    /\ TaskTemplatesPage!Init
    /\ IndicatorsPage!Init
    /\ AssetsPage!Init
    /\ TimelinePage!Init
    /\ DeskPage!Init
    /\ TemplateEditorPage!Init
    /\ TaskPanelPage!Init

PagesNext ==
    \/ /\ active = "Team" /\ Next
       /\ UNCHANGED <<active, orgFormVars, connectorsVars, taskTemplatesVars,
                         indicatorsVars, assetsVars, timelineVars, deskVars,
                         templateEditorVars, taskPanelVars>>
    \/ /\ active = "OrgForm" /\ OrgFormPage!Next
       /\ UNCHANGED <<active, faults, teamVars, connectorsVars, taskTemplatesVars,
                         indicatorsVars, assetsVars, timelineVars, deskVars,
                         templateEditorVars, taskPanelVars>>
    \/ /\ active = "Connectors" /\ ConnectorsPage!Next
       /\ UNCHANGED <<active, teamVars, orgFormVars, taskTemplatesVars,
                         indicatorsVars, assetsVars, timelineVars, deskVars,
                         templateEditorVars, taskPanelVars>>
    \/ /\ active = "TaskTemplates" /\ TaskTemplatesPage!Next
       /\ UNCHANGED <<active, faults, teamVars, orgFormVars, connectorsVars,
                         indicatorsVars, assetsVars, timelineVars, deskVars,
                         templateEditorVars, taskPanelVars>>
    \/ /\ active = "Indicators" /\ IndicatorsPage!Next
       /\ UNCHANGED <<active, teamVars, orgFormVars, connectorsVars,
                         taskTemplatesVars, assetsVars, timelineVars,
                         deskVars, templateEditorVars, taskPanelVars>>
    \/ /\ active = "Assets" /\ AssetsPage!Next
       /\ UNCHANGED <<active, teamVars, orgFormVars, connectorsVars,
                         taskTemplatesVars, indicatorsVars, timelineVars,
                         deskVars, templateEditorVars, taskPanelVars>>
    \/ /\ active = "Timeline" /\ TimelinePage!Next
       /\ UNCHANGED <<active, teamVars, orgFormVars, connectorsVars,
                         taskTemplatesVars, indicatorsVars, assetsVars,
                         deskVars, templateEditorVars, taskPanelVars>>
    \/ /\ active = "Desk" /\ DeskPage!Next
       /\ UNCHANGED <<active, teamVars, orgFormVars, connectorsVars,
                         taskTemplatesVars, indicatorsVars, assetsVars,
                         timelineVars, templateEditorVars, taskPanelVars>>
    \/ /\ active = "TemplateEditor" /\ TemplateEditorPage!Next
       /\ UNCHANGED <<active, teamVars, orgFormVars, connectorsVars,
                         taskTemplatesVars, indicatorsVars, assetsVars,
                         timelineVars, deskVars, taskPanelVars>>
    \/ /\ active = "TaskPanel" /\ TaskPanelPage!Next
       /\ UNCHANGED <<active, teamVars, orgFormVars, connectorsVars,
                         taskTemplatesVars, indicatorsVars, assetsVars,
                         timelineVars, deskVars, templateEditorVars>>

PagesSpec == PagesInit /\ [][PagesNext]_pagesVars

(* The properties of the pages, under their own names. *)

(* The page a run works on; the others stay as they start. *)
PagesTypeOK ==
    /\ active = "Team" => TypeOK
    /\ active = "OrgForm" => OrgFormPage!TypeOK
    /\ active = "Connectors" => ConnectorsPage!TypeOK
    /\ active = "TaskTemplates" => TaskTemplatesPage!TypeOK
    /\ active = "Indicators" => IndicatorsPage!TypeOK
    /\ active = "Assets" => AssetsPage!TypeOK
    /\ active = "Timeline" => TimelinePage!TypeOK
    /\ active = "Desk" => DeskPage!TypeOK
    /\ active = "TemplateEditor" => TemplateEditorPage!TypeOK
    /\ active = "TaskPanel" => TaskPanelPage!TypeOK

(* However the updates of several administrators overlap, the name, the     *)
(* limits and the MFA requirement only ever change to what a request asks   *)
(* for; or, since the limits and the requirement share a column that is     *)
(* written whole, back to what a request read before another changed it.    *)
UnaskedSettingsStay == OrgFormPage!UnaskedSettingsStay

(* Whatever is turned on has everything it requires, its address, its       *)
(* secret or both, though the switch, the configuration and the secret      *)
(* travel in different requests, of which any may fail, and though others   *)
(* save the same section.                                                   *)
EnabledIsComplete == ConnectorsPage!EnabledIsComplete

(* A secret that was stored is only ever replaced by one somebody typed:    *)
(* "leave blank to keep existing", "None = keep existing".                  *)
SecretIsNeverDropped == ConnectorsPage!SecretIsNeverDropped

(* Dragging a task reorders its phase and nothing else: no task is lost or   *)
(* doubled, the other phases stay, and what is shown afterwards is the order *)
(* the tasks have in the template, and so in an incident made from it.       *)
DragReordersItsPhase == TaskTemplatesPage!DragReordersItsPhase

(* The analyst's word stands: only a request of the page changes a status,   *)
(* and a deleted indicator stays deleted, whatever an enrichment that read   *)
(* the row before writes after.                                              *)
AnalystsWordStands == IndicatorsPage!AnalystsWordStands

(* Relationships join two assets of the incident, whatever is deleted while *)
(* they are asked for.  And deleting an asset fetches the assets again and   *)
(* not the relationships that went with it: still, as long as the page shows *)
(* no asset that is gone, a relationship it lists is there, or somebody      *)
(* removed that relationship itself.                                         *)
RelationshipsJoinAssets == AssetsPage!RelationshipsJoinAssets

(* "Entry added", "Entry updated": when that is said, each file that was     *)
(* sent has been taken for its entry by the server, or is among those that   *)
(* failed, though files fail one by one, entries are deleted under their     *)
(* uploads, and others are submitted and saved meanwhile.                    *)
EveryFileIsAccountedFor == TimelinePage!EveryFileIsAccountedFor

(* "Changing a report template's colour or company name lost the unsaved    *)
(* layout ... in quick succession could also lose the colour change" (#142  *)
(* of the changelog): whatever is fetched, saved or uploaded meanwhile,     *)
(* what the user chose since the template was shown stays on screen, and    *)
(* once no timer and no save is left, colour and company name are stored,   *)
(* unless a save failed or two overlapped.                                  *)
ChoicesStay == TemplateEditorPage!ChoicesStay

(* What is closed, contained or done says so in full, however the updates   *)
(* of several analysts overlap or are lost.                                 *)
SignedOff == DeskPage!SignedOff /\ TaskPanelPage!SignedOff

=============================================================================
