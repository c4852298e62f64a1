-------------------------------- MODULE MCPages --------------------------------
EXTENDS Pages

PageClicks ==
    [OrgForm |-> 2, Connectors |-> 5, TaskTemplates |-> 5, Indicators |-> 3,
     Assets |-> 4, Timeline |-> 4, Desk |-> 1, TemplateEditor |-> 3, TaskPanel |-> 2]

PageFailures ==
    [Connectors |-> 1, Indicators |-> 0, Assets |-> 1, Timeline |-> 1, Desk |-> 1,
     TemplateEditor |-> 1, TaskPanel |-> 1]

(* A page nobody works on starts in one of its initial states only. *)
MCInit ==
    /\ PagesInit
    /\ active # "OrgForm" => org = [text |-> "a", minutes |-> 0, mfa |-> FALSE]
    /\ active # "Indicators" => hasPlugins
    /\ active # "TemplateEditor" => eAt.page = "list"

MCSpec == MCInit /\ [][PagesNext]_pagesVars

=============================================================================
