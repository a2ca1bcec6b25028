----------------------------- MODULE NavTables -----------------------------
(* Which parts of the web app an organization uses, and what that shows and   *)
(* hides: the module lists of the API, the rules of the guard (AppShell), the *)
(* sidebar, and the steps of the product tour.  Each is a table of its own in *)
(* the code.  A path is its first segment.                                    *)
EXTENDS Sequences, Naturals

ModuleKeys ==
    {"overview", "analytics", "notifications", "team", "projects", "tasks", "calendar",
     "finance", "invoices", "products", "purchasing", "customers", "suppliers", "reports",
     "security", "settings", "help"}

\* MODULE_PACKS, and PACK_PRESET_MODULES of the module picker.
ModulesForPack ==
    [full |-> ModuleKeys,
     core |-> {"overview", "analytics", "notifications", "team", "projects", "tasks",
               "calendar", "security", "settings", "help"},
     sales |-> {"overview", "analytics", "notifications", "finance", "invoices", "products",
                "purchasing", "customers", "suppliers", "reports", "security", "settings",
                "help"}]

\* What the questionnaire of the onboarding page suggests.
BaseModules ==
    {"overview", "notifications", "team", "calendar", "security", "settings", "help"}
FocusToModules ==
    [team_projects |-> {"projects", "tasks", "analytics"},
     customers_sales |-> {"customers", "products", "invoices", "suppliers"},
     procurement |-> {"purchasing", "suppliers", "products"},
     finance_controlling |-> {"finance", "invoices", "reports"},
     reporting_insights |-> {"reports", "analytics"}]
IndustryToModules ==
    [trade |-> {"products", "customers", "suppliers"},
     production |-> {"products", "customers", "suppliers", "purchasing"},
     it_agency |-> {"projects", "tasks"}, services |-> {"projects", "tasks"},
     public |-> {"finance", "reports"}, other |-> {}]
TeamSizeToModules == [few |-> {}, many |-> {"analytics", "reports"}]
SuggestModules(focusAreas, industry, teamSize) ==
    BaseModules \cup UNION {FocusToModules[f] : f \in focusAreas}
                \cup IndustryToModules[industry] \cup TeamSizeToModules[teamSize]

\* Whatever list is saved, the API adds these.
MergeRequiredModules(chosen) ==
    chosen \cup {"overview", "notifications", "security", "settings", "help"}

----------------------------------------------------------------------------
\* RULES: a page without a rule is open to all.
RequiredModuleForPath ==
    [page \in (ModuleKeys \ {"overview"}) \cup {"dashboard", "onboarding"} |->
        IF page \in {"dashboard", "onboarding"} THEN "overview" ELSE page]
IsPathAllowed(path, modules) ==
    path \in DOMAIN RequiredModuleForPath => RequiredModuleForPath[path] \in modules

\* SIDEBAR_NAV_SECTIONS without the administration, which has no rule.
AlwaysShown == {"command-feed", "deals", "flow", "settings", "help"}
NavModule ==
    [href \in {"dashboard"} \cup (ModuleKeys \ {"overview", "settings", "help"}) |->
        IF href = "dashboard" THEN "overview" ELSE href]
IsNavItemVisible(href, modules) ==
    href \in AlwaysShown \/ (href \in DOMAIN NavModule /\ NavModule[href] \in modules)

----------------------------------------------------------------------------
\* A place: the path, and of the settings the tab the address names.
At(path) == [path |-> path, tab |-> ""]
Tab(tab) == [path |-> "settings", tab |-> tab]
Nowhere == At("nowhere")

\* A step: where it leads to, and what it points at there.
Step(place, selector) == [place |-> place, selector |-> selector, nav |-> ""]
NavStep(href) == [place |-> At("dashboard"), selector |-> "nav", nav |-> href]
PageStep(path) == Step(At(path), "page")
Steps(condition, steps) == IF condition THEN steps ELSE <<>>
CanManageWorkspace(role) == role \in {"OWNER", "ADMIN"}

SettingsTourSteps ==
    <<Step(Tab("profile"), "settings-tabs"), Step(Tab("security"), "settings-tabs"),
      Step(Tab("notifications"), "settings-tabs"),
      Step(Tab("personalization"), "settings-tabs")>>
WorkspaceTourSteps ==
    <<Step(Tab("workspace"), "settings-workspace"),
      Step(Tab("invite"), "workspace-invite-code")>>

\* Bug: the step on the invoices does not ask for the module.
BugBuildTourSteps(me) ==
    LET Can(path) == IsPathAllowed(path, me.modules)
    IN <<Step(At("dashboard"), "app-main"), NavStep("command-feed")>>
       \o Steps(Can("projects"), <<PageStep("projects")>>)
       \o <<PageStep("command-feed"), PageStep("deals"), PageStep("invoices")>>

BuildTourSteps(me) ==
    LET Can(path) == IsPathAllowed(path, me.modules)
        Page(path) == Steps(Can(path), <<PageStep(path)>>)
    IN <<Step(At("dashboard"), "app-main"),
         NavStep(IF Can("projects") THEN "projects"
                 ELSE IF Can("tasks") THEN "tasks" ELSE "command-feed")>>
       \o Page("projects") \o Page("tasks") \o Page("team") \o Page("notifications")
       \o <<PageStep("command-feed"), PageStep("deals")>>
       \o Page("analytics") \o Page("invoices") \o Page("customers")
       \o Steps(Can("settings"),
                SettingsTourSteps \o Steps(CanManageWorkspace(me.role), WorkspaceTourSteps))

\* With the step of the component itself, the last one.
TourSteps(me) == BuildTourSteps(me) \o <<Step(At("dashboard"), "app-main")>>

\* The address may have more in it than the step asks for.
StepMatchesLocation(place, step) ==
    /\ place.path = step.place.path
    /\ \/ step.place.tab \in {"", place.tab}
       \/ step.place.tab = "workspace" /\ place.tab = "invite"

\* The pages that have something for a step to point at.
PagesWithTarget ==
    {"projects", "tasks", "team", "notifications", "command-feed", "deals", "analytics",
     "invoices", "customers"}
=============================================================================
