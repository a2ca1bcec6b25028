----------------------------- MODULE PageTables -----------------------------
(* What each page of the web application does with the query cache: the       *)
(* queries it mounts, which of them hide an error behind an empty answer, the *)
(* ones it polls, the keys its buttons ask again, and the saves it sends with *)
(* what each makes of the cache once it is answered.  A key is the sequence   *)
(* the source writes, an id or a filter being one fixed string; rows carry    *)
(* the kind of thing they are about.                                          *)
EXTENDS Sequences, SequencesExt, FiniteSets, Integers

Stay == "stay"     \* the answer of a save does not leave the page

\* A save of one kind whose answer invalidates the keys under some prefixes.
Save(kind, asks) ==
    [kind |-> kind, guesses |-> {}, sets |-> {}, marks |-> {}, asks |-> asks,
     again |-> {}, goes |-> Stay]

\* One that reads nothing again and leaves for another page.
Leaving(kind, asks, target) == [Save(kind, asks) EXCEPT !.goes = target]

Page(queries, saves) ==
    [queries |-> queries, hides |-> {}, polls |-> {}, reloads |-> {}, saves |-> saves]

\* Pages of several components.
Together(parts) ==
    [queries |-> UNION {p.queries : p \in parts}, hides |-> UNION {p.hides : p \in parts},
     polls |-> UNION {p.polls : p \in parts}, reloads |-> UNION {p.reloads : p \in parts},
     saves |-> UNION {p.saves : p \in parts}]

Unread == <<"notifications", "unread-count">>
Activities == <<"activities">>
Task == <<"task", "id">>
TaskList == <<"tasks", "filter">>
Tasks == <<"tasks">>
Project == <<"project", "id">>
Projects == <<"projects">>
Dashboard == <<"dashboard">>

----------------------------------------------------------------------------
\* Sidebar and top bar are on every page.
Shell == [Page({Unread}, {}) EXCEPT !.hides = {Unread}, !.polls = {Unread}]

\* The check mark of a row: the guess is put into the cache before the answer,
\* the page's own callback runs last.
TaskItem(again, asks) ==
    [Save("task", {Unread, Activities} \cup asks) EXCEPT
        !.guesses = {Task}, !.sets = {Task}, !.again = again,
        !.marks = {Tasks, Dashboard, Project}]

TasksPage ==
    [Page({TaskList, <<"task-tags-map">>}, {Save("task", {Tasks})})
        EXCEPT !.hides = {TaskList}]
TasksRows == Page({}, {TaskItem({TaskList}, {})})

TaskDetail ==
    Page({Task, Projects, <<"users">>},
         {Leaving("task", {Tasks}, "tasks"),
          [Save("task", {Unread, Activities}) EXCEPT
              !.sets = {Task}, !.marks = {Task, Tasks, Dashboard, Project}]})
TaskStatus ==
    Page({}, {[Save("task", {Unread, Activities}) EXCEPT
                  !.sets = {Task}, !.marks = {Task, Tasks, Dashboard, Project}]})
NewTask == Page({Projects, <<"users">>}, {Leaving("task", {}, "tasks")})

ProjectsPage ==
    [Page({Projects}, {Save("project", {Projects})}) EXCEPT !.hides = {Projects}]
ProjectDetail ==
    Page({Project},
         {Leaving("project", {Projects}, "projects"),
          [Save("project", {Unread, Activities}) EXCEPT
              !.sets = {Project}, !.marks = {Project, Projects, Dashboard, Tasks}]})
ProjectStatus ==
    Page({}, {[Save("project", {Unread, Activities}) EXCEPT
                  !.sets = {Project}, !.marks = {Project, Projects, Dashboard, Tasks}]})
ProjectRows == Page({}, {TaskItem({}, {Project, Projects, Dashboard})})
NewProject == Page({<<"customers">>}, {Leaving("project", {}, "project")})
Gantt == Page({<<"projects-gantt">>, <<"tasks-gantt">>}, {})

Comments ==
    LET key == <<"comments", "task", "id">>
    IN [Page({key}, {Save("comment", {key})}) EXCEPT !.hides = {key}]
Files ==
    LET key == <<"files", "task", "id">>
    IN [Page({key}, {Save("file", {key})}) EXCEPT !.hides = {key}]
TimeTracker ==
    LET key == <<"time-entries", "task", "id">>
    IN Page({key}, {Save("time", {key, <<"time-entries">>}), Save("time", {key})})
TagSelector ==
    LET this == <<"tags", "task", "id">>
    IN Page({<<"tags">>, this}, {Save("tag", {<<"tags">>}), Save("tagging", {this})})

----------------------------------------------------------------------------
DealsPage ==
    Page({<<"deals">>, <<"customers", "">>}, {Save("deal", {<<"deals">>})})
DealDetail ==
    LET this == <<"deal", "id">>
        feed == <<"command-feed">>
    IN Page({this, Projects},
            {Save("milestone", {this, <<"deals">>, feed}), Save("milestone", {this, feed}),
             Save("link", {this, Projects})})

TeamPage ==
    LET everything == {<<"teams">>, Tasks, Projects, Dashboard}
        queries == {<<"teams">>, <<"users">>, Tasks, Projects}
    IN [Page(queries, {Save("team", everything), Save("team", {<<"teams">>, Dashboard})})
            EXCEPT !.hides = queries]
TeamRetry == [Page({}, {}) EXCEPT !.reloads = {<<"teams">>}]
MemberPage ==
    LET this == <<"user", "id">>
    IN Page({this, <<"teams">>, <<"tasks", "user", "id">>, Projects},
            {Save("member", {this, <<"users">>, <<"teams">>}), Save("team", {<<"teams">>, this})})

InvoicesPage ==
    Page({<<"invoices", "filter">>, <<"customers">>, <<"products">>},
         {Save("invoice", {<<"invoices">>, <<"finance">>, <<"customers">>})})
InvoiceDetail ==
    LET this == <<"invoice", "id">>
    IN Page({this},
            {Leaving("invoice", {<<"invoices">>, <<"finance">>}, "invoices"),
             Save("invoice", {this, <<"invoices">>, <<"finance">>, <<"customers">>})})
FinancePage ==
    LET key == <<"finance", "range">>
    IN [Page({key}, {}) EXCEPT !.hides = {key}, !.polls = {key}]

CustomersPage ==
    Page({<<"customers", "search">>}, {Save("customer", {<<"customers">>})})
CustomerDetail ==
    LET this == <<"customer", "id">>
    IN Page({this}, {Save("customer", {this, <<"customers">>}),
                    Leaving("customer", {<<"customers">>}, "customers")})
SuppliersPage ==
    Page({<<"suppliers", "search">>}, {Save("supplier", {<<"suppliers">>})})
SupplierDetail ==
    LET this == <<"supplier", "id">>
    IN Page({this}, {Save("supplier", {this, <<"suppliers">>}),
                    Leaving("supplier", {<<"suppliers">>}, "suppliers")})
ProductsPage ==
    Page({<<"products", "filter">>}, {Save("product", {<<"products">>})})
PurchasingPage ==
    Page({<<"suppliers-dropdown">>, <<"orders", "filter">>},
         {Save("order", {<<"orders">>, <<"finance">>, <<"suppliers">>}),
          Save("order", {<<"orders">>})})

CalendarPage ==
    LET month == <<"calendar", "month">>
    IN [Page({month, Tasks, Projects}, {}) EXCEPT !.hides = {month, Tasks, Projects}]
CalendarMove ==
    Page({}, {Save(kind, {<<"calendar">>, Tasks, Projects}) :
                kind \in {"event", "task", "project"}})
CalendarTurn == [Page({}, {}) EXCEPT !.reloads = {<<"calendar">>}]
CalendarDelete == Page({}, {Save("event", {<<"calendar">>, <<"calendar", "month">>})})
CalendarForm == Page({}, {Save("event", {<<"calendar">>, <<"calendar", "month">>})})

----------------------------------------------------------------------------
CommandFeedPage ==
    LET key == <<"command-feed">>
    IN Page({key}, {Save(kind, {key, Tasks, <<"invoices">>}) : kind \in {"task", "invoice"}})
\* What is read is kept in localStorage, which the queries consult: a save that
\* no server sees.
NotificationsPage ==
    [Page({Activities}, {Save("read", {Activities, Unread})})
        EXCEPT !.hides = {Activities}, !.polls = {Activities}]
NotificationsRetry == [Page({}, {}) EXCEPT !.reloads = {Activities}]

PreferencesTab ==
    LET key == <<"notification-preferences">>
    IN Page({key}, {[Save("preferences", {}) EXCEPT !.sets = {key}]})
ProfileTab == Page({}, {Save("user", {<<"user">>, <<"users">>})})
AvatarTab == Page({}, {Save("user", {<<"user">>, <<"users">>})})
WorkspaceTab == Page({<<"organizations", "workspace">>}, {})
WorkspaceSaves == Page({}, {Save("workspace", {<<"organizations", "workspace">>})})

DashboardPage == Page({Dashboard}, {})
DashboardRows == Page({}, {TaskItem({Dashboard}, {})})
DashboardParts ==
    LET feed == <<"activity-feed">>
    IN [Page({feed, <<"calendar-mini", "month">>, <<"uploads-recent-dashboard">>}, {})
            EXCEPT !.hides = {feed}, !.polls = {feed}]
AnalyticsPage ==
    [Page({Dashboard, Projects, Tasks}, {}) EXCEPT !.hides = {Dashboard, Projects, Tasks}]
ReportsPage ==
    LET queries == {Projects, Tasks, <<"teams">>, <<"finance">>, <<"financial-report", "range">>}
    IN [Page(queries, {}) EXCEPT !.hides = queries]

Routes ==
    [tasks |-> Together({Shell, TasksPage, TasksRows}),
     task |-> Together({Shell, TaskDetail, TaskStatus, Comments, Files, TimeTracker, TagSelector}),
     newTask |-> Together({Shell, NewTask}),
     projects |-> Together({Shell, ProjectsPage}),
     project |-> Together({Shell, ProjectDetail, ProjectStatus, ProjectRows}),
     newProject |-> Together({Shell, NewProject}),
     gantt |-> Together({Shell, Gantt}),
     deals |-> Together({Shell, DealsPage}),
     deal |-> Together({Shell, DealDetail}),
     team |-> Together({Shell, TeamPage, TeamRetry}),
     member |-> Together({Shell, MemberPage}),
     invoices |-> Together({Shell, InvoicesPage}),
     invoice |-> Together({Shell, InvoiceDetail}),
     finance |-> Together({Shell, FinancePage}),
     customers |-> Together({Shell, CustomersPage}),
     customer |-> Together({Shell, CustomerDetail}),
     suppliers |-> Together({Shell, SuppliersPage}),
     supplier |-> Together({Shell, SupplierDetail}),
     products |-> Together({Shell, ProductsPage}),
     purchasing |-> Together({Shell, PurchasingPage}),
     calendar |-> Together({Shell, CalendarPage, CalendarMove, CalendarTurn,
                            CalendarDelete, CalendarForm}),
     commandFeed |-> Together({Shell, CommandFeedPage}),
     notifications |-> Together({Shell, NotificationsPage, NotificationsRetry}),
     settings |-> Together({Shell, PreferencesTab, ProfileTab, AvatarTab}),
     workspace |-> Together({Shell, PreferencesTab, WorkspaceTab, WorkspaceSaves}),
     dashboard |-> Together({Shell, DashboardPage, DashboardRows, DashboardParts}),
     analytics |-> Together({Shell, AnalyticsPage}),
     reports |-> Together({Shell, ReportsPage}),
     help |-> Shell]
Keys == UNION {Routes[p].queries : p \in DOMAIN Routes}

\* A key falls under the prefixes an invalidation names.
Names(prefixes, key) == \E prefix \in prefixes : IsPrefix(prefix, key)
=============================================================================
