-------------------------------- MODULE Reads ---------------------------------
(***************************************************************************)
(* What the GET routes answer, as the rows each answer shows: the services *)
(* of Work's records, dashboard, finance, reports and command feed         *)
(* (apps/api/src).  An answer is made from the rows that are there when it *)
(* is asked for; filters, order, paging and the figures computed from the  *)
(* rows (sums, shares, trends, risk scores) are left out, so an answer is  *)
(* the most its route shows.                                               *)
(***************************************************************************)
EXTENDS Work

\* where: { organizationId }
All(k, org) == {i \in Of(k) : Owned(i, org)}
AllTasks(org) == {i \in Of("task") : TaskIn(i, org)}
AllEntries(org) == {i \in Of("entry") : EntryIn(i, org)}

\* where: { id, organizationId }: the row, or 404 and none.
One(x, org) == {i \in {x} : InOrg(i, org)}

\* include: the rows that those of a set name, and the rows that name them.
NamedBy(some, c) == {i \in Rows : Live(i) /\ \E j \in some : ref[j][c] = i}
Naming(k, c, some) == {i \in Of(k) : Live(i) /\ ref[i][c] \in some}

------------------------------------------------------------------------------
TaskFindAll(org) == AllTasks(org) \union NamedBy(AllTasks(org), "project")

TaskFindOne(x, org) ==
    LET project == NamedBy(One(x, org), "project") IN
    One(x, org) \union project \union NamedBy(project, "team")

ProjectFindAll(org) ==
    LET projects == All("project", org) IN
    projects \union NamedBy(projects, "team") \union Naming("task", "project", projects)

ProjectFindOne(x, org) ==
    One(x, org) \union NamedBy(One(x, org), "team") \union Naming("task", "project", One(x, org))

\* Comments, tags, files and time entries of a task or project: it is looked up
\* and then they are, by its id alone.
CommentsBy(c, x, org) == Naming("comment", c, One(x, org))
TagsBy(k, c, x, org) == NamedBy(Naming(k, c, One(x, org)), "tag")
TaskTags(x, org) == TagsBy("taskTag", "task", x, org)
ProjectTags(x, org) == TagsBy("projectTag", "project", x, org)
TagFindAll(org) == All("tag", org)

\* Files are asked for by the organization as well.
FilesBy(c, x, org) == Naming("file", c, One(x, org)) \intersect All("file", org)
FindRecent(org) == All("file", org)
GetFile(x, org) == One(x, org)

EntriesBy(c, x, org) ==
    LET entries == Naming("entry", c, One(x, org)) IN
    entries \union (IF c = "project" THEN NamedBy(entries, "task") ELSE {})

\* A person's time entries, with the figures per project (GET /time-entries,
\* /time-entries/stats).
EntriesByUser(org) ==
    AllEntries(org) \union NamedBy(AllEntries(org), "task")
                    \union NamedBy(AllEntries(org), "project")
GetStats(org) == AllEntries(org) \union NamedBy(AllEntries(org), "project")

DealFindAll(org) ==
    LET deals == All("deal", org) IN
    deals \union NamedBy(deals, "customer") \union Naming("milestone", "deal", deals)
          \union Naming("project", "deal", deals) \union Naming("invoice", "deal", deals)

DealFindOne(x, org) ==
    One(x, org) \union NamedBy(One(x, org), "customer")
                \union Naming("milestone", "deal", One(x, org))
                \union Naming("project", "deal", One(x, org))
                \union Naming("invoice", "deal", One(x, org))

CustomerFindAll(org) ==
    LET customers == All("customer", org) IN
    customers \union Naming("invoice", "customer", customers)
CustomerFindOne(x, org) == One(x, org) \union Naming("invoice", "customer", One(x, org))

InvoiceFindAll(org) ==
    LET invoices == All("invoice", org) IN invoices \union NamedBy(invoices, "customer")
InvoiceFindOne(x, org) == One(x, org) \union NamedBy(One(x, org), "customer")

SupplierFindAll(org) ==
    LET suppliers == All("supplier", org) IN
    suppliers \union Naming("order", "supplier", suppliers)
SupplierFindOne(x, org) == One(x, org) \union Naming("order", "supplier", One(x, org))

OrderFindAll(org) == All("order", org)
OrderFindOne(x, org) == One(x, org)
ProductFindAll(org) == All("product", org)
ProductFindOne(x, org) == One(x, org)
EventFindAll(org) == All("event", org)
EventFindOne(x, org) == One(x, org)
TeamFindAll(org) ==
    LET teams == All("team", org) IN teams \union Naming("project", "team", teams)
TeamFindOne(x, org) ==
    LET projects == Naming("project", "team", One(x, org)) IN
    One(x, org) \union projects \union Naming("task", "project", projects)

------------------------------------------------------------------------------
\* The overview counts tasks, projects and teams of three queries against each
\* other, adds up orders twice and reads two months again for the trends.
OverviewLists(org) ==
    LET projects == All("project", org) IN
    projects \union Naming("task", "project", projects) \union NamedBy(projects, "team")
             \union TaskFindAll(org) \union All("team", org)
Performance(org) ==
    {t \in AllTasks(org) : ref[t]["project"] \in Naming("project", "team", All("team", org))}
ProjectSummaries(org) ==
    LET projects == All("project", org) IN
    projects \union {t \in AllTasks(org) : ref[t]["project"] \in projects}
             \union {m \in All("team", org) : \E p \in projects : ref[p]["team"] = m}
TasksSummary(org) == AllTasks(org) \union NamedBy(AllTasks(org), "project")
Trends(org) == All("order", org) \union All("project", org) \union AllTasks(org)
GetOverview(org) ==
    OverviewLists(org) \union Performance(org) \union ProjectSummaries(org)
                       \union TasksSummary(org) \union Trends(org)

FinanceOverview(org) == All("invoice", org) \union All("order", org)
FinancialReport(org) == All("invoice", org) \union All("order", org)
ExportReport(org) ==
    LET projects == All("project", org) IN
    projects \union Naming("task", "project", projects) \union TaskFindAll(org)
             \union All("team", org)

\* Overdue tasks, unpaid invoices, deals at risk.
CommandFeed(org) ==
    LET deals == All("deal", org) IN
    TaskFindAll(org) \union InvoiceFindAll(org)
        \union deals \union NamedBy(deals, "customer") \union Naming("milestone", "deal", deals)

------------------------------------------------------------------------------
Lists(org) ==
    {TaskFindAll(org), ProjectFindAll(org), TagFindAll(org), FindRecent(org),
     EntriesByUser(org), GetStats(org), DealFindAll(org), CustomerFindAll(org),
     InvoiceFindAll(org), SupplierFindAll(org), OrderFindAll(org), ProductFindAll(org),
     EventFindAll(org), TeamFindAll(org), GetOverview(org), FinanceOverview(org),
     FinancialReport(org), ExportReport(org), CommandFeed(org)}

\* What is asked for by id.
Details(x, org) ==
    CASE kind[x] = "task" -> {TaskFindOne(x, org), CommentsBy("task", x, org), TaskTags(x, org),
                              FilesBy("task", x, org), EntriesBy("task", x, org)}
      [] kind[x] = "project" ->
            {ProjectFindOne(x, org), CommentsBy("project", x, org), ProjectTags(x, org),
             FilesBy("project", x, org), EntriesBy("project", x, org)}
      [] kind[x] = "deal" -> {DealFindOne(x, org)}
      [] kind[x] = "customer" -> {CustomerFindOne(x, org)}
      [] kind[x] = "invoice" -> {InvoiceFindOne(x, org)}
      [] kind[x] = "supplier" -> {SupplierFindOne(x, org)}
      [] kind[x] = "order" -> {OrderFindOne(x, org)}
      [] kind[x] = "product" -> {ProductFindOne(x, org)}
      [] kind[x] = "event" -> {EventFindOne(x, org)}
      [] kind[x] = "file" -> {GetFile(x, org)}
      [] kind[x] = "team" -> {TeamFindOne(x, org)}
      [] OTHER -> {}

Shown(org) == UNION (Lists(org) \union UNION {Details(x, org) : x \in Rows})

\* What the landing page says (HomeLanding.tsx:633): the data, teams and projects
\* of a workspace are its own.
WorkspacesAreIsolated == \A org \in Orgs : \A i \in Shown(org) : home[i] = org

\* A row that crosses ties its organization to that of its project.
Ties(j, org) == j \in crossed /\ Live(j) /\ org \in {home[j], home[ref[j]["project"]]}

\* No answer shows a row of another organization: where a route reads by a
\* task's, project's or deal's id alone, or follows references, it is the
\* handlers that write them that keep it within the organization.  A comment or
\* time entry whose project nobody looked up is shown with that project, and the
\* time entry shows its task there and its project here, and nothing beyond.
AnswersStayInOrg ==
    \A org \in Orgs : \A i \in Shown(org) :
       home[i] = org \/ \E j \in Rows : /\ ref[j]["project"] # None /\ Ties(j, org)
                                        /\ i \in {j, ref[j]["task"], ref[j]["project"]}

\* What somebody of the organization should find (the rows that attach a tag are
\* shown as the tag).
Findable(org) ==
    {i \in Rows : /\ Live(i) /\ home[i] = org /\ kind[i] \notin {"taskTag", "projectTag"}
                  /\ i \notin lost /\ ref[i]["task"] \notin lost}

\* Only the deletion of a project or task puts a row out of its organization's
\* sight: a task without a project, a time entry without either, and what hangs
\* on such tasks.  Everything else is shown by some route.
RowsAreShown == \A org \in Orgs : Findable(org) \subseteq Shown(org)
=============================================================================
