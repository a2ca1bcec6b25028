------------------------------ MODULE Reminders ------------------------------
(* Deadline reminders (reminders.scheduler.ts, email.service.ts) and the task  *)
(* handlers they race with (task.service.ts).  An hourly scan reads the tasks  *)
(* whose deadline is near and goes through what it read one by one: it sends,  *)
(* which may take long, and then stamps the task, so that it is left alone for *)
(* 36 hours.  Nothing keeps two scans apart.  A member may remind an assignee  *)
(* by hand.                                                                    *)
(*                                                                             *)
(* An hour is one tick.  Day, StaleAfter and Horizon may be given in coarser   *)
(* ticks.                                                                      *)
EXTENDS Naturals, FiniteSets

CONSTANTS
    Tasks, Users,
    Scans, Nudges,  \* bounds: scans and reminders by hand under way at one time
    Day,            \* 24 hours
    StaleAfter,     \* 36 hours
    Horizon,        \* 8 days
    Take,           \* tasks one scan reads, 200
    Deadlines,      \* the deadlines tasks are given
    DaysBefore,     \* the values of taskDueReminderDaysBefore users choose
    Channels,       \* and how: "none", "email", "sms" (email or not)
    MailFails,      \* whether the mail server may refuse
    MaxTime,        \* bound on the clock
    Null

ASSUME RemindersAssumption ==
    /\ {Day, StaleAfter, Horizon, Take, MaxTime} \subseteq Nat \ {0}
    /\ Deadlines \subseteq Nat /\ DaysBefore \subseteq Nat
    /\ Channels \subseteq {"none", "email", "sms"}
    /\ MailFails \in BOOLEAN
    /\ Null \notin Nat \union Users \union Tasks

VARIABLES
    now,
    tasks,    \* Task rows, Null where there is none
    prefs,    \* UserNotificationPreferences
    cron,     \* this hour's scan has not started yet
    scans,    \* deadlineReminders under way
    nudges,   \* nudgeAssignee under way: the task that was sent and is not stamped
    sentAt,   \* history: when a scan last sent a reminder of the task, unless the
              \* server stopped before it was stamped
    touched,  \* history: tasks whose reminding somebody changed within this hour, or
              \* whose mail failed
    left,     \* history: tasks this hour's query left out, more than `Take` matching
    complete  \* history: a scan of this hour ran to its end

vars == <<now, tasks, prefs, cron, scans, nudges, sentAt, touched, left, complete>>

TaskRows == [deadline : Deadlines \cup {Null}, done : BOOLEAN,
             assignee : Users \cup {Null}, stamp : (0 .. MaxTime) \cup {Null}]
Idle == [at |-> Null, batch |-> {}, sent |-> Null]
Read(t) == [id |-> t, deadline |-> tasks[t].deadline, assignee |-> tasks[t].assignee]

\* Bug: it is stored when the next one may be sent.
BugStampNext(t) == tasks' = [tasks EXCEPT ![t].stamp = now + StaleAfter]

Stamp(t) == tasks' = [tasks EXCEPT ![t].stamp = now]

-----------------------------------------------------------------------------
\* The where clause of the scan.
Selected(t) ==
    LET row == tasks[t]
    IN  /\ row # Null /\ ~row.done
        /\ row.assignee # Null
        /\ row.deadline # Null /\ row.deadline > now /\ row.deadline <= now + Horizon
        /\ row.stamp # Null => now > row.stamp + StaleAfter

\* The query takes any `Take` of them: it names no order.
ScanStart(s) ==
    /\ cron /\ scans[s] = Idle
    /\ \E batch \in SUBSET {t \in Tasks : Selected(t)} :
           /\ Cardinality(batch) <= Take
           /\ Cardinality(batch) < Take => batch = {t \in Tasks : Selected(t)}
           /\ scans' = [scans EXCEPT ![s] =
                            [at |-> now, batch |-> {Read(t) : t \in batch}, sent |-> Null]]
           /\ left' = {t \in Tasks \ batch : Selected(t)}
    /\ cron' = FALSE
    /\ UNCHANGED <<now, tasks, prefs, nudges, sentAt, touched, complete>>

\* Bug: the first day of the window is left out.
BugWanted(s, r) ==
    /\ prefs[r.assignee].channel # "none"
    /\ r.deadline < scans[s].at + prefs[r.assignee].days * Day

\* What the scan decides for a task it read, with the clock of its start.
Wanted(s, r) ==
    /\ prefs[r.assignee].channel # "none"
    /\ r.deadline <= scans[s].at + prefs[r.assignee].days * Day

ScanSkip(s, r) ==
    /\ scans[s].sent = Null /\ r \in scans[s].batch
    /\ ~Wanted(s, r)
    /\ scans' = [scans EXCEPT ![s].batch = @ \ {r}]
    /\ UNCHANGED <<now, tasks, prefs, cron, nudges, sentAt, touched, left, complete>>

\* sendDeadlineReminderEmail: the task is read again, but only for its text.
\* An SMS counts as sent.
Delivers(u, ok) == IF prefs[u].channel = "email" THEN ok ELSE prefs[u].channel = "sms"

ScanSend(s, r, ok) ==
    /\ scans[s].sent = Null /\ r \in scans[s].batch
    /\ Wanted(s, r)
    /\ ok \/ MailFails
    /\ IF tasks[r.id] # Null /\ Delivers(r.assignee, ok)
       THEN /\ scans' = [scans EXCEPT ![s].batch = @ \ {r}, ![s].sent = r.id]
            /\ sentAt' = [sentAt EXCEPT ![r.id] = now]
       ELSE /\ scans' = [scans EXCEPT ![s].batch = @ \ {r}]
            /\ UNCHANGED sentAt
    /\ touched' = IF ok THEN touched ELSE touched \cup {r.id}
    /\ UNCHANGED <<now, tasks, prefs, cron, nudges, left, complete>>

\* Bug: the stamp is forgotten.
BugNoStamp(s) ==
    /\ scans[s].sent # Null
    /\ scans' = [scans EXCEPT ![s].sent = Null]
    /\ UNCHANGED <<now, tasks, prefs, cron, nudges, sentAt, touched, left, complete>>

\* The update of a task deleted meanwhile throws, and nobody catches it.
ScanStamp(s) ==
    /\ scans[s].sent # Null
    /\ IF tasks[scans[s].sent] # Null
       THEN /\ Stamp(scans[s].sent)
            /\ scans' = [scans EXCEPT ![s].sent = Null]
       ELSE /\ scans' = [scans EXCEPT ![s] = Idle]
            /\ UNCHANGED tasks
    /\ UNCHANGED <<now, prefs, cron, nudges, sentAt, touched, left, complete>>

ScanEnd(s) ==
    /\ scans[s] # Idle /\ scans[s].batch = {} /\ scans[s].sent = Null
    /\ complete' = (complete \/ scans[s].at = now)
    /\ scans' = [scans EXCEPT ![s] = Idle]
    /\ UNCHANGED <<now, tasks, prefs, cron, nudges, sentAt, touched, left>>

\* The server stops, also between a mail and its stamp; a scan missed is not made
\* up for.
Restart ==
    /\ scans' = [s \in Scans |-> Idle]
    /\ nudges' = [n \in Nudges |-> Null]
    /\ cron' = FALSE
    /\ sentAt' = [t \in Tasks |-> IF \E s \in Scans : scans[s].sent = t THEN Null ELSE sentAt[t]]
    /\ UNCHANGED <<now, tasks, prefs, touched, left, complete>>

\* A scan under way is slower than an hour only while another one may start.
Tick ==
    /\ now < MaxTime /\ ~cron
    /\ \E s \in Scans : scans[s] = Idle
    /\ now' = now + 1
    /\ cron' = TRUE
    /\ touched' = {}
    /\ left' = {}
    /\ complete' = FALSE
    /\ UNCHANGED <<tasks, prefs, scans, nudges, sentAt>>

-----------------------------------------------------------------------------
\* The members.

Create(t, d, u) ==
    /\ tasks[t] = Null /\ sentAt[t] = Null
    /\ tasks' = [tasks EXCEPT ![t] =
                     [deadline |-> d, done |-> FALSE, assignee |-> u, stamp |-> Null]]
    /\ touched' = touched \cup {t}
    /\ UNCHANGED <<now, prefs, cron, scans, nudges, sentAt, left, complete>>

\* update, bulkUpdate, of one field (a request for several is several of them):
\* the stamp stays, whoever and whatever it was for.
Update(t) ==
    /\ tasks[t] # Null
    /\ \/ \E d \in Deadlines \cup {Null} : tasks' = [tasks EXCEPT ![t].deadline = d]
       \/ \E done \in BOOLEAN : tasks' = [tasks EXCEPT ![t].done = done]
       \/ \E u \in Users \cup {Null} : tasks' = [tasks EXCEPT ![t].assignee = u]
    /\ touched' = touched \cup {t}
    /\ UNCHANGED <<now, prefs, cron, scans, nudges, sentAt, left, complete>>

\* remove, bulkDelete
Remove(t) ==
    /\ tasks[t] # Null
    /\ tasks' = [tasks EXCEPT ![t] = Null]
    /\ touched' = touched \cup {t}
    /\ UNCHANGED <<now, prefs, cron, scans, nudges, sentAt, left, complete>>

\* nudgeAssignee: whenever it likes, finished tasks included, and it stamps.
NudgeSend(n, t) ==
    /\ nudges[n] = Null
    /\ tasks[t] # Null /\ tasks[t].assignee # Null
    /\ \E ok \in {TRUE, ~MailFails} : Delivers(tasks[t].assignee, ok)
    /\ nudges' = [nudges EXCEPT ![n] = t]
    /\ UNCHANGED <<now, tasks, prefs, cron, scans, sentAt, touched, left, complete>>

NudgeStamp(n) ==
    /\ nudges[n] # Null
    /\ IF tasks[nudges[n]] # Null THEN Stamp(nudges[n]) ELSE UNCHANGED tasks
    /\ nudges' = [nudges EXCEPT ![n] = Null]
    /\ UNCHANGED <<now, prefs, cron, scans, sentAt, touched, left, complete>>

UpdatePreferences(u, days, channel) ==
    /\ prefs' = [prefs EXCEPT ![u] = [days |-> days, channel |-> channel]]
    /\ touched' = touched \cup {t \in Tasks : tasks[t] # Null}
    /\ UNCHANGED <<now, tasks, cron, scans, nudges, sentAt, left, complete>>

-----------------------------------------------------------------------------
Init ==
    /\ now = 0
    /\ tasks = [t \in Tasks |-> Null]
    /\ prefs \in [Users -> [days : DaysBefore, channel : Channels]]
    /\ cron = FALSE
    /\ scans = [s \in Scans |-> Idle]
    /\ nudges = [n \in Nudges |-> Null]
    /\ sentAt = [t \in Tasks |-> Null]
    /\ touched = {}
    /\ left = {}
    /\ complete = FALSE

Scan(s) ==
    \/ ScanStart(s) \/ ScanStamp(s) \/ ScanEnd(s)
    \/ \E r \in scans[s].batch : ScanSkip(s, r) \/ \E ok \in BOOLEAN : ScanSend(s, r, ok)

Member ==
    \/ \E t \in Tasks, d \in Deadlines \cup {Null}, u \in Users \cup {Null} : Create(t, d, u)
    \/ \E t \in Tasks : Update(t) \/ Remove(t) \/ \E n \in Nudges : NudgeSend(n, t)
    \/ \E n \in Nudges : NudgeStamp(n)
    \/ \E u \in Users, d \in DaysBefore, c \in Channels : UpdatePreferences(u, d, c)

Next == (\E s \in Scans : Scan(s)) \/ Tick \/ Restart \/ Member

Spec == Init /\ [][Next]_vars

-----------------------------------------------------------------------------
Times == (0 .. MaxTime) \cup {Null}

TypeOK ==
    /\ now \in 0 .. MaxTime
    /\ \A t \in Tasks : tasks[t] # Null => tasks[t] \in TaskRows
    /\ prefs \in [Users -> [days : DaysBefore, channel : Channels]]
    /\ cron \in BOOLEAN
    /\ \A s \in Scans :
           /\ scans[s].at \in Times /\ scans[s].sent \in Tasks \cup {Null}
           /\ scans[s].batch \subseteq [id : Tasks, deadline : Deadlines, assignee : Users]
    /\ nudges \in [Nudges -> Tasks \cup {Null}]
    /\ sentAt \in [Tasks -> Times]
    /\ touched \subseteq Tasks /\ left \subseteq Tasks
    /\ complete \in BOOLEAN

\* A task the scan is to remind of: its deadline is no further off than its
\* assignee asks, and no further than the horizon.  Nothing is due for 0 days.
Due(t) ==
    LET row == tasks[t]
    IN  /\ row # Null /\ ~row.done /\ row.assignee # Null /\ row.deadline # Null
        /\ prefs[row.assignee].channel # "none"
        /\ now < row.deadline /\ row.deadline <= now + Horizon
        /\ row.deadline <= now + prefs[row.assignee].days * Day

\* When a scan has run to its end every task that is due, and was when the hour
\* began, has been reminded of within the last 36 hours, by a scan or by hand:
\* edits, deletions, the stamps of other handlers and the boundaries of the window
\* (0 days, the day itself, more days than the horizon) leave none out; only a
\* query cut at `Take` does.  Who asks for 0 days is reminded of nothing, although
\* 0 is to mean the day of the deadline (schema.prisma:117).
DueTasksAreReminded ==
    complete => \A t \in Tasks \ (touched \cup left) :
        Due(t) => tasks[t].stamp # Null /\ now <= tasks[t].stamp + StaleAfter

\* "hoechstens alle ~36 h pro Aufgabe" (reminders.scheduler.ts:19): two reminders a
\* scan sends of one task are more than 36 hours apart.
RemindersAreSpaced ==
    [][\A t \in Tasks :
         sentAt[t] # Null /\ (\E s \in Scans : scans'[s].sent = t /\ scans[s].sent # t)
           => now > sentAt[t] + StaleAfter]_vars
=============================================================================
