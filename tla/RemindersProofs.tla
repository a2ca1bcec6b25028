---------------------------- MODULE RemindersProofs ----------------------------
(***************************************************************************)
(* What the hourly scan promises, for any tasks, users and clock: a task   *)
(* that is due is reminded of, whatever members do meanwhile, and never    *)
(* twice within 36 hours by scans that do not overlap.                     *)
(*                                                                         *)
(* Both rest on what the scan keeps of the rows it read: a task it owes a  *)
(* reminder is still in its batch with the values the row has, or is the   *)
(* one it has just sent, or is stamped.                                    *)
(***************************************************************************)
EXTENDS Reminders, FiniteSetTheorems, TLAPS

Reads == [id : Tasks, deadline : Deadlines, assignee : Users]
ScanRows == [at : Times, batch : SUBSET Reads, sent : Tasks \union {Null}]

Typed ==
    /\ now \in 0 .. MaxTime
    /\ tasks \in [Tasks -> TaskRows \union {Null}]
    /\ prefs \in [Users -> [days : DaysBefore, channel : Channels]]
    /\ cron \in BOOLEAN
    /\ scans \in [Scans -> ScanRows]
    /\ nudges \in [Nudges -> Tasks \union {Null}]
    /\ sentAt \in [Tasks -> Times]
    /\ touched \subseteq Tasks
    /\ left \subseteq Tasks
    /\ complete \in BOOLEAN

LEMMA IdleIsScan == Idle \in ScanRows
  BY DEF Idle, ScanRows, Times

LEMMA StampKeepsRows ==
  ASSUME Typed, NEW t \in Tasks, tasks[t] # Null, Stamp(t)
  PROVE  /\ tasks' \in [Tasks -> TaskRows \union {Null}]
         /\ tasks'[t] = [tasks[t] EXCEPT !.stamp = now]
         /\ \A u \in Tasks \ {t} : tasks'[u] = tasks[u]
  BY DEF Typed, Stamp, TaskRows

LEMMA ScanTyped ==
  ASSUME Typed, NEW s \in Scans, Scan(s) PROVE Typed'
  <1>1. scans[s] \in ScanRows /\ now \in Times
    BY DEF Typed, Times
  <1>2. CASE ScanStart(s)
    <2>1. PICK batch \in SUBSET {t \in Tasks : Selected(t)} :
             scans' = [scans EXCEPT ![s] =
                          [at |-> now, batch |-> {Read(t) : t \in batch}, sent |-> Null]]
      BY <1>2 DEF ScanStart
    <2>2. \A t \in batch : Read(t) \in Reads
      BY DEF Typed, TaskRows, Selected, Read, Reads
    <2>3. [at |-> now, batch |-> {Read(t) : t \in batch}, sent |-> Null] \in ScanRows
      BY <1>1, <2>2 DEF ScanRows
    <2> QED BY <1>2, <2>1, <2>3 DEF ScanStart, Typed
  <1>3. CASE ScanStamp(s)
    <2>1. CASE tasks[scans[s].sent] # Null
      <3>1. scans[s].sent \in Tasks
        BY <1>1, <1>3 DEF ScanStamp, ScanRows
      <3>2. Stamp(scans[s].sent) /\ scans' = [scans EXCEPT ![s].sent = Null]
        BY <1>3, <2>1 DEF ScanStamp
      <3>3. tasks' \in [Tasks -> TaskRows \union {Null}]
        BY <2>1, <3>1, <3>2, StampKeepsRows
      <3> QED BY <1>1, <1>3, <3>2, <3>3 DEF ScanStamp, Typed, ScanRows
    <2>2. CASE tasks[scans[s].sent] = Null
      BY <1>3, <2>2, IdleIsScan DEF ScanStamp, Typed
    <2> QED BY <2>1, <2>2
  <1>4. CASE ScanEnd(s)
    BY <1>4, IdleIsScan DEF ScanEnd, Typed
  <1>5. ASSUME NEW r \in scans[s].batch, ScanSkip(s, r) PROVE Typed'
    BY <1>1, <1>5 DEF ScanSkip, Typed, ScanRows
  <1>6. ASSUME NEW r \in scans[s].batch, NEW ok \in BOOLEAN, ScanSend(s, r, ok) PROVE Typed'
    <2>1. r.id \in Tasks
      BY <1>1 DEF ScanRows, Reads
    <2>2. touched' \subseteq Tasks /\ UNCHANGED <<now, tasks, prefs, cron, nudges, left, complete>>
      BY <1>6, <2>1 DEF ScanSend, Typed
    <2>3. scans' \in [Scans -> ScanRows]
      BY <1>1, <1>6, <2>1 DEF ScanSend, Typed, ScanRows
    <2>4. sentAt' \in [Tasks -> Times]
      BY <1>1, <1>6, <2>1 DEF ScanSend, Typed
    <2> QED BY <2>2, <2>3, <2>4 DEF Typed
  <1> QED BY <1>2, <1>3, <1>4, <1>5, <1>6 DEF Scan

LEMMA MemberTyped ==
  ASSUME Typed, Member PROVE Typed'
  <1>1. ASSUME NEW t \in Tasks, NEW d \in Deadlines \union {Null}, NEW u \in Users \union {Null},
               Create(t, d, u)
        PROVE  Typed'
    <2>1. [deadline |-> d, done |-> FALSE, assignee |-> u, stamp |-> Null] \in TaskRows
      BY DEF TaskRows
    <2> QED BY <1>1, <2>1 DEF Create, Typed
  <1>2. ASSUME NEW t \in Tasks, Update(t) PROVE Typed'
    <2>1. tasks[t] \in TaskRows
      BY <1>2 DEF Update, Typed
    <2>2. tasks' \in [Tasks -> TaskRows \union {Null}]
      BY <1>2, <2>1 DEF Update, Typed, TaskRows
    <2> QED BY <1>2, <2>2 DEF Update, Typed
  <1>3. ASSUME NEW t \in Tasks, Remove(t) PROVE Typed'
    BY <1>3 DEF Remove, Typed
  <1>4. ASSUME NEW t \in Tasks, NEW n \in Nudges, NudgeSend(n, t) PROVE Typed'
    BY <1>4 DEF NudgeSend, Typed
  <1>5. ASSUME NEW n \in Nudges, NudgeStamp(n) PROVE Typed'
    <2>1. nudges[n] \in Tasks
      BY <1>5 DEF NudgeStamp, Typed
    <2>2. tasks' \in [Tasks -> TaskRows \union {Null}]
      BY <1>5, <2>1, StampKeepsRows DEF NudgeStamp, Typed
    <2> QED BY <1>5, <2>2 DEF NudgeStamp, Typed
  <1>6. ASSUME NEW u \in Users, NEW d \in DaysBefore, NEW c \in Channels, UpdatePreferences(u, d, c)
        PROVE  Typed'
    BY <1>6 DEF UpdatePreferences, Typed
  <1> QED BY <1>1, <1>2, <1>3, <1>4, <1>5, <1>6 DEF Member

LEMMA NextTyped ==
  ASSUME Typed, [Next]_vars PROVE Typed'
  <1>1. CASE Tick
    <2>1. now' \in 0 .. MaxTime
      BY <1>1, RemindersAssumption DEF Tick, Typed
    <2> QED BY <1>1, <2>1 DEF Tick, Typed
  <1>2. CASE Restart
    BY <1>2, IdleIsScan DEF Restart, Typed, Times
  <1>3. CASE UNCHANGED vars
    BY <1>3 DEF vars, Typed
  <1> QED BY <1>1, <1>2, <1>3, ScanTyped, MemberTyped DEF Next

LEMMA RemindersTyped == Spec => []Typed
  <1>1. Init => Typed
    <2>1. 0 \in 0 .. MaxTime
      BY RemindersAssumption
    <2> QED BY IdleIsScan, <2>1 DEF Init, Typed, Times
  <1> QED BY <1>1, NextTyped, PTL DEF Spec

\* The clock, the task rows with their stamps, what the scans have read and sent
\* and the history keep their types.
THEOREM RemindersTypeOK == Spec => []TypeOK
  <1>1. Typed => TypeOK
    BY DEF Typed, TypeOK, ScanRows, Reads
  <1> QED BY <1>1, RemindersTyped, PTL
------------------------------------------------------------------------------
\* What a scan of this hour owes: a task that is due, that nobody has changed
\* within the hour, and that the query has not left out.
Stamped(t) == tasks[t].stamp # Null /\ now <= tasks[t].stamp + StaleAfter

Owed(t) == t \notin touched /\ t \notin left /\ Due(t)

\* It is stamped, or just sent, or still to come.
Covered(s, t) == Stamped(t) \/ scans[s].sent = t \/ Read(t) \in scans[s].batch

Owing ==
    /\ cron => left = {}
    /\ \A s \in Scans : scans[s].at # Null => scans[s].at <= now
    /\ \A s \in Scans, t \in Tasks : (scans[s].at = now /\ Owed(t)) => Covered(s, t)
    /\ complete => \A t \in Tasks : Owed(t) => Stamped(t)

\* What a scan decides for a task it owes a reminder.
LEMMA OwedIsWanted ==
  ASSUME Typed, NEW s \in Scans, scans[s].at = now, NEW t \in Tasks, Owed(t)
  PROVE  Wanted(s, Read(t)) /\ tasks[t] # Null
  BY DEF Owed, Due, Wanted, Read

\* The query selects every task that is due and not stamped.
LEMMA DueIsSelected ==
  ASSUME Typed, NEW t \in Tasks, Due(t)
  PROVE  Selected(t) \/ Stamped(t)
  <1> DEFINE row == tasks[t]
  <1>1. /\ row # Null /\ ~row.done /\ row.assignee # Null /\ row.deadline # Null
        /\ now < row.deadline /\ row.deadline <= now + Horizon
    BY DEF Due
  <1>2. row.deadline \in Nat /\ row.stamp \in Nat \union {Null}
    <2>1. row \in TaskRows
      BY <1>1 DEF Typed
    <2>2. row.deadline \in Deadlines /\ row.stamp \in (0 .. MaxTime) \union {Null}
      BY <1>1, <2>1 DEF TaskRows
    <2>3. Deadlines \subseteq Nat /\ MaxTime \in Nat
      BY RemindersAssumption
    <2>4. row.stamp \in Nat \union {Null}
      BY <2>2, <2>3
    <2> QED BY <2>2, <2>3, <2>4
  <1>3. StaleAfter \in Nat /\ now \in Nat
    BY RemindersAssumption DEF Typed
  <1>4. CASE row.stamp # Null /\ ~(now > row.stamp + StaleAfter)
    BY <1>2, <1>3, <1>4 DEF Stamped
  <1> QED BY <1>1, <1>2, <1>3, <1>4 DEF Selected

\* Steps that leave the clock and the tasks, settings and batches alone, or only
\* stamp, keep what is owed.
LEMMA StampKeepsOwing ==
  ASSUME Typed, Owing, NEW t \in Tasks, tasks[t] # Null, Stamp(t), UNCHANGED <<now, prefs, touched, left>>,
         NEW u \in Tasks, Owed(u)'
  PROVE  /\ Owed(u) /\ Read(u)' = Read(u)
         /\ Stamped(u) \/ u = t => Stamped(u)'
  <1>1. /\ tasks'[t] = [tasks[t] EXCEPT !.stamp = now]
        /\ \A v \in Tasks \ {t} : tasks'[v] = tasks[v]
    BY StampKeepsRows
  <1>2. tasks[t] \in TaskRows /\ now \in Nat /\ now # Null /\ StaleAfter \in Nat
    BY RemindersAssumption DEF Typed
  <1>3. tasks'[t].stamp = now /\ tasks'[t].deadline = tasks[t].deadline /\ tasks'[t].done = tasks[t].done
        /\ tasks'[t].assignee = tasks[t].assignee
    BY <1>1, <1>2 DEF TaskRows
  <1>4. tasks'[u] # Null
    BY DEF Owed, Due
  <1>5. CASE u = t
    <2>1. Owed(u) /\ Read(u)' = Read(u)
      BY <1>3, <1>5 DEF Owed, Due, Read
    <2>2. Stamped(u)'
      BY <1>2, <1>3, <1>5 DEF Stamped
    <2> QED BY <2>1, <2>2
  <1>6. CASE u # t
    BY <1>1, <1>6 DEF Owed, Due, Read, Stamped
  <1> QED BY <1>5, <1>6

\* What the query finds is in the batch or left out.
LEMMA ScanStartOwing ==
  ASSUME Typed, Owing, NEW s \in Scans, ScanStart(s)
  PROVE  Owing'
  <1>1. PICK batch \in SUBSET {t \in Tasks : Selected(t)} :
           /\ left' = {t \in Tasks \ batch : Selected(t)}
           /\ scans' = [scans EXCEPT ![s] =
                          [at |-> now, batch |-> {Read(t) : t \in batch}, sent |-> Null]]
    BY DEF ScanStart
  <1>2. left = {} /\ ~cron'
    BY DEF ScanStart, Owing
  <1>3. /\ scans'[s] = [at |-> now, batch |-> {Read(t) : t \in batch}, sent |-> Null]
        /\ \A q \in Scans \ {s} : scans'[q] = scans[q]
        /\ now \in Nat
    BY <1>1 DEF Typed
  <1>4. \A t \in Tasks : /\ Owed(t)' => Owed(t) /\ t \notin left'
                         /\ (Stamped(t)' <=> Stamped(t)) /\ Read(t)' = Read(t)
    BY <1>2 DEF ScanStart, Owed, Due, Stamped, Read
  <1>5. ASSUME NEW t \in Tasks, Owed(t)' PROVE Covered(s, t)'
    <2>1. t \in batch \/ Stamped(t)
      BY <1>1, <1>4, <1>5, DueIsSelected DEF Owed
    <2> QED BY <1>3, <1>4, <2>1 DEF Covered
  <1>6. ASSUME NEW q \in Scans \ {s}, NEW t \in Tasks, Covered(q, t) PROVE Covered(q, t)'
    BY <1>3, <1>4, <1>6 DEF Covered
  <1>7. now' = now /\ complete' = complete
    BY DEF ScanStart
  <1> QED BY <1>2, <1>3, <1>4, <1>5, <1>6, <1>7 DEF Owing

\* A task that leaves the batch is not wanted, or is sent, or its mail has failed.
LEMMA ScanTakesOwing ==
  ASSUME Typed, Owing, NEW s \in Scans, NEW r \in scans[s].batch,
         ScanSkip(s, r) \/ \E ok \in BOOLEAN : ScanSend(s, r, ok)
  PROVE  Owing'
  <1>1. scans[s] \in ScanRows /\ r.id \in Tasks /\ r.assignee \in Users
    BY DEF Typed, ScanRows, Reads
  <1>2. /\ UNCHANGED <<now, tasks, prefs, cron, left, complete>> /\ touched \subseteq touched'
        /\ scans[s].sent = Null
    BY DEF ScanSkip, ScanSend
  <1>3. /\ \A q \in Scans \ {s} : scans'[q] = scans[q]
        /\ scans'[s].at = scans[s].at /\ scans'[s].batch = scans[s].batch \ {r}
    BY <1>1 DEF ScanSkip, ScanSend, Typed, ScanRows
  <1>4. ASSUME NEW t \in Tasks, Owed(t)'
        PROVE  Owed(t) /\ (Stamped(t)' <=> Stamped(t)) /\ Read(t)' = Read(t)
    BY <1>2, <1>4 DEF Owed, Due, Stamped, Read
  <1>5. ASSUME NEW t \in Tasks, scans[s].at = now, Owed(t)', r = Read(t) PROVE scans'[s].sent = t
    <2>1. Owed(t) /\ Wanted(s, r) /\ tasks[t] # Null /\ r.id = t /\ r.assignee = tasks[t].assignee
      BY <1>4, <1>5, OwedIsWanted DEF Read
    <2>2. PICK ok \in BOOLEAN : ScanSend(s, r, ok)
      BY <2>1 DEF ScanSkip
    <2>3. ok
      BY <1>5, <2>1, <2>2 DEF ScanSend, Owed
    <2>4. prefs[r.assignee].channel \in {"email", "sms"}
      BY <1>1, <2>1, RemindersAssumption DEF Owed, Due, Typed
    <2>5. Delivers(r.assignee, ok)
      BY <2>3, <2>4 DEF Delivers
    <2> QED BY <1>1, <2>1, <2>2, <2>5 DEF ScanSend, Typed, ScanRows
  <1>6. ASSUME NEW t \in Tasks, scans'[s].at = now', Owed(t)' PROVE Covered(s, t)'
    <2>1. Covered(s, t) /\ t # Null
      BY <1>2, <1>3, <1>4, <1>6, RemindersAssumption DEF Owing
    <2>2. CASE r = Read(t)
      BY <1>2, <1>3, <1>5, <1>6, <2>2 DEF Covered
    <2>3. CASE r # Read(t)
      BY <1>2, <1>3, <1>4, <1>6, <2>1, <2>3 DEF Covered
    <2> QED BY <2>2, <2>3
  <1>7. ASSUME NEW q \in Scans \ {s}, NEW t \in Tasks, scans'[q].at = now', Owed(t)'
        PROVE  Covered(q, t)'
    BY <1>2, <1>3, <1>4, <1>7 DEF Owing, Covered
  <1> QED BY <1>2, <1>3, <1>4, <1>6, <1>7 DEF Owing

LEMMA ScanStampOwing ==
  ASSUME Typed, Owing, NEW s \in Scans, ScanStamp(s) PROVE Owing'
  <1> DEFINE u == scans[s].sent
  <1>1. scans[s] \in ScanRows /\ u \in Tasks /\ now \in Nat
    BY DEF Typed, ScanRows, ScanStamp
  <1>2. UNCHANGED <<now, prefs, cron, touched, left, complete>>
    BY DEF ScanStamp
  <1>3. CASE tasks[u] # Null
    <2>1. Stamp(u) /\ scans' = [scans EXCEPT ![s].sent = Null]
      BY <1>3 DEF ScanStamp
    <2>2. /\ \A q \in Scans \ {s} : scans'[q] = scans[q]
          /\ scans'[s].at = scans[s].at /\ scans'[s].batch = scans[s].batch
      BY <1>1, <2>1 DEF Typed, ScanRows
    <2>3. ASSUME NEW t \in Tasks, Owed(t)'
          PROVE  Owed(t) /\ Read(t)' = Read(t) /\ (Stamped(t) \/ u = t => Stamped(t)')
      BY <1>1, <1>2, <1>3, <2>1, <2>3, StampKeepsOwing
    <2>4. ASSUME NEW q \in Scans, NEW t \in Tasks, scans'[q].at = now', Owed(t)' PROVE Covered(q, t)'
      <3>1. Owed(t) /\ Covered(q, t)
        BY <1>2, <2>2, <2>3, <2>4 DEF Owing
      <3> QED BY <2>2, <2>3, <2>4, <3>1 DEF Covered
    <2> QED BY <1>2, <2>2, <2>3, <2>4 DEF Owing
  <1>4. CASE tasks[u] = Null
    <2>1. scans' = [scans EXCEPT ![s] = Idle] /\ tasks' = tasks
      BY <1>4 DEF ScanStamp
    <2>2. scans'[s].at = Null /\ \A q \in Scans \ {s} : scans'[q] = scans[q]
      BY <2>1 DEF Typed, Idle
    <2>3. now # Null
      BY <1>1, RemindersAssumption
    <2>4. \A t \in Tasks : (Owed(t)' <=> Owed(t)) /\ (Stamped(t)' <=> Stamped(t)) /\ Read(t)' = Read(t)
      BY <1>2, <2>1 DEF Owed, Due, Stamped, Read
    <2>5. \A q \in Scans \ {s}, t \in Tasks : Covered(q, t) => Covered(q, t)'
      BY <2>2, <2>4 DEF Covered
    <2> QED BY <1>2, <2>2, <2>3, <2>4, <2>5 DEF Owing
  <1> QED BY <1>3, <1>4

LEMMA ScanEndOwing ==
  ASSUME Typed, Owing, NEW s \in Scans, ScanEnd(s) PROVE Owing'
  <1>1. /\ UNCHANGED <<now, tasks, prefs, cron, touched, left>> /\ scans[s].batch = {} /\ scans[s].sent = Null
        /\ complete' => complete \/ scans[s].at = now
    BY DEF ScanEnd
  <1>2. scans'[s].at = Null /\ \A q \in Scans \ {s} : scans'[q] = scans[q]
    BY DEF ScanEnd, Typed, Idle
  <1>3. now # Null /\ \A t \in Tasks : t # Null
    BY RemindersAssumption DEF Typed
  <1>4. \A t \in Tasks : (Owed(t)' <=> Owed(t)) /\ (Stamped(t)' <=> Stamped(t)) /\ Read(t)' = Read(t)
    BY <1>1 DEF Owed, Due, Stamped, Read
  <1>5. \A q \in Scans \ {s}, t \in Tasks : Covered(q, t) => Covered(q, t)'
    BY <1>2, <1>4 DEF Covered
  <1>6. ASSUME scans[s].at = now, NEW t \in Tasks, Owed(t) PROVE Stamped(t)
    BY <1>1, <1>3, <1>6 DEF Owing, Covered
  <1> QED BY <1>1, <1>2, <1>3, <1>4, <1>5, <1>6 DEF Owing

\* Whoever changes what a reminder depends on has touched the task.
LEMMA MemberOwing ==
  ASSUME Typed, Owing, Member PROVE Owing'
  <1>1. UNCHANGED <<now, cron, scans, left, complete>>
    BY DEF Member, Create, Update, Remove, NudgeSend, NudgeStamp, UpdatePreferences
  <1>2. SUFFICES ASSUME NEW t \in Tasks, Owed(t)'
                 PROVE  Owed(t) /\ Read(t)' = Read(t) /\ (Stamped(t) => Stamped(t)')
    <2>1. \A q \in Scans, t \in Tasks : (Covered(q, t) /\ Owed(t)') => Covered(q, t)'
      BY <1>1, <1>2 DEF Covered
    <2> QED BY <1>1, <1>2, <2>1 DEF Owing
  <1>3. ASSUME NEW v \in Tasks, \/ \E d \in Deadlines \union {Null}, u \in Users \union {Null} : Create(v, d, u)
                                \/ Update(v) \/ Remove(v)
        PROVE  Owed(t) /\ Read(t)' = Read(t) /\ (Stamped(t) => Stamped(t)')
    <2>1. v \in touched' /\ touched \subseteq touched' /\ prefs' = prefs /\ tasks'[t] = tasks[t]
      <3>1. v \in touched'
        BY <1>3 DEF Create, Update, Remove
      <3>2. v # t
        BY <3>1, <1>2 DEF Owed
      <3> QED BY <1>3, <3>1, <3>2 DEF Create, Update, Remove, Typed
    <2> QED BY <1>1, <1>2, <2>1 DEF Owed, Due, Read, Stamped
  <1>4. ASSUME NEW n \in Nudges, \/ \E v \in Tasks : NudgeSend(n, v)
                                 \/ NudgeStamp(n) /\ tasks[nudges[n]] = Null
        PROVE  Owed(t) /\ Read(t)' = Read(t) /\ (Stamped(t) => Stamped(t)')
    <2>1. UNCHANGED <<tasks, prefs, touched, left>>
      BY <1>4 DEF NudgeSend, NudgeStamp
    <2> QED BY <1>1, <1>2, <2>1 DEF Owed, Due, Read, Stamped
  <1>5. ASSUME NEW n \in Nudges, NudgeStamp(n), tasks[nudges[n]] # Null
        PROVE  Owed(t) /\ Read(t)' = Read(t) /\ (Stamped(t) => Stamped(t)')
    <2>1. nudges[n] \in Tasks /\ Stamp(nudges[n]) /\ UNCHANGED <<now, prefs, touched, left>>
      BY <1>5 DEF NudgeStamp, Typed
    <2> QED BY <1>2, <1>5, <2>1, StampKeepsOwing
  <1>6. ASSUME NEW u \in Users, NEW d \in DaysBefore, NEW c \in Channels, UpdatePreferences(u, d, c)
        PROVE  Owed(t) /\ Read(t)' = Read(t) /\ (Stamped(t) => Stamped(t)')
    <2>1. tasks' = tasks /\ t \in touched'
      BY <1>2, <1>6 DEF UpdatePreferences, Owed, Due
    <2> QED BY <1>2, <2>1 DEF Owed
  <1> QED BY <1>3, <1>4, <1>5, <1>6 DEF Member

LEMMA NextOwing ==
  ASSUME Typed, Owing, [Next]_vars PROVE Owing'
  <1>1. ASSUME NEW s \in Scans, Scan(s) PROVE Owing'
    BY <1>1, ScanStartOwing, ScanTakesOwing, ScanStampOwing, ScanEndOwing DEF Scan
  <1>2. CASE Tick
    <2>1. now \in Nat /\ now' = now + 1 /\ scans' = scans /\ ~complete' /\ left' = {}
      BY <1>2 DEF Tick, Typed
    <2>2. \A s \in Scans : scans[s].at # Null => scans[s].at \in Nat
      BY DEF Typed, ScanRows, Times
    <2>3. \A s \in Scans : scans[s].at # now' /\ (scans[s].at # Null => scans[s].at <= now')
      BY <2>1, <2>2, RemindersAssumption DEF Owing
    <2> QED BY <2>1, <2>3 DEF Owing
  <1>3. CASE Restart
    <2>1. ~cron' /\ UNCHANGED <<now, tasks, prefs, touched, left, complete>> /\ \A s \in Scans : scans'[s].at = Null
      BY <1>3 DEF Restart, Idle
    <2>2. now # Null
      BY RemindersAssumption DEF Typed
    <2>3. \A t \in Tasks : (Owed(t)' <=> Owed(t)) /\ (Stamped(t)' <=> Stamped(t))
      BY <2>1 DEF Owed, Due, Stamped
    <2> QED BY <2>1, <2>2, <2>3 DEF Owing
  <1>4. CASE UNCHANGED vars
    <2>1. UNCHANGED <<now, tasks, prefs, cron, scans, touched, left, complete>>
      BY <1>4 DEF vars
    <2> QED BY <2>1 DEF Owing, Covered, Owed, Due, Stamped, Read
  <1> QED BY <1>1, <1>2, <1>3, <1>4, MemberOwing DEF Next

\* When this hour's scan has run to its end, every task that is due, that nobody
\* has changed within the hour and that the query has not left out has been
\* reminded of within 36 hours, for any number of users, scans and edits, and
\* whatever days users ask for.
THEOREM RemindersLeaveNoneOut == Spec => []DueTasksAreReminded
  <1>1. Init => Owing
    BY DEF Init, Owing, Idle, Owed, Due
  <1>2. Typed /\ Owing /\ [Next]_vars => Owing'
    BY NextOwing
  <1>3. Owing => DueTasksAreReminded
    BY DEF Owing, Owed, DueTasksAreReminded, Stamped
  <1> QED BY <1>1, <1>2, <1>3, RemindersTyped, PTL DEF Spec

\* A query that may return every task returns every one that it selects.
LEMMA BatchIsAll ==
  ASSUME IsFiniteSet(Tasks), Cardinality(Tasks) <= Take,
         NEW batch \in SUBSET {t \in Tasks : Selected(t)},
         Cardinality(batch) < Take => batch = {t \in Tasks : Selected(t)}
  PROVE  batch = {t \in Tasks : Selected(t)}
  <1>1. batch \subseteq Tasks
    OBVIOUS
  <1>2. /\ Cardinality(batch) \in Nat /\ Cardinality(Tasks) \in Nat
        /\ Cardinality(batch) <= Cardinality(Tasks)
        /\ Cardinality(batch) = Cardinality(Tasks) => batch = Tasks
    BY <1>1, FS_Subset, FS_CardinalityType
  <1>3. Take \in Nat
    BY RemindersAssumption
  <1>4. CASE Cardinality(batch) < Take
    BY <1>4
  <1>5. CASE Cardinality(batch) = Cardinality(Tasks)
    BY <1>2, <1>5
  <1> QED BY <1>2, <1>3, <1>4, <1>5

NoneLeft == left = {}

\* Where the tasks fit into one query, none is left out.
THEOREM RemindersReachTasks ==
  ASSUME IsFiniteSet(Tasks), Cardinality(Tasks) <= Take
  PROVE  Spec => [](complete => \A t \in Tasks \ touched : Due(t) => Stamped(t))
  <1>1. Init => NoneLeft
    BY DEF Init, NoneLeft
  <1>2. NoneLeft /\ [Next]_vars => NoneLeft'
    <2> SUFFICES ASSUME left = {}, [Next]_vars PROVE left' = {}
      BY DEF NoneLeft
    <2>1. ASSUME NEW s \in Scans, ScanStart(s) PROVE left' = {}
      <3>1. PICK batch \in SUBSET {t \in Tasks : Selected(t)} :
               /\ Cardinality(batch) < Take => batch = {t \in Tasks : Selected(t)}
               /\ left' = {t \in Tasks \ batch : Selected(t)}
        BY <2>1 DEF ScanStart
      <3> QED BY <3>1, BatchIsAll
    <2>2. CASE Member
      BY <2>2 DEF Member, Create, Update, Remove, NudgeSend, NudgeStamp, UpdatePreferences
    <2>3. CASE Tick \/ Restart
      BY <2>3 DEF Tick, Restart
    <2>4. CASE UNCHANGED vars
      BY <2>4 DEF vars
    <2>5. ASSUME NEW s \in Scans, Scan(s), ~ScanStart(s) PROVE left' = {}
      BY <2>5 DEF Scan, ScanStamp, ScanEnd, ScanSkip, ScanSend
    <2> QED BY <2>1, <2>2, <2>3, <2>4, <2>5 DEF Next
  <1>3. NoneLeft /\ DueTasksAreReminded
          => (complete => \A t \in Tasks \ touched : Due(t) => Stamped(t))
    BY DEF DueTasksAreReminded, Stamped, NoneLeft
  <1>4. Spec => []NoneLeft
    BY <1>1, <1>2, PTL DEF Spec
  <1> QED BY <1>3, <1>4, RemindersLeaveNoneOut, PTL

------------------------------------------------------------------------------
\* What a reminder sent leaves behind until the row it stamps forbids the next:
\* the stamp, or the scan that is about to set it; a deleted task has no other.
Left(t) ==
    \/ tasks[t] = Null
    \/ tasks[t].stamp # Null /\ sentAt[t] <= tasks[t].stamp
    \/ \E s \in Scans : scans[s].sent = t

\* The next reminder of a task may go out.
Free(t) == sentAt[t] = Null \/ now > sentAt[t] + StaleAfter

Sent ==
    /\ \A s \in Scans : \A q, r \in scans[s].batch : q.id = r.id => q = r
    /\ \A s \in Scans : \A r \in scans[s].batch : Free(r.id)
    /\ \A t \in Tasks : sentAt[t] # Null => sentAt[t] <= now /\ Left(t)

\* A batch read while no scan is under way holds only tasks that may be sent.
LEMMA SelectedIsFree ==
  ASSUME Typed, Sent, NEW t \in Tasks, Selected(t), \A s \in Scans : scans[s].sent = Null
  PROVE  Free(t)
  <1> SUFFICES ASSUME sentAt[t] # Null PROVE now > sentAt[t] + StaleAfter
    BY DEF Free
  <1>1. t # Null /\ tasks[t] # Null /\ tasks[t] \in TaskRows
    BY RemindersAssumption DEF Typed, Selected
  <1>2. Left(t)
    BY DEF Sent
  <1>3. tasks[t].stamp # Null /\ sentAt[t] <= tasks[t].stamp
    BY <1>1, <1>2 DEF Left
  <1>4. now > tasks[t].stamp + StaleAfter
    BY <1>3 DEF Selected
  <1>5. tasks[t].stamp \in Nat
    <2>1. MaxTime \in Nat /\ tasks[t].stamp \in (0 .. MaxTime) \union {Null}
      BY <1>1, RemindersAssumption DEF TaskRows
    <2> QED BY <1>3, <2>1
  <1>6. sentAt[t] \in Nat /\ now \in Nat /\ StaleAfter \in Nat
    <2>1. MaxTime \in Nat /\ sentAt[t] \in (0 .. MaxTime) \union {Null}
      BY RemindersAssumption DEF Typed, Times
    <2>2. now \in Nat /\ StaleAfter \in Nat
      BY RemindersAssumption DEF Typed
    <2> QED BY <2>1, <2>2
  <1> QED BY <1>3, <1>4, <1>5, <1>6

LEMMA ScanSent ==
  ASSUME \A p, q \in Scans : p = q, Typed, Sent, NEW s \in Scans, Scan(s)
  PROVE  Sent'
  <1>1. /\ scans[s] \in ScanRows /\ now' = now /\ now \in Nat /\ now # Null
        /\ \A q \in Scans : q = s
    <2>1. now' = now
      BY DEF Scan, ScanStart, ScanStamp, ScanEnd, ScanSkip, ScanSend
    <2>2. scans[s] \in ScanRows /\ now \in Nat
      BY DEF Typed
    <2>3. now # Null
      BY <2>2, RemindersAssumption
    <2> QED BY <2>1, <2>2, <2>3
  <1>2. CASE ScanStart(s)
    <2>1. PICK batch \in SUBSET {t \in Tasks : Selected(t)} :
             scans' = [scans EXCEPT ![s] =
                          [at |-> now, batch |-> {Read(t) : t \in batch}, sent |-> Null]]
      BY <1>2 DEF ScanStart
    <2>2. scans'[s].batch = {Read(t) : t \in batch}
      BY <2>1 DEF Typed
    <2>3. scans[s].sent = Null /\ UNCHANGED <<now, tasks, sentAt>>
      BY <1>2 DEF ScanStart, Idle
    <2>4. \A t \in batch : Free(t) /\ Read(t).id = t
      BY <1>1, <2>3, SelectedIsFree DEF Read
    <2>5. \A q, r \in scans'[s].batch : q.id = r.id => q = r
      BY <2>2, <2>4
    <2>6. \A r \in scans'[s].batch : Free(r.id)'
      BY <2>2, <2>3, <2>4 DEF Free
    <2>7. \A t \in Tasks : sentAt[t] # Null => Left(t)'
      <3>1. \A t \in Tasks : t # Null
        BY RemindersAssumption
      <3> QED BY <1>1, <2>3, <3>1 DEF Sent, Left
    <2> QED BY <1>1, <2>3, <2>5, <2>6, <2>7 DEF Sent
  <1>3. CASE ScanStamp(s)
    <2>0. PICK u \in Tasks : u = scans[s].sent
      BY <1>1, <1>3 DEF ScanStamp, ScanRows
    <2>1. sentAt' = sentAt /\ scans'[s].batch \subseteq scans[s].batch
      BY <1>1, <1>3 DEF ScanStamp, ScanRows, Typed, Idle
    <2>2. \A t \in Tasks \ {u} : tasks'[t] = tasks[t]
      BY <1>3, <2>0, StampKeepsRows DEF ScanStamp
    <2>3. sentAt[u] # Null => Left(u)'
      <3>1. CASE tasks[u] = Null
        BY <1>3, <2>0, <3>1 DEF ScanStamp, Left
      <3>2. CASE tasks[u] # Null
        <4>1. tasks[u] \in TaskRows /\ tasks'[u] = [tasks[u] EXCEPT !.stamp = now]
          BY <1>3, <2>0, <3>2, StampKeepsRows DEF ScanStamp, Typed
        <4>2. tasks'[u].stamp = now
          BY <4>1 DEF TaskRows
        <4> QED BY <1>1, <2>1, <4>2 DEF Sent, Left
      <3> QED BY <3>1, <3>2
    <2>4. \A t \in Tasks \ {u} : Left(t) => Left(t)'
      BY <1>1, <2>0, <2>1, <2>2 DEF Left
    <2>5. \A r \in scans'[s].batch : Free(r.id)'
      BY <1>1, <2>1 DEF Sent, Free
    <2>6. \A t \in Tasks : sentAt[t] # Null => Left(t)'
      <3>1. \A t \in Tasks : sentAt[t] # Null => Left(t)
        BY DEF Sent
      <3> QED BY <2>3, <2>4, <3>1 DEF Left
    <2>7. \A q, r \in scans'[s].batch : q.id = r.id => q = r
      BY <2>1 DEF Sent
    <2> QED BY <1>1, <2>1, <2>5, <2>6, <2>7 DEF Sent
  <1>4. CASE ScanEnd(s)
    <2>1. UNCHANGED <<tasks, sentAt>> /\ scans'[s].batch = {} /\ scans[s].sent = Null
      BY <1>4 DEF ScanEnd, Typed, Idle
    <2>2. \A t \in Tasks : t # Null
      BY RemindersAssumption
    <2>3. \A t \in Tasks : Left(t) => Left(t)'
      BY <1>1, <2>1, <2>2 DEF Left
    <2> QED BY <1>1, <2>1, <2>3 DEF Sent
  <1>5. ASSUME NEW r \in scans[s].batch, ScanSkip(s, r) PROVE Sent'
    <2>1. /\ UNCHANGED <<tasks, sentAt>> /\ scans'[s].batch \subseteq scans[s].batch
          /\ scans'[s].sent = scans[s].sent
      BY <1>1, <1>5 DEF ScanSkip, Typed, ScanRows
    <2>2. \A t \in Tasks : Left(t) => Left(t)'
      BY <1>1, <2>1 DEF Left
    <2> QED BY <1>1, <2>1, <2>2 DEF Sent, Free
  <1>6. ASSUME NEW r \in scans[s].batch, NEW ok \in BOOLEAN, ScanSend(s, r, ok) PROVE Sent'
    <2>1. /\ r.id \in Tasks /\ tasks' = tasks /\ scans[s].sent = Null
          /\ scans'[s].batch = scans[s].batch \ {r}
      BY <1>1, <1>6 DEF ScanSend, Typed, ScanRows, Reads
    <2>2. \A t \in Tasks : t # Null
      BY RemindersAssumption
    <2>3. CASE sentAt' = [sentAt EXCEPT ![r.id] = now] /\ scans'[s].sent = r.id
      <3>1. sentAt'[r.id] = now /\ \A t \in Tasks \ {r.id} : sentAt'[t] = sentAt[t]
        BY <2>1, <2>3 DEF Typed
      <3>2. Left(r.id)' /\ \A t \in Tasks : Left(t) /\ t # r.id => Left(t)'
        BY <1>1, <2>1, <2>2, <2>3, <3>1 DEF Left
      <3>3. \A q \in scans'[s].batch : q.id \in Tasks /\ q.id # r.id /\ Free(q.id)
        BY <1>1, <2>1 DEF Sent, ScanRows, Reads
      <3>4. \A q \in scans'[s].batch : Free(q.id)'
        BY <1>1, <3>1, <3>3 DEF Free
      <3> QED BY <1>1, <2>1, <3>1, <3>2, <3>4 DEF Sent
    <2>4. CASE sentAt' = sentAt /\ scans'[s].sent = scans[s].sent
      <3>1. \A t \in Tasks : Left(t) => Left(t)'
        BY <1>1, <2>1, <2>4 DEF Left
      <3> QED BY <1>1, <2>1, <2>4, <3>1 DEF Sent, Free
    <2>5. \/ sentAt' = [sentAt EXCEPT ![r.id] = now] /\ scans'[s].sent = r.id
          \/ sentAt' = sentAt /\ scans'[s].sent = scans[s].sent
      BY <1>1, <1>6 DEF ScanSend, Typed, ScanRows
    <2> QED BY <2>3, <2>4, <2>5
  <1> QED BY <1>2, <1>3, <1>4, <1>5, <1>6 DEF Scan

\* Members never take a stamp away, and a deleted task's id is not used again.
LEMMA MemberSent ==
  ASSUME Typed, Sent, Member PROVE Sent'
  <1>1. UNCHANGED <<now, scans, sentAt>>
    BY DEF Member, Create, Update, Remove, NudgeSend, NudgeStamp, UpdatePreferences
  <1>2. SUFFICES ASSUME NEW t \in Tasks, sentAt[t] # Null, Left(t), tasks'[t] # tasks[t]
                 PROVE  Left(t)'
    BY <1>1 DEF Sent, Free, Left
  <1>3. ASSUME NEW v \in Tasks, NEW d \in Deadlines \union {Null}, NEW u \in Users \union {Null},
               Create(v, d, u)
        PROVE  Left(t)'
    BY <1>2, <1>3 DEF Create, Typed
  <1>4. ASSUME NEW v \in Tasks, Remove(v) PROVE Left(t)'
    BY <1>2, <1>4 DEF Remove, Left, Typed
  <1>5. ASSUME NEW v \in Tasks, Update(v) PROVE Left(t)'
    <2>1. v = t /\ tasks[t] # Null /\ tasks[t] \in TaskRows
      BY <1>2, <1>5 DEF Update, Typed
    <2>2. tasks'[t].stamp = tasks[t].stamp
      BY <1>5, <2>1 DEF Update, Typed, TaskRows
    <2> QED BY <1>1, <1>2, <2>1, <2>2 DEF Left
  <1>6. ASSUME NEW n \in Nudges, NudgeStamp(n) PROVE Left(t)'
    <2>0. nudges[n] \in Tasks
      BY <1>6 DEF NudgeStamp, Typed
    <2>1. nudges[n] = t /\ tasks[t] # Null /\ Stamp(t)
      BY <1>2, <1>6, <2>0, StampKeepsRows DEF NudgeStamp
    <2>2. tasks[t] \in TaskRows /\ tasks'[t] = [tasks[t] EXCEPT !.stamp = now]
      BY <2>1, StampKeepsRows DEF Typed
    <2>3. tasks'[t].stamp = now /\ now # Null
      BY <2>2, RemindersAssumption DEF TaskRows, Typed
    <2> QED BY <1>1, <1>2, <2>3 DEF Left, Sent
  <1>7. ASSUME NEW v \in Tasks, NEW n \in Nudges, NudgeSend(n, v) PROVE Left(t)'
    BY <1>2, <1>7 DEF NudgeSend
  <1>8. ASSUME NEW u \in Users, NEW d \in DaysBefore, NEW c \in Channels, UpdatePreferences(u, d, c)
        PROVE  Left(t)'
    BY <1>2, <1>8 DEF UpdatePreferences
  <1> QED BY <1>3, <1>4, <1>5, <1>6, <1>7, <1>8 DEF Member

LEMMA NextSent ==
  ASSUME \A p, q \in Scans : p = q, Typed, Sent, [Next]_vars PROVE Sent'
  <1>1. CASE Tick
    <2>1. UNCHANGED <<tasks, scans, sentAt>> /\ now' = now + 1 /\ now \in Nat
      BY <1>1 DEF Tick, Typed
    <2>2. \A t \in Tasks : sentAt[t] # Null => sentAt[t] \in Nat
      <3>1. MaxTime \in Nat /\ \A t \in Tasks : sentAt[t] \in (0 .. MaxTime) \union {Null}
        BY RemindersAssumption DEF Typed, Times
      <3> QED BY <3>1
    <2>3. StaleAfter \in Nat
      BY RemindersAssumption
    <2>4. \A t \in Tasks : Free(t) => Free(t)'
      BY <2>1, <2>2, <2>3 DEF Free
    <2>5. \A s \in Scans : \A r \in scans[s].batch : r.id \in Tasks
      BY DEF Typed, ScanRows, Reads
    <2>6. \A t \in Tasks : Left(t) => Left(t)'
      BY <2>1 DEF Left
    <2> QED BY <2>1, <2>2, <2>4, <2>5, <2>6 DEF Sent
  <1>2. CASE Restart
    <2>1. /\ UNCHANGED <<now, tasks>> /\ \A s \in Scans : scans'[s].batch = {}
          /\ sentAt' = [t \in Tasks |-> IF \E s \in Scans : scans[s].sent = t THEN Null ELSE sentAt[t]]
      BY <1>2 DEF Restart, Idle
    <2>2. \A t \in Tasks : sentAt'[t] # Null => /\ sentAt'[t] = sentAt[t]
                                                /\ ~\E s \in Scans : scans[s].sent = t
      BY <2>1
    <2>3. \A t \in Tasks : sentAt'[t] # Null /\ Left(t) => Left(t)'
      BY <2>1, <2>2 DEF Left
    <2> QED BY <2>1, <2>2, <2>3 DEF Sent
  <1>3. CASE UNCHANGED vars
    <2>1. UNCHANGED <<now, tasks, scans, sentAt>>
      BY <1>3 DEF vars
    <2> QED BY <2>1 DEF Sent, Free, Left
  <1> QED BY <1>1, <1>2, <1>3, ScanSent, MemberSent DEF Next

\* Two reminders of one task by scans that do not overlap are more than 36 hours
\* apart, whatever is edited, deleted, reminded of by hand or cut off between
\* them.  With a second scan under way this fails: each sends what it read.
THEOREM RemindersKeepTheirDistance ==
  ASSUME \A p, q \in Scans : p = q
  PROVE  Spec => RemindersAreSpaced
  <1>1. Init => Sent
    BY DEF Init, Sent, Idle
  <1>2. Typed /\ Sent /\ [Next]_vars => Sent'
    BY NextSent
  <1>3. Typed /\ Sent /\ [Next]_vars
           => [\A t \in Tasks :
                  sentAt[t] # Null /\ (\E s \in Scans : scans'[s].sent = t /\ scans[s].sent # t)
                     => now > sentAt[t] + StaleAfter]_vars
    <2> SUFFICES ASSUME Typed, Sent, Next, NEW t \in Tasks, sentAt[t] # Null, NEW s \in Scans,
                        scans'[s].sent = t, scans[s].sent # t
                 PROVE  now > sentAt[t] + StaleAfter
      OBVIOUS
    <2>1. t # Null
      BY RemindersAssumption
    <2>2. \E r \in scans[s].batch : \E ok \in BOOLEAN : ScanSend(s, r, ok) /\ r.id = t
      <3>1. scans[s] \in ScanRows /\ scans \in [Scans -> ScanRows]
        BY DEF Typed
      <3>2. PICK q \in Scans : Scan(q)
        <4>1. scans' # scans
          OBVIOUS
        <4>2. ~Tick /\ ~Member
          BY <4>1 DEF Tick, Member, Create, Update, Remove, NudgeSend, NudgeStamp,
                      UpdatePreferences
        <4>3. ~Restart
          BY <2>1 DEF Restart, Idle
        <4> QED BY <4>2, <4>3 DEF Next
      <3>3. q = s
        OBVIOUS
      <3>4. ~ScanStart(s) /\ ~ScanStamp(s) /\ ~ScanEnd(s)
        BY <2>1, <3>1 DEF ScanStart, ScanStamp, ScanEnd, Idle, ScanRows
      <3>5. \A r \in scans[s].batch : ~ScanSkip(s, r)
        BY <3>1 DEF ScanSkip, ScanRows
      <3>6. PICK r \in scans[s].batch, ok \in BOOLEAN : ScanSend(s, r, ok)
        BY <3>2, <3>3, <3>4, <3>5 DEF Scan
      <3>7. r.id = t
        BY <3>1, <3>6 DEF ScanSend, ScanRows
      <3> QED BY <3>6, <3>7
    <2>3. Free(t)
      BY <2>2 DEF Sent
    <2> QED BY <2>3 DEF Free
  <1> QED BY <1>1, <1>2, <1>3, RemindersTyped, PTL DEF Spec, RemindersAreSpaced
=============================================================================
