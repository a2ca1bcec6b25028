------------------------------- MODULE Pages -------------------------------
(* The query cache of one browser tab while a person goes from page to page   *)
(* and saves: GETs in flight, entries that are marked as outdated, saves in   *)
(* flight and what their answers make of the cache, in any order, with lost   *)
(* answers, refused saves and failing GETs.                                   *)
(* The entries of the cache do not depend on each other, so the module        *)
(* follows one, whichever it is.  What an entry shows is the number of saves  *)
(* the server had applied when its data was read.                             *)
EXTENDS PageTables
LOCAL INSTANCE TLC

CONSTANTS Sent    \* the saves a person sends, each once: 1 .. n

ASSUME SentAssumption == Sent \subseteq Nat \ {0} /\ IsFiniteSet(Sent)

VARIABLES
    query,     \* what the pages do with the query of the entry followed
    page,      \* the page that is open
    entry,     \* the entry, and its GET in flight
    save,      \* the saves, with what their answers will do to the entry
    applied,   \* how many the server has applied
    due,       \* ghost: the save the data must show whenever it counts as current
    own        \* ghost: the save the data must show while the page stays open

vars == <<query, page, entry, save, applied, due, own>>

Nothing == -2   \* no data: the page shows that it is loading
Blank == -1     \* the empty answer put in the place of an error

Empty == [shows |-> Nothing, guess |-> FALSE, marked |-> FALSE, old |-> FALSE,
          get |-> "none", read |-> 0, hides |-> FALSE]
Unsent == [at |-> "unsent", guess |-> FALSE, sets |-> FALSE, names |-> FALSE, asks |-> FALSE,
           again |-> FALSE, owes |-> FALSE, page |-> "help", goes |-> Stay, no |-> 0]

Mounts(p) == p \in query.mount

----------------------------------------------------------------------------
\* What shows a save: the lists of what it saved and the pages about it.
ShownBy ==
    [task |-> {<<"task">>, Tasks, Dashboard, <<"command-feed">>},
     project |-> {<<"project">>, Projects}, comment |-> {<<"comments">>}, file |-> {<<"files">>},
     time |-> {<<"time-entries">>}, tag |-> {<<"tags">>}, tagging |-> {<<"tags", "task">>},
     deal |-> {<<"deals">>, <<"deal">>}, milestone |-> {<<"deal">>},
     link |-> {<<"deal">>, Projects}, team |-> {<<"teams">>},
     member |-> {<<"user">>, <<"users">>, <<"teams">>}, user |-> {<<"users">>},
     invoice |-> {<<"invoice">>, <<"invoices">>, <<"finance">>, <<"command-feed">>},
     customer |-> {<<"customer">>, <<"customers">>},
     supplier |-> {<<"supplier">>, <<"suppliers">>}, product |-> {<<"products">>},
     order |-> {<<"orders">>}, event |-> {<<"calendar">>}, read |-> {Activities, Unread},
     preferences |-> {<<"notification-preferences">>}, workspace |-> {<<"organizations">>}]
Lists == {<<"tasks">>, <<"projects">>, <<"deals">>, <<"teams">>, <<"users">>, <<"invoices">>,
          <<"finance">>, <<"customers">>, <<"suppliers">>, <<"products">>, <<"orders">>,
          <<"calendar">>}

\* Lists a save leaves as they are: they may lack it for as long as their data
\* counts as fresh.  The two forms for a new row read nothing again.
Skips == {<<"newTask", "tasks">>, <<"newProject", "projects">>, <<"commandFeed", "finance">>}

Owes(k, p, s) ==
    /\ Names(ShownBy[s.kind], k)
    /\ \/ k \in Routes[p].queries /\ s.goes = Stay
       \/ Names(Lists, k) /\ <<p, Head(k)>> \notin Skips

\* A save as far as one entry is concerned.
Effect(k, p, s) ==
    [at |-> "sent", guess |-> k \in s.guesses, sets |-> k \in s.sets,
     names |-> Names(s.marks \cup s.asks, k), asks |-> Names(s.asks, k),
     again |-> k \in s.again, owes |-> Owes(k, p, s), page |-> p, goes |-> s.goes, no |-> 0]
Concerns(e) == e.sets \/ e.names \/ e.again \/ e.owes

\* The pages that mount the query of an entry, hide its errors, poll it, have a
\* button that reads it again, hear of events about it, and the saves that
\* concern it.
Uses(k) ==
    [mount |-> {p \in DOMAIN Routes : k \in Routes[p].queries},
     hide |-> {p \in DOMAIN Routes : k \in Routes[p].hides},
     poll |-> {p \in DOMAIN Routes : k \in Routes[p].polls},
     reload |-> {p \in DOMAIN Routes : Names(Routes[p].reloads, k)},
     live |-> IF k = Dashboard THEN {"dashboard"} ELSE {},
     saves |-> {e \in UNION {{Effect(k, p, s) : s \in Routes[p].saves} : p \in DOMAIN Routes} :
                    Concerns(e)}]

\* Pages are alike for an entry when they treat its query alike and send nothing
\* that concerns it: one of them stands for all (there is always the help page
\* or one like it).
Kind(u, p) ==
    [mount |-> p \in u.mount, hide |-> p \in u.hide, poll |-> p \in u.poll,
     reload |-> p \in u.reload, live |-> p \in u.live,
     saves |-> {e \in u.saves : e.page = p}]
Around(u) ==
    {CHOOSE p \in DOMAIN Routes : Kind(u, p) = kind : kind \in {Kind(u, p) : p \in DOMAIN Routes}}
Queries == {Uses(k) @@ [open |-> Around(Uses(k))] : k \in Keys}

\* What the pages keep to, for every entry: only a guess of what the answer will
\* set is shown, no save leaves for its own page, one that owes an entry sets or
\* names it, and one that stays on a page with the entry also sets it or reads it.
Coherent(u) ==
    /\ u.open \subseteq DOMAIN Routes
    /\ \A e \in u.saves :
        /\ e \in [at : {"sent"}, guess : BOOLEAN, sets : BOOLEAN, names : BOOLEAN,
                  asks : BOOLEAN, again : BOOLEAN, owes : BOOLEAN, page : DOMAIN Routes,
                  goes : (DOMAIN Routes) \cup {Stay}, no : {0}]
        /\ e.goes # e.page
        /\ e.guess => e.sets
        /\ e.owes => e.sets \/ e.names
        /\ e.owes /\ e.page \in u.mount /\ e.goes = Stay => e.sets \/ e.asks \/ e.again

ASSUME QueriesAssumption ==
    /\ "help" \in DOMAIN Routes /\ Stay \notin DOMAIN Routes
    /\ \A u \in Queries : Coherent(u)

----------------------------------------------------------------------------
\* useQuery, setQueryData and invalidateQueries of @tanstack/react-query 5, as
\* operators on the entry c.
Stale(c) == c.shows = Nothing \/ c.marked \/ c.old
Asked(c, p) == [c EXCEPT !.get = "asked", !.read = 0, !.hides = p \in query.hide]

\* A fetch joins the GET in flight ...
Fetch(c, p) == IF c.get = "none" THEN Asked(c, p) ELSE c
\* ... a refetch only when there is no data yet, and else drops it.
Refetch(c, p) == IF c.shows = Nothing THEN Fetch(c, p) ELSE Asked(c, p)
Mount(c, p) == IF Mounts(p) /\ Stale(c) THEN Fetch(c, p) ELSE c
Mark(c) == [c EXCEPT !.marked = TRUE]
SetData(c, n) == [c EXCEPT !.shows = n, !.guess = FALSE, !.marked = FALSE, !.old = FALSE]
Invalidate(c, p) == IF Mounts(p) THEN Refetch(Mark(c), p) ELSE Mark(c)

\* MUTANT: the lists are forgotten, only what is asked for is marked.
BugForgets(c, s) ==
    LET set == IF s.sets THEN SetData(c, s.no) ELSE c
        named == IF s.asks THEN Invalidate(set, page) ELSE set
        again == IF s.again THEN Refetch(named, s.page) ELSE named
    IN IF s.goes = Stay THEN again ELSE Mount(again, s.goes)

\* MUTANT: refetchType 'none' everywhere, also where nothing is set.
BugOnlyMarks(c, s) ==
    LET set == IF s.sets THEN SetData(c, s.no) ELSE c
        named == IF s.names THEN Mark(set) ELSE set
        again == IF s.again THEN Refetch(named, s.page) ELSE named
    IN IF s.goes = Stay THEN again ELSE Mount(again, s.goes)

\* onSuccess: set, mark, ask, the callback of the row, then the next page.
Answered(c, s) ==
    LET set == IF s.sets THEN SetData(c, s.no) ELSE c
        named == IF s.asks THEN Invalidate(set, page)
                 ELSE IF s.names THEN Mark(set) ELSE set
        again == IF s.again THEN Refetch(named, s.page) ELSE named
    IN IF s.goes = Stay THEN again ELSE Mount(again, s.goes)

\* The older answer of a GET that is not asked again comes after that of the save.
Overtaken(c, s) == Answered(c, s).get = "answered" /\ Answered(c, s).read < s.no

\* What must be shown from then on: the save just answered.  An answer that is
\* put into the cache after that of a later save takes it back.
Claim(old, s, counts) ==
    CASE s.sets /\ s.no < old -> s.no
      [] counts /\ s.no > old -> s.no
      [] OTHER -> old

----------------------------------------------------------------------------
Init ==
    /\ query \in Queries
    /\ page = "help"
    /\ entry = Empty
    /\ save = [r \in Sent |-> Unsent]
    /\ applied = 0 /\ due = 0 /\ own = 0

\* A link, the menu, back and forward: the mounted queries ask when stale.
Open(p) ==
    /\ p # page
    /\ page' = p
    /\ entry' = Mount(entry, p)
    /\ own' = 0
    /\ UNCHANGED <<query, save, applied, due>>

\* The answer is made at the server ...
ReadRows ==
    /\ entry.get = "asked"
    /\ entry' = [entry EXCEPT !.get = "answered", !.read = applied]
    /\ UNCHANGED <<query, page, save, applied, due, own>>

\* ... and arrives: it replaces whatever is there.
GetAnswered ==
    /\ entry.get = "answered"
    /\ entry' = [SetData(entry, entry.read) EXCEPT !.get = "none", !.read = 0, !.hides = FALSE]
    /\ UNCHANGED <<query, page, save, applied, due, own>>

\* A GET that fails is repeated unless the page's function hides the error.
GetRepeated ==
    /\ entry.get = "answered" /\ ~ entry.hides
    /\ entry' = [entry EXCEPT !.get = "asked", !.read = 0]
    /\ UNCHANGED <<query, page, save, applied, due, own>>

\* MUTANT: given up although the page's function answers.
BugGetFailed ==
    /\ entry.get # "none"
    /\ entry' = [entry EXCEPT !.get = "none", !.read = 0]
    /\ own' = 0
    /\ UNCHANGED <<query, page, save, applied, due>>

\* In the end it is given up: the data stays as it was.  Since 5.90 it is marked.
GetFailed ==
    /\ entry.get # "none" /\ ~ entry.hides
    /\ \E marked \in {entry.marked, TRUE} :
        entry' = [entry EXCEPT !.get = "none", !.read = 0, !.marked = marked]
    /\ own' = 0
    /\ UNCHANGED <<query, page, save, applied, due>>

\* Or the page shows an empty answer for it, which counts as fresh.
GetHidden ==
    /\ entry.get # "none" /\ entry.hides
    /\ entry' = [SetData(entry, Blank) EXCEPT !.get = "none", !.read = 0, !.hides = FALSE]
    /\ UNCHANGED <<query, page, save, applied, due, own>>

\* staleTime: 60 seconds after the data was set.
Age ==
    /\ ~ Stale(entry)
    /\ entry' = [entry EXCEPT !.old = TRUE]
    /\ UNCHANGED <<query, page, save, applied, due, own>>

\* gcTime: five minutes after the last page that mounts the query was left.
Collect ==
    /\ ~ Mounts(page) /\ entry.get = "none" /\ entry.shows # Nothing
    /\ entry' = Empty
    /\ UNCHANGED <<query, page, save, applied, due, own>>

Poll ==
    /\ page \in query.poll
    /\ entry' = Fetch(entry, page)
    /\ UNCHANGED <<query, page, save, applied, due, own>>

\* A button that invalidates, the months of the calendar.
Reload ==
    /\ page \in query.reload
    /\ entry' = Invalidate(entry, page)
    /\ UNCHANGED <<query, page, save, applied, due, own>>

\* An event of the realtime connection reaches the dashboard.
Event ==
    /\ page \in query.live
    /\ entry' = Refetch(entry, page)
    /\ UNCHANGED <<query, page, save, applied, due, own>>

----------------------------------------------------------------------------
\* A save is sent; a check mark shows its guess at once.
Send(r) ==
    /\ save[r].at = "unsent" /\ \A q \in Sent : q < r => save[q].at # "unsent"
    /\ \E e \in query.saves :
        /\ e.page = page
        /\ save' = [save EXCEPT ![r] = e]
        /\ entry' = IF e.guess
                    THEN [SetData(entry, 0) EXCEPT !.guess = TRUE] ELSE entry
    /\ UNCHANGED <<query, page, applied, due, own>>

Apply(r) ==
    /\ save[r].at = "sent"
    /\ applied' = applied + 1
    /\ save' = [save EXCEPT ![r].at = "applied", ![r].no = applied + 1]
    /\ UNCHANGED <<query, page, entry, due, own>>

\* The answer of a save that was applied.
Saved(r) ==
    LET s == save[r]
        counts == s.owes /\ ~ Overtaken(entry, s)
        next == IF s.goes = Stay THEN page ELSE s.goes
    IN /\ s.at = "applied"
       /\ entry' = Answered(entry, s)
       /\ page' = next
       /\ due' = Claim(due, s, counts)
       /\ own' = IF next # page THEN 0
                 ELSE Claim(own, s, counts /\ s.page = page /\ Mounts(page))
       /\ save' = [save EXCEPT ![r] = [Unsent EXCEPT !.at = "over"]]
       /\ UNCHANGED <<query, applied>>

\* MUTANT: a check mark that was not saved only shows an error.
BugNotSaved(r) ==
    /\ save[r].at \in {"sent", "applied"}
    /\ save' = [save EXCEPT ![r] = [Unsent EXCEPT !.at = "over"]]
    /\ UNCHANGED <<query, page, entry, applied, due, own>>

\* It is refused, or its answer is lost: the page reports an error, a check
\* mark asks for the task it had guessed.
NotSaved(r) ==
    /\ save[r].at \in {"sent", "applied"}
    /\ entry' = IF save[r].guess THEN Invalidate(entry, page) ELSE entry
    /\ save' = [save EXCEPT ![r] = [Unsent EXCEPT !.at = "over"]]
    /\ UNCHANGED <<query, page, applied, due, own>>

Next ==
    \/ \E p \in query.open : Open(p)
    \/ ReadRows \/ GetAnswered \/ GetRepeated \/ GetFailed \/ GetHidden
    \/ Age \/ Collect \/ Poll \/ Reload \/ Event
    \/ \E r \in Sent : Send(r) \/ Apply(r) \/ Saved(r) \/ NotSaved(r)

Spec == Init /\ [][Next]_vars

----------------------------------------------------------------------------
TypeOK ==
    /\ page \in DOMAIN Routes
    /\ entry.shows \in {Nothing, Blank} \cup 0 .. applied
    /\ entry.read \in 0 .. applied
    /\ {entry.guess, entry.marked, entry.old, entry.hides} \subseteq BOOLEAN
    /\ entry.get \in {"none", "asked", "answered"}
    /\ \A r \in Sent : /\ save[r].at \in {"unsent", "sent", "applied", "over"}
                       /\ save[r].no \in 0 .. applied
    /\ due \in 0 .. applied /\ own \in 0 .. applied
    /\ entry.get = "none" => entry.read = 0 /\ ~ entry.hides

Settled == entry.get = "none" /\ ~ entry.guess /\ entry.shows >= 0

\* Data that counts as current (nobody is asking, nothing is marked) shows every
\* answered save to the list or page concerned, whatever GETs, saves, visits and
\* failures came in between: a page opened later does not show the row as it
\* was.  Excused is a GET from before the save whose answer comes after it, and
\* the empty answer put in the place of an error.
SavesAreShown == Settled /\ ~ entry.marked => entry.shows >= due

\* As long as the page stays open it shows the saves made on it, marked or not
\* (pages that mark what they mount set it first).
OwnSavesAreSeen == Settled /\ Mounts(page) => entry.shows >= own

\* A guess whose save is no longer under way is marked, or being replaced.
GuessesAreRevoked ==
    entry.guess /\ entry.get = "none" /\ ~ entry.marked =>
        \E r \in Sent : save[r].at \in {"sent", "applied"} /\ save[r].guess
=============================================================================
