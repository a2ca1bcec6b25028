---------------------------- MODULE BrowserProofs ----------------------------
(* Proofs about Browser, for any number of saves and of requests, and for     *)
(* every entry and every field whose tables keep the rules that Pages and     *)
(* Forms name (Coherent, Fits; TLC evaluates both over all tables).           *)
EXTENDS Browser, TLAPS

----------------------------------------------------------------------------
(* Pages.  The data of an entry is held against the last save it owes (due)   *)
(* and against the last one made on the page that is open (own).  What makes  *)
(* these hold is kept for the GET in flight too: an answer read at the server *)
(* is never older than what has been promised since it was asked.             *)

EntryRec ==
    [shows : Int, guess : BOOLEAN, marked : BOOLEAN, old : BOOLEAN,
     get : {"none", "asked", "answered"}, read : Int, hides : BOOLEAN]

EntryOK(c, n) ==
    /\ c \in EntryRec
    /\ c.shows \in {Nothing, Blank} \cup 0 .. n
    /\ c.read \in 0 .. n
    /\ c.get = "none" => c.read = 0 /\ ~ c.hides

SaveRec ==
    [at : {"unsent", "sent", "applied", "over"}, guess : BOOLEAN, sets : BOOLEAN,
     names : BOOLEAN, asks : BOOLEAN, again : BOOLEAN, owes : BOOLEAN,
     page : DOMAIN Routes, goes : (DOMAIN Routes) \cup {Stay}, no : Int]

SaveOK(e, u) ==
    /\ e \in SaveRec
    /\ e.goes # e.page
    /\ e.guess => e.sets
    /\ e.owes => e.sets \/ e.names
    /\ e.owes /\ e.page \in u.mount /\ e.goes = Stay => e.sets \/ e.asks \/ e.again

PagesTyped ==
    /\ Coherent(query) \/ query = NoQuery
    /\ page \in DOMAIN Routes
    /\ applied \in Nat /\ due \in 0 .. applied /\ own \in 0 .. applied
    /\ EntryOK(entry, applied)
    /\ save \in [Sent -> SaveRec]
    /\ \A r \in Sent : SaveOK(save[r], query) /\ save[r].no \in 0 .. applied

\* Data that is not marked shows what is due, whoever is asking meanwhile.
DueIsShown == ~ entry.guess /\ entry.shows >= 0 /\ ~ entry.marked => entry.shows >= due

\* An answer under way shows what is due and what was saved on the page.
AnswersKeepUp == entry.get = "answered" => entry.read >= due /\ entry.read >= own

OwnIsShown ==
    entry.get = "none" /\ ~ entry.guess /\ entry.shows >= 0 /\ Mounts(page) =>
        entry.shows >= own

GuessesHaveSaves ==
    entry.guess /\ ~ entry.marked =>
        \E r \in Sent : save[r].at \in {"sent", "applied"} /\ save[r].guess

PagesInv == PagesTyped /\ DueIsShown /\ AnswersKeepUp /\ OwnIsShown /\ GuessesHaveSaves

----------------------------------------------------------------------------
(* What the operators on an entry do: a fetch, a refetch and a mark leave its *)
(* data alone; the GET in flight stays what it is or is asked again.          *)
Follows(c, d) ==
    /\ d.shows = c.shows /\ d.guess = c.guess
    /\ c.marked => d.marked
    /\ \/ d.get = "asked"
       \/ /\ d.get = c.get
          /\ d.read = c.read

\* An entry with another GET is an entry.
LEMMA GetsArePut ==
    ASSUME NEW c \in EntryRec, NEW g \in {"none", "asked", "answered"}, NEW k \in Int,
           NEW b \in BOOLEAN
    PROVE /\ [c EXCEPT !.get = g, !.read = k] \in EntryRec
          /\ [c EXCEPT !.get = g, !.read = k, !.hides = b] \in EntryRec
          /\ [c EXCEPT !.get = g, !.read = k, !.marked = b] \in EntryRec
  <1>1. PICK d : d = [c EXCEPT !.get = g]
    OBVIOUS
  <1>2. PICK e : e = [d EXCEPT !.read = k]
    OBVIOUS
  <1>3. d \in EntryRec
    BY <1>1 DEF EntryRec
  <1>4. e \in EntryRec
    BY <1>2, <1>3 DEF EntryRec
  <1>5. [e EXCEPT !.hides = b] \in EntryRec /\ [e EXCEPT !.marked = b] \in EntryRec
    BY <1>4 DEF EntryRec
  <1>6. /\ e = [c EXCEPT !.get = g, !.read = k]
        /\ [e EXCEPT !.hides = b] = [c EXCEPT !.get = g, !.read = k, !.hides = b]
        /\ [e EXCEPT !.marked = b] = [c EXCEPT !.get = g, !.read = k, !.marked = b]
    BY <1>1, <1>2
  <1> QED BY <1>4, <1>5, <1>6

LEMMA AskedFollows ==
    ASSUME NEW n \in Nat, NEW c, EntryOK(c, n), NEW p
    PROVE /\ EntryOK(Asked(c, p), n) /\ Follows(c, Asked(c, p))
          /\ Asked(c, p).get = "asked"
  <1> DEFINE h == p \in query.hide
  <1>1. h \in BOOLEAN /\ c \in EntryRec /\ 0 \in Int
    BY DEF EntryOK
  <1>2. PICK d : d = Asked(c, p)
    OBVIOUS
  <1>3. d = [c EXCEPT !.get = "asked", !.read = 0, !.hides = h]
    BY <1>2 DEF Asked
  <1> HIDE DEF h
  <1>4. d \in EntryRec
    <2>1. [c EXCEPT !.get = "asked", !.read = 0, !.hides = h] \in EntryRec
      BY <1>1, GetsArePut, Zenon
    <2> QED BY <1>3, <2>1, Zenon
  <1>5. /\ d.shows = c.shows /\ d.guess = c.guess /\ d.marked = c.marked
        /\ d.get = "asked" /\ d.read = 0
    BY <1>1, <1>3 DEF EntryRec
  <1> QED BY <1>2, <1>4, <1>5 DEF EntryOK, Follows

LEMMA FetchFollows ==
    ASSUME NEW n \in Nat, NEW c, EntryOK(c, n), NEW p
    PROVE EntryOK(Fetch(c, p), n) /\ Follows(c, Fetch(c, p))
  <1>1. Follows(c, c)
    BY DEF Follows
  <1> QED BY <1>1, AskedFollows DEF Fetch

LEMMA FetchAsks ==
    ASSUME NEW n \in Nat, NEW c, EntryOK(c, n), NEW p, c.get # "answered"
    PROVE Fetch(c, p).get = "asked"
  BY AskedFollows DEF Fetch, EntryOK, EntryRec

LEMMA RefetchFollows ==
    ASSUME NEW n \in Nat, NEW c, EntryOK(c, n), NEW p
    PROVE /\ EntryOK(Refetch(c, p), n) /\ Follows(c, Refetch(c, p))
          /\ c.shows # Nothing => Refetch(c, p).get = "asked"
  BY AskedFollows, FetchFollows DEF Refetch

LEMMA MountFollows ==
    ASSUME NEW n \in Nat, NEW c, EntryOK(c, n), NEW p
    PROVE EntryOK(Mount(c, p), n) /\ Follows(c, Mount(c, p))
  <1>1. Follows(c, c)
    BY DEF Follows
  <1> QED BY <1>1, FetchFollows DEF Mount

LEMMA MarkFollows ==
    ASSUME NEW n \in Nat, NEW c, EntryOK(c, n)
    PROVE EntryOK(Mark(c), n) /\ Follows(c, Mark(c)) /\ Mark(c).marked
  BY DEF EntryOK, EntryRec, Follows, Mark

LEMMA FollowsFollows ==
    ASSUME NEW c, NEW d, NEW e, Follows(c, d), Follows(d, e)
    PROVE Follows(c, e)
  BY DEF Follows

\* An invalidated entry is marked, and asked for where it is mounted.
LEMMA InvalidateFollows ==
    ASSUME NEW n \in Nat, NEW c, EntryOK(c, n), NEW p
    PROVE /\ EntryOK(Invalidate(c, p), n) /\ Follows(c, Invalidate(c, p))
          /\ Invalidate(c, p).marked
          /\ Mounts(p) /\ c.shows # Nothing => Invalidate(c, p).get = "asked"
  <1> PICK m : m = Mark(c)
    OBVIOUS
  <1>1. EntryOK(m, n) /\ Follows(c, m) /\ m.marked
    BY MarkFollows
  <1>2. CASE ~ Mounts(p)
    BY <1>1, <1>2 DEF Invalidate
  <1>3. CASE Mounts(p)
    <2> PICK d : d = Refetch(m, p)
      OBVIOUS
    <2>1. EntryOK(d, n) /\ Follows(m, d) /\ (m.shows # Nothing => d.get = "asked")
      BY <1>1, RefetchFollows
    <2>2. Follows(c, d) /\ d.marked /\ m.shows = c.shows
      BY <1>1, <2>1, FollowsFollows DEF Follows
    <2> QED BY <1>3, <2>1, <2>2 DEF Invalidate
  <1> QED BY <1>2, <1>3

LEMMA SetDataFacts ==
    ASSUME NEW n \in Nat, NEW c, EntryOK(c, n), NEW k \in {Nothing, Blank} \cup 0 .. n
    PROVE /\ EntryOK(SetData(c, k), n)
          /\ SetData(c, k).shows = k /\ ~ SetData(c, k).guess
          /\ SetData(c, k).get = c.get /\ SetData(c, k).read = c.read
  <1>1. k \in Int
    BY DEF Nothing, Blank
  <1> QED BY <1>1 DEF EntryOK, EntryRec, SetData

----------------------------------------------------------------------------
(* The steps that leave the data and the promises alone.                      *)
LEMMA FollowingKeeps ==
    ASSUME PagesInv, EntryOK(entry', applied), Follows(entry, entry'),
           UNCHANGED <<query, save, applied, due>>,
           page' \in DOMAIN Routes,
           own' = 0 \/ (own' = own /\ page' = page)
    PROVE PagesInv'
  <1>1. PagesTyped'
    BY DEF PagesInv, PagesTyped
  <1>2. DueIsShown' /\ AnswersKeepUp'
    BY DEF PagesInv, PagesTyped, DueIsShown, AnswersKeepUp, Follows, EntryOK, EntryRec
  <1>3. OwnIsShown'
    BY DEF PagesInv, PagesTyped, OwnIsShown, Follows, EntryOK, EntryRec, Mounts
  <1>4. GuessesHaveSaves'
    BY DEF PagesInv, PagesTyped, GuessesHaveSaves, Follows, EntryOK, EntryRec
  <1> QED BY <1>1, <1>2, <1>3, <1>4 DEF PagesInv

----------------------------------------------------------------------------
(* The answer of a save: it is what the entry shows if it is set, the entry is *)
(* marked if it is named, and asked for again where the page or the row asks.  *)
LEMMA AnsweredFacts ==
    ASSUME NEW n \in Nat, NEW c, EntryOK(c, n), NEW s, s \in SaveRec, s.no \in 0 .. n,
           NEW d, d = Answered(c, s)
    PROVE /\ EntryOK(d, n)
          /\ s.sets => d.shows = s.no /\ ~ d.guess
          /\ ~ s.sets => Follows(c, d)
          /\ d.get = "asked" \/ (d.get = c.get /\ d.read = c.read)
          /\ s.asks \/ s.names => d.marked
          /\ (s.asks /\ Mounts(page)) \/ s.again =>
                 s.goes # Stay \/ d.shows = Nothing \/ d.get = "asked"
  <1>1. PICK set : set = IF s.sets THEN SetData(c, s.no) ELSE c
    OBVIOUS
  <1>2. PICK named : named = IF s.asks THEN Invalidate(set, page)
                             ELSE IF s.names THEN Mark(set) ELSE set
    OBVIOUS
  <1>3. PICK again : again = IF s.again THEN Refetch(named, s.page) ELSE named
    OBVIOUS
  <1>4. d = IF s.goes = Stay THEN again ELSE Mount(again, s.goes)
    BY <1>1, <1>2, <1>3 DEF Answered
  <1>5. /\ EntryOK(set, n) /\ set.get = c.get /\ set.read = c.read
        /\ s.sets => set.shows = s.no /\ ~ set.guess
        /\ ~ s.sets => set = c
    BY <1>1, SetDataFacts
  <1>6. /\ EntryOK(named, n) /\ Follows(set, named)
        /\ s.asks \/ s.names => named.marked
        /\ s.asks /\ Mounts(page) => set.shows = Nothing \/ named.get = "asked"
    <2>1. Follows(set, set)
      BY DEF Follows
    <2>2. CASE s.asks
      BY <1>2, <1>5, <2>2, InvalidateFollows
    <2>3. CASE ~ s.asks /\ s.names
      BY <1>2, <1>5, <2>3, MarkFollows
    <2>4. CASE ~ s.asks /\ ~ s.names
      BY <1>2, <1>5, <2>1, <2>4
    <2> QED BY <2>2, <2>3, <2>4
  <1>7. /\ EntryOK(again, n) /\ Follows(named, again)
        /\ s.again => named.shows = Nothing \/ again.get = "asked"
    <2>1. Follows(named, named)
      BY DEF Follows
    <2> QED BY <1>3, <1>6, <2>1, RefetchFollows
  <1>8. EntryOK(d, n) /\ Follows(again, d) /\ (s.goes = Stay => d = again)
    <2>1. Follows(again, again)
      BY DEF Follows
    <2> QED BY <1>4, <1>7, <2>1, MountFollows
  <1>9. Follows(set, again) /\ Follows(set, d)
    BY <1>6, <1>7, <1>8, FollowsFollows
  <1>10. s.sets => d.shows = s.no /\ ~ d.guess
    BY <1>5, <1>9 DEF Follows
  <1>11. ~ s.sets => Follows(c, d)
    BY <1>5, <1>9
  <1>12. d.get = "asked" \/ (d.get = c.get /\ d.read = c.read)
    BY <1>5, <1>9 DEF Follows
  <1>13. s.asks \/ s.names => d.marked
    BY <1>6, <1>7, <1>8 DEF Follows
  <1>14. (s.asks /\ Mounts(page)) \/ s.again =>
             s.goes # Stay \/ d.shows = Nothing \/ d.get = "asked"
    <2>1. ASSUME s.asks, Mounts(page), s.goes = Stay
          PROVE d.shows = Nothing \/ d.get = "asked"
      BY <1>6, <1>7, <1>8, <2>1 DEF Follows
    <2>2. ASSUME s.again, s.goes = Stay
          PROVE d.shows = Nothing \/ d.get = "asked"
      BY <1>6, <1>7, <1>8, <2>2 DEF Follows
    <2> QED BY <2>1, <2>2
  <1> QED BY <1>8, <1>10, <1>11, <1>12, <1>13, <1>14

----------------------------------------------------------------------------
(* Every step of Pages preserves PagesInv.                                    *)
LEMMA OpenKeeps ==
    ASSUME PagesInv, NEW p \in query.open, Open(p)
    PROVE PagesInv'
  <1>1. p \in DOMAIN Routes
    BY DEF PagesInv, PagesTyped, Coherent, NoQuery
  <1>2. EntryOK(entry', applied) /\ Follows(entry, entry')
    BY MountFollows DEF PagesInv, PagesTyped, Open
  <1> QED BY <1>1, <1>2, FollowingKeeps DEF Open

LEMMA AskingKeeps ==
    ASSUME PagesInv, GetRepeated \/ Age \/ Poll \/ Reload \/ Event
    PROVE PagesInv'
  <1>1. applied \in Nat /\ EntryOK(entry, applied) /\ page \in DOMAIN Routes
    BY DEF PagesInv, PagesTyped
  <1>2. EntryOK(entry', applied) /\ Follows(entry, entry')
    <2>1. CASE GetRepeated
      <3>1. entry \in EntryRec /\ 0 \in Int /\ "asked" \in {"none", "asked", "answered"}
        BY <1>1 DEF EntryOK
      <3>2. [entry EXCEPT !.get = "asked", !.read = 0] \in EntryRec
        BY <3>1, GetsArePut, Zenon
      <3>3. entry' \in EntryRec
        BY <2>1, <3>2 DEF GetRepeated
      <3>4. /\ entry'.shows = entry.shows /\ entry'.guess = entry.guess
            /\ entry'.marked = entry.marked /\ entry'.get = "asked" /\ entry'.read = 0
        BY <2>1, <3>1 DEF GetRepeated, EntryRec
      <3> QED BY <1>1, <3>3, <3>4 DEF EntryOK, Follows
    <2>2. CASE Age
      BY <1>1, <2>2 DEF Age, EntryOK, EntryRec, Follows
    <2>3. CASE Poll
      BY <1>1, <2>3, FetchFollows DEF Poll
    <2>4. CASE Reload
      BY <1>1, <2>4, InvalidateFollows DEF Reload
    <2>5. CASE Event
      BY <1>1, <2>5, RefetchFollows DEF Event
    <2> QED BY <2>1, <2>2, <2>3, <2>4, <2>5
  <1>3. UNCHANGED <<query, save, applied, due, own, page>>
    BY DEF GetRepeated, Age, Poll, Reload, Event
  <1> QED BY <1>1, <1>2, <1>3, FollowingKeeps

\* The answer is made at the server: it shows every save that was applied.
LEMMA ReadRowsKeeps ==
    ASSUME PagesInv, ReadRows
    PROVE PagesInv'
  <1>1. /\ applied \in Nat /\ entry \in EntryRec /\ EntryOK(entry, applied)
        /\ applied \in Int /\ "answered" \in {"none", "asked", "answered"}
        /\ due \in 0 .. applied /\ own \in 0 .. applied
    BY DEF PagesInv, PagesTyped, EntryOK
  <1>2. [entry EXCEPT !.get = "answered", !.read = applied] \in EntryRec
    BY <1>1, GetsArePut, Zenon
  <1>3. entry' \in EntryRec
    BY <1>2 DEF ReadRows
  <1>4. /\ entry'.shows = entry.shows /\ entry'.guess = entry.guess
        /\ entry'.marked = entry.marked /\ entry'.get = "answered" /\ entry'.read = applied
    BY <1>1 DEF ReadRows, EntryRec
  <1>5. EntryOK(entry', applied)
    BY <1>1, <1>3, <1>4 DEF EntryOK
  <1>6. PagesTyped'
    BY <1>5 DEF PagesInv, PagesTyped, ReadRows
  <1>7. DueIsShown' /\ AnswersKeepUp' /\ OwnIsShown'
    BY <1>1, <1>4 DEF PagesInv, DueIsShown, AnswersKeepUp, OwnIsShown, ReadRows
  <1>8. GuessesHaveSaves'
    BY <1>4 DEF PagesInv, GuessesHaveSaves, ReadRows
  <1> QED BY <1>6, <1>7, <1>8 DEF PagesInv

\* It arrives: what has been promised since it was asked is what it shows.
LEMMA GetAnsweredKeeps ==
    ASSUME PagesInv, GetAnswered
    PROVE PagesInv'
  <1>1. /\ applied \in Nat /\ EntryOK(entry, applied)
        /\ 0 \in Int /\ "none" \in {"none", "asked", "answered"} /\ FALSE \in BOOLEAN
        /\ entry.read \in {Nothing, Blank} \cup 0 .. applied
    BY DEF PagesInv, PagesTyped, EntryOK
  <1>2. PICK c : c = SetData(entry, entry.read)
    OBVIOUS
  <1>3. EntryOK(c, applied) /\ c.shows = entry.read /\ ~ c.guess /\ c \in EntryRec
    BY <1>1, <1>2, SetDataFacts DEF EntryOK
  <1>4. [c EXCEPT !.get = "none", !.read = 0, !.hides = FALSE] \in EntryRec
    BY <1>1, <1>3, GetsArePut, Zenon
  <1>5. entry' = [c EXCEPT !.get = "none", !.read = 0, !.hides = FALSE]
    BY <1>2 DEF GetAnswered
  <1>6. entry' \in EntryRec
    BY <1>4, <1>5
  <1>7. /\ entry'.shows = entry.read /\ ~ entry'.guess
        /\ entry'.get = "none" /\ entry'.read = 0 /\ ~ entry'.hides
    BY <1>3, <1>5 DEF EntryRec
  <1>8. EntryOK(entry', applied)
    BY <1>1, <1>6, <1>7 DEF EntryOK
  <1>9. PagesTyped'
    BY <1>8 DEF PagesInv, PagesTyped, GetAnswered
  <1>10. DueIsShown' /\ AnswersKeepUp' /\ OwnIsShown' /\ GuessesHaveSaves'
    BY <1>7 DEF PagesInv, DueIsShown, AnswersKeepUp, OwnIsShown, GuessesHaveSaves, GetAnswered
  <1> QED BY <1>9, <1>10 DEF PagesInv

\* It is given up: the page owes nothing of its own any more.
LEMMA GetFailedKeeps ==
    ASSUME PagesInv, GetFailed
    PROVE PagesInv'
  <1>1. /\ applied \in Nat /\ EntryOK(entry, applied) /\ entry \in EntryRec
        /\ 0 \in Int /\ "none" \in {"none", "asked", "answered"}
    BY DEF PagesInv, PagesTyped, EntryOK
  <1>2. PICK marked \in {entry.marked, TRUE} :
            entry' = [entry EXCEPT !.get = "none", !.read = 0, !.marked = marked]
    BY DEF GetFailed
  <1>3. marked \in BOOLEAN
    BY <1>1 DEF EntryRec
  <1>4. [entry EXCEPT !.get = "none", !.read = 0, !.marked = marked] \in EntryRec
    BY <1>1, <1>3, GetsArePut, Zenon
  <1>5. entry' \in EntryRec
    BY <1>2, <1>4
  <1>6. /\ entry'.shows = entry.shows /\ entry'.guess = entry.guess
        /\ entry.marked => entry'.marked
        /\ entry'.get = "none" /\ entry'.read = 0 /\ entry'.hides = entry.hides
    BY <1>1, <1>2 DEF EntryRec
  <1>7. EntryOK(entry', applied)
    BY <1>1, <1>5, <1>6 DEF EntryOK, GetFailed
  <1>8. PagesTyped'
    BY <1>7 DEF PagesInv, PagesTyped, GetFailed
  <1>9. DueIsShown' /\ AnswersKeepUp' /\ OwnIsShown'
    BY <1>6, <1>7 DEF PagesInv, DueIsShown, AnswersKeepUp, OwnIsShown, GetFailed, EntryOK
  <1>10. GuessesHaveSaves'
    BY <1>6 DEF PagesInv, GuessesHaveSaves, GetFailed
  <1> QED BY <1>8, <1>9, <1>10 DEF PagesInv

\* The empty answer in the place of an error, or no data at all.
LEMMA BlankingKeeps ==
    ASSUME PagesInv, GetHidden \/ Collect
    PROVE PagesInv'
  <1>1. applied \in Nat /\ EntryOK(entry, applied)
    BY DEF PagesInv, PagesTyped
  <1>2. /\ EntryOK(entry', applied) /\ entry'.shows \in {Nothing, Blank}
        /\ ~ entry'.guess /\ entry'.get = "none"
    <2>1. CASE GetHidden
      <3>1. Blank \in {Nothing, Blank} \cup 0 .. applied /\ 0 \in Int /\ FALSE \in BOOLEAN
            /\ "none" \in {"none", "asked", "answered"}
        OBVIOUS
      <3>2. PICK c : c = SetData(entry, Blank)
        OBVIOUS
      <3>3. c \in EntryRec /\ c.shows = Blank /\ ~ c.guess
        BY <1>1, <3>1, <3>2, SetDataFacts DEF EntryOK
      <3>4. entry' = [c EXCEPT !.get = "none", !.read = 0, !.hides = FALSE]
        BY <2>1, <3>2 DEF GetHidden
      <3>5. [c EXCEPT !.get = "none", !.read = 0, !.hides = FALSE] \in EntryRec
        BY <3>1, <3>3, GetsArePut, Zenon
      <3>6. entry' \in EntryRec
        BY <3>4, <3>5
      <3>7. /\ entry'.shows = Blank /\ ~ entry'.guess
            /\ entry'.get = "none" /\ entry'.read = 0 /\ ~ entry'.hides
        BY <3>3, <3>4 DEF EntryRec
      <3> QED BY <1>1, <3>6, <3>7 DEF EntryOK
    <2>2. CASE Collect
      BY <1>1, <2>2 DEF Collect, Empty, EntryOK, EntryRec, Nothing
    <2> QED BY <2>1, <2>2
  <1>3. UNCHANGED <<query, page, save, applied, due, own>>
    BY DEF GetHidden, Collect
  <1>4. PagesTyped'
    BY <1>2, <1>3 DEF PagesInv, PagesTyped
  <1>5. DueIsShown' /\ AnswersKeepUp' /\ OwnIsShown' /\ GuessesHaveSaves'
    BY <1>2, <1>3 DEF DueIsShown, AnswersKeepUp, OwnIsShown, GuessesHaveSaves, Nothing, Blank
  <1> QED BY <1>4, <1>5 DEF PagesInv

\* A save is sent, and its guess shown: it is the save of that guess.
LEMMA SendKeeps ==
    ASSUME PagesInv, NEW r \in Sent, Send(r)
    PROVE PagesInv'
  <1>1. /\ applied \in Nat /\ EntryOK(entry, applied) /\ entry \in EntryRec
        /\ save \in [Sent -> SaveRec]
        /\ \A q \in Sent : SaveOK(save[q], query) /\ save[q].no \in 0 .. applied
    BY DEF PagesInv, PagesTyped, EntryOK
  <1>2. PICK e \in query.saves :
            /\ save' = [save EXCEPT ![r] = e]
            /\ entry' = IF e.guess THEN [SetData(entry, 0) EXCEPT !.guess = TRUE] ELSE entry
    BY DEF Send
  <1>3. SaveOK(e, query) /\ e.at = "sent" /\ e.no = 0 /\ e \in SaveRec
    BY DEF PagesInv, PagesTyped, Coherent, NoQuery, SaveOK, SaveRec
  <1>4. UNCHANGED <<query, page, applied, due, own>> /\ save[r].at = "unsent"
    BY DEF Send
  <1>5. /\ EntryOK(entry', applied)
        /\ e.guess => entry'.guess
        /\ ~ e.guess => entry' = entry
        /\ entry'.get = entry.get /\ entry'.read = entry.read
    <2>1. CASE e.guess
      <3>1. PICK c : c = SetData(entry, 0)
        OBVIOUS
      <3>2. /\ EntryOK(c, applied) /\ c \in EntryRec /\ c.shows = 0
            /\ c.get = entry.get /\ c.read = entry.read
        BY <1>1, <3>1, SetDataFacts DEF EntryOK
      <3>3. entry' = [c EXCEPT !.guess = TRUE]
        BY <1>2, <2>1, <3>1
      <3>4. entry' \in EntryRec
        BY <3>2, <3>3 DEF EntryRec
      <3>5. /\ entry'.guess /\ entry'.shows = 0 /\ entry'.get = c.get
            /\ entry'.read = c.read /\ entry'.hides = c.hides
        BY <3>2, <3>3 DEF EntryRec
      <3> QED BY <1>1, <2>1, <3>2, <3>4, <3>5 DEF EntryOK
    <2>2. CASE ~ e.guess
      BY <1>1, <1>2, <2>2
    <2> QED BY <2>1, <2>2
  <1>6. save' \in [Sent -> SaveRec] /\ save'[r] = e
        /\ \A q \in Sent : q # r => save'[q] = save[q]
    BY <1>1, <1>2, <1>3
  <1>7. \A q \in Sent : SaveOK(save'[q], query) /\ save'[q].no \in 0 .. applied
    BY <1>1, <1>3, <1>6
  <1>8. PagesTyped'
    BY <1>4, <1>5, <1>6, <1>7 DEF PagesInv, PagesTyped
  <1>9. DueIsShown' /\ AnswersKeepUp' /\ OwnIsShown'
    BY <1>4, <1>5 DEF PagesInv, DueIsShown, AnswersKeepUp, OwnIsShown, Mounts
  <1>10. GuessesHaveSaves'
    <2>1. CASE e.guess
      BY <1>3, <1>6, <2>1 DEF GuessesHaveSaves
    <2>2. CASE ~ e.guess
      BY <1>4, <1>5, <1>6, <2>2 DEF PagesInv, GuessesHaveSaves
    <2> QED BY <2>1, <2>2
  <1> QED BY <1>8, <1>9, <1>10 DEF PagesInv

LEMMA ApplyKeeps ==
    ASSUME PagesInv, NEW r \in Sent, Apply(r)
    PROVE PagesInv'
  <1>1. /\ applied \in Nat /\ EntryOK(entry, applied)
        /\ save \in [Sent -> SaveRec] /\ save[r] \in SaveRec
        /\ \A q \in Sent : SaveOK(save[q], query) /\ save[q].no \in 0 .. applied
    BY DEF PagesInv, PagesTyped
  <1>2. /\ applied' = applied + 1 /\ save[r].at = "sent"
        /\ UNCHANGED <<query, page, entry, due, own>>
    BY DEF Apply
  <1>3. PICK e : e = [save[r] EXCEPT !.at = "applied", !.no = applied + 1]
    OBVIOUS
  <1>4. save' = [save EXCEPT ![r] = e]
    BY <1>1, <1>3 DEF Apply
  <1>5. e \in SaveRec
    <2>1. PICK d : d = [save[r] EXCEPT !.at = "applied"]
      OBVIOUS
    <2>2. d \in SaveRec
      BY <1>1, <2>1 DEF SaveRec
    <2>3. [d EXCEPT !.no = applied + 1] \in SaveRec
      BY <1>1, <2>2 DEF SaveRec
    <2>4. e = [d EXCEPT !.no = applied + 1]
      BY <1>3, <2>1
    <2> QED BY <2>3, <2>4
  <1>6. /\ e.at = "applied" /\ e.no = applied + 1 /\ e.guess = save[r].guess
        /\ e.sets = save[r].sets /\ e.names = save[r].names /\ e.asks = save[r].asks
        /\ e.again = save[r].again /\ e.owes = save[r].owes /\ e.page = save[r].page
        /\ e.goes = save[r].goes
    BY <1>1, <1>3 DEF SaveRec
  <1>7. save' \in [Sent -> SaveRec] /\ save'[r] = e
        /\ \A q \in Sent : q # r => save'[q] = save[q]
    BY <1>1, <1>4, <1>5
  <1>8. SaveOK(e, query)
    BY <1>1, <1>5, <1>6 DEF SaveOK
  <1>9. \A q \in Sent : SaveOK(save'[q], query) /\ save'[q].no \in 0 .. applied'
    BY <1>1, <1>2, <1>6, <1>7, <1>8
  <1>10. EntryOK(entry, applied')
    BY <1>1, <1>2 DEF EntryOK
  <1>11. PagesTyped'
    BY <1>1, <1>2, <1>7, <1>9, <1>10 DEF PagesInv, PagesTyped
  <1>12. DueIsShown' /\ AnswersKeepUp' /\ OwnIsShown'
    BY <1>2 DEF PagesInv, DueIsShown, AnswersKeepUp, OwnIsShown, Mounts
  <1>13. GuessesHaveSaves'
    BY <1>2, <1>6, <1>7 DEF PagesInv, GuessesHaveSaves
  <1> QED BY <1>11, <1>12, <1>13 DEF PagesInv

LEMMA UnsentIsOK == SaveOK(Unsent, query) /\ Unsent \in SaveRec
  BY QueriesAssumption DEF Unsent, SaveOK, SaveRec, Stay

\* What is left of a save that is over.
LEMMA OverIsOK ==
    ASSUME NEW e, e = [Unsent EXCEPT !.at = "over"]
    PROVE SaveOK(e, query) /\ e \in SaveRec /\ e.no = 0
  <1>1. Unsent \in SaveRec /\ SaveOK(Unsent, query)
    BY UnsentIsOK
  <1>2. e \in SaveRec
    BY <1>1 DEF SaveRec
  <1>3. /\ e.guess = Unsent.guess /\ e.sets = Unsent.sets /\ e.names = Unsent.names
        /\ e.asks = Unsent.asks /\ e.again = Unsent.again /\ e.owes = Unsent.owes
        /\ e.page = Unsent.page /\ e.goes = Unsent.goes /\ e.no = Unsent.no
    BY <1>1 DEF SaveRec
  <1>4. e.no = 0
    BY <1>3 DEF Unsent
  <1> QED BY <1>1, <1>2, <1>3, <1>4 DEF SaveOK

LEMMA OverKeeps ==
    ASSUME PagesInv, NEW r \in Sent, save' = [save EXCEPT ![r] = [Unsent EXCEPT !.at = "over"]],
           UNCHANGED <<query, applied>>
    PROVE /\ save' \in [Sent -> SaveRec]
          /\ \A q \in Sent : SaveOK(save'[q], query') /\ save'[q].no \in 0 .. applied'
          /\ \A q \in Sent : q # r => save'[q] = save[q]
  <1>1. PICK e : e = [Unsent EXCEPT !.at = "over"]
    OBVIOUS
  <1>2. SaveOK(e, query) /\ e \in SaveRec /\ e.no = 0
    BY <1>1, OverIsOK
  <1>3. /\ applied \in Nat /\ save \in [Sent -> SaveRec]
        /\ \A q \in Sent : SaveOK(save[q], query) /\ save[q].no \in 0 .. applied
    BY DEF PagesInv, PagesTyped
  <1>4. save' = [save EXCEPT ![r] = e]
    BY <1>1
  <1>5. /\ save' \in [Sent -> SaveRec] /\ save'[r] = e
        /\ \A q \in Sent : q # r => save'[q] = save[q]
    BY <1>2, <1>3, <1>4
  <1>6. ASSUME NEW q \in Sent
        PROVE SaveOK(save'[q], query) /\ save'[q].no \in 0 .. applied
    <2>1. CASE q = r
      <3>1. save'[q] = e
        BY <1>5, <2>1
      <3>2. e.no \in 0 .. applied
        BY <1>2, <1>3
      <3> QED BY <1>2, <3>1, <3>2
    <2>2. CASE q # r
      BY <1>3, <1>5, <2>2
    <2> QED BY <2>1, <2>2
  <1> QED BY <1>5, <1>6

\* A guess that was not saved is marked as outdated.
LEMMA NotSavedKeeps ==
    ASSUME PagesInv, NEW r \in Sent, NotSaved(r)
    PROVE PagesInv'
  <1>1. /\ applied \in Nat /\ EntryOK(entry, applied) /\ entry \in EntryRec
    BY DEF PagesInv, PagesTyped, EntryOK
  <1>2. /\ save' \in [Sent -> SaveRec]
        /\ \A q \in Sent : SaveOK(save'[q], query') /\ save'[q].no \in 0 .. applied'
        /\ \A q \in Sent : q # r => save'[q] = save[q]
    BY OverKeeps DEF NotSaved
  <1>3. UNCHANGED <<query, page, applied, due, own>>
    BY DEF NotSaved
  <1>4. /\ EntryOK(entry', applied) /\ Follows(entry, entry')
        /\ save[r].guess => entry'.marked
    <2>1. Follows(entry, entry)
      BY DEF Follows
    <2> QED BY <1>1, <2>1, InvalidateFollows DEF NotSaved
  <1>5. PagesTyped'
    BY <1>2, <1>3, <1>4 DEF PagesInv, PagesTyped
  <1>6. DueIsShown' /\ AnswersKeepUp' /\ OwnIsShown'
    BY <1>1, <1>3, <1>4
    DEF PagesInv, DueIsShown, AnswersKeepUp, OwnIsShown, Follows, EntryOK, EntryRec, Mounts
  <1>7. GuessesHaveSaves'
    BY <1>1, <1>2, <1>4 DEF PagesInv, GuessesHaveSaves, Follows, EntryOK, EntryRec
  <1> QED BY <1>5, <1>6, <1>7 DEF PagesInv

\* What is claimed after an answer: what was, or the save just answered.
LEMMA ClaimFacts ==
    ASSUME NEW n \in Nat, NEW old \in 0 .. n, NEW s, s.no \in 0 .. n, NEW counts \in BOOLEAN
    PROVE /\ Claim(old, s, counts) \in {old, s.no}
          /\ s.sets => Claim(old, s, counts) <= s.no
          /\ ~ s.sets /\ ~ counts => Claim(old, s, counts) = old
          /\ ~ counts => Claim(old, s, counts) <= old
  BY DEF Claim

\* The answer of a save: whatever it claims, it sets, marks or asks for.
LEMMA SavedKeeps ==
    ASSUME PagesInv, NEW r \in Sent, Saved(r)
    PROVE PagesInv'
  <1>1. /\ applied \in Nat /\ EntryOK(entry, applied) /\ entry \in EntryRec
        /\ due \in 0 .. applied /\ own \in 0 .. applied /\ page \in DOMAIN Routes
        /\ Stay \notin DOMAIN Routes
    BY QueriesAssumption DEF PagesInv, PagesTyped, EntryOK
  <1>2. PICK s : s = save[r]
    OBVIOUS
  <1>3. SaveOK(s, query) /\ s \in SaveRec /\ s.no \in 0 .. applied
    BY <1>2 DEF PagesInv, PagesTyped, SaveOK
  <1>4. PICK counts \in BOOLEAN : counts = (s.owes /\ ~ Overtaken(entry, s))
    OBVIOUS
  <1>5. PICK mine \in BOOLEAN : mine = (counts /\ s.page = page /\ Mounts(page))
    OBVIOUS
  <1>6. PICK d : d = Answered(entry, s)
    OBVIOUS
  <1>7. /\ entry' = d
        /\ page' = IF s.goes = Stay THEN page ELSE s.goes
        /\ due' = Claim(due, s, counts)
        /\ own' = IF page' # page THEN 0 ELSE Claim(own, s, mine)
        /\ UNCHANGED <<query, applied>> /\ s.at = "applied"
    BY <1>2, <1>4, <1>5, <1>6 DEF Saved
  <1>8. /\ save' \in [Sent -> SaveRec]
        /\ \A q \in Sent : SaveOK(save'[q], query') /\ save'[q].no \in 0 .. applied'
        /\ \A q \in Sent : q # r => save'[q] = save[q]
    BY OverKeeps DEF Saved
  <1>9. /\ EntryOK(d, applied) /\ d \in EntryRec
        /\ s.sets => d.shows = s.no /\ ~ d.guess
        /\ ~ s.sets => Follows(entry, d)
        /\ d.get = "asked" \/ (d.get = entry.get /\ d.read = entry.read)
        /\ s.asks \/ s.names => d.marked
        /\ (s.asks /\ Mounts(page)) \/ s.again =>
               s.goes # Stay \/ d.shows = Nothing \/ d.get = "asked"
    BY <1>1, <1>3, <1>6, AnsweredFacts DEF EntryOK
  <1>10. /\ due' \in {due, s.no} /\ (s.sets => due' <= s.no)
         /\ (~ s.sets /\ ~ counts => due' = due) /\ (~ counts => due' <= due)
    BY <1>1, <1>3, <1>7, ClaimFacts
  <1>11. page' = page =>
             /\ own' \in {own, s.no} /\ (s.sets => own' <= s.no)
             /\ (~ s.sets /\ ~ mine => own' = own) /\ (~ mine => own' <= own)
    BY <1>1, <1>3, <1>7, ClaimFacts
  <1>12. page' # page => own' = 0
    BY <1>7
  <1>13. page' \in DOMAIN Routes
    BY <1>1, <1>3, <1>7 DEF SaveRec
  <1>14. PagesTyped'
    BY <1>1, <1>3, <1>7, <1>8, <1>9, <1>10, <1>11, <1>12, <1>13 DEF PagesInv, PagesTyped
  <1>15. DueIsShown'
    <2> SUFFICES ASSUME ~ d.guess, d.shows >= 0, ~ d.marked
                 PROVE d.shows >= due'
      BY <1>7 DEF DueIsShown
    <2>1. CASE s.sets
      BY <1>1, <1>3, <1>9, <1>10, <2>1
    <2>2. CASE ~ s.sets
      <3>1. Follows(entry, d) /\ ~ s.names
        BY <1>9, <2>2
      <3>2. ~ counts
        BY <1>3, <1>4, <2>2, <3>1 DEF SaveOK
      <3>3. due' = due
        BY <1>10, <2>2, <3>2
      <3>4. d.shows = entry.shows /\ ~ entry.guess /\ ~ entry.marked
        BY <3>1 DEF Follows
      <3> QED BY <3>3, <3>4 DEF PagesInv, DueIsShown
    <2> QED BY <2>1, <2>2
  <1>16. AnswersKeepUp'
    <2> SUFFICES ASSUME d.get = "answered"
                 PROVE d.read >= due' /\ d.read >= own'
      BY <1>7 DEF AnswersKeepUp
    <2>1. /\ entry.get = "answered" /\ d.read = entry.read
          /\ entry.read \in 0 .. applied /\ entry.read >= due /\ entry.read >= own
      BY <1>1, <1>9 DEF PagesInv, AnswersKeepUp, EntryOK
    <2>2. counts => ~ (d.read < s.no)
      BY <1>4, <1>6 DEF Overtaken
    <2>3. counts => entry.read >= s.no
      BY <1>1, <1>3, <2>1, <2>2
    <2>4. d.read >= due'
      BY <1>1, <1>3, <1>10, <2>1, <2>3
    <2>5. mine => counts
      BY <1>5
    <2>6. d.read >= own'
      BY <1>1, <1>3, <1>11, <1>12, <2>1, <2>3, <2>5
    <2> QED BY <2>4, <2>6
  <1>17. OwnIsShown'
    <2> SUFFICES ASSUME d.get = "none", ~ d.guess, d.shows >= 0, page' \in query.mount
                 PROVE d.shows >= own'
      BY <1>7 DEF OwnIsShown, Mounts
    <2>1. CASE page' # page
      BY <1>12, <2>1
    <2>2. CASE page' = page /\ s.sets
      BY <1>1, <1>3, <1>9, <1>11, <2>2
    <2>3. CASE page' = page /\ ~ s.sets
      <3>1. Follows(entry, d) /\ d.shows # Nothing /\ Mounts(page)
        BY <1>9, <2>3 DEF Nothing, Mounts
      <3>2. entry.get = "none" /\ d.shows = entry.shows /\ ~ entry.guess
        BY <3>1 DEF Follows
      <3>3. ~ mine
        <4> SUFFICES ASSUME mine PROVE FALSE
          OBVIOUS
        <4>1. s.owes /\ s.page = page /\ page \in query.mount
          BY <1>4, <1>5 DEF Mounts
        <4>2. s.goes = Stay
          BY <1>3, <1>7, <2>3, <4>1 DEF SaveOK
        <4>3. s.asks \/ s.again
          BY <1>3, <2>3, <4>1, <4>2 DEF SaveOK
        <4> QED BY <1>9, <3>1, <4>2, <4>3
      <3>4. own' = own
        BY <1>11, <2>3, <3>3
      <3> QED BY <3>1, <3>2, <3>4 DEF PagesInv, OwnIsShown
    <2> QED BY <2>1, <2>2, <2>3
  <1>18. GuessesHaveSaves'
    <2> SUFFICES ASSUME d.guess, ~ d.marked
                 PROVE \E q \in Sent : save'[q].at \in {"sent", "applied"} /\ save'[q].guess
      BY <1>7 DEF GuessesHaveSaves
    <2>1. ~ s.sets /\ ~ s.guess
      BY <1>3, <1>9 DEF SaveOK
    <2>2. entry.guess /\ ~ entry.marked
      BY <1>9, <2>1 DEF Follows
    <2>3. PICK q \in Sent : save[q].at \in {"sent", "applied"} /\ save[q].guess
      BY <2>2 DEF PagesInv, GuessesHaveSaves
    <2>4. q # r
      BY <1>2, <2>1, <2>3
    <2> QED BY <1>8, <2>3, <2>4
  <1> QED BY <1>14, <1>15, <1>16, <1>17, <1>18 DEF PagesInv

LEMMA PagesStart ==
    ASSUME Init \/ PagesOff
    PROVE PagesInv
  <1>1. /\ Coherent(query) \/ query = NoQuery
        /\ page = "help" /\ entry = Empty /\ save = [r \in Sent |-> Unsent]
        /\ applied = 0 /\ due = 0 /\ own = 0
    BY QueriesAssumption DEF Init, PagesOff
  <1>2. SaveOK(Unsent, query) /\ Unsent \in SaveRec /\ Unsent.no = 0
    BY UnsentIsOK DEF Unsent
  <1>3. EntryOK(entry, applied) /\ entry.shows = Nothing /\ ~ entry.guess
        /\ entry.get = "none"
    BY <1>1 DEF Empty, EntryOK, EntryRec, Nothing
  <1>4. PagesTyped
    BY <1>1, <1>2, <1>3, QueriesAssumption DEF PagesTyped
  <1> QED BY <1>3, <1>4
      DEF PagesInv, DueIsShown, AnswersKeepUp, OwnIsShown, GuessesHaveSaves, Nothing

LEMMA PagesStep ==
    ASSUME PagesInv, Next
    PROVE PagesInv'
  <1>1. ASSUME NEW p \in query.open, Open(p) PROVE PagesInv'
    BY <1>1, OpenKeeps
  <1>2. ASSUME NEW r \in Sent, Send(r) \/ Apply(r) \/ Saved(r) \/ NotSaved(r) PROVE PagesInv'
    BY <1>2, SendKeeps, ApplyKeeps, SavedKeeps, NotSavedKeeps
  <1>3. CASE ReadRows \/ GetAnswered \/ GetFailed
    BY <1>3, ReadRowsKeeps, GetAnsweredKeeps, GetFailedKeeps
  <1>4. CASE GetRepeated \/ Age \/ Poll \/ Reload \/ Event
    BY <1>4, AskingKeeps
  <1>5. CASE GetHidden \/ Collect
    BY <1>5, BlankingKeeps
  <1> QED BY <1>1, <1>2, <1>3, <1>4, <1>5 DEF Next

----------------------------------------------------------------------------
(* Forms.  V is the set of values that the field can come to hold (Covers).   *)

InFlight(t) == tries[t].at \notin {"unsent", "done"}

TryRec ==
    [at : {"unsent", "sent", "saved", "passed", "refused", "failed", "done"}, value : Values]

FormTyped(V) ==
    /\ Fits(form) /\ Covers(form, V) /\ V \subseteq Values
    /\ opened \in BOOLEAN
    /\ shown \in V /\ row \in Values /\ seen \in Values
    /\ form.edits => row \in V /\ seen \in V
    /\ tries \in [Tries -> TryRec]
    /\ typed \in Values \cup {None} /\ told \in Values \cup {None}

\* What was sent was let go, and served as the API answers it.
SentAsLetGo(V) ==
    \A t \in Tries : tries[t].at # "unsent" =>
        /\ tries[t].value \in V \cap form.goes
        /\ form.picks # "no" => tries[t].value \in form.takes
        /\ tries[t].at = "refused" => form.answer[tries[t].value] = Refused
        /\ tries[t].at = "saved" => form.answer[tries[t].value] # Refused

SentInOrder ==
    \A t, u \in Tries : u < t /\ tries[t].at # "unsent" => tries[u].at # "unsent"

OneInFlight ==
    Solo(form) => \A t, u \in Tries : InFlight(t) =>
        /\ InFlight(u) => u = t
        /\ u > t => tries[u].at = "unsent"

\* A save that waits for its answer is what the row holds.
SavesAreInTheRow ==
    "row" \notin form.excused /\ ~ form.asks =>
        \A t \in Tries : tries[t].at = "saved" => row = form.answer[tries[t].value]

TellsTheRow ==
    "row" \notin form.excused =>
        /\ told # None => ~ form.asks
        /\ told # None /\ (~ Waiting \/ ~ Solo(form)) => Alike(row, told)
        /\ told # None /\ ~ Solo(form) => told \in form.takes \cap form.goes

KeepsTheTyped ==
    "typed" \notin form.excused =>
        /\ typed # None => opened /\ shown = typed /\ form.picks = "no"
        /\ typed # None => \A t \in Tries : InFlight(t) => typed = tries[t].value

FormInv(V) ==
    /\ FormTyped(V) /\ SentAsLetGo(V) /\ SentInOrder /\ OneInFlight
    /\ SavesAreInTheRow /\ TellsTheRow /\ KeepsTheTyped

FormsInv ==
    \/ FormOff
    \/ form \in Followed /\ \E V \in SUBSET Values : FormInv(V)

BrowserInv == PagesInv /\ FormsInv

----------------------------------------------------------------------------
(* What a request on its way changes.                                         *)
LEMMA GoesFacts ==
    ASSUME tries \in [Tries -> TryRec], NEW t \in Tries,
           NEW where \in {"sent", "saved", "passed", "refused", "failed", "done"},
           Goes(t, where)
    PROVE /\ tries' \in [Tries -> TryRec]
          /\ tries'[t].at = where /\ tries'[t].value = tries[t].value
          /\ \A u \in Tries : u # t => tries'[u] = tries[u]
  BY DEF Goes, TryRec

LEMMA SendingFacts ==
    ASSUME tries \in [Tries -> TryRec], NEW t \in Tries, NEW v \in Values, Sending(t, v)
    PROVE /\ tries' \in [Tries -> TryRec]
          /\ tries'[t].at = "sent" /\ tries'[t].value = v
          /\ \A u \in Tries : u # t => tries'[u] = tries[u]
          /\ tries[t].at = "unsent" /\ \A u \in Tries : u < t => tries[u].at # "unsent"
  BY DEF Sending, TryRec

\* A request in flight goes on, or is done: no other is sent or served.
LEMMA GoingKeeps ==
    ASSUME NEW V, FormInv(V), NEW t \in Tries, InFlight(t),
           NEW where \in {"sent", "saved", "passed", "refused", "failed", "done"},
           Goes(t, where), UNCHANGED form,
           where = "refused" => form.answer[tries[t].value] = Refused,
           where = "saved" => form.answer[tries[t].value] # Refused
    PROVE /\ tries' \in [Tries -> TryRec]
          /\ tries'[t].at = where /\ tries'[t].value = tries[t].value
          /\ \A u \in Tries : u # t => tries'[u] = tries[u]
          /\ \A u \in Tries : InFlight(u)' => InFlight(u) /\ tries'[u].value = tries[u].value
          /\ SentAsLetGo(V)' /\ SentInOrder' /\ OneInFlight'
  <1>1. tries \in [Tries -> TryRec]
    BY DEF FormInv, FormTyped
  <1>2. /\ tries' \in [Tries -> TryRec]
        /\ tries'[t].at = where /\ tries'[t].value = tries[t].value
        /\ \A u \in Tries : u # t => tries'[u] = tries[u]
    BY <1>1, GoesFacts
  <1>3. ASSUME NEW u \in Tries
        PROVE /\ tries'[u].value = tries[u].value
              /\ (tries'[u].at = "unsent") <=> (tries[u].at = "unsent")
              /\ InFlight(u)' => InFlight(u)
    <2>1. CASE u = t
      BY <1>2, <2>1 DEF InFlight
    <2>2. CASE u # t
      BY <1>2, <2>2 DEF InFlight
    <2> QED BY <2>1, <2>2
  <1>4. SentAsLetGo(V)'
    BY <1>2, <1>3 DEF FormInv, SentAsLetGo, InFlight
  <1>5. SentInOrder'
    <2> SUFFICES ASSUME NEW w \in Tries, NEW u \in Tries, u < w, tries'[w].at # "unsent"
                 PROVE tries'[u].at # "unsent"
      BY DEF SentInOrder
    <2> QED BY <1>3 DEF FormInv, SentInOrder
  <1>6. OneInFlight'
    <2> SUFFICES ASSUME Solo(form), NEW w \in Tries, NEW u \in Tries, InFlight(w)'
                 PROVE (InFlight(u)' => u = w) /\ (u > w => tries'[u].at = "unsent")
      BY DEF OneInFlight
    <2>1. InFlight(w)
      BY <1>3
    <2> QED BY <1>3, <2>1 DEF FormInv, OneInFlight
  <1> QED BY <1>2, <1>3, <1>4, <1>5, <1>6

\* What can go is a value of V.
LEMMA Answers ==
    ASSUME NEW V, FormInv(V), NEW v \in V \cap form.goes
    PROVE /\ form.answer[v] \in Values \cup {Keep, Refused}
          /\ form.edits => form.answer[v] \in V \cup {Keep, Refused}
          /\ "row" \notin form.excused /\ ~ form.asks /\ form.answer[v] # Refused =>
                 form.answer[v] \in Values /\ Alike(form.answer[v], v)
  BY DEF FormInv, FormTyped, Fits, Covers

----------------------------------------------------------------------------
(* Every step of Forms preserves FormInv.                                     *)
\* Steps that send and answer nothing.
LEMMA ScreenKeeps ==
    ASSUME NEW V, FormInv(V), UNCHANGED <<form, row, tries, told>>,
           opened' \in BOOLEAN, shown' \in V, seen' \in {seen, row},
           typed' \in Values \cup {None}, KeepsTheTyped'
    PROVE FormInv(V)'
  <1>1. FormTyped(V)'
    BY DEF FormInv, FormTyped
  <1>2. SentAsLetGo(V)' /\ SentInOrder'
    BY DEF FormInv, SentAsLetGo, SentInOrder
  <1>3. OneInFlight' /\ SavesAreInTheRow'
    BY DEF FormInv, OneInFlight, SavesAreInTheRow, InFlight
  <1>4. TellsTheRow'
    BY DEF FormInv, TellsTheRow, Waiting
  <1> QED BY <1>1, <1>2, <1>3, <1>4 DEF FormInv

LEMMA OpenFormKeeps ==
    ASSUME NEW V, FormInv(V), OpenForm
    PROVE FormInv(V)'
  <1>1. opened' \in BOOLEAN /\ shown' \in V /\ seen' = seen /\ typed' = typed
    BY DEF FormInv, FormTyped, Fits, OpenForm
  <1>2. KeepsTheTyped'
    BY DEF FormInv, KeepsTheTyped, OpenForm, InFlight
  <1> QED BY <1>1, <1>2, ScreenKeeps DEF OpenForm, FormInv, FormTyped

LEMMA CancelFormKeeps ==
    ASSUME NEW V, FormInv(V), CancelForm
    PROVE FormInv(V)'
  <1>1. opened' \in BOOLEAN /\ shown' \in V /\ seen' = seen /\ typed' = None
    BY DEF FormInv, FormTyped, Covers, CancelForm
  <1>2. KeepsTheTyped'
    BY <1>1 DEF KeepsTheTyped
  <1> QED BY <1>1, <1>2, ScreenKeeps DEF CancelForm

LEMMA TypeKeeps ==
    ASSUME NEW V, FormInv(V), NEW v \in Values, Type(v)
    PROVE FormInv(V)'
  <1>1. /\ opened' \in BOOLEAN /\ shown' = v /\ v \in V /\ seen' = seen
        /\ typed' \in {v, None} /\ opened' /\ form.picks = "no"
    BY DEF FormInv, FormTyped, Covers, Type
  <1>2. "typed" \notin form.excused => form.locks
    BY <1>1 DEF FormInv, FormTyped, Fits
  <1>3. KeepsTheTyped'
    <2> SUFFICES ASSUME "typed" \notin form.excused, typed' # None
                 PROVE \A t \in Tries : ~ InFlight(t)'
      BY <1>1 DEF KeepsTheTyped, Type
    <2>1. ~ Waiting
      BY <1>2 DEF Type
    <2> QED BY <2>1 DEF Waiting, InFlight, Type
  <1> QED BY <1>1, <1>3, ScreenKeeps DEF Type

LEMMA RereadKeeps ==
    ASSUME NEW V, FormInv(V), Reread
    PROVE FormInv(V)'
  <1>1. /\ opened' = opened /\ opened \in BOOLEAN /\ shown' \in V /\ seen' = row
        /\ typed' = typed /\ typed \in Values \cup {None}
    BY DEF FormInv, FormTyped, Reread
  <1>2. KeepsTheTyped'
    <2> SUFFICES ASSUME "typed" \notin form.excused, typed # None
                 PROVE /\ opened /\ shown' = typed /\ form.picks = "no"
                       /\ \A t \in Tries : InFlight(t) => typed = tries[t].value
      BY DEF KeepsTheTyped, Reread, InFlight
    <2>1. /\ opened /\ shown = typed /\ form.picks = "no"
          /\ \A t \in Tries : InFlight(t) => typed = tries[t].value
      BY DEF FormInv, KeepsTheTyped
    <2>2. form.fills \notin {"reading", "change"}
      BY <2>1 DEF FormInv, FormTyped, Fits
    <2> QED BY <2>1, <2>2 DEF Reread
  <1> QED BY <1>1, <1>2, ScreenKeeps DEF Reread

\* Another person's save passes the ones that wait for their answers.
LEMMA OthersSaveKeeps ==
    ASSUME NEW V, FormInv(V), OthersSave
    PROVE FormInv(V)'
  <1>1. /\ tries \in [Tries -> TryRec] /\ form' = form /\ row' = "b" /\ told' = None
        /\ UNCHANGED <<opened, shown, seen, typed>>
        /\ tries' = [t \in Tries |-> IF tries[t].at = "saved"
                                     THEN [tries[t] EXCEPT !.at = "passed"] ELSE tries[t]]
    BY DEF FormInv, FormTyped, OthersSave
  <1>2. ASSUME NEW t \in Tries
        PROVE /\ tries'[t] \in TryRec /\ tries'[t].value = tries[t].value
              /\ tries'[t].at # "saved"
              /\ tries'[t].at \in {tries[t].at, "passed"}
              /\ (tries'[t].at = "unsent") <=> (tries[t].at = "unsent")
              /\ InFlight(t)' <=> InFlight(t)
    <2>1. tries[t] \in TryRec
      BY <1>1
    <2>2. CASE tries[t].at = "saved"
      <3>1. tries'[t] = [tries[t] EXCEPT !.at = "passed"]
        BY <1>1, <2>2
      <3>2. tries'[t].at = "passed" /\ tries'[t].value = tries[t].value /\ tries'[t] \in TryRec
        BY <2>1, <3>1 DEF TryRec
      <3> QED BY <2>2, <3>2 DEF InFlight
    <2>3. CASE tries[t].at # "saved"
      <3>1. tries'[t] = tries[t]
        BY <1>1, <2>3
      <3> QED BY <2>1, <2>3, <3>1 DEF InFlight
    <2> QED BY <2>2, <2>3
  <1>3. tries' \in [Tries -> TryRec]
    BY <1>1, <1>2
  <1>4. FormTyped(V)'
    <2>1. "b" \in V /\ "b" \in Values
      BY DEF FormInv, FormTyped, Covers, OthersSave
    <2> QED BY <1>1, <1>3, <2>1 DEF FormInv, FormTyped
  <1>5. SentAsLetGo(V)'
    BY <1>1, <1>2 DEF FormInv, SentAsLetGo
  <1>6. SentInOrder'
    BY <1>2 DEF FormInv, SentInOrder
  <1>7. OneInFlight'
    <2> SUFFICES ASSUME Solo(form), NEW w \in Tries, NEW u \in Tries, InFlight(w)'
                 PROVE (InFlight(u)' => u = w) /\ (u > w => tries'[u].at = "unsent")
      BY <1>1 DEF OneInFlight
    <2> QED BY <1>2 DEF FormInv, OneInFlight
  <1>8. SavesAreInTheRow' /\ TellsTheRow'
    BY <1>1, <1>2 DEF SavesAreInTheRow, TellsTheRow
  <1>9. KeepsTheTyped'
    BY <1>1, <1>2 DEF FormInv, KeepsTheTyped
  <1> QED BY <1>4, <1>5, <1>6, <1>7, <1>8, <1>9 DEF FormInv

\* A request is sent: alone, or with the one value there is to send.
LEMMA RequestKeeps ==
    ASSUME NEW V, FormInv(V), NEW t \in Tries, NEW v \in V \cap form.goes, Sending(t, v),
           form.picks # "no" => v \in form.takes,
           Solo(form) => ~ Waiting,
           UNCHANGED <<form, opened, row, seen, typed, told>>, shown' \in V,
           "typed" \notin form.excused /\ typed # None => shown' = typed /\ v = typed
    PROVE FormInv(V)'
  <1>1. tries \in [Tries -> TryRec] /\ v \in Values
    BY DEF FormInv, FormTyped
  <1>2. /\ tries' \in [Tries -> TryRec]
        /\ tries'[t].at = "sent" /\ tries'[t].value = v
        /\ \A u \in Tries : u # t => tries'[u] = tries[u]
        /\ tries[t].at = "unsent" /\ \A u \in Tries : u < t => tries[u].at # "unsent"
    BY <1>1, SendingFacts
  <1>3. FormTyped(V)'
    BY <1>2 DEF FormInv, FormTyped
  <1>4. SentAsLetGo(V)'
    BY <1>2 DEF FormInv, SentAsLetGo
  <1>5. \A u \in Tries : tries[u].at # "unsent" => u # t /\ tries'[u] = tries[u]
    BY <1>2
  <1>6. SentInOrder'
    <2> SUFFICES ASSUME NEW w \in Tries, NEW u \in Tries, u < w, tries'[w].at # "unsent",
                        u # t
                 PROVE tries[u].at # "unsent"
      BY <1>2 DEF SentInOrder
    <2>1. CASE w = t
      BY <1>2, <2>1
    <2>2. CASE w # t
      BY <1>2, <2>2 DEF FormInv, SentInOrder
    <2> QED BY <2>1, <2>2
  <1>7. OneInFlight'
    <2> SUFFICES ASSUME Solo(form), NEW w \in Tries, NEW u \in Tries, InFlight(w)'
                 PROVE (InFlight(u)' => u = w) /\ (u > w => tries'[u].at = "unsent")
      BY DEF OneInFlight
    <2>1. \A x \in Tries : InFlight(x)' => x = t
      BY <1>2 DEF Waiting, InFlight
    <2>2. w = t
      BY <2>1
    <2>3. ASSUME u > t PROVE tries'[u].at = "unsent"
      <3>1. u # t /\ t < u
        BY <2>3, TriesAssumption
      <3>2. tries[u].at = "unsent"
        BY <1>2, <3>1 DEF FormInv, SentInOrder
      <3> QED BY <1>2, <3>1, <3>2
    <2> QED BY <2>1, <2>2, <2>3
  <1>8. SavesAreInTheRow'
    <2> SUFFICES ASSUME "row" \notin form.excused, ~ form.asks,
                        NEW u \in Tries, tries'[u].at = "saved"
                 PROVE row = form.answer[tries'[u].value]
      BY DEF SavesAreInTheRow
    <2>1. u # t
      BY <1>2
    <2> QED BY <1>2, <2>1 DEF FormInv, SavesAreInTheRow
  <1>9. Waiting'
    BY <1>2 DEF Waiting
  <1>10. TellsTheRow'
    BY <1>9 DEF FormInv, TellsTheRow
  <1>11. KeepsTheTyped'
    <2> SUFFICES ASSUME "typed" \notin form.excused, typed # None
                 PROVE /\ opened /\ shown' = typed /\ form.picks = "no"
                       /\ \A u \in Tries : InFlight(u)' => typed = tries'[u].value
      BY DEF KeepsTheTyped
    <2>1. ASSUME NEW u \in Tries, InFlight(u)' PROVE typed = tries'[u].value
      <3>1. CASE u = t
        BY <1>2, <3>1
      <3>2. CASE u # t
        BY <1>2, <2>1, <3>2 DEF FormInv, KeepsTheTyped, InFlight
      <3> QED BY <3>1, <3>2
    <2> QED BY <2>1 DEF FormInv, KeepsTheTyped
  <1> QED BY <1>3, <1>4, <1>6, <1>7, <1>8, <1>10, <1>11 DEF FormInv

LEMMA SubmitFormKeeps ==
    ASSUME NEW V, FormInv(V), NEW t \in Tries, SubmitForm(t)
    PROVE FormInv(V)'
  <1>1. /\ shown \in V \cap form.goes /\ Sending(t, shown) /\ form.picks = "no"
        /\ shown' = shown
    BY DEF FormInv, FormTyped, SubmitForm
  <1>2. Solo(form) => ~ Waiting
    BY DEF Solo, SubmitForm
  <1>3. "typed" \notin form.excused /\ typed # None => shown = typed
    BY DEF FormInv, KeepsTheTyped
  <1> QED BY <1>1, <1>2, <1>3, RequestKeeps DEF SubmitForm

LEMMA PickKeeps ==
    ASSUME NEW V, FormInv(V), NEW t \in Tries, NEW v \in Values, Pick(t, v)
    PROVE FormInv(V)'
  <1>1. /\ v \in V \cap form.goes /\ Sending(t, v) /\ form.picks # "no" /\ v \in form.takes
        /\ shown' \in V
    BY DEF FormInv, FormTyped, Covers, Pick
  <1>2. Solo(form) => ~ Waiting
    BY DEF Solo, Pick, Free
  <1>3. "typed" \notin form.excused => typed = None
    BY <1>1 DEF FormInv, KeepsTheTyped
  <1> QED BY <1>1, <1>2, <1>3, RequestKeeps DEF Pick

\* The API refuses it, or stores its answer.
LEMMA ServeKeeps ==
    ASSUME NEW V, FormInv(V), NEW t \in Tries, Serve(t)
    PROVE FormInv(V)'
  <1>1. PICK v : v = tries[t].value
    OBVIOUS
  <1>2. PICK answer : answer = form.answer[v]
    OBVIOUS
  <1>3. PICK where \in {"sent", "saved", "passed", "refused", "failed", "done"} :
            /\ where = IF answer = Refused THEN "refused" ELSE "saved"
            /\ Goes(t, where)
    BY <1>1, <1>2 DEF Serve
  <1>4. /\ tries[t].at = "sent" /\ InFlight(t)
        /\ row' = IF answer \in {Refused, Keep} THEN row ELSE answer
        /\ UNCHANGED <<form, opened, shown, seen, typed, told>>
    BY <1>1, <1>2 DEF Serve, InFlight
  <1>5. /\ v \in V \cap form.goes /\ (form.picks # "no" => v \in form.takes)
    BY <1>1, <1>4 DEF FormInv, SentAsLetGo
  <1>6. /\ answer \in Values \cup {Keep, Refused}
        /\ form.edits => answer \in V \cup {Keep, Refused}
        /\ "row" \notin form.excused /\ ~ form.asks /\ answer # Refused =>
               answer \in Values /\ Alike(answer, v)
    BY <1>2, <1>5, Answers
  <1>7. /\ tries' \in [Tries -> TryRec]
        /\ tries'[t].at = where /\ tries'[t].value = v
        /\ \A u \in Tries : u # t => tries'[u] = tries[u]
        /\ \A u \in Tries : InFlight(u)' => InFlight(u) /\ tries'[u].value = tries[u].value
        /\ SentAsLetGo(V)' /\ SentInOrder' /\ OneInFlight'
    BY <1>1, <1>2, <1>3, <1>4, GoingKeeps
  <1>8. FormTyped(V)'
    <2>1. row' \in Values /\ (form.edits => row' \in V)
      BY <1>4, <1>6 DEF FormInv, FormTyped
    <2> QED BY <1>4, <1>7, <2>1 DEF FormInv, FormTyped
  <1>9. "row" \notin form.excused /\ ~ form.asks /\ answer # Refused =>
            row' = answer /\ Alike(answer, v)
    BY <1>4, <1>6 DEF Values, Keep
  <1>10. "row" \notin form.excused /\ ~ Solo(form) =>
             \A w \in form.takes \cap form.goes : w = v
    BY <1>5 DEF FormInv, FormTyped, Fits
  <1>11. SavesAreInTheRow'
    <2> SUFFICES ASSUME "row" \notin form.excused, ~ form.asks,
                        NEW u \in Tries, tries'[u].at = "saved"
                 PROVE row' = form.answer[tries'[u].value]
      BY <1>4 DEF SavesAreInTheRow
    <2>1. CASE u = t
      BY <1>2, <1>3, <1>7, <1>9, <2>1
    <2>2. CASE u # t
      <3>1. tries[u].at = "saved" /\ InFlight(u)
        BY <1>7, <2>2 DEF InFlight
      <3>2. ~ Solo(form)
        BY <1>4, <2>2, <3>1 DEF FormInv, OneInFlight
      <3>3. tries[u].value \in form.takes \cap form.goes
        BY <3>1, <3>2 DEF FormInv, FormTyped, Fits, SentAsLetGo
      <3>4. tries[u].value = v /\ answer # Refused
        BY <1>2, <1>10, <3>1, <3>2, <3>3 DEF FormInv, SentAsLetGo
      <3> QED BY <1>2, <1>7, <1>9, <2>2, <3>4
    <2> QED BY <2>1, <2>2
  <1>12. Waiting /\ Waiting'
    BY <1>3, <1>4, <1>7 DEF Waiting
  <1>13. TellsTheRow'
    <2> SUFFICES ASSUME "row" \notin form.excused, told # None
                 PROVE /\ ~ form.asks
                       /\ ~ Solo(form) => Alike(row', told) /\ told \in form.takes \cap form.goes
      BY <1>4, <1>12 DEF TellsTheRow
    <2>1. /\ ~ form.asks
          /\ ~ Solo(form) => Alike(row, told) /\ told \in form.takes \cap form.goes
      BY DEF FormInv, TellsTheRow
    <2>2. CASE answer = Refused
      BY <1>4, <2>1, <2>2
    <2>3. CASE answer # Refused
      BY <1>9, <1>10, <2>1, <2>3
    <2> QED BY <2>1, <2>2, <2>3
  <1>14. KeepsTheTyped'
    BY <1>4, <1>7 DEF FormInv, KeepsTheTyped
  <1> QED BY <1>7, <1>8, <1>11, <1>13, <1>14 DEF FormInv

LEMMA FailKeeps ==
    ASSUME NEW V, FormInv(V), NEW t \in Tries, Fail(t)
    PROVE FormInv(V)'
  <1>1. /\ InFlight(t) /\ Goes(t, "failed")
        /\ UNCHANGED <<form, opened, shown, row, seen, typed, told>>
    BY DEF Fail, InFlight
  <1>2. /\ tries' \in [Tries -> TryRec]
        /\ tries'[t].at = "failed"
        /\ \A u \in Tries : u # t => tries'[u] = tries[u]
        /\ \A u \in Tries : InFlight(u)' => InFlight(u) /\ tries'[u].value = tries[u].value
        /\ SentAsLetGo(V)' /\ SentInOrder' /\ OneInFlight'
    BY <1>1, GoingKeeps
  <1>3. FormTyped(V)'
    BY <1>1, <1>2 DEF FormInv, FormTyped
  <1>4. SavesAreInTheRow'
    <2> SUFFICES ASSUME "row" \notin form.excused, ~ form.asks,
                        NEW u \in Tries, tries'[u].at = "saved"
                 PROVE row = form.answer[tries'[u].value]
      BY <1>1 DEF SavesAreInTheRow
    <2>1. u # t
      BY <1>2
    <2> QED BY <1>2, <2>1 DEF FormInv, SavesAreInTheRow
  <1>5. Waiting'
    BY <1>2 DEF Waiting
  <1>6. TellsTheRow'
    BY <1>1, <1>5 DEF FormInv, TellsTheRow
  <1>7. KeepsTheTyped'
    BY <1>1, <1>2 DEF FormInv, KeepsTheTyped
  <1> QED BY <1>2, <1>3, <1>4, <1>6, <1>7 DEF FormInv

LEMMA ReportedKeeps ==
    ASSUME NEW V, FormInv(V), NEW t \in Tries, Reported(t)
    PROVE FormInv(V)'
  <1>1. /\ InFlight(t) /\ Goes(t, "done")
        /\ told' = IF form.picks = "own" THEN shown ELSE None
        /\ UNCHANGED <<form, opened, shown, row, seen, typed>>
    BY DEF Reported, InFlight
  <1>2. /\ tries' \in [Tries -> TryRec]
        /\ tries'[t].at = "done"
        /\ \A u \in Tries : u # t => tries'[u] = tries[u]
        /\ \A u \in Tries : InFlight(u)' => InFlight(u) /\ tries'[u].value = tries[u].value
        /\ SentAsLetGo(V)' /\ SentInOrder' /\ OneInFlight'
    BY <1>1, GoingKeeps
  <1>3. FormTyped(V)'
    BY <1>1, <1>2 DEF FormInv, FormTyped
  <1>4. SavesAreInTheRow'
    <2> SUFFICES ASSUME "row" \notin form.excused, ~ form.asks,
                        NEW u \in Tries, tries'[u].at = "saved"
                 PROVE row = form.answer[tries'[u].value]
      BY <1>1 DEF SavesAreInTheRow
    <2>1. u # t
      BY <1>2
    <2> QED BY <1>2, <2>1 DEF FormInv, SavesAreInTheRow
  <1>5. "row" \notin form.excused => told' = None
    BY <1>1 DEF FormInv, FormTyped, Fits
  <1>6. TellsTheRow'
    BY <1>1, <1>5 DEF TellsTheRow
  <1>7. KeepsTheTyped'
    BY <1>1, <1>2 DEF FormInv, KeepsTheTyped
  <1> QED BY <1>2, <1>3, <1>4, <1>6, <1>7 DEF FormInv

\* The page reports what was sent: the row holds it, or another value to send alike.
LEMMA ConfirmedKeeps ==
    ASSUME NEW V, FormInv(V), NEW t \in Tries, Confirmed(t)
    PROVE FormInv(V)'
  <1>1. PICK v : v = tries[t].value
    OBVIOUS
  <1>2. /\ InFlight(t) /\ Goes(t, "done") /\ tries[t].at \in {"saved", "passed"}
        /\ opened' = (opened /\ ~ form.closes)
        /\ shown' = IF form.clears THEN form.start ELSE shown
        /\ typed' = IF typed = v THEN None ELSE typed
        /\ UNCHANGED <<form, row, seen>>
    BY <1>1 DEF Confirmed, InFlight
  <1>3. told' = IF form.asks \/ tries[t].at = "passed" THEN None
                ELSE IF \E u \in Tries : u > t /\ tries[u].at = "done" THEN told ELSE v
    BY <1>1 DEF Confirmed
  <1>4. /\ tries' \in [Tries -> TryRec]
        /\ tries'[t].at = "done"
        /\ \A u \in Tries : u # t => tries'[u] = tries[u]
        /\ \A u \in Tries : InFlight(u)' => InFlight(u) /\ tries'[u].value = tries[u].value
        /\ SentAsLetGo(V)' /\ SentInOrder' /\ OneInFlight'
    BY <1>2, GoingKeeps
  <1>5. /\ v \in V \cap form.goes /\ (form.picks # "no" => v \in form.takes)
        /\ tries[t].at = "saved" => form.answer[v] # Refused
    BY <1>1, <1>2 DEF FormInv, SentAsLetGo
  <1>6. FormTyped(V)'
    <2>1. shown' \in V /\ opened' \in BOOLEAN
      BY <1>2 DEF FormInv, FormTyped, Covers
    <2>2. told' \in Values \cup {None} /\ typed' \in Values \cup {None}
      BY <1>2, <1>3, <1>5 DEF FormInv, FormTyped
    <2> QED BY <1>2, <1>4, <2>1, <2>2 DEF FormInv, FormTyped
  <1>7. SavesAreInTheRow'
    <2> SUFFICES ASSUME "row" \notin form.excused, ~ form.asks,
                        NEW u \in Tries, tries'[u].at = "saved"
                 PROVE row = form.answer[tries'[u].value]
      BY <1>2 DEF SavesAreInTheRow
    <2>1. u # t
      BY <1>4
    <2> QED BY <1>4, <2>1 DEF FormInv, SavesAreInTheRow
  <1>8. TellsTheRow'
    <2> SUFFICES ASSUME "row" \notin form.excused, told' # None
                 PROVE /\ ~ form.asks /\ Alike(row, told')
                       /\ ~ Solo(form) => told' \in form.takes \cap form.goes
      BY <1>2 DEF TellsTheRow
    <2>1. ~ form.asks /\ tries[t].at = "saved"
      BY <1>2, <1>3
    <2>2. Alike(row, v)
      <3>1. row = form.answer[v]
        BY <1>1, <2>1 DEF FormInv, SavesAreInTheRow
      <3>2. Alike(form.answer[v], v)
        BY <1>5, <2>1, Answers
      <3> QED BY <3>1, <3>2
    <2>3. CASE Solo(form)
      <3>1. ~ \E u \in Tries : u > t /\ tries[u].at = "done"
        BY <1>2, <2>3 DEF FormInv, OneInFlight
      <3>2. told' = v
        BY <1>3, <2>1, <3>1
      <3> QED BY <2>1, <2>2, <2>3, <3>2
    <2>4. CASE ~ Solo(form)
      <3>1. v \in form.takes \cap form.goes
        BY <1>5, <2>4 DEF FormInv, FormTyped, Fits
      <3>2. CASE told' = v
        BY <2>1, <2>2, <3>1, <3>2
      <3>3. CASE told' = told
        BY <2>1, <2>4, <3>3 DEF FormInv, TellsTheRow
      <3> QED BY <1>3, <2>1, <3>2, <3>3
    <2> QED BY <2>3, <2>4
  <1>9. KeepsTheTyped'
    <2> SUFFICES ASSUME "typed" \notin form.excused PROVE typed' = None
      BY <1>2 DEF KeepsTheTyped
    <2> QED BY <1>1, <1>2 DEF FormInv, KeepsTheTyped
  <1> QED BY <1>4, <1>6, <1>7, <1>8, <1>9 DEF FormInv

LEMMA FormsStart ==
    ASSUME FormInit
    PROVE FormsInv
  <1>1. Fits(form) /\ form \in Followed
    BY FieldsAssumption DEF FormInit
  <1>2. PICK V \in SUBSET Values : Covers(form, V)
    BY <1>1 DEF Fits
  <1>3. \A t \in Tries : tries[t] = Idle
    BY DEF FormInit
  <1>4. Idle \in TryRec /\ Idle.at = "unsent"
    BY DEF Idle, TryRec, Values
  <1>5. FormTyped(V)
    <2>1. /\ row \in form.rows /\ seen = row
          /\ shown = (IF form.edits THEN seen ELSE form.start)
          /\ opened \in BOOLEAN /\ typed = None /\ told = None
      BY DEF FormInit
    <2>2. row \in Values /\ (form.edits => row \in V) /\ shown \in V
      BY <1>1, <1>2, <2>1 DEF Fits, Covers
    <2>3. tries \in [Tries -> TryRec]
      BY <1>4 DEF FormInit
    <2> QED BY <1>1, <1>2, <2>1, <2>2, <2>3 DEF FormTyped
  <1>6. SentAsLetGo(V) /\ SentInOrder /\ OneInFlight /\ SavesAreInTheRow
    BY <1>3, <1>4 DEF SentAsLetGo, SentInOrder, OneInFlight, SavesAreInTheRow, InFlight
  <1>7. TellsTheRow /\ KeepsTheTyped
    BY DEF FormInit, TellsTheRow, KeepsTheTyped
  <1> QED BY <1>1, <1>5, <1>6, <1>7 DEF FormInv, FormsInv

LEMMA FormsStep ==
    ASSUME FormsInv, FormNext
    PROVE FormsInv'
  <1>1. form # Off
    BY DEF FormNext
  <1>2. PICK V \in SUBSET Values : form \in Followed /\ FormInv(V)
    BY <1>1 DEF FormsInv, FormOff
  <1>3. form' = form
    BY DEF FormNext, OpenForm, CancelForm, OthersSave, Reread, Type, SubmitForm, Serve, Fail,
           Confirmed, Reported, Pick
  <1>4. FormInv(V)'
    <2>1. CASE OpenForm \/ CancelForm \/ OthersSave \/ Reread
      BY <1>2, <2>1, OpenFormKeeps, CancelFormKeeps, OthersSaveKeeps, RereadKeeps
    <2>2. ASSUME NEW v \in Values, Type(v) PROVE FormInv(V)'
      BY <1>2, <2>2, TypeKeeps
    <2>3. ASSUME NEW t \in Tries, SubmitForm(t) \/ Serve(t) \/ Fail(t) PROVE FormInv(V)'
      BY <1>2, <2>3, SubmitFormKeeps, ServeKeeps, FailKeeps
    <2>4. ASSUME NEW t \in Tries, Confirmed(t) \/ Reported(t) PROVE FormInv(V)'
      BY <1>2, <2>4, ConfirmedKeeps, ReportedKeeps
    <2>5. ASSUME NEW t \in Tries, NEW v \in Values, Pick(t, v) PROVE FormInv(V)'
      BY <1>2, <2>5, PickKeeps
    <2> QED BY <2>1, <2>2, <2>3, <2>4, <2>5 DEF FormNext
  <1> QED BY <1>2, <1>3, <1>4 DEF FormsInv

----------------------------------------------------------------------------
(* Both invariants depend on the variables of their part alone.               *)
LEMMA PagesUnchanged ==
    ASSUME PagesInv, UNCHANGED vars
    PROVE PagesInv'
  <1>1. PagesTyped'
    BY DEF PagesInv, PagesTyped, vars
  <1>2. DueIsShown' /\ AnswersKeepUp' /\ OwnIsShown'
    BY DEF PagesInv, DueIsShown, AnswersKeepUp, OwnIsShown, Mounts, vars
  <1>3. GuessesHaveSaves'
    BY DEF PagesInv, GuessesHaveSaves, vars
  <1> QED BY <1>1, <1>2, <1>3 DEF PagesInv

LEMMA FormsUnchanged ==
    ASSUME FormsInv, UNCHANGED formVars
    PROVE FormsInv'
  <1>1. CASE FormOff
    BY <1>1 DEF FormOff, FormsInv, formVars
  <1>2. ASSUME NEW V \in SUBSET Values, form \in Followed, FormInv(V)
        PROVE FormsInv'
    <2>1. UNCHANGED <<form, row, tries, told, opened, shown, seen, typed>>
      BY DEF formVars
    <2>2. opened' \in BOOLEAN /\ shown' \in V /\ seen' \in {seen, row}
          /\ typed' \in Values \cup {None}
      BY <1>2, <2>1 DEF FormInv, FormTyped
    <2>3. KeepsTheTyped'
      BY <1>2, <2>1 DEF FormInv, KeepsTheTyped, InFlight
    <2>4. FormInv(V)'
      BY <1>2, <2>1, <2>2, <2>3, ScreenKeeps
    <2> QED BY <1>2, <2>1, <2>4 DEF FormsInv
  <1> QED BY <1>1, <1>2 DEF FormsInv


----------------------------------------------------------------------------
(* The tab: one of the two parts, the other one is off.                       *)
LEMMA BrowserStep ==
    ASSUME BrowserInv, [BrowserNext]_<<vars, formVars>>
    PROVE BrowserInv'
  <1>1. CASE form = Off /\ Next /\ UNCHANGED formVars
    <2>1. PagesInv'
      BY <1>1, PagesStep DEF BrowserInv
    <2>2. FormsInv'
      BY <1>1, FormsUnchanged DEF BrowserInv
    <2> QED BY <2>1, <2>2 DEF BrowserInv
  <1>2. CASE FormNext /\ UNCHANGED vars
    <2>1. FormsInv'
      BY <1>2, FormsStep DEF BrowserInv
    <2>2. PagesInv'
      BY <1>2, PagesUnchanged DEF BrowserInv
    <2> QED BY <2>1, <2>2 DEF BrowserInv
  <1>3. CASE UNCHANGED <<vars, formVars>>
    BY <1>3, PagesUnchanged, FormsUnchanged DEF BrowserInv
  <1> QED BY <1>1, <1>2, <1>3 DEF BrowserNext

\* The entry followed and the form followed keep their invariants, whatever pages
\* are visited and whatever is saved, typed, lost and answered late.
THEOREM BrowserInvariant == BrowserSpec => []BrowserInv
  <1>1. BrowserInit => BrowserInv
    BY PagesStart, FormsStart DEF BrowserInit, BrowserInv, FormsInv
  <1>2. BrowserInv /\ [BrowserNext]_<<vars, formVars>> => BrowserInv'
    BY BrowserStep
  <1> QED BY <1>1, <1>2, PTL DEF BrowserSpec

\* Every variable of the query cache and of the form followed keeps its type: no
\* order of answers, marks and visits leaves an entry that is half set.
THEOREM BrowserTypes == BrowserSpec => []BrowserTypeOK
  <1>1. BrowserInv => TypeOK
    <2> SUFFICES ASSUME BrowserInv PROVE TypeOK
      OBVIOUS
    <2>1. PagesTyped /\ entry \in EntryRec /\ EntryOK(entry, applied)
      BY DEF BrowserInv, PagesInv, PagesTyped, EntryOK
    <2>2. {entry.guess, entry.marked, entry.old, entry.hides} \subseteq BOOLEAN
      BY <2>1 DEF EntryRec
    <2>3. \A r \in Sent : /\ save[r].at \in {"unsent", "sent", "applied", "over"}
                           /\ save[r].no \in 0 .. applied
      BY <2>1 DEF PagesTyped, SaveRec
    <2>4. entry.get \in {"none", "asked", "answered"}
      BY <2>1 DEF EntryRec
    <2> QED BY <2>1, <2>2, <2>3, <2>4 DEF TypeOK, PagesTyped, EntryOK
  <1>2. BrowserInv => FormTypeOK
    <2>1. ASSUME NEW V, V \in SUBSET Values, FormInv(V) PROVE FormTypeOK
      BY <2>1 DEF FormInv, FormTyped, Covers, TryRec, FormTypeOK
    <2>2. ASSUME FormOff PROVE FormTypeOK
      <3>1. Idle \in TryRec /\ "" \in Values
        BY DEF Idle, TryRec, Values
      <3> QED BY <2>2, <3>1 DEF FormOff, FormTypeOK, TryRec
    <2> QED BY <2>1, <2>2 DEF BrowserInv, FormsInv
  <1> QED BY <1>1, <1>2, BrowserInvariant, PTL DEF BrowserTypeOK

\* An entry that counts as current shows every answered save that concerns it, for
\* any number of saves, GETs, visits and failures in any order.
THEOREM BrowserShowsSaves == BrowserSpec => []SavesAreShown
  <1>1. BrowserInv => SavesAreShown
    BY DEF BrowserInv, PagesInv, DueIsShown, SavesAreShown, Settled
  <1> QED BY <1>1, BrowserInvariant, PTL

\* While a page stays open it shows the saves that were made on it.
THEOREM BrowserShowsOwnSaves == BrowserSpec => []OwnSavesAreSeen
  <1>1. BrowserInv => OwnSavesAreSeen
    BY DEF BrowserInv, PagesInv, OwnIsShown, OwnSavesAreSeen, Settled
  <1> QED BY <1>1, BrowserInvariant, PTL

\* A guess that is neither marked nor about to be replaced has a save under way.
THEOREM BrowserRevokesGuesses == BrowserSpec => []GuessesAreRevoked
  <1>1. BrowserInv => GuessesAreRevoked
    BY DEF BrowserInv, PagesInv, GuessesHaveSaves, GuessesAreRevoked
  <1> QED BY <1>1, BrowserInvariant, PTL

\* What a page has reported as saved is in the row, however many requests and
\* other people's saves came in between.
THEOREM BrowserSavesAsShown == BrowserSpec => []SavedAsShown
  <1>1. BrowserInv => SavedAsShown
    BY DEF BrowserInv, FormsInv, FormInv, FormOff, TellsTheRow, SavedAsShown
  <1> QED BY <1>1, BrowserInvariant, PTL

\* What a page lets go is refused only where the form is excused.
THEOREM BrowserFormsAreAccepted == BrowserSpec => []PassedFormsAreAccepted
  <1>1. BrowserInv => PassedFormsAreAccepted
    <2>1. ASSUME NEW V, V \in SUBSET Values, FormInv(V),
                 NEW t \in Tries, tries[t].at = "refused"
          PROVE "answer" \in form.excused
      BY <2>1 DEF FormInv, FormTyped, Covers, SentAsLetGo
    <2>2. ASSUME FormOff, NEW t \in Tries PROVE tries[t].at # "refused"
      BY <2>2 DEF FormOff, Idle
    <2> QED BY <2>1, <2>2 DEF BrowserInv, FormsInv, PassedFormsAreAccepted
  <1> QED BY <1>1, BrowserInvariant, PTL

\* What has been typed and is not saved stays in the open form.
THEOREM BrowserKeepsTyped == BrowserSpec => []TypedIsKept
  <1>1. BrowserInv => TypedIsKept
    BY DEF BrowserInv, FormsInv, FormInv, FormOff, KeepsTheTyped, TypedIsKept
  <1> QED BY <1>1, BrowserInvariant, PTL

=============================================================================
