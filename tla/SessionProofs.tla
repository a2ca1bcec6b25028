---------------------------- MODULE SessionProofs ----------------------------
(***************************************************************************)
(* Whatever tabs, answers and expiring tokens do in between, a stored      *)
(* token and the profile stored with it are of one person; and a sign-out  *)
(* that nothing in flight could undo lasts until the next sign-in.         *)
(***************************************************************************)
EXTENDS Session, SequenceTheorems, TLAPS

\* A question of AppShell carries a token the server has issued.
MeAgrees == \A t \in Tabs : me[t].st \in {"sent", "ok"} => me[t].tok \in Issued

\* What an answer brings is of the person of its token.
BringsToken == {"switch", "login", "found"}

HonestBy(c, r) ==
    /\ r.sent # 0 => r.sent \in DOMAIN c
    /\ (r.kind = "found" /\ r.st = "sent") => r.org # NoOrg
    /\ r.st = "issued" => r.kind \in BringsToken
    /\ (r.kind \in BringsToken /\ r.st \in {"issued", "ok"}) =>
          r.tok \in DOMAIN c /\ r.user = c[r.tok].user
    /\ (r.kind = "refresh" /\ r.st = "ok") =>
          r.sent \in DOMAIN c /\ r.user = c[r.sent].user
    /\ (r.kind = "save" /\ r.st = "ok") =>
          r.sent \in DOMAIN c /\ r.user = c[r.sent].user

Honest(r) == HonestBy(claim, r)

AnswersAgree == \A s \in Slots : reqs[s] # Idle => Honest(reqs[s])

Inductive == TypeOK /\ StoresAgree /\ MeAgrees /\ AnswersAgree

------------------------------------------------------------------------------
\* The initial state satisfies the inductive invariant.
LEMMA InitInductive == Init => Inductive
  <1> SUFFICES ASSUME Init PROVE Inductive
    OBVIOUS
  <1> USE SessionAssumption DEF Init, SignedOff, Profile, NotAsking
  <1>1. TypeOK
    <2>1. claim \in Seq([user : Users, org : Orgs \union {NoOrg}]) /\ dead \subseteq Issued
      BY DEF Issued
    <2>2. member \in [Users -> SUBSET Orgs] /\ active \in [Users -> Orgs \union {NoOrg}]
      OBVIOUS
    <2>3. ls \in Auth /\ store \in [Tabs -> Auth] /\ cookie \in Nat
      BY DEF Auth
    <2>4. page \in [Tabs -> Pages] /\ next \in [Tabs -> Navs]
      BY DEF Pages, Navs, Stay
    <2>5. me \in [Tabs -> Asks]
      BY DEF Asks
    <2>6. check \in [Tabs -> BOOLEAN] /\ reqs \in [Slots -> Requests \union {Idle}]
      OBVIOUS
    <2>7. acts \in 0..MaxActs
      OBVIOUS
    <2>8. clean \in BOOLEAN /\ shown \subseteq Tabs
      OBVIOUS
    <2> QED BY <2>1, <2>2, <2>3, <2>4, <2>5, <2>6, <2>7, <2>8 DEF TypeOK
  <1>2. StoresAgree /\ MeAgrees /\ AnswersAgree
    BY DEF StoresAgree, OnePerson, MeAgrees, AnswersAgree
  <1> QED BY <1>1, <1>2 DEF Inductive

\* A token of an issue keeps what it says.
LEMMA IssueExtends ==
  ASSUME claim \in Seq([user : Users, org : Orgs \union {NoOrg}]),
         NEW u \in Users, NEW org \in Orgs \union {NoOrg}, Issue(u, org)
  PROVE  /\ claim' \in Seq([user : Users, org : Orgs \union {NoOrg}])
         /\ Issued' = Issued \union {NewToken} /\ NewToken \in Nat \ {0}
         /\ NewToken \notin Issued
         /\ \A n \in Issued : claim'[n] = claim[n]
         /\ claim'[NewToken].user = u
  BY DEF Issue, Issued, NewToken

\* Tokens are positive numbers and name a person.
LEMMA IssuedAreNumbers ==
  ASSUME claim \in Seq([user : Users, org : Orgs \union {NoOrg}]), NEW n \in Issued
  PROVE  n \in Nat \ {0} /\ claim[n].user \in Users /\ claim[n].org \in Orgs \union {NoOrg}
  <1>1. n \in 1..Len(claim) /\ Len(claim) \in Nat
    BY LenProperties DEF Issued
  <1>2. claim[n] \in [user : Users, org : Orgs \union {NoOrg}]
    BY <1>1, LenProperties
  <1> QED BY <1>1, <1>2

------------------------------------------------------------------------------
\* Steps of one request.
LEMMA RequestAt ==
  ASSUME TypeOK, NEW s \in Slots, reqs[s] # Idle
  PROVE  reqs[s] \in Requests
  BY DEF TypeOK

LEMMA SetState ==
  ASSUME NEW r \in Requests, NEW st \in {"sent", "issued", "ok", "denied"}
  PROVE  /\ [r EXCEPT !.st = st] \in Requests
         /\ [r EXCEPT !.st = st].st = st
         /\ \A f \in {"kind", "tab", "sent", "tok", "user", "org"} : [r EXCEPT !.st = st][f] = r[f]
  BY DEF Requests

LEMMA RequestChanges ==
  ASSUME Inductive, NEW s \in Slots, NEW r \in Requests \union {Idle}, r # Idle => Honest(r),
         reqs' = [reqs EXCEPT ![s] = r],
         UNCHANGED <<server, browser, page, next, store, check, me, rest>>
  PROVE  Inductive'
  <1> USE DEF Inductive, server, browser, rest
  <1>1. TypeOK'
    BY DEF TypeOK, Issued
  <1>2. StoresAgree' /\ MeAgrees'
    BY DEF StoresAgree, OnePerson, MeAgrees, Issued
  <1>3. AnswersAgree'
    BY DEF AnswersAgree, TypeOK, Honest, HonestBy
  <1> QED BY <1>1, <1>2, <1>3

\* The slot s takes the value r, and nothing else changes.
Only(s, r) ==
    /\ reqs' = [reqs EXCEPT ![s] = r]
    /\ UNCHANGED <<server, browser, page, next, store, check, me, rest>>

LEMMA OnlyPreserves ==
  ASSUME Inductive, NEW s \in Slots, NEW r, Only(s, r),
         r = Idle \/ (r \in Requests /\ Honest(r))
  PROVE  Inductive'
  <1> HIDE DEF Inductive, Honest, Requests, Idle
  <1>1. r \in Requests \union {Idle} /\ (r # Idle => Honest(r))
    OBVIOUS
  <1>2. /\ reqs' = [reqs EXCEPT ![s] = r]
        /\ UNCHANGED <<server, browser, page, next, store, check, me, rest>>
    BY DEF Only
  <1> QED BY <1>1, <1>2, RequestChanges

\* What the server and the pages do to a request that changes nothing else.
LEMMA RequestStepsPreserve ==
  ASSUME Inductive, NEW s \in Slots,
         \/ Refuse(s) \/ ServeRefresh(s) \/ ServeSave(s) \/ BuildAuthProfile(s)
         \/ Failed(s) \/ ModulesSaved(s)
  PROVE  Inductive'
  <1>0. At(s, Kinds, "issued") \/ reqs[s] # Idle
    BY DEF Refuse, ServeRefresh, ServeSave, BuildAuthProfile, Failed, ModulesSaved, At
  <1>1. reqs[s] \in Requests /\ Honest(reqs[s]) /\ TypeOK
    BY <1>0, RequestAt DEF At, Inductive, AnswersAgree
  <1>2. CASE Refuse(s)
    <2> DEFINE r == [reqs[s] EXCEPT !.st = "denied"]
    <2>1. r \in Requests /\ Honest(r)
      BY <1>1, SetState DEF Honest, HonestBy
    <2>2. Only(s, r)
      BY <1>2 DEF Refuse, Only
    <2> QED BY <2>1, <2>2, OnlyPreserves
  <1>3. CASE ServeSave(s)
    <2> DEFINE who == IF reqs[s].kind = "save" THEN claim[reqs[s].sent].user ELSE NoUser
               r == [reqs[s] EXCEPT !.st = "ok", !.user = who]
    <2>1. reqs[s].kind \in {"save", "modules"} /\ reqs[s].sent # 0
      BY <1>3 DEF ServeSave, At, Rejects
    <2>2. reqs[s].sent \in Issued
      BY <1>1, <2>1 DEF Honest, HonestBy, Issued
    <2>3. who \in Users \union {NoUser}
      BY <1>1, <2>2, IssuedAreNumbers DEF TypeOK
    <2>4. /\ r \in Requests
          /\ r.kind = reqs[s].kind /\ r.st = "ok" /\ r.sent = reqs[s].sent /\ r.user = who
      BY <1>1, <2>3 DEF Requests
    <2>5. Honest(r)
      BY <1>1, <2>1, <2>2, <2>4 DEF Honest, HonestBy, Issued, BringsToken
    <2>6. Only(s, r)
      BY <1>3 DEF ServeSave, Only
    <2> QED BY <2>4, <2>5, <2>6, OnlyPreserves
  <1>4. CASE ServeRefresh(s)
    <2> DEFINE u == claim[reqs[s].sent].user
               r == [reqs[s] EXCEPT !.st = "ok", !.user = u, !.org = active[u]]
    <2>1. reqs[s].kind = "refresh" /\ reqs[s].sent # 0
      BY <1>4 DEF ServeRefresh, At, Rejects
    <2>2. reqs[s].sent \in Issued
      BY <1>1, <2>1 DEF Honest, HonestBy, Issued
    <2>3. u \in Users /\ active[u] \in Orgs \union {NoOrg}
      BY <1>1, <2>2, IssuedAreNumbers DEF TypeOK
    <2>4. /\ r \in Requests
          /\ r.kind = "refresh" /\ r.st = "ok" /\ r.sent = reqs[s].sent /\ r.user = u
      BY <1>1, <2>1, <2>3 DEF Requests
    <2>5. Honest(r)
      BY <1>1, <2>2, <2>4 DEF Honest, HonestBy, Issued, BringsToken
    <2>6. Only(s, r)
      BY <1>4 DEF ServeRefresh, Only
    <2> QED BY <2>4, <2>5, <2>6, OnlyPreserves
  <1>5. CASE BuildAuthProfile(s)
    <2> DEFINE r == [reqs[s] EXCEPT !.st = "ok", !.org = active[reqs[s].user]]
    <2>1. reqs[s].st = "issued" /\ reqs[s].kind \in BringsToken
      BY <1>1, <1>5 DEF BuildAuthProfile, At, Honest, HonestBy
    <2>2. reqs[s].tok \in Issued /\ reqs[s].user = claim[reqs[s].tok].user
      BY <1>1, <2>1 DEF Honest, HonestBy, Issued
    <2>3. active[reqs[s].user] \in Orgs \union {NoOrg}
      BY <1>1, <2>2, IssuedAreNumbers DEF TypeOK
    <2>4. /\ r \in Requests
          /\ r.st = "ok"
          /\ r.kind = reqs[s].kind /\ r.sent = reqs[s].sent
          /\ r.tok = reqs[s].tok /\ r.user = reqs[s].user
      BY <1>1, <2>3 DEF Requests
    <2>5. Honest(r)
      BY <1>1, <2>1, <2>2, <2>4 DEF Honest, HonestBy, Issued, BringsToken
    <2>6. Only(s, r)
      BY <1>5 DEF BuildAuthProfile, Only
    <2> QED BY <2>4, <2>5, <2>6, OnlyPreserves
  <1>6. CASE Failed(s)
    <2>1. Only(s, Idle)
      BY <1>6 DEF Failed, Done, Only
    <2> QED BY <2>1, OnlyPreserves
  <1>7. CASE ModulesSaved(s)
    <2> DEFINE r == IF ls.tok = 0 THEN Idle ELSE Request(reqs[s].tab, "refresh", ls.tok, NoOrg)
    <2>1. ls \in Auth /\ (ls.tok # 0 => ls.tok \in Issued)
      BY DEF Inductive, TypeOK, StoresAgree, OnePerson
    <2>2. r # Idle => r \in Requests /\ Honest(r)
      BY <1>1, <2>1 DEF Request, Requests, Auth, Honest, HonestBy, Issued, Kinds, BringsToken
    <2>3. Only(s, r)
      BY <1>7 DEF ModulesSaved, Only
    <2> HIDE DEF r
    <2> QED BY <2>2, <2>3, OnlyPreserves
  <1> QED BY <1>2, <1>3, <1>4, <1>5, <1>6, <1>7

------------------------------------------------------------------------------
\* A token is issued to the person who asked for it.
LEMMA IssuePreserves ==
  ASSUME Inductive, NEW s \in Slots, NEW u \in Users, NEW org \in Orgs \union {NoOrg},
         reqs[s] # Idle, reqs[s].kind \in BringsToken,
         IssueToken(s, u, org),
         member' \in [Users -> SUBSET Orgs], active' \in [Users -> Orgs \union {NoOrg}]
  PROVE  Inductive'
  <1> DEFINE r == [reqs[s] EXCEPT !.st = "issued", !.tok = NewToken, !.user = u]
  <1>1. TypeOK /\ reqs[s] \in Requests /\ Honest(reqs[s])
    BY RequestAt DEF Inductive, AnswersAgree
  <1>2. /\ claim' \in Seq([user : Users, org : Orgs \union {NoOrg}])
        /\ Issued' = Issued \union {NewToken} /\ NewToken \in Nat \ {0}
        /\ \A n \in Issued : claim'[n] = claim[n]
        /\ claim'[NewToken].user = u
    BY <1>1, IssueExtends DEF IssueToken, TypeOK
  <1>3. /\ r \in Requests
        /\ r.st = "issued" /\ r.kind = reqs[s].kind /\ r.sent = reqs[s].sent
        /\ r.tok = NewToken /\ r.user = u
    BY <1>1, <1>2 DEF Requests
  <1>4. reqs' = [reqs EXCEPT ![s] = r] /\ UNCHANGED <<dead, ls, cookie, page, next, store, check, me>>
        /\ UNCHANGED <<shown, acts, clean>>
    BY DEF IssueToken, browser, rest
  <1>5. TypeOK'
    BY <1>1, <1>2, <1>3, <1>4 DEF TypeOK
  <1>6. StoresAgree' /\ MeAgrees'
    BY <1>2, <1>4 DEF Inductive, StoresAgree, OnePerson, MeAgrees
  <1>7. \A q : HonestBy(claim, q) => HonestBy(claim', q)
    BY <1>2 DEF HonestBy, Issued
  <1>8. HonestBy(claim', r)
    BY <1>1, <1>2, <1>3 DEF Honest, HonestBy, BringsToken, Issued
  <1>9. AnswersAgree'
    <2>1. ASSUME NEW o \in Slots, o # s, reqs[o] # Idle PROVE HonestBy(claim', reqs[o])
      BY <1>7, <2>1 DEF Inductive, AnswersAgree, Honest
    <2>2. \A o \in Slots : reqs'[o] = IF o = s THEN r ELSE reqs[o]
      BY <1>1, <1>4 DEF TypeOK
    <2> HIDE DEF r
    <2> QED BY <1>8, <2>1, <2>2 DEF AnswersAgree, Honest
  <1> QED BY <1>5, <1>6, <1>9 DEF Inductive

LEMMA ServerPreserves ==
  ASSUME Inductive, ServerStep
  PROVE  Inductive'
  <1>1. ASSUME NEW s \in Slots, Refuse(s) \/ ServeRefresh(s) \/ ServeSave(s) \/ BuildAuthProfile(s)
        PROVE  Inductive'
    BY <1>1, RequestStepsPreserve
  <1>2. ASSUME NEW s \in Slots, ServeOrganization(s) PROVE Inductive'
    <2> DEFINE u == claim[reqs[s].sent].user
               org == reqs[s].org
    <2>1. /\ reqs[s] # Idle /\ reqs[s].kind \in BringsToken /\ reqs[s].sent # 0
          /\ IssueToken(s, u, org)
          /\ member' = [member EXCEPT ![u] = @ \union {org}]
          /\ active' = [active EXCEPT ![u] = org]
          /\ reqs[s].kind \in {"switch", "found"} /\ reqs[s].st = "sent"
          /\ reqs[s].kind = "switch" => org \in member[u]
      BY <1>2 DEF ServeOrganization, At, BringsToken, Rejects
    <2>2. TypeOK /\ reqs[s] \in Requests /\ Honest(reqs[s])
      BY <2>1, RequestAt DEF Inductive, AnswersAgree
    <2>3. u \in Users
      BY <2>1, <2>2, IssuedAreNumbers DEF TypeOK, Honest, HonestBy, Issued
    <2>4. org \in Orgs
      BY <2>1, <2>2, <2>3 DEF Requests, TypeOK, Honest, HonestBy
    <2>5. member' \in [Users -> SUBSET Orgs] /\ active' \in [Users -> Orgs \union {NoOrg}]
      BY <2>1, <2>2, <2>3, <2>4 DEF TypeOK
    <2> QED BY <2>1, <2>3, <2>4, <2>5, IssuePreserves
  <1>3. ASSUME NEW s \in Slots, NEW u \in Users, ServeLogin(s, u) PROVE Inductive'
    <2>1. active[u] \in Orgs \union {NoOrg}
      BY DEF Inductive, TypeOK
    <2>2. member' \in [Users -> SUBSET Orgs] /\ active' \in [Users -> Orgs \union {NoOrg}]
      BY <1>3 DEF Inductive, TypeOK, ServeLogin
    <2> QED BY <1>3, <2>1, <2>2, IssuePreserves DEF ServeLogin, At, BringsToken
  <1>4. ASSUME NEW t \in Tabs, AnswerMe(t) PROVE Inductive'
    <2>1. TypeOK /\ me[t] \in Asks /\ me[t].st = "sent" /\ me[t].tok \in Issued
      BY <1>4 DEF Inductive, TypeOK, AnswerMe, MeAgrees
    <2>2. active[claim[me[t].tok].user] \in Orgs \union {NoOrg}
      BY <2>1, IssuedAreNumbers DEF TypeOK
    <2>3. PICK ask \in Asks : ask.tok = me[t].tok /\ me' = [me EXCEPT ![t] = ask]
      <3>1. CASE Rejects(me[t].tok)
        <4>1. [me[t] EXCEPT !.st = "denied"] \in Asks
          BY <2>1 DEF Asks
        <4> QED BY <1>4, <2>1, <3>1, <4>1 DEF AnswerMe, Asks
      <3>2. CASE ~Rejects(me[t].tok)
        <4>1. [me[t] EXCEPT !.st = "ok", !.org = active[claim[me[t].tok].user]] \in Asks
          BY <2>1, <2>2 DEF Asks
        <4> QED BY <1>4, <2>1, <3>2, <4>1 DEF AnswerMe, Asks
      <3> QED BY <3>1, <3>2
    <2>4. UNCHANGED <<claim, dead, member, active, ls, cookie, page, next, store, check, reqs,
                      shown, acts, clean>>
      BY <1>4 DEF AnswerMe, server, browser, rest
    <2>5. TypeOK'
      BY <2>1, <2>3, <2>4 DEF TypeOK, Issued
    <2>6. MeAgrees'
      BY <2>1, <2>3, <2>4 DEF Inductive, TypeOK, MeAgrees, Issued
    <2> QED BY <2>4, <2>5, <2>6 DEF Inductive, StoresAgree, OnePerson, AnswersAgree, Honest, Issued
  <1>5. ASSUME NEW n \in Issued, Expire(n) PROVE Inductive'
    <2>1. UNCHANGED <<claim, member, active, ls, cookie, page, next, store, check, me, reqs,
                      shown, acts, clean>>
      BY <1>5 DEF Expire, browser, rest
    <2>2. TypeOK'
      BY <1>5, <2>1 DEF Inductive, TypeOK, Expire, Issued
    <2> QED
      BY <2>1, <2>2 DEF Inductive, StoresAgree, OnePerson, MeAgrees, AnswersAgree, Honest, Issued
  <1> QED BY <1>1, <1>2, <1>3, <1>4, <1>5 DEF ServerStep

------------------------------------------------------------------------------
\* The steps of the browser.
\* What a step of a tab has to keep: what it stores is of one person.
LEMMA BrowserChanges ==
  ASSUME Inductive, UNCHANGED server,
         ls' \in Auth, OnePerson(ls)', cookie' \in Nat, ls'.tok # 0 => cookie' = ls'.tok,
         page' \in [Tabs -> Pages], next' \in [Tabs -> Navs],
         store' \in [Tabs -> Auth], \A t \in Tabs : OnePerson(store[t])',
         check' \in [Tabs -> BOOLEAN], me' \in [Tabs -> Asks],
         \A t \in Tabs : me'[t].st \in {"sent", "ok"} => me'[t].tok \in Issued,
         reqs' \in [Slots -> Requests \union {Idle}],
         \A s \in Slots : reqs'[s] \in {Idle, reqs[s]} \/ Honest(reqs'[s]),
         shown' \subseteq Tabs, acts' \in 0..MaxActs, clean' \in BOOLEAN
  PROVE  Inductive'
  <1>1. claim' = claim /\ UNCHANGED <<dead, member, active>>
    BY DEF server
  <1>2. TypeOK'
    BY <1>1 DEF Inductive, TypeOK, Issued
  <1>3. StoresAgree' /\ MeAgrees'
    BY <1>1 DEF StoresAgree, MeAgrees, Issued
  <1>4. AnswersAgree'
    BY <1>1 DEF Inductive, AnswersAgree, Honest
  <1> QED BY <1>2, <1>3, <1>4 DEF Inductive

\* Where a navigation leads.
LEMMA Navigations ==
  ASSUME TypeOK, NEW t \in Tabs, NEW to \in Pages
  PROVE  /\ Push(t, to) => next' \in [Tabs -> Navs]
         /\ Href(t, to) => next' \in [Tabs -> Navs]
         /\ next' = [next EXCEPT ![t] = Stay] => next' \in [Tabs -> Navs]
         /\ next[t] # Stay => Middleware(next[t].to) \in Pages
  <1> DEFINE soft == [to |-> to, hard |-> FALSE]
             hard == [to |-> to, hard |-> TRUE]
  <1>1. soft \in Navs /\ hard \in Navs /\ Stay \in Navs /\ next \in [Tabs -> Navs]
    BY DEF Navs, TypeOK
  <1>2. Push(t, to) => next' = [next EXCEPT ![t] = IF next[t].hard THEN next[t] ELSE soft]
    BY DEF Push
  <1>3. Href(t, to) => next' = [next EXCEPT ![t] = hard]
    BY DEF Href
  <1>4. next[t] # Stay => next[t].to \in Pages
    BY <1>1 DEF Navs
  <1>5. next[t] # Stay => Middleware(next[t].to) \in Pages
    BY <1>4 DEF Middleware, Pages
  <1> HIDE DEF soft, hard
  <1> QED BY <1>1, <1>2, <1>3, <1>5

\* What every state has: cited by the steps of the browser.
LEMMA BrowserNow ==
  ASSUME Inductive
  PROVE  /\ TypeOK
         /\ ls \in Auth /\ OnePerson(ls) /\ cookie \in Nat /\ (ls.tok # 0 => cookie = ls.tok)
         /\ page \in [Tabs -> Pages] /\ next \in [Tabs -> Navs]
         /\ store \in [Tabs -> Auth] /\ \A t \in Tabs : OnePerson(store[t])
         /\ check \in [Tabs -> BOOLEAN] /\ me \in [Tabs -> Asks]
         /\ \A t \in Tabs : me[t].st \in {"sent", "ok"} => me[t].tok \in Issued
         /\ reqs \in [Slots -> Requests \union {Idle}]
         /\ shown \subseteq Tabs /\ acts \in 0..MaxActs /\ clean \in BOOLEAN
         /\ SignedOff \in Auth /\ OnePerson(SignedOff)
         /\ NotAsking \in Asks
  BY DEF Inductive, TypeOK, StoresAgree, MeAgrees, SignedOff, Profile, Auth, OnePerson, NotAsking,
     Asks

\* Of one person in the next state, if the server issues nothing.
LEMMA StaysOnePerson ==
  ASSUME UNCHANGED server
  PROVE  /\ OnePerson(ls)' <=> OnePerson(ls')
         /\ \A t \in Tabs : OnePerson(store[t])' <=> OnePerson(store'[t])
  BY DEF server, OnePerson, Issued

\* A page navigates to where it was told.
LEMMA NavigationPreserves ==
  ASSUME Inductive, NEW t \in Tabs, LoadDocument(t) \/ Navigate(t) \/ CheckToken(t)
  PROVE  Inductive'
  <1> USE BrowserNow
  <1>1. "login" \in Pages /\ UNCHANGED server /\ UNCHANGED <<shown, acts, clean, ls>>
    BY DEF Pages, LoadDocument, Navigate, CheckToken, rest, browser, ShellEffect, LeaveShell
  <1>2. CASE CheckToken(t)
    <2>1. next' \in [Tabs -> Navs] /\ check' \in [Tabs -> BOOLEAN]
      BY <1>1, <1>2, Navigations DEF CheckToken
    <2> QED
      BY <1>1, <1>2, <2>1, StaysOnePerson, BrowserChanges DEF CheckToken, browser, rest
  <1>3. CASE LoadDocument(t) \/ Navigate(t)
    <2> DEFINE to == Middleware(next[t].to)
    <2>1. next[t] # Stay
      <3>1. ~Stay.hard
        BY DEF Stay
      <3>2. next[t].hard \/ next[t] # Stay
        BY <1>3 DEF LoadDocument, Navigate
      <3> QED BY <3>1, <3>2
    <2>2. page' = [page EXCEPT ![t] = to] /\ next' = [next EXCEPT ![t] = Stay]
      BY <1>3 DEF LoadDocument, Navigate
    <2>3. page' \in [Tabs -> Pages] /\ next' \in [Tabs -> Navs]
      BY <1>1, <2>1, <2>2, Navigations
    <2>4. ShellEffect(t) \/ LeaveShell(t)
      BY <1>3 DEF LoadDocument, Navigate
    <2>5. /\ check' \in [Tabs -> BOOLEAN]
          /\ me' \in [Tabs -> Asks]
          /\ \A o \in Tabs : me'[o].st \in {"sent", "ok"} => me'[o].tok \in Issued
          /\ cookie' \in Nat /\ (ls.tok # 0 => cookie' = ls.tok)
      <3>1. CASE LeaveShell(t) \/ ls.tok = 0
        <4>1. /\ me' = [me EXCEPT ![t] = NotAsking] /\ UNCHANGED browser
              /\ check' = [check EXCEPT ![t] = TRUE] \/ check' = [check EXCEPT ![t] = FALSE]
          BY <2>4, <3>1 DEF ShellEffect, LeaveShell
        <4> QED BY <4>1 DEF browser, NotAsking
      <3>2. CASE ShellEffect(t) /\ ls.tok # 0
        <4> DEFINE ask == [NotAsking EXCEPT !.st = "sent", !.tok = ls.tok]
        <4>1. ls.tok \in Issued /\ ls.tok \in Nat
          BY <3>2 DEF OnePerson, Auth
        <4>2. ask \in Asks /\ ask.tok \in Issued
          BY <4>1 DEF NotAsking, Asks
        <4>3. /\ me' = [me EXCEPT ![t] = ask] /\ cookie' = ls.tok
              /\ check' = [check EXCEPT ![t] = FALSE]
          BY <3>2 DEF ShellEffect
        <4> HIDE DEF ask
        <4> QED BY <4>1, <4>2, <4>3
      <3> QED BY <2>4, <3>1, <3>2
    <2>6. store' \in [Tabs -> Auth] /\ \A o \in Tabs : OnePerson(store'[o])
      <3>1. PICK auth \in {ls, SignedOff, store[t]} : store' = [store EXCEPT ![t] = auth]
        BY <1>3 DEF LoadDocument, Navigate
      <3> QED BY <3>1
    <2>7. /\ reqs' \in [Slots -> Requests \union {Idle}]
          /\ \A s \in Slots : reqs'[s] \in {Idle, reqs[s]}
      BY <1>3 DEF LoadDocument, Navigate
    <2> QED BY <1>1, <2>3, <2>5, <2>6, <2>7, StaysOnePerson, BrowserChanges
  <1> QED BY <1>2, <1>3

\* A person clicks, asks or signs out.
LEMMA PersonPreserves ==
  ASSUME Inductive, PersonStep
  PROVE  Inductive'
  <1> USE BrowserNow, SessionAssumption
  <1>1. PICK t \in Tabs : \/ Logout(t) \/ Reload(t) \/ Turn(t)
                          \/ \E to \in Pages : Click(t, to)
                          \/ SubmitLogin(t) \/ SaveProfile(t) \/ SaveModules(t)
                          \/ \E org \in Orgs : Switch(t, org) \/ Found(t, org)
    BY DEF PersonStep
  <1>2. ASSUME Begin(t) PROVE acts' \in 0..MaxActs /\ shown' = shown
    BY <1>2 DEF Begin
  <1>3. "login" \in Pages
    BY DEF Pages
  <1>4. CASE Reload(t) \/ \E to \in Pages : Click(t, to)
    <2>1. /\ next' \in [Tabs -> Navs] /\ acts' \in 0..MaxActs /\ shown' = shown
          /\ UNCHANGED <<server, ls, cookie, page, store, check, me, reqs, clean>>
      BY <1>2, <1>4, Navigations DEF Reload, Click, browser
    <2> QED BY <2>1, StaysOnePerson, BrowserChanges
  <1>5. CASE Logout(t)
    <2>1. next' \in [Tabs -> Navs]
      BY <1>3, <1>5, Navigations DEF Logout
    <2>2. acts' \in 0..MaxActs /\ UNCHANGED <<server, page, check, me, reqs, shown>>
      BY <1>2, <1>5 DEF Logout
    <2>3. clean' \in BOOLEAN
      BY <1>5 DEF Logout
    <2>4. ls' = SignedOff /\ cookie' = 0 /\ store' = [store EXCEPT ![t] = SignedOff]
      BY <1>5 DEF Logout
    <2>5. cookie' \in Nat /\ ls'.tok = 0
      BY <2>4 DEF SignedOff, Profile
    <2>6. store' \in [Tabs -> Auth] /\ \A o \in Tabs : OnePerson(store'[o])
      BY <2>4
    <2> QED BY <2>1, <2>2, <2>3, <2>4, <2>5, <2>6, StaysOnePerson, BrowserChanges
  <1>6. ASSUME NEW kind \in Kinds \ {"refresh"}, NEW pages, NEW org \in Orgs \union {NoOrg},
               kind = "found" => org # NoOrg, Ask(t, kind, pages, org)
        PROVE  Inductive'
    <2> DEFINE r == Request(t, kind, ls.tok, org)
    <2>1. r \in Requests /\ Honest(r)
      BY <1>6 DEF Request, Requests, Auth, OnePerson, Honest, HonestBy, Issued, BringsToken
    <2>2. PICK s \in Slots : reqs' = [reqs EXCEPT ![s] = r]
      BY <1>6 DEF Ask, Send
    <2>3. /\ reqs' \in [Slots -> Requests \union {Idle}]
          /\ \A o \in Slots : reqs'[o] = reqs[o] \/ Honest(reqs'[o])
      <3> HIDE DEF r
      <3> QED BY <2>1, <2>2
    <2>4. /\ acts' \in 0..MaxActs
          /\ UNCHANGED <<server, ls, cookie, page, next, store, check, me, shown, clean>>
      BY <1>2, <1>6 DEF Ask, browser
    <2> QED BY <2>3, <2>4, StaysOnePerson, BrowserChanges
  <1>7. CASE SubmitLogin(t) \/ SaveProfile(t) \/ SaveModules(t)
    BY <1>6, <1>7 DEF SubmitLogin, SaveProfile, SaveModules, Kinds
  <1>8. CASE \E org \in Orgs : Switch(t, org) \/ Found(t, org)
    BY <1>6, <1>8 DEF Switch, Found, Kinds
  <1>9. CASE Turn(t)
    <2>1. /\ shown' \subseteq Tabs
          /\ UNCHANGED <<server, ls, cookie, page, next, store, check, me, reqs, acts, clean>>
      BY <1>9 DEF Turn, browser
    <2> QED BY <2>1, StaysOnePerson, BrowserChanges
  <1> QED BY <1>1, <1>4, <1>5, <1>7, <1>8, <1>9

------------------------------------------------------------------------------
\* A refused session ends for the tab that is told.
LEMMA SignOffPreserves ==
  ASSUME Inductive, NEW t \in Tabs, SignOff(t),
         cookie' \in {0, cookie}, me' \in {me, [me EXCEPT ![t] = NotAsking]},
         reqs' = reqs \/ \E s \in Slots : Done(s),
         UNCHANGED <<server, page, store, check, rest>>
  PROVE  Inductive'
  <1> USE BrowserNow
  <1>1. "login" \in Pages
    BY DEF Pages
  <1>2. ls' = SignedOff /\ ls'.tok = 0 /\ next' \in [Tabs -> Navs]
    BY <1>1, Navigations DEF SignOff, SignedOff, Profile
  <1>3. me' \in [Tabs -> Asks] /\ \A o \in Tabs : me'[o].st \in {"sent", "ok"} => me'[o].tok \in Issued
    BY DEF NotAsking
  <1>4. /\ reqs' \in [Slots -> Requests \union {Idle}]
        /\ \A s \in Slots : reqs'[s] \in {Idle, reqs[s]}
    BY DEF Done
  <1>5. cookie' \in Nat /\ UNCHANGED <<shown, acts, clean>>
    BY DEF rest
  <1> QED BY <1>2, <1>3, <1>4, <1>5, StaysOnePerson, BrowserChanges

\* An answer is stored: its token and its profile are of one person.
LEMMA StoredAnswerPreserves ==
  ASSUME Inductive, NEW t \in Tabs, NEW auth \in Auth, OnePerson(auth),
         ls' = auth, cookie' = auth.tok,
         store' \in {store, [store EXCEPT ![t] = auth]},
         me' \in {me, [me EXCEPT ![t] = NotAsking]},
         next' \in [Tabs -> Navs],
         reqs' = reqs \/ \E s \in Slots : Done(s),
         UNCHANGED <<shown, acts>>, clean' \in BOOLEAN, UNCHANGED <<server, page, check>>
  PROVE  Inductive'
  <1> USE BrowserNow
  <1>1. store' \in [Tabs -> Auth] /\ \A o \in Tabs : OnePerson(store'[o])
    OBVIOUS
  <1>2. me' \in [Tabs -> Asks] /\ \A o \in Tabs : me'[o].st \in {"sent", "ok"} => me'[o].tok \in Issued
    BY DEF NotAsking
  <1>3. /\ reqs' \in [Slots -> Requests \union {Idle}]
        /\ \A s \in Slots : reqs'[s] \in {Idle, reqs[s]}
    BY DEF Done
  <1>4. cookie' \in Nat
    BY DEF Auth
  <1> QED BY <1>1, <1>2, <1>3, <1>4, StaysOnePerson, BrowserChanges

\* The answers.
LEMMA AnswerPreserves ==
  ASSUME Inductive, NEW s \in Slots, AnswerStep(s)
  PROVE  Inductive'
  <1> USE BrowserNow
  <1> DEFINE r == reqs[s]
             auth == Profile(r.tok, r.user, r.org)
  <1>1. CASE Failed(s) \/ ModulesSaved(s)
    BY <1>1, RequestStepsPreserve
  <1>2. CASE Denied(s) \/ Refreshed(s) \/ LoggedIn(s) \/ OrganizationAnswered(s) \/ ProfileSaved(s)
    <2>1. r \in Requests /\ Honest(r) /\ r.tab \in Tabs
      <3>1. r # Idle
        BY <1>2 DEF Denied, Refreshed, LoggedIn, OrganizationAnswered, ProfileSaved, At
      <3> QED BY <3>1, RequestAt DEF Inductive, AnswersAgree, Requests
    <2>2. CASE Denied(s)
      BY <2>1, <2>2, SignOffPreserves DEF Denied
    <2>3. CASE Refreshed(s)
      <3> DEFINE again == Profile(r.sent, r.user, r.org)
      <3>1. again \in Auth /\ OnePerson(again) /\ again.tok = r.sent
        BY <2>1, <2>3
           DEF Refreshed, At, Honest, HonestBy, Issued, OnePerson, Auth, Profile, Requests
      <3>2. SetAuth(r.tab, again) /\ Done(s) /\ UNCHANGED <<server, page, next, check, me, rest>>
        BY <2>3 DEF Refreshed
      <3> HIDE DEF again
      <3> QED BY <2>1, <3>1, <3>2, StoredAnswerPreserves DEF SetAuth, rest
    <2>4. CASE LoggedIn(s)
      <3>1. auth \in Auth /\ OnePerson(auth) /\ auth.tok = r.tok
        BY <2>1, <2>4
           DEF LoggedIn, At, Honest, HonestBy, Issued, OnePerson, Auth, Profile, Requests,
               BringsToken
      <3>2. Home(r.org) \in Pages
        BY DEF Home, Pages
      <3>3. next' \in [Tabs -> Navs]
        BY <2>1, <2>4, <3>2, Navigations DEF LoggedIn
      <3>4. /\ ls' = auth /\ cookie' = r.tok /\ Done(s) /\ clean' = FALSE
            /\ UNCHANGED <<server, page, store, check, me, shown, acts>>
        BY <2>4 DEF LoggedIn
      <3> HIDE DEF auth
      <3> QED BY <2>1, <3>1, <3>3, <3>4, StoredAnswerPreserves
    <2>5. CASE OrganizationAnswered(s)
      <3>1. auth \in Auth /\ OnePerson(auth)
        BY <2>1, <2>5
           DEF OrganizationAnswered, At, Honest, HonestBy, Issued, OnePerson, Auth, Profile,
               Requests, BringsToken
      <3>2. Home(r.org) \in Pages /\ page[r.tab] \in Pages
        BY <2>1 DEF Home, Pages
      <3>3. next' \in [Tabs -> Navs]
        BY <2>1, <2>5, <3>2, Navigations DEF OrganizationAnswered
      <3>4. /\ SetAuth(r.tab, auth) /\ Done(s) /\ clean' = FALSE
            /\ UNCHANGED <<server, page, check, me, shown, acts>>
        BY <2>5 DEF OrganizationAnswered
      <3> HIDE DEF auth
      <3> QED BY <2>1, <3>1, <3>3, <3>4, StoredAnswerPreserves DEF SetAuth
    <2>6. CASE ProfileSaved(s)
      <3>1. Done(s) /\ UNCHANGED <<server, page, next, check, me, rest>>
        BY <2>6 DEF ProfileSaved
      <3>2. CASE store[r.tab].tok # 0 /\ Merge(r.tab, r)
        <4> DEFINE old == store[r.tab]
                   other == claim[r.sent].user # claim[old.tok].user
                   merged == [old EXCEPT !.user = r.user, !.mixed = other]
        <4>1. old \in Auth /\ old.tok \in Issued
          BY <2>1, <3>2 DEF OnePerson
        <4>2. r.user = claim[r.sent].user
          BY <2>1, <2>6 DEF ProfileSaved, At, Honest, HonestBy
        <4>3. r.user \in Users \union {NoUser} /\ other \in BOOLEAN
          BY <2>1 DEF Requests
        <4>4. /\ merged \in Auth
              /\ merged.tok = old.tok /\ merged.user = r.user /\ merged.mixed = other
          <5> HIDE DEF old, other
          <5> QED BY <4>1, <4>3 DEF Auth
        <4>5. OnePerson(merged)
          BY <4>1, <4>2, <4>4 DEF OnePerson
        <4>6. SetAuth(r.tab, merged)
          BY <3>2 DEF Merge
        <4> HIDE DEF merged
        <4> QED BY <2>1, <3>1, <4>4, <4>5, <4>6, StoredAnswerPreserves DEF SetAuth, rest
      <3>3. CASE UNCHANGED <<browser, store>>
        <4>1. /\ reqs' = [reqs EXCEPT ![s] = Idle]
              /\ UNCHANGED <<server, browser, page, next, store, check, me, rest>>
          BY <3>1, <3>3 DEF Done
        <4> HIDE DEF r
        <4> QED BY <4>1, RequestChanges
      <3> QED BY <2>6, <3>2, <3>3 DEF ProfileSaved
    <2> QED BY <1>2, <2>2, <2>3, <2>4, <2>5, <2>6
  <1> QED BY <1>1, <1>2 DEF AnswerStep

LEMMA TabPreserves ==
  ASSUME Inductive, NEW t \in Tabs, TabStep(t)
  PROVE  Inductive'
  <1> USE BrowserNow
  <1>1. CASE LoadDocument(t) \/ Navigate(t) \/ CheckToken(t)
    BY <1>1, NavigationPreserves
  <1>2. CASE PollDenied(t) \/ MeFailed(t)
    BY <1>2, SignOffPreserves DEF PollDenied, MeFailed
  <1>3. CASE MeAnswered(t)
    <2> DEFINE auth == Profile(me[t].tok, claim[me[t].tok].user, me[t].org)
    <2>1. me[t].tok \in Issued /\ me[t] \in Asks
      BY <1>3 DEF MeAnswered
    <2>2. auth \in Auth /\ OnePerson(auth)
      BY <2>1, IssuedAreNumbers DEF TypeOK, Asks, Auth, Profile, OnePerson
    <2>3. "setup" \in Pages
      BY DEF Pages
    <2>4. next' \in [Tabs -> Navs]
      BY <1>3, <2>3, Navigations DEF MeAnswered
    <2>5. /\ SetAuth(t, auth) /\ me' = [me EXCEPT ![t] = NotAsking]
          /\ UNCHANGED <<server, page, check, reqs, rest>>
      BY <1>3 DEF MeAnswered
    <2> HIDE DEF auth
    <2> QED BY <2>2, <2>4, <2>5, StoredAnswerPreserves DEF SetAuth, rest
  <1> QED BY <1>1, <1>2, <1>3 DEF TabStep

\* Every step preserves the inductive invariant.
LEMMA StepInductive == Inductive /\ [Next]_vars => Inductive'
  <1> SUFFICES ASSUME Inductive, [Next]_vars PROVE Inductive'
    OBVIOUS
  <1>1. CASE ServerStep
    BY <1>1, ServerPreserves
  <1>2. CASE PersonStep
    BY <1>2, PersonPreserves
  <1>3. ASSUME NEW t \in Tabs, TabStep(t) PROVE Inductive'
    BY <1>3, TabPreserves
  <1>4. ASSUME NEW s \in Slots, AnswerStep(s) PROVE Inductive'
    BY <1>4, AnswerPreserves
  <1>5. CASE UNCHANGED vars
    <2>1. UNCHANGED server /\ UNCHANGED <<ls, cookie, page, next, store, check, me, reqs,
                                           shown, acts, clean>>
      BY <1>5 DEF vars, server
    <2> QED BY <2>1, BrowserNow, StaysOnePerson, BrowserChanges
  <1> QED BY <1>1, <1>2, <1>3, <1>4, <1>5 DEF Next

\* What the server, the tabs and the answers in flight hold is of one person at
\* any time, for any number of tabs, requests, people and organizations.
THEOREM SessionInductive == Spec => []Inductive
  BY InitInductive, StepInductive, PTL DEF Spec

\* The variables have their types.
THEOREM SessionTypeCorrect == Spec => []TypeOK
  <1>1. Inductive => TypeOK
    BY DEF Inductive
  <1> QED BY <1>1, SessionInductive, PTL

\* The token and the profile in localStorage and in every store are of one
\* person, and the cookie is the stored token.
THEOREM SessionStoresAgree == Spec => []StoresAgree
  <1>1. Inductive => StoresAgree
    BY DEF Inductive
  <1> QED BY <1>1, SessionInductive, PTL

------------------------------------------------------------------------------
(***************************************************************************)
(* After a clean sign-out.  What is still in flight then, or asked for     *)
(* later, is harmless: a sign-in, whose answer ends the quiet; a request   *)
(* without a token, which can only be refused; a save of a tab whose store *)
(* holds no session it could write back.                                   *)
(***************************************************************************)
Harmless(stores, r) ==
    \/ r.kind = "login"
    \/ r.sent = 0 /\ r.st \in {"sent", "denied"}
    \/ r.kind \in {"save", "modules"} /\ stores[r.tab].tok = 0

AllHarmless == \A s \in Slots : reqs[s] # Idle => Harmless(store, reqs[s])

Quiet ==
    clean => /\ ls.tok = 0 /\ cookie = 0
             /\ \A t \in Tabs : me[t].st = "idle"
             /\ AllHarmless

\* A harmless request stays so while stores only lose their sessions.
LEMMA HarmlessStays ==
  ASSUME TypeOK, AllHarmless,
         \A t \in Tabs : store[t].tok = 0 => store'[t].tok = 0,
         \A s \in Slots : \/ reqs'[s] \in {Idle, reqs[s]}
                          \/ Harmless(store', reqs'[s])
  PROVE  AllHarmless'
  <1> SUFFICES ASSUME NEW s \in Slots, reqs'[s] # Idle PROVE Harmless(store', reqs'[s])
    BY DEF AllHarmless, Harmless
  <1>1. CASE reqs'[s] = reqs[s]
    <2>1. Harmless(store, reqs[s]) /\ reqs[s] # Idle
      BY <1>1 DEF AllHarmless
    <2>2. reqs[s].tab \in Tabs
      BY <2>1, RequestAt DEF Requests
    <2>3. Harmless(store', reqs[s])
      BY <2>1, <2>2 DEF Harmless
    <2> QED BY <1>1, <2>3
  <1> QED BY <1>1

\* A step that leaves the browser signed off, and asks nothing that could end it.
LEMMA QuietStays ==
  ASSUME TypeOK, Quiet, clean' = clean,
         clean => /\ ls' \in {ls, SignedOff} /\ cookie' \in {cookie, 0}
                  /\ \A t \in Tabs : me'[t] \in {me[t], NotAsking}
                  /\ \A t \in Tabs : store[t].tok = 0 => store'[t].tok = 0
                  /\ \A s \in Slots : \/ reqs'[s] \in {Idle, reqs[s]}
                                      \/ Harmless(store', reqs'[s])
  PROVE  Quiet'
  <1> SUFFICES ASSUME clean PROVE Quiet'
    BY DEF Quiet
  <1>1. ls.tok = 0 /\ cookie = 0 /\ (\A t \in Tabs : me[t].st = "idle") /\ AllHarmless
    BY DEF Quiet
  <1>2. ls'.tok = 0 /\ cookie' = 0
    BY <1>1 DEF SignedOff, Profile
  <1>3. \A t \in Tabs : me'[t].st = "idle"
    BY <1>1 DEF NotAsking
  <1>4. AllHarmless'
    BY <1>1, HarmlessStays
  <1> QED BY <1>2, <1>3, <1>4 DEF Quiet

\* A request changes, and nothing else.
LEMMA QuietOnly ==
  ASSUME TypeOK, Quiet, NEW s \in Slots, NEW r, Only(s, r),
         clean => r = Idle \/ Harmless(store, r)
  PROVE  Quiet'
  <1>1. UNCHANGED <<ls, cookie, store, me, clean>>
    BY DEF Only, browser, rest
  <1>2. \A o \in Slots : reqs'[o] = IF o = s THEN r ELSE reqs[o]
    BY DEF Only, TypeOK
  <1> HIDE DEF Harmless, Idle
  <1>3. clean => \A o \in Slots : reqs'[o] \in {Idle, reqs[o]} \/ Harmless(store', reqs'[o])
    BY <1>1, <1>2
  <1> QED BY <1>1, <1>3, QuietStays

LEMMA HarmlessNow ==
  ASSUME Inductive, Quiet, clean, NEW s \in Slots, reqs[s] # Idle
  PROVE  reqs[s] \in Requests /\ Honest(reqs[s]) /\ Harmless(store, reqs[s])
  BY RequestAt DEF Quiet, AllHarmless, Inductive, AnswersAgree

\* The server serves no request without a token, and a sign-in or a save stays one.
LEMMA QuietServer ==
  ASSUME Inductive, Quiet, ServerStep
  PROVE  Quiet'
  <1>0. TypeOK
    BY DEF Inductive
  <1>1. ASSUME NEW s \in Slots, Refuse(s) PROVE Quiet'
    <2> DEFINE r == [reqs[s] EXCEPT !.st = "denied"]
    <2>1. reqs[s] # Idle /\ Only(s, r)
      BY <1>1 DEF Refuse, Only, At
    <2>2. clean => Harmless(store, r)
      BY <2>1, HarmlessNow, SetState DEF Harmless
    <2> HIDE DEF r
    <2> QED BY <1>0, <2>1, <2>2, QuietOnly
  <1>2. ASSUME NEW s \in Slots, ServeSave(s) PROVE Quiet'
    <2> DEFINE who == IF reqs[s].kind = "save" THEN claim[reqs[s].sent].user ELSE NoUser
               r == [reqs[s] EXCEPT !.st = "ok", !.user = who]
    <2>1. /\ reqs[s] # Idle /\ Only(s, r) /\ reqs[s].sent # 0
          /\ reqs[s].kind \in {"save", "modules"}
      BY <1>2 DEF ServeSave, Only, At, Rejects
    <2>2. reqs[s] \in Requests => r.kind = reqs[s].kind /\ r.tab = reqs[s].tab
      BY DEF Requests
    <2>3. clean => Harmless(store, r)
      <3>1. clean => reqs[s] \in Requests /\ store[reqs[s].tab].tok = 0
        BY <2>1, HarmlessNow DEF Harmless
      <3> HIDE DEF r
      <3> QED BY <2>1, <2>2, <3>1 DEF Harmless
    <2> HIDE DEF r
    <2> QED BY <1>0, <2>1, <2>3, QuietOnly
  <1>3. ASSUME NEW s \in Slots, ServeRefresh(s) PROVE Quiet'
    <2> DEFINE u == claim[reqs[s].sent].user
               r == [reqs[s] EXCEPT !.st = "ok", !.user = u, !.org = active[u]]
    <2>1. reqs[s] # Idle /\ Only(s, r) /\ reqs[s].sent # 0 /\ reqs[s].kind = "refresh"
      BY <1>3 DEF ServeRefresh, Only, At, Rejects
    <2>2. ~clean
      BY <2>1, HarmlessNow DEF Harmless
    <2> HIDE DEF r
    <2> QED BY <1>0, <2>1, <2>2, QuietOnly
  <1>4. ASSUME NEW s \in Slots, BuildAuthProfile(s) PROVE Quiet'
    <2> DEFINE r == [reqs[s] EXCEPT !.st = "ok", !.org = active[reqs[s].user]]
    <2>1. reqs[s] # Idle /\ Only(s, r) /\ reqs[s].st = "issued"
      BY <1>4 DEF BuildAuthProfile, Only, At
    <2>2. clean => reqs[s] \in Requests /\ reqs[s].kind = "login"
      BY <2>1, HarmlessNow DEF Harmless, Honest, HonestBy, BringsToken
    <2>3. reqs[s] \in Requests => r.kind = reqs[s].kind
      BY DEF Requests
    <2>4. clean => Harmless(store, r)
      BY <2>2, <2>3 DEF Harmless
    <2> HIDE DEF r
    <2> QED BY <1>0, <2>1, <2>4, QuietOnly
  <1>5. ASSUME NEW s \in Slots, NEW u, NEW org, IssueToken(s, u, org),
               clean => reqs[s] \in Requests /\ reqs[s].kind = "login"
        PROVE  Quiet'
    <2> DEFINE r == [reqs[s] EXCEPT !.st = "issued", !.tok = NewToken, !.user = u]
    <2>1. /\ reqs' = [reqs EXCEPT ![s] = r]
          /\ UNCHANGED <<ls, cookie, store, me, clean>>
      BY <1>5 DEF IssueToken, browser, rest
    <2>2. clean => r.kind = "login"
      BY <1>5 DEF Requests
    <2>3. clean => Harmless(store', r)
      BY <2>2 DEF Harmless
    <2>4. \A o \in Slots : reqs'[o] = IF o = s THEN r ELSE reqs[o]
      BY <1>0, <2>1 DEF TypeOK
    <2> HIDE DEF r, Harmless, Idle
    <2>5. clean => \A o \in Slots : reqs'[o] \in {Idle, reqs[o]} \/ Harmless(store', reqs'[o])
      BY <2>3, <2>4
    <2> QED BY <1>0, <2>1, <2>5, QuietStays
  <1>6. ASSUME NEW s \in Slots, ServeOrganization(s) PROVE Quiet'
    <2>1. /\ reqs[s] # Idle /\ reqs[s].sent # 0 /\ reqs[s].kind \in {"switch", "found"}
          /\ IssueToken(s, claim[reqs[s].sent].user, reqs[s].org)
      BY <1>6 DEF ServeOrganization, At, Rejects
    <2>2. ~clean
      BY <2>1, HarmlessNow DEF Harmless
    <2> QED BY <1>5, <2>1, <2>2
  <1>7. ASSUME NEW s \in Slots, NEW u \in Users, ServeLogin(s, u) PROVE Quiet'
    <2>1. reqs[s] # Idle /\ reqs[s].kind = "login" /\ IssueToken(s, u, active[u])
      BY <1>7 DEF ServeLogin, At
    <2>2. reqs[s] \in Requests
      BY <1>0, <2>1, RequestAt
    <2> QED BY <1>5, <2>1, <2>2
  <1>8. ASSUME (\E t \in Tabs : AnswerMe(t)) \/ (\E n \in Issued : Expire(n)) PROVE Quiet'
    <2>1. UNCHANGED <<ls, cookie, store, reqs, clean>>
      BY <1>8 DEF AnswerMe, Expire, browser, rest
    <2>2. clean => me' = me
      BY <1>8 DEF AnswerMe, Expire, Quiet
    <2> QED BY <1>0, <2>1, <2>2, QuietStays
  <1> QED BY <1>1, <1>2, <1>3, <1>4, <1>6, <1>7, <1>8 DEF ServerStep

\* Whoever is signed out asks without a token; a clean sign-out begins the quiet.
LEMMA QuietPerson ==
  ASSUME Inductive, Quiet, PersonStep
  PROVE  Quiet'
  <1>0. TypeOK
    BY DEF Inductive
  <1>1. PICK t \in Tabs : \/ Logout(t) \/ Reload(t) \/ Turn(t)
                          \/ \E to \in Pages : Click(t, to)
                          \/ SubmitLogin(t) \/ SaveProfile(t) \/ SaveModules(t)
                          \/ \E org \in Orgs : Switch(t, org) \/ Found(t, org)
    BY DEF PersonStep
  <1>2. CASE Turn(t) \/ Reload(t) \/ \E to \in Pages : Click(t, to)
    <2>1. UNCHANGED <<ls, cookie, store, me, reqs, clean>>
      BY <1>2 DEF Turn, Reload, Click, browser
    <2> QED BY <1>0, <2>1, QuietStays
  <1>3. CASE Logout(t)
    <2>1. /\ ls' = SignedOff /\ cookie' = 0 /\ store' = [store EXCEPT ![t] = SignedOff]
          /\ UNCHANGED <<me, reqs>>
          /\ clean' => /\ \A o \in Tabs : me[o].st = "idle"
                       /\ \A s \in Slots : reqs[s] # Idle =>
                             reqs[s].tab = t /\ reqs[s].kind \in {"save", "modules"}
      BY <1>3 DEF Logout
    <2>2. store'[t].tok = 0 /\ ls'.tok = 0
      BY <1>0, <2>1 DEF SignedOff, Profile, TypeOK
    <2>3. clean' => AllHarmless'
      BY <2>1, <2>2 DEF AllHarmless, Harmless
    <2> QED BY <2>1, <2>2, <2>3 DEF Quiet
  <1>4. ASSUME NEW kind, NEW pages, NEW org, Ask(t, kind, pages, org) PROVE Quiet'
    <2> DEFINE r == Request(t, kind, ls.tok, org)
    <2>1. PICK s \in Slots : reqs' = [reqs EXCEPT ![s] = r]
      BY <1>4 DEF Ask, Send
    <2>2. UNCHANGED <<ls, cookie, store, me, clean>>
      BY <1>4 DEF Ask, browser
    <2>3. clean => Harmless(store', r)
      BY DEF Quiet, Harmless, Request
    <2>4. \A o \in Slots : reqs'[o] = IF o = s THEN r ELSE reqs[o]
      BY <1>0, <2>1 DEF TypeOK
    <2> HIDE DEF r, Harmless, Idle
    <2>5. clean => \A o \in Slots : reqs'[o] \in {Idle, reqs[o]} \/ Harmless(store', reqs'[o])
      BY <2>3, <2>4
    <2> QED BY <1>0, <2>2, <2>5, QuietStays
  <1>5. CASE \/ SubmitLogin(t) \/ SaveProfile(t) \/ SaveModules(t)
             \/ \E org \in Orgs : Switch(t, org) \/ Found(t, org)
    BY <1>4, <1>5 DEF SubmitLogin, SaveProfile, SaveModules, Switch, Found
  <1> QED BY <1>1, <1>2, <1>3, <1>5

\* A tab without a stored token stores none, and asks no one who it is.
LEMMA QuietTab ==
  ASSUME Inductive, Quiet, NEW t \in Tabs, TabStep(t)
  PROVE  Quiet'
  <1>0. TypeOK /\ clean' = clean
    BY DEF Inductive, TabStep, LoadDocument, Navigate, CheckToken, PollDenied, MeFailed,
           MeAnswered, rest
  <1>1. clean => ls.tok = 0 /\ cookie = 0 /\ me[t].st = "idle"
    BY DEF Quiet
  <1>2. CASE LoadDocument(t) \/ Navigate(t)
    <2>1. clean => /\ UNCHANGED <<ls, cookie>>
                   /\ me' = [me EXCEPT ![t] = NotAsking]
      BY <1>1, <1>2 DEF LoadDocument, Navigate, ShellEffect, LeaveShell, browser
    <2>2. PICK auth \in {ls, SignedOff, store[t]} : store' = [store EXCEPT ![t] = auth]
      BY <1>0, <1>2 DEF LoadDocument, Navigate, TypeOK
    <2>3. clean => \A o \in Tabs : store[o].tok = 0 => store'[o].tok = 0
      BY <1>0, <1>1, <2>2 DEF TypeOK, SignedOff, Profile
    <2>4. \A s \in Slots : reqs'[s] \in {Idle, reqs[s]}
      BY <1>2 DEF LoadDocument, Navigate
    <2>5. clean => \A o \in Tabs : me'[o] \in {me[o], NotAsking}
      BY <1>0, <2>1 DEF TypeOK
    <2> QED BY <1>0, <2>1, <2>3, <2>4, <2>5, QuietStays
  <1>3. CASE CheckToken(t) \/ PollDenied(t)
    <2>1. ls' \in {ls, SignedOff} /\ UNCHANGED <<cookie, store, me, reqs>>
      BY <1>3 DEF CheckToken, PollDenied, SignOff, browser
    <2> QED BY <1>0, <2>1, QuietStays
  <1>4. CASE MeFailed(t) \/ MeAnswered(t)
    <2>1. ~clean
      BY <1>1, <1>4 DEF MeFailed, MeAnswered
    <2> QED BY <1>0, <2>1 DEF Quiet
  <1> QED BY <1>2, <1>3, <1>4 DEF TabStep

\* Only the answers to a sign-in and to a change of organization end the quiet,
\* and they say so.
LEMMA QuietAnswer ==
  ASSUME Inductive, Quiet, NEW s \in Slots, AnswerStep(s)
  PROVE  Quiet'
  <1>0. TypeOK
    BY DEF Inductive
  <1>1. CASE LoggedIn(s) \/ OrganizationAnswered(s)
    <2>1. clean' = FALSE
      BY <1>1 DEF LoggedIn, OrganizationAnswered
    <2> QED BY <2>1 DEF Quiet
  <1>2. CASE Failed(s)
    <2>1. Only(s, Idle)
      BY <1>2 DEF Failed, Done, Only
    <2> QED BY <1>0, <2>1, QuietOnly
  <1>3. CASE ModulesSaved(s)
    <2> DEFINE r == IF ls.tok = 0 THEN Idle ELSE Request(reqs[s].tab, "refresh", ls.tok, NoOrg)
    <2>1. Only(s, r)
      BY <1>3 DEF ModulesSaved, Only
    <2>2. clean => r = Idle
      BY DEF Quiet
    <2> HIDE DEF r
    <2> QED BY <1>0, <2>1, <2>2, QuietOnly
  <1>4. CASE Denied(s)
    <2>1. /\ ls' = SignedOff /\ UNCHANGED <<cookie, store, me, clean>>
          /\ reqs' = [reqs EXCEPT ![s] = Idle]
      BY <1>4 DEF Denied, SignOff, Done, rest
    <2>2. \A o \in Slots : reqs'[o] \in {Idle, reqs[o]}
      BY <1>0, <2>1 DEF TypeOK
    <2> QED BY <1>0, <2>1, <2>2, QuietStays
  <1>5. CASE Refreshed(s)
    <2>1. reqs[s] # Idle /\ reqs[s].kind = "refresh" /\ reqs[s].st = "ok" /\ clean' = clean
      BY <1>5 DEF Refreshed, At, rest
    <2>2. ~clean
      BY <2>1, HarmlessNow DEF Harmless
    <2> QED BY <2>1, <2>2 DEF Quiet
  <1>6. CASE ProfileSaved(s)
    <2>1. /\ reqs[s] # Idle /\ reqs[s].kind = "save" /\ reqs[s].st = "ok"
          /\ UNCHANGED <<me, clean>>
          /\ reqs' = [reqs EXCEPT ![s] = Idle]
      BY <1>6 DEF ProfileSaved, At, rest, Done
    <2>2. clean => store[reqs[s].tab].tok = 0
      BY <2>1, HarmlessNow DEF Harmless
    <2>3. clean => UNCHANGED <<ls, cookie, store>>
      BY <1>6, <2>2 DEF ProfileSaved, browser
    <2>4. \A o \in Slots : reqs'[o] \in {Idle, reqs[o]}
      BY <1>0, <2>1 DEF TypeOK
    <2> QED BY <1>0, <2>1, <2>3, <2>4, QuietStays
  <1> QED BY <1>1, <1>2, <1>3, <1>4, <1>5, <1>6 DEF AnswerStep

LEMMA QuietStep == Inductive /\ Quiet /\ [Next]_vars => Quiet'
  <1> SUFFICES ASSUME Inductive, Quiet, [Next]_vars PROVE Quiet'
    OBVIOUS
  <1>1. CASE UNCHANGED vars
    <2>1. UNCHANGED <<ls, cookie, store, me, reqs, clean>> /\ TypeOK
      BY <1>1 DEF vars, Inductive
    <2> QED BY <2>1, QuietStays
  <1> QED BY <1>1, QuietServer, QuietPerson, QuietTab, QuietAnswer DEF Next

\* Who signs out with nothing in flight that could write a session back is signed
\* out until the next sign-in, however the tabs, the answers to saves that were
\* under way and the refusals go on.
THEOREM SessionSignOutSticks == Spec => []SignOutSticks
  <1>1. Init => Quiet
    BY DEF Init, Quiet
  <1>2. Inductive /\ Quiet => SignOutSticks
    BY DEF Quiet, SignOutSticks
  <1> QED BY <1>1, <1>2, QuietStep, SessionInductive, PTL DEF Spec
=============================================================================
