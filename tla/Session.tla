------------------------------- MODULE Session -------------------------------
(***************************************************************************)
(* The signed-in session of one browser: localStorage and cookie, which    *)
(* all tabs share, the zustand store of each tab, the requests that carry  *)
(* the token or bring a new one, and the navigations that follow           *)
(* (apps/web: store.ts, api.ts, middleware.ts, AppShell.tsx, TopBar.tsx,   *)
(* the login, setup and settings pages).                                   *)
(*                                                                         *)
(* A token is the number of its issue; claim[n] is what it says.  Tabs run *)
(* in separate processes: between any two steps of one tab, or between a   *)
(* request and its answer, another tab may have rewritten localStorage.    *)
(***************************************************************************)
EXTENDS Naturals, Sequences

CONSTANTS Users, Orgs, Tabs, Slots,
          MaxTokens,    \* bound: tokens issued
          MaxActs,      \* bound: acts of the person at the browser
          Member0,      \* the memberships at the beginning
          NoUser, NoOrg

ASSUME SessionAssumption ==
    /\ MaxTokens \in Nat /\ MaxActs \in Nat
    /\ Member0 \in [Users -> SUBSET Orgs]
    /\ NoUser \notin Users
    /\ NoOrg \notin Orgs

VARIABLES
    \* the server
    claim,    \* claim[n]: user and organization of the n-th token
    dead,     \* tokens that have expired
    member,   \* member[u]: organizations u belongs to
    active,   \* active[u]: User.activeOrganizationId
    \* the browser
    ls,       \* localStorage 'token' and 'user'
    cookie,   \* the cookie 'token', 0 for none
    \* each tab
    page, next, store,
    check,    \* AppShell looks again whether there is a token
    me,       \* me[t]: AppShell's GET /users/me
    reqs,     \* other requests in flight
    shown,    \* the tabs that can be seen: hidden ones repeat no query
    acts,     \* what the person has done so far
    clean     \* history: signed out with nothing in flight that could undo it

server == <<claim, dead, member, active>>
browser == <<ls, cookie>>
rest == <<shown, acts, clean>>
vars == <<claim, dead, member, active, ls, cookie, page, next, store,
          check, me, reqs, shown, acts, clean>>

------------------------------------------------------------------------------
Tokens == 1..MaxTokens
Issued == DOMAIN claim
NewToken == Len(claim) + 1

\* What setAuth stores: a token and the profile it is stored with.  mixed is
\* history: a save sent while someone else was signed in gave the profile its name.
Auth == [tok : Nat, user : Users \union {NoUser}, org : Orgs \union {NoOrg}, mixed : BOOLEAN]
Profile(tok, user, org) == [tok |-> tok, user |-> user, org |-> org, mixed |-> FALSE]
SignedOff == Profile(0, NoUser, NoOrg)

\* "app" stands for all pages under AppShell.
Pages == {"login", "setup", "app"}

Stay == [to |-> "", hard |-> FALSE]
Navs == {Stay} \union [to : Pages, hard : BOOLEAN]

\* sent: the token a request carries; tok, user: the token it brings and whose;
\* org: the organization it asks for, then the one of the profile it brings.
Kinds == {"switch", "login", "found", "save", "modules", "refresh"}
Idle == [kind |-> "idle"]
Requests == [kind : Kinds, tab : Tabs, st : {"sent", "issued", "ok", "denied"}, sent : Nat,
             tok : Nat, user : Users \union {NoUser}, org : Orgs \union {NoOrg}]

NotAsking == [st |-> "idle", tok |-> 0, org |-> NoOrg]
Asks == [st : {"idle", "sent", "ok", "denied"}, tok : Nat, org : Orgs \union {NoOrg}]

------------------------------------------------------------------------------
\* Requests.
Request(t, kind, sent, org) ==
    [kind |-> kind, tab |-> t, st |-> "sent", sent |-> sent, tok |-> 0, user |-> NoUser,
     org |-> org]

\* The interceptor adds the token localStorage holds at that moment.
Send(t, kind, org) ==
    \E s \in Slots : /\ reqs[s] = Idle
                     /\ reqs' = [reqs EXCEPT ![s] = Request(t, kind, ls.tok, org)]

At(s, kinds, st) == reqs[s] # Idle /\ reqs[s].kind \in kinds /\ reqs[s].st = st

------------------------------------------------------------------------------
\* The server.
Rejects(tok) == tok = 0 \/ tok \in dead

Issue(u, org) == claim' = Append(claim, [user |-> u, org |-> org])

Refuse(s) ==
    /\ At(s, Kinds \ {"login"}, "sent") /\ Rejects(reqs[s].sent)
    /\ reqs' = [reqs EXCEPT ![s].st = "denied"]
    /\ UNCHANGED <<server, browser, page, next, store, check, me, rest>>

\* GET /users/me: the profile names the active organization of the person.
AnswerMe(t) ==
    /\ me[t].st = "sent"
    /\ me' = IF Rejects(me[t].tok) THEN [me EXCEPT ![t].st = "denied"]
             ELSE [me EXCEPT ![t].st = "ok", ![t].org = active[claim[me[t].tok].user]]
    /\ UNCHANGED <<server, browser, page, next, store, check, reqs, rest>>

ServeRefresh(s) ==
    /\ At(s, {"refresh"}, "sent") /\ ~Rejects(reqs[s].sent)
    /\ LET u == claim[reqs[s].sent].user IN
       reqs' = [reqs EXCEPT ![s] = [@ EXCEPT !.st = "ok", !.user = u, !.org = active[u]]]
    /\ UNCHANGED <<server, browser, page, next, store, check, me, rest>>

\* PATCH /users/me answers with the person of the request's token, and nothing of
\* their organizations; PATCH /organizations/workspace/modules with no one.
ServeSave(s) ==
    /\ At(s, {"save", "modules"}, "sent") /\ ~Rejects(reqs[s].sent)
    /\ LET who == IF reqs[s].kind = "save" THEN claim[reqs[s].sent].user ELSE NoUser IN
       reqs' = [reqs EXCEPT ![s] = [@ EXCEPT !.st = "ok", !.user = who]]
    /\ UNCHANGED <<server, browser, page, next, store, check, me, rest>>

IssueToken(s, u, org) ==
    /\ NewToken \in Tokens
    /\ Issue(u, org)
    /\ reqs' = [reqs EXCEPT ![s] = [@ EXCEPT !.st = "issued", !.tok = NewToken, !.user = u]]
    /\ UNCHANGED <<dead, browser, page, next, store, check, me, rest>>

\* POST /organizations and /organizations/join, PATCH /users/me/active-organization
ServeOrganization(s) ==
    /\ At(s, {"switch", "found"}, "sent") /\ ~Rejects(reqs[s].sent)
    /\ LET u == claim[reqs[s].sent].user
           org == reqs[s].org IN
       /\ reqs[s].kind = "switch" => org \in member[u]
       /\ member' = [member EXCEPT ![u] = @ \union {org}]
       /\ active' = [active EXCEPT ![u] = org]
       /\ IssueToken(s, u, org)

ServeLogin(s, u) ==
    /\ At(s, {"login"}, "sent")
    /\ IssueToken(s, u, active[u])
    /\ UNCHANGED <<member, active>>

\* The user is read again for the profile, after the token was made.
BuildAuthProfile(s) ==
    /\ At(s, Kinds, "issued")
    /\ reqs' = [reqs EXCEPT ![s].st = "ok", ![s].org = active[reqs[s].user]]
    /\ UNCHANGED <<server, browser, page, next, store, check, me, rest>>

Expire(n) ==
    /\ n \in Issued \ dead
    /\ dead' = dead \union {n}
    /\ UNCHANGED <<claim, member, active, browser, page, next, store, check, me, reqs, rest>>

------------------------------------------------------------------------------
\* Parts of the browser's steps.
SetAuth(t, auth) ==
    /\ ls' = auth
    /\ cookie' = auth.tok
    /\ store' = [store EXCEPT ![t] = auth]

\* router.push waits for the server; a document navigation is not taken back.
Push(t, to) == next' = [next EXCEPT ![t] = IF @.hard THEN @ ELSE [to |-> to, hard |-> FALSE]]
Href(t, to) == next' = [next EXCEPT ![t] = [to |-> to, hard |-> TRUE]]

BugSignOff(t) == ls' = SignedOff /\ UNCHANGED next   \* no redirect after a 401

\* Where the middleware lets a request for a page end, by the cookie alone.
Middleware(to) ==
    IF to = "login" THEN "login"
    ELSE IF Rejects(cookie) THEN "login"
    ELSE IF claim[cookie].org = NoOrg THEN "setup"
    ELSE to

Home(org) == IF org = NoOrg THEN "setup" ELSE "app"

\* AppShell's first effect, on mount and whenever the path changes.
ShellEffect(t) ==
    IF ls.tok = 0
    THEN /\ check' = [check EXCEPT ![t] = TRUE]
         /\ me' = [me EXCEPT ![t] = NotAsking]
         /\ UNCHANGED browser
    ELSE /\ check' = [check EXCEPT ![t] = FALSE]
         /\ me' = [me EXCEPT ![t] = [NotAsking EXCEPT !.st = "sent", !.tok = ls.tok]]
         /\ cookie' = ls.tok
         /\ UNCHANGED ls

LeaveShell(t) ==
    /\ me' = [me EXCEPT ![t] = NotAsking]
    /\ check' = [check EXCEPT ![t] = FALSE]
    /\ UNCHANGED browser

\* A new document: the middleware decides, and all of the tab's memory is gone.
LoadDocument(t) ==
    LET to == Middleware(next[t].to) IN
    /\ next[t].hard
    /\ page' = [page EXCEPT ![t] = to]
    /\ next' = [next EXCEPT ![t] = Stay]
    /\ reqs' = [s \in Slots |-> IF reqs[s] # Idle /\ reqs[s].tab = t THEN Idle ELSE reqs[s]]
    /\ IF to = "app"
       THEN store' = [store EXCEPT ![t] = ls] /\ ShellEffect(t)
       ELSE store' = [store EXCEPT ![t] = SignedOff] /\ LeaveShell(t)
    /\ UNCHANGED <<server, rest>>

\* A client-side navigation: AppShell stays, is mounted or unmounted.
Navigate(t) ==
    LET to == Middleware(next[t].to) IN
    /\ next[t] # Stay /\ ~next[t].hard
    /\ page' = [page EXCEPT ![t] = to]
    /\ next' = [next EXCEPT ![t] = Stay]
    /\ IF to = "app"
       THEN /\ store' = [store EXCEPT ![t] = IF ls.tok = 0 THEN @ ELSE ls]
            /\ ShellEffect(t)
       ELSE LeaveShell(t) /\ UNCHANGED store
    /\ UNCHANGED <<server, reqs, rest>>

\* Half a second after an effect that found no token.
CheckToken(t) ==
    /\ check[t]
    /\ check' = [check EXCEPT ![t] = FALSE]
    /\ IF ls.tok = 0 THEN Href(t, "login") ELSE UNCHANGED next
    /\ UNCHANGED <<server, browser, page, store, me, reqs, rest>>

------------------------------------------------------------------------------
\* What the person does.
Begin(t) == /\ t \in shown
            /\ next[t] = Stay
            /\ acts < MaxActs
            /\ acts' = acts + 1
            /\ UNCHANGED shown

\* Another tab, another window, or back to this one.
Turn(t) ==
    /\ shown' = IF t \in shown THEN shown \ {t} ELSE shown \union {t}
    /\ UNCHANGED <<server, browser, page, next, store, check, me, reqs, acts, clean>>

Click(t, to) ==
    /\ Begin(t) /\ page[t] # "login" /\ to # page[t] /\ to # "login"
    /\ Push(t, to)
    /\ UNCHANGED <<server, browser, page, store, check, me, reqs, clean>>

Reload(t) ==
    /\ Begin(t)
    /\ \E to \in Pages : Href(t, to)
    /\ UNCHANGED <<server, browser, page, store, check, me, reqs, clean>>

Ask(t, kind, pages, org) ==
    /\ Begin(t) /\ page[t] \in pages
    /\ Send(t, kind, org)
    /\ UNCHANGED <<server, browser, page, next, store, check, me, clean>>

SubmitLogin(t) == Ask(t, "login", {"login"}, NoOrg)
SaveProfile(t) == Ask(t, "save", {"app"}, NoOrg)
SaveModules(t) == Ask(t, "modules", {"app"}, NoOrg)
Found(t, org) == Ask(t, "found", {"setup"}, org)
\* The menu lists the organizations of the profile, which no save replaces.
Switch(t, org) ==
    /\ store[t].tok # 0 /\ org # store[t].org /\ org \in member[claim[store[t].tok].user]
    /\ Ask(t, "switch", {"app"}, org)

\* Signing out: a page of another tab may still write its session back, and a
\* page of this one whose answer brings a token or a profile.
Logout(t) ==
    /\ Begin(t) /\ page[t] # "login"
    /\ ls' = SignedOff
    /\ cookie' = 0
    /\ store' = [store EXCEPT ![t] = SignedOff]
    /\ Push(t, "login")
    /\ clean' = /\ \A o \in Tabs : me[o].st = "idle"
                /\ \A s \in Slots : reqs[s] # Idle =>
                      reqs[s].tab = t /\ reqs[s].kind \in {"save", "modules"}
    /\ UNCHANGED <<server, page, check, me, reqs>>

------------------------------------------------------------------------------
\* Answers.  A denied request signs the browser off, whoever is signed in by
\* then (api.ts).  The profile kept next to a token that is gone is not read.
Done(s) == reqs' = [reqs EXCEPT ![s] = Idle]

SignOff(t) == ls' = SignedOff /\ Href(t, "login")

Denied(s) ==
    /\ At(s, Kinds, "denied")
    /\ SignOff(reqs[s].tab)
    /\ Done(s)
    /\ UNCHANGED <<server, cookie, page, store, check, me, rest>>

\* The queries of the pages, repeated every 30 seconds by the sidebar of a tab
\* that is seen.  One that is answered late is like a save that is.
PollDenied(t) ==
    /\ page[t] = "app" /\ ~next[t].hard
    /\ Rejects(ls.tok)
    /\ SignOff(t)
    /\ UNCHANGED <<server, cookie, page, store, check, me, reqs, rest>>

\* Refused for another reason, not answered within 15 seconds or at all, before
\* or after it took effect: the page shows it and goes on.
Failed(s) ==
    /\ reqs[s] # Idle /\ reqs[s].st \in {"sent", "issued"}
    /\ Done(s)
    /\ UNCHANGED <<server, browser, page, next, store, check, me, rest>>

\* AppShell takes every failure, and no answer, for the end of the session.
MeFailed(t) ==
    /\ me[t].st \in {"sent", "denied"}
    /\ SignOff(t)
    /\ cookie' = 0
    /\ me' = [me EXCEPT ![t] = NotAsking]
    /\ UNCHANGED <<server, page, store, check, reqs, rest>>

\* The profile is stored with the token it was asked with.
MeAnswered(t) ==
    /\ me[t].st = "ok"
    /\ SetAuth(t, Profile(me[t].tok, claim[me[t].tok].user, me[t].org))
    /\ IF me[t].org = NoOrg THEN Push(t, "setup") ELSE UNCHANGED next
    /\ me' = [me EXCEPT ![t] = NotAsking]
    /\ UNCHANGED <<server, page, check, reqs, rest>>

Refreshed(s) ==
    LET r == reqs[s] IN
    /\ At(s, {"refresh"}, "ok")
    /\ SetAuth(r.tab, Profile(r.sent, r.user, r.org))
    /\ Done(s)
    /\ UNCHANGED <<server, page, next, check, me, rest>>

\* The login page writes what setAuth writes, but has no store.
LoggedIn(s) ==
    LET r == reqs[s] IN
    /\ At(s, {"login"}, "ok")
    /\ ls' = Profile(r.tok, r.user, r.org)
    /\ cookie' = r.tok
    /\ Href(r.tab, Home(r.org))
    /\ clean' = FALSE
    /\ Done(s)
    /\ UNCHANGED <<server, page, store, check, me, shown, acts>>

OrganizationAnswered(s) ==
    LET r == reqs[s] IN
    /\ At(s, {"switch", "found"}, "ok")
    /\ SetAuth(r.tab, Profile(r.tok, r.user, r.org))
    /\ IF r.kind = "switch" THEN Href(r.tab, page[r.tab]) ELSE Push(r.tab, Home(r.org))
    /\ clean' = FALSE
    /\ Done(s)
    /\ UNCHANGED <<server, page, check, me, shown, acts>>

BugMerge(t, r) ==   \* with the token that is stored by now
    SetAuth(t, [store[t] EXCEPT !.tok = ls.tok, !.user = r.user])

\* The person of the answer over the profile of the tab, with the tab's token:
\* {...u, ...data}.
Merge(t, r) ==
    SetAuth(t, [store[t] EXCEPT !.user = r.user,
                                !.mixed = claim[r.sent].user # claim[store[t].tok].user])

\* The settings page, after the name, the address or the picture was saved.
ProfileSaved(s) ==
    LET t == reqs[s].tab IN
    /\ At(s, {"save"}, "ok")
    /\ IF store[t].tok # 0 THEN Merge(t, reqs[s]) ELSE UNCHANGED <<browser, store>>
    /\ Done(s)
    /\ UNCHANGED <<server, page, next, check, me, rest>>

BugModulesSaved(s) ==   \* asks again with the token it has
    /\ At(s, {"modules"}, "ok")
    /\ reqs' = [reqs EXCEPT ![s] = Request(@.tab, "refresh", @.sent, NoOrg)]
    /\ UNCHANGED <<server, browser, page, next, store, check, me, rest>>

\* After the modules or the appearance were saved the profile is read again.
ModulesSaved(s) ==
    /\ At(s, {"modules"}, "ok")
    /\ reqs' = [reqs EXCEPT ![s] = IF ls.tok = 0 THEN Idle
                                   ELSE Request(@.tab, "refresh", ls.tok, NoOrg)]
    /\ UNCHANGED <<server, browser, page, next, store, check, me, rest>>

------------------------------------------------------------------------------
Init ==
    /\ claim = << >>
    /\ dead = {}
    /\ member = Member0
    /\ active \in [Users -> Orgs \union {NoOrg}]
    /\ \A u \in Users : IF member[u] = {} THEN active[u] = NoOrg ELSE active[u] \in member[u]
    /\ ls = SignedOff
    /\ cookie = 0
    /\ page = [t \in Tabs |-> "login"]
    /\ next = [t \in Tabs |-> Stay]
    /\ store = [t \in Tabs |-> SignedOff]
    /\ check = [t \in Tabs |-> FALSE]
    /\ me = [t \in Tabs |-> NotAsking]
    /\ reqs = [s \in Slots |-> Idle]
    /\ shown \in SUBSET Tabs
    /\ acts = 0
    /\ clean = FALSE

ServerStep ==
    \/ \E s \in Slots : \/ Refuse(s) \/ ServeRefresh(s) \/ ServeSave(s)
                       \/ ServeOrganization(s) \/ BuildAuthProfile(s)
                       \/ \E u \in Users : ServeLogin(s, u)
    \/ \E t \in Tabs : AnswerMe(t)
    \/ \E n \in Issued : Expire(n)

PersonStep ==
    \E t \in Tabs :
        \/ Turn(t)
        \/ SubmitLogin(t) \/ SaveProfile(t) \/ SaveModules(t) \/ Logout(t) \/ Reload(t)
        \/ \E to \in Pages : Click(t, to)
        \/ \E org \in Orgs : Switch(t, org) \/ Found(t, org)

TabStep(t) == \/ LoadDocument(t) \/ Navigate(t) \/ CheckToken(t)
              \/ PollDenied(t) \/ MeFailed(t) \/ MeAnswered(t)

AnswerStep(s) == \/ Denied(s) \/ Failed(s) \/ Refreshed(s) \/ LoggedIn(s)
                 \/ OrganizationAnswered(s) \/ ProfileSaved(s) \/ ModulesSaved(s)

Next == \/ ServerStep
        \/ PersonStep
        \/ \E t \in Tabs : TabStep(t)
        \/ \E s \in Slots : AnswerStep(s)

Spec == Init /\ [][Next]_vars

\* A started navigation ends, and the sidebar of a tab that is seen repeats its
\* queries every 30 seconds, of a hidden one not (refetchIntervalInBackground is
\* not set); nothing is assumed of the person, the API or another timer.
Fairness ==
    \A t \in Tabs : WF_vars(LoadDocument(t)) /\ WF_vars(t \in shown /\ PollDenied(t))

------------------------------------------------------------------------------
\* The types of the variables.
TypeOK ==
    /\ claim \in Seq([user : Users, org : Orgs \union {NoOrg}])
    /\ dead \subseteq Issued
    /\ member \in [Users -> SUBSET Orgs]
    /\ active \in [Users -> Orgs \union {NoOrg}]
    /\ ls \in Auth /\ cookie \in Nat
    /\ page \in [Tabs -> Pages] /\ next \in [Tabs -> Navs]
    /\ store \in [Tabs -> Auth]
    /\ check \in [Tabs -> BOOLEAN] /\ me \in [Tabs -> Asks]
    /\ reqs \in [Slots -> Requests \union {Idle}]
    /\ shown \subseteq Tabs /\ acts \in 0..MaxActs /\ clean \in BOOLEAN

\* A stored token and the profile stored with it are of one person.
OnePerson(auth) ==
    auth.tok # 0 => /\ auth.tok \in Issued
                    /\ auth.mixed \/ auth.user = claim[auth.tok].user

\* The token and the profile next to it, in localStorage and in every tab's
\* store, are of one person, whichever tab, answer or page wrote them last,
\* except where a save was sent while another tab had signed someone else in
\* (settings/page.tsx:249, :297: that person's name then stands next to this
\* tab's token until the profile is read again); and the cookie the middleware
\* reads is the stored token.
StoresAgree ==
    /\ OnePerson(ls)
    /\ \A t \in Tabs : OnePerson(store[t])
    /\ ls.tok # 0 => cookie = ls.tok

\* Who signs out with no page elsewhere about to write its session back, and no
\* answer on its way that brings a token or a profile, is signed out until the
\* next sign-in: no late answer of the same page undoes it (TopBar.tsx).
SignOutSticks == clean => ls.tok = 0 /\ cookie = 0

\* Once the stored token is gone or has expired, by whatever tab or answer, no
\* tab that is seen stays on a page of the application: it leaves, unless someone
\* has signed in by then (api.ts's answer to a 401, which the sidebar's queries
\* run into).  A hidden tab may stay until it is seen again.
SignedOutTabsLeave ==
    \A t \in Tabs : (t \in shown /\ page[t] = "app" /\ Rejects(ls.tok))
                       ~> (t \notin shown \/ page[t] # "app" \/ ~Rejects(ls.tok))
=============================================================================
