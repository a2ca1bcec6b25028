------------------------------- MODULE Accounts -------------------------------
(* The account behind one e-mail address: registration, verification by a      *)
(* mailed link, resending that link, and password reset (auth.service.ts).     *)
(* Addresses do not interact: every lookup is by address or by a link's hash,  *)
(* and every write by the id read.                                             *)
(*                                                                             *)
(* Each database statement and each mail is a step of its own.  Time is the    *)
(* cooldown running out and links expiring, at any moment.  A mail may arrive  *)
(* although its sending was reported as failed, and the other way round.       *)
(*                                                                             *)
(* Password hashes are abstracted away, and with them changePassword; login is *)
(* in Workspace.  An account that takes another address (PATCH /users/me) is   *)
(* left out.                                                                   *)
EXTENDS Naturals, FiniteSets

CONSTANTS
    Ids,              \* account ids
    Links,            \* random tokens; bounds the links in use at one time
    Reqs,             \* request slots: how many handlers may be in flight
    MailConfigured,   \* isEmailOutboundConfigured()
    NoId, NoLink

ASSUME AccountsAssumption ==
    /\ NoId \notin Ids
    /\ NoLink \notin Links
    /\ MailConfigured \in BOOLEAN

VARIABLES
    id,       \* the User row with this address, NoId if there is none
    status,   \* emailVerifiedAt: "unverified" or "verified"; "none" without a row
    vLink,    \* emailVerificationTokenHash
    rLink,    \* passwordResetTokenHash
    cooling,  \* lastVerificationEmailSentAt is less than two minutes ago
    expired,  \* links whose hours are over
    inbox,    \* links the owner of the address can open
    req,      \* local state of the handlers in flight
    skip,     \* SKIP_EMAIL_VERIFICATION=true
    opened    \* history: accounts whose verification link was opened in time, or that
              \* registered while none was asked for

row == <<id, status, vLink, rLink, cooling>>
vars == <<id, status, vLink, rLink, cooling, expired, inbox, req, skip, opened>>

Idle == [op |-> "none", pc |-> "idle", id |-> NoId, link |-> NoLink]

Steps == {"idle", "hashed", "resend", "writeVerify", "verify", "writeReset", "send",
          "undo", "clear", "reset"}
Ops == {"none", "register", "resend", "verify", "forgot", "reset"}

Request == [op : Ops, pc : Steps, id : Ids \cup {NoId}, link : Links \cup {NoLink}]

At(r, pc) == req[r].pc = pc
Finish(r) == req' = [req EXCEPT ![r] = Idle]
Begin(r, op, pc, i) ==
    /\ At(r, "idle")
    /\ req' = [req EXCEPT ![r] = [op |-> op, pc |-> pc, id |-> i, link |-> NoLink]]

\* A fresh uuid and a fresh token: random, so never one still in use.
NewIds == Ids \ ({id} \cup {req[r].id : r \in Reqs})
NewLinks == Links \ ({vLink, rLink} \cup inbox \cup {req[r].link : r \in Reqs})

\* `update` and `delete` by the id read before: P2025 if that row is gone.
RowFound(r) == id # NoId /\ id = req[r].id

-----------------------------------------------------------------------------
\* POST /auth/register.  The row is read, the password hashed, and then what was
\* read decides.

RegisterRead(r) ==
    /\ status # "verified"
    /\ Begin(r, "register", "hashed", id)
    /\ UNCHANGED <<skip, row, expired, inbox, opened>>

Create(r, st, l) ==
    \E i \in NewIds :
        /\ id' = i /\ status' = st
        /\ vLink' = l /\ rLink' = NoLink
        /\ cooling' = (l # NoLink)
        /\ req' = [req EXCEPT ![r] = IF l = NoLink THEN Idle
                                     ELSE [@ EXCEPT !.pc = "send", !.id = i, !.link = l]]

\* No row was found: insert one.  Unique email: the loser of two registrations
\* fails.
RegisterCreate(r) ==
    /\ At(r, "hashed") /\ req[r].id = NoId
    /\ IF id # NoId \/ (~skip /\ ~MailConfigured)
       THEN Finish(r) /\ UNCHANGED <<row, expired, opened>>
       ELSE IF skip
            THEN /\ Create(r, "verified", NoLink)
                 /\ opened' = opened \cup {id'}
                 /\ UNCHANGED expired
            ELSE \E l \in NewLinks :
                 /\ Create(r, "unverified", l)
                 /\ expired' = expired \ {l}
                 /\ UNCHANGED opened
    /\ UNCHANGED <<skip, inbox>>

\* Bug: the unverified row that was found is registered afresh, whatever has
\* become of it.
BugRegisterAfresh(r) ==
    /\ At(r, "hashed") /\ req[r].id # NoId
    /\ IF RowFound(r)
       THEN \E l \in NewLinks :
              /\ vLink' = l /\ cooling' = TRUE /\ expired' = expired \ {l}
              /\ status' = "unverified"
              /\ req' = [req EXCEPT ![r].pc = "send", ![r].link = l]
       ELSE Finish(r) /\ UNCHANGED <<vLink, cooling, expired, status>>
    /\ UNCHANGED <<skip, id, rLink, inbox, opened>>

\* An unverified row was found: verify it where links are not asked for, else
\* do as POST /auth/resend-verification does.
RegisterAgain(r) ==
    /\ At(r, "hashed") /\ req[r].id # NoId
    /\ IF skip
       THEN /\ IF RowFound(r)
               THEN /\ status' = "verified" /\ vLink' = NoLink /\ cooling' = FALSE
                    /\ opened' = opened \cup {id}
               ELSE UNCHANGED <<status, vLink, cooling, opened>>
            /\ Finish(r)
       ELSE /\ IF MailConfigured
               THEN req' = [req EXCEPT ![r].op = "resend", ![r].pc = "resend", ![r].id = NoId]
               ELSE Finish(r)
            /\ UNCHANGED <<status, vLink, cooling, opened>>
    /\ UNCHANGED <<skip, id, rLink, expired, inbox>>

-----------------------------------------------------------------------------
\* POST /auth/resend-verification.

MayResend == status = "unverified" /\ MailConfigured /\ ~cooling

ResendRead(r) ==
    /\ \/ MayResend /\ Begin(r, "resend", "writeVerify", id)
       \/ /\ At(r, "resend")
          /\ IF MayResend
             THEN req' = [req EXCEPT ![r].pc = "writeVerify", ![r].id = id]
             ELSE Finish(r)
    /\ UNCHANGED <<skip, row, expired, inbox, opened>>

\* Bug: the new link inherits the end of the old one's 48 hours.
BugExpiryNotRenewed(r) ==
    /\ At(r, "writeVerify")
    /\ IF RowFound(r)
       THEN \E l \in NewLinks :
              /\ vLink' = l /\ cooling' = TRUE
              /\ expired' = IF vLink \in expired THEN expired \cup {l} ELSE expired \ {l}
              /\ req' = [req EXCEPT ![r].pc = "send", ![r].link = l]
       ELSE Finish(r) /\ UNCHANGED <<vLink, cooling, expired>>
    /\ UNCHANGED <<skip, id, status, rLink, inbox, opened>>

WriteVerifyLink(r) ==
    /\ At(r, "writeVerify")
    /\ IF RowFound(r)
       THEN \E l \in NewLinks :
              /\ vLink' = l /\ cooling' = TRUE /\ expired' = expired \ {l}
              /\ req' = [req EXCEPT ![r].pc = "send", ![r].link = l]
       ELSE Finish(r) /\ UNCHANGED <<vLink, cooling, expired>>
    /\ UNCHANGED <<skip, id, status, rLink, inbox, opened>>

-----------------------------------------------------------------------------
\* sendAuthTransactionalMail, and what each handler does with its verdict.

Failed(op) == CASE op = "register" -> "undo" [] op = "forgot" -> "clear"

Send(r, arrives, reported) ==
    /\ At(r, "send")
    /\ inbox' = IF arrives THEN inbox \cup {req[r].link} ELSE inbox
    /\ IF reported \/ req[r].op = "resend"
       THEN Finish(r)
       ELSE req' = [req EXCEPT ![r].pc = Failed(req[r].op)]
    /\ UNCHANGED <<skip, row, expired, opened>>

\* The registration is taken back.
RegisterUndo(r) ==
    /\ At(r, "undo")
    /\ IF RowFound(r)
       THEN /\ id' = NoId /\ status' = "none" /\ vLink' = NoLink /\ rLink' = NoLink
            /\ cooling' = FALSE /\ opened' = opened \ {id}
       ELSE UNCHANGED <<row, opened>>
    /\ Finish(r)
    /\ UNCHANGED <<skip, expired, inbox>>

-----------------------------------------------------------------------------
\* GET or POST /auth/verify-email.

VerifyRead(r, l) ==
    /\ l \in inbox /\ l = vLink /\ status = "unverified" /\ l \notin expired
    /\ Begin(r, "verify", "verify", id)
    /\ opened' = opened \cup {id}
    /\ UNCHANGED <<skip, row, expired, inbox>>

VerifyWrite(r) ==
    /\ At(r, "verify")
    /\ IF RowFound(r)
       THEN status' = "verified" /\ vLink' = NoLink
       ELSE UNCHANGED <<status, vLink>>
    /\ Finish(r)
    /\ UNCHANGED <<skip, id, rLink, cooling, expired, inbox, opened>>

-----------------------------------------------------------------------------
\* POST /auth/forgot-password and /auth/reset-password.

ForgotRead(r) ==
    /\ status = "verified" /\ MailConfigured
    /\ Begin(r, "forgot", "writeReset", id)
    /\ UNCHANGED <<skip, row, expired, inbox, opened>>

\* Bug: the update looks the row up by the address.
BugForgotByAddress(r) ==
    /\ At(r, "writeReset")
    /\ IF id # NoId
       THEN \E l \in NewLinks :
              /\ rLink' = l /\ expired' = expired \ {l}
              /\ req' = [req EXCEPT ![r].pc = "send", ![r].link = l]
       ELSE Finish(r) /\ UNCHANGED <<rLink, expired>>
    /\ UNCHANGED <<skip, id, status, vLink, cooling, inbox, opened>>

WriteResetLink(r) ==
    /\ At(r, "writeReset")
    /\ IF RowFound(r)
       THEN \E l \in NewLinks :
              /\ rLink' = l /\ expired' = expired \ {l}
              /\ req' = [req EXCEPT ![r].pc = "send", ![r].link = l]
       ELSE Finish(r) /\ UNCHANGED <<rLink, expired>>
    /\ UNCHANGED <<skip, id, status, vLink, cooling, inbox, opened>>

\* The mail was not sent: whatever reset link the row holds now is cleared.
ForgotClear(r) ==
    /\ At(r, "clear")
    /\ IF RowFound(r) THEN rLink' = NoLink ELSE UNCHANGED rLink
    /\ Finish(r)
    /\ UNCHANGED <<skip, id, status, vLink, cooling, expired, inbox, opened>>

ResetRead(r, l) ==
    /\ l \in inbox /\ l = rLink /\ l \notin expired
    /\ Begin(r, "reset", "reset", id)
    /\ UNCHANGED <<skip, row, expired, inbox, opened>>

\* The update also clears a link written since the read.
ResetWrite(r) ==
    /\ At(r, "reset")
    /\ IF RowFound(r) THEN rLink' = NoLink ELSE UNCHANGED rLink
    /\ Finish(r)
    /\ UNCHANGED <<skip, id, status, vLink, cooling, expired, inbox, opened>>

-----------------------------------------------------------------------------
\* The world: two minutes pass, hours pass, a mail is thrown away, the API
\* restarts.

CooldownOver ==
    /\ cooling
    /\ cooling' = FALSE
    /\ UNCHANGED <<skip, id, status, vLink, rLink, expired, inbox, req, opened>>

Expire(l) ==
    /\ l \in {vLink, rLink} \ ({NoLink} \cup expired)
    /\ expired' = expired \cup {l}
    /\ UNCHANGED <<skip, row, inbox, req, opened>>

Discard(l) ==
    /\ l \in inbox /\ (l \in {vLink, rLink} => l \in expired)
    /\ inbox' = inbox \ {l}
    /\ UNCHANGED <<skip, row, expired, req, opened>>

\* The setting is read from the environment: it may change with a redeploy.
Restart ==
    /\ \E r \in Reqs : ~At(r, "idle")
    /\ req' = [r \in Reqs |-> Idle]
    /\ skip' \in BOOLEAN
    /\ UNCHANGED <<row, expired, inbox, opened>>

-----------------------------------------------------------------------------
\* No account yet, or an unverified one whose first mail is long gone.
Init ==
    /\ \/ id = NoId /\ status = "none"
       \/ id \in Ids /\ status = "unverified"
    /\ vLink = NoLink /\ rLink = NoLink
    /\ cooling = FALSE
    /\ expired = {}
    /\ inbox = {}
    /\ req = [r \in Reqs |-> Idle]
    /\ skip \in BOOLEAN
    /\ opened = {}

RegisterStep(r) ==
    \/ RegisterRead(r) \/ RegisterCreate(r) \/ RegisterAgain(r) \/ RegisterUndo(r)
    \/ ResendRead(r) \/ WriteVerifyLink(r)
    \/ \E arrives, reported \in BOOLEAN : Send(r, arrives, reported)

VerifyStep(r) == (\E l \in Links : VerifyRead(r, l)) \/ VerifyWrite(r)

ResetStep(r) ==
    \/ ForgotRead(r) \/ WriteResetLink(r) \/ ForgotClear(r)
    \/ (\E l \in Links : ResetRead(r, l)) \/ ResetWrite(r)

World == CooldownOver \/ (\E l \in Links : Expire(l) \/ Discard(l)) \/ Restart

Next ==
    \/ \E r \in Reqs : RegisterStep(r) \/ VerifyStep(r) \/ ResetStep(r)
    \/ World

Spec == Init /\ [][Next]_vars

\* A request that no mail and no user holds up gets to its next statement again
\* and again although the API may restart; of the mails with a link that still
\* works one gets through again and again, of registrations and of resends; and
\* an owner who is not verified yet keeps registering, asking for the link and
\* opening the one that works.  Nothing is assumed of failing mails, of expiry or
\* of restarts: they may come in between.
Timely(r) == req[r].link \in {vLink} \ expired

Fairness ==
    /\ SF_vars(\E r \in Reqs : RegisterRead(r) \/ (At(r, "idle") /\ ResendRead(r)))
    /\ SF_vars(\E r \in Reqs : RegisterCreate(r))
    /\ SF_vars(\E r \in Reqs : RegisterAgain(r))
    /\ SF_vars(\E r \in Reqs : At(r, "resend") /\ ResendRead(r))
    /\ SF_vars(\E r \in Reqs : RowFound(r) /\ WriteVerifyLink(r))
    /\ SF_vars(\E r \in Reqs : req[r].op = "register" /\ Timely(r) /\ Send(r, TRUE, TRUE))
    /\ SF_vars(\E r \in Reqs : req[r].op = "resend" /\ Timely(r) /\ Send(r, TRUE, TRUE))
    /\ SF_vars(\E r \in Reqs, l \in Links : VerifyRead(r, l))
    /\ SF_vars(\E r \in Reqs : RowFound(r) /\ VerifyWrite(r))
    /\ WF_vars(\E r \in Reqs :
                  \/ RegisterUndo(r) \/ \E a, b \in BOOLEAN : Send(r, a, b)
                  \/ ~RowFound(r) /\ (WriteVerifyLink(r) \/ VerifyWrite(r))
                  \/ WriteResetLink(r) \/ ForgotClear(r) \/ ResetWrite(r))
    /\ WF_vars(CooldownOver)
    /\ WF_vars(\E l \in Links : Discard(l))

-----------------------------------------------------------------------------
TypeOK ==
    /\ id \in Ids \cup {NoId}
    /\ status \in {"none", "unverified", "verified"}
    /\ (status = "none") = (id = NoId)
    /\ vLink \in Links \cup {NoLink}
    /\ rLink \in Links \cup {NoLink}
    /\ cooling \in BOOLEAN
    /\ expired \subseteq Links
    /\ inbox \subseteq Links
    /\ req \in [Reqs -> Request]
    /\ skip \in BOOLEAN
    /\ opened \subseteq Ids

\* A verified account stays verified whatever stale request still writes to it;
\* it can only disappear by the hand of the registration that created it and
\* whose mail was reported as failed (auth.service.ts:249).
VerifiedIsForGood ==
    [][status = "verified" =>
        \/ id' = id /\ status' = "verified"
        \/ id' = NoId /\ \E r \in Reqs : At(r, "undo") /\ req[r].id = id]_vars

\* Only who opened a link made for this very account, or registered while none was
\* asked for, is verified: a request that read an account since taken back does
\* not touch the one registered after it.
VerifiedOpenedTheLink == status = "verified" => id \in opened

\* A reset link exists for verified accounts only (auth.service.ts:412), also
\* when the account the request read was replaced before the write.
ResetLinkOnlyForVerified == rLink # NoLink => status = "verified"

\* The handlers keep the promise of a registration by link, whatever they have
\* read before, however the mails are delayed and whatever is taken back.
Promise == INSTANCE OptIn WITH Accounts <- Ids, None <- NoId, account <- id,
                               confirmed <- (status = "verified"), shown <- opened
KeepsPromise == Promise!Spec

\* An owner who keeps trying ends with a verified account: no order of requests,
\* failed mails, expiries and restarts leaves the address stuck.
EventuallyVerified == <>[](status = "verified")
=============================================================================
