---------------------------- MODULE AccountsProofs ----------------------------
(***************************************************************************)
(* What a request read of the account is still good when it writes, unless *)
(* the account has been replaced, and then the write finds no row: for any *)
(* number of requests, accounts and links.                                 *)
(***************************************************************************)
EXTENDS Accounts, TLAPS

\* Whose statement a request is at, and that it has a link where one is mailed.
OpFits(q) ==
    /\ q.pc = "hashed" => q.op = "register"
    /\ q.pc \in {"resend", "writeVerify"} => q.op = "resend"
    /\ q.pc = "writeReset" => q.op = "forgot"
    /\ q.pc = "send" => q.op \in {"register", "resend", "forgot"} /\ q.link \in Links

\* A request about to verify an account read one whose link was opened, and a
\* request about to write a reset link read a verified one.
RequestsHonest ==
    \A r \in Reqs :
       /\ OpFits(req[r])
       /\ At(r, "verify") => req[r].id # NoId /\ (req[r].id = id => id \in opened)
       /\ At(r, "writeReset") => req[r].id # NoId /\ (req[r].id = id => status = "verified")

Inductive == TypeOK /\ VerifiedOpenedTheLink /\ ResetLinkOnlyForVerified /\ RequestsHonest

LEMMA InitInductive == Init => Inductive
  <1> SUFFICES ASSUME Init PROVE Inductive
    OBVIOUS
  <1>1. Idle \in Request /\ Idle.pc = "idle"
    BY DEF Idle, Request, Ops, Steps
  <1>2. (status = "none") = (id = NoId)
    BY AccountsAssumption DEF Init
  <1>3. TypeOK
    BY <1>1, <1>2 DEF Init, TypeOK
  <1>4. RequestsHonest
    BY <1>1 DEF Init, RequestsHonest, At, OpFits
  <1> QED BY <1>3, <1>4 DEF Init, Inductive, VerifiedOpenedTheLink, ResetLinkOnlyForVerified

\* The request in slot r comes to hold q, and nobody else's changes.
LEMMA OneRequest ==
  ASSUME Inductive, NEW r \in Reqs, NEW q \in Request, req' = [req EXCEPT ![r] = q],
         q.pc \notin {"verify", "writeReset"}, OpFits(q),
         opened \subseteq opened', id' = id, status = "verified" => status' = "verified"
  PROVE  req' \in [Reqs -> Request] /\ RequestsHonest'
  <1>1. req \in [Reqs -> Request]
    BY DEF Inductive, TypeOK
  <1>2. req' \in [Reqs -> Request] /\ req'[r] = q /\ \A p \in Reqs \ {r} : req'[p] = req[p]
    BY <1>1
  <1> QED BY <1>2 DEF Inductive, RequestsHonest, At

LEMMA IdleRequest == Idle \in Request /\ Idle.pc = "idle" /\ OpFits(Idle)
  BY DEF Idle, Request, Ops, Steps, OpFits

\* What Begin puts in the slot.
LEMMA BegunRequest ==
  ASSUME NEW op \in Ops, NEW pc \in Steps, NEW i \in Ids \cup {NoId}
  PROVE  LET q == [op |-> op, pc |-> pc, id |-> i, link |-> NoLink] IN
         q \in Request /\ q.pc = pc /\ q.op = op /\ q.id = i
  BY DEF Request

LEMMA RequestOf ==
  ASSUME Inductive, NEW r \in Reqs
  PROVE  req[r] \in Request /\ req[r].id \in Ids \cup {NoId} /\ req[r].op \in Ops
  BY DEF Inductive, TypeOK, Request

\* The account as a whole is left alone.
LEMMA AccountStays ==
  ASSUME Inductive, UNCHANGED <<row, opened>>, req' \in [Reqs -> Request], RequestsHonest',
         expired' \subseteq Links, inbox' \subseteq Links, skip' \in BOOLEAN
  PROVE  Inductive'
  BY DEF Inductive, TypeOK, VerifiedOpenedTheLink, ResetLinkOnlyForVerified, row

LEMMA EndsKeep ==
  ASSUME Inductive, NEW r \in Reqs, Finish(r), UNCHANGED <<row, opened>>
  PROVE  req' \in [Reqs -> Request] /\ RequestsHonest'
  BY OneRequest, IdleRequest DEF Finish, row

LEMMA BeginsKeep ==
  ASSUME Inductive, NEW r \in Reqs, NEW op \in Ops, NEW pc \in Steps \ {"verify", "writeReset", "send"},
         pc = "hashed" => op = "register",
         pc \in {"resend", "writeVerify"} => op = "resend", Begin(r, op, pc, id), UNCHANGED <<row, opened>>
  PROVE  req' \in [Reqs -> Request] /\ RequestsHonest'
  <1>1. id \in Ids \cup {NoId}
    BY DEF Inductive, TypeOK
  <1> DEFINE q == [op |-> op, pc |-> pc, id |-> id, link |-> NoLink]
  <1>2. q \in Request /\ q.pc = pc /\ q.op = op
    BY <1>1, BegunRequest
  <1>3. req' = [req EXCEPT ![r] = q]
    BY DEF Begin
  <1> HIDE DEF q
  <1>4. OpFits(q)
    BY <1>2 DEF OpFits
  <1> QED BY <1>2, <1>3, <1>4, OneRequest DEF row

LEMMA RegisterReadKeeps ==
  ASSUME Inductive, NEW r \in Reqs, RegisterRead(r) PROVE Inductive'
  <1>1. UNCHANGED <<row, opened>> /\ UNCHANGED <<skip, expired, inbox>>
        /\ Begin(r, "register", "hashed", id)
    BY DEF RegisterRead
  <1>2. req' \in [Reqs -> Request] /\ RequestsHonest'
    BY <1>1, BeginsKeep DEF Ops, Steps
  <1> QED BY <1>1, <1>2, AccountStays DEF Inductive, TypeOK

\* A new account has an id no request has read.
LEMMA CreateKeeps ==
  ASSUME Inductive, NEW r \in Reqs, id = NoId, NEW l \in Links \cup {NoLink},
         NEW st \in {"unverified", "verified"}, Create(r, st, l),
         req[r].op = "register", opened \subseteq opened', opened' \subseteq Ids,
         st = "verified" => id' \in opened',
         expired' \subseteq Links, UNCHANGED <<skip, inbox>>
  PROVE  Inductive'
  <1>1. PICK i \in NewIds :
           /\ id' = i /\ status' = st /\ vLink' = l /\ rLink' = NoLink /\ cooling' = (l # NoLink)
           /\ req' = [req EXCEPT ![r] = IF l = NoLink THEN Idle
                                        ELSE [@ EXCEPT !.pc = "send", !.id = i, !.link = l]]
    BY DEF Create
  <1> DEFINE q == IF l = NoLink THEN Idle
                  ELSE [req[r] EXCEPT !.pc = "send", !.id = i, !.link = l]
  <1>2. i \in Ids /\ \A p \in Reqs : req[p].id # i
    BY <1>1 DEF NewIds
  <1>3. q \in Request /\ q.pc \in {"idle", "send"} /\ (q.pc = "send" => q.op = "register" /\ q.link \in Links)
    <2>1. req[r] \in Request
      BY RequestOf
    <2> QED BY <1>2, <2>1 DEF Request, Idle, Ops, Steps
  <1>4. req' = [req EXCEPT ![r] = q]
    BY <1>1
  <1> HIDE DEF q
  <1>5. req' \in [Reqs -> Request] /\ req'[r] = q /\ \A p \in Reqs \ {r} : req'[p] = req[p]
    BY <1>3, <1>4 DEF Inductive, TypeOK
  <1>6. RequestsHonest'
    <2>1. OpFits(q)
      BY <1>3 DEF OpFits
    <2> QED BY <1>1, <1>2, <1>3, <1>5, <2>1 DEF Inductive, RequestsHonest, At
  <1>7. TypeOK'
    BY <1>1, <1>2, <1>5, AccountsAssumption DEF Inductive, TypeOK
  <1>8. VerifiedOpenedTheLink' /\ ResetLinkOnlyForVerified'
    BY <1>1 DEF VerifiedOpenedTheLink, ResetLinkOnlyForVerified
  <1> QED BY <1>6, <1>7, <1>8 DEF Inductive

LEMMA RegisterCreateKeeps ==
  ASSUME Inductive, NEW r \in Reqs, RegisterCreate(r) PROVE Inductive'
  <1>1. At(r, "hashed") /\ req[r].op = "register" /\ UNCHANGED <<skip, inbox>>
    BY DEF RegisterCreate, Inductive, RequestsHonest, OpFits, At
  <1>2. CASE id # NoId \/ (~skip /\ ~MailConfigured)
    <2>1. Finish(r) /\ UNCHANGED <<row, expired, opened>>
      BY <1>2 DEF RegisterCreate
    <2>2. req' \in [Reqs -> Request] /\ RequestsHonest'
      BY <2>1, EndsKeep
    <2> QED BY <1>1, <2>1, <2>2, AccountStays DEF Inductive, TypeOK
  <1>3. CASE id = NoId /\ skip
    <2>1. Create(r, "verified", NoLink) /\ opened' = opened \cup {id'} /\ UNCHANGED expired
      BY <1>3 DEF RegisterCreate
    <2>2. id' \in Ids
      BY <2>1 DEF Create, NewIds
    <2> QED BY <1>1, <1>3, <2>1, <2>2, CreateKeeps DEF Inductive, TypeOK
  <1>4. CASE id = NoId /\ ~skip /\ MailConfigured
    <2>1. PICK l \in NewLinks : Create(r, "unverified", l) /\ expired' = expired \ {l}
                                /\ UNCHANGED opened
      BY <1>4 DEF RegisterCreate
    <2>2. l \in Links \cup {NoLink}
      BY DEF NewLinks
    <2> QED BY <1>1, <1>4, <2>1, <2>2, CreateKeeps DEF Inductive, TypeOK
  <1> QED BY <1>2, <1>3, <1>4, AccountsAssumption DEF Inductive, TypeOK

LEMMA RegisterAgainKeeps ==
  ASSUME Inductive, NEW r \in Reqs, RegisterAgain(r) PROVE Inductive'
  <1>1. UNCHANGED <<skip, id, rLink, expired, inbox>>
    BY DEF RegisterAgain
  <1>2. CASE skip /\ RowFound(r)
    <2>1. status' = "verified" /\ vLink' = NoLink /\ cooling' = FALSE /\ opened' = opened \cup {id}
          /\ Finish(r) /\ id # NoId
      BY <1>2 DEF RegisterAgain, RowFound
    <2>2. req' \in [Reqs -> Request] /\ RequestsHonest'
      BY <1>1, <2>1, OneRequest, IdleRequest DEF Finish
    <2>3. id \in Ids /\ (status' = "none") = (id' = NoId)
      BY <1>1, <2>1 DEF Inductive, TypeOK
    <2>4. TypeOK'
      BY <1>1, <2>1, <2>2, <2>3 DEF Inductive, TypeOK
    <2> QED BY <1>1, <2>1, <2>2, <2>4
            DEF Inductive, VerifiedOpenedTheLink, ResetLinkOnlyForVerified
  <1>3. CASE ~(skip /\ RowFound(r))
    <2>1. UNCHANGED <<row, opened>>
      BY <1>1, <1>3 DEF RegisterAgain, row
    <2>2. CASE Finish(r)
      <3>1. req' \in [Reqs -> Request] /\ RequestsHonest'
        BY <2>1, <2>2, EndsKeep
      <3> QED BY <1>1, <2>1, <3>1, AccountStays DEF Inductive, TypeOK
    <2>3. CASE ~Finish(r)
      <3> DEFINE q == [req[r] EXCEPT !.op = "resend", !.pc = "resend", !.id = NoId]
      <3>1. req' = [req EXCEPT ![r] = q]
        BY <1>3, <2>3 DEF RegisterAgain, Inductive, TypeOK, Request
      <3>2. q \in Request /\ q.pc = "resend" /\ OpFits(q)
        BY RequestOf DEF Request, Ops, Steps, OpFits
      <3> HIDE DEF q
      <3>3. req' \in [Reqs -> Request] /\ RequestsHonest'
        BY <2>1, <3>1, <3>2, OneRequest DEF row
      <3> QED BY <1>1, <2>1, <3>3, AccountStays DEF Inductive, TypeOK
    <2> QED BY <2>2, <2>3
  <1> QED BY <1>2, <1>3

LEMMA ResendReadKeeps ==
  ASSUME Inductive, NEW r \in Reqs, ResendRead(r) PROVE Inductive'
  <1>1. UNCHANGED <<row, opened>> /\ UNCHANGED <<skip, expired, inbox>>
    BY DEF ResendRead
  <1>2. req' \in [Reqs -> Request] /\ RequestsHonest'
    <2>1. CASE Begin(r, "resend", "writeVerify", id)
      BY <1>1, <2>1, BeginsKeep DEF Ops, Steps
    <2>2. CASE Finish(r)
      BY <1>1, <2>2, EndsKeep
    <2>3. CASE At(r, "resend") /\ req' = [req EXCEPT ![r].pc = "writeVerify", ![r].id = id]
      <3> DEFINE q == [req[r] EXCEPT !.pc = "writeVerify", !.id = id]
      <3>1. req' = [req EXCEPT ![r] = q]
        BY <2>3 DEF Inductive, TypeOK, Request
      <3>2. q \in Request /\ q.pc = "writeVerify" /\ OpFits(q)
        <4>1. req[r].op = "resend"
          BY <2>3 DEF Inductive, RequestsHonest, OpFits, At
        <4> QED BY <4>1, RequestOf DEF Inductive, TypeOK, Request, Steps, OpFits
      <3> HIDE DEF q
      <3> QED BY <1>1, <3>1, <3>2, OneRequest DEF row
    <2> QED BY <2>1, <2>2, <2>3 DEF ResendRead
  <1> QED BY <1>1, <1>2, AccountStays DEF Inductive, TypeOK

\* A link is written to the row and is to be mailed next.
LEMMA LinkedRequest ==
  ASSUME Inductive, NEW r \in Reqs, NEW l \in NewLinks, req[r].op \in {"register", "resend", "forgot"},
         req' = [req EXCEPT ![r].pc = "send", ![r].link = l], UNCHANGED <<id, status, opened>>
  PROVE  req' \in [Reqs -> Request] /\ RequestsHonest'
  <1> DEFINE q == [req[r] EXCEPT !.pc = "send", !.link = l]
  <1>1. req' = [req EXCEPT ![r] = q]
    BY DEF Inductive, TypeOK, Request
  <1>2. q \in Request /\ q.pc = "send" /\ OpFits(q)
    BY RequestOf DEF Request, Steps, NewLinks, OpFits
  <1> HIDE DEF q
  <1> QED BY <1>1, <1>2, OneRequest

LEMMA WriteVerifyLinkKeeps ==
  ASSUME Inductive, NEW r \in Reqs, WriteVerifyLink(r) PROVE Inductive'
  <1>1. At(r, "writeVerify") /\ UNCHANGED <<skip, id, status, rLink, inbox, opened>>
    BY DEF WriteVerifyLink
  <1>2. CASE RowFound(r)
    <2>1. PICK l \in NewLinks :
             /\ vLink' = l /\ cooling' = TRUE /\ expired' = expired \ {l}
             /\ req' = [req EXCEPT ![r].pc = "send", ![r].link = l]
      BY <1>2 DEF WriteVerifyLink
    <2>2. req[r].op = "resend"
      BY <1>1 DEF Inductive, RequestsHonest, OpFits, At
    <2>3. req' \in [Reqs -> Request] /\ RequestsHonest'
      BY <1>1, <2>1, <2>2, LinkedRequest
    <2>4. TypeOK'
      BY <1>1, <2>1, <2>3 DEF Inductive, TypeOK, NewLinks
    <2> QED BY <1>1, <2>3, <2>4 DEF Inductive, VerifiedOpenedTheLink, ResetLinkOnlyForVerified
  <1>3. CASE ~RowFound(r)
    <2>1. Finish(r) /\ UNCHANGED <<vLink, cooling, expired>>
      BY <1>3 DEF WriteVerifyLink
    <2>2. UNCHANGED <<row, opened>>
      BY <1>1, <2>1 DEF row
    <2>3. req' \in [Reqs -> Request] /\ RequestsHonest'
      BY <2>1, <2>2, EndsKeep
    <2> QED BY <1>1, <2>1, <2>2, <2>3, AccountStays DEF Inductive, TypeOK
  <1> QED BY <1>2, <1>3

LEMMA SendKeeps ==
  ASSUME Inductive, NEW r \in Reqs, NEW arrives \in BOOLEAN, NEW reported \in BOOLEAN,
         Send(r, arrives, reported)
  PROVE  Inductive'
  <1>1. At(r, "send") /\ UNCHANGED <<skip, row, expired, opened>>
    BY DEF Send
  <1>2. inbox' \subseteq Links
    <2>1. req[r].link \in Links
      BY <1>1 DEF Inductive, RequestsHonest, OpFits, At
    <2> QED BY <2>1 DEF Send, Inductive, TypeOK
  <1>3. req' \in [Reqs -> Request] /\ RequestsHonest'
    <2>1. CASE Finish(r)
      BY <1>1, <2>1, EndsKeep
    <2>2. CASE ~Finish(r)
      <3> DEFINE q == [req[r] EXCEPT !.pc = Failed(req[r].op)]
      <3>1. req' = [req EXCEPT ![r] = q] /\ req[r].op # "resend"
        BY <2>2 DEF Send, Inductive, TypeOK, Request
      <3>2. req[r].op \in {"register", "forgot"}
        BY <1>1, <3>1 DEF Inductive, RequestsHonest, OpFits, At
      <3>3. Failed(req[r].op) \in {"undo", "clear"}
        BY <3>2 DEF Failed
      <3>4. q \in Request /\ q.pc \in {"undo", "clear"} /\ OpFits(q)
        BY <3>3, RequestOf DEF Request, Steps, OpFits
      <3> HIDE DEF q
      <3> QED BY <1>1, <3>1, <3>4, OneRequest DEF row
    <2> QED BY <2>1, <2>2
  <1> QED BY <1>1, <1>2, <1>3, AccountStays DEF Inductive, TypeOK

LEMMA RegisterUndoKeeps ==
  ASSUME Inductive, NEW r \in Reqs, RegisterUndo(r) PROVE Inductive'
  <1>1. At(r, "undo") /\ Finish(r) /\ UNCHANGED <<skip, expired, inbox>>
    BY DEF RegisterUndo
  <1>2. CASE RowFound(r)
    <2>1. /\ id' = NoId /\ status' = "none" /\ vLink' = NoLink /\ rLink' = NoLink
          /\ cooling' = FALSE /\ opened' = opened \ {id}
      BY <1>2 DEF RegisterUndo
    <2>2. /\ req' \in [Reqs -> Request] /\ req'[r] = Idle
          /\ \A p \in Reqs \ {r} : req'[p] = req[p]
      BY <1>1, IdleRequest DEF Finish, Inductive, TypeOK
    <2>3. RequestsHonest'
      BY <2>1, <2>2, IdleRequest DEF Inductive, RequestsHonest, At
    <2>4. TypeOK'
      BY <1>1, <2>1, <2>2 DEF Inductive, TypeOK
    <2> QED BY <2>1, <2>3, <2>4 DEF Inductive, VerifiedOpenedTheLink, ResetLinkOnlyForVerified
  <1>3. CASE ~RowFound(r)
    <2>1. UNCHANGED <<row, opened>>
      BY <1>3 DEF RegisterUndo
    <2>2. req' \in [Reqs -> Request] /\ RequestsHonest'
      BY <1>1, <2>1, EndsKeep
    <2> QED BY <1>1, <2>1, <2>2, AccountStays DEF Inductive, TypeOK
  <1> QED BY <1>2, <1>3

LEMMA VerifyReadKeeps ==
  ASSUME Inductive, NEW r \in Reqs, NEW l \in Links, VerifyRead(r, l) PROVE Inductive'
  <1>1. /\ Begin(r, "verify", "verify", id) /\ opened' = opened \cup {id} /\ status = "unverified"
        /\ UNCHANGED <<skip, row, expired, inbox>> /\ UNCHANGED <<id, status, vLink, rLink, cooling>>
    BY DEF VerifyRead, row
  <1>2. id \in Ids /\ id # NoId
    BY <1>1, AccountsAssumption DEF Inductive, TypeOK
  <1> DEFINE q == [op |-> "verify", pc |-> "verify", id |-> id, link |-> NoLink]
  <1>3. q \in Request /\ q.pc = "verify" /\ q.id = id /\ OpFits(q)
    BY <1>2 DEF Request, Ops, Steps, OpFits
  <1>4. req' = [req EXCEPT ![r] = q]
    BY <1>1 DEF Begin
  <1> HIDE DEF q
  <1>5. req' \in [Reqs -> Request] /\ req'[r] = q /\ \A p \in Reqs \ {r} : req'[p] = req[p]
    BY <1>3, <1>4 DEF Inductive, TypeOK
  <1>6. RequestsHonest'
    BY <1>1, <1>2, <1>3, <1>5 DEF Inductive, RequestsHonest, At
  <1>7. TypeOK'
    BY <1>1, <1>2, <1>5 DEF Inductive, TypeOK
  <1> QED BY <1>1, <1>6, <1>7 DEF Inductive, VerifiedOpenedTheLink, ResetLinkOnlyForVerified

LEMMA VerifyWriteKeeps ==
  ASSUME Inductive, NEW r \in Reqs, VerifyWrite(r) PROVE Inductive'
  <1>1. At(r, "verify") /\ Finish(r) /\ UNCHANGED <<skip, id, rLink, cooling, expired, inbox, opened>>
    BY DEF VerifyWrite
  <1>2. CASE RowFound(r)
    <2>1. status' = "verified" /\ vLink' = NoLink /\ id # NoId /\ id \in opened
      BY <1>1, <1>2 DEF VerifyWrite, RowFound, Inductive, RequestsHonest
    <2>2. req' \in [Reqs -> Request] /\ RequestsHonest'
      BY <1>1, <2>1, OneRequest, IdleRequest DEF Finish
    <2>3. (status' = "none") = (id' = NoId)
      BY <1>1, <2>1
    <2>4. TypeOK'
      BY <1>1, <2>1, <2>2, <2>3 DEF Inductive, TypeOK
    <2> QED BY <1>1, <2>1, <2>2, <2>4
            DEF Inductive, VerifiedOpenedTheLink, ResetLinkOnlyForVerified
  <1>3. CASE ~RowFound(r)
    <2>1. UNCHANGED <<row, opened>>
      BY <1>1, <1>3 DEF VerifyWrite, row
    <2>2. req' \in [Reqs -> Request] /\ RequestsHonest'
      BY <1>1, <2>1, EndsKeep
    <2> QED BY <1>1, <2>1, <2>2, AccountStays DEF Inductive, TypeOK
  <1> QED BY <1>2, <1>3

LEMMA ForgotReadKeeps ==
  ASSUME Inductive, NEW r \in Reqs, ForgotRead(r) PROVE Inductive'
  <1>1. /\ Begin(r, "forgot", "writeReset", id) /\ status = "verified"
        /\ UNCHANGED <<row, opened>> /\ UNCHANGED <<skip, expired, inbox>>
    BY DEF ForgotRead
  <1>2. id \in Ids /\ id # NoId
    BY <1>1, AccountsAssumption DEF Inductive, TypeOK
  <1> DEFINE q == [op |-> "forgot", pc |-> "writeReset", id |-> id, link |-> NoLink]
  <1>3. q \in Request /\ q.pc = "writeReset" /\ q.id = id /\ OpFits(q)
    BY <1>2 DEF Request, Ops, Steps, OpFits
  <1>4. req' = [req EXCEPT ![r] = q]
    BY <1>1 DEF Begin
  <1> HIDE DEF q
  <1>5. req' \in [Reqs -> Request] /\ req'[r] = q /\ \A p \in Reqs \ {r} : req'[p] = req[p]
    BY <1>3, <1>4 DEF Inductive, TypeOK
  <1>6. RequestsHonest'
    BY <1>1, <1>2, <1>3, <1>5 DEF Inductive, RequestsHonest, At, row
  <1> QED BY <1>1, <1>5, <1>6, AccountStays DEF Inductive, TypeOK

LEMMA WriteResetLinkKeeps ==
  ASSUME Inductive, NEW r \in Reqs, WriteResetLink(r) PROVE Inductive'
  <1>1. At(r, "writeReset") /\ UNCHANGED <<skip, id, status, vLink, cooling, inbox, opened>>
    BY DEF WriteResetLink
  <1>2. CASE RowFound(r)
    <2>1. PICK l \in NewLinks :
             /\ rLink' = l /\ expired' = expired \ {l}
             /\ req' = [req EXCEPT ![r].pc = "send", ![r].link = l]
      BY <1>2 DEF WriteResetLink
    <2>2. req[r].op = "forgot" /\ status = "verified"
      BY <1>1, <1>2 DEF Inductive, RequestsHonest, OpFits, At, RowFound
    <2>3. req' \in [Reqs -> Request] /\ RequestsHonest'
      BY <1>1, <2>1, <2>2, LinkedRequest
    <2>4. TypeOK'
      BY <1>1, <2>1, <2>3 DEF Inductive, TypeOK, NewLinks
    <2> QED BY <1>1, <2>2, <2>3, <2>4 DEF Inductive, VerifiedOpenedTheLink, ResetLinkOnlyForVerified
  <1>3. CASE ~RowFound(r)
    <2>1. Finish(r) /\ UNCHANGED <<rLink, expired>>
      BY <1>3 DEF WriteResetLink
    <2>2. UNCHANGED <<row, opened>>
      BY <1>1, <2>1 DEF row
    <2>3. req' \in [Reqs -> Request] /\ RequestsHonest'
      BY <2>1, <2>2, EndsKeep
    <2> QED BY <1>1, <2>1, <2>2, <2>3, AccountStays DEF Inductive, TypeOK
  <1> QED BY <1>2, <1>3

LEMMA ResetLinkGoneKeeps ==
  ASSUME Inductive, NEW r \in Reqs, ForgotClear(r) \/ ResetWrite(r) PROVE Inductive'
  <1>1. /\ Finish(r) /\ rLink' \in {rLink, NoLink}
        /\ UNCHANGED <<skip, id, status, vLink, cooling, expired, inbox, opened>>
    BY DEF ForgotClear, ResetWrite
  <1>2. req' \in [Reqs -> Request] /\ RequestsHonest'
    BY <1>1, OneRequest, IdleRequest DEF Finish
  <1>3. TypeOK'
    BY <1>1, <1>2 DEF Inductive, TypeOK
  <1> QED BY <1>1, <1>2, <1>3 DEF Inductive, VerifiedOpenedTheLink, ResetLinkOnlyForVerified

LEMMA ResetReadKeeps ==
  ASSUME Inductive, NEW r \in Reqs, NEW l \in Links, ResetRead(r, l) PROVE Inductive'
  <1>1. /\ Begin(r, "reset", "reset", id)
        /\ UNCHANGED <<row, opened>> /\ UNCHANGED <<skip, expired, inbox>>
    BY DEF ResetRead
  <1>2. req' \in [Reqs -> Request] /\ RequestsHonest'
    BY <1>1, BeginsKeep DEF Ops, Steps
  <1> QED BY <1>1, <1>2, AccountStays DEF Inductive, TypeOK

LEMMA WorldKeeps == ASSUME Inductive, World PROVE Inductive'
  <1>1. CASE CooldownOver \/ \E l \in Links : Expire(l) \/ Discard(l)
    <2>1. /\ cooling' \in BOOLEAN /\ expired' \subseteq Links /\ inbox' \subseteq Links
          /\ UNCHANGED <<skip, id, status, vLink, rLink, req, opened>>
      BY <1>1 DEF CooldownOver, Expire, Discard, row, Inductive, TypeOK
    <2>2. TypeOK'
      BY <2>1 DEF Inductive, TypeOK
    <2>3. RequestsHonest'
      BY <2>1 DEF Inductive, RequestsHonest, At
    <2> QED BY <2>1, <2>2, <2>3 DEF Inductive, VerifiedOpenedTheLink, ResetLinkOnlyForVerified
  <1>2. CASE Restart
    <2>1. /\ req' = [r \in Reqs |-> Idle] /\ skip' \in BOOLEAN
          /\ UNCHANGED <<row, expired, inbox, opened>>
      BY <1>2 DEF Restart
    <2>2. req' \in [Reqs -> Request] /\ RequestsHonest'
      BY <2>1, IdleRequest DEF RequestsHonest, At
    <2> QED BY <2>1, <2>2, AccountStays DEF Inductive, TypeOK
  <1> QED BY <1>1, <1>2 DEF World

LEMMA NextKeeps == ASSUME Inductive, [Next]_vars PROVE Inductive'
  <1>1. ASSUME NEW r \in Reqs, RegisterStep(r) PROVE Inductive'
    BY <1>1, RegisterReadKeeps, RegisterCreateKeeps, RegisterAgainKeeps, RegisterUndoKeeps,
       ResendReadKeeps, WriteVerifyLinkKeeps, SendKeeps DEF RegisterStep
  <1>2. ASSUME NEW r \in Reqs, VerifyStep(r) PROVE Inductive'
    BY <1>2, VerifyReadKeeps, VerifyWriteKeeps DEF VerifyStep
  <1>3. ASSUME NEW r \in Reqs, ResetStep(r) PROVE Inductive'
    BY <1>3, ForgotReadKeeps, WriteResetLinkKeeps, ResetLinkGoneKeeps, ResetReadKeeps DEF ResetStep
  <1>4. CASE UNCHANGED vars
    <2>1. UNCHANGED <<id, status, vLink, rLink, cooling, expired, inbox, req, skip, opened>>
      BY <1>4 DEF vars
    <2>2. TypeOK' /\ RequestsHonest'
      BY <2>1 DEF Inductive, TypeOK, RequestsHonest, At
    <2> QED BY <2>1, <2>2 DEF Inductive, VerifiedOpenedTheLink, ResetLinkOnlyForVerified
  <1> QED BY <1>1, <1>2, <1>3, <1>4, WorldKeeps DEF Next

------------------------------------------------------------------------------
\* What every request under way read of the account still holds, or the account
\* it read has been replaced (auth.service.ts writes by the id read).
THEOREM AccountsInductive == Spec => []Inductive
  <1>1. Inductive /\ [Next]_vars => Inductive'
    BY NextKeeps
  <1> QED BY <1>1, InitInductive, PTL DEF Spec

\* The row, the mails and the requests keep their types; a row has a status.
THEOREM AccountsTypeCorrect == Spec => []TypeOK
  <1>1. Inductive => TypeOK
    BY DEF Inductive
  <1> QED BY <1>1, AccountsInductive, PTL

\* Nobody is verified without having opened a link made for this very account,
\* or having registered while none was asked for.
THEOREM AccountsVerifiedOpened == Spec => []VerifiedOpenedTheLink
  <1>1. Inductive => VerifiedOpenedTheLink
    BY DEF Inductive
  <1> QED BY <1>1, AccountsInductive, PTL

\* A reset link is never written to an account that is not verified.
THEOREM AccountsResetLinks == Spec => []ResetLinkOnlyForVerified
  <1>1. Inductive => ResetLinkOnlyForVerified
    BY DEF Inductive
  <1> QED BY <1>1, AccountsInductive, PTL

------------------------------------------------------------------------------
\* What the steps do to the account, by the words of OptIn.
LEMMA QuietSteps ==
  ASSUME [Next]_vars,
         ~\E r \in Reqs : \/ RegisterCreate(r) \/ RegisterAgain(r) \/ RegisterUndo(r)
                          \/ VerifyWrite(r) \/ \E l \in Links : VerifyRead(r, l)
  PROVE  UNCHANGED <<id, status, opened>>
  BY DEF Next, vars, RegisterStep, VerifyStep, ResetStep, World, RegisterRead, ResendRead,
         WriteVerifyLink, Send, ForgotRead, WriteResetLink, ForgotClear, ResetRead, ResetWrite,
         CooldownOver, Expire, Discard, Restart, row

LEMMA CreateSteps ==
  ASSUME Inductive, NEW r \in Reqs, RegisterCreate(r)
  PROVE  \/ UNCHANGED <<id, status, opened>>
         \/ /\ id = NoId /\ id' \in Ids
            /\ \/ status' = "unverified" /\ opened' = opened
               \/ status' = "verified" /\ opened' = opened \cup {id'}
  <1>1. CASE id # NoId \/ (~skip /\ ~MailConfigured)
    BY <1>1 DEF RegisterCreate, row
  <1>2. CASE id = NoId /\ skip
    BY <1>2 DEF RegisterCreate, Create, NewIds
  <1>3. CASE id = NoId /\ ~skip /\ MailConfigured
    BY <1>3 DEF RegisterCreate, Create, NewIds
  <1> QED BY <1>1, <1>2, <1>3, AccountsAssumption DEF Inductive, TypeOK

LEMMA AgainSteps ==
  ASSUME NEW r \in Reqs, RegisterAgain(r)
  PROVE  \/ UNCHANGED <<id, status, opened>>
         \/ id # NoId /\ id' = id /\ status' = "verified" /\ opened' = opened \cup {id}
  <1>1. CASE skip /\ RowFound(r)
    BY <1>1 DEF RegisterAgain, RowFound
  <1>2. CASE ~(skip /\ RowFound(r))
    BY <1>2 DEF RegisterAgain
  <1> QED BY <1>1, <1>2

LEMMA UndoSteps ==
  ASSUME NEW r \in Reqs, RegisterUndo(r)
  PROVE  \/ UNCHANGED <<id, status, opened>>
         \/ /\ id # NoId /\ id' = NoId /\ status' = "none" /\ opened' = opened \ {id}
            /\ At(r, "undo") /\ req[r].id = id
  <1>1. CASE RowFound(r)
    BY <1>1 DEF RegisterUndo, RowFound
  <1>2. CASE ~RowFound(r)
    BY <1>2 DEF RegisterUndo, row
  <1> QED BY <1>1, <1>2

LEMMA VerifyWriteSteps ==
  ASSUME Inductive, NEW r \in Reqs, VerifyWrite(r)
  PROVE  \/ UNCHANGED <<id, status, opened>>
         \/ id # NoId /\ id \in opened /\ id' = id /\ status' = "verified" /\ opened' = opened
  <1>1. CASE RowFound(r)
    <2>1. id # NoId /\ id \in opened
      BY <1>1 DEF VerifyWrite, RowFound, Inductive, RequestsHonest
    <2> QED BY <1>1, <2>1 DEF VerifyWrite
  <1>2. CASE ~RowFound(r)
    BY <1>2 DEF VerifyWrite
  <1> QED BY <1>1, <1>2

LEMMA VerifyReadSteps ==
  ASSUME Inductive, NEW r \in Reqs, NEW l \in Links, VerifyRead(r, l)
  PROVE  id # NoId /\ id' = id /\ status' = status /\ opened' = opened \cup {id}
  <1>1. status = "unverified" /\ UNCHANGED row /\ opened' = opened \cup {id}
    BY DEF VerifyRead
  <1> QED BY <1>1 DEF row, Inductive, TypeOK

\* A verified account stays verified whatever stale request still writes to it;
\* only the registration that created it can take it away again.
THEOREM AccountsVerifiedStay == Spec => VerifiedIsForGood
  <1> DEFINE Stays == status = "verified" =>
                        \/ id' = id /\ status' = "verified"
                        \/ id' = NoId /\ \E r \in Reqs : At(r, "undo") /\ req[r].id = id
  <1>1. ASSUME Inductive, [Next]_vars PROVE Stays
    <2>0. status = "verified" => id # NoId
      BY <1>1 DEF Inductive, TypeOK
    <2>1. CASE \E r \in Reqs : \/ RegisterCreate(r) \/ RegisterAgain(r) \/ RegisterUndo(r)
                              \/ VerifyWrite(r) \/ \E l \in Links : VerifyRead(r, l)
      BY <1>1, <2>0, <2>1, CreateSteps, AgainSteps, UndoSteps, VerifyWriteSteps, VerifyReadSteps
    <2>2. CASE UNCHANGED <<id, status, opened>>
      BY <2>2
    <2> QED BY <1>1, <2>1, <2>2, QuietSteps
  <1>2. Inductive /\ [Next]_vars => [Stays]_vars
    BY <1>1
  <1> QED BY <1>2, AccountsInductive, PTL DEF Spec, VerifiedIsForGood

\* The handlers, with all their statements, mails and restarts, implement the
\* promise of a registration by a mailed link.
THEOREM AccountsKeepPromise == Spec => KeepsPromise
  <1>1. Init => Promise!Init
    <2> SUFFICES ASSUME Init PROVE Promise!Init
      OBVIOUS
    <2>1. id \in Ids \cup {NoId} /\ status # "verified" /\ opened = {}
      BY DEF Init
    <2> QED BY <2>1 DEF Promise!Init
  <1> DEFINE Abs == \/ Promise!Register \/ Promise!Show \/ Promise!Confirm \/ Promise!TakeBack
  <1>2. ASSUME Inductive, [Next]_vars PROVE [Abs]_Promise!vars
    <2>1. ASSUME UNCHANGED <<id, status, opened>> PROVE UNCHANGED Promise!vars
      BY <2>1 DEF Promise!vars
    <2>2. ASSUME NEW r \in Reqs, RegisterCreate(r) PROVE [Abs]_Promise!vars
      <3>1. CASE UNCHANGED <<id, status, opened>>
        BY <2>1, <3>1
      <3>2. CASE ~UNCHANGED <<id, status, opened>>
        <4>1. /\ id = NoId /\ id' \in Ids
              /\ \/ status' = "unverified" /\ opened' = opened
                 \/ status' = "verified" /\ opened' = opened \cup {id'}
          BY <1>2, <2>2, <3>2, CreateSteps
        <4> QED BY <4>1 DEF Promise!Register
      <3> QED BY <3>1, <3>2
    <2>3. ASSUME NEW r \in Reqs, RegisterAgain(r) PROVE [Abs]_Promise!vars
      <3>1. CASE UNCHANGED <<id, status, opened>>
        BY <2>1, <3>1
      <3>2. CASE id # NoId /\ id' = id /\ status' = "verified" /\ opened' = opened \cup {id}
        BY <3>2 DEF Promise!Confirm
      <3> QED BY <2>3, <3>1, <3>2, AgainSteps
    <2>4. ASSUME NEW r \in Reqs, RegisterUndo(r) PROVE [Abs]_Promise!vars
      <3>1. CASE UNCHANGED <<id, status, opened>>
        BY <2>1, <3>1
      <3>2. CASE id # NoId /\ id' = NoId /\ status' = "none" /\ opened' = opened \ {id}
        BY <3>2 DEF Promise!TakeBack
      <3> QED BY <2>4, <3>1, <3>2, UndoSteps
    <2>5. ASSUME NEW r \in Reqs, VerifyWrite(r) PROVE [Abs]_Promise!vars
      <3>1. CASE UNCHANGED <<id, status, opened>>
        BY <2>1, <3>1
      <3>2. CASE id # NoId /\ id \in opened /\ id' = id /\ status' = "verified" /\ opened' = opened
        BY <3>2 DEF Promise!Confirm
      <3> QED BY <1>2, <2>5, <3>1, <3>2, VerifyWriteSteps
    <2>6. ASSUME NEW r \in Reqs, NEW l \in Links, VerifyRead(r, l) PROVE [Abs]_Promise!vars
      <3>1. id # NoId /\ id' = id /\ status' = status /\ opened' = opened \cup {id}
        BY <1>2, <2>6, VerifyReadSteps
      <3> QED BY <3>1 DEF Promise!Show
    <2>7. CASE UNCHANGED <<id, status, opened>>
      BY <2>1, <2>7
    <2> QED BY <1>2, <2>2, <2>3, <2>4, <2>5, <2>6, <2>7, QuietSteps
  <1>3. Inductive /\ [Next]_vars => [Abs]_Promise!vars
    BY <1>2
  <1> QED BY <1>1, <1>3, AccountsInductive, PTL DEF Spec, KeepsPromise, Promise!Spec
=============================================================================
