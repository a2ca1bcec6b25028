------------------------------- MODULE Forms -------------------------------
(* One form of the web app while a person fills it in, sends it, closes and   *)
(* opens it again, while others save the same row, and while answers and rows *)
(* read again arrive in any order, or not at all.                             *)
(* The fields of a form do not depend on each other, so the module follows    *)
(* one field of one form, whichever it is; that another field stops the form  *)
(* or is refused shows as a form that is not sent or a request that fails.    *)
EXTENDS FormTables

CONSTANTS Tries   \* the requests a person sends, each once: 1 .. n

ASSUME TriesAssumption == Tries \subseteq Nat

VARIABLES
    form,     \* the form, as far as the field followed is concerned, or Off
    opened,   \* it is on the screen
    shown,    \* what the input holds
    row,      \* the field of the server's row
    seen,     \* the field of the page's copy of the row
    tries,    \* the requests: what was entered, and how far they are
    typed,    \* ghost: what a person has entered that is not saved yet
    told      \* ghost: what the page has reported as saved

formVars == <<form, opened, shown, row, seen, tries, typed, told>>

Off == [name |-> "off"]
None == "none"
For(table, field, else) == IF field \in DOMAIN table THEN table[field] ELSE else

\* What the API answers and stores: the pipe of main.ts, then the service.
Answer(f, field, v) ==
    LET sent == For(f.sends, field, [w \in Values |-> Absent])[v]
        named == field \in DOMAIN f.dto
        kept == IF named THEN sent ELSE Absent
    IN IF named /\ kept \notin f.dto[field] THEN Refused
       ELSE For(f.stores, field, [w \in Wire |-> Keep])[kept]

\* Where the code does not keep what the properties below say.
InForms(names) == {n \in Fields : n[1] \in names}
\* The API accepts these and stores them nowhere.
NeverStored ==
    {"newProduct"} \X {"type", "unit", "taxRate"}
    \cup {"newOrder"} \X {"expectedDelivery", "notes"}
    \cup {"newTask"} \X DOMAIN RecurrenceInputs
    \cup {<<"newInvoice", "notes">>, <<"newProject", "customerId">>, <<"editCustomer", "notes">>}
\* Sent only when there is something in it, so that it is never emptied; no tax is
\* the standard tax.
NeverEmptied ==
    {"editCustomer", "editSupplier"} \X {"email", "company", "phone", "address", "notes"}
    \cup {<<"editEvent", "description">>, <<"newInvoice", "taxRate">>}
\* Every event ends an hour after it starts.
AnHourLater == {<<"editEvent", "endDate">>}
\* They do not wait for the answer: requests overtake each other, and the answer
\* of one closes or clears the form.
Unwaiting == InForms({"editCustomer", "timeEntry", "invoiceStatus", "milestoneStatus"})
\* Their lists go on showing a choice that was refused.
KeepsRefused == InForms({"taskStatus", "projectStatus"})
\* The page lets these go and the API refuses them.
RefusedAnyway ==
    {<<"newTask", "projectId">>, <<"editProject", "deadline">>, <<"editProject", "status">>,
     <<"projectStatus", "status">>, <<"newInvoice", "quantity">>, <<"newEvent", "endDate">>,
     <<"editEvent", "endDate">>, <<"createWorkspace", "name">>, <<"joinWorkspace", "code">>,
     <<"appearance", "organizationName">>}
    \cup {"editTask"} \X {"projectId", "assignedToId", "deadline"}
\* The row that is read again is put over what was entered.
Refilled == InForms({"profile", "avatar", "appearance", "modules", "reminderDays", "phone"})

Excused ==
    [row |-> NeverStored \cup NeverEmptied \cup AnHourLater \cup Unwaiting \cup KeepsRefused,
     answer |-> RefusedAnyway,
     typed |-> Unwaiting \cup Refilled]

\* A form as far as one field is concerned.  Fields that are treated alike are
\* one.
Follow(f, field, excused) ==
    LET input == f.inputs[field]
        empty == "" \in input.takes /\ ~ input.must
    IN [fills |-> f.fills, locks |-> f.locks, freezes |-> f.freezes, cancel |-> f.cancel,
        waits |-> f.waits, closes |-> f.closes, clears |-> f.clears, picks |-> f.picks,
        edits |-> f.edits, asks |-> field \in f.asks, takes |-> input.takes,
        start |-> For(f.starts, field, ""),
        goes |-> For(f.passes, field, Values) \ (IF input.must THEN {""} ELSE {}),
        answer |-> [v \in Values |-> Answer(f, field, v)],
        rows |-> IF ~ f.edits THEN {""} ELSE IF empty THEN {"", "b"} ELSE {"b"},
        excused |-> excused]
Followed ==
    {Follow(Forms[n[1]], n[2], {e \in DOMAIN Excused : n \in Excused[e]}) : n \in Fields}

----------------------------------------------------------------------------

Idle == [at |-> "unsent", value |-> ""]
Goes(t, where) == tries' = [tries EXCEPT ![t].at = where]
Waiting == \E t \in Tries : tries[t].at \notin {"unsent", "done"}
Free == ~ (form.freezes /\ Waiting)

FormOff ==
    /\ form = Off /\ opened = FALSE
    /\ shown = "" /\ row = "" /\ seen = ""
    /\ tries = [t \in Tries |-> Idle]
    /\ typed = None /\ told = None

FormInit ==
    /\ form \in Followed
    /\ opened = (form.cancel = "none")
    /\ row \in form.rows
    /\ seen = row
    /\ shown = IF form.edits THEN seen ELSE form.start
    /\ tries = [t \in Tries |-> Idle]
    /\ typed = None /\ told = None

----------------------------------------------------------------------------
OpenForm ==
    /\ ~ opened /\ form.cancel # "none"
    /\ opened' = TRUE
    /\ shown' = IF form.fills = "opening" THEN seen ELSE shown
    /\ UNCHANGED <<form, row, seen, tries, typed, told>>

\* Nobody counts on what is typed while the button says that the form is saving.
Type(v) ==
    /\ opened /\ form.picks = "no" /\ Free
    /\ v \in form.takes \ {shown}
    /\ shown' = v
    /\ typed' = IF form.locks /\ Waiting THEN None ELSE v
    /\ UNCHANGED <<form, opened, row, seen, tries, told>>

Sending(t, v) ==
    /\ tries[t].at = "unsent" /\ \A u \in Tries : u < t => tries[u].at # "unsent"
    /\ tries' = [tries EXCEPT ![t] = [at |-> "sent", value |-> v]]

\* MUTANT: the handler does not check.
BugSubmitForm(t) ==
    /\ opened /\ form.picks = "no" /\ ~ (form.locks /\ Waiting)
    /\ Sending(t, shown)
    /\ UNCHANGED <<form, opened, shown, row, seen, typed, told>>

SubmitForm(t) ==
    /\ opened /\ form.picks = "no" /\ ~ (form.locks /\ Waiting)
    /\ shown \in form.goes
    /\ Sending(t, shown)
    /\ UNCHANGED <<form, opened, shown, row, seen, typed, told>>

\* A list or a button that saves at once.
Pick(t, v) ==
    /\ opened /\ form.picks # "no" /\ Free
    /\ v \in (form.takes \cap form.goes) \ {shown}
    /\ Sending(t, v)
    /\ shown' = IF form.picks = "own" THEN v ELSE shown
    /\ UNCHANGED <<form, opened, row, seen, typed, told>>

\* "default": the value that the page or the service puts where there is none.
Serve(t) ==
    LET answer == form.answer[tries[t].value]
    IN /\ tries[t].at = "sent"
       /\ IF answer = Refused THEN Goes(t, "refused") /\ UNCHANGED row
          ELSE /\ Goes(t, "saved")
               /\ row' = IF answer = Keep THEN row ELSE answer
       /\ UNCHANGED <<form, opened, shown, seen, typed, told>>

\* The request or its answer is lost, or something else is refused.
Fail(t) ==
    /\ tries[t].at \in {"sent", "saved", "passed"}
    /\ Goes(t, "failed")
    /\ UNCHANGED <<form, opened, shown, row, seen, typed, told>>

\* MUTANT: it reports what the input holds by then.
BugConfirmed(t) ==
    /\ tries[t].at \in {"saved", "passed"}
    /\ Goes(t, "done")
    /\ told' = IF form.asks \/ tries[t].at = "passed" THEN None
               ELSE IF \E u \in Tries : u > t /\ tries[u].at = "done" THEN told
               ELSE shown
    /\ opened' = (opened /\ ~ form.closes)
    /\ shown' = IF form.clears THEN form.start ELSE shown
    /\ typed' = IF typed = tries[t].value THEN None ELSE typed
    /\ UNCHANGED <<form, row, seen>>

\* What is reported as saved is what was sent last.
Confirmed(t) ==
    /\ tries[t].at \in {"saved", "passed"}
    /\ Goes(t, "done")
    /\ told' = IF form.asks \/ tries[t].at = "passed" THEN None
               ELSE IF \E u \in Tries : u > t /\ tries[u].at = "done" THEN told
               ELSE tries[t].value
    /\ opened' = (opened /\ ~ form.closes)
    /\ shown' = IF form.clears THEN form.start ELSE shown
    /\ typed' = IF typed = tries[t].value THEN None ELSE typed
    /\ UNCHANGED <<form, row, seen>>

\* A list with a state of its own goes on showing what was chosen.
Reported(t) ==
    /\ tries[t].at \in {"refused", "failed"}
    /\ Goes(t, "done")
    /\ told' = IF form.picks = "own" THEN shown ELSE None
    /\ UNCHANGED <<form, opened, shown, row, seen, typed>>

OthersSave ==
    /\ form.edits /\ row # "b"
    /\ row' = "b"
    /\ told' = None
    /\ tries' = [t \in Tries |-> IF tries[t].at = "saved" THEN [tries[t] EXCEPT !.at = "passed"]
                                 ELSE tries[t]]
    /\ UNCHANGED <<form, opened, shown, seen, typed>>

\* MUTANT: the row that is read again always fills the form.
BugReread ==
    /\ form.edits
    /\ seen' = row /\ shown' = row
    /\ UNCHANGED <<form, opened, row, tries, typed, told>>

\* The page's query brings the row again.
Reread ==
    /\ form.edits
    /\ seen' = row
    /\ shown' = IF \/ form.fills = "reading"
                   \/ form.fills = "change" /\ row # seen
                   \/ form.picks = "row"
                THEN row ELSE shown
    /\ UNCHANGED <<form, opened, row, tries, typed, told>>

CancelForm ==
    /\ opened /\ form.cancel # "none" /\ ~ (form.waits /\ Waiting)
    /\ opened' = FALSE
    /\ shown' = IF form.cancel = "clears" THEN form.start ELSE shown
    /\ typed' = None
    /\ UNCHANGED <<form, row, seen, tries, told>>

FormNext ==
    /\ form # Off
    /\ \/ OpenForm \/ CancelForm \/ OthersSave \/ Reread
       \/ \E v \in Values : Type(v)
       \/ \E t \in Tries : SubmitForm(t) \/ Serve(t) \/ Fail(t) \/ Confirmed(t) \/ Reported(t)
       \/ \E t \in Tries, v \in Values : Pick(t, v)

----------------------------------------------------------------------------
FormTypeOK ==
    /\ form # Off => form.takes \subseteq Values
    /\ opened \in BOOLEAN
    /\ {shown, row, seen} \subseteq Values
    /\ tries \in [Tries -> [at : {"unsent", "sent", "saved", "passed", "refused", "failed",
                                  "done"},
                            value : Values]]
    /\ {typed, told} \subseteq Values \cup {None}

\* Nothing, blanks and the standard value stand for each other.
Alike(v, w) == v = w \/ {v, w} \subseteq {"", " ", "default"}

\* Whatever a page has reported as saved is what the row holds, as it was entered
\* last: every page, DTO and service of the way carries the field on.
SavedAsShown == ~ Waiting /\ told # None => Alike(row, told) \/ "row" \in form.excused

\* What an input takes and the page lets go, the API accepts.
PassedFormsAreAccepted ==
    (\E t \in Tries : tries[t].at = "refused") => "answer" \in form.excused

\* What a person has entered stays in the form until it is saved or the form is
\* closed: no answer of an earlier request, and no row read again, takes it away.
TypedIsKept == typed # None => (opened /\ shown = typed) \/ "typed" \in form.excused

----------------------------------------------------------------------------
\* It waits for the answer of one request before it sends the next.
Solo(f) == IF f.picks = "no" THEN f.locks ELSE f.freezes

\* V holds what can be in the input, in the row and in the page's copy of it; what
\* the API answers of it is what the form does not excuse.
Covers(f, V) ==
    /\ f.takes \subseteq V
    /\ ~ f.edits \/ f.clears \/ f.cancel = "clears" => f.start \in V
    /\ f.edits => f.rows \cup {"b"} \subseteq V
    /\ \A v \in V \cap f.goes :
        /\ f.edits => f.answer[v] \in V \cup {Keep, Refused}
        /\ f.answer[v] = Refused => "answer" \in f.excused
        /\ \/ f.answer[v] = Refused \/ f.asks \/ "row" \in f.excused
           \/ /\ f.answer[v] \in Values
              /\ Alike(f.answer[v], v)

\* What the forms keep to, for every field: unless it is excused, a form sends one
\* request at a time or has one value to send, an input that is typed into is
\* locked while it saves, and no row read again is put over it.
Fits(f) ==
    /\ f.takes \cup f.goes \cup f.rows \cup {f.start} \subseteq Values
    /\ f.answer \in [Values -> Values \cup {Keep, Refused}]
    /\ f.fills = "opening" => f.edits
    /\ f.picks = "own" => "row" \in f.excused
    /\ \/ "row" \in f.excused \/ Solo(f)
       \/ /\ f.picks # "no"
          /\ \A v, w \in f.takes \cap f.goes : v = w
    /\ f.picks = "no" /\ "typed" \notin f.excused =>
           f.locks /\ f.fills \notin {"reading", "change"}
    /\ \E V \in SUBSET Values : Covers(f, V)

ASSUME FieldsAssumption == \A f \in Followed : Fits(f)
=============================================================================
