----------------------------- MODULE FormTables -----------------------------
(* The forms of the web app.  Of each form: what its inputs let a person      *)
(* enter and send, what its handler checks and sends, where the page's values *)
(* come from, and what happens to the form while it saves and afterwards.     *)
EXTENDS FormApi
LOCAL INSTANCE TLC

\* What an input takes, and whether the browser lets a form go without it.
Text == {"", " ", "a", "b"}
Picked == {"", "a", "b"}      \* a list with an empty choice, a date, an address
OneOf == {"a", "b"}           \* a list without
Amount == {"", "0", "a", "b"}
Secret == {"", "0", "a", "b"} \* "0": shorter than it must be
May(values) == [takes |-> values, must |-> FALSE]
Must(values) == [takes |-> values, must |-> TRUE]

\* What a handler makes of a value.
NonBlank == Values \ {"", " "}
NonZero == Values \ {"", "0"}
AsIs == [v \in Values |-> v]
Trims == [v \in Values |-> IF v = " " THEN "" ELSE v]
IfGiven == [v \in Values |-> IF v = "" THEN Absent ELSE v]
TrimsIfGiven == [v \in Values |-> IfGiven[Trims[v]]]
OrNull == [v \in Values |-> IF Trims[v] = "" THEN Null ELSE v]
OrStandard == [v \in Values |-> IF v \in {"", "0"} THEN "default" ELSE v]

----------------------------------------------------------------------------
\* A dialog for a new row.  A page may unlock it while it saves (locks), let a
\* person type meanwhile (freezes), keep its values when it is closed without
\* saving (cancel), forbid that while it saves (waits), close or clear it when it
\* has saved.
Dialog ==
    [fills |-> "never", locks |-> TRUE, freezes |-> FALSE, cancel |-> "clears",
     waits |-> FALSE, closes |-> TRUE, clears |-> TRUE, picks |-> "no", edits |-> FALSE,
     passes |-> <<>>, starts |-> <<>>, asks |-> {}]
\* A dialog for a row there is: it opens with the values of the page's copy.
Editor ==
    [Dialog EXCEPT !.fills = "opening", !.cancel = "keeps", !.clears = FALSE, !.edits = TRUE]
OwnPage == [Dialog EXCEPT !.cancel = "none"]
Standing == [OwnPage EXCEPT !.closes = FALSE]   \* it is part of the page
Setting ==
    [Standing EXCEPT !.fills = "reading", !.clears = FALSE, !.edits = TRUE]
\* A list or a button that saves what is chosen; it shows what the page has read.
Chooser == [Setting EXCEPT !.freezes = TRUE, !.picks = "row"]
Frozen(kind) == [kind EXCEPT !.freezes = TRUE]
Unlocked(kind) == [kind EXCEPT !.locks = FALSE]

Form(kind, inputs, dto, stores, sends) ==
    kind @@ [inputs |-> inputs, dto |-> dto, stores |-> stores, sends |-> sends]
Checking(passes, form) == [form EXCEPT !.passes = passes]
Starting(starts, form) == [form EXCEPT !.starts = starts]
Asking(asks, form) == [form EXCEPT !.asks = asks]

----------------------------------------------------------------------------
NewCustomerInputs ==
    [name |-> Must(Text), email |-> Must(Picked), company |-> May(Text),
     phone |-> May(Text), address |-> May(Text)]
NewCustomerForm ==
    Checking([name |-> NonBlank],
        Form(Dialog, NewCustomerInputs, CreateCustomerDto, CustomerCreate,
             [name |-> Trims, email |-> TrimsIfGiven, company |-> TrimsIfGiven,
              phone |-> TrimsIfGiven, address |-> TrimsIfGiven]))
EditCustomerInputs ==
    [name |-> Must(Text), email |-> Must(Picked), company |-> May(Text),
     phone |-> May(Text), address |-> May(Text), notes |-> May(Text)]
SaveCustomer ==
    [name |-> Trims, email |-> TrimsIfGiven, company |-> TrimsIfGiven,
     phone |-> TrimsIfGiven, address |-> TrimsIfGiven]
EditCustomerForm ==
    Checking([name |-> NonBlank],
        Form(Unlocked(Editor), EditCustomerInputs, UpdateCustomerDto, CustomerUpdate,
             SaveCustomer))

NewSupplierInputs ==
    [name |-> Must(Text), email |-> May(Picked), company |-> May(Text),
     phone |-> May(Text), address |-> May(Text), notes |-> May(Text)]
NewSupplierForm ==
    Checking([name |-> NonBlank],
        Form(Dialog, NewSupplierInputs, CreateSupplierDto, SupplierCreate,
             [name |-> Trims, email |-> TrimsIfGiven, company |-> TrimsIfGiven,
              phone |-> TrimsIfGiven, address |-> TrimsIfGiven, notes |-> TrimsIfGiven]))
EditSupplierInputs ==
    [name |-> May(Text), email |-> May(Text), company |-> May(Text),
     phone |-> May(Text), address |-> May(Text), notes |-> May(Text)]
EditSupplierForm ==
    Checking([name |-> NonBlank],
        Form(Editor, EditSupplierInputs, UpdateSupplierDto, SupplierUpdate,
             [name |-> Trims, email |-> TrimsIfGiven, company |-> TrimsIfGiven,
              phone |-> TrimsIfGiven, address |-> TrimsIfGiven, notes |-> TrimsIfGiven]))

NewProductInputs ==
    [name |-> Must(Text), description |-> May(Text), type |-> Must(OneOf),
     price |-> Must(Amount), unit |-> May(Text), taxRate |-> May(Amount)]
NewProductForm ==
    Starting([type |-> "default", unit |-> "default", taxRate |-> "default"],
        Checking([name |-> NonBlank, price |-> NonZero],
            Form(Dialog, NewProductInputs, CreateProductDto, ProductCreate,
                 [name |-> Trims, description |-> TrimsIfGiven, type |-> AsIs,
                  price |-> AsIs, unit |-> Trims, taxRate |-> OrStandard])))

\* The supplier is chosen from the list, or entered as text.
NewOrderInputs ==
    [supplierId |-> May(Picked), supplier |-> May(Text), item |-> Must(Text),
     quantity |-> Must(Amount \ {"0"}), unitPrice |-> Must(Amount),
     expectedDelivery |-> May(Picked), notes |-> May(Text)]
OrderPasses ==
    [supplierId |-> NonBlank, supplier |-> NonBlank, item |-> NonBlank,
     quantity |-> NonZero, unitPrice |-> NonZero]
NewOrderForm ==
    Checking(OrderPasses,
        Form(Dialog, NewOrderInputs, CreateOrderDto, OrderCreate,
             [supplierId |-> AsIs, supplier |-> Trims, item |-> Trims, quantity |-> AsIs,
              unitPrice |-> AsIs, expectedDelivery |-> IfGiven, notes |-> TrimsIfGiven]))
OrderStatusInputs == [status |-> May({"a"})]
OrderStatusForm ==
    Form([Unlocked(Chooser) EXCEPT !.freezes = FALSE], OrderStatusInputs,
         UpdateOrderDto, OrderUpdate, [status |-> AsIs])

\* With one of its items; an item without description, quantity or price is left
\* out, and the others are sent.
NewInvoiceInputs ==
    [customerId |-> Must(Picked), dueDate |-> Must(Picked), notes |-> May(Text),
     productId |-> May(Picked), description |-> May(Text), quantity |-> May(Amount),
     unitPrice |-> May(Amount), taxRate |-> May(Amount)]
NewInvoiceItem ==
    [productId |-> IfGiven, description |-> TrimsIfGiven, quantity |-> IfGiven,
     unitPrice |-> IfGiven, taxRate |-> OrStandard]
InvoicePasses == [customerId |-> NonBlank, dueDate |-> NonBlank]
NewInvoiceForm ==
    Starting([quantity |-> "default", taxRate |-> "default"],
        Checking(InvoicePasses,
            Form(Dialog, NewInvoiceInputs, CreateInvoiceDto, InvoiceCreate,
                 NewInvoiceItem @@
                     [customerId |-> AsIs, dueDate |-> AsIs, notes |-> TrimsIfGiven])))
InvoiceStatusInputs == [status |-> May(OneOf)]
InvoiceStatusForm ==
    Form([Unlocked(Chooser) EXCEPT !.freezes = FALSE], InvoiceStatusInputs,
         UpdateInvoiceDto, InvoiceUpdate, [status |-> AsIs])

----------------------------------------------------------------------------
NewTaskInputs ==
    [title |-> Must(Text), description |-> May(Text), status |-> May(OneOf),
     priority |-> May(OneOf), projectId |-> May(Picked), assignedToId |-> May(Picked),
     deadline |-> May(Picked)]
RecurrenceInputs ==
    [isRecurring |-> May({"a"}), recurrenceType |-> May(OneOf),
     recurrenceInterval |-> May(OneOf), recurrenceEndDate |-> May(Picked)]
NewTaskForm ==
    Starting([status |-> "default", priority |-> "default", recurrenceType |-> "default",
              recurrenceInterval |-> "default"],
        Form(OwnPage, NewTaskInputs @@ RecurrenceInputs, CreateTaskDto, TaskCreate,
             [title |-> AsIs, description |-> IfGiven, status |-> AsIs, priority |-> AsIs,
              projectId |-> IfGiven, assignedToId |-> IfGiven, deadline |-> IfGiven,
              isRecurring |-> IfGiven, recurrenceType |-> IfGiven,
              recurrenceInterval |-> IfGiven, recurrenceEndDate |-> IfGiven]))
EditTaskInputs ==
    [title |-> Must(Text), description |-> May(Text), status |-> May(OneOf),
     priority |-> May(OneOf), projectId |-> May(Picked), assignedToId |-> May(Picked),
     deadline |-> May(Picked)]
\* The button above the form closes it while it saves, the one below does not.
EditTaskForm ==
    Form(Editor, EditTaskInputs, UpdateTaskDto, TaskUpdate,
         [title |-> AsIs, description |-> AsIs, status |-> AsIs, priority |-> AsIs,
          projectId |-> AsIs, assignedToId |-> AsIs, deadline |-> AsIs])
\* It keeps what was chosen in a state of its own, which an answer leaves alone.
\* The handler of the page reports an error and does not throw it again.
TaskStatusForm ==
    Form([Chooser EXCEPT !.picks = "own"], [status |-> May(OneOf)], UpdateTaskDto,
         TaskUpdate, [status |-> AsIs])

NewProjectInputs ==
    [name |-> Must(Text), description |-> May(Text), status |-> May(OneOf),
     deadline |-> May(Picked), customerId |-> May(Picked)]
NewProjectForm ==
    Starting([status |-> "default"],
        Form(OwnPage, NewProjectInputs, CreateProjectDto, ProjectCreate,
             [name |-> AsIs, description |-> IfGiven, status |-> AsIs,
              deadline |-> IfGiven, customerId |-> IfGiven]))
EditProjectInputs ==
    [name |-> Must(Text), description |-> May(Text), status |-> May({"a", "b", "x"}),
     deadline |-> May(Picked)]
EditProjectForm ==
    Form(Editor, EditProjectInputs, UpdateProjectDto, ProjectUpdate,
         [name |-> AsIs, description |-> AsIs, status |-> AsIs, deadline |-> AsIs])
ProjectStatusForm ==
    Form([Chooser EXCEPT !.picks = "own"], [status |-> May({"a", "b", "x"})],
         UpdateProjectDto, ProjectUpdate, [status |-> AsIs])

NewDealInputs == [title |-> May(Text), customerId |-> May(Picked)]
NewDealForm ==
    Checking([title |-> NonBlank],
        Form(Standing, NewDealInputs, CreateDealDto, DealCreate,
             [title |-> Trims, customerId |-> IfGiven]))
NewMilestoneForm ==
    Checking([title |-> NonBlank],
        Form(Standing, [title |-> May(Text)], CreateDealMilestoneDto, AddMilestone,
             [title |-> Trims]))
MilestoneStatusForm ==
    Form([Unlocked(Chooser) EXCEPT !.freezes = FALSE], [status |-> May(OneOf)],
         UpdateDealMilestoneDto, UpdateMilestone, [status |-> AsIs])
ProjectLinkForm ==
    Checking([projectId |-> NonBlank],
        Form(Standing, [projectId |-> May(Picked)], [projectId |-> Unchecked], LinkProject,
             [projectId |-> AsIs]))

----------------------------------------------------------------------------
NewTeamInputs == [name |-> Must(Text)]
TeamPasses == [name |-> NonBlank]
NewTeamForm ==
    Checking(TeamPasses,
        Form(Dialog, NewTeamInputs, CreateTeamDto, TeamCreate, [name |-> Trims]))
NewMemberInputs == [userId |-> Must(Picked), role |-> May(OneOf)]
MemberPasses == [userId |-> NonBlank]
NewMemberForm ==
    Starting([role |-> "default"],
        Checking(MemberPasses,
            Form([Dialog EXCEPT !.cancel = "keeps"], NewMemberInputs, AddMemberDto,
                 AddMember, [userId |-> AsIs, role |-> AsIs])))
OrgRoleInputs == [role |-> May(OneOf)]
OrgRoleForm ==
    Form(Chooser, OrgRoleInputs, UpdateOrgMemberRoleDto, UpdateOrganizationMemberRole,
         [role |-> AsIs])
TeamRoleInputs == [role |-> May(OneOf)]
TeamRoleForm ==
    Form(Chooser, TeamRoleInputs, [role |-> Unchecked], UpdateMember, [role |-> AsIs])

\* The calendar's dialog serves for a new event and for one there is.  "x": after
\* eleven at night, when the hour that the form adds is past the day.
EventInputs ==
    [title |-> Must(Text), description |-> May(Text), startDate |-> Must(Picked),
     endDate |-> May({"", "a", "x"})]
EventPasses == [title |-> NonBlank, startDate |-> NonBlank]
NewEventForm ==
    Checking(EventPasses,
        Form([Dialog EXCEPT !.waits = TRUE], EventInputs, CreateEventDto, CalendarCreate,
             [title |-> Trims, description |-> TrimsIfGiven, startDate |-> AsIs,
              endDate |-> OrStandard]))
\* It shows when the event starts, and lets every event end an hour later.
EditEventForm ==
    Checking(EventPasses,
        Form([Editor EXCEPT !.waits = TRUE], EventInputs, UpdateEventDto, CalendarUpdate,
             [title |-> Trims, description |-> TrimsIfGiven, startDate |-> AsIs,
              endDate |-> [v \in Values |-> IF v = "x" THEN "x" ELSE "default"]]))

NewCommentInputs == [content |-> May(Text)]
CommentPasses == [content |-> NonBlank]
NewCommentForm ==
    Checking(CommentPasses,
        Form(Standing, NewCommentInputs, CreateCommentDto, CommentCreate,
             [content |-> Trims]))
NewTagInputs == [name |-> May(Text)]
NewTagForm ==
    Checking([name |-> NonBlank],
        Form([Dialog EXCEPT !.cancel = "keeps"], NewTagInputs, [name |-> Unchecked],
             TagCreate, [name |-> AsIs]))
\* Minutes entered by hand; stopping the clock sends its own.
TimeEntryInputs == [description |-> May(Text), duration |-> May(Amount)]
TimeEntryPasses == [duration |-> NonZero]
TimeEntryForm ==
    Checking(TimeEntryPasses,
        Form(Unlocked(Standing), TimeEntryInputs,
             [description |-> Unchecked, duration |-> Unchecked], TimeEntryCreate,
             [description |-> IfGiven, duration |-> AsIs]))

----------------------------------------------------------------------------
ProfileInputs == [name |-> Must(Text), email |-> Must(Picked)]
ProfileForm ==
    Form(Setting, ProfileInputs, UpdateUserDto, UserUpdate, [name |-> AsIs, email |-> AsIs])
AvatarInputs == [avatar |-> May(Text)]
AvatarForm == Form(Setting, AvatarInputs, UpdateUserDto, UserUpdate, [avatar |-> Trims])
PasswordInputs == [currentPassword |-> Must(Text), newPassword |-> Must(Secret)]
PasswordPasses == [newPassword |-> OneOf]
PasswordForm ==
    Asking({"currentPassword"},
        Checking(PasswordPasses,
            Form(Standing, PasswordInputs, ChangePasswordDto, ChangePassword,
                 [currentPassword |-> AsIs, newPassword |-> AsIs])))
\* The number of days is saved when the input is left; the other preferences are
\* saved as they are chosen.  The inputs follow what was saved of them.
ReminderDaysInputs == [taskDueReminderDaysBefore |-> May(Amount \ {""})]
PhoneInputs == [phoneE164 |-> May(Text)]
Preferences == [Frozen(Setting) EXCEPT !.fills = "change"]
ReminderDaysForm ==
    Form(Preferences, ReminderDaysInputs, UpdateNotificationPreferencesDto, Upsert,
         [taskDueReminderDaysBefore |-> AsIs])
PhoneForm ==
    Form(Preferences, PhoneInputs, UpdateNotificationPreferencesDto, Upsert,
         [phoneE164 |-> OrNull])
SwitchInputs == [emailTaskDue |-> May(OneOf), smsEnabled |-> May(OneOf)]
SwitchesForm ==
    Form(Chooser, SwitchInputs, UpdateNotificationPreferencesDto, Upsert,
         [emailTaskDue |-> AsIs, smsEnabled |-> AsIs])
AppearanceInputs ==
    [organizationName |-> May(Text), displayName |-> May(Text), primaryColor |-> May(Text),
     headingColor |-> May(Text), logoUrl |-> May(Text)]
AppearanceForm ==
    Form(Setting, AppearanceInputs, UpdateWorkspaceAppearanceDto, UpdateWorkspaceAppearance,
         [organizationName |-> Trims, displayName |-> Trims, primaryColor |-> Trims,
          headingColor |-> Trims, logoUrl |-> Trims])
ModulesInputs == [modules |-> May(OneOf)]
ModulesForm ==
    Form([Frozen(Setting) EXCEPT !.fills = "change"], ModulesInputs, UpdateOrgModulesDto,
         UpdateOrgModules, [modules |-> AsIs])

----------------------------------------------------------------------------
RegisterInputs ==
    [name |-> May(Text), email |-> May(Picked), password |-> May(Secret)]
RegisterForm ==
    Checking([name |-> NonBlank, email |-> NonBlank, password |-> OneOf],
        Form(Frozen(OwnPage), RegisterInputs, RegisterDto, Register,
             [name |-> Trims, email |-> AsIs, password |-> AsIs]))
LoginInputs == [email |-> May(Picked), password |-> May(Text)]
LoginForm ==
    Asking({"email", "password"},
        Checking([email |-> Values \ {""}, password |-> Values \ {""}],
            Form(Frozen(OwnPage), LoginInputs, LoginDto, <<>>,
                 [email |-> AsIs, password |-> AsIs])))
ForgotPasswordInputs == [email |-> Must(Picked)]
ForgotPasswordForm ==
    Asking({"email"},
        Form(Frozen(OwnPage), ForgotPasswordInputs, ForgotPasswordDto, <<>>,
             [email |-> Trims]))
ResetPasswordInputs == [newPassword |-> May(Secret)]
ResetPasswordForm ==
    Checking([newPassword |-> OneOf],
        Form(Frozen(OwnPage), ResetPasswordInputs, ResetPasswordDto, ResetPassword,
             [newPassword |-> AsIs]))
\* " ": as many blanks as the input wants characters.
CreateWorkspaceInputs == [name |-> Must(Text)]
CreateWorkspaceForm ==
    Form(OwnPage, CreateWorkspaceInputs, CreateOrganizationDto, CreateForUser,
         [name |-> Trims])
JoinWorkspaceInputs == [code |-> Must(Text)]
JoinWorkspaceForm ==
    Asking({"code"},
        Form(OwnPage, JoinWorkspaceInputs, JoinOrganizationDto, JoinWithCode,
             [code |-> Trims]))
SuggestionInputs ==
    [industry |-> May(Picked), teamSize |-> May(Picked), focusAreas |-> May(Picked)]
SuggestionForm ==
    Asking({"industry", "teamSize", "focusAreas"},
        Checking([industry |-> NonBlank, teamSize |-> NonBlank, focusAreas |-> NonBlank],
            Form([OwnPage EXCEPT !.clears = FALSE], SuggestionInputs, SuggestModulesDto,
                 <<>>, [industry |-> AsIs, teamSize |-> AsIs, focusAreas |-> AsIs])))
PackForm ==
    Form([Chooser EXCEPT !.closes = TRUE], [packId |-> May(OneOf)], UpdateOrgPackDto,
         UpdateOrgPack, [packId |-> AsIs])
OnboardingModulesInputs == [modules |-> May(OneOf)]
OnboardingModulesForm ==
    Starting([modules |-> "default"],
        Form(Frozen(OwnPage), OnboardingModulesInputs, UpdateOrgModulesDto, UpdateOrgModules,
             [modules |-> AsIs]))

Forms ==
    [newCustomer |-> NewCustomerForm, editCustomer |-> EditCustomerForm,
     newSupplier |-> NewSupplierForm, editSupplier |-> EditSupplierForm,
     newProduct |-> NewProductForm, newOrder |-> NewOrderForm,
     orderStatus |-> OrderStatusForm, newInvoice |-> NewInvoiceForm,
     invoiceStatus |-> InvoiceStatusForm, newTask |-> NewTaskForm,
     editTask |-> EditTaskForm, taskStatus |-> TaskStatusForm,
     newProject |-> NewProjectForm, editProject |-> EditProjectForm,
     projectStatus |-> ProjectStatusForm, newDeal |-> NewDealForm,
     newMilestone |-> NewMilestoneForm, milestoneStatus |-> MilestoneStatusForm,
     projectLink |-> ProjectLinkForm, newTeam |-> NewTeamForm,
     newMember |-> NewMemberForm, orgRole |-> OrgRoleForm, teamRole |-> TeamRoleForm,
     newEvent |-> NewEventForm, editEvent |-> EditEventForm,
     newComment |-> NewCommentForm, newTag |-> NewTagForm, timeEntry |-> TimeEntryForm,
     profile |-> ProfileForm, avatar |-> AvatarForm, password |-> PasswordForm,
     reminderDays |-> ReminderDaysForm, phone |-> PhoneForm, switches |-> SwitchesForm,
     appearance |-> AppearanceForm, modules |-> ModulesForm, register |-> RegisterForm,
     login |-> LoginForm, forgotPassword |-> ForgotPasswordForm,
     resetPassword |-> ResetPasswordForm, createWorkspace |-> CreateWorkspaceForm,
     joinWorkspace |-> JoinWorkspaceForm, suggestion |-> SuggestionForm,
     pack |-> PackForm, onboardingModules |-> OnboardingModulesForm]
Fields ==
    UNION {{<<name, field>> : field \in DOMAIN Forms[name].inputs} : name \in DOMAIN Forms}
=============================================================================
