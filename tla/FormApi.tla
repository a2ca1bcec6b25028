------------------------------ MODULE FormApi ------------------------------
(* What the API makes of one field of a request: the whitelist of main.ts     *)
(* drops a field that the DTO does not name, the DTO accepts or refuses the   *)
(* value, and the service stores it, leaves the row as it is, or refuses the  *)
(* request.                                                                   *)
EXTENDS Naturals

\* What an input can hold: nothing, blanks, a zero, what the form puts there
\* itself, a choice only the page knows, and two ordinary values.
Values == {"", " ", "0", "default", "x", "a", "b"}
Absent == "absent"   \* undefined: JSON leaves the field out
Null == "null"
Wire == Values \cup {Absent, Null}

Keep == "keep"       \* the service does not write the column
Refused == "refused"

----------------------------------------------------------------------------
\* The checks of class-validator.
AnyText == Values
NotEmpty == Values \ {""}
Proper == {"default", "a", "b"}   \* a date, an address, a choice the API knows
Numeric == Proper \cup {"0"}
Optional(accepted) == accepted \cup {Absent, Null}
Unchecked == Wire                 \* a body without a DTO

CreateCustomerDto ==
    [name |-> NotEmpty, email |-> Optional(Proper), company |-> Optional(AnyText),
     phone |-> Optional(AnyText), address |-> Optional(AnyText), notes |-> Optional(AnyText)]
UpdateCustomerDto ==
    [name |-> Optional(AnyText), email |-> Optional(Proper), company |-> Optional(AnyText),
     phone |-> Optional(AnyText), address |-> Optional(AnyText), notes |-> Optional(AnyText)]
CreateSupplierDto ==
    [name |-> NotEmpty, email |-> Optional(Proper), company |-> Optional(AnyText),
     phone |-> Optional(AnyText), address |-> Optional(AnyText), notes |-> Optional(AnyText)]
UpdateSupplierDto ==
    [name |-> Optional(AnyText), email |-> Optional(Proper), company |-> Optional(AnyText),
     phone |-> Optional(AnyText), address |-> Optional(AnyText), notes |-> Optional(AnyText)]
CreateProductDto ==
    [name |-> NotEmpty, description |-> Optional(AnyText), type |-> Optional(Proper),
     price |-> Numeric, unit |-> Optional(AnyText), taxRate |-> Optional(Numeric)]
CreateOrderDto ==
    [supplierId |-> Optional(AnyText), supplier |-> Optional(AnyText), item |-> AnyText,
     quantity |-> Numeric, unitPrice |-> Numeric, expectedDelivery |-> Optional(Proper),
     notes |-> Optional(AnyText)]
UpdateOrderDto == [status |-> Optional(AnyText)]
\* With the fields of one of its items; Absent: the item is left out.
CreateInvoiceDto ==
    [customerId |-> NotEmpty, dueDate |-> Proper, notes |-> Optional(AnyText),
     productId |-> Optional(AnyText), description |-> NotEmpty \cup {Absent},
     quantity |-> Proper \cup {Absent}, unitPrice |-> Numeric \cup {Absent},
     taxRate |-> Optional(Numeric)]
UpdateInvoiceDto == [status |-> Optional(Proper)]
CreateTaskDto ==
    [title |-> AnyText, description |-> Optional(AnyText), status |-> Optional(Proper),
     priority |-> Optional(Proper), deadline |-> Optional(Proper),
     projectId |-> Optional(AnyText), assignedToId |-> Optional(AnyText)]
UpdateTaskDto ==
    [title |-> Optional(AnyText), description |-> Optional(AnyText),
     status |-> Optional(Proper), priority |-> Optional(Proper),
     deadline |-> Optional(Proper), projectId |-> Optional(AnyText),
     assignedToId |-> Optional(AnyText)]
CreateProjectDto ==
    [name |-> AnyText, description |-> Optional(AnyText), status |-> Optional(Proper),
     deadline |-> Optional(Proper), customerId |-> Optional(AnyText)]
UpdateProjectDto ==
    [name |-> Optional(AnyText), description |-> Optional(AnyText),
     status |-> Optional(Proper), deadline |-> Optional(Proper)]
CreateDealDto == [title |-> AnyText, customerId |-> Optional(AnyText)]
CreateDealMilestoneDto == [title |-> AnyText]
UpdateDealMilestoneDto == [status |-> Optional(Proper)]
CreateEventDto ==
    [title |-> NotEmpty, description |-> Optional(AnyText), startDate |-> Proper,
     endDate |-> Optional(Proper)]
UpdateEventDto ==
    [title |-> Optional(AnyText), description |-> Optional(AnyText),
     startDate |-> Optional(Proper), endDate |-> Optional(Proper)]
CreateCommentDto == [content |-> NotEmpty]
CreateTeamDto == [name |-> AnyText]
AddMemberDto == [userId |-> AnyText, role |-> Proper]
UpdateOrgMemberRoleDto == [role |-> Proper]
UpdateUserDto == [name |-> Optional(AnyText), email |-> Optional(Proper),
                  avatar |-> Optional(AnyText)]
UpdateNotificationPreferencesDto ==
    [smsEnabled |-> Optional(Numeric), phoneE164 |-> Optional(Proper) \cup {""},
     taskDueReminderDaysBefore |-> Optional(Numeric), emailTaskDue |-> Optional(Numeric)]
UpdateWorkspaceAppearanceDto ==
    [organizationName |-> Optional(AnyText), displayName |-> Optional(AnyText),
     primaryColor |-> Optional(Proper) \cup {""}, headingColor |-> Optional(Proper) \cup {""},
     logoUrl |-> Optional(Proper) \cup {"", " "}]
UpdateOrgModulesDto == [modules |-> Proper]
UpdateOrgPackDto == [packId |-> Proper]
SuggestModulesDto == [focusAreas |-> Proper, industry |-> Optional(Proper),
                      teamSize |-> Optional(Proper)]
CreateOrganizationDto == [name |-> Proper]    \* two characters or more
JoinOrganizationDto == [code |-> Proper]      \* four characters or more
RegisterDto == [email |-> Proper, password |-> Proper, name |-> Proper]
LoginDto == [email |-> Proper, password |-> NotEmpty]
ForgotPasswordDto == [email |-> Proper]
ResetPasswordDto == [newPassword |-> Proper]
ChangePasswordDto == [currentPassword |-> AnyText, newPassword |-> Proper]

----------------------------------------------------------------------------
\* What a service makes of a field.
Stored == [v \in Wire |-> IF v \in {Absent, Null} THEN "" ELSE v]
Updated == [v \in Wire |-> IF v = Absent THEN Keep ELSE Stored[v]]
Trimmed(f) == [v \in Wire |-> f[IF v = " " THEN "" ELSE v]]
IfSet(f) == [v \in Wire |-> IF v \in {"", "0", Absent, Null} THEN Keep ELSE f[v]]
OrDefault(f) == [v \in Wire |-> IF v \in {"", "0", Absent, Null} THEN "default" ELSE f[v]]
\* A reference that is looked up, by whoever asks for it or only when it is set.
Found(f) == [v \in Wire |-> IF v \in Proper THEN f[v] ELSE Refused]
FoundIfSet(f) ==
    [v \in Wire |-> IF v \in Proper \cup {"", Absent, Null} THEN f[v] ELSE Refused]
\* A foreign key of the database: NULL is none, the empty string is nobody.
Key(f) == [v \in Wire |-> IF v \in Proper \cup {Absent, Null} THEN f[v] ELSE Refused]
NotBlank(f) == [v \in Wire |-> IF v \in {"", " "} THEN Refused ELSE f[v]]
Each(dto, f) == [field \in DOMAIN dto |-> f]

CustomerCreate == Each(CreateCustomerDto, Stored)
CustomerUpdate == Each(UpdateCustomerDto, Updated)
SupplierCreate == Each(CreateSupplierDto, Stored)
SupplierUpdate == Each(UpdateSupplierDto, Updated)
ProductCreate == [name |-> Stored, description |-> Stored, price |-> Stored]
OrderCreate ==
    [supplierId |-> Trimmed(FoundIfSet(Stored)), supplier |-> Trimmed(NotBlank(Stored)),
     item |-> OrDefault(Stored), quantity |-> OrDefault(Stored), unitPrice |-> Stored]
OrderUpdate == [status |-> IfSet(Updated)]
InvoiceCreate ==
    [customerId |-> Found(Stored), dueDate |-> Stored, productId |-> Stored,
     description |-> Stored, quantity |-> Stored, unitPrice |-> Stored, taxRate |-> Stored]
InvoiceUpdate == [status |-> IfSet(Updated)]
TaskCreate ==
    [title |-> Stored, description |-> Stored, status |-> OrDefault(Stored),
     priority |-> OrDefault(Stored), deadline |-> Stored, projectId |-> Found(Stored),
     assignedToId |-> Key(Stored)]
TaskUpdate ==
    [title |-> Updated, description |-> Updated, status |-> Updated, priority |-> Updated,
     deadline |-> Updated, projectId |-> [Found(Updated) EXCEPT ![Absent] = Keep],
     assignedToId |-> Key(Updated)]
ProjectCreate ==
    [name |-> Stored, description |-> Stored, status |-> OrDefault(Stored),
     deadline |-> Stored]
ProjectUpdate ==
    [name |-> Updated, description |-> Updated, status |-> Updated,
     deadline |-> IfSet(Updated)]
DealCreate == [title |-> Trimmed(Stored), customerId |-> FoundIfSet(Stored)]
AddMilestone == [title |-> Trimmed(Stored)]
UpdateMilestone == [status |-> Updated]
LinkProject == [projectId |-> Found(Stored)]
CalendarCreate ==
    [title |-> Stored, description |-> Trimmed(Stored), startDate |-> Stored,
     endDate |-> Stored]
CalendarUpdate == Each(UpdateEventDto, Updated)
CommentCreate == [content |-> Stored]
TagCreate == [name |-> Stored]
TimeEntryCreate == [description |-> Stored, duration |-> Stored]
TeamCreate == [name |-> Stored]
AddMember == [userId |-> Found(Stored), role |-> Stored]
UpdateMember == [role |-> Updated]
UpdateOrganizationMemberRole == [role |-> Updated]
UserUpdate == [name |-> Updated, email |-> Updated, avatar |-> Trimmed(Updated)]
Upsert == Each(UpdateNotificationPreferencesDto, Trimmed(Updated))
UpdateWorkspaceAppearance ==
    [organizationName |-> Trimmed(NotBlank(Updated)), displayName |-> Trimmed(Updated),
     primaryColor |-> Trimmed(Updated), headingColor |-> Trimmed(Updated),
     logoUrl |-> Trimmed(Updated)]
UpdateOrgModules == [modules |-> Updated]
UpdateOrgPack == [packId |-> Updated]
CreateForUser == [name |-> Trimmed(Stored)]
Register == [name |-> Trimmed(Stored), email |-> Stored, password |-> Stored]
ResetPassword == [newPassword |-> Stored]
ChangePassword == [newPassword |-> Updated]
\* A code that no workspace has is refused, but a well-formed one is taken to be
\* somebody's.
JoinWithCode == [code |-> Found(Stored)]
=============================================================================
