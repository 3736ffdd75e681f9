------------------------------- MODULE Services -------------------------------
(***************************************************************************)
(* The services and models that share nothing with each other: running one *)
(* beside another shows no more than running each alone, so that a         *)
(* behaviour is one of the component that is chosen initially. Overlapping *)
(* requests work on job offers, on payrolls, or on one document of a       *)
(* model; the models go by the variables of MongooseDocument, and so do    *)
(* the queue, the caches and the rooms.                                    *)
(***************************************************************************)
EXTENDS JobOffer

CONSTANTS Payrolls, Sheets, Periods, HourTotals, WeekStarts, TaxCodes, NoTaxCode, Reasons,
          Nothing, Users, Reactions, Codes, Names, Methods, OfCompany, Cards,
          ScoreLists, LastDay, Reminder, Total, Amounts, Channels, TaxValues,
          LastMonth, Plans, Given, Contacts, Keys, PreferenceValues, Durations,
          Ticks, Sockets, OtherUsers, RoomNames

\* Bounds: saves of one payroll, changes of one document (of most models, of those
\* with many states, of those that need more, of the primary mark, of messages and
\* conversations), reports of analytics, changes of what is cached.
CONSTANTS MaxPayrollSaves, MaxSaves, FewSaves, ManySaves, MaxMarkSaves,
          MaxMessageSaves, MaxReports, MaxChanges

\* There are some requests at a time, and finitely many. Scores are from 1 to 5;
\* weights and payments are numbers, and the invoice has a total that is not 0; a
\* session may take no time.
ASSUME RequestsAssumption == IsFiniteSet(Requests) /\ Requests # {}
ASSUME ScoresAssumption == ScoreLists \subseteq Seq([score : 1..5, weight : Nat])
ASSUME AmountsAssumption == Total \in Nat \ {0} /\ Amounts \subseteq Nat \ {0}
ASSUME DaysAssumption == LastDay \in Nat
ASSUME DurationsAssumption == Durations \subseteq Nat

VARIABLES component, sheet, payroll, items, log, call, stored, copy, world, saves, past

payrollVars == <<sheet, payroll, items, log, call>>
document == <<stored, copy, world, saves, past>>
serviceVars == <<component, vars, payrollVars, document>>

-----------------------------------------------------------------------------
P == INSTANCE Payroll WITH MaxSaves <- MaxPayrollSaves

R == INSTANCE Rating

D == INSTANCE Documents

I == INSTANCE Invoice

F == INSTANCE Feedback

N == INSTANCE Notification WITH MaxSaves <- FewSaves

M == INSTANCE Messaging WITH MaxSaves <- MaxMessageSaves

T == INSTANCE TaxSettings WITH MaxSaves <- FewSaves, Values <- TaxValues

RT == INSTANCE ReportTemplate

S == INSTANCE Subscription WITH MaxSaves <- FewSaves

PM == INSTANCE PaymentMethods WITH methods <- stored

CD == INSTANCE ContactDetails

CP == INSTANCE ContactDetails WITH MaxSaves <- MaxMarkSaves

US == INSTANCE ContactUs

G == INSTANCE Generations WITH MaxSaves <- ManySaves

GD == INSTANCE Generations WITH Users <- OtherUsers

CC == INSTANCE ClientContacts WITH MaxSaves <- ManySaves

UP == INSTANCE UserPreferences WITH Names <- Keys, Values <- PreferenceValues

DV == INSTANCE Devices WITH MaxSaves <- ManySaves

AQ == INSTANCE AnalyticsQueue WITH
          Callers <- {"request"},
          status <- stored, tasks <- world, pending <- saves, work <- copy, history <- past

CU == INSTANCE CacheUtils WITH
          Callers <- Requests,
          source <- saves, cached <- stored, lock <- world, work <- copy

TC == INSTANCE TaggedCache WITH
          Callers <- Requests,
          source <- saves, cached <- stored, tagged <- world, work <- copy

RM == INSTANCE Rooms WITH
          Users <- OtherUsers,
          sockets <- stored, userRooms <- copy, roomSubscribers <- world

\* No document is none of the documents or of the copies, and no request's slot; a
\* user has finitely many preferences, and the channels of notifications are an
\* enumeration; plans last whole months or are custom, and prices are numbers.
ASSUME NothingAssumption == /\ Nothing \notin Requests
                            /\ Nothing \notin UP!UserPreferences
                            /\ Nothing \notin PM!PaymentMethod
                            /\ Nothing \notin CP!PrimaryCopy
ASSUME PlansAssumption == /\ Plans \subseteq [billingCycle : Nat, price : Nat]
                          /\ Given \subseteq S!Payment
ASSUME KeysAssumption == IsFiniteSet(Keys)
ASSUME ChannelsAssumption == IsFiniteSet(Channels)

-----------------------------------------------------------------------------
DocumentInit ==
    \/ component = "Rating" /\ R!Init
    \/ component = "Document" /\ D!Init
    \/ component = "Invoice" /\ I!Init
    \/ component = "Feedback" /\ F!Init
    \/ component = "Notification" /\ N!Init
    \/ component = "Message" /\ M!MessageInit
    \/ component = "Conversation" /\ M!ConversationInit
    \/ component = "DirectMessage" /\ M!DirectInit
    \/ component = "TaxSettings" /\ T!Init
    \/ component = "ReportTemplate" /\ RT!Init
    \/ component = "Subscription" /\ S!Init
    \/ component = "PaymentMethod" /\ PM!Init
    \/ component = "ContactVerification" /\ CD!VerificationInit
    \/ component = "ContactUs" /\ US!Init
    \/ component = "GeneratedReport" /\ G!ReportInit
    \/ component = "GeneratedDocument" /\ GD!DocumentInit
    \/ component = "ClientContacts" /\ CC!Init
    \/ component = "UserPreferences" /\ UP!Init
    \/ component = "Device" /\ DV!Init
    \/ component = "CacheUtils" /\ CU!Init
    \/ component = "TaggedCache" /\ TC!Init
    \/ component = "ContactDetails" /\ CP!PrimaryInit
    \/ component = "Rooms" /\ RM!Init /\ saves = 0

DocumentNext ==
    \/ component = "Rating" /\ R!Next
    \/ component = "Document" /\ D!Next
    \/ component = "Invoice" /\ I!Next
    \/ component = "Feedback" /\ F!Next
    \/ component = "Notification" /\ N!Next
    \/ component = "Message" /\ M!MessageNext
    \/ component = "Conversation" /\ M!ConversationNext
    \/ component = "DirectMessage" /\ M!DirectNext
    \/ component = "TaxSettings" /\ T!Next
    \/ component = "ReportTemplate" /\ RT!Next
    \/ component = "Subscription" /\ S!Next
    \/ component = "PaymentMethod" /\ PM!Next
    \/ component = "ContactVerification" /\ CD!VerificationNext
    \/ component = "ContactUs" /\ US!Next
    \/ component = "GeneratedReport" /\ G!ReportNext
    \/ component = "GeneratedDocument" /\ GD!DocumentNext
    \/ component = "ClientContacts" /\ CC!Next
    \/ component = "UserPreferences" /\ UP!Next
    \/ component = "Device" /\ DV!Next
    \/ component = "CacheUtils" /\ CU!Next
    \/ component = "TaggedCache" /\ TC!Next
    \/ component = "ContactDetails" /\ CP!PrimaryNext
    \/ component = "Rooms" /\ RM!Next /\ UNCHANGED saves

ModelInit ==
    \/ DocumentInit /\ past = Nothing
    \/ component = "AnalyticsQueue" /\ AQ!Init

ModelNext ==
    \/ DocumentNext /\ UNCHANGED past
    \/ component = "AnalyticsQueue" /\ AQ!Next

Payrolls0 == P!Init /\ \A s \in Sheets : ~ sheet[s].approved

NoDocument == /\ stored = Nothing /\ copy = Nothing /\ world = Nothing
              /\ saves = 0 /\ past = Nothing

ServiceInit ==
    /\ Init
    /\ \/ component = "JobOffer" /\ Payrolls0 /\ NoDocument
       \/ component = "Payroll" /\ P!Init /\ NoDocument
       \/ Payrolls0 /\ ModelInit

ServiceNext ==
    /\ \/ component = "JobOffer" /\ Next /\ UNCHANGED <<payrollVars, document>>
       \/ component = "Payroll" /\ P!Next /\ UNCHANGED <<vars, document>>
       \/ ModelNext /\ UNCHANGED <<vars, payrollVars>>
    /\ UNCHANGED component

ServiceSpec == ServiceInit /\ [][ServiceNext]_serviceVars

\* The offers, and the payrolls, alone.
OfferSpec == (component = "JobOffer" /\ ServiceInit) /\ [][ServiceNext]_serviceVars
PayrollSpec == (component = "Payroll" /\ ServiceInit) /\ [][ServiceNext]_serviceVars

-----------------------------------------------------------------------------
\* Every variable has its type.
TypesOK ==
    /\ TypeOK
    /\ P!TypeOK
    /\ component = "Rating" => R!TypeOK
    /\ component = "Document" => D!TypeOK
    /\ component = "Invoice" => I!TypeOK
    /\ component = "Feedback" => F!TypeOK
    /\ component = "Notification" => N!TypeOK
    /\ component = "Message" => M!MessageTypeOK
    /\ component = "Conversation" => M!ConversationTypeOK
    /\ component = "DirectMessage" => M!DirectTypeOK
    /\ component = "TaxSettings" => T!TypeOK
    /\ component = "ReportTemplate" => RT!TypeOK
    /\ component = "Subscription" => S!TypeOK
    /\ component = "PaymentMethod" => PM!TypeOK
    /\ component = "ContactVerification" => CD!VerificationTypeOK
    /\ component = "ContactUs" => US!TypeOK
    /\ component = "GeneratedReport" => G!ReportTypeOK
    /\ component = "GeneratedDocument" => GD!DocumentTypeOK
    /\ component = "ClientContacts" => CC!TypeOK
    /\ component = "UserPreferences" => UP!TypeOK
    /\ component = "ContactDetails" => CP!PrimaryTypeOK
    /\ component = "Device" => DV!TypeOK
    /\ component = "AnalyticsQueue" => AQ!TypeOK
    /\ component = "CacheUtils" => CU!TypeOK
    /\ component = "TaggedCache" => TC!TypeOK
    /\ component = "Rooms" => RM!TypeOK

\* Payments and failures of payments come after approvals, as stated in Payroll.
PaymentAfterApproval == P!PaymentAfterApproval

\* A payroll is paid once, as stated in Payroll.
PaidOnce == P!PaidOnce

\* payroll.service implements the lifecycle of statuses, as stated in Payroll.
PayrollImplementsLifecycle == P!ImplementsLifecycle

\* What requests add to the list of a document stays until it is taken out, and
\* what is taken out does not come back, however pushes, changes by place and
\* whole lists of older copies overlap: shares, payments, responses, receipts,
\* participants, reactions, tax rates, notes, outputs, users with access, preferences.
ListsKept ==
    /\ component = "Document" => D!SharesKept
    /\ component = "Invoice" => I!PaymentsKept
    /\ component = "Feedback" => F!ResponsesKept
    /\ component = "Message" => M!ReceiptsKept
    /\ component = "Conversation" => M!ParticipantsKept
    /\ component = "DirectMessage" => M!ReactionsKept
    /\ component = "TaxSettings" => T!ElementsKept
    /\ component = "Subscription" => S!PaymentsKept
    /\ component = "ContactUs" => US!NotesKept
    /\ component = "GeneratedReport" => G!OutputsAndFailuresKept
    /\ component = "GeneratedDocument" => GD!AccessUsersKept
    /\ component = "UserPreferences" => UP!PreferencesKept

\* What is calculated on copies and sent path by path agrees in the database: the
\* average of a rating with its scores, the amounts of an invoice with each other,
\* the compliance of a document with its status, the usage of a device with its
\* sessions; and the two maps of rooms with each other.
DerivedAgree ==
    /\ component = "Rating" => R!AverageOfScores
    /\ component = "Invoice" => I!AmountsAgree
    /\ component = "Document" => D!ComplianceFollowsStatus
    /\ component = "Device" => DV!UsageAgrees
    /\ component = "Rooms" => RM!MapsAgree

\* A status has its reason elsewhere in the document or in what happened: an
\* invoice is paid, a notification was marked, a message has receipts, a
\* resolution and the last message have their dates, a report of analytics failed
\* three times (and is never done otherwise).
StatusHasReason ==
    /\ component = "Invoice" => I!PaidForAReason
    /\ component = "Notification" => N!StatusWasMarked /\ N!FailuresCounted
    /\ component = "Message" => M!StatusOfReceipts
    /\ component = "Feedback" => F!ResolutionDated
    /\ component = "Conversation" => M!LastMessageDated
    /\ component = "ContactUs" => US!StatusDated
    /\ component = "GeneratedDocument" => GD!FailuresAndCodesKept
    /\ component = "AnalyticsQueue" => AQ!FailedAfterAttempts /\ AQ!NeverDone

\* The sections, visualizations and data sources of a report template refer to
\* what it has, and its edition counts its changes, as stated in ReportTemplate.
TemplateConsistent == component = "ReportTemplate" => RT!ReferencesResolve /\ RT!EditionsCounted

\* What is over or done is undone only by a save of an older copy, or by what the
\* method says: a resolution, a notification that was read, a deleted message, a
\* participant who left, the date of an archived conversation, a submission that is
\* over, a deleted document, a session that was counted.
UndoneByOlderCopies ==
    [][/\ component = "Feedback" => F!ResolvedOverwrittenByOlderCopy
       /\ component = "Notification" => N!UnreadOnlyWithoutReadDelivery
       /\ component = "Message" => M!ReappearsOnlyByFirstReceipt
       /\ component = "Conversation" => /\ M!ActiveAgainOnlyByAddition
                                        /\ M!DateLostOnlyByOverlap
       /\ component = "DirectMessage" => M!DeletedChangesByOlderCopy
       /\ component = "ContactUs" => US!ReopenedByOlderCopy
       /\ component = "GeneratedDocument" => GD!UndeletedByRequest
       /\ component = "Device" => DV!CountedDownByOlderCopy]_serviceVars

\* A document expires before its date only by a sweep or a copy that saw an older
\* date, as stated in Documents.
ExpiredBySomeoneWhoSawIt ==
    [][component = "Document" => D!ExpiredBySomeoneWhoSawIt]_serviceVars

\* A change by place reaches the element it was made for, as stated in TaxSettings
\* and UserPreferences.
UpdatesReachTheirElement ==
    [][/\ component = "TaxSettings" => T!UpdatesReachTheirElement
       /\ component = "UserPreferences" => UP!SetReachesItsKey]_serviceVars

\* What belongs together parts only when requests overlap: the billing of a
\* subscription and its plan, its end and its start; the one default among the
\* payment methods of a user, the one primary contact of an entity; a contact and
\* its verification, a client and its contacts, a completed report and its progress,
\* a preference and its key; a registration of a device and its status; what is
\* cached and what it was made from, or the tag by which it is found; a lock and its
\* holder; the rooms of a socket and those of its user. As stated in the modules.
PartsOnlyByOverlap ==
    [][/\ component = "Subscription" => /\ S!OtherBillingOnlyByOverlap
                                        /\ S!EndBeforeStartOnlyByOverlap
       /\ component = "PaymentMethod" => PM!SecondDefaultOnlyByOverlap
       /\ component = "ContactVerification" => CD!OpenCodeOnlyByOverlap
       /\ component = "ContactDetails" => /\ CP!SecondPrimaryOnlyByOverlap
                                          /\ CP!NonePrimaryOnlyByOverlap
       /\ component = "ClientContacts" => CC!LostOnlyByOverlap
       /\ component = "GeneratedReport" => G!CompletedOtherwiseOnlyByOverlap
       /\ component = "UserPreferences" => UP!SecondOfKeyOnlyByOverlap
       /\ component = "Device" => DV!RegisteredIsActive /\ DV!ActiveAgainByRequest
       /\ component = "CacheUtils" => CU!StaleOnlyByOverlap /\ CU!LockEndsByHolder
       /\ component = "TaggedCache" => /\ TC!OutOfReachOnlyByOverlap
                                       /\ TC!StaleOnlyByOverlap
       /\ component = "Rooms" => RM!UnlistedOnlyByOtherSocket]_serviceVars
=============================================================================
