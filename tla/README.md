# Verification of the school-fee back end

TLA+ models, TLC runs and TLAPS proofs for the NestJS API under `api/src` of
this repository, a multi-tenant school administration, and for the two places of
the web application that keep a protocol with it. Its core is money (who owes
what, what was paid, which receipt was issued, what the payment gateways took);
around it stand sign-in, approvals, uploads, families, years, templates and chat.
This document is the inventory, the guide to the modules, runs and bounds, and
the argument of the proofs.

Paths below are relative to the repository; `fees.service.ts` stands for
`api/src/modules/fees/fees.service.ts` and so on.

## 1. The system

The API is a stateless Node process (possibly several) over one PostgreSQL
database. A handler is an `async` function: everything between two `await`s is
atomic, anything may happen at an `await`, and only a database transaction with
a row lock holds other requests back. The isolation level is PostgreSQL's
default, READ COMMITTED. So the state of the system is the database plus the
local variables of the requests being served, and what is hard about it is what
a request does with something it read before its last `await`. TypeORM's `save`
of an entity that was read writes every column in which the copy differs from the
row as it is then: the copy wins, whatever happened since.

### Components, their state and their operations

| component | state | operations | what makes it correct | hard because |
|---|---|---|---|---|
| Fee ledger (`fees`) | `fees` (original, penalty, discount, net, paid, status), `fee_payments` (amount, clearance), `fee_adjustments` | `bulkCreate`, eight penalty and discount handlers, `recordOfflinePayment`, `recordOnlinePayment`, `updateClearance` | derived columns never stale; `paid_amount` is the sum of the rows that count; totals move with their audit rows | ten handlers write overlapping columns; a cheque clears days later; `updateClearance` reads before it locks |
| Receipt numbers (`fees`) | `receipt_sequences`, receipt columns of `tenants`, `fee_payments.receipt_number` (unique over all schools) | `generateReceiptNumber` inside `recordPayment`, `updateReceiptConfig`, `correctReceiptSequence` | consecutive, unique, given back by a rollback | two payments draw at once; the first of a period inserts the row; corrections |
| Online payments (`payments`) | `payments`, `transactions`, `fee_payments` | `createOrder`, `verifyPayment`, webhooks, `recordOnlineFeePayment` | captured money is credited, once, never above the balance | webhooks late, reordered, repeated; verification at the same time; rows written one by one; restarts |
| Public pay, parent portal | none of their own | orders and verification through `payments` | as above | the amount is a balance read earlier |
| Approvals | `adjustment_approvals` | `gate`, `approve`, `reject` | a concession is applied once, and its row says whether it was | executed before its row is marked; two deciders; restarts |
| Admin sign-in (`auth`, `admins`) | per school a row of `admins`: password, failures, lock, reset token, refresh hash | `signIn`, `forgotPassword`, `resetPassword`, `verifyEmail`, `refreshTokens` | every failure counts; a reset reaches every school and ends the old sessions | the counter is read and written back; rows are written one by one |
| Parent sign-in (`parent-auth`) | `parent_otps`, refresh hash | `sendOtp`, `verifyOtp`, `selectTenant`, `refreshTokens` | the newest code works, once | several schools, several rows, no transaction |
| Students and uploads | `students`, `parents`, `fees` | `confirmUpload`, `createOne`, `bulkUpsert`, `update` | no student billed a term twice; all or nothing | validated outside the transaction that writes |
| Parents | `parents`, `parent_students` | `ensureForStudent`, backfill, links | the contact of each student can sign in | the student is saved before the parent is served; administrators in between |
| Student identities | `student_identities`, `students.identity_id` | `create`, `ensureIdentitiesForExisting` | no two persons share one; one person's rows get one | a backfill stamps rows it read long before |
| Academic years | `academic_years.is_current_year` | `create`, `update`, `remove`, `syncFromMetadata` | at most one current year | READ COMMITTED; stale copies |
| Receipt templates | `is_default` per kind | `create`, `update`, `remove`, `ensureStarterForTenant` | the default made last is the one picked | clearing and saving are two statements; kinds overlap |
| Chat | conversations, messages with reactions, read marks | send, edit, delete, react, list, mark read | no reaction lost, the preview is the latest message, unread means unseen | read, change, write back; marks overtake each other; an event is emitted some queries after the save it reports |
| Web application | tokens in `localStorage`, the queue of the interceptor; the page's list of messages | renewal of tokens in every tab; lists, events and answers on the chat page | no request stranded, a logout lasts; the page shows what there is | tabs share tokens but no lock; three sources of messages |
| Announcements, notifications | announcements, notifications with a read flag | create, edit, publish, unpublish, remove, send, mark read | an audience is told of what is published, once | read, save and telling are three steps without a transaction |
| Social feed | posts, images, comments, reactions | post, edit, comment, react, remove | | a comment or an edit that meets a removal |
| The rest | single rows, logs, files | administration, queries, output | | no protocol |

Every component, the ones left out too, is listed in `PROJECT.json` with its
reason; the places where the code can go wrong in a way a test would hardly
reach are listed there under `hazards` with their lines and the properties that
watch them.

### How they interact

* The gateways, public pages and the parent portal call `payments`; it calls
  `recordOnlinePayment` of `fees`, which draws a receipt number in the same
  database transaction.
* Approvals call the adjustment handlers of `fees` with a stored payload.
* Uploads call students, parents and `bulkCreate` of `fees` in one transaction;
  the form makes an identity before it.
* An edit of a student calls `ensureForStudent` after its own transaction.
* Every page calls the API through one interceptor, which renews the tokens.
* Announcements and chat write notifications, which users read and mark; nothing
  else reads them back.

## 2. Modules

| module | models | kind |
|---|---|---|
| `FeeLedger` | bills, instalments, adjustments, cheque clearance | detailed |
| `FeeLedger_proofs` | theorems about it | proofs |
| `ReceiptIssuer` | every payment gets the next number of its sequence | abstract |
| `ReceiptSequence` | the transaction that draws a number, statement by statement, and the administrator | detailed, implements `ReceiptIssuer` |
| `ReceiptSequence_proofs` | theorems, and the refinement | proofs |
| `Settlement` | an order is captured at most once and credited at most once | abstract |
| `OnlinePayments` | orders, attempts, verification, webhooks, await by await | detailed, implements `Settlement` under conditions |
| `OnlinePayments_proofs` | theorems, and the refinement | proofs |
| `ConcessionDesk` | a concession is asked for, then granted or refused, and applied once | abstract |
| `Approvals` | `gate`, `approve`, `reject`, await by await, restarts | detailed, implements `ConcessionDesk` |
| `AdminLogin` | sign-in, counter of failures, lock, reset links, over several schools | detailed |
| `AdminSession` | tabs that share tokens, the interceptor's queue, `refreshTokens` | detailed |
| `ParentOtp` | codes per school, sending, verifying, burning | detailed |
| `FeeUpload` | files, validation, the transaction over students, parents and bills | detailed |
| `Families` | students' contacts, parents, links | detailed |
| `Identities` | the form, uploads and the backfill | detailed |
| `AcademicYears` | the flag of the current year | detailed |
| `ReceiptTemplates` | defaults and kinds | detailed |
| `Chat` | messages, previews, reactions, read marks, on the server | detailed |
| `ChatPage` | what the page shows, against what there is | detailed |
| `Notices` | announcements, and the notifications that tell of them | detailed |
| `SignIn_proofs` | theorems about `AdminSession`, `AdminLogin` and `ParentOtp` | proofs |
| `Office_proofs` | theorems about `Approvals` (with the refinement), `FeeUpload`, `AcademicYears`, `ReceiptTemplates`, `Families` and `Identities` | proofs |
| `Messages_proofs` | theorems about `Notices`, `Chat` and `ChatPage` | proofs |
| `School_proofs` | the invariants of all these carried over to `MCSchool` | proofs |
| `SetLemmas` | cardinalities, least and greatest numbers, induction over finite sets | lemmas |
| `MCFeeLedger`, `MCReceiptSequence`, `MCOnlinePayments`, `MCFeeUpload`, `MCSchool` | constants, symmetry and scenes for TLC | model checking |

Operators whose comment starts with "Mutant of" are no part of the
specifications: each is the definition after it with a plausible mistake, used
to see that a property can fail. Variables marked "(history)" are not columns:
they record what a property has to except or to compare with.

### FeeLedger and the code

Variables are the columns: one function over fees per column of `fees`, one over
payment rows per column of `fee_payments`; `adjusted` sums the audit rows of
`fee_adjustments` by kind. Amounts are integers (the smallest currency unit).

* Every handler but one opens a transaction and locks its fee rows first
  (`lockFee`, or the locking query of the bulk handlers), so it is one action:
  `BulkCreate`, `AddPenaltyForStudents`, ..., `RecordOfflinePayment`,
  `RecordOnlinePayment`. The shared tail (`recomputeDerived`, save,
  `logAdjustment`) is `Adjust`; guards are the handlers' early returns and
  exceptions.
* `updateClearance` reads the `fee_payment` row *before* it locks the fee
  (`fees.service.ts:1034` and `:1050`), so it is `ReadClearance`, then
  `CommitClearance`, which acts on the status `seen` at the read, with any other
  action in between; `AbortClearance` is the rolled-back transaction.
* Two constants say what the staff are assumed not to do: `ReclearBounced`
  (clear a bounced cheque) and `OverlappingClearance` (two requests on one
  cheque at a time). Runs say which they assume.

### ReceiptSequence and the code

A payment's transaction is `Begin` (read the school's format), then `LockRow`
(`SELECT ... FOR UPDATE` finds the counter) or `MissRow` and `InsertRow`, then
`InsertPayment`, then `Commit`. `lockedBy` is the row lock, or the key an open
transaction is inserting. `LoseInsertRace` and `Clash` are the two unique
violations; PostgreSQL aborts the transaction on either, so both `Undo` it,
which gives the number back. `Crash` is any other failure, `Retry` the request
sent again. The administrator is `UpdateReceiptConfig` and
`CorrectReceiptSequence`. A receipt number is `<<label, period, seq>>`: the
label is the visible format with the school's code or prefix, the only thing
about the text that matters for uniqueness across schools. `misled` and
`corrected` remember what administrators did to the sequences.

### OnlinePayments and the code

One fee, several gateway orders, several attempts at each. `outcome` is the
gateway's truth (external); `amount`, `status`, `transactions` and `credits` are
rows; `worker` holds the local variables of the requests being served and the
step they are at: `StartVerify`, `AskGateway`, or `StartWebhook`; then
`SavePayment`, `SaveTransaction`, `FindExisting`, `Credit`, which both handlers
share. `Credit` is one action because `recordPayment` checks the balance and
inserts under the fee lock (`FeeLedger` has its details); everything before it
is one step per `await`. `MoveBalance` is everybody else who touches the bill.
`Crash` ends a request anywhere, with and without an acknowledgement: the
webhook endpoint catches exceptions and answers with a success status
(`payments.controller.ts:90-93`), so the gateway does not send the webhook again.

What the code lets through shapes the model:

* A Razorpay webhook never reaches the credit. The router reads the order from
  `payload.payment.entity.order_id` (`unified-webhook.service.ts:154`), the handler
  wants `payload.payment.id` and `payload.order.id`
  (`webhook-handler.service.ts:101`), and no payload has both shapes. So only
  orders outside `RazorpayOrders` have webhooks.
* The Cashfree page cannot name the payment (`public-pay.dto.ts:23` makes the id
  optional), and `verifyPayment` refuses without one
  (`payments.service.ts:295`). `PaymentNamed` says whether other clients of the
  endpoint do name it.

### Approvals and the code

`status` and `result` are columns, `stage` is the `await` a request has reached:
`BeginDecision` is the `findOne` with its test of PENDING, `RunCommits` and
`RunFails` the stored `FeesService` call (one transaction), `SaveApproval` and
`SaveRejection` the `save`. A failed call is saved as APPROVED with an error, as
`approvals.service.ts:155` has it. `overlapped` and `interrupted` remember the
concessions two requests decided at once and those a restart cut off between the
fees and the row; together they are `Disturbed`, for which the code promises
nothing and `ConcessionDesk` neither.

### AdminLogin, AdminSession, ParentOtp and the code

* `AdminLogin` has one e-mail address with a row in each school. A sign-in
  reads all rows (`ReadAccount`), compares with bcrypt, reads the count
  (`ReadFailures`) and writes back what it computed from it (`WriteFailures`);
  `forgotPassword` marks (`MarkRow`) and `resetPassword` writes
  (`CompletePasswordReset`) the rows one by one. Failures and lock are written to all rows by one
  statement, so they are one value.
* `AdminSession` numbers the tokens. `BeginRefresh`, `Queue`, `NothingToRefresh` are
  the interceptor of `api-client.ts`; `CheckRefresh` and `RotateToken` the two
  halves of `refreshTokens`; `Refreshed` writes the pair to `localStorage`, which
  all tabs share, and resends the queue. `isRefreshing` is per tab. The API
  compares a token with a bcrypt hash of it, bcrypt reads 72 bytes and the tokens
  of a row share those, so `TokenMatches` holds as long as there is a hash.
* `ParentOtp` keeps `parent_otps` as a sequence in the order of `created_at`.
  `sendOtp` marks the old codes used and inserts the new one, school by school;
  the mail comes last and may fail (`MailOtp`), in which case the rows stay.
  `verifyOtp` reads the newest unused row over the schools it found the parent
  in, compares, and burns. Without a school code both serve the schools whose
  parent row is active; a school that is named (`SendOtp` with one school,
  `OpenSession` with `named`) is served active or not, because
  `resolveParentByEmail` does not ask; `selectTenant` asks again. `Spellings` are
  the ways the parent types the address; the database stores lower case.

### FeeUpload, Families, Identities and the code

* `FeeUpload`: `Validate` (outside any transaction), `ReadRows` (the reads of
  `bulkUpsert` and `ensureForStudent` inside it), then `Save` or `Conflict`. A unique
  key makes an INSERT wait for the other transaction, so the writes of a request
  take effect at its commit or not at all. The comparison of the school code is
  without case where the code has it so, exact where the database does it.
* `Families`: an edit of a student commits the student (`UpdateStudent`) and then calls
  `ensureForStudent`, whose reads are `ReadFamily` and whose writes commit or fail as
  one (`CommitFamily`, `FailFamily`);
  an enrolment commits both; a sweep at start-up calls it for each student. An edit
  of another field reads the student (`ReadStudent`) and saves the whole copy
  (`SaveStudent`) without a call of `ensureForStudent`, so it may put an old address
  back. An administrator edits parents and links in between.
* `Identities`: a backfill reads all rows without an identity, then groups them by
  person and stamps row after row by id (`StampRow`), whatever the row has by then.

### AcademicYears, ReceiptTemplates, Chat, ChatPage, Notices and the code

* `AcademicYears`: `SeekCurrent` is the UPDATE finding its rows, which then waits for
  rows another transaction has locked; the commit saves the year. Every other edit
  saves a copy.
* `ReceiptTemplates`: a revision clears the defaults it replaces in one statement and
  saves its copy in another.
* `Chat`: a message gets `created_at` when its transaction begins and is seen when it
  commits; edits, deletions and reactions save a copy. `ListMessages` reads the newest
  `PageLimit` messages (100, `ChatPageContent.tsx:170`), `ShowMessages` is the answer
  on the page, `ReceiveMessage` the event of a message, which reaches its sender too;
  both ask for a mark, and `MarkRead` writes what was asked for, whatever the mark is
  by then. `skipped` (history) are the messages that such a mark passes over: those
  that did not fit the list, and those older than an event's that were not shown.
* `ChatPage`: a request saves a message (`SendMessage`, `ChangeMessage`), which puts
  the copy it saved into `pending`, and emits it some queries later (`EmitChange`), so
  that two changes of one message may be emitted in either order. The page shows
  answers to `loadMessages` (of `ListLimit` messages, in any order of arrival), events of the
  socket (in the order of emission, while in the room), answers to its own requests
  (`AnswerArrives`, never before the emission), and what it guesses of a reaction
  (`ShowGuess`). The gateway joins a room after it looked up the membership.
  `current` (history) says of the page what `LivePageIsCurrent` needs: its last list
  was what was stored, the events under way were not older than that list
  (`EventsUpToDate`), and since then no event was missed, emitted after a later one
  of its message (`Overtaken`), or overwritten by an answer to something older.
* `Notices`: `update`, `publish` and `unpublish` read the row and change the copy
  (`ReadAnnouncement`), save it (`SaveAnnouncement`), and tell the audience by one row
  of notifications (`NotifyAudience`) or lose it (`LoseAnnouncing`), in three steps. A
  reader's mark is its read and its save; one save inserts the row again if it was
  removed meanwhile. `asked` (history) counts the saved edits of a live announcement
  that changed it and asked for publication: the code tells nobody of them, the
  comment of `update` says it does. `PublicationIsTold` allows both (section 4).

## 3. Runs

Deadlock is not checked: bounded instances stop when rows, audit sums,
edits or crashes are used up, and a school may stop using the system.

| run | question | instance |
|---|---|---|
| `fee_ledger_any_staff` | whatever staff ask for: are `net_amount` and `payment_status` ever stale, do totals move without their audit rows, is a paid bill reopened by anything but a bounce or a discount taken back? | 2 bills, 1 instalment, 2 overlapping clearance requests |
| `fee_ledger_careful_staff` | with careful staff, is `paid_amount` the sum of the rows that count, and how can a bill get overpaid? | 1 bill, 3 instalments |
| `fee_ledger_overlap` (violation) | does that survive two CLEARED requests for one cheque? | 1 bill, 2 instalments |
| `receipt_numbers` | whatever administrators set: do transactions never wait in a circle, and are uncorrected sequences without a hole; does the code implement `ReceiptIssuer`, and is every payment recorded in the end? | 3 payments, 2 schools, 2 labels, a forward or backward correction, 1 crash |
| `receipt_rolled_back` (violation) | is every payment recorded after a counter was moved back? | 2 payments |
| `online_safety` | is money credited only when taken and explained, never above the balance; does `paid` mean captured? | 2 orders (one per gateway), 2 attempts each, a verification and a webhook, moving balance |
| `online_settles_once` | orders for the whole of a shrinking balance: implements `Settlement` | 2 orders, 1 lost request |
| `online_webhooks_alone` | is captured money credited in the end, by webhooks alone? | 1 order, 3 attempts, 2 webhooks at once |
| `online_crash_half_way` (violation) | is it, if one request is lost half way? | 1 order, 1 attempt |
| `online_double_credit` (violation) | is an order credited at most once? | 1 order, 1 verification, 1 webhook |
| `school` | the scenes below | 1,141,044 states |
| `upload_billed_twice` (violation) | is a term billed once if files spell the school code in two ways? | 2 files, 2 spellings, siblings |

### The scenes of `school`

The parts of the daily business share no state in the models: `MCSchool` extends
all of their modules, and its variable `scene` says which one is at work while
the others rest, so the state spaces add up instead of multiplying. Each scene
is explored with its own `Next` and its own properties; a property of a part at
rest is true of its initial state.

| scene | states | instance | shows |
|---|---|---|---|
| `login` | 250k | 2 schools, 2 sign-ins, 1 link, 2 passwords, lock after 2 | `FailuresCounted`, `ResetEndsSessions`, `ResetReachesEverySchool` |
| `session` | 62k | 2 requests of one tab, 1 of another, 3 pairs of tokens | `QueueIsServed`, `LogoutLasts`, `OnlyRevocationThrowsOut` |
| `otp` | 65k | 2 schools, 2 codes, 2 verifications, 2 spellings | `CodeDiesWithItsUse`, `LatestCodeWorks` |
| `approvals` | 14k | 2 concessions, 2 deciders, 1 restart | `RowTellsLedger`, `DecidesLikeDesk` |
| `upload` | 33k | 2 requests, 2 spellings, 2 siblings, 2 terms, files of 2 rows | `BilledOnceIfSpelledAlike` |
| `families` | 76k | 2 children, 2 addresses, 2 requests, 3 edits, 1 intervention | `ContactsCanSignIn`, `FailsOnlyInCompany` |
| `identities` | 111k | 2 persons over 3 rows, 2 backfills, a form | `SiblingsStayApart`, `BackfilledTogether` |
| `years` | 23k | 3 years, 2 editors, 4 requests | `OneCurrentYear` |
| `templates` | 129k | 2 templates, 2 editors, 3 requests | `DefaultIsPicked` |
| `chat`, `marks` | 27k, 61k | 2 members, 2 requests; 2 messages and 2 changes, or 3 messages and lists of 2 | `PreviewShowsLatest`, `CallsKeepOthersWork`; `UnshownIsUnread` |
| `page` | 219k | 2 conversations, 2 messages or changes, lists of 1 message, 2 lists at a time, 1 disconnection or restart, 3 things under way at a time | `LivePageIsCurrent` |
| `notices` | 70k | 1 announcement, 2 requests at a time and 4 in all, 2 notifications, a reader | `PublicationIsTold` |

Three reductions are of names that do not matter: in `login` the first school has
the first password, in `otp` the codes are sent in one order (`CodesInOrder`), in
`page` one conversation is opened first (`OpensFirst`). `chat` is about messages and
requests, `marks` about messages and read marks, because the two do not meet. In
`marks` one member reads, because what a member has read depends on nobody else's
marks, with two lists or marks under way at a time (`OneReads`). In `page` three
things at a time are under way: changes to be emitted, events, answers, lists
(`FewUnderWay`, `MaxUnderWay`), enough for two changes emitted in reverse beside a
list. In `otp` one code is sent in behaviours where a parent row is switched
(`OneCodeIfSwitched`), because the properties except what follows. The theorems
`UnshownCorrect`, `PageCurrent`, `LatestAccepted` and `UsedCodesAreDead` have none of
these bounds.

Many of these properties have exceptions, and the exceptions are the point: the
code promises nothing when requests meet in a certain way, the property says in
which way exactly, and TLC shows that there is no other. Section 4 lists what
happens in the excepted cases.

### Bounds, and why they are enough

* *Amounts.* A bill of 4, payments and adjustments of 2 and 3, a tolerance of 1:
  sums below, at, within the tolerance of and above the balance all occur, two
  cheques of 3 overpay a bill of 4, and upload discounts of 5 and 8 exceed the
  bill, 8 by more than a penalty and the tolerance make up. `MaxAudited` bounds penalties and discounts, `MaxFeePayments` the rows.
* *Concurrency.* Two requests suffice for a race on one row; three payments let
  one draw, one wait and one fail. Two schools share the constraint on receipt
  numbers; two periods would only copy one school's counters.
* *Attempts.* Two failures before a success (three attempts) let a late failure
  come after a success and a webhook be delivered twice.
* *Tokens.* Three pairs let both tabs rotate the hash after the sign-in; three
  requests let one wait in the queue of its tab while the other tab renews.
* *Codes and links.* The second code overtakes, or is overtaken by, the first.
  One reset link: two that are requested at the same time may leave the rows with
  different links, which `ResetReachesEverySchool` excepts.
* *Lists.* Lists of two messages out of three (`PageLimit`), and of one out of two
  (`ListLimit`), leave one out, as lists of 100 do out of 101.
* *Edits.* `MaxEdits`, `MaxYearEdits`, `MaxTemplateEdits` and `MaxAnnouncing` allow for a first request
  that makes the rows and two or three that meet over them.
* *Crashes, restarts, interventions, drops.* One per behaviour; a second finds the
  same states.
* *Symmetry* is used where only safety is checked.

### Fairness

* `ReceiptSequence!FairSpec`: weak fairness of each payment's `Step`, which
  includes `Retry`. The database finishes what it began and the office sends a
  failed request again, which is what the error messages tell it to do. A
  request is never continuously blocked: the transaction it waits for ends
  (theorem `WaitsAlwaysEnd`: none waits in a circle).
* `OnlinePayments!FairSpec`: weak fairness of serving a request and of
  delivering an unacknowledged webhook (gateways resend). Payers, browsers and
  staff owe nothing.
* `MCSchool` assumes none: that the interceptor's queue is emptied is stated as
  safety (`QueueIsServed`: whoever waits has a renewal in progress to wait for, and
  every renewal, answered or not, ends in an action that empties the queue).

## 4. What was found

Five runs show the code doing otherwise than its comments or docs say (details with
the quoted lines in `PROJECT.json`, `findings`):

1. **A cheque counted twice.** Two overlapping CLEARED requests both see PENDING;
   the amount is added twice. The doc calls a repetition a no-op.
2. **A counter moved back blocks its period.** `correctReceiptSequence` accepts a
   value below issued numbers; the next payment clashes with
   `uq_fp_receipt_number`, which rolls back the increment too, so every retry
   clashes again.
3. **A webhook lost half way is never credited.** The `transactions` row is
   written before the credit, in no transaction with it, and marks the webhook as
   processed.
4. **Two credits for one order.** The search for an existing `fee_payments` row and
   its insert are apart; when the order is for at most half of the balance the
   balance check does not refuse the second. The run where it is for the whole
   balance refines `Settlement`.
5. **A term billed twice.** A file may spell the school code in any case
   (`upload-validation.service.ts:48` compares without it), but students and bills are
   stored as typed and every look-up and unique key compares exactly: the same
   row uploaded again as "main" instead of "Main" makes a second student with a
   second bill of the term. `BilledOnceIfSpelledAlike` is what remains, and is proved.

Met while modelling, described by the models but not by a run of its own.

*Money*

* A bounced cheque that is cleared again adds nothing: the chain at
  `fees.service.ts:1052` has no branch for BOUNCED to CLEARED, although `:1018`
  says clearing adds the amount. This is why `LedgerBalanced` needs
  `ReclearBounced = FALSE`.
* `PAID` does not mean paid exactly, as `fee.entity.ts:63` has it: `fee-math.ts:107`
  says PAID as soon as paid covers net, and paid may be above it.
* `bulkCreate` clamps net at 0 (`:257`), `recomputeDerived` does not: a bill
  uploaded with a discount above its amount drops below zero at its first
  adjustment, even if that adds a penalty, and counts as overpaid from then on.
  `NetFollowsTotals` and `OverpaidOnlyByWaiverOrCheque` state the exception.
* Two schools whose formats and codes look the same after sanitizing draw the
  same numbers (`:1554`), and numbers are unique over all schools; one of them then
  fails until its counter has passed the other's. Hence `misled` in
  `DrawnNumberIsFresh` and `EveryPaymentRecorded`.
* `generateReceiptNumber` catches the loser of the insert race and re-reads
  (`:1516`), but PostgreSQL has aborted the transaction by then: the request fails,
  and only a new one succeeds.
* A verification that asks before the money is taken writes a failed
  `transactions` row with the payment's id; the later webhook takes itself for a
  duplicate (`webhook-handler.service.ts:296`). So with `PaymentNamed` the
  webhook is no safety net, and `CapturedIsCredited` is checked without it.
* A refused credit that nothing reconciles: if the balance falls while an order is
  paid, `recordPayment` refuses the credit and `verifyPayment` swallows the refusal
  ("Non-fatal: the webhook reconciles if this fails", `payments.service.ts:416`), but
  the transactions row it wrote makes the webhook take itself for a duplicate: the
  money is taken and no fee payment is ever written. With one order of the whole
  balance, `PaymentNamed`, one verification, one webhook, a balance that may fall and
  no crash, TLC refutes `CapturedIsCredited`: the credit is refused and not tried again.
* The mismatch of the Razorpay payload (section 2) and the missing payment id of the
  Cashfree page are constants of the model, so no property is about them.
* `recordPayment` refuses what is above the balance and 0.01 more
  (`fees.service.ts:951`), so an order for a single paisa can be credited twice even
  though it was for the whole balance. TLC finds it with `InitialDue = 1`, and the
  proof that `Settlement` is implemented needs `MoreThanTolerance` for it.
* `payments.amount` is an `int` column (`payment.entity.ts:75`): an order with
  paise is refused by the database after the gateway accepted it.

*Approvals.* Two administrators who approve at once apply a concession twice
(`approvals.service.ts:149`), a rejection saved during an approval leaves an applied
concession marked as rejected (`:184`), and a restart between the fees and the row
leaves it PENDING, to be applied again (`:154`).

*Sign-in*

* A password reset leaves `failed_login_attempts` and `locked_until`, although the
  message of the lock says "or reset your password" (`auth.service.ts:256`, `:286`).
* `sendOtp` stores a code under the lower-case address, `verifyOtp` asks for it under
  the address as typed (`parent-auth.service.ts:124`), so a parent who types
  capitals is refused, although `parents.service.ts:87-91` finds them.
* A logout in one tab while another renews the tokens: the renewal writes them back.
* bcrypt reads 72 bytes and the refresh tokens of a row share them: an old refresh
  token still matches the hash of a newer one. `OnlyRevocationThrowsOut` holds
  because of it: with a comparison that told tokens apart, two tabs would sign each
  other out (this is its mutant).

*Families, identities, years, templates*

* `POST /parents` looks the new row up outside its own transaction
  (`parents.service.ts:64`), does not see it, and is always rolled back.
* When a student's address is changed, the old parent keeps the link
  (`students.service.ts:123`).
* The sweep at start-up reactivates parents an administrator deactivated
  (`parents.service.ts:217`).
* Two first children of one parent at the same time may both be primary.
* A later year's upload gets a new identity from the next backfill, although
  `student-identities.service.ts:265` speaks of the same person across years; the
  backfill groups only rows without one (`:274`).
* Two administrators who make different years current at the same time leave two;
  a stale copy of a year or of a template sets the flag again.
* A default for ONLINE clears the default for BOTH, so OFFLINE has none; a default
  whose `kind` is updated without `isDefault` may be a second one; a request lost
  after clearing leaves none.

*Chat.* Two conversations between the same people, if both start one at once
(`chat.service.ts:294`). A reaction or an edit saved over a deletion undoes it. A mark
that arrives late moves the read mark back, which only makes messages unread again.
The page asks for the newest 100 messages and marks the last one read
(`ChatPageContent.tsx:170`, `:173`): of more unread ones the older are read without
having been shown. So is a message whose event was missed, or comes later, when the
event of a later one arrives (`:224`). Two changes of a message are emitted each some queries after
its save (`chat.service.ts:629`, `:644`); if the earlier one is emitted last, pages in
the room show it until the next tick. These are what `skipped` and `current` except.

*Announcements, notifications, social feed*

* An edit saved from a stale copy publishes, hides or restores the announcement as it
  was when read: the copy has no `deleted_at`, so `save` (`announcements.service.ts:105`)
  also undoes a removal. Two publications at once tell the audience twice. Hence
  `staleEdits` in `PublicationIsTold`.
* The comment at `announcements.service.ts:77` says that editing a published row
  notifies again if the content changed and `publish: true` is sent. `update` tells
  only of what was a draft (`:100`) and does not compare contents. The properties take
  no side: `PublicationIsTold` counts such edits (`asked`) and allows up to one more
  notification for each, and the code sends none.
* A mark saved after the notification was removed inserts it again
  (`notifications.service.ts:89` and `:108`).
* A comment or a like that looked the post up before its removal stays behind on the
  removed post (`social.service.ts:202`, no foreign key), and an edit begun before the
  removal restores the post, without its comments (`:147`).

## 5. Proofs

All theorems hold for every value of the constants under the named ASSUMEs of
the modules (amounts natural, bounds natural, model values distinct from data, a
conversation has members),
and are checked by `tlapm` with Z3, Zenon and LS4.

* **`FeeLedger_proofs`**: `TypeCorrect`, `DerivedCorrect`, `TotalsAudited`,
  `ReopeningCorrect`, `LedgerCorrect`, `OverpaymentCorrect`. The conjunction of the type invariant, `NetFollowsTotals` and
  `StatusFollowsAmounts` is inductive; `Adjust` is treated once, for
  any new totals, and each handler supplies why its totals stay natural, which audit
  row it logs for them (`LogsDifference`), and that it spares PAID bills
  (`SparesPaid`). `AddDiscount` has no such guard: that it cannot reopen a PAID bill
  follows from its comparison with what was paid, and, on a bill whose net was
  clamped, from `PenaltyAudited` (no audit rows, hence no penalties).
  `LedgerCorrect` states `LedgerBalanced` for staff who neither
  overlap nor re-clear (`~OverlappingClearance`, `~ReclearBounced`). A sum over
  rows is a recursive function and the provers do no induction over data, so the
  invariant carries a *witness*: for each fee some function of running totals
  over the rows whose last value is `paid_amount`. Each action replaces the
  witness from one row on, which is first-order; `SetInduction` then shows that
  a witness is the recursive function. Monotonicity of the witness is what shows
  that a bounce never hits the floor at 0; that a request saw the current status
  of its cheque is the other half, and is where the assumption is needed.
  `OverpaymentCorrect` is `OverpaidOnlyByWaiverOrCheque` under the same assumptions:
  an adjustment that waives no penalty raises the net or has compared it with what
  was paid (`Covers`), and a clearance counts a cheque that is still PENDING.
* **`ReceiptSequence_proofs`**: `TypeCorrect`, `HoldersDiffer`, `FreshCorrect`,
  `WaitsAlwaysEnd`, `SequenceImplementsIssuer`, `GaplessCorrect`.
  A transaction that drew a number holds the row lock until it
  ends (`DrawnUnderLock`), so the counter stands still and the number stays the
  next one (`DrawnIsNext`); recorded numbers are at most the counter
  (`RecordedBelowCounter`) until one is moved back, and a label belongs to one school
  (`LabelsAreOwned`) until it is shared. That recorded numbers are unique is no
  theorem: it is the unique index, a guard of `InsertPayment`; `HoldersDiffer` and
  `FreshCorrect` say that the drawing alone keeps them apart until then.
  `WaitsAlwaysEnd` is freedom from deadlock: a locked counter has a transaction at
  work that has drawn (`LocksAreHeld`), and whoever is waited for has got further
  than who waits, so a chain of waits has two links at most. The lock of the fee,
  which `recordPayment` takes first, adds no circle: who holds a counter asks for no fee.
  `HoldersDiffer` and `FreshCorrect` are proved and not part of a run: with
  `WaitsAlwaysEnd` they are why `EveryPaymentRecorded` holds.
  `SequenceImplementsIssuer` is the refinement, `GaplessCorrect` the shape of the
  sequences. Only `Commit` and corrections are steps of `ReceiptIssuer`; everything else stutters.
  `GaplessCorrect` needs the recorded numbers of a key to be an interval that ends
  at the counter.
* **`OnlinePayments_proofs`**: `TypeCorrect`, `CreditCorrect`, `OvercreditCorrect`,
  `PaidCorrect`, `SettlementImplemented`. The strengthening is `RequestsAreTrue`: past the gateway's
  answer, a request that says success names a captured attempt, and past
  `SaveTransaction` the row that explains the credit exists. Outcomes and
  transactions only grow (`TruthIsStable`), so this survives everything the
  other requests do, and what a lost request leaves behind is true as well.
  `SettlementImplemented` is the refinement: with orders for the whole balance, moves
  that only lower it (`WholeBalances`, what the run assumes) and no order of 0.01 or less
  (`MoreThanTolerance`), every order covers what is due and nothing is due once a
  fee is credited (`CoversBalance`), so the balance check refuses the second credit;
  every step but an attempt that is captured and a credit that fits is a stutter.
* **`SignIn_proofs`**.
  *Session*: `SessionTypeCorrect`, `QueueCorrect`, `LogoutCorrect`, `ThrownOutCorrect`.
  `QueueIsServed` is not inductive: it needs that `isRefreshing` is set exactly while
  one request of the tab renews (`Renewals`). A logout lasts because no renewal is
  left, and none begins while nothing is stored (`Logouts`). A renewal is refused
  only without a hash, and once a pair was issued only `ClearHash` takes it away
  (`Hashes`).
  *Sign-in*: `LoginTypeCorrect`, `FailuresAreCounted`, `SessionsEnd`, `ResetsReachAll`.
  Unless requests raced for the counter, each of them has read what it is
  (`CountsRight`); unless one was in progress during a reset, each has read the hashes
  there are (`SessionsRight`); and unless requests for links raced, at most one link is
  at the rows and those behind it agree (`LinksAgree`), which is why the reset that
  follows finds them all.
  *Codes*: `OtpTypeCorrect`, `LatestAccepted`, `UsedCodesAreDead`. A used code has no
  unused row and gets none, because its mail was sent after its rows were written
  (`SpentIsUsed`, `MailedHasRow`); the row inserted last is unused, or all are used
  and its code has expired or opened a session (`NewestIsLast`).
* **`Office_proofs`**.
  *Approvals*: `ApprovalsTypeCorrect`, `RowCorrect`, `ApprovalsImplementDesk`. The
  invariant `Orderly` says of each undisturbed concession that one request at most
  works on it (`DecidedAlone`), its row being PENDING meanwhile, and that it was
  applied exactly if that request is past `run` or the row says so
  (`AppliedAsTold`). The refinement maps a row, and the stage of the one request, to
  where the concession stands at the desk; `DeskStep` shows, action by action, that
  this moves as at the desk: granting happens at `run` (or, when `run` fails, at
  the save), a second decider and a restart are `Disturb`.
  *Uploads*: `UploadTypeCorrect`, `BilledOnceCorrect`. Students and bills carry a
  spelling from some file (`FromFiles`); if there is one spelling, a bill of the same
  student and term has the same key, and the unique key refuses it, whatever the
  validation saw.
  *Years*: `YearsTypeCorrect`, `OneYearIsCurrent`. While requests with the flag do not
  meet there is one of them (`FlagAlone`), and it knows which rows have the flag:
  those it has found, or unset, or its own (`KnowsCurrent`).
  *Templates*: `TemplatesTypeCorrect`, `DefaultPicked`. The template chosen last has no
  rival (`ChosenAlone`), and after the clearing statement neither has the copy that is
  to be saved (`Cleared`), because no other request is at a default (`NoneDisturbed`).
  *Families*: `FamiliesTypeCorrect`, `ContactsSignIn`, `UndisturbedSucceeds`. A request
  that no administrator crossed knows rows and links that are there still
  (`KeepsServing`); one that met nobody knows them exactly (`ReadsRight`), so its inserts
  cannot fail.
  *Identities*: `IdentitiesTypeCorrect`, `SiblingsApart`, `GroupsEndTogether`. An
  identity belongs to the person it was made for (`OfItsPerson`), although a backfill
  stamps rows it read long before, because the group at hand is of one person
  (`GroupAtHand`); its rows stay together because nobody else has them
  (`HeldApart`, `StampedTogether`).
* **`Messages_proofs`**.
  *Notices*: `NoticesTypeCorrect`, `AudienceToldOnce`. A copy that is to be saved says
  rightly whether its save publishes, as long as no other save came between
  (`CarefulCopies`).
  *Chat*: `ChatTypeCorrect`, `PreviewCorrect`, `UnshownCorrect`, `OthersWorkKept`. A copy
  that no save made stale is the row but for what its call is about (`FreshCopies`);
  the preview is the latest message or a handler that has it as it is will refresh it
  (`PreviewFollows`); whatever is or will be marked read is earlier than what was not
  shown and not passed over (`MarksInOrder`), also by a list that is still under way.
  *Page*: `PageTypeCorrect`, `PageCurrent`. A message has one row (`RowsOnce`), and
  what is pending, answered or under way is of a row that exists, in a version no newer
  than it (`CopiesOfRows`). While the page is current it shows only what there is or was
  (`InDatabase`), each message once; of each of the newest messages it shows some version or the
  event of its sending is to come; and each row it shows, or should, is shown as it is
  with no event that would change it (`Settled`), or its last event is to come
  (`Coming`, `SentOff`): together `ShowsOpen`. Once nothing is pending or under way the
  page is right. The step that matters is `EmitChangeStep`: an event that is not
  `Overtaken` reports what the row is, or the row has a later change pending. The
  proof covers every number of changes and switches: with three of each (the run has
  two) a list that was asked for after leaving and coming back may arrive with older
  events still to be handled, which is why `current` asks for `EventsUpToDate`.
* **`School_proofs`**: `SchoolTypeCorrect`. In each scene one component moves and its
  step lemma applies, so every invariant above holds of the composition as TLC runs
  it.

`SchoolInv`, the conjunction of the inductive invariants over the scenes, can be checked
by TLC as well: it holds in all states of the run `school` (`School_proofs` with
`MCSchool.cfg` and `SchoolInv` among the invariants).

Model-checked only: liveness (`EveryPaymentRecorded`, `CapturedIsCredited`),
because the provers have no fairness and no ENABLED; and the violations, which are
counterexamples. Every other property of a passing run is a theorem.

## 6. Not modelled

Most lines of the repository are pages, DTOs, entities, queries and rendering: they
keep no state of their own, and what a page sends is the environment of the models.
Left out of what is modelled, with the reason:

* *Queries, parsing of sheets, mail, files, logs, guards, formatting*: no state, or
  state that nothing reads back. The database is modelled by its locks, constraints
  and isolation, not its implementation.
* *Penalty rules, tenants, gateway configuration, metadata, templates of messages,
  users*: rows that one request writes, under unique keys, and that nothing else
  depends on beyond reading them.
* *Social feed*: rows that one request writes and that nothing else in the program
  reads; its races are told in section 4.
* *Approvals*: what a concession does to the bills is `FeeLedger`; here it commits or
  fails.
* *Sign-in*: accounts of the `users` table, the throttle, the seven days after which a
  refresh token itself expires, and the parents' renewal of tokens, which works as
  the administrators'. One password reset is in progress at a time, and one that a
  restart cuts off between two rows is left out. `ReadOtp` merges the two reads of
  `verifyOtp`, the parent's rows and the code; the demo mode, which accepts any code,
  is left out.
* *Uploads*: the sheet is a set of rows; penalties and discounts in a row are
  `BulkCreate` of `FeeLedger`. Transfer certificates are edits of single rows.
* *Years*: renaming one. *Identities*: editing the details of one, and the search for
  matches, which only proposes.
* *Chat*: starting a conversation, attachments, typing notices, and the older messages
  of a conversation (`beforeId`, which the page never sends). Deleting a message twice
  emits it again and changes nothing. On the page, a click and the save it asks for are
  one step, messages are numbered in the order of their commits, and the gateway takes
  a leave of a room at once.
* *The mobile applications* are pages over the same API.

Each component is listed with its reason in `PROJECT.json`.
