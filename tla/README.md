# Digestor Fiscal: formal models

TLA+ specifications of the Digestor Fiscal service, the instances TLC checks
and the theorems TLAPS proves about them. Paths are relative to the repository
(`src/`); line numbers are given in `PROJECT.json`, which maps every definition
to the code it models.

## The system

Digestor Fiscal is one FastAPI process (Procfile: one hypercorn worker) over a
SQL database. It receives "constancias de situacion fiscal" (CSF) as PDF,
extracts and validates their fields, and lets operators approve them, send them
to a customer's webhook and invoice with them through a PAC.

Three kinds of threads touch the database at the same time, each with a
SQLAlchemy session of its own (no autocommit, no autoflush, default isolation):
`async` endpoints on the event loop, plain endpoints in the thread pool, and
two background loops started by `lifespan` (app/main.py): the document workers
(`DOCUMENT_QUEUE_WORKERS`, 1 by default) and one outbound delivery worker, both
through `asyncio.to_thread`.

| Component | State | Operations | Talks to |
|---|---|---|---|
| Document jobs (`services/document_queue.py`, `services/job_service.py`, `api/routers/documents_v1.py`) | rows of `document_jobs`; an `asyncio.Queue` in memory; worker tasks | upload, get, processing, done, failed, start, stop | CSF records, audit trail |
| Audit trail (`services/audit_service.py`, `api/routers/audit_v1.py`) | rows of `audit_logs`, a hash chain per company | create_audit_log, verify_audit_chain | called by jobs, approval, outbound |
| Outbound sync (`api/routers/sync_v1.py`, `services/sync_outbound_service.py`, `services/outbound_delivery_service.py`) | rows of `document_sync_events` | enqueue with Idempotency-Key, batch delivery, retry, dead letter | CSF records (approval gate), audit trail, the customer's webhook |
| CSF records (`api/routers/upload.py`, `api/routers/csf.py`) | rows of `csf` | persist or update by hash, revalidate, approve | written by jobs and direct uploads, read by outbound and billing |
| PDF extraction (`services/ingest.py`) | a cache of addresses and one of QR verdicts, in memory | process_pdf, process_zip, validate_qr_status | OpenAI, Groq, INEGI, SAT |
| Billing drafts (`api/routers/commercial_v1.py`, `models/commercial.py`) | products, drafts, lines, stamped XML, events of stamped drafts | create, edit, preview, stamp | PAC client, survival sync (its table) |
| PAC client (`services/timbracfdi_client.py`, `api/routers/billing_v1.py`) | none; the PAC keeps the invoices | post a CFDI by REST or SOAP, read the answer | the PAC |
| Survival sync (`services/survival_engine.py`, `api/routers/sync.py`) | rows of `eventos_facturacion` | sync_batch, get_changes | offline clients |
| Recipient validation (`api/routers/receptor_validate.py`) | none | validate, with a probe at the PAC | PAC client |
| Accounts and tenants (`core/auth.py`, `api/routers/auth_router.py`, `services/user_service.py`, `services/jwt_service.py`) | accounts, tokens at large | register, sandbox sign-up, login, tenant scope | every endpoint |
| Telemetry, metrics (`services/telemetry.py`, `services/metrics_service.py`) | an in-memory window of events | record, summary, alerts | uploads, autopoll loop |

### What is hard

* **Loss.** Rows survive a stop of the process; the queue, the requests in
  flight and the tasks do not. Nothing is reconciled at start.
* **Errors in the middle.** Every operation is a sequence of commits. A
  database error in the worker poisons its session, and the `except` branch
  goes on with that session.
* **Read, then write.** The audit chain, the idempotency key, the approval gate
  and drafts are read in one statement and written in another, with no lock.
* **At least once.** A webhook, a PAC or the service itself may have acted
  although no answer came, and is asked again.
* **Answers that mean three things.** SAT, the PAC and the AI services say yes,
  no, or fail; a failure must not be taken for a no.
* **Limits.** Attempts, delays, batch sizes, pages.

What makes each component correct: a job is processed by one worker, ends, and
names a stored document; the trail of a company is one chain and names no other
tenant's; one key names one event, an event is posted until it is answered or
its attempts are used, and the trail tells its attempts; a draft agrees with its
lines and its stamp, and billing events are the invoices the PAC has issued;
an event that a client was told of is stored, once, for its own tenant; a report
on a document agrees with its corrections, and a verdict was given by someone; a
token speaks for the account it names.

## The modules

| Module | What it is |
|---|---|
| `JobLifecycle` | abstract: what a client that polls a job may rely on |
| `DocumentJobs` | the handler, the queue, the workers, their errors, crash, shutdown and restart; refines `JobLifecycle` |
| `DocumentJobs_proofs` | its theorems |
| `AuditChain` | writers of the hash chain, one step to read and one to insert, and the verification |
| `AuditChain_proofs` | its theorems |
| `OutboundEvent` | abstract: the life of an event as its status endpoint reports it |
| `OutboundSync` | requests, database, delivery worker and endpoint; refines `OutboundEvent` |
| `OutboundSync_proofs` | its theorems |
| `CsfRecord` | rows of `csf` and the uploads, approvals, revalidations and readings with corrections that overlap on them |
| `CsfRecord_proofs` | its theorems |
| `PacClient` | operators: where a CFDI is posted and how answers of the PAC are read |
| `RecipientCheck` | operators: the catalogues and rules of a recipient's fields, the verdict |
| `BillingDrafts` | requests on drafts, stamping, proxied CFDIs and recipient checks, over `RecipientCheck` and `PacClient`, with the PAC as an actor |
| `BillingDrafts_proofs` | its theorems |
| `TenantScope` | operators: who a request comes from and which tenant it may touch |
| `SurvivalSync` | batches of offline clients, the events of stamped drafts and a reader of changes, over `TenantScope` |
| `SurvivalSync_proofs` | its theorems |
| `Accounts` | registrations, sign-ups, logins and tokens, over `TenantScope` |
| `Accounts_proofs` | its theorems |
| `CsfFields` | operators: fields, suggestions, corrections and the report on them |
| `Geocoder` | operators: from an address to a place of the catalogue of INEGI |
| `Extraction` | threads that process documents and check QR texts with shared caches, over `CsfFields` and `Geocoder` |
| `Extraction_proofs` | its theorems |
| `MC*` | instances for TLC: concrete keys, documents and contents |

Operators called `X_Something`, each after a comment that begins with
"Mutation", are deliberate errors, the mutated form of `X`; no specification
uses them. They show that the properties notice a mistake of that kind.

### DocumentJobs

State: the rows (`status`, `documentId`, `csfs`, `startLog`, `endLog`), the
process (`process`, `request`, `queue`, and for each worker `pc`, `task`,
`poisoned`). The handler `ingest_document` has a step for each of its calls
(`CreateJob`, `AuditStart`, then `Enqueue` or `ReadFails`); a worker has one for
each call of `_process_document_task`: `UpdateJobProcessing`, `Extract`,
`PersistCsf`, `UpdateJobDone`, `AuditDone`, and in the except branch
`UpdateJobFailed`, `AuditFailed`. A call that commits has an outcome
(`CommitRefresh`): stored or not, raised or not, session poisoned or not. An
exception goes to the except branch, an exception there ends the worker
(`OnError`). `Shutdown` cancels the tasks and lets the threads go on, `Exit`
waits for them, `Crash` stops everything between two calls, and `Restart` starts
over with an empty queue. A worker that has ended is never started again:
`Lost` are the accepted jobs nobody will finish, those that are in no place any
more (`Dropped`) and, once the last worker has ended, the whole queue.

The bounds `MaxFaults` and `MaxRestarts` limit database errors and stops. The
extraction may fail any number of times.

Fairness (`FairSpec`): a handler whose file is read goes on, each worker thread
runs, a draining process exits and a stopped one is restarted. This is what the
event loop, the thread pool and the platform do. Clients, the database and the
rate of crashes get no fairness.

### AuditChain

A row is named by the call that inserts it. `ReadLast` is `get_last_audit_log`
with the hash and number it computes, `Insert` the commit, `Abort` an error or a
stop in between. SHA-256 is taken as injective: the content stands for its own
hash and a chain hash is the sequence of contents it covers. Any number of
calls may be between the two steps. `Orders` are the results that `ORDER BY
sequence_number` may give, and `Verify` is `verify_audit_chain` on one of them.

### OutboundSync

State: the approval of each document, which an upload withdraws (`Revoke`), the
event rows, the position of each
request, the worker (`stage`, `batch`, `current`, `success`) and what the
endpoint has seen (`posts`, `received`). A request checks the approval, looks up
the key, inserts, audits and answers, a step each. The worker takes a batch and
for each event posts, commits and audits. `Reply` is the endpoint: accepted and
answered, accepted with the answer lost, or not accepted. Time is abstract:
`next_retry_at` is null, ahead or reached, and `Elapse` lets it pass.

Fairness: threads run, the worker polls, time passes. None for the endpoint, the
clients, approvals or errors.

### CsfRecord

A request is a step that reads (`Upload`, `Approve`, `Revalidate`, `View`, with all
they compute from what they read) and a step that commits (`Insert`, `Conflict`,
`Update`), in a session of its own; `Abandon` is an error or a stop in between.
SQLAlchemy sends only the columns whose value differs from the one that was
read, so `Stored` merges column by column with what the row has become. A row is
found by its `csf_hash`, the pair of company and file (SHA-256 taken as
injective).

`Fields` are the main columns represented, `Required` those approval asks for. A
value is `Empty` or a member of `Values`. The parser reads the same in the same
file; what differs from upload to upload are the AI corrections (any subset of
the fields, any value) and the QR text a client of `/upload/pdf` may send, which
replaces the text that was validated. `source_filename` is set by every caller
and `field_validation` always comes with the data, so the statuses `incomplete`
and `duplicate` are not reachable and left out. Commit, refresh and the answer
are one step.

The table begins with the rows it had when the columns of the corrections were
added (`Older`), all of them empty there. `View` is `get_csf` asked for
corrections of such a row: it makes the corrected record from the columns and the
suggestions and stores it, but leaves the columns as they are; `viewed` remembers
these records.

`raced` remembers the rows on which a request wrote while another one held them:
`StatusTold` and `CorrectionsKept` say what holds without that, and
`ApprovedIsComplete` and `OwnTenant` what holds in any case. Sessions are bounded
by `Sessions`, requests by `MaxCalls`; no fairness is assumed.

### BillingDrafts, PacClient, RecipientCheck

Amounts are cents. A row of `billing_draft` has the customer (one value for its
columns), status, stamp status, whether it has a time of stamping, sums and the
stored XML; a line remembers the call that made it. `Create` and `Update`
compute the row they will write with `Recalculated` (`_recalculate_draft`);
`CommitUpdate` merges it column by column, since SQLAlchemy sends what has
changed, and replaces the lines it had read. `Stamp` builds the CFDI and posts
it, `StampAnswered` reads the answer and commits draft and event, `GiveUp` is a
time-out, an error or a stop. `PacActs` is the PAC, external: it takes a posted
CFDI at any time, also after the request has given up, and `Replies` holds what
it may do and say: a sealed invoice, a refusal, an error of a gateway although
the invoice was sealed, and with the status of a success a list of errors or a
page that is no answer at all. What it says is read as in `timbracfdi_client.py`:
`NormalizeRest`, `NormalizeSoap`, `Stamps`, `ErrorCode`, `RfcActive`. The PAC is
assumed to say that it has sealed an invoice, by a code 0 or a sealed XML without
errors (`SaysSealed`), only if it has (`PacAssumption`). Nothing is assumed of the
other answers the client takes for a success, by their status alone (`Unclear`):
`RevenueIsIssued` and `VerdictIsGrounded` say that nothing but these leads to an
event or to an active recipient without an invoice.

`CheckRecipient` evaluates the fields against the catalogues and, where the
check allows it, posts a probe whose answer decides (`Verdict`).

`raced` remembers drafts on which requests have overlapped, `cut` requests that
ended without an answer; the properties say what holds without the first, or in
spite of both. `MaxCalls` bounds requests.

### SurvivalSync, TenantScope

A batch is worked off event by event, `Lookup` and `Insert` each, with a commit
per event as in `sync_batch`; `Violates` is an IntegrityError, `Fails` any other
error, `Lost` an answer or a request that does not arrive. A client takes an
event off its outbox only when its batch was answered without errors, and sends
it again otherwise. `DraftStamped` is the event `BillingDrafts` writes to the
same table. The reader follows `get_changes` by the last timestamp it was given
(`Poll`), in any of the orders the database may return.

Fairness: clients send again (strongly, since workers are often busy) and
requests are worked off; failures are bounded by `MaxFaults`, since a database
that always fails stores nothing.

### Accounts

A request looks the name up (`Register`, `Signup`), hashes the password and
inserts (`Insert`, `Fails`); `Login` gives a token. `Contexts` are the callers
whose token has not expired; the token is all the service knows of them. The
module assumes `AUTH_CONNECTOR = jwt` without anonymous requests, the setting
under which accounts matter. `by` remembers who made an account. No code
changes, deactivates or deletes accounts.

### Extraction, CsfFields, Geocoder

What the patterns find in a PDF is given (`Pdf`), what is done with it is not:
`ParsedFields` (Groq where a critical field is missing, then the defaults),
`Crm`, `Suggestions`, `Corrected` and `Report`. `Geocode` is the search in the
catalogue with its scores. A call of `process_pdf` is `Process` up to the first
network call, `Locate`, `Suggest`, and the attempts at SAT (`Answered`,
`AttemptFails`, `LegacyAttempt`); a cache is looked at in one step and written
in another, and threads interleave in between. `Revalidate` is the call from
`csf.py`. Each file of a ZIP is one call, and a foreign PDF is an error of its
entry (`Refuse`). `said` and `failed` remember what SAT said and where checks
failed; `Stop` forgets the caches.

## What the runs show

| Run | Result | Shows |
|---|---|---|
| `jobs` | pass | three uploads (two of one document), two workers, two database errors, one stop: ownership, published documents, audit, what accepted jobs are lost to, refinement of `JobLifecycle`, and every accepted upload that is not lost ends |
| `audit_concurrent` | pass | five writers of two companies: entries continue an entry of the same company; a trail forks exactly when an entry is inserted after another one has overtaken it; verification fails exactly on a fork and does not depend on the order of equal numbers |
| `audit_always` | violation | two writers of one company fork its chain (`AlwaysValid`) |
| `outbound_safety` | pass | one key, one event; deliveries were received; attempts, posts and audit entries differ by errors and stops only; refinement of `OutboundEvent` |
| `outbound_live` | pass | every event is delivered or given up, under every target and across a change of it, from batches that leave one behind; the retries stay within their limit |
| `outbound_race` | violation | two requests with one key that both find it free: the loser of the insert answers 500 where the contract promises the same answer (`RetrySameAnswer`) |
| `csf_requests` | pass | two overlapping sessions, two companies, documents with and without QR, a row older than the corrections: approved documents are complete, tenants apart; without an overlap status, verdict and corrections agree |
| `billing` | pass | two overlapping sessions on a draft: sums, status and stamp agree with the lines, events are invoices or unclear answers, confirmed invoices have events, stamps are not undone, posted data are sound, verdicts on recipients come from the PAC |
| `billing_sealed` | violation | a second stamping that the PAC rejects replaces the sealed XML of the first, and the PDF tells no stamp any more (`PdfTellsTheStamp`) |
| `survival` | pass | acknowledged events are stored, tenants are apart, the reader leaves no gap, good events arrive |
| `extraction` | pass | reports agree with corrections, verdicts and places are the services' own |
| `accounts` | pass | tokens speak for their accounts, sandboxes are apart |

Some properties hold only "unless requests overlap" (`StatusTold`,
`CorrectionsKept`, `DraftAgrees`, a part of `PostedIsSound`): a history variable
remembers the overlap, which nothing in the code prevents.

### Observations

Places where the code does something a reader of the documents may not expect.
They were met while modelling; the models state what the code does.

Documents and jobs:
* `document_queue.py:60`: the except branch uses a session whose flush or commit
  has failed, without a rollback. The failure is not recorded, the job stays in
  `processing` and the exception ends the worker (`OnError`);
  CONTRATO_OPERATIVO_V1.md:75 says "Worker termina en done o failed." With the
  default of one worker one such error strands every job that is queued, while
  the endpoint goes on to accept (`LossBounded`).
* `document_queue.py:84`: queued jobs are lost at a restart and stay `queued`
  (`Restart`); CONTRATO_OPERATIVO_V1.md:73 promises that they start.
* `outbound_delivery_service.py:77`: with six attempts the delay of 24 hours in
  CONTRATO_OPERATIVO_V1.md:235 is never used; an attempt whose process stops
  between its commit and its entry is never audited.
* `sync_v1.py:65`: the approval is checked before the key is looked up, so a
  retry is answered 422 when the document has lost its approval meanwhile; and an
  event may be queued, and sent, for a document whose approval an upload withdraws
  between the check and the insert.
* `documents_v1.py:183`: an approval that overlaps with an upload writes only
  the columns that differ from what it read, and may answer 200 with the status
  `processed`.
* `csf.py:181`: the corrections that `get_csf` stores for a row older than their
  columns never reach the main columns, so record and columns differ until the
  next upload; an upload between its reading and its commit loses its record.
* `upload.py:77`: a correction of the RFC that comes with a second upload is in
  `corrected_json` and never in its column.
* Approval only looks whether the five fields are there: an RFC `DESCONOCIDO`
  and a name `SIN NOMBRE`, which the parser puts where it finds nothing, can be
  approved although section 9 of the contract asks for valid formats.

Extraction:
* The caches have no expiry: the README of the repository and `ingest.py:1221`
  ("caché TTL") say that verdicts expire, but `SAT_CACHE_TTL` is read by nothing,
  and a verdict stays until the process stops. Failures are kept as well. When
  two checks of one text overlap, a failure that comes last replaces the verdict
  of the other.
* A null in a suggestion of Groq becomes the text `None` and is adopted; only
  the suggestions of OpenAI are filtered. OpenAI answering that nothing is wrong
  counts as no answer, and its threshold is applied to Groq too.
* A QR code found in a page leaves `qr_url` reported as `faltante`. A cached
  place keeps the postal code of the first document. Of two suggestions for a
  field the report shows the last, the record takes the last that is sure enough.

Billing:
* A stamped draft may be edited: the PDF then shows other amounts than the
  invoice. Two edits that overlap keep the lines of both with the sums of one.
* `timbracfdi_client.py:261`: any answer with the status of a success and without
  a code counts as a stamp: a page in HTML, an empty object, a list of errors
  (which the recipient check reads). The draft is then stamped and has an event,
  and no invoice exists. `timbracfdi_client.py:413` tells a recipient to be active
  after a page or an empty object. `billing_v1.py` answers ok for an HTTP 200 with a
  code that is not 0. The recipient probe and the SOAP address ignore which
  environment is active, though the documents say sandbox.
* A regime without digits is stamped as 601.

Survival sync:
* A foreign key violation is counted as skipped, like a duplicate, and the
  client takes the event off its outbox; `survival_engine.py:36` says that only
  events that exist are skipped.
* When as many rows as a page holds have one timestamp, the reader gets the same
  page for ever; rows that arrive with an older timestamp are never read.
* `evt_hash` is unique across tenants.

Accounts: the loser of two registrations of one name gets a 500, since the
violation of the constraint is caught nowhere.

### Bounds, and why they are enough

* Jobs: two uploads of one document and a third cover contention for the
  document row and for the queue; two workers cover contention for a job; two
  errors may end both workers and strand the queue, and the theorems cover any
  number.
* Audit: four calls of one company are two more than a fork needs; a second
  company shows that chains do not mix.
* Outbound: two requests with one key and a third that reuses an `event_id` are
  the conflicts the two unique constraints distinguish; two attempts have a
  first, a last and a retry in between. In `outbound_live` batches hold one of two
  events, so that one may wait behind another that fails.
* CSF: two sessions on one row are the smallest overlap, four calls leave two
  more before or after it, and two companies with one file test the hash. One
  older row is enough for `get_csf`. One
  column of the taxpayer (`cp`) is enough where columns do not interact.
* Billing: two sessions and four requests on one draft leave room for a create,
  an edit and two stampings that overlap. At 16 % the taxes of both prices are
  rounded. The replies are one of each class that matters: sealed, sealed with an
  answer that does not tell, and not sealed with a list of errors or a page, both
  with the status of a success. In `billing` the customer
  is the public, for whom regime and use are replaced; `billing_sealed` adds one
  that is not. Recipient checks take their turns among the four requests.
* Survival: two callers of one tenant, of whom one is a superadmin, with an event
  that names another tenant, one without a hash and one that refers to nothing.
  The reader has up to three rows, at one time or at several, and pages of two: a
  page may end between two rows of one time, and the cursor moves past
  rows of an earlier page.
* Extraction: the two documents differ in what is missing and where the QR code
  is; a suggestion without a value, and two for one field of which one is below
  the threshold, are the cases the code tells apart; two attempts have a first
  and a last; two threads and four calls leave room for an overlap and a stop.
* Accounts: two requests are the smallest race for a name; three names are one
  account that exists and two that are made; tokens expire within the clock.
* Deadlock is not checked: all these systems stop when the uploads, calls or
  requests of the instance are used up.

## What is proved

For every value of the constants that satisfies the named assumptions.

`DocumentJobs_proofs`: `TypeCorrect`, `OneOwnerThm`, `DoneHasDocumentThm`,
`AuditFollowsJobThm`, `LossBoundedThm` and `ImplementsLifecycleThm`. None of
these is inductive alone. They rest on an invariant that says what the position
of a worker implies for the row it is about to write (a worker that is at
`finish` has stored the document of its job; one at `audit` has reported the job
done; and so on), on the ownership of a job by its request, the queue or one
worker, and for `LossBounded` on charging each dropped job to a dead worker, and
each dead worker to an error of its own: with fewer errors than workers one is
left, and a queued job is then not lost.

`AuditChain_proofs`: `TypeCorrect`, `LinksToParentThm` (what a writer has read
stays an entry of its company, since rows are never changed or removed),
`ForksFromOvertakingThm` (the entries of a company are numbered without a gap, so
an insert repeats a number exactly when another one has got beyond what its call
has read) and `VerifyFindsForksThm`, which adds to the invariant that the number
of an entry is the length of the chain it covers: a verified list is then
numbered without repetition, and without a fork the entry before each one can
only be its parent. None of them bounds the number of writers. They rest on the
assumption, made by the model, that SHA-256 has no collisions.

`OutboundSync_proofs`: `TypeCorrect`, `AttemptsLeftThm` and `ImplementsEventThm`
share an invariant: the events of the batch and the one being delivered are
still live and due, because only the worker writes to a row once it is there
(`Batch`, `Delivering`), and a row not yet inserted is as the insert leaves it
(`Fresh`). `DeliveredWasReceivedThm` follows from it step by step. `SameAnswerThm`
needs that the insert itself refuses a second row with the key, whatever the
lookup had found, and that rows are never deleted. `PostsPaidForThm` and
`TrailMatchesAttemptsThm` strengthen the counts with the attempt in flight and the
attempt whose audit entry is not written. `EndpointLoadThm` puts the counts
together: the endpoint sees an event at most
`MaxAttempts + MaxFaults + MaxRestarts` times. `FinalIsFinal` is about steps: an
event that was delivered or given up is never posted, counted or moved again, by
the refinement and because a batch holds live events only.

`CsfRecord_proofs`: `TypeCorrect` and `ApprovedIsCompleteThm` rest on the fact
that a filled column stays filled, whichever commits overlap: what a request has
read is filled in its copy and in the row (`Step`), and a copy that says approved
was complete when it was read. `OwnTenantThm` adds that a row bears the company
of its hash (`Tenants`). `StatusToldThm` and `CorrectionsKeptThm` add that a
session which was not overtaken still holds the row as it is (`Alone`), so its
commit stores just what it computed; the second also tells the records of uploads
from those of `get_csf` (`Uploaded`). Of the older rows they assume that their
migrations have set them as `OlderRow` says.

It also shows that approvals answer `approved_for_sync` as long as nothing
overlaps (`AnswersInv`).

`BillingDrafts_proofs`: `DraftAgreesThm`, `RevenueIsIssuedThm`,
`ConfirmedIsRecordedThm`, `PostedIsSoundThm` and `VerdictIsGroundedThm` share
one invariant. It says what each session holds against the tables: a stamping
has posted one CFDI under its call, with the sums the draft had (`StampOK`); an
edit holds a row that agrees with its lines (`EditOK`); a check knows what it
asked (`CheckOK`); and a session that was not overtaken still holds the draft as
it is (`Fresh`). `Covered` says that a confirmed invoice has its event or a
session that still waits for it. No step of this needs the value of a sum.

`PacAssumption` is the only thing assumed of the PAC; the answers that are not
clear are exceptions of the statements themselves.

Two theorems follow from it: `RevenueIsTheLinesThm` (the event of a draft without
overlaps tells the sums of the lines of an invoice that was issued or answered
unclearly) and `StampsKeptThm`, an
action property: a commit of data read before a stamping does not take the stamp
back, since a draft has a time of stamping exactly when it has an event, and
events are only added.

What the sums are is a fold over a set, whose order nothing fixes. `SumsAddUp`
says that they do not depend on it: each line contributes its amount and its tax,
whichever is taken first, and the total is the two parts. The proof is an
induction on the size of the set, written with the least number that has no such
sum (`LeastNatural`, from the well-founded order of the naturals), since an
induction theorem of the library cannot be instantiated here. With it a sum is a
triple of numbers, which `TypeCorrect` needs: `TInv` adds to the types that the
lines of a draft, and those a session adds, are finitely many (a body has
finitely many lines, `ItemsAssumption`).

`SurvivalSync_proofs`: `TypeCorrect`, `AckedIsStoredThm`, `TenantsApartThm` and
`NoGapBehindCursorThm`. Rows are never removed, so what a batch has passed
without an error stays stored; the tenant of a row is the one `CompanyIn` gave
the batch; and a page holds all rows before its last timestamp or those of
earlier pages.

`Accounts_proofs`: `TypeCorrect`, `TokensSpeakForAccountsThm` and
`SandboxesApartThm`. An account never changes once it is there, so a token keeps
its account; what is about to be inserted is already apart (`PendingApart`), as
every caller is the account of its token.

`Extraction_proofs`: `LookupsAreGroundedThm`: the caches hold what was said or a
failure (`CachesOK`), whoever wrote them last. `TypeCorrect` and
`ReportTellsCorrectionsThm` follow the fields from the parser through the
suggestions, of any number and order, to the corrected record and the report: a
field is reported right only where no suggestion names it, so none of those that
are adopted may replace it.

Of the geocoder two operators are proved to do what they are for.
`BestIsFirstBest`: the loop of `_lookup_address_geolocation` over a catalogue ends
with the first of the entries with the highest score, or with none when no entry
is alike; scores are bounded, so a highest one exists (again by `LeastNatural`).
`PlaceIsListed`: a place that is told is a locality listed under a state and under
a municipality of that state which are alike to those of the address, with
coordinates and a confidence between 83.5 and 98 per cent. It assumes that the
catalogue is a list of named entries with codes (`CatalogueAssumption`).

Together the theorems state every invariant and every action property that a
passing run checks, and both refinements.

Only model-checked:
* liveness (`AcceptedJobEnds`, `EventSettles`, `Delivered`): out of reach of the
  prover;
* the three violations, which are counterexamples of small instances.

## Plan

1. `DocumentJobs`, `AuditChain`, `OutboundSync`, `CsfRecord`: done.
2. `BillingDrafts` with `PacClient` and `RecipientCheck`; `SurvivalSync`;
   `Extraction` with `CsfFields` and `Geocoder`; `Accounts`: done.
3. The event of an outbound request against the row it was taken from: compose
   `CsfRecord` with the gate of `OutboundSync`.
4. The window of `services/telemetry.py`, read by the thread pool while uploads
   append to it, and the aggregates of `services/metrics_service.py`.
5. The repair of the races that are reported here, as variants of the modules.

## Not modelled

* Text: the patterns over the text of a PDF, its rendering
  (`format_extracted_csf_text`), prompts, the XML, HTML and PDF of a draft.
  `_lookup_cp_geolocation` is called by nothing.
* I/O without protocol state: backups, stored copies of uploads, SOAP transport,
  static pages, migrations.
* Read-only requests: listings, dashboards, downloads, previews, the metrics of
  a tenant. Of what `get_csf` stores for an older row, the report on the fields
  and the list of suggestions are left out; the record itself is modelled (`View`).
* Telemetry: a window of upload times in memory, and alerts computed from it.
* Signatures of batches and tokens, passwords, and the registration of an issuer
  at the PAC, which keeps nothing in the service.
* The user interfaces and the SDK, which are clients.
* Several instances of the service at once: the deployment runs one.

Outside `Accounts` and `SurvivalSync`, requests are modelled after their role
guard and the scope of their tenant.
