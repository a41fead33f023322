# NetworkPilot: a verification project

NetworkPilot prepares professional outreach. It discovers people (Apollo), ranks
them into buckets, renders a draft for each, lets one operator review, approve,
create and send the e-mail through Gmail, and records what became of it. It is
a Next.js application: server actions over two SQLite files, one of operational
state and one of immutable campaign reports, and a set of command-line scripts
that open the same operational file.

This directory holds TLA+ models of the parts of that program whose correctness
depends on order, concurrency, failure or history; TLC configurations that check
them on small instances; and proofs, checked by TLAPS, that the main properties
hold for every instance.

Contents

1. Inventory of the system
2. The modules
3. GmailOutreach: the outreach workflow
4. ApolloDiscovery: paid lookups and their allowance
5. SearchPages: the people search
6. DraftQueue: how candidates become drafts
7. DraftsPage: the Drafts workspace in the browser
8. CandidatesPage: the Candidates workspace, limits and searches
9. CandidateReview: who may be written to
10. LiveValidation: the controlled provider validation
11. Runs
12. Findings
13. What is proved
14. What is not modelled, and the plan

## 1. Inventory of the system

| Part | Where (under `src/src/`) | State | Operations |
|---|---|---|---|
| Gmail draft and send operations | `application/email-drafts`, `infrastructure/sqlite/database.ts` 129-147 | a row of `gmail_draft_operations` per content hash, `gmail_send_audit`, `gmail_send_reconciliations` | approve, begin / complete / fail a creation, begin / complete / leave uncertain a send, reconcile a send |
| Manual outreach ledger | `application/manual-outreach`, `database.ts` 148-181 | `manual_outreach_records` and events, `candidate_suppression_entries` | confirm a contact, report an outcome, report a hard bounce |
| Draft workspace actions | `infrastructure/sqlite/command-center-drafts.ts`, `application/command-center-drafts`, `app/today/actions.ts` | none of their own: requests in progress | approve, approve an edit, approve and create, create, send, confirm and send |
| Draft queue | `infrastructure/sqlite/draft-queue.ts`, `application/product-workflow` | a projection of generations, operations, dispositions and ledger | load |
| Dispositions | `daily-refresh.ts` 67-84, `candidate-disposition.ts` | `draft_dispositions`, suppressions | skip, exclude for good |
| Bucket reserve and batches | `bucket-reserve.ts`, `application/daily-refresh` | `daily_refresh_runs` | add, replace, exact draft, correction |
| Daily refresh, unscoped batches | `application/daily-refresh`, `daily-refresh.ts`, `daily-command-center.ts` | the same table | refresh, next batch |
| Apollo person reservations | `apollo-person-reservations.ts`, `application/candidate-refresh/apollo-person-reconciliation.ts` | a row of `provider_operations` per person | claim, mark attempted, retain, release, mark imported, reconcile |
| Scoped discovery and budget | `scoped-discovery.ts`, `providers/apollo/scoped-provider.ts`, `apollo-accounting.ts`, `database.ts` 184-199 | parent operations, `provider_daily_budgets`, search cursors | preflight, claim, complete, fail, read accounting |
| Company trust | `application/company-trust`, `domain/company-trust`, `application/ingestion/recruiter-company-trust.ts` | `company_trust_audit` and the current decision | prepare, decide; projected onto every candidate when read |
| Ingestion and bucket review | `application/ingestion`, `scoped-candidate-completion.ts`, `database.ts` 100-128 | `imported_candidates`, prospects, suppressions | import, complete a discovery, review, correct a bucket, exclude |
| Campaign planning | `application/simulation`, `domain/planning`, `domain/outreach` | reports (immutable) | plan, select |
| Sourcing limits | `application/sourcing-limits` | one settings record | read, save |
| Resume library | `application/resumes`, `infrastructure/resumes` | files and rows | add, archive, choose |
| Gmail authorization | `infrastructure/providers/gmail` | tokens in the Keychain | connect, refresh |
| Migrations, topology, reset | `migration-target.ts`, `datastore-topology.ts`, `reset-policy.ts` | schema versions, paths | start-up checks |
| Templates, classification | `domain/drafting`, `domain/recruiters` | none | pure functions |
| Drafts workspace | `app/drafts` | one tab's selection, dialogs, local edits, session storage | select, edit, confirm and send, reconcile, skip, replace, decide a correction |
| Candidates workspace | `app/candidates`, `app/actions.ts` | one tab's group and selection, a rendering of the store | select, navigate, search, dispose, draft, save limits |
| Controlled provider validation | `scripts/apollo-five-bucket-live-validation.ts` | one settings row, the discovery operations of its buckets | baseline, validate a bucket, reassess |
| Other pages | `app/*` | none worth modelling | rendering |

How the parts interact. The operator's browser calls server actions. A server
action loads the queue (a projection of every durable table), checks a gate on
it, writes through the operational repository, calls Gmail or Apollo, and writes
again. Nothing is shared in memory; all coordination goes through SQLite rows.
Every repository method runs in one IMMEDIATE transaction, so each is atomic and
all are totally ordered; the gaps are *between* transactions.

Which behaviours are hard:

- **Read, then write.** Gates are read-only loads; the guarded write is a later
  transaction. Inside one Node process the gap is often a single microtask, but
  the scripts `confirm-manual-send.ts`, `report-manual-outcome.ts`,
  `record-manual-hard-bounce.ts` and the reconciliation tools are other processes
  on the same file, and a second server may be running. Between an HTTP call and
  its follow-up write there are seconds.
- **Answers that are lost or late.** A Gmail or Apollo call that timed out may
  have been carried out, or still be.
- **Crash between two transactions.** Approving, creating, sending and recording
  are separate commits; so are claiming a person, calling Apollo, retaining the
  result and importing it.
- **What the page showed.** A form carries what was rendered some time ago: a text, a
  group, an amount of credits. The tab keeps its own state over every answer, and the
  server decides on what the store says by then.
- **Derived, then overlaid.** A candidate's state is recomputed at every reading from a
  stored snapshot, the policy and the employer's trust; several writers edit the
  snapshot, each knowing a part of the rules.
- **Long histories.** A message that is sent, uncertain, reconciled, sent again;
  a person claimed, released, claimed by another operation, reconciled late.

What makes each part correct is stated below as the properties of its module, and
for the parts not modelled section 14 gives the reason. `PROJECT.json` lists every hazard at
its line with the properties that would catch it.

## 2. The modules

| Module | Role |
|---|---|
| `OutreachPromise` | abstract specification: how often a message may be handed to the provider, when, and what becomes of the answer |
| `GmailOutreach` | the workflow from an approved snapshot to the recorded contact; implements `OutreachPromise` |
| `MCGmailOutreach` | instances for TLC |
| `GmailOutreachProofs` | the theorems of `GmailOutreach` |
| `PaidLookups` | abstract specification: when a person may be looked up for money, and what becomes of the result |
| `PersonReservation` | the reservation row of a person and its guarded transitions, as functions of the row |
| `ApolloDiscovery` | discoveries, the operator, Apollo and crashes over those rows, with the accounting of a day; extends `PersonReservation`, implements `PaidLookups` |
| `MCApolloDiscovery` | instances for TLC |
| `ApolloDiscoveryProofs` | the theorems of `ApolloDiscovery` |
| `PageDispenser` | abstract specification: a page of a query is given out once |
| `SearchPages` | the search of a discovery: rotation over the query plans and the persisted page cursors; implements `PageDispenser` |
| `MCSearchPages` | instances for TLC |
| `SearchPagesProofs` | the theorems of `SearchPages` |
| `DraftPromise` | abstract specification: who has an open draft, and who has left for good |
| `DraftQueue` | the projected queue, the reserve and every operation on them; implements `DraftPromise` |
| `MCDraftQueue` | instances for TLC |
| `DraftQueueProofs` | the theorems of `DraftQueue` |
| `DraftsPage` | one browser tab on the queue: what is shown, typed, confirmed and mailed |
| `MCDraftsPage` | instances for TLC |
| `DraftsPageProofs` | the theorems of `DraftsPage` |
| `CandidatesPage` | one browser tab on the candidates, with the limits it shows and the searches it starts |
| `MCCandidatesPage` | instances for TLC |
| `CandidatesPageProofs` | the theorems of `CandidatesPage` |
| `CandidateReview` | the stored snapshot of a candidate, its writers and its projection |
| `MCCandidateReview` | instances for TLC |
| `CandidateReviewProofs` | the theorems of `CandidateReview` |
| `LiveValidation` | the session of the controlled validation, its script and the account it measures |
| `MCLiveValidation` | instances for TLC |
| `LiveValidationProofs` | the theorems of `LiveValidation` |
| `Totals` | the total of a function from a finite set to naturals, used wherever the code adds up credits |

The modules meet as follows. `SearchPages` is the step `Search` of `ApolloDiscovery`;
`CandidatesPage` sees the whole discovery as one authorization that ends with a part of
it spent, or more. `CandidateReview` says who is eligible, which `DraftQueue` takes as a class that
may change at any time. `DraftQueue` takes sends as steps, `GmailOutreach` takes them
apart; `DraftsPage` is the form a request of `GmailOutreach` comes from.

## 3. GmailOutreach: the outreach workflow

**State.** `op[s]` is the row of `gmail_draft_operations` of snapshot `s` (the
idempotency key is a hash of the content, so a snapshot *is* its row), with its
reconciliation and, as counters `started`, `confirmed`, `uncertain`, the events of
its send audit. `newer` orders the rows by `updated_at_utc`, which decides which
one the queue shows. `contact[s]` is the manual outreach record, `suppressed` the
suppression entries, `disposition[c]` the disposition of the draft on display.
`req[r]` is a server action in progress: its phase, the snapshot shown to the
operator, the snapshot it is about, its final goal and the fate of its pending
call. `gmail[s]` and `stray` are external: what the mailbox holds, and calls still
on the wire after their request has given up.

**Steps.** An action of the model is what happens between two awaits or two
transactions of the code: `ApproveLoad`, `ApproveWrite`, `CreateLoad`,
`CreateBegin`, `CreateCompletes` / `CreateFails`, `SendLoad`, `SendBegin`,
`SendCompletes` / `SendUnresolved`, `RecordContact`. A server action is a request
that enters at the phase its code starts in (`StartApproveDraft`,
`StartApproveEdited`, `StartCreateGmailDraft`, `StartSendGmailDraft`,
`StartConfirmAndSend`) and takes these steps in turn; several requests interleave.
The commands that are a single transaction are single steps
(`ConfirmAlreadySent`, `ReportOutcome`, `ReportHardBounce`, `ReconcileSend`,
`RecordDisposition`). `SkipExpires`, `OperatorSendsInGmail`, `StrayArrives` and
`Crash` are the environment.

**Abstractions.**

- The queue's remaining reasons to refuse (company cooldown, consent of the
  source, employer trust, bucket review, an expired Gmail authorization) depend on
  parts outside this module: `Refuse` may end a load at any time for them. This
  only adds behaviours.
- Outcomes that neither suppress nor end anything are one value, `replied`.
- Approving the same content twice reuses the row whatever its state; the code
  compares the stored snapshot, which is equal whenever the hash is.
- `MayReconcile` is false for a row already reconciled: the code returns `existing`
  and changes nothing, or throws a conflict. The contact is confirmed only by the
  reconciliation that was `created`, in the same transaction.
- Drafts in the mailbox are counted up to `DraftBound = 2`.

**Properties** (each is stated in words above its definition):
`SendCallsBounded`, `OneProvenance`, `GmailEvidence`, `DeliveryNotForgotten`,
`AuditBalances`, `SendNeedsCreatedDraft`, `AtMostOneGmailDraft`,
`OutcomeSuppresses`, `LedgerIsKept` (a step property), `ExclusionIsFinal` (a step
property), `RequestsFinish` and `SentIsRecorded` (liveness), and the refinement
`KeepsPromise`. `SendCallsBounded`, `GmailEvidence`, `AuditBalances`,
`SendNeedsCreatedDraft` and `LedgerIsKept` are proved (section 13) and no run repeats
them: `KeepsPromise` covers what they say of sends.

`ExclusionIsFinal` says *excluded* for "blocked, and no request has passed its
gate": a request that has passed `SendLoad` and not yet committed `beginGmailSend`
can still send after the person was suppressed by another process. The weaker
form is what the code guarantees, and the model shows that this one gap is the
only one.

**Fairness.** `WF(Advance(r))` for every request: an await of a server action
ends, since each HTTP call carries a timeout and everything else is synchronous.
Nothing obliges Gmail to act (the timeout covers it), the operator to do anything,
or the process to crash. `RequestsFinish` and `SentIsRecorded` are checked without
crashes: after a crash `SentIsRecorded` is false (section 12).

## 4. ApolloDiscovery: paid lookups and their allowance

**What the code does.** A scoped refresh claims an authorization of so many
credits against the day's allowance, searches (free), and then looks up one
person at a time (one credit each). Around each lookup stands a durable
reservation: `claim`, `markAttempted` immediately before the request leaves,
`retainAttempted` when the answer is there. At the end one transaction imports
all retained people (`complete`), or another records the failure (`fail`). The
operator settles what is left over with `reconcileApolloPersonReservation`:
resume the retained result, release a lookup that cost nothing, or write the
credit off.

**State.** `person[p]` is the row of the person in `provider_operations` with its
metadata; `attempts` is its `attempt_count`, `releases` counts the operator's
release events in its audit. `parent[o]` is the row of the operation. `imported`
is the canonical candidate table, as far as these people are concerned. `run[o]`
is the discovery in memory: what is left to look up (`todo`), the person it is at,
its own count of attempts and credits (`ScopedOperationBudget`), the results it
will import (`records`). External: `actual[p]` is what Apollo charged for the
latest lookup of `p`, `spent[o]` what it charged an operation, `stray` lookups
still on the wire after their discovery gave up.

**Steps.** One action per transaction or per HTTP outcome: `Authorize`, `Search` /
`SearchFails`, `ClaimPerson` / `ClaimFails`, `Dispatch` / `LocalFailure`,
`AnswerUsable` / `AnswerExceeds` / `AnswerUncertain`, `Exhaust`, `Complete` /
`CompleteFails`, `Fail`; `ResumeRetained`, `SafeRelease`, `RecordConsumption` for
the operator; `ApolloServes`, `StraySettles`, `GrowsStale` (fifteen minutes without
a write) and `Crash` for the world. `Settle` is the pair every guarded transition
ends with: the row, and `recomputeParentAccounting` of the operation that owns it,
written from the children as they then are and never incremented. `ClaimPerson`
does not recompute, as the code does not: the previous owner's totals stay until
another of its people changes.

**Abstractions.**

- One budget day; `ExternalSpend` is `externalApolloSpend` of that day.
- `observedConsumption` null and absent are one value, `Unknown`: every reader in
  the code treats them alike.
- A request or command that is repeated with the same identity finds its first
  result and changes nothing; it is left out. Rows of the time before the versioned
  metadata are left out as well.
- The pages of a search, its cursor and its filters are one nondeterministic
  choice: any set of people that are not imported.
- How a record becomes a candidate (`completeScopedCandidateRecords`) is the one fact
  that the person is imported.
- `HastyOperator` says whether the operator may settle a lookup whose outcome is
  not known. The code asks for evidence in words and cannot check it: with
  `HastyOperator = TRUE` (run `apollo_rows`) the operator may settle anything at any
  time, and everything checked there holds regardless. What the *money* adds up to
  (run `apollo_budget`) and mutual exclusion of lookups need an operator who waits.
- `MaxCost`: the ledger promises an upper bound only as long as one lookup costs
  at most the one credit of its exposure. `apollo_budget` assumes that (1);
  `apollo_rows` lets Apollo overcharge (2), which the code answers by failing the
  operation.

**Properties**: `LookupsBounded`, `OneLookupAtATime`, `PaidResultsKept` and
`SettledForGood` (step properties), `CompletedIsImported`,
`AccountingIsConservative`, `SpendIsHeld`, `WithinDailyAllowance`, `DiscoveriesEnd`
(liveness), and the refinement `KeepsLookupPromise`. The first, third and fourth are
proved and not run again; `KeepsLookupPromise` implies what they say of lookups.

**Fairness.** `WF(Advance(o))`: a discovery is one asynchronous function whose HTTP
calls carry a timeout, so it takes its next step. A failure is one of the outcomes
of a step, never a step of its own that fairness could hand out: `ClaimFails` is
enabled only where `ClaimPerson` is. Nothing obliges Apollo or the operator.
`Authorize` has no fairness: nobody must start a discovery.

**Deadlock** is not checked in this model: a discovery ends, and when all have
ended and nothing is left to reconcile there is nothing to do. `DiscoveriesEnd`
says that they do not get stuck before. In `GmailOutreach` it is checked.

## 5. SearchPages: the people search

The step `Search` of `ApolloDiscovery` in detail: the loop of
`ScopedApolloProvider.discover` over the query plans of a bucket and the cursor
of `SqliteApolloSearchProgressStore`. The two modules meet at that step only: what
`SearchPages` leaves behind is a set of people, and no state of one is read by
the other.

**State.** `cursor[q]`: the settings row of a query, the next page to hand out and the
number of pages Apollo last reported (0 when unknown). A query is a plan with
everything else the key is hashed from: scope, page size and the companies left
out. `search[o]`: the loop's locals, which plans were searched, which have no page
left, how many calls were answered, the page in the air.

**Actions.** `ClaimPage` and `FindExhausted` are `claimNextPage` with a page and with
null; `Answer` is everything after the await: `observePage`, the counters, the
early stop; `AnswerRejected` the strict-shape throw, after the observation;
`SearchFails` an exception at either end, which loses the page; `Stop` the end of the
loop; `Crash`. Apollo's total is arbitrary at each answer: its index grows and
shrinks between pages and may omit the total.

**Abstractions.** Totals are in pages (`ceil(total / perPage)`, at least one), so that
`page * perPage >= totalAvailable` reads `page >= total`. The people of a page and the
filters on them decide only whether there are employers enough, a choice of the
answer that is never taken back. `lastPage` and `lastReturned` are written and never
read. A provider without a cursor store is not created by the server.

**Properties.** `DispensesPagesOnce` (refinement): no page is handed out twice, in
whatever order answers come. `EveryPlanHasItsTurn`: the index arithmetic of the
rotation, under plans that drop out, never serves a plan twice while another waits.
`SearchesEnd` (liveness): under weak fairness of the loop's own steps and of the end of
a call, and of no failure between calls.

## 6. DraftQueue: how candidates become drafts

**What the code does.** A draft is never a row of its own. `loadQueueReviews` projects
the queue at every request: the append-only generations in order (a later copy of a
person's draft replaces an earlier one), before the first generation the pilot's
recommendations, then the open Gmail operations; less what was dismissed on the
draft's day; moved by recorded replacement positions; less what is blocked.
`projectBucketReserve` projects the reserve against that queue. An operation is one
transaction that reads both and appends a generation or a disposition.

**State.** `gens`: `daily_refresh_runs` by time, each with the drafts it lists, their
copies, the request it answers, its campaign day and its replacement. `disp`, `audit`,
`suppressed`: the three tables of a disposition. `class[c]`: the recipient bucket the
candidate is *now* projected to have, which reviews, trust decisions and the policy
change at any time; a copy remembers the class it was written for. `op`,
`approvedAt`, `sentAt`: what the queue reads of `GmailOutreach`. `page`: a correction
form some tab shows. `now` indexes `UtcDay` and `CampaignDay`: the code dates legacy
drafts in UTC, generations and browse dispositions by the campaign calendar (New York,
weekends move to Monday).

**Actions.** One per transaction: `AddBucketDrafts`, `ReplaceDraft` (dismissal and new
draft together), `CreateExactDraft`, `ResolveCorrection`, `DismissDraft`,
`DismissCandidate`. `OpenCorrection` loads a page. `Approve` to `SendRefuted`,
`Reclassify` and `Tick` are what the queue observes of the rest of the system.
The projection is a set of operators with the names of what it answers: `Draft`,
`DraftDay`, `InQueue`, `Changed`, `Blocked`, `Shown`, `Queue`; the reserve is
`Occupied`, `Eligible`, `Plans`.

**Abstractions.**

- A request id answered before returns its first result or a conflict; both change
  nothing (`Fresh`). `generation` numbers give the position in `gens`.
- Candidates are qualified in everything but their class: verified, not opted out, and
  renderable when the class is accepted. All of one bucket are of one track, so
  `planNextDraftBatch` takes the best of each company in order of rank.
- Two edited texts of one draft are one value, `edited`.
- A cooldown of seven days counts in UTC days. Left out: the cooldown of a company after
  a hard bounce, which ends with its New York day (`bucket-reserve.ts:100`); the block of a
  recruiter whose employer is disallowed by now, a reason against sending that a draft on
  display can gain and lose (`currentTrustBlock`, `draft-queue.ts:100`; the trust itself is
  in `CandidateReview`); suppression by outcomes or candidate reviews; and failed
  operations approved again.
- Open operations that no generation lists appear in order of rank; the code orders
  them by their last update. They exist before the first generation only.
- Sending and entering the ledger are one step. Their gap is in `GmailOutreach`.

**Properties.** `KeepsPromise` (refinement of `DraftPromise`): a candidate is drafted at
most once, a company has one open draft, a replacement swaps two candidates in one step
and nobody comes back. `OneContactPerCompany` is what that is for: no two people of a
company are written to within the cooldown. `UncertainStaysListed`, `DispositionsAgree`,
`EditsKept` and `AddKeepsDrafts` are stated above their definitions. The first two and
`UncertainStaysListed` are checked without legacy recommendations: with them they fail
(section 12). `EditsKept` and `AddKeepsDrafts` are checked with one.

**Deadlock** is not checked: when the bounds are used up nothing is left to do.

## 7. DraftsPage: the Drafts workspace in the browser

**What the code does.** `drafts-workspace.tsx` renders the rows the server gave it last.
Which row is selected, which dialog is open and what was typed are state of the tab;
an answer of a server action renders the same component with new rows, so all of it
outlives the answer. A dialog is filled in from the *selected* row at the time it is
submitted. Edits are kept per snapshot id, in the component and in session storage, and
are read back a frame after the first rendering. On the server, `confirmAndSendDraft`
compares the submitted content with the frozen one, field by field, or freezes it now.

**State.** `order`, `reserve`, `draft`, `op`, `class`, `blocked`: `DraftQueue` and
`GmailOutreach` reduced to what the page can tell apart. `page`: the rows, the view, the
selection, the dialog and the feedback. `edits`, `saved`: what was typed, in the component
and in the storage. `task`: the form under way and its answer. History: `typed`, the
operator's latest edit of each draft; `delivered`, what was mailed for each confirmation.

**Actions.** `Operator` is everything the tab does by itself (`Select`, `Move`,
`SelectBucket`, `TypeEdit`, `OpenPrimary`, `CloseDialog`, the submissions, `Reload`);
`Server` the steps of a submitted form (`FindOperation`, `SendFrozen`, `Skip`, `Replace`,
`Keep`, `Regenerate`, `Reconcile`, `Create`); `Receive` the answer; `Elsewhere` any of these
made by another tab, a review or the command line. An error shows the error page, and
*Try again* mounts the component anew. The framework runs the server actions of one tab
one after the other, so there is one form under way.

**Abstractions.** Three texts (as rendered, rendered anew, edited) and two attachments. A
snapshot id is what it is hashed from: person, text and whether the catalogue names the
bucket, which is why only an unedited legacy draft shares its id with the operation it
becomes. A refused command either names its reason on the page or throws to the error
page, as `sendDraft` tells its errors apart (`actions.ts:27`): a draft that is gone, a bucket
still to be decided and a reason the page has no words for are thrown (`Refused`). A draft is replaced only
while it has no operation and from its own bucket (`MayReplace`). Left out: the
early-career filter, Gmail being unavailable, the form for a contact
made elsewhere, the deactivation of a resume.

**Properties.** `MailsWhatWasConfirmed`: what is mailed for a confirmation has the person,
text and attachment the dialog showed, however old the page was. `ShowsWhatWasTyped`: a
draft that can be edited shows the latest edit of exactly that draft, through selection,
answers, errors and reloads.

## 8. CandidatesPage: the Candidates workspace, limits and searches

**What the code does.** The page is rendered from one reading of the store: people and
their stages, the sourcing limits, the exposure of the day and a request identifier for
the search form. A route key decides whether the workspace is mounted anew or keeps its
selection over a rendering. The search form shows *Maximum credits this run*, computed
from that reading; the action reads the limits again, awaits the provider, and claims
an authorization from the exposure as it is then.

**State.** The store: `limits`, `exposure` (with the part `others` that searches of other
tabs hold), `runs` per request identifier, `people`. The tab: `page`, the last rendering;
`client`, its group and selection; `tab`; `tries`, the submissions of its form. History:
`loosest`, the largest allowance ever in force; `overcharged`, what Apollo charged today
beyond what searches had authorized.

**Actions.** `SelectGroup`, `SelectPerson`, `FindPeople`, `Visit`, `TryAgain`, `Confirm`; for a
submission `BeginRefresh` (limits and exposure are read), `Claim`, `EndRun`, and `Answer` or
`LoseAnswer`; `Dispose`, `CreateDraft`; outside the tab `SaveLimits`, `OtherSearch`,
`OtherDecision`, `Midnight`, and `ChargedLate`, a charge beyond what a search of today holds.

**Overcharges.** One credit is authorized per lookup, and what a lookup costs is up to
Apollo: at most `MaxCost`. A finished search keeps the largest of its attempts, of what
was observed and of what its people are known to have cost (`apollo-accounting.ts:132-145`),
so that an overcharge takes it above its maximum. The lookup that was charged too
much is the last of its search, which fails; `EndRun` therefore ends a failed search with at most
`MaxCost - 1` above its maximum, and `ChargedLate` adds the same to a search of another tab or
to one that was cut off.

**Abstractions.** The discovery between `Claim` and `EndRun` is `ApolloDiscovery`'s: here it
ends with any part of its maximum spent, or more, and may find one more person. A draft the
reserve refuses for other reasons is a refusal at any time. A selection named by the
address is ignored when the route key is unchanged, as in the code. Left out: filters and
the search field, the early-career option, reviews made in the page, the flags that hide
the form, the capacity counters, and the *Don't show again* disclosure, which is uncontrolled
and may stay open while the selection moves.

**Properties.** `SearchesTheShownGroup`: an authorization is for the group the confirmed
form named. `WithinSavedAllowances`: whatever is saved, searched and confirmed from stale
pages, the exposure of a day exceeds the largest allowance ever in force only by what Apollo
charged beyond the authorized credits. What searches authorize fits into an allowance; an
overcharge may pass it, and the exposure then shows it.
`OneSearchPerForm` (a step property): a form that is submitted again, after a lost answer
or an error page, does not search twice.

## 9. CandidateReview: who may be written to

**What the code does.** A candidate is a stored snapshot, and nothing reads it as it is:
every reader gets a projection that applies the bucket policy and the current trust in
the employer. Six writers edit the snapshot: the import, the completion of a scoped
discovery over an earlier import, the review of the Candidates page, the correction of a bucket, the
exclusion, and, for the planner's tables, all of them.

**State.** `profile`: the provider's record of a person, chosen once. `snapshots`,
`excluded`, `prospects`, `blocked`: the tables. `decisions`: the audit of trust decisions
about the employer; `prepared`: the command each tab holds, with the version it saw.
History: `barred`, whom the operator suppressed or excluded.

**Actions.** `Import` (`FirstSnapshot` or `Completed`, `ImportOver` when present),
`ReviewCandidate` with its five answers, `CorrectBucket`, `Exclude`, `Prepare`, `Decide`. The
operator `View` is the projection: `ApplyPolicy`, then `ApplyTrust`, then the exclusion.

**Abstractions.** A reason not to write to somebody is a *gate*; nine kinds stand for the
codes of the source, by what adds and removes them. One employer with one provider id and
two domains. The trust command is prepared by `candidates/page.tsx` 111-123; the page no
longer renders a form for it, and the action is still served. Left out: chief executives,
the early-career scope, agencies, employers that are not identified, scores.

**Properties.** `SuppressedStaySuppressed`: no later import, review, correction or trust
decision makes someone eligible whom the operator suppressed. `EligibleIsEarned`: nobody
is eligible with an unverified address, and no recruiter whose employer is not trusted
*now*, at the domain of that recruiter's record, outside the exception for recruiters found
as such. `PlannerFollowsReviews`: the planner's tables follow every review.
`DecisionsAreInformed`: no tab overwrites a trust decision it has not seen, and no command
counts twice.

## 10. LiveValidation: the controlled provider validation

**What the code does.** The operator runs a script once per phase: a baseline of the
account's use, then one recipient bucket after the other with at most one lookup each,
then a reassessment after a stop. The session is one settings row, read before and written
whole after calls to Apollo's usage endpoint. The lookup goes through the discovery
operations, whose request id is the session and the bucket.

**State.** `saved`, the session; `ops[b]`, the operation of a bucket; `account`, what Apollo
reports (billing cycle and credits used); `outside`, `protected`, `days`, the world; `pc` and
`mine`, where a script waits and what it remembers. History: `calls`, `charged`.

**Actions.** One per stretch between two waits: `Baseline` / `BaselineMeasured`,
`ValidateBucket`, `UsageChangedOutside` / `UsageConfirmed`, `Claim` / `ClaimReplays` /
`ClaimRefused`, `Discover`, `Complete` / `Fail`, `ReadAgain`, `RecordOutcome` /
`RecordFailure`, `ReassessStoppedSession`; `Ended` is an error or an interruption at any wait.
`OutsideUse`, `NewCycle`, `ProtectedWrite`, `Midnight` are the world.

**Abstractions.** An answer names its charge or nothing. What the local inspection reads of
a lookup is a verdict fixed when the lookup completes. Checks of environment and files and the preflight
phase, which writes nothing, are left out.

**Properties.** `OneCallPerBucket`: however often phases are interrupted and repeated, the
provider is run once per bucket. `LookupsNeedASettledSession` (a step property): a lookup
starts only when every earlier bucket has its outcome, at its place, with evidence nothing
contradicts. `UseIsExplained`: as long as every answer named its consumption and the cycle is
that of the baseline, a credit used by anybody else, or by a lookup whose outcome was never
written, cannot pass unnoticed. They hold for one terminal; with two the second fails
(`MCLiveValidation_two.cfg`). No liveness is claimed: a session whose operation stays
authorized after an interruption is stuck, and deadlock is not checked for that reason.

## 11. Runs

| Run | What it asks | Instance | Why it is enough |
|---|---|---|---|
| `outreach_one_message` | one message: provenance, delivery, suppression, and the promise | 1 snapshot, 1 person, 2 requests, 1 crash, failing commits | all rows are per snapshot; two requests give every race on a row, a crash may fall between any two steps |
| `outreach_liveness` | requests end, a confirmed send is recorded, one Gmail draft, exclusion | 1 snapshot, 2 requests, no crash, no failing commit, with fairness | the two requests race for the same row; with a crash or a failed commit the send may be left for the operator, and a retry may leave a second draft, which are findings of their own |
| `apollo_rows` | rows, results, totals and the promise, with a hasty operator and overcharges | 2 people, 2 operations, 1 crash, charges 0..2 | takeover, late answer and reconciliation each need one person and two operations; the second person makes sums and a partial import |
| `apollo_budget` | money: holds and allowance; discoveries end | the same, charges 0..1, operator who waits, 3 of 4 credits free, no symmetry | both operations can ask for all that is left: 2 + 2 over 3; a crash ends the discoveries it meets |
| `search_pages` | pages and rotation, and that searches end | 2 operations, 3 plans, 3 calls each, 2 pages, 1 crash, no symmetry | three plans let one drop out between two others; two pages let both operations use up a query; three calls are one round |
| `queue_promise` | the queue against its promise, contacts, dispositions | 3 candidates of 2 companies, 1 bucket, a Saturday (planned as the Monday) and a day after the cooldown; 3 generations, 2 dispositions, 2 approvals, 1 request id | two candidates share a company; a draft is dated after the UTC day it is made on; each candidate is drafted once, so three generations that draft someone are all there can be; a skip can follow a replacement |
| `queue_reviews` | edits under new classifications and old pages; additions take nothing away | 2 candidates, one of them a recommendation without a class, 2 buckets, 2 reviews, 2 approvals, 3 generations, 2 days | a class can change and change back while a page is open; a carried draft may be plain, approved, being sent or sent |
| `drafts_page` | what is mailed and what is shown | 2 people, one queued and one in the reserve, 1 edit, 1 change elsewhere, no reload by the operator (error pages remain) | a confusion needs one other row to take the place of the shown one; the queued draft is a legacy one, whose id is the same before and after approval |
| `candidates_page` | the searched group, the allowances with overcharges, one search per form | 2 people (one not yet found), 2 groups, 2 request ids, 2 submissions, 1 decision, 1 change outside, limits 1/1 and 2/2, 1 credit held elsewhere at first, charges 0..2 | a stale form, a change outside it and a second submission are one of each; the held credit makes the remaining allowance differ from the limit; a search that is overcharged may end before or while another claims |
| `candidate_review` | eligibility under every order of writers | 2 people of 1 employer, every pair of 12 kinds of record, 2 tabs, 2 trust commands, 3 reviews | the trust of an employer joins two people; three reviews are suppress, correct, confirm |
| `live_validation` | the validation session | 1 terminal, 3 buckets, 3 lookups a day, 1 each of outside use, protected write, new cycle, midnight; phases repeat without bound | an outcome in the middle has one before and one after it |
| `finding_rejection_undone` | finding 1 of section 12 | that of `candidate_review` or smaller | |

`MCGmailOutreach_tabs.cfg`, to be run by hand, is `ExclusionIsFinal` for two contents of one
person, each sent from its own tab (264,000 states). The constraint `TwoTabs` leaves only
complete sends from the page, without lost calls, dispositions or later outcomes. The listed
runs have one content; for any number the property is proved (`ExclusionHolds`).

The bounds are constants or named definitions: `MaxGens`, `MaxDispositions`,
`MaxApprovals`, `MaxReviews` and the number of instants of `DraftQueue`; `MaxCrashes`, `DraftBound` (drafts of
one content counted in the mailbox), `MaxCost`; `MaxEdits`, `MaxElsewhere`, `MaxReloads` of
`DraftsPage`; `MaxTries`, `MaxDecisions`, `MaxElsewhere` of `CandidatesPage`; `MaxCommands`,
`MaxReviews` of `CandidateReview`; `MaxOutside`, `MaxWrites`, `MaxCycles`, `MaxDays` of
`LiveValidation`. A person's attempts, releases and
the audit counters need none: the guards of the code bound them by reconciliation,
except for releases, which follow each other without end only if the operator
releases for ever; there every cycle needs a fresh operation, of which there are
two. Symmetry is used for safety only. Deadlock is not checked where bounds run out
(`DraftQueue`, `CandidatesPage`, `CandidateReview`).

## 12. Findings

Statements of documents, comments and tests that the code does not keep, each with a
configuration that ends in a counterexample. The first is a run of `PROJECT.json`; the
others are kept beside it, to be run by hand as `tlc -config <cfg> <its MC module>`. Where
one configuration shows several, add `-continue`: TLC then reports each of them. None
needs a crash except the third.

1. `finding_rejection_undone`, `MCCandidateReview_rejection.cfg`
   (`recruiter-company-trust.ts:65`). A candidate the operator rejected is eligible again
   in the reserve and the queue: the projection computes the state from the gates, and a
   rejection adds none (`review-bucket.ts:196`: a review "cannot undo a prior operator
   rejection"). The test `offline-workflow-qa.test.ts:118` passes because the employers of
   its recruiters are unverified.
2. `MCGmailOutreach_stuck.cfg` (`database.ts:137`). A message
   that was reconciled as *not sent*, sent again and is uncertain again can never be settled:
   there is one reconciliation per operation. The same answer changes nothing and another one
   is a conflict (`docs/gmail-draft-only.md:53`: the operator "may record sent [...], record
   not-sent, or leave the state uncertain").
3. `MCGmailOutreach_crash.cfg` (`command-center-drafts.ts:26`). A crash between the
   confirmed send and its contact record leaves the person looking uncontacted: the
   queue ignores sent operations and reads contacts only. Another content can be
   sent to them. (`docs/handoffs/NETWORKPILOT_CURRENT_STATE.md:28` records two confirmed
   sends without a row in the ledger.)
4. `MCDraftQueue_resurfaced.cfg` (`draft-queue.ts:100`). A sent draft returns to Drafts when
   its candidate is classified anew: the changed classification overrides the blocked
   reason that hid it.
5. `MCGmailOutreach_persist.cfg` (`create-approved-gmail-draft.ts:36`). A local commit
   that throws after Gmail created the draft is recorded as a failed creation; the
   retry makes a second draft.
6. `MCApolloDiscovery_ended.cfg` (`scoped-discovery.ts:244`). When a paid answer
   cannot be retained, `fail` finds that the discovery knows a charge its children
   do not show, throws, and rolls back the failure itself: the operation stays
   authorized and holds its full exposure, and its request id is blocked
   (`docs/scoped-apollo-provider.md:13`: "Complete or fail the claimed operation").
7. `MCDraftQueue_order.cfg` (`draft-queue.ts:99`). Replacement positions are replayed on
   a shorter queue. Add a, b, c; replace b by d, at index 1; skip a: d is moved to index
   1 of c, d, so that the two change places (`docs/offline-workflow-qa-2026-09-19.md:76`:
   "Removal retained the other rows' order").
8. `MCDraftQueue_first.cfg` (`bucket-reserve.ts:442`). Only a batch carries the legacy
   recommendations into the first generation; an exact draft that comes first makes
   them disappear (`docs/additive-drafts-intent-correction.md:25`).
9. `UncertainStaysListed`, `MCDraftQueue_legacy.cfg` (`draft-queue.ts:64`). A skip on the Candidates page, dated
   by the campaign calendar, takes effect when the legacy draft is carried over under
   that date, and hides a send whose outcome is unknown
   (`docs/offline-workflow-qa-2026-09-19.md:42`: a skip "cannot hide an uncertain send").
10. `SkippedTodayNotAdded`, `MCDraftQueue_legacy.cfg` (`bucket-reserve.ts:105`). A legacy draft skipped on a
    weekend is drafted again by the next batch: the skip has the UTC date, the reserve
    asks for the campaign date (`docs/additive-drafts-intent-correction.md:24`).
11. `ReplacementIsShown`, `MCDraftQueue_legacy.cfg` (`bucket-reserve.ts:228`). Replacing a legacy draft may
    select the same candidate, whose new draft the skip then hides
    (`buckets.integration.test.ts:715`: "leaves a draft present").
12. `MCDraftsPage_uncertain.cfg` (`drafts-workspace.tsx:462`). A message to a recruiter
    that was sent without a resume and went unanswered cannot be settled on the page: the
    primary button asks for the decision about the resume in every state, and in this one
    the decision can no longer be made (`docs/gmail-draft-only.md:53`: the page "offers
    Resolve Send Status").
13. `MCDraftsPage_opened.cfg` (`drafts-workspace.tsx`). An answer that arrives while a
    dialog is open may move the selection to another row, and the dialog then shows and
    confirms that one. What is mailed is still what it shows (`MailsWhatWasConfirmed`).
14. `DisallowFailsClosed`, `MCCandidateReview_statements.cfg` (`company-trust/index.ts:101`). After an employer was
    disallowed, a record with another domain makes it unverified, and the exception for
    recruiters found as such applies (`docs/audited-company-trust.md:9`: drift fails closed).
15. `GatesOutlastCorrections`, `MCCandidateReview_statements.cfg` (`review-bucket.ts:207`). A correction to peers
    removes the experience gate from the snapshot, and a correction back does not restore it
    (`recipient-buckets/index.ts:100`).
16. `SpendsNoMoreThanShown`, `MCCandidatesPage_statements.cfg` (`scoped-discovery.ts:129`). A search may spend more than
    the confirmed form showed: the server computes the maximum from the limits and the
    exposure of its own reading (`refresh-control.tsx:203`).
17. `InDraftsHasADraft`, `MCCandidatesPage_statements.cfg` (`daily-command-center.ts:267`). A person is shown as in
    Drafts without having a draft there (`candidates-workspace.tsx:100`).
18. `MCCandidatesPage_available.cfg` (`daily-command-center.ts:208`). A person shown as
    available is not ready in the reserve (`bucket-reserve.ts:105`).
19. `MCLiveValidation_two.cfg` (`apollo-five-bucket-live-validation.ts:854`). Two terminals
    that validate at once write back what they read before the usage call; an outcome lands
    at a place it was not validated for. The script does not promise to allow two.

Findings 8 to 11 concern a database whose recommendations predate the first
generation, the state `loadQueueReviews` preserves on purpose (`draft-queue.ts:92`).

## 13. What is proved

All theorems hold for every value of the constants that the named assumptions allow
(`SnapshotAssumption`, `DiscoveryAssumption`, `SearchAssumption`, `QueueAssumption`,
`PageAssumption`, `CandidatesPageAssumption`, `ProfilesAssumption`, `BoundsAssumption`,
`CountsAssumption`): any number of messages, people, operations, requests, tabs and
crashes. Every invariant, action property and refinement that a passing run checks is
proved. Some theorems have a hypothesis of their own; the argument below says why it is
needed.

`GmailOutreachProofs`

| Theorem | Property |
|---|---|
| `TypeCorrect` | `TypeOK` |
| `ProvenanceIsUnique`, `DeliveriesAreNotForgotten`, `OutcomesSuppress` | `OneProvenance`, `DeliveryNotForgotten`, `OutcomeSuppresses`, which `outreach_one_message` runs |
| `SendsAreBounded`, `EvidenceIsGenuine`, `AuditIsBalanced`, `SendsRestOnDrafts` | `SendCallsBounded`, `GmailEvidence`, `AuditBalances`, `SendNeedsCreatedDraft`, no longer run |
| `LedgerNeverRewritten` | `LedgerIsKept` |
| `ExclusionHolds` | `ExclusionIsFinal` |
| `DraftsAreSingle` | `AtMostOneGmailDraft`, assuming `~WritesMayFail` |
| `PromiseKept` | the refinement `KeepsPromise` |
| `RequestsGoForward`, `RecordsAreOwed` | what `RequestsFinish` and `SentIsRecorded` need besides fairness |

*The argument.* `SendCallsBounded` alone is not inductive: whether another call may
start depends on what was started in this state of the row. The invariant fixes
the counters exactly, `started` and `confirmed` as a function of the send state and
the reconciliation (`CallsExact`, `ConfirmedExact`), and records what a request still
knows of its row in each phase (`RequestInv`): the row a gate saw has not gone back.
Every step changes at most one row in one of six ways, so each invariant is proved
once per way and not once per action.

Drafts in the mailbox are counted by an invariant of their own, `CreationInv`: a draft may
still come from a creation in progress or from a call on the wire, so a creation starts
only where there is no draft, no call and no other creation. That a local commit does
not fail is needed (section 12, finding 5): the code takes the failed commit for a failed
creation. Crashes are allowed; they leave the row in `creating-gmail-draft`, from which
nothing starts.

`RequestsGoForward` numbers the phases of a request (`PhasesLeft`): every step of the
process lowers the number of its request and no other step raises that of a running one.
`RecordsAreOwed` says what is left over between the two transactions of a send: as long as
the process has not crashed, a row recorded as sent has its contact record, or some request
in phase `record` that targets it. A request leaves that phase only by writing the record,
which nothing can refuse by then: the draft was confirmed before the send.

`ApolloDiscoveryProofs`

| Theorem | Property |
|---|---|
| `RowsTypeCorrect` | the rows of `TypeOK` |
| `LookupsAreBounded`, `CompletionImports` | `LookupsBounded`, `CompletedIsImported` |
| `SettlementIsFinal`, `ResultsAreKept` | `SettledForGood`, `PaidResultsKept` |
| `LookupsExclude` | `OneLookupAtATime`, assuming `~HastyOperator` |
| `LookupPromiseKept` | the refinement `KeepsLookupPromise` |
| `AccountingStaysConservative` | `AccountingIsConservative` |
| `AllowanceIsKept` | `WithinDailyAllowance`, assuming `MaxCost <= 1` |
| `SpendStaysHeld` | `SpendIsHeld`, assuming `MaxCost <= 1` and `~HastyOperator` |
| `DiscoveriesRunDown` | what `DiscoveriesEnd` needs besides fairness |

*The argument.* `EveryStepMoves` reduces every step to one change of one row, in one
of the ways of `PersonReservation`, or an import. `LookupInv` strengthens
`LookupsBounded`: a person in a state from which a lookup may start has a release for
every lookup so far. `CompletedIsImported` needs that a discovery knows everyone it
owns (`OwnedInv`), which holds because a row comes to an operation only by its own
claim, and that imported rows never change (`SettledRow`). Exclusion is an invariant
of its own (`CallInv`): a discovery in a call owns a row that awaits its outcome; no
transition of another discovery applies to such a row, and a waiting operator
touches none that is in flight.

The money rests on what a row says of its operation. `AccountInv` holds that an
operation's recorded attempts and credits are at least those its rows show; each step
either recomputes the operation's row after changing one of its people or lets its
people only say less (`OneAccount`). For the allowance, `BoundInv` keeps what a discovery
has attempted and observed, in memory and in its row, within its exposure, so that no
completion and no failure raises what is held beyond what the authorization took. This is where one
credit per lookup is needed: an operation's exposure is a number of lookups, and the code
holds it as a number of credits (`MaxCost`, section 4). `SpendInv` maps every charge to a
person whose row still counts for the operation; an operator who writes off a lookup
that is on the wire breaks it, hence `~HastyOperator`.

`DiscoveriesRunDown` counts the steps a discovery has left (`StepsLeft`): three for each
person it still has to claim and those that end it. Every step of the discovery lowers
the count, one that claims nobody because the reservation is taken included, and no other
step raises it.

`SearchPagesProofs`

| Theorem | Property |
|---|---|
| `TypeCorrect` | `TypeOK` |
| `PagesOnce` | the refinement `DispensesPagesOnce` |
| `RotationIsFair` | `EveryPlanHasItsTurn` |
| `SearchesRunDown`, `SearchesGoOn` | what `SearchesEnd` needs besides fairness |

*The argument.* Pages need no invariant beyond types: a claim takes the cursor's own
page and moves past it in one transaction, and nothing else writes `nextPage`. The
rotation does: as long as some plan waits, there is a place `m`, at least as far as
the calls counted, below which every plan was served and above which none was searched
(`UpTo`); the next plan is then the first open one above `m`.

A search ends because `Remaining` goes down with each of its steps: the phases left in a
turn, two for each call the policy still allows, and the plans still open. It is
not stuck before that (`SearchesGoOn`): the plans that may be next are numbers, and a set
of numbers that is not empty has a least one.

`DraftQueueProofs`

| Theorem | Property |
|---|---|
| `TypeCorrect` | `TypeOK` |
| `DispositionsStayInAgreement` | `DispositionsAgree` |
| `EditsAreKept` | `EditsKept` |
| `QueueKeepsItsPromise` | the refinement `KeepsPromise`, assuming `Legacy = <<>>` |
| `UncertainSendsStayListed`, `CompaniesAreContactedOnce` | `UncertainStaysListed`, `OneContactPerCompany`, assuming `Legacy = <<>>` |
| `AddingKeepsTheDrafts` | `AddKeepsDrafts`, assuming `Legacy = <<>>` |
| `BatchesKeepTheDrafts` | `AddKeepsDrafts` with recommendations, assuming `UtcDay = CampaignDay` and `Request = {}` |

*The argument.* The queue is a projection, computed by folding over all generations; the
first part shows what that computes. Everyone who is shown has a place in it, however
replacements move drafts about (`Joined`, `Shuffled`): even the types need this, since a
replacement stores the position of the draft it replaces. Then a candidate's draft is
that of the last generation to list them (`Stored`), and, without recommendations,
the queue comes down to one predicate: `Waits(c)`, a stored draft that no disposition of
its day dismisses. `StoredInv` says no disposition gets between a started send and its
answer; `CompanyInv` that one candidate of a company holds the others back (`Holds`), that
none waits while the company is in its cooldown, and that a send started later is later
by the cooldown. The refinement then goes by one kind of step at a time:
additions, replacements, dispositions, sends.

`Legacy = <<>>` says the database has no recommendations from before the first
generation. It is needed: findings 8 to 11 are the counterexamples with recommendations.
`BatchesKeepTheDrafts` is what remains true there: where drafts enter by batches only
(no exact draft comes first, finding 8) and both calendars agree, as they do from Monday to
Friday while the days of UTC and New York agree. It rests on `DatedInv`: dispositions,
drafts and approvals are never of a later day, so a skip cannot come into force by
carrying a draft over (finding 9 needs a weekend).

`CandidateReviewProofs`

| Theorem | Property |
|---|---|
| `TypeCorrect` | `TypeOK` |
| `SuppressionLasts` | `SuppressedStaySuppressed` |
| `EligibilityIsEarned` | `EligibleIsEarned` |
| `ThePlannerFollows` | `PlannerFollowsReviews` |
| `DecisionsAreTakenInTurn` | `DecisionsAreInformed` |

*The argument.* Eligibility is computed from what is stored, so the invariant is about
stored snapshots (`Sound`): which gates are there whoever wrote last. Some writers drop
gates (finding 15); the two that last are those of an email and of a suppression.
`CandidacyInv` holds of the candidates and `TrustingInv` of the decisions about employers:
a decision is recorded only on the version it was prepared for, so that versions and
commands are counted together.

`CandidatesPageProofs`

| Theorem | Property |
|---|---|
| `TypeCorrect` | `TypeOK` |
| `SearchesFollowTheOperator` | `SearchesTheShownGroup` |
| `AllowancesAreKept` | `WithinSavedAllowances` |
| `OneCreditKeepsAllowances` | the exposure never exceeds the largest allowance ever in force, assuming `MaxCost <= 1` |
| `FormsSearchOnce` | `OneSearchPerForm` |

*The argument.* `RunningInv`: a search runs under one submission and the request of that
submission is authorized, so that no two submissions share a search. `ShownInv`: the
group of a submission is the one shown when it was confirmed. `BudgetInv`: today's
exposure covers what all running submissions hold (`Held`, a total over submissions) and
what others hold, and stays within the largest allowance ever in force and what was overcharged,
as every policy stays within the former that a submission has read before its turn. The same
invariant without overcharges (`overcharged = 0`, inductive when no lookup costs more than one
credit) gives the plain bound.

`LiveValidationProofs`

| Theorem | Property |
|---|---|
| `CallsAreSingle` | `OneCallPerBucket` |
| `LookupsFollowASettledSession` | `LookupsNeedASettledSession`, assuming `OneTerminal` |
| `UseIsAccountedFor` | `UseIsExplained`, assuming `OneTerminal` |

*The argument.* `CallsAreSingle` needs the claim only, and holds for any number of
terminals. The others need that what a phase remembers of the session is the session
(`PhaseInv`), which a second terminal breaks (finding 19). Use is explained by a sum:
the account differs from the baseline by the charges of all outcomes if each outcome
differs from the one before by its own (`Explained`, by induction on the outcomes as they
are appended, a step at a time).

`DraftsPageProofs`

| Theorem | Property |
|---|---|
| `TypeCorrect` | `TypeOK` |
| `ConfirmedIsMailed` | `MailsWhatWasConfirmed` |
| `TypedIsShown` | `ShowsWhatWasTyped` |

*The argument.* A confirmation is two steps of the server: it finds or freezes the operation
and then sends what is frozen. `FrozenInv` bridges them: in between, the operation of the
person under way holds the text and the attachment that were confirmed. Other tabs and the
command line act in between as well; a draft is frozen only while it has no operation,
and an operation, once frozen, changes its state and nothing else. `EditInv` holds that the
storage has every edit and that the tab has what the storage has as soon as it has read it;
before that no field can be edited, so nothing typed is overwritten by the reading. The
types need most of the work: that a row on display is the row of someone in the queue
rests on what filtering a sequence keeps (`Only`), which is proved with the least index at
which it would go wrong.

*Sums and recursion.* The provers cannot instantiate an induction theorem with a
predicate, and a fold over a set has no other handle. Two devices take its place.
`Totals` defines a sum as the number of its units, a cardinality, so that the
theorems on finite sets give what changes, grows and is bounded; these lemmas stand at
the head of the proofs of each module that adds up. And a
recursive function over an index is reasoned about with sets: the set of indices at which
a claim fails has a least element (`LeastExists`, from the well-foundedness of `<` on
naturals), and that element is contradicted.

*Only model-checked.*

- The last step of liveness, for which the prover has neither fairness nor ENABLED:
  `RequestsFinish`, `SentIsRecorded`, `DiscoveriesEnd`, `SearchesEnd`. What is proved of
  them holds of steps and states: the number that goes down, the record that is owed. That
  a running request, discovery or search always has a step to take, so that fairness
  drives the number down, is what the runs add; for a search that is proved too
  (`SearchesGoOn`).
- The statements of section 12 that fail. A counterexample is their proof.

## 14. What is not modelled, and the plan

`PROJECT.json` gives the reason for each part left out. The largest:

- **Daily refresh and unscoped batches.** No page reaches them any more: the control of
  the daily refresh is not rendered, and with the five buckets on, unscoped additions,
  replacements and refreshes are refused. Reading them for the model showed what would
  wait there: a replenishing refresh asks for twenty credits, so that any exposure of the
  day refuses it; two refreshes at once conflict on the identifier of their generation
  after the money was spent; a legacy lookup is retried under a hold of one credit.
- **Campaign planning and simulation.** A deterministic selection, run once by a command
  over reports nothing else writes to.
- **Resume library.** Files named by content, one writer.
- **Gmail authorization, migrations, topology, reset.** Start-up checks and external
  input/output.
- **Templates, voice, vocabulary, evidence.** Tables; a property would restate them.
- **The other pages** and the scripts of earlier stages.
- **What is not the program.** Close to half of the repository's implementation lines are
  tools for its authors: `.agents/skills` alone holds a browser helper of 13,532 lines. They
  are not NetworkPilot and share no state with it.

What could follow:

1. **Planning and selection** as operators checked against a reference definition.
2. **A composition** of `CandidateReview` with `DraftQueue`, so that classes change only as
   reviews change them.
