# A verification project for nadhaedu

nadhaedu is a learning platform: a FastAPI/PostgreSQL back end (`backend/app`), a
Flutter learner app (`lib`) and a Flutter CMS (`cms/lib`). This directory holds TLA+
models of its core logic, the TLC runs that check them, and TLAPS proofs. Every
definition is translated from the code at the lines `PROJECT.json` ("map") gives.

## 1. The system

The back end is a set of asynchronous request handlers. Each request opens one
`AsyncSession` (`db.py`), which is one PostgreSQL transaction at READ COMMITTED, and is
rolled back unless the handler commits. Handlers of different requests interleave at
every `await`; what protects them is row locks (`FOR UPDATE`), transaction-level advisory
locks, unique indexes, and idempotency records. The apps talk to it over HTTP with
retries, and hold state of their own between requests (an outbox of progress mutations,
a download queue, a pending assessment submission, a rotating session).

| Component | State | Operations | Interacts with | Hard behaviour | Correct when |
|---|---|---|---|---|---|
| **Commerce** (`commerce_services.py`, `commerce_providers.py`, routes in `api.py`) | payment transactions, purchases, subscriptions, entitlements, coupon redemptions, provider events, idempotency records | verify, restore, webhook, reconcile, cancel, change plan | payment providers (call in the middle of a transaction, notifications), access decisions, platform settings | duplicate and concurrent verification, reordered, repeated and lost notifications, locks taken in client order | each payment is recorded once and for one learner, access follows what was paid, the newest event rules |
| **Assessments** (`services.py`, `api.py`) | attempts, responses, idempotency records | start, resume, submit | lesson progress, certificates | double submit, deadline races, retry of an expired attempt | an attempt is graded once, the number of attempts is bounded, the answer replayed is the one recorded |
| **Certificates** (`services.py`, `api.py`) | certificates, revocations | eligibility, issue, verify, revoke | progress, assessments, access | double claim, claim against revocation | one certificate per course and learner, issued only when eligible, never valid once revoked |
| **Progress** (`api.py`, `academic.py`, `media_workflow.py`) | lesson progress, mutation ids, watch rows | sync, watch checkpoint, completion by grading | assessments, media, the app's outbox | three writers of one row, duplicated batches, two players | progress never goes back, nothing is counted twice, no completion without the required quizzes and videos |
| **Media** (`media_workflow.py`, `media_provider.py`) | media assets | authorise upload, complete upload | Cloudinary, lessons | replacement against viewing, lock order | history is never attached to another video |
| **Sessions** (`api.py`, `dependencies.py`) | users, sessions, reset codes | login, refresh, logout, reset, suspend | every route | rotation against revocation | a revoked session has no descendants |
| **Access** (`services.py`) | entitlements, policies | `resolve_access` | commerce, CMS grants | precedence of eight sources, expiry | the decision is the best live source's, nobody overwrites a grant he has not seen |
| **CMS operations** (`cms_operations.py`) | roles, account state, manual entitlements, settings | role change, suspension, grant, extend, revoke, settings | commerce switches, sessions | write skew between administrators | an active super administrator remains |
| **CMS authoring** (`api.py`, `academic.py`) | courses, modules, lessons, items | edit, reorder, review, publish, archive | catalogue, progress | lost updates | no reorder is lost to a deletion, published content stays bound to its videos |
| **Rate limiter** (`rate_limit.py`) | local windows, Redis counters, outage state | consume, enforce | Redis | outage, single probe | no more than the limit per window |
| **Download manager** (app) | task store, queue, active set, cancel tokens | enqueue, pause, resume, cancel, retry, delete, recover | downloads API, file system | user actions between the executor's awaits | a paused or cancelled task stays so, one executor per task |
| **Learning outbox** (app) | progress cache, pending mutations | record, synchronise, load | progress sync | crash between commit and local removal, stale fetches | nothing pending is lost, the display never goes back |
| **Assessment controller** (app) | attempt, answers, pending submission, timer | load, start, submit, retry, retake | assessments API | timer against submit, retry after loss | the same payload is retried, a learner is never stuck |
| **Commerce controller** (app) | checkout state | purchase, verify, restore | native store, commerce API | crash between charge and verification | what was charged can be restored |
| **Session client** (app, CMS) | stored token pair | refresh, retry on 401 | sessions API | two refreshes in flight | a valid session is not cleared |

Catalogue, bookmarks, notifications, profile, settings, content protection, screens,
seeding, migrations and the native shells have no protocol of their own and are not
modelled (`PROJECT.json`, "components", gives the reason for each).

## 2. Plan

The back end is modelled, one component after another, in the order of what is worth most;
the app as far as the back end's promises depend on it.

1. Commerce (section 3).
2. Assessments and certificates (section 4).
3. Learning: lesson progress with its three writers, and the app's outbox (section 5).
4. Accounts, sessions, administrators, and the rate limiter in front of them (section 6).
5. Authoring: the outline of a course, the content of a lesson, the academic hierarchy,
   access (section 7).

Every safety property that a run checks, invariants and action properties alike, and the
refinement of the transcript are theorems as well (3.5, 4.5, 5.4, 6.4, 7.4). Left to TLC
are the liveness property `RequestsEnd`, which is out of the prover's reach, and the expected
violations. `NumberProofs` holds the lemmas that several components need: least and
greatest elements of sets of numbers, and sums over finite sets. The community modules
define such sums by a fold, and their theorems on folds take an operator as a parameter,
which no installed prover can instantiate; the lemmas unfold the definition instead, and
argue by the least counterexample. What could follow are the hazards that have no property
yet (`PROJECT.json`, "hazards"), most of them in the app.

Conventions of all modules: a request occupies a slot (`Requests`, `Slots`, `Admins`,
`Claims`, `Calls`), is cut where it waits for a lock, for another system or for its commit,
and keeps what it has staged until then. A lock is a function of where requests stand, so
that an abort releases it by itself. A request that ends without a change has no action
beyond the one that ends it.

## 3. Commerce

### 3.1 Modules

* `PaymentProvider` - the provider as the back end reads it (external): what it says of
  each transaction (`charge`), until when it has been paid (`paidUntil`) and the
  notifications it has written (`feed`, an event's id is its index). Delivery belongs to
  the back end: an event may be delivered in any order, repeatedly or never.
* `Commerce` - the tables and the handlers.
* `CommerceProps` - what they promise.
* `MCCommerceRequests`, `MCCommerceLifecycle` - instances for TLC.
* `CommerceProofs`, `CommerceRequestProofs` - theorems.

### 3.2 State and actions against the code

| TLA+ | Code |
|---|---|
| `payment` | `payment_transactions`, keyed by provider transaction; unique (models.py:836) |
| `purchase`, `sub`, `ent` | `purchases`, `subscriptions`, `entitlements`, keyed by the transaction that created them. `sub.asOf` is `provider_state_updated_at`, 0 for NULL |
| `redeemed`, `idem` | `coupon_redemptions`; `idempotency_records` committed with a response |
| `recorded`, `applied` | `provider_events`; `applied` remembers what an event changed (history) |
| `open` | `purchases_enabled` without `emergency_commerce_kill_switch` |
| `req` | the verify and restore requests in flight: where they stand, and what they have staged |

`POST /commerce/transactions/verify` is `StartVerify` (flags, replay), `InsertKey` (the
idempotency record's INSERT, which waits for a duplicate), `LockTx` (advisory lock and the
lookup under it), `CheckVerified`, `CheckRejected` or `AccountMismatch` (the provider's
answer), `RedeemCoupon` and `Commit`, or one of the ways to fail. `POST /commerce/restore`
runs the same steps for a set of transactions, all of whose locks it keeps until its one
commit. The order of the client's list is any order, so `Proceed` picks the next
transaction. Writes of an open transaction are invisible to others, so they are staged in
`req` and reach the tables in `Commit`; locks are functions of where requests stand
(`HoldsKey`, `HoldsTx`, `HoldsCoupon`), and an abort releases them by itself.

Webhook, reconciliation, cancellation and plan change are one action each. They leave the
database for nothing, and the rows they write are locked before they are read
(`FOR UPDATE` at commerce_services.py:797 and api.py:1874; the autoflushed UPDATE of the
subscription before the entitlement is read, 696-701). Requests that end without changing
a table (refusals, replays, the ambiguous 409) are no action.

Abstractions: one provider; products are courses (or bundles, whose entitlements are
granted and revoked together) or plans; a coupon is its cap, its dates and product filter
being a verification that leaves it out; `redemption_count` is the number of redemptions.

### 3.3 Runs

| Run | Question | Distinct states |
|---|---|---|
| `commerce_requests` | two learners, two request slots, seven calls chosen to collide on a transaction, a key and coupons | 122,588 |
| `commerce_lifecycle` | every arrival order of three notifications about a subscription and a course, with reconcile, cancel, change plan and restore | 1,690,000 |
| `commerce_refund_race`, `commerce_reordered_renewal` | expected violations, see 3.6 | |

Bounds. Two request slots make every pairwise race, and every property is about a pair
(the theorems carry to any number of requests); the seven calls hold each collision: same
transaction by two learners, same key with another payload, the last redemption of a
coupon, the same coupon twice by one learner, a restore of two transactions against
single verifications, another learner's transaction. `MaxEvents = 3` is the least that
reorders a pair around a third (renewal, cancellation, refund), `MaxTime = 2` gives events
equal and different dates and lets a period of length 1 end. `Switchable` bounds away the
administrators' switches where they do not matter. `CHECK_DEADLOCK FALSE`: once every
bounded event is recorded and no call is left to make, the system rests.

Properties: `StoredResponseIsTrue`, `CouponCap`, `RedemptionIsPaid`,
`OnlyRestoresDeadlock`, `JournalIsImmutable` and `RequestsEnd` for requests;
`AccessFollowsSubscription`, `EveryGrantIsPaid`, `NewestEventRules` and
`PurchaseEndsWithItsRefund` for the life cycle. Each has a mutant of the code that breaks
it, in `Commerce` above the definition it changes. `StagedPaymentIsNew` is a theorem (3.5), on which
`JournalIsImmutable` rests, and no run repeats it.

### 3.4 Fairness

Only `RequestsEnd` needs it. `FairSpec` asks strong fairness of each request's own steps:
the event loop resumes every coroutine whose I/O has completed, PostgreSQL queues lock
waiters in order and its deadlock detector ends cycles (`AbortDeadlock`). It is strong
because a lock a request waits for may be taken and freed repeatedly. Nothing is assumed of clients, of
the provider or of the delivery of notifications.

### 3.5 Proofs

All for every value of the constants, under `ProviderAssumption` and
`CommerceAssumption` (TLC evaluates both).

* `CommerceProofs`
  - `TypeCorrect`; `SubscriptionAndAccessAgree`, by the invariant `LedgerInv`, which also
    says that an entitlement exists exactly with its subscription.
  - `GrantsArePaid`, by `GrantInv`: what a request has staged as verified the provider has
    charged to its learner (`Staged`), and each purchase, subscription and entitlement on
    record has a payment of its owner behind it (`Backed`).
  - `NewestEventsRule` and `PurchasesEndWithRefunds`, by `HistoryInv`: an event that was
    applied is on record and in the provider's feed, and no subscription is dated before an
    event that was applied to it (`Audited`). The guard on the date makes each event that is
    applied the newest; without the bound from below nothing would relate the two.
* `CommerceRequestProofs`: by `RequestInv`, the conjunction of
  - `InOrder`: what a request still has to do, has staged and is working on are apart;
  - `Grounded`: what is staged is not on record, because the lock was free when it was
    looked up;
  - `Exclusive`: two requests never hold one transaction's lock;
  - `OwnedIsRecorded`, `StoredResponseIsTrue`, `RedemptionIsPaid`.

  `StagedPaymentIsNew` is not inductive alone: that a commit of one request leaves the
  staged rows of another new needs the locks to exclude each other. From it follow
  `StagedPaymentsStayNew`, `StoredResponsesStayTrue`, `RedemptionsArePaid`,
  `PaymentsAreImmutable`, and, by a ranking of the locks (key before transaction before
  coupon), `DeadlocksNeedTwoRestores`. `CouponsAreCapped` uses `CouponInv`: the request
  that holds the coupon's lock has counted what is on record, so its redemption fits.

Only model-checked: the liveness property `RequestsEnd` (out of the prover's reach).

### 3.6 What the code does not keep

* `commerce_refund_race`: a refund notified while its purchase is being verified is
  recorded as ignored, and the purchase is then granted for good.
* `commerce_reordered_renewal`: a renewal delivered after a later cancellation notice is
  dropped, and with it the paid period.
* Restore grants new purchases while commerce is switched off: no action of a restore in
  `Commerce` reads `open`.

## 4. Assessments and certificates

### 4.1 Modules

* `Assessments` - the attempts of one learner in one course, their requests, and the quiz
  lessons that grading completes. Learners share no row of these tables and courses share
  none of a learner's, so one of each is enough.
* `Certificates` - extends it with claims and revocation.
* `Transcript` - the abstract specification: results, completed lessons and the
  certificate, with no request, key, lock, deadline or status.
* `AssessmentProps`, `CertificateProps` - what they promise; the second holds the
  refinement mapping.
* `MCAssessments`, `MCCertificates` - instances for TLC.
* `AssessmentProofs` - theorems about both.

### 4.2 State and actions against the code

| TLA+ | Code |
|---|---|
| `attempt` | `assessment_attempts`, by quiz and `attempt_number`: status, deadline, and the answers it was graded on, which say whether it passed |
| `idem` | `idempotency_records` of submissions; `done` once they hold a response |
| `completed` | `lesson_progress.completed` of the quiz lessons |
| `req` | the requests in flight: where they stand, what they have staged |
| `cert`, `claim` | the row of `certificates` and the `POST /certificate-issuances` in flight |

`POST .../attempts` is `StartRequest`, `AssignNumber` (advisory lock, count, limit) and
`CommitStart`. `POST .../submission` is `Submit` (replay and conflict checks), `InsertKey`
or `DuplicateKey` (the flushed INSERT), then `FOR UPDATE` with its three outcomes
`BeginGrading`, `RefuseFinalized`, `RefuseLate`, then `Grade` (the progress lock, the
other quizzes) and `CommitResult`. `GET .../attempts/{id}` of an attempt at its deadline
is `Resume` and `CommitExpiry`: it reads without a lock and writes later. A claim is
`StartClaim`, `LockClaim`, `CheckCompletion`, `CheckAssessments` and `Issue`, in which each
check is a query of its own, so that commits fall between them. `Fail` and `EndClaim` are
errors, refusals and lost connections, from any point. A transaction is cut where it waits
or commits; what it has staged stays in `req` until then, and locks are functions of where
requests stand (`HoldsKey`, `HoldsAttempt`, `HoldsProgress`, `HoldsStart`, `HoldsClaim`).

Abstractions: submissions are told apart by the payload and by whether it passes;
enrollment and `resolve_access` are taken to let the learner in (a refused start is no
action, a refused claim is `EndClaim`); lessons are of quizzes only; the loop of `Grade`
over a quiz's lessons is one step, under the lock that keeps its reads from changing.
Where a unique index would refuse a second row, the model leaves the first one, and
`StagedNumberIsNew` and `StagedCertificateIsNew`, which are both proved (4.5), say that this
never happens; the run `assessments` checks the first.

### 4.3 Runs

| Run | Question | Distinct states |
|---|---|---|
| `assessments` | two requests over a timed quiz with two attempts and an untimed one, both of one lesson | 140,297 |
| `certificates` | two claims, a revocation and two requests over three quizzes; the certificate requires one that is in no lesson and has a deadline | 349,176 |
| `assessment_late_resume` | expected violation, see 4.6 | |

Bounds. Every property is about a pair of requests or of claims, and two slots are reused,
so a third follows the first two. The submissions of `assessments` collide in every way the
code tells apart: same key and payload, same key and another payload, another key, the
same key on another attempt. Two attempts at the timed quiz let one expire and the next
one pass. `MaxTime = 3` holds a deadline (2), the instant at it, where resuming expires
and submitting is still in time, and one after it. `CHECK_DEADLOCK FALSE`: with the clock
at its bound and every attempt used up, no request has anything left to change.

Properties: `StagedNumberIsNew`, `ReplayIsTheResult`, `UnansweredKeyIsSpent`,
`NoLostCompletion`, `RequestsEnd`; `ImplementsTranscript`. The type invariant bounds the
number of attempts, and `StagedNumberIsNew` says that two starts which count at the same
time do not take the same number. The last one carries most: an attempt has one result for good, a lesson is complete only
once each of its quizzes has been passed, and a certificate is issued at most once, on
lessons and quizzes that are passed when it is committed and not only when they were
queried, and is never issued again once it is revoked.

### 4.4 Fairness

`RequestsEnd` asks strong fairness of each request's own steps, as in 3.4 and for the same
reasons. It holds without a deadlock detector: locks are taken in the order key, attempt,
progress. Nothing is assumed of learners or of time.

### 4.5 Proofs

For every value of the constants, under `AssessmentAssumption` and
`CertificateAssumption` (TLC evaluates both).

* Attempts
  - `RowInv` is the base: a request that holds an attempt's row has found it in progress
    (`Locked`), two requests never hold one row (`Exclusive`), an attempt without an end
    has no result (`Ungraded`). None of the properties is inductive without it.
  - `RepliesAreResults` and `LateKeysAreSpent`, by `AttemptInv`.
  - `StagedNumbersStayNew`, by `StartInv`: numbers on record are 1..n (`Contiguous`), so
    that counting them, lemma `Prefix`, gives the next one; starts of one quiz exclude
    each other (`StartsApart`).
  - `CompletionsAreKept`, by `LessonInv`: what the holder of the progress lock has staged
    is no less than what it would stage now (`StagedLessons`).
* Certificates: by `CertInv`, what a commit or a claim has checked stays true until
  it is written (`StagedEarned`, `ClaimGrounded`), and claims exclude each other
  (`ClaimsApart`). From it `StagedCertificatesStayNew` and the refinement
  `TranscriptImplemented`: `CommitResult` is the transcript's `RecordResult`, `Issue` and
  `Revoke` are its own, and every other step leaves results, lessons and certificate alone.

Only model-checked: `RequestsEnd`.

### 4.6 What the code does not keep

* `assessment_late_resume`: a resume at the deadline reads the attempt while a submission of it
  is being graded, waits for the row, and writes `expired` over `submitted`. The result stays, so replays
  and certificates, which look at `passed`, still count it; `required_quizzes_passed` and
  the attempt summary, which look at the status, do not.

## 5. Learning

### 5.1 Modules

* `LessonProgress` - the back end's three writers of `lesson_progress` (synchronisation,
  video checkpoints, grading) and the author's link of a video, whose locks meet theirs.
* `Outbox` - extends it with the learner app's durable outbox and copy of the progress.
* `LearningProps`, `MCLearning`, `LearningProofs`.

### 5.2 State and actions against the code

| TLA+ | Code |
|---|---|
| `row`, `acked`, `watch` | `lesson_progress`, `progress_mutations`, `video_watch_progress` |
| `passed` | the quizzes with a submitted attempt that passed |
| `linked` | `media_assets.content_item_id` is set |
| `pending`, `cache` | the app's stored outbox and progress (`learning_repository_impl.dart`) |
| `sending`, `fetching` | the synchronisation and the fetch in flight |
| `made` | history: every mutation the learner has made |

`sync_progress` is a request that `LockCourse` admits and `Merge` carries out, or
`RefuseBatch` where one mutation of the batch is not accepted. `save_watch` is `OpenWindow`
or `StartWatch`, `Checkpoint` or `RefuseSeek`, `Complete` and `CommitWatch`; grading is
`StartGrade` and `CommitGrade`; `save_content` is `StartLink`, `LockLesson` and
`CommitLink`. `Conflict` is the unique index on a lesson's first row. In the app
`RecordPosition` and `RecordCompletion` put a mutation into the outbox, which coalesces and
refuses at its capacity; `Synchronize` sends a batch, `Answer` is the back end's answer,
`StoreSync` removes what was acknowledged and `LoseSync` is a lost answer or a restart of
the app; `Fetch`, `StoreFetch` and `LoseFetch` likewise. A fetch may be answered before a
synchronisation that is stored first.

A position is a number of seconds. `sync_progress` keeps the greatest one and cuts it to
the duration on record, which it first raises to the one that the app has sent; the app
sends no position past that (`_clamp`, and a player without a duration is at 0), so the cut
does nothing and the durations sent are left out. `Duration` is another one, that of the
lesson's own row: an author gives it or leaves it at 0, and grading writes it over whatever
position there is. A lesson that grading completes has no video by then, but it may have had
one when the learner played it offline: nothing in the app or the back end relates the
position of a mutation to what the lesson holds now.

### 5.3 Run

`learning` (709,848 states): a lesson that is a video, one that is a quiz, one that is
that quiz and a note; two requests, an outbox of two mutations and three to record, so that
it is full once; a clock of two instants (`MaxTime`) and checkpoint windows scaled to one
(`Window`), so that the whole pause between the instants counts; a video of two is watched
in it at double speed, and two players share a window. The app's copy of the course may be
older than what the back end requires (`Outdated`). All of this at once is too much for one
run, so a behaviour is of one of two kinds (`watching`): all writers meet while the app
records a position of the video and a completion, or nobody watches while it records three
mutations: two positions of the quiz lesson from the time when that was a video, of which
the first is the further one, and a completion. The author of the quiz lesson has left its
duration at 0, so that grading finds positions past it, before and after they are
synchronised. Each is a behaviour of `Spec`; what both together could add is what 5.4
proves.

`NoUnearnedCompletion` and `ProgressOnlyGrows` are about writers that do not take the same
lock; the second also says what may go back, a position and only when a grading commits, and
where to; `WatchedTimeIsReal` bounds what any number of players can report by the wall clock;
`NothingRecordedIsLost` holds through lost answers, restarts, repeated batches, refusals
and a full outbox; `StagedMutationsAreNew` is why a batch does not meet the unique index of
`progress_mutations`; `OnlyLinksDeadlock` names the one pair of handlers that lock a video
and a lesson in opposite orders.

### 5.4 Proofs

`LearningProofs`, for any course, any requests and any mutations, under the assumptions of
`LessonProgress` and `Outbox`. The inductive invariant `LearnInv` is `TypeOK` with

* `ServerInv`: where requests of each kind can stand (`Formed`); two requests never hold
  the course's lock, nor that of one video; what a request has established before it waits
  for its last locks still stands (`Staged`), and a checkpoint about to be written goes on
  from the one that is there (`GoesOn`); windows lie in the past, and what was watched fits
  in them at double speed (`Dated`).
* `SendingStands`: what a synchronisation was answered for is on record, and a request that
  the app still waits for carries the batch it has sent.
* `NothingRecordedIsLost` itself.

That the greatest of a batch's positions is one, `MaxOf`, needs that there are finitely many
mutations, which `LessonAssumption` says, and nothing about how great they are.

The course's lock keeps synchronisations and gradings apart, the video's lock keeps what
a checkpoint has computed valid; neither lock is taken by all writers of a row. From
`LearnInv` follow `LearningTypeCorrect`, `CompletionsAreEarned`, `WatchingTakesItsTime`,
`RecordingsSurvive`, `MutationsAreStagedOnce`, `ProgressNeverShrinks`, and `CirclesLink`:
all requests but a link take the course or the video before the lessons, so that a circle
of waiting requests leads to a link, and that waits for a checkpoint of its video.

### 5.5 What the code does not keep

* Grading takes the position of a lesson to the duration that its author gave, 0 unless he
  did, from wherever a synchronisation had it, although positions are said to be the
  greatest known one. A synchronisation that comes after it raises the position again.
* The app's progress goes back when a fetch that was answered before a synchronisation is
  stored after it (`StoreFetch` with an older answer); the next fetch repairs it.
* A mutation that is refused refuses its whole batch (`RefuseBatch`), and stays in the
  outbox: what is behind it is not lost, but waits until the learner has passed the quiz or
  watched the video.
* Two first rows of one lesson at once: one of the requests ends with a 500 (`Conflict`).

## 6. Accounts and the rate limiter

### 6.1 Modules

* `Accounts` - users, sessions and reset codes, and every request that writes them, those
  of super administrators among them. `AccountProps`.
* `RateLimiter` - the window in Redis, the windows of the processes, the fallback and the
  probe. `LimiterProps`.
* `MCAccounts` - one instance for both. They share no state; the variable `part` chooses
  one of them for a behaviour.
* `AccountProofs` - theorems about both.

### 6.2 State and actions against the code

| TLA+ | Code |
|---|---|
| `user`, `session`, `code` | `users`, `auth_sessions`, `password_reset_codes`; a session is keyed by its refresh token |
| `req` | requests in flight, with the sessions they have listed (`seen`) and those whose rows they hold (`held`) |
| `shared`, `local` | the counters in Redis and `LocalRateLimiter.entries` |
| `retryAt`, `probing` | the fields of `DistributedRateLimiter` |
| `call` | `enforce` between its question to Redis and the answer |
| `admitted` | history: the admissions of one identity, by tick and by who counted |

Besides the locks that handlers ask for, `Accounts` has those of foreign keys: a new
session refers to its user and an audit event to its actor, so that both inserts wait for
whoever holds that user's row `FOR UPDATE` (`Referable`). That lock, and not the handlers',
is what keeps a refresh from slipping past a password reset. Registration, login, refresh,
onboarding, reset, change of password, deletion, logout, suspension, reactivation, change
of role and revocation are each a `Start` action and the steps they share (`LockToken`,
`LockUser`, `LockRow`, `Issue`, `CommitReset`, `CommitRevocation`, `RevokeForAudit`,
`Audit`).

The rows of the sessions that a request revokes are locked one by one and held to the end
(`LockRow`). A flush updates them in the order of their primary keys; the bulk UPDATEs of a
suspension and of `revoke_sessions` come to them in the order of a scan, which is any
(`InKeyOrder`, `NextRows`). Tokens are therefore numbers, in the order of the keys of their
sessions. When the sessions are listed differs: a reset, a suspension and a change of the
password do so once they hold the user's row (the change because the query flushes the new
password first), a logout, a deletion and `revoke_sessions` before they hold anything
(`SeenUnderLock`, `Start...`). A deletion writes everything in one flush, which, as the
models declare no relationship, comes to `auth_sessions` before `users`: it has the sessions
when it waits for the user's row (`CommitRevocation`).

`enforce` is one step until it asks Redis, as nothing awaits under the local lock
(`EnforceAlone`, `Enforce`); `Count` is the script, `Answer`, `FailCall` and `Disconnect`
are its ways to end: Redis may have counted a call whose answer never arrives, and a
cancelled request still ends its probe (`Release`, the `finally`).

### 6.3 Runs

`accounts` (1,514,502 states): a founder who is a super administrator and one more account,
three refresh tokens, two codes, two requests of any kind; and the limiter with one process,
two identities, a table of one entry, a window of two ticks and two calls in flight. Three
tokens are a session, its successor and one issued meanwhile. The limiter's clock runs from
1 to `MaxClock`, 3, and these three instants hold a window, the pause after a failure, and
the probe. A behaviour of the accounts makes some of the requests only (`KindsOf`): most of
what learners do, or what meets a suspension, or all kinds with two sessions and one code
(`MostSessions`). A session is issued with any key that is free, so that two sessions are
met in either order. Each part is a part of the behaviours of `Accounts`, so that none shows
what the code cannot do; that no mixture of them breaks the properties is what 6.4 proves.

`NothingEscapes`, `TokensAreExchangedOnce` and `ResetSpendsEveryCode` are about pairs of
requests; `OnlyTheseDeadlock` says that a circle of waiting requests has one of these pairs
in it: a rotation beside a reset or a suspension of its account, a deletion beside a reset
or a change of the password, a bulk revocation beside any other revocation, or two
administrators. Revocations that come to their sessions in the order of the keys do not wait
for each other in a circle, however many sessions they share.
`AdmissionsAreBounded` is stated for any interval of the length of a window, where fixed
windows admit up to twice the limit less one; the fallback counts for itself, so the bound
is one of each counter. `OneProbe`: the flag cannot stay set without a probe.

`owners` is an expected violation, see 6.5.

### 6.4 Proofs

`AccountProofs`, for any users, tokens, codes, requests, processes and identities.

* Accounts: `SessionInv` says where requests of each kind can stand, what they have in
  hand (`Formed`) and which rows of sessions they hold, those of a flush before all that it
  still waits for in the order of keys (`HoldsRows`), that these are of one account
  (`AllOfOneAccount`), that two requests which hold one user's row, or the row of one session,
  are the same, that a session stays live while it is being rotated (`RotatedIsLive`), and
  that the code of a reset is unspent until the reset spends it (`ResetIsDue`).
  `NothingEscapes` is not inductive without it: a refresh checks its session in one step and
  issues the next one in another. From it follow `AccountsTypeCorrect`,
  `SessionsDoNotEscape`, `ExchangesAreUnique` and `ResetsSpendCodes`.
* `DeadlocksAreThese` takes a circle without any of the pairs. It has no bulk revocation
  (`NoBulk`) and no reset that revokes (`NoReset`), so nobody in it holds a user's row for
  update; whoever holds a session then waits for a session with a greater key, and of
  finitely many keys one is the greatest (`NobodyAscendsForever`, on `FiniteMax`).
* Limiter: `ProbesAreReleased`, by `ProbesAreMarked`: exactly the calls that ask as a probe
  are those for which the flag is set. `AdmissionsAreLimited` measures, for each counter
  and each tick, what was counted before that tick and is admitted or may still be: an
  answer that is under way counts as an admission (`Measured`). From the first request of
  a window this number rises by what the counter has counted, and in the length of a window
  before that by less than the limit (`Bounded`); so it rises by twice the limit less one at
  most in any interval as long as a window, and the admissions of the interval are no more
  than its rise.
* `AccountTypesHold` is the type invariant of both.

### 6.5 What the code does not keep

* `owners`: the count of active super administrators is read without a lock on them and a
  change of role does not count at all, so that none may be left.
* The circles that `OnlyTheseDeadlock` names are real, and no handler expects them:
  PostgreSQL ends one of the requests, whose client gets a 500. A learner who deletes the
  account while its password is reset, or two revocations of two sessions, one of which is
  an administrator's, are enough.
* A change of the password lists the other sessions before it commits, and a login or a
  refresh in between leaves a session that it does not revoke.
* Signing out after the access token has expired rotates the session and revokes the old
  one only; the app's deletion of an account calls a route that always answers 410.

## 7. Authoring and access

### 7.1 Modules

* `Outline` - the modules of a course, the lessons of a module or the questions of an
  assessment, with their positions and the course's duration. `OutlineProps`, `MCOutline`,
  `OutlineProofs`.
* `LessonContent` - the content items of a lesson, its videos and the assessments they
  refer to, and the status of the course. `ContentProps`.
* `Academics` - curricula, standards, streams and subjects, and what learners and courses
  select from them. `AcademicsProps`.
* `Access` - `resolve_access`, and the grants and switches that administrators change from
  pages they have loaded. `AccessProps`.
* `MCAuthoring` - one instance for the last three, which share no row: the variable `desk`
  chooses one of them for a behaviour. `AuthoringProofs` - theorems about the three.

### 7.2 State and actions against the code

| TLA+ | Code |
|---|---|
| `Outline`: `row`, `course`, `learned` | the siblings with their positions, the course's row, the siblings that rows of learners refer to |
| `LessonContent`: `item`, `video`, `assessment`, `attempts` | `lesson_content_items`, `media_assets`, `assessments`, and the assessments that are attempted |
| `Academics`: `record`, `profile`, `class` | the four taxonomy tables, `student_academic_profiles`, the course's classification |
| `Access`: `policy`, `grant`, `setting`, `page` | `policy_kind` of the course, its module and its lesson; `entitlements`; the version of a row of `platform_settings`; what an administrator has loaded |

In `Outline` a flush is a sequence of updates in the order of primary keys, each of which
waits for its row and is checked against the unique constraint on positions (`Renumber`,
`Place`, `Collides`); a statement that has waited looks at the row again (`Stale`). A
deletion is `StartDelete` (the guard), `Delete`, `Renumber` and `FinishDelete`; a reorder
locks its siblings one by one (`Scan`, `LockSibling`) and writes them in one step, under
these locks; `Total` and `SaveDuration` write the course's duration.

In `LessonContent` saving an item is `StartSave`, which validates, and `Save` or
`CannotSave` under the lesson's lock; an upload waits for the provider between
`StartUpload` and `CompleteUpload`; an assessment is edited or deleted under its row's lock
(`Locks`), while attempts refer to it by a foreign key (`AssessmentFree`). In `Academics`
selections are validated against rows read without a lock. In `Access` an administrator's
change is `Load`, `LockRow` (which compares the versions) and `Extend`, `Revoke` or
`SetSwitch`; an extension's date is compared with the time before it waits for the row
(`StartExtend`) and is written whatever the time is then; a switch without a row cannot be locked, and the primary key refuses the
second of two first changes. `Provider` is what commerce does to its own grants.

### 7.3 Runs

`outline` (462,087 states): up to three siblings of any kind, two of which are there, and
two requests.
Three siblings are the least for which a deletion renumbers more than one row, so that a
reorder falls in between. `NoReorderIsLost`: a reorder that is about to write holds every
row its author has put in order, as far as it is still there, and nobody who deletes one of
them has read the order before and is still to write it back. `OnlyTheseDeadlock` says which
requests can wait for each other.

`authoring` (550,587 states): two managers; two items, two videos and an assessment; or two
curricula, two standards of which one is edited, a stream, a subject; or two grants, one
switch and a learner who may have bought the course. Items and grants share their keys,
and managers their slots, which keeps the symmetry group small. The desk of a behaviour is
the lesson (with the course's status as it began), the course (whose status changes, with
one request at a time), the hierarchy under a learner's or under a course's selection
(`Concerns`), or access (`OneRow`: two administrators are at the same row; `PoliciesVary`:
one policy at most is not inherited). What a desk does not concern is at rest (`AtRest`).
Why what a restriction leaves out does not matter is said above it in `MCAuthoring`; the
invariants and action properties of 7.4 are proved without any of them. `VideosAreBound` relates
two tables written by different handlers; `AttemptsAreKept` is about a foreign key that
cascades; `SelectionsAreConsistent` holds although nothing that it relates is locked;
`ChangesAreInformed` needs the lock on the row and the version, and relates each change to
what `resolve_access` decides after it: a revocation opens nothing, and an extension
closes nothing as long as its date is still to come when it is written. Three versions of a row let a second change follow a first.

### 7.4 Proofs

`OutlineProofs`, for any number of siblings and of requests:

* `OutlineTypesHold`, by `OutlineInv` (`TypeOK`, and where requests of each kind stand).
* `OutlineDeadlocks`: in a circle of waiting requests somebody holds a row, and who does
  waits either for another who holds one, as a deletion or a reorder, or for the course
  while that is being deleted.
* `ReordersAreKept`, by `RowInv`: what a reorder has in order is still to be locked, held or
  gone, and the row of a deletion is held and still there (`Keeping`); no two requests hold
  one row or create one (`ApartOf`). So a deletion that holds the row of a reorder keeps the
  reorder from writing.

`AuthoringProofs`, for any content, hierarchy, grants, managers and administrators:

* `AccessIsKept` (`AccessInv`: pages are of rows that are there, a row has one holder, and
  who holds it has seen the version that it has, except for a switch that had no row), from
  which `AdministratorsSee` proves `ChangesAreInformed`.
* `AcademicsAreKept` (`AcademicsInv`: every path that is selected, or that a request has
  validated, has its records, each under the one before it), and `SelectionsFollowPaths`.
* `ContentIsKept` (`ContentInv`: to an assessment that is locked nobody is adding a
  reference, a lesson has one holder, what a save has validated and what a deletion has
  found still stand), from it `VideosStayBound` and `AttemptsStay`.
* `AuthoringTypesHold`, which composes the three.

### 7.5 What the code does not keep

* A reorder leaves a sibling that was created meanwhile at its negative position; a
  deletion that renumbers may meet the unique constraint and fail with a 500; what guards a
  deletion is read before the row is locked, so that a learner's first row may be deleted
  with it.
* Apart from a reorder and a deletion of its rows, an order is not kept: a creation whose
  position was read earlier may land in a gap that a reorder has left, among rows that a
  deletion is renumbering, and a deletion of a row that the author of a reorder had not seen
  may write the older order back. Both take four siblings and three requests, more than
  `outline` has; they came up in the attempt to prove the contrary. No property states it.
* An extension that waits for the row while its date passes is written although it has
  expired, and closes what the grant had open, although a date in the future is required.
* Published content may refer to an assessment that is archived meanwhile; a foreign key
  that is violated is reported as a position that is taken; a video can never be replaced,
  as it counts as history of itself; `admin_update_course_status` publishes without
  validating.

`PROJECT.json`, "findings", quotes for each the line that says otherwise.

## 8. Bounds, symmetry and fairness

Two slots are enough for every pair of requests, a slot is used again when its request has
ended, and the properties are about pairs, except for the deadlocks, where a third request
only lengthens a circle. The theorems carry every safety property to any number of requests
and to any value of the other constants. Slots, items and videos are interchangeable, and no
definition compares them, so that symmetry is sound (tokens have an order, and no symmetry); no run with a temporal property other
than a step's uses it. Clocks, versions and positions stop at the bounds that the constants
name. Only `RequestsEnd` (3.4, 4.4) assumes fairness.

## 9. Not modelled

* The app's controllers (assessment, commerce, session, entitlement evaluator), which keep
  no state that outlives their screen: every sequence of calls they can make is a behaviour
  of the back end's modules.
* The download manager: its executors race with pause, resume and cancellation at most of
  their awaits, so that what one would state first (one executor a task, the limit on
  transfers) does not hold; its state is files and the platform's storage.
* Catalogue, bookmarks, notifications, profile, settings, cover images: single rows that
  are read or upserted.
* Token and signature cryptography, HTTP and JSON shapes, text, layout, logging and
  caching, and PostgreSQL below its documented locking behaviour.
