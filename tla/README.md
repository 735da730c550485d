# Doxomachy in TLA+

Doxomachy (`src/README.md`) is a public "mind": people pay to place beliefs and
to shield them, beliefs compete for 1000 tokens, and once a day the mind writes
a diary. The backend is one Cloudflare Worker (`worker/src/index.ts`), one D1
database, and one Durable Object, the Mind. This directory holds the
specification of that backend: TLA+ modules, TLC configurations, and proofs
checked by TLAPS. Every component of it is modelled; what is left out of each is
listed at the end.

## The system

| Component | State | Operations | Talks to |
|---|---|---|---|
| Paid moves (`auth.ts`, move route of `index.ts`) | D1 `credits`, `account_free_shields`, `paid_spends` + `spend_meta`; the Mind's `idempotency` | spendAccountMove, Mind POST, finishAccountMove, reconcileAccountSpends, prune, DELETE account | D1 batches; a call to the Mind between two of them |
| The Mind (`index.ts`, class Mind) | one storage value: beliefs, shields, version, cycle, idempotency, diary; a memory copy; a writer queue | beliefs, protect, GET, /internal/idempotency, the diary | D1 (diaries), R2 (snapshot), sockets |
| Daily diary (`runScheduledDiary`) | D1 `diaries`, `diary_sources`; the Mind's diaryDate, cycle | capture, catch up, claim, draft (AI), write, adopt | hourly cron |
| Payment fulfilment (`payments/fulfillment.ts`, `store.ts`) | D1 `dodo_orders`, `dodo_refunds`, `dodo_disputes`, `credit_ledger`, `payment_locks`, `credits` | grant, refund, dispute, dispute won, balance repair | webhooks of the provider, admin job |
| Webhook inbox (`payments/routes.ts`) | D1 `webhook_inbox` | claim, complete, fail, steal, prune | fulfilment |
| Checkout (`payments/routes.ts`) | D1 `checkout_intents` | create, finalise, escalate, recover | the provider's API, no idempotency key upstream |
| Reconciliation job (`payments/reconcile.ts`) | none of its own | repairs what the four above left undone | all of them |
| Sign-in (`auth.ts`) | `accounts`, `magic_links`, `account_sessions`, `auth_rate_limits` | request link, verify, rekey, sign out, delete | mail provider |
| Profiles (`profile.ts`) | `account_profiles`; review links, which are signed and not stored | edit, review | mail provider; beliefs carry the public id |
| Public reads | edge cache, R2 snapshot, sockets' coalesced broadcast, the page's merged state | GET mind, publishIfNewer, broadcast, poll | |

The hard parts: a paid move is spread over D1, a Worker that may die at any
`await`, and a Durable Object whose memory may be lost and whose answers may be
lost; the two databases forget at different times; payment events come late,
twice and in any order; and the hourly cron overlaps with everything.

What makes each correct: no credit is lost or minted, and no move is unpaid
(paid moves); the mind is within its capacity and evicts in the stated order
(Mind); one entry per UTC day, in order, none lost (diary); the net entitlement
of a payment depends on what happened to it and not on the order of the news,
and the ledger is what the balance received (fulfilment); one owner per delivery
(inbox); at most one payable session per key (checkout); a link opens one
session, and an address has one account (sign-in); nothing is shown that nobody
reviewed (profiles); what is published or shown is what the Mind holds (public
reads).
`PROJECT.json` lists the hazards, each at its line.

## Plan

In the order of their weight for the system; all of it is done.

1. **PaidMoves**, with the escrow it implements and its proofs.
2. **Fulfillment**: one payment, its ledger, lock, refunds and disputes, against
   the entitlement in closed form.
3. **DiaryDays**: days, sources, overlapping runs, AI failures, failed saves.
4. **MindBeliefs**: eviction, shields, the promise of `PROTECT_NEW_UNTIL_DIARY`,
   and the copies that leave the Mind.
5. **Checkout** and **WebhookInbox**, composed with the reconciliation job in
   **Purchase**.
6. **SignIn**, **ProfileReview**.

What could be added: refunds and disputes whose identities conflict (in
Fulfillment), two Minds of which one outlived its queue (in MindBeliefs), and, as a theorem,
what disputes that are won or cancelled leave of a payment's entitlement.

## Modules

An operator followed or preceded by a variant with a telling name
(`RefundUnclaimed`, `ClaimUnread`, `RereadUnchecked`, ...) has that variant only
so that the properties can be shown to notice a plausible mistake; no `Spec`
uses it. Every property of a passing run has one.

- `PaidMoves` — the protocol: variables, one action per operation, `Spec` and
  `LiveSpec`. `PaidMovesProps` — what it promises. `MoveEscrow` — the abstract
  specification: a price is held, a move may be delivered against it, the price
  is kept or, if nothing was delivered, given back, or waived by somebody who
  cannot tell. `PaidMovesInv` — the
  inductive invariants `EscrowInv`, `DurableInv` and `FreshInv`, and the
  environment they need. `PaidMovesProofs` — the theorems. `MCPaidMoves` — symmetry for TLC.
- `Fulfillment` — what one payment entitles its account to: deliveries, the
  lock, the ledger, the repairing job, the provider as environment.
  `FulfillmentProps`, `FulfillmentInv`, `FulfillmentProofs`, `MCFulfillment` —
  its promises, inductive invariants (from `Shape` up to `EvenInv`), theorems and
  symmetry.
- `SumTheorems` — lemmas about the sum of a function over a finite set, which
  the theorems about credits, shields and tokens rest on.
- `Faults` — what may go wrong around the program. An action that depends on D1
  or a service says `Works` or `Fails(kind)`; a run chooses the kinds and how
  many failures there are in all. All the modules below use it but `SignIn`.
- `DiaryDays`, `DiaryProofs`, `MCDiaryDays` — the daily diary.
- `MindBeliefs`, `MindProofs` — the beliefs of the Mind and their copies.
- `Checkout` — one idempotency key's intent against the provider.
  `WebhookInbox` — rows, leases and handlers of deliveries. `Purchase` — both,
  with the reconciliation job, from the checkout to the grant. `PurchaseProofs`
  — the theorems of the three.
- `SignIn`, `SignInProofs`, `MCSignIn` — links, rate limits, accounts, sessions.
- `ProfileReview`, `ProfileProofs`, `MCProfileReview` — edits and reviews of a
  profile's picture or link.

### How PaidMoves corresponds to the code

| Model | Code |
|---|---|
| `markers[k]` | row of `paid_spends` with its `spend_meta` row; `none` is no row |
| `balance`, `used`, `closed` | `credits.balance`, `account_free_shields.used`, the tombstone |
| `cache[k]`, `disk[k]` | the Mind's memory and storage: how often key k was applied, whether `idempotency` has it, how old that record is |
| `reqs[r]` | one Worker invocation of a POST and the call it made |
| `recs[c]` | one run of `reconcileAccountSpends`: the rows it selected, with their age at that moment, and the answer it holds |
| `deletion` | DELETE /v1/auth/account, with the balance it read |
| `ledger`, `forfeited`, `archive`, `misjudged`, `unsaved` | history, read by properties only (`misjudged` also by the bound `MaxMisjudged`) |

A D1 batch is one step, since it is one transaction. The Mind's writer queue
makes a move one step; the question of a reconcile pass bypasses the queue, as
in the code. `WorkerDies` and `CallLost` may strike at every `await`. A lost
call is separate from a dead invocation because a dead invocation leaves its
call running. `Tick` advances the age of every row that has a `created_at`. Four
periods (60 s, 6 days, 7 days, 30 days) enter only through their order, which
`PeriodAssumption` states.

One account is enough: every statement is bound to an `account_id` or to a key
that contains it. The Mind is shared by accounts, but a move of another account
touches this one only by saving memory to storage (`MindSaves`) and by pruning
(`MindRead`).

A pass that asks the Mind about a key takes what it cannot read for "not
applied": neither the status nor the form of the answer is looked at
(`index.ts:113-117`, 178-182). `Readings` therefore holds the truth and FALSE, and
only a rejected fetch ends the pass (`ReconcileDies`). `misjudged[k]` counts the
refunds such readings caused, and `Covered(k)`, the charges of a key that were not
returned plus these, is what `MovesArePaid` measures moves by: the wrong refund
costs its one move, and nothing else makes a move free. `unsaved` are the keys of
which a save failed after memory had the move; `SpentIsDurable` exempts exactly
them.

### The environment

Four constants say what is assumed of the world; every run and theorem names
its values.

- `PromptInvocations`: no invocation, call or pass outlives a Tick. Ticks are
  at least the 60 s of `ReconcileAfter`, and a Worker invocation normally lasts
  far less; nothing in the code enforces it, so the money run does without it, and
  the list of disagreements shows what it costs.
- `RetryPending`: whether a client reuses a key that is still in use. The
  site draws a fresh key for every POST (`app.js`), so FALSE is the site's
  behaviour and TRUE that of any other client.
- `RetryWindow`: the age up to which a client reuses a resolved key. Within
  the Mind's retention a repeat is recognised; the list of disagreements says
  what happens after it.
- `SaveMayFail`: whether `storage.put` may reject (the size limit, see the
  comment at `index.ts:280`). FALSE only in the money run, to which a failed save is
  no more than a lost call.

### How Fulfillment corresponds to the code

| Model | Code |
|---|---|
| `order`, `refunds`, `disputes` | rows of `dodo_orders` (its status and whether `payment_id` is set), `dodo_refunds`, `dodo_disputes` |
| `ledger[x]` | row of `credit_ledger` by reference: `grant:`, `revoke:dispute:`, `regrant:dispute:`, and `revoke:refund:` per refund; `applied` is `balance_applied` |
| `balance` | `credits.balance`, shared with the moves (`Spend`) |
| `lock` | the row of `payment_locks`; `dead` is a row whose owner is gone, which can be stolen once it is stale |
| `workers[w]` | one invocation: a delivery, or the job at one row |
| `news`, `sound` | what the provider has to tell; whether the payment passes `grantViolation` |
| `handled`, `spent`, `crashes` | history and bounds |

A delivery takes the lock and goes through `open` (what the handler reads first
and decides), `insert` and `credit` (the two halves of a positive
`applyLedgerDelta`), `debit` (one batch in the code), `settle` (one refund of
`settleRecordedRefunds` per step), `restore`, `status` (the last `updateOrder`)
and `unlock`. Reads of a handler that only writers inside the lock could change
are one step with the decision they lead to. `recordRefund` and everything about
a failed payment happen outside the lock, as in the code; linking and status of a
failed payment are one step, since nothing reads between them what would
matter. Refunds settle in any order, of which the order by `created_at` is one.
An invocation may die at any point, with its lock held or released.

A delivery that answers 200 has handled its event; equal events may be delivered
again at any time, since another webhook id or the job's replay does not meet
the inbox's record of the first. The leases of the inbox are therefore not
needed here. `SlowHolders` says whether a holder may still run when its lock is
stolen after `LOCK_STALE_MS`; `FailedAttempts` whether the payment had an
attempt that failed. A refund has one amount, and the provider does not refund
more than was paid.

`NetIsEntitlement` compares the ledger with the entitlement in closed form: the
pack less what the refunds cover, nothing while the dispute stands. It is
demanded in quiet states: everything was handled, no row waits for the balance,
and the job's own questions (is there a grant, is there a row for the dispute)
find nothing to replay. It presumes that no credit was spent, since a revocation
takes no more than the balance has; what holds with spending is
`NetWithinPack`, `DisputedIsHeld` and `BalanceIsTheLedger`.

### How DiaryDays corresponds to the code

| Model | Code |
|---|---|
| `source[d]` | row of `diary_sources`: its status, its attempts, and the cycle of the entry written from it |
| `entries` | rows of `diaries`: the day an entry is for, its cycle, the day it was created |
| `mind` | `diaryDate` and the next cycle in the Mind's storage |
| `ticks[t]` | one run of `runScheduledDiary`: the day it was scheduled for and the day it drafts |
| `today`, `empty` | the clock; whether the mind has had a belief yet |

A run captures the day's beliefs, catches up with the oldest pending day, and
writes its own; each await at which another run, a failure or midnight can
interfere ends a step. The AI is asked outside the writer queue, so two runs
may draft one day; what happens in the queue is one step, but for a late entry,
whose check and insert are two. A Mind that failed to save drops its memory
(`index.ts:522`), so only storage is kept. `Write` has the three outcomes of a
batch: it landed, it landed and the Mind does not know (a lost answer, a failed
save, a restart), it did not. The text of an entry, and whether the AI produced
a good one, are a choice. `NewMind` says whether the mind may begin without a
belief, which has no day to freeze.

`Midnight` waits for a run that is about to capture: the cron fires at half past
(`wrangler.toml:27`), and a capture is the first thing a run does.

### How MindBeliefs corresponds to the code

| Model | Code |
|---|---|
| `memory`, `stored` | beliefs, their shields' times and the version in the cached `MindState` and in storage |
| `queue`, `published` | `snapshotQueue` and the object in R2 |
| `page` | what `realtime.js` has merged in an open page |
| `told` | beliefs whose author got a success after a save that worked, until a diary has passed |
| `born`, `forgotten` | history: ids drawn; versions memory had and dropped without storing them |

A task of the writer queue is one step. `now` is read before a move waits for
the queue, so a move may carry a time up to `MaxWait` old (`Arrivals`), also one
before a diary or before another move. A belief's shields are a bag of times
(`times`), for the code counts those that have not ended and their order says
nothing. A save that fails leaves a move in
memory only; one of the diary makes the Mind drop its memory; a restart drops it
too. Storage is written by this one Mind, so what was dropped is read back at
once. A version that was dropped is used again for other beliefs, and that is
why `SnapshotFollows` exempts `forgotten` ones. Every save that works adds a
snapshot to `queue`, so several versions wait at once, as `index.ts:320-324`
chains them; a read adds one too, but not one that waits already. `Evicted` is the loop of
`planEviction` in closed form: a candidate goes if what is left after those
before it does not fit. `Cutoffs` are the half-past-midnights; a belief of
before the last one may be evicted (`Diarised`).

Copies are compared by their beliefs' ids, not by their shields, which age
without a new version. An answer to a page is received at once: a late one is
older than another and dropped. A page takes an answer of its own version if the
diary in it is newer (`realtime.js:11`); which diary is newer is left open
(`Shows`). The model begins with a Mind that has looked for its last diary once
(`ensureDiary`), and that is empty or has one belief with a shield.

### How Checkout, WebhookInbox and Purchase correspond to the code

| Model | Code |
|---|---|
| `intent` | the row of `checkout_intents` of one key of one account: status, session, whether its error is `finalize_failed`, whether it is younger than `STALE_PENDING_MS` |
| `orders` | rows of `dodo_orders`, by session and payment |
| `requests[r]` | one POST of `/v1/checkout/session` |
| `sessions`, `shown`, `paid` | what the provider created, whose address reached the buyer, what was paid |
| `inbox[e]` | row of `webhook_inbox`: status, owner's token, whether the lease runs |
| `handlers[h]` | one invocation that handles a delivery, and the row it has read |
| `acked` | events the provider was told are done |
| `granted`, `missed` | payments with a grant in the ledger; history: payments of which a delivery ended with `no_order` |
| `job` | one run of `runReconciliation` |

A statement in D1 and the call upstream are a step each, and each may fail by
itself; the provider may refuse, or leave it open whether it created a session.
A payment has the name of its session, and an event that of its payment. In
`Purchase` a delivery is fulfilled in one step if it finds an order, since
`Fulfillment` treats what goes on inside one, and in two if not (`Fulfill`, then
`Recover`): the checkout or the job, which writes outside the payment lock, may
write one between the look and the insert. When the insert fails, whatever the
reason, the order of the session is read again, and without one the delivery
ends with `no_order` and is acknowledged all the same (`fulfillment.ts:230-236`,
334, `routes.ts:186-191`). `missed` remembers these. `Withheld` are payments
whose credits are withheld, for they are disputed or not what was ordered; their
deliveries end normally too. Orders have their session and payment, for whoever
writes one first decides whether the others can. The job goes through its phases
in the code's order: it prunes, retries deliveries as the handler `Job`, lists
payments, recovers orders, marks intents, replays, and looks at what is still
unresolved. `Again` says whether the buyer may use a key once more after it was
paid.

### How SignIn corresponds to the code

| Model | Code |
|---|---|
| `accounts[a]` | row of `accounts` by the pepper its `email_hmac` was made with; deleted is a tombstone |
| `requests[r]` | one POST of `/v1/auth/magic-link`: its release, the account and link it works with |
| `byEmail`, `byIp` | the two buckets of `auth_rate_limits` |
| `links`, `sessions` | rows of `magic_links` and of `account_sessions` |
| `deletion` | DELETE /v1/auth/account between its reads and its batch |
| `mailed`, `kept`, `torn`, `raced`, `opened` | links that arrived; history for the properties |

There is one address, and other addresses from its source (`OtherAddress`). The
conditional increment of a bucket and the two statements before it are one step,
as those do nothing unless a window ended. `kept` counts the charges that were
let through or died with their request. A row that expired is as good as
deleted. Tokens and links are drawn once. `Releases` says which peppers the
releases that serve requests have. A window may end and an account be deleted
between any two statements. `torn` says of a bucket that its window began while
somebody who had charged it could still give the charge back; `raced` are the
accounts that were deleted while a request had read their id and not yet inserted
its link. `BucketIsExact` and `DeletedIsClosed` say what holds without these two
races, and of the first what holds with it.

### How ProfileReview corresponds to the code

`row` is the account's row of `account_profiles` for one of its two reviewed
fields (`Field`: a link that did not change is skipped, a picture never is);
`edits` are PUTs, `reviews` the reviewer's POSTs, `mails` the values with a
review link that arrived and has not expired. A review link is not stored and
names a hash of the value, so two links for one value are the same. `worn` are
the public ids that beliefs carry. `asked` and `approved` are history. An edit
checks the account first and writes the row later, so it may write after the
account was deleted.

## Runs

Each run asks a question of its own. A property stands in one run; the sizes are
distinct states.

| Run | Bounds | States | Shows |
|---|---|---|---|
| `paid_moves_money` | 2 requests, 1 key, 1 pass, a grant and revocations, one answer misread, every environment freedom but failing saves | 2,440,214 | credits and free shields are conserved, deletion forfeits no more than was shown, resolved is final |
| `paid_moves_escrow` | 2 requests, 2 keys, 2 passes, prompt invocations, keys retried while unused, failing saves, one answer misread per key | 644,911 | moves are paid but for the misread ones, what is closed as spent is on disk but for keys whose save failed, fresh charges buy moves, the refinement of `MoveEscrow` |
| `paid_moves_live` | 1 request, 1 key, 2 passes, one answer misread, every freedom | 83,102 | a pending charge is resolved |
| `fulfill_ledger` | 2 workers, a refund, a dispute that is won, other credits, one credit spent, one crash | 1,296,860 | the ledger explains the balance, rows are credited once and are final, the net stays within one pack, nothing disputed is left to spend unless an invocation died |
| `fulfill_serial` | 1 worker, a failed attempt, a refund of 1, 2, unknown or foreign amount, a dispute with all its outcomes | 735,984 | one delivery at a time converges to the entitlement |
| `fulfill_live` | 2 workers, a dispute that is won, one crash | 35,373 | a half-written credit is finished |
| `diary_overlap` | 2 runs of the cron, 3 days, 2 attempts a day, any 2 failures but of the capture and of the looks at older days | 233,643 | one entry a day, in order, and the Mind knows only what was written |
| `diary_live` | 1 run at a time, 3 days, any 1 failure, a mind that may begin empty | 6,897 | a frozen day is written or parked |
| `mind_beliefs` | 3 beliefs of 1 or 2 tokens in a capacity of 2, shields of 2 ticks, one diary, waits of 1 tick, versions up to 3, any number of snapshots waiting, any 2 of failed saves, failed publications and restarts | 1,529,989 | the capacity, the promise to new beliefs, the order of eviction, what copies show |
| `purchase` | 2 requests of a key, 2 sessions, of which one is withheld, 1 handler and the job, any 2 failures | 413,483 | one page, one order a payment, nothing acknowledged that is not granted, withheld or without an order, the last only after a failure, what is paid is granted, deliveries settle |
| `sign_in` | 2 requests, 3 accounts, 3 links, 2 sessions, limits of 2 and 1, the old pepper at first, windows and a deletion at any moment | 982,590 | buckets are exact, one account, a deleted account is closed, a link opens one session |
| `profile_review` | 2 edits, 2 answers, 2 links, any 1 lost mail or dead request | 989,152 | what is shown was approved, what was taken back is hidden, a deleted account is not found |

Type invariants: those of the fulfilment, the Mind (which holds the capacity)
and the purchase are checked by the runs; those of the other modules are proved
for every instance, and no run repeats them.

Bounds of the paid moves: `MaxLedger` caps grants, `MaxMisjudged` the refunds of a
key that misread answers cause; the theorems hold for any bound. Ages stop at `SpendTtl`, after
which nothing compares them further. `ReconcileBatch` is 1 in the runs, so that a
pass is cut short whenever two rows are stale. Keys interact only through
`balance`, `used` and the batch limit, and two keys and two passes in
`paid_moves_escrow` have them all. The theorems cover any number of
attempts, keys and passes. Deadlock is
checked in these runs: `Tick`, `MindRead` and others are always possible, so a
stop would be an error of the model.

Bounds of the fulfilment: two workers meet in every way that matters, as the lock
admits one and the steps outside it are a refund's record and a failed attempt; a
third would only wait. A pack of 3 or 4 with refunds of 1 or 2 has partial,
cumulative and full refunds. `fulfill_serial` has no overlap, no crash and one
refund, because with each of them the entitlement is missed (see the
disagreements); two workers and two refunds without a dispute and a crash keep
it (841,652 states). `MaxSpent` and `MaxCrashes` bound moves and crashes by one.

Bounds of the diary: a third day is what two older days need to be in an order;
two attempts let a day be parked after one more try. Two failures are a failed
save and a failed recovery from it. The failures `diary_overlap` leaves out, and
the empty mind, are those of `diary_live` and of the disagreements.

Bounds of the Mind: with three beliefs a new one can evict two, one or none, and
be refused. A move's wait, a shield's end and the diary fall within two ticks,
in each order. `MaxVersion` stops the run, so it does not check deadlock; it
also bounds the queue, which no save waits for: all versions may wait in it.
Starting with a shielded belief saves the versions its shield would take.

Bounds of the purchase: the second session is the one a second request gets
upstream. Two failures are, for instance, an order that could not be written and
a job that died. In `sign_in` the limits 2 and 1 stand for 5 and 60: what matters
is that the source can be full while the address is not. Two account ids more
than the first one allow for a deletion and a new sign-in. In `profile_review`
the picture instead of the link passes too (938,640 states). An account that was
deleted, with nothing under way, has nothing left to do, so this run does not
check deadlock; the others do, but for `mind_beliefs`.

Fairness of the paid moves (`LiveSpec`): the clock ticks; the cron keeps
starting passes (weak); a pass that can go on again and again finally does
(strong: it may die any number of times, but neither D1 nor the Mind is down for
ever). Nothing is assumed of requests or users. The run has two passes, so that
one may be stuck on a row while the other resolves it.

Fairness of the fulfilment (`LiveSpec`): a worker that has started goes on
(weak) until it answers or dies; the job, run again and again, turns to a row
that is again and again pending (strong), and a repair gets the lock if it is
free again and again (strong): its twelve tries are taken to outlast a holder,
so `Patient` lets only webhooks give up. Without that a stream of deliveries
could starve it. Nothing is assumed of the provider.

Fairness of the diary (`LiveSpec`): midnight comes (strong, since a run at its
capture holds it up), the cron starts runs and a run goes on (weak); failures
other than the AI's are finitely many. The AI may reject a day as often as it
likes: that is what parks it.

Fairness of the purchase (`LiveSpec`): the job is run again and again (an
operator calls `POST /v1/admin/dodo/reconcile`), it and a handler go on until
they end, and the lease of an owner that is gone runs out (all weak). No webhook
need ever come.

## Disagreements between code and text

The models show these when a property is stated, or a run's constants are
changed, as the first column says. They are the reason for the constants and the
premises of the passing runs, and each was refuted by TLC.

Payments and moves:

| Change | Refuted | What happens |
|---|---|---|
| `paid_moves_escrow` with `RetryPending = TRUE` | `MovesArePaid` | the first request of a key is refused while its retry's call is applied; the first one refunds |
| `paid_moves_escrow` with `PromptInvocations = FALSE` | `MovesArePaid` | a pass refunds a charge whose call is still queued or in flight after 60 s; the Mind applies it afterwards, unpaid |
| `paid_moves_escrow`, `MovesArePaid` with `Paid` for `Covered` | `MovesArePaid` | a pass that cannot read the Mind's answer takes it for "not applied" and refunds the charge of a move the Mind has (`index.ts:116`, 181; `auth.ts:275-276` says that a refunded key never applies) |
| `paid_moves_escrow`, `SpentIsDurable` without `unsaved` | `SpentIsDurable` | after a failed save the Mind still says the key was applied; the charge is kept, and a restart loses the move |
| `paid_moves_escrow` with three requests, one key, `RetryWindow = 4` | `FreshChargeBuysAMove` | a key retried between day 7 and day 30 is applied again and the fresh record outlives the marker; a later retry pays for a repeat |
| `fulfill_ledger`, `DisputedIsHeld` without `crashes = 0` | `DisputedIsHeld` | a dispute between a grant's row and its balance finds little to take, and the repair credits the disputed pack |
| `fulfill_ledger` with `SlowHolders = TRUE` | `BalanceIsTheLedger` | the crediting batch is not conditional on `balance_applied`; a slow holder and the job both credit the row |
| `fulfill_ledger` with `"challenged"` among `DisputeStatuses` | `DisputedIsHeld` | `dispute.challenged` delivered before `dispute.opened` makes the latter rejected, and nothing is revoked |
| `fulfill_serial` with two workers, no refunds, no disputes | `FailureNeverRegresses` | a failed attempt that read the order before the grant marks the granted order failed |
| `fulfill_serial` with a crash, no refunds, no disputes | `FailureNeverRegresses` | a grant whose handler dies before it writes the status leaves `created`, and a failed attempt that comes then marks the granted order failed |
| `fulfill_serial` with two workers, a refund of 1, a dispute opened and won | `NetIsEntitlement` | a refund recorded while a win holds the lock is subtracted by the win and revoked again by its own handler |
| `fulfill_serial` with two refunds, a dispute opened and won | `NetIsEntitlement` | the share a win kept back for a refund is taken again by the next refund |
| `fulfill_serial` with a crash, other credits, no dispute | `NetIsEntitlement` | after a crash between grant and settling, refunds recorded before the grant are never taken |
| `purchase` with one request, one session, only `"refusal"` and `"unsure"` failing | `NeverRetriedUpstream` | a key that was refused and then answered ambiguously stays `failed`, and its next request creates another session; `routes.ts:314-316` says "It is never retried upstream" |
| `purchase`, `OnePage` without `~Refused` | `OnePage` | two requests of a refused key both go upstream, and the buyer is shown two pages (`docs/dodo-payments.md:108`) |
| `purchase` with `Again = TRUE` and one failed finalize | `OnePage` | a key whose intent the job has recovered goes upstream again |
| `purchase`, demanding of every acknowledged event that it is granted or withheld | | one failed statement: an event that finds no order and cannot write one ends with `no_order` and is answered 200, its payload deleted, and only the job can still grant it (`fulfillment.ts:233-236`, 334, `routes.ts:190-191`) |
| `purchase`, `AckedIsSettled` without `Refused` | `AckedIsSettled` | after a refusal, an order the job wrote under another session is linked anew by that session's webhook, and the first payment has no order any more (`fulfillment.ts:188-198`) |
| `purchase`, `OneOrder` and `PaidIsGranted` without `Refused` | both | after such a second session the job writes an order under the wrong session, and the payment's link fails for ever (`reconcile.ts:190`) |

The rest:

| Change | Refuted | What happens |
|---|---|---|
| `diary_overlap` with `"capture"` in `Fragile` | `OneEntryPerDay` | the day is written from the live beliefs while a later run freezes it, and the frozen source is written as well |
| `diary_overlap` with `NewMind = TRUE`, no failure | `OneEntryPerDay` | the same, with a first belief between two runs |
| `diary_overlap` with one run and `"older"` in `Fragile` | `InDayOrder` | an error of D1 while looking for older days counts as none, although `index.ts:404-405` and 476 want days in order |
| `diary_overlap`, `DateHasEntry` without `ParkedUnwritten` | `DateHasEntry` | a day that another run parked while its late entry was being written stays parked, and its entry counts as that of the day it was created (`index.ts:369-370`) |
| `mind_beliefs`, `SnapshotFollows` without `forgotten` | `SnapshotFollows` | a version that was shown or published and never stored is used again for other beliefs, and R2 and the pages hold theirs for current; no read repairs it, although `docs/PUBLIC-SNAPSHOT.md:11` says every authoritative GET does |
| `mind_beliefs`, promising by the time of the answer, `MaxWait = 2` | `KeepsPromise` | a move that waited across 00:30 is dated before the diary, and is unprotected although that diary may not have had it (`wrangler.toml:45`) |
| `mind_beliefs`, comparing shields in `SnapshotFollows` | `SnapshotFollows` | decay changes the shields without a new version |
| `sign_in`, `BucketIsExact` without `torn` | `BucketIsExact` | a window that ends between charge and refund: the refund gives back a charge of the next one (`auth.ts:174-175` says that neither bucket is burned by the other's rejection) |
| `sign_in`, `DeletedIsClosed` without `raced` | `DeletedIsClosed` | a link inserted after its account was deleted opens the tombstone (`auth.ts:470-474`; migration 0005, 22-26, says that deletion removes sessions and links) |
| `sign_in` with `Releases = {"old", "current"}` | `OneAccount` | a request on the old release opens a second account for an address that has moved (`docs/operations-runbook.md:81-83`) |
| `profile_review`, checking `ChangedIsStale` | `ChangedIsStale` | while a new link waits for its review, a PUT of the one that is shown is skipped, and the review of the other still shows it; `profile.test.ts:63` says "a changed value makes the old review link stale" |

`NeverRetriedUpstream`, `FailureNeverRegresses` and `ChangedIsStale` stand in
`Checkout`, `FulfillmentProps` and `ProfileReview` for this purpose.

## Theorems

For every value of the constants that satisfies the assumptions named in the
component's module, and those a theorem states. Each rests on an inductive
invariant: an invariant is seldom inductive as it stands, and what it needs
besides says why the code works. In `PaidMovesProofs`:

- `TypeCorrect`: `Spec => []TypeOK`. A refund presupposes a marker, a debit a
  covering balance, so nothing goes negative.
- `PaidForever`: in a `GentleEnvironment` (prompt invocations, keys retried
  only when unused and within the Mind's retention) `Spec => []MovesArePaid`, for
  any bound on misread answers. The disagreements show what happens without either.
  `MovesArePaid` is not inductive: to know that applying a move is paid for,
  one must know who else may act on the key. `EscrowInv` adds that a key has
  one user at a time, that a user's pending marker is too young for a pass,
  that a pass works on keys nobody uses, that what was paid for and applied is
  remembered for as long as the marker might be retried (in memory and on
  disk, since a restart falls back to the disk), and that storage lags behind
  memory. `NextEscrow` shows each action preserves it.
- `Refinement`: in the same environment the protocol implements `MoveEscrow`.
  Under `EscrowInv` each action maps to an action of the escrow or to a stutter.
- `FinalForever` and `ForfeitBound`: in every environment, resolved charges are
  final and forfeits are bounded by what was shown.
- `CreditsConservedEver` and `FreeShieldsConservedEver`: in every environment,
  for a finite set of keys. With `TypeOK` both are inductive (`MoneyInv`): each
  action moves one key from one term of the sum to another, and
  `SumTheorems` says what that does to the sum. The theorem is about the
  statements that touch money twice, at the charge and at its refund, which
  agree only because the second is conditional on the marker.
- `SpentIsDurableEver`: in a `GentleEnvironment`, whether saves fail or not.
  `DurableInv` adds to `EscrowInv` that memory and storage hold the same moves of
  every key that is not `unsaved`, that whoever was told of a success of such a
  key may rely on storage, and that a row a pass closes without asking is past
  `ReconcileMax`.
- `FreshChargeEver`: in a `GentleEnvironment` where `LongRetention` holds, that
  is, where `RetryWindow + IdempotencyTtl < SpendTtl` (in the code at most 7 + 7
  days against 30). `FreshInv`: a marker is at most `RetryWindow` older than the
  Mind's record of its key, so that the record has lost its force when the
  marker is pruned. The disagreements show that with a longer window it fails.

In `FulfillmentProofs`:

- `RowsFinal`: in every environment, also with stolen locks,
  `Spec => RowsAreFinal`. The invariant is `Shape`: workers, events and rows
  have their fields, and a row that is not there moved nothing, so that an
  insert overwrites nothing of worth. `ShapeNext` goes through the actions by
  where they happen: outside the lock nothing touches the ledger (`OutdoorsShape`),
  inside one row at a time (`IndoorsShape`).
- `CreditedOnce`: with prompt holders (`~SlowHolders`), `Spec => []CreditsOnce`.
  Not inductive alone: `LedgerInv` adds that whoever works in the lock owns it
  and that an insert is worth something, so that the row it leaves is pending
  when it goes on to credit it. The assumption is needed: see the
  disagreements.
- `TypeCorrect`: in every environment, for a finite set of refunds. A debit takes
  no more than the balance has, so `balance \in Nat`; that a share is a number
  needs that a refund a worker is settling succeeded, and stays so (`TypeInv`).
- `BalanceIsTheLedgerEver`: with prompt holders. Each action writes one row and
  the balance by the same amount, or a row that is not applied yet.
- `NetWithinPackEver`: with prompt holders. Amounts are computed in one step and
  written in another, so `NetInv` says of every worker that what it is about to
  write still suits the ledger: a restore gives back no more than the dispute
  took, a debit takes no more than is left, the worker that granted the pack
  settles refunds alone, up to their share. It holds because only the owner of the
  lock writes rows.
- `DisputedIsHeldEver`: with prompt holders, one dispute, and no
  `"challenged"`; it speaks of quiet states before any crash, and nets at most what
  was spent. `HoldInv` adds that the statuses of the dispute move up
  (`Chain`), that what is delivered was sent, and, until a dispute is resolved
  or something dies, that nobody restores, that a pack is granted only while no
  dispute is recorded, and that a dispute is about to take all that is left. One
  dispute is an assumption because all disputes of a payment share one row
  of the ledger.
- `EntitlementEver` (`NetIsEntitlement`): with prompt holders, for any number of
  invocations, refunds and disputes, until an invocation dies; that grant,
  refunds and disputes converge in whatever order they are delivered. `EvenInv`
  adds to `HoldInv`, first, that rows have their reasons (`Reasoned`): a refund
  has one amount and is recorded before its row exists, a grant passed the gates,
  a dispute's row comes from the news of one, an answered refund has its row. And
  second, while nothing was spent and no dispute took the rest (`Shared`), that
  the refunds have taken at least what those with a row cover and at most what
  all recorded ones do. That is weaker than what holds at rest, because
  a refund takes the share of every recorded one, also of those whose own handler
  is still waiting for the lock, which then finds nothing left to take; and the
  handler that grants settles one refund after the other, so that for its time
  the sum is what its `done` cover. When all is handled the two bounds meet.
  Disputes that are won, cancelled or challenged are excluded: after a restore
  two of these orders do not converge (the disagreements), and TLC checks the
  rest.

In `DiaryProofs`:

- `TypeCorrect`, always.
- `OnceOnly` (`OneEntryPerDay`) and `KnownIsWritten` (`DateHasEntry`) if the
  mind has a belief (`~NewMind`) and no capture fails (`Calm`). `WrittenInv`
  says where an entry can come from: a day with an entry has a source that is
  written or parked, or is the day of the Mind or recognised by its rows; and a
  run at its insert holds the queue over a source that is pending.
- `InOrder` (`InDayOrder`) if besides D1 answers the looks for older days
  (`Sighted`). `OrderInv` adds that cycles are above those of earlier entries
  and that a run's target has no pending day before it (`InTurn`). The extrema
  of finite sets come from well-foundedness.

In `MindProofs`, for any sizes, waits, shields, failures and restarts:

- `PromiseKept` (`KeepsPromise`). `PromiseInv`: a belief that somebody was told
  of and that is still protected is in memory and in storage, with its time of
  creation, which is what an eviction looks at.
- `TypeCorrect`, which includes the capacity: what is kept after an eviction and
  the new belief fit, by the sums of tokens over the kept and the evicted.
- `WeakestAlwaysFirst` (`WeakestFirst`), an action property, from the types
  alone. The lemmas say of `Evicted`, for any capacity and sizes: `Before` is a
  strict order on the candidates (`BeforeIsAnOrder`), what goes is closed under
  it (`EvictedIsClosed`), there is a last one that goes (`LastBelief`), and
  without it the rest would not fit (`LastWasNeeded`).
- `CopiesFollow` (`SnapshotFollows`). `CopyInv`: every copy, also one that still
  waits to be published, agrees with memory and with storage where it has their
  version and was not forgotten, and storage is not ahead of memory and agrees
  with it on a version they share.

In `PurchaseProofs`, for any number of requests, handlers and failures:

- `CompletedFinal` (`CompletedIsFinal`), always.
- `AckedSettled` (`AckedIsSettled`) unless a paid key is used again. It adds to
  `OrderInv`, below, that the event of a handler that is about to complete is
  `Settled`.
- `TypeCorrect`, always. Three facts of `TypeOK` are not about types: pages are
  the provider's, what is paid was shown, what is granted was paid. `Known` says
  of each row, request, handler and job which sessions they may name.
- `OnePageEver` (`OnePage`) unless a paid key is used again. `BuyInv`: at most
  one request is past the insert of the intent, every session that was created
  is its or the intent's, and the job touches the intent only when a payment
  was seen or the row is too old for a request to be under way.
- `OneOrderEver` (`OneOrder`), if no request was refused and a paid key is not
  used again. `OrderInv` adds to `BuyInv` that there is one row at most, and what
  a request that may still write one relies on: there is none yet when it is
  about to finalize, and later its session is in the intent, which the job reads.

In `SignInProofs`: `OneAccountEver` (one release), `BucketExact` (finitely many
requests), `ClosedForever`, `OpensOne` and `TypeCorrect`. A request past the look
for an account under both peppers knows that there is none, or finds it again
by its unique hash; a link belongs to a live account or to one that was deleted
between its request's look and its insert, and so does the account a request is
about to link.

In `ProfileProofs`: `ApprovedEver`, `HiddenEver`, `UnknownEver`. An answer under
way that approves was sent; what was taken back does not wait for a review
either; an id of a row was drawn, so that a new row has another.

Only model-checked: `NetIsEntitlement` where a dispute is won or cancelled, which
`fulfill_serial` checks for one invocation, one refund and one dispute. The
liveness properties (`PendingResolves`, `PendingIsApplied`, `FrozenIsFinished`,
`PaidIsGranted`, `DeliverySettles`) are beyond the prover, because they rest on
fairness.

## Not modelled

- Of the fulfilment: refunds and disputes whose id comes back with another
  payment, amount or currency, the audit markers, payments whose metadata name no
  account or product, and `payment.cancelled`, which differs from `payment.failed` in the
  word it writes. Of the job: the page limit of the provider's lists, and its
  report.
- Of the paid moves: markers from before migration 0005 (no `spend_meta` row,
  refunded as one credit), the content of moves and the reasons the Mind refuses
  one.
- Of the diary: an operator who sets a parked day back to pending; the copy of
  the latest entry's text, which the next one replaces.
- Of the Mind: the one save of `ensureDiary`, outside the writer queue, before a
  diary was ever stored (`index.ts:313-317`: once in the life of a Mind, and the
  model starts after it); beliefs from before shields had times, `belief_too_large`, bodies
  replayed for an applied key (an old version with the current list; the site
  draws a fresh key for every POST), and two Minds of which one outlived its
  queue, whose head-then-put at R2 is not conditional.
- Of the public reads: the edge cache (an answer that is late), the batching of
  broadcasts, limits of sockets, the lag report.
- Of sign-in: whether the reply of a verification reaches the user; other
  addresses but for their share of the source's bucket.
- Of profiles: the name, which is one unconditional write and shown at once;
  the reads by public id, which only serve what is shown.
- Pages, logging and signature checking keep no protocol state.
  `PAID_SPEND_RECONCILE_BATCH` in `auth.ts` is not used by the code: the limit is
  the literal in the SQL.
