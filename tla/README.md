# Token Circles, modelled

TLA+ specifications of the parts of Token Circles where several requests, deliveries, crons,
tabs or devices act on one piece of state: billing, signing in, two-factor sign-in, the ledger
behind account balances, imports, scheduled mails, profiles and receipts and their restore,
the guidance state of an account, and the way an open page gets to a new build. TLC checks
them on small instances, TLAPS proves the main properties for every value of the constants.
Every definition is translated from the source; `PROJECT.json` maps each to its lines. Paths
below are relative to `src/`.

Contents: [the system](#the-system) · [plan](#plan) · [modules](#modules) ·
[runs and bounds](#runs-and-bounds) · [fairness](#fairness) · [theorems](#theorems) ·
[findings](#findings) · [what is left out](#what-is-left-out)

## The system

Token Circles is a personal-finance application. One Cloudflare Worker serves everything
the cloud version does: Hono routes (`worker/src/routes/`) over a D1 database (SQLite) and an
R2 bucket, with Stripe for subscriptions and Resend for mail. The frontend (`frontend/src/`,
SolidJS) either talks to that worker or, local-first, runs the same API over IndexedDB in
the browser. `shared/` holds rules both use, `packages/pwa-kit` the update logic of the
installed application.

What makes it hard is one fact: a Worker invocation runs concurrently with any other and
D1 has **no interactive transactions**. A handler reads, decides, and writes a *batch*
that commits as one. Between the read and the batch anything may have happened, so
correctness rests on the `WHERE` clauses of the batch: a claim (`UPDATE ... WHERE used_at IS
NULL`, `INSERT ... ON CONFLICT DO NOTHING`), a version the write is bound to
(`SAME_TOKEN_VERSION`), or the row as it was read (`unchangedSince`). An invocation may also
end anywhere between two calls, and R2, Stripe and Resend are in no transaction at all. In
the browser the same holds of tabs: they share a service worker, its caches and a row on the
server, and each has its own copy. Those are the behaviours the models are about.

| Component | State it keeps | Operations | Interacts with | What makes it correct |
|---|---|---|---|---|
| Billing (`routes/billing.ts`, `stripe.ts`, `billingMail.ts`) | billing columns of `users`, `stripe_events` | webhook (5 event types), checkout, portal | Stripe: redelivered and reordered events, look-ups that fail | an event takes effect once; late events do not win; the row agrees with Stripe when all is delivered; nobody pays twice |
| Sessions and sign-in (`auth.ts`, `routes/auth.ts`) | `users` (password, `token_version`, `email_verified`, `google_sub`), `auth_sessions` | login, Google, sign-out, sign out everywhere, reset | every route (`requireAuth`), links, codes | a revoked device or a sign-in under way gets nothing; a proof of the mailbox ends what was set up without it |
| Mailed links, codes (`email-link.ts`, `email-verification.ts`, `email-change.ts`, `login-codes.ts`, `welcome.ts`) | `password_resets`, `email_verifications`, `login_codes`, `reminder_dedup` | mint, retire, claim, apply | sessions, Resend | each takes effect once, for the address it was sent to |
| Passkeys, API tokens (`routes/passkeys.ts`, `routes/api-tokens.ts`, `apitoken.ts`) | `passkeys`, `api_tokens` | add, use, remove | sessions | added by a session that is still trusted |
| Two-factor (`twofa.ts`, `routes/twofa.ts`, `totp.ts`) | `totp_credentials`, `recovery_codes` | setup, enable, disable, verify | sessions, challenges in a cookie | a code is used once; on means two factors |
| Transactions, accounts, bills, recurring rules (`routes/transactions.ts`, `accounts.ts`, `bills.ts`, `recurring.ts`, `recompute-balances.ts`) | `transactions`, `accounts.balance` and `starting_balance`, `bills.last_paid_date`, `recurring_transactions.next_date` | create, edit, delete, bulk, pay, populate, correct, recompute | each other, through balances | a balance is its start plus its ledger; a period posts once |
| Imports (`routes/imports.ts`, `import-logs.ts`, `import-sync.ts`, `import-email.ts`, `mcp/tools-import.ts`, `routes/v1.ts`) | `transactions` by import id, accounts, `import_logs` | resolve accounts, compare, clear an earlier attempt, insert in chunks, recompute, log, undo | the ledger; a cron and an e-mail handler start it too | a line lands once; a stopped import can be tried again; undo takes back what was put in; balances agree afterwards |
| Mailings (`reminders.ts`, `weekOne.ts`, `routes/notifications.ts`) | `reminder_dedup`, `reminder_sends`, `users.unsub_token` | crons `0 8 * * *`, `30 8 * * *`, `0 9 * * 1`, `0 10 1,15 * *`, a trigger, a preview | Resend, which fails and answers late | a slot is claimed before the send, given back when it failed; a stop link works until its address moves |
| Profiles, erasure, restore, receipts (`routes/profiles.ts`, `account.ts`, `profileData.ts`, `backup.ts`, `routes/receipts.ts`) | `profiles` and everything below, a row in D1 and a file in R2 per receipt | create, clear, delete, erase, upload, replace, staged restore | two stores without a common transaction | a listed receipt opens; no file without a row; a restore is all or nothing |
| Guidance state (`routes/account-state.ts`, `shared/accountState.ts`, `frontend/src/core/`) | a row per key on the server, a copy per page, a flag per browser | read, merge, compare-and-set, three attempts | several tabs and browsers | no tab's progress is lost; a decision reaches the account |
| Application updates (`packages/pwa-kit`, `appVersion.ts`, `bootRecovery.ts`, `index.html`) | a registration, a cache per build, `sessionStorage` | install, take over, poll, ask, reload, recover | an origin that moves on, other tabs | no page is taken away, none is left on a build that is gone |
| Goals, loans, budgets (`savings-goals.ts`, `recalc-goals.ts`, `loans.ts`, `budgets.ts`) | rows and derived sums | edit, recalculate | the ledger | the derived number is that of the rows |
| Local store (`frontend/src/core/storage/`, `dataVersions.ts`, `dataRevalidation.ts`) | IndexedDB, a version per data kind | the same API, per tab | other tabs | the same ledger; no tab shows another's past |
| Reads, screens, formulas, settings, gates, logs | – or one row per key | – | – | nothing interleaves with itself |

`PROJECT.json` lists every component with its status, and under `hazards` every place in
this code that is hard to test.

## Plan

Order is by what goes wrong at greatest cost.

1. **Stripe, Billing** – money taken and plans granted, driven by an unreliable third party. *Done.*
2. **SignIns, Access** – who gets in. `SignIns` is the abstract promise; `Access` implements it. *Done.*
3. **TwoFactor** – the second factor step by step; `Access` has it as one of its ways in. *Done.*
4. **Ledger** – balances, bills, recurring rules. *Done.*
5. **Imports** – import, undo and log, with all their starters. *Done.*
6. **Mailings** – claim, send, give back, under a monthly cap. *Done.*
7. **Storage** – profiles, receipts, erasure and the restore over two stores. *Done.*
8. **Guidance** – several pages, one row, a decision that must arrive. *Done.*
9. **Updates** – service worker, caches, tabs, deploys. *Done.*
10. **Accounts' promise** – an abstract ledger (rows and balances change together) that `Ledger`'s
    guarded requests implement, then **LocalLedger** (IndexedDB transactions, upgrades across
    tabs, a tab's stale answers) as a second implementation of it. *Left.*
11. **Sign-up** – creating an account and its first profile in two calls (`auth.ts:763`). *Left.*
12. **Loans**, **Goals**, **Budgets** – recursive functions against reference definitions. *Left.*

Theorems to prove next: the refinement of the abstract ledger (10); `SettledAgreement` for
several subscriptions of one customer, which needs to know of each event that is still on its
way which subscription it speaks for, and of the link and the filling of holes that they do not
change a subscription which is not the session's.

## Modules

```
Stripe  <-- Billing  <-- MCBilling, BillingProofs
SignIns <== Access   <-- MCAccess, AccessProofs
TwoFactor  <-- MCTwoFactor, TwoFactorProofs        Ledger   <-- MCLedger, LedgerProofs
Imports    <-- MCImports, ImportsProofs            Mailings <-- MCMailings, MailingsProofs
Guidance   <-- MCGuidance, PagesProofs             Updates  <-- MCUpdates, PagesProofs
Storage    <-- MCStorage, StorageProofs
   <-- EXTENDS          <== INSTANCE, implemented by
```

Each component module has the same parts: constants and one assumption, variables, `Init`,
one action per step, the next-state relation, properties, and what comments say that the code
does not keep. Beside some definitions stands a *mutant*, the variant a plausible mistake would
produce, which a run must notice. History variables (`epoch`, `cleared`, `applied`, `spent`,
`redeemed`, `moved`, `filed`, `mails`, `ended`, `begun`, `logged`, `sent`, `unsure`, `stops`,
`overlapped`, `made`, `kept`) are read by properties only; the counters of `Updates.used`, `crashes`, `asked`
and `faults` bound what the surroundings do.

### Stripe and Billing

`Stripe` is an external service: subscriptions that renew, fall behind, lapse, recover and
end, and an `outbox` of events that stay until acknowledged. What the surroundings may do
is a `world`, chosen once per behaviour out of `Worlds`: may two events share a second, do
deliveries start in order, may calls fail, may checkouts overlap, is one delivery handled
at a time.

`Billing` has the row (`users`), the `stripe_events` ledger, the local state of each webhook
invocation (`job`) and each checkout. The webhook is split at every `await`:

| Action | Code |
|---|---|
| `Receive` | the insert into `stripe_events`; a duplicate is acknowledged at once; `begun` counts the invocations that got past it |
| `Link`, `FillLookup`, `Fill` | `checkout.session.completed`: link, look Stripe up, fill the holes |
| `Apply` | `customer.subscription.created/updated` that entitles, through `applySubscription` and its watermark `stripe_event_at` |
| `StrayCheck`, `ReadAccount`, `EndLookup`, `EndWrite`, `Notify` | deletion or a status that no longer entitles: stray?, whose plan, what is still live, the write, the mail |
| `Crash` | the invocation ends before it acknowledges: Stripe delivers again |
| `CheckoutRead`, `CheckoutLook`, `CheckoutMove`, `CheckoutBuy`, `CheckoutFails` | `POST /billing/checkout` |

`SessionPaid`, `SessionReported`, `SessionExpires` and `SubscriptionStep` are Stripe's and its
customer's. A tier stands for a (plan, interval) pair; prices, the mail's words and the
portal's page are left out. `invoice.*` events only mail, and are not emitted.

### SignIns and Access

`SignIns` says what signing in promises with no requests, tables or versions: a device gets in
on a proof that holds at that moment, and a new password, or a sign-out of all devices, leaves
none in. `Access` is the code: one account, several requests, each database call an action.
A request carries the version its check read (a *grant*) and the mailed row it works on.

| Part | Actions |
|---|---|
| Signing in | `LoginRead`, `MarkedLink`, `PasskeyRead`, `GoogleRead`, `SecondFactor`, `AnswerChallenge`, `IssueSession` |
| Confirming | `OpenLink`, `OpenFromSignUp`, `Unchallenged`, `ClaimLink`, `CheckAddress`, `ConfirmAddress`, `GoogleJoin` |
| Codes | `CodeLookUp`, `MintCode`, `PruneCodes`, `CodeRead`, `SpendCode`, `ProveByCode` |
| Resetting | `ForgotLookUp`, `RetireResets`, `MintReset`, `ResetRead`, `SpendReset`, `ApplyReset` |
| Links and moving | `ResendLookUp`, `MintConfirm`, `ChangeCheck`, `MintChange`, `ChangeMailed`, `ChangeNotMailed`, `CancelChange`, `ApplyEmailChange` |
| With a session | `AddCheck`, `AddAccess`, `RemoveAccess`, `EndSession`, `LogoutAllCheck`, `LogoutAll` |
| Failure | `Stop`: a request refuses, or ends between two calls, and leaves what it wrote |

`clearUnconfirmedAccess` and `claimWelcomeOnConfirm` are operators the batches share, as in the
code. Abstractions: a row's expiry is a choice where the code tests it; a link that is already
used is not read (the code reads it and refuses); the session check of `GET /verify-email` and
its read of the link are one step; other accounts exist only as "the address is taken", an
outcome of `ApplyEmailChange`; a sign-up repeated at an address that waits mails a new link and
keeps the password it has; rate limits, Turnstile, logging and the words of mails are left out.

### TwoFactor

One account's enrolment, recovery codes, sessions and challenges. `ReadTotp`, `AcceptAppCode`,
`AcceptPaperCode`, `RefuseCode` are `verifySecondFactor`; `SetupCheck`, `Enroll`, `EnableRead`,
`TurnOn`, `MarkEnrolled`, `EndOthers`, `Drop` the settings. A code of the app is a (secret, step)
pair and the window is the code's: the step before, this one, the next. First factors are
always right; the hash behind a recovery code is a model value.

### Ledger

Transactions by id, accounts with `start` and `balance`, and a bill and a rule with their
periods. A request reads (`CreateCheck`, `EditRead`, `DeleteRead`, `PopulateRead`, `PayRead`,
`BulkRead`, `CloseCheck`, `OpenForm`, `RecomputeBegin`) and later writes one batch (`Create`,
`Edit`, `Delete`, `Populate`, `Pay`, `BulkDelete`, `BulkType`, `Close`, `SaveForm`,
`Recompute`); `ClearAll` and `OpenAccount` are one statement each. `Effect` is what creating a
row, and every recompute, counts for an account; `EditEffect` what edits and deletions count:
they differ, as they do in the code. `moved` remembers how much each transaction moved each
balance.

Amounts are whole and in the base currency: `amount_local` is `amount` or its conversion, and
rounding is left out. A period stands for a calendar date, so `next_date` never skips; rules
and bills are not edited and `next_date` is never `NULL`. A bulk request is one chunk. Tags,
splits, goals and reconciliation move no balance and are left out.

### Imports

`executeImport` one database call after another, for the four callers that differ in what they
offer and log, and the two undos. Rows are counted by import id, line and account: that is all
the duplicate check, the clearing and the recompute look at.

| Action | Code |
|---|---|
| `Begin`, `Replace`, `Retry` | a page, sync, mail or API import with a fresh id; the API with the id of an earlier one; the page again with its own |
| `LoadAccounts`, `ReadOpenings`, `ApplyOpenings`, `Create`, `ReloadAccounts` | which account a name means, opening balances, the accounts that are missing |
| `Compare` | the duplicate check against rows of no or another import, bucket by bucket |
| `Clear`, `Insert` | the deletion of an earlier attempt, the chunks |
| `SumUp`, `SetBalances` | `recomputeBalancesForAccounts`: the reads, the batch |
| `Finish` | the row of `import_logs`, by each caller's own rule |
| `UndoBegin`, `UndoDelete`, `Recount`, `SetBalances`, `Unlog` | `DELETE /api/import-logs/:id`, and `undo_import` of the MCP server |
| `AddAccount`, `RenameAccount`, `TypeIn` | what people do in between |
| `Crash` | an invocation ends, or a call fails; the page keeps its id to try again |

A line is an expense of one unit that leaves an account, so a balance is the start less the
number of rows. A chunk is the rows of one line, in any order. Parsing, dates, categories, tags
and currencies are left out, and so are the cursor of a sheet and the gate of a message.

### Mailings

A run is a cron, a manual trigger or a preview, going from account to account with the rows
of `users` it read at its start.

| Action | Code |
|---|---|
| `Fire`, `Trigger`, `Preview`, `Compose` | the crons, `POST /trigger`, `POST /test-email` and its composing |
| `Pick`, `EnsureToken` | the next account; `ensureUnsubToken` |
| `Quota`, `Claim`, `Send`, `Release`, `RecordSend` | `withinQuota`, `claimReminderSlot`, `sendClaimed`, `releaseReminderSlot`, `recordSend`; the week-one mails' claim with all its conditions |
| `Done`, `GiveUp` | the end of a run; an account that throws, or an invocation that ends |
| `Confirm`, `Move`, `Turn`, `NextDay` | people confirm, change address (to any that is free, an earlier one of theirs too), turn switches, import; the day turns |

`Send` has three answers, as `sendMail` has: taken, refused, and no answer although it may
have been taken. Which bill or goal is due is a choice; what the mails say is left out.

### Storage

D1 rows of profiles and receipts, and R2 files, for every operation that replaces or removes
them whole. A D1 call is done, refused, or done and never answered; a deletion in R2 may
fail; a request may end anywhere (`Die`).

| Operation | Actions |
|---|---|
| create a profile, enter data | `CreateProfile`, `AddData` |
| clear or delete a profile, erase the account | `ClearBegin`, `ReadKeys`, `ClearFiles`, `ClearRows` |
| upload, replace, delete a receipt | `UploadBegin`, `UploadPrev`, `DeleteBegin`, `DropFile`, `DropRow`, `PutFile`, `Insert`, `Undo` |
| restore a backup | `RestoreBegin`, `Stage`, `Fill`, `PutFiles`, `PutRows`, `ReadOld`, `ReadOldKeys`, `Cutover`, `DropOld`, `Cleanup` |

The tables below a profile are one flag, a receipt belongs to the profile's one transaction or
to none. Foreign keys are taken as enforced, which is D1's setting. What the code does in the
model and no property forbids: two restores with different names that overlap leave both
sets of profiles; an upload that races a clearing or an erasure may orphan a file or a row of
another profile's; two deletions of the last two profiles may leave none; a profile made during
an erasure strands its categories.

### Guidance

The row of `user_state` per key, each page's copy of it, and the flag by which a browser keeps
a decision until the account has it.

| Part | Actions |
|---|---|
| Worker | `Read` (the read and the merge of a `PUT`), `Write` (compare-and-set, again, or 503), `Serve` (`GET`) |
| a page | `Reopen`, `Ask`, `Arrive`, `ReadFails`, `Offer` (what the browser kept), `RecordStep`, `Decide`, `Hide`, `TourDone`, `ResetTours` |
| answers | `Settle`, `Refused`, `Lose` |
| failure | `Crash`: the page is closed in the middle |

Rows this build cannot read (409), other owners of one browser, sign-out, the local-first copy,
the browser's own list of tours and the mirror of the old settings are left out. A page's copy
may fall back when answers arrive out of order; the row does not, and no property is about the
copy.

### Updates

A registration with its installing, waiting and active worker, what the cache of each build
holds, the page in each tab, and `sessionStorage`. The origin serves one build, and the chunks
of any other are gone from it.

| Part | Actions |
|---|---|
| worker | `Check` (external), `FetchShell` and `Install` (the `install` handler), `TakeOver` (external; `activate` and `controllerchange`) |
| page | `Load` (the navigation), `Boot` (entry, or the watchdog of `index.html`), `Register`, `Answer` (`askBuildId`), `Poll` (`version.json`), `GiveUp` (the adopted worker never took control) |
| person | `HashChange` (`reloadForUpdate`), `Click` (the notice), `LazyChunk` (`bootRecovery.ts`), `CrashScreen`, `PanelReload`, `PanelReset`, `Visit`, `Close`, `TryAgain` |
| around | `TimePasses` (guards and cooldowns), `Deploy`, `NetworkGoes`, `NetworkReturns` |

`Leave` is `reloadToLatest`, the ladder every reload but the watchdog's goes through. Builds
share no chunk, so `adoptPreviousCaches` finds nothing to copy; a page whose registration is
gone asks it nothing more; a poll and its answer are one step; whether there is `room` in
storage is fixed per behaviour. The HTTP cache, `userIsMidEntry`, the crash screen's dismissal
and the callers of `location.reload` that have nothing to do with builds are left out. The life
cycle of a worker is the browser's and is assumed: one registration, `unregister` leaves open
pages with the worker they have, a waiting worker activates when told to or when no page is
left.

## Runs and bounds

`CHECK_DEADLOCK FALSE` throughout: the bounds on events, ids, versions, visits and faults make
every model stop. A behaviour stays in the one *world* (Billing), *tour* (Access, Ledger) or
*kind* (TwoFactor, Imports: alone or not) it starts in, so the graph of a run is the union of
graphs that could each be a run, and a property premised on a world says so in its
definition. The bounds of Billing, Mailings, Storage and Guidance (`Within`, `Apart`) are a
`CONSTRAINT`, so the states just past a bound are checked too; those of the others are part of
the next-state relation. In the two live runs and in `updates` no bound holds back a step that
is under fairness.

| Run | Shows |
|---|---|
| `billing` | Five worlds. Two deliveries at once: `Race` (two subscriptions, six events in any order) and `FaultyRace` (four events that share seconds, failing calls, a crash); one at a time: `Faulty`, `Orderly` (in order, overlapping checkouts), `Separate` (two customers, checkouts that do not overlap). `AppliedOnce`, `FreeRowIsBlank`, `SettledAgreement`, `OneLivePerCustomer`, `DropOnlyWhenNothingElseLive`, `NoResurrectionOfOne` |
| `billing_live` | Under fairness, with failing calls and a crash: `EventsDrain`, `LinkedEventually` |
| `access` | Tours `devices` (sign-ins, second factor, adding and removing credentials, signing out everywhere), `passwords` (sign-ins next to resets and Google), `confirming`, `resetting`, `moving`. `RevocationHolds`, `AddedWhileTrusted`, `Implements` (SignIns), `UnconfirmedAccessEnds`, `WelcomeOnce`, `SpentOnce` |
| `codes` | Crowded behaviours with failures: `PaperCodeOnce`, `EnrolmentStands`. One request after another: `NobodyInOnOneFactorAlone` |
| `ledger` | Tours `together` (two guarded requests at once), `one by one` (every request, none overlapping another), `drift` (forms saved on old balances, then a recompute alone). `BalanceAgreesUndrifted`, `MovedOnce`, `FiledOnce`, `RecomputeRepairs` |
| `imports` | Alone: imports and undos one after another that stop between any two calls, next to renamed accounts and rows typed in: `NeitherLostNorDoubled`, `BalancesHeal`. At once: `UndoableWhileThere`, and `OwnRowsOnly`, of imported rows and of those typed in |
| `mailings` | `Week` (the week-one mails under every switch), `Overlap` (reminders and reports that overlap over a half-month), `Moving` (an account that moves meanwhile, to another address and back). `WeekOneOnce`, `OnceUnlessUnsure`, `StopLinksWork`, `EndedLinksStayEnded` |
| `storage` | Two requests of any kind with one kind of fault at every call: `Openable`, `NoOrphans`, `WithinLimit`, `OnlyReplaced`, `CutoverWhole` |
| `storage_restore` | *violation* of `OnlyReplacedEver`, see findings |
| `guidance` | Two browsers, two writes, answers late, lost or out of order: `AnsweredKept`, `DecisionNotLost`, `DecidedForGood` |
| `guidance_live` | Under fairness, one browser, two faults: `DecisionArrives` |
| `updates` | Two tabs, three builds, deploys and rollbacks, an outage, full storage; under fairness: `Undisturbed`, `NobodyStranded` |

Why the bounds are enough to be interesting. Every guard of this code compares one
request's read with another's write, so two requests at a time and one object they share
show each race; a third only repeats a role.

- *Billing*: six events are a purchase (two), a lapse or switch and a deletion, for two
  subscriptions; two subscriptions are a stray and the tracked one. `Race`, `FaultyRace`: one
  customer and one tier. `Faulty`: at most five events. `Orderly`: one customer, as its
  property says, with any renewals.
- *Access*: three mailed rows are the link that waits, the one that replaces it and a reset;
  version 3 lets everyone be signed out twice; `MaxActiveCodes` is 1 where the code has 3, so
  that the cap is met. Each tour leaves out the ways in that no step of it reads.
- *TwoFactor*: two secrets, two sheets, three steps, so that a code, an enrolment and a sheet
  can each be overtaken.
- *Ledger*: two rows and two accounts show a transfer, an edit from one account to the other,
  and a bill and a rule competing; two periods show one that is posted late.
- *Imports*: two import ids, two accounts, statements with a line twice and with another that
  overlaps it; one crash. Alone, two rows typed in or accounts there, and each source with the
  statements on which it differs from the others; at once, imports of one statement under ids
  of their own.
- *Mailings*: the week's days are shortened to three and the month's halves to two days; one
  account in a batch of one and a second that waits; a limit of one mail a month; two
  moves between two addresses, with two stop links mailed on the way.
- *Storage*: two requests, two profiles, a limit of one receipt, four ids of each, one kind of
  fault per behaviour.
- *Guidance*: two attempts where the code has three, one tour, two steps of the wizard. A
  second decision, a fault and a second step each come alone, and tours come without the
  wizard, since no step reads both.
- *Updates*: with one tab, a cache with room and no outage, three builds; with two tabs, an
  outage or full storage, two. One automatic reload per window where the code has three, so
  that the cap is met.

Symmetry is over requests, ids and other model values that no definition tells apart; no run
with a liveness property uses it. Every property of a passing run has a mutant in
`PROJECT.json` that the run finds.

## Fairness

Three runs need it.

- `billing_live`: weak fairness of each invocation's own steps. Stripe delivers until it is
  answered with 200, and an invocation that is not killed runs to its end; `Receive` is part
  of the step since a delivery is retried for as long as it is not acknowledged. Nobody is
  obliged to buy, to pay, or to cancel, calls may fail each time, and a crash is never obliged
  or excluded. `LinkedEventually` excepts crashes because the code does: an event recorded in
  `stripe_events` before a crash is never applied.
- `guidance_live`: weak fairness of the Worker's steps and of the page's own; strong fairness of
  `Reopen`, since the page that could be opened again may be closed in the middle any number of
  times. Faults are bounded, deciding is not obliged.
- `updates`: weak fairness of the browser's steps once begun (`FetchShell`, `Install`, `TakeOver`,
  `Load`, `Boot`, `Register`, `Answer`, `Poll`, `GiveUp`), of the network's return, and of a person
  who is offered a way on (`Click` on the notice, a button of the crash screen, `TryAgain`);
  strong fairness of `PanelReset`, for the one whom the panel's Reload does not help. The
  browser's check for a new worker is not fair: the page's poll has to suffice. Nobody is
  obliged to navigate, close, or open.

## Theorems

`*Proofs.tla` hold the proofs; constants have only the assumptions named in the modules
(`StripeAssumption`, `BillingAssumption`, `PickAssumption`, `AccessAssumption`, `TwoFactorAssumption`,
`LedgerAssumption`, `ImportsAssumption`, `MailingsAssumption`, `StorageAssumption`,
`GuidanceAssumption`, `UpdatesAssumption`), which TLC evaluates in each run.

| Theorem | For every number of requests, ids, events ... | Argument |
|---|---|---|
| `BillingProofs!TypeCorrect` | types | `TInv`: types, and that an existing subscription has a customer and a checkout about to move one names one; an invocation about to fill or to mail has what it needs |
| `Watermark` | `stripe_event_at` never goes back | each of the four writes keeps it or takes a time at least as late: `Matches`, or the `MAX` of `Linked` |
| `EventsAppliedOnce`, `MailedOnce` | one invocation in all applies an event, and at most one mail goes for it | `OInv`: an event in `stripe_events` was begun once and any other never (`Counted`); one being worked on is there, by one invocation (`OneAtWork`), and one mailed about is no longer being worked on before its mail |
| `FreeRowBlankSequentially` | a free row is blank in worlds of one delivery at a time | `BInv`: at most one invocation runs, and one that is linking has just set a paid plan |
| `DropsOnlyTheLast` | a plan is dropped at the end of a subscription only, and nothing the lookup could see was live | `DInv`: a subscription that is live although its end is still on the way became live again after it (`LiveSince`); an invocation about to write found nothing but what became live since the event (`NothingLeft`) |
| `NeverSoldTwice` | no customer pays for two subscriptions live all along, when checkouts do not overlap | `CInv`: at most one checkout is under way, it buys only while nothing of its customer is live but what had lapsed (`BuysAlone`), and of a customer's subscriptions never lapsed one is live (`OneNeverLapsed`) |
| `DeletedStaysDeleted` | no update brings back the deleted plan of a customer of one subscription | `RInv`: a deletion is the youngest of its subscription's events, in a second of its own (`DeletionIsLast`), and once it is handled the watermark is past all others (`EndedIsOver`); one purchase has one session, which links once (`OneSession`), so nothing but an update could write |
| `SettledRowAgrees`, `SettledBuyerIsLinked` | in order, one delivery at a time, nothing failing: the settled row of a customer of one subscription is what Stripe holds, and its account is linked to that customer | `SInv`, on top of the three before: events are numbered as emitted and the oldest is worked on, alone (`Serial`); the youngest says what its subscription is (`Truthful`); when the row has heard of all of them it agrees (`Agreed`); until the account is linked the session is still to come (`LinkComes`), and no checkout changes what has not been linked (`Movers`) |
| `AccessProofs!TypeCorrect` | types | one lemma per group of actions |
| `Revocation` | no device is live on a sign-in begun before the last revocation | `GrantInv`: a grant whose version is the current one was checked in the current epoch, on the password the account has, and not before a clearing; sessions, challenges and requests all carry such grants |
| `AccessAddedWhileTrusted` | credentials are added by trusted sessions | from `GrantInv` |
| `MailSpentOnce` | a link or code is held once and takes effect once | `SpentInv`: ids are unique and at most `minted`; what is held is neither in the table unspent nor applied; two holders hold two rows |
| `EarlyAccessEnds` | nothing set up before a clearing confirmation survives | `EarlyInv` on top of `GrantInv` and `SpentInv` |
| `WelcomedOnce` | one Welcome | `WelcomeInv`: an unclaimed Welcome was not handed over, a confirmed address has it claimed |
| `AccessImplementsSignIns` | `Spec => S!Spec` | each step maps to a sign-in, a sign-out, a revocation or a stutter; `GrantInv` gives that the proof still holds |
| `TwoFactorProofs!TypeCorrect`, `PaperCodeRedeemedOnce` | a recovery code is redeemed once | `PaperInv`: an unused code has redeemed nothing, a sheet not handed out neither |
| `ConfirmedEnrolmentStands`, `StepsOnlyAdvance` | an enrolment that is on keeps its secret, steps only advance | `TotpInv` (no row is `NoTotp`; secrets are fresh) and a lemma on every change of the row |
| `NobodyInOnOne` | one request at a time: no live session has shown one factor alone while TOTP is on | `AloneInv`: one request is at work, and one that is about to take a session while TOTP is on has shown a code (`Holds`) |
| `LedgerProofs!LedgerTyped` | types, the balances included | a balance changes by sums over rows, and those are integers |
| `PostsOnce` | a period posts once, under all of `Spec`, the unguarded requests included | `FiledInv`: nothing is filed at or after `next`, or after `paid` |
| `EachRowMovesOnce` | each transaction has moved each open account by its effect | `MovedInv`: rows name accounts once opened, a request about to reverse holds rows as they were; assumes `AccountNamed` (an income has an account of its own; the finding on received incomes is about the others) and `GuardedSpec` (requests bound to what they read) |
| `BalancesAgree` | outside `drift` every balance is its start plus its ledger: under any interleaving of the guarded requests, and for all requests one after another; assumes that what the rule and the bill post is `Counted` | `TourInv`: what was moved of each balance adds up to the balance less its start (`Reconciled`), and is the effect of the rows (`MovedInv`); a request not bound to what it read meets no other (`MeetInv`) and finds things as it read them (`AsRead`) |
| `RecomputeWrites` | a recompute alone writes start plus ledger, however far the balances had drifted | `RecomputeInv`: what it has added up is the parts it has read (`SoFar`); the four parts are the ledger (`LedgerParts`) |
| `ImportsProofs!ImportTypes` | types | with the rows counted by finite sets |
| `ImportsHeal` | an import that runs alone leaves its accounts at what the ledger says | `HealInv`: alone, one job is busy, and the balances it is about to write are what the ledger says |
| `ImportsAdd` | every line lands as often as it should, whatever earlier attempts left | `AddInv`: for each line an import that is inserting has added nothing and still has all to do, or all and has nothing left (`Progress`), against counts of the others' rows that nobody changes meanwhile |
| `OwnRows` | rows of an import change by a job with its id, and typed-in rows by none | by cases, for any number of imports at once; a job at work has an import's id (`HasTag`), so none has that of what was typed in |
| `Undoable` | an import the log has had stays in the log while rows of it are there | `LogInv`: an import at work is not in the log, and an undo past its deletion finds no rows (`Kept`); under `OwnSpec`, see below |
| `MailingsProofs!MailingsTypes` | types | |
| `WeekOneMailsOnce`, `RemindersOnce` | a mail goes once, and again only for a lost answer | `Once`: a run about to send or give back holds a slot that is there (`HoldersFit`), two runs hold two (`OneHolder`), and a slot that is free, or held and not yet sent on, is of a mail that never went but for lost answers (`FreeIsClear`) |
| `StopLinks`, `EndedLinks` | stop links work until the account's address next changes, and never after | `Fits`: a run's row is no newer than its account, and while the account has not moved since its token is the account's (`RunsFit`); no link counts moves yet to come (`LinksFit`); tokens are fresh |
| `PagesProofs!GuidanceTypes`, `AnsweredWritesStay`, `DecisionsNotLost`, `GoodIsForGood` | the step, the first decision, the card and the tours that were answered stay, a decision is kept until the account has it, a finish is for good | `IInv`: a write that goes through was merged from the row it replaces (`Sound`), a copy that says finished is right, however old (`Learned`), with the two invariants themselves |
| `PagesProofs!UpdateTypes`, `NobodyDisturbed` | no takeover takes a page away, and none is asked for on another's behalf | `AsksFit`: a worker asked that is taken for the one that waits is the one that waits, which is what makes `Answer` tell the right one |
| `StorageProofs!StorageTyped`, `LimitHolds` | types; no profile has more receipts than the limit | one `IInv` for all six: a staged profile and the keys of the files put for it are known to one request (`Apart`), which holds as many profiles as names (`ProfilesFit`), rows only for profiles it staged (`RowsFit`), and keys whose rows it knows (`KeysFit`); a step of one request leaves another what is its own (`Spared`) |
| `ListedOpens` | a listed receipt has its file or is being deleted, as long as nothing but an R2 delete fails | `KeysFit`: who may delete a file holds the rows that name it |
| `LeavesNoOrphans` | one request at a time leaves no file that no receipt names, whichever D1 calls are refused | `Alone`: a file without a row is among the keys the one request at work will see to (`Spare`, `SeenTo`) |
| `LeavesByRequest`, `ArrivesWhole` | a profile goes only by request or for a backup, until a call is done unheard; a backup arrives in one step, whole | from `IInv`: what a restore removes it staged, and what the cutover brings has its rows and its file |

What the hypotheses leave out. `OwnSpec`, of `Undoable`, is `Spec` in which no two imports or
undos at work share an id: to undo an import that is still at work, or to upload it again at
that moment, is possible and excluded. `Counted` and `AccountNamed` exclude incomes without an
account of their own, which the findings are about. `SettledAgreement` speaks of behaviours in
which no invocation died, since an event is recorded before it is applied and a death loses it,
and of accounts with one customer (`OneCustomer`): with two it is false, see below. The run
checks it for two subscriptions, the theorem is about one. `OneLivePerCustomer` and
`NoResurrectionOfOne` want each event to have a second of its own, which orders the lapse of a
subscription and its successor's birth. `PickAssumption` (nothing picked is no subscription)
and `Limit >= 1` are what the proofs needed of the constants beyond the runs' own.

Sums. Balances are sums over rows, and an induction theorem of the library takes an operator,
which the provers cannot instantiate. `LedgerProofs` gets by with least counterexamples: `Least`
takes the least element of a set of numbers from the library's well-founded relations, `Fewer`
what holds of a finite set when it holds of those with fewer elements; the sum of a set exists,
is one number (`Sums`), and the sum of two functions is that of their sums (`SumAdds`), which is
all the steps need: each changes one row's effect.

Only model-checked: liveness and anything with `ENABLED`, which the prover cannot do
(`EventsDrain`, `LinkedEventually`, `DecisionArrives`, `NobodyStranded`), and
`SettledAgreement` for a customer of more than one subscription. Every other property of a passing run is a theorem.

## Findings

One run expects a violation, and quotes in `PROJECT.json` the line of the repository it
contradicts.

- **`storage_restore`** – a restore whose cutover batch is committed and whose answer is lost lands
  in the `catch` of `restoreBackup` (`worker/src/backup.ts:1098`), which removes the profiles it
  staged, by their ids and without asking whose they are by now: they are the account's. The
  old ones are gone with the cutover, so nothing is left (`routes/exports.ts:126`: "existing
  profiles are replaced only by the final atomic D1 cutover batch").

Further disagreements met while modelling. No run of its own keeps watch over these; each can
be seen by checking the formula named under the specification named, with two requests.

| Where | What happens | Formula (specification) |
|---|---|---|
| `routes/billing.ts:750` | the deletion of a stray subscription is acknowledged without moving the watermark: after the tracked one has ended too, an older update of the stray brings a paid plan back | `NoResurrection` (`Spec`, two subscriptions) |
| `routes/billing.ts:513` | the guard is `>=` and Stripe's times are whole seconds: an update of the same second as the deletion, delivered later, restores the plan (migration 0009: "can't resurrect a plan") | `NoResurrection` (`Spec`, one subscription, `sameSecond`) |
| `routes/billing.ts:675` | the hole-filling `UPDATE` of a session has no guard: a deletion handled between its lookup and the write is filled again ("a free row must not keep saying it is billed annually, nor point at a subscription that no longer exists", 570–571) | `FreeRowIsBlank` without its premise (`Spec`, two handlers) |
| `routes/billing.ts:675` | two first checkouts that overlap make two customers; the link to the second leaves `plan_renews_at` of the first one's subscription, and only holes are filled afterwards: the row is on the second subscription with the date of the first until that one renews | `SettledAgreement` without `OneCustomer` (`Spec`, two customers, a renewal) |
| `routes/billing.ts:753` | unpaid, then deleted: the plan was dropped by the first, the mail of the second says Free has ended | `MailNamesPaidPlan` (`Spec`) |
| `routes/auth.ts:557` | `mailResetLinkIfAccount` deletes and then inserts: two requests leave two live links (580: "Only one active token per user at a time") | `OneActiveResetLink` (`Spec`) |
| `routes/auth.ts:563` | a reset link or a code (`login-codes.ts`) is inserted for an account that has moved address since the look-up, and mailed to the old one (against `email-change.ts:217-220`) | `MailToCurrentAddress` (`Spec`) |
| `routes/auth.ts:672` | a reset of a confirmed account leaves its `auth_sessions` rows: `GET /sessions` lists devices that are out | `ListedSessionsLive` (`Spec`) |
| `auth.ts:730` | the Google join writes by id only; the account may have left the address | `GoogleJoinsItsAddress` (`Spec`) |
| `email-change.ts:138` | two changes at once each end the other; both were mailed | `MailedChangeWaits` (`Spec`) |
| `routes/twofa.ts:87` | a sign-in that found no TOTP writes its session after `POST /2fa/enable` deleted the others, and enabling does not move `token_version`: the device stays in on one factor (`routes/auth.ts:521`) | `NobodyInOnOneFactor` (`RaceSpec` of `MCTwoFactor`) |
| `routes/twofa.ts:119` | a code of the app is checked, then marked: two requests both get in (`twofa-routes.test.ts:160`: "never accepted twice") | `AppCodeOnce` (`Spec`) |
| `twofa.ts:216` | the enrolment goes between the read and the batch: `false`, and the recovery codes are replaced (213–214: "then nothing changed") | `RefusedTurnOnChangesNothing` (`Spec`) |
| `twofa.ts:118` | a second setup replaces the secret between check and batch: one nobody typed a code of is on (migration 0028) | `OnAfterItsCode` (`Spec`) |
| `routes/transactions.ts:1169` | creating an income without an account credits the one it names; deleting or editing it takes nothing back (`recompute-balances.ts:4-10`) | `BalanceAgrees` (`Spec`, an income with only a `to`) |
| `routes/transactions.ts:507`, `640` | bulk deletion and type change reverse rows as read, unguarded | `BalanceAgrees` (`Guarded` and `BulkStep`) |
| `features/accountForm.ts:159-161` | a correction computed from the balance the form opened with | `BalanceAgrees` (`Guarded` and `FormStep`) |
| `recompute-balances.ts:48` | absolute balances from earlier reads: a transaction between is lost | `BalanceAgrees` (`Guarded` and `RecomputeStep`) |
| `routes/transactions.ts:1198-1205` | "delete all" with two profiles selected deletes one's rows and resets both's balances | `BalanceAgrees` (`ClearSelected`, two owners) |
| `routes/accounts.ts:164` | check and delete of an account are two calls; a row may be inserted between (149–151: "would strand those rows") | `NoStrandedRow` (`GuardedSpec`) |
| `routes/import-logs.ts:90` | an undo that stops after deleting the rows finds none when it is repeated and skips the recompute (`if (deleted > 0)`; `mcp/tools-import.ts:122–126` likewise): the balances keep what the import took | `UndoBalances` (`UndoSpec` of `MCImports`) |
| `import-sync.ts:9-10` | "never duplicates": a line whose account was renamed since resolves to another account and is imported again; two imports of one statement at once both insert it | `NeverDuplicates` (`ImportsSpec`) |
| `reminders.ts:274–276` | a reminder Resend took and did not answer in time is released (307–327) and sent again by the next run | `NeverTwice` (`MailSpec`) |
| `email-change.ts:228` | every change of the address clears `unsubscribe_token`, one back to an earlier address too: the mails that address got before carry a dead stop link, although the account has it again | `AddressLinksWork` (`MailSpec`) |
| `packages/pwa-kit/src/register.ts:159` | "guaranteed to land on the newest build the origin serves": the ladder's first rung adopts the worker that waits, which may be older than the origin by then; `appVersion.ts:193` then does not reload again for the same commit, and the notice's button is what is left | – |
| `packages/pwa-kit/src/register.ts:6–8` | the prompt "appears when the page really is running code the origin has replaced, and not otherwise": a worker of a rolled-back origin, or a first install under a controller whose registration is gone, is announced too, and two tabs that unregister in turn can make each other reload | `NobodyStranded` with `<>[]` for `[]<>` (`MCSpec`), which is why it says *again and again* and not *for good* |
| `appVersion.ts:13` | "at most one auto-reload per server sha": the guard keeps the last commit only, and `sw-waiting` counts as one, so a commit can reload a page twice with another in between; the cap per window is what holds | – |
| `docs/deploy-update-pipeline.md:19` | says the worker skips waiting, claims clients and serves documents network-first; `sw.ts` and `sw-runtime.ts` do none of it | – |

## What is left out

Everything `PROJECT.json` lists as `not_modelled`, with its reason: reads, reports, screens,
wording, transport, settings of one row, static tables and gates keep no state that two
requests share; the planned components are listed above under Plan. Within the modelled
ones: creating an account and its first profile (`auth.ts:763` writes them in two calls), the
WebAuthn ceremony and the limits on passkeys and tokens, guessing limits of codes, API token
scopes, balance history, reconciliation, and the answers requests get, other than what they
leave behind. Most of the repository's lines are screens, charts, formulas and the texts and
layouts around them, and vendored or generated files; the models are about the small part in
which order matters.
