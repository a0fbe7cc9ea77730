# HeroMail in TLA+

HeroMail leases mailboxes to customers who register on some platform: a customer orders a
mailbox for a service, is charged, waits for the verification code that arrives in the
mailbox, and is refunded when none comes. This directory holds TLA+ models of the parts of
the program whose correctness depends on interleavings, failures and retries, the TLC
configurations that check them, and TLAPS proofs about them. Paths are relative to the
repository's root; `RES` stands for `internal/store/postgres_resources.go`.

`PROJECT.json` maps each definition to the lines it models and lists the runs, the
mutants that show each property can fail, the hazards and the theorems.

    tlc -workers 2 -config OrdersConcurrent.cfg MCOrderStore    # one run
    tlapm OrderStoreProofs.tla                                  # one module's proofs

## 1. The system

| component | state | operations | interacts with |
|---|---|---|---|
| Order core (`internal/store/postgres.go`) | `registration_orders`, `mailbox_service_states` (one row per mailbox and service, the *pair*), leases in `mailboxes`, `users.balance_cents`, `wallet_ledgers` | CreateOrder, ReceiveCodeValue, CompleteOrder, CancelOrder, ReapExpired, ReconcileInvalidMailboxOrders, refundOrder | called by HTTP, mail worker and 30-second loop; enqueues webhook rows in its transactions |
| Mailbox and service administration (`RES`) | `mailboxes`, `target_services` | SaveMailbox, DeleteMailbox, DeleteInvalidMailboxes, SaveService, DeleteService, MarkMailboxServiceConsumed/Registered, UpdateMailboxCredential, UpdateMailboxVerification | writes the rows the order core leases |
| Allocation lock (Redis) | one key per service, 15 s | acquireAllocationLock, releaseLock | taken by CreateOrder |
| Payments (`postgres_payments.go`, `internal/payment/service.go`) | `payment_orders`, `payment_providers`, top-up rows of the ledger | Create, Cancel, Complete, Reap, Notify, provider save and delete | external gateway calls back; the loop expires orders |
| Webhooks (`postgres_webhooks.go`, `internal/webhook/worker.go`) | `webhook_endpoints`, `webhook_deliveries` | endpoint create and delete, enqueue, claim, complete, fail, manual retry | fed by order transactions, posts to the customer's endpoint |
| Verification (`internal/mail/verification*.go`, queues in `RES`) | two Redis lists with a set each, `inFlight`, verdicts in `mailboxes` | enqueue, dequeue, Verify, compensating scan, history scan | fed by imports and OAuth callbacks; verdicts may end an order |
| Mail polling (`internal/mail/microsoft.go`) | `mail_events`, and what a poll carries from one call to the next | poll, pollMailbox, matchCode, MarkMailEvent | reads the waiting orders and the inbox, calls ReceiveCodeValue and UpdateMailboxVerification |
| Credentials (`internal/mail/microsoft.go`, `verification.go`, `google.go`, `RES`) | the encrypted credential, connection method and verification status of a mailbox, OAuth states in Redis | refresh, UpdateMailboxCredential, persistIMAPAuthMethod, import, OAuth callbacks | mail worker, verifier, readers of messages and administrators write the same row; the provider rotates and revokes tokens |
| Accounts (`postgres_accounts.go`, `internal/http/accounts.go`) | users, sessions, API keys | Register, Login, ResolveAccessToken, Logout, ChangePassword, keys, AdjustBalance | every HTTP request is authenticated here; AdjustBalance shares the wallet |
| Online upgrade (`internal/http/upgrade*.go`, `docker/updater.sh`) | `status.json`, `request.json`, `request.processing.json`, database backups | adminUpgrade, the updater's loop | two processes share the files; one replaces the other |
| The rest | | HTTP handlers, mail protocol clients, import parser, in-memory store, migrations, web interface, scripts | |

What is hard, and what would make each part correct:

* **Orders.** Several requests, the mail worker, the verifier and the loop act on the same
  order, mailbox and user. Money: no balance update is lost, an order is charged once and
  refunded at most once, by what it was charged, and no balance is negative. Leases: a
  waiting order has its mailbox to itself and a lease ends with its order. A consumed pair
  is never offered again. Events tell the order's history. A request id is charged once.
  Every order ends.
* **Payments.** Callbacks are repeated, late and concurrent: credit once, exactly what was
  paid, and in the end.
* **Webhooks.** Several workers, crashes, lost results, manual retries: one holder per
  delivery, a bounded number of attempts, no early giving up, an end for every delivery.
* **Verification.** A queue in two data structures with a dequeue in two calls, ids queued
  again while they are worked on, verdicts about what was read long before: list and set
  agree, one verifier per mailbox, verdicts are current, none is missing for ever.
* **Mail polling.** A poll works from a snapshot of the orders and reads the same messages
  every 15 seconds: a code goes to one order of its service, only while that order waits,
  the newest code first, and in the end, although storing it may fail at first.
* **Credentials.** Refresh, import, edit and verification write a credential back whole
  while the provider replaces tokens: the grant that works must not be lost, and a mailbox
  that its credential still opens must not be condemned.
* **Accounts.** Login, authentication and password changes read first and write later: a
  revoked token serves nothing that begins afterwards, and a changed password shuts out the
  old sessions.
* **Upgrade.** Several administrators, two processes and two files: no release without a
  verified backup, an upgrade in progress shows, and the status does not stay in progress.

`PROJECT.json` lists the single hazards at their lines.

## 2. Modules

| module | what it is |
|---|---|
| `Wallet` | abstract specification of a user's money: an append-only ledger of charges, refunds and adjustments; `Sound` is what follows for a whole ledger |
| `OrderLife` | abstract specification of an order: one code or one refund, completed only with a code |
| `OrderStore` | the order core with the administrator's operations; implements `Wallet` (`WalletSpec`) and `OrderLife` (`LifeSpec`) |
| `OrderStoreProofs` | its types; its money and the refinement of `Wallet`; its events and the refinement of `OrderLife`; its leases and pairs, failed and blocked mailboxes |
| `MailPolling`, `MailPollingProofs` | the mail worker on one mailbox and the orders it serves; implements `OrderLife` as well; its refinement and what it stores |
| `Credentials`, `CredentialsProofs` | the credential of one mailbox, those who refresh and write it, and the provider; where the valid token is, and why a mailbox is condemned |
| `Payments`, `PaymentsProofs` | top-ups from the order at the provider to the credit; its types and what is credited |
| `WebhookDelivery`, `WebhookDeliveryProofs` | the outbox, its workers and retries; its types, who holds a delivery, how often it is tried and when it is given up |
| `VerificationQueue`, `VerificationQueueProofs` | Redis queues, verifiers, scanners, compensating scan; its types, queues, exclusion, what `inFlight` holds, and verdicts |
| `Accounts`, `AccountsProofs` | users, sessions, keys and the requests that use them; its types and its two properties |
| `Upgrade`, `UpgradeProofs` | the server's handlers, the updater and their files; its types, backups and status |
| `MC...` | values and symmetry for TLC |

An action is named after the function it models. PostgreSQL runs at READ COMMITTED, so
what matters is which rows a transaction locks before it reads them.

**OrderStore.** A transaction that locks all it depends on is one action. CreateOrder is
`BeginCreate` (unlocked reads of service and request id), `SelectMailbox` (locks the user's
row and one allocatable mailbox row, reads the pair without a lock) and `CommitOrder`; while
it is selected, other actions that need these rows are disabled (`UserRowFree`,
`MailboxRowFree`). SaveMailbox, DeleteMailbox and DeleteService are an unlocked read
(`ReadMailbox`, `ReadService`) and a write, held in `sessions`. An administrator's save may
carry any state and any verification status, alone or together (`SaveRequests`), for
adminSaveMailbox binds the whole mailbox and checks the address only. `AbortCreate` and
`AbortSession` are any rollback. `UniqueRequest` is the unique index: GORM merges the two
tags of `idx_user_request`, and it holds for the empty request id as well. `refundOrder` is
the shared body of every way an order ends without a code, its failure when the pair row is
gone included. The history variable `lost` holds the mailboxes of which a stale write has
undone something (`Loses`): SaveMailbox or DeleteMailbox the lease it had not seen,
CommitOrder the mark on a pair that was consumed or deleted meanwhile, DeleteService the
pairs of orders that wait. What is shown of a mailbox holds until a write undoes something
of that mailbox; what happens to another one never matters.

**Payments.** `Create` is split at its statements, `Notify` (verifying a callback against
the provider as it is now) from `CompletePaymentOrder` (crediting under row locks), and
DeletePaymentProvider at its count. The gateway is external: once it has the URL, the user
may pay any amount, and it repeats its callback.

**WebhookDelivery.** `ClaimWebhookJobs` is one transaction over any batch of due rows (SKIP
LOCKED). A worker then goes through its batch: `PostAccepted` or `PostRefused` (the endpoint
may have taken it all the same), then `CompleteWebhookJob`, or `ReadFailedJob` and
`FailWebhookJob`, which decides from what was read without a lock. `LoseResult` is a write
the worker's `_ =` ignores. `Crash` is the end of a process.

**VerificationQueue.** `Enqueue` is the Lua script, `PopMailboxJob` and `RemoveQueued` the
two calls of a dequeue, `RemoveFails` the second one failing. `BeginVerify` is LoadOrStore
on `inFlight` and reading the mailbox, `UpdateMailboxVerification` its verdict,
`FinishVerify` the deletion from `inFlight` and the history job. `Callers` verify without
`inFlight`, as adminVerifyMailbox and pollMailbox do. `SavePendingMailbox` is an import or an
OAuth callback, which start the mailbox over and queue it; `EditMailbox` is adminSaveMailbox
with a credential, which queues nothing, writes the status it is given and otherwise leaves
the verdict there was (`RES:94`) with the new credential (`RES:136`). `Restart` loses
whatever is in memory.

**MailPolling.** `BeginPoll` is WaitingOrdersForMailbox, `ReadInbox` the page of the newest
messages, then one step per message and order: `Skip` (MarkMailEvent), `StoreCode`
(ReceiveCodeValue, then the record in `mail_events`, which may fail), `StoreFails` (the
order has changed or the database failed). A message stands for the services whose rules it
meets. The clock is a small number, because windows and deadlines are compared with it.

**Credentials.** `Begin` reads the row and chooses the route (Graph, IMAP OAuth, password,
Google) and whether to refresh, as each caller does with its own margin; `RefreshCredential`
and `RefreshFails` are the provider's answer, `Save` the write of the whole credential,
`UseToken`, `UsePassword` and `persistIMAPAuthMethod` the attempts that follow, `Verdict`
what is written about the mailbox. `SaveMailbox` is an edit that writes back what it read,
`Import` and the OAuth steps bring a new grant. Tokens are numbers; the provider knows which
refresh tokens it still accepts and may rotate at each use.

**Accounts.** `Login` and `OpenSession`, `ResolveAccessToken` and `Authenticate`, and the
statements of ChangePassword are separate steps of one request. `UpdatePassword` takes the
lock of the user's row, `RevokeSessions` revokes what is committed when it runs,
`CommitPassword` makes all of it visible at once. `proof` and `raced` record which password
a session was opened with and whether its login ran beside a change.

**Upgrade.** A handler goes from `ReadStatus` to `WriteRequest` with its backup in between,
the updater from `TakeRequest` to `RemoveProcessing`; `StartImage` also ends every handler
in progress. `raced` and `broken` record two calls that had read the same status, and a
process that stopped or a status that could not be written.

**How they compose.** OrderStore and MailPolling share an order through `OrderLife`: the
worker stores codes by ReceiveCodeValue, which OrderStore has as an action at any time, and
what else happens to an order are the steps `World` of MailPolling. The verdicts of
Credentials and VerificationQueue are the action UpdateMailboxVerification of OrderStore,
the events of its outbox the deliveries of WebhookDelivery, its ledger that of `Wallet`.

Abstractions, all on the side of allowing more:

* The Redis allocation lock is left out. It may expire in the middle of the transaction it
  protects, and what is shown holds without it.
* Health score, cooldown, daily limit, pool, token validity and a disabled user only narrow
  what CreateOrder may choose, or make it fail; failing is always possible (`AbortCreate`).
* Clocks are flags: `due` and `again` become true at some moment. Lengths of delays are
  left out.
* States no code writes are left out: order status `assigned`, pair states `cooldown` and
  `blocked`. A mailbox state without a meaning of its own, `cooldown` or any other string
  an administrator writes, is `leased` in OrderStore: neither can be allocated.
* A verification status that is not one of the three, an empty one included, is
  `pending_verification` in OrderStore: allocation and ReconcileInvalidMailboxOrders only ask
  whether it is `verified`. The compensating scan does tell them apart: it finds
  `pending_verification` only, so in VerificationQueue such a status is `empty`, and gets a
  verdict from a direct verification or a job already queued, never from a scan. PendingEnds
  says nothing of it.
* A save names an existing mailbox by its address. SaveMailbox also finds it by its id and
  may then change its address; that is left out, and so is what an edit with a new credential
  and without a status means for Credentials, where it would differ from an import in the
  status only.
* A mailbox value of OrderStore stands for an address: a deleted one may be saved again, as
  a new row. In VerificationQueue it stands for an id, which never comes back.
* A list of ids that is read first and handled one by one, each rechecked under its lock
  (ReapExpired, ReconcileInvalidMailboxOrders), is the action on one id, at any time. What
  SaveService reads to create missing pairs is one step with creating them.
* SavePaymentProvider edits providers that exist. The second, unlocked look at the provider
  in CreatePaymentOrder is part of `AbortCreate`.
* In VerificationQueue, what a verification asks of Graph or IMAP is a choice of verdict;
  Credentials looks inside. Several verifiers belong to one process.
* MailPolling has one mailbox with one waiting order at a time, which LeaseExclusive allows.
  Credentials has one mailbox, and refreshes answer with a token or an error.
* Tokens and passwords of Accounts are values nobody guesses. A user's status is never
  changed by the code, so all users are active.
* pg_dump, docker and GitHub are outcomes in Upgrade.
* Audit logs, payloads, signatures, names and wording are left out.

## 3. Runs

| run | bounds | question | answer |
|---|---|---|---|
| `orders_concurrent` | 2 users, 1 service, 2 mailboxes, 2 orders, 2 concurrent calls, timeout limit 1 | Do money, leases, events and request ids survive concurrent calls and every way an order ends? Is every step one of `Wallet` and one of `OrderLife`? | yes |
| `orders_admin` | 1 mailbox, 1 service, 1 order, 1 call and 1 administrator call with any state and status, 2 price tables, 1 adjustment, timeout limit 1, fair | Do balances and whole ledgers survive administration? Does the mailbox keep its lease, timeouts and consumed mark? Does anything but a save strand it, unblock it, or make it serve once failed? Does every order end? | yes; lease, timeouts, marks and the order's end until a stale write touches the mailbox |
| `orders_refund_lost` | as little as shows it, fair | Does every order end with no such exception? | no: finding 1 |
| `payments_topup` | 2 users, 1 provider with 2 configurations, 1 payment, 2 amounts, 2 callback requests, 1 delete, fair | Credited once, what was paid, in the end? | yes, unless canceled or the provider was deleted or re-keyed |
| `webhook_workers` | 2 workers claiming 1 row at a time, 2 events, 1 endpoint, 2 attempts, 1 manual retry, fair | One holder, none stranded, bounded attempts, no early end, an end for each? | yes, unless a claim or result was lost |
| `verification_workers` | 1 mailbox imported or edited twice, 2 verifiers, 1 scanner, 1 direct request, fair | Queue and set agree, one verifier, none kept out for ever by `inFlight`, current verdicts, and one for each pending mailbox? | yes, unless an id was leaked (end), or the mailbox was saved during its verification or edited under its verdict (currency) |
| `verification_leak` | 1 mailbox saved once, fair | Does the compensating scan always help (CHANGELOG.md, line 1235)? | no: finding 2 |
| `mail_worker` | 2 orders of 1 service in turn, 2 messages, 4 moments, slack 1, deadline 2, page of 2, fair | Does a code reach the right order, once, the newest first, and in the end? | yes |
| `credential_calls` | 2 calls, 1 authorization, all three kinds of credential, 2 tokens | Is a working grant kept? Do verifications, and polls by IMAP, condemn a mailbox only if its credential does not open it? | yes, unless writes overlapped, a write failed or a server did |
| `credential_password_untried` | 1 call on a Graph mailbox | Is the password tried before a Graph mailbox is condemned (CHANGELOG.md, line 720)? | no: finding 3 |
| `accounts_sessions` | 2 users, 2 passwords, 3 sessions, 1 key, 2 requests | Does a revoked token or an old password open anything that begins later? | no, except a login beside the change |
| `upgrade_online` | 3 calls, fair | Backup first, upgrades shown, status final? | yes, unless two calls raced (status) or something broke |

Why these bounds suffice. Every hazard is between two actors on one row: two calls that want
the same user or mailbox, two callbacks of one payment, two workers for one delivery, two
verifiers of one mailbox, two calls with one credential, two changes of one password. Two
orders show a lease passing from one to the next (`orders_admin` has one, for which a save of
any state and status, stale or not, meets every stage; two orders under administration are in
the theorems), two mailboxes a choice under lock, and one
of them untouched beside one that lost a mark, two users two orders that share nothing but
the mailbox. BatchLimit 1 with two rows makes one delivery wait for another. Saving a
mailbox twice makes the second save meet any stage of the first's verification. Two messages
of one moment or of two show the choice of the newest, and 4 moments an order that begins
within the slack of the one before and a deadline that passes in the middle of a poll. Two
tokens are the one stored and the one that replaces it. Three sessions are the one that
asks, the one a login opens beside the change and the one the change answers with. Three
upgrade calls let one race while another is already queued. `OrderIds`, `PaymentIds`,
`Events`, `MaxLedger`, `MaxRetries`, `MaxVersion`, `MaxTime`, `Messages`, `Calls`,
`MaxTokens`, `Sessions`, `Keys` and `Requests` bound what is unbounded in the program;
`MailboxServiceTimeoutLimit` and `MaxAttempts` are smaller than the code's 5, and the code
depends on them only through comparisons. Deadlock is not checked: all bounded work may be
done, and nothing left to do.

Symmetry is used in runs of safety properties only.

### Fairness

* Orders: time passes; ReapExpired is called every 30 seconds and gets its row locks
  (strong fairness, since other transactions take and release them meanwhile); a CreateOrder
  call commits or rolls back. No fairness of customers, mail, or administrators.
* Payments: the gateway repeats a callback until it is answered; a verified callback gets
  its locks. That a request does not die every time is the strong fairness of its credit.
* Webhooks: the ticker runs; a posting ends by its 15-second timeout; a due row is claimed
  in the end, since claims take the longest due first. Nobody has to retry by hand.
* Verification: the ticker scans, goroutines consume; Redis, the mail server and the
  database answer again and again if not always; the process does not die at every attempt.
* Mail polling: the ticker polls and a poll goes on to its end; reading the inbox, passing a
  message and storing a code succeed if they are tried again and again. Time may stop, and
  nothing is assumed of customers or of new mail.
* Upgrade: a handler goes on to its answer, its backup being limited to ten minutes, and so
  does the updater, which waits ten minutes for health. Nothing restarts what stopped.

### Findings

1. An order can wait for ever. DeleteMailbox and DeleteService check for orders without
   a lock; an order committed after the check loses its pair row. Every refund of it then
   fails, and ReapExpired discards the error (`postgres.go:1121`).
2. A mailbox can stay pending for ever. A failure or restart between BRPOP and SREM
   (`RES:540`) leaves its id in the set, and every later queueing is taken for a duplicate.
3. A Graph mailbox with a password is condemned without the password being tried. The
   fallback is entered with an error and asks IMAP only if there is none
   (`internal/mail/microsoft.go:485`).

Four more disagreements have no run of their own. What the passing properties say leaves
them out by name:

* CHANGELOG.md:568 promises that an expired Gmail token is refreshed for verifying and for
  receiving mail. Verifications do refresh it (CondemnedWithCause includes them); the mail
  worker does not (`internal/mail/microsoft.go:399`), so it condemns a Gmail mailbox whose
  access token has expired although its refresh token is good. `NeedsRefresh` models that.
* The comment at `RES:342` rules out a mailbox whose verification failed and that holds an
  order. A save with status `failed` makes one of a leased mailbox, for SaveMailbox keeps the
  order (`RES:94`). FailedServesNobody exempts the step of a save, and no other.
* A save may write `leased` on a mailbox no order holds (`RES:98`); nothing gives it back.
  LeaseGivenBack exempts the step of a save, and no other.
* A save with a new credential and no status keeps the verdict of the old one (`RES:94`) and
  queues no verification. VerdictIsCurrent exempts it by `kept`.

The properties of the passing runs make their exceptions explicit, in history variables:

* `lost` (OrderStore): the mailboxes of which a stale write undid something. SaveMailbox
  writes back all columns of a row it read without a lock (`RES:139`), which undoes a lease
  made in between, so that a mailbox may serve two orders; CreateOrder writes the pair
  unconditionally (`postgres.go:914`), so that a consumed mark may be lost; and finding 1.
* `Unverifiable` (Payments): the provider a payment was made with was deleted or given
  other keys. DeletePaymentProvider counts pending orders only
  (`postgres_payments.go:91`), so a paid order that has expired may never be credited.
* `orphaned` (WebhookDelivery), `leaked`, `overtaken` and `kept` (VerificationQueue): the
  result of a delivery was lost with its claim; finding 2; a mailbox was saved while it was
  verified; an administrator replaced the credential under a verdict.
* `lost`, `dropped` and `hit` (Credentials): a credential was replaced between a read and
  the write based on it; a token never reached the table; a call met an error that was not
  the credential's fault. So GrantKept does not show that a stale or failed write does no
  harm (`RES:324`, `internal/mail/microsoft.go:426`): it does, and the code has no remedy.
* `raced` (Accounts): a login ran beside a change of its password. Its session survives. And
  a request that has found its token is served although the token is revoked before the
  second query (`postgres_accounts.go:74`); ServedByLiveToken speaks of later ones.
* `raced`, `broken` (Upgrade): two calls had read the same status; a process stopped, after
  which the status stays in progress and no upgrade is accepted until somebody edits it.

## 4. Proofs

| theorem | says, for every value of the constants |
|---|---|
| `OrderStoreProofs!TypeCorrect` | TypeOK of the order core; no balance is ever negative |
| `OrderStoreProofs!OrdersAreSettled` | orders table and ledger agree on every order |
| `OrderStoreProofs!ImplementsWallet` | the order core implements `Wallet` |
| `OrderStoreProofs!LedgersSound` | every ledger adds up row by row to the balance, an order has one charge and one refund at most in all ledgers together, and a refund follows its charge, to the cent |
| `OrderStoreProofs!ImplementsOrderLife` | the order core implements `OrderLife` |
| `OrderStoreProofs!EventsFollowOrders` | an order's events are the path it took |
| `OrderStoreProofs!RequestsChargedOnce` | a request id that is not empty is charged once |
| `OrderStoreProofs!LeasesExclusive` | a waiting order holds its mailbox and its pair alone, and nothing else holds them, on every mailbox no stale write has touched, whatever administrators write to it |
| `OrderStoreProofs!LeasesGivenBack` | only a save leaves any mailbox leased that no order holds |
| `OrderStoreProofs!TimeoutsBounded`, `ConsumedMarksStay` | what leaves rotation stays out, on every such mailbox |
| `OrderStoreProofs!FailedMailboxesServeNobody` | only a save makes any mailbox serve an order with its verification failed; allocations and verification results never do |
| `OrderStoreProofs!BlockedMailboxesStay` | a mailbox no stale write has touched, once blocked, is unblocked by a save only |
| `MailPollingProofs!ImplementsOrderLife` | the mail worker and the orders it serves implement `OrderLife` |
| `MailPollingProofs!MessagesGoToOneOrder` | a message gives its code to one order of a service at most |
| `MailPollingProofs!NewestCodesFirst` | a poll stores the newest matching code, unless storing a newer one failed |
| `CredentialsProofs!GrantsKept` | the table has a valid token or a call is about to write one, unless a write was stale or a token was dropped |
| `CredentialsProofs!MailboxesCondemnedWithCause` | a verification, or a poll by IMAP, that met no other error condemns a mailbox only if nothing in its credential opens it |
| `PaymentsProofs!TopupsCreditedOnce` | a completed payment has one ledger row, of its user and amount, any other payment none, and the rows add up to the balance |
| `PaymentsProofs!OnlyPaidCredited` | what is credited is what the gateway took |
| `WebhookDeliveryProofs!DeliveryHeldByOne` | a delivery nobody retries by hand has one holder at most, and is processing while it has |
| `WebhookDeliveryProofs!NothingStranded` | a delivery that is processing is in a worker's hands, unless its claim or result was lost |
| `WebhookDeliveryProofs!AttemptsBounded` | an endpoint is tried `MaxAttempts` times at most, and once more for each manual retry |
| `WebhookDeliveryProofs!NotGivenUpEarly` | a delivery nobody retries by hand is given up after its last attempt only or because its endpoint is gone, and stays delivered once it is |
| `VerificationQueueProofs!QueuesMatchTheirSets` | each set holds what is in its list, on the way out, or leaked |
| `VerificationQueueProofs!VerifiersExclusive` | two verifiers are never at the same mailbox |
| `VerificationQueueProofs!InFlightAlwaysReleased` | an id is in `inFlight` only while a verifier is at its mailbox |
| `VerificationQueueProofs!VerdictsCurrent` | a verdict is about what was saved last, unless that was during the verification or by an edit that left the verdict |
| `AccountsProofs!OldPasswordsOut` | a live session was opened with its user's password of now, or beside the change |
| `AccountsProofs!OnlyLiveTokensServe` | a request that comes with a revoked or expired token is not served |
| `UpgradeProofs!BackupsComeFirst` | what the updater takes has its own complete backup |
| `UpgradeProofs!UpgradesShown` | an upgrade that waits or runs shows in the status, unless calls raced or something broke |

They assume only the constants' named assumptions. An update of several fields is written
`[f EXCEPT ![x] = [@ EXCEPT !.a = u, !.b = v]]` in every module: the SMT translation of
tlapm 1.4.5 takes `[f EXCEPT ![x].a = u, ![x].b = v]` for two updates of the old `f[x]`,
which contradict each other, and would prove anything from it. Hardly any of the properties is
inductive as it stands; the invariants that are:

* `TypeInv` (OrderStore): TypeOK, and that a row which exists refers to rows: an order has
  its user, service and mailbox, a call in progress what it has chosen so far, an
  administrator's call its mailbox or service. Without it a refund could be of no user.
  That no balance is negative also needs the balance check to have been made under the
  lock, for the dearest provider asked for.
* `MoneyInv`: TypeInv, OrderSettled and `LockInv`, which says that two calls never hold the
  same user's row and that the balance a call has read is still the balance. Without it the
  balance written by CommitOrder could be an old one. Every step is quiet, a charge, a
  refund or an adjustment (`MoneySteps`); each kind keeps OrderSettled and is a step of
  Wallet.
* `OrderMoves` (OrderStore and, as `OrdersMove`, MailPolling): every step leaves the orders
  still or creates, delivers, completes or refunds one. The refinement of OrderLife,
  OutboxFollowsOrder and RequestChargedOnce follow from TypeInv and this.
* `W!Sound` is inductive for the steps of `Wallet`, each of which adds one row to one ledger
  and changes no other (`SoundStep`); every step of OrderStore is one of them (`WalletStep`),
  so that LedgerSound follows.
* `PairMoves`: what any step may make of a pair. TimeoutBudget and ConsumedStays follow.
* `LeaseInv`: LeaseExclusive with what it rests on. `SelectedInv`: a mailbox selected by a
  call is still free and selected by that call alone, which is what its row lock is for.
  `OwnedRows`: the order a mailbox row names, and the one in a copy SaveMailbox has read, is
  an order of that mailbox; so an order's end frees no other mailbox, and a copy never
  brings a lease to the wrong one. `ReadRows`: a copy is leased when it names an order.
  LeaseExclusive alone does not say what a call is about to lease or a session to write
  back. The proof goes mailbox by mailbox (`LeaseOf`): of each one that is not lost
  afterwards, every step lets the lease stand, or begins or ends it together with its order
  (`EveryLeaseMoves`).
* `VerifiedRows`: a selected mailbox stays verified until the call commits. `RowMoves` is
  what any step may make of a mailbox row. FailedServesNobody follows from both,
  LeaseGivenBack from `RowMoves`, and BlockedStays from `RowMoves` and `LeaseInv`.
* `CodeInv` (MailPolling): a stored code has consumed the pair of mailbox and service, an
  order waits only on an available pair, and of a service one order at most has a code.
  `Passed`: what a poll has gone past is the code of none of its orders that still wait,
  unless storing it failed; the snapshot of orders and messages may be old.
* `TokenInv` (Credentials): while no token was dropped, a call that has been given a new
  token and not written it, and a callback that has exchanged its code, are alone with it,
  so that nobody else can use it up; any other call has the token it has read. GrantKept
  needs it when a call writes a token that another has used up: then the row is not the one
  the call read, or it has that token already. `CauseInv`: a call that was not hit gives
  OAuth up because its token is not accepted, or because it cannot refresh, and the
  password because there is none, or because it does not come to it; a token that is no
  longer valid never is again.
* `HeldInv` (WebhookDelivery): HeldByOne, and that the job a worker is on is no longer among
  the jobs it has left, so that finishing it lets go of it.
* `BudgetInv`: a delivery that waits to be claimed, the workers that may still send it back
  for another attempt, and the claims from the `MaxAttempts`-th on are together at most one
  more than the manual retries; and the postings known to be accepted, with those still to
  be made, are at most the attempts. AttemptsBudget says nothing of the workers, whose stale
  reads are what could break it. `ReadInv`: of a delivery nobody has retried by hand, the
  attempts a worker has read are those of the row.
* `QueueInv` (VerificationQueue): QueueMatchesSet, and that no two goroutines are between
  BRPOP and SREM with the same id of a queue; otherwise the SREM of one would break the set
  for the other.
* `VerifierInv`: `inFlight` holds the mailboxes of the busy verifiers and nothing else, and
  two busy verifiers are at different mailboxes. `VerdictInv`: VerdictIsCurrent, and that what a
  verification has read is current, or overtaken.
* Payments: TypeInv and CreditedOnce together are inductive; CreditedWasPaid needs `PaidInv`
  as well, that a callback in a request's hands carries the amount the gateway took, which
  is not 0: the gateway takes money for a payment once.
* `PasswordInv` (Accounts): OldPasswordOut, and that a login in progress knows the password
  of now or that it was raced, that a change holds its user's row, and that the live
  sessions it does not revoke were opened by logins that know of it. `LateInv`: a request
  that came late is still before its first query, and its token is gone for good
  (`GoneStays`). `TypeInv` and `RevokingOK`: what a change revokes had been issued.
* `BackupInv` (Upgrade): BackupFirst, and that a call past its backup has one. `ShownInv`:
  status, handlers and updater, unless raced or broken, are in one of six combinations.

Only model-checked is all liveness (RefundedUnlessLost, PaidIsCredited, DeliveryEnds,
PendingEnds, CodeDelivered, StatusSettles), which is out of the prover's reach, and what the
findings refute. NoneStranded and InFlightReleased are what DeliveryEnds and PendingEnds
rest on: that nothing is left where no fair step would reach it. Every invariant and every
action property of the passing runs has its theorem.

## 5. Left for later

What would add most to what is here:

1. The orders of several mailboxes in one model with their polls, instead of two modules
   that share OrderLife.
2. Aborted transactions: CancelOrder and a failed verification lock order and mailbox in
   opposite orders, and PostgreSQL ends one of them.

## 6. Not modelled

* The Redis allocation lock, and the daily counters of pools, for the reasons given among
  the abstractions: nothing that is shown depends on them.
* The in-memory store (`internal/store/store.go`): one mutex around every operation leaves
  no interleavings.
* `scripts/upgrade.sh`, `install.sh`, `recover.sh` and CI: run by hand, one at a time.
* HTTP routing and validation, rendering, mail protocols and MIME, encryption, signatures
  and password hashing: input and output, or stateless.
* Migrations and default services: run once at start under an advisory lock.
* System configuration, pools and code rules: single rows that are read and written whole.
* Data races of Go memory: the only memory the modelled parts share is `inFlight`, a
  `sync.Map`.
