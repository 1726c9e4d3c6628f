# Verification of the VTU backend

The program is a FastAPI and SQLAlchemy backend that sells mobile data, airtime
and bills from a prepaid wallet (`src/app`). Its requests run in a thread pool,
possibly in several processes, over one PostgreSQL database at READ COMMITTED;
providers answer over HTTP and report again through webhooks; one worker thread
per process clears up what stays pending. Most of what can go wrong is two of
these acting on the same row, one dying between two commits, or one acting on
what it read earlier. That is what these modules model.

## The system

| Component | State it keeps | Operations | Hard parts | What makes it correct |
|---|---|---|---|---|
| Wallet ledger (`services/wallet.py`) | `wallets.balance`, `is_locked`, `wallet_ledger` | credit, debit, transfer | concurrent sessions, lost race on a retry, row locks taken in opposite order, a lock set in between | no overdraft; ledger explains balance; a retry posts once; a locked wallet is frozen |
| Data purchase (`endpoints/data.py`) | `transactions.status` | buy: debit, record, ask the seller, then perhaps the fallback; settle or refund | three database sessions with provider calls between them; answers in many words | status and ledger agree; a refund has a rejection behind it, a success a delivery |
| Purchase webhooks (`endpoints/webhooks.py`: smeplug, autosync) | the same row | settle or refund | late, repeated, concurrent with the request and the worker | idempotent |
| Reconcile worker (`services/pending_reconcile.py`) | the same row | ask Amigo again; settle, refund, time out | buys again, times out while the provider may deliver | nothing stays pending; no refund of what was delivered |
| Admin corrections (`endpoints/admin.py` 1099-1445) | the same row, reversal debits | mark delivered, fail and refund; in bulk | one session for many references | refund reversed before SUCCESS |
| Wallet funding (`endpoints/wallet.py`, `webhooks.py`: paystack, monnify, billstack) | funding transactions | verify, webhook credit | verify and webhook race for one deposit | one credit per deposit |
| Bills and airtime (`endpoints/services.py`, `services/bills.py`) | `service_transactions` | airtime, cable, electricity, exam pins | a key sent twice at once, or again after a crash; answers in many words; a pending row no worker looks at | one order per key; a retry pays once; refunds only of what was refused |
| Developer API (`endpoints/developer.py`) | both tables, keys of `users` | application, keys; the same purchases by API key | check-then-act on the caller's reference; a status that differs from the app's | the same, and "failed" means refunded |
| Referral rewards (`services/referrals.py`) | `referrals` | first-deposit reward, agent statistics | which deposit was first; repeated asking | one reward per referral; the first deposit is rewarded |
| Agent campaigns (`services/agent.py`, `endpoints/admin_agent.py`) | `reward_campaigns`, `agent_rewards` | display, claim, manual reward; create, change, delete | claims at once; page and claim estimate at different rates; deletion and locks in between | one claim per agent and campaign, recorded; what is shown is paid |
| Accounts (`endpoints/auth.py`, `security.py`, `developer.py`, `admin.py`) | `users` | register, verify, reset, change, delete; PIN; keys; the admin's switches | handlers that commit a row they loaded before another one committed | a used secret stays void; a closed account stays closed |
| Bank accounts (`endpoints/wallet.py`, webhooks) | `virtual_accounts` | list, refresh, forget; find the user of a transfer | a refresh that fails half way; numbers that change hands | transfers reach who was given the number |
| Catalogue and prices (`endpoints/data.py`, `admin.py`, `services/pricing.py`) | `data_plans`, `pricing_rules` | sync, list, edit; prices; the promotion | two syncs and the admin on one row; two price lists and two tills that compute prices apart; a limit that counts successes | no sync undoes the admin's switches and special prices; what is shown is charged, with known exceptions |
| Start-up (`app/main.py`) | the schema itself, `users.role` | create tables, add columns, name administrators, start the worker | two instances at once, outages, migrations, a worker that starts before the columns | serves with the columns its start is to add; recovers |
| Disputes (`endpoints/transactions.py`) | `transaction_disputes` | report | check-then-insert | one open dispute |
| Reports, notifications, e-mail, push | rows nothing else reads | output | few | - |

Components meet in two tables. Whoever moves money calls `credit_wallet` or
`debit_wallet`, and these *commit the caller's session*, with whatever status the
caller has assigned so far. And request, webhook, worker and admin share the
`transactions` row of a purchase without a row lock or a version number. A
third meeting place is `users`: every handler about an account loads its row,
and commits it some statements later.

## Modules

| Module | What it is |
|---|---|
| `LedgerRows` | rows of `wallet_ledger` and INSERT, shared by the next two |
| `AtomicWallet` | abstract specification: each posting is one indivisible step |
| `WalletSessions` | `services/wallet.py` statement by statement, over concurrent sessions; `Atomic == INSTANCE AtomicWallet WITH ...` is its refinement mapping |
| `WalletSessions_proofs` | the theorems about it |
| `DataProviders` | how the answers of SMEPlug, Autosync, Amigo and (over `BillProviders`) ClubKonnect and VTpass are read: pure operators |
| `DataPurchases` | a purchase under request, webhooks, worker and admin, over `DataProviders` |
| `DataPurchases_proofs` | the theorems about both |
| `Deposits` | checkouts, transfers, their webhooks and the first-deposit reward |
| `Deposits_proofs` | the theorems about it |
| `BillProviders` | how the answers of VTpass and ClubKonnect are read: pure operators |
| `BillPurchases` | airtime, cable, electricity, exam pins and the API's airtime, over `BillProviders` |
| `BillPurchases_proofs` | the theorems about it, and about the parsers of `BillProviders` |
| `AgentCampaigns` | campaigns, claims and manual rewards |
| `AgentCampaigns_proofs` | the theorems about it |
| `Accounts` | the `users` table under everything that writes it |
| `BankAccounts` | `Accounts` composed with the bank accounts of its users |
| `Accounts_proofs` | the theorems about both |
| `Catalogue` | data plans, their sync, prices and the promotion |
| `Catalogue_proofs` | the theorems about it |
| `Startup` | instances that start on a database that is not ready |
| `Startup_proofs` | the theorem about it |
| `MC...` | instances for TLC |

### WalletSessions

`balance`, `locked` and `ledger` are committed data. A session has a `pc` (how
far it has come) and a `call` (what it runs). The UPDATE of a wallet row takes
`rowLock` until the session ends, so its uncommitted change is determined by
`pc` and `call` and needs no copy.

| Code | Action |
|---|---|
| look at `is_locked`, `_find_matching_ledger` | `BeginPosting` |
| `UPDATE wallets ... WHERE` | `UpdateWallet`, or `UpdateMisses` when no row matches |
| commit of balance and ledger row | `CommitPosting` |
| `execute_wallet_transfer`: sender, receiver, commit | `DebitSender`, `CreditReceiver` or `MissReceiver`, `CommitTransfer` |
| rollback in `get_db`, crash | `Abort` |
| PostgreSQL's deadlock detector (external) | `DeadlockVictim` |
| an operator's UPDATE of `is_locked` (external: no code sets it) | `OperatorSetsLock` |

`MissReceiver` is what the code does: the row count of the receiver's UPDATE is
not looked at. `overlapped` is a history variable: the rows that two sessions
were about to write at the same time. `Reckoning(book, w)` is what a ledger's rows
come to for one wallet, which `LedgerExplainsBalance` compares with its balance.

### DataPurchases and DataProviders

A thread's `job` holds the purchase, how far it has come, the provider's verdict
and the status it loaded (`seen`). SQLAlchemy writes a status only when it
differs from the loaded one, and in any case when the row has been expired by a
commit: `Write` and `MarkRefunded` say exactly this. A refund is: look up one's
own ledger row (`LookUpRefund`), commit credit and FAILED (`CommitRefund`),
commit REFUNDED (`MarkRefunded`). Each kind of job writes its own description,
so `ledger[p]` counts rows per kind. The wallet is the atomic one, which
`WalletSessions` is shown to implement; a look-up and its commit are still two
steps. All purchases cost one unit of one user's wallet: properties compare
counts of postings, and prices play no part in the control flow but for the
balance test.

| Code | Action |
|---|---|
| `debit_wallet`, which commits; the PENDING row | `Debit`; `Record` |
| `_execute_provider`: the order goes out; its answer | `Place`; `Answer` |
| a failed answer of the first seller, and a fallback | `FallBack` |
| the second session: reload; SUCCESS or PENDING; refund | `Reload`; `Settle`; `LookUpRefund`, `CommitRefund`, `MarkRefunded`, `RefundRefused` |
| `smeplug_webhook`, `autosync_webhook` | `Webhook`, then the common steps |
| `reconcile_pending_data_once` | `WorkerLoads`, `AmigoAnswers`, then the common steps |
| admin, singly or in bulk | `AdminFails`; `AdminDelivers`, `LookUpReversal`, `CommitReversal`, `ReversalRefused` |

`route` is the plan's provider and fallback, `order[p][x]` what really happened to
the order of purchase `p` at seller `x`: the request asks one seller or two, the
worker asks Amigo no matter who sold the plan, and a webhook is found by the
reference, which they all share. Answers and webhooks may lag behind the order.

An answer is not a verdict. `DataProviders` has, for each seller, the record of
what its reader looks at (`SMEPlugAnswer`, `AutosyncAnswer`, `AmigoAnswer`: a
status, a flag, the classes of words in the message), the code's reading of it
(`SMEPlugVerdict`, `AutosyncVerdict`, `AmigoVerdict`, and the worker's own
`RecheckOutcome` and `RecheckVerdict` for the same seller), and which answers the
seller may give for an order: a status the reader knows is true, and *everything
else may be said of any order*: no status at all, an HTTP error, an exception,
words nobody knows, a status that its message contradicts. `Heard` and
`Rechecked` put the two together; they also say whether the answer was *clear*, which
means that it had a status its reader knows. `unclear` is the history of
purchases about which a seller spoke otherwise. What the code makes of such an
answer is in the model (it can settle or refund the purchase whatever became of
the order); what the properties then no longer claim is in their hypotheses and
in the list of what the code does not guarantee. `Doubted` lets a run start with purchases
that count as unclear, so that it does not tell apart what its property does not ask.

`old` abstracts the clock: a purchase is older than the reconcile timeout or
not. The worker's minimum age is left out, so it may also meet a purchase whose
request is still running, as it does when the provider is slow. Three branches of
the worker cannot be reached and are left out: `resolve_network_id` has a default and
is never None (`amigo.py:45`); an `AmigoApiError` raised for an HTTP status is
raised again without it (`amigo.py:111`), so that the test for 401, 403, 404
and 422 finds no code; and a row of `/data/purchase` has a telephone number, or was
refused with 400 (`data.py:424`). A row of the developer API may lack one and then
stays PENDING; its purchases are not modelled here.

`refused` is the history of purchases whose refund by the worker met a locked
wallet: its catch-all commits the FAILED that was assigned before, and no code
takes the purchase up again. `disturbed` is a history variable: purchases that two threads worked on at once
or on which a thread died. It separates what the code gets right (handlers one
after the other, in any order, any number of times) from what it does not.

### Deposits

A *checkout* has a PENDING transaction row before anybody pays; a *transfer* to a
dedicated account has none until its webhook inserts a SUCCESS row under a unique
reference. `payment` is what payer and provider have really done, `answered`
which webhooks the provider may stop repeating.

| Code | Actions |
|---|---|
| `fund_wallet`, `monnify_init` | `Fund`, then `CheckoutOpens` or `CheckoutFails` |
| `paystack_verify` | `Verify`, `VerifyAnswers`, then the common steps |
| `charge.success`, `PAID` for a row | `PaidWebhook`, then the common steps |
| common: `credit_wallet`, commit; SUCCESS, commit | `LookUp`, `Credit`, `MarkSuccess`; `Refused` when locked |
| `charge.failed`, `FAILED` | `FailedWebhook`, `MarkFailed` |
| a transfer (Paystack, Monnify, Billstack) | `TransferWebhook`, `PostTransfer` (one commit) |
| `_maybe_reward_first_deposit` | `Qualify` (takes the row lock), `Grant` |

One action stands for the handlers of several providers where their control is
the same; Monnify checkouts have a subset of the behaviours (no verification).
`Named` says whether a webhook names the sender, which is all `credit_wallet`
sees of a description. Billstack differs in answering "ok" to a locked wallet;
its branches for a SUCCESS row without a ledger entry and for a row that is not
SUCCESS find no such row (`TransfersCreditOnce`). `older` and `late` are the
order of `created_at`, which PostgreSQL sets to the start of the inserting
transaction; the model takes it as the moment of the INSERT. `OtherIncome` is
every WALLET_FUND row that no deposit handler writes: a transfer from another
user, an admin's credit, a campaign reward. Deposits earn the same whatever
their amount: the 2 % is rounded to nothing only below 25 kobo. Left out: the
resolution of an account number to its user, and the first-use creation of
wallet and referral rows, which registration has created.

### BillPurchases and BillProviders

A client names a purchase by a key and may send it again; a purchase without one
gets a random reference, which is a key that is sent once. The four handlers of
`services.py` are one text but for wording, the token of electricity and the
price list of exams, and `developer_buy_airtime` differs in how it settles:
`PurchaseAirtimeOrCable`, `PurchaseElectricity`, `PurchaseExamPin` and
`DeveloperBuyAirtime` each list the steps they consist of.

| Code | Action |
|---|---|
| the checks up to the reference | `Ask`, `AskApi` |
| `debit_wallet`: look-up; UPDATE and commit | `LookUpDebit`; `PayDebit` |
| INSERT of the PENDING row, unique reference | `Insert` |
| the provider's call | `PlaceAtVTpass`, `PlaceAtClubKonnect`, `PlaceAtMock`, `RefuseExam`, `CallFails` |
| `_settle_pending`, the polling for a token | `QueryStatus`, `QueryToken` |
| the second session: SUCCESS or PENDING; refund, REFUNDED | `Reload`, `Settle`; `Refund`, `MarkRefunded` |
| the developer API's: the same through its first session | `SettleApi`, `RefundApi`, `MarkRefunded` |
| admin, on a service transaction | `AdminFails`, `CommitFailure`; `AdminDelivers`, `CommitDelivery` |

A provider's answer is not a string: it is the record of the classes of words
and codes that the parsers look for (`VTpassAnswer`, `ClubKonnectAnswer`), and
`VTpassTells`, `ClubKonnectTells` are the answers it may give for an order: a status
or code that the parser knows is true, and an answer without one (words the parser
has never seen, a page that is no JSON, VTpass's code 000 on its own) may be
given for any order. `CallFails` is a call that raises: on the way there or back, or for an HTTP
status of 400 and more, 502 and 504 included, and there may be an order all the
same. `unclear` is the history of keys for which there was an answer without a
known status, or an HTTP error. `VTpassParse` and
`ClubKonnectParse` are the code's parsers, and `Verdict` and `ApiVerdict` what
handler and API make of the parsed result: they look at different fields of it.
`order` and `placed` are what really happened at the provider; `raced` and
`died` are histories (keys that two sessions worked on at once, sessions that
died on a key) by which the properties say what they do not claim. `Told` is
what `data/status` answers a developer. The wallet is the atomic one and never
locked (`DataPurchases` has that).

### AgentCampaigns

A claim holds the row lock of its wallet from its first statement (`Claim`) to
its one commit (`CommitClaim`), which `WalletFree` says of the others. A manual
reward takes no such lock before its credit, commits that (`PayGrant`) and records
the reward afterwards (`RecordGrant`), which fails if there is one. `Shown` is the
condition under which the page calls a reward ready, with volumes estimated at
`ShownRate` = 400 naira per GB; `Qualify` computes them at `ClaimRate` = 250. A
purchase counts by `created_at`, which may lie before the campaign's activation
when it succeeds afterwards (`Do`). A target on the number of transactions counts every
successful one: funding, bills and rewards, too (the kind "other",
`RewardCounts`). A locked wallet (`OperatorSetsLock`) refuses claim and manual reward: the
claim answers 500, and the page goes on showing the reward as ready. Names,
amounts and end dates of campaigns play no part; data, airtime, count and
referral targets do.

### Accounts and BankAccounts

One action loads a row and decides (`ResetPassword`, `PinChange`,
`SuspendDeveloper`, ...), and `Commit` writes it. `Written` is SQLAlchemy's
UPDATE: only the columns that differ from the loaded row. Passwords, PINs, keys
and tokens are numbers, each new; `void` is the history of those that were used
up, replaced or withdrawn and whose handler has committed. A telephone number
is stored as the client wrote it, and compared literally (`Registered`, `UpdateMe`)
or in all its spellings (`Variant`, after `_phone_variants`). A deleted account
keeps its number and address with a suffix. Expiry only keeps a handler from
running, which no handler is obliged to do.

`BankAccounts` EXTENDS `Accounts` and adds the provider's side: `opened` is what
the provider has, `shown` and `failed` the rows of `virtual_accounts`. A refresh
deletes and commits before it asks (`RefreshAccounts`); a GET that failed leaves an
INACTIVE row and is not tried again (`GiveUp`). `PaystackFinds` and
`ReferenceFinds` are the webhooks' searches for the user of a transfer, and may be
asked at any moment. An instance is about one provider: the blocks of the
endpoint follow one another and touch rows of their own. How the credit itself is
made, and made once, is `Deposits`.

### Catalogue

A sync is one session that fetches network after network (`Fetch`) and commits
each (`CommitSync`). What it loaded (`seen`) and changed (`pend`) stays in the
session when an error comes in between, for the next network's commit; an
INSERT of a code that exists by then, or an UPDATE of a row that is gone
(`Collides`), ends it. `TillPrice` is `get_price_for_user`, `PagePrice` what the
list of the app computes for itself; `Listed` and `Charged` are what that list shows and what
`/data/purchase` takes, `ListedByApi` and `ChargedByApi` the same of the developer
API. `PromoPlans` are the plans whose code ends in the configured number, one
for each provider that has it, and `enabled` the switch of the promotion, which is a
setting of the processes (`Redeploy`). `Promoted`, `PromoUsers` are its limit.
`Overwrite` is the request that comes back to a purchase somebody else has settled.
How a purchase is settled is `DataPurchases`; here its status moves by itself.
Prices are whole naira, a percentage rounds down.

### Startup

`Steps` is the order in which `ensure_tables` goes about a production or a local
start. The columns one `_ensure` function is about are one item: it inspects the
table (`Inspect`) and then adds all of them in one transaction (`Alter`), and any
exception of either half is logged and forgotten. Three more items are columns of
the same tables that no `_ensure` function adds (`MigrationOnly`: `referral_code`,
`fcm_token`, the list prices of plans); seven are columns that no migration adds
(`EnsureOnly`). `Boot` starts the worker
with the process, so that it runs before the columns are there. `Outage` takes the
database away or brings it back between any two steps, `Migrate` is
`alembic upgrade head`, which adds some of what is missing or fails half way, `spared` the history of instances that met no outage. The
worker is taken as enabled, and as busy with one pending purchase.

## Runs

| Run | Bound | Shows |
|---|---|---|
| `wallet_safety` | 2 sessions, 2 wallets of 1 unit, 1 caller reference, 1 transfer, the lock of one wallet toggling | `NoOverdraft`, `IdempotentUnlessOverlapped`, `LedgerExplainsBalance`, `LockedWalletIsFrozen`, `ImplementsAtomicWallet` |
| `wallet_liveness` | the same with 2 transfers and no locks | `CallsReturn` |
| `purchase_safety` | 1 purchase on 2 routes (SMEPlug with the fallback Amigo, ClubKonnect), 2 handlers and the worker, crashes, locks, unclear and vague answers | `BooksMatchStatus`, `RefundedWasCredited`, `RefundMeansRejected`, `SuccessIsDelivered` |
| `purchase_liveness` | 1 purchase at Autosync, no locks and no vague failures; admin in bulk; 1 handler may crash, the worker does not | `PendingIsSettled` |
| `deposit_safety` | 1 checkout and 1 transfer of one referred user, 2 threads that may both die, locks on user and referrer | `MoneyIsBacked`, `TransferCreditedOnce`, `CheckoutCreditedOnce`, `RewardedOnce` |
| `deposit_liveness` | the same, the transfer by Billstack, no senders named, no other income, 1 mortal thread, the user's wallet lockable | `PaidIsCredited`, `FirstDepositIsRewarded` |
| `bills` | 1 key of 4 kinds (cable goes through the steps of airtime), 2 amounts, 2 sessions, VTpass, ClubKonnect or the mock, 1 death, 1 status query | `OneOrderPerKey`, `RetryPaysOnce`, `BooksMatchStatus`, `RefundMeansRejected`, `SuccessIsDelivered`, `DebitBecomesBill` |
| `agents` | 1 user, 1 campaign, 2 sessions, 1 deed of 4 kinds, 2 moments, 1 manual reward, 1 abort, a lock that comes and goes | `RewardsAreRecorded`, `ShownIsRewarded` |
| `accounts` | 2 users, 1 address, 1 number in 2 spellings, 2 sessions, 5 requests, 6 secrets | `SecretsStayVoid`, `PhoneNamesOneAccount`, `AccessIsGranted` |
| `bank_accounts` | 2 users, 2 addresses (one in capitals), 1 number, 2 sessions, 3 requests or faults, 2 accounts at one of 3 providers | `HolderIsCredited`, `AccountIsShownAgain` |
| `catalogue` | 2 networks, one with the promotion's plans of 2 providers, the other with 1 ordinary plan; 2 users, 2 sessions, 3 requests, 1 price, 2 margins, a promotion for 1 that is on or off | `PageAgreesWithTill`, `PromoWithinLimit`, `AdminDecides` |
| `startup` | 2 instances, production or local, 4 databases, outages and migrations at any time | `ServesWhatItNeeds`, `ConfiguredAdminIsAdmin`, `WorkerRecovers` |

The largest are `purchase_safety` and `deposit_safety` (2 million states each); the
longest are those that check liveness over many states, `startup`, `bills` and
`purchase_liveness`, at about three minutes each.

Why these bounds suffice for what is looked for: every hazard of the wallet is a
race of two sessions over one or two rows, and one unit makes both the balance
test and the lost race decisive; three sessions add only longer deadlock
circles, which `DeadlockVictim` resolves alike. A purchase interacts with
another only through the balance, so one purchase with three threads (any two
of request, webhook and admin, and the worker) has all pairwise races, and a
third party to disturb them. Between them the routes of the two runs have every
client that reads an answer: a fallback matters once, so one route has one, and
Amigo's two readers meet on it. Autosync and SMEPlug report through webhooks that
are one action here, so `purchase_safety` has one of them. `PendingIsSettled` asks
nothing of what is true of an order, so its purchase is `Doubted` and one route does. Deposits meet in the reward: a checkout and a
transfer of one user come in either order, and two threads race over one of them
or over the reward of both. `Opening = 1`, `OpeningBalance = 1` and the
single amount are their only numeric bounds, and no counter is capped: ledger
counts are finite because a look-up stops repetition.

The other modules name their bounds as constants, and a guard applies each. For
the safety properties of all modules the theorems below remove the bounds on
sets and, since they hold for every value of them, on the counters as well.

* `BillPurchases`: keys meet only in the balance; an opening of 3 pays any two
  debits but those of two at 2, so the balance test matters. Two amounts let a
  key come back with another price. `Queries = 1` is the polling loop with one
  round and its end (more rounds repeat a loop that depends on nothing but the
  last answer), `MaxDeaths = 1` a crash anywhere and a retry after it.
* `AgentCampaigns`: a reward belongs to one user and one campaign. Each of the
  four deeds of the instance reaches the target of 1 on its own,
  one of them a volume that depends on the rate. `MaxClock = 2`: before or after
  the activation. `MaxGrants` and `MaxAborts`: one of each, at any point.
* `Accounts`: `MaxRequests = 5` is one or two registrations and the rest other
  requests, any two of which overlap. A registration makes two secrets and any
  other request at most one: 6 cut short only runs in which both users register
  and all three other requests make one.
* `BankAccounts`: a registration, a deletion and a second registration, or a
  fault in place of one of them (`Fault` counts as a request). Two accounts:
  Billstack opens another with each request.
* `Catalogue`: three requests are two syncs and one edit between them, or two
  purchases and one edit. A promotion for one user is full after one. Networks
  do not share rows, and two of the promotion's plans are enough for one to be
  bought while the other is.
* `Startup`: nothing is counted. The four databases are a fresh one, one from
  before the campaigns and two that earlier versions left, and among them lack an
  item for each way in which the two starts and the migrations differ.

CHECK_DEADLOCK is off where a system may really have nothing left to do:
`wallet_liveness` (every reference used up), `purchase_liveness` (money spent on a
purchase that a crash left unrecorded), `bills` (a settled bill nobody asks for),
and `accounts`, `bank_accounts`, `catalogue` (the requests are used up).

### Fairness

`WalletSessions`: a request that has begun runs on (weak fairness); the two
UPDATEs that wait for a row lock have strong fairness, since PostgreSQL grants
row locks in the order of their requests; the deadlock detector acts.
`DataPurchases`: running threads go on (provider calls have timeouts), time
passes, and each PENDING row is taken up by the worker again and again (it polls
every 20 seconds or more, oldest rows first), hence strong fairness for
`WorkerLoads`. Clients, providers, crashes, the admin and the operator are under
no obligation. `PendingIsSettled` further assumes a worker that does not die for
good, an unlocked wallet and an Amigo without vague failures: the first two are
operating conditions, and without the third it is false.
`Deposits`: threads run on, and a provider repeats the webhook of a payment
until it is answered with 200 (external, as `Resent` states it); strong fairness, because
the threads may be busy with other requests again and again. Neither payers nor
users nor the operator owe anything. The liveness properties name what they need
beyond that: threads do not die for ever, the wallet is not locked for ever.
`BillPurchases`: requests run on (the providers' clients have timeouts), and a
client that has paid and got no answer sends its key again, which is what
`client_request_id` is for; strong fairness, since the sessions may be busy.
`DebitBecomesBill` needs no more. `AgentCampaigns`: sessions run on, and a user
claims what the page keeps showing as ready; the admin and the clock owe nothing.
`BankAccounts`: requests run on, and a user without an account asks for one
again and again; refusals and deaths have an end, as `MaxRequests` says. `Accounts`
and `Catalogue` have safety properties only. `Startup`: only that an instance
which is starting goes on and that its worker's loop does, which is the
scheduling of threads. The properties themselves state what more they need:
`ConfiguredAdminIsAdmin` that outages end and some instance comes up again and
again, `WorkerRecovers` that outages end and some instance stays up.

## What is proved

Every safety invariant and every action property that a run checks is the
statement of a theorem. Theorems hold for every number of sessions, wallets,
users, keys, plans, instances and so on, and for every value of the bounds and
switches but one (`Bulk`, under `BooksAreKept` of the purchases). The assumptions are the named ones of the modules: positive amounts, a solvent
start, disjoint caller and transfer references, a reserved transfer
description, bounds that are natural numbers, switches and databases of the
right kind, a clock that has a second moment, and values for "none" (`NoJob`,
`NoRow`, `NoPlan`, `Gone`, ...) that are none of the things they stand beside.

`WalletSessions_proofs`:

* `TypeCorrect`, `WalletNeverOverdrawn`, `LockedWalletsFrozen`,
  `PostingsIdempotent`: the invariants. They need `HeldRowsAreStable` (a session
  that has updated a row still holds its lock, so the WHERE clause is still
  true when it commits), `TransferRefsAreFresh` (a uuid belongs to one session)
  and `WrittenOnce` (unless overlapped, a row is written or about to be written
  by one session, never both). `NoOverdraft` alone is not inductive: the commit
  subtracts an amount that was compared with the balance some steps earlier.
* `BalancesAreExplained`: a commit moves the balance of a wallet and what its rows
  come to by the same amount (`PostingExplained`, `TransferExplained`), except
  that a receiver who was missed gets a row and no money, and only a wallet that
  an operator may lock can be missed (`MissedAreLockable`). The sum is the
  community modules' `SumFunctionOnSet`, a function by recursion over the subsets
  of a set. That it exists and can take its elements in any order
  (`FoldExists`, `SumTakesOff`, `SumChanges`) is proved by looking at the least
  cardinality for which it were false (`LeastNatural`).
* `SessionsImplementAtomicWallet`: only the two commits change committed data,
  and under `HeldRowsAreStable` each is one step of `AtomicWallet`; all other
  steps stutter.

`DataPurchases_proofs`, over any number of purchases, handlers, crashes and
repeated webhooks:

* `PurchaseTypes`, `RefundsArePaid`, `RefundsHaveGrounds`,
  `SuccessMeansDelivered` hold with no assumption on the switches, for any set of
  routes. The last two are about purchases of which every seller spoke clearly. They
  rest on the readers of answers: `HeardIsRead` and `RecheckIsRead` go
  through every answer that a seller may give for an order, over every client, and
  show that a clear one is read as a success only if the order is delivered and as a
  failure only if it is rejected (`ClubKonnectReads` and `VTpassReads` do it for the
  parsers of `BillProviders`). `Sound` carries that through a job: only a
  refunding kind gets a refunding verdict, its grounds are known (`Grounds`: a request
  that asks the fallback has been refused by the first seller), only a delivered
  order or the admin brings a success, and a job that is about to write REFUNDED has
  its refund on the ledger. Orders that are decided, histories and refunds are never
  taken back (`NothingTakenBack`, `OrdersGrow`, `GroundsStay`), so `Sound` survives
  the steps of other threads.
* `BooksAreKept` assumes `Bulk = FALSE` (bulk reconciliation breaks it).
  `BooksMatchStatus` is about purchases at rest, so the invariant
  must carry them through their jobs: `InOrder` lists which rows each status of
  a resting purchase has, `JobInOrder` which rows and statuses each step of the
  one job on an undisturbed purchase finds, `Undisturbed` ties the two together.
  A step of a job leaves other purchases and jobs alone (`AdvanceFrame`), keeps
  `JobInOrder` or ends in `InOrder` (`InOrderAdvance`); a beginning needs
  `InOrder` (`BeginStep`); a crash or a second thread takes the purchase out of
  the claim.

`Deposits_proofs`, over any number of users, deposits, threads, crashes and
deliveries, in any relation of owners and referrers:

* `DepositTypes`, `WalletMoneyIsBacked`, `TransfersCreditOnce`,
  `ReferralsRewardOnce`. They rest on `Sound`: what the place of a job says about
  its deposit (a job at `owing` has seen a payment, one at `credited` a credit,
  one at `posting` is about a transfer). Payments and credits are never taken back
  (`NothingTakenBack`), so `Sound` survives the steps of others.
  `StatusChanges`, `CreditChanges` and `RewardChanges` say once who writes what.
* `CheckoutsCreditOnce`: `OneAtATime` and `InTurn` carry an undisturbed checkout
  through its one job (nothing credited up to `owing`, once from `credited` on)
  to `Settled`. The condition is needed: two threads that both look up before
  either commits, or a crash between the two commits followed by a handler with
  another description, credit twice.

`BillPurchases_proofs`, over any number of keys, sessions, prices and deaths, with
the inductive invariant `BillInv`:

* `OneOrder`: the row precedes the order and follows the debit (`Rowed`), and of
  the sessions that get past the INSERT there is one for each key
  (`OneInserts`, the unique reference).
* `RetriesPayOnce`: unless a key is raced for, one session works on it
  (`OneAtATime`), and what that session has looked up is still true when it
  pays (`UnpaidIsUnpaid`). A second price is debited only after a death.
* `RefundsWereRejected`, `SuccessIsEarned`: `Sound` says what the result in a job
  tells of the order. It rests on the parsers: `ClubKonnectIsTrue`, `VTpassIsTrue`
  and `MockIsTrue` take every answer that may be given for an order and show that one
  with a status the parser knows is read as a success only after delivery and as
  a failure only after rejection. What an answer without one is read as is in the
  model, and outside these two theorems (`unclear`).
* `BooksAreKept`: `InOrder` and `JobInOrder` carry an undisturbed key through its
  one job, as they do for data purchases.
* A step of a handler *proceeds* on one key (`Proceeds`: what it writes, and where
  its job goes), and `ProceedingKeeps` shows once that this keeps the invariant.

`AgentCampaigns_proofs`: `RewardsAreKept` needs that a session which is about to
record a manual reward has paid it, and that a claim and its look-up cannot be
separated by another claim; that is `OneClaimAtATime`, the row lock of the
wallet. `ClaimsCountNoLess` compares the two rates: whatever a deed counts for on
the page, it counts for at least as much in the claim.

`Accounts_proofs`, with `AccountsInv`: `VoidSecrets` and `AccessStaysGranted` are
about handlers that commit a row they loaded long ago. `WrittenIsRow` says what
such a commit writes, column by column; `Sound` what a handler makes of the row
it has loaded. `SecretsStayVoid` alone is not inductive: the invariant has to say
that a secret belongs to one column of one account wherever it occurs, in a row
or in a session (`Homes`), that secrets are numbered when they are made
(`Numbered`), and that what a session brings along is known to nobody else
(`Own`), so that no commit but its own can write it. `PhonesAreApart` needs that
the number a session is about to write is free (`NumbersAreFree`). The steps of
`BankAccounts` keep `AccountsInv` (`BanksLeaveAccounts`), and `TransfersFindHolders`
adds to it what is known of each account number: who was given it, and what its
reference names.

`Catalogue_proofs`, with `CatalogueInv`: `PricesAgree` is a fact about the two price
lists, the two tills and the types of rows; its three exceptions (whoever is not
entitled to the promotion, a plan with a promotion of its own, resellers on the
developers' list) are in its statement. `AdminStaysInCharge` needs `Untouched`: in what a sync has
loaded and will write, the admin's columns agree, so that SQLAlchemy leaves them
out of its UPDATE. `PromoIsLimited` needs to count the purchases that were promised
the promotion, not only the successes; they are of different users
(`PromosAreFew`), hence no more than the users the snapshot counts.

`Startup_proofs`: `InstancesServe` rests on `Passed`: an item whose step an instance
without outage has passed is not missing, since no step takes an item away. That
every item that no migration alone adds has a step in the sequence is `EveryItemHasAStep`.
It says nothing of tables for a production start, which creates none.

Only model-checked: the liveness properties (`CallsReturn`, `PendingIsSettled`,
`PaidIsCredited`, `FirstDepositIsRewarded`, `DebitBecomesBill`, `ShownIsRewarded`,
`AccountIsShownAgain`, `ConfiguredAdminIsAdmin`, `WorkerRecovers`), because fairness
and ENABLED are out of TLAPS's reach. `TypeOK` of `Accounts`, `AgentCampaigns` and
`Catalogue` is proved, and no run spends a property on it.

## What the code does not guarantee

The conditions under which the properties hold (`overlapped`, `disturbed`,
`unclear`, `refused`, `raced`, `died`, `Bulk`, `Vague`, the hypotheses of the
liveness properties) are not
modelling conveniences. Without them the properties are false, and TLC finds the
counterexample when the condition is taken out.

* A transfer into a locked wallet debits the sender and writes the receiver's
  CREDIT row, and nobody gets the money (`wallet.py:208`).
* Request, webhook, worker and admin can refund one purchase twice: each looks
  at a status it loaded earlier, or not at all, and refunds under its own
  description (`data.py:595`, `webhooks.py:178`).
* A request that resumes after its provider call writes PENDING over SUCCESS
  (`data.py:590`).
* The reconcile timeout refunds where `config.py:94-96` says it settles as
  success (`pending_reconcile.py:211`).
* What a seller of data says without a clear status is taken as it is read.
  SMEPlug's `status: true` is a success though the message says "processing"
  (`smeplug_provider.py:134`); any word of Autosync's but "successful" and
  "pending" is a failure (`autosync_provider.py:126`); Amigo's success flag is one
  with any status (`data.py:524`, `pending_reconcile.py:64`), "queued" and "accepted"
  are failures to the purchase and pending to the worker (`data.py:528`), a
  message with "unsuccessful" contains "success" (`pending_reconcile.py:74`), and the
  definitive hints refund whatever became of the order (`pending_reconcile.py:98`).
  `SuccessIsDelivered` and `RefundMeansRejected` except such purchases (`unclear`).
* A purchase whose refund by the worker meets a locked wallet stays FAILED,
  paid and not refunded (`pending_reconcile.py:251`), against "Automatic refund on
  failed data purchase" (`src/README.md:115`). `BooksMatchStatus` says that this is
  the only way to such a purchase, of those nobody disturbed.
* First seller, fallback and the worker's Amigo share one reference. A webhook of
  the first seller refunds the purchase that its fallback goes on to deliver
  (`webhooks.py:172`), and the worker buys from Amigo what another seller may yet
  deliver (`pending_reconcile.py:173`): one payment or none for two deliveries.
* A non-definitive failure is retried for ever, against "Automatic refund on
  failed data purchase" (`pending_reconcile.py:207`, `src/README.md:115`).
* Bulk reconciliation commits the SUCCESS of a reference it refused with 409
  (`admin.py:1142`); `BooksMatchStatus` is therefore checked, and proved, without it.
* Two overlapping requests with one `client_request_id` both pay; the second
  then fails on the unique reference and its debit stays (`RetryPaysOnce` excepts
  `raced`). A retry with too small a balance does not find its earlier debit,
  since the balance is looked at first (`DebitBecomesBill`). And a retry after a
  crash at another price pays again: the look-up compares the amount
  (`wallet.py:13`), so that both debits stay (`RetryPaysOnce` bounds each price,
  and allows the second one only after a death).
* A bill is refunded, whatever became of the order, when the provider answers with an
  HTTP status of 400 or more, 502 and 504 included (`bills.py:365`, `719`,
  `services.py:269`), or with words or codes that the parser does not know, or with
  a page that is no JSON; VTpass's code 000 with an unknown status is a success
  instead (`bills.py:398`). `RefundMeansRejected` and `SuccessIsDelivered` of the bills except keys
  with such an answer (`unclear`). The developer API refunds every answer that is not
  yet a success, pending ones included. A PENDING bill is settled by an admin or
  not at all: the worker for bills selects from the other table.
* A manual reward is paid before it is recorded, and a second one is paid though
  it cannot be recorded: `RewardsAreRecorded` bounds claims, not manual rewards.
* While a wallet is locked the campaigns page shows a reward as ready and every
  claim of it answers 500 (`agent.py:505`; `ShownIsRewarded` excepts it).
* The promotion's limit counts successes: purchases begun while another is on the
  way exceed it (`PromoWithinLimit` excepts `overlapped`).
* The price list shows the promotion to everybody, also when the limit is reached
  or the user has had it, and charges those the ordinary price (`data.py:337`, `430`).
  A plan with a promotion of its own is shown at its ordinary price, and the
  till charges the limited promotion all the same. The developers' list hands over
  the user where a role is expected (`developer.py:332`): resellers are shown the
  price of users and pay their own. `PageAgreesWithTill` says what is left.
* A sync overwrites the base price and the names that an admin has set
  (`AdminDecides` is about the switches and the special prices), and inserts a deleted plan again.
* Two requests can write one telephone number at once, and the same number in
  another spelling is no conflict for registration and profile
  (`PhoneNamesOneAccount`).
* Administrators are named before the missing columns are added, so that a first
  start on an old database names none; after a local start on a table without
  `upgrade_seen`, no start does (`ConfiguredAdminIsAdmin`). Nor does any while
  `users` lacks a column that only a migration adds: no `_ensure` function is about
  `referral_code`, `fcm_token` or the plans' list prices.
* A production start creates no table, and serves from a database without any.
  Migrations cannot build one either, against the set-up of `src/README.md:30`: they
  index `service_transactions` (`0013_add_created_at_indexes.py`) and inspect
  `broadcast_announcements` (`cad7025451dd`), which none of them creates. Where an
  `_ensure` function has added a column first, the upgrade fails on it.

## Not modelled, and the plan

`PROJECT.json` lists every component with what is left out of it and, under
`hazards`, what each is exposed to. In order of weight, still to come:

1. An abstract purchase (paid, then delivered or refunded) that `DataPurchases`
   and `BillPurchases` implement for undisturbed purchases, and an abstract
   deposit (open, paid, credited, rewarded).
2. The worker's batch (limit, oldest first, abort) as a liveness question; admin
   corrections of deposits; negative admin funding; one open dispute; the data
   statistics of referred agents.

Left out for good: catalogue queries and customer verification at the bill
providers (they only read); the providers' HTTP clients beyond their outcome;
hashing, JWTs and login (library calls that write nothing); e-mail, push and
outbound webhooks (best-effort output); migrations (modelled by their effect in
`Startup`); reports, dashboards and finance pages (aggregates that nothing decides
by); announcements and toggles (rows nothing else reads).
