----------------------------- MODULE Deposits -----------------------------
(***************************************************************************)
(* Money into a wallet: checkouts that the user opens (POST /wallet/fund,  *)
(* /wallet/monnify/init), transfers to a dedicated account, the provider's *)
(* webhooks, GET /wallet/paystack/verify, and the reward that the first    *)
(* deposit of a referred user earns the referrer.                          *)
(*                                                                         *)
(* A handler loads the transaction row, credits the wallet in one commit   *)
(* and marks the row SUCCESS in the next; a transfer has no row before and *)
(* does both in one.  A provider repeats its webhook until it is answered. *)
(***************************************************************************)
EXTENDS Naturals

CONSTANTS
    Users,
    Deposits,   \* references of checkouts, external references of transfers
    Checkouts,  \* the deposits with a transaction row from the start
    Billstack,  \* the transfers that Billstack reports
    Named,      \* deposits whose webhook names the sender
    Owner,      \* the user a deposit is for
    Referrer,   \* who referred a user, NoUser if nobody
    NoUser,
    Handlers,   \* threads that serve requests and webhooks
    NoJob,      \* what an idle thread does
    Mortal,     \* the threads that may die half way
    Lockable,   \* users whose wallet an operator may lock
    Earners     \* users who may get money that is no deposit

ASSUME DepositKinds ==
    /\ Checkouts \subseteq Deposits
    /\ Billstack \subseteq Deposits \ Checkouts
ASSUME PeopleAreUsers ==
    /\ Owner \in [Deposits -> Users]
    /\ NoUser \notin Users
    /\ Referrer \in [Users -> Users \cup {NoUser}]

Status == {"none", "PENDING", "SUCCESS", "FAILED"}

\* What credit_wallet tells apart: a row that names the sender, and one that
\* does not.
Rows == {"plain", "named"}

Job == [kind : {"verify", "paid", "failed", "transfer"}, d : Deposits,
        pc : {"asking", "loaded", "owing", "credited", "failing",
              "posting", "rewarding", "granting"}]

ASSUME NoJobIsNoJob == NoJob \notin Job

VARIABLES
    status,      \* transactions.status of a deposit, "none" without a row
    ledger,      \* copies of each CREDIT row of a deposit
    older,       \* the deposits whose row is older than a deposit's row
    late,        \* deposits whose row is younger than some other WALLET_FUND row
    income,      \* users with a WALLET_FUND row that is no deposit
    rewards,     \* rewards paid for a deposit
    locked,      \* users whose wallet is locked
    payment,     \* what the payer and the provider have done about a deposit
    answered,    \* deposits whose webhook got its 200
    job,         \* what each thread is doing
    overlapped,  \* history: deposits that two threads worked on at once
    crashed      \* history: deposits that a thread died on

table == <<status, older, late>>
money == <<ledger, rewards, income>>
world == <<locked, payment>>
history == <<overlapped, crashed>>
vars == <<status, ledger, older, late, income, rewards, locked, payment,
          answered, job, overlapped, crashed>>

Init ==
    /\ status = [d \in Deposits |-> "none"]
    /\ ledger = [d \in Deposits |-> [r \in Rows |-> 0]]
    /\ older = [d \in Deposits |-> {}]
    /\ late = {}
    /\ income = {}
    /\ rewards = [d \in Deposits |-> 0]
    /\ locked = {}
    /\ payment = [d \in Deposits |-> "none"]
    /\ answered = {}
    /\ job = [s \in Handlers |-> NoJob]
    /\ overlapped = {}
    /\ crashed = {}

-----------------------------------------------------------------------------
WorksOn(s, d) == job[s] # NoJob /\ job[s].d = d

At(s, pc) == job[s] # NoJob /\ job[s].pc = pc

Begin(s, kind, d, pc) ==
    /\ job[s] = NoJob
    /\ job' = [job EXCEPT ![s] = [kind |-> kind, d |-> d, pc |-> pc]]
    /\ overlapped' = IF \E t \in Handlers : WorksOn(t, d)
                     THEN overlapped \cup {d} ELSE overlapped
    /\ UNCHANGED <<answered, crashed>>

Goto(s, pc) == job' = [job EXCEPT ![s].pc = pc] /\ UNCHANGED <<answered, history>>

\* The handler returns; a webhook that is not the news of a failure is done.
Return(s) ==
    /\ job' = [job EXCEPT ![s] = NoJob]
    /\ answered' = IF job[s].kind \in {"paid", "transfer"}
                   THEN answered \cup {job[s].d} ELSE answered
    /\ UNCHANGED history

\* Mutant: the error is answered like a success.
Fail_Answers(s) ==
    /\ job' = [job EXCEPT ![s] = NoJob]
    /\ answered' = answered \cup {job[s].d}
    /\ UNCHANGED history

\* The handler ends in an HTTP error, and the provider will try again.
Fail(s) == job' = [job EXCEPT ![s] = NoJob] /\ UNCHANGED <<answered, history>>

\* The description under which a job credits a deposit.
Row(s) ==
    IF job[s].kind # "verify" /\ job[s].d \in Named THEN "named" ELSE "plain"

SameOwner(d) == {e \in Deposits : Owner[e] = Owner[d]}

\* A row that is inserted now.
Insert(d, st) ==
    /\ status' = [status EXCEPT ![d] = st]
    /\ older' = [older EXCEPT ![d] = {e \in SameOwner(d) : status[e] # "none"}]
    /\ late' = IF Owner[d] \in income THEN late \cup {d} ELSE late

Update(d, st) == status' = [status EXCEPT ![d] = st] /\ UNCHANGED <<older, late>>

Post(d, row) == ledger' = [ledger EXCEPT ![d][row] = @ + 1]

Paid(d) == payment[d] \in {"paid", "repaid"}

-----------------------------------------------------------------------------
(***************************************************************************)
(* Checkouts                                                               *)
(***************************************************************************)

\* fund_wallet and monnify_init commit a PENDING row before they ask the
\* provider for a checkout page.
Fund(d) ==
    /\ d \in Checkouts /\ status[d] = "none"
    /\ Insert(d, "PENDING")
    /\ UNCHANGED <<money, world, answered, job, history>>

\* The provider opens the page, or the request marks the row FAILED (or dies
\* and leaves it PENDING).
CheckoutOpens(d) ==
    /\ status[d] = "PENDING" /\ payment[d] = "none"
    /\ payment' = [payment EXCEPT ![d] = "open"]
    /\ UNCHANGED <<table, money, locked, answered, job, history>>

CheckoutFails(d) ==
    /\ status[d] = "PENDING" /\ payment[d] = "none"
    /\ Update(d, "FAILED")
    /\ UNCHANGED <<money, world, answered, job, history>>

(***************************************************************************)
(* Requests and webhooks that arrive                                       *)
(***************************************************************************)

\* paystack_verify, called by the user at any time.
Verify(s, d) ==
    /\ d \in Checkouts /\ status[d] # "none"
    /\ Begin(s, "verify", d, IF status[d] = "SUCCESS" THEN "rewarding" ELSE "asking")
    /\ UNCHANGED <<table, money, world>>

\* Mutant: the status of the row is not looked at.
PaidWebhook_NoStatusTest(s, d) ==
    /\ d \in Checkouts /\ Paid(d)
    /\ Begin(s, "paid", d, "loaded")
    /\ UNCHANGED <<table, money, world>>

\* charge.success (paystack_webhook), PAID (monnify_webhook): the first and
\* every further delivery.
PaidWebhook(s, d) ==
    /\ d \in Checkouts /\ Paid(d)
    /\ Begin(s, "paid", d, IF status[d] = "SUCCESS" THEN "rewarding" ELSE "loaded")
    /\ UNCHANGED <<table, money, world>>

\* charge.failed, FAILED: news of a failed attempt, which may come after a
\* later attempt has succeeded.  Only a PENDING row is of interest.
FailedWebhook(s, d) ==
    /\ d \in Checkouts /\ payment[d] \in {"failed", "repaid"}
    /\ status[d] = "PENDING"
    /\ Begin(s, "failed", d, "failing")
    /\ UNCHANGED <<table, money, world>>

\* A transfer to a dedicated account is looked up by its external reference.
\* (billstack_webhook would credit a SUCCESS row without ledger entry, and a
\* row that is not SUCCESS; there is neither.)
TransferWebhook(s, d) ==
    /\ d \notin Checkouts /\ Paid(d)
    /\ Begin(s, "transfer", d, IF status[d] = "SUCCESS" THEN "rewarding" ELSE "posting")
    /\ UNCHANGED <<table, money, world>>

(***************************************************************************)
(* What a handler does, one commit or answer at a time                     *)
(***************************************************************************)

\* Mutant: verification takes any answer for a confirmation.
VerifyAnswers_AnyAnswer(s) ==
    /\ At(s, "asking")
    /\ \/ payment[job[s].d] # "none" /\ Goto(s, "loaded")
       \/ Return(s)
    /\ UNCHANGED <<table, money, world>>

\* Paystack confirms a payment that was made, unless the call fails.
VerifyAnswers(s) ==
    /\ At(s, "asking")
    /\ \/ Paid(job[s].d) /\ Goto(s, "loaded")
       \/ Return(s)
    /\ UNCHANGED <<table, money, world>>

\* credit_wallet looks for its row.
LookUp(s) ==
    /\ At(s, "loaded") /\ Owner[job[s].d] \notin locked
    /\ Goto(s, IF ledger[job[s].d][Row(s)] = 0 THEN "owing" ELSE "credited")
    /\ UNCHANGED <<table, money, world>>

\* The commit inside credit_wallet; the status has not been assigned yet.
Credit(s) ==
    /\ At(s, "owing") /\ Owner[job[s].d] \notin locked
    /\ Post(job[s].d, Row(s))
    /\ Goto(s, "credited")
    /\ UNCHANGED <<table, rewards, income, world>>

\* The commit of SUCCESS, whatever the row says by now.
MarkSuccess(s) ==
    /\ At(s, "credited")
    /\ Update(job[s].d, "SUCCESS")
    /\ Goto(s, "rewarding")
    /\ UNCHANGED <<money, world>>

\* Mutant: the row takes the provider's own word for the outcome.
MarkFailed_RawStatus(s) ==
    /\ At(s, "failing")
    /\ Update(job[s].d, payment[job[s].d])
    /\ Return(s)
    /\ UNCHANGED <<money, world>>

\* The commit of FAILED over the PENDING that was loaded.
MarkFailed(s) ==
    /\ At(s, "failing")
    /\ Update(job[s].d, "FAILED")
    /\ Return(s)
    /\ UNCHANGED <<money, world>>

\* Mutant: the row has no unique reference.
PostTransfer_NotUnique(s) ==
    /\ At(s, "posting") /\ Owner[job[s].d] \notin locked
    /\ Insert(job[s].d, "SUCCESS")
    /\ Post(job[s].d, Row(s))
    /\ Goto(s, "rewarding")
    /\ UNCHANGED <<rewards, income, world>>

\* One commit inserts the SUCCESS row and credits the wallet.  If another
\* delivery has been faster, the unique reference makes it roll back.
PostTransfer(s) ==
    LET d == job[s].d IN
    /\ At(s, "posting") /\ Owner[d] \notin locked
    /\ \/ /\ status[d] = "none"
          /\ Insert(d, "SUCCESS") /\ Post(d, Row(s))
          /\ Goto(s, "rewarding")
          /\ UNCHANGED <<rewards, income>>
       \/ /\ status[d] # "none"
          /\ Return(s)
          /\ UNCHANGED <<table, money>>
    /\ UNCHANGED world

\* credit_wallet raises 423.  paystack_verify says "pending" and the webhooks
\* fail, but billstack_webhook catches the exception and answers "ok".
Refused(s) ==
    /\ \/ At(s, "loaded") \/ At(s, "owing") \/ At(s, "posting")
    /\ Owner[job[s].d] \in locked
    /\ IF job[s].d \in Billstack THEN Return(s) ELSE Fail(s)
    /\ UNCHANGED <<table, money, world>>

(***************************************************************************)
(* record_referral_first_deposit_reward                                    *)
(***************************************************************************)

\* Mutant: a reward is known by its deposit, not by the referral.
AlreadyRewarded_ByDeposit(d) == rewards[d] > 0

\* The referral's reward_transaction_reference, and the unique reference of
\* the reward's own transaction.
AlreadyRewarded(d) == \E e \in SameOwner(d) : rewards[e] > 0

\* Mutant: the deposit must be the only one, not the first.
FirstSuccess_Only(d) == \A e \in SameOwner(d) : e # d => status[e] = "none"

\* The oldest SUCCESS of the user, of type WALLET_FUND, is this deposit.
FirstSuccess(d) ==
    /\ status[d] = "SUCCESS" /\ d \notin late
    /\ \A e \in older[d] : status[e] # "SUCCESS"

\* SELECT ... FOR UPDATE on the referral: waits while another handler is
\* between its lock and its commit.
Qualify(s) ==
    LET d == job[s].d
        qualified == Referrer[Owner[d]] # NoUser /\ ~AlreadyRewarded(d) /\ FirstSuccess(d)
    IN  /\ At(s, "rewarding")
        /\ \A t \in Handlers : At(t, "granting") => Owner[job[t].d] # Owner[d]
        /\ IF qualified THEN Goto(s, "granting") ELSE Return(s)
        /\ UNCHANGED <<table, money, world>>

\* _grant_reward and the commit: the referrer's credit and WALLET_FUND row.  A
\* locked referrer raises 423, which _maybe_reward_first_deposit swallows.
Grant(s) ==
    LET d == job[s].d
        referrer == Referrer[Owner[d]]
    IN  /\ At(s, "granting")
        /\ \/ /\ referrer \notin locked /\ ~AlreadyRewarded(d)
              /\ rewards' = [rewards EXCEPT ![d] = @ + 1]
              /\ income' = income \cup {referrer}
           \/ /\ referrer \in locked \/ AlreadyRewarded(d)
              /\ UNCHANGED <<rewards, income>>
        /\ Return(s)
        /\ UNCHANGED <<ledger, table, world>>

Advance(s) ==
    \/ VerifyAnswers(s) \/ LookUp(s) \/ Credit(s) \/ MarkSuccess(s) \/ MarkFailed(s)
    \/ PostTransfer(s) \/ Refused(s) \/ Qualify(s) \/ Grant(s)

-----------------------------------------------------------------------------
\* The payer pays an open checkout, at once or after a failed attempt, or makes
\* a transfer.
Pays(d) ==
    /\ payment[d] \in (IF d \in Checkouts THEN {"open", "failed"} ELSE {"none"})
    /\ payment' = [payment EXCEPT ![d] = IF @ = "failed" THEN "repaid" ELSE "paid"]
    /\ UNCHANGED <<table, money, locked, answered, job, history>>

FailsToPay(d) ==
    /\ payment[d] = "open"
    /\ payment' = [payment EXCEPT ![d] = "failed"]
    /\ UNCHANGED <<table, money, locked, answered, job, history>>

\* A transfer from another user, an admin's credit, a campaign reward: a
\* WALLET_FUND row that nobody hands to the referral service.
OtherIncome(u) ==
    /\ u \in Earners \ income
    /\ income' = income \cup {u}
    /\ UNCHANGED <<table, ledger, rewards, world, answered, job, history>>

OperatorSetsLock(u) ==
    /\ u \in Lockable
    /\ locked' = IF u \in locked THEN locked \ {u} ELSE locked \cup {u}
    /\ UNCHANGED <<table, money, payment, answered, job, history>>

\* A thread dies, or its process: what it had not committed is gone.
Crash(s) ==
    /\ s \in Mortal /\ job[s] # NoJob
    /\ job' = [job EXCEPT ![s] = NoJob]
    /\ crashed' = crashed \cup {job[s].d}
    /\ UNCHANGED <<table, money, world, answered, overlapped>>

Next ==
    \/ \E s \in Handlers, d \in Deposits :
          \/ Verify(s, d)
          \/ PaidWebhook(s, d)
          \/ FailedWebhook(s, d)
          \/ TransferWebhook(s, d)
    \/ \E s \in Handlers : Advance(s) \/ Crash(s)
    \/ \E d \in Deposits :
          \/ Fund(d)
          \/ CheckoutOpens(d)
          \/ CheckoutFails(d)
          \/ Pays(d)
          \/ FailsToPay(d)
    \/ \E u \in Users : OtherIncome(u) \/ OperatorSetsLock(u)

Spec == Init /\ [][Next]_vars

\* Threads run on, and a provider repeats the webhook of a payment until it is
\* answered.  Users, payers and the operator owe nothing.
Resent(d) ==
    d \notin answered /\ \E s \in Handlers : PaidWebhook(s, d) \/ TransferWebhook(s, d)

Fairness ==
    /\ \A s \in Handlers : WF_vars(Advance(s))
    /\ \A d \in Deposits : SF_vars(Resent(d))

FairSpec == Spec /\ Fairness
-----------------------------------------------------------------------------
(***************************************************************************)
(* Properties                                                              *)
(***************************************************************************)

\* Type invariant.
TypeOK ==
    /\ status \in [Deposits -> Status]
    /\ ledger \in [Deposits -> [Rows -> Nat]]
    /\ older \in [Deposits -> SUBSET Deposits]
    /\ late \in SUBSET Deposits
    /\ income \in SUBSET Users
    /\ rewards \in [Deposits -> Nat]
    /\ locked \in SUBSET Users
    /\ payment \in [Deposits -> {"none", "open", "failed", "paid", "repaid"}]
    /\ answered \in SUBSET Deposits
    /\ job \in [Handlers -> Job \cup {NoJob}]
    /\ overlapped \in SUBSET Deposits
    /\ crashed \in SUBSET Deposits

Credits(d) == ledger[d]["plain"] + ledger[d]["named"]

\* Under every interleaving and crash: a SUCCESS has been credited, a credit has
\* been paid for, and a reward stands for a credited deposit.
MoneyIsBacked ==
    \A d \in Deposits :
        /\ status[d] = "SUCCESS" => Credits(d) >= 1
        /\ Credits(d) >= 1 => Paid(d)
        /\ rewards[d] >= 1 => Credits(d) >= 1

\* A transfer is credited when, and only when, its row appears, and once, under
\* every interleaving of deliveries and every crash.
TransferCreditedOnce ==
    \A d \in Deposits \ Checkouts :
        Credits(d) = (IF status[d] = "SUCCESS" THEN 1 ELSE 0)

\* A checkout whose handlers came one after the other, and none died, has been
\* credited once if it is a SUCCESS and not at all otherwise, in whatever order
\* verification, payments and late news of failures came.
CheckoutCreditedOnce ==
    \A d \in Checkouts :
        d \notin overlapped \cup crashed /\ (\A s \in Handlers : ~WorksOn(s, d)) =>
            Credits(d) = (IF status[d] = "SUCCESS" THEN 1 ELSE 0)

\* A referrer is rewarded at most once per referred user, although every
\* delivery of every deposit asks for the reward again.
RewardedOnce ==
    \A d, e \in Deposits :
        rewards[d] >= 1 /\ rewards[e] >= 1 /\ Owner[d] = Owner[e] =>
            d = e /\ rewards[d] = 1

\* A payment ends up in the wallet, whatever handlers die on the way, unless
\* they never stop dying or the operator never lets go of the wallet.  Billstack
\* is told "ok" when the wallet is locked and does not come again.
PaidIsCredited ==
    \/ []<><<\E s \in Handlers : Crash(s)>>_vars
    \/ \A d \in Deposits :
          \/ Paid(d) ~> Credits(d) >= 1
          \/ d \notin Billstack /\ []<>(Owner[d] \in locked)
          \/ d \in Billstack /\ <>(Owner[d] \in locked)

\* The first deposit of a referred user is rewarded, whatever handlers die, if
\* no two of them worked on one of the user's deposits at once, the user had no
\* other income before and neither the user nor the referrer is ever locked.
FirstDepositIsRewarded ==
    \/ []<><<\E s \in Handlers : Crash(s)>>_vars
    \/ \A d \in Deposits :
          \/ Referrer[Owner[d]] = NoUser
          \/ <>({Owner[d], Referrer[Owner[d]]} \cap locked # {})
          \/ (status[d] = "SUCCESS" /\ d \notin late)
                ~> (AlreadyRewarded(d) \/ SameOwner(d) \cap overlapped # {})
=============================================================================
