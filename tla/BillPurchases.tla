---------------------------- MODULE BillPurchases ----------------------------
(***************************************************************************)
(* Airtime, cable, electricity and exam PIN purchases (endpoints/          *)
(* services.py) and the airtime of the developer API (developer.py): rows  *)
(* of service_transactions, with the admin's two corrections of them.      *)
(*                                                                         *)
(* A client names a purchase by a key (client_request_id, or the reference *)
(* of the developer API) and may send the key again, at once or later.  A  *)
(* purchase without a key gets a random reference: a key that is sent      *)
(* once.  The four handlers of services.py are one text but for wording,   *)
(* the token polling of electricity and the package prices of exams.  The  *)
(* wallet is the indivisible one of AtomicWallet and is not locked here    *)
(* (DataPurchases has that).                                               *)
(***************************************************************************)
EXTENDS BillProviders

CONSTANTS
    Keys,      \* the keys the client uses
    Kinds,     \* the kinds of purchase made
    InUse,     \* the providers with credentials
    Sessions,  \* requests in flight
    NoJob,     \* what an idle session does
    Amounts,   \* prices
    Opening,   \* opening balance
    Queries,   \* bound: how often a pending ClubKonnect order is queried
    MaxDeaths  \* bound: how many requests may die on a key

AllKinds == {"airtime", "cable", "electricity", "exam", "api"}

ASSUME KindsAreKinds == Kinds \subseteq AllKinds
ASSUME ProvidersInUse == InUse \subseteq Providers
ASSUME AmountsArePositive == Amounts \subseteq Nat \ {0}
ASSUME BoundsAreNat == {Opening, Queries, MaxDeaths} \subseteq Nat

Status == {"none", "PENDING", "SUCCESS", "FAILED", "REFUNDED"}
Rows == {"auto", "admin", "reversal"}

\* How the call of the provider ended: by a result, or by an exception with
\* or without one of _TRANSPORT_ERROR_MARKERS in its text.
Ends == {"result", "transport", "error"}

NoResult == [success |-> FALSE, pending |-> FALSE, saysPending |-> FALSE,
             status |-> "none", token |-> FALSE]

Job == [key : Keys, amount : Amounts,
        pc : {"asked", "unpaid", "debited", "placing", "querying", "tokens", "answered",
              "loaded", "credited", "failing", "delivering"},
        left : 0..Queries, call : Ends, result : ProviderResult, seen : Status, pay : BOOLEAN]

ASSUME NoJobIsNoJob == NoJob \notin Job

VARIABLES
    kind,      \* what is bought under a key (the prefix of its reference)
    provider,  \* what get_bills_provider returns
    balance,   \* wallets.balance
    debits,    \* wallet_ledger: copies of the debit row of a key and amount
    credits,   \* wallet_ledger: copies of the refund and reversal rows of a key
    bill,      \* service_transactions.status, "none" before the row exists
    price,     \* service_transactions.amount
    order,     \* what became of the order at the provider
    placed,    \* history: orders placed at the provider
    unclear,   \* history: keys for which there was an answer without a known
               \* status, or an HTTP error
    job,       \* what each session does
    raced,     \* history: keys two sessions worked on at once
    died       \* history: how many sessions died on a key

wallet == <<balance, debits, credits>>
bills == <<bill, price>>
world == <<kind, provider>>
orders == <<order, placed, unclear>>
vars == <<kind, provider, balance, debits, credits, bill, price, order, placed, unclear,
          job, raced, died>>

Init ==
    /\ kind \in [Keys -> Kinds]
    /\ provider \in {Chosen(choice, InUse, enabled) :
                        choice \in Providers \cup {"auto"}, enabled \in BOOLEAN}
    /\ balance = Opening
    /\ debits = [k \in Keys |-> [a \in Amounts |-> 0]]
    /\ credits = [k \in Keys |-> [r \in Rows |-> 0]]
    /\ bill = [k \in Keys |-> "none"]
    /\ price = [k \in Keys |-> 0]
    /\ order = [k \in Keys |-> "none"]
    /\ placed = [k \in Keys |-> 0]
    /\ unclear = {}
    /\ job = [s \in Sessions |-> NoJob]
    /\ raced = {}
    /\ died = [k \in Keys |-> 0]

-----------------------------------------------------------------------------
At(s, pc) == job[s] # NoJob /\ job[s].pc = pc

Begin(s, k, a, pc, pay) ==
    /\ job[s] = NoJob
    /\ job' = [job EXCEPT ![s] = [key |-> k, amount |-> a, pc |-> pc, left |-> Queries,
                                  call |-> "result", result |-> NoResult,
                                  seen |-> bill[k], pay |-> pay]]
    /\ raced' = IF \E t \in Sessions : job[t] # NoJob /\ job[t].key = k
                THEN raced \cup {k} ELSE raced
    /\ UNCHANGED died

Goto(s, pc) == job' = [job EXCEPT ![s].pc = pc] /\ UNCHANGED <<raced, died>>

End(s) == job' = [job EXCEPT ![s] = NoJob] /\ UNCHANGED <<raced, died>>

\* credit_wallet: the refund of a key under one description, unless its row is there.
Credit(k, row) ==
    IF credits[k][row] = 0
    THEN /\ credits' = [credits EXCEPT ![k][row] = 1]
         /\ balance' = balance + price[k]
    ELSE UNCHANGED <<credits, balance>>

-----------------------------------------------------------------------------
(***************************************************************************)
(* A purchase request.                                                     *)
(***************************************************************************)

\* The handlers of services.py up to their look for an existing row: the
\* balance is looked at first, then the reference.
Ask(s, k, a) ==
    /\ kind[k] # "api"
    /\ balance >= a /\ bill[k] = "none"
    /\ Begin(s, k, a, "asked", FALSE)
    /\ UNCHANGED <<wallet, bills, world, orders>>

\* developer_buy_airtime, which looks for the row first.
AskApi(s, k, a) ==
    /\ kind[k] = "api"
    /\ bill[k] = "none" /\ balance >= a
    /\ Begin(s, k, a, "asked", FALSE)
    /\ UNCHANGED <<wallet, bills, world, orders>>

\* Mutant: the ledger is not consulted for an earlier debit.
LookUpDebit_Never(s) ==
    /\ At(s, "asked")
    /\ Goto(s, "unpaid")
    /\ UNCHANGED <<wallet, bills, world, orders>>

\* Mutant: an earlier debit is taken for a finished purchase.
LookUpDebit_IsDone(s) ==
    /\ At(s, "asked")
    /\ IF debits[job[s].key][job[s].amount] = 0 THEN Goto(s, "unpaid") ELSE End(s)
    /\ UNCHANGED <<wallet, bills, world, orders>>

\* debit_wallet looks for the debit row: a request that died after its debit
\* has left one, and the retry does not pay again.
LookUpDebit(s) ==
    /\ At(s, "asked")
    /\ Goto(s, IF debits[job[s].key][job[s].amount] = 0 THEN "unpaid" ELSE "debited")
    /\ UNCHANGED <<wallet, bills, world, orders>>

\* The guarded UPDATE of debit_wallet and its commit, or 400.
PayDebit(s) ==
    LET k == job[s].key
        a == job[s].amount
    IN  /\ At(s, "unpaid")
        /\ IF balance >= a
           THEN /\ balance' = balance - a
                /\ debits' = [debits EXCEPT ![k][a] = @ + 1]
                /\ Goto(s, "debited")
           ELSE UNCHANGED <<balance, debits>> /\ End(s)
        /\ UNCHANGED <<credits, bills, world, orders>>

\* Mutant: service_transactions.reference is not unique.
Insert_NotUnique(s) ==
    LET k == job[s].key
    IN  /\ At(s, "debited")
        /\ bill' = [bill EXCEPT ![k] = "PENDING"]
        /\ price' = [price EXCEPT ![k] = job[s].amount]
        /\ Goto(s, "placing")
        /\ UNCHANGED <<wallet, world, orders>>

\* The PENDING row.  Its reference is unique: the second of two requests gets
\* an IntegrityError, a 500, and its debit stays.
Insert(s) ==
    LET k == job[s].key
    IN  /\ At(s, "debited")
        /\ IF bill[k] = "none"
           THEN /\ bill' = [bill EXCEPT ![k] = "PENDING"]
                /\ price' = [price EXCEPT ![k] = job[s].amount]
                /\ Goto(s, "placing")
           ELSE UNCHANGED bills /\ End(s)
        /\ UNCHANGED <<wallet, world, orders>>

\* The provider takes the order, whatever becomes of it.
Order(k, fate) ==
    /\ order' = [order EXCEPT ![k] = fate]
    /\ placed' = [placed EXCEPT ![k] = @ + 1]

Hear(k, clear) == unclear' = IF clear THEN unclear ELSE unclear \cup {k}

Answered(s, pc, result) ==
    /\ job' = [job EXCEPT ![s].pc = pc, ![s].result = result]
    /\ UNCHANGED <<raced, died>>

\* Mutant: code 000 alone makes a VTpass answer a success.
PlaceAtVTpass_AnyCode000(s) ==
    /\ At(s, "placing") /\ provider = "vtpass"
    /\ \E fate \in Fate \ {"none"} : \E a \in VTpassTells(fate) :
           LET r == VTpassParse(a)
           IN  /\ Order(job[s].key, fate) /\ Hear(job[s].key, a.status # "none")
               /\ Answered(s, "answered",
                           [r EXCEPT !.success = r.success \/ a.code000,
                                     !.status = IF a.code000 THEN "none" ELSE r.status])
    /\ UNCHANGED <<wallet, bills, world>>

\* VTpass answers POST /pay.
PlaceAtVTpass(s) ==
    /\ At(s, "placing") /\ provider = "vtpass"
    /\ \E fate \in Fate \ {"none"} : \E a \in Answers("vtpass", fate) :
           /\ Order(job[s].key, fate) /\ Hear(job[s].key, a.clear)
           /\ Answered(s, "answered", a.result)
    /\ UNCHANGED <<wallet, bills, world>>

\* purchase_exam_pin orders nothing where the exam is not on sale or, with
\* VTpass, no phone number is given.
RefuseExam(s) ==
    /\ At(s, "placing") /\ provider # "mock"
    /\ Answered(s, "answered", MockResult("rejected"))
    /\ UNCHANGED <<wallet, bills, world, orders>>

\* ClubKonnect answers; what is pending is queried again, and electricity is
\* queried until there is a token.
PlaceAtClubKonnect(s) ==
    LET k == job[s].key
    IN  /\ At(s, "placing") /\ provider = "clubkonnect"
        /\ \E fate \in Fate \ {"none"} : \E a \in Answers("clubkonnect", fate) :
               /\ Order(k, fate) /\ Hear(k, a.clear)
               /\ Answered(s, IF a.result.pending THEN "querying"
                              ELSE IF kind[k] = "electricity" THEN "tokens"
                              ELSE "answered", a.result)
        /\ UNCHANGED <<wallet, bills, world>>

PlaceAtMock(s) ==
    LET k == job[s].key
    IN  /\ At(s, "placing") /\ provider = "mock"
        /\ \E fate \in {"delivered", "rejected"} :
               /\ kind[k] = "exam" => fate = "delivered"
               /\ Order(k, fate) /\ UNCHANGED unclear
               /\ Answered(s, "answered", MockResult(fate))
        /\ UNCHANGED <<wallet, bills, world>>

\* The call raises, on the way there or back (transport) or for an HTTP status
\* of 400 and more (error), 502 and 504 included: either way there may be an
\* order, and it may be delivered.
CallFails(s) ==
    LET k == job[s].key
    IN  /\ At(s, "placing")
        /\ \E end \in {"transport", "error"} :
               /\ job' = [job EXCEPT ![s].pc = "answered", ![s].call = end]
               /\ Hear(k, end # "error")
        /\ UNCHANGED <<order, placed>> \/ \E fate \in Fate \ {"none"} : Order(k, fate)
        /\ UNCHANGED <<raced, died, wallet, bills, world>>

\* _settle_pending: a query whose answer is not pending replaces the result;
\* one that is not answered is as good as pending, and the last is the end.
QueryStatus(s) ==
    LET k == job[s].key
        next == IF kind[k] = "electricity" THEN "tokens" ELSE "answered"
    IN  /\ At(s, "querying")
        /\ \/ /\ job[s].left > 0
              /\ \E a \in Answers("clubkonnect", order[k]) :
                     /\ a.result.status # "pending" /\ Hear(k, a.clear)
                     /\ job' = [job EXCEPT ![s].pc = next, ![s].result = a.result,
                                           ![s].left = Queries]
           \/ /\ job[s].left > 0 /\ UNCHANGED unclear
              /\ job' = [job EXCEPT ![s].left = @ - 1]
           \/ /\ job[s].left = 0 /\ UNCHANGED unclear
              /\ job' = [job EXCEPT ![s].pc = next, ![s].left = Queries]
        /\ UNCHANGED <<raced, died, wallet, bills, world, order, placed>>

\* purchase_electricity asks for the token: a refusal ends the purchase, a
\* token makes it a success, and the status kept under meta stays what it was.
QueryToken(s) ==
    LET k == job[s].key
    IN  /\ At(s, "tokens")
        /\ \/ /\ job[s].left > 0
              /\ \E a \in Answers("clubkonnect", order[k]) :
                     /\ ~a.result.success /\ ~a.result.pending /\ Hear(k, a.clear)
                     /\ job' = [job EXCEPT ![s].pc = "answered", ![s].result = a.result]
           \/ /\ job[s].left > 0 /\ order[k] = "delivered" /\ UNCHANGED unclear
              /\ job' = [job EXCEPT ![s].pc = "answered", ![s].result.success = TRUE,
                                    ![s].result.pending = FALSE,
                                    ![s].result.token = TRUE]
           \/ /\ job[s].left > 0 /\ UNCHANGED unclear
              /\ job' = [job EXCEPT ![s].left = @ - 1]
           \/ /\ job[s].left = 0 /\ UNCHANGED unclear
              /\ job' = [job EXCEPT ![s].pc = "answered"]
        /\ UNCHANGED <<raced, died, wallet, bills, world, order, placed>>

-----------------------------------------------------------------------------
(***************************************************************************)
(* What the handler makes of it.                                           *)
(***************************************************************************)

\* services.py: only the status kept under meta says that a result is pending.
Verdict(j) ==
    IF \/ j.call = "transport"
       \/ j.call = "result" /\ j.result.status = "pending" THEN "PENDING"
    ELSE IF j.call = "result" /\ j.result.success THEN "SUCCESS"
    ELSE "REFUNDED"

\* developer_buy_airtime: any exception is pending, anything else that is not
\* a success has failed.
ApiVerdict(j) ==
    IF j.call # "result" THEN "PENDING"
    ELSE IF j.result.success THEN "SUCCESS" ELSE "REFUNDED"

\* db2: the handler of services.py loads its row again.
Reload(s) ==
    /\ At(s, "answered") /\ kind[job[s].key] # "api"
    /\ job' = [job EXCEPT ![s].pc = "loaded", ![s].seen = bill[job[s].key]]
    /\ UNCHANGED <<raced, died, wallet, bills, world, orders>>

\* Mutant: the status is taken over as the provider spells it.
Settle_RawStatus(s) ==
    LET k == job[s].key
    IN  /\ At(s, "loaded") /\ Verdict(job[s]) \in {"PENDING", "SUCCESS"}
        /\ bill' = [bill EXCEPT ![k] = job[s].result.status]
        /\ End(s)
        /\ UNCHANGED <<wallet, price, world, orders>>

\* PENDING or SUCCESS, written only if it differs from what was loaded.
Settle(s) ==
    LET k == job[s].key
        v == Verdict(job[s])
    IN  /\ At(s, "loaded") /\ v \in {"PENDING", "SUCCESS"}
        /\ bill' = [bill EXCEPT ![k] = IF job[s].seen # v THEN v ELSE @]
        /\ End(s)
        /\ UNCHANGED <<wallet, price, world, orders>>

\* The refund of a failed purchase commits before REFUNDED is written.
Refund(s) ==
    /\ At(s, "loaded") /\ Verdict(job[s]) = "REFUNDED"
    /\ Credit(job[s].key, "auto")
    /\ Goto(s, "credited")
    /\ UNCHANGED <<debits, bills, world, orders>>

\* The developer API writes through the session it began with, whose rows have
\* expired: whatever the row says by now is overwritten.
SettleApi(s) ==
    LET k == job[s].key
        v == ApiVerdict(job[s])
    IN  /\ At(s, "answered") /\ kind[k] = "api" /\ v \in {"PENDING", "SUCCESS"}
        /\ bill' = [bill EXCEPT ![k] = v]
        /\ End(s)
        /\ UNCHANGED <<wallet, price, world, orders>>

\* FAILED is committed together with the refund.
RefundApi(s) ==
    LET k == job[s].key
    IN  /\ At(s, "answered") /\ kind[k] = "api"
        /\ ApiVerdict(job[s]) = "REFUNDED"
        /\ Credit(k, "auto")
        /\ bill' = [bill EXCEPT ![k] = "FAILED"]
        /\ Goto(s, "credited")
        /\ UNCHANGED <<debits, price, world, orders>>

MarkRefunded(s) ==
    /\ At(s, "credited")
    /\ bill' = [bill EXCEPT ![job[s].key] = "REFUNDED"]
    /\ End(s)
    /\ UNCHANGED <<wallet, price, world, orders>>

\* data/status of the developer API: what is neither is "failed".
Told(k) ==
    CASE bill[k] = "SUCCESS" -> "delivered"
      [] bill[k] = "PENDING" -> "pending"
      [] bill[k] = "none" -> "unknown"
      [] OTHER -> "failed"

-----------------------------------------------------------------------------
(***************************************************************************)
(* The admin.                                                              *)
(***************************************************************************)

\* _fail_refund_single_reference loads a PENDING row and looks for its own
\* earlier refund.
AdminFails(s, k) ==
    /\ bill[k] = "PENDING"
    /\ Begin(s, k, price[k], "failing", credits[k]["admin"] = 0)
    /\ UNCHANGED <<wallet, bills, world, orders>>

\* Mutant: the refund is committed, the status is not.
CommitFailure_ForgetsStatus(s) ==
    LET k == job[s].key
    IN  /\ At(s, "failing")
        /\ IF job[s].pay
           THEN /\ credits' = [credits EXCEPT ![k]["admin"] = @ + 1]
                /\ balance' = balance + price[k]
           ELSE UNCHANGED <<credits, balance>>
        /\ End(s)
        /\ UNCHANGED <<debits, bills, world, orders>>

\* One commit for the refund and the status.
CommitFailure(s) ==
    LET k == job[s].key
    IN  /\ At(s, "failing")
        /\ IF job[s].pay
           THEN /\ credits' = [credits EXCEPT ![k]["admin"] = @ + 1]
                /\ balance' = balance + price[k]
           ELSE UNCHANGED <<credits, balance>>
        /\ bill' = [bill EXCEPT ![k] = "REFUNDED"]
        /\ End(s)
        /\ UNCHANGED <<debits, price, world, orders>>

\* _reconcile_single_reference loads the row; a refunded one has its refund
\* taken back, once.
AdminDelivers(s, k) ==
    /\ bill[k] # "none"
    /\ bill[k] = "REFUNDED" => credits[k]["reversal"] > 0 \/ balance >= price[k]
    /\ Begin(s, k, price[k], "delivering",
             bill[k] = "REFUNDED" /\ credits[k]["reversal"] = 0)
    /\ UNCHANGED <<wallet, bills, world, orders>>

\* The reversal debit and SUCCESS are one commit, or neither happens.
CommitDelivery(s) ==
    LET k == job[s].key
    IN  /\ At(s, "delivering")
        /\ IF job[s].pay /\ balance < price[k]
           THEN UNCHANGED <<credits, balance, bill>>
           ELSE /\ bill' = [bill EXCEPT ![k] = IF job[s].seen # "SUCCESS"
                                               THEN "SUCCESS" ELSE @]
                /\ IF job[s].pay
                   THEN /\ credits' = [credits EXCEPT ![k]["reversal"] = @ + 1]
                        /\ balance' = balance - price[k]
                   ELSE UNCHANGED <<credits, balance>>
        /\ End(s)
        /\ UNCHANGED <<debits, price, world, orders>>

-----------------------------------------------------------------------------
\* The process dies or is redeployed: what was committed stays.
Crash(s) ==
    /\ job[s] # NoJob /\ died[job[s].key] < MaxDeaths
    /\ died' = [died EXCEPT ![job[s].key] = @ + 1]
    /\ job' = [job EXCEPT ![s] = NoJob]
    /\ UNCHANGED <<raced, wallet, bills, world, orders>>

ProviderDecides(k) ==
    /\ order[k] = "open"
    /\ \E fate \in {"delivered", "rejected"} : order' = [order EXCEPT ![k] = fate]
    /\ UNCHANGED <<placed, unclear, job, raced, died, wallet, bills, world>>

Buys(s, what) == job[s] # NoJob /\ kind[job[s].key] = what

\* The steps every handler takes up to the provider's answer, and those of the
\* four handlers of services.py after it.
OrderSteps(s) ==
    \/ LookUpDebit(s) \/ PayDebit(s) \/ Insert(s)
    \/ PlaceAtVTpass(s) \/ PlaceAtClubKonnect(s) \/ PlaceAtMock(s) \/ CallFails(s)
    \/ QueryStatus(s)
SettleSteps(s) == Reload(s) \/ Settle(s) \/ Refund(s) \/ MarkRefunded(s)

\* purchase_airtime and purchase_cable go through the same steps.
PurchaseAirtimeOrCable(s) ==
    /\ Buys(s, "airtime") \/ Buys(s, "cable")
    /\ OrderSteps(s) \/ SettleSteps(s)
PurchaseElectricity(s) ==
    Buys(s, "electricity") /\ (OrderSteps(s) \/ QueryToken(s) \/ SettleSteps(s))
PurchaseExamPin(s) ==
    Buys(s, "exam") /\ (OrderSteps(s) \/ RefuseExam(s) \/ SettleSteps(s))
DeveloperBuyAirtime(s) ==
    Buys(s, "api") /\ (OrderSteps(s) \/ SettleApi(s) \/ RefundApi(s) \/ MarkRefunded(s))

Advance(s) ==
    \/ PurchaseAirtimeOrCable(s) \/ PurchaseElectricity(s)
    \/ PurchaseExamPin(s) \/ DeveloperBuyAirtime(s)
    \/ CommitFailure(s) \/ CommitDelivery(s)

Purchase(k, a) == \E s \in Sessions : Ask(s, k, a) \/ AskApi(s, k, a)

Next ==
    \/ \E k \in Keys, a \in Amounts : Purchase(k, a)
    \/ \E s \in Sessions, k \in Keys : AdminFails(s, k) \/ AdminDelivers(s, k)
    \/ \E s \in Sessions : Advance(s) \/ Crash(s)
    \/ \E k \in Keys : ProviderDecides(k)

Spec == Init /\ [][Next]_vars

\* A request that was begun runs on, and a client that has paid and got no
\* answer sends its key again: that is what the key is for.
Retry(k) == \E a \in Amounts : debits[k][a] > 0 /\ Purchase(k, a)

Fairness ==
    /\ \A s \in Sessions : WF_vars(Advance(s))
    /\ \A k \in Keys : SF_vars(Retry(k))

FairSpec == Spec /\ Fairness

-----------------------------------------------------------------------------
(***************************************************************************)
(* Properties                                                              *)
(***************************************************************************)

TypeOK ==
    /\ kind \in [Keys -> Kinds]
    /\ provider \in InUse \cup {"mock"}
    /\ balance \in Nat
    /\ debits \in [Keys -> [Amounts -> Nat]]
    /\ credits \in [Keys -> [Rows -> Nat]]
    /\ bill \in [Keys -> Status]
    /\ price \in [Keys -> Amounts \cup {0}]
    /\ order \in [Keys -> Fate]
    /\ placed \in [Keys -> Nat]
    /\ unclear \in SUBSET Keys
    /\ job \in [Sessions -> Job \cup {NoJob}]
    /\ raced \in SUBSET Keys
    /\ died \in [Keys -> Nat]

\* However often and however closely together a key is sent, one order is
\* placed for it: the unique reference of the row that precedes the call
\* decides (service_transaction.py, services.py and developer.py).  And it is
\* placed only after the price of that row was taken.
OneOrderPerKey ==
    \A k \in Keys :
        /\ placed[k] <= 1
        /\ placed[k] = 1 => bill[k] # "none" /\ debits[k][price[k]] >= 1

\* Unless requests overlapped, a key is paid for once at each price, however
\* many requests died on it (the lookup of debit_wallet on the shared
\* reference).  It is paid for at two prices only if a request died on it: the
\* lookup compares the amount, so that a retry at another price finds no debit.
RetryPaysOnce ==
    \A k \in Keys \ raced :
        /\ \A a \in Amounts : debits[k][a] <= 1
        /\ died[k] = 0 =>
              \A a, b \in Amounts : debits[k][a] > 0 /\ debits[k][b] > 0 => a = b

Refunded(k) == credits[k]["auto"] + credits[k]["admin"] - credits[k]["reversal"]

\* Where no two sessions overlapped and nobody died, status and ledger agree
\* whenever nobody is at work: refunded once, or not at all.  A developer is
\* told "failed" of what was refunded, and of nothing else.
BooksMatchStatus ==
    \A k \in Keys \ raced :
        (died[k] = 0 /\ \A s \in Sessions : job[s] = NoJob) =>
            /\ Refunded(k) = IF bill[k] = "REFUNDED" THEN 1 ELSE 0
            /\ Told(k) = "failed" <=> Refunded(k) = 1

\* No handler of services.py gives money back for an order the provider still
\* works on or has delivered, as long as the provider answers with statuses
\* that the parsers know.  Any other answer, and an HTTP error, is refunded
\* whatever became of the order, and so is what the developer API is told is
\* pending.
RefundMeansRejected ==
    \A k \in Keys \ unclear :
        credits[k]["auto"] > 0 /\ kind[k] # "api" => order[k] \in {"none", "rejected"}

\* A purchase becomes a SUCCESS by delivery, or by an admin's word for it, as
\* long as the provider answers with statuses that the parsers know: VTpass's
\* code 000 makes a success of any other one.
SuccessNeedsDelivery ==
    \A k \in Keys \ unclear :
        bill'[k] = "SUCCESS" /\ bill[k] # "SUCCESS" =>
            order[k] = "delivered" \/ \E s \in Sessions : CommitDelivery(s)
SuccessIsDelivered == [][SuccessNeedsDelivery]_vars

\* A request that died between its debit and its row does not cost the client
\* the money: sent again, its key completes the purchase.  Only a balance that
\* no longer reaches the price, which is looked at before the debit is looked
\* for, keeps it from that.
DebitBecomesBill ==
    \A k \in Keys, a \in Amounts :
        debits[k][a] > 0 /\ bill[k] = "none" ~> bill[k] # "none" \/ balance < a
=============================================================================
