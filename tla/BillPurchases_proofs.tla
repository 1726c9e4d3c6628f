------------------------ MODULE BillPurchases_proofs ------------------------
(***************************************************************************)
(* BillInv is an inductive invariant of BillPurchases, OncePaid another on *)
(* top of it, and what they imply: a key is ordered once and paid for      *)
(* once, the ledger of an undisturbed key agrees with its status, and as   *)
(* long as the provider's answers are known ones nothing is refunded that  *)
(* it took, and SUCCESS means delivered.                                   *)
(***************************************************************************)
EXTENDS BillPurchases, TLAPS

Early == {"asked", "unpaid", "debited"}
Answering == {"querying", "tokens", "answered", "loaded"}
Late == {"placing", "credited"} \cup Answering
Corrections == {"failing", "delivering"}
Pcs == Early \cup Late \cup Corrections

WorksOn(s, k) == job[s] # NoJob /\ job[s].key = k

\* What a result says of the order, unless there was an answer without a known
\* status.
AnswerSound(s) ==
    LET j == job[s]
    IN  /\ j.call = "error" => j.key \in unclear
        /\ j.call = "result" /\ j.key \notin unclear =>
               /\ j.result.success => order[j.key] = "delivered"
               /\ ~j.result.success /\ j.result.status # "pending" =>
                      order[j.key] \in {"none", "rejected"}

\* What the place of a job says about the rows of its key.
JobSound(s) ==
    LET k == job[s].key
        pc == job[s].pc
    IN  /\ pc \notin Early => bill[k] # "none"
        /\ pc = "debited" => debits[k][job[s].amount] >= 1
        /\ pc \in Early \cup {"placing"} => job[s].call = "result"
        /\ pc = "placing" => placed[k] = 0
        /\ pc \in {"querying", "tokens"} => order[k] # "none" /\ provider = "clubkonnect"
        /\ pc \in {"placing"} \cup Answering => credits[k]["auto"] = 0
        /\ pc \in Answering => AnswerSound(s)

Sound == \A s \in Sessions : job[s] # NoJob => JobSound(s)

\* A row is inserted after its debit and before its order, and stays.
RowSound(k) ==
    /\ bill[k] = "none" => placed[k] = 0 /\ credits[k]["auto"] = 0
    /\ bill[k] # "none" => price[k] \in Amounts /\ debits[k][price[k]] >= 1
    /\ placed[k] <= 1
    /\ placed[k] = 0 => order[k] = "none"

Rowed == \A k \in Keys : RowSound(k)

\* The reference is unique: one session inserts the row, and asks the provider.
OneInserts ==
    \A s, t \in Sessions :
        (/\ job[s] # NoJob /\ job[s].pc \in Late
         /\ job[t] # NoJob /\ job[t].pc \in Late
         /\ job[s].key = job[t].key) => s = t

\* One session at a time, unless the key is known to have been raced for.
OneAtATime ==
    \A k \in Keys \ raced : \A s, t \in Sessions : WorksOn(s, k) /\ WorksOn(t, k) => s = t

\* A session that is about to pay has found no debit, and there is none.
UnpaidIsUnpaid ==
    \A s \in Sessions :
        job[s] # NoJob /\ job[s].key \notin raced /\ job[s].pc = "unpaid" =>
            debits[job[s].key][job[s].amount] = 0

\* A price is debited once from a key that was not raced for.
PricesPaidOnce == \A k \in Keys \ raced : \A a \in Amounts : debits[k][a] <= 1

Untouched(k) == \A r \in Rows : credits[k][r] = 0

\* The rows of a key nobody works on.
InOrder(k) ==
    /\ bill[k] # "FAILED"
    /\ bill[k] \in {"none", "PENDING"} => Untouched(k)
    /\ bill[k] = "SUCCESS" =>
          credits[k]["auto"] + credits[k]["admin"] = credits[k]["reversal"]
    /\ bill[k] = "REFUNDED" =>
          credits[k]["auto"] + credits[k]["admin"] = 1 /\ credits[k]["reversal"] = 0

\* The rows the one session on an undisturbed key finds.
JobInOrder(s) ==
    LET j == job[s]
        k == j.key
    IN  /\ j.pc \in Early => bill[k] = "none" /\ Untouched(k)
        /\ j.pc \in {"placing"} \cup Answering => bill[k] = "PENDING" /\ Untouched(k)
        /\ j.pc = "loaded" => j.seen = bill[k]
        /\ j.pc = "credited" => /\ credits[k]["auto"] = 1 /\ credits[k]["admin"] = 0
                                /\ credits[k]["reversal"] = 0
        /\ j.pc = "failing" => bill[k] = "PENDING" /\ Untouched(k) /\ j.pay
        /\ j.pc = "delivering" => /\ InOrder(k) /\ j.seen = bill[k]
                                  /\ j.pay = (bill[k] = "REFUNDED")

Undisturbed(k) == k \notin raced /\ died[k] = 0

Undisturbeds ==
    \A k \in Keys : Undisturbed(k) =>
        /\ (\A s \in Sessions : ~WorksOn(s, k)) => InOrder(k)
        /\ \A s \in Sessions : WorksOn(s, k) => JobInOrder(s)

\* What an undisturbed key was debited for, between requests and after its row
\* is there, and while a request is on its way to the row.
RowPaid(k) ==
    \A a \in Amounts : debits[k][a] > 0 => bill[k] # "none" /\ price[k] = a

JobPaid(s) ==
    LET k == job[s].key
        pc == job[s].pc
    IN  /\ pc \in {"asked", "unpaid"} => \A a \in Amounts : debits[k][a] = 0
        /\ pc = "debited" => \A a \in Amounts : debits[k][a] > 0 => a = job[s].amount
        /\ pc \notin Early => RowPaid(k)

OncePaid ==
    \A k \in Keys : Undisturbed(k) =>
        /\ (\A s \in Sessions : ~WorksOn(s, k)) => RowPaid(k)
        /\ \A s \in Sessions : WorksOn(s, k) => JobPaid(s)

BillInv ==
    /\ TypeOK
    /\ Sound
    /\ Rowed
    /\ OneInserts
    /\ RefundMeansRejected
    /\ OneAtATime
    /\ UnpaidIsUnpaid
    /\ PricesPaidOnce
    /\ Undisturbeds

-----------------------------------------------------------------------------
(***************************************************************************)
(* What the parsers make of the answers of a provider that does not lie.   *)
(***************************************************************************)
Orders == Fate \ {"none"}

LEMMA FateIs == Orders = {"open", "delivered", "rejected"}
BY DEF Orders, Fate

\* A ClubKonnect answer is read as a result.  If it has a known status it is
\* read as a success only of what was delivered, and as a failure only of what
\* was rejected.
LEMMA ClubKonnectIsTrue ==
    ASSUME NEW fate \in Orders, NEW a \in ClubKonnectTells(fate),
           NEW r, r = ClubKonnectParse(a)
    PROVE  /\ r \in ProviderResult
           /\ ClubKonnectKnows(a) =>
                  /\ r.success => fate = "delivered"
                  /\ ~r.success /\ r.status # "pending" => fate = "rejected"
                  /\ ~r.success /\ ~r.pending => fate = "rejected"
<1>1. /\ a.code \in ClubKonnectCodes /\ a.text \in {"pending", "success", "failed", "none"}
      /\ a.remark \in {"none", "pending"}
  BY DEF ClubKonnectTells, ClubKonnectAnswer, Words
<1>3. r \in ProviderResult
  BY DEF ClubKonnectParse, ProviderResult, Words
<1>4. CASE fate = "open"
  <2>1. a.code \in {"none", "both", "pending"} /\ a.text \in {"none", "pending"}
    BY <1>4 DEF ClubKonnectTells, CodesFor, WordFor
  <2>2. QED
    BY <1>1, <1>3, <2>1 DEF ClubKonnectParse, ClubKonnectKnows
<1>5. CASE fate = "delivered"
  <2>1. a.code \in {"none", "success"} /\ a.text \in {"none", "success"}
    BY <1>5 DEF ClubKonnectTells, CodesFor, WordFor
  <2>2. QED
    BY <1>1, <1>3, <1>5, <2>1 DEF ClubKonnectParse, ClubKonnectKnows
<1>6. CASE fate = "rejected"
  <2>1. a.code \in {"none", "failure"} /\ a.text \in {"none", "failed"}
    BY <1>6 DEF ClubKonnectTells, CodesFor, WordFor
  <2>2. QED
    BY <1>1, <1>3, <1>6, <2>1 DEF ClubKonnectParse, ClubKonnectKnows
<1>7. QED
  BY <1>4, <1>5, <1>6, FateIs

\* A VTpass answer is read as a result, and truly if it has a known status.
LEMMA VTpassIsTrue ==
    ASSUME NEW fate \in Orders, NEW a \in VTpassTells(fate), NEW r, r = VTpassParse(a)
    PROVE  /\ r \in ProviderResult
           /\ a.status # "none" =>
                  /\ r.success => fate = "delivered"
                  /\ ~r.success /\ r.status # "pending" => fate = "rejected"
<1>1. /\ a.status \in {"pending", "success", "failed", "none"} /\ a.says \in SUBSET Words
      /\ a.code000 \in BOOLEAN
  BY DEF VTpassTells, VTpassAnswer, Words
<1>2. r \in ProviderResult
  BY <1>1 DEF VTpassParse, ProviderResult, Words
<1>3. a.status # "none" => a.status = WordFor[fate]
  BY DEF VTpassTells
<1>4. /\ r.success <=> \/ a.status = "success"
                       \/ /\ a.code000 /\ a.status # "pending" /\ a.status # "failed"
                          /\ "failed" \notin a.says
      /\ r.status = a.status
  BY DEF VTpassParse
<1>5. QED
  BY <1>1, <1>2, <1>3, <1>4, FateIs DEF WordFor

LEMMA MockIsTrue ==
    ASSUME NEW fate, NEW r, r = MockResult(fate)
    PROVE  /\ r \in ProviderResult
           /\ r.success <=> fate = "delivered"
BY DEF MockResult, ProviderResult, Words

-----------------------------------------------------------------------------
(***************************************************************************)
(* Jobs.                                                                   *)
(***************************************************************************)

LEMMA JobFields ==
    ASSUME TypeOK, NEW s \in Sessions, job[s] # NoJob
    PROVE  /\ job[s] \in Job
           /\ job[s].key \in Keys /\ job[s].amount \in Amounts /\ job[s].pc \in Pcs
           /\ job[s].left \in 0..Queries /\ job[s].call \in Ends
           /\ job[s].result \in ProviderResult /\ job[s].seen \in Status
           /\ job[s].pay \in BOOLEAN
<1>1. job[s] \in Job
  BY DEF TypeOK
<1>2. QED
  BY <1>1 DEF Job, Pcs, Early, Late, Answering, Corrections

\* A job that begins.
LEMMA BeginFields ==
    ASSUME TypeOK, NEW s \in Sessions, NEW k \in Keys, NEW a \in Amounts, NEW pc \in Pcs,
           NEW pay \in BOOLEAN, Begin(s, k, a, pc, pay)
    PROVE  /\ job[s] = NoJob
           /\ job' \in [Sessions -> Job \cup {NoJob}]
           /\ \A t \in Sessions \ {s} : job'[t] = job[t]
           /\ job'[s] # NoJob /\ job'[s].key = k /\ job'[s].amount = a /\ job'[s].pc = pc
           /\ job'[s].call = "result" /\ job'[s].seen = bill[k] /\ job'[s].pay = pay
           /\ raced \subseteq raced' /\ raced' \in SUBSET Keys /\ raced' \ raced \subseteq {k}
           /\ k \notin raced' => \A t \in Sessions \ {s} : ~WorksOn(t, k)
           /\ died' = died
<1> DEFINE j == [key |-> k, amount |-> a, pc |-> pc, left |-> Queries, call |-> "result",
                 result |-> NoResult, seen |-> bill[k], pay |-> pay]
<1>1. job \in [Sessions -> Job \cup {NoJob}] /\ raced \in SUBSET Keys /\ bill[k] \in Status
  BY DEF TypeOK
<1>2. NoResult \in ProviderResult /\ Queries \in 0..Queries
  BY BoundsAreNat DEF NoResult, ProviderResult, Words
<1>3. j \in Job
  BY <1>1, <1>2 DEF Job, Ends, Pcs, Early, Late, Answering, Corrections
<1>4. job[s] = NoJob /\ job' = [job EXCEPT ![s] = j] /\ died' = died
  BY DEF Begin
<1>5. raced' = IF \E t \in Sessions : job[t] # NoJob /\ job[t].key = k
               THEN raced \cup {k} ELSE raced
  BY DEF Begin
<1>6. job'[s] = j /\ \A t \in Sessions \ {s} : job'[t] = job[t]
  BY <1>1, <1>4
<1>7. job' \in [Sessions -> Job \cup {NoJob}]
  BY <1>1, <1>3, <1>4
<1>8. k \notin raced' => \A t \in Sessions \ {s} : ~WorksOn(t, k)
  BY <1>5 DEF WorksOn
<1>9. raced \subseteq raced' /\ raced' \in SUBSET Keys /\ raced' \ raced \subseteq {k}
  BY <1>1, <1>5
<1>10. QED
  BY <1>3, <1>4, <1>6, <1>7, <1>8, <1>9, NoJobIsNoJob

\* What a step of a session does to the jobs: its own goes on or ends.
Continues(s) ==
    /\ job' \in [Sessions -> Job \cup {NoJob}]
    /\ \A t \in Sessions \ {s} : job'[t] = job[t]
    /\ job'[s] # NoJob =>
           /\ job'[s].key = job[s].key /\ job'[s].amount = job[s].amount
           /\ job'[s].pay = job[s].pay
    /\ raced' = raced /\ died' = died

LEMMA ReplaceFields ==
    ASSUME TypeOK, NEW s \in Sessions, job[s] # NoJob,
           NEW j \in Job, j.key = job[s].key, j.amount = job[s].amount, j.pay = job[s].pay,
           job' = [job EXCEPT ![s] = j], UNCHANGED <<raced, died>>
    PROVE  Continues(s) /\ job'[s] # NoJob /\ job'[s] = j
<1>1. job \in [Sessions -> Job \cup {NoJob}]
  BY DEF TypeOK
<1>2. job'[s] = j /\ \A t \in Sessions \ {s} : job'[t] = job[t]
  BY <1>1
<1>3. job' \in [Sessions -> Job \cup {NoJob}]
  BY <1>1
<1>4. QED
  BY <1>2, <1>3, NoJobIsNoJob DEF Continues

LEMMA GotoFields ==
    ASSUME TypeOK, NEW s \in Sessions, job[s] # NoJob, NEW pc \in Pcs, Goto(s, pc)
    PROVE  /\ Continues(s)
           /\ job'[s] # NoJob /\ job'[s].pc = pc
           /\ job'[s].call = job[s].call /\ job'[s].result = job[s].result
           /\ job'[s].seen = job[s].seen
<1> DEFINE j == [job[s] EXCEPT !.pc = pc]
<1>1. job[s] \in Job
  BY DEF TypeOK
<1>2. /\ j \in Job /\ j.key = job[s].key /\ j.amount = job[s].amount /\ j.pay = job[s].pay
      /\ j.pc = pc /\ j.call = job[s].call /\ j.result = job[s].result
      /\ j.seen = job[s].seen
  BY <1>1 DEF Job, Pcs, Early, Late, Answering, Corrections
<1>3. job' = [job EXCEPT ![s] = j] /\ UNCHANGED <<raced, died>>
  BY DEF Goto
<1>4. QED
  BY <1>2, <1>3, ReplaceFields

LEMMA EndFields ==
    ASSUME TypeOK, NEW s \in Sessions, End(s)
    PROVE  Continues(s) /\ job'[s] = NoJob
BY DEF TypeOK, End, Continues

LEMMA AnsweredFields ==
    ASSUME TypeOK, NEW s \in Sessions, job[s] # NoJob, NEW pc \in Pcs,
           NEW r \in ProviderResult, Answered(s, pc, r)
    PROVE  /\ Continues(s)
           /\ job'[s] # NoJob /\ job'[s].pc = pc /\ job'[s].result = r
           /\ job'[s].call = job[s].call /\ job'[s].seen = job[s].seen
<1> DEFINE j == [job[s] EXCEPT !.pc = pc, !.result = r]
<1>1. job[s] \in Job
  BY DEF TypeOK
<1>2. /\ j \in Job /\ j.key = job[s].key /\ j.amount = job[s].amount /\ j.pay = job[s].pay
      /\ j.pc = pc /\ j.call = job[s].call /\ j.result = r /\ j.seen = job[s].seen
  BY <1>1 DEF Job, Pcs, Early, Late, Answering, Corrections
<1>3. job' = [job EXCEPT ![s] = j] /\ UNCHANGED <<raced, died>>
  BY DEF Answered
<1>4. QED
  BY <1>2, <1>3, ReplaceFields

-----------------------------------------------------------------------------
(***************************************************************************)
(* The steps at the provider, by what they have in common.                 *)
(***************************************************************************)

\* What is known of the keys an answer was heard for.
Listens ==
    /\ unclear \subseteq unclear'
    /\ unclear' \in SUBSET Keys

\* An order is placed, or refused before it is placed.
Places(s) ==
    /\ At(s, "placing") /\ Continues(s)
    /\ job'[s] # NoJob /\ job'[s].pc \in Answering \ {"loaded"}
    /\ job'[s].pc \in {"querying", "tokens"} =>
           order'[job[s].key] # "none" /\ provider = "clubkonnect"
    /\ AnswerSound(s)'
    /\ \/ UNCHANGED <<order, placed>>
       \/ \E fate \in Orders : Order(job[s].key, fate)
    /\ Listens
    /\ UNCHANGED <<wallet, bills, world>>

\* An order is asked about.
Queried(s) ==
    /\ job[s] # NoJob /\ job[s].pc \in {"querying", "tokens"} /\ Continues(s)
    /\ job'[s] # NoJob /\ job'[s].pc \in {"querying", "tokens", "answered"}
    /\ AnswerSound(s)'
    /\ Listens
    /\ UNCHANGED <<wallet, bills, world, order, placed>>

\* An answer is heard.
LEMMA HearOf ==
    ASSUME TypeOK, NEW k \in Keys, NEW clear, Hear(k, clear)
    PROVE  Listens /\ (clear \/ k \in unclear')
BY DEF TypeOK, Hear, Listens

LEMMA HearNothing ==
    ASSUME TypeOK, UNCHANGED unclear
    PROVE  Listens
BY DEF TypeOK, Listens

LEMMA OrderOf ==
    ASSUME TypeOK, NEW k \in Keys, NEW fate \in Orders, Order(k, fate)
    PROVE  /\ order' \in [Keys -> Fate] /\ placed' \in [Keys -> Nat]
           /\ order'[k] = fate /\ placed'[k] = placed[k] + 1
           /\ \A l \in Keys \ {k} : order'[l] = order[l] /\ placed'[l] = placed[l]
BY DEF TypeOK, Order, Orders

LEMMA PlacingPlaces ==
    ASSUME TypeOK, Sound, Rowed, NEW s \in Sessions,
           \/ PlaceAtVTpass(s) \/ RefuseExam(s) \/ PlaceAtClubKonnect(s)
           \/ PlaceAtMock(s) \/ CallFails(s)
    PROVE  Places(s)
<1>1. At(s, "placing")
  BY DEF PlaceAtVTpass, RefuseExam, PlaceAtClubKonnect, PlaceAtMock, CallFails
<1>2. PICK k \in Keys : k = job[s].key
  BY <1>1, JobFields DEF At
<1>3. /\ job[s] # NoJob /\ job[s].call = "result" /\ placed[k] = 0 /\ order[k] = "none"
  BY <1>1, <1>2 DEF At, Sound, JobSound, Rowed, RowSound
<1>4. /\ "answered" \in Pcs /\ "querying" \in Pcs /\ "tokens" \in Pcs
      /\ {"answered", "querying", "tokens"} = Answering \ {"loaded"}
  BY DEF Pcs, Late, Answering
<1>5. CASE PlaceAtVTpass(s)
  <2>1. PICK fate \in Orders : \E a \in Answers("vtpass", fate) :
            Order(k, fate) /\ Hear(k, a.clear) /\ Answered(s, "answered", a.result)
    BY <1>2, <1>5 DEF PlaceAtVTpass, Orders
  <2>a. PICK b \in Answers("vtpass", fate) :
            Order(k, fate) /\ Hear(k, b.clear) /\ Answered(s, "answered", b.result)
    BY <2>1
  <2>b. PICK a \in VTpassTells(fate) :
            b = [result |-> VTpassParse(a), clear |-> a.status # "none"]
    BY DEF Answers
  <2> DEFINE r == VTpassParse(a)
  <2>2. Order(k, fate) /\ Hear(k, a.status # "none") /\ Answered(s, "answered", r)
    BY <2>a, <2>b
  <2>3. /\ r \in ProviderResult
        /\ a.status # "none" => /\ r.success => fate = "delivered"
                                /\ ~r.success /\ r.status # "pending" => fate = "rejected"
    BY VTpassIsTrue
  <2> HIDE DEF r
  <2>c. Listens /\ (a.status # "none" \/ k \in unclear')
    BY <1>2, <2>2, HearOf
  <2>4. /\ Continues(s) /\ job'[s] # NoJob /\ job'[s].pc = "answered"
        /\ job'[s].result = r /\ job'[s].call = "result"
    BY <1>3, <1>4, <2>2, <2>3, AnsweredFields
  <2>5. order'[k] = fate
    BY <2>2, OrderOf
  <2>6. UNCHANGED <<wallet, bills, world>>
    BY <1>5 DEF PlaceAtVTpass
  <2>7. AnswerSound(s)'
    BY <1>2, <2>3, <2>4, <2>5, <2>c DEF AnswerSound, Continues
  <2>8. QED
    BY <1>1, <1>2, <1>4, <2>2, <2>4, <2>6, <2>7, <2>c DEF Places
<1>6. CASE RefuseExam(s)
  <2>1. MockResult("rejected") \in ProviderResult /\ ~MockResult("rejected").success
    BY MockIsTrue
  <2>2. /\ Continues(s) /\ job'[s] # NoJob /\ job'[s].pc = "answered"
        /\ job'[s].result = MockResult("rejected") /\ job'[s].call = "result"
    BY <1>3, <1>4, <1>6, <2>1, AnsweredFields DEF RefuseExam
  <2>3. UNCHANGED <<wallet, bills, world, orders>> /\ order'[k] = "none"
    BY <1>3, <1>6 DEF RefuseExam, orders
  <2>4. AnswerSound(s)'
    BY <1>2, <2>1, <2>2, <2>3 DEF AnswerSound, Continues
  <2>a. UNCHANGED <<order, placed>> /\ Listens
    BY <2>3, HearNothing DEF orders
  <2>5. QED
    BY <1>1, <1>4, <2>2, <2>3, <2>4, <2>a DEF Places
<1>7. CASE PlaceAtClubKonnect(s)
  <2>1. PICK fate \in Orders : \E a \in Answers("clubkonnect", fate) :
            /\ Order(k, fate) /\ Hear(k, a.clear)
            /\ Answered(s, IF a.result.pending THEN "querying"
                           ELSE IF kind[k] = "electricity" THEN "tokens"
                           ELSE "answered", a.result)
    BY <1>2, <1>7 DEF PlaceAtClubKonnect, Orders
  <2>2. PICK b \in Answers("clubkonnect", fate), pc \in {"answered", "querying", "tokens"} :
            Order(k, fate) /\ Hear(k, b.clear) /\ Answered(s, pc, b.result)
    BY <2>1
  <2>a. PICK a \in ClubKonnectTells(fate) :
            b = [result |-> ClubKonnectParse(a), clear |-> ClubKonnectKnows(a)]
    BY DEF Answers
  <2> DEFINE r == ClubKonnectParse(a)
  <2>3. /\ r \in ProviderResult
        /\ ClubKonnectKnows(a) =>
               /\ r.success => fate = "delivered"
               /\ ~r.success /\ r.status # "pending" => fate = "rejected"
    BY ClubKonnectIsTrue
  <2>4. Answered(s, pc, r) /\ Order(k, fate) /\ Hear(k, ClubKonnectKnows(a))
    BY <2>2, <2>a
  <2> HIDE DEF r
  <2>b. Listens /\ (ClubKonnectKnows(a) \/ k \in unclear')
    BY <1>2, <2>4, HearOf
  <2>5. /\ Continues(s) /\ job'[s] # NoJob /\ job'[s].pc = pc
        /\ job'[s].result = r /\ job'[s].call = "result"
    BY <1>3, <1>4, <2>3, <2>4, AnsweredFields
  <2>6. order'[k] = fate /\ order'[k] # "none"
    BY <2>4, OrderOf, FateIs
  <2>7. provider = "clubkonnect" /\ UNCHANGED <<wallet, bills, world>>
    BY <1>7 DEF PlaceAtClubKonnect
  <2>8. AnswerSound(s)'
    BY <1>2, <2>3, <2>5, <2>6, <2>b DEF AnswerSound, Continues
  <2>9. QED
    BY <1>1, <1>2, <1>4, <2>4, <2>5, <2>6, <2>7, <2>8, <2>b DEF Places
<1>8. CASE PlaceAtMock(s)
  <2>1. PICK fate \in {"delivered", "rejected"} :
            Order(k, fate) /\ Answered(s, "answered", MockResult(fate))
    BY <1>2, <1>8 DEF PlaceAtMock
  <2>2. fate \in Orders
    BY FateIs
  <2>3. MockResult(fate) \in ProviderResult /\ (MockResult(fate).success <=> fate = "delivered")
    BY MockIsTrue
  <2>4. /\ Continues(s) /\ job'[s] # NoJob /\ job'[s].pc = "answered"
        /\ job'[s].result = MockResult(fate) /\ job'[s].call = "result"
    BY <1>3, <1>4, <2>1, <2>3, AnsweredFields
  <2>5. order'[k] = fate
    BY <2>1, <2>2, OrderOf
  <2>6. UNCHANGED <<wallet, bills, world>> /\ Listens
    BY <1>8, HearNothing DEF PlaceAtMock
  <2>7. AnswerSound(s)'
    BY <1>2, <2>3, <2>4, <2>5 DEF AnswerSound, Continues
  <2>8. QED
    BY <1>1, <1>2, <1>4, <2>1, <2>2, <2>4, <2>6, <2>7 DEF Places
<1>9. CASE CallFails(s)
  <2>1. PICK end \in {"transport", "error"} :
            /\ job' = [job EXCEPT ![s].pc = "answered", ![s].call = end]
            /\ Hear(k, end # "error")
    BY <1>2, <1>9 DEF CallFails
  <2>a. UNCHANGED <<order, placed>> \/ \E fate \in Orders : Order(k, fate)
    BY <1>2, <1>9 DEF CallFails, Orders
  <2>2. /\ Continues(s) /\ job'[s] # NoJob /\ job'[s].pc = "answered" /\ job'[s].call = end
    <3> DEFINE j == [job[s] EXCEPT !.pc = "answered", !.call = end]
    <3>1. job[s] \in Job
      BY <1>3 DEF TypeOK
    <3>2. /\ j \in Job /\ j.key = job[s].key /\ j.amount = job[s].amount
          /\ j.pay = job[s].pay /\ j.pc = "answered" /\ j.call = end
      BY <3>1 DEF Job, Ends
    <3>3. job' = [job EXCEPT ![s] = j] /\ UNCHANGED <<raced, died>>
      BY <1>9, <2>1 DEF CallFails
    <3>4. QED
      BY <1>3, <3>2, <3>3, ReplaceFields
  <2>3. UNCHANGED <<wallet, bills, world>>
    BY <1>9 DEF CallFails
  <2>4. Listens /\ (end # "error" \/ k \in unclear')
    BY <1>2, <2>1, HearOf
  <2>5. AnswerSound(s)'
    BY <1>2, <2>1, <2>2, <2>4 DEF AnswerSound, Continues
  <2>6. QED
    BY <1>1, <1>2, <1>4, <2>a, <2>2, <2>3, <2>4, <2>5 DEF Places
<1>10. QED
  BY <1>5, <1>6, <1>7, <1>8, <1>9

\* What a query may replace the result by.
Fits(s, r) ==
    \/ job[s].key \in unclear'
    \/ r = job[s].result
    \/ /\ r.success => order[job[s].key] = "delivered"
       /\ ~r.success => order[job[s].key] = "rejected"

\* The answers of ClubKonnect to a query that the handlers heed.
LEMMA HeededFits ==
    ASSUME TypeOK, NEW s, job[s].key \in Keys, order[job[s].key] \in Orders,
           NEW a \in Answers("clubkonnect", order[job[s].key]),
           Hear(job[s].key, a.clear),
           a.result.status # "pending" \/ (~a.result.success /\ ~a.result.pending)
    PROVE  a.result \in ProviderResult /\ Fits(s, a.result) /\ Listens
<1>1. PICK b \in ClubKonnectTells(order[job[s].key]) :
          a = [result |-> ClubKonnectParse(b), clear |-> ClubKonnectKnows(b)]
  BY DEF Answers
<1>2. Listens /\ (ClubKonnectKnows(b) \/ job[s].key \in unclear')
  BY <1>1, HearOf
<1> DEFINE r == ClubKonnectParse(b)
<1>3. a.result = r
  BY <1>1
<1>4. /\ r \in ProviderResult
      /\ ClubKonnectKnows(b) =>
             /\ r.success => order[job[s].key] = "delivered"
             /\ ~r.success /\ r.status # "pending" => order[job[s].key] = "rejected"
             /\ ~r.success /\ ~r.pending => order[job[s].key] = "rejected"
  BY ClubKonnectIsTrue
<1> HIDE DEF r
<1>5. QED
  BY <1>2, <1>3, <1>4 DEF Fits

LEMMA FittingIsQueried ==
    ASSUME TypeOK, Sound, NEW s \in Sessions, At(s, "querying") \/ At(s, "tokens"),
           NEW pc \in {"querying", "tokens", "answered"}, NEW left \in 0..Queries,
           NEW r \in ProviderResult, Fits(s, r), Listens,
           job' = [job EXCEPT ![s] = [job[s] EXCEPT !.pc = pc, !.result = r, !.left = left]],
           UNCHANGED <<raced, died, wallet, bills, world, order, placed>>
    PROVE  Queried(s)
<1> DEFINE j == [job[s] EXCEPT !.pc = pc, !.result = r, !.left = left]
<1>1. /\ job[s] # NoJob /\ job[s].pc \in {"querying", "tokens"} /\ job[s] \in Job
      /\ job[s].key \in Keys /\ AnswerSound(s)
  BY JobFields DEF At, Sound, JobSound, Answering
<1>2. /\ j \in Job /\ j.key = job[s].key /\ j.amount = job[s].amount /\ j.pay = job[s].pay
      /\ j.call = job[s].call /\ j.pc = pc /\ j.result = r
  BY <1>1 DEF Job
<1>3. job' = [job EXCEPT ![s] = j]
  OBVIOUS
<1> HIDE DEF j
<1>4. Continues(s) /\ job'[s] # NoJob /\ job'[s] = j
  BY <1>1, <1>2, <1>3, ReplaceFields
<1>5. order' = order
  OBVIOUS
<1>6. AnswerSound(s)'
  BY <1>1, <1>2, <1>4, <1>5 DEF AnswerSound, Fits, Listens
<1>7. QED
  BY <1>1, <1>2, <1>4, <1>6 DEF Queried

LEMMA AskingAsks ==
    ASSUME TypeOK, Sound, NEW s \in Sessions, QueryStatus(s) \/ QueryToken(s)
    PROVE  Queried(s)
<1>1. /\ At(s, "querying") \/ At(s, "tokens")
      /\ UNCHANGED <<raced, died, wallet, bills, world, order, placed>>
  BY DEF QueryStatus, QueryToken
<1>2. job[s] # NoJob /\ job[s].pc \in {"querying", "tokens"}
  BY <1>1 DEF At
<1>3. /\ job[s] \in Job /\ job[s].left \in 0..Queries /\ Queries \in Nat
      /\ job[s].result \in ProviderResult /\ job[s].pc \in {"querying", "tokens", "answered"}
      /\ Queries \in 0..Queries
  BY <1>2, JobFields, BoundsAreNat
<1>4. order[job[s].key] \in Orders
  BY <1>2, JobFields DEF Sound, JobSound, Orders, TypeOK
<1>5. Fits(s, job[s].result)
  BY DEF Fits
<1>a. job[s].key \in Keys
  BY <1>2, JobFields
<1>6. CASE \E a \in Answers("clubkonnect", order[job[s].key]), next \in {"tokens", "answered"},
              left \in {job[s].left, Queries} :
              /\ a.result.status # "pending" \/ (~a.result.success /\ ~a.result.pending)
              /\ Hear(job[s].key, a.clear)
              /\ job' = [job EXCEPT ![s] = [job[s] EXCEPT !.pc = next, !.result = a.result,
                                                          !.left = left]]
  <2>1. PICK a \in Answers("clubkonnect", order[job[s].key]), next \in {"tokens", "answered"},
             left \in {job[s].left, Queries} :
              /\ a.result.status # "pending" \/ (~a.result.success /\ ~a.result.pending)
              /\ Hear(job[s].key, a.clear)
              /\ job' = [job EXCEPT ![s] = [job[s] EXCEPT !.pc = next, !.result = a.result,
                                                          !.left = left]]
    BY <1>6
  <2>2. a.result \in ProviderResult /\ Fits(s, a.result) /\ Listens
    BY <1>4, <1>a, <2>1, HeededFits
  <2> DEFINE r == a.result
  <2>3. r \in ProviderResult /\ Fits(s, r)
    BY <2>2
  <2>4. job' = [job EXCEPT ![s] = [job[s] EXCEPT !.pc = next, !.result = r, !.left = left]]
    BY <2>1
  <2>5. next \in {"querying", "tokens", "answered"} /\ left \in 0..Queries
    BY <1>3
  <2> HIDE DEF r
  <2>6. QED
    BY <1>1, <2>2, <2>3, <2>4, <2>5, FittingIsQueried
<1>7. CASE /\ job[s].left > 0 /\ UNCHANGED unclear
           /\ job' = [job EXCEPT ![s].left = @ - 1]
  <2>1. job[s].left - 1 \in 0..Queries /\ Listens
    BY <1>3, <1>7, HearNothing
  <2>2. [job[s] EXCEPT !.left = @ - 1]
          = [job[s] EXCEPT !.pc = job[s].pc, !.result = job[s].result, !.left = job[s].left - 1]
    BY <1>3 DEF Job
  <2>3. job' = [job EXCEPT ![s] = [job[s] EXCEPT !.left = @ - 1]]
    BY <1>7
  <2>4. QED
    BY <1>1, <1>3, <1>5, <2>1, <2>2, <2>3, FittingIsQueried
<1>8. CASE \E next \in {"tokens", "answered"}, left \in {job[s].left, Queries} :
              /\ UNCHANGED unclear
              /\ job' = [job EXCEPT ![s] = [job[s] EXCEPT !.pc = next, !.left = left]]
  <2>1. PICK next \in {"tokens", "answered"}, left \in {job[s].left, Queries} :
              job' = [job EXCEPT ![s] = [job[s] EXCEPT !.pc = next, !.left = left]]
    BY <1>8
  <2>2. [job[s] EXCEPT !.pc = next, !.left = left]
          = [job[s] EXCEPT !.pc = next, !.result = job[s].result, !.left = left]
    BY <1>3 DEF Job
  <2>a. Listens
    BY <1>8, HearNothing
  <2>3. QED
    BY <1>1, <1>3, <1>5, <2>1, <2>2, <2>a, FittingIsQueried
<1>9. CASE /\ order[job[s].key] = "delivered" /\ UNCHANGED unclear
           /\ job' = [job EXCEPT ![s] = [job[s] EXCEPT
                          !.pc = "answered", !.left = job[s].left,
                          !.result = [job[s].result EXCEPT !.success = TRUE,
                                          !.pending = FALSE, !.token = TRUE]]]
  <2> DEFINE r == [job[s].result EXCEPT !.success = TRUE, !.pending = FALSE, !.token = TRUE]
  <2>1. r \in ProviderResult /\ r.success = TRUE
    BY <1>3 DEF ProviderResult
  <2>2. Fits(s, r) /\ Listens
    BY <1>9, <2>1, HearNothing DEF Fits
  <2>3. job' = [job EXCEPT ![s] = [job[s] EXCEPT !.pc = "answered", !.result = r,
                                                 !.left = job[s].left]]
    BY <1>3, <1>9 DEF Job
  <2> HIDE DEF r
  <2>4. QED
    BY <1>1, <1>3, <2>1, <2>2, <2>3, FittingIsQueried
<1>10. CASE QueryStatus(s)
  <2> DEFINE next == IF kind[job[s].key] = "electricity" THEN "tokens" ELSE "answered"
  <2>1. next \in {"tokens", "answered"}
    OBVIOUS
  <2>2. \/ \E a \in Answers("clubkonnect", order[job[s].key]) :
               /\ a.result.status # "pending" /\ Hear(job[s].key, a.clear)
               /\ job' = [job EXCEPT ![s].pc = next, ![s].result = a.result,
                                     ![s].left = Queries]
        \/ /\ job[s].left > 0 /\ UNCHANGED unclear
           /\ job' = [job EXCEPT ![s].left = @ - 1]
        \/ /\ UNCHANGED unclear
           /\ job' = [job EXCEPT ![s].pc = next, ![s].left = Queries]
    BY <1>10 DEF QueryStatus
  <2> HIDE DEF next
  <2>3. CASE \E a \in Answers("clubkonnect", order[job[s].key]) :
               /\ a.result.status # "pending" /\ Hear(job[s].key, a.clear)
               /\ job' = [job EXCEPT ![s].pc = next, ![s].result = a.result,
                                     ![s].left = Queries]
    <3>1. PICK a \in Answers("clubkonnect", order[job[s].key]) :
               /\ a.result.status # "pending" /\ Hear(job[s].key, a.clear)
               /\ job' = [job EXCEPT ![s].pc = next, ![s].result = a.result,
                                     ![s].left = Queries]
      BY <2>3
    <3>2. job' = [job EXCEPT ![s] = [job[s] EXCEPT !.pc = next, !.result = a.result,
                                                   !.left = Queries]]
      BY <3>1
    <3>3. QED
      BY <1>6, <2>1, <3>1, <3>2
  <2>4. CASE UNCHANGED unclear /\ job' = [job EXCEPT ![s].pc = next, ![s].left = Queries]
    <3>1. job' = [job EXCEPT ![s] = [job[s] EXCEPT !.pc = next, !.left = Queries]]
      BY <2>4
    <3>2. QED
      BY <1>8, <2>1, <2>4, <3>1
  <2>5. QED
    BY <1>7, <2>2, <2>3, <2>4
<1>11. CASE QueryToken(s)
  <2>1. \/ \E a \in Answers("clubkonnect", order[job[s].key]) :
              /\ ~a.result.success /\ ~a.result.pending /\ Hear(job[s].key, a.clear)
              /\ job' = [job EXCEPT ![s].pc = "answered", ![s].result = a.result]
        \/ /\ order[job[s].key] = "delivered" /\ UNCHANGED unclear
           /\ job' = [job EXCEPT ![s].pc = "answered", ![s].result.success = TRUE,
                                 ![s].result.pending = FALSE, ![s].result.token = TRUE]
        \/ /\ job[s].left > 0 /\ UNCHANGED unclear
           /\ job' = [job EXCEPT ![s].left = @ - 1]
        \/ UNCHANGED unclear /\ job' = [job EXCEPT ![s].pc = "answered"]
    BY <1>11 DEF QueryToken
  <2>2. CASE \E a \in Answers("clubkonnect", order[job[s].key]) :
              /\ ~a.result.success /\ ~a.result.pending /\ Hear(job[s].key, a.clear)
              /\ job' = [job EXCEPT ![s].pc = "answered", ![s].result = a.result]
    <3>1. PICK a \in Answers("clubkonnect", order[job[s].key]) :
              /\ ~a.result.success /\ ~a.result.pending /\ Hear(job[s].key, a.clear)
              /\ job' = [job EXCEPT ![s].pc = "answered", ![s].result = a.result]
      BY <2>2
    <3>2. [job[s] EXCEPT !.pc = "answered", !.result = a.result]
            = [job[s] EXCEPT !.pc = "answered", !.result = a.result, !.left = job[s].left]
      BY <1>3 DEF Job
    <3>3. job' = [job EXCEPT ![s] = [job[s] EXCEPT !.pc = "answered", !.result = a.result,
                                                   !.left = job[s].left]]
      BY <3>1, <3>2
    <3>4. QED
      BY <1>6, <3>1, <3>3
  <2>3. CASE /\ order[job[s].key] = "delivered" /\ UNCHANGED unclear
             /\ job' = [job EXCEPT ![s].pc = "answered", ![s].result.success = TRUE,
                                   ![s].result.pending = FALSE, ![s].result.token = TRUE]
    <3>1. [job[s] EXCEPT !.pc = "answered", !.result.success = TRUE,
                         !.result.pending = FALSE, !.result.token = TRUE]
            = [job[s] EXCEPT !.pc = "answered", !.left = job[s].left,
                             !.result = [job[s].result EXCEPT !.success = TRUE,
                                             !.pending = FALSE, !.token = TRUE]]
      BY <1>3 DEF Job, ProviderResult
    <3>2. job' = [job EXCEPT ![s] =
                     [job[s] EXCEPT !.pc = "answered", !.result.success = TRUE,
                                    !.result.pending = FALSE, !.result.token = TRUE]]
      BY <2>3
    <3>3. QED
      BY <1>9, <2>3, <3>1, <3>2
  <2>4. CASE UNCHANGED unclear /\ job' = [job EXCEPT ![s].pc = "answered"]
    <3>1. [job[s] EXCEPT !.pc = "answered"]
            = [job[s] EXCEPT !.pc = "answered", !.left = job[s].left]
      BY <1>3 DEF Job
    <3>2. job' = [job EXCEPT ![s] = [job[s] EXCEPT !.pc = "answered", !.left = job[s].left]]
      BY <2>4, <3>1
    <3>3. QED
      BY <1>8, <2>4, <3>2
  <2>5. QED
    BY <1>7, <2>1, <2>2, <2>3, <2>4
<1>12. QED
  BY <1>10, <1>11

-----------------------------------------------------------------------------
(***************************************************************************)
(* The steps of a session, by what they have in common.                    *)
(***************************************************************************)

\* Another session's key is left alone.
Elsewhere(k) ==
    \A l \in Keys \ {k} :
        /\ bill'[l] = bill[l] /\ price'[l] = price[l]
        /\ debits'[l] = debits[l] /\ credits'[l] = credits[l]
        /\ order'[l] = order[l] /\ placed'[l] = placed[l]

\* What is true of a key of services.py whose purchase was refunded.
RefundSound(k) ==
    k \notin unclear /\ credits[k]["auto"] > 0 /\ kind[k] # "api" =>
        order[k] \in {"none", "rejected"}

\* What one step of a session does to the rows of its key k, and what it
\* finds there afterwards.
Writes(s, k) ==
    /\ Elsewhere(k)
    /\ bill[k] # "none" => bill'[k] # "none"
    /\ \/ debits'[k] = debits[k]
       \/ /\ job[s].pc = "unpaid"
          /\ debits'[k][job[s].amount] = debits[k][job[s].amount] + 1
          /\ \A a \in Amounts \ {job[s].amount} : debits'[k][a] = debits[k][a]
    /\ job[s].pc \notin Late => /\ order'[k] = order[k] /\ placed'[k] = placed[k]
                                /\ credits'[k]["auto"] = credits[k]["auto"]
    /\ bill'[k] = "SUCCESS" /\ bill[k] # "SUCCESS" =>
          order[k] = "delivered" \/ k \in unclear \/ CommitDelivery(s)
    /\ unclear \subseteq unclear'
    /\ RowSound(k)' /\ RefundSound(k)'

Proceeds(s, k) ==
    /\ TypeOK' /\ Continues(s) /\ job[s] # NoJob /\ job[s].key = k
    /\ UNCHANGED world
    /\ Writes(s, k)
    /\ job'[s] # NoJob =>
          /\ JobSound(s)'
          /\ job'[s].pc \in Late => job[s].pc \in Late \/ bill[k] = "none"
          /\ job'[s].pc = "unpaid" => debits'[k][job[s].amount] = 0
    /\ JobInOrder(s) =>
          IF job'[s] = NoJob THEN InOrder(k)' ELSE JobInOrder(s)'

\* What is known of a session about to take a step.
LEMMA AtWork ==
    ASSUME TypeOK, Sound, Rowed, RefundMeansRejected, NEW s \in Sessions, job[s] # NoJob,
           NEW k \in Keys, job[s].key = k
    PROVE  /\ job[s].amount \in Amounts /\ job[s].amount \in Nat
           /\ job[s].pc \in Pcs /\ job[s].result \in ProviderResult /\ job[s].call \in Ends
           /\ job[s].pay \in BOOLEAN /\ job[s].seen \in Status
           /\ JobSound(s) /\ RowSound(k) /\ RefundSound(k)
           /\ price[k] \in Nat /\ credits[k] \in [Rows -> Nat]
           /\ debits[k] \in [Amounts -> Nat]
           /\ bill[k] \in Status /\ placed[k] \in Nat /\ order[k] \in Fate
<1>1. /\ job[s].amount \in Amounts /\ job[s].pc \in Pcs /\ job[s].result \in ProviderResult
      /\ job[s].call \in Ends /\ job[s].pay \in BOOLEAN /\ job[s].seen \in Status
  BY JobFields
<1>2. job[s].amount \in Nat
  BY <1>1, AmountsArePositive
<1>3. JobSound(s) /\ RowSound(k) /\ RefundSound(k)
  BY DEF Sound, Rowed, RefundMeansRejected, RefundSound
<1>4. price[k] \in Nat
  <2>1. price[k] \in Amounts \/ price[k] = 0
    BY DEF TypeOK
  <2>2. \A a \in Amounts : a \in Nat
    BY AmountsArePositive
  <2>3. QED
    BY <2>1, <2>2
<1>5. /\ credits[k] \in [Rows -> Nat] /\ debits[k] \in [Amounts -> Nat]
      /\ bill[k] \in Status /\ placed[k] \in Nat /\ order[k] \in Fate
  BY DEF TypeOK
<1>6. QED
  BY <1>1, <1>2, <1>3, <1>4, <1>5

\* The rest of a step that leaves the rows alone, and at most hears an answer.
LEMMA OnlyHeard ==
    ASSUME TypeOK, Sound, Rowed, RefundMeansRejected, NEW s \in Sessions, job[s] # NoJob,
           NEW k \in Keys, job[s].key = k,
           Continues(s), Listens, UNCHANGED <<wallet, bills, world, order, placed>>
    PROVE  TypeOK' /\ UNCHANGED world /\ Writes(s, k)
<1>1. TypeOK'
  BY DEF TypeOK, Continues, Listens, wallet, bills, world
<1>2. RowSound(k) /\ RefundSound(k)
  BY AtWork
<1>a. /\ UNCHANGED <<balance, debits, credits, bill, price, kind, provider, order, placed>>
      /\ unclear \subseteq unclear'
  BY DEF wallet, bills, world, Listens
<1>3. RowSound(k)' /\ RefundSound(k)'
  BY <1>2, <1>a DEF RowSound, RefundSound
<1>4. QED
  BY <1>1, <1>3, <1>a DEF Writes, Elsewhere

\* The rest of a step that leaves the rows alone.
LEMMA NothingWritten ==
    ASSUME TypeOK, Sound, Rowed, RefundMeansRejected, NEW s \in Sessions, job[s] # NoJob,
           NEW k \in Keys, job[s].key = k,
           Continues(s), UNCHANGED <<wallet, bills, world, orders>>
    PROVE  TypeOK' /\ UNCHANGED world /\ Writes(s, k)
<1>1. Listens /\ UNCHANGED <<wallet, bills, world, order, placed>>
  BY HearNothing DEF orders
<1>2. QED
  BY <1>1, OnlyHeard

\* The status of a row is written.
LEMMA BillWritten ==
    ASSUME TypeOK, NEW k \in Keys, NEW v \in Status, bill' = [bill EXCEPT ![k] = v]
    PROVE  /\ bill' \in [Keys -> Status] /\ bill'[k] = v
           /\ \A l \in Keys \ {k} : bill'[l] = bill[l]
BY DEF TypeOK

\* A row of the ledger is written.
LEMMA CreditWritten ==
    ASSUME TypeOK, NEW k \in Keys, NEW r \in Rows, NEW n \in Nat,
           credits' = [credits EXCEPT ![k][r] = n]
    PROVE  /\ credits' \in [Keys -> [Rows -> Nat]] /\ credits'[k][r] = n
           /\ \A l \in Keys \ {k} : credits'[l] = credits[l]
           /\ \A q \in Rows \ {r} : credits'[k][q] = credits[k][q]
BY DEF TypeOK

LEMMA LookUpDebitProceeds ==
    ASSUME TypeOK, Sound, Rowed, RefundMeansRejected, NEW s \in Sessions, NEW k \in Keys, job[s].key = k, LookUpDebit(s)
    PROVE  Proceeds(s, k)
<1> DEFINE pc == IF debits[k][job[s].amount] = 0 THEN "unpaid" ELSE "debited"
<1>1. /\ job[s] # NoJob /\ job[s].pc = "asked" /\ Goto(s, pc)
      /\ UNCHANGED <<wallet, bills, world, orders>>
  BY DEF LookUpDebit, At
<1>2. pc \in Pcs
  BY DEF Pcs, Early
<1>3. /\ Continues(s) /\ job'[s] # NoJob /\ job'[s].pc = pc /\ job'[s].call = job[s].call
  BY <1>1, <1>2, GotoFields
<1>4. /\ JobSound(s) /\ k \in Keys /\ job[s].amount \in Amounts
      /\ debits[k] \in [Amounts -> Nat]
  BY <1>1, AtWork
<1>5. UNCHANGED <<balance, debits, credits, bill, price, kind, provider, order, placed, unclear>>
  BY <1>1 DEF wallet, bills, world, orders
<1>6. job'[s].key = k /\ job'[s].amount = job[s].amount
  BY <1>3 DEF Continues
<1>7. JobSound(s)'
  <2>1. pc = "debited" => debits[k][job[s].amount] >= 1
    BY <1>4
  <2>2. QED
    BY <1>1, <1>3, <1>4, <1>5, <1>6, <2>1 DEF JobSound, Early, Answering
<1>8. JobInOrder(s) => JobInOrder(s)'
  BY <1>1, <1>3, <1>5, <1>6 DEF JobInOrder, Early, Answering, Untouched
<1>9. TypeOK' /\ UNCHANGED world /\ Writes(s, k)
  BY <1>1, <1>3, NothingWritten
<1>10. pc \notin Late
  BY DEF Late, Answering
<1>11. pc = "unpaid" => debits'[k][job[s].amount] = 0
  BY <1>5
<1>12. QED
  BY <1>1, <1>3, <1>7, <1>8, <1>9, <1>10, <1>11 DEF Proceeds

LEMMA PayDebitProceeds ==
    ASSUME TypeOK, Sound, Rowed, RefundMeansRejected, NEW s \in Sessions, NEW k \in Keys, job[s].key = k, PayDebit(s)
    PROVE  Proceeds(s, k)
<1> DEFINE a == job[s].amount
<1>1. /\ job[s] # NoJob /\ job[s].pc = "unpaid"
      /\ UNCHANGED <<credits, bill, price, kind, provider, order, placed, unclear>>
      /\ UNCHANGED <<bills, world, orders>>
  BY DEF PayDebit, At, bills, world, orders
<1>2. /\ JobSound(s) /\ RowSound(k) /\ RefundSound(k) /\ k \in Keys /\ a \in Amounts /\ a \in Nat
      /\ debits[k] \in [Amounts -> Nat] /\ price[k] \in Nat
  BY <1>1, AtWork
<1>3. CASE balance >= a
  <2>1. /\ balance' = balance - a /\ debits' = [debits EXCEPT ![k][a] = @ + 1]
        /\ Goto(s, "debited")
    BY <1>3 DEF PayDebit
  <2>2. "debited" \in Pcs /\ "debited" \notin Late
    BY DEF Pcs, Early, Late, Answering
  <2>3. /\ Continues(s) /\ job'[s] # NoJob /\ job'[s].pc = "debited"
        /\ job'[s].call = job[s].call
    BY <1>1, <2>1, <2>2, GotoFields
  <2>4. job'[s].key = k /\ job'[s].amount = a
    BY <2>3 DEF Continues
  <2>5. /\ debits' \in [Keys -> [Amounts -> Nat]] /\ debits'[k][a] = debits[k][a] + 1
        /\ \A b \in Amounts \ {a} : debits'[k][b] = debits[k][b]
        /\ \A l \in Keys \ {k} : debits'[l] = debits[l]
    BY <1>2, <2>1 DEF TypeOK
  <2>6. TypeOK'
    <3>1. balance' \in Nat
      BY <1>2, <1>3, <2>1 DEF TypeOK
    <3>2. QED
      BY <1>1, <2>3, <2>5, <3>1 DEF TypeOK, Continues
  <2>7. RowSound(k)' /\ RefundSound(k)'
    <3>1. bill[k] # "none" => price[k] \in Amounts /\ debits[k][price[k]] >= 1
      BY <1>2 DEF RowSound
    <3>2. bill[k] # "none" => debits'[k][price[k]] >= 1
      BY <1>2, <2>5, <3>1
    <3>3. QED
      BY <1>1, <1>2, <3>1, <3>2 DEF RowSound, RefundSound
  <2>8. JobSound(s)'
    <3>1. debits'[k][a] >= 1
      BY <1>2, <2>5
    <3>2. QED
      BY <1>1, <1>2, <2>3, <2>4, <3>1 DEF JobSound, Early, Answering
  <2>9. JobInOrder(s) => JobInOrder(s)'
    BY <1>1, <2>3, <2>4 DEF JobInOrder, Early, Answering, Untouched
  <2>10. Writes(s, k)
    BY <1>1, <2>5, <2>7 DEF Writes, Elsewhere
  <2>11. QED
    BY <1>1, <2>2, <2>3, <2>6, <2>8, <2>9, <2>10 DEF Proceeds
<1>4. CASE ~(balance >= a)
  <2>1. End(s) /\ UNCHANGED <<balance, debits>>
    BY <1>4 DEF PayDebit
  <2>2. Continues(s) /\ job'[s] = NoJob
    BY <2>1, EndFields
  <2>3. JobInOrder(s) => InOrder(k)'
    BY <1>1 DEF JobInOrder, InOrder, Early, Untouched
  <2>4. UNCHANGED <<wallet, bills, world, orders>>
    BY <1>1, <2>1 DEF wallet
  <2>5. TypeOK' /\ Writes(s, k)
    BY <1>1, <2>2, <2>4, NothingWritten
  <2>6. QED
    BY <1>1, <2>2, <2>3, <2>5 DEF Proceeds
<1>5. QED
  BY <1>3, <1>4

LEMMA InsertProceeds ==
    ASSUME TypeOK, Sound, Rowed, RefundMeansRejected, NEW s \in Sessions, NEW k \in Keys, job[s].key = k, Insert(s)
    PROVE  Proceeds(s, k)
<1>1. /\ job[s] # NoJob /\ job[s].pc = "debited"
      /\ UNCHANGED <<balance, debits, credits, kind, provider, order, placed, unclear>>
      /\ UNCHANGED <<wallet, world, orders>>
  BY DEF Insert, At, wallet, world, orders
<1>2. /\ JobSound(s) /\ RowSound(k) /\ RefundSound(k) /\ k \in Keys /\ job[s].amount \in Amounts
  BY <1>1, AtWork
<1>3. CASE bill[k] = "none"
  <2>1. /\ bill' = [bill EXCEPT ![k] = "PENDING"]
        /\ price' = [price EXCEPT ![k] = job[s].amount]
        /\ Goto(s, "placing")
    BY <1>3 DEF Insert
  <2>2. "placing" \in Pcs /\ "PENDING" \in Status
    BY DEF Pcs, Late, Status
  <2>3. /\ Continues(s) /\ job'[s] # NoJob /\ job'[s].pc = "placing"
        /\ job'[s].call = job[s].call
    BY <1>1, <2>1, <2>2, GotoFields
  <2>4. job'[s].key = k
    BY <2>3 DEF Continues
  <2>5. /\ bill' \in [Keys -> Status] /\ bill'[k] = "PENDING"
        /\ \A l \in Keys \ {k} : bill'[l] = bill[l]
    BY <1>2, <2>1, <2>2, BillWritten
  <2>6. /\ price' \in [Keys -> Amounts \cup {0}] /\ price'[k] = job[s].amount
        /\ \A l \in Keys \ {k} : price'[l] = price[l]
    BY <1>2, <2>1 DEF TypeOK
  <2>7. TypeOK'
    BY <1>1, <2>3, <2>5, <2>6 DEF TypeOK, Continues
  <2>8. placed[k] = 0 /\ credits[k]["auto"] = 0 /\ debits[k][job[s].amount] >= 1
    BY <1>1, <1>2, <1>3 DEF RowSound, JobSound
  <2>9. RowSound(k)' /\ RefundSound(k)'
    BY <1>1, <1>2, <2>5, <2>6, <2>8 DEF RowSound, RefundSound
  <2>10. JobSound(s)'
    BY <1>1, <1>2, <2>3, <2>4, <2>5, <2>8 DEF JobSound, Early, Answering
  <2>11. JobInOrder(s) => JobInOrder(s)'
    BY <1>1, <2>3, <2>4, <2>5 DEF JobInOrder, Early, Answering, Untouched
  <2>12. Writes(s, k)
    BY <1>1, <2>5, <2>6, <2>9 DEF Writes, Elsewhere
  <2>13. QED
    BY <1>1, <1>3, <2>3, <2>7, <2>10, <2>11, <2>12 DEF Proceeds
<1>4. CASE bill[k] # "none"
  <2>1. End(s) /\ UNCHANGED bills
    BY <1>4 DEF Insert
  <2>2. Continues(s) /\ job'[s] = NoJob
    BY <2>1, EndFields
  <2>3. ~JobInOrder(s)
    BY <1>1, <1>4 DEF JobInOrder, Early
  <2>4. TypeOK' /\ Writes(s, k)
    BY <1>1, <2>1, <2>2, NothingWritten
  <2>5. QED
    BY <1>1, <2>2, <2>3, <2>4 DEF Proceeds
<1>5. QED
  BY <1>3, <1>4

LEMMA PlacingProceeds ==
    ASSUME TypeOK, Sound, Rowed, RefundMeansRejected, NEW s \in Sessions,
           NEW k \in Keys, job[s].key = k, Places(s)
    PROVE  Proceeds(s, k)
<1>1. /\ job[s] # NoJob /\ job[s].pc = "placing" /\ Continues(s)
      /\ job'[s] # NoJob /\ job'[s].pc \in {"querying", "tokens", "answered"}
      /\ job'[s].pc \in {"querying", "tokens"} =>
             order'[k] # "none" /\ provider = "clubkonnect"
      /\ AnswerSound(s)'
      /\ UNCHANGED <<balance, debits, credits, bill, price, kind, provider>>
      /\ unclear \subseteq unclear' /\ unclear' \in SUBSET Keys
      /\ UNCHANGED world
  BY DEF Places, At, Listens, wallet, bills, world, Answering
<1>2. /\ JobSound(s) /\ RowSound(k) /\ RefundSound(k) /\ placed[k] = 0 /\ order[k] = "none"
      /\ bill[k] # "none" /\ credits[k]["auto"] = 0
  BY <1>1, AtWork DEF JobSound, RowSound, Early
<1>3. /\ order' \in [Keys -> Fate] /\ placed' \in [Keys -> Nat]
      /\ placed'[k] \in {0, 1} /\ (placed'[k] = 0 => order'[k] = "none")
      /\ \A l \in Keys \ {k} : order'[l] = order[l] /\ placed'[l] = placed[l]
  <2>1. CASE UNCHANGED <<order, placed>>
    BY <1>2, <2>1 DEF TypeOK
  <2>2. CASE \E fate \in Orders : Order(k, fate)
    BY <1>2, <2>2, OrderOf
  <2>3. QED
    BY <2>1, <2>2 DEF Places
<1>4. job'[s].key = k
  BY <1>1 DEF Continues
<1>5. TypeOK'
  BY <1>1, <1>3 DEF TypeOK, Continues
<1>6. RowSound(k)' /\ RefundSound(k)'
  BY <1>1, <1>2, <1>3 DEF RowSound, RefundSound
<1>7. JobSound(s)'
  BY <1>1, <1>2, <1>4 DEF JobSound, Early, Answering
<1>8. JobInOrder(s) => JobInOrder(s)'
  BY <1>1, <1>4 DEF JobInOrder, Early, Answering, Untouched
<1>9. Writes(s, k)
  BY <1>1, <1>3, <1>6 DEF Writes, Elsewhere, Late
<1>10. QED
  BY <1>1, <1>5, <1>7, <1>8, <1>9 DEF Proceeds, Late

LEMMA QueryingProceeds ==
    ASSUME TypeOK, Sound, Rowed, RefundMeansRejected, NEW s \in Sessions,
           NEW k \in Keys, job[s].key = k, Queried(s)
    PROVE  Proceeds(s, k)
<1>1. /\ job[s] # NoJob /\ job[s].pc \in {"querying", "tokens"} /\ Continues(s)
      /\ job'[s] # NoJob /\ job'[s].pc \in {"querying", "tokens", "answered"}
      /\ AnswerSound(s)' /\ Listens /\ UNCHANGED <<wallet, bills, world, order, placed>>
  BY DEF Queried
<1>2. /\ UNCHANGED <<balance, debits, credits, bill, price, kind, provider, order, placed>>
      /\ job'[s].key = k
  BY <1>1 DEF wallet, bills, world, Continues
<1>3. JobSound(s) /\ TypeOK' /\ UNCHANGED world /\ Writes(s, k)
  BY <1>1, AtWork, OnlyHeard
<1>4. JobSound(s)'
  BY <1>1, <1>2, <1>3 DEF JobSound, Early, Answering
<1>5. JobInOrder(s) => JobInOrder(s)'
  BY <1>1, <1>2 DEF JobInOrder, Early, Answering, Untouched
<1>6. QED
  BY <1>1, <1>3, <1>4, <1>5 DEF Proceeds, Late, Answering

LEMMA ReloadProceeds ==
    ASSUME TypeOK, Sound, Rowed, RefundMeansRejected, NEW s \in Sessions,
           NEW k \in Keys, job[s].key = k, Reload(s)
    PROVE  Proceeds(s, k)
<1> DEFINE j == [job[s] EXCEPT !.pc = "loaded", !.seen = bill[k]]
<1>1. /\ job[s] # NoJob /\ job[s].pc = "answered" /\ job' = [job EXCEPT ![s] = j]
      /\ UNCHANGED <<raced, died>> /\ UNCHANGED <<wallet, bills, world, orders>>
  BY DEF Reload, At
<1>2. job[s] \in Job /\ bill[k] \in Status /\ JobSound(s)
  BY <1>1, AtWork DEF TypeOK
<1>3. /\ j \in Job /\ j.key = k /\ j.amount = job[s].amount /\ j.pay = job[s].pay
      /\ j.pc = "loaded" /\ j.seen = bill[k] /\ j.call = job[s].call
      /\ j.result = job[s].result
  BY <1>2 DEF Job
<1> HIDE DEF j
<1>4. Continues(s) /\ job'[s] # NoJob /\ job'[s] = j
  BY <1>1, <1>3, ReplaceFields
<1>5. UNCHANGED <<balance, debits, credits, bill, price, kind, provider, order, placed, unclear>>
  BY <1>1 DEF wallet, bills, world, orders
<1>6. TypeOK' /\ Writes(s, k)
  BY <1>1, <1>4, NothingWritten
<1>7. JobSound(s)'
  <2>1. AnswerSound(s)'
    BY <1>1, <1>2, <1>3, <1>4, <1>5 DEF JobSound, AnswerSound, Answering
  <2>2. QED
    BY <1>1, <1>2, <1>3, <1>4, <1>5, <2>1 DEF JobSound, Early, Answering
<1>8. JobInOrder(s) => JobInOrder(s)'
  BY <1>1, <1>3, <1>4, <1>5 DEF JobInOrder, Early, Answering, Untouched
<1>9. QED
  BY <1>1, <1>3, <1>4, <1>6, <1>7, <1>8 DEF Proceeds, Late, Answering

\* PENDING or SUCCESS is written for an answer that says so.
LEMMA Settled ==
    ASSUME TypeOK, Sound, Rowed, RefundMeansRejected, NEW s \in Sessions,
           NEW k \in Keys, job[s].key = k, job[s] # NoJob, job[s].pc \in {"answered", "loaded"},
           End(s), NEW v \in {"PENDING", "SUCCESS"},
           bill' = [bill EXCEPT ![k] = v],
           v = "SUCCESS" => order[k] = "delivered" \/ k \in unclear,
           UNCHANGED <<wallet, price, world, orders>>
    PROVE  Proceeds(s, k)
<1>1. UNCHANGED <<balance, debits, credits, price, kind, provider, order, placed, unclear>>
  BY DEF wallet, world, orders
<1>2. Continues(s) /\ job'[s] = NoJob
  BY EndFields
<1>3. /\ JobSound(s) /\ RowSound(k) /\ RefundSound(k) /\ bill[k] # "none"
  BY AtWork DEF JobSound, Early
<1>4. /\ bill' \in [Keys -> Status] /\ bill'[k] = v
      /\ \A l \in Keys \ {k} : bill'[l] = bill[l]
  BY BillWritten DEF Status
<1>5. TypeOK'
  BY <1>1, <1>2, <1>4 DEF TypeOK, Continues
<1>6. RowSound(k)' /\ RefundSound(k)'
  BY <1>1, <1>3, <1>4 DEF RowSound, RefundSound
<1>7. JobInOrder(s) => InOrder(k)'
  BY <1>1, <1>4 DEF JobInOrder, InOrder, Answering, Untouched, Rows
<1>8. Writes(s, k)
  BY <1>1, <1>4, <1>6 DEF Writes, Elsewhere
<1>9. QED
  BY <1>1, <1>2, <1>5, <1>7, <1>8 DEF Proceeds

LEMMA SettleProceeds ==
    ASSUME TypeOK, Sound, Rowed, RefundMeansRejected, NEW s \in Sessions,
           NEW k \in Keys, job[s].key = k, Settle(s)
    PROVE  Proceeds(s, k)
<1> DEFINE v == Verdict(job[s])
<1>1. /\ job[s] # NoJob /\ job[s].pc = "loaded" /\ v \in {"PENDING", "SUCCESS"} /\ End(s)
      /\ bill' = [bill EXCEPT ![k] = IF job[s].seen # v THEN v ELSE bill[k]]
      /\ UNCHANGED <<wallet, price, world, orders>>
  BY DEF Settle, At
<1>2. JobSound(s) /\ bill[k] \in Status /\ RowSound(k) /\ RefundSound(k) /\ bill[k] # "none"
  BY <1>1, AtWork DEF JobSound, Early
<1>3. v = "SUCCESS" => order[k] = "delivered" \/ k \in unclear
  BY <1>1, <1>2 DEF JobSound, AnswerSound, Verdict, Answering
<1> HIDE DEF v
<1>4. CASE job[s].seen # v
  <2>1. bill' = [bill EXCEPT ![k] = v]
    BY <1>1, <1>4
  <2>2. QED
    BY <1>1, <1>3, <2>1, Settled
<1>5. CASE job[s].seen = v
  <2>1. bill' = bill
    BY <1>1, <1>5 DEF TypeOK
  <2>2. Continues(s) /\ job'[s] = NoJob
    BY <1>1, EndFields
  <2>3. UNCHANGED <<wallet, bills, world, orders>>
    BY <1>1, <2>1 DEF bills
  <2>4. TypeOK' /\ Writes(s, k)
    BY <1>1, <2>2, <2>3, NothingWritten
  <2>5. UNCHANGED credits
    BY <1>1 DEF wallet
  <2>6. JobInOrder(s) => InOrder(k)'
    BY <1>1, <2>1, <2>5 DEF JobInOrder, InOrder, Answering, Untouched
  <2>7. QED
    BY <1>1, <2>2, <2>4, <2>6 DEF Proceeds
<1>6. QED
  BY <1>4, <1>5

LEMMA SettleApiProceeds ==
    ASSUME TypeOK, Sound, Rowed, RefundMeansRejected, NEW s \in Sessions,
           NEW k \in Keys, job[s].key = k, SettleApi(s)
    PROVE  Proceeds(s, k)
<1> DEFINE v == ApiVerdict(job[s])
<1>1. /\ job[s] # NoJob /\ job[s].pc = "answered" /\ v \in {"PENDING", "SUCCESS"} /\ End(s)
      /\ bill' = [bill EXCEPT ![k] = v] /\ UNCHANGED <<wallet, price, world, orders>>
  BY DEF SettleApi, At
<1>2. JobSound(s)
  BY <1>1, AtWork
<1>3. v = "SUCCESS" => order[k] = "delivered" \/ k \in unclear
  BY <1>1, <1>2 DEF JobSound, AnswerSound, ApiVerdict, Answering
<1> HIDE DEF v
<1>4. QED
  BY <1>1, <1>3, Settled

\* The refund of the handlers, and what it finds.
LEMMA Credited ==
    ASSUME TypeOK, NEW k \in Keys, credits[k]["auto"] = 0, Credit(k, "auto")
    PROVE  /\ credits' \in [Keys -> [Rows -> Nat]] /\ credits'[k]["auto"] = 1
           /\ \A l \in Keys \ {k} : credits'[l] = credits[l]
           /\ \A r \in Rows \ {"auto"} : credits'[k][r] = credits[k][r]
           /\ balance' \in Nat
<1>1. /\ credits' = [credits EXCEPT ![k]["auto"] = 1] /\ balance' = balance + price[k]
  BY DEF Credit
<1>2. balance' \in Nat
  <2>1. price[k] \in Amounts \cup {0} /\ balance \in Nat
    BY DEF TypeOK
  <2>2. QED
    BY <1>1, <2>1, AmountsArePositive
<1>3. "auto" \in Rows /\ 1 \in Nat
  BY DEF Rows
<1>4. QED
  BY <1>1, <1>2, <1>3, CreditWritten

LEMMA RefundProceeds ==
    ASSUME TypeOK, Sound, Rowed, RefundMeansRejected, NEW s \in Sessions,
           NEW k \in Keys, job[s].key = k, Refund(s)
    PROVE  Proceeds(s, k)
<1>1. /\ job[s] # NoJob /\ job[s].pc = "loaded" /\ Verdict(job[s]) = "REFUNDED"
      /\ Credit(k, "auto") /\ Goto(s, "credited")
      /\ UNCHANGED <<debits, bill, price, kind, provider, order, placed, unclear>> /\ UNCHANGED world
  BY DEF Refund, At, bills, world, orders
<1>2. /\ JobSound(s) /\ RowSound(k) /\ RefundSound(k) /\ bill[k] # "none"
      /\ credits[k]["auto"] = 0 /\ AnswerSound(s) /\ job[s].call \in Ends
  BY <1>1, AtWork DEF JobSound, Answering, Early
<1>3. k \notin unclear => order[k] \in {"none", "rejected"}
  BY <1>1, <1>2 DEF AnswerSound, Verdict, Ends
<1>4. "credited" \in Pcs
  BY DEF Pcs, Late
<1>5. Continues(s) /\ job'[s] # NoJob /\ job'[s].pc = "credited"
  BY <1>1, <1>4, GotoFields
<1>6. /\ credits' \in [Keys -> [Rows -> Nat]] /\ credits'[k]["auto"] = 1
      /\ \A l \in Keys \ {k} : credits'[l] = credits[l]
      /\ \A r \in Rows \ {"auto"} : credits'[k][r] = credits[k][r]
      /\ balance' \in Nat
  BY <1>1, <1>2, Credited
<1>7. job'[s].key = k
  BY <1>5 DEF Continues
<1>8. TypeOK'
  BY <1>1, <1>5, <1>6 DEF TypeOK, Continues
<1>9. RowSound(k)' /\ RefundSound(k)'
  BY <1>1, <1>2, <1>3 DEF RowSound, RefundSound
<1>10. JobSound(s)'
  BY <1>1, <1>2, <1>5, <1>7 DEF JobSound, Early, Answering
<1>11. JobInOrder(s) => JobInOrder(s)'
  BY <1>1, <1>5, <1>6, <1>7 DEF JobInOrder, Early, Answering, Untouched, Rows
<1>12. Writes(s, k)
  BY <1>1, <1>6, <1>9 DEF Writes, Elsewhere, Late, Answering
<1>13. QED
  BY <1>1, <1>5, <1>8, <1>10, <1>11, <1>12 DEF Proceeds, Late, Answering

LEMMA RefundApiProceeds ==
    ASSUME TypeOK, Sound, Rowed, RefundMeansRejected, NEW s \in Sessions,
           NEW k \in Keys, job[s].key = k, RefundApi(s)
    PROVE  Proceeds(s, k)
<1>1. /\ job[s] # NoJob /\ job[s].pc = "answered" /\ kind[k] = "api"
      /\ Credit(k, "auto") /\ Goto(s, "credited") /\ bill' = [bill EXCEPT ![k] = "FAILED"]
      /\ UNCHANGED <<debits, price, kind, provider, order, placed, unclear>> /\ UNCHANGED world
  BY DEF RefundApi, At, world, orders
<1>2. /\ JobSound(s) /\ RowSound(k) /\ RefundSound(k) /\ bill[k] # "none"
      /\ credits[k]["auto"] = 0
  BY <1>1, AtWork DEF JobSound, Answering, Early
<1>3. "credited" \in Pcs /\ "FAILED" \in Status
  BY DEF Pcs, Late, Status
<1>4. Continues(s) /\ job'[s] # NoJob /\ job'[s].pc = "credited" /\ job'[s].call = job[s].call
  BY <1>1, <1>3, GotoFields
<1>5. /\ credits' \in [Keys -> [Rows -> Nat]] /\ credits'[k]["auto"] = 1
      /\ \A l \in Keys \ {k} : credits'[l] = credits[l]
      /\ \A r \in Rows \ {"auto"} : credits'[k][r] = credits[k][r]
      /\ balance' \in Nat
  BY <1>1, <1>2, Credited
<1>6. /\ bill' \in [Keys -> Status] /\ bill'[k] = "FAILED"
      /\ \A l \in Keys \ {k} : bill'[l] = bill[l]
  BY <1>1, <1>3, BillWritten
<1>7. job'[s].key = k
  BY <1>4 DEF Continues
<1>8. TypeOK'
  BY <1>1, <1>4, <1>5, <1>6 DEF TypeOK, Continues
<1>9. RowSound(k)' /\ RefundSound(k)'
  BY <1>1, <1>2, <1>6 DEF RowSound, RefundSound
<1>10. JobSound(s)'
  BY <1>1, <1>2, <1>4, <1>6, <1>7 DEF JobSound, Early, Answering
<1>11. JobInOrder(s) => JobInOrder(s)'
  BY <1>1, <1>4, <1>5, <1>7 DEF JobInOrder, Early, Answering, Untouched, Rows
<1>12. Writes(s, k)
  BY <1>1, <1>5, <1>6, <1>9 DEF Writes, Elsewhere, Late, Answering
<1>13. QED
  BY <1>1, <1>4, <1>8, <1>10, <1>11, <1>12 DEF Proceeds, Late, Answering

LEMMA MarkRefundedProceeds ==
    ASSUME TypeOK, Sound, Rowed, RefundMeansRejected, NEW s \in Sessions,
           NEW k \in Keys, job[s].key = k, MarkRefunded(s)
    PROVE  Proceeds(s, k)
<1>1. /\ job[s] # NoJob /\ job[s].pc = "credited" /\ End(s)
      /\ bill' = [bill EXCEPT ![k] = "REFUNDED"]
      /\ UNCHANGED <<balance, debits, credits, price, kind, provider, order, placed, unclear>>
      /\ UNCHANGED world
  BY DEF MarkRefunded, At, wallet, world, orders
<1>2. /\ JobSound(s) /\ RowSound(k) /\ RefundSound(k) /\ bill[k] # "none"
  BY <1>1, AtWork DEF JobSound, Early
<1>3. Continues(s) /\ job'[s] = NoJob
  BY <1>1, EndFields
<1>4. /\ bill' \in [Keys -> Status] /\ bill'[k] = "REFUNDED"
      /\ \A l \in Keys \ {k} : bill'[l] = bill[l]
  BY <1>1, BillWritten DEF Status
<1>5. TypeOK'
  BY <1>1, <1>3, <1>4 DEF TypeOK, Continues
<1>6. RowSound(k)' /\ RefundSound(k)'
  BY <1>1, <1>2, <1>4 DEF RowSound, RefundSound
<1>7. JobInOrder(s) => InOrder(k)'
  BY <1>1, <1>4 DEF JobInOrder, InOrder
<1>8. Writes(s, k)
  BY <1>1, <1>4, <1>6 DEF Writes, Elsewhere
<1>9. QED
  BY <1>1, <1>3, <1>5, <1>7, <1>8 DEF Proceeds

LEMMA CommitFailureProceeds ==
    ASSUME TypeOK, Sound, Rowed, RefundMeansRejected, NEW s \in Sessions,
           NEW k \in Keys, job[s].key = k, CommitFailure(s)
    PROVE  Proceeds(s, k)
<1>1. /\ job[s] # NoJob /\ job[s].pc = "failing" /\ End(s)
      /\ bill' = [bill EXCEPT ![k] = "REFUNDED"]
      /\ UNCHANGED <<debits, price, kind, provider, order, placed, unclear>> /\ UNCHANGED world
  BY DEF CommitFailure, At, world, orders
<1>2. /\ JobSound(s) /\ RowSound(k) /\ RefundSound(k) /\ bill[k] # "none"
      /\ price[k] \in Nat /\ credits[k] \in [Rows -> Nat]
  BY <1>1, AtWork DEF JobSound, Early
<1>3. Continues(s) /\ job'[s] = NoJob
  BY <1>1, EndFields
<1>4. /\ bill' \in [Keys -> Status] /\ bill'[k] = "REFUNDED"
      /\ \A l \in Keys \ {k} : bill'[l] = bill[l]
  BY <1>1, BillWritten DEF Status
<1>5. /\ credits' \in [Keys -> [Rows -> Nat]] /\ balance' \in Nat
      /\ \A l \in Keys \ {k} : credits'[l] = credits[l]
      /\ credits'[k]["auto"] = credits[k]["auto"]
      /\ credits'[k]["reversal"] = credits[k]["reversal"]
      /\ job[s].pay => credits'[k]["admin"] = credits[k]["admin"] + 1
  <2>1. "admin" \in Rows /\ "auto" \in Rows /\ "reversal" \in Rows /\ balance \in Nat
    BY DEF Rows, TypeOK
  <2>2. CASE job[s].pay
    <3>1. /\ credits' = [credits EXCEPT ![k]["admin"] = credits[k]["admin"] + 1]
          /\ balance' = balance + price[k]
      BY <2>2 DEF CommitFailure
    <3>2. credits[k]["admin"] \in Nat /\ credits[k]["admin"] + 1 \in Nat
      BY <1>2, <2>1
    <3> DEFINE n == credits[k]["admin"] + 1
    <3>a. credits' = [credits EXCEPT ![k]["admin"] = n] /\ n \in Nat
      BY <3>1, <3>2
    <3> HIDE DEF n
    <3>3. /\ credits' \in [Keys -> [Rows -> Nat]]
          /\ credits'[k]["admin"] = n
          /\ \A l \in Keys \ {k} : credits'[l] = credits[l]
          /\ \A q \in Rows \ {"admin"} : credits'[k][q] = credits[k][q]
      BY <2>1, <3>a DEF TypeOK
    <3>4. balance' \in Nat
      BY <1>2, <2>1, <3>1
    <3>5. QED
      BY <2>1, <3>3, <3>4 DEF n, Rows
  <2>3. CASE ~job[s].pay
    <3>1. UNCHANGED <<credits, balance>>
      BY <2>3 DEF CommitFailure
    <3>2. QED
      BY <2>3, <3>1 DEF TypeOK
  <2>4. QED
    BY <2>2, <2>3
<1>6. TypeOK'
  BY <1>1, <1>3, <1>4, <1>5 DEF TypeOK, Continues
<1>7. RowSound(k)' /\ RefundSound(k)'
  BY <1>1, <1>2, <1>4, <1>5 DEF RowSound, RefundSound
<1>8. JobInOrder(s) => InOrder(k)'
  BY <1>1, <1>4, <1>5 DEF JobInOrder, InOrder, Untouched, Rows
<1>9. Writes(s, k)
  BY <1>1, <1>4, <1>5, <1>7 DEF Writes, Elsewhere
<1>10. QED
  BY <1>1, <1>3, <1>6, <1>8, <1>9 DEF Proceeds

LEMMA CommitDeliveryProceeds ==
    ASSUME TypeOK, Sound, Rowed, RefundMeansRejected, NEW s \in Sessions,
           NEW k \in Keys, job[s].key = k, CommitDelivery(s)
    PROVE  Proceeds(s, k)
<1>1. /\ job[s] # NoJob /\ job[s].pc = "delivering" /\ End(s)
      /\ UNCHANGED <<debits, price, kind, provider, order, placed, unclear>> /\ UNCHANGED world
  BY DEF CommitDelivery, At, world, orders
<1>2. /\ JobSound(s) /\ RowSound(k) /\ RefundSound(k) /\ bill[k] # "none"
      /\ price[k] \in Nat /\ credits[k] \in [Rows -> Nat] /\ bill[k] \in Status
      /\ job[s].pay \in BOOLEAN
  BY <1>1, AtWork DEF JobSound, Early
<1>3. Continues(s) /\ job'[s] = NoJob
  BY <1>1, EndFields
<1>4. CASE job[s].pay /\ balance < price[k]
  <2>1. UNCHANGED <<credits, balance, bill>>
    BY <1>4 DEF CommitDelivery
  <2>2. UNCHANGED <<wallet, bills, world, orders>>
    BY <1>1, <2>1 DEF wallet, bills, orders
  <2>3. TypeOK' /\ Writes(s, k)
    BY <1>1, <1>3, <2>2, NothingWritten
  <2>4. JobInOrder(s) => InOrder(k)'
    BY <1>1, <2>1 DEF JobInOrder, InOrder, Untouched
  <2>5. QED
    BY <1>1, <1>3, <2>3, <2>4 DEF Proceeds
<1>5. CASE ~(job[s].pay /\ balance < price[k])
  <2> DEFINE v == IF job[s].seen # "SUCCESS" THEN "SUCCESS" ELSE bill[k]
  <2>1. /\ bill' = [bill EXCEPT ![k] = v]
        /\ IF job[s].pay
           THEN /\ credits' = [credits EXCEPT ![k]["reversal"] = credits[k]["reversal"] + 1]
                /\ balance' = balance - price[k]
           ELSE UNCHANGED <<credits, balance>>
    BY <1>5 DEF CommitDelivery
  <2>2. v \in Status /\ v # "none"
    BY <1>2 DEF Status
  <2>3. /\ bill' \in [Keys -> Status] /\ bill'[k] = v
        /\ \A l \in Keys \ {k} : bill'[l] = bill[l]
    BY <2>1, <2>2, BillWritten
  <2>4. "admin" \in Rows /\ "auto" \in Rows /\ "reversal" \in Rows /\ balance \in Nat
    BY DEF Rows, TypeOK
  <2>5. /\ credits' \in [Keys -> [Rows -> Nat]] /\ balance' \in Nat
        /\ \A l \in Keys \ {k} : credits'[l] = credits[l]
        /\ credits'[k]["auto"] = credits[k]["auto"]
        /\ credits'[k]["admin"] = credits[k]["admin"]
        /\ job[s].pay => credits'[k]["reversal"] = credits[k]["reversal"] + 1
        /\ ~job[s].pay => credits'[k] = credits[k]
    <3>1. CASE job[s].pay
      <4>1. credits[k]["reversal"] + 1 \in Nat
        BY <1>2, <2>4
      <4>2. /\ credits' \in [Keys -> [Rows -> Nat]]
            /\ credits'[k]["reversal"] = credits[k]["reversal"] + 1
            /\ \A l \in Keys \ {k} : credits'[l] = credits[l]
            /\ \A q \in Rows \ {"reversal"} : credits'[k][q] = credits[k][q]
        BY <2>1, <2>4, <3>1, <4>1, CreditWritten
      <4>3. balance' \in Nat
        BY <1>2, <1>5, <2>1, <2>4, <3>1
      <4>4. QED
        BY <2>4, <3>1, <4>2, <4>3
    <3>2. CASE ~job[s].pay
      BY <2>1, <3>2 DEF TypeOK
    <3>3. QED
      BY <3>1, <3>2
  <2>6. TypeOK'
    BY <1>1, <1>3, <2>3, <2>5 DEF TypeOK, Continues
  <2>7. RowSound(k)' /\ RefundSound(k)'
    BY <1>1, <1>2, <2>2, <2>3, <2>5 DEF RowSound, RefundSound
  <2>8. JobInOrder(s) => InOrder(k)'
    <3> SUFFICES ASSUME JobInOrder(s) PROVE InOrder(k)'
      OBVIOUS
    <3>1. InOrder(k) /\ job[s].seen = bill[k] /\ job[s].pay = (bill[k] = "REFUNDED")
      BY <1>1 DEF JobInOrder
    <3>2. bill'[k] = "SUCCESS"
      BY <2>3, <3>1
    <3>3. CASE bill[k] = "REFUNDED"
      <4>1. /\ credits[k]["auto"] + credits[k]["admin"] = 1 /\ credits[k]["reversal"] = 0
            /\ job[s].pay
        BY <3>1, <3>3 DEF InOrder
      <4>2. credits'[k]["auto"] + credits'[k]["admin"] = credits'[k]["reversal"]
        BY <1>2, <2>4, <2>5, <4>1
      <4>3. QED
        BY <3>2, <4>2 DEF InOrder
    <3>4. CASE bill[k] # "REFUNDED"
      <4>1. ~job[s].pay
        BY <3>1, <3>4
      <4>2. credits'[k] = credits[k] /\ bill[k] \in {"PENDING", "SUCCESS"}
        BY <1>2, <2>5, <3>1, <3>4, <4>1 DEF InOrder, Status
      <4>3. credits[k]["auto"] + credits[k]["admin"] = credits[k]["reversal"]
        BY <3>1, <4>2 DEF InOrder, Untouched, Rows
      <4>4. QED
        BY <3>2, <4>2, <4>3 DEF InOrder
    <3>5. QED
      BY <3>3, <3>4
  <2>9. Writes(s, k)
    BY <1>1, <2>2, <2>3, <2>5, <2>7 DEF Writes, Elsewhere
  <2>10. QED
    BY <1>1, <1>3, <2>6, <2>8, <2>9 DEF Proceeds
<1>6. QED
  BY <1>4, <1>5

\* Every handler's step is one of the above.
LEMMA AdvanceProceeds ==
    ASSUME TypeOK, Sound, Rowed, RefundMeansRejected, NEW s \in Sessions, Advance(s)
    PROVE  \E k \in Keys : Proceeds(s, k)
<1>1. \/ LookUpDebit(s) \/ PayDebit(s) \/ Insert(s)
      \/ PlaceAtVTpass(s) \/ RefuseExam(s) \/ PlaceAtClubKonnect(s) \/ PlaceAtMock(s)
      \/ CallFails(s) \/ QueryStatus(s) \/ QueryToken(s)
      \/ Reload(s) \/ Settle(s) \/ Refund(s) \/ SettleApi(s) \/ RefundApi(s)
      \/ MarkRefunded(s) \/ CommitFailure(s) \/ CommitDelivery(s)
  BY DEF Advance, PurchaseAirtimeOrCable, PurchaseElectricity, PurchaseExamPin,
         DeveloperBuyAirtime, OrderSteps, SettleSteps
<1>2. job[s] # NoJob
  BY <1>1 DEF At, LookUpDebit, PayDebit, Insert, PlaceAtVTpass, RefuseExam,
              PlaceAtClubKonnect, PlaceAtMock, CallFails, QueryStatus, QueryToken,
              Reload, Settle, Refund, SettleApi, RefundApi, MarkRefunded, CommitFailure,
              CommitDelivery
<1>3. PICK k \in Keys : job[s].key = k
  BY <1>2, JobFields
<1>4. CASE \/ PlaceAtVTpass(s) \/ RefuseExam(s) \/ PlaceAtClubKonnect(s) \/ PlaceAtMock(s)
           \/ CallFails(s)
  <2>1. Places(s)
    BY <1>4, PlacingPlaces
  <2>2. QED
    BY <1>3, <2>1, PlacingProceeds
<1>5. CASE QueryStatus(s) \/ QueryToken(s)
  <2>1. Queried(s)
    BY <1>5, AskingAsks
  <2>2. QED
    BY <1>3, <2>1, QueryingProceeds
<1>6. CASE LookUpDebit(s) \/ PayDebit(s) \/ Insert(s)
  BY <1>3, <1>6, LookUpDebitProceeds, PayDebitProceeds, InsertProceeds
<1>7. CASE Reload(s) \/ Settle(s) \/ Refund(s) \/ SettleApi(s) \/ RefundApi(s)
  BY <1>3, <1>7, ReloadProceeds, SettleProceeds, RefundProceeds, SettleApiProceeds,
     RefundApiProceeds
<1>8. CASE MarkRefunded(s) \/ CommitFailure(s) \/ CommitDelivery(s)
  BY <1>3, <1>8, MarkRefundedProceeds, CommitFailureProceeds, CommitDeliveryProceeds
<1>9. QED
  BY <1>1, <1>4, <1>5, <1>6, <1>7, <1>8

-----------------------------------------------------------------------------
(***************************************************************************)
(* BillInv is inductive.                                                   *)
(***************************************************************************)

\* A session notices nothing of another one's step.
LEMMA OthersStaySound ==
    ASSUME BillInv, NEW s \in Sessions, NEW k \in Keys, Proceeds(s, k),
           NEW t \in Sessions \ {s}, job[t] # NoJob
    PROVE  JobSound(t)'
<1>1. /\ job'[t] = job[t] /\ JobSound(t) /\ job[s] # NoJob /\ job[s].key = k
      /\ UNCHANGED world
  BY DEF Proceeds, Continues, BillInv, Sound
<1>2. PICK l \in Keys : job[t].key = l
  BY JobFields DEF BillInv
<1>3. PICK a \in Amounts : job[t].amount = a
  BY JobFields DEF BillInv
<1>4. /\ bill[l] # "none" => bill'[l] # "none"
      /\ debits'[l][a] >= debits[l][a] /\ debits[l][a] \in Nat /\ debits'[l][a] \in Nat
  <2>1. debits[l][a] \in Nat /\ debits'[l][a] \in Nat
    BY DEF Proceeds, BillInv, TypeOK
  <2>2. CASE l # k
    BY <2>1, <2>2 DEF Proceeds, Writes, Elsewhere
  <2>3. CASE l = k
    <3>1. debits'[k][a] = debits[k][a] \/ debits'[k][a] = debits[k][a] + 1
      BY DEF Proceeds, Writes
    <3>2. QED
      BY <2>1, <2>3, <3>1 DEF Proceeds, Writes
  <2>4. QED
    BY <2>2, <2>3
<1>5. job[t].pc \in Late =>
          /\ order'[l] = order[l] /\ placed'[l] = placed[l]
          /\ credits'[l]["auto"] = credits[l]["auto"]
  <2>1. CASE l # k
    BY <2>1 DEF Proceeds, Writes, Elsewhere
  <2>2. CASE l = k
    <3>1. job[t].pc \in Late => job[s].pc \notin Late
      BY <1>1, <1>2, <2>2 DEF BillInv, OneInserts
    <3>2. QED
      BY <2>2, <3>1 DEF Proceeds, Writes
  <2>3. QED
    BY <2>1, <2>2
<1>6. UNCHANGED <<kind, provider>>
  BY <1>1 DEF world
<1>7. job[t].pc \in Answering => AnswerSound(t)'
  <2> HAVE job[t].pc \in Answering
  <2>1. AnswerSound(t) /\ order'[l] = order[l]
    BY <1>1, <1>5 DEF JobSound, Late
  <2>2. QED
    BY <1>1, <1>2, <1>6, <2>1 DEF AnswerSound, Proceeds, Writes
<1>8. QED
  BY <1>1, <1>2, <1>3, <1>4, <1>5, <1>6, <1>7 DEF JobSound, Late, Answering

\* The rows of the keys a session does not work on.
LEMMA OtherRows ==
    ASSUME BillInv, NEW s \in Sessions, NEW k \in Keys, Proceeds(s, k),
           NEW l \in Keys \ {k}
    PROVE  /\ RowSound(l)' /\ RefundSound(l)' /\ debits'[l] = debits[l]
           /\ InOrder(l) => InOrder(l)'
           /\ \A t \in Sessions \ {s} :
                 WorksOn(t, l) /\ JobInOrder(t) => JobInOrder(t)'
<1>1. /\ bill'[l] = bill[l] /\ price'[l] = price[l] /\ debits'[l] = debits[l]
      /\ credits'[l] = credits[l] /\ order'[l] = order[l] /\ placed'[l] = placed[l]
      /\ kind' = kind /\ provider' = provider /\ unclear \subseteq unclear'
  BY DEF Proceeds, Writes, Elsewhere, world
<1>2. RowSound(l) /\ RefundSound(l)
  BY DEF BillInv, Rowed, RefundMeansRejected, RefundSound
<1>3. RowSound(l)' /\ RefundSound(l)'
  BY <1>1, <1>2 DEF RowSound, RefundSound
<1>4. InOrder(l) => InOrder(l)'
  BY <1>1 DEF InOrder, Untouched
<1>5. ASSUME NEW t \in Sessions \ {s}, WorksOn(t, l), JobInOrder(t)
      PROVE  JobInOrder(t)'
  <2>1. job'[t] = job[t] /\ job[t].key = l
    BY <1>5 DEF Proceeds, Continues, WorksOn
  <2>2. QED
    BY <1>1, <1>4, <1>5, <2>1 DEF JobInOrder, Untouched
<1>6. QED
  BY <1>1, <1>3, <1>4, <1>5

LEMMA ProceedingKeeps ==
    ASSUME BillInv, NEW s \in Sessions, NEW k \in Keys, Proceeds(s, k)
    PROVE  BillInv'
<1>1. /\ TypeOK /\ TypeOK' /\ Continues(s) /\ job[s] # NoJob /\ job[s].key = k
      /\ raced' = raced /\ died' = died
      /\ \A t \in Sessions \ {s} : job'[t] = job[t]
      /\ job'[s] # NoJob => job'[s].key = k /\ job'[s].amount = job[s].amount
      /\ UNCHANGED <<kind, provider>>
  BY DEF Proceeds, BillInv, Continues, world
<1>2. Sound'
  <2> SUFFICES ASSUME NEW t \in Sessions, job'[t] # NoJob PROVE JobSound(t)'
    BY DEF Sound
  <2>1. CASE t = s
    BY <2>1 DEF Proceeds
  <2>2. CASE t # s
    BY <1>1, <2>2, OthersStaySound
  <2>3. QED
    BY <2>1, <2>2
<1>3. Rowed' /\ RefundMeansRejected'
  <2>1. ASSUME NEW l \in Keys PROVE RowSound(l)' /\ RefundSound(l)'
    BY OtherRows DEF Proceeds, Writes
  <2>2. QED
    BY <2>1 DEF Rowed, RefundMeansRejected, RefundSound
<1>4. OneInserts'
  <2>1. ASSUME NEW t \in Sessions \ {s}, job'[t] # NoJob, job'[t].pc \in Late,
               job'[t].key = k, job'[s] # NoJob, job'[s].pc \in Late
        PROVE  FALSE
    <3>1. job[t] # NoJob /\ job[t].pc \in Late /\ job[t].key = k
      BY <1>1, <2>1
    <3>2. bill[k] # "none"
      <4>1. JobSound(t) /\ job[t].pc \notin Early
        BY <3>1 DEF BillInv, Sound, Late, Answering, Early
      <4>2. QED
        BY <3>1, <4>1 DEF JobSound
    <3>3. job[s].pc \in Late
      BY <2>1, <3>2 DEF Proceeds
    <3>4. QED
      BY <1>1, <3>1, <3>3 DEF BillInv, OneInserts
  <2>2. QED
    BY <1>1, <2>1 DEF BillInv, OneInserts
<1>5. OneAtATime'
  BY <1>1 DEF BillInv, OneAtATime, WorksOn
<1>6. UnpaidIsUnpaid'
  <2> SUFFICES ASSUME NEW t \in Sessions, job'[t] # NoJob, job'[t].key \notin raced,
                      job'[t].pc = "unpaid"
               PROVE  debits'[job'[t].key][job'[t].amount] = 0
    BY <1>1 DEF UnpaidIsUnpaid
  <2>1. CASE t = s
    BY <1>1, <2>1 DEF Proceeds
  <2>2. CASE t # s
    <3>1. job'[t] = job[t] /\ job[t].key \in Keys
      BY <1>1, <2>2, JobFields
    <3>2. debits[job[t].key][job[t].amount] = 0
      BY <3>1 DEF BillInv, UnpaidIsUnpaid
    <3>3. job[t].key # k
      BY <1>1, <2>2, <3>1 DEF BillInv, OneAtATime, WorksOn
    <3>4. debits'[job[t].key] = debits[job[t].key]
      BY <3>1, <3>3, OtherRows
    <3>5. QED
      BY <3>1, <3>2, <3>4
  <2>3. QED
    BY <2>1, <2>2
<1>7. PricesPaidOnce'
  <2> SUFFICES ASSUME NEW l \in Keys \ raced, NEW a \in Amounts PROVE debits'[l][a] <= 1
    BY <1>1 DEF PricesPaidOnce
  <2>1. debits[l][a] <= 1
    BY DEF BillInv, PricesPaidOnce
  <2>2. CASE l # k
    BY <2>1, <2>2, OtherRows
  <2>3. CASE l = k
    <3>1. CASE debits'[k] = debits[k]
      BY <2>1, <2>3, <3>1
    <3>2. CASE job[s].pc = "unpaid" /\ a = job[s].amount
               /\ debits'[k][a] = debits[k][a] + 1
      <4>1. debits[k][a] = 0
        BY <1>1, <2>3, <3>2 DEF BillInv, UnpaidIsUnpaid
      <4>2. QED
        BY <2>3, <3>2, <4>1
    <3>3. CASE debits'[k][a] = debits[k][a]
      BY <2>1, <2>3, <3>3
    <3>4. QED
      BY <3>1, <3>2, <3>3 DEF Proceeds, Writes
  <2>4. QED
    BY <2>2, <2>3
<1>8. Undisturbeds'
  <2> SUFFICES ASSUME NEW l \in Keys, Undisturbed(l)
               PROVE  /\ (\A t \in Sessions : ~WorksOn(t, l)') => InOrder(l)'
                      /\ \A t \in Sessions : WorksOn(t, l)' => JobInOrder(t)'
    BY <1>1 DEF Undisturbeds, Undisturbed
  <2>1. /\ (\A t \in Sessions : ~WorksOn(t, l)) => InOrder(l)
        /\ \A t \in Sessions : WorksOn(t, l) => JobInOrder(t)
    BY DEF BillInv, Undisturbeds
  <2>2. CASE l # k
    <3>1. \A t \in Sessions : WorksOn(t, l)' <=> WorksOn(t, l) /\ t # s
      BY <1>1, <2>2 DEF WorksOn
    <3>2. ~WorksOn(s, l)
      BY <1>1, <2>2 DEF WorksOn
    <3>3. QED
      BY <2>1, <2>2, <3>1, <3>2, OtherRows
  <2>3. CASE l = k
    <3>1. WorksOn(s, k)
      BY <1>1 DEF WorksOn
    <3>2. \A t \in Sessions \ {s} : ~WorksOn(t, k)
      BY <2>3, <3>1 DEF BillInv, OneAtATime, Undisturbed
    <3>3. \A t \in Sessions \ {s} : ~WorksOn(t, k)'
      BY <1>1, <3>2 DEF WorksOn
    <3>4. JobInOrder(s)
      BY <2>1, <2>3, <3>1
    <3>5. IF job'[s] = NoJob THEN InOrder(k)' ELSE JobInOrder(s)'
      BY <3>4 DEF Proceeds
    <3>6. WorksOn(s, k)' <=> job'[s] # NoJob
      BY <1>1 DEF WorksOn
    <3>7. QED
      BY <2>3, <3>3, <3>5, <3>6
  <2>4. QED
    BY <2>2, <2>3
<1>9. QED
  BY <1>1, <1>2, <1>3, <1>4, <1>5, <1>6, <1>7, <1>8 DEF BillInv

\* A job that begins where nobody works, or on a key that is then raced for.
LEMMA BeginningKeeps ==
    ASSUME BillInv, NEW s \in Sessions, NEW k \in Keys, NEW a \in Amounts,
           NEW pc \in {"asked", "failing", "delivering"}, NEW pay \in BOOLEAN,
           Begin(s, k, a, pc, pay),
           pc = "asked" => bill[k] = "none",
           pc = "failing" => bill[k] = "PENDING" /\ pay = (credits[k]["admin"] = 0),
           pc = "delivering" => /\ bill[k] # "none"
                                /\ pay = (bill[k] = "REFUNDED" /\ credits[k]["reversal"] = 0),
           UNCHANGED <<wallet, bills, world, orders>>
    PROVE  BillInv'
<1>1. /\ TypeOK
      /\ UNCHANGED <<balance, debits, credits, bill, price, kind, provider, order, placed, unclear>>
  BY DEF BillInv, wallet, bills, world, orders
<1>2. pc \in Pcs
  BY DEF Pcs, Early, Corrections
<1>3. /\ job[s] = NoJob /\ job' \in [Sessions -> Job \cup {NoJob}]
      /\ \A t \in Sessions \ {s} : job'[t] = job[t]
      /\ job'[s] # NoJob /\ job'[s].key = k /\ job'[s].amount = a /\ job'[s].pc = pc
      /\ job'[s].call = "result" /\ job'[s].seen = bill[k] /\ job'[s].pay = pay
      /\ raced \subseteq raced' /\ raced' \in SUBSET Keys /\ raced' \ raced \subseteq {k}
      /\ k \notin raced' => \A t \in Sessions \ {s} : ~WorksOn(t, k)
      /\ died' = died
  BY <1>1, <1>2, BeginFields
<1>4. TypeOK'
  BY <1>1, <1>3 DEF TypeOK
<1>5. ASSUME NEW t \in Sessions \ {s}, job[t] # NoJob PROVE JobSound(t)'
  <2>1. JobSound(t) /\ job'[t] = job[t]
    BY <1>3, <1>5 DEF BillInv, Sound
  <2>2. AnswerSound(t) => AnswerSound(t)'
    BY <1>1, <2>1 DEF AnswerSound
  <2>3. QED
    BY <1>1, <2>1, <2>2 DEF JobSound
<1>6. Sound'
  <2>1. JobSound(s)'
    BY <1>1, <1>3 DEF JobSound, Early, Answering
  <2>2. QED
    BY <1>3, <1>5, <2>1 DEF Sound
<1>7. Rowed' /\ RefundMeansRejected' /\ PricesPaidOnce'
  BY <1>1, <1>3 DEF BillInv, Rowed, RowSound, RefundMeansRejected, PricesPaidOnce
<1>8. OneInserts'
  BY <1>3 DEF BillInv, OneInserts, Late, Answering
<1>9. OneAtATime'
  BY <1>3 DEF BillInv, OneAtATime, WorksOn
<1>10. UnpaidIsUnpaid'
  BY <1>1, <1>3 DEF BillInv, UnpaidIsUnpaid
<1>11. Undisturbeds'
  <2> SUFFICES ASSUME NEW l \in Keys, l \notin raced', died[l] = 0
               PROVE  /\ (\A t \in Sessions : ~WorksOn(t, l)') => InOrder(l)'
                      /\ \A t \in Sessions : WorksOn(t, l)' => JobInOrder(t)'
    BY <1>3 DEF Undisturbeds, Undisturbed
  <2>1. /\ (\A t \in Sessions : ~WorksOn(t, l)) => InOrder(l)
        /\ \A t \in Sessions : WorksOn(t, l) => JobInOrder(t)
    BY <1>3 DEF BillInv, Undisturbeds, Undisturbed
  <2>2. InOrder(l) => InOrder(l)'
    BY <1>1 DEF InOrder, Untouched
  <2>3. ASSUME NEW t \in Sessions \ {s}, JobInOrder(t), WorksOn(t, l)
        PROVE  JobInOrder(t)'
    <3>1. job'[t] = job[t] /\ job[t].key = l
      BY <1>3, <2>3 DEF WorksOn
    <3>2. QED
      BY <1>1, <2>2, <2>3, <3>1 DEF JobInOrder, Untouched
  <2>4. ~WorksOn(s, l) /\ (WorksOn(s, l)' <=> l = k)
    BY <1>3 DEF WorksOn
  <2>5. \A t \in Sessions \ {s} : WorksOn(t, l)' <=> WorksOn(t, l)
    BY <1>3 DEF WorksOn
  <2>6. CASE l # k
    BY <2>1, <2>2, <2>3, <2>4, <2>5, <2>6
  <2>7. CASE l = k
    <3>1. InOrder(k)
      BY <1>3, <2>1, <2>4, <2>7
    <3>2. JobInOrder(s)'
      <4>1. InOrder(k)'
        BY <2>2, <2>7, <3>1
      <4>2. pc = "asked" => bill[k] = "none" /\ Untouched(k)
        BY <3>1 DEF InOrder
      <4>3. pc = "failing" => bill[k] = "PENDING" /\ Untouched(k) /\ pay
        BY <3>1 DEF InOrder, Untouched, Rows
      <4>4. pc = "delivering" => pay = (bill[k] = "REFUNDED")
        BY <3>1 DEF InOrder
      <4>5. Untouched(k) => Untouched(k)'
        BY <1>1 DEF Untouched
      <4>6. QED
        BY <1>1, <1>3, <4>1, <4>2, <4>3, <4>4, <4>5 DEF JobInOrder, Early, Answering
    <3>3. \A t \in Sessions \ {s} : ~WorksOn(t, l)'
      BY <1>3, <2>5, <2>7
    <3>4. QED
      BY <2>4, <2>7, <3>2, <3>3
  <2>8. QED
    BY <2>6, <2>7
<1>12. QED
  BY <1>4, <1>6, <1>7, <1>8, <1>9, <1>10, <1>11 DEF BillInv

LEMMA RequestKeeps ==
    ASSUME BillInv, NEW s \in Sessions, NEW k \in Keys, NEW a \in Amounts,
           Ask(s, k, a) \/ AskApi(s, k, a)
    PROVE  BillInv'
<1>1. /\ Begin(s, k, a, "asked", FALSE) /\ bill[k] = "none"
      /\ UNCHANGED <<wallet, bills, world, orders>>
  BY DEF Ask, AskApi
<1>2. QED
  BY <1>1, BeginningKeeps

LEMMA CorrectionKeeps ==
    ASSUME BillInv, NEW s \in Sessions, NEW k \in Keys, AdminFails(s, k) \/ AdminDelivers(s, k)
    PROVE  BillInv'
<1>1. bill[k] # "none" /\ UNCHANGED <<wallet, bills, world, orders>>
  BY DEF AdminFails, AdminDelivers
<1>2. PICK a \in Amounts : a = price[k]
  BY <1>1 DEF BillInv, Rowed, RowSound
<1>3. CASE AdminFails(s, k)
  <2>1. PICK pay \in BOOLEAN : pay = (credits[k]["admin"] = 0)
    OBVIOUS
  <2>2. Begin(s, k, a, "failing", pay) /\ bill[k] = "PENDING"
    BY <1>2, <1>3, <2>1 DEF AdminFails
  <2>3. QED
    BY <1>1, <2>1, <2>2, BeginningKeeps
<1>4. CASE AdminDelivers(s, k)
  <2>1. PICK pay \in BOOLEAN : pay = (bill[k] = "REFUNDED" /\ credits[k]["reversal"] = 0)
    OBVIOUS
  <2>2. Begin(s, k, a, "delivering", pay)
    BY <1>2, <1>4, <2>1 DEF AdminDelivers
  <2>3. QED
    BY <1>1, <2>1, <2>2, BeginningKeeps
<1>5. QED
  BY <1>3, <1>4

LEMMA CrashKeeps ==
    ASSUME BillInv, NEW s \in Sessions, Crash(s)
    PROVE  BillInv'
<1>1. /\ TypeOK /\ job[s] # NoJob
      /\ UNCHANGED <<balance, debits, credits, bill, price, kind, provider, order, placed, unclear,
                     raced>>
  BY DEF Crash, BillInv, wallet, bills, world, orders
<1>2. PICK k \in Keys : job[s].key = k
  BY <1>1, JobFields
<1>3. /\ job' \in [Sessions -> Job \cup {NoJob}] /\ job'[s] = NoJob
      /\ \A t \in Sessions \ {s} : job'[t] = job[t]
  BY <1>1 DEF Crash, TypeOK
<1>4. /\ died' \in [Keys -> Nat] /\ died'[k] # 0
      /\ \A l \in Keys \ {k} : died'[l] = died[l]
  <2>1. died' = [died EXCEPT ![k] = died[k] + 1] /\ died[k] \in Nat
    BY <1>1, <1>2 DEF Crash, TypeOK
  <2>2. died[k] + 1 \in Nat /\ died[k] + 1 # 0
    BY <2>1
  <2>3. QED
    BY <1>1, <2>1, <2>2 DEF TypeOK
<1>5. TypeOK'
  BY <1>1, <1>3, <1>4 DEF TypeOK
<1>6. Sound'
  <2> SUFFICES ASSUME NEW t \in Sessions, job'[t] # NoJob PROVE JobSound(t)'
    BY DEF Sound
  <2>1. job'[t] = job[t] /\ JobSound(t)
    BY <1>3 DEF BillInv, Sound
  <2>2. AnswerSound(t) => AnswerSound(t)'
    BY <1>1, <2>1 DEF AnswerSound
  <2>3. QED
    BY <1>1, <2>1, <2>2 DEF JobSound
<1>7. Rowed' /\ RefundMeansRejected' /\ PricesPaidOnce'
  BY <1>1 DEF BillInv, Rowed, RowSound, RefundMeansRejected, PricesPaidOnce
<1>8. OneInserts'
  BY <1>3 DEF BillInv, OneInserts
<1>9. OneAtATime'
  BY <1>1, <1>3 DEF BillInv, OneAtATime, WorksOn
<1>10. UnpaidIsUnpaid'
  BY <1>1, <1>3 DEF BillInv, UnpaidIsUnpaid
<1>11. Undisturbeds'
  <2> SUFFICES ASSUME NEW l \in Keys, l \notin raced, died'[l] = 0
               PROVE  /\ (\A t \in Sessions : ~WorksOn(t, l)') => InOrder(l)'
                      /\ \A t \in Sessions : WorksOn(t, l)' => JobInOrder(t)'
    BY <1>1 DEF Undisturbeds, Undisturbed
  <2>1. l # k /\ died[l] = 0
    BY <1>4
  <2>2. /\ (\A t \in Sessions : ~WorksOn(t, l)) => InOrder(l)
        /\ \A t \in Sessions : WorksOn(t, l) => JobInOrder(t)
    BY <2>1 DEF BillInv, Undisturbeds, Undisturbed
  <2>3. ~WorksOn(s, l) /\ ~WorksOn(s, l)'
    BY <1>2, <1>3, <2>1 DEF WorksOn
  <2>4. \A t \in Sessions \ {s} : WorksOn(t, l)' <=> WorksOn(t, l)
    BY <1>3 DEF WorksOn
  <2>5. InOrder(l) => InOrder(l)'
    BY <1>1 DEF InOrder, Untouched
  <2>6. ASSUME NEW t \in Sessions \ {s}, JobInOrder(t), WorksOn(t, l)
        PROVE  JobInOrder(t)'
    <3>1. job'[t] = job[t] /\ job[t].key = l
      BY <1>3, <2>6 DEF WorksOn
    <3>2. QED
      BY <1>1, <2>5, <2>6, <3>1 DEF JobInOrder, Untouched
  <2>7. QED
    BY <2>2, <2>3, <2>4, <2>5, <2>6
<1>12. QED
  BY <1>5, <1>6, <1>7, <1>8, <1>9, <1>10, <1>11 DEF BillInv

\* The provider makes up its mind about an order it still worked on.
LEMMA DecisionKeeps ==
    ASSUME BillInv, NEW k \in Keys, ProviderDecides(k)
    PROVE  BillInv'
<1>1. /\ TypeOK /\ order[k] = "open"
      /\ UNCHANGED <<balance, debits, credits, bill, price, kind, provider, placed, unclear,
                     job, raced, died>>
  BY DEF ProviderDecides, BillInv, wallet, bills, world
<1>2. /\ order' \in [Keys -> Fate] /\ order'[k] \in {"delivered", "rejected"}
      /\ \A l \in Keys \ {k} : order'[l] = order[l]
  BY DEF ProviderDecides, BillInv, TypeOK, Fate
<1>3. TypeOK'
  BY <1>1, <1>2 DEF TypeOK
<1>4. Sound'
  <2> SUFFICES ASSUME NEW t \in Sessions, job[t] # NoJob PROVE JobSound(t)'
    BY <1>1 DEF Sound
  <2>1. JobSound(t)
    BY DEF BillInv, Sound
  <2>2. PICK l \in Keys : job[t].key = l
    BY <1>1, JobFields
  <2>3. AnswerSound(t) => AnswerSound(t)'
    BY <1>1, <1>2, <2>2 DEF AnswerSound
  <2>4. order[l] # "none" => order'[l] # "none"
    BY <1>2
  <2>5. QED
    BY <1>1, <2>1, <2>2, <2>3, <2>4 DEF JobSound
<1>5. Rowed' /\ RefundMeansRejected'
  <2> SUFFICES ASSUME NEW l \in Keys PROVE RowSound(l)' /\ RefundSound(l)'
    BY DEF Rowed, RefundMeansRejected, RefundSound
  <2>1. RowSound(l) /\ RefundSound(l)
    BY DEF BillInv, Rowed, RefundMeansRejected, RefundSound
  <2>2. CASE l = k
    BY <1>1, <1>2, <2>1, <2>2 DEF RowSound, RefundSound
  <2>3. CASE l # k
    BY <1>1, <1>2, <2>1, <2>3 DEF RowSound, RefundSound
  <2>4. QED
    BY <2>2, <2>3
<1>6. OneInserts' /\ OneAtATime' /\ UnpaidIsUnpaid' /\ PricesPaidOnce'
  BY <1>1 DEF BillInv, OneInserts, OneAtATime, WorksOn, UnpaidIsUnpaid, PricesPaidOnce
<1>7. Undisturbeds'
  BY <1>1 DEF BillInv, Undisturbeds, Undisturbed, InOrder, JobInOrder, Untouched, WorksOn
<1>8. QED
  BY <1>3, <1>4, <1>5, <1>6, <1>7 DEF BillInv

LEMMA ProviderIsInUse ==
    ASSUME NEW choice \in Providers \cup {"auto"}, NEW enabled \in BOOLEAN
    PROVE  Chosen(choice, InUse, enabled) \in InUse \cup {"mock"}
BY DEF Chosen, Providers

LEMMA BillInit == Init => BillInv
<1> SUFFICES ASSUME Init PROVE BillInv
  OBVIOUS
<1>1. provider \in InUse \cup {"mock"}
  <2>1. PICK choice \in Providers \cup {"auto"}, enabled \in BOOLEAN :
            provider = Chosen(choice, InUse, enabled)
    BY DEF Init
  <2>2. Chosen(choice, InUse, enabled) \in InUse \cup {"mock"}
    BY ProviderIsInUse
  <2>3. QED
    BY <2>1, <2>2
<1>2. TypeOK
  BY <1>1, BoundsAreNat DEF Init, TypeOK, Status, Fate
<1>3. \A s \in Sessions : job[s] = NoJob
  BY DEF Init
<1>4. Sound /\ OneInserts /\ OneAtATime /\ UnpaidIsUnpaid
  BY <1>3 DEF Sound, OneInserts, OneAtATime, UnpaidIsUnpaid, WorksOn
<1>5. Rowed /\ RefundMeansRejected /\ PricesPaidOnce
  BY DEF Init, Rowed, RowSound, RefundMeansRejected, PricesPaidOnce, Rows
<1>6. Undisturbeds
  BY <1>3 DEF Init, Undisturbeds, InOrder, Untouched, WorksOn
<1>7. QED
  BY <1>2, <1>4, <1>5, <1>6 DEF BillInv

LEMMA BillStep == BillInv /\ [Next]_vars => BillInv'
<1> SUFFICES ASSUME BillInv, [Next]_vars PROVE BillInv'
  OBVIOUS
<1>1. CASE \E k \in Keys, a \in Amounts : Purchase(k, a)
  BY <1>1, RequestKeeps DEF Purchase
<1>2. CASE \E s \in Sessions, k \in Keys : AdminFails(s, k) \/ AdminDelivers(s, k)
  BY <1>2, CorrectionKeeps
<1>3. CASE \E s \in Sessions : Advance(s)
  <2>1. PICK s \in Sessions : Advance(s)
    BY <1>3
  <2>2. PICK k \in Keys : Proceeds(s, k)
    BY <2>1, AdvanceProceeds DEF BillInv
  <2>3. QED
    BY <2>2, ProceedingKeeps
<1>4. CASE \E s \in Sessions : Crash(s)
  BY <1>4, CrashKeeps
<1>5. CASE \E k \in Keys : ProviderDecides(k)
  BY <1>5, DecisionKeeps
<1>6. CASE UNCHANGED vars
  BY <1>6 DEF vars, BillInv, TypeOK, Sound, JobSound, AnswerSound, Rowed, RowSound, OneInserts,
              RefundMeansRejected, OneAtATime, UnpaidIsUnpaid, PricesPaidOnce, Undisturbeds,
              Undisturbed, InOrder, JobInOrder, Untouched, WorksOn
<1>7. QED
  BY <1>1, <1>2, <1>3, <1>4, <1>5, <1>6 DEF Next

-----------------------------------------------------------------------------
(***************************************************************************)
(* OncePaid is inductive, given BillInv.                                   *)
(***************************************************************************)

\* The one session on an undisturbed key takes a step.
LEMMA PayingKeeps ==
    ASSUME BillInv, NEW s \in Sessions, Advance(s), NEW k \in Keys, Proceeds(s, k),
           JobInOrder(s), JobPaid(s)
    PROVE  IF job'[s] = NoJob THEN RowPaid(k)' ELSE JobPaid(s)'
<1>1. /\ TypeOK /\ job[s] # NoJob /\ job[s].key = k
      /\ job'[s] # NoJob => job'[s].key = k /\ job'[s].amount = job[s].amount
  BY DEF Proceeds, Continues, BillInv
<1>2. /\ job[s].amount \in Amounts /\ debits[k] \in [Amounts -> Nat] /\ JobSound(s)
      /\ debits'[k] \in [Amounts -> Nat]
  BY <1>1, AtWork DEF BillInv, Proceeds, TypeOK
<1>3. CASE LookUpDebit(s)
  <2> DEFINE pc == IF debits[k][job[s].amount] = 0 THEN "unpaid" ELSE "debited"
  <2>a. job[s].pc = "asked" /\ UNCHANGED <<debits, bill, price>> /\ Goto(s, pc)
    BY <1>1, <1>3 DEF LookUpDebit, At, wallet, bills
  <2>b. pc \in Pcs
    BY DEF Pcs, Early
  <2>1. /\ job[s].pc = "asked" /\ UNCHANGED <<debits, bill, price>>
        /\ job'[s] # NoJob /\ job'[s].pc = pc
    BY <1>1, <2>a, <2>b, GotoFields
  <2>2. \A a \in Amounts : debits'[k][a] = 0
    BY <1>1, <2>1 DEF JobPaid
  <2>3. job'[s].pc \in {"unpaid", "debited"}
    BY <2>1
  <2>4. QED
    BY <1>1, <2>1, <2>2, <2>3 DEF JobPaid, Early
<1>4. CASE PayDebit(s)
  <2>1. job[s].pc = "unpaid" /\ \A a \in Amounts : debits[k][a] = 0
    BY <1>1, <1>4 DEF PayDebit, At, JobPaid
  <2>2. CASE job'[s] = NoJob
    <3>1. debits' = debits
      <4>1. ~Goto(s, "debited")
        BY <1>1, <2>2, GotoFields DEF Pcs, Early
      <4>2. QED
        BY <1>4, <4>1 DEF PayDebit
    <3>2. QED
      BY <2>1, <2>2, <3>1 DEF RowPaid
  <2>3. CASE job'[s] # NoJob
    <3>1. job'[s].pc = "debited"
      <4>1. ~End(s)
        BY <2>3, <1>1, EndFields
      <4>2. Goto(s, "debited") /\ "debited" \in Pcs
        BY <1>4, <4>1 DEF PayDebit, Pcs, Early
      <4>3. QED
        BY <1>1, <4>2, GotoFields
    <3>2. \A a \in Amounts \ {job[s].amount} : debits'[k][a] = debits[k][a]
      BY DEF Proceeds, Writes
    <3>3. \A a \in Amounts : debits'[k][a] > 0 => a = job[s].amount
      BY <2>1, <3>2
    <3>4. QED
      BY <1>1, <2>3, <3>1, <3>3 DEF JobPaid, Early
  <2>4. QED
    BY <2>2, <2>3
<1>5. CASE Insert(s)
  <2>1. job[s].pc = "debited" /\ bill[k] = "none" /\ UNCHANGED debits
    BY <1>1, <1>5 DEF Insert, At, JobInOrder, Early, wallet
  <2>2. /\ price' = [price EXCEPT ![k] = job[s].amount] /\ Goto(s, "placing")
        /\ bill' = [bill EXCEPT ![k] = "PENDING"]
    BY <1>1, <1>5, <2>1 DEF Insert
  <2>3. price'[k] = job[s].amount /\ bill'[k] # "none"
    BY <1>1, <2>2 DEF TypeOK
  <2>4. job'[s] # NoJob /\ job'[s].pc = "placing"
    BY <1>1, <2>2, GotoFields DEF Pcs, Late
  <2>5. RowPaid(k)'
    BY <1>1, <2>1, <2>3 DEF JobPaid, RowPaid
  <2>6. QED
    BY <1>1, <2>4, <2>5 DEF JobPaid, Early
<1>6. CASE ~LookUpDebit(s) /\ ~PayDebit(s) /\ ~Insert(s)
  <2>1. job[s].pc \notin Early /\ UNCHANGED <<debits, price>>
    BY <1>6
       DEF Advance, PurchaseAirtimeOrCable, PurchaseElectricity, PurchaseExamPin,
           DeveloperBuyAirtime, OrderSteps, SettleSteps, Early, At, wallet, bills,
           PlaceAtVTpass, RefuseExam, PlaceAtClubKonnect, PlaceAtMock, CallFails, QueryStatus,
           QueryToken, Reload, Settle, Refund, SettleApi, RefundApi, MarkRefunded,
           CommitFailure, CommitDelivery
  <2>2. bill'[k] # "none"
    BY <1>1, <1>2, <2>1 DEF JobSound, Proceeds, Writes
  <2>3. RowPaid(k) /\ RowPaid(k)'
    BY <1>1, <2>1, <2>2 DEF JobPaid, RowPaid
  <2>4. CASE job'[s] # NoJob
    <3>1. job'[s].pc \notin Early
      BY <1>1, <2>2, <2>4 DEF Proceeds, JobInOrder
    <3>2. QED
      BY <1>1, <2>3, <2>4, <3>1 DEF JobPaid, Early
  <2>5. QED
    BY <2>3, <2>4
<1>7. QED
  BY <1>3, <1>4, <1>5, <1>6

LEMMA OncePaidStep == BillInv /\ OncePaid /\ [Next]_vars => OncePaid'
<1> SUFFICES ASSUME BillInv, OncePaid, [Next]_vars,
                    NEW k \in Keys, Undisturbed(k)'
             PROVE  /\ (\A s \in Sessions : ~WorksOn(s, k)') => RowPaid(k)'
                    /\ \A s \in Sessions : WorksOn(s, k)' => JobPaid(s)'
  BY DEF OncePaid
<1>1. TypeOK
  BY DEF BillInv
<1>2. CASE \E s \in Sessions : Advance(s)
  <2>1. PICK s \in Sessions : Advance(s)
    BY <1>2
  <2>2. PICK l \in Keys : Proceeds(s, l)
    BY <2>1, AdvanceProceeds DEF BillInv
  <2>3. /\ job[s] # NoJob /\ job[s].key = l /\ Undisturbed(k)
        /\ \A t \in Sessions \ {s} : job'[t] = job[t]
        /\ job'[s] # NoJob => job'[s].key = l
    BY <2>2 DEF Proceeds, Continues, Undisturbed
  <2>4. /\ (\A t \in Sessions : ~WorksOn(t, k)) => RowPaid(k)
        /\ \A t \in Sessions : WorksOn(t, k) => JobPaid(t) /\ JobInOrder(t)
    BY <2>3 DEF OncePaid, BillInv, Undisturbeds
  <2>5. CASE l # k
    <3>1. bill'[k] = bill[k] /\ price'[k] = price[k] /\ debits'[k] = debits[k]
      BY <2>2, <2>5 DEF Proceeds, Writes, Elsewhere
    <3>2. RowPaid(k) => RowPaid(k)'
      BY <3>1 DEF RowPaid
    <3>3. ~WorksOn(s, k) /\ ~WorksOn(s, k)'
      BY <2>3, <2>5 DEF WorksOn
    <3>4. \A t \in Sessions \ {s} : WorksOn(t, k)' <=> WorksOn(t, k)
      BY <2>3 DEF WorksOn
    <3>5. ASSUME NEW t \in Sessions \ {s}, WorksOn(t, k), JobPaid(t) PROVE JobPaid(t)'
      <4>1. job'[t] = job[t] /\ job[t].key = k
        BY <2>3, <3>5 DEF WorksOn
      <4>2. QED
        BY <3>1, <3>2, <3>5, <4>1 DEF JobPaid
    <3>6. QED
      BY <2>4, <3>2, <3>3, <3>4, <3>5
  <2>6. CASE l = k
    <3>1. WorksOn(s, k)
      BY <2>3, <2>6 DEF WorksOn
    <3>2. \A t \in Sessions \ {s} : ~WorksOn(t, k)
      BY <2>3, <3>1 DEF BillInv, OneAtATime, Undisturbed
    <3>3. \A t \in Sessions \ {s} : ~WorksOn(t, k)'
      BY <2>3, <3>2 DEF WorksOn
    <3>4. IF job'[s] = NoJob THEN RowPaid(k)' ELSE JobPaid(s)'
      BY <2>1, <2>2, <2>4, <2>6, <3>1, PayingKeeps
    <3>5. WorksOn(s, k)' <=> job'[s] # NoJob
      BY <2>3, <2>6 DEF WorksOn
    <3>6. QED
      BY <3>3, <3>4, <3>5
  <2>7. QED
    BY <2>5, <2>6
<1>3. ASSUME NEW s \in Sessions, NEW l \in Keys, NEW a, NEW pc \in {"asked", "failing", "delivering"},
             NEW pay, Begin(s, l, a, pc, pay), UNCHANGED <<wallet, bills>>,
             bill[l] = "none" <=> pc = "asked"
      PROVE  /\ (\A t \in Sessions : ~WorksOn(t, k)') => RowPaid(k)'
             /\ \A t \in Sessions : WorksOn(t, k)' => JobPaid(t)'
  <2>1. /\ job[s] = NoJob /\ UNCHANGED <<debits, bill, price>>
        /\ job'[s] # NoJob => job'[s].key = l /\ job'[s].pc = pc
        /\ \A t \in Sessions \ {s} : job'[t] = job[t]
        /\ raced \subseteq raced' /\ died' = died
        /\ l \notin raced' => \A t \in Sessions \ {s} : ~WorksOn(t, l)
    BY <1>1, <1>3 DEF Begin, TypeOK, wallet, bills, WorksOn
  <2>2. Undisturbed(k) /\ k \notin raced'
    BY <2>1 DEF Undisturbed
  <2>3. /\ (\A t \in Sessions : ~WorksOn(t, k)) => RowPaid(k)
        /\ \A t \in Sessions : WorksOn(t, k) => JobPaid(t)
    BY <2>2 DEF OncePaid
  <2>4. ~WorksOn(s, k) /\ \A t \in Sessions \ {s} : WorksOn(t, k)' <=> WorksOn(t, k)
    BY <2>1 DEF WorksOn
  <2>5. (RowPaid(k) => RowPaid(k)')
        /\ \A t \in Sessions \ {s} : WorksOn(t, k) /\ JobPaid(t) => JobPaid(t)'
    BY <2>1 DEF RowPaid, JobPaid
  <2>6. WorksOn(s, k)' => JobPaid(s)'
    <3> SUFFICES ASSUME WorksOn(s, k)' PROVE JobPaid(s)'
      OBVIOUS
    <3>1. l = k /\ job'[s].key = k /\ job'[s].pc = pc
      BY <2>1 DEF WorksOn
    <3>2. RowPaid(k) /\ RowPaid(k)'
      BY <2>1, <2>2, <2>3, <2>4, <2>5, <3>1
    <3>3. CASE pc = "asked"
      <4>1. \A b \in Amounts : debits'[k][b] = 0
        <5>1. \A b \in Amounts : ~(debits[k][b] > 0) /\ debits[k][b] \in Nat
          BY <1>1, <1>3, <3>1, <3>2, <3>3 DEF RowPaid, TypeOK
        <5>2. QED
          BY <2>1, <5>1
      <4>2. QED
        BY <3>1, <3>3, <4>1 DEF JobPaid, Early
    <3>4. CASE pc # "asked"
      BY <1>3, <3>1, <3>2, <3>4 DEF JobPaid
    <3>5. QED
      BY <3>3, <3>4
  <2>7. QED
    BY <2>3, <2>4, <2>5, <2>6
<1>4. CASE \E l \in Keys, a \in Amounts : Purchase(l, a)
  <2>1. PICK l \in Keys, a \in Amounts, s \in Sessions : Ask(s, l, a) \/ AskApi(s, l, a)
    BY <1>4 DEF Purchase
  <2>2. Begin(s, l, a, "asked", FALSE) /\ bill[l] = "none" /\ UNCHANGED <<wallet, bills>>
    BY <2>1 DEF Ask, AskApi
  <2>3. QED
    BY <1>3, <2>2
<1>5. CASE \E s \in Sessions, l \in Keys : AdminFails(s, l) \/ AdminDelivers(s, l)
  <2>1. PICK s \in Sessions, l \in Keys : AdminFails(s, l) \/ AdminDelivers(s, l)
    BY <1>5
  <2>2. PICK pc \in {"failing", "delivering"}, pay \in BOOLEAN :
            /\ Begin(s, l, price[l], pc, pay) /\ bill[l] # "none"
            /\ UNCHANGED <<wallet, bills>>
    BY <2>1 DEF AdminFails, AdminDelivers
  <2> DEFINE a == price[l]
  <2>3. Begin(s, l, a, pc, pay) /\ pc # "asked" /\ pc \in {"asked", "failing", "delivering"}
    BY <2>2
  <2> HIDE DEF a
  <2>4. QED
    BY <1>3, <2>2, <2>3
<1>6. CASE \E s \in Sessions : Crash(s)
  <2>1. PICK s \in Sessions : Crash(s)
    BY <1>6
  <2>2. /\ job[s] # NoJob /\ UNCHANGED <<debits, bill, price, raced>>
        /\ job' = [job EXCEPT ![s] = NoJob]
        /\ died' = [died EXCEPT ![job[s].key] = @ + 1]
    BY <2>1 DEF Crash, wallet, bills
  <2>3. PICK l \in Keys : job[s].key = l
    BY <1>1, <2>2, JobFields
  <2>4. died[l] \in Nat /\ died'[l] = died[l] + 1 /\ \A m \in Keys \ {l} : died'[m] = died[m]
    BY <1>1, <2>2, <2>3 DEF TypeOK
  <2>5. l # k /\ Undisturbed(k)
    BY <2>2, <2>4 DEF Undisturbed
  <2>6. /\ (\A t \in Sessions : ~WorksOn(t, k)) => RowPaid(k)
        /\ \A t \in Sessions : WorksOn(t, k) => JobPaid(t)
    BY <2>5 DEF OncePaid
  <2>7. job'[s] = NoJob /\ \A t \in Sessions \ {s} : job'[t] = job[t]
    BY <1>1, <2>2 DEF TypeOK
  <2>8. /\ ~WorksOn(s, k) /\ ~WorksOn(s, k)'
        /\ \A t \in Sessions \ {s} : WorksOn(t, k)' <=> WorksOn(t, k)
    BY <2>3, <2>5, <2>7 DEF WorksOn
  <2>9. (RowPaid(k) => RowPaid(k)')
        /\ \A t \in Sessions \ {s} : JobPaid(t) => JobPaid(t)'
    BY <2>2, <2>7 DEF RowPaid, JobPaid
  <2>10. QED
    BY <2>6, <2>8, <2>9
<1>7. CASE (\E l \in Keys : ProviderDecides(l)) \/ UNCHANGED vars
  <2>1. UNCHANGED <<debits, bill, price, job, raced, died>>
    BY <1>7 DEF ProviderDecides, wallet, bills, vars
  <2>2. QED
    BY <2>1 DEF OncePaid, Undisturbed, WorksOn, RowPaid, JobPaid
<1>8. QED
  BY <1>2, <1>4, <1>5, <1>6, <1>7 DEF Next

\* Every variable of the bill purchases keeps to its type.
THEOREM BillTypes == Spec => []TypeOK
<1>1. BillInv => TypeOK
  BY DEF BillInv
<1>2. QED
  BY <1>1, BillInit, BillStep, PTL DEF Spec

\* The unique reference keeps a key from being ordered twice, and nothing is
\* ordered before its price was taken (the handlers of services.py and
\* developer.py).
THEOREM OneOrder == Spec => []OneOrderPerKey
<1>1. BillInv => OneOrderPerKey
  BY DEF BillInv, Rowed, RowSound, OneOrderPerKey
<1>2. QED
  BY <1>1, BillInit, BillStep, PTL DEF Spec

\* Unless two requests overlapped, the lookup of debit_wallet keeps a retried
\* key from being paid for twice at one price, however many requests died on
\* it, and at two prices unless one did.
THEOREM RetriesPayOnce == Spec => []RetryPaysOnce
<1>1. Init => OncePaid
  BY DEF Init, OncePaid, RowPaid, WorksOn
<1>2. ASSUME BillInv, OncePaid PROVE RetryPaysOnce
  <2> SUFFICES ASSUME NEW k \in Keys \ raced, died[k] = 0, NEW a \in Amounts, NEW b \in Amounts,
                      debits[k][a] > 0, debits[k][b] > 0
               PROVE  a = b
    BY <1>2 DEF RetryPaysOnce, BillInv, PricesPaidOnce
  <2>1. CASE \A s \in Sessions : ~WorksOn(s, k)
    BY <1>2, <2>1 DEF OncePaid, Undisturbed, RowPaid
  <2>2. CASE \E s \in Sessions : WorksOn(s, k)
    <3>1. PICK s \in Sessions : WorksOn(s, k)
      BY <2>2
    <3>2. JobPaid(s) /\ job[s].key = k
      BY <1>2, <3>1 DEF OncePaid, Undisturbed, WorksOn
    <3>3. QED
      BY <3>2 DEF JobPaid, RowPaid, Early
  <2>3. QED
    BY <2>1, <2>2
<1>3. QED
  BY <1>1, <1>2, BillInit, BillStep, OncePaidStep, PTL DEF Spec

\* Where no two sessions overlapped and nobody died, the ledger of a key at
\* rest agrees with its status, and a developer is told "failed" of nothing
\* but what was refunded.
THEOREM BooksAreKept == Spec => []BooksMatchStatus
<1>1. ASSUME BillInv PROVE BooksMatchStatus
  <2> SUFFICES ASSUME NEW k \in Keys \ raced, died[k] = 0, \A s \in Sessions : job[s] = NoJob
               PROVE  /\ Refunded(k) = IF bill[k] = "REFUNDED" THEN 1 ELSE 0
                      /\ Told(k) = "failed" <=> Refunded(k) = 1
    BY DEF BooksMatchStatus
  <2>1. InOrder(k)
    BY <1>1 DEF BillInv, Undisturbeds, Undisturbed, WorksOn
  <2>2. /\ credits[k]["auto"] \in Nat /\ credits[k]["admin"] \in Nat
        /\ credits[k]["reversal"] \in Nat /\ bill[k] \in Status
    BY <1>1 DEF BillInv, TypeOK, Rows
  <2>3. bill[k] \in {"none", "PENDING", "SUCCESS", "REFUNDED"}
    BY <2>1, <2>2 DEF InOrder, Status
  <2>4. Refunded(k) = IF bill[k] = "REFUNDED" THEN 1 ELSE 0
    BY <2>1, <2>2, <2>3 DEF InOrder, Untouched, Rows, Refunded
  <2>5. Told(k) = "failed" <=> bill[k] = "REFUNDED"
    BY <2>3 DEF Told
  <2>6. QED
    BY <2>4, <2>5
<1>2. QED
  BY <1>1, BillInit, BillStep, PTL DEF Spec

\* No handler of services.py gives money back for an order the provider still
\* works on or has delivered, unless there was an answer without a known status
\* or an HTTP error.
THEOREM RefundsWereRejected == Spec => []RefundMeansRejected
<1>1. BillInv => RefundMeansRejected
  BY DEF BillInv
<1>2. QED
  BY <1>1, BillInit, BillStep, PTL DEF Spec

\* A purchase becomes a SUCCESS because the provider delivered, or because an
\* admin said so, unless there was an answer without a known status.
THEOREM SuccessIsEarned == Spec => SuccessIsDelivered
<1>1. ASSUME BillInv, [Next]_vars PROVE [SuccessNeedsDelivery]_vars
  <2>1. ASSUME NEW k \in Keys \ unclear, bill'[k] = "SUCCESS", bill[k] # "SUCCESS"
        PROVE  order[k] = "delivered" \/ \E s \in Sessions : CommitDelivery(s)
    <3>1. CASE \E s \in Sessions : Advance(s)
      <4>1. PICK s \in Sessions : Advance(s)
        BY <3>1
      <4>2. PICK l \in Keys : Proceeds(s, l)
        BY <1>1, <4>1, AdvanceProceeds DEF BillInv
      <4>3. k = l
        BY <2>1, <4>2 DEF Proceeds, Writes, Elsewhere
      <4>4. QED
        BY <2>1, <4>2, <4>3 DEF Proceeds, Writes
    <3>2. CASE UNCHANGED bill
      BY <2>1, <3>2
    <3>3. QED
      BY <1>1, <3>1, <3>2
         DEF Next, Purchase, Ask, AskApi, AdminFails, AdminDelivers, Crash, ProviderDecides,
             bills, vars
  <2>2. QED
    BY <2>1 DEF SuccessNeedsDelivery
<1>2. QED
  BY <1>1, BillInit, BillStep, PTL DEF Spec, SuccessIsDelivered
=============================================================================
