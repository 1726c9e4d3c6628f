------------------------ MODULE DataPurchases_proofs ------------------------
(***************************************************************************)
(* PurchaseInv is an inductive invariant of DataPurchases, and what it     *)
(* implies: the ledger of an undisturbed purchase agrees with its status,  *)
(* REFUNDED means credited, and where the sellers speak clearly a refund   *)
(* means rejected and SUCCESS means delivered.                             *)
(***************************************************************************)
EXTENDS DataPurchases, TLAPS

-----------------------------------------------------------------------------
(***************************************************************************)
(* The answers                                                             *)
(***************************************************************************)

\* What is said clearly is read as what it is.
Reading(a, fate) ==
    /\ a.clear \in BOOLEAN
    /\ a.verdict = "success" /\ a.clear => fate = "delivered"
    /\ a.verdict = "failed" /\ a.clear => fate = "rejected"

\* ClubKonnect's answers, parsed.
LEMMA ClubKonnectReads ==
    ASSUME NEW fate \in Decided, NEW c \in ClubKonnectTells(fate),
           NEW r, r = ClubKonnectParse(c), ClubKonnectKnows(c)
    PROVE  /\ r.success => fate = "delivered"
           /\ ~r.success /\ ~IsPending(r) => fate = "rejected"
<1>1. /\ c.code \in ClubKonnectCodes /\ c.text \in {"pending", "success", "failed", "none"}
      /\ c.remark \in {"none", "pending"}
      /\ c.code \in CodesFor[fate] /\ c.text \in {"none", WordFor[fate]}
  BY DEF ClubKonnectTells, ClubKonnectAnswer, Words
<1>2. r.success <=> /\ c.code \in {"success", "both"} \/ c.text = "success"
                    /\ ~(c.code \in {"both", "pending"} \/ c.text = "pending"
                          \/ c.remark = "pending")
                    /\ ~(c.code = "failure" \/ c.text = "failed")
  BY DEF ClubKonnectParse
<1>3. c.code \in {"both", "pending"} \/ c.text = "pending" \/ c.remark = "pending"
         => r.status = "pending"
  BY DEF ClubKonnectParse
<1>4. CASE fate = "open"
  <2>1. c.code \in {"none", "both", "pending"} /\ c.text \in {"none", "pending"}
    BY <1>1, <1>4 DEF CodesFor, WordFor
  <2>2. QED
    BY <1>1, <1>2, <1>3, <2>1 DEF ClubKonnectKnows, IsPending
<1>5. CASE fate = "delivered"
  <2>1. c.code \in {"none", "success"} /\ c.text \in {"none", "success"}
    BY <1>1, <1>5 DEF CodesFor, WordFor
  <2>2. QED
    BY <1>1, <1>2, <1>3, <1>5, <2>1 DEF ClubKonnectKnows, IsPending
<1>6. CASE fate = "rejected"
  <2>1. c.code \in {"none", "failure"} /\ c.text \in {"none", "failed"}
    BY <1>1, <1>6 DEF CodesFor, WordFor
  <2>2. QED
    BY <1>1, <1>2, <1>6, <2>1
<1>7. QED
  BY <1>4, <1>5, <1>6 DEF Decided

\* VTpass's answers, parsed.
LEMMA VTpassReads ==
    ASSUME NEW fate \in Decided, NEW c \in VTpassTells(fate),
           NEW r, r = VTpassParse(c), c.status # "none"
    PROVE  /\ r.success => fate = "delivered"
           /\ ~r.success /\ ~IsPending(r) => fate = "rejected"
<1>1. c.status \in {"pending", "success", "failed"} /\ c.status = WordFor[fate]
  BY DEF VTpassTells, VTpassAnswer, Words
<1>2. /\ r.success <=> \/ c.status = "success"
                       \/ /\ c.code000 /\ c.status # "pending" /\ c.status # "failed"
                          /\ "failed" \notin c.says
      /\ r.status = c.status
  BY DEF VTpassParse
<1>3. QED
  BY <1>1, <1>2 DEF WordFor, Decided, IsPending

\* A purchase reads every clear answer of its sellers as what it is.
LEMMA HeardIsRead ==
    ASSUME NEW x \in Sellers, NEW fate \in Decided, NEW a \in Heard[x][fate]
    PROVE  Reading(a, fate) /\ a.verdict \in {"success", "pending", "failed"}
<1>1. CASE x = "smeplug"
  <2>1. PICK b \in SMEPlugTells(fate) :
            a = [verdict |-> SMEPlugVerdict(b), clear |-> SMEPlugKnows(b)]
    BY <1>1 DEF Heard, Sellers
  <2>2. QED
    BY <2>1 DEF SMEPlugTells, SMEPlugAnswer, SMEPlugVerdict, SMEPlugKnows, Reading
<1>2. CASE x = "autosync"
  <2>1. PICK b \in AutosyncTells(fate) :
            a = [verdict |-> AutosyncVerdict(b), clear |-> b.status # "none"]
    BY <1>2 DEF Heard, Sellers
  <2>2. QED
    BY <2>1 DEF AutosyncTells, AutosyncAnswer, AutosyncVerdict, Words, WordFor,
                Decided, Reading
<1>3. CASE x = "amigo"
  <2>1. PICK b \in AmigoTells(fate) :
            a = [verdict |-> AmigoVerdict(b), clear |-> AmigoKnows(b, Words)]
    BY <1>3 DEF Heard, Sellers
  <2>2. QED
    BY <2>1 DEF AmigoTells, AmigoAnswer, AmigoVerdict, AmigoKnows, SaidOf, AmigoWords,
                Words, Decided, Reading
<1>4. CASE x = "clubkonnect"
  <2>1. \/ \E b \in Answers("clubkonnect", fate) \cup Answers("vtpass", fate) :
              a = [verdict |-> ResultVerdict(b.result), clear |-> b.clear]
        \/ \E v \in {"pending", "failed"} : a = [verdict |-> v, clear |-> FALSE]
    BY <1>4 DEF Heard, Sellers
  <2>2. CASE \E v \in {"pending", "failed"} : a = [verdict |-> v, clear |-> FALSE]
    BY <2>2 DEF Reading
  <2>3. ASSUME NEW b \in Answers("clubkonnect", fate),
               a = [verdict |-> ResultVerdict(b.result), clear |-> b.clear]
        PROVE  Reading(a, fate) /\ a.verdict \in {"success", "pending", "failed"}
    <3>1. PICK c \in ClubKonnectTells(fate) :
              b = [result |-> ClubKonnectParse(c), clear |-> ClubKonnectKnows(c)]
      BY DEF Answers
    <3> DEFINE r == ClubKonnectParse(c)
    <3>2. ClubKonnectKnows(c) => /\ r.success => fate = "delivered"
                                 /\ ~r.success /\ ~IsPending(r) => fate = "rejected"
      BY ClubKonnectReads
    <3>3. a.verdict = ResultVerdict(r) /\ a.clear = ClubKonnectKnows(c)
      BY <2>3, <3>1
    <3> HIDE DEF r
    <3>4. QED
      BY <3>2, <3>3 DEF ResultVerdict, Reading, ClubKonnectKnows
  <2>4. ASSUME NEW b \in Answers("vtpass", fate),
               a = [verdict |-> ResultVerdict(b.result), clear |-> b.clear]
        PROVE  Reading(a, fate) /\ a.verdict \in {"success", "pending", "failed"}
    <3>1. PICK c \in VTpassTells(fate) :
              b = [result |-> VTpassParse(c), clear |-> c.status # "none"]
      BY DEF Answers
    <3> DEFINE r == VTpassParse(c)
    <3>2. c.status # "none" => /\ r.success => fate = "delivered"
                               /\ ~r.success /\ ~IsPending(r) => fate = "rejected"
      BY VTpassReads
    <3>3. a.verdict = ResultVerdict(r) /\ a.clear = (c.status # "none")
      BY <2>4, <3>1
    <3> HIDE DEF r
    <3>4. QED
      BY <3>2, <3>3 DEF ResultVerdict, Reading
  <2>5. QED
    BY <2>1, <2>2, <2>3, <2>4
<1>5. QED
  BY <1>1, <1>2, <1>3, <1>4 DEF Sellers

\* So does the worker, whose readings of Amigo are others.
LEMMA RecheckIsRead ==
    ASSUME NEW fate \in Decided, NEW a \in Rechecked[fate]
    PROVE  Reading(a, fate)
<1>1. PICK b \in AmigoTells(fate) :
          a = [verdict |-> RecheckVerdict(b),
               clear |-> AmigoKnows(b, Words \cup {"queued", "done"})]
  BY DEF Rechecked
<1>2. QED
  BY <1>1 DEF AmigoTells, AmigoAnswer, RecheckVerdict, RecheckOutcome, AmigoKnows,
              SaidOf, AmigoWords, Words, Decided, Reading

-----------------------------------------------------------------------------
\* The fields of a job.
LEMMA JobFields ==
    ASSUME TypeOK, NEW s \in Sessions, job[s] # NoJob
    PROVE  /\ job[s] \in Job
           /\ job[s].p \in Purchases
           /\ job[s].kind \in Refunds \cup {"deliver"}
           /\ job[s].pc \in {"debited", "calling", "waiting", "answered",
                             "loaded", "owing", "credited"}
           /\ job[s].verdict \in {"none", "success", "pending", "failed",
                                  "timeout", "reverse"}
           /\ job[s].asks \in Sellers \cup {"none"}
           /\ job[s].seen \in Status
<1>1. job[s] \in Job
  BY DEF TypeOK
<1>2. QED
  BY <1>1 DEF Job

\* A job that moves to another pc and keeps the rest.
LEMMA GotoFields ==
    ASSUME TypeOK, NEW s \in Sessions, job[s] # NoJob,
           NEW pc \in {"debited", "calling", "waiting", "answered",
                       "loaded", "owing", "credited"},
           job' = [job EXCEPT ![s].pc = pc]
    PROVE  /\ job' \in [Sessions -> Job \cup {NoJob}]
           /\ \A t \in Sessions \ {s} : job'[t] = job[t]
           /\ job'[s] # NoJob /\ job'[s].p = job[s].p
           /\ job'[s].kind = job[s].kind /\ job'[s].pc = pc
           /\ job'[s].verdict = job[s].verdict /\ job'[s].seen = job[s].seen
           /\ job'[s].asks = job[s].asks
<1>1. job[s] \in Job /\ job \in [Sessions -> Job \cup {NoJob}]
  BY DEF TypeOK
<1>2. /\ job'[s] = [job[s] EXCEPT !.pc = pc]
      /\ \A t \in Sessions \ {s} : job'[t] = job[t]
  BY <1>1
<1>3. job'[s] \in Job
  BY <1>1, <1>2 DEF Job
<1>4. /\ job'[s].p = job[s].p
      /\ job'[s].kind = job[s].kind /\ job'[s].pc = pc
      /\ job'[s].verdict = job[s].verdict /\ job'[s].seen = job[s].seen
      /\ job'[s].asks = job[s].asks
  BY <1>1, <1>2 DEF Job
<1>5. job' \in [Sessions -> Job \cup {NoJob}]
  BY <1>1, <1>3
<1>6. QED
  BY <1>2, <1>3, <1>4, <1>5, NoJobIsNoJob

\* A job that gets its verdict.
LEMMA VerdictFields ==
    ASSUME TypeOK, NEW s \in Sessions, job[s] # NoJob,
           NEW pc \in {"debited", "calling", "waiting", "answered",
                       "loaded", "owing", "credited"},
           NEW v \in {"none", "success", "pending", "failed", "timeout", "reverse"},
           job' = [job EXCEPT ![s].pc = pc, ![s].verdict = v]
    PROVE  /\ job' \in [Sessions -> Job \cup {NoJob}]
           /\ \A t \in Sessions \ {s} : job'[t] = job[t]
           /\ job'[s] # NoJob /\ job'[s].p = job[s].p
           /\ job'[s].kind = job[s].kind /\ job'[s].pc = pc
           /\ job'[s].verdict = v /\ job'[s].seen = job[s].seen
           /\ job'[s].asks = job[s].asks
<1>1. job[s] \in Job /\ job \in [Sessions -> Job \cup {NoJob}]
  BY DEF TypeOK
<1>2. /\ job'[s] = [job[s] EXCEPT !.pc = pc, !.verdict = v]
      /\ \A t \in Sessions \ {s} : job'[t] = job[t]
  BY <1>1
<1>3. job'[s] \in Job
  BY <1>1, <1>2 DEF Job
<1>4. /\ job'[s].p = job[s].p
      /\ job'[s].kind = job[s].kind /\ job'[s].pc = pc
      /\ job'[s].verdict = v /\ job'[s].seen = job[s].seen
      /\ job'[s].asks = job[s].asks
  BY <1>1, <1>2 DEF Job
<1>5. job' \in [Sessions -> Job \cup {NoJob}]
  BY <1>1, <1>3
<1>6. QED
  BY <1>2, <1>3, <1>4, <1>5, NoJobIsNoJob

\* A job that loads its purchase again.
LEMMA ReloadFields ==
    ASSUME TypeOK, NEW s \in Sessions, job[s] # NoJob,
           job' = [job EXCEPT ![s].pc = "loaded", ![s].seen = status[job[s].p]]
    PROVE  /\ job' \in [Sessions -> Job \cup {NoJob}]
           /\ \A t \in Sessions \ {s} : job'[t] = job[t]
           /\ job'[s] # NoJob /\ job'[s].p = job[s].p
           /\ job'[s].kind = job[s].kind /\ job'[s].pc = "loaded"
           /\ job'[s].verdict = job[s].verdict
           /\ job'[s].seen = status[job[s].p] /\ job'[s].asks = job[s].asks
<1>1. /\ job[s] \in Job /\ job \in [Sessions -> Job \cup {NoJob}]
      /\ status[job[s].p] \in Status
  BY JobFields DEF TypeOK
<1>2. /\ job'[s] = [job[s] EXCEPT !.pc = "loaded", !.seen = status[job[s].p]]
      /\ \A t \in Sessions \ {s} : job'[t] = job[t]
  BY <1>1
<1>3. job'[s] \in Job
  BY <1>1, <1>2 DEF Job
<1>4. /\ job'[s].p = job[s].p
      /\ job'[s].kind = job[s].kind /\ job'[s].pc = "loaded"
      /\ job'[s].verdict = job[s].verdict
      /\ job'[s].seen = status[job[s].p] /\ job'[s].asks = job[s].asks
  BY <1>1, <1>2 DEF Job
<1>5. job' \in [Sessions -> Job \cup {NoJob}]
  BY <1>1, <1>3
<1>6. QED
  BY <1>2, <1>3, <1>4, <1>5, NoJobIsNoJob

\* A job whose reversal turns out to have been paid.
LEMMA SuccessFields ==
    ASSUME TypeOK, NEW s \in Sessions, job[s] # NoJob,
           job' = [job EXCEPT ![s].verdict = "success"]
    PROVE  /\ job' \in [Sessions -> Job \cup {NoJob}]
           /\ \A t \in Sessions \ {s} : job'[t] = job[t]
           /\ job'[s] # NoJob /\ job'[s].p = job[s].p
           /\ job'[s].kind = job[s].kind /\ job'[s].pc = job[s].pc
           /\ job'[s].verdict = "success" /\ job'[s].seen = job[s].seen
           /\ job'[s].asks = job[s].asks
<1>1. job[s] \in Job /\ job \in [Sessions -> Job \cup {NoJob}]
  BY DEF TypeOK
<1>2. /\ job'[s] = [job[s] EXCEPT !.verdict = "success"]
      /\ \A t \in Sessions \ {s} : job'[t] = job[t]
  BY <1>1
<1>3. job'[s] \in Job
  BY <1>1, <1>2 DEF Job
<1>4. /\ job'[s].p = job[s].p
      /\ job'[s].kind = job[s].kind /\ job'[s].pc = job[s].pc
      /\ job'[s].verdict = "success" /\ job'[s].seen = job[s].seen
      /\ job'[s].asks = job[s].asks
  BY <1>1, <1>2 DEF Job
<1>5. job' \in [Sessions -> Job \cup {NoJob}]
  BY <1>1, <1>3
<1>6. QED
  BY <1>2, <1>3, <1>4, <1>5, NoJobIsNoJob

\* The sellers of a plan.
LEMMA RouteFields ==
    ASSUME TypeOK, NEW p \in Purchases
    PROVE  /\ route[p].first \in Sellers
           /\ route[p].second \in Sellers \cup {"none"}
           /\ route[p].first # route[p].second
<1>1. route[p] \in Routes
  BY DEF TypeOK
<1>2. QED
  BY <1>1, RoutesAreRoutes

\* A request that goes on to the fallback.
LEMMA FallBackFields ==
    ASSUME TypeOK, NEW s \in Sessions, job[s] # NoJob, NEW x \in Sellers,
           job' = [job EXCEPT ![s].pc = "calling", ![s].asks = x]
    PROVE  /\ job' \in [Sessions -> Job \cup {NoJob}]
           /\ \A t \in Sessions \ {s} : job'[t] = job[t]
           /\ job'[s] # NoJob /\ job'[s].p = job[s].p
           /\ job'[s].kind = job[s].kind /\ job'[s].pc = "calling"
           /\ job'[s].verdict = job[s].verdict /\ job'[s].seen = job[s].seen
           /\ job'[s].asks = x
<1>1. job[s] \in Job /\ job \in [Sessions -> Job \cup {NoJob}]
  BY DEF TypeOK
<1>2. /\ job'[s] = [job[s] EXCEPT !.pc = "calling", !.asks = x]
      /\ \A t \in Sessions \ {s} : job'[t] = job[t]
  BY <1>1
<1>3. job'[s] \in Job
  BY <1>1, <1>2 DEF Job
<1>4. /\ job'[s].p = job[s].p
      /\ job'[s].kind = job[s].kind /\ job'[s].pc = "calling"
      /\ job'[s].verdict = job[s].verdict /\ job'[s].seen = job[s].seen
      /\ job'[s].asks = x
  BY <1>1, <1>2 DEF Job
<1>5. job' \in [Sessions -> Job \cup {NoJob}]
  BY <1>1, <1>3
<1>6. QED
  BY <1>2, <1>3, <1>4, <1>5, NoJobIsNoJob

\* A job that begins.
LEMMA BeginFields ==
    ASSUME TypeOK, NEW s \in Sessions, NEW p \in Purchases,
           NEW kind \in Refunds \cup {"deliver"},
           NEW pc \in {"debited", "calling", "waiting", "answered",
                       "loaded", "owing", "credited"},
           NEW v \in {"none", "success", "pending", "failed", "timeout", "reverse"},
           Begin(s, kind, p, pc, v)
    PROVE  /\ job[s] = NoJob
           /\ job' \in [Sessions -> Job \cup {NoJob}]
           /\ disturbed' \in SUBSET Purchases
           /\ \A t \in Sessions \ {s} : job'[t] = job[t]
           /\ job'[s] # NoJob /\ job'[s].p = p
           /\ job'[s].kind = kind /\ job'[s].pc = pc
           /\ job'[s].verdict = v /\ job'[s].seen = status[p]
           /\ job'[s].asks = Asks(kind, p)
<1> DEFINE j == [kind |-> kind, p |-> p, pc |-> pc, verdict |-> v,
                 asks |-> Asks(kind, p), seen |-> status[p]]
<1>1. status[p] \in Status /\ job \in [Sessions -> Job \cup {NoJob}]
  BY DEF TypeOK
<1>a. Asks(kind, p) \in Sellers \cup {"none"}
  BY RouteFields DEF Asks, Sellers
<1>2. j \in Job
  BY <1>1, <1>a DEF Job
<1>3. job'[s] = j /\ \A t \in Sessions \ {s} : job'[t] = job[t]
  BY <1>1 DEF Begin
<1>4. job' \in [Sessions -> Job \cup {NoJob}]
  BY <1>1, <1>2 DEF Begin
<1>5. disturbed' \in SUBSET Purchases
  BY DEF Begin, TypeOK
<1>6. QED
  BY <1>2, <1>3, <1>4, <1>5, NoJobIsNoJob DEF Begin

\* A job that ends.
LEMMA EndFields ==
    ASSUME TypeOK, NEW s \in Sessions, job' = [job EXCEPT ![s] = NoJob]
    PROVE  /\ job' \in [Sessions -> Job \cup {NoJob}]
           /\ \A t \in Sessions \ {s} : job'[t] = job[t]
           /\ job'[s] = NoJob
BY DEF TypeOK

\* One row more.
LEMMA PostRow ==
    ASSUME TypeOK, NEW p \in Purchases, NEW row \in Rows, NEW a \in Int,
           Post(p, row, a)
    PROVE  /\ ledger' \in [Purchases -> [Rows -> Nat]]
           /\ balance' \in Int
           /\ \A q \in Purchases \ {p} : ledger'[q] = ledger[q]
           /\ ledger'[p][row] = ledger[p][row] + 1
           /\ \A r \in Rows \ {row} : ledger'[p][r] = ledger[p][r]
<1>1. ledger \in [Purchases -> [Rows -> Nat]] /\ balance \in Int
  BY DEF TypeOK
<1>2. /\ ledger' = [ledger EXCEPT ![p] = [ledger[p] EXCEPT ![row] = ledger[p][row] + 1]]
      /\ balance' = balance + a
  BY <1>1 DEF Post
<1>3. [ledger[p] EXCEPT ![row] = ledger[p][row] + 1] \in [Rows -> Nat]
  BY <1>1
<1>4. QED
  BY <1>1, <1>2, <1>3

\* What a row more does to the counts of its purchase.
LEMMA PostHolds ==
    ASSUME TypeOK, NEW p \in Purchases, NEW row \in Rows, NEW a \in Int,
           Post(p, row, a),
           NEW d \in Nat, NEW r \in Nat, NEW v \in Nat, Holds(p, d, r, v)
    PROVE  /\ row = "debit" => Holds(p, d + 1, r, v)'
           /\ row \in Refunds => Holds(p, d, r + 1, v)'
           /\ row = "reversal" => Holds(p, d, r, v + 1)'
<1>1. /\ ledger[p] \in [Rows -> Nat] /\ ledger'[p] \in [Rows -> Nat]
      /\ ledger'[p][row] = ledger[p][row] + 1
      /\ \A q \in Rows \ {row} : ledger'[p][q] = ledger[p][q]
  BY PostRow DEF TypeOK
<1>2. \A q \in Rows : ledger[p][q] \in Nat /\ ledger'[p][q] \in Nat
  BY <1>1
<1>3. CASE row = "debit"
  <2>1. /\ ledger'[p]["debit"] = ledger[p]["debit"] + 1
        /\ ledger'[p]["reversal"] = ledger[p]["reversal"]
        /\ Refunded(p)' = Refunded(p)
    BY <1>1, <1>3 DEF Refunded, Rows, Refunds
  <2>2. QED
    BY <2>1, <1>3 DEF Holds, Refunds
<1>4. CASE row = "reversal"
  <2>1. /\ ledger'[p]["reversal"] = ledger[p]["reversal"] + 1
        /\ ledger'[p]["debit"] = ledger[p]["debit"]
        /\ Refunded(p)' = Refunded(p)
    BY <1>1, <1>4 DEF Refunded, Rows, Refunds
  <2>2. QED
    BY <2>1, <1>4 DEF Holds, Refunds
<1>5. CASE row \in Refunds
  <2>1. /\ ledger'[p]["debit"] = ledger[p]["debit"]
        /\ ledger'[p]["reversal"] = ledger[p]["reversal"]
    BY <1>1, <1>5 DEF Rows, Refunds
  <2>2. Refunded(p)' = Refunded(p) + 1
    BY <1>1, <1>2, <1>5 DEF Refunded, Rows, Refunds
  <2>3. QED
    BY <2>1, <2>2, <1>5 DEF Holds, Refunds
<1>6. QED
  BY <1>3, <1>4, <1>5 DEF Rows

\* A refund more is a refund.
LEMMA PostRefunds ==
    ASSUME TypeOK, NEW p \in Purchases, NEW row \in Rows, NEW a \in Int,
           Post(p, row, a)
    PROVE  \A q \in Purchases :
              /\ Refunded(q)' >= Refunded(q)
              /\ q = p /\ row \in Refunds => Refunded(q)' >= 1
<1> SUFFICES ASSUME NEW q \in Purchases
             PROVE  /\ Refunded(q)' >= Refunded(q)
                    /\ q = p /\ row \in Refunds => Refunded(q)' >= 1
  OBVIOUS
<1>1. ledger[q] \in [Rows -> Nat] /\ ledger'[q] \in [Rows -> Nat]
  BY PostRow DEF TypeOK
<1>2. \A r \in Rows : ledger'[q][r] >= ledger[q][r] /\ ledger[q][r] \in Nat
  BY <1>1, PostRow
<1>3. q = p => ledger'[q][row] >= 1
  BY <1>1, PostRow
<1>4. QED
  BY <1>1, <1>2, <1>3 DEF Refunded, Rows, Refunds

\* Write leaves the other purchases alone.
LEMMA WriteStatus ==
    ASSUME TypeOK, NEW s \in Sessions, job[s] # NoJob, NEW new \in Status,
           Write(s, new)
    PROVE  /\ status' \in [Purchases -> Status]
           /\ \A q \in Purchases \ {job[s].p} : status'[q] = status[q]
           /\ job[s].seen # new => status'[job[s].p] = new
           /\ job[s].seen = new => status'[job[s].p] = status[job[s].p]
BY JobFields DEF Write, TypeOK

-----------------------------------------------------------------------------
(***************************************************************************)
(* Type correctness                                                        *)
(***************************************************************************)

\* One order moves on.
OrderBecomes(p, x, o) == order' = [order EXCEPT ![p][x] = o]

\* Types of an order that moves on.
LEMMA OrderType ==
    ASSUME TypeOK, NEW p \in Purchases, NEW x \in Sellers,
           NEW o \in Fate,
           OrderBecomes(p, x, o)
    PROVE  /\ order' \in [Purchases -> [Sellers -> Fate]]
           /\ order'[p][x] = o
           /\ \A q \in Purchases, y \in Sellers :
                  q # p \/ y # x => order'[q][y] = order[q][y]
<1>1. order \in [Purchases -> [Sellers -> Fate]]
  BY DEF TypeOK
<1>2. order' = [order EXCEPT ![p] = [order[p] EXCEPT ![x] = o]]
  BY <1>1 DEF OrderBecomes
<1>3. [order[p] EXCEPT ![x] = o] \in [Sellers -> Fate]
  BY <1>1
<1>4. QED
  BY <1>1, <1>2, <1>3

\* An order that is placed unless it has been.
LEMMA PlaceType ==
    ASSUME TypeOK, NEW p \in Purchases, NEW x \in Sellers,
           PlaceAt(p, x)
    PROVE  /\ order' \in [Purchases -> [Sellers -> Fate]]
           /\ order'[p][x] # "none"
           /\ \A q \in Purchases, y \in Sellers :
                  order[q][y] # "none" => order'[q][y] = order[q][y]
<1>1. /\ order[p][x] \in Fate
      /\ order' = [order EXCEPT ![p][x] =
                        IF order[p][x] = "none" THEN "open" ELSE order[p][x]]
  BY DEF TypeOK, PlaceAt
<1>2. \E o \in Fate : o = IF order[p][x] = "none" THEN "open" ELSE order[p][x]
  BY <1>1 DEF Fate
<1>3. PICK o \in Fate : /\ OrderBecomes(p, x, o)
                        /\ o = IF order[p][x] = "none" THEN "open" ELSE order[p][x]
  BY <1>1, <1>2 DEF OrderBecomes
<1>4. /\ order' \in [Purchases -> [Sellers -> Fate]]
      /\ order'[p][x] = o
      /\ \A q \in Purchases, y \in Sellers : q # p \/ y # x => order'[q][y] = order[q][y]
  BY <1>3, OrderType
<1>5. ASSUME NEW q \in Purchases, NEW y \in Sellers, order[q][y] # "none"
      PROVE  order'[q][y] = order[q][y]
  <2>1. CASE q = p /\ y = x
    BY <2>1, <1>3, <1>4, <1>5
  <2>2. CASE q # p \/ y # x
    BY <2>2, <1>4, <1>5
  <2>3. QED
    BY <2>1, <2>2
<1>6. QED
  BY <1>3, <1>4, <1>5

\* Only a thread with a job advances.
LEMMA AdvanceBusy ==
    ASSUME NEW s \in Sessions, Advance(s)
    PROVE  job[s] # NoJob
BY DEF Advance, Record, Place, Answer, FallBack, Reload, Settle, LookUpRefund, CommitRefund,
       MarkRefunded, RefundRefused, LookUpReversal, CommitReversal,
       ReversalRefused, AmigoAnswers, At

\* Whoever orders, or waits for an answer, has somebody to ask, and an order there.
LEMMA AsksSeller ==
    ASSUME TypeOK, NEW s \in Sessions, job[s] # NoJob, Sound(s)
    PROVE  /\ job[s].pc \in {"calling", "waiting"} => job[s].asks \in Sellers
           /\ job[s].pc = "waiting" => order[job[s].p][job[s].asks] \in Decided
<1>1. job[s].p \in Purchases
  BY JobFields
<1>2. PICK p \in Purchases : p = job[s].p
  BY <1>1
<1>3. job[s].pc \in {"calling", "waiting"} => job[s].asks \in Sellers
  BY <1>2, RouteFields DEF Sound, Sellers
<1>4. ASSUME job[s].pc = "waiting"
      PROVE  order[job[s].p][job[s].asks] \in Decided
  <2>1. order[p][job[s].asks] \in Fate
    BY <1>3, <1>4 DEF TypeOK
  <2>2. QED
    BY <1>2, <1>4, <2>1 DEF Sound, Fate, Decided
<1>5. QED
  BY <1>3, <1>4

\* What a request makes of an answer.
LEMMA AnswerFacts ==
    ASSUME TypeOK, NEW s \in Sessions, Sound(s), Answer(s)
    PROVE  \E v \in {"success", "pending", "failed"}, clear \in BOOLEAN :
              /\ job' = [job EXCEPT ![s].pc = "answered", ![s].verdict = v]
              /\ Hear(job[s].p, clear)
              /\ v = "failed" => ~HasFallback(s)
              /\ v = "success" /\ clear => order[job[s].p][job[s].asks] = "delivered"
              /\ v = "failed" /\ clear => Rejected(job[s].p, job[s].asks)
<1>1. job[s] # NoJob /\ job[s].pc = "waiting"
  BY DEF Answer, At
<1>2. PICK x \in Sellers, fate \in Decided :
          x = job[s].asks /\ fate = order[job[s].p][job[s].asks]
  BY <1>1, AsksSeller
<1>3. PICK a \in Heard[x][fate] :
          /\ a.verdict = "failed" => ~HasFallback(s)
          /\ Hear(job[s].p, a.clear)
          /\ job' = [job EXCEPT ![s].pc = "answered", ![s].verdict = a.verdict]
  BY <1>2 DEF Answer
<1>4. Reading(a, fate) /\ a.verdict \in {"success", "pending", "failed"}
  BY HeardIsRead
<1>5. QED
  BY <1>2, <1>3, <1>4 DEF Reading, Rejected

\* A request falls back after a failure, heard from the first of its sellers.
LEMMA FallBackFacts ==
    ASSUME TypeOK, NEW s \in Sessions, Sound(s), FallBack(s)
    PROVE  /\ route[job[s].p].second \in Sellers
           /\ job' = [job EXCEPT ![s].pc = "calling", ![s].asks = route[job[s].p].second]
           /\ \E clear \in BOOLEAN :
                 /\ Hear(job[s].p, clear)
                 /\ clear => Rejected(job[s].p, route[job[s].p].first)
<1>1. job[s] # NoJob /\ job[s].pc = "waiting" /\ HasFallback(s)
  BY DEF FallBack, At
<1>2. PICK p \in Purchases : p = job[s].p
  BY <1>1, JobFields
<1>3. PICK x \in Sellers, fate \in Decided :
          x = job[s].asks /\ fate = order[p][job[s].asks]
  BY <1>1, <1>2, AsksSeller
<1>4. PICK a \in Heard[x][fate] : a.verdict = "failed" /\ Hear(p, a.clear)
  BY <1>2, <1>3 DEF FallBack
<1>5. Reading(a, fate)
  BY HeardIsRead
<1>6. x = route[p].first /\ route[p].second \in Sellers
  BY <1>1, <1>2, <1>3, RouteFields DEF HasFallback
<1>7. QED
  BY <1>2, <1>3, <1>4, <1>5, <1>6 DEF Reading, Rejected, FallBack

\* The worker ends, or has something to settle or to refund.
LEMMA AmigoFacts ==
    ASSUME TypeOK, Sound(Worker), AmigoAnswers
    PROVE  \E clear \in BOOLEAN :
              /\ Hear(job[Worker].p, clear)
              /\ \/ End(Worker)
                 \/ /\ UNCHANGED disturbed
                    /\ \E v \in {"success", "failed", "timeout"} :
                          /\ job' = [job EXCEPT ![Worker].pc = "loaded",
                                                ![Worker].verdict = v]
                          /\ v = "success" /\ clear =>
                                order[job[Worker].p]["amigo"] = "delivered"
                          /\ v = "failed" /\ clear => Rejected(job[Worker].p, "amigo")
                          /\ v = "timeout" => job[Worker].p \in old
<1>1. job[Worker] # NoJob /\ job[Worker].pc = "waiting" /\ Worker \in Sessions
  BY DEF AmigoAnswers, At, Sessions
<1>2. job[Worker].asks = "amigo"
  BY DEF Sound
<1>3. PICK fate \in Decided : fate = order[job[Worker].p]["amigo"]
  BY <1>1, <1>2, AsksSeller
<1>4. PICK a \in Rechecked[fate] :
          /\ Hear(job[Worker].p, a.clear)
          /\ \/ /\ a.verdict \in {"success", "failed"} /\ UNCHANGED disturbed
                /\ job' = [job EXCEPT ![Worker].pc = "loaded",
                                      ![Worker].verdict = a.verdict]
             \/ /\ job[Worker].p \in old /\ UNCHANGED disturbed
                /\ job' = [job EXCEPT ![Worker].pc = "loaded",
                                      ![Worker].verdict = "timeout"]
             \/ End(Worker)
  BY <1>3 DEF AmigoAnswers
<1>5. Reading(a, fate)
  BY RecheckIsRead
<1>6. QED
  BY <1>3, <1>4, <1>5 DEF Reading, Rejected

\* The steps of a job keep the types of what they write.
LEMMA AdvanceType ==
    ASSUME TypeOK, NEW s \in Sessions, Advance(s), Sound(s)
    PROVE  TypeOK'
<1> USE DEF rows, world, orders
<1>1. CASE Record(s)
  <2>1. job[s] # NoJob
    BY <1>1 DEF Record, At
  <2>2. job' \in [Sessions -> Job \cup {NoJob}]
    BY <1>1, <2>1, GotoFields DEF Record, Goto
  <2>3. status' \in [Purchases -> Status]
    BY <1>1, <2>1, JobFields DEF Record, TypeOK, Status
  <2>4. QED
    BY <1>1, <2>2, <2>3 DEF Record, Goto, TypeOK
<1>2. CASE Place(s)
  <2>1. job[s] # NoJob
    BY <1>2 DEF Place, At
  <2>2. job' \in [Sessions -> Job \cup {NoJob}]
    BY <1>2, <2>1, GotoFields DEF Place, Goto
  <2>3. order' \in [Purchases -> [Sellers -> Fate]]
    BY <1>2, <2>1, AsksSeller, JobFields, PlaceType DEF Place, At
  <2>4. QED
    BY <1>2, <2>2, <2>3 DEF Place, Goto, TypeOK
<1>3. CASE Answer(s)
  <2>1. job[s] # NoJob /\ job[s].p \in Purchases
    BY <1>3, JobFields DEF Answer, At
  <2>a. PICK v \in {"success", "pending", "failed"}, clear \in BOOLEAN :
            /\ job' = [job EXCEPT ![s].pc = "answered", ![s].verdict = v]
            /\ Hear(job[s].p, clear)
    BY <1>3, AnswerFacts
  <2>b. job' \in [Sessions -> Job \cup {NoJob}]
    BY <2>1, <2>a, VerdictFields
  <2>2. job' \in [Sessions -> Job \cup {NoJob}] /\ unclear' \in SUBSET Purchases
    BY <2>1, <2>a, <2>b DEF Hear, TypeOK
  <2>3. QED
    BY <1>3, <2>2 DEF Answer, TypeOK
<1>a. CASE FallBack(s)
  <2>1. job[s] # NoJob /\ job[s].p \in Purchases
    BY <1>a, JobFields DEF FallBack, At
  <2>a. job' \in [Sessions -> Job \cup {NoJob}]
    BY <1>a, <2>1, FallBackFacts, FallBackFields
  <2>b. \E clear \in BOOLEAN : Hear(job[s].p, clear)
    BY <1>a, FallBackFacts
  <2>2. job' \in [Sessions -> Job \cup {NoJob}] /\ unclear' \in SUBSET Purchases
    BY <2>1, <2>a, <2>b DEF Hear, TypeOK
  <2>3. QED
    BY <1>a, <2>2 DEF FallBack, TypeOK
<1>4. CASE Reload(s)
  <2>1. job[s] # NoJob
    BY <1>4 DEF Reload, At
  <2>2. job' \in [Sessions -> Job \cup {NoJob}]
    BY <1>4, <2>1, ReloadFields DEF Reload
  <2>3. QED
    BY <1>4, <2>2 DEF Reload, TypeOK
<1>5. CASE Settle(s)
  <2>1. job[s] # NoJob
    BY <1>5 DEF Settle, At
  <2>2. status' \in [Purchases -> Status]
    BY <1>5, <2>1, WriteStatus DEF Settle, Status
  <2>3. QED
    BY <1>5, <2>2, EndFields DEF Settle, End, TypeOK
<1>6. CASE LookUpRefund(s)
  <2>1. job[s] # NoJob
    BY <1>6 DEF LookUpRefund, At
  <2>2. job' \in [Sessions -> Job \cup {NoJob}]
    <3> DEFINE pc == IF ledger[job[s].p][job[s].kind] = 0 THEN "owing" ELSE "credited"
    <3>1. pc \in {"owing", "credited"} /\ job' = [job EXCEPT ![s].pc = pc]
      BY <1>6 DEF LookUpRefund, Goto
    <3> HIDE DEF pc
    <3>2. QED
      BY <3>1, <2>1, GotoFields
  <2>3. QED
    BY <1>6, <2>2 DEF LookUpRefund, Goto, TypeOK
<1>7. CASE CommitRefund(s)
  <2>1. job[s] # NoJob
    BY <1>7 DEF CommitRefund, At
  <2>2. ledger' \in [Purchases -> [Rows -> Nat]] /\ balance' \in Int
    <3>1. job[s].kind \in Rows
      BY <1>7 DEF CommitRefund, Refunding, Sound, Rows
    <3>2. Post(job[s].p, job[s].kind, 1) /\ job[s].p \in Purchases /\ 1 \in Int
      BY <1>7, <2>1, JobFields DEF CommitRefund
    <3>3. QED
      BY <3>1, <3>2, PostRow
  <2>3. status' \in [Purchases -> Status]
    BY <1>7, <2>1, WriteStatus DEF CommitRefund, Status
  <2>4. job' \in [Sessions -> Job \cup {NoJob}] /\ UNCHANGED disturbed
    BY <1>7, <2>1, EndFields, GotoFields DEF CommitRefund, End, Goto
  <2>5. QED
    BY <1>7, <2>2, <2>3, <2>4 DEF CommitRefund, TypeOK
<1>8. CASE MarkRefunded(s)
  <2>1. job[s] # NoJob
    BY <1>8 DEF MarkRefunded, At
  <2>2. status' \in [Purchases -> Status]
    BY <1>8, <2>1, JobFields DEF MarkRefunded, Status, TypeOK
  <2>3. QED
    BY <1>8, <2>2, EndFields DEF MarkRefunded, End, TypeOK
<1>9. CASE RefundRefused(s)
  <2>1. job[s] # NoJob
    BY <1>9 DEF RefundRefused, At
  <2>2. status' \in [Purchases -> Status] /\ refused' \in SUBSET Purchases
    BY <1>9, <2>1, JobFields, WriteStatus DEF RefundRefused, Status, TypeOK
  <2>3. QED
    BY <1>9, <2>2, EndFields DEF RefundRefused, End, TypeOK
<1>10. CASE LookUpReversal(s)
  <2>1. job[s] # NoJob
    BY <1>10 DEF LookUpReversal, At
  <2>2. job' \in [Sessions -> Job \cup {NoJob}]
    BY <1>10, <2>1, SuccessFields, GotoFields DEF LookUpReversal
  <2>3. QED
    BY <1>10, <2>2 DEF LookUpReversal, TypeOK
<1>11. CASE CommitReversal(s)
  <2>1. job[s] # NoJob
    BY <1>11 DEF CommitReversal, At
  <2>2. ledger' \in [Purchases -> [Rows -> Nat]] /\ balance' \in Int
    <3>1. "reversal" \in Rows /\ -1 \in Int
      BY DEF Rows
    <3>2. Post(job[s].p, "reversal", -1) /\ job[s].p \in Purchases
      BY <1>11, <2>1, JobFields DEF CommitReversal
    <3>3. QED
      BY <3>1, <3>2, PostRow
  <2>3. status' \in [Purchases -> Status]
    BY <1>11, <2>1, WriteStatus DEF CommitReversal, Status
  <2>4. QED
    BY <1>11, <2>2, <2>3, EndFields DEF CommitReversal, End, TypeOK
<1>12. CASE ReversalRefused(s)
  <2>1. job[s] # NoJob
    BY <1>12 DEF ReversalRefused, At
  <2>2. status' \in [Purchases -> Status]
    BY <1>12, <2>1, WriteStatus DEF ReversalRefused, Status, TypeOK
  <2>3. QED
    BY <1>12, <2>2, EndFields DEF ReversalRefused, End, TypeOK
<1>13. CASE s = Worker /\ AmigoAnswers
  <2>1. job[s] # NoJob
    BY <1>13 DEF AmigoAnswers, At
  <2>2. job' \in [Sessions -> Job \cup {NoJob}] /\ UNCHANGED disturbed
    BY <1>13, <2>1, AmigoFacts, VerdictFields, EndFields DEF End
  <2>3. unclear' \in SUBSET Purchases
    BY <1>13, <2>1, AmigoFacts, JobFields DEF Hear, TypeOK
  <2>4. QED
    BY <1>13, <2>2, <2>3 DEF AmigoAnswers, TypeOK
<1>14. QED
  BY <1>1, <1>2, <1>3, <1>a, <1>4, <1>5, <1>6, <1>7, <1>8, <1>9, <1>10, <1>11, <1>12,
     <1>13 DEF Advance

\* Every action keeps the types.
LEMMA TypeStep ==
    ASSUME TypeOK, [Next]_vars, \A s \in Sessions : job[s] # NoJob => Sound(s)
    PROVE  TypeOK'
<1> USE DEF rows, world, orders
<1>1. ASSUME NEW s \in Handlers, NEW p \in Purchases, Debit(s, p)
      PROVE  TypeOK'
  <2>1. /\ job' \in [Sessions -> Job \cup {NoJob}]
        /\ disturbed' \in SUBSET Purchases
    BY <1>1, BeginFields DEF Debit, Refunds, Sessions
  <2>2. ledger' \in [Purchases -> [Rows -> Nat]] /\ balance' \in Int
    <3>1. "debit" \in Rows /\ -1 \in Int
      BY DEF Rows
    <3>2. Post(p, "debit", -1)
      BY <1>1 DEF Debit
    <3>3. QED
      BY <3>1, <3>2, PostRow
  <2>3. QED
    BY <1>1, <2>1, <2>2 DEF Debit, TypeOK
<1>2. ASSUME NEW s \in Handlers, NEW p \in Purchases, Webhook(s, p)
      PROVE  TypeOK'
  <2>1. /\ job' \in [Sessions -> Job \cup {NoJob}]
        /\ disturbed' \in SUBSET Purchases
    BY <1>2, BeginFields DEF Webhook, Refunds, Sessions
  <2>2. QED
    BY <1>2, <2>1 DEF Webhook, TypeOK
<1>3. ASSUME NEW s \in Handlers, NEW p \in Purchases, AdminFails(s, p)
      PROVE  TypeOK'
  <2>1. /\ job' \in [Sessions -> Job \cup {NoJob}]
        /\ disturbed' \in SUBSET Purchases
    BY <1>3, BeginFields DEF AdminFails, Refunds, Sessions
  <2>2. QED
    BY <1>3, <2>1 DEF AdminFails, TypeOK
<1>4. ASSUME NEW s \in Handlers, NEW p \in Purchases, AdminDelivers(s, p)
      PROVE  TypeOK'
  <2>1. /\ job' \in [Sessions -> Job \cup {NoJob}]
        /\ disturbed' \in SUBSET Purchases
    <3>1. CASE status[p] = "REFUNDED"
      BY <1>4, <3>1, BeginFields DEF AdminDelivers, Sessions
    <3>2. CASE status[p] # "REFUNDED"
      BY <1>4, <3>2, BeginFields DEF AdminDelivers, Sessions
    <3>3. QED
      BY <3>1, <3>2
  <2>2. QED
    BY <1>4, <2>1 DEF AdminDelivers, TypeOK
<1>5. ASSUME NEW p \in Purchases, WorkerLoads(p)
      PROVE  TypeOK'
  <2>1. /\ job' \in [Sessions -> Job \cup {NoJob}]
        /\ disturbed' \in SUBSET Purchases
    BY <1>5, BeginFields DEF WorkerLoads, Refunds, Sessions
  <2>2. order' \in [Purchases -> [Sellers -> Fate]]
    BY <1>5, PlaceType DEF WorkerLoads, Sellers
  <2>3. QED
    BY <1>5, <2>1, <2>2 DEF WorkerLoads, TypeOK
<1>6. ASSUME NEW s \in Sessions, Advance(s)
      PROVE  TypeOK'
  BY <1>6, AdvanceBusy, AdvanceType
<1>7. ASSUME NEW s \in Sessions, Crash(s)
      PROVE  TypeOK'
  <2>1. job[s] # NoJob /\ job[s].p \in Purchases
    BY <1>7, JobFields DEF Crash
  <2>2. job' \in [Sessions -> Job \cup {NoJob}] /\ disturbed' \in SUBSET Purchases
    BY <1>7, <2>1, EndFields DEF Crash, TypeOK
  <2>3. QED
    BY <1>7, <2>2 DEF Crash, TypeOK
<1>8. ASSUME NEW p \in Purchases, NEW x \in Sellers, ProviderDecides(p, x)
      PROVE  TypeOK'
  <2>1. PICK o \in {"delivered", "rejected"} : OrderBecomes(p, x, o)
    BY <1>8 DEF ProviderDecides, OrderBecomes
  <2>2. order' \in [Purchases -> [Sellers -> Fate]]
    BY <2>1, OrderType DEF Fate
  <2>3. QED
    BY <1>8, <2>2 DEF ProviderDecides, TypeOK
<1>9. ASSUME NEW p \in Purchases, Age(p)
      PROVE  TypeOK'
  BY <1>9 DEF Age, TypeOK
<1>10. CASE OperatorSetsLock
  BY <1>10 DEF OperatorSetsLock, TypeOK
<1>11. CASE UNCHANGED vars
  BY <1>11 DEF vars, TypeOK
<1>12. QED
  BY <1>1, <1>2, <1>3, <1>4, <1>5, <1>6, <1>7, <1>8, <1>9, <1>10, <1>11 DEF Next

-----------------------------------------------------------------------------
(***************************************************************************)
(* What a step leaves alone                                                *)
(***************************************************************************)

\* A job works on one purchase and leaves the others, and the other threads'
\* jobs, as they are.
LEMMA AdvanceFrame ==
    ASSUME TypeOK, NEW s \in Sessions, Advance(s), Sound(s)
    PROVE  /\ disturbed' = disturbed
           /\ \A t \in Sessions \ {s} : job'[t] = job[t]
           /\ job'[s] # NoJob => /\ job'[s].p = job[s].p
                                 /\ job'[s].kind = job[s].kind
           /\ \A q \in Purchases \ {job[s].p} :
                  status'[q] = status[q] /\ ledger'[q] = ledger[q]
<1> DEFINE Others == \A q \in Purchases \ {job[s].p} :
                         status'[q] = status[q] /\ ledger'[q] = ledger[q]
           Mine == /\ \A t \in Sessions \ {s} : job'[t] = job[t]
                   /\ job'[s] # NoJob => /\ job'[s].p = job[s].p
                                         /\ job'[s].kind = job[s].kind
<1> USE DEF rows
<1>0. job[s] # NoJob /\ job[s].p \in Purchases
  BY AdvanceBusy, JobFields
<1>a. ASSUME Goto(s, job'[s].pc),
             job'[s].pc \in {"debited", "calling", "waiting", "answered",
                             "loaded", "owing", "credited"}
      PROVE  disturbed' = disturbed /\ Mine
  BY <1>0, <1>a, GotoFields DEF Goto
<1>b. ASSUME End(s)
      PROVE  disturbed' = disturbed /\ Mine
  BY <1>b, EndFields DEF End
<1>c. ASSUME NEW new \in Status, Write(s, new), UNCHANGED ledger
      PROVE  Others
  BY <1>0, <1>c, WriteStatus
<1>1. CASE Record(s)
  <2>1. \A q \in Purchases \ {job[s].p} : status'[q] = status[q]
    BY <1>0, <1>1 DEF Record, TypeOK
  <2>2. disturbed' = disturbed /\ Mine
    BY <1>0, <1>1, GotoFields DEF Record, Goto
  <2>3. QED
    BY <1>1, <2>1, <2>2 DEF Record
<1>2. CASE Place(s)
  BY <1>0, <1>2, GotoFields DEF Place, Goto
<1>3. CASE Answer(s)
  <2>1. PICK v \in {"success", "pending", "failed"} :
            job' = [job EXCEPT ![s].pc = "answered", ![s].verdict = v]
    BY <1>3, AnswerFacts
  <2>2. Mine
    BY <1>0, <2>1, VerdictFields
  <2>3. QED
    BY <1>3, <2>2 DEF Answer
<1>d. CASE FallBack(s)
  BY <1>0, <1>d, FallBackFacts, FallBackFields DEF FallBack
<1>4. CASE Reload(s)
  BY <1>0, <1>4, ReloadFields DEF Reload
<1>5. CASE Settle(s)
  <2>1. Others
    BY <1>5, <1>c DEF Settle, Status
  <2>2. QED
    BY <1>5, <1>b, <2>1 DEF Settle
<1>6. CASE LookUpRefund(s)
  <2>1. PICK pc \in {"owing", "credited"} : Goto(s, pc)
    BY <1>6 DEF LookUpRefund
  <2>2. disturbed' = disturbed /\ Mine
    BY <1>0, <2>1, GotoFields DEF Goto
  <2>3. QED
    BY <1>6, <2>2 DEF LookUpRefund
<1>7. CASE CommitRefund(s)
  <2>1. \A q \in Purchases \ {job[s].p} : status'[q] = status[q]
    BY <1>0, <1>7, WriteStatus DEF CommitRefund, Status
  <2>2. \A q \in Purchases \ {job[s].p} : ledger'[q] = ledger[q]
    <3>1. job[s].kind \in Rows /\ 1 \in Int
      BY <1>7 DEF CommitRefund, Refunding, Sound, Rows
    <3>2. Post(job[s].p, job[s].kind, 1)
      BY <1>7 DEF CommitRefund
    <3>3. QED
      BY <1>0, <3>1, <3>2, PostRow
  <2>3. disturbed' = disturbed /\ Mine
    BY <1>0, <1>7, <1>b, GotoFields DEF CommitRefund, Goto
  <2>4. QED
    BY <2>1, <2>2, <2>3
<1>8. CASE MarkRefunded(s)
  <2>1. \A q \in Purchases \ {job[s].p} : status'[q] = status[q]
    BY <1>0, <1>8 DEF MarkRefunded, TypeOK
  <2>2. QED
    BY <1>8, <1>b, <2>1 DEF MarkRefunded
<1>9. CASE RefundRefused(s)
  <2>1. Others
    BY <1>9, <1>c DEF RefundRefused, Status
  <2>2. QED
    BY <1>9, <1>b, <2>1 DEF RefundRefused
<1>10. CASE LookUpReversal(s)
  BY <1>0, <1>10, SuccessFields, GotoFields DEF LookUpReversal
<1>11. CASE CommitReversal(s)
  <2>1. \A q \in Purchases \ {job[s].p} : status'[q] = status[q]
    BY <1>0, <1>11, WriteStatus DEF CommitReversal, Status
  <2>2. \A q \in Purchases \ {job[s].p} : ledger'[q] = ledger[q]
    <3>1. "reversal" \in Rows /\ -1 \in Int
      BY DEF Rows
    <3>2. Post(job[s].p, "reversal", -1)
      BY <1>11 DEF CommitReversal
    <3>3. QED
      BY <1>0, <3>1, <3>2, PostRow
  <2>3. QED
    BY <1>11, <1>b, <2>1, <2>2 DEF CommitReversal
<1>12. CASE ReversalRefused(s)
  <2>1. Others
    BY <1>12, <1>c DEF ReversalRefused, Status
  <2>2. QED
    BY <1>12, <1>b, <2>1 DEF ReversalRefused
<1>13. CASE s = Worker /\ AmigoAnswers
  <2>1. \/ End(s)
        \/ /\ UNCHANGED disturbed
           /\ \E v \in {"success", "failed", "timeout"} :
                 job' = [job EXCEPT ![s].pc = "loaded", ![s].verdict = v]
    BY <1>13, AmigoFacts
  <2>2. ASSUME NEW v \in {"success", "failed", "timeout"},
               job' = [job EXCEPT ![s].pc = "loaded", ![s].verdict = v]
        PROVE  Mine
    BY <1>0, <2>2, VerdictFields
  <2>3. QED
    BY <1>13, <1>b, <2>1, <2>2 DEF AmigoAnswers
<1>14. QED
  BY <1>1, <1>2, <1>3, <1>d, <1>4, <1>5, <1>6, <1>7, <1>8, <1>9, <1>10, <1>11, <1>12,
     <1>13 DEF Advance

\* What is known of the orders, and the history.
Grown(q) ==
    /\ \A x \in Sellers : order[q][x] \in {"delivered", "rejected"} =>
           order'[q][x] = order[q][x]
    /\ \A x \in Sellers : order[q][x] # "none" => order'[q][x] # "none"
    /\ q \in unclear => q \in unclear'
    /\ q \in old => q \in old'
    /\ q \in refused => q \in refused'
    /\ route'[q] = route[q]

\* What the sellers have decided stays decided.
LEMMA OrdersGrow ==
    ASSUME TypeOK, [Next]_vars, \A s \in Sessions : job[s] # NoJob => Sound(s),
           NEW q \in Purchases
    PROVE  Grown(q)
<1> USE DEF rows, world, orders
<1>1. ASSUME UNCHANGED <<order, unclear, old, refused, route>>
      PROVE  Grown(q)
  BY <1>1 DEF Grown
<1>2. ASSUME NEW p \in Purchases, NEW x \in Sellers, PlaceAt(p, x),
             UNCHANGED <<unclear, old, refused, route>>
      PROVE  Grown(q)
  BY <1>2, PlaceType DEF Grown
<1>3. ASSUME NEW p \in Purchases, NEW clear \in BOOLEAN, Hear(p, clear),
             UNCHANGED <<order, old, refused, route>>
      PROVE  Grown(q)
  BY <1>3 DEF Grown, Hear
<1>4. ASSUME NEW s \in Sessions, Advance(s)
      PROVE  Grown(q)
  <2>0. job[s] # NoJob /\ job[s].p \in Purchases /\ Sound(s)
    BY <1>4, AdvanceBusy, JobFields
  <2>1. CASE Place(s)
    BY <1>2, <2>0, <2>1, AsksSeller DEF Place, At
  <2>2. CASE Answer(s)
    <3>1. PICK clear \in BOOLEAN : Hear(job[s].p, clear)
      BY <2>0, <2>2, AnswerFacts
    <3>2. QED
      BY <1>3, <2>0, <2>2, <3>1 DEF Answer
  <2>3. CASE FallBack(s)
    <3>1. PICK clear \in BOOLEAN : Hear(job[s].p, clear)
      BY <2>0, <2>3, FallBackFacts
    <3>2. QED
      BY <1>3, <2>0, <2>3, <3>1 DEF FallBack
  <2>4. CASE s = Worker /\ AmigoAnswers
    <3>1. PICK clear \in BOOLEAN : Hear(job[s].p, clear)
      BY <2>0, <2>4, AmigoFacts
    <3>2. QED
      BY <1>3, <2>0, <2>4, <3>1 DEF AmigoAnswers
  <2>5. CASE RefundRefused(s)
    BY <2>0, <2>5 DEF RefundRefused, Grown
  <2>6. QED
    BY <1>1, <1>4, <2>1, <2>2, <2>3, <2>4, <2>5
       DEF Advance, Record, Reload, Settle, LookUpRefund, CommitRefund, MarkRefunded,
           LookUpReversal, CommitReversal, ReversalRefused
<1>5. ASSUME NEW p \in Purchases, WorkerLoads(p)
      PROVE  Grown(q)
  BY <1>2, <1>5 DEF WorkerLoads, Sellers
<1>6. ASSUME NEW p \in Purchases, NEW x \in Sellers, ProviderDecides(p, x)
      PROVE  Grown(q)
  <2>1. PICK o \in {"delivered", "rejected"} : OrderBecomes(p, x, o)
    BY <1>6 DEF ProviderDecides, OrderBecomes
  <2>2. /\ order'[p][x] = o /\ order[p][x] = "open"
        /\ \A r \in Purchases, y \in Sellers :
               r # p \/ y # x => order'[r][y] = order[r][y]
    BY <1>6, <2>1, OrderType DEF ProviderDecides, Fate
  <2>3. QED
    BY <1>6, <2>2 DEF ProviderDecides, Grown
<1>7. CASE \E p \in Purchases : Age(p)
  BY <1>7 DEF Age, Grown
<1>8. CASE \/ \E s \in Handlers, p \in Purchases :
                 Debit(s, p) \/ Webhook(s, p) \/ AdminFails(s, p) \/ AdminDelivers(s, p)
           \/ \E s \in Sessions : Crash(s)
           \/ OperatorSetsLock
           \/ UNCHANGED vars
  BY <1>1, <1>8 DEF Debit, Webhook, AdminFails, AdminDelivers, Crash,
                    OperatorSetsLock, vars
<1>9. QED
  BY <1>4, <1>5, <1>6, <1>7, <1>8 DEF Next

\* So what a refund stands on, and what a SUCCESS stands on, stays.
LEMMA GroundsStay ==
    ASSUME TypeOK, NEW q \in Purchases, Grown(q)
    PROVE  /\ Delivered(q) => Delivered(q)'
           /\ \A x \in Sellers : Rejected(q, x) => Rejected(q, x)'
           /\ \A kind \in Refunds : Grounds(kind, q) => Grounds(kind, q)'
<1>1. /\ Delivered(q) => Delivered(q)'
      /\ \A x \in Sellers : Rejected(q, x) => Rejected(q, x)'
  BY DEF Grown, Delivered, Rejected
<1>2. ASSUME NEW kind \in Refunds, Grounds(kind, q)
      PROVE  Grounds(kind, q)'
  <2>1. kind = "request" =>
            \A x \in {route'[q].first, route'[q].second} \ {"none"} : Rejected(q, x)'
    BY <1>1, <1>2, RouteFields DEF Grounds, Grown
  <2>2. kind = "webhook" => \E x \in {"smeplug", "autosync"} : Rejected(q, x)'
    BY <1>1, <1>2 DEF Grounds, Sellers
  <2>3. kind = "worker" => q \in old' \/ Rejected(q, "amigo")'
    BY <1>1, <1>2 DEF Grounds, Grown, Sellers
  <2>4. QED
    BY <2>1, <2>2, <2>3 DEF Grounds, Rejected
<1>3. QED
  BY <1>1, <1>2

\* Refunds stay on the ledger, and a new one is of the kind that pays it.
LEMMA NothingTakenBack ==
    ASSUME TypeOK, [Next]_vars, \A s \in Sessions : job[s] # NoJob => Sound(s),
           NEW q \in Purchases
    PROVE  /\ Refunded(q) \in Nat /\ Refunded(q)' \in Nat
           /\ Refunded(q)' >= Refunded(q)
           /\ \A r \in Refunds :
                 \/ ledger'[q][r] = ledger[q][r]
                 \/ \E s \in Sessions : job[s] # NoJob /\ Refunding(s)
                                        /\ job[s].p = q /\ job[s].kind = r
<1> USE DEF rows, world, orders
<1> DEFINE ByJob == \A r \in Refunds :
                       \/ ledger'[q][r] = ledger[q][r]
                       \/ \E s \in Sessions : job[s] # NoJob /\ Refunding(s)
                                              /\ job[s].p = q /\ job[s].kind = r
<1>0. ledger[q] \in [Rows -> Nat] /\ ledger'[q] \in [Rows -> Nat]
  BY TypeStep DEF TypeOK
<1>b. Refunded(q) \in Nat /\ Refunded(q)' \in Nat
  BY <1>0 DEF Refunded, Rows, Refunds
<1>1. ASSUME UNCHANGED ledger
      PROVE  Refunded(q)' >= Refunded(q) /\ ByJob
  BY <1>b, <1>1 DEF Refunded, Rows, Refunds
<1>2. ASSUME NEW p \in Purchases, NEW row \in {"debit", "reversal"}, Post(p, row, -1)
      PROVE  Refunded(q)' >= Refunded(q) /\ ByJob
  <2>1. row \in Rows /\ row \notin Refunds /\ -1 \in Int /\ Refunds \subseteq Rows
    BY DEF Rows, Refunds
  <2>2. Refunded(q)' >= Refunded(q)
    BY <1>2, <2>1, PostRefunds
  <2>3. \A r \in Refunds : ledger'[q][r] = ledger[q][r]
    BY <1>2, <2>1, PostRow
  <2>4. QED
    BY <2>2, <2>3
<1>3. ASSUME NEW s \in Sessions, Advance(s)
      PROVE  Refunded(q)' >= Refunded(q) /\ ByJob
  <2>0. job[s] # NoJob /\ job[s].p \in Purchases /\ Sound(s)
    BY <1>3, AdvanceBusy, JobFields
  <2>1. CASE CommitRefund(s)
    <3>1. /\ job[s].kind \in Rows /\ 1 \in Int /\ Refunds \subseteq Rows /\ Refunding(s)
          /\ Post(job[s].p, job[s].kind, 1)
      BY <2>0, <2>1 DEF CommitRefund, Refunding, Sound, Rows
    <3>2. Refunded(q)' >= Refunded(q)
      BY <2>0, <3>1, PostRefunds
    <3>3. \A r \in Refunds : \/ ledger'[q][r] = ledger[q][r]
                             \/ job[s].p = q /\ job[s].kind = r
      BY <2>0, <3>1, PostRow
    <3>4. QED
      BY <2>0, <3>1, <3>2, <3>3
  <2>2. CASE CommitReversal(s)
    BY <1>2, <2>0, <2>2 DEF CommitReversal
  <2>3. CASE UNCHANGED ledger
    BY <1>1, <2>3
  <2>4. QED
    BY <1>3, <2>1, <2>2, <2>3
       DEF Advance, Record, Place, Answer, FallBack, Reload, Settle, LookUpRefund,
           MarkRefunded, RefundRefused, LookUpReversal, ReversalRefused, AmigoAnswers
<1>4. ASSUME NEW s \in Handlers, NEW p \in Purchases, Debit(s, p)
      PROVE  Refunded(q)' >= Refunded(q) /\ ByJob
  BY <1>2, <1>4 DEF Debit
<1>5. QED
  BY <1>b, <1>1, <1>3, <1>4
     DEF Next, Webhook, AdminFails, AdminDelivers, WorkerLoads, Crash,
         ProviderDecides, Age, OperatorSetsLock, vars

-----------------------------------------------------------------------------
(***************************************************************************)
(* Who refunds, reverses and succeeds                                      *)
(***************************************************************************)

\* Sound, of the fields of a job.
SoundFields(s, p, kind, pc, verdict, asks) ==
    /\ kind = "worker" <=> s = Worker
    /\ verdict = "reverse" => kind = "deliver"
    /\ verdict \in {"failed", "timeout"} \/ pc = "credited" => kind \in Refunds
    /\ verdict = "success" /\ kind # "deliver" /\ p \notin unclear => Delivered(p)
    /\ verdict \in {"failed", "timeout"} /\ p \notin unclear => Grounds(kind, p)
    /\ pc = "credited" => verdict \in {"failed", "timeout"}
    /\ pc \in {"debited", "calling", "answered"} => kind = "request"
    /\ pc = "waiting" => kind \in {"request", "worker"} /\ order[p][asks] # "none"
    /\ kind = "request" => asks \in {route[p].first, route[p].second} \ {"none"}
    /\ kind = "request" /\ asks = route[p].second /\ p \notin unclear =>
          Rejected(p, route[p].first)
    /\ kind = "worker" => asks = "amigo"
    /\ pc = "credited" => Refunded(p) >= 1

\* A job is sound if its fields are.
LEMMA SoundNow ==
    ASSUME NEW s \in Sessions, NEW p, NEW kind, NEW pc, NEW verdict, NEW asks,
           job[s].p = p, job[s].kind = kind, job[s].pc = pc,
           job[s].verdict = verdict, job[s].asks = asks
    PROVE  Sound(s) <=> SoundFields(s, p, kind, pc, verdict, asks)
BY DEF Sound, SoundFields, Refunding

\* The same, of the next state.
LEMMA SoundNext ==
    ASSUME NEW s \in Sessions, NEW p, NEW kind, NEW pc, NEW verdict, NEW asks,
           job'[s].p = p, job'[s].kind = kind, job'[s].pc = pc,
           job'[s].verdict = verdict, job'[s].asks = asks,
           SoundFields(s, p, kind, pc, verdict, asks)'
    PROVE  Sound(s)'
BY DEF Sound, SoundFields, Refunding, Delivered, Grounds, Rejected, Refunded

\* The fields of a sound job stay sound in every step.
LEMMA SoundFieldsKept ==
    ASSUME TypeOK, [Next]_vars, \A r \in Sessions : job[r] # NoJob => Sound(r),
           NEW s \in Sessions, NEW p \in Purchases, NEW kind \in Refunds \cup {"deliver"},
           NEW pc, NEW verdict, NEW asks \in Sellers \cup {"none"},
           SoundFields(s, p, kind, pc, verdict, asks)
    PROVE  SoundFields(s, p, kind, pc, verdict, asks)'
<1>1. Grown(p)
  BY OrdersGrow
<1>2. /\ Delivered(p) => Delivered(p)'
      /\ \A x \in Sellers : Rejected(p, x) => Rejected(p, x)'
      /\ \A k \in Refunds : Grounds(k, p) => Grounds(k, p)'
  BY <1>1, GroundsStay
<1>3. /\ Refunded(p) \in Nat /\ Refunded(p)' \in Nat
      /\ Refunded(p)' >= Refunded(p)
  BY NothingTakenBack
<1>4. /\ p \notin unclear' => p \notin unclear
      /\ route'[p] = route[p]
      /\ route[p].first \in Sellers
  BY <1>1, RouteFields DEF Grown
<1>5. pc = "waiting" => order'[p][asks] # "none"
  <2>1. ASSUME pc = "waiting"
        PROVE  asks \in Sellers
    BY <2>1, RouteFields DEF SoundFields, Sellers
  <2>2. QED
    BY <1>1, <2>1 DEF Grown, SoundFields
<1>6. (Refunded(p) >= 1) => (Refunded(p)' >= 1)
  BY <1>3
<1>7. QED
  BY <1>2, <1>4, <1>5, <1>6 DEF SoundFields

\* A job in progress stays sound.
LEMMA SoundAdvance ==
    ASSUME TypeOK, [Next]_vars, \A r \in Sessions : job[r] # NoJob => Sound(r),
           NEW s \in Sessions, Advance(s), job'[s] # NoJob
    PROVE  Sound(s)'
<1> USE DEF rows
<1>0. job[s] # NoJob /\ job[s].p \in Purchases /\ Sound(s)
  BY AdvanceBusy, JobFields
<1>p. PICK p \in Purchases, kind \in Refunds \cup {"deliver"},
           asks \in Sellers \cup {"none"} :
          p = job[s].p /\ kind = job[s].kind /\ asks = job[s].asks
  BY <1>0, JobFields
<1>v. PICK pc, verdict : pc = job[s].pc /\ verdict = job[s].verdict
  OBVIOUS
<1>1. SoundFields(s, p, kind, pc, verdict, asks)
  BY <1>0, <1>p, <1>v, SoundNow
<1>2. SoundFields(s, p, kind, pc, verdict, asks)'
  BY <1>1, SoundFieldsKept
<1>3. job'[s].p = p /\ job'[s].kind = kind
  BY <1>0, <1>p, AdvanceFrame
<1>4. /\ Grown(p)
      /\ Delivered(p) => Delivered(p)'
      /\ \A x \in Sellers : Rejected(p, x) => Rejected(p, x)'
      /\ \A k \in Refunds : Grounds(k, p) => Grounds(k, p)'
  BY OrdersGrow, GroundsStay
<1>5. /\ p \notin unclear' => p \notin unclear
      /\ route'[p] = route[p]
      /\ route[p].first \in Sellers /\ route[p].second \in Sellers \cup {"none"}
  BY <1>4, RouteFields DEF Grown
<1>6. CASE Record(s)
  <2>1. /\ job'[s].pc = "calling" /\ job'[s].verdict = verdict /\ job'[s].asks = asks
        /\ pc = "debited"
    BY <1>0, <1>p, <1>v, <1>6, GotoFields DEF Record, Goto, At
  <2>2. SoundFields(s, p, kind, "calling", verdict, asks)'
    BY <1>2, <2>1 DEF SoundFields
  <2>3. QED
    BY <1>3, <2>1, <2>2, SoundNext
<1>7. CASE Place(s)
  <2>1. /\ job'[s].pc = "waiting" /\ job'[s].verdict = verdict /\ job'[s].asks = asks
        /\ pc = "calling" /\ PlaceAt(p, asks)
    BY <1>0, <1>p, <1>v, <1>7, GotoFields DEF Place, Goto, At
  <2>2. order'[p][asks] # "none"
    <3>1. asks \in Sellers
      BY <1>0, <1>p, <1>v, <2>1, AsksSeller
    <3>2. QED
      BY <2>1, <3>1, PlaceType
  <2>3. SoundFields(s, p, kind, "waiting", verdict, asks)'
    BY <1>2, <2>1, <2>2 DEF SoundFields
  <2>4. QED
    BY <1>3, <2>1, <2>3, SoundNext
<1>8. CASE Answer(s)
  <2>1. PICK v \in {"success", "pending", "failed"}, clear \in BOOLEAN :
            /\ job' = [job EXCEPT ![s].pc = "answered", ![s].verdict = v]
            /\ Hear(p, clear)
            /\ v = "failed" => ~HasFallback(s)
            /\ v = "success" /\ clear => order[p][asks] = "delivered"
            /\ v = "failed" /\ clear => Rejected(p, asks)
    BY <1>0, <1>p, <1>8, AnswerFacts
  <2>2. /\ job'[s].pc = "answered" /\ job'[s].verdict = v /\ job'[s].asks = asks
    BY <1>0, <1>p, <2>1, VerdictFields
  <2>3. kind = "request" /\ pc = "waiting" /\ asks \in Sellers
    BY <1>0, <1>p, <1>v, <1>8, AsksSeller DEF Answer, At
  <2>4. p \notin unclear' => clear /\ p \notin unclear
    BY <2>1 DEF Hear
  <2>5. v = "success" /\ p \notin unclear' => Delivered(p)'
    BY <1>4, <2>1, <2>3, <2>4 DEF Delivered
  <2>6. ASSUME v = "failed", p \notin unclear'
        PROVE  Grounds(kind, p)'
    <3>1. Rejected(p, asks)' /\ (asks = route[p].second => Rejected(p, route[p].first)')
      BY <1>1, <1>4, <1>5, <2>1, <2>3, <2>4, <2>6 DEF SoundFields
    <3>2. asks = route[p].first => route[p].second = "none"
      BY <1>p, <2>1, <2>6 DEF HasFallback
    <3>3. asks \in {route[p].first, route[p].second} \ {"none"}
      BY <1>1, <2>3 DEF SoundFields
    <3>4. \A x \in {route'[p].first, route'[p].second} \ {"none"} : Rejected(p, x)'
      BY <1>5, <3>1, <3>2, <3>3
    <3>5. QED
      BY <2>3, <3>4 DEF Grounds, Rejected
  <2>7. SoundFields(s, p, kind, "answered", v, asks)'
    BY <1>2, <2>3, <2>5, <2>6 DEF SoundFields, Refunds
  <2>8. QED
    BY <1>3, <2>2, <2>7, SoundNext
<1>9. CASE FallBack(s)
  <2>1. /\ route[p].second \in Sellers
        /\ job' = [job EXCEPT ![s].pc = "calling", ![s].asks = route[p].second]
    BY <1>0, <1>p, <1>9, FallBackFacts
  <2>2. PICK clear \in BOOLEAN : Hear(p, clear) /\ (clear => Rejected(p, route[p].first))
    BY <1>0, <1>p, <1>9, FallBackFacts
  <2>3. PICK x \in Sellers : x = route[p].second
    BY <2>1
  <2>4. job'[s].pc = "calling" /\ job'[s].verdict = verdict /\ job'[s].asks = x
    BY <1>0, <1>v, <2>1, <2>3, FallBackFields
  <2>5. kind = "request" /\ pc = "waiting"
    BY <1>p, <1>v, <1>9 DEF FallBack, At
  <2>6. p \notin unclear' => Rejected(p, route[p].first)'
    BY <1>4, <1>5, <2>2 DEF Hear
  <2>7. x # "none" /\ x = route'[p].second
    BY <1>5, <2>3 DEF Sellers
  <2>8. SoundFields(s, p, kind, "calling", verdict, x)'
    BY <1>2, <1>5, <2>5, <2>6, <2>7 DEF SoundFields, Rejected
  <2>9. QED
    BY <1>3, <2>4, <2>8, SoundNext
<1>10. CASE Reload(s)
  <2>1. job'[s].pc = "loaded" /\ job'[s].verdict = verdict /\ job'[s].asks = asks
    BY <1>0, <1>p, <1>v, <1>10, ReloadFields DEF Reload
  <2>2. SoundFields(s, p, kind, "loaded", verdict, asks)'
    BY <1>2, <1>10, <1>v DEF SoundFields, Reload, At
  <2>3. QED
    BY <1>3, <2>1, <2>2, SoundNext
<1>11. CASE LookUpRefund(s)
  <2>0. kind \in Refunds /\ pc = "loaded" /\ verdict \in {"failed", "timeout"}
    BY <1>1, <1>11, <1>v DEF LookUpRefund, Refunding, SoundFields, At
  <2>1. CASE ledger[p][kind] = 0
    <3>1. job'[s].pc = "owing" /\ job'[s].verdict = verdict /\ job'[s].asks = asks
      BY <1>0, <1>p, <1>v, <1>11, <2>1, GotoFields DEF LookUpRefund, Goto
    <3>2. SoundFields(s, p, kind, "owing", verdict, asks)'
      BY <1>2, <2>0 DEF SoundFields
    <3>3. QED
      BY <1>3, <3>1, <3>2, SoundNext
  <2>2. CASE ledger[p][kind] # 0
    <3>1. job'[s].pc = "credited" /\ job'[s].verdict = verdict /\ job'[s].asks = asks
      BY <1>0, <1>p, <1>v, <1>11, <2>2, GotoFields DEF LookUpRefund, Goto
    <3>2. ledger[p] \in [Rows -> Nat]
      BY DEF TypeOK
    <3>3. Refunded(p) >= 1
      BY <2>0, <2>2, <3>2 DEF Refunded, Rows, Refunds
    <3>4. Refunded(p)' >= 1
      BY <3>3, NothingTakenBack
    <3>5. SoundFields(s, p, kind, "credited", verdict, asks)'
      BY <1>2, <2>0, <3>4 DEF SoundFields
    <3>6. QED
      BY <1>3, <3>1, <3>5, SoundNext
  <2>3. QED
    BY <2>1, <2>2
<1>12. CASE CommitRefund(s)
  <2>1. Goto(s, "credited") /\ kind \in Refunds /\ verdict \in {"failed", "timeout"}
    BY <1>1, <1>12, <1>v, EndFields DEF CommitRefund, End, Refunding, SoundFields
  <2>2. job'[s].pc = "credited" /\ job'[s].verdict = verdict /\ job'[s].asks = asks
    BY <1>0, <1>p, <1>v, <2>1, GotoFields DEF Goto
  <2>3. Refunded(p)' >= 1
    <3>1. Post(p, kind, 1) /\ kind \in Rows /\ 1 \in Int
      BY <1>p, <1>12, <2>1 DEF CommitRefund, Rows
    <3>2. \A q \in Purchases : q = p /\ kind \in Refunds => Refunded(q)' >= 1
      BY <3>1, PostRefunds
    <3>3. QED
      BY <2>1, <3>2 DEF Refunded
  <2>4. SoundFields(s, p, kind, "credited", verdict, asks)'
    BY <1>2, <2>1, <2>3 DEF SoundFields
  <2>5. QED
    BY <1>3, <2>2, <2>4, SoundNext
<1>13. CASE LookUpReversal(s)
  <2>0. kind = "deliver" /\ pc = "loaded" /\ verdict = "reverse"
    BY <1>1, <1>13, <1>v DEF LookUpReversal, Reversing, SoundFields, At
  <2>1. CASE job' = [job EXCEPT ![s].verdict = "success"]
    <3>1. job'[s].verdict = "success" /\ job'[s].pc = pc /\ job'[s].asks = asks
      BY <1>0, <1>p, <1>v, <2>1, SuccessFields
    <3>2. SoundFields(s, p, kind, pc, "success", asks)'
      BY <1>2, <2>0 DEF SoundFields
    <3>3. QED
      BY <1>3, <3>1, <3>2, SoundNext
  <2>2. CASE job' = [job EXCEPT ![s].pc = "owing"]
    <3>1. job'[s].pc = "owing" /\ job'[s].verdict = verdict /\ job'[s].asks = asks
      BY <1>0, <1>p, <1>v, <2>2, GotoFields
    <3>2. SoundFields(s, p, kind, "owing", verdict, asks)'
      BY <1>2, <2>0 DEF SoundFields
    <3>3. QED
      BY <1>3, <3>1, <3>2, SoundNext
  <2>3. QED
    BY <1>13, <2>1, <2>2 DEF LookUpReversal
<1>14. CASE s = Worker /\ AmigoAnswers
  <2>1. PICK clear \in BOOLEAN, v \in {"success", "failed", "timeout"} :
            /\ Hear(p, clear)
            /\ job' = [job EXCEPT ![s].pc = "loaded", ![s].verdict = v]
            /\ v = "success" /\ clear => order[p]["amigo"] = "delivered"
            /\ v = "failed" /\ clear => Rejected(p, "amigo")
            /\ v = "timeout" => p \in old
    BY <1>0, <1>p, <1>14, AmigoFacts, EndFields DEF End
  <2>2. job'[s].pc = "loaded" /\ job'[s].verdict = v /\ job'[s].asks = asks
    BY <1>0, <1>p, <2>1, VerdictFields
  <2>3. kind = "worker" /\ kind \in Refunds /\ "amigo" \in Sellers
    BY <1>1, <1>14 DEF SoundFields, Refunds, Sellers
  <2>4. p \notin unclear' => clear
    BY <2>1 DEF Hear
  <2>5. v = "success" /\ p \notin unclear' => Delivered(p)'
    BY <1>4, <2>1, <2>3, <2>4 DEF Delivered
  <2>6. v \in {"failed", "timeout"} /\ p \notin unclear' => Grounds(kind, p)'
    <3>1. v \in {"failed", "timeout"} /\ p \notin unclear' => Grounds(kind, p)
      BY <2>1, <2>3, <2>4 DEF Grounds
    <3>2. QED
      BY <1>4, <2>3, <3>1
  <2>7. SoundFields(s, p, kind, "loaded", v, asks)'
    BY <1>2, <2>3, <2>5, <2>6 DEF SoundFields
  <2>8. QED
    BY <1>3, <2>2, <2>7, SoundNext
<1>15. CASE \/ Settle(s) \/ MarkRefunded(s) \/ RefundRefused(s)
            \/ CommitReversal(s) \/ ReversalRefused(s)
  BY <1>15, EndFields
     DEF Settle, MarkRefunded, RefundRefused, CommitReversal, ReversalRefused, End
<1>16. QED
  BY <1>6, <1>7, <1>8, <1>9, <1>10, <1>11, <1>12, <1>13, <1>14, <1>15 DEF Advance

\* Every job is sound after every step.
LEMMA SoundStep ==
    ASSUME TypeOK, [Next]_vars, \A r \in Sessions : job[r] # NoJob => Sound(r),
           NEW t \in Sessions, job'[t] # NoJob
    PROVE  Sound(t)'
<1> USE DEF rows, world, orders
<1>1. CASE job'[t] = job[t]
  <2>1. PICK p \in Purchases, kind \in Refunds \cup {"deliver"},
             asks \in Sellers \cup {"none"} :
            p = job[t].p /\ kind = job[t].kind /\ asks = job[t].asks
    BY <1>1, JobFields
  <2>2. PICK pc, verdict : pc = job[t].pc /\ verdict = job[t].verdict
    OBVIOUS
  <2>3. SoundFields(t, p, kind, pc, verdict, asks)
    BY <1>1, <2>1, <2>2, SoundNow
  <2>4. SoundFields(t, p, kind, pc, verdict, asks)'
    BY <2>3, SoundFieldsKept
  <2>5. QED
    BY <1>1, <2>1, <2>2, <2>4, SoundNext
<1>2. CASE Advance(t)
  BY <1>2, SoundAdvance
<1>3. ASSUME NEW p \in Purchases, t \in Handlers, Webhook(t, p)
      PROVE  Sound(t)'
  <2>1. PICK v \in {"success", "failed"} :
            /\ Begin(t, "webhook", p, "loaded", v)
            /\ v = "success" => Delivered(p)
            /\ v = "failed" => Grounds("webhook", p)
    BY <1>3 DEF Webhook, Delivered, Grounds, Sellers
  <2>2. PICK asks : job'[t].asks = asks
    OBVIOUS
  <2>3. /\ job'[t].p = p /\ job'[t].kind = "webhook"
        /\ job'[t].pc = "loaded" /\ job'[t].verdict = v
    BY <2>1, BeginFields DEF Refunds
  <2>4. (Delivered(p) => Delivered(p)') /\ (Grounds("webhook", p) => Grounds("webhook", p)')
    BY OrdersGrow, GroundsStay DEF Refunds
  <2>5. SoundFields(t, p, "webhook", "loaded", v, asks)'
    BY <1>3, <2>1, <2>4, WorkerIsNoHandler DEF SoundFields, Refunds
  <2>6. QED
    BY <2>2, <2>3, <2>5, SoundNext
<1>4. ASSUME NEW p \in Purchases, t \in Handlers, Debit(t, p)
      PROVE  Sound(t)'
  <2>1. /\ job'[t].p = p /\ job'[t].kind = "request" /\ job'[t].pc = "debited"
        /\ job'[t].verdict = "none" /\ job'[t].asks = route[p].first
    BY <1>4, BeginFields DEF Debit, Refunds, Asks
  <2>2. PICK x \in Sellers : x = route[p].first
    BY RouteFields
  <2>3. x # "none" /\ x = route'[p].first /\ x # route'[p].second
    BY <1>4, <2>2, RouteFields DEF Debit, Sellers
  <2>4. SoundFields(t, p, "request", "debited", "none", x)'
    BY <1>4, <2>3, WorkerIsNoHandler DEF SoundFields
  <2>5. QED
    BY <2>1, <2>2, <2>4, SoundNext
<1>5. ASSUME NEW p \in Purchases, t \in Handlers, AdminFails(t, p)
      PROVE  Sound(t)'
  <2>1. PICK asks : job'[t].asks = asks
    OBVIOUS
  <2>2. /\ job'[t].p = p /\ job'[t].kind = "fail_refund" /\ job'[t].pc = "loaded"
        /\ job'[t].verdict = "failed"
    BY <1>5, BeginFields DEF AdminFails, Refunds
  <2>3. SoundFields(t, p, "fail_refund", "loaded", "failed", asks)'
    BY <1>5, WorkerIsNoHandler DEF SoundFields, Refunds, Grounds
  <2>4. QED
    BY <2>1, <2>2, <2>3, SoundNext
<1>6. ASSUME NEW p \in Purchases, t \in Handlers, AdminDelivers(t, p)
      PROVE  Sound(t)'
  <2>1. PICK v \in {"reverse", "success"} : Begin(t, "deliver", p, "loaded", v)
    BY <1>6 DEF AdminDelivers
  <2>2. PICK asks : job'[t].asks = asks
    OBVIOUS
  <2>3. /\ job'[t].p = p /\ job'[t].kind = "deliver" /\ job'[t].pc = "loaded"
        /\ job'[t].verdict = v
    BY <2>1, BeginFields
  <2>4. SoundFields(t, p, "deliver", "loaded", v, asks)'
    BY <1>6, WorkerIsNoHandler DEF SoundFields
  <2>5. QED
    BY <2>2, <2>3, <2>4, SoundNext
<1>7. ASSUME NEW p \in Purchases, t = Worker, WorkerLoads(p)
      PROVE  Sound(t)'
  <2>1. /\ job'[t].p = p /\ job'[t].kind = "worker" /\ job'[t].pc = "waiting"
        /\ job'[t].verdict = "none" /\ job'[t].asks = "amigo"
    BY <1>7, BeginFields DEF WorkerLoads, Refunds, Asks
  <2>2. order'[p]["amigo"] # "none"
    BY <1>7, PlaceType DEF WorkerLoads, Sellers
  <2>3. SoundFields(t, p, "worker", "waiting", "none", "amigo")'
    BY <1>7, <2>2 DEF SoundFields
  <2>4. QED
    BY <2>1, <2>3, SoundNext
<1>8. CASE job'[t] # job[t]
  <2>1. ASSUME NEW s \in Sessions, t # s, Advance(s)
        PROVE  FALSE
    BY <1>8, <2>1, AdvanceBusy, AdvanceFrame
  <2>2. ASSUME NEW s \in Sessions, Crash(s)
        PROVE  FALSE
    BY <1>8, <2>2, EndFields DEF Crash
  <2>3. ASSUME NEW s \in Handlers, NEW p \in Purchases, t # s,
               Debit(s, p) \/ Webhook(s, p) \/ AdminFails(s, p) \/ AdminDelivers(s, p)
        PROVE  FALSE
    BY <1>8, <2>3 DEF Debit, Webhook, AdminFails, AdminDelivers, Begin, TypeOK
  <2>4. ASSUME NEW p \in Purchases, t # Worker, WorkerLoads(p)
        PROVE  FALSE
    BY <1>8, <2>4 DEF WorkerLoads, Begin, TypeOK
  <2>5. ASSUME \/ \E p \in Purchases, x \in Sellers : ProviderDecides(p, x)
               \/ \E p \in Purchases : Age(p)
               \/ OperatorSetsLock
               \/ UNCHANGED vars
        PROVE  FALSE
    BY <1>8, <2>5 DEF ProviderDecides, Age, OperatorSetsLock, vars
  <2>6. QED
    BY <1>2, <1>3, <1>4, <1>5, <1>6, <1>7, <2>1, <2>2, <2>3, <2>4, <2>5 DEF Next
<1>9. QED
  BY <1>1, <1>8

\* A status becomes REFUNDED after, or with, a refund.
LEMMA RefundedStep ==
    ASSUME TypeOK, [Next]_vars, \A r \in Sessions : job[r] # NoJob => Sound(r),
           RefundedWasCredited
    PROVE  RefundedWasCredited'
<1> USE DEF rows, world, orders
<1> SUFFICES ASSUME NEW q \in Purchases, status'[q] = "REFUNDED"
             PROVE  Refunded(q)' >= 1
  BY DEF RefundedWasCredited
<1>1. /\ Refunded(q) \in Nat /\ Refunded(q)' \in Nat
      /\ Refunded(q)' >= Refunded(q)
  BY NothingTakenBack
<1>2. CASE status[q] = "REFUNDED"
  BY <1>1, <1>2 DEF RefundedWasCredited
<1>3. ASSUME NEW s \in Sessions, Advance(s), status[q] # "REFUNDED"
      PROVE  Refunded(q)' >= 1
  <2>1. job[s] # NoJob /\ job[s].p \in Purchases /\ Sound(s)
    BY <1>3, AdvanceBusy, JobFields
  <2>2. q = job[s].p
    BY <1>3, <2>1, AdvanceFrame
  <2>3. CASE MarkRefunded(s)
    BY <1>1, <2>1, <2>2, <2>3 DEF MarkRefunded, At, Sound, Refunded
  <2>4. CASE CommitRefund(s)
    <3>1. Post(q, job[s].kind, 1) /\ job[s].kind \in Rows /\ 1 \in Int
          /\ job[s].kind \in Refunds
      BY <2>1, <2>2, <2>4 DEF CommitRefund, Refunding, Sound, Rows
    <3>2. QED
      BY <3>1, PostRefunds
  <2>5. CASE \/ Settle(s) \/ RefundRefused(s) \/ CommitReversal(s)
             \/ ReversalRefused(s) \/ Record(s)
    <3>1. ASSUME NEW new \in {"SUCCESS", "PENDING", "FAILED"}, Write(s, new)
          PROVE  FALSE
      BY <1>3, <2>1, <2>2, <3>1, WriteStatus DEF Status
    <3>2. ASSUME Record(s)
          PROVE  FALSE
      BY <1>3, <2>1, <2>2, <3>2 DEF Record, TypeOK
    <3>3. QED
      BY <1>3, <2>5, <3>1, <3>2
         DEF Settle, RefundRefused, CommitReversal, ReversalRefused
  <2>6. QED
    BY <1>3, <2>3, <2>4, <2>5
       DEF Advance, Place, Answer, FallBack, Reload, LookUpRefund, LookUpReversal,
           AmigoAnswers
<1>4. QED
  BY <1>2, <1>3
     DEF Next, vars, Debit, Webhook, AdminFails, AdminDelivers, WorkerLoads,
         Crash, ProviderDecides, Age, OperatorSetsLock

\* A refund on the ledger has its grounds.
LEMMA GroundsStep ==
    ASSUME TypeOK, [Next]_vars, \A r \in Sessions : job[r] # NoJob => Sound(r),
           RefundMeansRejected
    PROVE  RefundMeansRejected'
<1> SUFFICES ASSUME NEW q \in Purchases, NEW r \in Refunds,
                    q \notin unclear', ledger'[q][r] > 0
             PROVE  Grounds(r, q)'
  BY DEF RefundMeansRejected
<1>1. q \notin unclear
  BY OrdersGrow DEF Grown
<1>2. CASE ledger'[q][r] = ledger[q][r]
  BY <1>1, <1>2, OrdersGrow, GroundsStay DEF RefundMeansRejected
<1>3. ASSUME NEW s \in Sessions, job[s] # NoJob, Refunding(s),
             job[s].p = q, job[s].kind = r
      PROVE  Grounds(r, q)'
  <2>1. Grounds(r, q)
    BY <1>1, <1>3 DEF Sound
  <2>2. QED
    BY <2>1, OrdersGrow, GroundsStay
<1>4. QED
  BY <1>2, <1>3, NothingTakenBack

\* Whoever writes SUCCESS has a delivered order behind it, or is the admin.
LEMMA SuccessStep ==
    ASSUME TypeOK, [Next]_vars, \A r \in Sessions : job[r] # NoJob => Sound(r)
    PROVE  SuccessOnlyIfDelivered
<1> USE DEF rows, world, orders
<1> SUFFICES ASSUME NEW q \in Purchases, q \notin unclear, BecomesSuccess(q)
             PROVE  \/ Delivered(q)
                    \/ \E s \in Sessions : WorksOn(s, q) /\ job[s].kind = "deliver"
  BY DEF SuccessOnlyIfDelivered
<1>1. ASSUME NEW s \in Sessions, Advance(s)
      PROVE  \/ Delivered(q)
             \/ WorksOn(s, q) /\ job[s].kind = "deliver"
  <2>1. job[s] # NoJob /\ job[s].p \in Purchases /\ Sound(s)
    BY <1>1, AdvanceBusy, JobFields
  <2>2. q = job[s].p /\ WorksOn(s, q)
    BY <1>1, <2>1, AdvanceFrame DEF BecomesSuccess, WorksOn
  <2>3. ASSUME NEW new \in {"REFUNDED", "PENDING", "FAILED"}, Write(s, new)
        PROVE  FALSE
    BY <2>1, <2>2, <2>3, WriteStatus DEF BecomesSuccess, Status
  <2>4. CASE Settle(s)
    BY <2>1, <2>2, <2>3, <2>4 DEF Settle, Sound, Delivered
  <2>5. CASE CommitReversal(s) \/ ReversalRefused(s)
    BY <2>1, <2>2, <2>5 DEF CommitReversal, ReversalRefused, Reversing, Sound
  <2>6. ASSUME MarkRefunded(s) \/ Record(s)
        PROVE  FALSE
    BY <2>1, <2>2, <2>6 DEF MarkRefunded, Record, BecomesSuccess, TypeOK
  <2>7. ASSUME CommitRefund(s) \/ RefundRefused(s)
        PROVE  FALSE
    BY <2>3, <2>7 DEF CommitRefund, RefundRefused, BecomesSuccess
  <2>8. QED
    BY <1>1, <2>4, <2>5, <2>6, <2>7
       DEF Advance, Place, Answer, FallBack, Reload, LookUpRefund, LookUpReversal,
           AmigoAnswers, BecomesSuccess
<1>2. QED
  BY <1>1
     DEF Next, vars, Debit, Webhook, AdminFails, AdminDelivers, WorkerLoads,
         Crash, ProviderDecides, Age, OperatorSetsLock, BecomesSuccess

-----------------------------------------------------------------------------
(***************************************************************************)
(* The rows of a purchase that one thread works on                         *)
(***************************************************************************)

\* InOrder looks at nothing but the status, the ledger and the history of its
\* purchase.
LEMMA InOrderKept ==
    ASSUME NEW p \in Purchases, ledger'[p] = ledger[p]
    PROVE  /\ \A d, r, v \in Nat : Holds(p, d, r, v)' <=> Holds(p, d, r, v)
           /\ status'[p] = status[p] /\ (p \in refused => p \in refused') =>
                  (InOrder(p) => InOrder(p)')
BY DEF InOrder, Holds, Refunded

\* A refund that is owed has not been paid by anybody.
LEMMA NothingPaid ==
    ASSUME TypeOK, NEW p \in Purchases, NEW kind \in Refunds, Holds(p, 1, 0, 0)
    PROVE  ledger[p][kind] = 0
<1>1. ledger[p] \in [Rows -> Nat]
  BY DEF TypeOK
<1>2. /\ ledger[p]["request"] \in Nat /\ ledger[p]["webhook"] \in Nat
      /\ ledger[p]["worker"] \in Nat /\ ledger[p]["fail_refund"] \in Nat
  BY <1>1 DEF Rows, Refunds
<1>3. ledger[p]["request"] + ledger[p]["webhook"] + ledger[p]["worker"]
        + ledger[p]["fail_refund"] = 0
  BY DEF Holds, Refunded
<1>4. ASSUME NEW a \in Nat, NEW b \in Nat, NEW c \in Nat, NEW d \in Nat,
             a + b + c + d = 0
      PROVE  a = 0 /\ b = 0 /\ c = 0 /\ d = 0
  BY <1>4
<1>5. PICK a \in Nat, b \in Nat, c \in Nat, d \in Nat :
          /\ a = ledger[p]["request"] /\ b = ledger[p]["webhook"]
          /\ c = ledger[p]["worker"] /\ d = ledger[p]["fail_refund"]
  BY <1>2
<1>6. a + b + c + d = 0
  BY <1>3, <1>5
<1>7. a = 0 /\ b = 0 /\ c = 0 /\ d = 0
  BY <1>4, <1>6
<1>8. QED
  BY <1>5, <1>7 DEF Refunds

\* A job that is alone on its purchase leaves it in order when it ends, and fit
\* for its next step when it does not.
LEMMA InOrderAdvance ==
    ASSUME TypeOK, Bulk = FALSE, NEW s \in Sessions, Advance(s), Sound(s),
           JobInOrder(s), NEW p \in Purchases, p = job[s].p
    PROVE  /\ job'[s] = NoJob => InOrder(p)'
           /\ job'[s] # NoJob => JobInOrder(s)'
<1> USE DEF rows, world
<1>0. job[s] # NoJob /\ status[p] \in Status
  BY AdvanceBusy DEF TypeOK
<1>a. ASSUME ledger'[p] = ledger[p], status'[p] = status[p],
             p \in refused => p \in refused'
      PROVE  /\ \A d, r, v \in Nat : Holds(p, d, r, v)' <=> Holds(p, d, r, v)
             /\ InOrder(p) => InOrder(p)'
  BY <1>a, InOrderKept
<1>1. CASE Record(s)
  <2>1. status'[p] = "PENDING" /\ ledger'[p] = ledger[p]
    BY <1>1 DEF Record, TypeOK
  <2>2. Holds(p, 1, 0, 0)'
    BY <1>1, <2>1, InOrderKept DEF Record, At, JobInOrder
  <2>3. InOrder(p)'
    BY <2>1, <2>2 DEF InOrder
  <2>4. /\ job'[s] # NoJob /\ job'[s].p = p /\ job'[s].pc = "calling"
    BY <1>0, <1>1, GotoFields DEF Record, Goto
  <2>5. QED
    BY <2>1, <2>3, <2>4 DEF JobInOrder
<1>2. CASE Place(s)
  <2>1. /\ job'[s] # NoJob /\ job'[s].p = p /\ job'[s].pc = "waiting"
        /\ job'[s].kind = job[s].kind
    BY <1>0, <1>2, GotoFields DEF Place, Goto
  <2>2. job[s].kind = "request" /\ InOrder(p) /\ status[p] = "PENDING"
    BY <1>2 DEF Place, At, JobInOrder, Sound
  <2>3. InOrder(p)' /\ status'[p] = "PENDING"
    BY <1>2, <1>a, <2>2 DEF Place
  <2>4. QED
    BY <2>1, <2>2, <2>3 DEF JobInOrder
<1>3. CASE Answer(s)
  <2>1. /\ job'[s] # NoJob /\ job'[s].p = p /\ job'[s].pc = "answered"
    <3>1. PICK v \in {"success", "pending", "failed"} :
              job' = [job EXCEPT ![s].pc = "answered", ![s].verdict = v]
      BY <1>3, AnswerFacts
    <3>2. QED
      BY <1>0, <3>1, VerdictFields
  <2>2. InOrder(p) /\ status[p] = "PENDING"
    BY <1>3 DEF Answer, At, JobInOrder
  <2>3. InOrder(p)' /\ status'[p] = "PENDING"
    BY <1>3, <1>a, <2>2 DEF Answer
  <2>4. QED
    BY <2>1, <2>3 DEF JobInOrder
<1>b. CASE FallBack(s)
  <2>1. /\ job'[s] # NoJob /\ job'[s].p = p /\ job'[s].pc = "calling"
    BY <1>0, <1>b, FallBackFacts, FallBackFields
  <2>2. InOrder(p) /\ status[p] = "PENDING"
    BY <1>b DEF FallBack, At, JobInOrder
  <2>3. InOrder(p)' /\ status'[p] = "PENDING"
    BY <1>b, <1>a, <2>2 DEF FallBack
  <2>4. QED
    BY <2>1, <2>3 DEF JobInOrder
<1>4. CASE Reload(s)
  <2>1. /\ job'[s] # NoJob /\ job'[s].p = p /\ job'[s].pc = "loaded"
        /\ job'[s].verdict = job[s].verdict /\ job'[s].seen = status[p]
    BY <1>0, <1>4, ReloadFields DEF Reload
  <2>2. InOrder(p) /\ status[p] = "PENDING" /\ job[s].verdict # "reverse"
    BY <1>4 DEF Reload, At, JobInOrder, Sound
  <2>3. InOrder(p)' /\ status'[p] = "PENDING"
    BY <1>4, <1>a, <2>2 DEF Reload
  <2>4. QED
    BY <2>1, <2>2, <2>3 DEF JobInOrder, Fits
<1>5. CASE Settle(s)
  <2>1. /\ job'[s] = NoJob /\ InOrder(p) /\ job[s].seen = status[p]
        /\ Fits(job[s].verdict, status[p]) /\ ledger'[p] = ledger[p]
    BY <1>5, EndFields DEF Settle, At, End, JobInOrder
  <2>2. CASE job[s].verdict = "success"
    <3>1. status'[p] = "SUCCESS"
      BY <1>0, <1>5, <2>1, <2>2, WriteStatus DEF Settle, Status
    <3>2. Holds(p, 1, 0, 0) \/ Holds(p, 1, 1, 1)
      BY <2>1, <2>2 DEF Fits, InOrder
    <3>3. QED
      BY <2>1, <3>1, <3>2, InOrderKept DEF InOrder
  <2>3. CASE job[s].verdict = "pending"
    <3>1. status'[p] = status[p]
      BY <1>0, <1>5, <2>1, <2>3, WriteStatus DEF Settle, Fits, Status
    <3>2. QED
      BY <1>5, <1>a, <2>1, <3>1 DEF Settle
  <2>4. QED
    BY <1>5, <2>2, <2>3 DEF Settle
<1>6. CASE LookUpRefund(s)
  <2>1. /\ InOrder(p) /\ job[s].seen = status[p]
        /\ Fits(job[s].verdict, status[p]) /\ job[s].kind \in Refunds
    BY <1>6 DEF LookUpRefund, At, Refunding, JobInOrder, Sound
  <2>2. Holds(p, 1, 0, 0)
    BY <1>6, <2>1 DEF LookUpRefund, Refunding, Fits, InOrder
  <2>3. ledger[p][job[s].kind] = 0
    BY <2>1, <2>2, NothingPaid
  <2>4. /\ job'[s] # NoJob /\ job'[s].p = p /\ job'[s].pc = "owing"
        /\ job'[s].verdict = job[s].verdict /\ job'[s].seen = job[s].seen
    BY <1>0, <1>6, <2>3, GotoFields DEF LookUpRefund, Goto
  <2>5. InOrder(p)' /\ status'[p] = status[p]
    BY <1>6, <1>a, <2>1 DEF LookUpRefund
  <2>6. QED
    BY <2>1, <2>4, <2>5 DEF JobInOrder
<1>7. CASE CommitRefund(s)
  <2>1. /\ InOrder(p) /\ job[s].seen = status[p]
        /\ Fits(job[s].verdict, status[p]) /\ job[s].kind \in Refunds
    BY <1>7 DEF CommitRefund, At, Refunding, JobInOrder, Sound
  <2>2. Holds(p, 1, 0, 0) /\ status[p] # "REFUNDED"
    BY <1>7, <2>1 DEF CommitRefund, Refunding, Fits, InOrder
  <2>3. Holds(p, 1, 1, 0)'
    <3>1. /\ Post(p, job[s].kind, 1) /\ job[s].kind \in Rows
          /\ 1 \in Int /\ 1 \in Nat /\ 0 \in Nat
      BY <1>7, <2>1 DEF CommitRefund, Rows
    <3>2. Holds(p, 1, 0 + 1, 0)'
      BY <2>1, <2>2, <3>1, PostHolds
    <3>3. QED
      BY <3>2 DEF Holds
  <2>4. CASE job[s].kind = "fail_refund"
    <3>1. status'[p] = "REFUNDED"
      BY <1>0, <1>7, <2>1, <2>2, <2>4, WriteStatus DEF CommitRefund, Status
    <3>2. job'[s] = NoJob
      BY <1>7, <2>4, EndFields DEF CommitRefund, End
    <3>3. QED
      BY <2>3, <3>1, <3>2 DEF InOrder
  <2>5. CASE job[s].kind # "fail_refund"
    <3>1. job'[s] # NoJob /\ job'[s].p = p /\ job'[s].pc = "credited"
      BY <1>0, <1>7, <2>5, GotoFields DEF CommitRefund, Goto
    <3>2. QED
      BY <2>3, <3>1 DEF JobInOrder
  <2>6. QED
    BY <2>4, <2>5
<1>8. CASE MarkRefunded(s)
  <2>1. Holds(p, 1, 1, 0)' /\ status'[p] = "REFUNDED" /\ job'[s] = NoJob
    BY <1>8, EndFields, InOrderKept DEF MarkRefunded, At, End, JobInOrder, TypeOK
  <2>2. QED
    BY <2>1 DEF InOrder
<1>9. CASE RefundRefused(s)
  <2>1. /\ InOrder(p) /\ job[s].seen = status[p]
        /\ Fits(job[s].verdict, status[p])
        /\ job'[s] = NoJob /\ ledger'[p] = ledger[p]
    BY <1>9, EndFields DEF RefundRefused, At, End, JobInOrder
  <2>2. Holds(p, 1, 0, 0)' /\ status[p] \in {"PENDING", "FAILED"}
    BY <1>9, <2>1, InOrderKept DEF RefundRefused, Refunding, Fits, InOrder
  <2>3. status'[p] \in {"PENDING", "FAILED"}
    BY <1>0, <1>9, <2>2, WriteStatus DEF RefundRefused, Status
  <2>4. status'[p] = "FAILED" => p \in refused'
    BY <1>9, <2>1, <2>2 DEF RefundRefused, InOrder
  <2>5. QED
    BY <2>1, <2>2, <2>3, <2>4 DEF InOrder
<1>10. CASE LookUpReversal(s)
  <2>1. /\ InOrder(p) /\ job[s].seen = status[p]
        /\ Fits(job[s].verdict, status[p])
    BY <1>10 DEF LookUpReversal, At, JobInOrder
  <2>2. ledger[p]["reversal"] = 0
    BY <1>10, <2>1 DEF LookUpReversal, Reversing, Fits, InOrder, Holds
  <2>3. job' = [job EXCEPT ![s].pc = "owing"]
    BY <1>10, <2>2 DEF LookUpReversal
  <2>4. /\ job'[s] # NoJob /\ job'[s].p = p /\ job'[s].pc = "owing"
        /\ job'[s].verdict = job[s].verdict /\ job'[s].seen = job[s].seen
    BY <1>0, <2>3, GotoFields
  <2>5. InOrder(p)' /\ status'[p] = status[p]
    BY <1>10, <1>a, <2>1 DEF LookUpReversal
  <2>6. QED
    BY <2>1, <2>4, <2>5 DEF JobInOrder
<1>11. CASE CommitReversal(s)
  <2>1. /\ InOrder(p) /\ job[s].seen = status[p]
        /\ Fits(job[s].verdict, status[p]) /\ job'[s] = NoJob
    BY <1>11, EndFields DEF CommitReversal, At, End, JobInOrder
  <2>2. Holds(p, 1, 1, 0) /\ job[s].seen = "REFUNDED"
    BY <1>11, <2>1 DEF CommitReversal, Reversing, Fits, InOrder
  <2>3. Holds(p, 1, 1, 1)'
    <3>1. /\ Post(p, "reversal", -1) /\ "reversal" \in Rows
          /\ -1 \in Int /\ 1 \in Nat /\ 0 \in Nat
      BY <1>11 DEF CommitReversal, Rows
    <3>2. Holds(p, 1, 1, 0 + 1)'
      BY <2>2, <3>1, PostHolds
    <3>3. QED
      BY <3>2 DEF Holds
  <2>4. status'[p] = "SUCCESS"
    BY <1>0, <1>11, <2>2, WriteStatus DEF CommitReversal, Status
  <2>5. QED
    BY <2>1, <2>3, <2>4 DEF InOrder
<1>12. CASE ReversalRefused(s)
  <2>1. InOrder(p) /\ job'[s] = NoJob /\ UNCHANGED <<status, ledger, refused>>
    BY <1>12, EndFields DEF ReversalRefused, At, End, JobInOrder
  <2>2. QED
    BY <1>a, <2>1
<1>13. CASE s = Worker /\ AmigoAnswers
  <2>1. /\ InOrder(p) /\ status[p] = "PENDING"
        /\ job[s].kind = "worker" /\ job[s].seen = "PENDING"
    BY <1>13 DEF AmigoAnswers, At, JobInOrder, Sound
  <2>2. InOrder(p)' /\ status'[p] = "PENDING"
    BY <1>13, <1>a, <2>1 DEF AmigoAnswers
  <2>3. CASE End(s)
    BY <2>2, <2>3, EndFields DEF End
  <2>4. ASSUME NEW v \in {"success", "failed", "timeout"},
               job' = [job EXCEPT ![s].pc = "loaded", ![s].verdict = v]
        PROVE  job'[s] # NoJob /\ JobInOrder(s)'
    <3>1. /\ job'[s] # NoJob /\ job'[s].p = p /\ job'[s].pc = "loaded"
          /\ job'[s].verdict = v /\ job'[s].seen = job[s].seen
      BY <1>0, <2>4, VerdictFields
    <3>2. QED
      BY <2>1, <2>2, <3>1 DEF JobInOrder, Fits
  <2>5. QED
    BY <1>13, <2>2, <2>3, <2>4, AmigoFacts
<1>14. QED
  BY <1>1, <1>2, <1>3, <1>b, <1>4, <1>5, <1>6, <1>7, <1>8, <1>9, <1>10, <1>11, <1>12,
     <1>13 DEF Advance

\* A step that leaves a purchase and the jobs on it alone.
LEMMA UndisturbedKept ==
    ASSUME NEW q \in Purchases, Undisturbed(q),
           status'[q] = status[q], ledger'[q] = ledger[q],
           q \in disturbed => q \in disturbed',
           q \in refused => q \in refused',
           \A t \in Sessions :
               /\ WorksOn(t, q)' <=> WorksOn(t, q)
               /\ WorksOn(t, q) => job'[t] = job[t]
    PROVE  Undisturbed(q)'
<1>1. /\ \A d, r, v \in Nat : Holds(q, d, r, v)' <=> Holds(q, d, r, v)
      /\ InOrder(q) => InOrder(q)'
  BY InOrderKept
<1>2. ASSUME NEW t \in Sessions, WorksOn(t, q), JobInOrder(t)
      PROVE  JobInOrder(t)'
  <2>1. job[t].p = q /\ job'[t] = job[t]
    BY <1>2 DEF WorksOn
  <2>2. QED
    BY <1>1, <1>2, <2>1 DEF JobInOrder
<1>3. QED
  BY <1>1, <1>2 DEF Undisturbed

\* A thread that starts to work on a purchase finds it in order, or is not alone.
LEMMA UndisturbedBegin ==
    ASSUME TypeOK, NEW s \in Sessions, NEW p \in Purchases, Undisturbed(p),
           job[s] = NoJob, job'[s] # NoJob, job'[s].p = p,
           \A t \in Sessions \ {s} : job'[t] = job[t],
           disturbed' = IF \E t \in Sessions : WorksOn(t, p)
                        THEN disturbed \cup {p} ELSE disturbed,
           InOrder(p) => JobInOrder(s)'
    PROVE  Undisturbed(p)'
<1> SUFFICES ASSUME p \notin disturbed'
             PROVE  /\ \A t, u \in Sessions : WorksOn(t, p)' /\ WorksOn(u, p)' => t = u
                    /\ \A t \in Sessions : WorksOn(t, p)' => JobInOrder(t)'
                    /\ (\A t \in Sessions : ~WorksOn(t, p)') => InOrder(p)'
  BY DEF Undisturbed
<1>1. p \notin disturbed /\ \A t \in Sessions : ~WorksOn(t, p)
  OBVIOUS
<1>2. InOrder(p)
  BY <1>1 DEF Undisturbed
<1>3. \A t \in Sessions : WorksOn(t, p)' <=> t = s
  BY <1>1 DEF WorksOn
<1>4. QED
  BY <1>2, <1>3

\* Beginnings of Next: what the thread finds is what its job needs.
LEMMA BeginStep ==
    ASSUME TypeOK, \A q \in Purchases : Undisturbed(q),
           NEW s \in Sessions, NEW p \in Purchases,
           NEW kind \in Refunds \cup {"deliver"},
           NEW pc \in {"debited", "waiting", "loaded"},
           NEW v \in {"none", "success", "failed", "reverse"},
           Begin(s, kind, p, pc, v),
           \A q \in Purchases \ {p} : ledger'[q] = ledger[q],
           UNCHANGED <<status, refused>>,
           \/ /\ pc = "debited" /\ kind = "request" /\ status[p] = "none"
              /\ Holds(p, 0, 0, 0) => Holds(p, 1, 0, 0)'
           \/ /\ pc = "waiting" /\ kind = "worker" /\ status[p] = "PENDING"
              /\ UNCHANGED ledger
           \/ /\ pc = "loaded" /\ Fits(v, status[p])
              /\ UNCHANGED ledger,
           NEW q \in Purchases
    PROVE  Undisturbed(q)'
<1>1. /\ job[s] = NoJob
      /\ \A t \in Sessions \ {s} : job'[t] = job[t]
      /\ job'[s] # NoJob /\ job'[s].p = p
      /\ job'[s].kind = kind /\ job'[s].pc = pc
      /\ job'[s].verdict = v /\ job'[s].seen = status[p]
  BY BeginFields
<1>2. disturbed' = IF \E t \in Sessions : WorksOn(t, p)
                   THEN disturbed \cup {p} ELSE disturbed
  BY DEF Begin
<1>3. CASE q # p
  <2>1. \A t \in Sessions : /\ WorksOn(t, q)' <=> WorksOn(t, q)
                            /\ WorksOn(t, q) => job'[t] = job[t]
    BY <1>1, <1>3 DEF WorksOn
  <2>2. QED
    BY <1>2, <1>3, <2>1, UndisturbedKept
<1>4. CASE q = p
  <2>1. ASSUME InOrder(p)
        PROVE  JobInOrder(s)'
    <3>1. CASE pc = "debited"
      <4>1. Holds(p, 0, 0, 0)
        BY <2>1, <3>1 DEF InOrder
      <4>2. QED
        BY <1>1, <3>1, <4>1 DEF JobInOrder
    <3>2. CASE pc # "debited"
      <4>1. ledger' = ledger /\ InOrder(p)'
        BY <2>1, <3>2, InOrderKept
      <4>2. QED
        BY <1>1, <3>2, <4>1 DEF JobInOrder
    <3>3. QED
      BY <3>1, <3>2
  <2>2. Undisturbed(p)'
    BY <1>1, <1>2, <2>1, UndisturbedBegin
  <2>3. QED
    BY <1>4, <2>2
<1>5. QED
  BY <1>3, <1>4

\* The rows of an undisturbed purchase stay in order.
LEMMA UndisturbedStep ==
    ASSUME TypeOK, Bulk = FALSE, [Next]_vars,
           \A r \in Sessions : job[r] # NoJob => Sound(r),
           \A p \in Purchases : Undisturbed(p),
           NEW q \in Purchases
    PROVE  Undisturbed(q)'
<1> USE DEF rows, world, orders
<1>1. ASSUME NEW s \in Handlers, NEW p \in Purchases, Debit(s, p)
      PROVE  Undisturbed(q)'
  <2>1. /\ Post(p, "debit", -1) /\ "debit" \in Rows
        /\ -1 \in Int /\ 0 \in Nat
    BY <1>1 DEF Debit, Rows
  <2>2. Holds(p, 0, 0, 0) => Holds(p, 1, 0, 0)'
    <3>1. Holds(p, 0, 0, 0) => Holds(p, 0 + 1, 0, 0)'
      BY <2>1, PostHolds
    <3>2. QED
      BY <3>1 DEF Holds
  <2>3. \A r \in Purchases \ {p} : ledger'[r] = ledger[r]
    BY <2>1, PostRow
  <2>4. /\ Begin(s, "request", p, "debited", "none") /\ "request" \in Refunds
        /\ status[p] = "none" /\ UNCHANGED <<status, refused>> /\ s \in Sessions
    BY <1>1 DEF Debit, Refunds, Sessions
  <2>5. QED
    BY <2>2, <2>3, <2>4, BeginStep
<1>2. ASSUME NEW s \in Handlers, NEW p \in Purchases, Webhook(s, p)
      PROVE  Undisturbed(q)'
  <2>1. PICK v \in {"success", "failed"} : Begin(s, "webhook", p, "loaded", v)
    BY <1>2 DEF Webhook
  <2>2. /\ Fits(v, status[p]) /\ UNCHANGED <<status, ledger, refused>>
        /\ "webhook" \in Refunds /\ s \in Sessions
    BY <1>2 DEF Webhook, Fits, Refunds, Sessions
  <2>3. QED
    BY <2>1, <2>2, BeginStep
<1>3. ASSUME NEW s \in Handlers, NEW p \in Purchases, AdminFails(s, p)
      PROVE  Undisturbed(q)'
  <2>1. /\ Begin(s, "fail_refund", p, "loaded", "failed")
        /\ Fits("failed", status[p]) /\ UNCHANGED <<status, ledger, refused>>
        /\ "fail_refund" \in Refunds /\ s \in Sessions
    BY <1>3 DEF AdminFails, Fits, Refunds, Sessions
  <2>2. QED
    BY <2>1, BeginStep
<1>4. ASSUME NEW s \in Handlers, NEW p \in Purchases, AdminDelivers(s, p)
      PROVE  Undisturbed(q)'
  <2>1. PICK v \in {"reverse", "success"} :
            /\ Begin(s, "deliver", p, "loaded", v)
            /\ v = (IF status[p] = "REFUNDED" THEN "reverse" ELSE "success")
    BY <1>4 DEF AdminDelivers
  <2>2. status[p] \in Status /\ status[p] # "none"
    BY <1>4 DEF AdminDelivers, TypeOK
  <2>3. /\ Fits(v, status[p]) /\ UNCHANGED <<status, ledger, refused>>
        /\ s \in Sessions
    BY <1>4, <2>1, <2>2 DEF AdminDelivers, Fits, Status, Sessions
  <2>4. QED
    BY <2>1, <2>3, BeginStep
<1>5. ASSUME NEW p \in Purchases, WorkerLoads(p)
      PROVE  Undisturbed(q)'
  <2>1. /\ Begin(Worker, "worker", p, "waiting", "none")
        /\ status[p] = "PENDING" /\ UNCHANGED <<status, ledger, refused>>
        /\ "worker" \in Refunds /\ Worker \in Sessions
    BY <1>5 DEF WorkerLoads, Refunds, Sessions
  <2>2. QED
    BY <2>1, BeginStep
<1>6. ASSUME NEW s \in Sessions, Advance(s)
      PROVE  Undisturbed(q)'
  <2>1. job[s] # NoJob /\ job[s].p \in Purchases /\ Sound(s)
    BY <1>6, AdvanceBusy, JobFields
  <2>2. PICK p \in Purchases : p = job[s].p
    BY <2>1
  <2>3. /\ disturbed' = disturbed
        /\ \A t \in Sessions \ {s} : job'[t] = job[t]
        /\ job'[s] # NoJob => job'[s].p = p
        /\ q # p => status'[q] = status[q] /\ ledger'[q] = ledger[q]
        /\ q \in refused => q \in refused'
    BY <1>6, <2>1, <2>2, AdvanceFrame, OrdersGrow DEF Grown
  <2>4. CASE q # p
    <3>1. \A t \in Sessions : /\ WorksOn(t, q)' <=> WorksOn(t, q)
                              /\ WorksOn(t, q) => job'[t] = job[t]
      BY <2>1, <2>2, <2>3, <2>4 DEF WorksOn
    <3>2. QED
      BY <2>3, <2>4, <3>1, UndisturbedKept
  <2>5. CASE q = p
    <3> SUFFICES ASSUME q \notin disturbed'
                 PROVE  /\ \A t, u \in Sessions : WorksOn(t, q)' /\ WorksOn(u, q)' => t = u
                        /\ \A t \in Sessions : WorksOn(t, q)' => JobInOrder(t)'
                        /\ (\A t \in Sessions : ~WorksOn(t, q)') => InOrder(q)'
      BY DEF Undisturbed
    <3>1. WorksOn(s, q) /\ q \notin disturbed
      BY <2>1, <2>2, <2>3, <2>5 DEF WorksOn
    <3>2. JobInOrder(s) /\ \A t \in Sessions \ {s} : ~WorksOn(t, q)
      BY <3>1 DEF Undisturbed
    <3>3. /\ job'[s] = NoJob => InOrder(q)'
          /\ job'[s] # NoJob => JobInOrder(s)'
      BY <1>6, <2>1, <2>2, <2>5, <3>2, InOrderAdvance
    <3>4. \A t \in Sessions \ {s} : ~WorksOn(t, q)'
      BY <2>3, <3>2 DEF WorksOn
    <3>5. WorksOn(s, q)' <=> job'[s] # NoJob
      BY <2>3, <2>5 DEF WorksOn
    <3>6. QED
      BY <3>3, <3>4, <3>5
  <2>6. QED
    BY <2>4, <2>5
<1>7. ASSUME NEW s \in Sessions, Crash(s)
      PROVE  Undisturbed(q)'
  <2>1. /\ job[s] # NoJob /\ job'[s] = NoJob
        /\ \A t \in Sessions \ {s} : job'[t] = job[t]
        /\ disturbed' = disturbed \cup {job[s].p}
        /\ UNCHANGED <<status, ledger, refused>>
    BY <1>7, EndFields DEF Crash
  <2>2. CASE q = job[s].p
    BY <2>1, <2>2 DEF Undisturbed
  <2>3. CASE q # job[s].p
    <3>1. \A t \in Sessions : /\ WorksOn(t, q)' <=> WorksOn(t, q)
                              /\ WorksOn(t, q) => job'[t] = job[t]
      BY <2>1, <2>3 DEF WorksOn
    <3>2. QED
      BY <2>1, <3>1, UndisturbedKept
  <2>4. QED
    BY <2>2, <2>3
<1>8. CASE UNCHANGED <<status, ledger, refused, job, disturbed>>
  <2>1. \A t \in Sessions : WorksOn(t, q)' <=> WorksOn(t, q)
    BY <1>8 DEF WorksOn
  <2>2. QED
    BY <1>8, <2>1, UndisturbedKept
<1>9. QED
  BY <1>1, <1>2, <1>3, <1>4, <1>5, <1>6, <1>7, <1>8
     DEF Next, ProviderDecides, Age, OperatorSetsLock, vars

-----------------------------------------------------------------------------
(***************************************************************************)
(* The theorems                                                            *)
(***************************************************************************)

\* What holds in bulk reconciliation, too.
Base ==
    /\ TypeOK
    /\ RefundedWasCredited
    /\ RefundMeansRejected
    /\ \A s \in Sessions : job[s] # NoJob => Sound(s)

\* Nothing has happened yet.
LEMMA InitHolds ==
    ASSUME Init
    PROVE  Base /\ \A p \in Purchases : Undisturbed(p)
<1>1. TypeOK
  <2>1. status \in [Purchases -> Status] /\ balance \in Int
    BY OpeningIsNat DEF Init, Status
  <2>2. ledger \in [Purchases -> [Rows -> Nat]]
    BY DEF Init
  <2>3. order \in [Purchases -> [Sellers -> Fate]]
    BY DEF Init, Fate
  <2>4. job \in [Sessions -> Job \cup {NoJob}]
    BY DEF Init
  <2>5. unclear \in SUBSET Purchases
    BY DoubtedArePurchases DEF Init
  <2>6. QED
    BY <2>1, <2>2, <2>3, <2>4, <2>5 DEF Init, TypeOK
<1>2. RefundedWasCredited /\ RefundMeansRejected
  <2>1. \A p \in Purchases, r \in Refunds : status[p] = "none" /\ ledger[p][r] = 0
    BY DEF Init, Rows
  <2>2. QED
    BY <2>1 DEF Init, RefundedWasCredited, RefundMeansRejected
<1>3. \A s \in Sessions : job[s] = NoJob
  BY DEF Init
<1>4. ASSUME NEW p \in Purchases
      PROVE  Undisturbed(p)
  <2>1. status[p] = "none" /\ \A r \in Rows : ledger[p][r] = 0
    BY DEF Init
  <2>2. /\ ledger[p]["debit"] = 0 /\ ledger[p]["reversal"] = 0
        /\ ledger[p]["request"] = 0 /\ ledger[p]["webhook"] = 0
        /\ ledger[p]["worker"] = 0 /\ ledger[p]["fail_refund"] = 0
    BY <2>1 DEF Rows, Refunds
  <2>3. InOrder(p)
    BY <2>1, <2>2 DEF InOrder, Holds, Refunded
  <2>4. QED
    BY <1>3, <2>3 DEF Undisturbed, WorksOn
<1>5. QED
  BY <1>1, <1>2, <1>3, <1>4 DEF Base

\* The base is kept by every step.
LEMMA BaseStep ==
    ASSUME Base, [Next]_vars
    PROVE  Base'
<1>1. \A s \in Sessions : job[s] # NoJob => Sound(s)
  BY DEF Base
<1>2. TypeOK'
  BY <1>1, TypeStep DEF Base
<1>3. RefundedWasCredited' /\ RefundMeansRejected'
  BY <1>1, RefundedStep, GroundsStep DEF Base
<1>4. (\A s \in Sessions : job[s] # NoJob => Sound(s))'
  BY <1>1, SoundStep DEF Base, Sessions
<1>5. QED
  BY <1>2, <1>3, <1>4 DEF Base

\* So the base always holds.
LEMMA BaseAlways == Spec => []Base
<1>1. Init => Base
  BY InitHolds
<1>2. Base /\ [Next]_vars => Base'
  BY BaseStep
<1>3. QED
  BY <1>1, <1>2, PTL DEF Spec

\* Type correctness of the purchase model.
THEOREM PurchaseTypes == Spec => []TypeOK
<1>1. Base => TypeOK
  BY DEF Base
<1>2. QED
  BY <1>1, BaseAlways, PTL

\* Under every interleaving and crash, REFUNDED means that a refund is on the
\* ledger.
THEOREM RefundsArePaid == Spec => []RefundedWasCredited
<1>1. Base => RefundedWasCredited
  BY DEF Base
<1>2. QED
  BY <1>1, BaseAlways, PTL

\* Under every interleaving and crash, and with every plan's sellers: as long as
\* they spoke clearly, each refund on the ledger has its grounds.
THEOREM RefundsHaveGrounds == Spec => []RefundMeansRejected
<1>1. Base => RefundMeansRejected
  BY DEF Base
<1>2. QED
  BY <1>1, BaseAlways, PTL

\* Under every interleaving and crash, as long as the sellers spoke clearly, only
\* a delivered order or the admin turns a purchase into a SUCCESS.
THEOREM SuccessMeansDelivered == Spec => SuccessIsDelivered
<1>1. Base /\ [Next]_vars => [SuccessOnlyIfDelivered]_vars
  BY SuccessStep DEF Base
<1>2. QED
  BY <1>1, BaseAlways, PTL DEF Spec, SuccessIsDelivered

\* Without bulk reconciliation, PurchaseInv is an invariant.
LEMMA PurchaseInvAlways == ASSUME Bulk = FALSE PROVE Spec => []PurchaseInv
<1>1. Init => PurchaseInv
  BY InitHolds DEF Base, PurchaseInv
<1>2. PurchaseInv /\ [Next]_vars => PurchaseInv'
  <2> SUFFICES ASSUME PurchaseInv, [Next]_vars
               PROVE  PurchaseInv'
    OBVIOUS
  <2>1. Base /\ \A p \in Purchases : Undisturbed(p)
    BY DEF Base, PurchaseInv
  <2>2. Base'
    BY <2>1, BaseStep
  <2>3. \A p \in Purchases : Undisturbed(p)'
    BY <2>1, UndisturbedStep DEF Base
  <2>4. QED
    BY <2>2, <2>3 DEF Base, PurchaseInv
<1>3. QED
  BY <1>1, <1>2, PTL DEF Spec

\* Without bulk reconciliation, the ledger of a purchase whose handlers came one
\* after the other agrees with its status, for any number of purchases, threads
\* and repetitions, and one left FAILED met a locked wallet.
THEOREM BooksAreKept == ASSUME Bulk = FALSE PROVE Spec => []BooksMatchStatus
<1>1. PurchaseInv => BooksMatchStatus
  <2> SUFFICES ASSUME PurchaseInv, NEW p \in Purchases, p \notin disturbed,
                      \A s \in Sessions : ~WorksOn(s, p)
               PROVE  /\ Paid(p) = (IF status[p] \in {"none", "REFUNDED"} THEN 0 ELSE 1)
                      /\ status[p] = "FAILED" => p \in refused
    BY DEF BooksMatchStatus
  <2>1. InOrder(p)
    BY DEF PurchaseInv, Undisturbed
  <2>2. Paid(p) = ledger[p]["debit"] + ledger[p]["reversal"] - Refunded(p)
    BY DEF Paid, Refunded
  <2>3. ASSUME NEW d \in Nat, NEW r \in Nat, NEW v \in Nat, Holds(p, d, r, v)
        PROVE  Paid(p) = d + v - r
    BY <2>2, <2>3 DEF Holds
  <2>4. CASE status[p] = "none" /\ Holds(p, 0, 0, 0)
    BY <2>3, <2>4
  <2>5. CASE /\ status[p] \in {"PENDING", "FAILED"} /\ Holds(p, 1, 0, 0)
             /\ status[p] = "FAILED" => p \in refused
    BY <2>3, <2>5
  <2>6. CASE status[p] = "REFUNDED" /\ Holds(p, 1, 1, 0)
    BY <2>3, <2>6
  <2>7. CASE status[p] = "SUCCESS" /\ (Holds(p, 1, 0, 0) \/ Holds(p, 1, 1, 1))
    BY <2>3, <2>7
  <2>8. QED
    BY <2>1, <2>4, <2>5, <2>6, <2>7 DEF InOrder
<1>2. QED
  BY <1>1, PurchaseInvAlways, PTL
=============================================================================
