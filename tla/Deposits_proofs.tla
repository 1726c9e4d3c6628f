-------------------------- MODULE Deposits_proofs --------------------------
(***************************************************************************)
(* DepositInv is an inductive invariant of Deposits, and what it implies:  *)
(* money in a wallet has been paid, a transfer is credited exactly when    *)
(* its row appears, an undisturbed checkout agrees with its status, and a  *)
(* referral is rewarded once.                                              *)
(***************************************************************************)
EXTENDS Deposits, TLAPS

Places == {"asking", "loaded", "owing", "credited", "failing",
           "posting", "rewarding", "granting"}

\* What the place of a job says about its deposit.
JobSound(s) ==
    LET d == job[s].d
        pc == job[s].pc
    IN  /\ pc \in {"asking", "loaded", "owing", "credited", "failing"} => d \in Checkouts
        /\ pc \in {"loaded", "owing", "credited", "posting"} => Paid(d)
        /\ pc = "posting" => d \notin Checkouts
        /\ pc \in {"credited", "rewarding", "granting"} => Credits(d) >= 1
        /\ pc = "granting" => Referrer[Owner[d]] # NoUser

Sound == \A s \in Handlers : job[s] # NoJob => JobSound(s)

\* A transfer never has a row that is not a SUCCESS.
TransfersSucceed ==
    \A d \in Deposits \ Checkouts : status[d] \in {"none", "SUCCESS"}

\* A checkout that was never in the hands of two threads or of a dead one.
Undisturbed(d) == d \in Checkouts \ (overlapped \cup crashed)

\* One thread at a time.
OneAtATime ==
    \A d \in Deposits : Undisturbed(d) =>
        \A s, t \in Handlers : WorksOn(s, d) /\ WorksOn(t, d) => s = t

Settled(d) == Credits(d) = (IF status[d] = "SUCCESS" THEN 1 ELSE 0)

\* What the one thread on an undisturbed checkout has done so far.
JobInTurn(s) ==
    LET d == job[s].d
        pc == job[s].pc
    IN  /\ pc \in {"asking", "loaded", "owing", "failing"} =>
              Credits(d) = 0 /\ status[d] # "SUCCESS"
        /\ pc = "credited" => Credits(d) = 1
        /\ pc \in {"rewarding", "granting"} => Credits(d) = 1 /\ status[d] = "SUCCESS"

InTurn ==
    \A d \in Deposits : Undisturbed(d) =>
        /\ (\A s \in Handlers : ~WorksOn(s, d)) => Settled(d)
        /\ \A s \in Handlers : WorksOn(s, d) => JobInTurn(s)

DepositInv ==
    /\ TypeOK
    /\ Sound
    /\ MoneyIsBacked
    /\ TransfersSucceed
    /\ TransferCreditedOnce
    /\ RewardedOnce
    /\ OneAtATime
    /\ InTurn

-----------------------------------------------------------------------------
(***************************************************************************)
(* Jobs and rows                                                           *)
(***************************************************************************)

\* The fields of a job.
LEMMA JobFields ==
    ASSUME TypeOK, NEW s \in Handlers, job[s] # NoJob
    PROVE  /\ job[s] \in Job
           /\ job[s].d \in Deposits
           /\ job[s].kind \in {"verify", "paid", "failed", "transfer"}
           /\ job[s].pc \in Places
<1>1. job[s] \in Job
  BY DEF TypeOK
<1>2. QED
  BY <1>1 DEF Job, Places

\* A job that moves on.
LEMMA GotoFields ==
    ASSUME TypeOK, NEW s \in Handlers, job[s] # NoJob, NEW pc \in Places, Goto(s, pc)
    PROVE  /\ job' \in [Handlers -> Job \cup {NoJob}]
           /\ \A t \in Handlers \ {s} : job'[t] = job[t]
           /\ job'[s] # NoJob /\ job'[s].d = job[s].d /\ job'[s].pc = pc
<1>1. job[s] \in Job /\ job \in [Handlers -> Job \cup {NoJob}]
  BY DEF TypeOK
<1>2. /\ job'[s] = [job[s] EXCEPT !.pc = pc]
      /\ \A t \in Handlers \ {s} : job'[t] = job[t]
      /\ job' \in [Handlers -> Job \cup {NoJob, job'[s]}]
  BY <1>1 DEF Goto
<1>3. job'[s] \in Job /\ job'[s].d = job[s].d /\ job'[s].pc = pc
  BY <1>1, <1>2 DEF Job, Places
<1>4. QED
  BY <1>2, <1>3, NoJobIsNoJob

\* A job that ends.
LEMMA EndFields ==
    ASSUME TypeOK, NEW s \in Handlers, job' = [job EXCEPT ![s] = NoJob]
    PROVE  /\ job' \in [Handlers -> Job \cup {NoJob}]
           /\ \A t \in Handlers \ {s} : job'[t] = job[t]
           /\ job'[s] = NoJob
BY DEF TypeOK

\* A job that begins.
LEMMA BeginFields ==
    ASSUME TypeOK, NEW s \in Handlers, NEW d \in Deposits, NEW pc \in Places,
           NEW kind \in {"verify", "paid", "failed", "transfer"},
           Begin(s, kind, d, pc)
    PROVE  /\ job[s] = NoJob
           /\ job' \in [Handlers -> Job \cup {NoJob}]
           /\ \A t \in Handlers \ {s} : job'[t] = job[t]
           /\ job'[s] # NoJob /\ job'[s].d = d /\ job'[s].pc = pc
           /\ overlapped' \in SUBSET Deposits
<1> DEFINE j == [kind |-> kind, d |-> d, pc |-> pc]
<1>1. job \in [Handlers -> Job \cup {NoJob}] /\ overlapped \in SUBSET Deposits
  BY DEF TypeOK
<1>2. j \in Job
  BY DEF Job, Places
<1>3. job[s] = NoJob /\ job' = [job EXCEPT ![s] = j]
  BY DEF Begin
<1>4. job'[s] = j /\ \A t \in Handlers \ {s} : job'[t] = job[t]
  BY <1>1, <1>3
<1>5. job' \in [Handlers -> Job \cup {NoJob}]
  BY <1>1, <1>2, <1>3
<1>6. overlapped' \in SUBSET Deposits
  BY <1>1 DEF Begin
<1>7. QED
  BY <1>2, <1>3, <1>4, <1>5, <1>6, NoJobIsNoJob

\* Credits are counted in natural numbers.
LEMMA CreditsNat ==
    ASSUME TypeOK, NEW d \in Deposits
    PROVE  /\ Credits(d) \in Nat
           /\ \A r \in Rows : ledger[d][r] \in Nat /\ ledger[d][r] <= Credits(d)
<1>1. ledger[d] \in [Rows -> Nat]
  BY DEF TypeOK
<1>2. ledger[d]["plain"] \in Nat /\ ledger[d]["named"] \in Nat
  BY <1>1 DEF Rows
<1>3. QED
  BY <1>2 DEF Credits, Rows

\* One row more is one credit more, of this deposit.
LEMMA PostAdds ==
    ASSUME TypeOK, NEW d \in Deposits, NEW row \in Rows, Post(d, row)
    PROVE  /\ ledger' \in [Deposits -> [Rows -> Nat]]
           /\ Credits(d)' = Credits(d) + 1
           /\ \A e \in Deposits \ {d} : Credits(e)' = Credits(e)
<1>1. ledger \in [Deposits -> [Rows -> Nat]] /\ ledger[d] \in [Rows -> Nat]
  BY DEF TypeOK
<1>2. ledger' = [ledger EXCEPT ![d] = [ledger[d] EXCEPT ![row] = ledger[d][row] + 1]]
  BY <1>1 DEF Post
<1>3. [ledger[d] EXCEPT ![row] = ledger[d][row] + 1] \in [Rows -> Nat]
  BY <1>1
<1>4. ledger'[d] = [ledger[d] EXCEPT ![row] = ledger[d][row] + 1]
  BY <1>1, <1>2
<1>5. PICK a \in Nat, b \in Nat : ledger[d]["plain"] = a /\ ledger[d]["named"] = b
  BY <1>1 DEF Rows
<1>6. ASSUME row = "plain" PROVE Credits(d)' = Credits(d) + 1
  <2>1. ledger'[d]["plain"] = a + 1 /\ ledger'[d]["named"] = b
    BY <1>1, <1>4, <1>5, <1>6 DEF Rows
  <2>2. QED
    BY <2>1, <1>5 DEF Credits
<1>7. ASSUME row = "named" PROVE Credits(d)' = Credits(d) + 1
  <2>1. ledger'[d]["plain"] = a /\ ledger'[d]["named"] = b + 1
    BY <1>1, <1>4, <1>5, <1>7 DEF Rows
  <2>2. QED
    BY <2>1, <1>5 DEF Credits
<1>8. Credits(d)' = Credits(d) + 1
  BY <1>6, <1>7 DEF Rows
<1>9. \A e \in Deposits \ {d} : Credits(e)' = Credits(e)
  BY <1>1, <1>2 DEF Credits
<1>10. QED
  BY <1>1, <1>2, <1>3, <1>8, <1>9

\* A row's name is one of the two.
LEMMA RowIsRow ==
    ASSUME NEW s \in Handlers
    PROVE  Row(s) \in Rows
BY DEF Row, Rows

\* What Insert and Update do to the status column.
LEMMA StatusOf ==
    ASSUME TypeOK, NEW d \in Deposits, NEW st \in Status, Insert(d, st) \/ Update(d, st)
    PROVE  /\ status' \in [Deposits -> Status]
           /\ older' \in [Deposits -> SUBSET Deposits]
           /\ late' \in SUBSET Deposits
           /\ status'[d] = st
           /\ \A e \in Deposits \ {d} : status'[e] = status[e]
<1>1. CASE Insert(d, st)
  BY <1>1 DEF Insert, SameOwner, TypeOK
<1>2. CASE Update(d, st)
  BY <1>2 DEF Update, TypeOK
<1>3. QED
  BY <1>1, <1>2

\* Only a thread with a job advances.
LEMMA AdvanceBusy ==
    ASSUME NEW s \in Handlers, Advance(s)
    PROVE  job[s] # NoJob
BY DEF Advance, VerifyAnswers, LookUp, Credit, MarkSuccess, MarkFailed, PostTransfer,
       Refused, Qualify, Grant, At

-----------------------------------------------------------------------------
(***************************************************************************)
(* Type correctness                                                        *)
(***************************************************************************)

LEMMA TypeInit == Init => TypeOK
BY DEF Init, TypeOK, Status, Rows

\* A reward is written only for a user with a referrer, hence Sound.
LEMMA TypeAdvance ==
    ASSUME TypeOK, Sound, NEW s \in Handlers, Advance(s)
    PROVE  TypeOK'
<1> USE DEF table, money, world, history
<1>1. job[s] # NoJob
  BY AdvanceBusy
<1>2. PICK d \in Deposits : job[s].d = d
  BY <1>1, JobFields
<1>3. ASSUME NEW pc \in Places, Goto(s, pc)
      PROVE  /\ job' \in [Handlers -> Job \cup {NoJob}]
             /\ answered' = answered /\ overlapped' = overlapped /\ crashed' = crashed
  BY <1>1, <1>3, GotoFields DEF Goto
<1>4. ASSUME Return(s) \/ Fail(s)
      PROVE  /\ job' \in [Handlers -> Job \cup {NoJob}]
             /\ answered' \in SUBSET Deposits
             /\ overlapped' = overlapped /\ crashed' = crashed
  BY <1>1, <1>2, <1>4, EndFields DEF Return, Fail, TypeOK
<1>5. CASE VerifyAnswers(s)
  BY <1>3, <1>4, <1>5 DEF VerifyAnswers, TypeOK, Places
<1>6. CASE LookUp(s)
  BY <1>3, <1>6 DEF LookUp, TypeOK, Places
<1>7. CASE Credit(s)
  <2>1. ledger' \in [Deposits -> [Rows -> Nat]]
    BY <1>2, <1>7, PostAdds, RowIsRow DEF Credit
  <2>2. QED
    BY <2>1, <1>3, <1>7 DEF Credit, TypeOK, Places
<1>8. CASE MarkSuccess(s)
  <2>1. /\ status' \in [Deposits -> Status] /\ older' \in [Deposits -> SUBSET Deposits]
        /\ late' \in SUBSET Deposits
    BY <1>2, <1>8, StatusOf DEF MarkSuccess, Status
  <2>2. QED
    BY <2>1, <1>3, <1>8 DEF MarkSuccess, TypeOK, Places
<1>9. CASE MarkFailed(s)
  <2>1. /\ status' \in [Deposits -> Status] /\ older' \in [Deposits -> SUBSET Deposits]
        /\ late' \in SUBSET Deposits
    BY <1>2, <1>9, StatusOf DEF MarkFailed, Status
  <2>2. QED
    BY <2>1, <1>4, <1>9 DEF MarkFailed, TypeOK
<1>10. CASE PostTransfer(s)
  <2>1. CASE Insert(d, "SUCCESS") /\ Post(d, Row(s)) /\ Goto(s, "rewarding")
             /\ UNCHANGED <<rewards, income, locked, payment>>
    <3>1. /\ status' \in [Deposits -> Status] /\ older' \in [Deposits -> SUBSET Deposits]
          /\ late' \in SUBSET Deposits
      BY <2>1, StatusOf DEF Status
    <3>2. ledger' \in [Deposits -> [Rows -> Nat]]
      BY <2>1, PostAdds, RowIsRow
    <3>3. QED
      BY <3>1, <3>2, <2>1, <1>3 DEF TypeOK, Places
  <2>2. CASE Return(s) /\ UNCHANGED <<table, money, world>>
    BY <2>2, <1>4 DEF TypeOK
  <2>3. QED
    BY <2>1, <2>2, <1>2, <1>10 DEF PostTransfer
<1>11. CASE Refused(s)
  BY <1>4, <1>11 DEF Refused, TypeOK
<1>12. CASE Qualify(s)
  BY <1>3, <1>4, <1>12 DEF Qualify, TypeOK, Places
<1>13. CASE Grant(s)
  <2>1. Referrer[Owner[d]] \in Users
    BY <1>1, <1>2, <1>13, PeopleAreUsers DEF Grant, At, Sound, JobSound
  <2>2. /\ rewards' = rewards \/ rewards' = [rewards EXCEPT ![d] = @ + 1]
        /\ income' = income \/ income' = income \cup {Referrer[Owner[d]]}
    BY <1>2, <1>13 DEF Grant
  <2>3. rewards' \in [Deposits -> Nat] /\ income' \in SUBSET Users
    BY <2>1, <2>2 DEF TypeOK
  <2>4. QED
    BY <2>3, <1>4, <1>13 DEF Grant, TypeOK
<1>14. QED
  BY <1>5, <1>6, <1>7, <1>8, <1>9, <1>10, <1>11, <1>12, <1>13 DEF Advance

LEMMA TypeStep == TypeOK /\ Sound /\ [Next]_vars => TypeOK'
<1> SUFFICES ASSUME TypeOK, Sound, [Next]_vars PROVE TypeOK'
  OBVIOUS
<1> USE DEF table, money, world, history
<1>1. ASSUME NEW s \in Handlers, NEW d \in Deposits,
             Verify(s, d) \/ PaidWebhook(s, d) \/ FailedWebhook(s, d) \/ TransferWebhook(s, d)
      PROVE  TypeOK'
  <2>1. PICK kind \in {"verify", "paid", "failed", "transfer"}, pc \in Places :
            Begin(s, kind, d, pc)
    BY <1>1 DEF Verify, PaidWebhook, FailedWebhook, TransferWebhook, Places
  <2>2. job' \in [Handlers -> Job \cup {NoJob}] /\ overlapped' \in SUBSET Deposits
    BY <2>1, BeginFields
  <2>3. answered' = answered /\ crashed' = crashed
    BY <2>1 DEF Begin
  <2>4. QED
    BY <2>2, <2>3, <1>1 DEF TypeOK, Verify, PaidWebhook, FailedWebhook, TransferWebhook
<1>2. ASSUME NEW s \in Handlers, Advance(s) PROVE TypeOK'
  BY <1>2, TypeAdvance
<1>3. ASSUME NEW s \in Handlers, Crash(s) PROVE TypeOK'
  <2>1. job[s].d \in Deposits
    BY <1>3, JobFields DEF Crash
  <2>2. QED
    BY <2>1, <1>3, EndFields DEF Crash, TypeOK
<1>4. ASSUME NEW d \in Deposits, Fund(d) \/ CheckoutFails(d) PROVE TypeOK'
  <2>1. PICK st \in Status : Insert(d, st) \/ Update(d, st)
    BY <1>4 DEF Fund, CheckoutFails, Status
  <2>2. /\ status' \in [Deposits -> Status] /\ older' \in [Deposits -> SUBSET Deposits]
        /\ late' \in SUBSET Deposits
    BY <2>1, StatusOf
  <2>3. QED
    BY <2>2, <1>4 DEF Fund, CheckoutFails, TypeOK
<1>5. ASSUME NEW d \in Deposits, CheckoutOpens(d) \/ Pays(d) \/ FailsToPay(d) PROVE TypeOK'
  <2>1. payment' \in [Deposits -> {"none", "open", "failed", "paid", "repaid"}]
    BY <1>5 DEF CheckoutOpens, Pays, FailsToPay, TypeOK
  <2>2. QED
    BY <2>1, <1>5 DEF CheckoutOpens, Pays, FailsToPay, TypeOK
<1>6. ASSUME NEW u \in Users, OtherIncome(u) \/ OperatorSetsLock(u) PROVE TypeOK'
  BY <1>6 DEF OtherIncome, OperatorSetsLock, TypeOK
<1>7. CASE UNCHANGED vars
  BY <1>7 DEF vars, TypeOK
<1>8. QED
  BY <1>1, <1>2, <1>3, <1>4, <1>5, <1>6, <1>7 DEF Next

-----------------------------------------------------------------------------
(***************************************************************************)
(* What a step leaves alone                                                *)
(***************************************************************************)

\* A thread touches its own job and its own deposit.
LEMMA AdvanceFrame ==
    ASSUME TypeOK, NEW s \in Handlers, Advance(s)
    PROVE  /\ \A t \in Handlers \ {s} : job'[t] = job[t]
           /\ job'[s] = NoJob \/ job'[s].d = job[s].d
           /\ payment' = payment /\ overlapped' = overlapped /\ crashed' = crashed
           /\ \A e \in Deposits : Credits(e)' \in {Credits(e), Credits(e) + 1}
           /\ \A e \in Deposits \ {job[s].d} :
                 /\ status'[e] = status[e]
                 /\ Credits(e)' = Credits(e)
                 /\ rewards'[e] = rewards[e]
<1> USE DEF table, money, world, history
<1>1. job[s] # NoJob
  BY AdvanceBusy
<1>2. PICK d \in Deposits : job[s].d = d
  BY <1>1, JobFields
<1>3. /\ \A t \in Handlers \ {s} : job'[t] = job[t]
      /\ job'[s] = NoJob \/ job'[s].d = job[s].d
      /\ overlapped' = overlapped /\ crashed' = crashed
  <2>1. ASSUME NEW pc \in Places, Goto(s, pc)
        PROVE  /\ \A t \in Handlers \ {s} : job'[t] = job[t]
               /\ job'[s] = NoJob \/ job'[s].d = job[s].d
               /\ overlapped' = overlapped /\ crashed' = crashed
    BY <2>1, <1>1, GotoFields DEF Goto
  <2>2. ASSUME Return(s) \/ Fail(s)
        PROVE  /\ \A t \in Handlers \ {s} : job'[t] = job[t]
               /\ job'[s] = NoJob
               /\ overlapped' = overlapped /\ crashed' = crashed
    BY <2>2, EndFields DEF Return, Fail
  <2>3. Return(s) \/ Fail(s) \/ \E pc \in Places : Goto(s, pc)
    BY DEF Advance, VerifyAnswers, LookUp, Credit, MarkSuccess, MarkFailed,
           PostTransfer, Refused, Qualify, Grant, Places
  <2>4. QED
    BY <2>1, <2>2, <2>3
<1>4. payment' = payment
  BY DEF Advance, VerifyAnswers, LookUp, Credit, MarkSuccess, MarkFailed,
         PostTransfer, Refused, Qualify, Grant
<1>5. status' = status \/ \E st \in Status : Insert(d, st) \/ Update(d, st)
  BY <1>2 DEF Advance, VerifyAnswers, LookUp, Credit, MarkSuccess, MarkFailed,
         PostTransfer, Refused, Qualify, Grant, Status
<1>6. \A e \in Deposits \ {d} : status'[e] = status[e]
  BY <1>5, StatusOf
<1>7. ledger' = ledger \/ Post(d, Row(s))
  BY <1>2 DEF Advance, VerifyAnswers, LookUp, Credit, MarkSuccess, MarkFailed,
         PostTransfer, Refused, Qualify, Grant
<1>8. /\ \A e \in Deposits \ {d} : Credits(e)' = Credits(e)
      /\ Credits(d)' \in {Credits(d), Credits(d) + 1}
  <2>1. CASE ledger' = ledger
    BY <2>1, CreditsNat DEF Credits
  <2>2. CASE Post(d, Row(s))
    BY <2>2, CreditsNat, PostAdds, RowIsRow
  <2>3. QED
    BY <2>1, <2>2, <1>7
<1>9. \A e \in Deposits \ {d} : rewards'[e] = rewards[e]
  <2>1. rewards' = rewards \/ rewards' = [rewards EXCEPT ![d] = @ + 1]
    BY <1>2 DEF Advance, VerifyAnswers, LookUp, Credit, MarkSuccess, MarkFailed,
           PostTransfer, Refused, Qualify, Grant
  <2>2. QED
    BY <2>1 DEF TypeOK
<1>10. QED
  BY <1>2, <1>3, <1>4, <1>6, <1>8, <1>9

\* Payments and credits are never taken back, and credits come one at a time.
LEMMA NothingTakenBack ==
    ASSUME TypeOK, [Next]_vars
    PROVE  \A d \in Deposits :
              /\ Paid(d) => Paid(d)'
              /\ Credits(d)' \in {Credits(d), Credits(d) + 1}
<1> USE DEF table, money, world, history
<1> SUFFICES ASSUME NEW d \in Deposits
             PROVE  (Paid(d) => Paid(d)') /\ Credits(d)' \in {Credits(d), Credits(d) + 1}
  OBVIOUS
<1>1. ASSUME ledger' = ledger PROVE Credits(d)' \in {Credits(d), Credits(d) + 1}
  BY <1>1, CreditsNat DEF Credits
<1>2. ASSUME payment' = payment PROVE Paid(d) => Paid(d)'
  BY <1>2 DEF Paid
<1>3. CASE \E s \in Handlers : Advance(s)
  <2>1. PICK s \in Handlers : Advance(s)
    BY <1>3
  <2>2. payment' = payment /\ Credits(d)' \in {Credits(d), Credits(d) + 1}
    BY <2>1, AdvanceFrame
  <2>3. QED
    BY <2>2, <1>2
<1>4. CASE \E e \in Deposits : CheckoutOpens(e) \/ Pays(e) \/ FailsToPay(e)
  <2>1. PICK e \in Deposits : CheckoutOpens(e) \/ Pays(e) \/ FailsToPay(e)
    BY <1>4
  <2>2. ledger' = ledger
    BY <2>1 DEF CheckoutOpens, Pays, FailsToPay
  <2>3. Paid(d) => Paid(d)'
    BY <2>1 DEF CheckoutOpens, Pays, FailsToPay, Paid, TypeOK
  <2>4. QED
    BY <2>2, <2>3, <1>1
<1>5. CASE ledger' = ledger /\ payment' = payment
  BY <1>5, <1>1, <1>2
<1>6. QED
  BY <1>3, <1>4, <1>5 DEF Next, vars, Verify, PaidWebhook, FailedWebhook, TransferWebhook,
     Crash, Fund, CheckoutFails, OtherIncome, OperatorSetsLock

-----------------------------------------------------------------------------
(***************************************************************************)
(* Jobs are sound                                                          *)
(***************************************************************************)

\* A job that another thread's step leaves alone stays sound.
LEMMA JobStaysSound ==
    ASSUME TypeOK, [Next]_vars, NEW t \in Handlers, job[t] # NoJob, JobSound(t),
           job'[t] = job[t]
    PROVE  JobSound(t)'
<1>1. PICK d \in Deposits : job[t].d = d
  BY JobFields
<1>2. /\ Paid(d) => Paid(d)'
      /\ Credits(d) \in Nat
      /\ Credits(d)' \in {Credits(d), Credits(d) + 1}
  BY CreditsNat, NothingTakenBack
<1>3. Credits(d) >= 1 => Credits(d)' >= 1
  BY <1>2
<1>4. QED
  BY <1>1, <1>2, <1>3 DEF JobSound

\* A thread's own step keeps its job sound or ends it.
LEMMA SoundAdvance ==
    ASSUME TypeOK, Sound, NEW s \in Handlers, Advance(s), job'[s] # NoJob
    PROVE  JobSound(s)'
<1> USE DEF table, money, world, history
<1>1. job[s] # NoJob /\ JobSound(s)
  BY AdvanceBusy DEF Sound
<1>2. PICK d \in Deposits : job[s].d = d
  BY <1>1, JobFields
<1>3. ASSUME NEW pc \in Places, Goto(s, pc)
      PROVE  job'[s].d = d /\ job'[s].pc = pc
  BY <1>1, <1>2, <1>3, GotoFields
<1>4. ASSUME Return(s) \/ Fail(s) PROVE FALSE
  BY <1>4, EndFields DEF Return, Fail
<1>5. payment' = payment /\ (Paid(d) <=> Paid(d)')
  BY AdvanceFrame DEF Paid
<1>6. Credits(d) \in Nat /\ Credits(d)' \in {Credits(d), Credits(d) + 1}
  BY AdvanceFrame, CreditsNat
<1>7. CASE VerifyAnswers(s)
  <2>1. job'[s].d = d /\ job'[s].pc = "loaded" /\ Paid(d) /\ job[s].pc = "asking"
    BY <1>7, <1>2, <1>3, <1>4 DEF VerifyAnswers, At, Places
  <2>2. QED
    BY <2>1, <1>1, <1>2, <1>5 DEF JobSound
<1>8. CASE LookUp(s)
  <2>1. PICK pc \in Places :
            /\ Goto(s, pc)
            /\ pc = IF ledger[d][Row(s)] = 0 THEN "owing" ELSE "credited"
    BY <1>8, <1>2 DEF LookUp, Places
  <2>2. pc = "credited" => Credits(d) >= 1
    BY <2>1, <1>6, CreditsNat, RowIsRow
  <2>3. ledger' = ledger /\ job[s].pc = "loaded"
    BY <1>8 DEF LookUp, At
  <2>4. Credits(d)' = Credits(d)
    BY <2>3 DEF Credits
  <2>5. job'[s].d = d /\ job'[s].pc = pc /\ pc \in {"owing", "credited"}
    BY <2>1, <1>3
  <2>6. QED
    BY <2>2, <2>3, <2>4, <2>5, <1>1, <1>2, <1>5 DEF JobSound
<1>9. CASE Credit(s)
  <2>1. job'[s].d = d /\ job'[s].pc = "credited" /\ job[s].pc = "owing"
    BY <1>9, <1>3 DEF Credit, At, Places
  <2>2. Credits(d)' = Credits(d) + 1
    BY <1>9, <1>2, PostAdds, RowIsRow DEF Credit
  <2>3. QED
    BY <2>1, <2>2, <1>1, <1>2, <1>5, <1>6 DEF JobSound
<1>10. CASE MarkSuccess(s)
  <2>1. job'[s].d = d /\ job'[s].pc = "rewarding" /\ job[s].pc = "credited"
    BY <1>10, <1>3 DEF MarkSuccess, At, Places
  <2>2. QED
    BY <2>1, <1>1, <1>2, <1>6 DEF JobSound
<1>11. CASE PostTransfer(s)
  <2>1. job'[s].d = d /\ job'[s].pc = "rewarding" /\ Post(d, Row(s))
    BY <1>11, <1>2, <1>3, <1>4 DEF PostTransfer, Places
  <2>2. Credits(d)' = Credits(d) + 1
    BY <2>1, PostAdds, RowIsRow
  <2>3. QED
    BY <2>1, <2>2, <1>6 DEF JobSound
<1>12. CASE Qualify(s)
  <2>1. /\ job'[s].d = d /\ job'[s].pc = "granting" /\ job[s].pc = "rewarding"
        /\ Referrer[Owner[d]] # NoUser
    BY <1>12, <1>2, <1>3, <1>4 DEF Qualify, At, Places
  <2>2. QED
    BY <2>1, <1>1, <1>2, <1>6 DEF JobSound
<1>13. CASE MarkFailed(s) \/ Refused(s) \/ Grant(s)
  BY <1>13, <1>4 DEF MarkFailed, Refused, Grant
<1>14. QED
  BY <1>7, <1>8, <1>9, <1>10, <1>11, <1>12, <1>13 DEF Advance

\* A job begins with what its handler has just read.
LEMMA SoundBegin ==
    ASSUME TypeOK, MoneyIsBacked, NEW s \in Handlers, NEW d \in Deposits,
           Verify(s, d) \/ PaidWebhook(s, d) \/ FailedWebhook(s, d) \/ TransferWebhook(s, d)
    PROVE  /\ job[s] = NoJob
           /\ \A t \in Handlers \ {s} : job'[t] = job[t]
           /\ job'[s] # NoJob /\ job'[s].d = d
           /\ JobSound(s)'
           /\ d \in Checkouts =>
                 \/ job'[s].pc = "rewarding" /\ status[d] = "SUCCESS"
                 \/ job'[s].pc \in {"asking", "loaded", "failing"} /\ status[d] # "SUCCESS"
<1>1. PICK kind \in {"verify", "paid", "failed", "transfer"}, pc \in Places :
          /\ Begin(s, kind, d, pc)
          /\ \/ pc = "rewarding" /\ status[d] = "SUCCESS"
             \/ pc = "asking" /\ d \in Checkouts /\ status[d] # "SUCCESS"
             \/ pc = "loaded" /\ d \in Checkouts /\ Paid(d) /\ status[d] # "SUCCESS"
             \/ pc = "failing" /\ d \in Checkouts /\ status[d] # "SUCCESS"
             \/ pc = "posting" /\ d \notin Checkouts /\ Paid(d)
  BY DEF Verify, PaidWebhook, FailedWebhook, TransferWebhook, Places
<1>2. /\ job[s] = NoJob
      /\ \A t \in Handlers \ {s} : job'[t] = job[t]
      /\ job'[s] # NoJob /\ job'[s].d = d /\ job'[s].pc = pc
  BY <1>1, BeginFields
<1>3. ledger' = ledger /\ payment' = payment
  BY DEF Verify, PaidWebhook, FailedWebhook, TransferWebhook, money, world
<1>4. Credits(d)' = Credits(d) /\ (Paid(d) <=> Paid(d)')
  BY <1>3 DEF Credits, Paid
<1>5. status[d] = "SUCCESS" => Credits(d) >= 1
  BY DEF MoneyIsBacked
<1>6. JobSound(s)'
  BY <1>1, <1>2, <1>4, <1>5 DEF JobSound
<1>7. QED
  BY <1>1, <1>2, <1>6

LEMMA SoundStep ==
    TypeOK /\ MoneyIsBacked /\ Sound /\ [Next]_vars => Sound'
<1> SUFFICES ASSUME TypeOK, MoneyIsBacked, Sound, [Next]_vars,
                    NEW t \in Handlers, job'[t] # NoJob
             PROVE  JobSound(t)'
  BY DEF Sound
<1>1. CASE job'[t] = job[t]
  BY <1>1, JobStaysSound DEF Sound
<1>2. ASSUME NEW s \in Handlers, Advance(s), job'[t] # job[t] PROVE JobSound(t)'
  BY <1>2, AdvanceFrame, SoundAdvance
<1>3. ASSUME NEW s \in Handlers, Crash(s), job'[t] # job[t] PROVE FALSE
  BY <1>3, EndFields DEF Crash
<1>4. ASSUME NEW s \in Handlers, NEW d \in Deposits, job'[t] # job[t],
             Verify(s, d) \/ PaidWebhook(s, d) \/ FailedWebhook(s, d) \/ TransferWebhook(s, d)
      PROVE  JobSound(t)'
  BY <1>4, SoundBegin
<1>5. CASE job' = job
  BY <1>5, <1>1
<1>6. QED
  BY <1>1, <1>2, <1>3, <1>4, <1>5 DEF Next, vars, Fund, CheckoutOpens, CheckoutFails,
     Pays, FailsToPay, OtherIncome, OperatorSetsLock

-----------------------------------------------------------------------------
(***************************************************************************)
(* Who changes what                                                        *)
(***************************************************************************)

\* The steps of a thread that write a status.
LEMMA AdvanceStatus ==
    ASSUME TypeOK, NEW s \in Handlers, Advance(s),
           NEW d \in Deposits, status'[d] # status[d]
    PROVE  /\ job[s] # NoJob /\ job[s].d = d
           /\ \/ job[s].pc = "credited" /\ status'[d] = "SUCCESS"
              \/ job[s].pc = "failing" /\ status'[d] = "FAILED"
              \/ /\ job[s].pc = "posting"
                 /\ status[d] = "none" /\ status'[d] = "SUCCESS"
                 /\ Credits(d)' = Credits(d) + 1
<1>1. job[s] # NoJob /\ job[s].d = d
  BY AdvanceBusy, AdvanceFrame
<1>2. CASE MarkSuccess(s)
  BY <1>1, <1>2, StatusOf DEF MarkSuccess, At, Status
<1>3. CASE MarkFailed(s)
  BY <1>1, <1>3, StatusOf DEF MarkFailed, At, Status
<1>4. CASE PostTransfer(s)
  <2>1. /\ job[s].pc = "posting" /\ status[d] = "none"
        /\ Insert(d, "SUCCESS") /\ Post(d, Row(s))
    BY <1>1, <1>4 DEF PostTransfer, At, table
  <2>2. QED
    BY <2>1, <1>1, StatusOf, PostAdds, RowIsRow DEF Status
<1>5. CASE VerifyAnswers(s) \/ LookUp(s) \/ Credit(s) \/ Refused(s) \/ Qualify(s) \/ Grant(s)
  BY <1>5 DEF VerifyAnswers, LookUp, Credit, Refused, Qualify, Grant, table
<1>6. QED
  BY <1>2, <1>3, <1>4, <1>5 DEF Advance

\* Apart from threads, only the requests for checkouts write a status.
LEMMA StatusChanges ==
    ASSUME TypeOK, [Next]_vars, NEW d \in Deposits, status'[d] # status[d]
    PROVE  \/ /\ d \in Checkouts \/ status[d] = "PENDING"
              /\ status[d] # "SUCCESS" /\ status'[d] \in {"PENDING", "FAILED"}
              /\ job' = job /\ ledger' = ledger
           \/ \E s \in Handlers : Advance(s) /\ job[s].d = d
<1>1. ASSUME NEW e \in Deposits, Fund(e)
      PROVE  /\ d \in Checkouts
             /\ status[d] # "SUCCESS" /\ status'[d] \in {"PENDING", "FAILED"}
             /\ job' = job /\ ledger' = ledger
  BY <1>1, StatusOf DEF Fund, Status, money
<1>2. ASSUME NEW e \in Deposits, CheckoutFails(e)
      PROVE  /\ status[d] = "PENDING"
             /\ status[d] # "SUCCESS" /\ status'[d] \in {"PENDING", "FAILED"}
             /\ job' = job /\ ledger' = ledger
  BY <1>2, StatusOf DEF CheckoutFails, Status, money
<1>3. ASSUME NEW s \in Handlers, Advance(s) PROVE job[s].d = d
  BY <1>3, AdvanceStatus
<1>4. CASE status' = status
  BY <1>4
<1>5. QED
  BY <1>1, <1>2, <1>3, <1>4 DEF Next, vars, table, Verify, PaidWebhook, FailedWebhook,
     TransferWebhook, Crash, CheckoutOpens, Pays, FailsToPay, OtherIncome, OperatorSetsLock

\* The steps of a thread that write a credit.
LEMMA CreditChanges ==
    ASSUME TypeOK, [Next]_vars, NEW d \in Deposits, Credits(d)' # Credits(d)
    PROVE  \E s \in Handlers :
              /\ Advance(s) /\ job[s] # NoJob /\ job[s].d = d
              /\ \/ job[s].pc = "owing"
                 \/ job[s].pc = "posting" /\ status[d] = "none" /\ status'[d] = "SUCCESS"
<1>1. ledger' # ledger
  BY DEF Credits
<1>2. PICK s \in Handlers : Advance(s)
  BY <1>1 DEF Next, vars, money, Verify, PaidWebhook, FailedWebhook, TransferWebhook, Crash,
     Fund, CheckoutOpens, CheckoutFails, Pays, FailsToPay, OtherIncome, OperatorSetsLock
<1>3. job[s] # NoJob /\ job[s].d = d
  BY <1>2, AdvanceBusy, AdvanceFrame
<1>4. CASE Credit(s)
  BY <1>2, <1>3, <1>4 DEF Credit, At
<1>5. CASE PostTransfer(s)
  <2>1. job[s].pc = "posting" /\ status[d] = "none" /\ Insert(d, "SUCCESS")
    BY <1>1, <1>3, <1>5 DEF PostTransfer, At, money
  <2>2. QED
    BY <2>1, <1>2, <1>3, StatusOf DEF Status
<1>6. QED
  BY <1>1, <1>2, <1>4, <1>5 DEF Advance, VerifyAnswers, LookUp, MarkSuccess, MarkFailed,
     Refused, Qualify, Grant, money

\* The step of a thread that pays a reward.
LEMMA RewardChanges ==
    ASSUME TypeOK, [Next]_vars, rewards' # rewards
    PROVE  \E s \in Handlers :
              /\ job[s] # NoJob /\ job[s].pc = "granting"
              /\ ~AlreadyRewarded(job[s].d)
              /\ rewards' = [rewards EXCEPT ![job[s].d] = @ + 1]
<1>1. PICK s \in Handlers : Advance(s)
  BY DEF Next, vars, money, Verify, PaidWebhook, FailedWebhook, TransferWebhook, Crash,
     Fund, CheckoutOpens, CheckoutFails, Pays, FailsToPay, OtherIncome, OperatorSetsLock
<1>2. Grant(s)
  BY <1>1 DEF Advance, VerifyAnswers, LookUp, Credit, MarkSuccess, MarkFailed, PostTransfer,
     Refused, Qualify, money
<1>3. QED
  BY <1>2 DEF Grant, At

-----------------------------------------------------------------------------
(***************************************************************************)
(* The invariants that hold of every deposit                               *)
(***************************************************************************)

LEMMA MoneyStep ==
    TypeOK /\ Sound /\ MoneyIsBacked /\ [Next]_vars => MoneyIsBacked'
<1> SUFFICES ASSUME TypeOK, Sound, MoneyIsBacked, [Next]_vars, NEW d \in Deposits
             PROVE  /\ status'[d] = "SUCCESS" => Credits(d)' >= 1
                    /\ Credits(d)' >= 1 => Paid(d)'
                    /\ rewards'[d] >= 1 => Credits(d)' >= 1
  BY DEF MoneyIsBacked
<1>1. /\ Credits(d) \in Nat /\ Credits(d)' \in {Credits(d), Credits(d) + 1}
      /\ Paid(d) => Paid(d)'
  BY CreditsNat, NothingTakenBack
<1>2. /\ status[d] = "SUCCESS" => Credits(d) >= 1
      /\ Credits(d) >= 1 => Paid(d)
      /\ rewards[d] >= 1 => Credits(d) >= 1
  BY DEF MoneyIsBacked
<1>3. ASSUME status'[d] = "SUCCESS", status'[d] # status[d] PROVE Credits(d)' >= 1
  <2>1. PICK s \in Handlers : Advance(s) /\ job[s].d = d
    BY <1>3, StatusChanges
  <2>2. job[s] # NoJob /\ (job[s].pc = "credited" \/ Credits(d)' = Credits(d) + 1)
    BY <2>1, <1>3, AdvanceStatus
  <2>3. job[s].pc = "credited" => Credits(d) >= 1
    BY <2>1, <2>2 DEF Sound, JobSound
  <2>4. QED
    BY <2>2, <2>3, <1>1
<1>4. ASSUME Credits(d)' # Credits(d) PROVE Paid(d)'
  <2>1. PICK s \in Handlers : job[s] # NoJob /\ job[s].d = d /\ job[s].pc \in {"owing", "posting"}
    BY <1>4, CreditChanges
  <2>2. Paid(d)
    BY <2>1 DEF Sound, JobSound
  <2>3. QED
    BY <2>2, <1>1
<1>5. ASSUME rewards'[d] >= 1, rewards'[d] # rewards[d] PROVE Credits(d)' >= 1
  <2>1. PICK s \in Handlers :
            /\ job[s] # NoJob /\ job[s].pc = "granting"
            /\ rewards' = [rewards EXCEPT ![job[s].d] = @ + 1]
    BY <1>5, RewardChanges
  <2>2. job[s].d = d
    BY <2>1, <1>5, JobFields DEF TypeOK
  <2>3. Credits(d) >= 1
    BY <2>1, <2>2 DEF Sound, JobSound
  <2>4. QED
    BY <2>3, <1>1
<1>6. QED
  BY <1>1, <1>2, <1>3, <1>4, <1>5

LEMMA TransferStep ==
    /\ TypeOK /\ Sound /\ TransfersSucceed /\ TransferCreditedOnce /\ [Next]_vars
    => TransfersSucceed' /\ TransferCreditedOnce'
<1> SUFFICES ASSUME TypeOK, Sound, TransfersSucceed, TransferCreditedOnce, [Next]_vars,
                    NEW d \in Deposits \ Checkouts
             PROVE  /\ status'[d] \in {"none", "SUCCESS"}
                    /\ Credits(d)' = (IF status'[d] = "SUCCESS" THEN 1 ELSE 0)
  BY DEF TransfersSucceed, TransferCreditedOnce
<1>1. /\ status[d] \in {"none", "SUCCESS"}
      /\ Credits(d) = (IF status[d] = "SUCCESS" THEN 1 ELSE 0)
  BY DEF TransfersSucceed, TransferCreditedOnce
<1>2. ASSUME NEW s \in Handlers, job[s] # NoJob, job[s].d = d
      PROVE  job[s].pc \notin {"credited", "failing", "owing"}
  BY <1>2 DEF Sound, JobSound
<1>3. CASE status'[d] # status[d]
  <2>1. PICK s \in Handlers : Advance(s) /\ job[s].d = d
    BY <1>1, <1>3, StatusChanges
  <2>2. status[d] = "none" /\ status'[d] = "SUCCESS" /\ Credits(d)' = Credits(d) + 1
    BY <2>1, <1>2, <1>3, AdvanceStatus
  <2>3. QED
    BY <2>2, <1>1
<1>4. CASE status'[d] = status[d]
  <2>1. Credits(d)' = Credits(d)
    BY <1>2, <1>4, CreditChanges
  <2>2. QED
    BY <2>1, <1>1, <1>4
<1>5. QED
  BY <1>3, <1>4

LEMMA RewardStep == TypeOK /\ RewardedOnce /\ [Next]_vars => RewardedOnce'
<1> SUFFICES ASSUME TypeOK, RewardedOnce, [Next]_vars,
                    NEW d \in Deposits, NEW e \in Deposits,
                    rewards'[d] >= 1, rewards'[e] >= 1, Owner[d] = Owner[e]
             PROVE  d = e /\ rewards'[d] = 1
  BY DEF RewardedOnce
<1>1. CASE rewards' = rewards
  BY <1>1 DEF RewardedOnce
<1>2. CASE rewards' # rewards
  <2>1. PICK s \in Handlers :
            /\ job[s] # NoJob /\ ~AlreadyRewarded(job[s].d)
            /\ rewards' = [rewards EXCEPT ![job[s].d] = @ + 1]
    BY <1>2, RewardChanges
  <2>2. PICK g \in Deposits : job[s].d = g
    BY <2>1, JobFields
  <2>3. rewards' = [rewards EXCEPT ![g] = @ + 1] /\ ~AlreadyRewarded(g)
    BY <2>1, <2>2
  <2>4. \A f \in Deposits : Owner[f] = Owner[g] => rewards[f] = 0
    <3>1. \A f \in Deposits : rewards[f] \in Nat
      BY DEF TypeOK
    <3>2. QED
      BY <2>3, <3>1 DEF AlreadyRewarded, SameOwner
  <2>5. /\ rewards'[g] = rewards[g] + 1
        /\ \A f \in Deposits \ {g} : rewards'[f] = rewards[f]
    BY <2>3 DEF TypeOK
  <2>6. CASE Owner[d] = Owner[g]
    <3>1. \A f \in Deposits \ {g} : Owner[f] = Owner[g] => rewards'[f] = 0
      BY <2>4, <2>5
    <3>2. d = g
      <4>1. d # g => rewards'[d] = 0
        BY <3>1, <2>6
      <4>2. QED
        BY <4>1
    <3>3. e = g
      <4>1. e # g => rewards'[e] = 0
        BY <3>1, <2>6
      <4>2. QED
        BY <4>1
    <3>4. rewards'[g] = 1
      BY <2>4, <2>5
    <3>5. QED
      BY <3>2, <3>3, <3>4
  <2>7. CASE Owner[d] # Owner[g]
    <3>1. rewards[d] >= 1 /\ rewards[e] >= 1 /\ rewards'[d] = rewards[d]
      BY <2>5, <2>7
    <3>2. QED
      BY <3>1 DEF RewardedOnce
  <2>8. QED
    BY <2>6, <2>7
<1>3. QED
  BY <1>1, <1>2

-----------------------------------------------------------------------------
(***************************************************************************)
(* Undisturbed checkouts                                                   *)
(***************************************************************************)

\* What was disturbed stays so.
LEMMA DisturbedGrows ==
    ASSUME [Next]_vars, NEW d \in Deposits, Undisturbed(d)'
    PROVE  Undisturbed(d)
<1>1. overlapped \subseteq overlapped' /\ crashed \subseteq crashed'
  BY DEF Next, vars, history, Advance, Begin, Goto, Return, Fail, Verify, PaidWebhook,
     FailedWebhook, TransferWebhook, VerifyAnswers, LookUp, Credit, MarkSuccess, MarkFailed,
     PostTransfer, Refused, Qualify, Grant, Crash, Fund, CheckoutOpens, CheckoutFails, Pays,
     FailsToPay, OtherIncome, OperatorSetsLock
<1>2. QED
  BY <1>1 DEF Undisturbed

Arrives(s, d) ==
    Verify(s, d) \/ PaidWebhook(s, d) \/ FailedWebhook(s, d) \/ TransferWebhook(s, d)

\* A thread arrives at an undisturbed checkout only if nobody is there.
LEMMA ArrivesAlone ==
    ASSUME TypeOK, NEW s \in Handlers, NEW d \in Deposits, Arrives(s, d), Undisturbed(d)'
    PROVE  \A t \in Handlers : ~WorksOn(t, d)
BY DEF Arrives, Verify, PaidWebhook, FailedWebhook, TransferWebhook, Begin, Undisturbed

\* Who works on a deposit after a step worked on it before, or has just arrived.
LEMMA WorkersOf ==
    ASSUME TypeOK, MoneyIsBacked, [Next]_vars,
           NEW t \in Handlers, NEW d \in Deposits, WorksOn(t, d)'
    PROVE  WorksOn(t, d) \/ Arrives(t, d)
<1>1. CASE job'[t] = job[t]
  BY <1>1 DEF WorksOn
<1>2. ASSUME NEW s \in Handlers, Advance(s), job'[t] # job[t]
      PROVE  WorksOn(t, d)
  BY <1>2, AdvanceFrame, AdvanceBusy DEF WorksOn
<1>3. ASSUME NEW s \in Handlers, Crash(s), job'[t] # job[t] PROVE FALSE
  BY <1>3, EndFields DEF Crash, WorksOn
<1>4. ASSUME NEW s \in Handlers, NEW e \in Deposits, Arrives(s, e), job'[t] # job[t]
      PROVE  Arrives(t, d)
  <2>1. t = s /\ job'[t].d = e
    BY <1>4, SoundBegin DEF Arrives
  <2>2. QED
    BY <2>1, <1>4 DEF WorksOn
<1>5. CASE job' = job
  BY <1>5, <1>1
<1>6. QED
  BY <1>1, <1>2, <1>3, <1>4, <1>5 DEF Next, vars, Arrives, Fund, CheckoutOpens,
     CheckoutFails, Pays, FailsToPay, OtherIncome, OperatorSetsLock

LEMMA OneAtATimeStep ==
    TypeOK /\ MoneyIsBacked /\ OneAtATime /\ [Next]_vars => OneAtATime'
<1> SUFFICES ASSUME TypeOK, MoneyIsBacked, OneAtATime, [Next]_vars,
                    NEW d \in Deposits, Undisturbed(d)',
                    NEW s \in Handlers, NEW t \in Handlers,
                    WorksOn(s, d)', WorksOn(t, d)'
             PROVE  s = t
  BY DEF OneAtATime
<1>1. CASE WorksOn(s, d) /\ WorksOn(t, d)
  BY <1>1, DisturbedGrows DEF OneAtATime
<1>2. CASE Arrives(s, d)
  <2>1. \A x \in Handlers \ {s} : job'[x] = job[x]
    BY <1>2, SoundBegin DEF Arrives
  <2>2. ~WorksOn(t, d)
    BY <1>2, ArrivesAlone
  <2>3. QED
    BY <2>1, <2>2 DEF WorksOn
<1>3. CASE Arrives(t, d)
  <2>1. \A x \in Handlers \ {t} : job'[x] = job[x]
    BY <1>3, SoundBegin DEF Arrives
  <2>2. ~WorksOn(s, d)
    BY <1>3, ArrivesAlone
  <2>3. QED
    BY <2>1, <2>2 DEF WorksOn
<1>4. QED
  BY <1>1, <1>2, <1>3, WorkersOf

\* The one thread on a checkout takes its turn, and leaves it settled.
LEMMA TurnAdvance ==
    ASSUME TypeOK, Sound, NEW s \in Handlers, Advance(s), NEW d \in Checkouts,
           WorksOn(s, d), JobInTurn(s)
    PROVE  /\ job'[s] # NoJob => JobInTurn(s)'
           /\ job'[s] = NoJob => Settled(d)'
<1> USE DEF table, money
<1>1. job[s] # NoJob /\ job[s].d = d /\ d \in Deposits
  BY DepositKinds DEF WorksOn
<1>2. ASSUME NEW pc \in Places, Goto(s, pc)
      PROVE  job'[s] # NoJob /\ job'[s].d = d /\ job'[s].pc = pc
  BY <1>1, <1>2, GotoFields
<1>3. ASSUME Return(s) \/ Fail(s) PROVE job'[s] = NoJob
  BY <1>3, EndFields DEF Return, Fail
<1>4. ASSUME ledger' = ledger PROVE Credits(d)' = Credits(d)
  BY <1>4 DEF Credits
<1>5. CASE VerifyAnswers(s)
  <2>1. Credits(d)' = 0 /\ status'[d] # "SUCCESS"
    BY <1>1, <1>4, <1>5 DEF VerifyAnswers, At, JobInTurn
  <2>2. job'[s] = NoJob \/ (job'[s].d = d /\ job'[s].pc = "loaded")
    BY <1>2, <1>3, <1>5 DEF VerifyAnswers, Places
  <2>3. QED
    BY <2>1, <2>2 DEF JobInTurn, Settled
<1>6. CASE LookUp(s)
  <2>1. Credits(d) = 0 /\ Credits(d)' = 0 /\ status'[d] # "SUCCESS"
    BY <1>1, <1>4, <1>6 DEF LookUp, At, JobInTurn
  <2>2. ledger[d][Row(s)] = 0
    BY <2>1, <1>1, CreditsNat, RowIsRow
  <2>3. job'[s] # NoJob /\ job'[s].d = d /\ job'[s].pc = "owing"
    BY <2>2, <1>1, <1>2, <1>6 DEF LookUp, Places
  <2>4. QED
    BY <2>1, <2>3 DEF JobInTurn
<1>7. CASE Credit(s)
  <2>1. Credits(d) = 0
    BY <1>1, <1>7 DEF Credit, At, JobInTurn
  <2>2. Credits(d)' = 1
    BY <2>1, <1>1, <1>7, PostAdds, RowIsRow DEF Credit
  <2>3. job'[s] # NoJob /\ job'[s].d = d /\ job'[s].pc = "credited"
    BY <1>2, <1>7 DEF Credit, Places
  <2>4. QED
    BY <2>2, <2>3 DEF JobInTurn
<1>8. CASE MarkSuccess(s)
  <2>1. Credits(d)' = 1
    BY <1>1, <1>4, <1>8 DEF MarkSuccess, At, JobInTurn
  <2>2. status'[d] = "SUCCESS"
    BY <1>1, <1>8, StatusOf DEF MarkSuccess, Status
  <2>3. job'[s] # NoJob /\ job'[s].d = d /\ job'[s].pc = "rewarding"
    BY <1>2, <1>8 DEF MarkSuccess, Places
  <2>4. QED
    BY <2>1, <2>2, <2>3 DEF JobInTurn
<1>9. CASE MarkFailed(s)
  <2>1. Credits(d)' = 0
    BY <1>1, <1>4, <1>9 DEF MarkFailed, At, JobInTurn
  <2>2. status'[d] = "FAILED"
    BY <1>1, <1>9, StatusOf DEF MarkFailed, Status
  <2>3. QED
    BY <2>1, <2>2, <1>3, <1>9 DEF MarkFailed, Settled
<1>10. CASE PostTransfer(s)
  BY <1>1, <1>10 DEF PostTransfer, At, Sound, JobSound
<1>11. CASE Refused(s)
  <2>1. job[s].pc \in {"loaded", "owing"}
    BY <1>1, <1>11 DEF Refused, At, Sound, JobSound
  <2>2. Credits(d)' = 0 /\ status'[d] # "SUCCESS"
    BY <2>1, <1>1, <1>4, <1>11 DEF Refused, JobInTurn
  <2>3. QED
    BY <2>2, <1>3, <1>11 DEF Refused, Settled
<1>12. CASE Qualify(s)
  <2>1. Credits(d)' = 1 /\ status'[d] = "SUCCESS"
    BY <1>1, <1>4, <1>12 DEF Qualify, At, JobInTurn
  <2>2. job'[s] = NoJob \/ (job'[s].d = d /\ job'[s].pc = "granting")
    BY <1>2, <1>3, <1>12 DEF Qualify, Places
  <2>3. QED
    BY <2>1, <2>2 DEF JobInTurn, Settled
<1>13. CASE Grant(s)
  <2>1. Credits(d)' = 1 /\ status'[d] = "SUCCESS"
    BY <1>1, <1>4, <1>13 DEF Grant, At, JobInTurn
  <2>2. job'[s] = NoJob
    BY <1>3, <1>13 DEF Grant
  <2>3. QED
    BY <2>1, <2>2 DEF Settled
<1>14. QED
  BY <1>5, <1>6, <1>7, <1>8, <1>9, <1>10, <1>11, <1>12, <1>13 DEF Advance

\* A thread on an undisturbed checkout keeps its job until it acts itself.
LEMMA JobKept ==
    ASSUME TypeOK, MoneyIsBacked, [Next]_vars, NEW d \in Deposits, Undisturbed(d)',
           NEW t \in Handlers, WorksOn(t, d), ~Advance(t)
    PROVE  job'[t] = job[t]
<1>1. ASSUME NEW s \in Handlers, Advance(s) PROVE job'[t] = job[t]
  BY <1>1, AdvanceFrame
<1>2. ASSUME NEW s \in Handlers, Crash(s) PROVE job'[t] = job[t]
  <2>1. s # t
    BY <1>2 DEF Crash, Undisturbed, WorksOn
  <2>2. QED
    BY <2>1, <1>2, EndFields DEF Crash
<1>3. ASSUME NEW s \in Handlers, NEW e \in Deposits, Arrives(s, e)
      PROVE  job'[t] = job[t]
  BY <1>3, SoundBegin DEF Arrives, WorksOn
<1>4. CASE job' = job
  BY <1>4
<1>5. QED
  BY <1>1, <1>2, <1>3, <1>4 DEF Next, vars, Arrives, Fund, CheckoutOpens,
     CheckoutFails, Pays, FailsToPay, OtherIncome, OperatorSetsLock

LEMMA InTurnStep ==
    TypeOK /\ Sound /\ MoneyIsBacked /\ OneAtATime /\ InTurn /\ [Next]_vars => InTurn'
<1> SUFFICES ASSUME TypeOK, Sound, MoneyIsBacked, OneAtATime, InTurn, [Next]_vars,
                    NEW d \in Deposits, Undisturbed(d)'
             PROVE  /\ (\A s \in Handlers : ~WorksOn(s, d)') => Settled(d)'
                    /\ \A s \in Handlers : WorksOn(s, d)' => JobInTurn(s)'
  BY DEF InTurn
<1>1. /\ Undisturbed(d) /\ d \in Checkouts
      /\ (\A s \in Handlers : ~WorksOn(s, d)) => Settled(d)
      /\ \A s \in Handlers : WorksOn(s, d) => JobInTurn(s)
  BY DisturbedGrows DEF InTurn, Undisturbed
<1>2. ASSUME NEW s \in Handlers, Advance(s), WorksOn(s, d)
      PROVE  /\ (\A t \in Handlers : ~WorksOn(t, d)') => Settled(d)'
             /\ \A t \in Handlers : WorksOn(t, d)' => JobInTurn(t)'
  <2>1. /\ job'[s] # NoJob => JobInTurn(s)'
        /\ job'[s] = NoJob => Settled(d)'
    BY <1>1, <1>2, TurnAdvance
  <2>2. job'[s] # NoJob => WorksOn(s, d)'
    BY <1>2, AdvanceFrame DEF WorksOn
  <2>3. ASSUME NEW t \in Handlers, WorksOn(t, d)' PROVE t = s /\ job'[t] # NoJob
    <3>1. WorksOn(t, d)
      BY <1>2, <2>3, WorkersOf, ArrivesAlone
    <3>2. QED
      BY <3>1, <1>1, <1>2, <2>3 DEF OneAtATime, WorksOn
  <2>4. QED
    BY <2>1, <2>2, <2>3
<1>3. ASSUME \A s \in Handlers : ~(Advance(s) /\ WorksOn(s, d))
      PROVE  /\ (\A t \in Handlers : ~WorksOn(t, d)') => Settled(d)'
             /\ \A t \in Handlers : WorksOn(t, d)' => JobInTurn(t)'
  <2>1. Credits(d)' = Credits(d)
    BY <1>3, CreditChanges DEF WorksOn
  <2>2. status'[d] = status[d] \/ (status[d] # "SUCCESS" /\ status'[d] # "SUCCESS")
    BY <1>3, StatusChanges, AdvanceStatus DEF WorksOn
  <2>3. Settled(d) => Settled(d)'
    BY <2>1, <2>2 DEF Settled
  <2>4. ASSUME NEW t \in Handlers, WorksOn(t, d)
        PROVE  WorksOn(t, d)' /\ JobInTurn(t)'
    <3>1. job'[t] = job[t]
      BY <1>3, <2>4, JobKept
    <3>2. job[t].d = d /\ JobInTurn(t)
      BY <1>1, <2>4 DEF WorksOn
    <3>3. QED
      BY <3>1, <3>2, <2>1, <2>2, <2>4 DEF WorksOn, JobInTurn
  <2>5. ASSUME NEW t \in Handlers, Arrives(t, d) PROVE JobInTurn(t)'
    <3>1. Settled(d)
      BY <1>1, <2>5, ArrivesAlone
    <3>2. /\ job'[t].d = d
          /\ \/ job'[t].pc = "rewarding" /\ status[d] = "SUCCESS"
             \/ job'[t].pc \in {"asking", "loaded", "failing"} /\ status[d] # "SUCCESS"
      BY <1>1, <2>5, SoundBegin DEF Arrives
    <3>3. status'[d] = status[d]
      BY <2>5 DEF Arrives, Verify, PaidWebhook, FailedWebhook, TransferWebhook, table
    <3>4. QED
      BY <3>1, <3>2, <3>3, <2>1 DEF JobInTurn, Settled
  <2>6. QED
    BY <1>1, <2>3, <2>4, <2>5, WorkersOf
<1>4. QED
  BY <1>2, <1>3

-----------------------------------------------------------------------------
(***************************************************************************)
(* The inductive invariant and the theorems                                *)
(***************************************************************************)

LEMMA InvInit == Init => DepositInv
<1> SUFFICES ASSUME Init PROVE DepositInv
  OBVIOUS
<1>1. TypeOK
  BY TypeInit
<1>2. \A d \in Deposits : Credits(d) = 0 /\ status[d] = "none" /\ rewards[d] = 0
  BY DEF Init, Credits, Rows
<1>3. \A s \in Handlers : job[s] = NoJob
  BY DEF Init
<1>4. Sound /\ OneAtATime
  BY <1>3 DEF Sound, OneAtATime, WorksOn
<1>5. MoneyIsBacked /\ TransfersSucceed /\ TransferCreditedOnce /\ RewardedOnce
  BY <1>2 DEF MoneyIsBacked, TransfersSucceed, TransferCreditedOnce, RewardedOnce
<1>6. InTurn
  BY <1>2, <1>3 DEF InTurn, Settled, WorksOn
<1>7. QED
  BY <1>1, <1>4, <1>5, <1>6 DEF DepositInv

LEMMA InvStep == DepositInv /\ [Next]_vars => DepositInv'
<1> SUFFICES ASSUME DepositInv, [Next]_vars PROVE DepositInv'
  OBVIOUS
<1>1. TypeOK'
  BY TypeStep DEF DepositInv
<1>2. Sound'
  BY SoundStep DEF DepositInv
<1>3. MoneyIsBacked'
  BY MoneyStep DEF DepositInv
<1>4. TransfersSucceed' /\ TransferCreditedOnce'
  BY TransferStep DEF DepositInv
<1>5. RewardedOnce'
  BY RewardStep DEF DepositInv
<1>6. OneAtATime'
  BY OneAtATimeStep DEF DepositInv
<1>7. InTurn'
  BY InTurnStep DEF DepositInv
<1>8. QED
  BY <1>1, <1>2, <1>3, <1>4, <1>5, <1>6, <1>7 DEF DepositInv

LEMMA InvHolds == Spec => []DepositInv
BY InvInit, InvStep, PTL DEF Spec

\* Every reachable state has the types of the tables and the threads.
THEOREM DepositTypes == Spec => []TypeOK
<1>1. DepositInv => TypeOK
  BY DEF DepositInv
<1>2. QED
  BY <1>1, InvHolds, PTL

\* No SUCCESS without a credit, no credit without a payment, no reward without
\* a credited deposit.
THEOREM WalletMoneyIsBacked == Spec => []MoneyIsBacked
<1>1. DepositInv => MoneyIsBacked
  BY DEF DepositInv
<1>2. QED
  BY <1>1, InvHolds, PTL

\* However often and by however many threads a transfer is reported, it is
\* credited once, together with its row.
THEOREM TransfersCreditOnce == Spec => []TransferCreditedOnce
<1>1. DepositInv => TransferCreditedOnce
  BY DEF DepositInv
<1>2. QED
  BY <1>1, InvHolds, PTL

\* A checkout whose handlers came one after the other, and lived, agrees with
\* its status.
THEOREM CheckoutsCreditOnce == Spec => []CheckoutCreditedOnce
<1>1. ASSUME DepositInv PROVE CheckoutCreditedOnce
  <2>1. ASSUME NEW d \in Checkouts, d \notin overlapped \cup crashed,
               \A s \in Handlers : ~WorksOn(s, d)
        PROVE  Credits(d) = (IF status[d] = "SUCCESS" THEN 1 ELSE 0)
    <3>1. d \in Deposits /\ Undisturbed(d)
      BY <2>1, DepositKinds DEF Undisturbed
    <3>2. QED
      BY <3>1, <2>1, <1>1 DEF DepositInv, InTurn, Settled
  <2>2. QED
    BY <2>1 DEF CheckoutCreditedOnce
<1>2. QED
  BY <1>1, InvHolds, PTL

\* A referral is rewarded at most once, for one deposit.
THEOREM ReferralsRewardOnce == Spec => []RewardedOnce
<1>1. DepositInv => RewardedOnce
  BY DEF DepositInv
<1>2. QED
  BY <1>1, InvHolds, PTL
=============================================================================
