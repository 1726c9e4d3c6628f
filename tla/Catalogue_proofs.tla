-------------------------- MODULE Catalogue_proofs --------------------------
(***************************************************************************)
(* CatalogueInv is an inductive invariant of Catalogue.  The prices shown  *)
(* are those charged, a sync leaves the admin's columns alone, and the     *)
(* promotion keeps to its limit.                                           *)
(***************************************************************************)
EXTENDS Catalogue, FiniteSetTheorems, SequenceTheorems, TLAPS

\* The columns that are the admin's.
AdminColumns == {"active", "display", "agent", "promoActive"}

\* What a sync has loaded and will write has the admin's columns as they were.
Untouched ==
    \A s \in Sessions, p \in Plans :
        job[s] # NoJob /\ job[s].seen[p] # NoPlan /\ job[s].pend[p] # NoPlan =>
            \A column \in AdminColumns : job[s].pend[p][column] = job[s].seen[p][column]

\* The purchases that were promised the promotion in due order.
Promos == {i \in DOMAIN deals : deals[i].promo /\ ~deals[i].overlapped}

\* They are at its price, of different users, and within the limit.
PromosAreFew ==
    /\ \A i \in DOMAIN deals : deals[i].promo => AtPromoPrice(deals[i])
    /\ \A i, j \in Promos : deals[i].u = deals[j].u => i = j
    /\ Cardinality(Promos) <= PromoLimit

CatalogueInv ==
    /\ TypeOK
    /\ deals \in Seq(Deal)
    /\ Untouched
    /\ PromosAreFew

-----------------------------------------------------------------------------
(***************************************************************************)
(* Rows and prices.                                                        *)
(***************************************************************************)
LEMMA PlanFields ==
    ASSUME NEW r \in Plan
    PROVE  /\ r.active \in BOOLEAN /\ r.base \in Prices \cup {0} /\ r.provider \in BOOLEAN
           /\ r.display \in Prices \cup {Unset} /\ r.agent \in Prices \cup {Unset}
           /\ r.promoActive \in BOOLEAN /\ r # NoPlan
BY NoPlanIsNoRow DEF Plan

LEMMA UpsertIsPlan ==
    ASSUME NEW r \in Plan \cup {NoPlan}, NEW price \in Prices \cup {0}
    PROVE  /\ Upsert(r, price) \in Plan
           /\ r # NoPlan => \A column \in AdminColumns : Upsert(r, price)[column] = r[column]
<1>1. CASE r = NoPlan
  BY <1>1 DEF Upsert, Plan
<1>2. CASE r # NoPlan
  <2>1. r \in Plan
    BY <1>2
  <2>2. Upsert(r, price) = [r EXCEPT !.base = IF price = 0 THEN r.base ELSE price,
                                     !.provider = TRUE]
    BY <1>2 DEF Upsert
  <2>3. (IF price = 0 THEN r.base ELSE price) \in Prices \cup {0}
    BY <2>1, PlanFields
  <2>4. QED
    BY <2>1, <2>2, <2>3 DEF Plan, AdminColumns
<1>3. QED
  BY <1>1, <1>2

LEMMA WrittenIsPlan ==
    ASSUME NEW now \in Plan, NEW seen \in Plan, NEW new \in Plan,
           NEW r, r = Written(now, seen, new)
    PROVE  /\ r \in Plan
           /\ \A column \in AdminColumns :
                 new[column] = seen[column] => r[column] = now[column]
<1>1. r \in Plan
  BY DEF Plan, Written
<1>2. \A column \in AdminColumns : new[column] = seen[column] => r[column] = now[column]
  BY DEF Plan, Written, AdminColumns
<1>3. QED
  BY <1>1, <1>2

LEMMA PricesAreNat ==
    ASSUME TypeOK, NEW r \in Roles, NEW p \in Plans, plan[p] # NoPlan
    PROVE  TillPrice(r, p) \in Nat
<1>1. plan[p] \in Plan /\ NetworkOf[p] \in Networks
  BY PlansHaveNetworks DEF TypeOK
<1>2. \A price \in Prices : price \in Nat
  BY NumbersAreNat
<1>3. plan[p].base \in Nat
  BY <1>1, <1>2, PlanFields
<1>4. rule[NetworkOf[p]][r] \in [amount : Nat, percent : BOOLEAN]
  <2>1. rule[NetworkOf[p]][r] \in Margins \cup {NoMargin}
    BY <1>1 DEF TypeOK
  <2>2. NoMargin \in [amount : Nat, percent : BOOLEAN]
    BY DEF NoMargin
  <2>3. QED
    BY <2>1, <2>2, MarginsAreMargins
<1>5. ASSUME NEW base \in Nat, NEW m \in [amount : Nat, percent : BOOLEAN]
      PROVE  ApplyMargin(base, m) \in Nat
  <2>1. base * m.amount \in Nat
    OBVIOUS
  <2>2. (base * m.amount) \div 100 \in Nat
    BY <2>1
  <2>3. QED
    BY <2>2 DEF ApplyMargin
<1>6. QED
  BY <1>1, <1>2, <1>3, <1>4, <1>5, PlanFields DEF TillPrice

\* The two computations of a price are one: only the order of the factors and
\* of the cases differs.
LEMMA PagePriceIsTillPrice ==
    ASSUME TypeOK, NEW r \in Roles, NEW p \in Plans, plan[p] # NoPlan
    PROVE  PagePrice(r, p) = TillPrice(r, p)
<1>1. plan[p] \in Plan /\ NetworkOf[p] \in Networks
  BY PlansHaveNetworks DEF TypeOK
<1>2. plan[p].base \in Nat
  BY <1>1, PlanFields, NumbersAreNat
<1>3. rule[NetworkOf[p]][r].amount \in Nat
  BY <1>1, MarginsAreMargins DEF TypeOK, NoMargin
<1> DEFINE base == plan[p].base
           amount == rule[NetworkOf[p]][r].amount
<1>4. base * amount = amount * base /\ base + amount = amount + base
  <2> HIDE DEF base, amount
  <2>1. base \in Nat /\ amount \in Nat
    BY <1>2, <1>3 DEF base, amount
  <2>2. QED
    BY <2>1
<1>5. QED
  BY <1>4 DEF PagePrice, TillPrice, ApplyMargin, Roles

-----------------------------------------------------------------------------
(***************************************************************************)
(* Purchases.                                                              *)
(***************************************************************************)
LEMMA DealsAreFinite ==
    ASSUME CatalogueInv
    PROVE  /\ DOMAIN deals = 1..Len(deals) /\ Len(deals) \in Nat
           /\ IsFiniteSet(DOMAIN deals) /\ IsFiniteSet(PromoUsers) /\ IsFiniteSet(Promos)
<1>1. DOMAIN deals = 1..Len(deals) /\ Len(deals) \in Nat
  BY LenProperties DEF CatalogueInv
<1>2. IsFiniteSet(DOMAIN deals)
  BY <1>1, FS_Interval
<1>3. IsFiniteSet(Promos)
  BY <1>2, FS_Subset DEF Promos
<1> DEFINE I == {j \in DOMAIN deals : AtPromoPrice(deals[j]) /\ deals[j].status = "SUCCESS"}
           f == [i \in I |-> deals[i].u]
<1>4. IsFiniteSet(I)
  <2>1. I \in SUBSET DOMAIN deals
    OBVIOUS
  <2>2. QED
    BY <1>2, <2>1, FS_Subset
<1>5. f \in Surjection(I, PromoUsers)
  BY DEF PromoUsers, Surjection
<1>6. QED
  BY <1>1, <1>2, <1>3, <1>4, <1>5, FS_Surjection

\* When none of the earlier promotions is open, those who had one are counted.
LEMMA PromosAreCounted ==
    ASSUME CatalogueInv,
           \A i \in DOMAIN deals : AtPromoPrice(deals[i]) => deals[i].status = "SUCCESS"
    PROVE  /\ \A i \in Promos : deals[i].u \in PromoUsers
           /\ Cardinality(Promos) <= Cardinality(PromoUsers)
<1>1. \A i \in Promos : deals[i].u \in PromoUsers
  BY DEF Promos, PromoUsers, CatalogueInv, PromosAreFew
<1> DEFINE f == [i \in Promos |-> deals[i].u]
<1>2. f \in Injection(Promos, PromoUsers)
  BY <1>1 DEF Injection, IsInjective, CatalogueInv, PromosAreFew
<1>3. QED
  BY <1>1, <1>2, DealsAreFinite, FS_Injection

LEMMA AskKeeps ==
    ASSUME CatalogueInv, NEW u \in Users, NEW p \in Plans, NEW promo \in BOOLEAN,
           NEW price \in Nat, promo => Promoted(u, p) /\ price = PromoPrice,
           Ask(u, p, promo, price)
    PROVE  CatalogueInv'
<1> DEFINE overlapped == \E i \in DOMAIN deals :
                             AtPromoPrice(deals[i]) /\ deals[i].status # "SUCCESS"
           d == [u |-> u, p |-> p, promo |-> promo, status |-> "asked",
                 price |-> price, overlapped |-> overlapped]
<1>1. /\ deals' = Append(deals, d)
      /\ UNCHANGED <<enabled, role, plan, rule, job>> /\ begun' \in 0..MaxRequests
  <2>1. MaxRequests \in Nat /\ begun \in 0..MaxRequests
    BY NumbersAreNat DEF CatalogueInv, TypeOK
  <2>2. begun < MaxRequests /\ begun' = begun + 1
    BY DEF Ask, Request
  <2>3. begun' \in 0..MaxRequests
    BY <2>1, <2>2
  <2>4. QED
    BY <2>3 DEF Ask
<1>2. d \in Deal
  <2>1. overlapped \in BOOLEAN
    OBVIOUS
  <2> HIDE DEF overlapped
  <2>2. QED
    BY <2>1 DEF Deal
<1>3. promo => AtPromoPrice(d)
  BY PromoIsOnPlans DEF Promoted, IsPromoPlan, AtPromoPrice
<1>4. /\ d.u = u /\ d.promo = promo /\ (d.overlapped <=> overlapped)
  OBVIOUS
<1>5. ~overlapped => \A i \in DOMAIN deals : AtPromoPrice(deals[i]) => deals[i].status = "SUCCESS"
  OBVIOUS
<1> HIDE DEF d, overlapped
<1> DEFINE k == Len(deals) + 1
<1>6. /\ k \in Nat /\ k \notin DOMAIN deals
      /\ DOMAIN deals' = DOMAIN deals \cup {k}
      /\ deals'[k] = d /\ \A i \in DOMAIN deals : deals'[i] = deals[i]
      /\ deals' \in Seq(Deal)
  <2>1. deals \in Seq(Deal) /\ DOMAIN deals = 1..Len(deals) /\ Len(deals) \in Nat
    BY DealsAreFinite DEF CatalogueInv
  <2>2. /\ deals' \in Seq(Deal) /\ Len(deals') = Len(deals) + 1
        /\ deals'[Len(deals) + 1] = d
        /\ \A i \in 1..Len(deals) : deals'[i] = deals[i]
    BY <1>1, <1>2, <2>1, AppendProperties
  <2>3. DOMAIN deals' = 1..Len(deals) + 1
    BY <2>2, LenProperties
  <2>4. 1..Len(deals) + 1 = 1..Len(deals) \cup {Len(deals) + 1}
    BY <2>1
  <2>5. QED
    BY <2>1, <2>2, <2>3, <2>4
<1> HIDE DEF k
<1>7. TypeOK'
  BY <1>1, <1>2, <1>6 DEF CatalogueInv, TypeOK
<1>8. Untouched'
  BY <1>1 DEF CatalogueInv, Untouched
<1>9. Promos' = IF promo /\ ~overlapped THEN Promos \cup {k} ELSE Promos
  BY <1>4, <1>6 DEF Promos
<1>10. \A i \in DOMAIN deals' : deals'[i].promo => AtPromoPrice(deals'[i])
  BY <1>3, <1>4, <1>6 DEF CatalogueInv, PromosAreFew
<1>11. /\ \A i, j \in Promos' : deals'[i].u = deals'[j].u => i = j
       /\ Cardinality(Promos') <= PromoLimit
  <2>1. Promos \subseteq DOMAIN deals
    BY DEF Promos
  <2>2. CASE ~(promo /\ ~overlapped)
    BY <1>6, <1>9, <2>1, <2>2 DEF CatalogueInv, PromosAreFew
  <2>3. CASE promo /\ ~overlapped
    <3>1. /\ \A i \in Promos : deals[i].u \in PromoUsers
          /\ Cardinality(Promos) <= Cardinality(PromoUsers)
      BY <1>5, <2>3, PromosAreCounted
    <3>2. u \notin PromoUsers /\ Cardinality(PromoUsers) < PromoLimit
      BY <2>3 DEF Promoted
    <3>3. \A i, j \in Promos' : deals'[i].u = deals'[j].u => i = j
      BY <1>4, <1>6, <1>9, <2>1, <2>3, <3>1, <3>2 DEF CatalogueInv, PromosAreFew
    <3>4. Cardinality(Promos') = Cardinality(Promos) + 1
      BY <1>6, <1>9, <2>1, <2>3, DealsAreFinite, FS_AddElement
    <3>5. Cardinality(Promos) \in Nat /\ Cardinality(PromoUsers) \in Nat /\ PromoLimit \in Nat
      BY DealsAreFinite, FS_CardinalityType, NumbersAreNat
    <3>6. QED
      BY <3>1, <3>2, <3>3, <3>4, <3>5
  <2>4. QED
    BY <2>2, <2>3
<1>12. QED
  BY <1>6, <1>7, <1>8, <1>10, <1>11 DEF CatalogueInv, PromosAreFew

LEMMA BecomesKeeps ==
    ASSUME CatalogueInv, NEW i \in DOMAIN deals, NEW status \in {"PENDING", "SUCCESS", "REFUNDED"},
           Becomes(i, status)
    PROVE  CatalogueInv'
<1> DEFINE d == [deals[i] EXCEPT !.status = status]
<1>1. deals' = [deals EXCEPT ![i] = d] /\ UNCHANGED <<enabled, role, plan, rule, job, begun>>
  BY DEF Becomes
<1>2. deals[i] \in Deal
  BY DEF CatalogueInv, TypeOK
<1>3. /\ d \in Deal /\ d.u = deals[i].u /\ d.promo = deals[i].promo
      /\ d.overlapped = deals[i].overlapped /\ d.price = deals[i].price /\ d.p = deals[i].p
  BY <1>2 DEF Deal
<1> HIDE DEF d
<1>4. /\ deals' \in Seq(Deal) /\ DOMAIN deals' = DOMAIN deals
      /\ deals'[i] = d /\ \A j \in DOMAIN deals \ {i} : deals'[j] = deals[j]
  <2>1. deals \in Seq(Deal) /\ i \in 1..Len(deals)
    BY DealsAreFinite DEF CatalogueInv
  <2>2. [deals EXCEPT ![i] = d] \in Seq(Deal)
    BY <1>3, <2>1, ExceptSeq
  <2>3. QED
    BY <1>1, <2>2
<1>5. \A j \in DOMAIN deals : /\ deals'[j] \in Deal /\ deals'[j].u = deals[j].u
                              /\ deals'[j].promo = deals[j].promo
                              /\ deals'[j].overlapped = deals[j].overlapped
                              /\ deals'[j].price = deals[j].price /\ deals'[j].p = deals[j].p
  BY <1>3, <1>4 DEF CatalogueInv, TypeOK
<1>6. TypeOK' /\ Untouched'
  BY <1>1, <1>4, <1>5 DEF CatalogueInv, TypeOK, Untouched
<1>7. Promos' = Promos
  BY <1>4, <1>5 DEF Promos
<1>8. PromosAreFew'
  <2>1. \A j \in DOMAIN deals' : deals'[j].promo => AtPromoPrice(deals'[j])
    BY <1>4, <1>5 DEF CatalogueInv, PromosAreFew, AtPromoPrice
  <2>2. \A j, m \in Promos' : deals'[j].u = deals'[m].u => j = m
    BY <1>5, <1>7 DEF CatalogueInv, PromosAreFew, Promos
  <2>3. QED
    BY <1>7, <2>1, <2>2 DEF CatalogueInv, PromosAreFew
<1>9. QED
  BY <1>4, <1>6, <1>8 DEF CatalogueInv

-----------------------------------------------------------------------------
(***************************************************************************)
(* Synchronisation.                                                        *)
(***************************************************************************)

\* A session's job may change as it likes if it leaves the admin's columns.
LEMMA JobKeeps ==
    ASSUME CatalogueInv, NEW s \in Sessions, NEW j \in Job \cup {NoJob},
           job' = [job EXCEPT ![s] = j], UNCHANGED <<enabled, role, rule, deals>>,
           plan' \in [Plans -> Plan \cup {NoPlan}], begun' \in 0..MaxRequests,
           \A p \in Plans : j # NoJob /\ j.seen[p] # NoPlan /\ j.pend[p] # NoPlan =>
               \A column \in AdminColumns : j.pend[p][column] = j.seen[p][column]
    PROVE  CatalogueInv'
<1>1. /\ job' \in [Sessions -> Job \cup {NoJob}] /\ job'[s] = j
      /\ \A t \in Sessions \ {s} : job'[t] = job[t]
  BY DEF CatalogueInv, TypeOK
<1>2. TypeOK'
  BY <1>1 DEF CatalogueInv, TypeOK
<1>3. Untouched'
  BY <1>1 DEF CatalogueInv, Untouched
<1>4. PromosAreFew' /\ deals' \in Seq(Deal)
  <2>1. Promos' = Promos
    BY DEF Promos
  <2>2. QED
    BY <2>1 DEF CatalogueInv, PromosAreFew, AtPromoPrice
<1>5. QED
  BY <1>2, <1>3, <1>4 DEF CatalogueInv

\* A step elsewhere.
LEMMA OtherKeeps ==
    ASSUME CatalogueInv, UNCHANGED <<enabled, role, job, deals>>,
           plan' \in [Plans -> Plan \cup {NoPlan}], begun' \in 0..MaxRequests,
           rule' \in [Networks -> [Roles -> Margins \cup {NoMargin}]]
    PROVE  CatalogueInv'
<1>1. TypeOK'
  BY DEF CatalogueInv, TypeOK
<1>2. Untouched'
  BY DEF CatalogueInv, Untouched
<1>3. PromosAreFew' /\ deals' \in Seq(Deal)
  <2>1. Promos' = Promos
    BY DEF Promos
  <2>2. QED
    BY <2>1 DEF CatalogueInv, PromosAreFew, AtPromoPrice
<1>4. QED
  BY <1>1, <1>2, <1>3 DEF CatalogueInv

LEMMA RequestCounts ==
    ASSUME CatalogueInv, Request
    PROVE  begun' \in 0..MaxRequests
<1>1. MaxRequests \in Nat /\ begun \in 0..MaxRequests
  BY NumbersAreNat DEF CatalogueInv, TypeOK
<1>2. begun < MaxRequests /\ begun' = begun + 1
  BY DEF Request
<1>3. QED
  BY <1>1, <1>2

LEMMA BeginKeeps ==
    ASSUME CatalogueInv, NEW s \in Sessions, NEW manual \in BOOLEAN,
           NEW left \in SUBSET Networks, Begin(s, manual, left)
    PROVE  CatalogueInv'
<1> DEFINE j == [manual |-> manual, pc |-> "fetching", left |-> left,
                 seen |-> Nothing, pend |-> Nothing]
<1>1. /\ job' = [job EXCEPT ![s] = j]
      /\ UNCHANGED <<enabled, role, plan, rule, deals>>
  BY DEF Begin
<1>2. j \in Job /\ \A p \in Plans : j.seen[p] = NoPlan
  BY DEF Job, Nothing
<1>3. plan' \in [Plans -> Plan \cup {NoPlan}] /\ begun' \in 0..MaxRequests
  BY <1>1, RequestCounts DEF Begin, CatalogueInv, TypeOK
<1> HIDE DEF j
<1>4. QED
  BY <1>1, <1>2, <1>3, JobKeeps

LEMMA FetchKeeps ==
    ASSUME CatalogueInv, NEW s \in Sessions, Fetch(s)
    PROVE  CatalogueInv'
<1> DEFINE Row(p) == IF job[s].pend[p] # NoPlan THEN job[s].pend[p] ELSE plan[p]
<1>1. PICK n \in job[s].left, whole \in BOOLEAN :
      \E items \in SUBSET {p \in Plans : NetworkOf[p] = n} :
      \E price \in [items -> Prices \cup {0}] :
          job' = [job EXCEPT
              ![s].left = @ \ {n},
              ![s].pc = IF whole /\ items # {} THEN "committing" ELSE @,
              ![s].seen = [p \in Plans |->
                  IF p \in items /\ job[s].pend[p] = NoPlan THEN plan[p] ELSE @[p]],
              ![s].pend = [p \in Plans |->
                  IF p \in items THEN Upsert(Row(p), price[p]) ELSE @[p]]]
  BY DEF Fetch
<1>2. PICK items \in SUBSET {p \in Plans : NetworkOf[p] = n} :
      \E price \in [items -> Prices \cup {0}] :
          job' = [job EXCEPT
              ![s].left = @ \ {n},
              ![s].pc = IF whole /\ items # {} THEN "committing" ELSE @,
              ![s].seen = [p \in Plans |->
                  IF p \in items /\ job[s].pend[p] = NoPlan THEN plan[p] ELSE @[p]],
              ![s].pend = [p \in Plans |->
                  IF p \in items THEN Upsert(Row(p), price[p]) ELSE @[p]]]
  BY <1>1
<1>3. PICK price \in [items -> Prices \cup {0}] :
          job' = [job EXCEPT
              ![s].left = @ \ {n},
              ![s].pc = IF whole /\ items # {} THEN "committing" ELSE @,
              ![s].seen = [p \in Plans |->
                  IF p \in items /\ job[s].pend[p] = NoPlan THEN plan[p] ELSE @[p]],
              ![s].pend = [p \in Plans |->
                  IF p \in items THEN Upsert(Row(p), price[p]) ELSE @[p]]]
  BY <1>2
<1>4. job[s] \in Job /\ UNCHANGED <<enabled, role, plan, rule, deals, begun>>
  BY DEF Fetch, CatalogueInv, TypeOK
<1> DEFINE pc == IF whole /\ items # {} THEN "committing" ELSE job[s].pc
           seen == [p \in Plans |-> IF p \in items /\ job[s].pend[p] = NoPlan
                                    THEN plan[p] ELSE job[s].seen[p]]
           pend == [p \in Plans |-> IF p \in items THEN Upsert(Row(p), price[p])
                                    ELSE job[s].pend[p]]
           j == [[[[job[s] EXCEPT !.left = job[s].left \ {n}] EXCEPT !.pc = pc]
                     EXCEPT !.seen = seen] EXCEPT !.pend = pend]
<1>5. \A p \in Plans : Row(p) \in Plan \cup {NoPlan}
  BY <1>4 DEF Job, CatalogueInv, TypeOK
<1>6. /\ pc \in {"fetching", "committing"}
      /\ seen \in [Plans -> Plan \cup {NoPlan}]
  BY <1>4 DEF Job, CatalogueInv, TypeOK
<1>7. /\ pend \in [Plans -> Plan \cup {NoPlan}]
      /\ \A p \in Plans : pend[p] = IF p \in items THEN Upsert(Row(p), price[p])
                                     ELSE job[s].pend[p]
  <2>1. \A p \in items : Upsert(Row(p), price[p]) \in Plan
    BY <1>5, UpsertIsPlan
  <2>2. \A p \in Plans : job[s].pend[p] \in Plan \cup {NoPlan}
    BY <1>4 DEF Job
  <2>3. QED
    BY <2>1, <2>2
<1>8. job' = [job EXCEPT ![s] = j]
  <2> HIDE DEF Row
  <2>1. QED
    BY <1>3, <1>4 DEF CatalogueInv, TypeOK, Job
<1>9. ASSUME NEW p \in Plans, seen[p] # NoPlan, pend[p] # NoPlan
      PROVE  \A column \in AdminColumns : pend[p][column] = seen[p][column]
  <2>1. CASE p \in items /\ job[s].pend[p] = NoPlan
    <3>1. seen[p] = plan[p] /\ pend[p] = Upsert(plan[p], price[p])
      BY <1>7, <2>1
    <3>2. plan[p] \in Plan
      BY <1>9, <3>1 DEF CatalogueInv, TypeOK
    <3>3. QED
      BY <1>9, <2>1, <3>1, <3>2, UpsertIsPlan
  <2>2. CASE p \in items /\ job[s].pend[p] # NoPlan
    <3>1. seen[p] = job[s].seen[p] /\ pend[p] = Upsert(job[s].pend[p], price[p])
      BY <1>7, <2>2
    <3>2. job[s].pend[p] \in Plan
      BY <1>4, <2>2 DEF Job
    <3>3. \A column \in AdminColumns : job[s].pend[p][column] = job[s].seen[p][column]
      BY <1>9, <2>2, <3>1 DEF Fetch, CatalogueInv, Untouched
    <3>4. \A column \in AdminColumns : pend[p][column] = job[s].pend[p][column]
      BY <2>2, <3>1, <3>2, UpsertIsPlan
    <3>5. QED
      BY <3>1, <3>3, <3>4
  <2>3. CASE p \notin items
    <3>1. seen[p] = job[s].seen[p] /\ pend[p] = job[s].pend[p]
      BY <1>7, <2>3
    <3>2. job[s] # NoJob /\ job[s].seen[p] # NoPlan /\ job[s].pend[p] # NoPlan
      BY <1>9, <3>1 DEF Fetch
    <3>3. \A column \in AdminColumns : job[s].pend[p][column] = job[s].seen[p][column]
      BY <3>2 DEF CatalogueInv, Untouched
    <3>4. QED
      BY <3>1, <3>3
  <2>4. QED
    BY <2>1, <2>2, <2>3
<1> HIDE DEF Row, pc, seen, pend
<1>10. j \in Job /\ j.seen = seen /\ j.pend = pend
  <2>1. job[s].left \ {n} \in SUBSET Networks
    BY <1>4 DEF Job
  <2>2. pend \in [Plans -> Plan \cup {NoPlan}] /\ seen \in [Plans -> Plan \cup {NoPlan}]
    BY <1>6, <1>7
  <2>3. QED
    BY <1>4, <1>6, <2>1, <2>2 DEF Job
<1> HIDE DEF j
<1>11. plan' \in [Plans -> Plan \cup {NoPlan}] /\ begun' \in 0..MaxRequests
  BY <1>4 DEF CatalogueInv, TypeOK
<1>12. \A p \in Plans : j # NoJob /\ j.seen[p] # NoPlan /\ j.pend[p] # NoPlan =>
           \A column \in AdminColumns : j.pend[p][column] = j.seen[p][column]
  BY <1>9, <1>10
<1>13. j \in Job \cup {NoJob} /\ UNCHANGED <<enabled, role, rule, deals>>
  BY <1>4, <1>10
<1>14. QED
  BY <1>8, <1>11, <1>12, <1>13, JobKeeps

\* What a commit of a sync leaves of the plans.
LEMMA CommitWrites ==
    ASSUME CatalogueInv, NEW s \in Sessions, CommitSync(s)
    PROVE  /\ plan' \in [Plans -> Plan \cup {NoPlan}]
           /\ \A p \in Plans : plan[p] # NoPlan =>
                 \A column \in AdminColumns : plan'[p][column] = plan[p][column]
<1>1. job[s] # NoJob /\ job[s] \in Job
  BY DEF CommitSync, CatalogueInv, TypeOK
<1>2. CASE \E p \in Plans : Collides(job[s], p)
  BY <1>2 DEF CommitSync, CatalogueInv, TypeOK
<1>3. CASE ~ \E p \in Plans : Collides(job[s], p)
  <2> DEFINE r == [p \in Plans |->
                     IF job[s].pend[p] = NoPlan \/ (plan[p] = NoPlan /\ job[s].seen[p] # NoPlan)
                     THEN plan[p]
                     ELSE IF plan[p] = NoPlan THEN job[s].pend[p]
                     ELSE Written(plan[p], job[s].seen[p], job[s].pend[p])]
  <2>1. plan' = r
    BY <1>3 DEF CommitSync
  <2>2. ASSUME NEW p \in Plans
        PROVE  /\ r[p] \in Plan \cup {NoPlan}
               /\ plan[p] # NoPlan =>
                     \A column \in AdminColumns : r[p][column] = plan[p][column]
    <3>1. /\ plan[p] \in Plan \cup {NoPlan} /\ job[s].pend[p] \in Plan \cup {NoPlan}
          /\ job[s].seen[p] \in Plan \cup {NoPlan}
      BY <1>1 DEF CatalogueInv, TypeOK, Job
    <3>2. CASE job[s].pend[p] = NoPlan \/ plan[p] = NoPlan
      BY <3>1, <3>2
    <3>3. CASE job[s].pend[p] # NoPlan /\ plan[p] # NoPlan
      <4>1. job[s].seen[p] # NoPlan
        BY <1>3, <3>3 DEF Collides
      <4>2. r[p] = Written(plan[p], job[s].seen[p], job[s].pend[p])
        BY <3>3
      <4>3. \A column \in AdminColumns : job[s].pend[p][column] = job[s].seen[p][column]
        BY <1>1, <3>3, <4>1 DEF CatalogueInv, Untouched
      <4> HIDE DEF r
      <4>4. QED
        BY <3>1, <3>3, <4>1, <4>2, <4>3, WrittenIsPlan
    <3>4. QED
      BY <3>2, <3>3
  <2>3. r \in [Plans -> Plan \cup {NoPlan}]
    <3>1. \E f : f = r /\ f = [p \in Plans |-> r[p]]
      OBVIOUS
    <3> HIDE DEF r
    <3>2. QED
      BY <2>2, <3>1
  <2> HIDE DEF r
  <2>4. QED
    BY <2>1, <2>2, <2>3
<1>4. QED
  BY <1>2, <1>3

LEMMA CommitKeeps ==
    ASSUME CatalogueInv, NEW s \in Sessions, CommitSync(s)
    PROVE  CatalogueInv'
<1>1. /\ job[s] \in Job /\ UNCHANGED <<enabled, role, rule, deals, begun>>
      /\ begun' \in 0..MaxRequests /\ plan' \in [Plans -> Plan \cup {NoPlan}]
  BY CommitWrites DEF CommitSync, CatalogueInv, TypeOK
<1>2. CASE \E p \in Plans : Collides(job[s], p)
  <2>1. job' = [job EXCEPT ![s] = NoJob]
    BY <1>2 DEF CommitSync
  <2>2. QED
    BY <1>1, <2>1, JobKeeps
<1>3. CASE ~ \E p \in Plans : Collides(job[s], p)
  <2> DEFINE j == [[[job[s] EXCEPT !.pc = "fetching"] EXCEPT !.seen = Nothing]
                      EXCEPT !.pend = Nothing]
  <2>1. job' = [job EXCEPT ![s] = j]
    BY <1>1, <1>3 DEF CommitSync, CatalogueInv, TypeOK, Job
  <2>2. Nothing \in [Plans -> Plan \cup {NoPlan}] /\ \A p \in Plans : Nothing[p] = NoPlan
    BY DEF Nothing
  <2>3. j \in Job /\ j.seen = Nothing
    BY <1>1, <2>2 DEF Job
  <2> HIDE DEF j
  <2>4. QED
    BY <1>1, <2>1, <2>2, <2>3, JobKeeps
<1>4. QED
  BY <1>2, <1>3

-----------------------------------------------------------------------------
(***************************************************************************)
(* The admin.                                                              *)
(***************************************************************************)
LEMMA PutIsPlans ==
    ASSUME CatalogueInv, NEW p \in Plans, NEW r \in Plan \cup {NoPlan}, Put(p, r),
           begun' \in 0..MaxRequests
    PROVE  CatalogueInv' /\ plan'[p] = r /\ \A q \in Plans \ {p} : plan'[q] = plan[q]
<1>1. plan' = [plan EXCEPT ![p] = r] /\ UNCHANGED <<enabled, role, rule, job, deals>>
  BY DEF Put
<1>2. /\ plan' \in [Plans -> Plan \cup {NoPlan}] /\ plan'[p] = r
      /\ \A q \in Plans \ {p} : plan'[q] = plan[q]
  BY <1>1 DEF CatalogueInv, TypeOK
<1>3. rule' \in [Networks -> [Roles -> Margins \cup {NoMargin}]]
  BY <1>1 DEF CatalogueInv, TypeOK
<1>4. QED
  BY <1>1, <1>2, <1>3, OtherKeeps

LEMMA UpdateKeeps ==
    ASSUME CatalogueInv, NEW p \in Plans, UpdatePlan(p)
    PROVE  CatalogueInv' /\ \A q \in Plans \ {p} : plan'[q] = plan[q]
<1>1. plan[p] \in Plan /\ begun' \in 0..MaxRequests
  BY RequestCounts DEF UpdatePlan, CatalogueInv, TypeOK
<1>2. PICK r \in Plan : Put(p, r)
  <2>1. CASE \E switch \in BOOLEAN :
                 \/ Put(p, [plan[p] EXCEPT !.active = switch])
                 \/ Put(p, [plan[p] EXCEPT !.promoActive = switch])
    <3>1. \A switch \in BOOLEAN : /\ [plan[p] EXCEPT !.active = switch] \in Plan
                                  /\ [plan[p] EXCEPT !.promoActive = switch] \in Plan
      BY <1>1 DEF Plan
    <3>2. QED
      BY <2>1, <3>1
  <2>2. CASE \E price \in Prices : Put(p, [plan[p] EXCEPT !.base = price])
    <3>1. \A price \in Prices : [plan[p] EXCEPT !.base = price] \in Plan
      BY <1>1 DEF Plan
    <3>2. QED
      BY <2>2, <3>1
  <2>3. CASE \E price \in Prices \cup {Unset} :
                 \/ Put(p, [plan[p] EXCEPT !.display = price])
                 \/ Put(p, [plan[p] EXCEPT !.agent = price])
    <3>1. \A price \in Prices \cup {Unset} : /\ [plan[p] EXCEPT !.display = price] \in Plan
                                            /\ [plan[p] EXCEPT !.agent = price] \in Plan
      BY <1>1 DEF Plan
    <3>2. QED
      BY <2>3, <3>1
  <2>4. QED
    BY <2>1, <2>2, <2>3 DEF UpdatePlan
<1>3. QED
  BY <1>1, <1>2, PutIsPlans

LEMMA CreateKeeps ==
    ASSUME CatalogueInv, NEW p \in Plans, CreatePlan(p)
    PROVE  CatalogueInv' /\ plan[p] = NoPlan /\ \A q \in Plans \ {p} : plan'[q] = plan[q]
<1>1. plan[p] = NoPlan /\ begun' \in 0..MaxRequests
  BY RequestCounts DEF CreatePlan
<1>2. PICK r \in Plan : Put(p, r)
  BY DEF CreatePlan, Plan
<1>3. QED
  BY <1>1, <1>2, PutIsPlans

LEMMA DeleteKeeps ==
    ASSUME CatalogueInv, NEW p \in Plans, DeletePlan(p)
    PROVE  CatalogueInv' /\ plan'[p] = NoPlan /\ \A q \in Plans \ {p} : plan'[q] = plan[q]
<1>1. Put(p, NoPlan) /\ begun' \in 0..MaxRequests
  BY RequestCounts DEF DeletePlan
<1>2. QED
  BY <1>1, PutIsPlans

LEMMA CleanKeeps ==
    ASSUME CatalogueInv, CleanLegacy
    PROVE  CatalogueInv' /\ \A p \in Plans : plan'[p] \in {plan[p], NoPlan}
<1>1. /\ plan' \in [Plans -> Plan \cup {NoPlan}] /\ UNCHANGED <<enabled, role, rule, job, deals>>
      /\ \A p \in Plans : plan'[p] \in {plan[p], NoPlan}
  BY DEF CleanLegacy, CatalogueInv, TypeOK
<1>2. /\ begun' \in 0..MaxRequests
      /\ rule' \in [Networks -> [Roles -> Margins \cup {NoMargin}]]
  BY <1>1, RequestCounts DEF CleanLegacy, CatalogueInv, TypeOK
<1>3. QED
  BY <1>1, <1>2, OtherKeeps

LEMMA PricingKeeps ==
    ASSUME CatalogueInv, NEW n \in Networks, NEW r \in Roles, UpdatePricing(n, r)
    PROVE  CatalogueInv' /\ plan' = plan
<1>1. PICK m \in Margins : rule' = [rule EXCEPT ![n][r] = m]
  BY DEF UpdatePricing
<1> DEFINE x == [rule[n] EXCEPT ![r] = m]
<1>2. x \in [Roles -> Margins \cup {NoMargin}]
  BY DEF CatalogueInv, TypeOK
<1>3. rule' = [rule EXCEPT ![n] = x]
  BY <1>1
<1> HIDE DEF x
<1>4. rule' \in [Networks -> [Roles -> Margins \cup {NoMargin}]]
  BY <1>2, <1>3 DEF CatalogueInv, TypeOK
<1>5. /\ UNCHANGED <<enabled, role, plan, job, deals>> /\ begun' \in 0..MaxRequests
      /\ plan' \in [Plans -> Plan \cup {NoPlan}]
  BY RequestCounts DEF UpdatePricing, CatalogueInv, TypeOK
<1>6. QED
  BY <1>4, <1>5, OtherKeeps

LEMMA RedeployKeeps ==
    ASSUME CatalogueInv, Redeploy
    PROVE  CatalogueInv' /\ plan' = plan
<1>1. /\ UNCHANGED <<role, plan, rule, deals>> /\ begun' \in 0..MaxRequests
      /\ enabled' \in BOOLEAN /\ job' = [s \in Sessions |-> NoJob]
  BY RequestCounts DEF Redeploy, CatalogueInv, TypeOK
<1>2. TypeOK'
  BY <1>1 DEF CatalogueInv, TypeOK
<1>3. Untouched'
  BY <1>1 DEF Untouched
<1>4. PromosAreFew' /\ deals' \in Seq(Deal)
  <2>1. Promos' = Promos
    BY <1>1 DEF Promos
  <2>2. QED
    BY <1>1, <2>1 DEF CatalogueInv, PromosAreFew, AtPromoPrice
<1>5. QED
  BY <1>1, <1>2, <1>3, <1>4 DEF CatalogueInv

-----------------------------------------------------------------------------
(***************************************************************************)
(* Every step.                                                             *)
(***************************************************************************)
LEMMA CatalogueInit == Init => CatalogueInv
<1> SUFFICES ASSUME Init PROVE CatalogueInv
  OBVIOUS
<1>1. /\ enabled \in BOOLEAN /\ role \in [Users -> Roles] /\ plan \in [Plans -> Plan \cup {NoPlan}]
      /\ job = [s \in Sessions |-> NoJob] /\ deals = <<>> /\ begun = 0
      /\ rule = [n \in Networks |-> [r \in Roles |-> NoMargin]]
      /\ MaxRequests \in Nat /\ PromoLimit \in Nat
  BY StartIsARow, NumbersAreNat DEF Init
<1>2. rule \in [Networks -> [Roles -> Margins \cup {NoMargin}]]
  BY <1>1
<1>3. deals \in Seq(Deal) /\ DOMAIN deals = {}
  BY <1>1
<1>4. TypeOK
  BY <1>1, <1>2, <1>3 DEF TypeOK
<1>5. Untouched
  BY <1>1 DEF Untouched
<1>6. PromosAreFew
  <2>1. Promos = {}
    BY <1>3 DEF Promos
  <2>2. QED
    BY <1>1, <1>3, <2>1, FS_EmptySet DEF PromosAreFew
<1>7. QED
  BY <1>3, <1>4, <1>5, <1>6 DEF CatalogueInv

LEMMA CatalogueStep ==
    ASSUME CatalogueInv, [Next]_vars
    PROVE  CatalogueInv' /\ [AdminDecided]_vars
<1>1. ASSUME NEW u \in Users, NEW p \in Plans, Buy(u, p) \/ BuyByApi(u, p)
      PROVE  CatalogueInv' /\ plan' = plan
  <2>1. TillPrice(role[u], p) \in Nat /\ PromoPrice \in Nat
    BY <1>1, PricesAreNat, NumbersAreNat DEF CatalogueInv, TypeOK, Buy, BuyByApi, OnSale
  <2>2. CASE Buy(u, p)
    <3>1. Promoted(u, p) \in BOOLEAN
      BY DEF Promoted
    <3>2. Charged(u, p) \in Nat /\ (Promoted(u, p) => Charged(u, p) = PromoPrice)
      BY <2>1 DEF Charged
    <3>3. QED
      BY <2>2, <3>1, <3>2, AskKeeps DEF Buy, Ask
  <2>3. CASE BuyByApi(u, p)
    BY <2>1, <2>3, AskKeeps DEF BuyByApi, ChargedByApi, Ask
  <2>4. QED
    BY <1>1, <2>2, <2>3
<1>2. ASSUME NEW i \in DOMAIN deals, Insert(i) \/ Settle(i) \/ Overwrite(i) \/ Reconcile(i)
      PROVE  CatalogueInv' /\ plan' = plan
  <2>1. PICK status \in {"PENDING", "SUCCESS", "REFUNDED"} : Becomes(i, status)
    BY <1>2 DEF Insert, Settle, Overwrite, Reconcile
  <2>2. QED
    BY <2>1, BecomesKeeps DEF Becomes
<1>3. ASSUME NEW s \in Sessions, ListPlans(s) \/ SyncPlans(s) \/ Fetch(s) \/ Finish(s)
      PROVE  CatalogueInv' /\ plan' = plan
  <2>1. CASE ListPlans(s)
    <3>1. {n \in Networks : Cardinality(Active(n)) < Low} \in SUBSET Networks
      OBVIOUS
    <3>2. QED
      BY <2>1, <3>1, BeginKeeps DEF ListPlans, Begin
  <2>2. CASE SyncPlans(s)
    BY <2>2, BeginKeeps DEF SyncPlans, Begin
  <2>3. CASE Fetch(s)
    BY <2>3, FetchKeeps DEF Fetch
  <2>4. CASE Finish(s)
    <3>1. /\ job' = [job EXCEPT ![s] = NoJob] /\ UNCHANGED <<enabled, role, plan, rule, deals, begun>>
          /\ plan' \in [Plans -> Plan \cup {NoPlan}] /\ begun' \in 0..MaxRequests
      BY <2>4 DEF Finish, CatalogueInv, TypeOK
    <3>2. QED
      BY <3>1, JobKeeps
  <2>5. QED
    BY <1>3, <2>1, <2>2, <2>3, <2>4
<1>4. CASE \E s \in Sessions : CommitSync(s)
  BY <1>4, CommitKeeps, CommitWrites DEF AdminDecided, AdminColumns
<1>5. CASE \E p \in Plans : UpdatePlan(p)
  BY <1>5, UpdateKeeps DEF AdminDecided
<1>6. CASE \E p \in Plans : CreatePlan(p)
  BY <1>6, CreateKeeps DEF AdminDecided
<1>7. CASE \E p \in Plans : DeletePlan(p)
  BY <1>7, DeleteKeeps DEF AdminDecided
<1>8. CASE CleanLegacy
  BY <1>8, CleanKeeps DEF AdminDecided
<1>9. CASE \E n \in Networks, r \in Roles : UpdatePricing(n, r)
  BY <1>9, PricingKeeps DEF AdminDecided
<1>10. CASE UNCHANGED vars
  <2>1. /\ UNCHANGED <<enabled, role, job, deals, plan>>
        /\ plan' \in [Plans -> Plan \cup {NoPlan}] /\ begun' \in 0..MaxRequests
        /\ rule' \in [Networks -> [Roles -> Margins \cup {NoMargin}]]
    BY <1>10 DEF vars, CatalogueInv, TypeOK
  <2>2. QED
    BY <1>10, <2>1, OtherKeeps
<1>11. CASE Redeploy
  BY <1>11, RedeployKeeps DEF AdminDecided
<1>12. plan' = plan => AdminDecided
  BY DEF AdminDecided
<1>13. QED
  BY <1>1, <1>2, <1>3, <1>4, <1>5, <1>6, <1>7, <1>8, <1>9, <1>10, <1>11, <1>12 DEF Next

LEMMA CatalogueHolds == Spec => []CatalogueInv
<1>1. CatalogueInv /\ [Next]_vars => CatalogueInv'
  BY CatalogueStep
<1>2. QED
  BY <1>1, CatalogueInit, PTL DEF Spec

\* Plans, margins, syncs and purchases have the types of models/data_plan.py,
\* pricing.py and the sessions of list_data_plans.
THEOREM CatalogueTypes == Spec => []TypeOK
<1>1. CatalogueInv => TypeOK
  BY DEF CatalogueInv
<1>2. QED
  BY <1>1, CatalogueHolds, PTL

\* For all prices, margins, roles and plans of the promotion: list_data_plans
\* shows what _buy_data_impl charges, except for plans of the promotion, which
\* cost those entitled to it no more than is shown; and developers who are no
\* resellers are shown what developer_buy_data charges them.
THEOREM PricesAgree == Spec => []PageAgreesWithTill
<1>1. CatalogueInv => PageAgreesWithTill
  <2> SUFFICES ASSUME CatalogueInv, NEW u \in Users, NEW p \in Plans, OnSale(p)
               PROVE  /\ ~IsPromoPlan(p) => Listed(u, p) = Charged(u, p)
                      /\ Promoted(u, p) \/ plan[p].promoActive =>
                            Charged(u, p) <= Listed(u, p)
                      /\ role[u] = "USER" => ListedByApi(u, p) = ChargedByApi(u, p)
    BY DEF PageAgreesWithTill
  <2>1. role[u] \in Roles /\ plan[p] # NoPlan /\ TypeOK /\ PromoPrice \in Nat
    BY NumbersAreNat DEF CatalogueInv, TypeOK, OnSale
  <2>2. PagePrice(role[u], p) = TillPrice(role[u], p) /\ TillPrice(role[u], p) \in Nat
    BY <2>1, PagePriceIsTillPrice, PricesAreNat
  <2>3. ~IsPromoPlan(p) => Listed(u, p) = Charged(u, p)
    BY <2>2 DEF Listed, Charged, Promoted
  <2>4. CASE Promoted(u, p)
    <3>1. Charged(u, p) = PromoPrice /\ PromoPrice < TillPrice(role[u], p)
      BY <2>4 DEF Charged, Promoted
    <3>2. Listed(u, p) \in {PromoPrice, TillPrice(role[u], p)}
      BY <2>2 DEF Listed
    <3>3. Charged(u, p) <= Listed(u, p)
      BY <2>1, <2>2, <3>1, <3>2
    <3>4. QED
      BY <2>3, <3>3 DEF ListedByApi, ChargedByApi
  <2>5. CASE ~Promoted(u, p) /\ plan[p].promoActive
    <3>1. Charged(u, p) = TillPrice(role[u], p) /\ Listed(u, p) = TillPrice(role[u], p)
      BY <2>2, <2>5 DEF Charged, Listed
    <3>2. Charged(u, p) <= Listed(u, p)
      BY <2>2, <3>1
    <3>3. QED
      BY <2>3, <3>2 DEF ListedByApi, ChargedByApi
  <2>6. CASE ~Promoted(u, p) /\ ~plan[p].promoActive
    BY <2>3, <2>6 DEF ListedByApi, ChargedByApi
  <2>7. QED
    BY <2>4, <2>5, <2>6
<1>2. QED
  BY <1>1, CatalogueHolds, PTL

\* However many customers buy at once and however purchases settle, those that
\* got the promotion with none before them open are of different users and no
\* more than the limit (_mtn_1gb_promo_snapshot).
THEOREM PromoIsLimited == Spec => []PromoWithinLimit
<1>1. CatalogueInv => PromoWithinLimit
  <2> SUFFICES ASSUME CatalogueInv PROVE PromoWithinLimit
    OBVIOUS
  <2>1. Granted \in SUBSET Promos
    BY DEF Granted, Promos
  <2>2. IsFiniteSet(Promos) /\ IsFiniteSet(Granted) /\ Cardinality(Granted) <= Cardinality(Promos)
    BY <2>1, DealsAreFinite, FS_Subset
  <2>3. /\ Cardinality(Granted) \in Nat /\ Cardinality(Promos) \in Nat /\ PromoLimit \in Nat
    BY <2>2, FS_CardinalityType, NumbersAreNat
  <2>4. QED
    BY <2>1, <2>2, <2>3 DEF PromoWithinLimit, CatalogueInv, PromosAreFew
<1>2. QED
  BY <1>1, CatalogueHolds, PTL

\* A sync never undoes an admin's switch, promotion or special price of a plan,
\* however many syncs are under way and whatever they had loaded; the base price
\* it does overwrite (_upsert_plan_from_provider).
THEOREM AdminStaysInCharge == Spec => AdminDecides
<1>1. CatalogueInv /\ [Next]_vars => [AdminDecided]_vars
  BY CatalogueStep
<1>2. QED
  BY <1>1, CatalogueHolds, PTL DEF Spec, AdminDecides
=============================================================================
