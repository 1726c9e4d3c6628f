----------------------------- MODULE Catalogue -----------------------------
(***************************************************************************)
(* The data plans on sale: their synchronisation with the providers (which *)
(* every price list may start), the admin's changes, the prices shown and  *)
(* charged, and the promotion with a limited number of customers           *)
(* (endpoints/data.py, admin.py, developer.py; services/pricing.py).       *)
(*                                                                         *)
(* A sync works through one network after another in one database session. *)
(* It loads rows, changes them or adds new ones, and commits after each    *)
(* network; an error in between leaves its changes in the session, for the *)
(* next commit.  An UPDATE has the columns that changed.  How a purchase   *)
(* is settled is DataPurchases; here its status changes by itself.         *)
(***************************************************************************)
EXTENDS Naturals, Sequences, FiniteSets

CONSTANTS
    Plans,        \* plan codes, provider:network:id
    Networks,
    NetworkOf,    \* the network of a plan
    Users,
    Sessions,     \* requests that synchronise
    Prices,
    Margins,      \* margins an admin may set
    Catalogued,   \* what a row may be at first
    Low,          \* a network with fewer active plans is synchronised
    PromoNetwork, \* promo_mtn_1gb_network
    PromoPlans,   \* its plans whose code ends in promo_mtn_1gb_plan_code, one
                  \* for each provider that has it
    PromoPrice,
    PromoLimit,
    NoPlan,       \* no row of data_plans
    Unset,        \* NULL
    NoJob,        \* what an idle session does
    MaxRequests   \* bound: requests made in a run

Plan == [active : BOOLEAN, base : Prices \cup {0}, display : Prices \cup {Unset},
         agent : Prices \cup {Unset}, promoActive : BOOLEAN, provider : BOOLEAN]

ASSUME NoPlanIsNoRow == NoPlan \notin Plan
ASSUME PlansHaveNetworks == NetworkOf \in [Plans -> Networks]
ASSUME PromoIsOnPlans ==
    PromoPlans \subseteq {p \in Plans : NetworkOf[p] = PromoNetwork}
ASSUME NumbersAreNat == Prices \cup {Low, PromoPrice, PromoLimit, MaxRequests} \subseteq Nat
ASSUME StartIsARow == Catalogued \subseteq Plan \cup {NoPlan}
ASSUME MarginsAreMargins == Margins \subseteq [amount : Nat, percent : BOOLEAN]

Roles == {"USER", "RESELLER"}

NoMargin == [amount |-> 0, percent |-> FALSE]

Job == [manual : BOOLEAN, pc : {"fetching", "committing"}, left : SUBSET Networks,
        seen : [Plans -> Plan \cup {NoPlan}], pend : [Plans -> Plan \cup {NoPlan}]]

Deal == [u : Users, p : Plans, price : Nat, promo : BOOLEAN, overlapped : BOOLEAN,
         status : {"asked", "PENDING", "SUCCESS", "REFUNDED"}]

VARIABLES
    enabled, \* promo_mtn_1gb_enabled, a setting of the processes
    role,   \* users.role
    plan,   \* data_plans
    rule,   \* pricing_rules of the networks
    job,    \* what each session does
    deals,  \* purchases, oldest first
    begun   \* how many requests were made

vars == <<enabled, role, plan, rule, job, deals, begun>>

Init ==
    /\ enabled \in BOOLEAN
    /\ role \in [Users -> Roles]
    /\ plan \in [Plans -> Catalogued]
    /\ rule = [n \in Networks |-> [r \in Roles |-> NoMargin]]
    /\ job = [s \in Sessions |-> NoJob]
    /\ deals = <<>>
    /\ begun = 0

Request == begun < MaxRequests /\ begun' = begun + 1

OnSale(p) == plan[p] # NoPlan /\ plan[p].active

-----------------------------------------------------------------------------
(***************************************************************************)
(* Prices.                                                                 *)
(***************************************************************************)

\* apply_margin
ApplyMargin(base, m) ==
    IF m.percent THEN base + (base * m.amount) \div 100 ELSE base + m.amount

\* Mutant: the agents' price is everybody's.
TillPrice_Everybody(r, p) ==
    IF plan[p].agent # Unset THEN plan[p].agent
    ELSE IF plan[p].display # Unset THEN plan[p].display
    ELSE ApplyMargin(plan[p].base, rule[NetworkOf[p]][r])

\* get_price_for_user
TillPrice(r, p) ==
    IF r = "RESELLER" /\ plan[p].agent # Unset THEN plan[p].agent
    ELSE IF plan[p].display # Unset THEN plan[p].display
    ELSE ApplyMargin(plan[p].base, rule[NetworkOf[p]][r])

\* What list_data_plans computes by itself, from the margins it loaded at once.
PagePrice(r, p) ==
    LET m == rule[NetworkOf[p]][r]
        base == plan[p].base
    IN  CASE r = "RESELLER" /\ plan[p].agent # Unset -> plan[p].agent
          [] plan[p].display # Unset /\ (r = "USER" \/ plan[p].agent = Unset) ->
               plan[p].display
          [] OTHER -> IF m.percent THEN base + (m.amount * base) \div 100
                      ELSE m.amount + base

\* _is_mtn_1gb_promo_plan
IsPromoPlan(p) == enabled /\ p \in PromoPlans

\* list_data_plans: the promotion is shown to everybody, as long as its plan has
\* no promotion of its own.
Listed(u, p) ==
    IF IsPromoPlan(p) /\ ~plan[p].promoActive THEN PromoPrice ELSE PagePrice(role[u], p)

\* The developers' list hands get_price_for_user the user instead of his role,
\* which is no reseller's.
ListedByApi(u, p) == TillPrice("USER", p)

AtPromoPrice(d) == d.price = PromoPrice /\ NetworkOf[d.p] = PromoNetwork

\* Mutant: a purchase counts only while it is pending.
PromoUsers_Pending ==
    {deals[i].u : i \in {j \in DOMAIN deals : /\ AtPromoPrice(deals[j])
                                              /\ deals[j].status = "PENDING"}}

\* _count_mtn_1gb_promo_successes: whoever bought at this price.
PromoUsers ==
    {deals[i].u : i \in {j \in DOMAIN deals : /\ AtPromoPrice(deals[j])
                                              /\ deals[j].status = "SUCCESS"}}

\* The promotion is on for the user: some are left, and the user has had none.
Promoted(u, p) ==
    /\ IsPromoPlan(p)
    /\ Cardinality(PromoUsers) < PromoLimit
    /\ u \notin PromoUsers
    /\ PromoPrice < TillPrice(role[u], p)

\* What _buy_data_impl charges.
Charged(u, p) == IF Promoted(u, p) THEN PromoPrice ELSE TillPrice(role[u], p)

\* What developer_buy_data charges: it has no promotion.
ChargedByApi(u, p) == TillPrice(role[u], p)

-----------------------------------------------------------------------------
(***************************************************************************)
(* Purchases.                                                              *)
(***************************************************************************)
Ask(u, p, promo, price) ==
    /\ OnSale(p) /\ Request
    /\ deals' = Append(deals,
           [u |-> u, p |-> p, promo |-> promo, status |-> "asked", price |-> price,
            overlapped |-> \E i \in DOMAIN deals :
                               AtPromoPrice(deals[i]) /\ deals[i].status # "SUCCESS"])
    /\ UNCHANGED <<enabled, role, plan, rule, job>>

\* POST /data/purchase: a plan that cost nothing is not sold.
Buy(u, p) == OnSale(p) /\ plan[p].base > 0 /\ Ask(u, p, Promoted(u, p), Charged(u, p))

BuyByApi(u, p) == OnSale(p) /\ Ask(u, p, FALSE, ChargedByApi(u, p))

Becomes(i, status) ==
    /\ deals' = [deals EXCEPT ![i].status = status]
    /\ UNCHANGED <<enabled, role, plan, rule, job, begun>>

\* The debit and the PENDING row.
Insert(i) == deals[i].status = "asked" /\ Becomes(i, "PENDING")

\* Request, webhook, worker or admin.
Settle(i) ==
    /\ deals[i].status = "PENDING"
    /\ (Becomes(i, "SUCCESS") \/ Becomes(i, "REFUNDED"))

\* The purchase's own request comes back when a webhook or the admin has settled
\* it, and writes what its provider told.
Overwrite(i) ==
    /\ deals[i].status = "SUCCESS"
    /\ (Becomes(i, "PENDING") \/ Becomes(i, "REFUNDED"))

\* The admin reconciles a refunded purchase as delivered.
Reconcile(i) == deals[i].status = "REFUNDED" /\ Becomes(i, "SUCCESS")

-----------------------------------------------------------------------------
(***************************************************************************)
(* Synchronisation.                                                        *)
(***************************************************************************)
Nothing == [p \in Plans |-> NoPlan]

Begin(s, manual, left) ==
    /\ job[s] = NoJob /\ Request
    /\ job' = [job EXCEPT ![s] = [manual |-> manual, pc |-> "fetching", left |-> left,
                                  seen |-> Nothing, pend |-> Nothing]]
    /\ UNCHANGED <<enabled, role, plan, rule, deals>>

Active(n) == {p \in Plans : NetworkOf[p] = n /\ OnSale(p)}

\* list_data_plans synchronises the networks that have few active plans.
ListPlans(s) == Begin(s, FALSE, {n \in Networks : Cardinality(Active(n)) < Low})

\* sync_data_plans
SyncPlans(s) == Begin(s, TRUE, Networks)

\* _upsert_plan_from_provider: a new plan is on sale at once; of an old one the
\* admin's prices and the switch are left alone.
Upsert(r, price) ==
    IF r = NoPlan
    THEN [active |-> TRUE, base |-> price, display |-> Unset, agent |-> Unset,
          promoActive |-> FALSE, provider |-> TRUE]
    ELSE [r EXCEPT !.base = IF price = 0 THEN @ ELSE price, !.provider = TRUE]

\* A provider is asked for a network and gives some plans, one without price;
\* an error may come first, or after some of them.
Fetch(s) ==
    LET Row(p) == IF job[s].pend[p] # NoPlan THEN job[s].pend[p] ELSE plan[p]
    IN  /\ job[s] # NoJob /\ job[s].pc = "fetching"
        /\ \E n \in job[s].left, whole \in BOOLEAN :
           \E items \in SUBSET {p \in Plans : NetworkOf[p] = n} :
           \E price \in [items -> Prices \cup {0}] :
               job' = [job EXCEPT
                   ![s].left = @ \ {n},
                   ![s].pc = IF whole /\ items # {} THEN "committing" ELSE @,
                   ![s].seen = [p \in Plans |->
                       IF p \in items /\ job[s].pend[p] = NoPlan THEN plan[p] ELSE @[p]],
                   ![s].pend = [p \in Plans |->
                       IF p \in items THEN Upsert(Row(p), price[p]) ELSE @[p]]]
        /\ UNCHANGED <<enabled, role, plan, rule, deals, begun>>

\* The columns that differ from the loaded row.
Written(now, seen, new) ==
    [column \in DOMAIN now |-> IF new[column] # seen[column] THEN new[column]
                               ELSE now[column]]

\* An insert of a code that is there by now, or an update of a row that is gone.
Collides(j, p) ==
    /\ j.pend[p] # NoPlan
    /\ IF j.seen[p] = NoPlan THEN plan[p] # NoPlan
       ELSE plan[p] = NoPlan /\ j.pend[p] # j.seen[p]

\* Mutant: the whole row is written.
CommitSync_WholeRow(s) ==
    LET j == job[s]
    IN  /\ j # NoJob /\ j.pc = "committing"
        /\ IF \E p \in Plans : Collides(j, p)
           THEN job' = [job EXCEPT ![s] = NoJob] /\ UNCHANGED plan
           ELSE /\ plan' = [p \in Plans |->
                       IF j.pend[p] = NoPlan \/ (plan[p] = NoPlan /\ j.seen[p] # NoPlan)
                       THEN plan[p] ELSE j.pend[p]]
                /\ job' = [job EXCEPT ![s].pc = "fetching", ![s].seen = Nothing,
                                      ![s].pend = Nothing]
        /\ UNCHANGED <<enabled, role, rule, deals, begun>>

\* A commit writes all that is in the session.  If it fails nobody rolls it
\* back, and each further use of the session fails: the price list with a 500,
\* the admin's sync quietly.
CommitSync(s) ==
    LET j == job[s]
    IN  /\ j # NoJob /\ j.pc = "committing"
        /\ IF \E p \in Plans : Collides(j, p)
           THEN job' = [job EXCEPT ![s] = NoJob] /\ UNCHANGED plan
           ELSE /\ plan' = [p \in Plans |->
                       IF j.pend[p] = NoPlan \/ (plan[p] = NoPlan /\ j.seen[p] # NoPlan)
                       THEN plan[p]
                       ELSE IF plan[p] = NoPlan THEN j.pend[p]
                       ELSE Written(plan[p], j.seen[p], j.pend[p])]
                /\ job' = [job EXCEPT ![s].pc = "fetching", ![s].seen = Nothing,
                                      ![s].pend = Nothing]
        /\ UNCHANGED <<enabled, role, rule, deals, begun>>

\* The list is answered; what was not committed is lost.
Finish(s) ==
    /\ job[s] # NoJob /\ job[s].pc = "fetching" /\ job[s].left = {}
    /\ job' = [job EXCEPT ![s] = NoJob]
    /\ UNCHANGED <<enabled, role, plan, rule, deals, begun>>

-----------------------------------------------------------------------------
(***************************************************************************)
(* The admin.                                                              *)
(***************************************************************************)
Put(p, r) == plan' = [plan EXCEPT ![p] = r] /\ UNCHANGED <<enabled, role, rule, job, deals>>

\* update_data_plan
UpdatePlan(p) ==
    /\ plan[p] # NoPlan /\ Request
    /\ \/ \E switch \in BOOLEAN :
              \/ Put(p, [plan[p] EXCEPT !.active = switch])
              \/ Put(p, [plan[p] EXCEPT !.promoActive = switch])
       \/ \E price \in Prices : Put(p, [plan[p] EXCEPT !.base = price])
       \/ \E price \in Prices \cup {Unset} :
              \/ Put(p, [plan[p] EXCEPT !.display = price])
              \/ Put(p, [plan[p] EXCEPT !.agent = price])

\* create_data_plan: without a base price it costs nothing.
CreatePlan(p) ==
    /\ plan[p] = NoPlan /\ Request
    /\ \E active, provider \in BOOLEAN, base \in Prices \cup {0},
          display \in Prices \cup {Unset} :
           Put(p, [active |-> active, base |-> base, display |-> display,
                   agent |-> Unset, promoActive |-> FALSE, provider |-> provider])

DeletePlan(p) == plan[p] # NoPlan /\ Request /\ Put(p, NoPlan)

\* clean_legacy_data_plans: rows without provider go (and codes of another
\* form, which no sync touches and this module leaves out).
CleanLegacy ==
    /\ Request
    /\ plan' = [p \in Plans |->
                   IF plan[p] # NoPlan /\ ~plan[p].provider
                   THEN NoPlan ELSE plan[p]]
    /\ UNCHANGED <<enabled, role, rule, job, deals>>

\* update_pricing
UpdatePricing(n, r) ==
    /\ Request
    /\ \E m \in Margins : rule' = [rule EXCEPT ![n][r] = m]
    /\ UNCHANGED <<enabled, role, plan, job, deals>>

\* The processes are restarted with the promotion switched on or off.
Redeploy ==
    /\ Request
    /\ enabled' = ~enabled
    /\ job' = [s \in Sessions |-> NoJob]
    /\ UNCHANGED <<role, plan, rule, deals>>

-----------------------------------------------------------------------------
Next ==
    \/ \E u \in Users, p \in Plans : Buy(u, p) \/ BuyByApi(u, p)
    \/ \E i \in DOMAIN deals :
           Insert(i) \/ Settle(i) \/ Overwrite(i) \/ Reconcile(i)
    \/ \E s \in Sessions :
           ListPlans(s) \/ SyncPlans(s) \/ Fetch(s) \/ CommitSync(s) \/ Finish(s)
    \/ \E p \in Plans : UpdatePlan(p) \/ CreatePlan(p) \/ DeletePlan(p)
    \/ CleanLegacy
    \/ \E n \in Networks, r \in Roles : UpdatePricing(n, r)
    \/ Redeploy

Spec == Init /\ [][Next]_vars

-----------------------------------------------------------------------------
(***************************************************************************)
(* Properties                                                              *)
(***************************************************************************)
\* The values the variables take.
TypeOK ==
    /\ enabled \in BOOLEAN
    /\ role \in [Users -> Roles]
    /\ plan \in [Plans -> Plan \cup {NoPlan}]
    /\ rule \in [Networks -> [Roles -> Margins \cup {NoMargin}]]
    /\ job \in [Sessions -> Job \cup {NoJob}]
    /\ \A i \in DOMAIN deals : deals[i] \in Deal
    /\ begun \in 0..MaxRequests

\* What a price list shows is what a purchase charges, for every role and
\* whatever the admin has set, but for two lists that say something else.  The
\* plans of the promotion are shown at its price to everybody: whoever is
\* entitled pays no more than shown, whoever is not pays the ordinary price.
\* The developers' list shows resellers what others pay.
PageAgreesWithTill ==
    \A u \in Users, p \in Plans : OnSale(p) =>
        /\ ~IsPromoPlan(p) => Listed(u, p) = Charged(u, p)
        /\ Promoted(u, p) \/ plan[p].promoActive => Charged(u, p) <= Listed(u, p)
        /\ role[u] = "USER" => ListedByApi(u, p) = ChargedByApi(u, p)

\* The promotion is sold to no more users than its limit, and to none of them
\* twice, except by purchases begun while another at its price was on the way
\* or refunded.  (_mtn_1gb_promo_snapshot counts successes only.)
Granted == {i \in DOMAIN deals : /\ deals[i].promo /\ ~deals[i].overlapped
                                 /\ deals[i].status = "SUCCESS"}
PromoWithinLimit ==
    /\ Cardinality(Granted) <= PromoLimit
    /\ \A i, j \in Granted : deals[i].u = deals[j].u => i = j

\* Only the admin switches a plan or its promotion and sets its special prices: a
\* sync that had loaded the row before does not undo it, and no price of a
\* provider does.  (The base price and the names are the syncs'.)
AdminDecided ==
    \A p \in Plans :
        plan[p] # NoPlan /\ plan'[p] # NoPlan /\ ~UpdatePlan(p) =>
            \A column \in {"active", "display", "agent", "promoActive"} :
                plan'[p][column] = plan[p][column]
AdminDecides == [][AdminDecided]_vars
=============================================================================
