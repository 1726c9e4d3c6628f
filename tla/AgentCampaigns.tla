--------------------------- MODULE AgentCampaigns ---------------------------
(***************************************************************************)
(* Reward campaigns: services/agent.py and endpoints/admin_agent.py.       *)
(*                                                                         *)
(* Sessions claim rewards and grant them by hand, statement by statement,  *)
(* while the admin creates, changes and deletes campaigns.  Volumes are in *)
(* MB and prices in naira.  What a user did (a successful transaction or a *)
(* qualified referral) never becomes undone.  An operator may lock a       *)
(* wallet at any time.                                                     *)
(***************************************************************************)
EXTENDS Naturals, Sequences, FiniteSetsExt

CONSTANTS
    Users,
    Campaigns,
    Sessions,
    NoJob,      \* what an idle session does
    Gone,       \* a campaign that does not exist
    Deeds,      \* the deeds a user may do, but for their time
    Targets,    \* targets of campaigns
    MaxDeeds,   \* bound: deeds of a user
    MaxClock,   \* bound: time
    MaxGrants,  \* bound: manual rewards per user and campaign
    MaxAborts   \* bound: sessions that are rolled back

\* "other": funding, transfers, bills other than airtime, and rewards.
Kinds == {"data", "airtime", "other", "referral"}
Metrics == {"data", "airtime", "transactions", "referral"}

ASSUME DeedsAreDeeds ==
    Deeds \subseteq [kind : Kinds, naira : Nat, size : Nat]
ASSUME TargetsAreNat == Targets \subseteq Nat \ {0}
ASSUME BoundsAreNat ==
    {MaxDeeds, MaxClock, MaxGrants, MaxAborts} \subseteq Nat

ASSUME TimePasses == MaxClock >= 1

Time == 0..MaxClock

\* activated is NULL (0) while the campaign is inactive.
Campaign == [metric : Metrics, target : Targets, agentOnly : BOOLEAN,
             created : Time, activated : Time, active : BOOLEAN]

ASSUME GoneIsNoCampaign == Gone \notin Campaign

Job == [u : Users, c : Campaigns,
        pc : {"claiming", "checked", "qualified", "granting", "granted"},
        campaign : Campaign \cup {Gone}]

VARIABLES
    clock,
    role,      \* users.role
    locked,    \* wallets.is_locked
    deeds,     \* successful transactions and qualified referrals, with created_at
    campaign,  \* reward_campaigns
    reward,    \* agent_rewards: the row of a user and campaign
    claims,    \* wallet_ledger: credits of claims
    grants,    \* wallet_ledger: credits of manual rewards
    job,
    aborts     \* history: how many sessions were rolled back

money == <<reward, claims, grants>>
vars == <<clock, role, locked, deeds, campaign, reward, claims, grants,
          job, aborts>>

Init ==
    /\ clock = 1
    /\ role \in [Users -> {"USER", "RESELLER"}]
    /\ locked = [u \in Users |-> FALSE]
    /\ deeds = [u \in Users |-> <<>>]
    /\ campaign = [c \in Campaigns |-> Gone]
    /\ reward = [u \in Users |-> [c \in Campaigns |-> "none"]]
    /\ claims = [u \in Users |-> [c \in Campaigns |-> 0]]
    /\ grants = [u \in Users |-> [c \in Campaigns |-> 0]]
    /\ job = [s \in Sessions |-> NoJob]
    /\ aborts = 0

-----------------------------------------------------------------------------
(***************************************************************************)
(* Progress towards a target.  A sale of a plan that is no longer on sale  *)
(* has no size, and its volume is estimated from its price.                *)
(***************************************************************************)
ShownRate == 400  \* get_active_campaigns, naira per GB
ClaimRate == 250  \* claim_campaign_reward

Volume(deed, rate) ==
    IF deed.size > 0 THEN deed.size ELSE (deed.naira * 1024) \div rate

\* Volume campaigns count from their activation, referral campaigns from
\* their creation.
Since(camp) ==
    IF camp.metric = "referral" \/ camp.activated = 0 THEN camp.created
    ELSE camp.activated

Progress(u, camp, rate) ==
    LET Counting(kinds) == {i \in DOMAIN deeds[u] : /\ deeds[u][i].kind \in kinds
                                                    /\ deeds[u][i].at >= Since(camp)}
    IN  CASE camp.metric = "data" ->
               MapThenSumSet(LAMBDA i : Volume(deeds[u][i], rate), Counting({"data"}))
          [] camp.metric = "airtime" ->
               MapThenSumSet(LAMBDA i : deeds[u][i].naira, Counting({"airtime"}))
          [] camp.metric = "transactions" ->
               Cardinality(Counting({"data", "airtime", "other"}))
          [] camp.metric = "referral" -> Cardinality(Counting({"referral"}))

\* get_active_campaigns: what a user is shown as ready to be claimed.
Shown(u, c) ==
    /\ campaign[c] # Gone
    /\ campaign[c].active
    /\ role[u] = "USER" => ~campaign[c].agentOnly
    /\ Progress(u, campaign[c], ShownRate) >= campaign[c].target
    /\ reward[u][c] = "none"

-----------------------------------------------------------------------------
At(s, pc) == job[s] # NoJob /\ job[s].pc = pc

Begin(s, u, c, pc) ==
    /\ job[s] = NoJob
    /\ job' = [job EXCEPT ![s] = [u |-> u, c |-> c, pc |-> pc, campaign |-> Gone]]

Goto(s, pc) == job' = [job EXCEPT ![s].pc = pc]

End(s) == job' = [job EXCEPT ![s] = NoJob]

\* The row lock of a wallet, held until a commit or rollback.
WalletFree(u) ==
    \A s \in Sessions :
        job[s] # NoJob /\ job[s].u = u =>
            job[s].pc \notin {"claiming", "checked", "qualified"}

\* A reward is a successful transaction of its user, and counts as one.
RewardCounts(u) ==
    deeds' = [deeds EXCEPT ![u] =
        Append(@, [kind |-> "other", naira |-> 0, size |-> 0, at |-> clock])]

-----------------------------------------------------------------------------
(***************************************************************************)
(* claim_campaign_reward                                                   *)
(***************************************************************************)

\* SELECT ... FOR UPDATE of the user's wallet.
Claim(s, u, c) ==
    /\ WalletFree(u)
    /\ Begin(s, u, c, "claiming")
    /\ UNCHANGED <<clock, role, locked, deeds, campaign, money, aborts>>

\* The campaign must be active and the reward not yet credited.
CheckClaim(s) ==
    LET camp == campaign[job[s].c]
    IN  /\ At(s, "claiming")
        /\ IF camp # Gone /\ camp.active /\ reward[job[s].u][job[s].c] = "none"
           THEN job' = [job EXCEPT ![s].pc = "checked", ![s].campaign = camp]
           ELSE End(s)
        /\ UNCHANGED <<clock, role, locked, deeds, campaign, money, aborts>>

\* Mutant: the claim estimates volumes at 2500 naira per GB.
Qualify_At2500(s) ==
    /\ At(s, "checked")
    /\ IF Progress(job[s].u, job[s].campaign, 2500) >= job[s].campaign.target
       THEN Goto(s, "qualified") ELSE End(s)
    /\ UNCHANGED <<clock, role, locked, deeds, campaign, money, aborts>>

\* The progress is computed again, at the rate of the claim.
Qualify(s) ==
    /\ At(s, "checked")
    /\ IF Progress(job[s].u, job[s].campaign, ClaimRate) >= job[s].campaign.target
       THEN Goto(s, "qualified") ELSE End(s)
    /\ UNCHANGED <<clock, role, locked, deeds, campaign, money, aborts>>

\* Mutant: the credit is committed before the reward is recorded.
CommitClaim_CreditFirst(s) ==
    LET u == job[s].u
        c == job[s].c
    IN  /\ At(s, "qualified")
        /\ IF locked[u] THEN UNCHANGED <<claims, reward>>
           ELSE /\ claims' = [claims EXCEPT ![u][c] = @ + 1]
                /\ reward' = [reward EXCEPT ![u][c] = IF @ = "none" THEN "claimed" ELSE @]
        /\ End(s)
        /\ UNCHANGED <<clock, role, locked, deeds, campaign, grants, aborts>>

\* One commit for the credit, the transaction and the reward.  credit_wallet
\* refuses a locked wallet, and the claim answers 500; the commit fails if the
\* reward is there already (uq_agent_campaign) or the campaign is not.
CommitClaim(s) ==
    LET u == job[s].u
        c == job[s].c
    IN  /\ At(s, "qualified")
        /\ IF ~locked[u] /\ reward[u][c] = "none" /\ campaign[c] # Gone
           THEN /\ claims' = [claims EXCEPT ![u][c] = @ + 1]
                /\ reward' = [reward EXCEPT ![u][c] = "claimed"]
                /\ RewardCounts(u)
           ELSE UNCHANGED <<claims, reward, deeds>>
        /\ End(s)
        /\ UNCHANGED <<clock, role, locked, campaign, grants, aborts>>

-----------------------------------------------------------------------------
(***************************************************************************)
(* manual_reward_agent                                                     *)
(***************************************************************************)
Grant(s, u, c) ==
    /\ role[u] = "RESELLER" /\ campaign[c] # Gone
    /\ grants[u][c] < MaxGrants
    /\ Begin(s, u, c, "granting")
    /\ UNCHANGED <<clock, role, locked, deeds, campaign, money, aborts>>

\* credit_wallet commits the credit, or refuses a locked wallet.
PayGrant(s) ==
    LET u == job[s].u
        c == job[s].c
    IN  /\ At(s, "granting") /\ WalletFree(u) /\ grants[u][c] < MaxGrants
        /\ IF locked[u] THEN End(s) /\ UNCHANGED grants
           ELSE /\ grants' = [grants EXCEPT ![u][c] = @ + 1]
                /\ Goto(s, "granted")
        /\ UNCHANGED <<clock, role, locked, deeds, campaign, reward, claims, aborts>>

\* Then the reward is recorded, which fails with a 500 if there is one.
RecordGrant(s) ==
    LET u == job[s].u
        c == job[s].c
    IN  /\ At(s, "granted")
        /\ IF reward[u][c] = "none" /\ campaign[c] # Gone
           THEN reward' = [reward EXCEPT ![u][c] = "granted"] /\ RewardCounts(u)
           ELSE UNCHANGED <<reward, deeds>>
        /\ End(s)
        /\ UNCHANGED <<clock, role, locked, campaign, claims, grants, aborts>>

-----------------------------------------------------------------------------
(***************************************************************************)
(* The admin, and time.                                                    *)
(***************************************************************************)
\* create_campaign
Create(c) ==
    /\ campaign[c] = Gone /\ \A u \in Users : reward[u][c] = "none"
    /\ \E metric \in Metrics, target \in Targets, active, agentOnly \in BOOLEAN :
           campaign' = [campaign EXCEPT ![c] =
               [metric |-> metric, target |-> target, agentOnly |-> agentOnly,
                created |-> clock, activated |-> IF active THEN clock ELSE 0,
                active |-> active]]
    /\ UNCHANGED <<clock, role, locked, deeds, money, job, aborts>>

\* update_campaign: an activation sets the time anew, any other update that
\* names is_active as false clears it.
Update(c) ==
    /\ campaign[c] # Gone
    /\ \E active \in BOOLEAN, target \in Targets :
           campaign' = [campaign EXCEPT ![c].active = active, ![c].target = target,
               ![c].activated = IF ~active THEN 0
                                ELSE IF campaign[c].active THEN @ ELSE clock]
    /\ UNCHANGED <<clock, role, locked, deeds, money, job, aborts>>

\* delete_campaign: one with rewards is only deactivated.
Delete(c) ==
    /\ campaign[c] # Gone
    /\ campaign' = [campaign EXCEPT ![c] =
           IF \E u \in Users : reward[u][c] # "none"
           THEN [campaign[c] EXCEPT !.active = FALSE]
           ELSE Gone]
    /\ UNCHANGED <<clock, role, locked, deeds, money, job, aborts>>

\* A transaction begun at some earlier time succeeds, or a referral qualifies.
Do(u, deed, at) ==
    /\ Len(deeds[u]) < MaxDeeds
    /\ deeds' = [deeds EXCEPT ![u] = Append(@,
           [kind |-> deed.kind, naira |-> deed.naira, size |-> deed.size, at |-> at])]
    /\ UNCHANGED <<clock, role, locked, campaign, money, job, aborts>>

Tick ==
    /\ clock < MaxClock /\ clock' = clock + 1
    /\ UNCHANGED <<role, locked, deeds, campaign, money, job, aborts>>

\* Nothing in the repository sets is_locked: an operator does.
OperatorSetsLock(u) ==
    /\ WalletFree(u)
    /\ locked' = [locked EXCEPT ![u] = ~@]
    /\ UNCHANGED <<clock, role, deeds, campaign, money, job, aborts>>

\* A session is rolled back: an error, or the death of the process.
Abort(s) ==
    /\ job[s] # NoJob /\ aborts < MaxAborts
    /\ aborts' = aborts + 1
    /\ End(s)
    /\ UNCHANGED <<clock, role, locked, deeds, campaign, money>>

Advance(s) ==
    \/ CheckClaim(s) \/ Qualify(s) \/ CommitClaim(s)
    \/ PayGrant(s) \/ RecordGrant(s)

Next ==
    \/ \E s \in Sessions : Advance(s) \/ Abort(s)
    \/ \E s \in Sessions, u \in Users, c \in Campaigns : Claim(s, u, c) \/ Grant(s, u, c)
    \/ \E c \in Campaigns : Create(c) \/ Update(c) \/ Delete(c)
    \/ \E u \in Users, deed \in Deeds, at \in 1..clock : Do(u, deed, at)
    \/ \E u \in Users : OperatorSetsLock(u)
    \/ Tick

Spec == Init /\ [][Next]_vars

\* Sessions run on, and a user claims what is shown as ready.
Fairness ==
    /\ \A s \in Sessions : WF_vars(Advance(s))
    /\ \A u \in Users, c \in Campaigns :
           SF_vars(\E s \in Sessions : Shown(u, c) /\ Claim(s, u, c))

FairSpec == Spec /\ Fairness

-----------------------------------------------------------------------------
(***************************************************************************)
(* Properties                                                              *)
(***************************************************************************)
\* The values the variables take.
TypeOK ==
    /\ clock \in Time
    /\ role \in [Users -> {"USER", "RESELLER"}]
    /\ locked \in [Users -> BOOLEAN]
    /\ \A u \in Users : \A i \in DOMAIN deeds[u] :
           deeds[u][i] \in [kind : Kinds, naira : Nat, size : Nat, at : Time]
    /\ campaign \in [Campaigns -> Campaign \cup {Gone}]
    /\ reward \in [Users -> [Campaigns -> {"none", "claimed", "granted"}]]
    /\ claims \in [Users -> [Campaigns -> Nat]]
    /\ grants \in [Users -> [Campaigns -> Nat]]
    /\ job \in [Sessions -> Job \cup {NoJob}]
    /\ aborts \in Nat

\* However many claims, manual rewards and deletions overlap, a claim is paid
\* exactly when its row is the reward of the user for the campaign: never
\* twice, and never on top of a recorded manual reward.  A recorded manual
\* reward was paid, and the campaign of a reward is not deleted from under it
\* (claim_campaign_reward, manual_reward_agent, delete_campaign).
RewardsAreRecorded ==
    \A u \in Users, c \in Campaigns :
        /\ claims[u][c] = IF reward[u][c] = "claimed" THEN 1 ELSE 0
        /\ reward[u][c] = "granted" => grants[u][c] > 0
        /\ reward[u][c] # "none" => campaign[c] # Gone

\* What the campaigns page shows as ready can be claimed: it is paid, unless
\* the admin changes the campaign or an operator locks the wallet first (the
\* page goes on showing it then, and every claim answers 500).  The page and
\* the claim compute the progress each at its own rate.
ShownIsRewarded ==
    \A u \in Users, c \in Campaigns : Shown(u, c) ~> ~Shown(u, c) \/ locked[u]
=============================================================================
