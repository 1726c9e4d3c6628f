----------------------- MODULE AgentCampaigns_proofs -----------------------
(***************************************************************************)
(* CampaignInv is an inductive invariant of AgentCampaigns: every reward   *)
(* on record was paid, a claim once, and the claims of one user wait for   *)
(* one another.                                                            *)
(***************************************************************************)
EXTENDS AgentCampaigns, TLAPS

Entry == [kind : Kinds, naira : Nat, size : Nat, at : Time]

\* What a user did is a list of dated deeds.
DeedsAreDated == deeds \in [Users -> Seq(Entry)]

\* A session that is about to record a manual reward has paid it.
GrantsArePaid ==
    \A s \in Sessions : At(s, "granted") => grants[job[s].u][job[s].c] > 0

Claiming == {"claiming", "checked", "qualified"}

\* A session that holds the row lock of a user's wallet.
Holds(s, u) == job[s] # NoJob /\ job[s].u = u /\ job[s].pc \in Claiming

\* One claim of a user at a time.
ClaimsQueue == \A u \in Users : \A s, t \in Sessions : Holds(s, u) /\ Holds(t, u) => s = t

CampaignInv ==
    /\ TypeOK
    /\ DeedsAreDated
    /\ RewardsAreRecorded
    /\ GrantsArePaid
    /\ ClaimsQueue

-----------------------------------------------------------------------------
(***************************************************************************)
(* Jobs.                                                                   *)
(***************************************************************************)
LEMMA JobFields ==
    ASSUME TypeOK, NEW s \in Sessions, job[s] # NoJob
    PROVE  /\ job[s] \in Job /\ job[s].u \in Users /\ job[s].c \in Campaigns
           /\ job[s].campaign \in Campaign \cup {Gone}
<1>1. job[s] \in Job
  BY DEF TypeOK
<1>2. QED
  BY <1>1 DEF Job

\* What a session does to the jobs: it begins, goes on, or ends.
Works(s) ==
    /\ job' \in [Sessions -> Job \cup {NoJob}]
    /\ \A t \in Sessions \ {s} : job'[t] = job[t]

LEMMA BeginFields ==
    ASSUME TypeOK, NEW s \in Sessions, NEW u \in Users, NEW c \in Campaigns,
           NEW pc \in {"claiming", "granting"}, Begin(s, u, c, pc)
    PROVE  /\ Works(s) /\ job[s] = NoJob
           /\ job'[s] = [u |-> u, c |-> c, pc |-> pc, campaign |-> Gone]
           /\ job'[s].u = u /\ job'[s].pc = pc
<1> DEFINE j == [u |-> u, c |-> c, pc |-> pc, campaign |-> Gone]
<1>1. j \in Job /\ j.u = u /\ j.pc = pc
  BY DEF Job
<1>2. job' = [job EXCEPT ![s] = j] /\ job[s] = NoJob
  BY DEF Begin
<1> HIDE DEF j
<1>3. job'[s] = j /\ Works(s)
  BY <1>1, <1>2 DEF TypeOK, Works
<1>4. QED
  BY <1>1, <1>2, <1>3 DEF j

LEMMA GotoFields ==
    ASSUME TypeOK, NEW s \in Sessions, job[s] # NoJob,
           NEW pc \in {"qualified", "granted"}, Goto(s, pc)
    PROVE  /\ Works(s)
           /\ job'[s].u = job[s].u /\ job'[s].c = job[s].c /\ job'[s].pc = pc
<1> DEFINE j == [job[s] EXCEPT !.pc = pc]
<1>1. job[s] \in Job
  BY JobFields
<1>2. j \in Job /\ j.u = job[s].u /\ j.c = job[s].c /\ j.pc = pc
  BY <1>1 DEF Job
<1>3. job' = [job EXCEPT ![s] = j]
  BY DEF Goto
<1> HIDE DEF j
<1>4. job'[s] = j /\ Works(s)
  BY <1>2, <1>3 DEF TypeOK, Works
<1>5. QED
  BY <1>2, <1>4

LEMMA EndFields ==
    ASSUME TypeOK, NEW s \in Sessions, End(s)
    PROVE  Works(s) /\ job'[s] = NoJob
BY DEF TypeOK, End, Works

\* A step that moves one session, and lets it claim only where it claimed
\* before or where nobody does.
LEMMA QueueKept ==
    ASSUME ClaimsQueue, NEW s \in Sessions, Works(s),
           \A u \in Users : Holds(s, u)' => Holds(s, u) \/ WalletFree(u)
    PROVE  ClaimsQueue'
<1>1. ASSUME NEW u \in Users, NEW t \in Sessions \ {s}, Holds(t, u)', Holds(s, u)'
      PROVE  FALSE
  <2>1. Holds(t, u)
    BY <1>1 DEF Works, Holds
  <2>2. ~WalletFree(u)
    BY <2>1 DEF WalletFree, Holds, Claiming
  <2>3. QED
    BY <1>1, <2>1, <2>2 DEF ClaimsQueue
<1>2. ASSUME NEW u \in Users, NEW t \in Sessions \ {s}, Holds(t, u)'
      PROVE  Holds(t, u)
  BY <1>2 DEF Works, Holds
<1>3. QED
  BY <1>1, <1>2 DEF ClaimsQueue

-----------------------------------------------------------------------------
(***************************************************************************)
(* Each step keeps CampaignInv.                                            *)
(***************************************************************************)

\* A step that moves one session and no money, in a world that stays.
LEMMA MoveKeeps ==
    ASSUME CampaignInv, NEW s \in Sessions, Works(s),
           At(s, "granted")' => FALSE,
           \A u \in Users : Holds(s, u)' => Holds(s, u) \/ WalletFree(u),
           UNCHANGED <<clock, role, locked, deeds, campaign, money>>, aborts' \in Nat
    PROVE  CampaignInv'
<1>1. UNCHANGED <<clock, role, locked, deeds, campaign, reward, claims, grants>>
  BY DEF money
<1>2. TypeOK' /\ DeedsAreDated' /\ RewardsAreRecorded'
  BY <1>1 DEF CampaignInv, TypeOK, Works, DeedsAreDated, RewardsAreRecorded
<1>3. GrantsArePaid'
  BY <1>1 DEF CampaignInv, GrantsArePaid, At, Works
<1>4. ClaimsQueue'
  BY QueueKept DEF CampaignInv
<1>5. QED
  BY <1>2, <1>3, <1>4 DEF CampaignInv

LEMMA BeginKeeps ==
    ASSUME CampaignInv, NEW s \in Sessions, NEW u \in Users, NEW c \in Campaigns,
           Claim(s, u, c) \/ Grant(s, u, c)
    PROVE  CampaignInv'
<1>1. \/ Begin(s, u, c, "claiming") /\ WalletFree(u)
      \/ Begin(s, u, c, "granting")
  BY DEF Claim, Grant
<1>2. Works(s) /\ job'[s].u = u /\ job'[s].pc \in {"claiming", "granting"}
  BY <1>1, BeginFields DEF CampaignInv
<1>3. job'[s].pc = "claiming" => WalletFree(u)
  BY <1>1, BeginFields DEF CampaignInv
<1>4. UNCHANGED <<clock, role, locked, deeds, campaign, money>> /\ UNCHANGED aborts
  BY DEF Claim, Grant
<1>5. ~At(s, "granted")' /\ \A v \in Users : Holds(s, v)' => WalletFree(v)
  BY <1>2, <1>3 DEF At, Holds, Claiming
<1>6. aborts' \in Nat
  BY <1>4 DEF CampaignInv, TypeOK
<1>7. QED
  BY <1>2, <1>4, <1>5, <1>6, MoveKeeps

LEMMA EndKeeps ==
    ASSUME CampaignInv, NEW s \in Sessions, End(s),
           UNCHANGED <<clock, role, locked, deeds, campaign, money>>, aborts' \in Nat
    PROVE  CampaignInv'
<1>1. Works(s) /\ job'[s] = NoJob
  BY EndFields DEF CampaignInv
<1>2. ~At(s, "granted")' /\ \A v \in Users : ~Holds(s, v)'
  BY <1>1 DEF At, Holds
<1>3. QED
  BY <1>1, <1>2, MoveKeeps

LEMMA CheckClaimKeeps ==
    ASSUME CampaignInv, NEW s \in Sessions, CheckClaim(s)
    PROVE  CampaignInv'
<1> DEFINE camp == campaign[job[s].c]
           open == camp # Gone /\ camp.active /\ reward[job[s].u][job[s].c] = "none"
           j == [job[s] EXCEPT !.pc = "checked", !.campaign = camp]
<1>1. /\ TypeOK /\ job[s] # NoJob /\ job[s].pc = "claiming"
      /\ UNCHANGED <<clock, role, locked, deeds, campaign, money>> /\ UNCHANGED aborts
  BY DEF CheckClaim, At, CampaignInv
<1>2. aborts' \in Nat
  BY <1>1 DEF TypeOK
<1>3. CASE open
  <2>1. job' = [job EXCEPT ![s] = j]
    BY <1>3 DEF CheckClaim
  <2>2. job[s] \in Job /\ camp \in Campaign \cup {Gone}
    BY <1>1, JobFields DEF TypeOK
  <2>3. j \in Job /\ j.u = job[s].u /\ j.pc = "checked"
    BY <2>2 DEF Job
  <2> HIDE DEF j
  <2>4. Works(s) /\ job'[s] = j
    BY <1>1, <2>1, <2>3 DEF TypeOK, Works
  <2>5. ~At(s, "granted")' /\ \A v \in Users : Holds(s, v)' => Holds(s, v)
    BY <1>1, <2>3, <2>4 DEF At, Holds, Claiming
  <2>6. QED
    BY <1>1, <1>2, <2>4, <2>5, MoveKeeps
<1>4. CASE ~open
  <2>1. End(s)
    BY <1>4 DEF CheckClaim
  <2>2. QED
    BY <1>1, <1>2, <2>1, EndKeeps
<1>5. QED
  BY <1>3, <1>4

LEMMA QualifyKeeps ==
    ASSUME CampaignInv, NEW s \in Sessions, Qualify(s)
    PROVE  CampaignInv'
<1>1. /\ TypeOK /\ job[s] # NoJob /\ job[s].pc = "checked"
      /\ UNCHANGED <<clock, role, locked, deeds, campaign, money>> /\ UNCHANGED aborts
      /\ Goto(s, "qualified") \/ End(s)
  BY DEF Qualify, At, CampaignInv
<1>2. aborts' \in Nat
  BY <1>1 DEF TypeOK
<1>3. CASE Goto(s, "qualified")
  <2>1. Works(s) /\ job'[s].u = job[s].u /\ job'[s].pc = "qualified"
    BY <1>1, <1>3, GotoFields
  <2>2. ~At(s, "granted")' /\ \A v \in Users : Holds(s, v)' => Holds(s, v)
    BY <1>1, <2>1 DEF At, Holds, Claiming
  <2>3. QED
    BY <1>1, <1>2, <2>1, <2>2, MoveKeeps
<1>4. QED
  BY <1>1, <1>2, <1>3, EndKeeps

\* The deeds of a user with one more.
LEMMA DeedsGrow ==
    ASSUME CampaignInv, NEW u \in Users, NEW e \in Entry,
           deeds' = [deeds EXCEPT ![u] = Append(deeds[u], e)]
    PROVE  /\ DeedsAreDated'
           /\ \A v \in Users : \A i \in DOMAIN deeds'[v] :
                  deeds'[v][i] \in [kind : Kinds, naira : Nat, size : Nat, at : Time]
<1>1. deeds[u] \in Seq(Entry)
  BY DEF CampaignInv, DeedsAreDated
<1>2. Append(deeds[u], e) \in Seq(Entry)
  BY <1>1
<1>3. DeedsAreDated'
  BY <1>2 DEF CampaignInv, DeedsAreDated
<1>4. \A v \in Users : \A i \in DOMAIN deeds'[v] : deeds'[v][i] \in Entry
  BY <1>3 DEF DeedsAreDated
<1>5. QED
  BY <1>3, <1>4 DEF Entry

LEMMA RewardCountsFields ==
    ASSUME CampaignInv, NEW u \in Users, RewardCounts(u)
    PROVE  /\ DeedsAreDated'
           /\ \A v \in Users : \A i \in DOMAIN deeds'[v] :
                  deeds'[v][i] \in [kind : Kinds, naira : Nat, size : Nat, at : Time]
<1> DEFINE e == [kind |-> "other", naira |-> 0, size |-> 0, at |-> clock]
<1>1. e \in Entry
  BY DEF Entry, Kinds, CampaignInv, TypeOK
<1>2. deeds' = [deeds EXCEPT ![u] = Append(deeds[u], e)]
  BY DEF RewardCounts
<1> HIDE DEF e
<1>3. QED
  BY <1>1, <1>2, DeedsGrow

LEMMA CommitClaimKeeps ==
    ASSUME CampaignInv, NEW s \in Sessions, CommitClaim(s)
    PROVE  CampaignInv'
<1>1. /\ TypeOK /\ job[s] # NoJob /\ End(s)
      /\ UNCHANGED <<clock, role, locked, campaign, grants, aborts>>
  BY DEF CommitClaim, At, CampaignInv
<1>2. PICK u \in Users, c \in Campaigns : job[s].u = u /\ job[s].c = c
  BY <1>1, JobFields
<1>3. Works(s) /\ job'[s] = NoJob
  BY <1>1, EndFields
<1>4. CASE ~locked[u] /\ reward[u][c] = "none" /\ campaign[c] # Gone
  <2>1. claims' = [claims EXCEPT ![u][c] = claims[u][c] + 1]
    BY <1>2, <1>4 DEF CommitClaim
  <2>2. reward' = [reward EXCEPT ![u][c] = "claimed"]
    BY <1>2, <1>4 DEF CommitClaim
  <2>3. claims[u][c] = 0
    BY <1>4 DEF CampaignInv, RewardsAreRecorded
  <2>4. /\ reward' \in [Users -> [Campaigns -> {"none", "claimed", "granted"}]]
        /\ reward'[u][c] = "claimed"
        /\ \A v \in Users, d \in Campaigns :
              ~(v = u /\ d = c) => reward'[v][d] = reward[v][d]
    BY <1>1, <2>2 DEF TypeOK
  <2>5. /\ claims' \in [Users -> [Campaigns -> Nat]]
        /\ claims'[u][c] = 1
        /\ \A v \in Users, d \in Campaigns :
              ~(v = u /\ d = c) => claims'[v][d] = claims[v][d]
    <3>1. claims' = [claims EXCEPT ![u][c] = 1]
      BY <2>1, <2>3
    <3>2. QED
      BY <1>1, <3>1 DEF TypeOK
  <2>6. TypeOK' /\ DeedsAreDated'
    <3>1. RewardCounts(u)
      BY <1>2, <1>4 DEF CommitClaim
    <3>2. QED
      BY <1>1, <1>3, <2>4, <2>5, <3>1, RewardCountsFields DEF TypeOK, Works
  <2>7. RewardsAreRecorded'
    BY <1>1, <1>4, <2>4, <2>5 DEF CampaignInv, RewardsAreRecorded
  <2>8. GrantsArePaid'
    BY <1>1, <1>3 DEF CampaignInv, GrantsArePaid, At, Works
  <2>9. ClaimsQueue'
    BY <1>3, QueueKept DEF CampaignInv, Holds
  <2>10. QED
    BY <2>6, <2>7, <2>8, <2>9 DEF CampaignInv
<1>5. CASE ~(~locked[u] /\ reward[u][c] = "none" /\ campaign[c] # Gone)
  <2>1. UNCHANGED <<claims, reward, deeds>>
    BY <1>2, <1>5 DEF CommitClaim
  <2>2. UNCHANGED <<clock, role, locked, deeds, campaign, money>> /\ aborts' \in Nat
    BY <1>1, <2>1 DEF money, TypeOK
  <2>3. QED
    BY <1>1, <2>2, EndKeeps
<1>6. QED
  BY <1>4, <1>5

LEMMA PaidGrantKeeps ==
    ASSUME CampaignInv, NEW s \in Sessions, PayGrant(s), ~locked[job[s].u]
    PROVE  CampaignInv'
<1>1. /\ TypeOK /\ job[s] # NoJob /\ job[s].pc = "granting" /\ Goto(s, "granted")
      /\ UNCHANGED <<clock, role, locked, deeds, campaign, reward, claims, aborts>>
  BY DEF PayGrant, At, CampaignInv
<1>2. PICK u \in Users, c \in Campaigns : job[s].u = u /\ job[s].c = c
  BY <1>1, JobFields
<1>3. Works(s) /\ job'[s].u = u /\ job'[s].c = c /\ job'[s].pc = "granted"
  BY <1>1, <1>2, GotoFields
<1>4. grants' = [grants EXCEPT ![u][c] = grants[u][c] + 1] /\ grants[u][c] \in Nat
  BY <1>1, <1>2 DEF PayGrant, TypeOK
<1>5. /\ grants' \in [Users -> [Campaigns -> Nat]] /\ grants'[u][c] = grants[u][c] + 1
      /\ \A v \in Users, d \in Campaigns :
            ~(v = u /\ d = c) => grants'[v][d] = grants[v][d]
  BY <1>1, <1>4 DEF TypeOK
<1>6. \A v \in Users, d \in Campaigns : grants[v][d] > 0 => grants'[v][d] > 0
  BY <1>4, <1>5
<1>7. TypeOK' /\ DeedsAreDated'
  BY <1>1, <1>3, <1>5 DEF TypeOK, Works, CampaignInv, DeedsAreDated
<1>8. RewardsAreRecorded'
  BY <1>1, <1>6 DEF CampaignInv, RewardsAreRecorded
<1>9. GrantsArePaid'
  <2> SUFFICES ASSUME NEW t \in Sessions, job'[t] # NoJob, job'[t].pc = "granted"
               PROVE  grants'[job'[t].u][job'[t].c] > 0
    BY DEF GrantsArePaid, At
  <2>1. CASE t = s
    BY <1>3, <1>4, <1>5, <2>1
  <2>2. CASE t # s
    <3>1. job'[t] = job[t] /\ job[t] # NoJob /\ job[t].pc = "granted"
      BY <1>3, <2>2 DEF Works
    <3>2. job[t].u \in Users /\ job[t].c \in Campaigns
      BY <1>1, <3>1, JobFields
    <3>3. grants[job[t].u][job[t].c] > 0
      BY <3>1 DEF CampaignInv, GrantsArePaid, At
    <3>4. QED
      BY <1>6, <3>1, <3>2, <3>3
  <2>3. QED
    BY <2>1, <2>2
<1>10. ClaimsQueue'
  BY <1>3, QueueKept DEF CampaignInv, Holds, Claiming
<1>11. QED
  BY <1>7, <1>8, <1>9, <1>10 DEF CampaignInv

\* A locked wallet is paid nothing.
LEMMA PayGrantKeeps ==
    ASSUME CampaignInv, NEW s \in Sessions, PayGrant(s)
    PROVE  CampaignInv'
<1>1. CASE ~locked[job[s].u]
  BY <1>1, PaidGrantKeeps
<1>2. CASE locked[job[s].u]
  <2>1. End(s) /\ UNCHANGED <<clock, role, locked, deeds, campaign, money>> /\ aborts' \in Nat
    BY <1>2 DEF PayGrant, money, CampaignInv, TypeOK
  <2>2. QED
    BY <2>1, EndKeeps
<1>3. QED
  BY <1>1, <1>2

LEMMA RecordGrantKeeps ==
    ASSUME CampaignInv, NEW s \in Sessions, RecordGrant(s)
    PROVE  CampaignInv'
<1>1. /\ TypeOK /\ job[s] # NoJob /\ job[s].pc = "granted" /\ End(s)
      /\ UNCHANGED <<clock, role, locked, campaign, claims, grants, aborts>>
  BY DEF RecordGrant, At, CampaignInv
<1>2. PICK u \in Users, c \in Campaigns : job[s].u = u /\ job[s].c = c
  BY <1>1, JobFields
<1>3. Works(s) /\ job'[s] = NoJob
  BY <1>1, EndFields
<1>4. grants[u][c] > 0
  BY <1>1, <1>2 DEF CampaignInv, GrantsArePaid, At
<1>5. CASE reward[u][c] = "none" /\ campaign[c] # Gone
  <2>1. reward' = [reward EXCEPT ![u][c] = "granted"]
    BY <1>2, <1>5 DEF RecordGrant
  <2>2. /\ reward' \in [Users -> [Campaigns -> {"none", "claimed", "granted"}]]
        /\ reward'[u][c] = "granted"
        /\ \A v \in Users, d \in Campaigns :
              ~(v = u /\ d = c) => reward'[v][d] = reward[v][d]
    BY <1>1, <2>1 DEF TypeOK
  <2>3. TypeOK' /\ DeedsAreDated'
    <3>1. RewardCounts(u)
      BY <1>2, <1>5 DEF RecordGrant
    <3>2. QED
      BY <1>1, <1>3, <2>2, <3>1, RewardCountsFields DEF TypeOK, Works
  <2>4. RewardsAreRecorded'
    BY <1>1, <1>4, <1>5, <2>2 DEF CampaignInv, RewardsAreRecorded
  <2>5. GrantsArePaid'
    BY <1>1, <1>3 DEF CampaignInv, GrantsArePaid, At, Works
  <2>6. ClaimsQueue'
    BY <1>3, QueueKept DEF CampaignInv, Holds
  <2>7. QED
    BY <2>3, <2>4, <2>5, <2>6 DEF CampaignInv
<1>6. CASE ~(reward[u][c] = "none" /\ campaign[c] # Gone)
  <2>1. UNCHANGED <<reward, deeds>>
    BY <1>2, <1>6 DEF RecordGrant
  <2>2. UNCHANGED <<clock, role, locked, deeds, campaign, money>> /\ aborts' \in Nat
    BY <1>1, <2>1 DEF money, TypeOK
  <2>3. QED
    BY <1>1, <2>2, EndKeeps
<1>7. QED
  BY <1>5, <1>6

\* The admin changes one campaign, and takes none away that has rewards.
LEMMA CampaignKeeps ==
    ASSUME CampaignInv, NEW c \in Campaigns, NEW camp \in Campaign \cup {Gone},
           camp = Gone => \A u \in Users : reward[u][c] = "none",
           campaign' = [campaign EXCEPT ![c] = camp],
           UNCHANGED <<clock, role, locked, deeds, money, job, aborts>>
    PROVE  CampaignInv'
<1>1. UNCHANGED <<clock, role, locked, deeds, reward, claims, grants, job, aborts>>
  BY DEF money
<1>2. /\ campaign' \in [Campaigns -> Campaign \cup {Gone}] /\ campaign'[c] = camp
      /\ \A d \in Campaigns \ {c} : campaign'[d] = campaign[d]
  BY DEF CampaignInv, TypeOK
<1>3. TypeOK' /\ DeedsAreDated'
  BY <1>1, <1>2 DEF CampaignInv, TypeOK, DeedsAreDated
<1>4. RewardsAreRecorded'
  BY <1>1, <1>2 DEF CampaignInv, RewardsAreRecorded
<1>5. GrantsArePaid' /\ ClaimsQueue'
  BY <1>1 DEF CampaignInv, GrantsArePaid, At, ClaimsQueue, Holds
<1>6. QED
  BY <1>3, <1>4, <1>5 DEF CampaignInv

LEMMA AdminKeeps ==
    ASSUME CampaignInv, NEW c \in Campaigns, Create(c) \/ Update(c) \/ Delete(c)
    PROVE  CampaignInv'
<1>1. /\ UNCHANGED <<clock, role, locked, deeds, money, job, aborts>>
      /\ clock \in Time /\ 0 \in Time /\ campaign[c] \in Campaign \cup {Gone}
  <2>1. UNCHANGED <<clock, role, locked, deeds, money, job, aborts>>
    BY DEF Create, Update, Delete
  <2>2. clock \in Time /\ campaign[c] \in Campaign \cup {Gone}
    BY DEF CampaignInv, TypeOK
  <2>3. 0 \in Time
    BY BoundsAreNat DEF Time
  <2>4. QED
    BY <2>1, <2>2, <2>3
<1>2. CASE Create(c)
  <2>1. PICK metric \in Metrics, target \in Targets, active \in BOOLEAN, agentOnly \in BOOLEAN :
            campaign' = [campaign EXCEPT ![c] =
               [metric |-> metric, target |-> target, agentOnly |-> agentOnly,
                created |-> clock, activated |-> IF active THEN clock ELSE 0,
                active |-> active]]
    BY <1>2 DEF Create
  <2> DEFINE camp == [metric |-> metric, target |-> target, agentOnly |-> agentOnly,
                      created |-> clock, activated |-> IF active THEN clock ELSE 0,
                      active |-> active]
  <2>2. camp \in Campaign
    BY <1>1 DEF Campaign
  <2>3. campaign' = [campaign EXCEPT ![c] = camp]
    BY <2>1
  <2> HIDE DEF camp
  <2>4. QED
    BY <1>1, <2>2, <2>3, CampaignKeeps, GoneIsNoCampaign
<1>3. CASE Update(c)
  <2>1. PICK active \in BOOLEAN, target \in Targets :
            campaign' = [campaign EXCEPT ![c].active = active, ![c].target = target,
               ![c].activated = IF ~active THEN 0
                                ELSE IF campaign[c].active THEN @ ELSE clock]
    BY <1>3 DEF Update
  <2> DEFINE camp == [campaign[c] EXCEPT
                         !.active = active, !.target = target,
                         !.activated = IF ~active THEN 0
                                       ELSE IF campaign[c].active
                                            THEN campaign[c].activated ELSE clock]
  <2>2. campaign[c] \in Campaign
    BY <1>1, <1>3 DEF Update
  <2>3. camp \in Campaign
    BY <1>1, <2>2 DEF Campaign
  <2>4. campaign' = [campaign EXCEPT ![c] = camp]
    BY <2>1, <2>2 DEF Campaign
  <2> HIDE DEF camp
  <2>5. QED
    BY <1>1, <2>3, <2>4, CampaignKeeps, GoneIsNoCampaign
<1>4. CASE Delete(c)
  <2> DEFINE camp == IF \E u \in Users : reward[u][c] # "none"
                     THEN [campaign[c] EXCEPT !.active = FALSE] ELSE Gone
  <2>1. campaign[c] \in Campaign
    BY <1>1, <1>4 DEF Delete
  <2>2. [campaign[c] EXCEPT !.active = FALSE] \in Campaign
    BY <2>1 DEF Campaign
  <2>3. camp \in Campaign \cup {Gone} /\ (camp = Gone => \A u \in Users : reward[u][c] = "none")
    BY <2>2, GoneIsNoCampaign
  <2>4. campaign' = [campaign EXCEPT ![c] = camp]
    BY <1>4 DEF Delete
  <2> HIDE DEF camp
  <2>5. QED
    BY <1>1, <2>3, <2>4, CampaignKeeps
<1>5. QED
  BY <1>2, <1>3, <1>4

LEMMA DoKeeps ==
    ASSUME CampaignInv, NEW u \in Users, NEW deed \in Deeds, NEW at \in 1..clock,
           Do(u, deed, at)
    PROVE  CampaignInv'
<1> DEFINE e == [kind |-> deed.kind, naira |-> deed.naira, size |-> deed.size, at |-> at]
<1>1. /\ UNCHANGED <<clock, role, locked, campaign, reward, claims, grants, job, aborts>>
      /\ deeds' = [deeds EXCEPT ![u] = Append(deeds[u], e)]
  BY DEF Do, money
<1>2. at \in Time
  BY BoundsAreNat DEF CampaignInv, TypeOK, Time
<1>3. e \in Entry
  BY <1>2, DeedsAreDeeds DEF Entry
<1> HIDE DEF e
<1>4. /\ DeedsAreDated'
      /\ \A v \in Users : \A i \in DOMAIN deeds'[v] :
             deeds'[v][i] \in [kind : Kinds, naira : Nat, size : Nat, at : Time]
  BY <1>1, <1>3, DeedsGrow
<1>5. TypeOK'
  BY <1>1, <1>4 DEF CampaignInv, TypeOK
<1>6. RewardsAreRecorded' /\ GrantsArePaid' /\ ClaimsQueue'
  BY <1>1 DEF CampaignInv, RewardsAreRecorded, GrantsArePaid, At, ClaimsQueue, Holds
<1>7. QED
  BY <1>4, <1>5, <1>6 DEF CampaignInv

\* An operator locks or unlocks a wallet.
LEMMA LockKeeps ==
    ASSUME CampaignInv, NEW u \in Users, OperatorSetsLock(u)
    PROVE  CampaignInv'
<1>1. /\ UNCHANGED <<clock, role, deeds, campaign, reward, claims, grants, job, aborts>>
      /\ locked' = [locked EXCEPT ![u] = ~locked[u]]
  BY DEF OperatorSetsLock, money
<1>2. locked' \in [Users -> BOOLEAN]
  BY <1>1 DEF CampaignInv, TypeOK
<1>3. QED
  BY <1>1, <1>2 DEF CampaignInv, TypeOK, DeedsAreDated, RewardsAreRecorded, GrantsArePaid, At,
                    ClaimsQueue, Holds

LEMMA TickKeeps ==
    ASSUME CampaignInv, Tick \/ UNCHANGED vars
    PROVE  CampaignInv'
<1>1. /\ UNCHANGED <<role, locked, deeds, campaign, reward, claims, grants, job, aborts>>
      /\ clock' \in Time
  BY BoundsAreNat DEF Tick, vars, money, CampaignInv, TypeOK, Time
<1>2. QED
  BY <1>1 DEF CampaignInv, TypeOK, DeedsAreDated, RewardsAreRecorded, GrantsArePaid, At,
              ClaimsQueue, Holds

LEMMA CampaignInit == Init => CampaignInv
<1> SUFFICES ASSUME Init PROVE CampaignInv
  OBVIOUS
<1>1. deeds = [u \in Users |-> <<>>] /\ clock \in Time
  BY BoundsAreNat, TimePasses DEF Init, Time
<1>2. DeedsAreDated
  BY <1>1 DEF DeedsAreDated
<1>3. TypeOK
  BY <1>1 DEF Init, TypeOK
<1>4. RewardsAreRecorded /\ GrantsArePaid /\ ClaimsQueue
  BY DEF Init, RewardsAreRecorded, GrantsArePaid, At, ClaimsQueue, Holds
<1>5. QED
  BY <1>2, <1>3, <1>4 DEF CampaignInv

LEMMA CampaignStep == CampaignInv /\ [Next]_vars => CampaignInv'
<1> SUFFICES ASSUME CampaignInv, [Next]_vars PROVE CampaignInv'
  OBVIOUS
<1>1. CASE \E s \in Sessions : Advance(s)
  BY <1>1, CheckClaimKeeps, QualifyKeeps, CommitClaimKeeps, PayGrantKeeps, RecordGrantKeeps
     DEF Advance
<1>2. CASE \E s \in Sessions : Abort(s)
  <2>1. PICK s \in Sessions : Abort(s)
    BY <1>2
  <2>2. /\ End(s) /\ UNCHANGED <<clock, role, locked, deeds, campaign, money>> /\ aborts' \in Nat
    BY <2>1 DEF Abort, CampaignInv, TypeOK
  <2>3. QED
    BY <2>2, EndKeeps
<1>3. CASE \E s \in Sessions, u \in Users, c \in Campaigns : Claim(s, u, c) \/ Grant(s, u, c)
  BY <1>3, BeginKeeps
<1>4. CASE \E c \in Campaigns : Create(c) \/ Update(c) \/ Delete(c)
  BY <1>4, AdminKeeps
<1>5. CASE \E u \in Users, deed \in Deeds, at \in 1..clock : Do(u, deed, at)
  BY <1>5, DoKeeps
<1>6. CASE Tick \/ UNCHANGED vars
  BY <1>6, TickKeeps
<1>7. CASE \E u \in Users : OperatorSetsLock(u)
  BY <1>7, LockKeeps
<1>8. QED
  BY <1>1, <1>2, <1>3, <1>4, <1>5, <1>6, <1>7 DEF Next

\* Every variable of the campaigns keeps to its type.
THEOREM CampaignTypes == Spec => []TypeOK
<1>1. CampaignInv => TypeOK
  BY DEF CampaignInv
<1>2. QED
  BY <1>1, CampaignInit, CampaignStep, PTL DEF Spec

\* Claims, manual rewards and deletions may overlap as they like: a claim is
\* paid exactly when it is the reward on record, and a recorded manual reward
\* was paid; a second manual reward may be paid and not recorded
\* (claim_campaign_reward, manual_reward_agent, delete_campaign).
THEOREM RewardsAreKept == Spec => []RewardsAreRecorded
<1>1. CampaignInv => RewardsAreRecorded
  BY DEF CampaignInv
<1>2. QED
  BY <1>1, CampaignInit, CampaignStep, PTL DEF Spec

\* The row lock of the wallet lets one claim of a user run at a time
\* (SELECT ... FOR UPDATE in claim_campaign_reward).
THEOREM OneClaimAtATime == Spec => []ClaimsQueue
<1>1. CampaignInv => ClaimsQueue
  BY DEF CampaignInv
<1>2. QED
  BY <1>1, CampaignInit, CampaignStep, PTL DEF Spec

\* The claim estimates the volume of a sale no lower than the page does, so
\* that no sale counts for less when its reward is claimed.
THEOREM ClaimsCountNoLess ==
    ASSUME NEW deed \in Entry
    PROVE  Volume(deed, ShownRate) <= Volume(deed, ClaimRate)
<1>1. deed.size \in Nat /\ deed.naira * 1024 \in Nat
  BY DEF Entry
<1>2. ASSUME NEW n \in Nat PROVE n \div 400 <= n \div 250
  OBVIOUS
<1>3. QED
  BY <1>1, <1>2 DEF Volume, ShownRate, ClaimRate
=============================================================================
