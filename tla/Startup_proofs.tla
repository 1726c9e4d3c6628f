--------------------------- MODULE Startup_proofs ---------------------------
(***************************************************************************)
(* An instance that met no outage has seen to every item it has passed:    *)
(* StartInv, an inductive invariant of Startup, and what follows from it.  *)
(***************************************************************************)
EXTENDS Startup, TLAPS

\* An item that an instance without outage has passed is not missing any more.
Passed ==
    \A i \in spared, m \in DOMAIN Sequence :
        m < step[i] /\ Sequence[m] \in Items => Sequence[m] \notin missing

StartTypeOK ==
    /\ auto \in BOOLEAN /\ up \in BOOLEAN /\ pending \in BOOLEAN
    /\ tables \in SUBSET Tables
    /\ missing \in SUBSET Items
    /\ admin \in {"absent", "user", "admin"}
    /\ step \in [Instances -> 0..Len(Sequence) + 1]
    /\ saw \in SUBSET Instances
    /\ spared \in SUBSET Instances

\* A local instance that has passed create_all without outage made the tables.
Created == \A i \in spared : auto /\ step[i] > 1 => tables = Tables

StartInv == StartTypeOK /\ Passed /\ Created

-----------------------------------------------------------------------------
(***************************************************************************)
(* The two sequences.                                                      *)
(***************************************************************************)
LEMMA Lengths ==
    /\ Len(Production) = 18 /\ DOMAIN Production = 1..18
    /\ Len(Local) = 17 /\ DOMAIN Local = 1..17
BY DEF Production, Local

LEMMA SequenceLength ==
    /\ Len(Sequence) \in Nat /\ DOMAIN Sequence = 1..Len(Sequence)
BY Lengths DEF Sequence, Steps

LEMMA ItemsAre ==
    Items = {"phone", "pin", "upgrade_seen", "kyc", "developer", "webhook", "image",
             "recipient", "tx_provider", "plan_provider", "promo", "fallback",
             "data_type", "text_lengths", "activated_at", "agent_only", "button",
             "referral", "push_token", "list_prices"}
BY DEF Items, Tables, Of

\* Every item that an _ensure function adds has its step, but for two in a
\* local start.
LEMMA EveryItemHasAStep ==
    ASSUME NEW item \in Items \ MigrationOnly
    PROVE  /\ \E m \in 1..18 : Production[m] = item
           /\ item \notin ProductionOnly => \E m \in 1..17 : Local[m] = item
<1>1. \E m \in 1..18 : Production[m] = item
  <2>1. /\ Production[2] = "phone" /\ Production[3] = "pin" /\ Production[4] = "recipient"
        /\ Production[5] = "plan_provider" /\ Production[6] = "promo"
        /\ Production[7] = "fallback" /\ Production[8] = "data_type"
        /\ Production[9] = "text_lengths" /\ Production[10] = "tx_provider"
        /\ Production[11] = "activated_at" /\ Production[12] = "agent_only"
        /\ Production[13] = "upgrade_seen" /\ Production[14] = "kyc"
        /\ Production[15] = "button" /\ Production[16] = "developer"
        /\ Production[17] = "webhook" /\ Production[18] = "image"
    BY DEF Production
  <2>2. QED
    BY <2>1, ItemsAre DEF MigrationOnly
<1>2. item \notin ProductionOnly => \E m \in 1..17 : Local[m] = item
  <2>1. /\ Local[3] = "phone" /\ Local[4] = "pin" /\ Local[5] = "recipient"
        /\ Local[6] = "plan_provider" /\ Local[7] = "promo" /\ Local[8] = "fallback"
        /\ Local[9] = "data_type" /\ Local[10] = "text_lengths" /\ Local[11] = "tx_provider"
        /\ Local[12] = "agent_only" /\ Local[13] = "kyc" /\ Local[14] = "button"
        /\ Local[15] = "developer" /\ Local[16] = "webhook" /\ Local[17] = "image"
    BY DEF Local
  <2>2. QED
    BY <2>1, ItemsAre DEF ProductionOnly, MigrationOnly
<1>3. QED
  BY <1>1, <1>2

-----------------------------------------------------------------------------
(***************************************************************************)
(* Steps of an instance.                                                   *)
(***************************************************************************)
LEMMA ProceedFields ==
    ASSUME StartInv, NEW i \in Instances, Starting(i), Proceed(i), auto' = auto
    PROVE  /\ step' \in [Instances -> 0..Len(Sequence) + 1]
           /\ step'[i] = step[i] + 1 /\ step[i] \in Nat
           /\ \A k \in Instances \ {i} : step'[k] = step[k]
           /\ saw' \in SUBSET Instances /\ spared' \subseteq spared
           /\ i \in spared' => up
<1>1. step[i] \in 1..Len(Sequence) /\ Len(Sequence) \in Nat
  BY SequenceLength DEF Starting
<1>2. step[i] + 1 \in 0..Len(Sequence) + 1
  BY <1>1
<1>3. step' = [step EXCEPT ![i] = step[i] + 1]
  BY DEF Proceed
<1>4. QED
  BY <1>1, <1>2, <1>3 DEF StartInv, StartTypeOK, Proceed

\* An instance goes on, having seen to the item of the step if it can.
LEMMA ProceedKeeps ==
    ASSUME StartInv, NEW i \in Instances, NEW item, At(i, item), Proceed(i),
           auto' = auto, up' = up, pending' = pending,
           tables' \in SUBSET Tables, tables \subseteq tables', missing' \subseteq missing,
           up /\ item = "create_all" => tables' = Tables,
           admin' \in {"absent", "user", "admin"},
           up /\ item \in Items => item \notin missing'
    PROVE  StartInv'
<1>1. Starting(i) /\ Sequence[step[i]] = item /\ Sequence' = Sequence
  BY DEF At, Sequence, Steps
<1>2. /\ step' \in [Instances -> 0..Len(Sequence) + 1]
      /\ step'[i] = step[i] + 1 /\ step[i] \in Nat
      /\ \A k \in Instances \ {i} : step'[k] = step[k]
      /\ saw' \in SUBSET Instances /\ spared' \subseteq spared
      /\ i \in spared' => up
  BY <1>1, ProceedFields
<1>3. StartTypeOK'
  BY <1>1, <1>2 DEF StartInv, StartTypeOK
<1>4. Passed'
  <2> SUFFICES ASSUME NEW k \in spared', NEW m \in DOMAIN Sequence,
                      m < step'[k], Sequence[m] \in Items
               PROVE  Sequence[m] \notin missing'
    BY <1>1 DEF Passed
  <2>1. k \in Instances /\ k \in spared /\ m \in Nat
    BY <1>2, SequenceLength DEF StartInv, StartTypeOK
  <2>2. CASE m < step[k]
    BY <2>1, <2>2 DEF StartInv, Passed
  <2>3. CASE k = i /\ m = step[i]
    BY <1>1, <1>2, <2>3
  <2>4. QED
    BY <1>2, <2>1, <2>2, <2>3
<1>5. Created'
  <2> SUFFICES ASSUME NEW k \in spared', auto, step'[k] > 1
               PROVE  tables' = Tables
    BY DEF Created
  <2>1. k \in Instances /\ k \in spared
    BY <1>2 DEF StartInv, StartTypeOK
  <2>2. CASE step[k] > 1
    BY <2>1, <2>2 DEF StartInv, Created
  <2>3. CASE k = i /\ step[i] = 1
    BY <1>1, <1>2, <2>3 DEF Sequence, Steps, Local
  <2>4. QED
    BY <1>2, <2>1, <2>2, <2>3 DEF StartInv, StartTypeOK
<1>6. QED
  BY <1>3, <1>4, <1>5 DEF StartInv

LEMMA EnsureKeeps ==
    ASSUME StartInv, NEW i \in Instances, NEW items \in SUBSET Items, Ensure(i, items)
    PROVE  StartInv'
<1>1. PICK item \in items : Inspect(i, item) \/ Alter(i, item)
  BY DEF Ensure
<1>2. CASE Inspect(i, item) /\ up /\ item \in missing
  <2>1. /\ UNCHANGED <<auto, up, tables, missing, admin, pending, step, spared>>
        /\ saw' = saw \cup {i}
    BY <1>2 DEF Inspect, database, rows
  <2>2. QED
    BY <2>1 DEF StartInv, StartTypeOK, Passed, Created, Sequence, Steps
<1>3. CASE Inspect(i, item) /\ ~(up /\ item \in missing)
  <2>1. /\ At(i, item) /\ Proceed(i)
        /\ UNCHANGED <<auto, up, tables, missing, admin, pending>>
    BY <1>3 DEF Inspect, database, rows
  <2>2. QED
    BY <1>3, <2>1, ProceedKeeps, ItemsAre DEF StartInv, StartTypeOK
<1>4. CASE Alter(i, item)
  <2>1. /\ At(i, item) /\ Proceed(i)
        /\ missing' = IF up THEN missing \ {item} ELSE missing
        /\ UNCHANGED <<auto, up, tables, admin, pending>>
    BY <1>4 DEF Alter, rows
  <2>2. QED
    BY <2>1, ProceedKeeps, ItemsAre DEF StartInv, StartTypeOK
<1>5. QED
  BY <1>1, <1>2, <1>3, <1>4

LEMMA AdvanceKeeps ==
    ASSUME StartInv, NEW i \in Instances, Advance(i)
    PROVE  StartInv'
<1>1. CASE CreateAll(i)
  <2>1. /\ At(i, "create_all") /\ Proceed(i) /\ "create_all" \notin Items
        /\ tables' \in SUBSET Tables /\ tables \subseteq tables'
        /\ up => tables' = Tables
        /\ UNCHANGED <<auto, up, missing, admin, pending>>
    BY <1>1, ItemsAre DEF CreateAll, rows, StartInv, StartTypeOK
  <2>2. QED
    BY <2>1, ProceedKeeps DEF StartInv, StartTypeOK
<1>2. CASE BootstrapAdmins(i)
  <2>1. /\ At(i, "bootstrap") /\ Proceed(i) /\ "bootstrap" \notin Items
        /\ admin' \in {"absent", "user", "admin"}
        /\ UNCHANGED <<auto, up, tables, missing, pending>>
    BY <1>2, ItemsAre DEF BootstrapAdmins, database, StartInv, StartTypeOK
  <2>2. QED
    BY <2>1, ProceedKeeps DEF StartInv, StartTypeOK
<1>3. /\ {"phone", "pin"} \subseteq Items /\ {"recipient"} \subseteq Items
      /\ {"tx_provider"} \subseteq Items /\ {"upgrade_seen", "kyc"} \subseteq Items
      /\ {"developer", "webhook", "image"} \subseteq Items
      /\ Of.data_plans \ MigrationOnly \subseteq Items /\ Of.campaigns \subseteq Items
      /\ Of.announcements \subseteq Items
  BY ItemsAre DEF Of
<1>4. CASE ~CreateAll(i) /\ ~BootstrapAdmins(i)
  <2>1. PICK items \in SUBSET Items : Ensure(i, items)
    BY <1>3, <1>4 DEF Advance, EnsureUserLogin, EnsureTransactionRecipient, EnsureDataPlans,
       EnsureTransactionProvider, EnsureCampaigns, EnsureUserIdentity, EnsureAnnouncements,
       EnsureUserDeveloper
  <2>2. QED
    BY <2>1, EnsureKeeps
<1>5. QED
  BY <1>1, <1>2, <1>4

-----------------------------------------------------------------------------
LEMMA StartInit == Init => StartInv
<1> SUFFICES ASSUME Init PROVE StartInv
  OBVIOUS
<1>1. tables \in SUBSET Tables /\ missing \in SUBSET Items
  BY DatabasesAreDatabases DEF Init
<1>2. step \in [Instances -> 0..Len(Sequence) + 1]
  BY SequenceLength DEF Init
<1>3. QED
  BY <1>1, <1>2 DEF Init, StartInv, StartTypeOK, Passed, Created

LEMMA StartStep ==
    ASSUME StartInv, [Next]_vars
    PROVE  StartInv'
<1>1. ASSUME NEW i \in Instances, Boot(i) PROVE StartInv'
  <2>1. /\ step' = [step EXCEPT ![i] = 1] /\ spared' = spared \cup {i}
        /\ Sequence' = Sequence
        /\ UNCHANGED <<auto, up, tables, missing, admin, pending, saw>>
    BY <1>1 DEF Boot, database, rows, Sequence, Steps
  <2>2. /\ step' \in [Instances -> 0..Len(Sequence) + 1] /\ step'[i] = 1
        /\ \A k \in Instances \ {i} : step'[k] = step[k]
    BY <2>1, SequenceLength DEF StartInv, StartTypeOK
  <2>3. StartTypeOK'
    BY <2>1, <2>2 DEF StartInv, StartTypeOK
  <2>4. Passed'
    <3> SUFFICES ASSUME NEW k \in spared', NEW m \in DOMAIN Sequence,
                        m < step'[k], Sequence[m] \in Items
                 PROVE  Sequence[m] \notin missing
      BY <2>1 DEF Passed
    <3>1. k # i
      BY <2>2, SequenceLength
    <3>2. k \in spared /\ step'[k] = step[k]
      BY <2>1, <2>2, <3>1 DEF StartInv, StartTypeOK
    <3>3. QED
      BY <3>2 DEF StartInv, Passed
  <2>5. Created'
    BY <2>1, <2>2 DEF StartInv, StartTypeOK, Created
  <2>6. QED
    BY <2>3, <2>4, <2>5 DEF StartInv
<1>2. ASSUME NEW i \in Instances, Stop(i) PROVE StartInv'
  <2>1. /\ step' = [step EXCEPT ![i] = 0] /\ spared' = spared \ {i} /\ saw' = saw \ {i}
        /\ Sequence' = Sequence
        /\ UNCHANGED <<auto, up, tables, missing, admin, pending>>
    BY <1>2 DEF Stop, database, rows, Sequence, Steps
  <2>2. /\ step' \in [Instances -> 0..Len(Sequence) + 1]
        /\ \A k \in Instances \ {i} : step'[k] = step[k]
    BY <2>1, SequenceLength DEF StartInv, StartTypeOK
  <2>3. StartTypeOK'
    BY <2>1, <2>2 DEF StartInv, StartTypeOK
  <2>4. Passed'
    BY <2>1, <2>2 DEF StartInv, StartTypeOK, Passed
  <2>5. Created'
    BY <2>1, <2>2 DEF StartInv, StartTypeOK, Created
  <2>6. QED
    BY <2>3, <2>4, <2>5 DEF StartInv
<1>3. CASE \/ (\E i \in Instances : WorkerRound(i)) \/ Register \/ Demote \/ LeavePending
           \/ Outage \/ Migrate \/ UNCHANGED vars
  <2>1. /\ UNCHANGED <<auto, step, saw, spared>>
        /\ up' \in BOOLEAN /\ pending' \in BOOLEAN
        /\ tables' \in SUBSET Tables /\ tables \subseteq tables' /\ missing' \subseteq missing
        /\ admin' \in {"absent", "user", "admin"}
    BY <1>3 DEF WorkerRound, Register, Demote, LeavePending, Outage, Migrate, vars,
       database, rows, instances, StartInv, StartTypeOK, Tables, Of
  <2>2. Sequence' = Sequence
    BY <2>1 DEF Sequence, Steps
  <2>3. QED
    BY <2>1, <2>2 DEF StartInv, StartTypeOK, Passed, Created
<1>4. QED
  BY <1>1, <1>2, <1>3, AdvanceKeeps DEF Next

LEMMA StartHolds == Spec => []StartInv
<1>1. StartInv /\ [Next]_vars => StartInv'
  BY StartStep
<1>2. QED
  BY <1>1, StartInit, PTL DEF Spec

\* However many instances start, stop and are migrated under, one that came up
\* without an outage has added all that its start is to add, and a local one
\* has all tables (main.py, ensure_tables).
THEOREM InstancesServe == Spec => []ServesWhatItNeeds
<1>1. StartInv => ServesWhatItNeeds
  <2> SUFFICES ASSUME StartInv, NEW i \in Instances, Serving(i), i \in spared
               PROVE  /\ missing \subseteq MigrationOnly \cup (IF auto THEN ProductionOnly ELSE {})
                      /\ auto => tables = Tables
    BY DEF ServesWhatItNeeds
  <2>1. ASSUME NEW item \in missing, item \notin MigrationOnly
        PROVE  auto /\ item \in ProductionOnly
    <3>1. item \in Items \ MigrationOnly
      BY <2>1 DEF StartInv, StartTypeOK
    <3>2. ~ \E m \in DOMAIN Sequence : Sequence[m] = item
      <4> SUFFICES ASSUME NEW m \in DOMAIN Sequence, Sequence[m] = item PROVE FALSE
        OBVIOUS
      <4>1. m < step[i]
        BY SequenceLength DEF Serving
      <4>2. QED
        BY <2>1, <3>1, <4>1 DEF StartInv, Passed
    <3>3. CASE auto
      BY <3>1, <3>2, <3>3, EveryItemHasAStep, Lengths DEF Sequence, Steps
    <3>4. CASE ~auto
      BY <3>1, <3>2, <3>4, EveryItemHasAStep, Lengths DEF Sequence, Steps
    <3>5. QED
      BY <3>3, <3>4
  <2>2. ASSUME auto PROVE tables = Tables
    <3>1. Sequence = Local
      BY <2>2 DEF Sequence, Steps
    <3>2. step[i] > 1
      BY <3>1, Lengths DEF Serving
    <3>3. QED
      BY <2>2, <3>2 DEF StartInv, Created
  <2>3. QED
    BY <2>1, <2>2
<1>2. QED
  BY <1>1, StartHolds, PTL
=============================================================================
