------------------------------ MODULE Startup ------------------------------
(***************************************************************************)
(* The start of the program (app/main.py): instances that come up one      *)
(* after the other or at once, each of which starts its reconcile worker,  *)
(* makes the configured user an administrator and adds the columns that    *)
(* the database it finds still lacks.                                      *)
(*                                                                         *)
(* An _ensure function looks at a table and then adds all it misses in one *)
(* transaction; whatever exception either half raises is only logged.  The *)
(* columns one function is about are therefore one item here: they are     *)
(* added together or not at all.  Three more items stand for the columns   *)
(* of these tables that only a migration adds.                             *)
(***************************************************************************)
EXTENDS Naturals, Sequences

CONSTANTS
    Instances,
    Databases  \* the databases that are found: tables, and what they lack

VARIABLES
    auto,     \* settings.auto_create_tables
    up,       \* the database can be reached
    tables,   \* the tables there are
    missing,  \* the items that the tables lack
    admin,    \* the user named by bootstrap_admin_emails
    pending,  \* there is a PENDING purchase for the reconcile worker
    step,     \* the step of ensure_tables an instance has come to, 0 if it is down
    saw,      \* the instances that have seen a column missing and will add it
    spared    \* history: the instances that met no outage when they started

database == <<up, tables, missing>>
rows == <<admin, pending>>
instances == <<step, saw, spared>>
vars == <<auto, up, tables, missing, admin, pending, step, saw, spared>>

-----------------------------------------------------------------------------
(***************************************************************************)
(* Tables, columns and the order in which an instance sees to them.        *)
(***************************************************************************)
Of == [
    users         |-> {"phone", "pin", "upgrade_seen", "kyc", "developer", "webhook", "image",
                       "referral", "push_token"},
    transactions  |-> {"recipient", "tx_provider"},
    data_plans    |-> {"plan_provider", "promo", "fallback", "data_type", "text_lengths",
                       "list_prices"},
    campaigns     |-> {"activated_at", "agent_only"},
    announcements |-> {"button"}]

Tables == DOMAIN Of
Items == UNION {Of[t] : t \in Tables}

ASSUME DatabasesAreDatabases ==
    Databases \subseteq {d \in [tables : SUBSET Tables, missing : SUBSET Items] :
                          d.missing \subseteq UNION {Of[t] : t \in d.tables}}

\* What no _ensure function adds, and what no migration adds.
MigrationOnly == {"referral", "push_token", "list_prices"}
EnsureOnly == {"phone", "recipient", "tx_provider", "plan_provider", "text_lengths",
               "webhook", "image"}

\* The steps of a production start, and those of a local one, which leaves two
\* of them out.
Production ==
    <<"bootstrap", "phone", "pin", "recipient", "plan_provider", "promo", "fallback",
      "data_type", "text_lengths", "tx_provider", "activated_at", "agent_only",
      "upgrade_seen", "kyc", "button", "developer", "webhook", "image">>
Local ==
    <<"create_all", "bootstrap", "phone", "pin", "recipient", "plan_provider", "promo",
      "fallback", "data_type", "text_lengths", "tx_provider", "agent_only", "kyc",
      "button", "developer", "webhook", "image">>
ProductionOnly == {"activated_at", "upgrade_seen"}

\* Mutant: the developer columns are forgotten.
Steps_NoDeveloper(a) ==
    IF a THEN Local ELSE SelectSeq(Production, LAMBDA x : x # "developer")

\* ensure_tables
Steps(a) == IF a THEN Local ELSE Production

Sequence == Steps(auto)

Serving(i) == step[i] = Len(Sequence) + 1
Starting(i) == step[i] \in DOMAIN Sequence
At(i, name) == Starting(i) /\ Sequence[step[i]] = name

\* A model class selects all its columns.  Texts that are too short can be read.
Readable(t) == up /\ t \in tables /\ Of[t] \cap missing \subseteq {"text_lengths"}

Init ==
    /\ auto \in BOOLEAN
    /\ up = TRUE
    /\ \E d \in Databases : tables = d.tables /\ missing = d.missing
    /\ admin \in IF "users" \in tables THEN {"absent", "user"} ELSE {"absent"}
    /\ pending = FALSE
    /\ step = [i \in Instances |-> 0]
    /\ saw = {}
    /\ spared = {}

-----------------------------------------------------------------------------
(***************************************************************************)
(* An instance starts.                                                     *)
(***************************************************************************)

\* The process begins, and its worker with it.
Boot(i) ==
    /\ step[i] = 0
    /\ step' = [step EXCEPT ![i] = 1]
    /\ spared' = spared \cup {i}
    /\ UNCHANGED <<auto, database, rows, saw>>

\* The next step; one that met an outage is remembered.
Proceed(i) ==
    /\ step' = [step EXCEPT ![i] = @ + 1]
    /\ saw' = saw \ {i}
    /\ spared' = IF up THEN spared ELSE spared \ {i}

\* Base.metadata.create_all: tables that are not there, with all their columns.
CreateAll(i) ==
    /\ At(i, "create_all")
    /\ tables' = IF up THEN Tables ELSE tables
    /\ Proceed(i)
    /\ UNCHANGED <<auto, up, missing, rows>>

\* Mutant: the new role is not committed.
BootstrapAdmins_NoCommit(i) ==
    /\ At(i, "bootstrap")
    /\ Proceed(i)
    /\ UNCHANGED <<auto, database, rows>>

\* _bootstrap_admins, before a single column is added.
BootstrapAdmins(i) ==
    /\ At(i, "bootstrap")
    /\ admin' = IF Readable("users") /\ admin = "user" THEN "admin" ELSE admin
    /\ Proceed(i)
    /\ UNCHANGED <<auto, database, pending>>

\* An _ensure function looks at its table and finds something missing, or
\* nothing to do (no such table, no connection).
Inspect(i, item) ==
    /\ At(i, item) /\ i \notin saw
    /\ IF up /\ item \in missing
       THEN saw' = saw \cup {i} /\ UNCHANGED <<step, spared>>
       ELSE Proceed(i)
    /\ UNCHANGED <<auto, database, rows>>

\* It adds what was missing.  If another instance or a migration has been
\* faster, the statement fails, the transaction is rolled back and the
\* exception logged.
Alter(i, item) ==
    /\ At(i, item) /\ i \in saw
    /\ missing' = IF up THEN missing \ {item} ELSE missing
    /\ Proceed(i)
    /\ UNCHANGED <<auto, up, tables, rows>>

Ensure(i, items) == \E item \in items : Inspect(i, item) \/ Alter(i, item)

EnsureUserLogin(i) == Ensure(i, {"phone", "pin"})
EnsureTransactionRecipient(i) == Ensure(i, {"recipient"})
EnsureDataPlans(i) == Ensure(i, Of.data_plans \ MigrationOnly)
EnsureTransactionProvider(i) == Ensure(i, {"tx_provider"})
EnsureCampaigns(i) == Ensure(i, Of.campaigns)
EnsureUserIdentity(i) == Ensure(i, {"upgrade_seen", "kyc"})
EnsureAnnouncements(i) == Ensure(i, Of.announcements)
EnsureUserDeveloper(i) == Ensure(i, {"developer", "webhook", "image"})

Advance(i) ==
    \/ CreateAll(i) \/ BootstrapAdmins(i)
    \/ EnsureUserLogin(i) \/ EnsureTransactionRecipient(i) \/ EnsureDataPlans(i)
    \/ EnsureTransactionProvider(i) \/ EnsureCampaigns(i) \/ EnsureUserIdentity(i)
    \/ EnsureAnnouncements(i) \/ EnsureUserDeveloper(i)

\* shutdown_workers, or the process dies; its worker is a daemon thread.
Stop(i) ==
    /\ step[i] # 0
    /\ step' = [step EXCEPT ![i] = 0]
    /\ saw' = saw \ {i}
    /\ spared' = spared \ {i}
    /\ UNCHANGED <<auto, database, rows>>

-----------------------------------------------------------------------------
(***************************************************************************)
(* What goes on meanwhile.                                                 *)
(***************************************************************************)
Serves == \E i \in Instances : Serving(i)

\* The configured user registers, or another administrator takes the role away.
Register ==
    /\ Serves /\ Readable("users") /\ admin = "absent"
    /\ admin' = "user"
    /\ UNCHANGED <<auto, database, pending, instances>>

Demote ==
    /\ Serves /\ Readable("users") /\ admin = "admin"
    /\ admin' = "user"
    /\ UNCHANGED <<auto, database, pending, instances>>

\* A purchase is left PENDING.
LeavePending ==
    /\ Serves /\ \A t \in {"users", "transactions", "data_plans"} : Readable(t)
    /\ ~pending /\ pending' = TRUE
    /\ UNCHANGED <<auto, database, admin, instances>>

\* Mutant: the worker is not a loop.
WorkerRound_AtStart(i) ==
    /\ step[i] = 1
    /\ pending' = (pending /\ ~\A t \in {"users", "transactions", "data_plans"} : Readable(t))
    /\ UNCHANGED <<auto, database, admin, instances>>

\* _reconcile_loop, from the beginning of the start on: a round that fails is
\* logged, and the next one is tried.
WorkerRound(i) ==
    /\ step[i] # 0
    /\ pending' = (pending /\ ~\A t \in {"users", "transactions", "data_plans"} : Readable(t))
    /\ UNCHANGED <<auto, database, admin, instances>>

\* The database goes away and comes back.
Outage ==
    /\ up' = ~up
    /\ UNCHANGED <<auto, tables, missing, rows, instances>>

\* alembic upgrade head, before an instance starts or at any other time.  The
\* announcements, which no migration creates, must be there, or the upgrade
\* fails and is rolled back.  It also fails where a column is there already;
\* what it committed until then stays.
Migrate ==
    /\ up /\ "announcements" \in tables
    /\ tables' = tables \cup {"campaigns"}
    /\ \E added \in SUBSET (missing \ EnsureOnly) : missing' = missing \ added
    /\ UNCHANGED <<auto, up, rows, instances>>

Next ==
    \/ \E i \in Instances : Boot(i) \/ Advance(i) \/ Stop(i) \/ WorkerRound(i)
    \/ Register \/ Demote \/ LeavePending \/ Outage \/ Migrate

Spec == Init /\ [][Next]_vars

\* Instances that are starting go on.
Fairness == \A i \in Instances : WF_vars(Advance(i)) /\ WF_vars(WorkerRound(i))

FairSpec == Spec /\ Fairness

-----------------------------------------------------------------------------
(***************************************************************************)
(* Properties                                                              *)
(***************************************************************************)

\* An instance that comes up without meeting an outage serves with every item
\* that its start is to add to the tables there are, whichever instance or
\* migration added it; a local start leaves two items out.  Only a local start
\* sees to tables: a production start serves from a database without any, and
\* what only a migration adds may be missing whatever the start (ensure_tables,
\* the _ensure functions).
ServesWhatItNeeds ==
    \A i \in Instances :
        Serving(i) /\ i \in spared =>
            /\ missing \subseteq MigrationOnly \cup (IF auto THEN ProductionOnly ELSE {})
            /\ auto => tables = Tables

\* The outages have an end.
Settled == <>[]up

\* Some instance comes up again and again.
ComesUpAgain == \E i \in Instances : []<>Serving(i) /\ []<>(step[i] = 0)

\* With restarts, a registered user named in bootstrap_admin_emails becomes an
\* administrator, and becomes one again when another one takes the role away.
\* The first start does not do it if the users lack a column, since the columns
\* are added only after it looked.  No start ever does it while the users lack
\* a column that only a migration adds or, after a local start, upgrade_seen.
ConfiguredAdminIsAdmin ==
    Settled /\ ComesUpAgain =>
        (admin = "user" ~> \/ admin = "admin"
                           \/ MigrationOnly \cap Of.users \cap missing # {}
                           \/ (auto /\ "upgrade_seen" \in missing))

\* The worker begins before the columns are there and outlives outages: a
\* PENDING purchase is reached as long as an instance stays up.
WorkerRecovers ==
    Settled /\ (\E i \in Instances : <>[](step[i] # 0)) => (pending ~> ~pending)
=============================================================================
