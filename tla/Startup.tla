------------------------------ MODULE Startup ------------------------------
(***************************************************************************)
(* What a process of the image does with its argument and its environment: *)
(* config.Load and Validate, the subcommand dispatch of cmd/main.go, the   *)
(* migrate and seed Jobs and the serving pods, all on one database.  The   *)
(* seed writes balances without a ledger row; everything else books what   *)
(* it changes.  golang-migrate and Kubernetes are external: a process may  *)
(* be stopped at any step and is launched again.                           *)
(***************************************************************************)
EXTENDS Integers, FiniteSets

CONSTANTS
    Process,    \* pods and Jobs
    Clusters,   \* sets of launches [arg, env]: command line and environment
    SKU,        \* the demo SKUs of db/seed
    Demo,       \* demo quantity of each
    MaxOnHand   \* bound on what receives add up to

ASSUME StartupAssumption ==
    /\ IsFiniteSet(SKU) /\ Demo \in [SKU -> 1..MaxOnHand]
    /\ MaxOnHand \in Nat

VARIABLES
    cluster,   \* the launches of this cluster
    pc,        \* where each process is
    launch,    \* how it was launched
    version,   \* schema_migrations
    stock,     \* on_hand of inventory_balances, Absent without a row
    booked     \* SUM(on_hand_delta) of inventory_movements

vars == <<cluster, pc, launch, version, stock, booked>>

Absent == -1
Latest == 3
Idle == [arg |-> "none", env |-> [ENV |-> "unset"]]

-----------------------------------------------------------------------------
(* config *)

Default == [ENV |-> "development", SERVICE_NAME |-> "unset", PORT |-> "8080",
            DB_HOST |-> "unset", DB_CREDENTIALS |-> "unset",
            DB_SSLMODE |-> "disable", LOG_LEVEL |-> "info"]

\* getEnv: the default where the variable is unset (or empty).
Load(env) ==
    [v \in DOMAIN Default |->
        IF v \notin DOMAIN env \/ env[v] = "unset" THEN Default[v] ELSE env[v]]

\* Mutant of IsDevelopment: everything but production may seed.
IsNotProduction(cfg) == cfg.ENV \notin {"production", "prod"}

IsDevelopment(cfg) == cfg.ENV \in {"development", "dev"}

\* DB_CREDENTIALS stands for DB_NAME, DB_USER and DB_PASSWORD or its file.
ValidDatabase(cfg) ==
    cfg.DB_HOST = "unset" \/
        /\ cfg.DB_CREDENTIALS # "unset"
        /\ cfg.DB_SSLMODE \in {"disable", "prefer", "require", "verify-ca",
                               "verify-full"}

ValidForSubcommand(cfg) == cfg.DB_HOST # "unset" /\ ValidDatabase(cfg)

\* PORT stands for GRPC_PORT too; validateProfiling asks for the same name.
Valid(cfg) ==
    /\ cfg.SERVICE_NAME # "unset"
    /\ cfg.PORT # "http"
    /\ cfg.ENV \in {"development", "dev", "staging", "stage", "production", "prod"}
    /\ cfg.LOG_LEVEL \in {"debug", "info", "warn", "error"}
    /\ ValidDatabase(cfg)

Config(p) == Load(launch[p].env)

-----------------------------------------------------------------------------
(* cmd/main.go *)

Goto(p, label) == pc' = [pc EXCEPT ![p] = label]

Init ==
    /\ cluster \in Clusters
    /\ pc = [p \in Process |-> "exited"]
    /\ launch = [p \in Process |-> Idle]
    /\ version = 0
    /\ stock = [s \in SKU |-> Absent]
    /\ booked = [s \in SKU |-> 0]

Launch(p) ==
    /\ pc[p] \in {"exited", "failed"}
    /\ \E l \in cluster : launch' = [launch EXCEPT ![p] = l]
    /\ Goto(p, "main")
    /\ UNCHANGED <<cluster, version, stock, booked>>

\* Mutant of Subcommand: the refusal of the retired backfill is removed.
SubcommandNoBackfill(p) ==
    CASE launch[p].arg = "migrate" -> "migrate"
      [] launch[p].arg = "seed" -> IF IsDevelopment(Config(p)) THEN "seed" ELSE "failed"
      [] OTHER -> "validate"

\* runSubcommand: an argument it does not know falls through to serving.
Subcommand(p) ==
    CASE launch[p].arg = "migrate" -> "migrate"
      [] launch[p].arg = "seed" -> IF IsDevelopment(Config(p)) THEN "seed" ELSE "failed"
      [] launch[p].arg = "backfill" -> "failed"
      [] OTHER -> "validate"

Dispatch(p) ==
    /\ pc[p] = "main"
    /\ Goto(p, IF launch[p].arg = "none" THEN "validate"
               ELSE IF ValidForSubcommand(Config(p)) THEN Subcommand(p)
               ELSE "failed")
    /\ UNCHANGED <<cluster, launch, version, stock, booked>>

\* Validate accepts an unset DB_HOST; the connection then fails.
Serve(p) ==
    /\ pc[p] = "validate"
    /\ Goto(p, IF Valid(Config(p)) /\ Config(p).DB_HOST # "unset" THEN "serving"
               ELSE "failed")
    /\ UNCHANGED <<cluster, launch, version, stock, booked>>

\* One pending migration, under the migration tool's lock, or none left.
Migrate(p) ==
    /\ pc[p] = "migrate"
    /\ IF version < Latest THEN version' = version + 1 /\ UNCHANGED pc
                           ELSE Goto(p, "exited") /\ UNCHANGED version
    /\ UNCHANGED <<cluster, launch, stock, booked>>

\* Mutant of SeedRow: ON CONFLICT DO UPDATE.
SeedRowUpserts(s) == Demo[s]

\* INSERT ... ON CONFLICT (sku_id, warehouse_id) DO NOTHING.
SeedRow(s) == IF stock[s] = Absent THEN Demo[s] ELSE stock[s]

\* applySeed: each file is one implicit transaction, and one file inserts.
Seed(p) ==
    /\ pc[p] = "seed"
    /\ IF version < 2 THEN Goto(p, "failed") /\ UNCHANGED stock
       ELSE Goto(p, "exited") /\ stock' = [s \in SKU |-> SeedRow(s)]
    /\ UNCHANGED <<cluster, launch, version, booked>>

\* A serving pod books a RECEIVE; the movement needs the actor columns of
\* migration 3, and without them the whole transaction fails.
Receive(p, s) ==
    /\ pc[p] = "serving" /\ version = 3 /\ stock[s] < MaxOnHand
    /\ stock' = [stock EXCEPT ![s] = IF @ = Absent THEN 1 ELSE @ + 1]
    /\ booked' = [booked EXCEPT ![s] = @ + 1]
    /\ UNCHANGED <<cluster, pc, launch, version>>

\* A Fatal, a crash, an eviction.
Stop(p) ==
    /\ pc[p] \notin {"exited", "failed"}
    /\ Goto(p, "failed")
    /\ UNCHANGED <<cluster, launch, version, stock, booked>>

Next ==
    \E p \in Process :
        \/ Launch(p) \/ Dispatch(p) \/ Serve(p) \/ Migrate(p) \/ Seed(p) \/ Stop(p)
        \/ \E s \in SKU : Receive(p, s)

Spec == Init /\ [][Next]_vars

-----------------------------------------------------------------------------
(* Properties *)

\* Every variable has a value of its type.
TypeOK ==
    /\ cluster \in Clusters
    /\ pc \in [Process -> {"main", "validate", "migrate", "seed", "serving",
                           "exited", "failed"}]
    /\ \A p \in Process : launch[p] \in cluster \cup {Idle}
    /\ version \in 0..Latest
    /\ stock \in [SKU -> Absent..MaxOnHand]
    /\ booked \in [SKU -> 0..MaxOnHand]

\* A one-shot Job never turns into a server, a retired subcommand included,
\* and no argument gets a process past the serving configuration's checks.
ServesOnlyWhenAsked ==
    \A p \in Process : pc[p] = "serving" =>
        /\ launch[p].arg \notin {"migrate", "seed", "backfill"}
        /\ Valid(Config(p))

\* The launch names an environment, and not a development one.
NamesReal(l) ==
    "ENV" \in DOMAIN l.env /\ l.env.ENV \notin {"unset", "development", "dev"}

\* "a real balance now arrives one way only - an explicit RECEIVE movement,
\* which keeps on_hand == SUM(on_hand_delta) intact": so it is where every
\* process is told that the environment is not a development one.
OnHandIsBooked ==
    (\A l \in cluster : NamesReal(l)) =>
        \A s \in SKU : stock[s] # Absent => stock[s] = booked[s]

\* A row that exists is changed only by what the ledger books: a seed run late,
\* twice or beside serving pods leaves it alone.
RowsChangeByLedger ==
    [][\A s \in SKU : stock[s] # Absent =>
          stock'[s] - stock[s] = booked'[s] - booked[s]]_vars
=============================================================================
