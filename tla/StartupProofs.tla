---------------------------- MODULE StartupProofs ----------------------------
(***************************************************************************)
(* Theorems about launches, the seed and the first receipts, for every set *)
(* of processes and every cluster they are launched in.                    *)
(***************************************************************************)
EXTENDS Startup, TLAPS

-----------------------------------------------------------------------------
(* The inductive invariant *)

\* A running process was launched from its cluster, and has passed the checks
\* on the way to where it is.
LaunchOK(p) ==
    LET l == launch[p] IN
    /\ pc[p] \notin {"exited", "failed"} => l \in cluster
    /\ pc[p] = "seed" => IsDevelopment(Config(p))
    /\ pc[p] \in {"validate", "serving"} => l.arg \notin {"migrate", "seed", "backfill"}
    /\ pc[p] = "serving" => Valid(Config(p))

\* Without a row nothing is booked, and no more is booked than a row holds; a
\* cluster that is told what it is never seeds.
StockOK ==
    /\ \A s \in SKU : booked[s] = 0 \/ booked[s] <= stock[s]
    /\ OnHandIsBooked

StartupInv ==
    /\ TypeOK
    /\ launch \in [Process -> cluster \cup {Idle}]
    /\ \A p \in Process : LaunchOK(p)
    /\ StockOK

-----------------------------------------------------------------------------
(* Configuration *)

\* A launch that names a real environment cannot be taken for a development one.
LEMMA RealIsNotDevelopment ==
    ASSUME NEW l, NamesReal(l)
    PROVE  ~IsDevelopment(Load(l.env))
  <1>1. "ENV" \in DOMAIN Default
    BY DEF Default
  <1>2. Load(l.env).ENV = l.env.ENV
    BY <1>1 DEF Load, NamesReal
  <1> QED
    BY <1>2 DEF IsDevelopment, NamesReal

-----------------------------------------------------------------------------
(* Its steps *)

\* Before the first launch there is no database.
LEMMA StartupInit == Init => StartupInv
  BY StartupAssumption DEF Init, StartupInv, TypeOK, LaunchOK, StockOK, OnHandIsBooked, Absent,
     Idle, Latest

\* Dispatch, validation and the Jobs' ends move a process on and touch nothing
\* else.
LEMMA MoveOnInv ==
    ASSUME StartupInv, NEW p \in Process, Dispatch(p) \/ Serve(p) \/ Stop(p)
    PROVE  StartupInv'
  <1>1. UNCHANGED <<cluster, launch, version, stock, booked>>
    BY DEF Dispatch, Serve, Stop
  <1>2. PICK label \in {"validate", "migrate", "seed", "serving", "failed"} :
           /\ pc' = [pc EXCEPT ![p] = label]
           /\ label # "failed" => pc[p] \in {"main", "validate"}
           /\ label = "seed" => IsDevelopment(Config(p))
           /\ label \in {"validate", "serving"} =>
                 launch[p].arg \notin {"migrate", "seed", "backfill"}
           /\ label = "serving" => Valid(Config(p))
    <2>1. CASE Dispatch(p)
      <3>1. pc[p] = "main"
        BY <2>1 DEF Dispatch
      <3>2. CASE launch[p].arg = "none"
        BY <2>1, <3>1, <3>2 DEF Dispatch, Goto
      <3>3. CASE launch[p].arg # "none" /\ ~ValidForSubcommand(Config(p))
        BY <2>1, <3>1, <3>3 DEF Dispatch, Goto
      <3>4. CASE launch[p].arg # "none" /\ ValidForSubcommand(Config(p))
        <4>1. pc' = [pc EXCEPT ![p] = Subcommand(p)]
          BY <2>1, <3>4 DEF Dispatch, Goto
        <4>2. CASE launch[p].arg \in {"migrate", "seed", "backfill"}
          BY <3>1, <4>1, <4>2 DEF Subcommand
        <4>3. CASE launch[p].arg \notin {"migrate", "seed", "backfill"}
          BY <3>1, <4>1, <4>3 DEF Subcommand
        <4> QED
          BY <4>2, <4>3
      <3> QED
        BY <3>2, <3>3, <3>4
    <2>2. CASE Serve(p)
      <3>1. pc[p] = "validate" /\ launch[p].arg \notin {"migrate", "seed", "backfill"}
        BY <2>2 DEF Serve, StartupInv, LaunchOK
      <3> QED
        BY <2>2, <3>1 DEF Serve, Goto
    <2>3. CASE Stop(p)
      BY <2>3 DEF Stop, Goto
    <2> QED
      BY <2>1, <2>2, <2>3
  <1>3. TypeOK' /\ launch' \in [Process -> (cluster \cup {Idle})']
    BY <1>1, <1>2 DEF StartupInv, TypeOK
  <1>4. ASSUME NEW q \in Process PROVE LaunchOK(q)'
    <2>1. LaunchOK(q)
      BY DEF StartupInv
    <2>2. Config(q)' = Config(q)
      BY <1>1 DEF Config
    <2>3. CASE q = p
      BY <1>1, <1>2, <2>1, <2>2, <2>3 DEF StartupInv, TypeOK, LaunchOK
    <2>4. CASE q # p
      BY <1>1, <1>2, <2>1, <2>2, <2>4 DEF StartupInv, TypeOK, LaunchOK
    <2> QED
      BY <2>3, <2>4
  <1>5. StockOK'
    BY <1>1 DEF StartupInv, StockOK, OnHandIsBooked
  <1> QED
    BY <1>3, <1>4, <1>5 DEF StartupInv

\* A process is launched again only after it ended.
LEMMA LaunchInv ==
    ASSUME StartupInv, NEW p \in Process, Launch(p) PROVE StartupInv'
  <1>1. PICK l \in cluster : launch' = [launch EXCEPT ![p] = l]
    BY DEF Launch
  <1>2. /\ UNCHANGED <<cluster, version, stock, booked>>
        /\ pc' = [pc EXCEPT ![p] = "main"]
    BY DEF Launch, Goto
  <1>3. TypeOK' /\ launch' \in [Process -> (cluster \cup {Idle})']
    BY <1>1, <1>2 DEF StartupInv, TypeOK
  <1>4. ASSUME NEW q \in Process PROVE LaunchOK(q)'
    BY <1>1, <1>2 DEF StartupInv, TypeOK, LaunchOK, Config
  <1>5. StockOK'
    BY <1>2 DEF StartupInv, StockOK, OnHandIsBooked
  <1> QED
    BY <1>3, <1>4, <1>5 DEF StartupInv

\* A migration touches no stock.
LEMMA MigrateInv ==
    ASSUME StartupInv, NEW p \in Process, Migrate(p) PROVE StartupInv'
  <1>1. /\ UNCHANGED <<cluster, launch, stock, booked>>
        /\ pc' = pc \/ pc' = [pc EXCEPT ![p] = "exited"]
        /\ version' \in 0..Latest
    BY DEF Migrate, Goto, StartupInv, TypeOK, Latest
  <1>2. TypeOK' /\ launch' \in [Process -> (cluster \cup {Idle})']
    BY <1>1 DEF StartupInv, TypeOK
  <1>3. ASSUME NEW q \in Process PROVE LaunchOK(q)'
    BY <1>1 DEF StartupInv, TypeOK, LaunchOK, Config
  <1>4. StockOK'
    BY <1>1 DEF StartupInv, StockOK, OnHandIsBooked
  <1> QED
    BY <1>2, <1>3, <1>4 DEF StartupInv

\* The seed fills absent rows, and runs only where somebody may take the cluster
\* for a development one.
LEMMA SeedInv ==
    ASSUME StartupInv, NEW p \in Process, Seed(p) PROVE StartupInv'
  <1>1. /\ UNCHANGED <<cluster, launch, version, booked>> /\ pc[p] = "seed"
        /\ pc' = [pc EXCEPT ![p] = "failed"] \/ pc' = [pc EXCEPT ![p] = "exited"]
        /\ stock' = stock \/ stock' = [s \in SKU |-> SeedRow(s)]
    BY DEF Seed, Goto
  <1>2. \A s \in SKU : /\ stock[s] \in Absent..MaxOnHand
                       /\ SeedRow(s) \in Absent..MaxOnHand
                       /\ stock[s] # Absent => SeedRow(s) = stock[s]
                       /\ stock[s] <= SeedRow(s)
    BY StartupAssumption DEF SeedRow, StartupInv, TypeOK, Absent
  <1>3. TypeOK' /\ launch' \in [Process -> (cluster \cup {Idle})']
    BY <1>1, <1>2 DEF StartupInv, TypeOK
  <1>4. ASSUME NEW q \in Process PROVE LaunchOK(q)'
    BY <1>1 DEF StartupInv, TypeOK, LaunchOK, Config
  <1>5. StockOK'
    <2>1. ~NamesReal(launch[p]) /\ launch[p] \in cluster
      BY <1>1, RealIsNotDevelopment DEF StartupInv, LaunchOK, Config
    <2>2. OnHandIsBooked'
      BY <1>1, <2>1 DEF OnHandIsBooked
    <2>3. ASSUME NEW s \in SKU PROVE booked'[s] = 0 \/ booked'[s] <= stock'[s]
      BY <1>1, <1>2, StartupAssumption DEF StartupInv, StockOK, TypeOK, Absent
    <2> QED
      BY <2>2, <2>3 DEF StockOK
  <1> QED
    BY <1>3, <1>4, <1>5 DEF StartupInv

\* A receipt books what it adds.
LEMMA ReceiveInv ==
    ASSUME StartupInv, NEW p \in Process, NEW s \in SKU, Receive(p, s) PROVE StartupInv'
  <1>1. /\ UNCHANGED <<cluster, pc, launch, version>> /\ stock[s] < MaxOnHand
        /\ stock' = [stock EXCEPT ![s] = IF stock[s] = Absent THEN 1 ELSE stock[s] + 1]
        /\ booked' = [booked EXCEPT ![s] = booked[s] + 1]
    BY DEF Receive
  <1>2. /\ stock[s] \in Absent..MaxOnHand /\ booked[s] \in 0..MaxOnHand
        /\ booked[s] = 0 \/ booked[s] <= stock[s]
        /\ Demo[s] \in 1..MaxOnHand /\ MaxOnHand \in Nat
    BY StartupAssumption DEF StartupInv, TypeOK, StockOK
  <1>3. /\ stock'[s] \in Absent..MaxOnHand /\ booked'[s] \in 0..MaxOnHand
        /\ booked'[s] <= stock'[s] /\ stock'[s] # Absent
        /\ stock[s] # Absent => stock'[s] = stock[s] + 1
        /\ stock[s] = Absent => stock'[s] = 1 /\ booked[s] = 0
        /\ booked'[s] = booked[s] + 1
    BY <1>1, <1>2 DEF StartupInv, TypeOK, Absent
  <1>4. TypeOK' /\ launch' \in [Process -> (cluster \cup {Idle})']
    BY <1>1, <1>3 DEF StartupInv, TypeOK
  <1>5. ASSUME NEW q \in Process PROVE LaunchOK(q)'
    BY <1>1 DEF StartupInv, LaunchOK, Config
  <1>6. OnHandIsBooked'
    <2>1. ASSUME NEW t \in SKU, stock[t] # Absent => stock[t] = booked[t], stock'[t] # Absent
          PROVE  stock'[t] = booked'[t]
      <3>1. CASE t = s
        BY <1>2, <1>3, <2>1, <3>1 DEF Absent
      <3>2. CASE t # s
        BY <1>1, <2>1, <3>2 DEF StartupInv, TypeOK
      <3> QED
        BY <3>1, <3>2
    <2> QED
      BY <1>1, <2>1 DEF StartupInv, StockOK, OnHandIsBooked
  <1>7. \A t \in SKU : booked'[t] = 0 \/ booked'[t] <= stock'[t]
    BY <1>1, <1>3 DEF StartupInv, TypeOK, StockOK
  <1> QED
    BY <1>4, <1>5, <1>6, <1>7 DEF StartupInv, StockOK

\* StartupInv is inductive.
LEMMA StartupStep == StartupInv /\ [Next]_vars => StartupInv'
  <1>1. StartupInv /\ UNCHANGED vars => StartupInv'
    BY DEF vars, StartupInv, TypeOK, LaunchOK, StockOK, OnHandIsBooked, Config
  <1> QED
    BY <1>1, MoveOnInv, LaunchInv, MigrateInv, SeedInv, ReceiveInv DEF Next

-----------------------------------------------------------------------------
(* What follows *)

\* A Job never serves, and nothing serves on a configuration Validate refuses.
THEOREM NeverServesUnasked == Spec => []ServesOnlyWhenAsked
  <1>1. StartupInv => ServesOnlyWhenAsked
    BY DEF StartupInv, LaunchOK, ServesOnlyWhenAsked
  <1> QED
    BY StartupInit, StartupStep, <1>1, PTL DEF Spec

\* Where every launch names a real environment, on_hand is what the ledger says.
THEOREM OnHandAlwaysBooked == Spec => []OnHandIsBooked
  <1>1. StartupInv => OnHandIsBooked
    BY DEF StartupInv, StockOK
  <1> QED
    BY StartupInit, StartupStep, <1>1, PTL DEF Spec

\* A seed, run whenever and wherever, leaves the rows that exist alone.
THEOREM ExistingRowsAreBooked == Spec => RowsChangeByLedger
  <1>1. StartupInv /\ [Next]_vars =>
          [\A s \in SKU : stock[s] # Absent =>
              stock'[s] - stock[s] = booked'[s] - booked[s]]_vars
    <2> SUFFICES ASSUME StartupInv, Next, NEW s \in SKU, stock[s] # Absent
                 PROVE  stock'[s] - stock[s] = booked'[s] - booked[s]
      OBVIOUS
    <2>1. stock[s] \in Int /\ booked[s] \in Int
      BY StartupAssumption DEF StartupInv, TypeOK, Absent
    <2>2. CASE stock'[s] = stock[s] /\ booked'[s] = booked[s]
      BY <2>1, <2>2
    <2>3. ASSUME NEW p \in Process, NEW t \in SKU, Receive(p, t)
          PROVE  stock'[s] - stock[s] = booked'[s] - booked[s]
      BY <2>1, <2>3 DEF Receive, StartupInv, TypeOK
    <2>4. ASSUME NEW p \in Process, Seed(p)
          PROVE  stock'[s] = stock[s] /\ booked'[s] = booked[s]
      BY <2>4 DEF Seed, SeedRow
    <2> QED
      BY <2>2, <2>3, <2>4 DEF Next, Launch, Dispatch, Serve, Migrate, Stop
  <1> QED
    BY StartupInit, StartupStep, <1>1, PTL DEF Spec, RowsChangeByLedger
=============================================================================
