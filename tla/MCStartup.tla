----------------------------- MODULE MCStartup -----------------------------
(* Values of the constants of Startup. *)
EXTENDS Startup, TLC

MCDemo == [s \in SKU |-> 2]

Args == {"none", "migrate", "seed", "backfill", "serve"}

\* Full environments of a pod, and broken ones.
Pod(name) == [ENV |-> name, SERVICE_NAME |-> "inventory", DB_HOST |-> "db",
              DB_CREDENTIALS |-> "set"]
Broken == {[Pod("production") EXCEPT !.SERVICE_NAME = "unset"],
           [Pod("production") EXCEPT !.DB_HOST = "unset"],
           [Pod("staging") EXCEPT !.DB_CREDENTIALS = "unset"],
           Pod("production") @@ ("PORT" :> "http")}

\* The init container passes DB_* alone.
InitContainer == [DB_HOST |-> "db", DB_CREDENTIALS |-> "set"]

RealEnvironments == {Pod(e) : e \in {"staging", "production", "qa"}} \cup Broken
AllEnvironments == RealEnvironments \cup {Pod("development"), InitContainer}

\* A real cluster, where every launch names its environment, and one where
\* pods of all kinds, development ones and unnamed ones included, meet.
MCClusters == {[arg : Args, env : RealEnvironments],
               [arg : Args, env : AllEnvironments]}
=============================================================================
