\* Two RPCs, one of them a stream that ends only by Stop, and two admin
\* requests, one of them with a client that never reads its answer.
CONSTANTS
    Rpc = {rpc, watch}
    Web = {page, slowpage}
    Slow = {watch, slowpage}
    PoolSize = 2
    DrainSettings <- MCDrainSettings
    rpc = rpc
    watch = watch
    page = page
    slowpage = slowpage
SPECIFICATION FairSpec
INVARIANTS
    GracefulIsTrue
    PoolOutlivesRpcs
    UnreadyBeforeListenersClose
    CleanExitReported
PROPERTIES
    TermEnds
    NoReadyZombie
CHECK_DEADLOCK FALSE
