------------------------------ MODULE MCServices ------------------------------
(* Components whose calls are each one step or one computation, or whose   *)
(* state is small: the budget ledger, the session store, the trace proofs, *)
(* the keys of checkpoints, the cache in memory and the pass manager.      *)
(* They share no state, so a behaviour is one of theirs; the others stay   *)
(* where they are.                                                         *)
EXTENDS MCBudgetLedger, MCSessionStore, MCTraceInclusion, ReplayKeys, MCMemoryArtifactStore,
        MCPassPipeline

VARIABLE service

serviceVars == <<service, vars, sessionVars, traceVars, keyVars, cacheVars, passVars>>

SomeBudget == CHOOSE b \in Offered : TRUE
SomeTask == CHOOSE t \in Tasks : TRUE
SomeBytes == CHOOSE b \in CacheBudget : TRUE
SomeConfig == CHOOSE c \in PassConfigs : TRUE

ServiceInit ==
    /\ service \in {"budget", "sessions", "traces", "keys", "cache", "passes"}
    /\ Init /\ (service = "budget" \/ ledger = SomeBudget)
    /\ SessionInit /\ (service = "sessions" \/ backend = "sqlite")
    /\ TraceInit /\ (service = "traces" \/ task = SomeTask)
    /\ KeyInit /\ (service = "keys" \/ provider = "memory")
    /\ CacheInit /\ (service = "cache" \/ budget_bytes = SomeBytes)
    /\ PassInit /\ (service = "passes" \/ config = SomeConfig)

Only(name, others) == service = name /\ UNCHANGED <<service, others>>

ServiceNext ==
    \/ Only("budget", <<sessionVars, traceVars, keyVars, cacheVars, passVars>>) /\ Next
    \/ Only("sessions", <<vars, traceVars, keyVars, cacheVars, passVars>>) /\ SessionNext
    \/ Only("traces", <<vars, sessionVars, keyVars, cacheVars, passVars>>) /\ TraceNext
    \/ Only("keys", <<vars, sessionVars, traceVars, cacheVars, passVars>>) /\ KeyNext
    \/ Only("cache", <<vars, sessionVars, traceVars, keyVars, passVars>>) /\ CacheNext
    \/ Only("passes", <<vars, sessionVars, traceVars, keyVars, cacheVars>>) /\ PassNext

ServiceSpec == ServiceInit /\ [][ServiceNext]_serviceVars

=============================================================================
