----------------------------- MODULE PassPipeline -----------------------------
(***************************************************************************)
(* The pass manager (etas_utils/src/pipeline).  A pipeline is a list of    *)
(* passes, groups and loops over units; the manager runs it, and keeps the *)
(* artifacts that are available and a cache of analyses from one pipeline  *)
(* to the next.  A pass may fail, stop the pipeline, be interrupted, ask   *)
(* for analyses, and run a pipeline of its own before it returns.          *)
(*                                                                         *)
(* The call stack of run_steps is flattened to the list of what is still   *)
(* to do: a loop is in the list after its body, with the units it has not  *)
(* come to and the unit that it restores; a pass that runs becomes its     *)
(* nested steps and a step that takes its result.  What a pass computes is *)
(* abstracted to its result.  Records, statistics, timings and             *)
(* instrumentation observe the run and are left out.                       *)
(***************************************************************************)
EXTENDS Naturals, Sequences, FiniteSetsExt

CONSTANTS
    Passes,         \* name -> [scope, requires, produces, nested, nested_unit]
    Steps,          \* the steps that pipelines are made of
    Pipelines,      \* the pipelines a caller may run
    Unit,           \* identities of units
    UnitLists,      \* what the context may answer when it is asked for units
    Preserves,      \* the PreservedArtifacts a pass may report
    Extras,         \* what a pass may produce beyond its descriptor
    Analyses,       \* keys of analyses
    PassConfigs,    \* [disabled, stop_before, stop_after]
    MaxRuns         \* pipelines run one after the other

NoUnit == "no unit"

(* The scope of a reference is "global", a unit, or "kind" in a descriptor *)
(* or a report; "analysis" marks analyses in the history.                  *)
ASSUME PassAssumption ==
    /\ Pipelines \subseteq Seq(Steps) /\ UnitLists \subseteq Seq(Unit) /\ MaxRuns \in Nat
    /\ {NoUnit, "analysis"} \cap Unit = {}
    /\ \A s \in Steps : \/ s.kind = "pass" /\ s.pass \in DOMAIN Passes
                        \/ s.kind \in {"group", "foreach"} /\ s.steps \in Seq(Steps)
    /\ \A name \in DOMAIN Passes :
         /\ Passes[name].nested \in Seq(Steps) /\ Passes[name].nested_unit \in Unit \cup {NoUnit}
         /\ \A ref \in Passes[name].requires \cup Passes[name].produces : ref[2] # "analysis"
    /\ \A extra \in Extras : \A ref \in extra : ref[2] # "analysis"
    /\ \A p \in Preserves : p.kind \in {"All", "None", "Some"}

VARIABLES
    config,
    foreach_allowed,    \* run_pipeline, or run_global_pipeline
    todo,
    current_unit,
    artifacts,          \* references <<key, scope>>
    analyses,           \* keys
    control,            \* how the last pipeline ended
    runs,
    current,            \* history: references and analyses that describe the context
    interrupted         \* history: a pass was interrupted after it changed the context

passVars == <<config, foreach_allowed, todo, current_unit, artifacts, analyses, control, runs,
              current, interrupted>>

SetUnit(unit) == [kind |-> "unit", unit |-> unit]
Loop(units, steps, unit) == [kind |-> "loop", units |-> units, steps |-> steps, unit |-> unit]
TakeResult(pass) == [kind |-> "result", pass |-> pass, unit |-> current_unit]

(* A reference of a unit's kind means the unit that is current; without    *)
(* one it means nothing.                                                   *)
resolve_artifact_set(refs, unit) ==
    {ref \in refs : ref[2] # "kind"}
        \cup (IF unit = NoUnit THEN {} ELSE {<<ref[1], unit>> : ref \in {r \in refs : r[2] = "kind"}})

resolvable(refs, unit) == unit # NoUnit \/ \A ref \in refs : ref[2] # "kind"

scope_matches(scope, unit) == (scope = "global") <=> (unit = NoUnit)

(* invalidate_after_change for artifacts and AnalysisCache::invalidate.    *)
Kept(preserved, refs) ==
    CASE preserved.kind = "All" -> refs
      [] preserved.kind = "None" -> {}
      [] preserved.kind = "Some" -> refs \cap preserved.refs

KeptAnalyses(preserved, keys) ==
    CASE preserved.kind = "All" -> keys
      [] preserved.kind = "None" -> {}
      [] preserved.kind = "Some" -> {key \in keys : <<key, "global">> \in preserved.refs}

-----------------------------------------------------------------------------
PassInit ==
    /\ config \in PassConfigs
    /\ foreach_allowed = TRUE
    /\ todo = <<>>
    /\ current_unit = NoUnit
    /\ artifacts = {} /\ analyses = {}
    /\ control = "Continue"
    /\ runs = 0
    /\ current = {}
    /\ interrupted = FALSE

run_pipeline ==
    /\ todo = <<>> /\ runs < MaxRuns
    /\ runs' = runs + 1
    /\ todo' \in Pipelines
    /\ config' \in PassConfigs
    /\ foreach_allowed' \in BOOLEAN
    /\ current_unit' = NoUnit
    /\ control' = "Continue"
    /\ UNCHANGED <<artifacts, analyses, current, interrupted>>

(* Between two pipelines the caller may vouch for what a pass requires.    *)
mark_artifacts_available ==
    /\ todo = <<>> /\ runs < MaxRuns
    /\ \E name \in DOMAIN Passes :
         LET refs == {ref \in Passes[name].requires : ref[2] # "kind"}
         IN  artifacts' = artifacts \cup refs /\ current' = current \cup refs
    /\ UNCHANGED <<config, foreach_allowed, todo, current_unit, analyses, control, runs, interrupted>>

At(kind) == todo # <<>> /\ Head(todo).kind = kind

(* Where the pass is whose nested pipeline this is, or the end.            *)
CallerAt ==
    LET passes == {i \in 2..Len(todo) : todo[i].kind = "result"}
    IN  IF passes = {} THEN Len(todo) + 1 ELSE Min(passes)

(* A break that leaves the unit as it is.                                  *)
ReturnInUnit(outcome) ==
    /\ todo' = SubSeq(todo, CallerAt, Len(todo))
    /\ control' = IF CallerAt > Len(todo) THEN outcome ELSE control
    /\ UNCHANGED current_unit

(* A step that does not continue leaves every loop and group on the way to *)
(* the caller, and each restores the unit that it had found.               *)
Return(outcome) ==
    LET restoring == {i \in 1 .. CallerAt - 1 : todo[i].kind \in {"unit", "loop"}}
    IN  /\ todo' = SubSeq(todo, CallerAt, Len(todo))
        /\ control' = IF CallerAt > Len(todo) THEN outcome ELSE control
        /\ current_unit' = IF restoring = {} THEN current_unit ELSE todo[Max(restoring)].unit

Continue == todo' = Tail(todo) /\ UNCHANGED <<current_unit, control>>

RunGroup ==
    /\ At("group")
    /\ todo' = Head(todo).steps \o Tail(todo)
    /\ UNCHANGED <<config, foreach_allowed, current_unit, artifacts, analyses, control, runs,
                   current, interrupted>>

(* Only the steps of run_global_pipeline itself refuse to loop.            *)
MayLoop == foreach_allowed \/ CallerAt <= Len(todo)

RunForEach ==
    /\ At("foreach") /\ MayLoop
    /\ \E units \in UnitLists :
         todo' = <<Loop(units, Head(todo).steps, current_unit)>> \o Tail(todo)
    /\ UNCHANGED <<config, foreach_allowed, current_unit, artifacts, analyses, control, runs,
                   current, interrupted>>

NextUnit ==
    LET loop == Head(todo)
    IN  /\ At("loop") /\ loop.units # <<>>
        /\ current_unit' = Head(loop.units)
        /\ todo' = loop.steps \o <<Loop(Tail(loop.units), loop.steps, loop.unit)>> \o Tail(todo)
        /\ UNCHANGED <<config, foreach_allowed, artifacts, analyses, control, runs, current, interrupted>>

RefuseForEach ==
    /\ At("foreach") /\ ~MayLoop
    /\ Return("Failed")
    /\ UNCHANGED <<config, foreach_allowed, artifacts, analyses, runs, current, interrupted>>

(* After the last unit, and around a nested pipeline.                      *)
EnterUnit ==
    /\ At("unit") \/ (At("loop") /\ Head(todo).units = <<>>)
    /\ current_unit' = Head(todo).unit
    /\ todo' = Tail(todo)
    /\ UNCHANGED <<config, foreach_allowed, artifacts, analyses, control, runs, current, interrupted>>

-----------------------------------------------------------------------------
(* run_pass, up to the call of the pass.                                   *)
Name == Head(todo).pass
Pass == Passes[Name]

(* finish_pass of a failed result: outputs that were declared or reported  *)
(* are no longer available, even if an earlier run had produced them.      *)
Rejected(extra) == resolve_artifact_set(Pass.produces \cup extra, current_unit)

(* History: what a pass of that unit is responsible for, and what of the   *)
(* current facts is still one after a change that preserves so much.       *)
Outputs(name, extra, unit) == resolve_artifact_set(Passes[name].produces \cup extra, unit)

Surviving(preserved) ==
    {fact \in current :
       \/ preserved.kind = "All"
       \/ preserved.kind = "Some" /\ (IF fact[2] = "analysis" THEN <<fact[1], "global">> ELSE fact)
                                       \in preserved.refs}

Missing ==
    \/ ~resolvable(Pass.requires, current_unit)
    \/ ~(resolve_artifact_set(Pass.requires, current_unit) \subseteq artifacts)

Runs == Name \notin config.disabled

(* An interruption may come before any pass; a scope that does not match   *)
(* and a missing requirement leave nothing else to do.                     *)
RefusePass ==
    /\ At("pass")
    /\ artifacts' = artifacts \ Rejected({})
    /\ Return("Failed")
    /\ current' = current \ Outputs(Name, {}, current_unit)
    /\ UNCHANGED <<config, foreach_allowed, analyses, runs, interrupted>>

SkipPass ==
    /\ At("pass") /\ ~Runs
    /\ Continue
    /\ UNCHANGED <<config, foreach_allowed, artifacts, analyses, runs, current, interrupted>>

StopBefore ==
    /\ At("pass") /\ Runs /\ scope_matches(Pass.scope, current_unit) /\ config.stop_before = Name
    /\ Return("Stop")
    /\ UNCHANGED <<config, foreach_allowed, artifacts, analyses, runs, current, interrupted>>

(* run_nested_pipeline sets the unit it is given and restores it.          *)
StartPass ==
    /\ At("pass") /\ Runs /\ scope_matches(Pass.scope, current_unit)
    /\ config.stop_before # Name /\ ~Missing
    /\ todo' = (IF Pass.nested = <<>> THEN <<>>
                ELSE <<SetUnit(Pass.nested_unit)>> \o Pass.nested \o <<SetUnit(current_unit)>>)
                 \o <<TakeResult(Name)>> \o Tail(todo)
    /\ UNCHANGED <<config, foreach_allowed, current_unit, artifacts, analyses, control, runs,
                   current, interrupted>>

-----------------------------------------------------------------------------
(* While a pass runs it may ask for analyses.                              *)
get_or_run ==
    /\ At("result")
    /\ \E key \in Analyses :
         /\ analyses' = analyses \cup {key}
         /\ current' = IF key \in analyses THEN current ELSE current \cup {<<key, "analysis">>}
    /\ UNCHANGED <<config, foreach_allowed, todo, current_unit, artifacts, control, runs, interrupted>>

(* An interruption replaces the result, also the news of a change.         *)
InterruptPass ==
    /\ At("result")
    /\ artifacts' = artifacts \ Rejected({})
    /\ Return("Failed")
    /\ interrupted' \in {interrupted, TRUE}
    /\ current' = current \ Outputs(Name, {}, Head(todo).unit)
    /\ UNCHANGED <<config, foreach_allowed, analyses, runs>>

(* invalidate_after_change, if the pass reports a change.                  *)
Invalidate(changed, preserved) ==
    analyses' = IF changed THEN KeptAnalyses(preserved, analyses) ELSE analyses

Remaining(changed, preserved) == IF changed THEN Kept(preserved, artifacts) ELSE artifacts

FailPass ==
    /\ At("result")
    /\ \E changed \in BOOLEAN, preserved \in Preserves, extra \in Extras :
         /\ Invalidate(changed, preserved)
         /\ artifacts' = Remaining(changed, preserved) \ Rejected(extra)
         /\ current' = (IF changed THEN Surviving(preserved) ELSE current)
                          \ Outputs(Name, extra, Head(todo).unit)
    /\ Return("Failed")
    /\ UNCHANGED <<config, foreach_allowed, runs, interrupted>>

FinishPass ==
    /\ At("result")
    /\ \E changed \in BOOLEAN, preserved \in Preserves, extra \in Extras :
         /\ Invalidate(changed, preserved)
         /\ artifacts' = Remaining(changed, preserved)
                            \cup resolve_artifact_set(Pass.produces \cup extra, current_unit)
         /\ current' = (IF changed THEN Surviving(preserved) ELSE current)
                          \cup Outputs(Name, extra, Head(todo).unit)
    /\ \/ config.stop_after # Name /\ Continue
       \/ Return("Stop")
    /\ UNCHANGED <<config, foreach_allowed, runs, interrupted>>

PassNext ==
    \/ run_pipeline \/ mark_artifacts_available \/ RunGroup \/ RunForEach \/ RefuseForEach
    \/ NextUnit \/ EnterUnit \/ RefusePass \/ SkipPass \/ StopBefore \/ StartPass
    \/ get_or_run \/ InterruptPass \/ FailPass \/ FinishPass

PassSpec == PassInit /\ [][PassNext]_passVars

-----------------------------------------------------------------------------
PassTypeOK ==
    /\ config \in PassConfigs
    /\ runs \in 0..MaxRuns
    /\ control \in {"Continue", "Stop", "Failed"}
    /\ analyses \subseteq Analyses
    /\ \A i \in 1 .. Len(todo) : todo[i].kind \in {"pass", "group", "foreach", "loop", "unit", "result"}

(* Through loops over units, nested pipelines, failures and any sequence of *)
(* pipelines: what the manager lists as available, and what its cache holds *)
(* for the next caller of an analysis, describes the context as it is now,  *)
(* if every pass reported truly what its change preserves.  A failed pass   *)
(* takes its outputs back, of its own unit and of no other, and a pass's    *)
(* result is taken while the unit is current for which it was run.  The     *)
(* promise ends when a pass is interrupted after it has changed the         *)
(* context, since its report is thrown away.                                *)
AvailableIsCurrent ==
    /\ PassTypeOK
    /\ At("result") => current_unit = Head(todo).unit
    /\ todo = <<>> => current_unit = NoUnit
    /\ ~interrupted =>
         /\ artifacts \subseteq current
         /\ \A key \in analyses : <<key, "analysis">> \in current
=============================================================================
