------------------------- MODULE MCDiskArtifactStore -------------------------
(* Small instances of DiskArtifactStore for TLC.                           *)
EXTENDS DiskArtifactStore, TLC

Art(k, f, h, c, on) ==
    [key |-> k, fingerprint |-> f, hash |-> h, codec |-> c, dependencies |-> on]

(* Two keys with the same payload but different codecs, and a second       *)
(* version of the first.                                                   *)
SharedPayload ==
    {Art("a", "f1", "h1", "plain", {}), Art("b", "f1", "h1", "packed", {"a"}),
     Art("a", "f2", "h2", "plain", {})}

(* A chain c -> b -> a whose middle can be written without its edge.       *)
Chain ==
    {Art("a", "f1", "h1", "plain", {}), Art("b", "f1", "h2", "plain", {"a"}),
     Art("b", "f1", "h2", "plain", {}), Art("c", "f1", "h2", "plain", {"b"})}

Deploy(written, collectors, budget) ==
    [artifacts |-> written, collectors |-> collectors, budget |-> budget]

(* Payloads are shared, evicted and collected; or a graph of artifacts is  *)
(* written and invalidated, and nothing is collected.                      *)
Deployments == {Deploy(SharedPayload, Process, 1), Deploy(Chain, {}, 3)}

(* One process collects what another is about to use.                      *)
OneCollector == {Deploy(SharedPayload, {CHOOSE p \in Process : TRUE}, 2)}

Symmetry == Permutations(Process)

=============================================================================
