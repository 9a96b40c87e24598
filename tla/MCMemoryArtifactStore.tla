------------------------ MODULE MCMemoryArtifactStore ------------------------
(* Four keys, and two allocations that entries share with different sizes. *)
EXTENDS MemoryArtifactStore, TLC

Put(key, dependencies, footprint) ==
    [key |-> key, dependencies |-> dependencies, footprint |-> footprint, bookkeeping |-> 1]

Artifacts ==
    { Put("a", {}, "x" :> 2), Put("a", {}, "x" :> 3 @@ "y" :> 9), Put("a", {"c"}, "a" :> 4),
      Put("b", {"a"}, "x" :> 3 @@ "b" :> 1), Put("b", {}, "y" :> 2),
      Put("c", {"b"}, "c" :> 2 @@ "y" :> 3), Put("c", {"source"}, "x" :> 1),
      Put("d", {"source", "c"}, "d" :> 1 @@ "y" :> 2) }

=============================================================================
