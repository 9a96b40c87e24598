---------------------------- MODULE MCSqliteMemory ----------------------------
(***************************************************************************)
(* A small instance of SqliteMemory.                                       *)
(***************************************************************************)
EXTENDS SqliteMemory, TLC

CONSTANTS p1, p2, a1, a2, a3, k1, k2, v1

R(kind, key, entry, value, cond, version) ==
    [kind |-> kind, key |-> key, entry |-> entry, value |-> value,
     cond |-> [kind |-> cond, version |-> version]]

Create == R("Mutate", k1, 1, v1, "Missing", 0)
Amend == R("Mutate", k2, 1, v1, "Exists", 0)
Replace == R("Unkeyed", k1, 1, v1, "Match", 1)
Erase == R("Unkeyed", k1, 1, Absent, "Any", 0)
Ask == R("Reconcile", k1, 1, v1, "Missing", 0)
Look == R("Get", k1, 1, Absent, "Any", 0)

AllRequests == {Create, Amend, Replace, Erase, Ask, Look}
Mixed ==
    a1 :> {p1} \X {Create} @@ a2 :> {p2} \X {Create, Replace, Erase}
        @@ a3 :> {p1} \X {Amend, Ask, Look}
Expiries == k1 :> 1 @@ k2 :> 2

=============================================================================
