---------------------------- MODULE MCSessionStore ----------------------------
(***************************************************************************)
(* A small instance of SessionStore.  The messages with the dedup key are  *)
(* past a retention of one day when the clock has moved once; m2 is m1     *)
(* sent again under another id.                                            *)
(***************************************************************************)
EXTENDS SessionStore, TLC

CONSTANTS r1, c1, c2, k1, k2, k3, m1, m2, m3, d1, x1

M(id, dedup, created) == [id |-> id, dedup |-> dedup, created |-> created, body |-> x1]

Messages == {M(m1, d1, -1), M(m2, d1, -1), M(m3, Null, 0)}
Configs == {[days |-> 1], [days |-> Forever]}
Bares == {[days |-> 1], M(m1, d1, -1), M(m3, Null, 0)}
Policies == {All, 1}

(* k2 and k3 can be used at time 1, which k1 has expired by.               *)
Expiries == k1 :> 1 @@ k2 :> 2 @@ k3 :> 2

Intentions ==
    c1 :> {<<"Append", k1>>, <<"Retain", k2>>}
        @@ c2 :> {<<"Resolve", k1>>, <<"Retry", k1>>, <<"Reconcile", k1>>, <<"Retry", k2>>,
                  <<"Retain", k3>>, <<"Publish", k1>>}

=============================================================================
