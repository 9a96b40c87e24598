---------------------------- MODULE MCBudgetLedger ----------------------------
(* Small instances of BudgetLedger for TLC.                                *)
EXTENDS BudgetLedger, TLC

Granting(tokens, cost, currency) == [tokens |-> tokens, cost |-> cost, currency |-> currency]
SomeBudgets == {Granting(2, None, NoCurrency), Granting(None, 2, "EUR"), Granting(None, 2, "USD")}

Symmetry == Permutations(Client)

=============================================================================
