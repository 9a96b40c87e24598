----------------------------- MODULE BudgetLedger -----------------------------
(***************************************************************************)
(* The run-owned budget of etas_host (context/budget/execution.rs): one    *)
(* ledger of tokens and cost behind a lock, shared by every scoped view of *)
(* the budget.  A client reserves before it calls a model or a tool, and   *)
(* settles or releases once it knows what was consumed.  The ledger can be *)
(* saved in a checkpoint, restored from it after a restart, and resumed    *)
(* under the budget of another invocation.                                 *)
(*                                                                         *)
(* Every call is one critical section.  Counters have a fixed width, and   *)
(* every sum is a checked_add.                                             *)
(***************************************************************************)
EXTENDS Integers, FiniteSets

CONSTANTS
    Client,     \* holders of a view of the budget
    Currency,   \* currency names
    MaxValue,   \* the largest value of a counter (u64::MAX, u128::MAX)
    Amount,     \* amounts that are reserved and consumed
    Limit,      \* limits a budget may set
    Offered     \* the budgets that runs, scopes and invocations bring

None == -1      \* Option::None, for a limit and for a reservation
NoCurrency == "none"

Budget == {b \in [tokens : Limit \cup {None}, cost : Limit \cup {None},
                  currency : Currency \cup {NoCurrency}] :
              (b.cost = None) <=> (b.currency = NoCurrency)}

ASSUME BudgetAssumption ==
    /\ MaxValue \in Nat /\ Amount \subseteq 0 .. MaxValue /\ Limit \subseteq 0 .. MaxValue
    /\ NoCurrency \notin Currency
    /\ Offered \subseteq Budget
    /\ IsFiniteSet(Client)

VARIABLES
    ledger,     \* max_tokens, max_cost_micros and cost_currency
    reserved,   \* reserved_tokens, reserved_cost_micros
    consumed,   \* consumed_tokens, consumed_cost_micros
    view,       \* ExecutionBudget.limits of each client
    held,       \* the reservations each client holds
    paid_in,    \* CostReservation.currency of each client's
    lost,       \* reservations on the books that no client holds any more
    reported,   \* resources whose exhaustion a settlement has reported
    inherited   \* what a restored ledger started with

vars == <<ledger, reserved, consumed, view, held, paid_in, lost, reported, inherited>>

Resource == {"tokens", "cost"}
Counters == [Resource -> 0 .. MaxValue]
Zero == [r \in Resource |-> 0]
NothingHeld == [r \in Resource |-> None]

-----------------------------------------------------------------------------
(* Limits *)

minimum_limit(a, b) ==
    IF a = None THEN b ELSE IF b = None THEN a ELSE IF a < b THEN a ELSE b

validate_currency(c, cur) ==
    /\ ledger.currency \in {NoCurrency, cur}
    /\ view[c].currency \in {NoCurrency, cur}

(* stricter_budget_limits fails when both name a currency and they differ. *)
Compatible(a, b) == NoCurrency \in {a.currency, b.currency} \/ a.currency = b.currency
stricter_budget_limits(a, b) ==
    [tokens |-> minimum_limit(a.tokens, b.tokens),
     cost |-> minimum_limit(a.cost, b.cost),
     currency |-> IF a.currency = NoCurrency THEN b.currency ELSE a.currency]

LimitFor(c, r) == minimum_limit(ledger[r], view[c][r])
Exceeds(total, max) == total > MaxValue \/ (max # None /\ total > max)
Used(r) == consumed[r] + reserved[r]

-----------------------------------------------------------------------------
(* Calls on a view *)

(* Mutant of Reserve: outstanding reservations are not counted.            *)
ReserveIgnoresReserved(c, r, n, cur) ==
    /\ held[c][r] = None
    /\ r = "cost" => validate_currency(c, cur)
    /\ ~Exceeds(consumed[r] + n, LimitFor(c, r))
    /\ reserved' = [reserved EXCEPT ![r] = @ + n]
    /\ held' = [held EXCEPT ![c][r] = n]
    /\ paid_in' = IF r = "cost" THEN [paid_in EXCEPT ![c] = cur] ELSE paid_in
    /\ UNCHANGED <<ledger, consumed, view, lost, reported, inherited>>

(* reserve_tokens and reserve_cost; a refusal changes nothing.             *)
Reserve(c, r, n, cur) ==
    /\ held[c][r] = None
    /\ r = "cost" => validate_currency(c, cur)
    /\ ~Exceeds(Used(r) + n, LimitFor(c, r))
    /\ reserved' = [reserved EXCEPT ![r] = @ + n]
    /\ held' = [held EXCEPT ![c][r] = n]
    /\ paid_in' = IF r = "cost" THEN [paid_in EXCEPT ![c] = cur] ELSE paid_in
    /\ UNCHANGED <<ledger, consumed, view, lost, reported, inherited>>

(* Every other call consumes the reservations it is given.  They stay on   *)
(* the books when it is refused.                                           *)
Spend(c, rs) ==
    /\ rs # {} /\ \A r \in rs : held[c][r] # None
    /\ held' = [held EXCEPT ![c] = [r \in Resource |-> IF r \in rs THEN None ELSE @[r]]]
    /\ paid_in' = IF "cost" \in rs THEN [paid_in EXCEPT ![c] = NoCurrency] ELSE paid_in
    /\ UNCHANGED <<ledger, view, inherited>>

Left(c, rs) == [r \in Resource |-> IF r \in rs THEN reserved[r] - held[c][r] ELSE reserved[r]]
Plus(con, n, rs) == [r \in Resource |-> IF r \in rs THEN con[r] + n[r] ELSE con[r]]

Refused(c, rs) ==
    /\ lost' = [r \in Resource |-> IF r \in rs THEN lost[r] + held[c][r] ELSE lost[r]]
    /\ UNCHANGED <<reserved, consumed>>

(* The currency of a cost reservation is checked again on the way out.     *)
Redeemable(c, rs) == "cost" \in rs => validate_currency(c, paid_in[c])

(* settle_tokens and settle_cost: the reservation is taken off first; the  *)
(* consumption is booked unless the counter overflows; the limit is only   *)
(* checked afterwards, and its error does not undo anything.               *)
Settle(c, r, n) ==
    LET next == consumed[r] + n
        over == next > MaxValue \/ Exceeds(next + Left(c, {r})[r], LimitFor(c, r))
    IN  /\ Spend(c, {r})
        /\ \/ /\ Redeemable(c, {r})
              /\ reserved' = Left(c, {r})
              /\ consumed' = [consumed EXCEPT ![r] = IF next > MaxValue THEN @ ELSE next]
              /\ reported' = IF over THEN reported \cup {r} ELSE reported
              /\ UNCHANGED lost
           \/ ~Redeemable(c, {r}) /\ Refused(c, {r}) /\ UNCHANGED reported

(* release_tokens, release_cost and release_usage                          *)
Release(c, rs) ==
    /\ Spend(c, rs)
    /\ \/ /\ Redeemable(c, rs)
          /\ reserved' = Left(c, rs)
          /\ UNCHANGED <<consumed, lost>>
       \/ ~Redeemable(c, rs) /\ Refused(c, rs)
    /\ UNCHANGED reported

(* Mutant of SettleUsage: the parts are checked and booked one by one.     *)
SettleUsageInParts(c, rs, n) ==
    LET fits == {r \in rs : ~Exceeds(consumed[r] + n[r] + Left(c, rs)[r], LimitFor(c, r))}
    IN  /\ "tokens" \in rs /\ Spend(c, rs)
        /\ reserved' = Left(c, fits)
        /\ consumed' = Plus(consumed, n, fits)
        /\ UNCHANGED <<lost, reported>>

(* settle_usage books both resources or neither: a settlement beyond a     *)
(* limit is refused as a whole.  Without a limit only the counter itself   *)
(* is checked for overflow, not its sum with the reservations.             *)
SettleUsage(c, rs, n) ==
    LET over == {r \in rs :
                    \/ consumed[r] + n[r] > MaxValue
                    \/ /\ LimitFor(c, r) # None
                       /\ Exceeds(consumed[r] + n[r] + Left(c, rs)[r], LimitFor(c, r))}
        fails == IF "tokens" \in over THEN {"tokens"}
                 ELSE IF Redeemable(c, rs) THEN over ELSE {}
    IN  /\ "tokens" \in rs /\ Spend(c, rs)
        /\ reported' = reported \cup fails
        /\ \/ /\ over = {} /\ Redeemable(c, rs)
              /\ reserved' = Left(c, rs)
              /\ consumed' = Plus(consumed, n, rs)
              /\ UNCHANGED lost
           \/ (over # {} \/ ~Redeemable(c, rs)) /\ Refused(c, rs)

(* with_limits: the client goes on with a narrower view of the same ledger. *)
WithLimits(c, b) ==
    /\ Compatible(view[c], b)
    /\ view' = [view EXCEPT ![c] = stricter_budget_limits(view[c], b)]
    /\ UNCHANGED <<ledger, reserved, consumed, held, paid_in, lost, reported, inherited>>

-----------------------------------------------------------------------------
(* Checkpoints *)

(* A ledger with the counters res and con and the limits b.  Whoever held  *)
(* a reservation is gone.                                                  *)
Restored(b, res, con) ==
    /\ \A r \in Resource : res[r] + con[r] <= MaxValue
    /\ ledger' = b
    /\ reserved' = res
    /\ consumed' = con
    /\ view' = [c \in Client |-> b]
    /\ held' = [c \in Client |-> NothingHeld]
    /\ paid_in' = [c \in Client |-> NoCurrency]
    /\ lost' = res
    /\ reported' = {}
    /\ inherited' = [r \in Resource |-> res[r] + con[r]]

(* restore from a snapshot.  The run that took it is gone, and so is all   *)
(* it did later: the state after a crash and a restart is the state in     *)
(* which the snapshot was taken, restored.                                 *)
Restore(b) == Restored(b, reserved, consumed)

(* resume_under a fresh invocation with budget b, from a client's view.    *)
ResumeUnder(c, b) ==
    /\ Compatible(view[c], b)
    /\ Restored(stricter_budget_limits(view[c], b), reserved, consumed)

-----------------------------------------------------------------------------
Init ==
    /\ ledger \in Offered
    /\ reserved = Zero /\ consumed = Zero
    /\ view = [c \in Client |-> ledger]
    /\ held = [c \in Client |-> NothingHeld]
    /\ paid_in = [c \in Client |-> NoCurrency]
    /\ lost = Zero /\ reported = {} /\ inherited = Zero

ClientNext(c) ==
    \/ \E n \in Amount : Reserve(c, "tokens", n, NoCurrency) \/ \E cur \in Currency : Reserve(c, "cost", n, cur)
    \/ \E r \in Resource, n \in Amount : Settle(c, r, n)
    \/ \E rs \in SUBSET Resource :
           Release(c, rs) \/ \E n \in [rs -> Amount] : SettleUsage(c, rs, n)
    \/ \E b \in Offered : WithLimits(c, b) \/ ResumeUnder(c, b)

Next == (\E b \in Offered : Restore(b)) \/ \E c \in Client : ClientNext(c)

Spec == Init /\ [][Next]_vars

-----------------------------------------------------------------------------
(* Properties *)

TypeOK ==
    /\ ledger \in Budget
    /\ reserved \in Counters /\ consumed \in Counters
    /\ view \in [Client -> Budget]
    /\ held \in [Client -> [Resource -> Amount \cup {None}]]
    /\ paid_in \in [Client -> Currency \cup {NoCurrency}]
    /\ lost \in Counters /\ inherited \in Counters
    /\ reported \subseteq Resource

(* The units of a resource that clients hold, numbered for each client.    *)
HeldUnits(r) == {u \in Client \X (1 .. MaxValue) : u[2] <= held[u[1]][r]}

(* Every reserved unit is accounted for: a client can still settle or      *)
(* release it, or it was left behind by a refused settlement or a restart. *)
(* So no settlement meets "reservation exceeds the run-owned count".       *)
ReservedIsHeld ==
    /\ TypeOK
    /\ \A r \in Resource : reserved[r] = lost[r] + Cardinality(HeldUnits(r))

(* The budget is never overrun in silence: once more is used than the      *)
(* run's limit, a settlement has said so, or the ledger was that full when *)
(* it was restored.                                                        *)
NoSilentOverrun ==
    \A r \in Resource :
        ledger[r] # None /\ Used(r) > ledger[r] => r \in reported \/ Used(r) <= inherited[r]

=============================================================================
