--------------------------- MODULE StorageReceipts ---------------------------
(***************************************************************************)
(* Operation keys and their windows (storage/receipt.rs), shared by the    *)
(* stores of agent memory and of sessions.  A key carries its expiry; a    *)
(* receipt is evidence of its operation until then.                        *)
(***************************************************************************)
EXTENDS Naturals

CONSTANTS
    Key,            \* operation keys (StorageOperationKey)
    Expiry,         \* expires_at of each operation key
    MaxTime,        \* bound of the clock
    MaxWindow       \* max_receipt_retention_seconds

ASSUME ReceiptAssumption == Expiry \in [Key -> Nat] /\ {MaxTime, MaxWindow} \subseteq Nat

VARIABLE now        \* receipt::now()

is_expired(k) == Expiry[k] <= now

validate_window(k) == ~is_expired(k) /\ Expiry[k] - now <= MaxWindow

=============================================================================
