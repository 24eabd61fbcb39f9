---------------------------- MODULE Ledger ----------------------------
(* The double-entry ledger of internal/ledger/service.go over the tables  *)
(* wallets and ledger_entries: every operation is one SQLite transaction, *)
(* so it is one operator here, true when the transaction commits.         *)
EXTENDS Integers, FiniteSets

CONSTANTS
    Payments,     \* ids of the payment requests that may ever be created
    Settlements,  \* ids of the settlement runs that may ever be triggered
    Amount        \* amount_cents of each payment request

ASSUME LedgerAssumption ==
    /\ Payments \cap Settlements = {}
    /\ Amount \in [Payments -> Nat \ {0}]

VARIABLES
    entries,  \* rows of ledger_entries
    balance,  \* wallets.balance_cents, by wallet type
    pending   \* wallets.pending_cents of the ESCROW wallet

ledgerVars == <<entries, balance, pending>>

-----------------------------------------------------------------------------
Wallets    == {"OPERATING", "ESCROW", "FEE"}
Directions == {"DR", "CR"}
EntryTypes == {"PAYMENT_IN", "SIMULATION", "SETTLEMENT", "REVERSAL"}
Refs       == Payments \cup Settlements

Entries == [wallet : Wallets, direction : Directions, type : EntryTypes,
            ref : Refs, cents : Int]

EnsureDefaultWallets ==
    /\ entries = {}
    /\ balance = [w \in Wallets |-> 0]
    /\ pending = 0

-----------------------------------------------------------------------------
(* The unique index on (wallet_id, direction, entry_type, reference_id). *)
SameIndexKey(e, f) ==
    /\ e.wallet = f.wallet
    /\ e.direction = f.direction
    /\ e.type = f.type
    /\ e.ref = f.ref

(* Slip: the unique index is missing. *)
InsertableWithoutIndex(e) == e.cents > 0

(* An INSERT succeeds when no constraint of the table refuses the row. *)
Insertable(e) ==
    /\ e.cents > 0
    /\ \A f \in entries : ~SameIndexKey(e, f)

(* Slip: the credited wallet keeps its balance. *)
postInTxDebitOnly(dr, cr) ==
    /\ Insertable(dr)
    /\ Insertable(cr)
    /\ entries' = entries \cup {dr, cr}
    /\ balance' = [balance EXCEPT ![dr.wallet] = @ + dr.cents]

(* Every caller posts one debit and one credit of the same amount, so the  *)
(* balance check of the code always passes; a debit raises its wallet.     *)
postInTx(dr, cr) ==
    /\ Insertable(dr)
    /\ Insertable(cr)
    /\ entries' = entries \cup {dr, cr}
    /\ balance' = [balance EXCEPT ![dr.wallet] = @ + dr.cents,
                                  ![cr.wallet] = @ - cr.cents]

(* Slip: no floor at 0. *)
ReleasedBelowZero(cents) == pending - cents

(* pending_cents after a release: the CASE of the UPDATE never goes below 0. *)
Released(cents) == IF pending >= cents THEN pending - cents ELSE 0

Entry(wallet, direction, type, ref, cents) ==
    [wallet |-> wallet, direction |-> direction, type |-> type,
     ref |-> ref, cents |-> cents]

Posted(type, ref) == \E e \in entries : e.type = type /\ e.ref = ref

-----------------------------------------------------------------------------
(* Slip: the money is posted but stays pending. *)
ClearWithoutRelease(p) ==
    /\ UNCHANGED pending
    /\ postInTx(Entry("OPERATING", "DR", "PAYMENT_IN", p, Amount[p]),
                Entry("ESCROW", "CR", "SIMULATION", p, Amount[p]))

ClearPendingEscrowToOperating(p) ==
    /\ pending' = Released(Amount[p])
    /\ postInTx(Entry("OPERATING", "DR", "PAYMENT_IN", p, Amount[p]),
                Entry("ESCROW", "CR", "SIMULATION", p, Amount[p]))

RefundPostings(p) ==
    /\ postInTx(Entry("ESCROW", "DR", "REVERSAL", p, Amount[p]),
                Entry("OPERATING", "CR", "REVERSAL", p, Amount[p]))
    /\ UNCHANGED pending

RunSettlement(run, cents) ==
    /\ postInTx(Entry("ESCROW", "DR", "SETTLEMENT", run, cents),
                Entry("OPERATING", "CR", "SETTLEMENT", run, cents))
    /\ UNCHANGED pending

=============================================================================
