-------------------------- MODULE MoneyProofs --------------------------
(* Proofs about sums of money: the balances of the wallets and the totals of *)
(* the ledger, the money in flight, and what the report reads of them.       *)
EXTENDS Reporting, GatewayAgreement, FiniteSums

-----------------------------------------------------------------------------
(* The sums of GatewayTotals and Reporting are sums of functions. *)

CentsOf == [e \in Entries |-> e.cents]

LEMMA CentsOfType == CentsOf \in [Entries -> Int]
BY DEF CentsOf, Entries

LEMMA CentsIsSum ==
  ASSUME NEW rows, IsFiniteSet(rows), rows \subseteq Entries
  PROVE  Cents(rows) = SumOver(CentsOf, rows)
<1> DEFINE Adds(f) ==
      f = [s \in SUBSET rows |->
             IF s = {} THEN 0
             ELSE (CHOOSE x \in s : TRUE).cents + f[s \ {CHOOSE x \in s : TRUE}]]
<1>1. PICK f : Sums(CentsOf, rows, f)
  BY CentsOfType, SumOverFact
<1>2. ASSUME NEW g PROVE Adds(g) <=> Summing(CentsOf, rows, g)
  <2>1. \A s \in SUBSET rows : s # {} => CentsOf[AnyOf(s)] = (CHOOSE x \in s : TRUE).cents
    BY AnyOfIn DEF AnyOf, CentsOf
  <2> QED BY <2>1 DEF Summing, AnyOf
<1>3. Adds(f)
  BY <1>1, <1>2 DEF Sums
<1>4. PICK g : Adds(g) /\ Cents(rows) = g[rows]
  BY <1>3, Zenon DEF Cents, MapThenSumSet, MapThenFoldSet
<1>5. rows \in SUBSET rows /\ Summing(CentsOf, rows, f) /\ Summing(CentsOf, rows, g)
  BY <1>1, <1>2, <1>4 DEF Sums
<1> HIDE DEF Adds
<1>6. g[rows] = f[rows]
  BY <1>5, SummingUnique
<1> QED BY <1>1, <1>4, <1>5, <1>6 DEF Sums

LEMMA AmountType == Amount \in [Payments -> Int] /\ \A p \in Payments : Amount[p] > 0
BY LedgerAssumption

LEMMA AmountIsSum ==
  ASSUME NEW ps, IsFiniteSet(ps), ps \subseteq Payments
  PROVE  AmountOf(ps) = SumOver(Amount, ps)
<1> DEFINE Adds(f) ==
      f = [s \in SUBSET ps |->
             IF s = {} THEN 0
             ELSE Amount[CHOOSE x \in s : TRUE] + f[s \ {CHOOSE x \in s : TRUE}]]
<1>1. PICK f : Sums(Amount, ps, f)
  BY AmountType, SumOverFact
<1>2. \A g : Adds(g) <=> Summing(Amount, ps, g)
  BY DEF Summing, AnyOf
<1>3. Adds(f)
  BY <1>1, <1>2 DEF Sums
<1>4. PICK g : Adds(g) /\ AmountOf(ps) = g[ps]
  BY <1>3, Zenon DEF AmountOf, MapThenSumSet, MapThenFoldSet
<1>5. ps \in SUBSET ps /\ Summing(Amount, ps, f) /\ Summing(Amount, ps, g)
  BY <1>1, <1>2, <1>4 DEF Sums
<1> HIDE DEF Adds
<1>6. g[ps] = f[ps]
  BY <1>5, SummingUnique
<1> QED BY <1>1, <1>4, <1>5, <1>6 DEF Sums

LEMMA BalanceIsSum ==
  ASSUME balance \in [Wallets -> Int]
  PROVE  BalanceOf(Wallets) = balance["OPERATING"] + balance["ESCROW"] + balance["FEE"]
<1> DEFINE Adds(f) ==
      f = [s \in SUBSET Wallets |->
             IF s = {} THEN 0
             ELSE balance[CHOOSE x \in s : TRUE] + f[s \ {CHOOSE x \in s : TRUE}]]
<1>0. IsFiniteSet({"OPERATING", "ESCROW"}) /\ IsFiniteSet({"OPERATING"}) /\ IsFiniteSet(Wallets)
  <2>1. IsFiniteSet({"OPERATING"})
    BY FS_Singleton
  <2>2. IsFiniteSet({"OPERATING"} \cup {"ESCROW"})
    BY <2>1, FS_AddElement
  <2>3. IsFiniteSet(({"OPERATING"} \cup {"ESCROW"}) \cup {"FEE"})
    BY <2>2, FS_AddElement
  <2>4. /\ {"OPERATING"} \cup {"ESCROW"} = {"OPERATING", "ESCROW"}
        /\ {"OPERATING", "ESCROW"} \cup {"FEE"} = Wallets
    BY DEF Wallets
  <2> QED BY <2>1, <2>2, <2>3, <2>4
<1>1. PICK f : Sums(balance, Wallets, f)
  BY <1>0, SumOverFact
<1>2. \A g : Adds(g) <=> Summing(balance, Wallets, g)
  BY DEF Summing, AnyOf
<1>3. Adds(f)
  BY <1>1, <1>2 DEF Sums
<1>4. PICK g : Adds(g) /\ BalanceOf(Wallets) = g[Wallets]
  BY <1>3, Zenon DEF BalanceOf, MapThenSumSet, MapThenFoldSet
<1>5. Wallets \in SUBSET Wallets /\ Summing(balance, Wallets, f) /\ Summing(balance, Wallets, g)
  BY <1>1, <1>2, <1>4 DEF Sums
<1> HIDE DEF Adds
<1>6. BalanceOf(Wallets) = SumOver(balance, Wallets)
  BY <1>0, <1>1, <1>4, <1>5, SummingUnique DEF Sums
<1>7. SumOver(balance, Wallets) = balance["FEE"] + SumOver(balance, {"OPERATING", "ESCROW"})
  <2>1. Wallets \ {"FEE"} = {"OPERATING", "ESCROW"} /\ "FEE" \in Wallets
    BY DEF Wallets
  <2> QED BY <1>0, <2>1, SumSplit
<1>8. SumOver(balance, {"OPERATING", "ESCROW"}) = balance["ESCROW"] + SumOver(balance, {"OPERATING"})
  <2>1. /\ {"OPERATING", "ESCROW"} \ {"ESCROW"} = {"OPERATING"}
        /\ {"OPERATING", "ESCROW"} \subseteq Wallets
        /\ "ESCROW" \in {"OPERATING", "ESCROW"}
    BY DEF Wallets
  <2> QED BY <1>0, <2>1, SumSplit
<1>9. SumOver(balance, {"OPERATING"}) = balance["OPERATING"] + 0
  <2>1. {"OPERATING"} \ {"OPERATING"} = {} /\ {"OPERATING"} \subseteq Wallets
    BY DEF Wallets
  <2>2. SumOver(balance, {}) = 0
    BY SumEmpty
  <2> QED BY <1>0, <2>1, <2>2, SumSplit
<1>10. /\ balance["OPERATING"] \in Int /\ balance["ESCROW"] \in Int /\ balance["FEE"] \in Int
  BY DEF Wallets
<1> QED BY <1>6, <1>7, <1>8, <1>9, <1>10

LEMMA CentsType ==
  ASSUME NEW rows, IsFiniteSet(rows), rows \subseteq Entries
  PROVE  Cents(rows) \in Int
BY CentsIsSum, CentsOfType, SumType

LEMMA CentsEmpty == Cents({}) = 0
<1>1. IsFiniteSet({}) /\ {} \subseteq Entries
  BY FS_EmptySet
<1> QED BY <1>1, CentsIsSum, CentsOfType, SumEmpty

LEMMA CentsAdd ==
  ASSUME NEW rows, IsFiniteSet(rows), rows \subseteq Entries, NEW e \in Entries, e \notin rows
  PROVE  Cents(rows \cup {e}) = Cents(rows) + e.cents
<1>1. IsFiniteSet(rows \cup {e}) /\ rows \cup {e} \subseteq Entries
  BY FS_AddElement
<1>2. Cents(rows \cup {e}) = SumOver(CentsOf, rows \cup {e}) /\ Cents(rows) = SumOver(CentsOf, rows)
  BY <1>1, CentsIsSum
<1>3. SumOver(CentsOf, rows \cup {e}) = SumOver(CentsOf, rows) + CentsOf[e]
  BY CentsOfType, SumAdd
<1> QED BY <1>2, <1>3 DEF CentsOf

-----------------------------------------------------------------------------
(* What a posting adds to the sums of the ledger. The rows that are summed   *)
(* are those of the ledger in a set K of rows.                               *)

LEMMA CentsPosted ==
  ASSUME IsFiniteSet(entries), entries \subseteq Entries, NEW K, K \subseteq Entries,
         NEW dr \in Entries, NEW cr \in Entries, dr # cr, postInTx(dr, cr)
  PROVE  /\ IsFiniteSet(entries')
         /\ entries' \subseteq Entries
         /\ Cents(entries \cap K) \in Int
         /\ dr \notin entries /\ cr \notin entries
         /\ dr.cents > 0 /\ cr.cents > 0
         /\ Cents(entries' \cap K) =
              Cents(entries \cap K) + (IF dr \in K THEN dr.cents ELSE 0)
                                    + (IF cr \in K THEN cr.cents ELSE 0)
<1> DEFINE old == entries \cap K
           with(e) == IF e \in K THEN {e} ELSE {}
           worth(e) == IF e \in K THEN e.cents ELSE 0
<1>1. /\ dr \notin entries /\ cr \notin entries
      /\ dr.cents > 0 /\ cr.cents > 0
      /\ dr.cents \in Int /\ cr.cents \in Int
      /\ entries' = entries \cup {dr, cr}
  BY DEF postInTx, Insertable, SameIndexKey, Entries
<1>2. IsFiniteSet(entries')
  <2>1. IsFiniteSet((entries \cup {dr}) \cup {cr})
    BY FS_AddElement
  <2>2. entries' = (entries \cup {dr}) \cup {cr}
    BY <1>1
  <2> QED BY <2>1, <2>2
<1>3. IsFiniteSet(old) /\ old \subseteq Entries /\ dr \notin old /\ cr \notin old
  BY <1>1, FS_Subset
<1>4. entries' \cap K = (old \cup with(dr)) \cup with(cr)
  BY <1>1
<1> HIDE DEF old
<1>5. /\ IsFiniteSet(old \cup with(dr))
      /\ old \cup with(dr) \subseteq Entries
      /\ cr \notin old \cup with(dr)
      /\ Cents(old \cup with(dr)) = Cents(old) + worth(dr)
  <2>1. CASE dr \in K
    BY <1>1, <1>3, <2>1, FS_AddElement, CentsAdd
  <2>2. CASE dr \notin K
    <3>1. old \cup with(dr) = old /\ worth(dr) = 0
      BY <2>2
    <3> QED BY <1>1, <1>3, <3>1, CentsType
  <2> QED BY <2>1, <2>2
<1>6. Cents(old) \in Int /\ Cents(old \cup with(dr)) \in Int
  BY <1>3, <1>5, CentsType
<1> DEFINE half == old \cup with(dr)
<1>7. Cents(half \cup with(cr)) = Cents(half) + worth(cr)
  <2> HIDE DEF half
  <2>1. IsFiniteSet(half) /\ half \subseteq Entries /\ cr \notin half /\ Cents(half) \in Int
    BY <1>5, <1>6 DEF half
  <2>2. CASE cr \in K
    <3>1. with(cr) = {cr} /\ worth(cr) = cr.cents
      BY <2>2
    <3>2. Cents(half \cup {cr}) = Cents(half) + cr.cents
      BY <2>1, CentsAdd
    <3> QED BY <3>1, <3>2
  <2>3. CASE cr \notin K
    <3>1. half \cup with(cr) = half /\ worth(cr) = 0
      BY <2>3
    <3> HIDE DEF with, worth
    <3> QED BY <2>1, <3>1
  <2> QED BY <2>2, <2>3
<1> QED BY <1>1, <1>2, <1>4, <1>5, <1>6, <1>7 DEF old

(* The three postings of the system, as one: rows dr and cr of one amount,   *)
(* for the two wallets.                                                      *)
Balanced(dr, cr) ==
    /\ dr \in Entries /\ cr \in Entries
    /\ dr.direction = "DR" /\ cr.direction = "CR"
    /\ dr.cents = cr.cents
    /\ {dr.wallet, cr.wallet} = {"OPERATING", "ESCROW"}

LEMMA LedgerSteps ==
  ASSUME TypeOK, [Next]_vars
  PROVE  \/ UNCHANGED <<entries, balance>>
         \/ \E dr, cr : Balanced(dr, cr) /\ postInTx(dr, cr)
<1>1. ASSUME NEW p \in Payments, ClearPendingEscrowToOperating(p)
      PROVE  \E dr, cr : Balanced(dr, cr) /\ postInTx(dr, cr)
  <2>1. Balanced(Entry("OPERATING", "DR", "PAYMENT_IN", p, Amount[p]),
                 Entry("ESCROW", "CR", "SIMULATION", p, Amount[p]))
    <3>1. Amount[p] \in Int /\ p \in Refs
      BY AmountType DEF Refs
    <3> QED BY <3>1 DEF Balanced, Entry, Entries, Wallets, Directions, EntryTypes
  <2> QED BY <1>1, <2>1 DEF ClearPendingEscrowToOperating
<1>2. ASSUME NEW p \in Payments, RefundSettledPayment(p)
      PROVE  \E dr, cr : Balanced(dr, cr) /\ postInTx(dr, cr)
  <2>1. Balanced(Entry("ESCROW", "DR", "REVERSAL", p, Amount[p]),
                 Entry("OPERATING", "CR", "REVERSAL", p, Amount[p]))
    <3>1. Amount[p] \in Int /\ p \in Refs
      BY AmountType DEF Refs
    <3> QED BY <3>1 DEF Balanced, Entry, Entries, Wallets, Directions, EntryTypes
  <2> QED BY <1>2, <2>1 DEF RefundSettledPayment, RefundPostings
<1>3. ASSUME NEW n \in Settlements, NEW cents \in Int, RunSettlement(n, cents)
      PROVE  \E dr, cr : Balanced(dr, cr) /\ postInTx(dr, cr)
  <2>1. Balanced(Entry("ESCROW", "DR", "SETTLEMENT", n, cents),
                 Entry("OPERATING", "CR", "SETTLEMENT", n, cents))
    BY DEF Balanced, Entry, Entries, Wallets, Directions, EntryTypes, Refs
  <2> QED BY <1>3, <2>1 DEF RunSettlement
<1> QED BY <1>1, <1>2, <1>3, PostingSteps

-----------------------------------------------------------------------------
(* The balances of the wallets. *)

Side(w, direction) == {e \in Entries : e.wallet = w /\ e.direction = direction}

MoneyInv == TypeOK /\ IsFiniteSet(entries) /\ BalancesMatchLedger

LEMMA SideOfLedger ==
  ASSUME entries \subseteq Entries
  PROVE  BalancesMatchLedger <=>
           \A w \in Wallets : balance[w] = Cents(entries \cap Side(w, "DR"))
                                         - Cents(entries \cap Side(w, "CR"))
<1>1. \A w, d : {e \in entries : e.wallet = w /\ e.direction = d} = entries \cap Side(w, d)
  BY DEF Side
<1> QED BY <1>1 DEF BalancesMatchLedger

LEMMA PostingKeepsBalances ==
  ASSUME MoneyInv, NEW dr, NEW cr, Balanced(dr, cr), postInTx(dr, cr)
  PROVE  /\ IsFiniteSet(entries')
         /\ BalancesMatchLedger'
<1>1. /\ entries \subseteq Entries /\ IsFiniteSet(entries)
      /\ balance \in [Wallets -> Int]
      /\ BalancesMatchLedger
  BY DEF MoneyInv, TypeOK, StoreTypeOK
<1>2. /\ dr \in Entries /\ cr \in Entries /\ dr # cr /\ dr.wallet # cr.wallet
      /\ dr.cents \in Int /\ cr.cents \in Int
      /\ dr.direction = "DR" /\ cr.direction = "CR"
      /\ dr.wallet \in Wallets /\ cr.wallet \in Wallets
  BY DEF Balanced, Entries
<1>3. /\ IsFiniteSet(entries') /\ entries' \subseteq Entries
  BY <1>1, <1>2, CentsPosted
<1>4. ASSUME NEW w \in Wallets
      PROVE  balance'[w] = Cents(entries' \cap Side(w, "DR")) - Cents(entries' \cap Side(w, "CR"))
  <2> DEFINE D == Side(w, "DR")
             C == Side(w, "CR")
  <2>0. D \subseteq Entries /\ C \subseteq Entries
    BY DEF Side
  <2>1. /\ dr \in D <=> dr.wallet = w
        /\ cr \notin D
        /\ cr \in C <=> cr.wallet = w
        /\ dr \notin C
    BY <1>2 DEF Side
  <2>2. balance[w] = Cents(entries \cap D) - Cents(entries \cap C)
    BY <1>1, SideOfLedger
  <2> HIDE DEF D, C
  <2>3. /\ Cents(entries \cap D) \in Int
        /\ Cents(entries' \cap D) = Cents(entries \cap D) + (IF dr \in D THEN dr.cents ELSE 0)
                                                          + (IF cr \in D THEN cr.cents ELSE 0)
    BY <1>1, <1>2, <2>0, CentsPosted
  <2>4. /\ Cents(entries \cap C) \in Int
        /\ Cents(entries' \cap C) = Cents(entries \cap C) + (IF dr \in C THEN dr.cents ELSE 0)
                                                          + (IF cr \in C THEN cr.cents ELSE 0)
    BY <1>1, <1>2, <2>0, CentsPosted
  <2>5. balance'[w] = balance[w] + (IF dr.wallet = w THEN dr.cents ELSE 0)
                                 - (IF cr.wallet = w THEN cr.cents ELSE 0)
    <3>1. balance' = [balance EXCEPT ![dr.wallet] = @ + dr.cents, ![cr.wallet] = @ - cr.cents]
      BY DEF postInTx
    <3>2. balance[w] \in Int
      BY <1>1
    <3> QED BY <1>1, <1>2, <3>1, <3>2
  <2>6. balance[w] \in Int
    BY <1>1
  <2>7. /\ Cents(entries' \cap D) = Cents(entries \cap D) + (IF dr.wallet = w THEN dr.cents ELSE 0)
        /\ Cents(entries' \cap C) = Cents(entries \cap C) + (IF cr.wallet = w THEN cr.cents ELSE 0)
    BY <1>2, <2>1, <2>3, <2>4
  <2> QED BY <1>2, <2>2, <2>3, <2>4, <2>5, <2>6, <2>7 DEF D, C
<1>5. BalancesMatchLedger'
  <2>1. \A w, d : {e \in entries' : e.wallet = w /\ e.direction = d} = entries' \cap Side(w, d)
    BY <1>3 DEF Side
  <2> QED BY <1>4, <2>1 DEF BalancesMatchLedger
<1> QED BY <1>3, <1>5

LEMMA InitMoney == Init => MoneyInv
<1> SUFFICES ASSUME Init PROVE MoneyInv
  OBVIOUS
<1>1. entries = {} /\ balance = [w \in Wallets |-> 0]
  BY DEF Init, StoreInit, EnsureDefaultWallets
<1>2. \A w, d : {e \in entries : e.wallet = w /\ e.direction = d} = {}
  BY <1>1
<1> QED BY <1>1, <1>2, InitTypes, FS_EmptySet, CentsEmpty DEF MoneyInv, BalancesMatchLedger

LEMMA NextMoney == MoneyInv /\ [Next]_vars => MoneyInv'
<1> SUFFICES ASSUME MoneyInv, [Next]_vars PROVE MoneyInv'
  OBVIOUS
<1>1. TypeOK /\ TypeOK'
  BY NextTypes DEF MoneyInv
<1>2. CASE UNCHANGED <<entries, balance>>
  BY <1>1, <1>2 DEF MoneyInv, BalancesMatchLedger
<1>3. ASSUME NEW dr, NEW cr, Balanced(dr, cr), postInTx(dr, cr)
      PROVE  MoneyInv'
  BY <1>1, <1>3, PostingKeepsBalances DEF MoneyInv
<1> QED BY <1>1, <1>2, <1>3, LedgerSteps

(* However many servers post, refund and settle, and wherever they are cut   *)
(* off, the balance of each wallet is the debits less the credits of its     *)
(* rows in the ledger.                                                       *)
THEOREM BalancesMatch == Spec => []BalancesMatchLedger
<1>1. Init => MoneyInv BY InitMoney
<1>2. MoneyInv /\ [Next]_vars => MoneyInv' BY NextMoney
<1>3. MoneyInv => BalancesMatchLedger BY DEF MoneyInv
<1> QED BY <1>1, <1>2, <1>3, PTL DEF Spec

-----------------------------------------------------------------------------
(* The report that is read meanwhile. *)

Facing(direction) == {e \in Entries : e.direction = direction}

(* As much is debited as credited, so the wallets together have nothing.     *)
LedgerEven ==
    /\ balance["OPERATING"] + balance["ESCROW"] + balance["FEE"] = 0
    /\ Total("DR") = Total("CR")

EvenInv == TypeOK /\ IsFiniteSet(entries) /\ LedgerEven

LEMMA TotalOfLedger ==
  ASSUME entries \subseteq Entries
  PROVE  \A d : Total(d) = Cents(entries \cap Facing(d))
<1>1. \A d : {e \in entries : e.direction = d} = entries \cap Facing(d)
  BY DEF Facing
<1> QED BY <1>1 DEF Total

LEMMA PostingKeepsEven ==
  ASSUME EvenInv, NEW dr, NEW cr, Balanced(dr, cr), postInTx(dr, cr)
  PROVE  IsFiniteSet(entries') /\ LedgerEven'
<1>1. /\ entries \subseteq Entries /\ IsFiniteSet(entries)
      /\ balance \in [Wallets -> Int]
      /\ LedgerEven
  BY DEF EvenInv, TypeOK, StoreTypeOK
<1>2. /\ dr \in Entries /\ cr \in Entries /\ dr # cr
      /\ dr.cents \in Int /\ cr.cents = dr.cents
      /\ dr.direction = "DR" /\ cr.direction = "CR"
      /\ \/ dr.wallet = "OPERATING" /\ cr.wallet = "ESCROW"
         \/ dr.wallet = "ESCROW" /\ cr.wallet = "OPERATING"
  BY DEF Balanced, Entries
<1>3. IsFiniteSet(entries') /\ entries' \subseteq Entries
  BY <1>1, <1>2, CentsPosted
<1>4. /\ Cents(entries' \cap Facing("DR")) = Cents(entries \cap Facing("DR")) + dr.cents
      /\ Cents(entries \cap Facing("DR")) \in Int
  <2> DEFINE D == Facing("DR")
  <2>1. D \subseteq Entries /\ dr \in D /\ cr \notin D
    BY <1>2 DEF Facing
  <2> HIDE DEF D
  <2>2. /\ Cents(entries \cap D) \in Int
        /\ Cents(entries' \cap D) = Cents(entries \cap D) + (IF dr \in D THEN dr.cents ELSE 0)
                                                          + (IF cr \in D THEN cr.cents ELSE 0)
    BY <1>1, <1>2, <2>1, CentsPosted
  <2>3. Cents(entries' \cap D) = Cents(entries \cap D) + dr.cents
    BY <1>2, <2>1, <2>2
  <2> QED BY <2>2, <2>3 DEF D
<1>5. /\ Cents(entries' \cap Facing("CR")) = Cents(entries \cap Facing("CR")) + dr.cents
      /\ Cents(entries \cap Facing("CR")) \in Int
  <2> DEFINE C == Facing("CR")
  <2>1. C \subseteq Entries /\ cr \in C /\ dr \notin C
    BY <1>2 DEF Facing
  <2> HIDE DEF C
  <2>2. /\ Cents(entries \cap C) \in Int
        /\ Cents(entries' \cap C) = Cents(entries \cap C) + (IF dr \in C THEN dr.cents ELSE 0)
                                                          + (IF cr \in C THEN cr.cents ELSE 0)
    BY <1>1, <1>2, <2>1, CentsPosted
  <2>3. Cents(entries' \cap C) = Cents(entries \cap C) + dr.cents
    BY <1>2, <2>1, <2>2
  <2> QED BY <2>2, <2>3 DEF C
<1>6. Cents(entries' \cap Facing("DR")) = Cents(entries' \cap Facing("CR"))
  BY <1>1, <1>4, <1>5, TotalOfLedger DEF LedgerEven
<1>7. Total("DR")' = Total("CR")'
  <2>1. \A d : {e \in entries' : e.direction = d} = entries' \cap Facing(d)
    BY <1>3 DEF Facing
  <2> QED BY <1>6, <2>1 DEF Total
<1>8. balance'["OPERATING"] + balance'["ESCROW"] + balance'["FEE"] = 0
  <2>1. balance' = [balance EXCEPT ![dr.wallet] = @ + dr.cents, ![cr.wallet] = @ - cr.cents]
    BY DEF postInTx
  <2>2. /\ balance["OPERATING"] \in Int /\ balance["ESCROW"] \in Int /\ balance["FEE"] \in Int
        /\ balance["OPERATING"] + balance["ESCROW"] + balance["FEE"] = 0
    BY <1>1 DEF LedgerEven, Wallets
  <2>3. /\ balance'["FEE"] = balance["FEE"]
        /\ \/ /\ balance'["OPERATING"] = balance["OPERATING"] + dr.cents
              /\ balance'["ESCROW"] = balance["ESCROW"] - dr.cents
           \/ /\ balance'["OPERATING"] = balance["OPERATING"] - dr.cents
              /\ balance'["ESCROW"] = balance["ESCROW"] + dr.cents
    BY <1>1, <1>2, <2>1 DEF Wallets
  <2> QED BY <1>2, <2>2, <2>3
<1> QED BY <1>3, <1>7, <1>8 DEF LedgerEven

LEMMA InitEven == Init => EvenInv
<1> SUFFICES ASSUME Init PROVE EvenInv
  OBVIOUS
<1>1. entries = {} /\ balance = [w \in Wallets |-> 0]
  BY DEF Init, StoreInit, EnsureDefaultWallets
<1>2. balance["OPERATING"] = 0 /\ balance["ESCROW"] = 0 /\ balance["FEE"] = 0
  BY <1>1 DEF Wallets
<1>3. \A d : {e \in entries : e.direction = d} = {}
  BY <1>1
<1> QED BY <1>1, <1>2, <1>3, InitTypes, FS_EmptySet DEF EvenInv, LedgerEven, Total

LEMMA NextEven == EvenInv /\ [Next]_vars => EvenInv'
<1> SUFFICES ASSUME EvenInv, [Next]_vars PROVE EvenInv'
  OBVIOUS
<1>1. TypeOK /\ TypeOK'
  BY NextTypes DEF EvenInv
<1>2. CASE UNCHANGED <<entries, balance>>
  BY <1>1, <1>2 DEF EvenInv, LedgerEven, Total
<1>3. ASSUME NEW dr, NEW cr, Balanced(dr, cr), postInTx(dr, cr)
      PROVE  EvenInv'
  BY <1>1, <1>3, PostingKeepsEven DEF EvenInv
<1> QED BY <1>1, <1>2, <1>3, LedgerSteps

(* A report is read beside the system, which it leaves alone.                *)
LEMMA ReportReads ==
  ASSUME [ReportNext]_reportVars
  PROVE  /\ [Next]_vars
         /\ report' = report \/ ReportStep
BY DEF ReportNext, reportVars, ReportStep

Columns == {"at", "settled", "refunded", "net", "escrow", "debit", "credit"}

(* What was read so far is balanced: a column not read yet has nothing in it.*)
BalancedSoFar ==
    /\ DOMAIN report = Columns
    /\ report = [c \in Columns |-> report[c]]
    /\ LedgerBalanceInvariant

BalancedInv == EvenInv /\ BalancedSoFar

LEMMA ReadBalanced ==
  ASSUME BalancedInv, ReportStep
  PROVE  BalancedSoFar'
<1>1. /\ DOMAIN report = Columns
      /\ report = [c \in Columns |-> report[c]]
      /\ report.net = 0 /\ report.debit = report.credit
      /\ EvenInv
  BY DEF BalancedInv, BalancedSoFar, LedgerBalanceInvariant
<1>2. CASE StartReport \/ AbandonReport
  BY <1>2 DEF StartReport, AbandonReport, NoReport, BalancedSoFar, LedgerBalanceInvariant,
     Columns
<1>3. CASE ReadLines \/ ReadEscrow
  BY <1>1, <1>3 DEF ReadLines, ReadEscrow, BalancedSoFar, LedgerBalanceInvariant, Columns
<1>4. CASE ReadWallets
  <2>1. NetWalletBalance = 0
    <3>1. balance \in [Wallets -> Int]
      BY <1>1 DEF EvenInv, TypeOK, StoreTypeOK
    <3> QED BY <1>1, <3>1, BalanceIsSum DEF EvenInv, LedgerEven, NetWalletBalance
  <2> QED
    BY <1>1, <1>4, <2>1 DEF ReadWallets, BalancedSoFar, LedgerBalanceInvariant, Columns
<1>5. CASE LedgerTotals
  <2>1. Total("DR") = Total("CR")
    BY <1>1 DEF EvenInv, LedgerEven
  <2> QED
    BY <1>1, <1>5, <2>1 DEF LedgerTotals, BalancedSoFar, LedgerBalanceInvariant, Columns
<1> QED BY <1>2, <1>3, <1>4, <1>5 DEF ReportStep

(* Whatever is posted between the statements of a report, on any number of   *)
(* servers, the report shows a ledger in balance.                            *)
THEOREM ReportsBalance == ReportSpec => []ReportBalanced
<1>1. ReportInit => BalancedInv
  BY InitEven DEF ReportInit, NoReport, BalancedInv, BalancedSoFar, LedgerBalanceInvariant,
     Columns
<1>2. BalancedInv /\ [ReportNext]_reportVars => BalancedInv'
  <2> SUFFICES ASSUME BalancedInv, [ReportNext]_reportVars PROVE BalancedInv'
    OBVIOUS
  <2>1. EvenInv'
    BY ReportReads, NextEven DEF BalancedInv
  <2>2. CASE report' = report
    BY <2>1, <2>2 DEF BalancedInv, BalancedSoFar, LedgerBalanceInvariant
  <2>3. CASE ReportStep
    BY <2>1, <2>3, ReadBalanced DEF BalancedInv
  <2> QED BY <2>2, <2>3, ReportReads
<1>3. BalancedInv => ReportBalanced
  BY DEF BalancedInv, BalancedSoFar, ReportBalanced
<1> QED BY <1>1, <1>2, <1>3, PTL DEF ReportSpec

-----------------------------------------------------------------------------
(* The rows of a payment. *)

Paid(p) == Entry("OPERATING", "DR", "PAYMENT_IN", p, Amount[p])
GivenBack(p) == Entry("ESCROW", "DR", "REVERSAL", p, Amount[p])

(* Every row is worth something; those of a payment are worth its amount, and*)
(* a reversal has both its rows.                                             *)
RowsOK ==
    \A e \in entries :
      /\ e.cents > 0
      /\ e.type \in {"PAYMENT_IN", "REVERSAL"} => e.ref \in Payments /\ e.cents = Amount[e.ref]
      /\ e.type = "REVERSAL" => GivenBack(e.ref) \in entries

RowInv == CreditInv /\ IsFiniteSet(entries) /\ RowsOK

LEMMA RowsKept ==
  ASSUME RowInv, [Next]_vars
  PROVE  IsFiniteSet(entries') /\ RowsOK' /\ entries \subseteq entries'
<1>1. RowsOK /\ TypeOK /\ IsFiniteSet(entries)
  BY DEF RowInv, CreditInv
<1>2. ASSUME NEW dr, NEW cr, postInTx(dr, cr), NEW p \in Payments,
             \/ dr = Paid(p) /\ cr = Entry("ESCROW", "CR", "SIMULATION", p, Amount[p])
             \/ dr = GivenBack(p) /\ cr = Entry("OPERATING", "CR", "REVERSAL", p, Amount[p])
      PROVE  RowsOK'
  <2>1. entries' = entries \cup {dr, cr} /\ dr.cents > 0 /\ cr.cents > 0
    BY <1>2 DEF postInTx, Insertable
  <2> QED BY <1>1, <1>2, <2>1 DEF RowsOK, Paid, GivenBack, Entry
<1>3. ASSUME NEW n \in Settlements, NEW cents \in Int, RunSettlement(n, cents)
      PROVE  RowsOK'
  <2> DEFINE dr == Entry("ESCROW", "DR", "SETTLEMENT", n, cents)
             cr == Entry("OPERATING", "CR", "SETTLEMENT", n, cents)
  <2>1. entries' = entries \cup {dr, cr} /\ dr.cents > 0 /\ cr.cents > 0
    BY <1>3 DEF RunSettlement, postInTx, Insertable
  <2>2. dr.type = "SETTLEMENT" /\ cr.type = "SETTLEMENT"
    BY DEF Entry
  <2> HIDE DEF dr, cr
  <2> QED BY <1>1, <2>1, <2>2 DEF RowsOK, GivenBack
<1>4. RowsOK'
  <2>1. CASE UNCHANGED <<entries, balance>>
    BY <1>1, <2>1 DEF RowsOK, GivenBack
  <2>2. ASSUME NEW p \in Payments, ClearPendingEscrowToOperating(p) \/ RefundSettledPayment(p)
        PROVE  RowsOK'
    BY <1>2, <2>2 DEF ClearPendingEscrowToOperating, RefundSettledPayment, RefundPostings, Paid,
       GivenBack
  <2> QED BY <1>1, <1>3, <2>1, <2>2, PostingSteps
<1>5. IsFiniteSet(entries') /\ entries \subseteq entries'
  <2>1. CASE UNCHANGED <<entries, balance>>
    BY <1>1, <2>1
  <2>2. ASSUME NEW dr, NEW cr, Balanced(dr, cr), postInTx(dr, cr)
        PROVE  IsFiniteSet(entries') /\ entries \subseteq entries'
    <3>1. /\ entries \subseteq Entries
          /\ dr \in Entries /\ cr \in Entries /\ dr # cr
      BY <1>1, <2>2 DEF Balanced, TypeOK, StoreTypeOK
    <3>2. IsFiniteSet(entries')
      BY <1>1, <2>2, <3>1, CentsPosted
    <3> QED BY <2>2, <3>2 DEF postInTx
  <2> QED BY <1>1, <2>1, <2>2, LedgerSteps
<1> QED BY <1>4, <1>5

LEMMA InitRows == Init => RowInv
<1> SUFFICES ASSUME Init PROVE RowInv
  OBVIOUS
<1>1. entries = {}
  BY DEF Init, StoreInit, EnsureDefaultWallets
<1> QED BY <1>1, InitCredit, FS_EmptySet DEF RowInv, RowsOK

LEMMA NextRows == RowInv /\ [Next]_vars => RowInv'
BY RowsKept, NextCredit DEF RowInv

-----------------------------------------------------------------------------
(* Sums over rows and over payments. *)

LEMMA CentsBelow ==
  ASSUME NEW Q, IsFiniteSet(Q), Q \subseteq Entries, NEW P, P \subseteq Q,
         \A e \in Q : e.cents > 0
  PROVE  /\ Cents(P) <= Cents(Q)
         /\ Cents(P) \in Int /\ Cents(Q) \in Int
         /\ Cents(Q) >= 0
<1>1. IsFiniteSet(P) /\ P \subseteq Entries
  BY FS_Subset
<1>2. \A e \in Q : CentsOf[e] >= 0
  BY DEF CentsOf, Entries
<1>3. Cents(P) = SumOver(CentsOf, P) /\ Cents(Q) = SumOver(CentsOf, Q)
  BY <1>1, CentsIsSum
<1>4. SumOver(CentsOf, P) <= SumOver(CentsOf, Q)
  BY <1>2, CentsOfType, SumMonotone
<1>5. SumOver(CentsOf, Q) >= 0
  BY <1>2, CentsOfType, SumOfNaturals
<1> QED BY <1>1, <1>3, <1>4, <1>5, CentsType

LEMMA CentsDisjoint ==
  ASSUME NEW P, IsFiniteSet(P), P \subseteq Entries,
         NEW Q, IsFiniteSet(Q), Q \subseteq Entries, P \cap Q = {}
  PROVE  Cents(P \cup Q) = Cents(P) + Cents(Q)
<1>1. IsFiniteSet(P \cup Q) /\ P \cup Q \subseteq Entries
  BY FS_Union
<1>2. SumOver(CentsOf, P \cup Q) = SumOver(CentsOf, P) + SumOver(CentsOf, Q)
  BY CentsOfType, SumDisjoint, ZenonT(60)
<1>3. Cents(P) = SumOver(CentsOf, P) /\ Cents(Q) = SumOver(CentsOf, Q)
  BY CentsIsSum
<1>4. Cents(P \cup Q) = SumOver(CentsOf, P \cup Q)
  BY <1>1, CentsIsSum
<1> QED BY <1>2, <1>3, <1>4

LEMMA AmountOfFacts ==
  ASSUME NEW ps, IsFiniteSet(ps), ps \subseteq Payments
  PROVE  AmountOf(ps) \in Int /\ AmountOf(ps) >= 0
<1>1. \A p \in ps : Amount[p] >= 0
  BY AmountType
<1>2. AmountOf(ps) = SumOver(Amount, ps)
  BY AmountIsSum
<1>3. SumOver(Amount, ps) \in Int
  BY AmountType, SumType
<1>4. SumOver(Amount, ps) >= 0
  BY <1>1, AmountType, SumOfNaturals
<1> QED BY <1>2, <1>3, <1>4

LEMMA AmountOfDisjoint ==
  ASSUME NEW ps, IsFiniteSet(ps), ps \subseteq Payments,
         NEW qs, IsFiniteSet(qs), qs \subseteq Payments, ps \cap qs = {}
  PROVE  AmountOf(ps \cup qs) = AmountOf(ps) + AmountOf(qs)
<1>1. IsFiniteSet(ps \cup qs) /\ ps \cup qs \subseteq Payments
  BY FS_Union
<1>2. SumOver(Amount, ps \cup qs) = SumOver(Amount, ps) + SumOver(Amount, qs)
  BY AmountType, SumDisjoint, ZenonT(60)
<1>3. AmountOf(ps) = SumOver(Amount, ps) /\ AmountOf(qs) = SumOver(Amount, qs)
  BY AmountIsSum
<1>4. AmountOf(ps \cup qs) = SumOver(Amount, ps \cup qs)
  BY <1>1, AmountIsSum
<1> QED BY <1>2, <1>3, <1>4

(* Payments with a row each have no more money than those rows.              *)
LEMMA AmountCovered ==
  ASSUME NEW ps, IsFiniteSet(ps), ps \subseteq Payments,
         NEW Q, IsFiniteSet(Q), Q \subseteq Entries, \A e \in Q : e.cents > 0,
         NEW row \in [ps -> Q],
         \A p \in ps : row[p].ref = p /\ row[p].cents = Amount[p]
  PROVE  AmountOf(ps) <= Cents(Q)
<1>1. \A e \in Q : CentsOf[e] >= 0
  BY DEF CentsOf, Entries
<1>2. \A p, q \in ps : row[p] = row[q] => p = q
  OBVIOUS
<1>3. \A p \in ps : Amount[p] <= CentsOf[row[p]]
  <2> SUFFICES ASSUME NEW p \in ps PROVE Amount[p] <= CentsOf[row[p]]
    OBVIOUS
  <2>1. row[p] \in Entries /\ Amount[p] \in Int /\ row[p].cents = Amount[p]
    BY AmountType
  <2> QED BY <2>1 DEF CentsOf
<1>4. SumOver(Amount, ps) <= SumOver(CentsOf, Q)
  BY <1>1, <1>2, <1>3, AmountType, CentsOfType, SumCovered
<1> QED BY <1>4, AmountIsSum, CentsIsSum

-----------------------------------------------------------------------------
(* What the report counts as settled or refunded has its debit rows.         *)

With(st) == {p \in Payments : status[p] = st}

LEMMA DebitsCoverStatus ==
  ASSUME RowInv, IsFiniteSet(Payments)
  PROVE  /\ AmountOf(With("SETTLED")) \in Int /\ AmountOf(With("CANCELLED")) \in Int
         /\ Total("DR") \in Int /\ Total("DR") >= 0
         /\ AmountOf(With("SETTLED")) + 2 * AmountOf(With("CANCELLED")) <= Total("DR")
<1> DEFINE S == With("SETTLED")
           C == With("CANCELLED")
           In == {e \in entries : e.direction = "DR" /\ e.type = "PAYMENT_IN"}
           Back == {e \in entries : e.direction = "DR" /\ e.type = "REVERSAL"}
           Debits == {e \in entries : e.direction = "DR"}
<1>1. /\ entries \subseteq Entries /\ IsFiniteSet(entries)
      /\ RowsOK /\ StoreInv
  BY DEF RowInv, CreditInv, TypeOK, StoreTypeOK
<1>2. /\ S \subseteq Payments /\ C \subseteq Payments /\ S \cap C = {}
      /\ S \cup C \subseteq Payments
      /\ IsFiniteSet(S) /\ IsFiniteSet(C) /\ IsFiniteSet(S \cup C)
  <2>1. S \subseteq Payments /\ C \subseteq Payments /\ S \cap C = {}
    BY DEF With
  <2> QED BY <2>1, FS_Subset
<1>3. /\ In \subseteq Entries /\ Back \subseteq Entries /\ In \cap Back = {}
      /\ Debits \subseteq Entries /\ In \cup Back \subseteq Debits
      /\ IsFiniteSet(In) /\ IsFiniteSet(Back) /\ IsFiniteSet(Debits)
      /\ \A e \in Debits : e.cents > 0
  BY <1>1, FS_Subset DEF RowsOK
<1>4. ASSUME NEW p \in S \cup C
      PROVE  Paid(p) \in In /\ Paid(p).ref = p /\ Paid(p).cents = Amount[p]
  <2>1. Credited(p)
    BY <1>1, <1>4 DEF StoreInv, CreditBeforeStatus, With
  <2>2. PICK e \in entries : e.type = "PAYMENT_IN" /\ e.ref = p
    BY <2>1 DEF Credited, Posted
  <2>3. e.wallet = "OPERATING" /\ e.direction = "DR" /\ e.cents = Amount[p]
    BY <1>1, <2>2 DEF StoreInv, RowShape, RowsOK
  <2>4. e = Paid(p)
    BY <1>1, <2>2, <2>3 DEF Entries, Paid, Entry
  <2> QED BY <2>2, <2>3, <2>4
<1>5. ASSUME NEW p \in C
      PROVE  GivenBack(p) \in Back /\ GivenBack(p).ref = p /\ GivenBack(p).cents = Amount[p]
  <2>1. Reversed(p)
    BY <1>1, <1>5 DEF StoreInv, CreditBeforeStatus, With
  <2>2. GivenBack(p) \in entries
    BY <1>1, <2>1 DEF Reversed, Posted, RowsOK
  <2> QED BY <2>2 DEF GivenBack, Entry
<1> HIDE DEF S, C, In, Back, Debits
<1>6. AmountOf(S \cup C) <= Cents(In)
  <2> DEFINE row == [p \in S \cup C |-> Paid(p)]
  <2>1. row \in [S \cup C -> In] /\ \A p \in S \cup C : row[p].ref = p /\ row[p].cents = Amount[p]
    BY <1>4
  <2>2. \A e \in In : e.cents > 0
    BY <1>3
  <2> HIDE DEF row
  <2> QED BY <1>2, <1>3, <2>1, <2>2, AmountCovered
<1>7. AmountOf(C) <= Cents(Back)
  <2> DEFINE row == [p \in C |-> GivenBack(p)]
  <2>1. row \in [C -> Back] /\ \A p \in C : row[p].ref = p /\ row[p].cents = Amount[p]
    BY <1>5
  <2>2. \A e \in Back : e.cents > 0
    BY <1>3
  <2> HIDE DEF row
  <2> QED BY <1>2, <1>3, <2>1, <2>2, AmountCovered
<1>8. AmountOf(S \cup C) = AmountOf(S) + AmountOf(C)
  BY <1>2, AmountOfDisjoint
<1>9. Cents(In \cup Back) = Cents(In) + Cents(Back)
  BY <1>3, CentsDisjoint
<1>10. /\ Cents(In \cup Back) <= Cents(Debits)
       /\ Cents(Debits) \in Int /\ Cents(Debits) >= 0
  BY <1>3, CentsBelow
<1>11. Cents(In) \in Int /\ Cents(Back) \in Int
  BY <1>3, CentsType
<1>12. AmountOf(S) \in Int /\ AmountOf(C) \in Int
  BY <1>2, AmountOfFacts
<1>13. AmountOf(S) + 2 * AmountOf(C) <= Cents(Debits)
  BY <1>6, <1>7, <1>8, <1>9, <1>10, <1>11, <1>12
<1> QED BY <1>10, <1>12, <1>13 DEF S, C, Debits, Total

LEMMA DebitsGrow ==
  ASSUME RowInv, [Next]_vars
  PROVE  Total("DR") <= Total("DR")' /\ Total("DR") \in Int /\ Total("DR")' \in Int
<1> DEFINE old == {e \in entries : e.direction = "DR"}
           new == {e \in entries' : e.direction = "DR"}
<1>1. IsFiniteSet(entries') /\ entries \subseteq entries' /\ \A e \in entries' : e.cents > 0
  BY RowsKept DEF RowsOK
<1>2. entries' \subseteq Entries
  BY NextTypes DEF RowInv, CreditInv, TypeOK, StoreTypeOK
<1>3. /\ IsFiniteSet(new) /\ new \subseteq Entries /\ old \subseteq new
      /\ \A e \in new : e.cents > 0
  BY <1>1, <1>2, FS_Subset
<1>4. Cents(old) <= Cents(new) /\ Cents(old) \in Int /\ Cents(new) \in Int
  <2> HIDE DEF old, new
  <2> QED BY <1>3, CentsBelow
<1> QED BY <1>4 DEF Total

Sheets == [at : 0 .. 5, settled : Int, refunded : Int, net : Int,
           escrow : Int, debit : Int, credit : Int]

(* A column, and the place in the report, are written apart from the rest.   *)
LEMMA ColumnWritten ==
  ASSUME NEW sheet \in Sheets, sheet.at < 5
  PROVE  /\ \A v, u \in Int :
              [sheet EXCEPT !.at = @ + 1, !.settled = v, !.refunded = u] \in Sheets
         /\ \A v \in Int : [sheet EXCEPT !.at = @ + 1, !.net = v] \in Sheets
         /\ \A v \in Int : [sheet EXCEPT !.at = @ + 1, !.escrow = v] \in Sheets
         /\ \A v, u \in Int :
              [sheet EXCEPT !.at = @ + 1, !.debit = v, !.credit = u] \in Sheets
<1>1. sheet.at + 1 \in 0 .. 5
  BY DEF Sheets
<1>2. ASSUME NEW v \in Int, NEW u \in Int
      PROVE  [sheet EXCEPT !.at = @ + 1, !.settled = v, !.refunded = u] \in Sheets
  BY <1>1 DEF Sheets
<1>3. ASSUME NEW v \in Int PROVE [sheet EXCEPT !.at = @ + 1, !.net = v] \in Sheets
  BY <1>1 DEF Sheets
<1>4. ASSUME NEW v \in Int PROVE [sheet EXCEPT !.at = @ + 1, !.escrow = v] \in Sheets
  BY <1>1 DEF Sheets
<1>5. ASSUME NEW v \in Int, NEW u \in Int
      PROVE  [sheet EXCEPT !.at = @ + 1, !.debit = v, !.credit = u] \in Sheets
  BY <1>1 DEF Sheets
<1> QED BY <1>2, <1>3, <1>4, <1>5

(* What was read of the statuses is on the ledger by now, and once the       *)
(* totals are read it is in them.                                            *)
CoveredSoFar ==
    /\ report \in Sheets
    /\ report.settled + 2 * report.refunded <= Total("DR")
    /\ report.at = 5 => report.settled + 2 * report.refunded <= report.debit

CoveredInv == RowInv /\ CoveredSoFar

LEMMA ReadCovered ==
  ASSUME CoveredInv, EvenInv, IsFiniteSet(Payments), ReportStep
  PROVE  CoveredSoFar'
<1>1. /\ report \in Sheets
      /\ report.settled + 2 * report.refunded <= Total("DR")
      /\ report.at = 5 => report.settled + 2 * report.refunded <= report.debit
      /\ RowInv
  BY DEF CoveredInv, CoveredSoFar
<1>2. /\ Total("DR")' = Total("DR")
      /\ Total("DR") \in Int /\ Total("DR") >= 0
  BY <1>1, DebitsCoverStatus DEF ReportStep, vars, Total
<1>3. CASE StartReport \/ AbandonReport
  <2>1. /\ report' \in Sheets
        /\ report'.settled = 0 /\ report'.refunded = 0 /\ report'.at # 5
    BY <1>3 DEF StartReport, AbandonReport, NoReport, Sheets
  <2> QED BY <1>2, <2>1 DEF CoveredSoFar
<1>4. CASE ReadLines
  <2> DEFINE settled == AmountOf({p \in Payments : status[p] = "SETTLED"})
             refunded == AmountOf({p \in Payments : status[p] = "CANCELLED"})
  <2>1. settled \in Int /\ refunded \in Int /\ settled + 2 * refunded <= Total("DR")
    BY <1>1, DebitsCoverStatus DEF With
  <2>2. /\ report.at = 1 /\ report.at < 5
        /\ report' = [report EXCEPT !.at = @ + 1, !.settled = settled, !.refunded = refunded]
    BY <1>1, <1>4 DEF ReadLines, Now, Statements
  <2> HIDE DEF settled, refunded
  <2>3. report' \in Sheets
    BY <1>1, <2>1, <2>2, ColumnWritten, Zenon
  <2>4. report'.settled = settled /\ report'.refunded = refunded /\ report'.at = 2
    BY <1>1, <2>2 DEF Sheets
  <2> QED BY <1>2, <2>1, <2>3, <2>4 DEF CoveredSoFar
<1>5. CASE ReadWallets \/ ReadEscrow
  <2>1. NetWalletBalance \in Int /\ pending \in Int
    <3>1. balance \in [Wallets -> Int] /\ pending \in Nat
      BY DEF EvenInv, TypeOK, StoreTypeOK
    <3> QED BY <3>1, BalanceIsSum DEF EvenInv, LedgerEven, NetWalletBalance
  <2>2. /\ report.at \in {2, 3} /\ report.at < 5
        /\ \/ report' = [report EXCEPT !.at = @ + 1, !.net = NetWalletBalance]
           \/ report' = [report EXCEPT !.at = @ + 1, !.escrow = pending]
    BY <1>1, <1>5 DEF ReadWallets, ReadEscrow, Now, Statements
  <2>3. report' \in Sheets
    <3>1. [report EXCEPT !.at = @ + 1, !.net = NetWalletBalance] \in Sheets
      BY <1>1, <2>1, <2>2, ColumnWritten, Zenon
    <3>2. [report EXCEPT !.at = @ + 1, !.escrow = pending] \in Sheets
      BY <1>1, <2>1, <2>2, ColumnWritten, Zenon
    <3> QED BY <2>2, <3>1, <3>2
  <2>4. /\ report'.settled = report.settled /\ report'.refunded = report.refunded
        /\ report'.at # 5
    <3>1. CASE report' = [report EXCEPT !.at = @ + 1, !.net = NetWalletBalance]
      BY <1>1, <2>2, <3>1 DEF Sheets
    <3>2. CASE report' = [report EXCEPT !.at = @ + 1, !.escrow = pending]
      BY <1>1, <2>2, <3>2 DEF Sheets
    <3> QED BY <2>2, <3>1, <3>2
  <2> QED BY <1>1, <1>2, <2>3, <2>4 DEF CoveredSoFar
<1>6. CASE LedgerTotals
  <2>1. Total("CR") \in Int
    BY <1>2 DEF EvenInv, LedgerEven
  <2>2. /\ report.at = 4 /\ report.at < 5
        /\ report' = [report EXCEPT !.at = @ + 1, !.debit = Total("DR"), !.credit = Total("CR")]
    BY <1>1, <1>6 DEF LedgerTotals, Now, Statements
  <2>3. report' \in Sheets
    BY <1>1, <1>2, <2>1, <2>2, ColumnWritten, Zenon
  <2>4. /\ report'.settled = report.settled /\ report'.refunded = report.refunded
        /\ report'.debit = Total("DR")
    BY <1>1, <2>2 DEF Sheets
  <2> QED BY <1>1, <1>2, <2>3, <2>4 DEF CoveredSoFar
<1> QED BY <1>3, <1>4, <1>5, <1>6 DEF ReportStep

(* For finitely many payments, on any number of servers: a report never      *)
(* shows more money as settled or refunded than its ledger totals show,      *)
(* whatever is posted while it is read.                                      *)
THEOREM ReportsCoverSettled ==
  ASSUME IsFiniteSet(Payments)
  PROVE  ReportSpec => []ReportCoversSettled
<1>1. ReportInit => CoveredInv /\ EvenInv
  <2> SUFFICES ASSUME ReportInit PROVE CoveredInv /\ EvenInv
    OBVIOUS
  <2>1. RowInv /\ EvenInv
    BY InitRows, InitEven DEF ReportInit
  <2>2. Total("DR") >= 0
    BY <2>1, DebitsCoverStatus
  <2> QED BY <2>1, <2>2 DEF ReportInit, NoReport, CoveredInv, CoveredSoFar, Sheets
<1>2. CoveredInv /\ EvenInv /\ [ReportNext]_reportVars => CoveredInv' /\ EvenInv'
  <2> SUFFICES ASSUME CoveredInv, EvenInv, [ReportNext]_reportVars
               PROVE  CoveredInv' /\ EvenInv'
    OBVIOUS
  <2>1. EvenInv' /\ RowInv'
    BY ReportReads, NextEven, NextRows DEF CoveredInv
  <2>2. CASE report' = report
    <3>1. Total("DR") <= Total("DR")' /\ Total("DR") \in Int /\ Total("DR")' \in Int
      BY ReportReads, DebitsGrow DEF CoveredInv
    <3>2. report.settled \in Int /\ report.refunded \in Int
      BY DEF CoveredInv, CoveredSoFar, Sheets
    <3> QED BY <2>1, <2>2, <3>1, <3>2 DEF CoveredInv, CoveredSoFar
  <2>3. CASE ReportStep
    BY <2>1, <2>3, ReadCovered DEF CoveredInv
  <2> QED BY <2>2, <2>3, ReportReads
<1>3. CoveredInv => ReportCoversSettled
  <2> SUFFICES ASSUME CoveredInv, Finished PROVE report.debit >= report.settled + 2 * report.refunded
    BY DEF ReportCoversSettled
  <2>1. report \in Sheets
    BY DEF CoveredInv, CoveredSoFar
  <2>2. report.at = 5
    BY <2>1 DEF Finished, Statements, Sheets
  <2> QED BY <2>1, <2>2 DEF CoveredInv, CoveredSoFar
<1> QED BY <1>1, <1>2, <1>3, PTL DEF ReportSpec

-----------------------------------------------------------------------------
(* The money that is pending: in flight, or given up. *)

Unreleased == {p \in Payments : status[p] \in {"AWAITING_TRANSFER", "FAILED"} /\ ~Credited(p)}

(* Payments of which a step moves neither money nor status across the border *)
(* of what is pending.                                                       *)
LEMMA SameFlight ==
  ASSUME \A p \in Payments :
           /\ Credited(p)' <=> Credited(p)
           /\ \/ status'[p] = status[p]
              \/ Credited(p)
              \/ status[p] \in {"AWAITING_TRANSFER", "FAILED"} <=>
                   status'[p] \in {"AWAITING_TRANSFER", "FAILED"}
  PROVE  Unreleased' = Unreleased
BY DEF Unreleased

(* How the pending figure and the payments it is made of move together.      *)
Joins(p) ==
    /\ pending' = pending + Amount[p]
    /\ p \notin Unreleased
    /\ Unreleased' = Unreleased \cup {p}

Leaves(p) ==
    /\ pending' = Released(Amount[p])
    /\ Unreleased' = Unreleased \ {p}

LEMMA ConfirmJoins ==
  ASSUME CreditInv, NEW p \in Payments, ConfirmPaymentIntent(p)
  PROVE  Joins(p)
<1>1. /\ status \in [Payments -> Statuses]
      /\ UNCHANGED entries /\ status[p] = "PENDING"
      /\ status' = [status EXCEPT ![p] = "AWAITING_TRANSFER"]
      /\ pending' = pending + Amount[p]
  BY DEF CreditInv, TypeOK, StoreTypeOK, ConfirmPaymentIntent
<1>2. ~Credited(p)
  BY <1>1 DEF CreditInv, StoreInv, CreditBeforeStatus
<1>3. \A q \in Payments : Credited(q)' <=> Credited(q)
  BY <1>1, NoPosting
<1> QED BY <1>1, <1>2, <1>3 DEF Joins, Unreleased

LEMMA ExpireLeaves ==
  ASSUME CreditInv, NEW p \in Payments, ExpireAwaitingTransfer(p)
  PROVE  Leaves(p)
<1>1. /\ status \in [Payments -> Statuses]
      /\ UNCHANGED entries
      /\ status' = [status EXCEPT ![p] = "EXPIRED"]
      /\ pending' = Released(Amount[p])
  BY DEF CreditInv, TypeOK, StoreTypeOK, ExpireAwaitingTransfer
<1>2. \A q \in Payments : Credited(q)' <=> Credited(q)
  BY <1>1, NoPosting
<1> QED BY <1>1, <1>2 DEF Leaves, Unreleased

(* A posting credits the one payment, which was not credited before.         *)
LEMMA ClearLeaves ==
  ASSUME CreditInv, NEW p \in Payments, ClearPendingEscrowToOperating(p), UNCHANGED status
  PROVE  Leaves(p) /\ ~Credited(p)
<1> DEFINE cr == Entry("ESCROW", "CR", "SIMULATION", p, Amount[p])
<1>1. /\ entries' = entries \cup {Paid(p), cr} /\ Insertable(Paid(p))
      /\ pending' = Released(Amount[p])
  BY DEF ClearPendingEscrowToOperating, postInTx, Paid
<1>2. /\ Paid(p).type = "PAYMENT_IN" /\ Paid(p).ref = p
      /\ Paid(p).wallet = "OPERATING" /\ Paid(p).direction = "DR"
      /\ cr.type # "PAYMENT_IN"
  BY DEF Paid, Entry
<1> HIDE DEF cr
<1>3. ~Credited(p)
  <2> SUFFICES ASSUME NEW e \in entries, e.type = "PAYMENT_IN", e.ref = p PROVE FALSE
    BY DEF Credited, Posted
  <2>1. e.wallet = "OPERATING" /\ e.direction = "DR"
    BY DEF CreditInv, StoreInv, RowShape
  <2> QED BY <1>1, <1>2, <2>1 DEF Insertable, SameIndexKey
<1>4. \A q \in Payments : Credited(q)' <=> Credited(q) \/ q = p
  BY <1>1, <1>2 DEF Credited, Posted
<1> QED BY <1>1, <1>3, <1>4 DEF Leaves, Unreleased

(* The other two postings credit nothing. *)
LEMMA NoCredit ==
  ASSUME NEW p, NEW n, NEW cents, RefundPostings(p) \/ RunSettlement(n, cents)
  PROVE  \A q \in Payments : Credited(q)' <=> Credited(q)
<1>1. ASSUME NEW dr, NEW cr, postInTx(dr, cr), dr.type # "PAYMENT_IN", cr.type # "PAYMENT_IN"
      PROVE  \A q \in Payments : Credited(q)' <=> Credited(q)
  BY <1>1 DEF postInTx, Credited, Posted
<1> QED BY <1>1 DEF RefundPostings, RunSettlement, Entry

(* An engine that fails a payment may put it back among them, when another   *)
(* server has expired it meanwhile; nothing else does.                       *)
FlightStep ==
    \/ UNCHANGED pending /\ Unreleased' = Unreleased
    \/ UNCHANGED pending /\ Unreleased \subseteq Unreleased' /\ \E s \in Servers : FailTransfer(s)
    \/ \E p \in Payments : Joins(p)
    \/ \E s \in Servers :
         /\ ExpireTransfer(s) \/ PostTransfer(s)
         /\ engine[s].payment \in Payments
         /\ Leaves(engine[s].payment)

LEMMA TransferFlight ==
  ASSUME CreditInv, NEW s \in Servers, TransferStep(s)
  PROVE  FlightStep
<1> DEFINE p == engine[s].payment
<1>a. status \in [Payments -> Statuses] /\ EngineInv
  BY DEF CreditInv, TypeOK, StoreTypeOK
<1>0. engine[s].at \in EngineWorking => p \in Payments
  BY EngineHolds DEF CreditInv, TypeOK
<1>1. CASE ExpireTransfer(s)
  <2>1. p \in Payments
    BY <1>0, <1>1 DEF ExpireTransfer, At, EngineWorking
  <2> QED BY <1>1, <2>1, ExpireLeaves DEF ExpireTransfer, FlightStep
<1>2. CASE PostTransfer(s)
  <2>1. p \in Payments
    BY <1>0, <1>2 DEF PostTransfer, At, EngineWorking
  <2> QED BY <1>2, <2>1, ClearLeaves DEF PostTransfer, FlightStep, paymentVars
<1>3. CASE MarkTransfer(s)
  <2>1. p \in Payments /\ Credited(p)
    BY <1>0, <1>3, <1>a DEF MarkTransfer, At, EngineWorking, EngineInv
  <2>2. /\ UNCHANGED <<entries, pending>>
        /\ status' = [status EXCEPT ![p] = "SETTLED"]
    BY <1>3 DEF MarkTransfer, MarkPaymentSettledIdempotent, ledgerVars
  <2>3. \A q \in Payments : Credited(q)' <=> Credited(q)
    BY <2>2, NoPosting
  <2>4. Unreleased' = Unreleased
    BY <1>a, <2>1, <2>2, <2>3, SameFlight
  <2> QED BY <2>2, <2>4 DEF FlightStep
<1>4. CASE FailTransfer(s)
  <2>1. p \in Payments
    BY <1>0, <1>4 DEF FailTransfer, At, EngineWorking
  <2>2. /\ UNCHANGED <<entries, pending>>
        /\ status' = [status EXCEPT ![p] = "FAILED"]
    BY <1>4 DEF FailTransfer, IncrementRetryAndSetStatus, ledgerVars
  <2>3. \A q \in Payments : Credited(q)' <=> Credited(q)
    BY <2>2, NoPosting
  <2>4. Unreleased \subseteq Unreleased'
    BY <1>a, <2>1, <2>2, <2>3 DEF Unreleased
  <2> QED BY <1>4, <2>2, <2>4 DEF FlightStep
<1>5. CASE RequeueTransfer(s)
  <2>2. /\ UNCHANGED <<entries, pending>>
        /\ status[p] = "FAILED"
        /\ status' = [status EXCEPT ![p] = "AWAITING_TRANSFER"]
    BY <1>5 DEF RequeueTransfer, UpdatePaymentStatus, ledgerVars
  <2>3. \A q \in Payments : Credited(q)' <=> Credited(q)
    BY <2>2, NoPosting
  <2>4. Unreleased' = Unreleased
    BY <1>a, <2>2, <2>3, SameFlight
  <2> QED BY <2>2, <2>4 DEF FlightStep
<1>6. ASSUME UNCHANGED <<entries, pending, status>> PROVE FlightStep
  <2>1. Unreleased' = Unreleased
    BY <1>6, NoPosting, SameFlight
  <2> QED BY <1>6, <2>1 DEF FlightStep
<1> QED
  BY <1>1, <1>2, <1>3, <1>4, <1>5, <1>6 DEF TransferStep, processAwaiting, processOne,
     ExpireTransferTooLate, PostTransferAgain, MarkTransferAgain,
     RequeueTransferTooLate, Announce, EnqueueWebhook, storeVars, ledgerVars, paymentVars

LEMMA HandlerFlight ==
  ASSUME CreditInv, NEW r \in Requests, RequestStep(r) \/ RequestFault(r)
  PROVE  FlightStep
<1> DEFINE p == request[r].payment
<1>a. status \in [Payments -> Statuses]
  BY DEF CreditInv, TypeOK, StoreTypeOK
<1>0. request[r].at \in HoldingPayment => p \in Payments
  BY HandlerHolds DEF CreditInv, TypeOK
<1>b. ASSUME UNCHANGED pending, \A q \in Payments : Credited(q)' <=> Credited(q),
             \A q \in Payments :
               \/ status'[q] = status[q]
               \/ /\ status[q] \notin {"AWAITING_TRANSFER", "FAILED"}
                  /\ status'[q] \notin {"AWAITING_TRANSFER", "FAILED"}
      PROVE  FlightStep
  <2>1. Unreleased' = Unreleased
    BY <1>b, SameFlight
  <2> QED BY <1>b, <2>1 DEF FlightStep
<1>1. CASE ConfirmIntent(r)
  <2>1. p \in Payments
    BY <1>0, <1>1 DEF ConfirmIntent, InHandler, HoldingPayment
  <2> QED BY <1>1, <2>1, ConfirmJoins DEF ConfirmIntent, FlightStep
<1>2. CASE Refund(r)
  <2>1. p \in Payments
    BY <1>0, <1>2 DEF Refund, InHandler, HoldingPayment
  <2>2. /\ status[p] = "SETTLED" /\ status' = [status EXCEPT ![p] = "CANCELLED"]
        /\ RefundPostings(p) /\ UNCHANGED pending
    BY <1>2 DEF Refund, RefundSettledPayment, RefundPostings
  <2>3. \A q \in Payments : Credited(q)' <=> Credited(q)
    BY <2>2, NoCredit
  <2>4. \A q \in Payments : \/ status'[q] = status[q]
                            \/ status[q] = "SETTLED" /\ status'[q] = "CANCELLED"
    BY <1>a, <2>1, <2>2
  <2> QED BY <1>b, <2>2, <2>3, <2>4
<1>3. CASE AdminCreatePaymentRequest(r)
  <2>1. PICK q \in Payments : CreatePaymentRequest(q)
    BY <1>3 DEF AdminCreatePaymentRequest
  <2>2. /\ status[q] = "NONE" /\ status' = [status EXCEPT ![q] = "PENDING"]
        /\ UNCHANGED <<entries, pending>>
    BY <2>1 DEF CreatePaymentRequest, ledgerVars
  <2>3. \A t \in Payments : Credited(t)' <=> Credited(t)
    BY <2>2, NoPosting
  <2>4. \A t \in Payments : \/ status'[t] = status[t]
                            \/ status[t] = "NONE" /\ status'[t] = "PENDING"
    BY <1>a, <2>2
  <2> QED BY <1>b, <2>2, <2>3, <2>4
<1>4. CASE ExpirePending(r)
  <2>1. p \in Payments
    BY <1>0, <1>4 DEF ExpirePending, InHandler, HoldingPayment
  <2>2. /\ status[p] = "PENDING" /\ status' = [status EXCEPT ![p] = "EXPIRED"]
        /\ UNCHANGED <<entries, pending>>
    BY <1>4 DEF ExpirePending, UpdatePaymentStatus, ledgerVars
  <2>3. \A q \in Payments : Credited(q)' <=> Credited(q)
    BY <2>2, NoPosting
  <2>4. \A q \in Payments : \/ status'[q] = status[q]
                            \/ status[q] = "PENDING" /\ status'[q] = "EXPIRED"
    BY <1>a, <2>1, <2>2
  <2> QED BY <1>b, <2>2, <2>3, <2>4
<1>5. CASE PostSettlement(r)
  <2>1. UNCHANGED <<pending, status>> /\ RunSettlement(request[r].run, request[r].cents)
    BY <1>5 DEF PostSettlement, RunSettlement, paymentVars
  <2>2. \A q \in Payments : Credited(q)' <=> Credited(q)
    BY <2>1, NoCredit
  <2>3. Unreleased' = Unreleased
    BY <2>1, <2>2, SameFlight
  <2> QED BY <2>1, <2>3 DEF FlightStep
<1>6. ASSUME UNCHANGED <<entries, pending, status>> PROVE FlightStep
  <2>1. Unreleased' = Unreleased
    BY <1>6, NoPosting, SameFlight
  <2> QED BY <1>6, <2>1 DEF FlightStep
<1> QED
  BY <1>1, <1>2, <1>3, <1>4, <1>5, <1>6 DEF RequestStep, OpenOverdue, ExpirePendingTooLate,
     ConfirmPayment, ConfirmIntentTooLate, AdminRefundPaymentRequest, RefundRefused,
     TriggerSettlement, ReadOperating, CompleteRun, CompleteEmptyRun, CompleteFailedRun,
     AnnounceRequest, CreateSettlement, CompleteSettlement, EnqueueWebhook, RequestFault,
     SettlementFails, RequestFails, RequestDropped, storeVars, ledgerVars, paymentVars

LEMMA NextFlight ==
  ASSUME CreditInv, [Next]_vars
  PROVE  FlightStep
<1>a. status \in [Payments -> Statuses]
  BY DEF CreditInv, TypeOK, StoreTypeOK
<1>1. ASSUME NEW ids, ExpireOverduePendingPayments(ids) PROVE FlightStep
  <2>1. /\ UNCHANGED <<entries, pending>>
        /\ status' = [q \in Payments |-> IF q \in ids THEN "EXPIRED" ELSE status[q]]
    BY <1>1 DEF ExpireOverduePendingPayments, ledgerVars
  <2>2. \A q \in Payments : \/ status'[q] = status[q]
                            \/ status[q] = "PENDING" /\ status'[q] = "EXPIRED"
    BY <1>1, <2>1, BatchIsOverdue DEF OverduePending
  <2>3. Unreleased' = Unreleased
    BY <2>1, <2>2, NoPosting, SameFlight
  <2> QED BY <2>1, <2>3 DEF FlightStep
<1>2. ASSUME UNCHANGED <<entries, pending, status>> PROVE FlightStep
  <2>1. Unreleased' = Unreleased
    BY <1>2, NoPosting, SameFlight
  <2> QED BY <1>2, <2>1 DEF FlightStep
<1>3. ASSUME NEW s \in Servers, SweepStep(s) \/ WorkerFault(s) \/ Crash(s) PROVE FlightStep
  BY <1>1, <1>2, <1>3 DEF SweepStep, expireOverduePayments, AnnounceSwept, EnqueueWebhook,
     WorkerFault, AnnouncementLost, StatementFails, SweptLost, Crash, storeVars, ledgerVars,
     paymentVars
<1>4. CASE AdminDashboard \/ Clock \/ UNCHANGED vars
  BY <1>1, <1>2, <1>4 DEF AdminDashboard, Clock, DueDatePasses, vars, ledgerVars, paymentVars
<1> QED BY <1>3, <1>4, TransferFlight, HandlerFlight DEF Next

(* Pending payments have no more money than any finite set around them.      *)
LEMMA FlightGrows ==
  ASSUME IsFiniteSet(Payments), NEW ps, NEW qs, ps \subseteq qs, qs \subseteq Payments
  PROVE  AmountOf(ps) <= AmountOf(qs)
<1>1. IsFiniteSet(qs) /\ IsFiniteSet(ps) /\ ps \subseteq Payments
  BY FS_Subset
<1>2. \A p \in qs : Amount[p] >= 0
  BY AmountType
<1>3. SumOver(Amount, ps) <= SumOver(Amount, qs)
  BY <1>1, <1>2, AmountType, SumMonotone
<1> QED BY <1>1, <1>3, AmountIsSum

LEMMA FlightWithout ==
  ASSUME IsFiniteSet(Payments), NEW ps, ps \subseteq Payments, NEW p \in Payments
  PROVE  /\ AmountOf(ps) \in Int /\ AmountOf(ps) >= 0
         /\ AmountOf(ps \ {p}) \in Int /\ AmountOf(ps \ {p}) >= 0
         /\ p \in ps => AmountOf(ps) = AmountOf(ps \ {p}) + Amount[p]
         /\ p \notin ps => AmountOf(ps \cup {p}) = AmountOf(ps) + Amount[p]
<1> DEFINE less == ps \ {p}
           more == ps \cup {p}
<1>1. /\ IsFiniteSet(ps) /\ IsFiniteSet(less) /\ less \subseteq Payments
      /\ IsFiniteSet(more) /\ more \subseteq Payments
  BY FS_Subset
<1>2. /\ AmountOf(ps) = SumOver(Amount, ps)
      /\ AmountOf(less) = SumOver(Amount, less)
      /\ AmountOf(more) = SumOver(Amount, more)
  BY <1>1, AmountIsSum
<1>3. p \notin ps => SumOver(Amount, more) = SumOver(Amount, ps) + Amount[p]
  BY <1>1, AmountType, SumAdd
<1>4. p \in ps => SumOver(Amount, less) = SumOver(Amount, ps) - Amount[p]
  BY <1>1, AmountType, SumRemove
<1>5. /\ AmountOf(ps) \in Int /\ AmountOf(ps) >= 0
      /\ AmountOf(less) \in Int /\ AmountOf(less) >= 0 /\ Amount[p] \in Int
  BY <1>1, AmountOfFacts, AmountType
<1> HIDE DEF less, more
<1>6. p \in ps => AmountOf(ps) = AmountOf(less) + Amount[p]
  BY <1>2, <1>4, <1>5
<1>7. p \notin ps => AmountOf(more) = AmountOf(ps) + Amount[p]
  BY <1>2, <1>3
<1> QED BY <1>5, <1>6, <1>7 DEF less, more

(* What is pending is in flight or given up, and never both.                 *)
LEMMA PendingSplits ==
  ASSUME IsFiniteSet(Payments)
  PROVE  AmountOf(Unreleased) = AmountOf(InFlight) + AmountOf(GivenUp)
<1>1. /\ Unreleased = InFlight \cup GivenUp /\ InFlight \cap GivenUp = {}
      /\ InFlight \subseteq Payments /\ GivenUp \subseteq Payments
      /\ Unreleased \subseteq Payments
  BY DEF Unreleased, InFlight, GivenUp, Uncredited
<1>2. IsFiniteSet(InFlight) /\ IsFiniteSet(GivenUp) /\ IsFiniteSet(Unreleased)
  BY <1>1, FS_Subset
<1>3. SumOver(Amount, InFlight \cup GivenUp)
        = SumOver(Amount, InFlight) + SumOver(Amount, GivenUp)
  BY <1>1, <1>2, AmountType, SumDisjoint
<1> QED BY <1>1, <1>2, <1>3, AmountIsSum

(* What leaves the pending payments is released.                             *)
UnreleasedCovers == pending <= AmountOf(Unreleased)

(* For finitely many payments on any number of servers, whatever fails, the  *)
(* pending figure of the dashboard claims only money that is in flight or    *)
(* was given up.                                                             *)
THEOREM PendingIsBacked ==
  ASSUME IsFiniteSet(Payments)
  PROVE  Spec => []PendingIsAccounted
<1>1. Init => CreditInv /\ UnreleasedCovers
  <2> SUFFICES ASSUME Init PROVE CreditInv /\ UnreleasedCovers
    OBVIOUS
  <2>1. pending = 0
    BY DEF Init, StoreInit, EnsureDefaultWallets
  <2>2. Unreleased \subseteq Payments /\ IsFiniteSet(Unreleased)
    <3>1. Unreleased \subseteq Payments
      BY DEF Unreleased
    <3> QED BY <3>1, FS_Subset
  <2>3. AmountOf(Unreleased) >= 0
    BY <2>2, AmountOfFacts
  <2> QED BY <2>1, <2>3, InitCredit DEF UnreleasedCovers
<1>2. CreditInv /\ UnreleasedCovers /\ [Next]_vars => CreditInv' /\ UnreleasedCovers'
  <2> SUFFICES ASSUME CreditInv, UnreleasedCovers, [Next]_vars
               PROVE  CreditInv' /\ UnreleasedCovers'
    OBVIOUS
  <2>1. CreditInv'
    BY NextCredit
  <2>2. pending \in Nat /\ Unreleased \subseteq Payments /\ Unreleased' \subseteq Payments
    BY DEF CreditInv, TypeOK, StoreTypeOK, Unreleased
  <2> DEFINE now == Unreleased
             then == Unreleased'
  <2> HIDE DEF now, then
  <2>3. pending <= AmountOf(now) /\ now \subseteq Payments /\ then \subseteq Payments
    BY <2>2 DEF UnreleasedCovers, now, then
  <2>4. pending' <= AmountOf(then)
    <3>1. CASE UNCHANGED pending /\ now \subseteq then
      <4>1. AmountOf(now) <= AmountOf(then) /\ AmountOf(now) \in Int /\ AmountOf(then) \in Int
        <5>1. IsFiniteSet(now) /\ IsFiniteSet(then)
          BY <2>3, FS_Subset
        <5> QED BY <2>3, <3>1, <5>1, FlightGrows, AmountOfFacts
      <4> QED BY <2>2, <2>3, <3>1, <4>1
    <3>2. ASSUME NEW p \in Payments, Joins(p) PROVE pending' <= AmountOf(then)
      <4>1. pending' = pending + Amount[p] /\ p \notin now /\ then = now \cup {p}
        BY <3>2 DEF Joins, now, then
      <4>2. AmountOf(then) = AmountOf(now) + Amount[p] /\ AmountOf(now) \in Int
        BY <2>3, <4>1, FlightWithout
      <4>3. Amount[p] \in Int
        BY AmountType
      <4> QED BY <2>2, <2>3, <4>1, <4>2, <4>3
    <3>3. ASSUME NEW p \in Payments, Leaves(p) PROVE pending' <= AmountOf(then)
      <4>1. pending' = Released(Amount[p]) /\ then = now \ {p}
        BY <3>3 DEF Leaves, now, then
      <4>2. /\ AmountOf(now) \in Int
            /\ AmountOf(now \ {p}) \in Int /\ AmountOf(now \ {p}) >= 0
            /\ p \in now => AmountOf(now) = AmountOf(now \ {p}) + Amount[p]
        BY <2>3, FlightWithout
      <4>3. p \notin now => AmountOf(now \ {p}) = AmountOf(now)
        <5>1. p \notin now => now \ {p} = now
          OBVIOUS
        <5> QED BY <5>1
      <4>4. Amount[p] \in Int /\ Amount[p] > 0
        BY AmountType
      <4> QED BY <2>2, <2>3, <4>1, <4>2, <4>3, <4>4 DEF Released
    <3>4. FlightStep
      BY NextFlight
    <3> QED BY <3>1, <3>2, <3>3, <3>4 DEF FlightStep, now, then
  <2> QED BY <2>1, <2>4 DEF UnreleasedCovers, then
<1>3. UnreleasedCovers => PendingIsAccounted
  BY PendingSplits DEF UnreleasedCovers, PendingIsAccounted
<1> QED BY <1>1, <1>2, <1>3, PTL DEF Spec

(* On one server without faults an engine fails, expires and posts only what *)
(* is pending.                                                               *)
LEMMA ExactFlight ==
  ASSUME LifeInv, OneServer, Faults = {}, FlightStep, [Next]_vars
  PROVE  \/ UNCHANGED pending /\ Unreleased' = Unreleased
         \/ \E p \in Payments : Joins(p)
         \/ \E p \in Unreleased : Leaves(p)
<1>a. /\ CreditInv /\ BatchInv
      /\ status \in [Payments -> Statuses]
  BY DEF LifeInv, CreditInv, TypeOK, StoreTypeOK
<1>1. ASSUME NEW s \in Servers, FailTransfer(s), UNCHANGED pending
      PROVE  Unreleased' = Unreleased
  <2> DEFINE p == engine[s].payment
  <2>1. /\ status[p] = "AWAITING_TRANSFER"
        /\ status' = [status EXCEPT ![p] = "FAILED"] /\ UNCHANGED entries
    BY <1>1, <1>a DEF BatchInv, BatchOK, FailTransfer, At, IncrementRetryAndSetStatus, ledgerVars
  <2>2. \A q \in Payments : Credited(q)' <=> Credited(q)
    BY <2>1, NoPosting
  <2> HIDE DEF p
  <2>3. \A q \in Payments : \/ status'[q] = status[q]
                            \/ status[q] = "AWAITING_TRANSFER" /\ status'[q] = "FAILED"
    BY <1>a, <2>1
  <2> QED BY <2>2, <2>3, SameFlight
<1>2. ASSUME NEW s \in Servers, ExpireTransfer(s), engine[s].payment \in Payments
      PROVE  engine[s].payment \in Unreleased
  <2>1. engine[s].at # "mark" /\ status[engine[s].payment] = "AWAITING_TRANSFER"
    BY <1>2 DEF ExpireTransfer, At, ExpireAwaitingTransfer
  <2>2. ~Credited(engine[s].payment)
    BY <1>2, <2>1, NothingUnmarked
  <2> QED BY <1>2, <2>1, <2>2 DEF Unreleased
<1>3. ASSUME NEW s \in Servers, PostTransfer(s), engine[s].payment \in Payments
      PROVE  engine[s].payment \in Unreleased
  <2>1. status[engine[s].payment] = "AWAITING_TRANSFER"
    BY <1>3, <1>a DEF BatchInv, BatchOK, PostTransfer, At
  <2>2. ~Credited(engine[s].payment)
    BY <1>3, <1>a, ClearLeaves DEF PostTransfer, paymentVars
  <2> QED BY <1>3, <2>1, <2>2 DEF Unreleased
<1> QED BY <1>1, <1>2, <1>3 DEF FlightStep

UnreleasedExact == pending = AmountOf(Unreleased)

(* On one server without faults, for finitely many payments, the pending     *)
(* figure is the money in flight and the money given up, to the cent.        *)
THEOREM PendingIsExact ==
  ASSUME OneServer, Faults = {}, IsFiniteSet(Payments)
  PROVE  Spec => []PendingExact
<1>1. Init => LifeInv /\ UnreleasedExact
  <2> SUFFICES ASSUME Init PROVE LifeInv /\ UnreleasedExact
    OBVIOUS
  <2>1. pending = 0 /\ status = [p \in Payments |-> "NONE"]
    BY DEF Init, StoreInit, EnsureDefaultWallets
  <2>2. Unreleased = {}
    BY <2>1 DEF Unreleased
  <2>3. AmountOf({}) = 0
    <3>1. AmountOf({}) = SumOver(Amount, {})
      BY FS_EmptySet, AmountIsSum
    <3> QED BY <3>1, AmountType, SumEmpty
  <2> QED BY <2>1, <2>2, <2>3, InitLife DEF UnreleasedExact
<1>2. LifeInv /\ UnreleasedExact /\ [Next]_vars => LifeInv' /\ UnreleasedExact'
  <2> SUFFICES ASSUME LifeInv, UnreleasedExact, [Next]_vars PROVE LifeInv' /\ UnreleasedExact'
    OBVIOUS
  <2>1. LifeInv'
    BY NextLife
  <2>2. pending \in Nat /\ Unreleased \subseteq Payments
    BY DEF LifeInv, CreditInv, TypeOK, StoreTypeOK, Unreleased
  <2>3. /\ FlightStep
        /\ \/ UNCHANGED pending /\ Unreleased' = Unreleased
           \/ \E p \in Payments : Joins(p)
           \/ \E p \in Unreleased : Leaves(p)
    BY NextFlight, ExactFlight DEF LifeInv
  <2> DEFINE now == Unreleased
             then == Unreleased'
  <2> HIDE DEF now, then
  <2>4. pending = AmountOf(now) /\ now \subseteq Payments
    BY <2>2 DEF UnreleasedExact, now
  <2>5. pending' = AmountOf(then)
    <3>1. CASE UNCHANGED pending /\ then = now
      BY <2>4, <3>1
    <3>2. ASSUME NEW p \in Payments, Joins(p) PROVE pending' = AmountOf(then)
      <4>1. pending' = pending + Amount[p] /\ p \notin now /\ then = now \cup {p}
        BY <3>2 DEF Joins, now, then
      <4> QED BY <2>4, <4>1, FlightWithout
    <3>3. ASSUME NEW p \in now, Leaves(p) PROVE pending' = AmountOf(then)
      <4>1. pending' = Released(Amount[p]) /\ then = now \ {p} /\ p \in Payments
        BY <2>4, <3>3 DEF Leaves, now, then
      <4>2. /\ AmountOf(now \ {p}) \in Int /\ AmountOf(now \ {p}) >= 0
            /\ AmountOf(now) = AmountOf(now \ {p}) + Amount[p]
        BY <2>4, <4>1, FlightWithout
      <4>3. Amount[p] \in Int
        BY <4>1, AmountType
      <4> QED BY <2>2, <2>4, <4>1, <4>2, <4>3 DEF Released
    <3> QED BY <2>3, <3>1, <3>2, <3>3 DEF now, then
  <2> QED BY <2>1, <2>5 DEF UnreleasedExact, then
<1>3. UnreleasedExact => PendingExact
  BY PendingSplits DEF UnreleasedExact, PendingExact
<1> QED BY <1>1, <1>2, <1>3, PTL DEF Spec

-----------------------------------------------------------------------------
(* Settlement runs move no more than the payments brought. *)

Operating(type) == {e \in Entries : e.wallet = "OPERATING" /\ e.type = type}
MovedIn  == Cents(entries \cap Operating("PAYMENT_IN"))
MovedOut == Cents(entries \cap Operating("SETTLEMENT"))

(* What the handler of a run has read of the balance and not posted yet.     *)
Held == [r \in Requests |-> IF request[r].at = "post" THEN request[r].cents ELSE 0]

(* No handler holds more than all payments brought; all of them and what is  *)
(* settled already hold it at most once for each slot.                       *)
HeldInv ==
    /\ \A r \in Requests : Held[r] \in Int /\ 0 <= Held[r] /\ Held[r] <= MovedIn
    /\ MovedOut + SumOver(Held, Requests) <= Cardinality(Requests) * MovedIn

BackedInv == RowInv /\ MoneyInv /\ HeldInv

LEMMA Shares == \A n, b \in Int : (n - 1) * b + b = n * b
OBVIOUS

LEMMA SharesGrow ==
  ASSUME NEW n \in Nat, NEW b \in Int, NEW c \in Int, b <= c
  PROVE  n * b <= n * c
<1> DEFINE d == c - b
<1>1. d \in Nat /\ c = b + d
  OBVIOUS
<1>2. n * (b + d) = n * b + n * d
  OBVIOUS
<1>3. n * d \in Nat /\ n * b \in Int
  OBVIOUS
<1> HIDE DEF d
<1> QED BY <1>1, <1>2, <1>3

LEMMA SumBounded ==
  ASSUME NEW R, IsFiniteSet(R), NEW D, R \subseteq D, NEW g \in [D -> Int], NEW b \in Int,
         \A x \in R : g[x] <= b
  PROVE  SumOver(g, R) <= Cardinality(R) * b
<1> DEFINE G == {s \in SUBSET R : SumOver(g, s) <= Cardinality(s) * b}
<1>1. {} \in G
  <2>1. SumOver(g, {}) = 0 /\ Cardinality({}) = 0
    BY SumEmpty, FS_EmptySet
  <2> QED BY <2>1
<1>2. ASSUME NEW s \in SUBSET R, NEW x \in s, s \ {x} \in G PROVE s \in G
  <2> DEFINE less == s \ {x}
  <2>1. /\ IsFiniteSet(s) /\ s \subseteq D /\ IsFiniteSet(less) /\ less \subseteq D
        /\ Cardinality(s) \in Nat /\ Cardinality(less) = Cardinality(s) - 1
    BY FS_Subset, FS_CardinalityType, FS_RemoveElement
  <2>2. SumOver(g, s) = g[x] + SumOver(g, less)
    BY <2>1, SumSplit
  <2>3. SumOver(g, less) \in Int /\ g[x] \in Int /\ g[x] <= b
    BY <2>1, SumType
  <2>4. SumOver(g, less) <= Cardinality(less) * b
    BY <1>2
  <2> HIDE DEF less
  <2>5. SumOver(g, less) <= (Cardinality(s) - 1) * b
    BY <2>1, <2>4
  <2>6. (Cardinality(s) - 1) * b + b = Cardinality(s) * b /\ (Cardinality(s) - 1) * b \in Int
    BY <2>1, Shares
  <2>7. SumOver(g, s) <= Cardinality(s) * b
    BY <2>2, <2>3, <2>5, <2>6
  <2> QED BY <2>7
<1> HIDE DEF G
<1>3. R \in G
  BY <1>1, <1>2, SetInduced, ZenonT(60) DEF G
<1> QED BY <1>3 DEF G

LEMMA OperatingRows ==
  ASSUME entries \subseteq Entries
  PROVE  \A type : {e \in entries : e.wallet = "OPERATING" /\ e.type = type}
                     = entries \cap Operating(type)
BY DEF Operating

(* The balance of the OPERATING wallet is at most what came in less what was *)
(* settled.                                                                  *)
LEMMA BalanceBounded ==
  ASSUME RowInv, MoneyInv
  PROVE  /\ MovedIn \in Int /\ MovedOut \in Int /\ MovedIn >= 0 /\ MovedOut >= 0
         /\ balance["OPERATING"] \in Int
         /\ balance["OPERATING"] <= MovedIn - MovedOut
<1> DEFINE In == entries \cap Operating("PAYMENT_IN")
           Out == entries \cap Operating("SETTLEMENT")
           Back == entries \cap Operating("REVERSAL")
<1>1. /\ entries \subseteq Entries /\ IsFiniteSet(entries)
      /\ balance["OPERATING"] \in Int
      /\ \A e \in entries : RowShape(e) /\ e.cents > 0
      /\ BalancesMatchLedger
  BY DEF RowInv, CreditInv, StoreInv, RowsOK, MoneyInv, TypeOK, StoreTypeOK, Wallets
<1>2. /\ In \subseteq Entries /\ Out \subseteq Entries /\ Back \subseteq Entries
      /\ IsFiniteSet(In) /\ IsFiniteSet(Out) /\ IsFiniteSet(Back)
      /\ Back \cap Out = {}
      /\ \A e \in In \cup Out \cup Back : e.cents > 0
  BY <1>1, FS_Subset DEF Operating
<1>3. {e \in entries : e.wallet = "OPERATING" /\ e.direction = "DR"} = In
  BY <1>1 DEF RowShape, Operating
<1>4. {e \in entries : e.wallet = "OPERATING" /\ e.direction = "CR"} = Back \cup Out
  BY <1>1 DEF RowShape, Operating
<1>5. balance["OPERATING"] = Cents(In) - Cents(Back \cup Out)
  <2>1. "OPERATING" \in Wallets
    BY DEF Wallets
  <2>2. balance["OPERATING"] =
            Cents({e \in entries : e.wallet = "OPERATING" /\ e.direction = "DR"})
          - Cents({e \in entries : e.wallet = "OPERATING" /\ e.direction = "CR"})
    BY <1>1, <2>1 DEF BalancesMatchLedger
  <2> HIDE DEF In, Out, Back
  <2> QED BY <1>3, <1>4, <2>2
<1> HIDE DEF In, Out, Back
<1>6. Cents(Back \cup Out) = Cents(Back) + Cents(Out)
  BY <1>2, CentsDisjoint
<1>7. /\ Cents(In) \in Int /\ Cents(In) >= 0 /\ Cents(Out) \in Int /\ Cents(Out) >= 0
      /\ Cents(Back) \in Int /\ Cents(Back) >= 0
  BY <1>2, CentsBelow
<1>8. balance["OPERATING"] <= Cents(In) - Cents(Out)
  BY <1>1, <1>5, <1>6, <1>7
<1> QED BY <1>1, <1>7, <1>8 DEF In, Out, MovedIn, MovedOut

(* Another function held by the same slots. *)
LEMMA HeldOnly ==
  ASSUME IsFiniteSet(Requests), NEW g \in [Requests -> Int], NEW h \in [Requests -> Int],
         NEW r \in Requests, \A q \in Requests \ {r} : g[q] = h[q]
  PROVE  /\ SumOver(h, Requests) = SumOver(g, Requests) - g[r] + h[r]
         /\ SumOver(g, Requests) \in Int
         /\ SumOver(g, Requests) = g[r] + SumOver(g, Requests \ {r})
         /\ SumOver(g, Requests \ {r}) \in Int
<1> DEFINE others == Requests \ {r}
<1>1. IsFiniteSet(others) /\ others \subseteq Requests
  BY FS_Subset
<1>2. /\ SumOver(g, Requests) = g[r] + SumOver(g, others)
      /\ SumOver(h, Requests) = h[r] + SumOver(h, others)
  BY SumSplit
<1>3. \A q \in others : g[q] = h[q]
  OBVIOUS
<1> HIDE DEF others
<1>4. SumOver(g, others) = SumOver(h, others)
  BY <1>1, <1>3, SumSame
<1>5. SumOver(g, Requests) \in Int /\ SumOver(g, others) \in Int /\ g[r] \in Int /\ h[r] \in Int
  BY <1>1, SumType
<1> QED BY <1>2, <1>4, <1>5 DEF others

LEMMA HeldLess ==
  ASSUME IsFiniteSet(Requests), NEW g \in [Requests -> Int], NEW h \in [Requests -> Int],
         \A q \in Requests : h[q] <= g[q] /\ g[q] >= 0
  PROVE  SumOver(h, Requests) <= SumOver(g, Requests)
<1> DEFINE place == [q \in Requests |-> q]
<1>1. /\ place \in [Requests -> Requests]
      /\ \A p, q \in Requests : place[p] = place[q] => p = q
      /\ \A q \in Requests : h[q] <= g[place[q]]
  OBVIOUS
<1> HIDE DEF place
<1> QED BY <1>1, SumCovered

LEMMA HeldType ==
  ASSUME TypeOK
  PROVE  Held \in [Requests -> Int]
<1>1. \A r \in Requests : request[r] \in RequestLocals
  BY DEF TypeOK, MemoryTypeOK
<1> QED BY <1>1 DEF Held, RequestLocals

(* A run posts what it held: the money goes from held to moved.              *)
LEMMA PostMovesHeld ==
  ASSUME BackedInv, TypeOK', IsFiniteSet(Requests), NEW r \in Requests, PostSettlement(r)
  PROVE  HeldInv'
<1> DEFINE n == request[r].run
           cents == request[r].cents
           dr == Entry("ESCROW", "DR", "SETTLEMENT", n, cents)
           cr == Entry("OPERATING", "CR", "SETTLEMENT", n, cents)
           In == Operating("PAYMENT_IN")
           Out == Operating("SETTLEMENT")
<1>1. /\ TypeOK /\ entries \subseteq Entries /\ IsFiniteSet(entries) /\ HeldInv
      /\ request \in [Requests -> RequestLocals]
  BY DEF BackedInv, RowInv, CreditInv, TypeOK, StoreTypeOK, MemoryTypeOK
<1>2. n \in Settlements /\ cents \in Int /\ request[r].at = "post"
  BY <1>1, HandlerHolds DEF TypeOK, PostSettlement, InHandler, HoldingRun
<1>3. postInTx(dr, cr) /\ request' = [request EXCEPT ![r] = [request[r] EXCEPT !.at = "complete"]]
  BY DEF PostSettlement, RunSettlement, Proceed
<1>4. dr \in Entries /\ cr \in Entries /\ dr # cr
  BY <1>2 DEF Entry, Entries, Wallets, Directions, EntryTypes, Refs
<1>5. /\ In \subseteq Entries /\ Out \subseteq Entries
      /\ dr \notin In /\ cr \notin In /\ dr \notin Out /\ cr \in Out /\ cr.cents = cents
  BY <1>4 DEF Operating, Entry
<1> HIDE DEF dr, cr, In, Out
<1>6. Cents(entries' \cap In) = Cents(entries \cap In)
  <2>1. /\ Cents(entries \cap In) \in Int
        /\ Cents(entries' \cap In) = Cents(entries \cap In) + (IF dr \in In THEN dr.cents ELSE 0)
                                                            + (IF cr \in In THEN cr.cents ELSE 0)
    BY <1>1, <1>3, <1>4, <1>5, CentsPosted
  <2> QED BY <1>5, <2>1
<1>7. Cents(entries' \cap Out) = Cents(entries \cap Out) + cents /\ Cents(entries \cap Out) \in Int
  <2>1. /\ Cents(entries \cap Out) \in Int
        /\ Cents(entries' \cap Out) = Cents(entries \cap Out) + (IF dr \in Out THEN dr.cents ELSE 0)
                                                              + (IF cr \in Out THEN cr.cents ELSE 0)
    BY <1>1, <1>3, <1>4, <1>5, CentsPosted
  <2> QED BY <1>2, <1>5, <2>1
<1> DEFINE g == Held
           h == Held'
<1>8. /\ g \in [Requests -> Int] /\ h \in [Requests -> Int]
      /\ g[r] = cents /\ h[r] = 0 /\ \A q \in Requests \ {r} : g[q] = h[q]
  <2>1. g \in [Requests -> Int]
    BY <1>1, HeldType
  <2>2. g[r] = cents
    BY <1>2 DEF Held
  <2>3. request'[r].at = "complete" /\ \A q \in Requests \ {r} : request'[q] = request[q]
    BY <1>1, <1>3 DEF RequestLocals
  <2>4. h[r] = 0 /\ \A q \in Requests \ {r} : g[q] = h[q]
    BY <2>3 DEF Held
  <2>5. h = [q \in Requests |-> h[q]]
    BY DEF Held
  <2>6. \A q \in Requests : h[q] \in Int
    BY <2>1, <2>4
  <2> QED BY <2>1, <2>2, <2>4, <2>5, <2>6
<1>9. /\ \A q \in Requests : 0 <= g[q] /\ g[q] <= Cents(entries \cap In)
      /\ Cents(entries \cap Out) + SumOver(g, Requests)
           <= Cardinality(Requests) * Cents(entries \cap In)
      /\ Cents(entries \cap In) \in Int
  BY <1>1, BalanceBounded DEF BackedInv, HeldInv, MovedIn, MovedOut, In, Out
<1> HIDE DEF g, h
<1>10. SumOver(h, Requests) = SumOver(g, Requests) - g[r] + h[r] /\ SumOver(g, Requests) \in Int
  BY <1>8, HeldOnly
<1>11. Cents(entries' \cap Out) + SumOver(h, Requests)
         <= Cardinality(Requests) * Cents(entries' \cap In)
  <2>1. Cents(entries' \cap Out) + SumOver(h, Requests)
          = Cents(entries \cap Out) + SumOver(g, Requests)
    BY <1>2, <1>7, <1>8, <1>10
  <2> QED BY <1>6, <1>9, <2>1
<1>12. \A q \in Requests : h[q] \in Int /\ 0 <= h[q] /\ h[q] <= Cents(entries' \cap In)
  <2> SUFFICES ASSUME NEW q \in Requests
               PROVE  h[q] \in Int /\ 0 <= h[q] /\ h[q] <= Cents(entries' \cap In)
    OBVIOUS
  <2>1. g[q] \in Int /\ h[q] \in Int /\ (h[q] = 0 \/ h[q] = g[q])
    BY <1>8
  <2>2. 0 <= g[q] /\ g[q] <= Cents(entries \cap In) /\ Cents(entries \cap In) \in Int
    BY <1>9
  <2> QED BY <1>6, <2>1, <2>2
<1> QED BY <1>11, <1>12 DEF HeldInv, MovedIn, MovedOut, In, Out, h

(* A run that reads the balance takes no more than is left, and the others   *)
(* hold no more than everything that came in, each.                          *)
LEMMA ReadHolds ==
  ASSUME BackedInv, TypeOK', IsFiniteSet(Requests), NEW r \in Requests, ReadOperating(r)
  PROVE  HeldInv'
<1> DEFINE N == Cardinality(Requests)
           others == Requests \ {r}
           g == Held
           h == Held'
<1>1. /\ TypeOK /\ HeldInv
      /\ request \in [Requests -> RequestLocals]
      /\ UNCHANGED entries /\ request[r].at = "readBalance"
      /\ request' = [request EXCEPT ![r] =
           IF balance["OPERATING"] <= 0
             THEN Settling("completeEmpty", request[r].run, 0)
             ELSE Settling("post", request[r].run, balance["OPERATING"])]
  BY DEF BackedInv, RowInv, CreditInv, TypeOK, MemoryTypeOK, ReadOperating, InHandler,
     Proceed, storeVars, ledgerVars
<1>2. /\ MovedIn \in Int /\ MovedOut \in Int /\ MovedIn >= 0 /\ MovedOut >= 0
      /\ balance["OPERATING"] \in Int
      /\ balance["OPERATING"] <= MovedIn - MovedOut
  BY BalanceBounded DEF BackedInv
<1>3. MovedIn' = MovedIn /\ MovedOut' = MovedOut
  BY <1>1 DEF MovedIn, MovedOut
<1>4. /\ g \in [Requests -> Int] /\ h \in [Requests -> Int]
      /\ g[r] = 0 /\ \A q \in Requests \ {r} : g[q] = h[q]
      /\ h[r] = 0 \/ (h[r] > 0 /\ h[r] = balance["OPERATING"])
  <2>1. g \in [Requests -> Int]
    BY <1>1, HeldType
  <2>2. g[r] = 0
    BY <1>1 DEF Held
  <2>3. \A q \in Requests \ {r} : request'[q] = request[q]
    BY <1>1
  <2>4. \A q \in Requests \ {r} : g[q] = h[q]
    BY <2>3 DEF Held
  <2>5. h[r] = 0 \/ (h[r] > 0 /\ h[r] = balance["OPERATING"])
    <3>1. CASE balance["OPERATING"] <= 0
      <4>1. request'[r].at = "completeEmpty"
        BY <1>1, <3>1 DEF Settling
      <4> QED BY <4>1 DEF Held
    <3>2. CASE ~(balance["OPERATING"] <= 0)
      <4>1. request'[r].at = "post" /\ request'[r].cents = balance["OPERATING"]
        BY <1>1, <3>2 DEF Settling
      <4> QED BY <1>2, <3>2, <4>1 DEF Held
    <3> QED BY <3>1, <3>2
  <2>6. h = [q \in Requests |-> h[q]]
    BY DEF Held
  <2>7. \A q \in Requests : h[q] \in Int
    BY <1>2, <2>1, <2>4, <2>5
  <2> QED BY <2>1, <2>2, <2>4, <2>5, <2>6, <2>7
<1>5. /\ \A q \in Requests : 0 <= g[q] /\ g[q] <= MovedIn
      /\ MovedOut + SumOver(g, Requests) <= N * MovedIn
  BY <1>1 DEF HeldInv
<1> HIDE DEF g, h
<1>6. /\ SumOver(h, Requests) = SumOver(g, Requests) - g[r] + h[r]
      /\ SumOver(g, Requests) = g[r] + SumOver(g, others)
      /\ SumOver(g, others) \in Int
  BY <1>4, HeldOnly
<1>7. SumOver(g, others) <= (N - 1) * MovedIn /\ N \in Nat
  <2>1. /\ IsFiniteSet(others) /\ others \subseteq Requests
        /\ Cardinality(others) = N - 1 /\ N \in Nat
    BY FS_RemoveElement, FS_CardinalityType
  <2>2. \A q \in others : g[q] <= MovedIn
    BY <1>5
  <2>3. SumOver(g, others) <= Cardinality(others) * MovedIn
    BY <1>2, <1>4, <2>1, <2>2, SumBounded
  <2> HIDE DEF others, N
  <2> QED BY <2>1, <2>3
<1>8. (N - 1) * MovedIn + MovedIn = N * MovedIn /\ (N - 1) * MovedIn \in Int
  BY <1>2, <1>7, Shares
<1> HIDE DEF N
<1>9. MovedOut + SumOver(h, Requests) <= N * MovedIn
  <2>1. SumOver(h, Requests) = SumOver(g, others) + h[r] /\ h[r] \in Int
    BY <1>4, <1>6
  <2>2. CASE h[r] = 0
    BY <1>4, <1>5, <1>6, <2>1, <2>2
  <2>3. CASE h[r] = balance["OPERATING"]
    BY <1>2, <1>6, <1>7, <1>8, <2>1, <2>3
  <2> QED BY <1>4, <2>2, <2>3
<1>10. \A q \in Requests : h[q] \in Int /\ 0 <= h[q] /\ h[q] <= MovedIn
  <2> SUFFICES ASSUME NEW q \in Requests PROVE h[q] \in Int /\ 0 <= h[q] /\ h[q] <= MovedIn
    OBVIOUS
  <2>1. CASE q = r
    BY <1>2, <1>4, <2>1
  <2>2. CASE q # r
    <3>1. h[q] = g[q]
      BY <1>4, <2>2
    <3> QED BY <1>4, <1>5, <3>1
  <2> QED BY <2>1, <2>2
<1> QED BY <1>3, <1>9, <1>10 DEF HeldInv, N, h

(* In every other step a slot goes on holding what it held or lets it go.    *)
LEMMA OthersLetGo ==
  ASSUME TypeOK, [Next]_vars, NEW q \in Requests,
         \A r \in Requests : ~ReadOperating(r)
  PROVE  request'[q] = request[q] \/ request'[q].at # "post"
<1>1. request \in [Requests -> RequestLocals]
  BY DEF TypeOK, MemoryTypeOK
<1>2. ASSUME NEW r \in Requests, NEW local, Proceed(r, local), local.at # "post"
      PROVE  request'[q] = request[q] \/ request'[q].at # "post"
  BY <1>1, <1>2 DEF Proceed
<1>3. Idle.at # "post"
  BY DEF Idle
<1>4. \A p : \A at \in HoldingPayment : Holding(at, p).at # "post"
  BY DEF Holding, HoldingPayment
<1>5. ASSUME NEW r \in Requests, RequestStep(r) \/ RequestFault(r)
      PROVE  request'[q] = request[q] \/ request'[q].at # "post"
  <2>1. ASSUME Respond(r) PROVE request'[q] = request[q] \/ request'[q].at # "post"
    BY <1>2, <1>3, <2>1 DEF Respond
  <2>2. ASSUME NEW p, NEW at \in HoldingPayment, Proceed(r, Holding(at, p))
        PROVE  request'[q] = request[q] \/ request'[q].at # "post"
    BY <1>2, <1>4, <2>2
  <2>3. ASSUME NEW at, at # "post", NEW n, NEW cents, Proceed(r, Settling(at, n, cents))
        PROVE  request'[q] = request[q] \/ request'[q].at # "post"
    <3>1. Settling(at, n, cents).at # "post"
      BY <2>3 DEF Settling
    <3> QED BY <1>2, <2>3, <3>1
  <2>4. ASSUME NEW at \in {"complete", "announceCompleted"},
               Proceed(r, [request[r] EXCEPT !.at = at])
        PROVE  request'[q] = request[q] \/ request'[q].at # "post"
    <3>1. [request[r] EXCEPT !.at = at].at # "post"
      BY <1>1 DEF RequestLocals
    <3> QED BY <1>2, <2>4, <3>1
  <2>5. CASE \/ AdminCreatePaymentRequest(r) \/ OpenOverdue(r) \/ ConfirmPayment(r)
             \/ ConfirmIntent(r) \/ AdminRefundPaymentRequest(r) \/ Refund(r)
    BY <2>2, <2>5 DEF AdminCreatePaymentRequest, OpenOverdue, ConfirmPayment, ConfirmIntent,
       AdminRefundPaymentRequest, Refund, HoldingPayment
  <2>6. CASE \/ ExpirePending(r) \/ ExpirePendingTooLate(r) \/ ConfirmIntentTooLate(r)
             \/ RefundRefused(r) \/ CompleteEmptyRun(r) \/ CompleteFailedRun(r)
             \/ AnnounceRequest(r) \/ RequestFails(r) \/ RequestDropped(r)
    BY <2>1, <2>6 DEF ExpirePending, ExpirePendingTooLate, ConfirmIntentTooLate, RefundRefused,
       CompleteEmptyRun, CompleteFailedRun, AnnounceRequest, RequestFails, RequestDropped
  <2>7. CASE TriggerSettlement(r) \/ SettlementFails(r)
    BY <2>3, <2>7 DEF TriggerSettlement, SettlementFails
  <2>8. CASE PostSettlement(r) \/ CompleteRun(r)
    BY <2>4, <2>8 DEF PostSettlement, CompleteRun
  <2> QED BY <1>5, <2>5, <2>6, <2>7, <2>8 DEF RequestStep, RequestFault
<1>6. ASSUME NEW s \in Servers, Crash(s)
      PROVE  request'[q] = request[q] \/ request'[q].at # "post"
  BY <1>3, <1>6 DEF Crash
<1>7. ASSUME NEW s \in Servers, TransferStep(s) \/ SweepStep(s) \/ WorkerFault(s)
      PROVE  UNCHANGED request
  BY <1>7 DEF TransferStep, processAwaiting, processOne, ExpireTransfer,
     ExpireTransferTooLate, PostTransfer, PostTransferAgain, MarkTransfer, MarkTransferAgain,
     FailTransfer, RequeueTransfer, RequeueTransferTooLate, Announce, SweepStep,
     expireOverduePayments, AnnounceSwept, WorkerFault, AnnouncementLost, StatementFails,
     SweptLost
<1>8. CASE AdminDashboard \/ Clock \/ UNCHANGED vars
  BY <1>8 DEF AdminDashboard, Clock, vars, memoryVars
<1> QED BY <1>5, <1>6, <1>7, <1>8 DEF Next

(* No other posting than that of a run moves money out.                      *)
LEMMA OthersMoveNothingOut ==
  ASSUME BackedInv, [Next]_vars, \A r \in Requests : ~PostSettlement(r)
  PROVE  MovedOut' = MovedOut /\ MovedIn <= MovedIn' /\ MovedIn' \in Int
<1>1. /\ TypeOK /\ entries \subseteq Entries /\ IsFiniteSet(entries)
      /\ MovedIn \in Int /\ MovedOut \in Int
  BY BalanceBounded DEF BackedInv, RowInv, CreditInv, TypeOK, StoreTypeOK
<1>2. CASE UNCHANGED <<entries, balance>>
  BY <1>1, <1>2 DEF MovedOut, MovedIn
<1>3. ASSUME NEW dr, NEW cr, dr \in Entries, cr \in Entries, dr # cr, postInTx(dr, cr),
             dr.type # "SETTLEMENT", cr.type # "SETTLEMENT"
      PROVE  MovedOut' = MovedOut /\ MovedIn <= MovedIn' /\ MovedIn' \in Int
  <2> DEFINE In == Operating("PAYMENT_IN")
             Out == Operating("SETTLEMENT")
  <2>1. In \subseteq Entries /\ Out \subseteq Entries /\ dr \notin Out /\ cr \notin Out
    BY <1>3 DEF Operating
  <2> HIDE DEF In, Out
  <2>2. /\ Cents(entries \cap Out) \in Int
        /\ Cents(entries' \cap Out) = Cents(entries \cap Out) + (IF dr \in Out THEN dr.cents ELSE 0)
                                                              + (IF cr \in Out THEN cr.cents ELSE 0)
    BY <1>1, <1>3, <2>1, CentsPosted
  <2>3. /\ Cents(entries \cap In) \in Int
        /\ dr.cents > 0 /\ cr.cents > 0 /\ dr.cents \in Int /\ cr.cents \in Int
        /\ Cents(entries' \cap In) = Cents(entries \cap In) + (IF dr \in In THEN dr.cents ELSE 0)
                                                            + (IF cr \in In THEN cr.cents ELSE 0)
    <3>1. dr.cents \in Int /\ cr.cents \in Int
      BY <1>3 DEF Entries
    <3> QED BY <1>1, <1>3, <2>1, <3>1, CentsPosted
  <2>4. Cents(entries' \cap Out) = Cents(entries \cap Out)
    BY <2>1, <2>2
  <2>5. Cents(entries \cap In) <= Cents(entries' \cap In) /\ Cents(entries' \cap In) \in Int
    BY <2>3
  <2> QED BY <2>4, <2>5 DEF In, Out, MovedIn, MovedOut
<1>4. ASSUME NEW p \in Payments, ClearPendingEscrowToOperating(p) \/ RefundSettledPayment(p)
      PROVE  MovedOut' = MovedOut /\ MovedIn <= MovedIn' /\ MovedIn' \in Int
  <2>1. Amount[p] \in Int /\ p \in Refs
    BY AmountType DEF Refs
  <2>2. \A w \in Wallets, d \in Directions, type \in EntryTypes :
          /\ Entry(w, d, type, p, Amount[p]) \in Entries
          /\ Entry(w, d, type, p, Amount[p]).type = type
          /\ Entry(w, d, type, p, Amount[p]).wallet = w
    BY <2>1 DEF Entry, Entries
  <2>3. CASE ClearPendingEscrowToOperating(p)
    BY <1>3, <2>2, <2>3 DEF ClearPendingEscrowToOperating, Wallets, Directions, EntryTypes
  <2>4. CASE RefundSettledPayment(p)
    BY <1>3, <2>2, <2>4 DEF RefundSettledPayment, RefundPostings, Wallets, Directions, EntryTypes
  <2> QED BY <1>4, <2>3, <2>4
<1> QED BY <1>1, <1>2, <1>4, PostingActions

LEMMA OthersKeepHeld ==
  ASSUME BackedInv, TypeOK', IsFiniteSet(Requests), [Next]_vars,
         \A r \in Requests : ~PostSettlement(r) /\ ~ReadOperating(r)
  PROVE  HeldInv'
<1> DEFINE N == Cardinality(Requests)
           g == Held
           h == Held'
           in == MovedIn
           after == MovedIn'
<1>1. TypeOK /\ HeldInv
  BY DEF BackedInv, RowInv, CreditInv
<1>2. /\ MovedOut' = MovedOut /\ in <= after /\ after \in Int
      /\ in \in Int /\ in >= 0 /\ MovedOut \in Int
  BY OthersMoveNothingOut, BalanceBounded DEF BackedInv
<1>3. /\ g \in [Requests -> Int] /\ h \in [Requests -> Int]
      /\ \A q \in Requests : h[q] = g[q] \/ h[q] = 0
  <2>1. g \in [Requests -> Int]
    BY <1>1, HeldType
  <2>2. \A q \in Requests : request'[q] = request[q] \/ request'[q].at # "post"
    BY <1>1, OthersLetGo
  <2>3. \A q \in Requests : h[q] = g[q] \/ h[q] = 0
    BY <2>2 DEF Held
  <2>4. h = [q \in Requests |-> h[q]]
    BY DEF Held
  <2>5. \A q \in Requests : h[q] \in Int
    BY <2>1, <2>3
  <2> QED BY <2>1, <2>3, <2>4, <2>5
<1>4. /\ \A q \in Requests : 0 <= g[q] /\ g[q] <= in
      /\ MovedOut + SumOver(g, Requests) <= N * in
  BY <1>1 DEF HeldInv
<1> HIDE DEF g, h, in, after
<1>5. \A q \in Requests : h[q] \in Int /\ 0 <= h[q] /\ h[q] <= g[q] /\ g[q] >= 0 /\ h[q] <= after
  BY <1>2, <1>3, <1>4
<1>6. SumOver(h, Requests) <= SumOver(g, Requests)
  BY <1>3, <1>5, HeldLess
<1>7. SumOver(h, Requests) \in Int /\ SumOver(g, Requests) \in Int
  BY <1>3, SumType
<1>8. N * in <= N * after /\ N * in \in Int /\ N * after \in Int
  <2>1. N \in Nat
    BY FS_CardinalityType
  <2> HIDE DEF N
  <2> QED BY <1>2, <2>1, SharesGrow
<1> HIDE DEF N
<1>9. MovedOut + SumOver(h, Requests) <= N * after
  BY <1>2, <1>4, <1>6, <1>7, <1>8
<1> QED BY <1>2, <1>5, <1>9 DEF HeldInv, N, h, after

(* However runs overlap and fail, and whatever is refunded meanwhile, they   *)
(* move what the payments brought at most once for each handler that can run *)
(* at a time.                                                                *)
THEOREM SettlementsBacked ==
  ASSUME IsFiniteSet(Requests)
  PROVE  Spec => []SettlementsBackedByPayments
<1>1. Init => BackedInv
  <2> SUFFICES ASSUME Init PROVE BackedInv
    OBVIOUS
  <2>1. RowInv /\ MoneyInv
    BY InitRows, InitMoney
  <2>2. entries = {} /\ request = [r \in Requests |-> Idle]
    BY DEF Init, StoreInit, EnsureDefaultWallets, MemoryInit
  <2>3. MovedIn = 0 /\ MovedOut = 0
    <3>1. \A K : entries \cap K = {}
      BY <2>2
    <3> QED BY <3>1, CentsEmpty DEF MovedIn, MovedOut
  <2>4. \A r \in Requests : Held[r] = 0
    BY <2>2 DEF Held, Idle
  <2>5. SumOver(Held, Requests) <= Cardinality(Requests) * 0
    <3>1. Held \in [Requests -> Int] /\ \A r \in Requests : Held[r] <= 0
      BY <2>1, <2>4, HeldType DEF RowInv, CreditInv
    <3> QED BY <3>1, SumBounded
  <2>6. SumOver(Held, Requests) \in Int /\ Cardinality(Requests) \in Nat
    BY <2>1, HeldType, SumType, FS_CardinalityType DEF RowInv, CreditInv
  <2>7. MovedOut + SumOver(Held, Requests) <= Cardinality(Requests) * MovedIn
    <3>1. Cardinality(Requests) * 0 = 0
      BY <2>6
    <3> QED BY <2>3, <2>5, <2>6, <3>1
  <2>8. \A r \in Requests : Held[r] \in Int /\ 0 <= Held[r] /\ Held[r] <= MovedIn
    BY <2>3, <2>4
  <2> QED BY <2>1, <2>7, <2>8 DEF BackedInv, HeldInv
<1>2. BackedInv /\ [Next]_vars => BackedInv'
  <2> SUFFICES ASSUME BackedInv, [Next]_vars PROVE BackedInv'
    OBVIOUS
  <2>1. RowInv' /\ MoneyInv' /\ TypeOK'
    BY NextRows, NextMoney DEF BackedInv, MoneyInv
  <2>2. CASE \A r \in Requests : ~PostSettlement(r) /\ ~ReadOperating(r)
    BY <2>1, <2>2, OthersKeepHeld DEF BackedInv
  <2>3. ASSUME NEW r \in Requests, PostSettlement(r) PROVE BackedInv'
    BY <2>1, <2>3, PostMovesHeld DEF BackedInv
  <2>4. ASSUME NEW r \in Requests, ReadOperating(r) PROVE BackedInv'
    BY <2>1, <2>4, ReadHolds DEF BackedInv
  <2> QED BY <2>2, <2>3, <2>4
<1>3. BackedInv => SettlementsBackedByPayments
  <2> SUFFICES ASSUME BackedInv PROVE SettlementsBackedByPayments
    OBVIOUS
  <2>1. /\ TypeOK /\ entries \subseteq Entries
        /\ MovedOut + SumOver(Held, Requests) <= Cardinality(Requests) * MovedIn
        /\ \A r \in Requests : Held[r] >= 0
    BY DEF BackedInv, RowInv, CreditInv, TypeOK, StoreTypeOK, HeldInv
  <2>2. SumOver(Held, Requests) >= 0 /\ SumOver(Held, Requests) \in Int
    BY <2>1, HeldType, SumOfNaturals, SumType
  <2>3. MovedOut \in Int /\ MovedIn \in Int /\ Cardinality(Requests) \in Nat
    BY BalanceBounded, FS_CardinalityType DEF BackedInv
  <2>4. MovedOut <= Cardinality(Requests) * MovedIn
    BY <2>1, <2>2, <2>3
  <2>5. \A type : {e \in entries : e.wallet = "OPERATING" /\ e.type = type}
                    = entries \cap Operating(type)
    BY <2>1, OperatingRows
  <2> QED BY <2>4, <2>5 DEF SettlementsBackedByPayments, MovedIn, MovedOut
<1> QED BY <1>1, <1>2, <1>3, PTL DEF Spec

=============================================================================
