---------------------------- MODULE PaymentProofs ---------------------------
(* Proofs about payments from their form to the transfer, apart from their    *)
(* life in between (GatewayAgreement): the references and keys of creation,  *)
(* the calendar of due dates, and the order of the transfer queue.           *)
EXTENDS PaymentCreation, DueDates, TransferQueue, FiniteSums

-----------------------------------------------------------------------------
(* Proofs about payment creation for any number of submissions, days and  *)
(* keys. The references of a day are dense because a number is never       *)
(* counted too high: rows only grow, so a number counted once is at most   *)
(* one above the rows there are when it is inserted, and an index refuses  *)
(* every lower one.                                                        *)

CountNotTooHigh ==
    \A f \in Forms : form[f].at \in {"lookup", "insert"} =>
      form[f].number \in 1 .. (Cardinality(RowsOf(form[f].day)) + 1)

CreationInv == CreationTypeOK /\ IsFiniteSet(payments) /\ NumbersDense /\ CountNotTooHigh

LEMMA RowsOfFinite ==
    ASSUME IsFiniteSet(payments), NEW d
    PROVE  IsFiniteSet(RowsOf(d)) /\ Cardinality(RowsOf(d)) \in Nat
<1>1. RowsOf(d) \subseteq payments
  BY DEF RowsOf
<1> QED
  BY <1>1, FS_Subset, FS_CardinalityType

LEMMA InitCreation == CreationInit => CreationInv
<1> SUFFICES ASSUME CreationInit PROVE CreationInv
  OBVIOUS
<1>1. payments = {} /\ IsFiniteSet(payments)
  BY FS_EmptySet DEF CreationInit
<1>2. CreationTypeOK
  <2>1. form \in [Forms -> [at : {"number", "lookup", "insert", "lookupAgain",
                                   "readBack", "answered"},
                             day : Days, number : Nat,
                             answer : Forms \cup {Refused, Open}]]
    BY DEF CreationInit
  <2>2. \A f \in Forms : form[f].at = "number"
    BY DEF CreationInit
  <2> QED BY <1>1, <2>1, <2>2 DEF CreationTypeOK
<1>3. NumbersDense
  <2> SUFFICES ASSUME NEW d \in Days
               PROVE {r.number : r \in RowsOf(d)} = 1 .. Cardinality(RowsOf(d))
    BY DEF NumbersDense
  <2>1. RowsOf(d) = {}
    BY <1>1 DEF RowsOf
  <2>2. Cardinality(RowsOf(d)) = 0
    BY <2>1, FS_EmptySet
  <2> QED
    BY <2>1, <2>2
<1>4. CountNotTooHigh
  BY DEF CreationInit, CountNotTooHigh
<1> QED
  BY <1>1, <1>2, <1>3, <1>4 DEF CreationInv

LEMMA AnswerType ==
    ASSUME CreationTypeOK, NEW f \in Forms, NEW a \in Forms \cup {Refused, Open},
           AnswerForm(f, a), payments' = payments
    PROVE  CreationTypeOK'
BY ZenonT(60) DEF CreationTypeOK, AnswerForm

(* Every step keeps the types: the row inserted is a row, and whoever goes  *)
(* on to insert has a number above 0.                                       *)
LEMMA StepType == CreationInv /\ [CreationNext]_creationVars => CreationTypeOK'
<1> SUFFICES ASSUME CreationInv, [CreationNext]_creationVars PROVE CreationTypeOK'
  OBVIOUS
<1> USE DEF CreationInv
<1>1. CASE UNCHANGED creationVars
  BY <1>1 DEF CreationTypeOK, creationVars
<1>2. ASSUME NEW f \in Forms, GeneratePaymentReference(f) PROVE CreationTypeOK'
  <2> DEFINE n == Cardinality(RowsOf(form[f].day)) + 1
             at == IF Key[f] = NoKey THEN "insert" ELSE "lookup"
  <2>1. n \in Nat /\ n > 0
    BY RowsOfFinite
  <2>2. /\ form' = [form EXCEPT ![f] = [form[f] EXCEPT !.at = at, !.number = n]]
        /\ payments' = payments
    <3> HIDE DEF n, at
    <3> QED
      BY <1>2 DEF GeneratePaymentReference, CreationTypeOK, n, at
  <2>3. at \in {"insert", "lookup"}
    OBVIOUS
  <2> HIDE DEF n, at
  <2> QED
    BY <2>1, <2>2, <2>3, ZenonT(60) DEF CreationTypeOK
<1>3. ASSUME NEW f \in Forms, KeyFound(f) PROVE CreationTypeOK'
  <2>1. PICK r \in payments : AnswerForm(f, r.id)
    BY <1>3 DEF KeyFound, WithKey
  <2>2. r.id \in Forms
    BY DEF CreationTypeOK, PaymentRows
  <2> QED
    BY <1>3, <2>1, <2>2, AnswerType DEF KeyFound, CreationTypeOK
<1>4. ASSUME NEW f \in Forms, KeyNotFound(f) PROVE CreationTypeOK'
  BY <1>4 DEF KeyNotFound, CreationTypeOK, FormAt, FormGoTo
<1>5. ASSUME NEW f \in Forms, Insert(f) PROVE CreationTypeOK'
  <2>1. Row(f) \in PaymentRows
    BY CreationAssumption DEF Row, PaymentRows, CreationTypeOK
  <2> QED
    BY <1>5, <2>1 DEF Insert, CreationTypeOK, FormAt, FormGoTo
<1>6. ASSUME NEW f \in Forms, InsertRefused(f) PROVE CreationTypeOK'
  <2>1. CASE AnswerForm(f, Refused)
    BY <1>6, <2>1, AnswerType DEF InsertRefused
  <2>2. CASE FormGoTo(f, "lookupAgain")
    BY <1>6, <2>2 DEF InsertRefused, CreationTypeOK, FormGoTo
  <2> QED
    BY <1>6, <2>1, <2>2 DEF InsertRefused
<1>7. ASSUME NEW f \in Forms, ReadKey(f) PROVE CreationTypeOK'
  <2>1. PICK r \in payments : AnswerForm(f, r.id)
    BY <1>7 DEF ReadKey, WithKey
  <2>2. r.id \in Forms
    BY DEF CreationTypeOK, PaymentRows
  <2> QED
    BY <1>7, <2>1, <2>2, AnswerType DEF ReadKey, CreationTypeOK
<1>8. ASSUME NEW f \in Forms, ReadBack(f) PROVE CreationTypeOK'
  BY <1>8, ZenonT(60) DEF ReadBack, CreationTypeOK, FormAt, AnswerForm
<1>9. ASSUME NEW f \in Forms, CreationFails(f) PROVE CreationTypeOK'
  BY <1>9, ZenonT(60) DEF CreationFails, CreationTypeOK, FormAt, AnswerForm
<1> QED
  BY <1>1, <1>2, <1>3, <1>4, <1>5, <1>6, <1>7, <1>8, <1>9 DEF CreationNext, CreationStep

(* The row an accepted insert adds has the next number of its day.          *)
LEMMA InsertNext ==
    ASSUME CreationInv, NEW f \in Forms, Insert(f)
    PROVE  /\ payments' = payments \cup {Row(f)}
           /\ Row(f) \notin payments
           /\ Row(f).day = form[f].day
           /\ Row(f).number = Cardinality(RowsOf(form[f].day)) + 1
<1> DEFINE d == form[f].day
           n == Cardinality(RowsOf(d))
<1>1. d \in Days /\ form[f].number \in 1 .. (n + 1) /\ n \in Nat
  BY RowsOfFinite DEF CreationInv, CreationTypeOK, CountNotTooHigh, Insert, FormAt
<1>2. \A r \in RowsOf(d) : r.number # form[f].number
  BY DEF Insert, ReferenceTaken, RowsOf
<1>3. form[f].number \notin 1 .. n
  BY <1>1, <1>2 DEF CreationInv, NumbersDense
<1>4. form[f].number = n + 1
  BY <1>1, <1>3
<1>5. Row(f) \notin payments
  BY DEF Insert, ReferenceTaken, Row
<1> QED
  BY <1>4, <1>5 DEF Insert, Row

LEMMA InsertDense ==
    ASSUME CreationInv, NEW f \in Forms, Insert(f)
    PROVE  /\ IsFiniteSet(payments')
           /\ NumbersDense'
           /\ \A d \in Days : Cardinality(RowsOf(d)') >= Cardinality(RowsOf(d))
<1>0. IsFiniteSet(payments')
  BY InsertNext, FS_AddElement DEF CreationInv
<1>1. ASSUME NEW d \in Days
      PROVE  /\ {r.number : r \in RowsOf(d)'} = 1 .. Cardinality(RowsOf(d)')
             /\ Cardinality(RowsOf(d)') >= Cardinality(RowsOf(d))
  <2> DEFINE n == Cardinality(RowsOf(d))
  <2>1. n \in Nat /\ IsFiniteSet(RowsOf(d))
    BY RowsOfFinite DEF CreationInv
  <2>2. {r.number : r \in RowsOf(d)} = 1 .. n
    BY DEF CreationInv, NumbersDense
  <2>3. CASE form[f].day # d
    <3>1. RowsOf(d)' = RowsOf(d)
      BY <2>3, InsertNext DEF RowsOf
    <3> QED
      BY <2>1, <2>2, <3>1
  <2>4. CASE form[f].day = d
    <3>1. RowsOf(d)' = RowsOf(d) \cup {Row(f)}
      BY <2>4, InsertNext DEF RowsOf
    <3>2. Cardinality(RowsOf(d)') = n + 1
      <4>1. Row(f) \notin RowsOf(d)
        BY InsertNext DEF RowsOf
      <4> QED
        BY <2>1, <3>1, <4>1, FS_AddElement
    <3>3. Row(f).number = n + 1
      BY <2>4, InsertNext
    <3>4. {r.number : r \in RowsOf(d)'} = 1 .. (n + 1)
      <4>1. {r.number : r \in RowsOf(d)'}
              = {r.number : r \in RowsOf(d)} \cup {Row(f).number}
        BY <3>1
      <4>2. (1 .. n) \cup {n + 1} = 1 .. (n + 1)
        BY <2>1
      <4> QED
        BY <2>2, <3>3, <4>1, <4>2
    <3> QED
      BY <2>1, <3>2, <3>4
  <2> QED
    BY <2>3, <2>4
<1> QED
  BY <1>0, <1>1 DEF NumbersDense

(* Only Insert writes the rows; only GeneratePaymentReference counts.       *)
LEMMA StepNumbers ==
    CreationInv /\ [CreationNext]_creationVars => (IsFiniteSet(payments) /\ NumbersDense /\ CountNotTooHigh)'
<1> SUFFICES ASSUME CreationInv, [CreationNext]_creationVars
             PROVE (IsFiniteSet(payments) /\ NumbersDense /\ CountNotTooHigh)'
  OBVIOUS
<1>0. ASSUME payments' = payments
      PROVE  /\ (IsFiniteSet(payments) /\ NumbersDense)'
             /\ \A d : RowsOf(d)' = RowsOf(d)
  BY <1>0 DEF CreationInv, NumbersDense, RowsOf
<1>1. CASE UNCHANGED creationVars
  BY <1>0, <1>1 DEF CreationInv, CountNotTooHigh, creationVars
<1>2. ASSUME NEW f \in Forms, GeneratePaymentReference(f)
      PROVE (IsFiniteSet(payments) /\ NumbersDense /\ CountNotTooHigh)'
  <2> DEFINE n == Cardinality(RowsOf(form[f].day))
  <2>1. n \in Nat
    BY RowsOfFinite DEF CreationInv
  <2>2. payments' = payments
    BY <1>2 DEF GeneratePaymentReference
  <2>3. CountNotTooHigh'
    <3> SUFFICES ASSUME NEW g \in Forms, form'[g].at \in {"lookup", "insert"}
                 PROVE form'[g].number \in 1 .. (Cardinality(RowsOf(form'[g].day)) + 1)
      BY <1>0, <2>2 DEF CountNotTooHigh
    <3>1. CASE g = f
      <4>1. form'[f].number = n + 1 /\ form'[f].day = form[f].day
        BY <1>2 DEF GeneratePaymentReference, CreationInv, CreationTypeOK
      <4> QED
        BY <2>1, <3>1, <4>1
    <3>2. CASE g # f
      <4>1. form'[g] = form[g]
        BY <1>2, <3>2 DEF GeneratePaymentReference, CreationInv, CreationTypeOK
      <4> QED
        BY <4>1 DEF CreationInv, CountNotTooHigh
    <3> QED
      BY <3>1, <3>2
  <2> QED
    BY <1>0, <2>2, <2>3
<1>3. ASSUME NEW f \in Forms, Insert(f)
      PROVE (IsFiniteSet(payments) /\ NumbersDense /\ CountNotTooHigh)'
  <2>1. CountNotTooHigh'
    <3> SUFFICES ASSUME NEW g \in Forms, form'[g].at \in {"lookup", "insert"},
                        NEW d, d = form'[g].day
                 PROVE form'[g].number \in 1 .. (Cardinality(RowsOf(d)') + 1)
      BY DEF CountNotTooHigh, RowsOf
    <3>1. g # f /\ form'[g] = form[g]
      BY <1>3 DEF Insert, FormGoTo, CreationInv, CreationTypeOK
    <3>2. d \in Days
      BY <3>1 DEF CreationInv, CreationTypeOK
    <3>3. form[g].number \in 1 .. (Cardinality(RowsOf(d)) + 1)
      BY <3>1 DEF CreationInv, CountNotTooHigh
    <3>4. Cardinality(RowsOf(d)') >= Cardinality(RowsOf(d))
      BY <1>3, <3>2, InsertDense
    <3>5. Cardinality(RowsOf(d)) \in Nat /\ Cardinality(RowsOf(d)') \in Nat
      <4>1. IsFiniteSet(payments) /\ IsFiniteSet(payments')
        BY <1>3, InsertDense DEF CreationInv
      <4>2. RowsOf(d)' \subseteq payments'
        BY DEF RowsOf
      <4> QED
        BY <4>1, <4>2, RowsOfFinite, FS_Subset, FS_CardinalityType
    <3>6. form[g].number \in Nat
      BY DEF CreationInv, CreationTypeOK
    <3> QED
      BY <3>1, <3>3, <3>4, <3>5, <3>6
  <2> QED
    BY <1>3, <2>1, InsertDense
<1>4. ASSUME NEW f \in Forms, payments' = payments,
             NEW at \in {"insert", "lookupAgain", "answered"},
             NEW a,
             \/ form[f].at = "lookup" /\ FormGoTo(f, "insert")
             \/ FormGoTo(f, "lookupAgain")
             \/ AnswerForm(f, a)
      PROVE (IsFiniteSet(payments) /\ NumbersDense /\ CountNotTooHigh)'
  <2>1. CountNotTooHigh'
    <3> SUFFICES ASSUME NEW g \in Forms, form'[g].at \in {"lookup", "insert"}
                 PROVE form'[g].number \in 1 .. (Cardinality(RowsOf(form'[g].day)) + 1)
      BY <1>0, <1>4 DEF CountNotTooHigh
    <3>1. /\ form'[g].number = form[g].number /\ form'[g].day = form[g].day
          /\ form[g].at \in {"lookup", "insert"}
      BY <1>4 DEF FormGoTo, AnswerForm, CreationInv, CreationTypeOK
    <3> QED
      BY <3>1 DEF CreationInv, CountNotTooHigh
  <2> QED
    BY <1>0, <1>4, <2>1
<1>5. ASSUME NEW f \in Forms, CreationStep(f) \/ CreationFails(f),
             ~GeneratePaymentReference(f), ~Insert(f)
      PROVE  /\ payments' = payments
             /\ \E a : \/ form[f].at = "lookup" /\ FormGoTo(f, "insert")
                       \/ FormGoTo(f, "lookupAgain")
                       \/ AnswerForm(f, a)
  BY <1>5 DEF CreationStep, CreationFails, KeyFound, KeyNotFound, InsertRefused, ReadKey,
              ReadBack, FormAt
<1>6. ASSUME CreationNext PROVE (IsFiniteSet(payments) /\ NumbersDense /\ CountNotTooHigh)'
  <2> PICK f \in Forms : CreationStep(f) \/ CreationFails(f)
    BY <1>6 DEF CreationNext
  <2>1. CASE ~GeneratePaymentReference(f) /\ ~Insert(f)
    BY <1>4, <1>5, <2>1
  <2> QED
    BY <1>2, <1>3, <2>1
<1> QED
  BY <1>1, <1>6

THEOREM CreationInvariant == CreationSpec => []CreationInv
<1>1. CreationInv /\ [CreationNext]_creationVars => CreationInv'
  BY StepType, StepNumbers DEF CreationInv
<1> QED
  BY InitCreation, <1>1, PTL DEF CreationSpec

(* The table and the handlers' locals are well typed, for any number of     *)
(* submissions and under any faults.                                        *)
THEOREM CreationTypes == CreationSpec => []CreationTypeOK
BY CreationInvariant, PTL DEF CreationInv

(* Counting rows numbers the payments of a day densely, however many        *)
(* handlers of however many servers count at once.                          *)
THEOREM ReferencesDense == CreationSpec => []NumbersDense
BY CreationInvariant, PTL DEF CreationInv

(* Whoever looks a key up has one, and whoever reads its row back has       *)
(* inserted it.                                                             *)
KeyInv ==
    /\ KeyNamesOnePayment
    /\ \A f \in Forms :
         /\ form[f].at \in {"lookup", "lookupAgain"} => Key[f] # NoKey
         /\ form[f].at = "readBack" => \E r \in payments : r.id = f /\ r.key = Key[f]

(* A handler is answered with a row that has its key, or refused.           *)
LEMMA AnswerKey ==
    ASSUME CreationInv, KeyInv, payments' = payments, NEW f \in Forms, NEW a, AnswerForm(f, a),
           a \in Forms => \E r \in payments : /\ r.id = a
                                              /\ r.key = Key[f]
                                              /\ Key[f] = NoKey => r.id = f
    PROVE  KeyInv'
<1>1. \A g \in Forms \ {f} : form'[g] = form[g]
  BY DEF AnswerForm, CreationInv, CreationTypeOK
<1>2. form'[f].answer = a /\ form'[f].at = "answered"
  BY DEF AnswerForm, CreationInv, CreationTypeOK
<1>3. ASSUME NEW g \in Forms, form'[g].answer \in Forms
      PROVE  \E r \in payments : /\ r.id = form'[g].answer
                                 /\ r.key = Key[g]
                                 /\ Key[g] = NoKey => r.id = g
  <2>1. CASE g = f
    <3>1. a \in Forms /\ form'[g].answer = a
      BY <1>2, <1>3, <2>1
    <3>2. PICK r \in payments : r.id = a /\ r.key = Key[f] /\ (Key[f] = NoKey => r.id = f)
      BY <3>1
    <3> QED
      BY <2>1, <3>1, <3>2
  <2>2. CASE g # f
    BY <1>1, <1>3, <2>2 DEF KeyInv, KeyNamesOnePayment
  <2> QED
    BY <2>1, <2>2
<1>4. KeyNamesOnePayment'
  BY <1>3 DEF KeyInv, KeyNamesOnePayment
<1> QED
  BY <1>1, <1>2, <1>4 DEF KeyInv

LEMMA StepKey == CreationInv /\ KeyInv /\ [CreationNext]_creationVars => KeyInv'
<1> SUFFICES ASSUME CreationInv, KeyInv, [CreationNext]_creationVars PROVE KeyInv'
  OBVIOUS
<1>1. CASE UNCHANGED creationVars
  BY <1>1 DEF KeyInv, KeyNamesOnePayment, creationVars
<1>2. ASSUME NEW f \in Forms, GeneratePaymentReference(f) PROVE KeyInv'
  <2>1. \A g \in Forms \ {f} : form'[g] = form[g]
    BY <1>2 DEF GeneratePaymentReference, CreationInv, CreationTypeOK
  <2>2. /\ form'[f].at = IF Key[f] = NoKey THEN "insert" ELSE "lookup"
        /\ form'[f].answer = form[f].answer
    BY <1>2 DEF GeneratePaymentReference, CreationInv, CreationTypeOK
  <2>3. payments' = payments
    BY <1>2 DEF GeneratePaymentReference
  <2> QED
    BY <2>1, <2>2, <2>3 DEF KeyInv, KeyNamesOnePayment
<1>3. ASSUME NEW f \in Forms, KeyFound(f) \/ ReadKey(f) PROVE KeyInv'
  <2>1. PICK r \in payments : AnswerForm(f, r.id) /\ r.key = Key[f]
    BY <1>3 DEF KeyFound, ReadKey, WithKey
  <2>2. Key[f] # NoKey
    BY <1>3 DEF KeyFound, ReadKey, FormAt, KeyInv
  <2> QED
    BY <1>3, <2>1, <2>2, AnswerKey DEF KeyFound, ReadKey
<1>4. ASSUME NEW f \in Forms, payments' = payments, NEW at \in {"insert", "lookupAgain"},
             at = "lookupAgain" => Key[f] # NoKey, FormGoTo(f, at)
      PROVE KeyInv'
  <2>1. \A g \in Forms \ {f} : form'[g] = form[g]
    BY <1>4 DEF FormGoTo, CreationInv, CreationTypeOK
  <2>2. form'[f].at = at /\ form'[f].answer = form[f].answer
    BY <1>4 DEF FormGoTo, CreationInv, CreationTypeOK
  <2> QED
    BY <1>4, <2>1, <2>2 DEF KeyInv, KeyNamesOnePayment
<1>5. ASSUME NEW f \in Forms, Insert(f) PROVE KeyInv'
  <2>1. \A g \in Forms \ {f} : form'[g] = form[g]
    BY <1>5 DEF Insert, FormGoTo, CreationInv, CreationTypeOK
  <2>2. form'[f].at = "readBack" /\ form'[f].answer = form[f].answer
    BY <1>5 DEF Insert, FormGoTo, CreationInv, CreationTypeOK
  <2>3. payments' = payments \cup {Row(f)} /\ Row(f).id = f /\ Row(f).key = Key[f]
    BY <1>5 DEF Insert, Row
  <2>4. \A r \in payments : r.key = Key[f] => Key[f] = NoKey
    BY <1>5 DEF Insert, KeyTaken, WithKey
  <2>5. \A r, s \in payments' : r.key = s.key /\ r.key # NoKey => r = s
    BY <2>3, <2>4 DEF KeyInv, KeyNamesOnePayment
  <2>6. KeyNamesOnePayment'
    BY <2>1, <2>2, <2>3, <2>5 DEF KeyInv, KeyNamesOnePayment
  <2> QED
    BY <2>1, <2>2, <2>3, <2>6 DEF KeyInv
<1>6. ASSUME NEW f \in Forms, InsertRefused(f) PROVE KeyInv'
  <2>1. CASE AnswerForm(f, Refused)
    BY <1>6, <2>1, AnswerKey, CreationAssumption DEF InsertRefused
  <2>2. CASE KeyTaken(f) /\ FormGoTo(f, "lookupAgain")
    BY <1>4, <1>6, <2>2 DEF InsertRefused, KeyTaken
  <2> QED
    BY <1>6, <2>1, <2>2 DEF InsertRefused
<1>7. ASSUME NEW f \in Forms, KeyNotFound(f) PROVE KeyInv'
  BY <1>4, <1>7 DEF KeyNotFound
<1>8. ASSUME NEW f \in Forms, ReadBack(f) PROVE KeyInv'
  <2>1. payments' = payments /\ AnswerForm(f, f)
    BY <1>8 DEF ReadBack
  <2>2. \E r \in payments : r.id = f /\ r.key = Key[f]
    BY <1>8 DEF ReadBack, FormAt, KeyInv
  <2> QED
    BY <2>1, <2>2, AnswerKey
<1>9. ASSUME NEW f \in Forms, CreationFails(f) PROVE KeyInv'
  <2>1. Refused \notin Forms
    BY CreationAssumption
  <2>2. payments' = payments /\ AnswerForm(f, Refused)
    BY <1>9 DEF CreationFails
  <2> QED
    BY <2>1, <2>2, AnswerKey
<1> QED
  BY <1>1, <1>2, <1>3, <1>5, <1>6, <1>7, <1>8, <1>9 DEF CreationNext, CreationStep

(* One payment per idempotency key, whoever inserts first and however the   *)
(* look-ups interleave with the inserts.                                    *)
THEOREM OnePaymentPerKey == CreationSpec => []KeyNamesOnePayment
<1>1. CreationInit => KeyInv
  BY CreationAssumption DEF CreationInit, KeyInv, KeyNamesOnePayment
<1>2. CreationInv /\ CreationInv' /\ KeyInv /\ [CreationNext]_creationVars => KeyInv'
  BY StepKey
<1>3. KeyInv => KeyNamesOnePayment
  BY DEF KeyInv
<1> QED
  BY <1>1, <1>2, <1>3, CreationInvariant, PTL DEF CreationSpec

-----------------------------------------------------------------------------
(* The calendar, for days of any length, any zones and any dates. A payment  *)
(* keeps what creation fixed: its due date is the end of the day written,    *)
(* whose midnight in UTC was not before midnight of the server's day.        *)

BillType == [status : {"unsent", "refused", "PENDING", "AWAITING_TRANSFER", "EXPIRED"},
             date : Int, at : Nat, due : Int]

BillDated(b) ==
    b.status \in {"PENDING", "AWAITING_TRANSFER", "EXPIRED"} =>
      /\ b.due = EndOfDay(b.date)
      /\ Parsed(b.date) >= Midnight(LocalDay(b.at))

CalendarInv ==
    /\ zone \in Zones
    /\ instant \in Nat
    /\ bill \in [Bills -> BillType]
    /\ \A p \in Bills : BillDated(bill[p])
    /\ \A p \in Bills : bill[p].status = "EXPIRED" => instant >= bill[p].due

LEMMA DaysAndZones ==
  /\ DayLength \in Nat /\ DayLength > 1
  /\ \A z \in Zones :
       /\ z.before \in Int /\ z.before < DayLength
       /\ z.after \in Int /\ z.after < DayLength
       /\ z.change \in Int /\ z.after - z.before < DayLength
  /\ Dates \subseteq Int
BY CalendarAssumption

LEMMA Division ==
  ASSUME NEW x \in Int, NEW y \in Nat, y > 0
  PROVE  x \div y \in Int /\ (x \div y) * y <= x /\ x < (x \div y) * y + y
OBVIOUS

LEMMA Multiples ==
  ASSUME NEW a \in Int, NEW b \in Int, NEW y \in Nat, y > 0, a * y < b * y + y
  PROVE  a <= b
OBVIOUS

LEMMA TimesRises ==
  ASSUME NEW a \in Int, NEW b \in Int, NEW y \in Nat, a <= b
  PROVE  a * y <= b * y
OBVIOUS

LEMMA MidnightOf ==
  ASSUME zone \in Zones, NEW d \in Int
  PROVE  /\ Midnight(d) \in Int /\ d * DayLength \in Int
         /\ d <= zone.change => Midnight(d) = d * DayLength - zone.before
         /\ d > zone.change => Midnight(d) = d * DayLength - zone.after
         /\ Midnight(d + 1) \in Int
         /\ d + 1 <= zone.change => Midnight(d + 1) = d * DayLength + DayLength - zone.before
         /\ d + 1 > zone.change => Midnight(d + 1) = d * DayLength + DayLength - zone.after
<1>1. /\ DayLength \in Nat /\ zone.before \in Int /\ zone.after \in Int /\ zone.change \in Int
  BY DaysAndZones
<1>2. d * DayLength \in Int /\ (d + 1) * DayLength = d * DayLength + DayLength /\ d + 1 \in Int
  BY <1>1
<1> DEFINE m == d * DayLength
           n == (d + 1) * DayLength
<1>3. /\ Midnight(d) = m - (IF d <= zone.change THEN zone.before ELSE zone.after)
      /\ Midnight(d + 1) = n - (IF d + 1 <= zone.change THEN zone.before ELSE zone.after)
  BY DEF Midnight
<1>4. m \in Int /\ n = m + DayLength
  BY <1>2
<1> HIDE DEF m, n
<1>5. /\ Midnight(d) \in Int /\ Midnight(d + 1) \in Int
      /\ d <= zone.change => Midnight(d) = m - zone.before
      /\ d > zone.change => Midnight(d) = m - zone.after
      /\ d + 1 <= zone.change => Midnight(d + 1) = m + DayLength - zone.before
      /\ d + 1 > zone.change => Midnight(d + 1) = m + DayLength - zone.after
  BY <1>1, <1>2, <1>3, <1>4
<1> QED BY <1>2, <1>5 DEF m

(* Midnights follow one another, for the clock is put forward by less than a *)
(* day.                                                                      *)
LEMMA MidnightsRise ==
  ASSUME zone \in Zones, NEW i \in Int, NEW j \in Int, i < j
  PROVE  Midnight(i) < Midnight(j)
<1>1. /\ DayLength \in Nat /\ DayLength > 1 /\ zone.before \in Int /\ zone.after \in Int
      /\ zone.change \in Int /\ zone.after - zone.before < DayLength
  BY DaysAndZones
<1> DEFINE m == i * DayLength
           n == j * DayLength
<1>2. /\ m \in Int /\ n \in Int
      /\ Midnight(i) = m - (IF i <= zone.change THEN zone.before ELSE zone.after)
      /\ Midnight(j) = n - (IF j <= zone.change THEN zone.before ELSE zone.after)
  BY <1>1 DEF Midnight
<1>3. ~(n < m + DayLength)
  BY <1>1, Multiples
<1> HIDE DEF m, n
<1> QED BY <1>1, <1>2, <1>3

(* The date of an instant is the day whose midnights it lies between.        *)
LEMMA LocalDayBounds ==
  ASSUME zone \in Zones, NEW t \in Int
  PROVE  /\ LocalDay(t) \in Int
         /\ Midnight(LocalDay(t)) <= t
         /\ t < Midnight(LocalDay(t) + 1)
<1>1. /\ DayLength \in Nat /\ DayLength > 0 /\ zone.before \in Int /\ zone.after \in Int
      /\ zone.change \in Int /\ zone.change + 1 \in Int
  BY DaysAndZones
<1> DEFINE c == zone.change
           l == (t + zone.before) \div DayLength
           r == (t + zone.after) \div DayLength
<1>2. /\ l \in Int /\ l * DayLength <= t + zone.before
      /\ t + zone.before < l * DayLength + DayLength
  BY <1>1, Division
<1>3. /\ r \in Int /\ r * DayLength <= t + zone.after
      /\ t + zone.after < r * DayLength + DayLength
  BY <1>1, Division
<1>4. LocalDay(t) = IF t >= Midnight(c + 1) THEN r ELSE IF l <= c THEN l ELSE c
  BY DEF LocalDay
<1> HIDE DEF l, r, c
<1>5. c \in Int /\ c = zone.change
  BY <1>1 DEF c
<1>6. /\ l * DayLength \in Int /\ r * DayLength \in Int /\ c * DayLength \in Int
      /\ Midnight(c) = c * DayLength - zone.before
      /\ Midnight(c + 1) = c * DayLength + DayLength - zone.after
  BY <1>1, <1>2, <1>3, <1>5, MidnightOf
<1>7. CASE t >= Midnight(c + 1)
  <2>1. c * DayLength + DayLength < r * DayLength + DayLength
    BY <1>1, <1>3, <1>6, <1>7
  <2>2. r > c
    <3>1. ASSUME r <= c PROVE FALSE
      <4>1. ~(c * DayLength < r * DayLength)
        BY <1>1, <1>3, <1>5, <1>6, <3>1, TimesRises
      <4> QED BY <1>1, <1>6, <2>1, <4>1
    <3> QED BY <1>3, <1>5, <3>1
  <2>3. Midnight(r) = r * DayLength - zone.after
        /\ Midnight(r + 1) = r * DayLength + DayLength - zone.after
    BY <1>3, <1>5, <2>2, MidnightOf
  <2> QED BY <1>1, <1>3, <1>4, <1>6, <1>7, <2>3
<1>8. CASE t < Midnight(c + 1) /\ l <= c
  <2>1. Midnight(l) = l * DayLength - zone.before
    BY <1>2, <1>5, <1>8, MidnightOf
  <2>2. LocalDay(t) = l
    BY <1>1, <1>4, <1>6, <1>8
  <2>3. CASE l = c
    BY <1>1, <1>2, <1>6, <1>8, <2>1, <2>2, <2>3
  <2>4. CASE l < c
    <3>1. Midnight(l + 1) = l * DayLength + DayLength - zone.before
      BY <1>2, <1>5, <2>4, MidnightOf
    <3> QED BY <1>1, <1>2, <1>6, <2>1, <2>2, <3>1
  <2> QED BY <1>2, <1>5, <1>8, <2>3, <2>4
<1>9. CASE t < Midnight(c + 1) /\ l > c
  <2>1. LocalDay(t) = c
    BY <1>1, <1>2, <1>4, <1>5, <1>6, <1>9
  <2>2. c * DayLength <= l * DayLength
    BY <1>1, <1>2, <1>5, <1>9, TimesRises
  <2> QED BY <1>1, <1>2, <1>5, <1>6, <1>9, <2>1, <2>2
<1> QED BY <1>1, <1>2, <1>5, <1>6, <1>7, <1>8, <1>9

LEMMA CalendarStarts == CalendarInit => CalendarInv
<1> SUFFICES ASSUME CalendarInit PROVE CalendarInv
  OBVIOUS
<1>1. Unsent \in BillType /\ Unsent.status = "unsent"
  BY DEF Unsent, BillType
<1> QED BY <1>1 DEF CalendarInit, CalendarInv, BillDated

(* How a bill is dated depends on the zone alone, which does not change.     *)
LEMMA DatingKept ==
  ASSUME UNCHANGED zone, \A q \in Bills : BillDated(bill'[q])
  PROVE  (\A q \in Bills : BillDated(bill[q]))'
BY DEF BillDated, EndOfDay, Parsed, LocalDay, Midnight

(* A bill in place of another. *)
LEMMA BillReplaced ==
  ASSUME CalendarInv, NEW p \in Bills, NEW b \in BillType,
         bill' = [bill EXCEPT ![p] = b], UNCHANGED <<zone, instant>>,
         BillDated(b), b.status = "EXPIRED" => instant >= b.due
  PROVE  CalendarInv'
<1>1. bill' \in [Bills -> BillType] /\ bill'[p] = b
      /\ \A q \in Bills : q # p => bill'[q] = bill[q]
  BY DEF CalendarInv
<1>2. \A q \in Bills : BillDated(bill'[q])
  <2> SUFFICES ASSUME NEW q \in Bills PROVE BillDated(bill'[q])
    OBVIOUS
  <2>1. CASE q = p
    BY <1>1, <2>1
  <2>2. CASE q # p
    <3>1. bill'[q] = bill[q]
      BY <1>1, <2>2
    <3> QED BY <3>1 DEF CalendarInv
  <2> QED BY <2>1, <2>2
<1>3. \A q \in Bills : bill'[q].status = "EXPIRED" => instant >= bill'[q].due
  BY <1>1 DEF CalendarInv
<1>4. (\A q \in Bills : BillDated(bill[q]))'
  BY <1>2, DatingKept
<1> QED BY <1>1, <1>3, <1>4 DEF CalendarInv

LEMMA CalendarStep == CalendarInv /\ [CalendarNext]_calendarVars => CalendarInv'
<1> SUFFICES ASSUME CalendarInv, [CalendarNext]_calendarVars PROVE CalendarInv'
  OBVIOUS
<1>1. zone \in Zones /\ instant \in Nat /\ bill \in [Bills -> BillType]
      /\ DayLength \in Nat /\ DayLength > 1
  BY DaysAndZones DEF CalendarInv
<1>2. ASSUME NEW p \in Bills, NEW date \in Dates, RefuseDate(p, date) PROVE CalendarInv'
  <2> DEFINE b == [Unsent EXCEPT !.status = "refused", !.date = date, !.at = instant]
  <2>1. b \in BillType /\ b.status = "refused"
    <3> DEFINE b1 == [Unsent EXCEPT !.status = "refused"]
               b2 == [b1 EXCEPT !.date = date]
    <3>1. date \in Int /\ Unsent \in BillType
      BY DaysAndZones DEF Unsent, BillType
    <3>2. b1 \in BillType /\ b1.status = "refused"
      BY <3>1 DEF BillType
    <3>3. b = [b2 EXCEPT !.at = instant]
      OBVIOUS
    <3> HIDE DEF b, b1
    <3>4. b2 \in BillType /\ b2.status = "refused"
      BY <3>1, <3>2 DEF BillType
    <3> HIDE DEF b2
    <3> QED BY <1>1, <3>3, <3>4 DEF BillType
  <2>2. bill' = [bill EXCEPT ![p] = b] /\ UNCHANGED <<zone, instant>>
    BY <1>2 DEF RefuseDate
  <2> HIDE DEF b
  <2> QED BY <2>1, <2>2, BillReplaced DEF BillDated
<1>3. ASSUME NEW p \in Bills, NEW date \in Dates, AdminCreatePaymentRequest(p, date)
      PROVE  CalendarInv'
  <2> DEFINE due == EndOfDay(date)
             b == [status |-> "PENDING", date |-> date, at |-> instant, due |-> due]
  <2>1. date \in Int /\ due = EndOfDay(date) /\ due \in Int
    BY <1>1, DaysAndZones, MidnightOf DEF EndOfDay
  <2>2. bill' = [bill EXCEPT ![p] = b] /\ UNCHANGED <<zone, instant>>
    BY <1>3 DEF AdminCreatePaymentRequest
  <2>3. Parsed(date) >= Midnight(LocalDay(instant))
    <3>1. ~(Parsed(date) < Midnight(LocalDay(instant)))
      BY <1>3 DEF AdminCreatePaymentRequest, InPast
    <3>2. Midnight(LocalDay(instant)) \in Int /\ Parsed(date) \in Int
      BY <1>1, <2>1, LocalDayBounds, MidnightOf DEF Parsed
    <3> QED BY <3>1, <3>2
  <2> HIDE DEF due
  <2>4. b \in BillType /\ b.status = "PENDING" /\ b.date = date /\ b.at = instant /\ b.due = due
    BY <1>1, <2>1 DEF BillType
  <2> HIDE DEF b
  <2>5. BillDated(b)
    BY <2>1, <2>3, <2>4 DEF BillDated
  <2> QED BY <2>2, <2>4, <2>5, BillReplaced
<1>4. ASSUME NEW p \in Bills, NEW s \in {"AWAITING_TRANSFER", "EXPIRED"},
             bill[p].status \in {"PENDING", "AWAITING_TRANSFER"},
             bill' = [bill EXCEPT ![p].status = s], UNCHANGED <<zone, instant>>, s = "EXPIRED" => instant >= bill[p].due
      PROVE  CalendarInv'
  <2> DEFINE b == [bill[p] EXCEPT !.status = s]
  <2>1. b \in BillType /\ b.status = s /\ b.date = bill[p].date /\ b.at = bill[p].at
        /\ b.due = bill[p].due
    BY <1>1 DEF BillType
  <2>2. bill' = [bill EXCEPT ![p] = b]
    BY <1>1, <1>4
  <2> HIDE DEF b
  <2>3. BillDated(b)
    BY <1>4, <2>1 DEF BillDated, CalendarInv
  <2> QED BY <1>4, <2>1, <2>2, <2>3, BillReplaced
<1>5. ASSUME NEW p \in Bills, OpenPage(p) PROVE CalendarInv'
  BY <1>4, <1>5 DEF OpenPage, PassedForPage, Expire
<1>10. ASSUME NEW p \in Bills, ExpireTransfer(p) PROVE CalendarInv'
  BY <1>4, <1>10 DEF ExpireTransfer, PassedForPage, Expire
<1>6. ASSUME NEW p \in Bills, Sweep(p) PROVE CalendarInv'
  <2>1. instant >= bill[p].due
    BY <1>1, <1>6 DEF Sweep, PassedForSweep, BillType
  <2> QED BY <1>4, <1>6, <2>1 DEF Sweep, Expire
<1>7. ASSUME NEW p \in Bills, Confirm(p) PROVE CalendarInv'
  BY <1>4, <1>7 DEF Confirm
<1>8. CASE SecondPasses
  <2>1. instant' = instant + 1 /\ UNCHANGED <<zone, bill>>
    BY <1>8 DEF SecondPasses
  <2>2. \A p \in Bills : bill[p].due \in Int
    BY <1>1 DEF BillType
  <2>3. \A p \in Bills : bill'[p].status = "EXPIRED" => instant' >= bill'[p].due
    BY <1>1, <2>1, <2>2 DEF CalendarInv
  <2>4. (\A p \in Bills : BillDated(bill[p]))'
    BY <2>1, DatingKept DEF CalendarInv
  <2> QED BY <1>1, <2>1, <2>3, <2>4 DEF CalendarInv
<1>9. CASE UNCHANGED calendarVars
  <2>1. UNCHANGED <<zone, instant, bill>>
    BY <1>9 DEF calendarVars
  <2>2. (\A p \in Bills : BillDated(bill[p]))'
    BY <2>1, DatingKept DEF CalendarInv
  <2> QED BY <2>1, <2>2 DEF CalendarInv
<1> QED BY <1>2, <1>3, <1>5, <1>6, <1>7, <1>8, <1>9, <1>10 DEF CalendarNext

(* The two properties of a created bill follow from what it keeps. *)
LEMMA CreatedBill ==
  ASSUME CalendarInv, NEW p \in Bills, Created(p)
  PROVE  /\ formatDate(bill[p].due) = bill[p].date
         /\ bill[p].status = "EXPIRED" => LocalDay(instant + 1) > bill[p].date
         /\ bill[p].at <= bill[p].due
         /\ LocalDay(bill[p].at) <= bill[p].date
<1> DEFINE k == bill[p].date
           at == bill[p].at
           due == bill[p].due
           L == LocalDay(at)
           D == LocalDay(due)
           E == LocalDay(instant + 1)
<1>1. zone \in Zones /\ instant \in Nat /\ DayLength \in Nat /\ DayLength > 1
      /\ zone.before < DayLength /\ zone.after < DayLength
      /\ zone.before \in Int /\ zone.after \in Int /\ zone.change \in Int
  BY DaysAndZones DEF CalendarInv
<1>2. k \in Int /\ at \in Int /\ due \in Int /\ k + 1 \in Int
  BY DEF CalendarInv, BillType
<1>3. due = Midnight(k + 1) - 1 /\ k * DayLength >= Midnight(L)
  BY DEF CalendarInv, BillDated, Created, EndOfDay, Parsed
<1>4. bill[p].status = "EXPIRED" => instant >= due
  BY DEF CalendarInv
<1>5. /\ L \in Int /\ L + 1 \in Int /\ at < Midnight(L + 1)
      /\ D \in Int /\ D + 1 \in Int /\ Midnight(D) <= due /\ due < Midnight(D + 1)
      /\ E \in Int /\ E + 1 \in Int /\ instant + 1 < Midnight(E + 1)
  BY <1>1, <1>2, LocalDayBounds
<1> HIDE DEF k, at, due, L, D, E
<1>6. \A i \in Int : Midnight(i) \in Int /\ i * DayLength \in Int
  BY <1>1, MidnightOf
<1>7. \A i, j \in Int : i < j => Midnight(i) < Midnight(j)
  BY <1>1, MidnightsRise
<1>8. L <= k
  <2>1. Midnight(L) > L * DayLength - DayLength
    <3>1. L * DayLength \in Int
      BY <1>5, <1>6
    <3>2. CASE L <= zone.change
      <4>1. Midnight(L) = L * DayLength - zone.before
        BY <1>1, <1>5, <3>2, MidnightOf
      <4> QED BY <1>1, <3>1, <4>1
    <3>3. CASE L > zone.change
      <4>1. Midnight(L) = L * DayLength - zone.after
        BY <1>1, <1>5, <3>3, MidnightOf
      <4> QED BY <1>1, <3>1, <4>1
    <3> QED BY <1>1, <1>5, <3>2, <3>3
  <2>2. L * DayLength < k * DayLength + DayLength
    BY <1>1, <1>2, <1>3, <1>5, <1>6, <2>1
  <2> QED BY <1>1, <1>2, <1>5, <2>2, Multiples
<1>9. at <= due
  <2>1. Midnight(L + 1) <= Midnight(k + 1)
    <3>1. CASE L = k
      BY <1>2, <1>6, <3>1
    <3>2. CASE L < k
      <4>1. Midnight(L + 1) < Midnight(k + 1)
        BY <1>2, <1>5, <1>7, <3>2
      <4> QED BY <1>2, <1>5, <1>6, <4>1
    <3> QED BY <1>2, <1>5, <1>8, <3>1, <3>2
  <2> QED BY <1>2, <1>3, <1>5, <1>6, <2>1
<1>10. D = k
  <2>1. ~(D > k)
    <3>1. ASSUME D > k PROVE Midnight(k + 1) <= Midnight(D)
      <4>1. CASE D = k + 1
        BY <1>5, <1>6, <4>1
      <4>2. CASE D > k + 1
        <5>1. Midnight(k + 1) < Midnight(D)
          BY <1>2, <1>5, <1>7, <4>2
        <5> QED BY <1>2, <1>5, <1>6, <5>1
      <4> QED BY <1>2, <1>5, <3>1, <4>1, <4>2
    <3>2. ~(Midnight(k + 1) <= Midnight(D))
      BY <1>2, <1>3, <1>5, <1>6
    <3> QED BY <3>1, <3>2
  <2>2. ~(D < k)
    <3>1. ASSUME D < k PROVE Midnight(D + 1) < Midnight(k + 1)
      BY <1>2, <1>5, <1>7, <3>1
    <3>2. ~(Midnight(D + 1) < Midnight(k + 1))
      BY <1>2, <1>3, <1>5, <1>6
    <3> QED BY <3>1, <3>2
  <2> QED BY <1>2, <1>5, <2>1, <2>2
<1>11. ASSUME bill[p].status = "EXPIRED" PROVE E > k
  <2>1. Midnight(k + 1) < Midnight(E + 1)
    BY <1>1, <1>2, <1>3, <1>4, <1>5, <1>6, <1>11
  <2>2. ASSUME E <= k PROVE Midnight(E + 1) <= Midnight(k + 1)
    <3>1. CASE E = k
      BY <1>2, <1>6, <3>1
    <3>2. CASE E < k
      <4>1. Midnight(E + 1) < Midnight(k + 1)
        BY <1>2, <1>5, <1>7, <3>2
      <4> QED BY <1>2, <1>5, <1>6, <4>1
    <3> QED BY <1>2, <1>5, <2>2, <3>1, <3>2
  <2> QED BY <1>2, <1>5, <1>6, <2>1, <2>2
<1> QED BY <1>8, <1>9, <1>10, <1>11 DEF formatDate, k, at, due, L, D, E

LEMMA CalendarInvariant == CalendarSpec => []CalendarInv
BY CalendarStarts, CalendarStep, PTL DEF CalendarSpec

(* The day an admin writes is the day the pages show, and it is over, to the *)
(* second, before a payment expires, for any zone within a day of UTC and    *)
(* whichever way its clock is changed.                                      *)
THEOREM DueDayIsInclusive == CalendarSpec => []DayIsInclusive
<1>1. CalendarInv => DayIsInclusive
  BY CreatedBill DEF DayIsInclusive
<1> QED BY <1>1, CalendarInvariant, PTL

(* No payment is created overdue, although the date is read in UTC and       *)
(* compared with a midnight of the server's zone.                            *)
THEOREM NoneIsBornOverdue == CalendarSpec => []NotBornOverdue
<1>1. CalendarInv => NotBornOverdue
  BY CreatedBill DEF NotBornOverdue
<1> QED BY <1>1, CalendarInvariant, PTL

-----------------------------------------------------------------------------
(* Refusals without faults: a row with the id of a submission is there only  *)
(* once it was inserted, so that the row that has the number a submission    *)
(* counted is a rival's.                                                     *)

RefusalInv ==
    /\ RefusedOnlyByRival
    /\ \A f \in Forms :
         /\ form[f].at # "answered" => form[f].answer = Open
         /\ form[f].at \in {"number", "lookup", "insert", "lookupAgain"} =>
              \A r \in payments : r.id # f

RivalHas(rows, f, day, number) ==
    \E r \in rows : r.id # f /\ r.day = day /\ r.number = number

(* A step of f: what it must show of f, the others keep theirs. *)
LEMMA RivalKept ==
  ASSUME CreationInv, RefusalInv, NEW f \in Forms,
         \A g \in Forms : g # f => form'[g] = form[g],
         payments' = payments \/ payments' = payments \cup {Row(f)},
         form'[f].at # "answered" => form'[f].answer = Open,
         form'[f].at \in {"number", "lookup", "insert", "lookupAgain"} =>
           payments' = payments /\ \A r \in payments : r.id # f,
         form'[f].answer = Refused =>
           RivalHas(payments', f, form'[f].day, form'[f].number)
  PROVE  RefusalInv'
<1>1. payments \subseteq payments' /\ \A r \in payments' : r \in payments \/ r.id = f
  BY DEF Row
<1>2. ASSUME NEW g \in Forms, form'[g].answer = Refused
      PROVE  RivalHas(payments', g, form'[g].day, form'[g].number)
  <2>1. CASE g = f
    BY <1>2, <2>1
  <2>2. CASE g # f
    <3>1. form'[g] = form[g]
      BY <2>2
    <3>2. RivalHas(payments, g, form[g].day, form[g].number)
      BY <1>2, <3>1 DEF RefusalInv, RefusedOnlyByRival, RivalHas
    <3> QED BY <1>1, <3>1, <3>2 DEF RivalHas
  <2> QED BY <2>1, <2>2
<1>3. RefusedOnlyByRival'
  BY <1>2 DEF RefusedOnlyByRival, RivalHas
<1>4. ASSUME NEW g \in Forms
      PROVE  /\ form'[g].at # "answered" => form'[g].answer = Open
             /\ form'[g].at \in {"number", "lookup", "insert", "lookupAgain"} =>
                  \A r \in payments' : r.id # g
  <2>1. CASE g = f
    BY <2>1
  <2>2. CASE g # f
    <3>1. form'[g] = form[g]
      BY <2>2
    <3> QED BY <1>1, <2>2, <3>1 DEF RefusalInv
  <2> QED BY <2>1, <2>2
<1> QED BY <1>3, <1>4 DEF RefusalInv

LEMMA StepRefusals ==
  ASSUME CreationFaults = {}, CreationInv, RefusalInv, [CreationNext]_creationVars
  PROVE  RefusalInv'
<1>1. /\ \A f \in Forms : form[f].at # "answered" => form[f].answer = Open
      /\ \A f \in Forms :
           form[f].at \in {"number", "lookup", "insert", "lookupAgain"} =>
             \A r \in payments : r.id # f
      /\ \A r \in payments : r.id \in Forms
      /\ Refused \notin Forms /\ Open # Refused
  BY CreationAssumption DEF RefusalInv, CreationInv, CreationTypeOK, PaymentRows
<1>2. \A f \in Forms : \A at : FormGoTo(f, at) =>
        /\ \A g \in Forms : g # f => form'[g] = form[g]
        /\ form'[f].at = at /\ form'[f].answer = form[f].answer
  BY DEF CreationInv, CreationTypeOK, FormGoTo
<1>3. \A f \in Forms : \A a : AnswerForm(f, a) =>
        /\ \A g \in Forms : g # f => form'[g] = form[g]
        /\ form'[f].at = "answered" /\ form'[f].answer = a
        /\ form'[f].day = form[f].day /\ form'[f].number = form[f].number
  BY DEF CreationInv, CreationTypeOK, AnswerForm
<1>4. ASSUME NEW f \in Forms, GeneratePaymentReference(f) PROVE RefusalInv'
  <2>1. /\ form[f].at = "number" /\ payments' = payments
        /\ \A g \in Forms : g # f => form'[g] = form[g]
        /\ form'[f].answer = form[f].answer
    BY <1>4 DEF GeneratePaymentReference, FormAt, CreationInv, CreationTypeOK
  <2>2. form'[f].answer = Open /\ \A r \in payments : r.id # f
    BY <1>1, <2>1
  <2> QED BY <1>1, <2>1, <2>2, RivalKept
<1>5. ASSUME NEW f \in Forms, KeyFound(f) \/ ReadKey(f) \/ ReadBack(f) PROVE RefusalInv'
  <2>1. PICK a \in Forms : AnswerForm(f, a)
    BY <1>1, <1>5 DEF KeyFound, ReadKey, ReadBack, WithKey
  <2>2. payments' = payments
    BY <1>5 DEF KeyFound, ReadKey, ReadBack
  <2> QED BY <1>1, <1>3, <2>1, <2>2, RivalKept
<1>6. ASSUME NEW f \in Forms, KeyNotFound(f) PROVE RefusalInv'
  <2>1. form[f].at = "lookup" /\ FormGoTo(f, "insert") /\ payments' = payments
    BY <1>6 DEF KeyNotFound, FormAt
  <2> QED BY <1>1, <1>2, <2>1, RivalKept
<1>7. ASSUME NEW f \in Forms, Insert(f) PROVE RefusalInv'
  <2>1. form[f].at = "insert" /\ FormGoTo(f, "readBack") /\ payments' = payments \cup {Row(f)}
    BY <1>7 DEF Insert, FormAt
  <2> QED BY <1>1, <1>2, <2>1, RivalKept
<1>8. ASSUME NEW f \in Forms, InsertRefused(f) PROVE RefusalInv'
  <2>1. form[f].at = "insert" /\ payments' = payments
    BY <1>8 DEF InsertRefused, FormAt
  <2>2. CASE ReferenceTaken(f) /\ AnswerForm(f, Refused)
    <3>1. RivalHas(payments, f, form[f].day, form[f].number)
      BY <1>1, <2>1, <2>2 DEF ReferenceTaken, RivalHas
    <3> QED BY <1>3, <2>1, <2>2, <3>1, RivalKept
  <2>3. CASE FormGoTo(f, "lookupAgain")
    BY <1>1, <1>2, <2>1, <2>3, RivalKept
  <2> QED BY <1>8, <2>2, <2>3 DEF InsertRefused
<1>9. ASSUME NEW f \in Forms, CreationFails(f) PROVE FALSE
  BY <1>9 DEF CreationFails
<1>10. CASE UNCHANGED creationVars
  BY <1>10 DEF creationVars, RefusalInv, RefusedOnlyByRival
<1> QED
  BY <1>4, <1>5, <1>6, <1>7, <1>8, <1>9, <1>10 DEF CreationNext, CreationStep

(* Without faults whoever is refused lost the number to another submission   *)
(* of the same day: an admin may send the form again.                        *)
THEOREM RefusalsHaveRivals ==
  ASSUME CreationFaults = {}
  PROVE  CreationSpec => []RefusedOnlyByRival
<1>1. CreationInit => RefusalInv
  <2> SUFFICES ASSUME CreationInit PROVE RefusalInv
    OBVIOUS
  <2>1. payments = {} /\ \A f \in Forms : form[f].answer = Open
    BY DEF CreationInit
  <2>2. Open # Refused
    BY CreationAssumption
  <2> QED BY <2>1, <2>2 DEF RefusalInv, RefusedOnlyByRival
<1>2. CreationInv /\ RefusalInv /\ [CreationNext]_creationVars => RefusalInv'
  BY StepRefusals
<1>3. RefusalInv => RefusedOnlyByRival
  BY DEF RefusalInv
<1> QED BY <1>1, <1>2, <1>3, CreationInvariant, PTL DEF CreationSpec

-----------------------------------------------------------------------------
(* The order of the queue. A timestamp is never below that of a row that     *)
(* waits, so a confirmation or a retry cannot come before one.               *)

QueueRows == [status : {"PENDING", "AWAITING_TRANSFER", "SETTLED", "EXPIRED", "FAILED"},
              retry : Nat, updated : Nat, processed : BOOLEAN]

QueueInv ==
    /\ row \in [Queued -> QueueRows]
    /\ toRequeue \in [Engines -> Queued \cup {None}]

LEMMA TimestampsType ==
  ASSUME QueueInv, IsFiniteSet(Queued), NEW t \in Timestamps
  PROVE  t \in Nat /\ \A q \in Waiting : t >= row[q].updated
<1> DEFINE g == [q \in Waiting |-> row[q].updated]
           S == {0} \cup {row[q].updated : q \in Waiting}
<1>1. g \in [Waiting -> Nat] /\ \A q \in Waiting : g[q] = row[q].updated
  BY DEF QueueInv, QueueRows, Waiting
<1>2. \A y \in S : y \in Nat
  BY <1>1
<1>3. \E x \in S : \A y \in S : x >= y
  <2>1. CASE Waiting = {}
    BY <2>1
  <2>2. CASE Waiting # {}
    <3>1. IsFiniteSet(Waiting)
      BY FS_Subset DEF Waiting
    <3> HIDE DEF g
    <3>2. \E m \in Waiting : \A q \in Waiting : g[m] >= g[q]
      BY <1>1, <2>2, <3>1, GreatestValue
    <3> QED BY <1>1, <3>2
  <2> QED BY <2>1, <2>2
<1>4. Latest \in S /\ \A y \in S : Latest >= y
  <2>1. Latest = CHOOSE x \in S : \A y \in S : x >= y
    BY DEF Latest, Max
  <2> HIDE DEF S
  <2> QED BY <1>3, <2>1
<1>5. \A q \in Waiting : row[q].updated \in S
  OBVIOUS
<1>6. t \in {Latest, Latest + 1}
  BY DEF Timestamps
<1> HIDE DEF S
<1>7. Latest \in Nat
  BY <1>2, <1>4
<1>8. t >= Latest /\ t \in Nat
  BY <1>6, <1>7
<1>9. ASSUME NEW y \in S PROVE t >= y
  <2>1. y \in Nat /\ Latest >= y
    BY <1>2, <1>4
  <2> QED BY <1>7, <1>8, <2>1
<1> QED BY <1>5, <1>8, <1>9

(* A row that leaves, and one that is put at the end of the queue.           *)
LEMMA RowLeaves ==
  ASSUME QueueInv, NEW p \in Queued, NEW s \in {"SETTLED", "EXPIRED", "FAILED"}
  PROVE  Leaves(p, s) \in QueueRows /\ Leaves(p, s).status = s
<1> DEFINE a == [row[p] EXCEPT !.status = s]
<1>1. a \in QueueRows /\ a.status = s
  BY DEF QueueInv, QueueRows
<1>2. Leaves(p, s) = [a EXCEPT !.updated = 0]
  BY DEF Leaves, QueueInv, QueueRows
<1> HIDE DEF a
<1> QED BY <1>1, <1>2 DEF QueueRows

LEMMA RowQueuesUp ==
  ASSUME QueueInv, NEW p \in Queued, NEW t \in Nat,
         row' = [row EXCEPT ![p].status = "AWAITING_TRANSFER", ![p].updated = t]
  PROVE  \E r \in QueueRows : r.updated = t /\ row' = [row EXCEPT ![p] = r]
<1> DEFINE a == [row[p] EXCEPT !.status = "AWAITING_TRANSFER"]
           r == [a EXCEPT !.updated = t]
<1>1. row' = [row EXCEPT ![p] = r]
  BY DEF QueueInv
<1>2. a \in QueueRows
  BY DEF QueueInv, QueueRows
<1> HIDE DEF a
<1>3. r \in QueueRows /\ r.updated = t
  BY <1>2 DEF QueueRows
<1> HIDE DEF r
<1> QED BY <1>1, <1>3

(* A row that a step writes leaves the queue or has the latest timestamp.    *)
LEMMA QueueStep ==
  ASSUME QueueInv, IsFiniteSet(Queued), [QueueNext]_queueVars
  PROVE  /\ QueueInv'
         /\ \A q \in Queued :
              \/ row'[q] = row[q]
              \/ row'[q].status # "AWAITING_TRANSFER"
              \/ \A p \in Waiting : row'[q].updated >= row[p].updated
<1> DEFINE InLine(r) ==
             r.status # "AWAITING_TRANSFER" \/ \A p \in Waiting : r.updated >= row[p].updated
           Good ==
             /\ row' \in [Queued -> QueueRows]
             /\ \A q \in Queued : row'[q] = row[q] \/ InLine(row'[q])
<1> SUFFICES Good /\ toRequeue' \in [Engines -> Queued \cup {None}]
  BY DEF QueueInv
<1>1. row \in [Queued -> QueueRows] /\ toRequeue \in [Engines -> Queued \cup {None}]
  BY DEF QueueInv
<1>2. ASSUME row' = row PROVE Good
  BY <1>1, <1>2
(* A row that is written: a new one in its place. *)
<1>3. ASSUME NEW p \in Queued, NEW r \in QueueRows, row' = [row EXCEPT ![p] = r], InLine(r)
      PROVE  Good
  <2>1. row' \in [Queued -> QueueRows] /\ row'[p] = r
        /\ \A q \in Queued : q # p => row'[q] = row[q]
    BY <1>1, <1>3
  <2> QED BY <1>3, <2>1
<1>4. ASSUME NEW p \in Queued, NEW t \in Timestamps,
             row' = [row EXCEPT ![p].status = "AWAITING_TRANSFER", ![p].updated = t]
      PROVE  Good
  <2>1. t \in Nat /\ \A q \in Waiting : t >= row[q].updated
    BY TimestampsType
  <2>2. PICK r \in QueueRows : r.updated = t /\ row' = [row EXCEPT ![p] = r]
    BY <1>4, <2>1, RowQueuesUp
  <2> QED BY <1>3, <2>1, <2>2
<1>5. ASSUME NEW p \in Queued, Settled(p) PROVE Good
  <2>1. CASE p \in Waiting
    <3> DEFINE a == Leaves(p, "SETTLED")
               r == [a EXCEPT !.processed = TRUE]
    <3>1. row' = [row EXCEPT ![p] = r]
      BY <1>5, <2>1 DEF Settled
    <3>2. a \in QueueRows /\ a.status = "SETTLED"
      BY RowLeaves
    <3> HIDE DEF a
    <3>3. r \in QueueRows /\ r.status = "SETTLED"
      BY <3>2 DEF QueueRows
    <3> HIDE DEF r
    <3> QED BY <1>3, <3>1, <3>3
  <2>2. CASE p \notin Waiting
    BY <1>2, <1>5, <2>2 DEF Settled
  <2> QED BY <2>1, <2>2
<1>6. ASSUME NEW p \in Queued, Expired(p) PROVE Good
  <2>1. CASE row[p].status = "AWAITING_TRANSFER"
    <3>1. row' = [row EXCEPT ![p] = Leaves(p, "EXPIRED")]
      BY <1>6, <2>1 DEF Expired
    <3>2. Leaves(p, "EXPIRED") \in QueueRows /\ Leaves(p, "EXPIRED").status = "EXPIRED"
      BY RowLeaves
    <3> QED BY <1>3, <3>1, <3>2
  <2>2. CASE row[p].status # "AWAITING_TRANSFER"
    BY <1>2, <1>6, <2>2 DEF Expired
  <2> QED BY <2>1, <2>2
<1>7. ASSUME NEW p \in Queued, NEW e \in Engines, Fail(e, p) PROVE Good
  <2> DEFINE a == Leaves(p, "FAILED")
             r == [a EXCEPT !.retry = @ + 1]
  <2>1. row' = [row EXCEPT ![p] = r]
    BY <1>7 DEF Fail
  <2>2. a \in QueueRows /\ a.status = "FAILED"
    BY RowLeaves
  <2> HIDE DEF a
  <2>3. r \in QueueRows /\ r.status = "FAILED"
    BY <2>2 DEF QueueRows
  <2> HIDE DEF r
  <2> QED BY <1>3, <2>1, <2>3
<1>8. ASSUME NEW e \in Engines, Requeue(e) PROVE Good
  <2> DEFINE p == toRequeue[e]
  <2>1. p \in Queued
    BY <1>1, <1>8 DEF Requeue
  <2>2. CASE UNCHANGED row
    BY <1>2, <2>2
  <2>3. CASE \E t \in Timestamps :
               row' = [row EXCEPT ![p].status = "AWAITING_TRANSFER", ![p].updated = t]
    <3> HIDE DEF p
    <3> QED BY <1>4, <2>1, <2>3
  <2> QED BY <1>8, <2>2, <2>3 DEF Requeue
<1>9. ASSUME NEW p \in Queued, ConfirmIntent(p) PROVE Good
  BY <1>4, <1>9 DEF ConfirmIntent
<1>10. ASSUME NEW p \in Queued, NEW e \in Engines, Transfer(e, p) PROVE Good
  BY <1>5, <1>6, <1>10 DEF Transfer
<1> HIDE DEF Good
<1>11. Good
  <2>1. ASSUME NEW e \in Engines, EngineStep(e) PROVE Good
    <3>1. CASE Poll(e)
      BY <1>2, <3>1 DEF Poll
    <3> QED BY <1>7, <1>8, <1>10, <2>1, <3>1 DEF EngineStep
  <2>2. ASSUME NEW e \in Engines, TransferError(e) \/ CrashEngine(e) PROVE Good
    BY <1>2, <2>2 DEF TransferError, CrashEngine
  <2>3. CASE UNCHANGED queueVars
    BY <1>2, <2>3 DEF queueVars
  <2> QED BY <1>9, <2>1, <2>2, <2>3 DEF QueueNext
<1>12. toRequeue' \in [Engines -> Queued \cup {None}]
  <2> DEFINE ToRequeueOK == toRequeue' \in [Engines -> Queued \cup {None}]
  <2>1. ASSUME NEW e \in Engines, NEW q \in Queued \cup {None},
               toRequeue' = [toRequeue EXCEPT ![e] = q]
        PROVE  toRequeue' \in [Engines -> Queued \cup {None}]
    BY <1>1, <2>1
  <2>2. ASSUME NEW e \in Engines, EngineStep(e) PROVE ToRequeueOK
    <3>1. CASE Poll(e)
      BY <1>1, <3>1 DEF Poll
    <3>2. ASSUME NEW p \in Queued, Transfer(e, p) PROVE ToRequeueOK
      BY <1>1, <3>2 DEF Transfer
    <3>3. ASSUME NEW p \in Queued, Fail(e, p) PROVE ToRequeueOK
      BY <1>1, <2>1, <3>3 DEF Fail
    <3>4. CASE Requeue(e)
      BY <2>1, <3>4 DEF Requeue
    <3> QED BY <2>2, <3>1, <3>2, <3>3, <3>4 DEF EngineStep
  <2>3. ASSUME NEW e \in Engines, TransferError(e) \/ CrashEngine(e) PROVE ToRequeueOK
    BY <1>1, <2>1, <2>3 DEF TransferError, CrashEngine
  <2>4. CASE \E p \in Queued : ConfirmIntent(p)
    BY <1>1, <2>4 DEF ConfirmIntent
  <2>5. CASE UNCHANGED queueVars
    BY <1>1, <2>5 DEF queueVars
  <2> QED BY <2>2, <2>3, <2>4, <2>5 DEF QueueNext
<1> QED BY <1>11, <1>12

(* No confirmation or retry gets ahead of a payment that waits, so that a    *)
(* poll's limit only ever holds it up for those that were before it.         *)
THEOREM QueueKeepsOrder ==
  ASSUME IsFiniteSet(Queued)
  PROVE  QueueSpec => NobodyJumpsTheQueue
<1> DEFINE InOrder ==
             \A p \in Queued :
               (p \in Waiting /\ p \in Waiting' /\ row[p].updated = row'[p].updated)
                 => Ahead(p)' \subseteq Ahead(p)
<1>1. QueueInit => QueueInv
  BY DEF QueueInit, QueueInv, QueueRows
<1>2. QueueInv /\ [QueueNext]_queueVars => QueueInv'
  BY QueueStep
<1>3. QueueInv /\ [QueueNext]_queueVars => [InOrder]_queueVars
  <2> SUFFICES ASSUME QueueInv, [QueueNext]_queueVars, NEW p \in Queued,
                      p \in Waiting, p \in Waiting', row[p].updated = row'[p].updated,
                      NEW q \in Queued, row'[q].status = "AWAITING_TRANSFER",
                      ~row'[q].processed, row'[q].updated < row'[p].updated
               PROVE  q \in Waiting /\ row[q].updated < row[p].updated
    BY DEF Ahead, Waiting
  <2>1. row'[q] = row[q]
    <3>1. row'[q].updated \in Nat /\ row[p].updated \in Nat
      BY QueueStep DEF QueueInv, QueueRows
    <3>2. ~(row'[q].updated >= row[p].updated)
      BY <3>1
    <3> QED BY <3>2, QueueStep
  <2> QED BY <2>1 DEF Waiting
<1>4. NobodyJumpsTheQueue <=> [][InOrder]_queueVars
  BY DEF NobodyJumpsTheQueue
<1> HIDE DEF InOrder
<1> QED BY <1>1, <1>2, <1>3, <1>4, PTL DEF QueueSpec

=============================================================================
