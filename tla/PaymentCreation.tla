------------------------ MODULE PaymentCreation ------------------------
(* How a payment request gets its reference: AdminCreatePaymentRequest of  *)
(* internal/handlers/admin.go numbers it by counting the day's rows, then  *)
(* Store.CreatePaymentRequest looks its idempotency key up and inserts it. *)
(* Each of these is a statement of its own, so creations of any number of  *)
(* servers interleave between them. The handler sets no key; callers of    *)
(* the store may.                                                          *)
EXTENDS Integers, FiniteSets

CONSTANTS
    Forms,            \* submissions; each has a fresh id (uuid.NewString)
    Days,             \* UTC dates the clocks of the servers may show
    IdempotencyKeys,  \* idempotency keys
    NoKey,            \* the blank key, stored as NULL
    Key,              \* the key each submission carries
    Refused,          \* the answer "failed to create payment"
    Open,             \* no answer yet
    CreationFaults    \* which faults of the environment may happen

ASSUME CreationAssumption ==
    /\ NoKey \notin IdempotencyKeys
    /\ Key \in [Forms -> IdempotencyKeys \cup {NoKey}]
    /\ Refused \notin Forms
    /\ Open \notin Forms \cup {Refused}
    /\ CreationFaults \subseteq {"dberror", "disconnect"}

VARIABLES
    payments,  \* payment_requests: id, reference (day and number) and key
    form       \* per submission: where it stands, its reference, its answer

creationVars == <<payments, form>>

-----------------------------------------------------------------------------
PaymentRows == [id : Forms, day : Days, number : Nat, key : IdempotencyKeys \cup {NoKey}]

CreationInit ==
    /\ payments = {}
    /\ \E day \in [Forms -> Days] :
         form = [f \in Forms |-> [at |-> "number", day |-> day[f], number |-> 0,
                                  answer |-> Open]]

RowsOf(d) == {r \in payments : r.day = d}

FormAt(f, at) == form[f].at = at
FormGoTo(f, at) == form' = [form EXCEPT ![f].at = at]
AnswerForm(f, a) == form' = [form EXCEPT ![f].at = "answered", ![f].answer = a]

-----------------------------------------------------------------------------
(* Slip: numbers are counted over all days. *)
NumberOfAllDays(f) ==
    /\ FormAt(f, "number")
    /\ form' = [form EXCEPT ![f].at = IF Key[f] = NoKey THEN "insert" ELSE "lookup",
                            ![f].number = Cardinality(payments) + 1]
    /\ UNCHANGED payments

(* SELECT COUNT(1) of the references with the prefix of the day, plus one. *)
GeneratePaymentReference(f) ==
    /\ FormAt(f, "number")
    /\ form' = [form EXCEPT ![f].at = IF Key[f] = NoKey THEN "insert" ELSE "lookup",
                            ![f].number = Cardinality(RowsOf(form[f].day)) + 1]
    /\ UNCHANGED payments

WithKey(k) == {r \in payments : r.key = k}

(* The payment of an earlier submission with this key is the answer. *)
KeyFound(f) ==
    /\ FormAt(f, "lookup")
    /\ \E r \in WithKey(Key[f]) : AnswerForm(f, r.id)
    /\ UNCHANGED payments

KeyNotFound(f) ==
    /\ FormAt(f, "lookup")
    /\ WithKey(Key[f]) = {}
    /\ FormGoTo(f, "insert")
    /\ UNCHANGED payments

Row(f) == [id |-> f, day |-> form[f].day, number |-> form[f].number, key |-> Key[f]]

(* Slip: the reference does not bear the day. *)
ReferenceTakenAnyDay(f) == \E r \in payments : r.number = form[f].number

(* reference is UNIQUE, and so is idempotency_key where it is not NULL. *)
ReferenceTaken(f) ==
    \E r \in payments : r.day = form[f].day /\ r.number = form[f].number
KeyTaken(f) == Key[f] # NoKey /\ WithKey(Key[f]) # {}

(* Slip: the partial unique index on the key is missing. *)
InsertAnyKey(f) ==
    /\ FormAt(f, "insert")
    /\ ~ReferenceTaken(f)
    /\ payments' = payments \cup {Row(f)}
    /\ FormGoTo(f, "readBack")

Insert(f) ==
    /\ FormAt(f, "insert")
    /\ ~ReferenceTaken(f)
    /\ ~KeyTaken(f)
    /\ payments' = payments \cup {Row(f)}
    /\ FormGoTo(f, "readBack")

(* The INSERT fails, and the error names the index that refused the row;   *)
(* when both do, it names either. An error of the key index leads to the   *)
(* row that has the key.                                                   *)
InsertRefused(f) ==
    /\ FormAt(f, "insert")
    /\ \/ ReferenceTaken(f) /\ AnswerForm(f, Refused)
       \/ KeyTaken(f) /\ FormGoTo(f, "lookupAgain")
    /\ UNCHANGED payments

ReadKey(f) ==
    /\ FormAt(f, "lookupAgain")
    /\ \E r \in WithKey(Key[f]) : AnswerForm(f, r.id)
    /\ UNCHANGED payments

ReadBack(f) ==
    /\ FormAt(f, "readBack")
    /\ AnswerForm(f, f)
    /\ UNCHANGED payments

(* A statement fails for good, or the client goes away and the context of   *)
(* the request is cancelled: the row, if it was inserted, stays.            *)
CreationFails(f) ==
    /\ CreationFaults # {}
    /\ ~FormAt(f, "answered")
    /\ AnswerForm(f, Refused)
    /\ UNCHANGED payments

-----------------------------------------------------------------------------
CreationStep(f) ==
    \/ GeneratePaymentReference(f)
    \/ KeyFound(f)
    \/ KeyNotFound(f)
    \/ Insert(f)
    \/ InsertRefused(f)
    \/ ReadKey(f)
    \/ ReadBack(f)

CreationNext == \E f \in Forms : CreationStep(f) \/ CreationFails(f)

CreationSpec == CreationInit /\ [][CreationNext]_creationVars

-----------------------------------------------------------------------------
(* Types of the table and of the handlers' locals: rows have references from *)
(* 1, and whoever inserts has a number to insert.                            *)
CreationTypeOK ==
    /\ payments \subseteq PaymentRows
    /\ form \in [Forms -> [at : {"number", "lookup", "insert", "lookupAgain",
                                 "readBack", "answered"},
                           day : Days, number : Nat,
                           answer : Forms \cup {Refused, Open}]]
    /\ \A f \in Forms : form[f].at \in {"lookup", "insert"} => form[f].number > 0

(* However creations interleave, the references of a day are the numbers     *)
(* from 1 up without a gap and without a double: counting rows is enough     *)
(* only because a number counted too early is refused by the UNIQUE column.  *)
NumbersDense ==
    \A d \in Days :
      {r.number : r \in RowsOf(d)} = 1 .. Cardinality(RowsOf(d))

(* Submissions that share an idempotency key create one payment, and each of *)
(* them that is answered with a payment is answered with that one.           *)
KeyNamesOnePayment ==
    /\ \A r, s \in payments : r.key = s.key /\ r.key # NoKey => r = s
    /\ \A f \in Forms : form[f].answer \in Forms =>
         \E r \in payments : /\ r.id = form[f].answer
                             /\ r.key = Key[f]
                             /\ Key[f] = NoKey => r.id = f

(* Without faults a submission is refused only because another one took the  *)
(* number it had counted: of rivals for one number, one always gets through. *)
RefusedOnlyByRival ==
    \A f \in Forms : form[f].answer = Refused =>
      \E r \in payments : /\ r.id # f
                          /\ r.day = form[f].day
                          /\ r.number = form[f].number

=============================================================================
