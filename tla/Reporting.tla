--------------------------- MODULE Reporting ---------------------------
(* The reconciliation report, Store.ReconciliationReport, read while the    *)
(* system runs: four statements in a row without a transaction around them, *)
(* so postings of engines and handlers come between.                        *)
EXTENDS GatewayTotals, Sequences

VARIABLE report  \* the next statement of the report, and what was read so far

reportVars == <<vars, report>>

-----------------------------------------------------------------------------
NoReport == [at |-> 0, settled |-> 0, refunded |-> 0, net |-> 0,
             escrow |-> 0, debit |-> 0, credit |-> 0]

ReportInit == Init /\ report = NoReport

(* Slip: the ledger is totalled before the statuses are read. *)
TotalsFirst == <<"totals", "lines", "wallets", "escrow">>

Statements == <<"lines", "wallets", "escrow", "totals">>

Finished == report.at > Len(Statements)

(* Reading a page starts a report, whatever became of the one before. *)
StartReport ==
    /\ report.at = 0 \/ Finished
    /\ report' = [NoReport EXCEPT !.at = 1]

(* An error or a client that has gone ends the report without a page. Reports*)
(* change nothing, so this may happen whatever else does or does not fail.   *)
AbandonReport ==
    /\ report.at > 0 /\ ~Finished
    /\ report' = NoReport

Now(statement) ==
    /\ report.at \in DOMAIN Statements
    /\ Statements[report.at] = statement

(* Of the lines per status the sums of SETTLED and CANCELLED are kept. *)
ReadLines ==
    /\ Now("lines")
    /\ LET sum(st) == AmountOf({p \in Payments : status[p] = st})
       IN  report' = [report EXCEPT !.at = @ + 1, !.settled = sum("SETTLED"),
                                    !.refunded = sum("CANCELLED")]

BalanceOf(ws) == MapThenSumSet(LAMBDA w : balance[w], ws)

(* Slip: money that is pending is counted in. *)
NetWithPending == BalanceOf(Wallets) + pending

NetWalletBalance == BalanceOf(Wallets)

ReadWallets ==
    /\ Now("wallets")
    /\ report' = [report EXCEPT !.at = @ + 1, !.net = NetWalletBalance]

ReadEscrow ==
    /\ Now("escrow")
    /\ report' = [report EXCEPT !.at = @ + 1, !.escrow = pending]

Total(direction) == Cents({e \in entries : e.direction = direction})

LedgerTotals ==
    /\ Now("totals")
    /\ report' = [report EXCEPT !.at = @ + 1, !.debit = Total("DR"), !.credit = Total("CR")]

ReportStep ==
    /\ \/ StartReport
       \/ AbandonReport
       \/ ReadLines
       \/ ReadWallets
       \/ ReadEscrow
       \/ LedgerTotals
    /\ UNCHANGED vars

ReportNext == (Next /\ UNCHANGED report) \/ ReportStep

ReportSpec == ReportInit /\ [][ReportNext]_reportVars

FairReportSpec == ReportSpec /\ WorkersProgress

-----------------------------------------------------------------------------
LedgerBalanceInvariant == report.net = 0 /\ report.debit = report.credit

(* The page never shows an imbalance that is only one of its own reading:    *)
(* each figure of the balance flag comes from one statement, and each        *)
(* posting is seen by it wholly or not at all.                               *)
ReportBalanced == Finished => LedgerBalanceInvariant

(* The page never shows more money settled or refunded than ledger entries   *)
(* to show for it: statuses are read first and follow the money, so whatever *)
(* commits while the report is read only adds to the ledger's side.          *)
ReportCoversSettled ==
    Finished => report.debit >= report.settled + 2 * report.refunded

=============================================================================
