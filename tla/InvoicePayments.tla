---------------------------- MODULE InvoicePayments ----------------------------
(* Payments of customer invoices: a payment is settled in four statements     *)
(* (voucher, payment row, invoice, or the way back), linked to a voucher that *)
(* is in the ledger already, or taken back by reversing its voucher, which    *)
(* resets the invoice in four more. Nothing is locked between them.           *)
(*                                                                            *)
(* All vouchers lie in one fiscal period, whose flags PeriodControl changes.  *)
(* createJournalEntry and reverseEntry up to its tail are one statement each: *)
(* Journal models them. The bank transactions a payment came from are left to *)
(* PendingOperations.                                                         *)
EXTENDS Integers, FiniteSets

CONSTANTS
    Workers,      \* requests that may be under way at once
    Invoices,     \* invoices that have been sent
    None,         \* no invoice
    Total,        \* what each of them amounts to
    Imported,     \* how many vouchers an SIE import left in the period
    MaxRequests,  \* bound: how many requests are made
    Failing       \* the settlement's statements that may fail

FailingSteps == {"post", "record", "flip", "remove", "cancel"}

ASSUME PaymentsAssumption ==
    /\ None \notin Invoices
    /\ Total \in Nat \ {0}
    /\ Imported \in Nat /\ MaxRequests \in Nat
    /\ Failing \subseteq FailingSteps

VARIABLES
    period,    \* fiscal_periods: the flags of the period
    invoice,   \* invoices: status and paid_amount
    voucher,   \* journal_entries
    rows,      \* invoice_payments
    job,       \* what each worker has done of its request
    stray,     \* rows and vouchers an error log names for manual clean-up
    crossed,   \* history: invoices two requests have got in each other's way on
    requests   \* how many requests were made

payVars == <<period, invoice, voucher, rows, job, stray, crossed, requests>>
tables == <<invoice, voucher, rows>>

(* A request posts at most one voucher.                                       *)
Vouchers == 1..(Imported + MaxRequests)
NoVoucher == 0

Amounts == 0..Total

Period ==
    [locked : BOOLEAN, closed : BOOLEAN, external : BOOLEAN,
     closing : Vouchers \cup {NoVoucher}]

Invoice == [status : {"sent", "partially_paid", "paid"}, paid : Amounts]

Voucher ==
    [status : {"absent", "posted", "reversed", "cancelled"},
     kind : {"none", "import", "invoice_paid", "year_end"},
     invoice : Invoices \cup {None}, amount : Amounts]

Row == [voucher : Vouchers, invoice : Invoices, amount : Amounts]

Settling == {"record", "flip", "remove", "cancel"}
Reversing == {"lookup", "reread", "revert", "purge"}

(* paid is the paid_amount that was read; own is the voucher in hand.         *)
Job ==
    [pc : {"idle", "post"} \cup Settling \cup Reversing,
     invoice : Invoices \cup {None}, own : Vouchers \cup {NoVoucher},
     amount : Amounts, paid : Amounts, found : BOOLEAN]

Idle ==
    [pc |-> "idle", invoice |-> None, own |-> NoVoucher,
     amount |-> 0, paid |-> 0, found |-> FALSE]

NoEntry == [status |-> "absent", kind |-> "none", invoice |-> None, amount |-> 0]

Init ==
    /\ period = [locked |-> FALSE, closed |-> FALSE, external |-> FALSE,
                 closing |-> NoVoucher]
    /\ invoice = [i \in Invoices |-> [status |-> "sent", paid |-> 0]]
    /\ \E credit \in 1..Total :
          voucher = [v \in Vouchers |->
             IF v <= Imported
             THEN [status |-> "posted", kind |-> "import",
                   invoice |-> None, amount |-> credit]
             ELSE NoEntry]
    /\ rows = {}
    /\ job = [w \in Workers |-> Idle]
    /\ stray = [rows |-> {}, vouchers |-> {}]
    /\ crossed = {}
    /\ requests = 0

-----------------------------------------------------------------------------
(* The tables.                                                                *)

(* enforce_period_lock lets a voucher of the period be written.               *)
PeriodOpen == ~period.locked /\ ~period.closed

Posted(v) == v # NoVoucher /\ voucher[v].status = "posted"

Unused == {v \in Vouchers : voucher[v].status = "absent"}
NextVoucher == CHOOSE v \in Unused : TRUE

PostEntry(kind, i, amount) ==
    voucher' = [voucher EXCEPT ![NextVoucher] =
                  [status |-> "posted", kind |-> kind,
                   invoice |-> i, amount |-> amount]]

Payable(i) == invoice[i].status \in {"sent", "partially_paid"}

Remaining(i) == Total - invoice[i].paid

(* The status that goes with what is paid.                                    *)
StatusAt(paid) ==
    IF paid = 0 THEN "sent" ELSE IF paid < Total THEN "partially_paid" ELSE "paid"

SetPaid(i, paid) ==
    invoice' = [invoice EXCEPT ![i] = [status |-> StatusAt(paid), paid |-> paid]]

RowsOf(v) == {r \in rows : r.voucher = v}

OwnRows(v, i) == {r \in rows : r.voucher = v /\ r.invoice = i}

-----------------------------------------------------------------------------
(* What a worker does.                                                        *)

At(w, step) == job[w].pc = step /\ UNCHANGED <<period, requests>>

Goto(w, step) == job' = [job EXCEPT ![w].pc = step]

Stop(w) == job' = [job EXCEPT ![w] = Idle]

Request == requests < MaxRequests /\ requests' = requests + 1

(* A settlement has the voucher in hand.                                      *)
InHand(v) == \E w \in Workers : job[w].pc \in Settling /\ job[w].own = v

Strand(r, v) ==
    stray' = [rows |-> stray.rows \cup r, vouchers |-> stray.vouchers \cup v]

-----------------------------------------------------------------------------
(* settleInvoicePayment.                                                      *)

(* The caller reads the invoice; planInvoicePayment refuses more than what    *)
(* remains of it.                                                             *)
Settle(w, i, amount) ==
    /\ job[w].pc = "idle"
    /\ Request
    /\ Payable(i) /\ amount <= Remaining(i)
    /\ job' = [job EXCEPT ![w] = [Idle EXCEPT !.pc = "post", !.invoice = i,
                                    !.amount = amount, !.paid = invoice[i].paid]]
    /\ UNCHANGED <<period, tables, stray, crossed>>

(* Without a voucher the invoice is left alone.                               *)
Post(w) ==
    /\ At(w, "post")
    /\ \/ /\ PeriodOpen
          /\ PostEntry("invoice_paid", job[w].invoice, job[w].amount)
          /\ job' = [job EXCEPT ![w].pc = "record", ![w].own = NextVoucher]
       \/ (~PeriodOpen \/ "post" \in Failing) /\ Stop(w) /\ UNCHANGED voucher
    /\ UNCHANGED <<invoice, rows, stray, crossed>>

(* recordInvoicePaymentRow; the unique index admits one row for a voucher and *)
(* an invoice.                                                                *)
Record(w) ==
    LET v == job[w].own
        i == job[w].invoice
    IN
    /\ At(w, "record")
    /\ \/ /\ OwnRows(v, i) = {}
          /\ rows' = rows \cup
                {[voucher |-> v, invoice |-> i, amount |-> job[w].amount]}
          /\ Goto(w, "flip")
       \/ /\ OwnRows(v, i) # {} \/ "record" \in Failing
          /\ Goto(w, "cancel")
          /\ UNCHANGED rows
    /\ UNCHANGED <<invoice, voucher, stray, crossed>>

(* Faulty form: the status is not compared.                                   *)
FlipUnguarded(i) == TRUE

(* The compare-and-set is on the status only.                                 *)
FlipAccepted(i) == Payable(i)

(* What was read decides what is written: a payment that another request has  *)
(* recorded on the open invoice since then is overwritten.                    *)
Overwrites(w) ==
    LET i == job[w].invoice IN Payable(i) /\ invoice[i].paid # job[w].paid

Flip(w) ==
    LET i == job[w].invoice IN
    /\ At(w, "flip")
    /\ \/ /\ FlipAccepted(i)
          /\ SetPaid(i, job[w].paid + job[w].amount)
          /\ crossed' = IF Overwrites(w) THEN crossed \cup {i} ELSE crossed
          /\ Stop(w)
       \/ /\ ~FlipAccepted(i) \/ "flip" \in Failing
          /\ Goto(w, "remove")
          /\ UNCHANGED <<invoice, crossed>>
    /\ UNCHANGED <<voucher, rows, stray>>

(* removeInvoicePaymentRow.                                                   *)
Remove(w) ==
    LET own == OwnRows(job[w].own, job[w].invoice) IN
    /\ At(w, "remove")
    /\ \/ rows' = rows \ own /\ UNCHANGED stray
       \/ "remove" \in Failing /\ Strand(own, {}) /\ UNCHANGED rows
    /\ Goto(w, "cancel")
    /\ UNCHANGED <<invoice, voucher, crossed>>

(* cancelOrphanedPaymentEntry: the triggers refuse a voucher that has been    *)
(* reversed and one in a period that is locked by now.                        *)
CancelAccepted(v) == PeriodOpen /\ Posted(v)

(* Faulty form: the loser of a race returns and leaves its voucher posted, as *)
(* the match routes once did.                                                 *)
CancelNothing(w) ==
    At(w, "cancel") /\ Stop(w) /\ UNCHANGED <<tables, stray, crossed>>

Cancel(w) ==
    LET v == job[w].own IN
    /\ At(w, "cancel")
    /\ \/ /\ CancelAccepted(v)
          /\ voucher' = [voucher EXCEPT ![v].status = "cancelled"]
          /\ UNCHANGED stray
       \/ /\ ~CancelAccepted(v) \/ "cancel" \in Failing
          /\ Strand({}, {v})
          /\ UNCHANGED voucher
    /\ Stop(w)
    /\ UNCHANGED <<invoice, rows, crossed>>

-----------------------------------------------------------------------------
(* link_invoice_to_voucher: one transaction that holds the invoice.           *)

Linkable(i, v) ==
    /\ Payable(i)
    /\ Posted(v) /\ voucher[v].kind # "year_end"
    /\ voucher[v].amount <= Remaining(i)
    /\ OwnRows(v, i) = {}

Link(i, v) ==
    /\ Linkable(i, v)
    /\ Request
    /\ SetPaid(i, invoice[i].paid + voucher[v].amount)
    /\ rows' = rows \cup
          {[voucher |-> v, invoice |-> i, amount |-> voucher[v].amount]}
    /\ crossed' = IF InHand(v) THEN crossed \cup ({i, voucher[v].invoice} \ {None})
                  ELSE crossed
    /\ UNCHANGED <<period, voucher, job, stray>>

-----------------------------------------------------------------------------
(* reverseEntry, with syncInvoiceStatusFromPaymentEntry for its tail.         *)

(* The reversal will find the settlement it undoes: finished, with its row,   *)
(* and no row of the voucher on another invoice. Only the vouchers of         *)
(* payments have a tail.                                                      *)
Undoable(v) ==
    /\ ~InHand(v)
    /\ IF voucher[v].kind = "invoice_paid"
       THEN /\ RowsOf(v) = OwnRows(v, voucher[v].invoice)
            /\ RowsOf(v) # {} /\ RowsOf(v) \cap stray.rows = {}
       ELSE RowsOf(v) = {}

Reverse(w, v) ==
    /\ job[w].pc = "idle"
    /\ Request
    /\ PeriodOpen /\ Posted(v)
    /\ voucher' = [voucher EXCEPT ![v].status = "reversed"]
    /\ crossed' = IF Undoable(v) THEN crossed
                  ELSE crossed \cup ({r.invoice : r \in RowsOf(v)}
                                       \cup ({voucher[v].invoice} \ {None}))
    /\ job' = IF voucher[v].kind # "invoice_paid" THEN job
              ELSE [job EXCEPT ![w] = [Idle EXCEPT !.pc = "lookup", !.own = v,
                                         !.invoice = voucher[v].invoice]]
    /\ UNCHANGED <<period, invoice, rows, stray>>

Lookup(w) ==
    LET own == OwnRows(job[w].own, job[w].invoice) IN
    /\ At(w, "lookup")
    /\ job' = [job EXCEPT ![w].pc = "reread", ![w].found = (own # {}),
                  ![w].amount = IF own = {} THEN 0 ELSE (CHOOSE r \in own : TRUE).amount]
    /\ UNCHANGED <<tables, stray, crossed>>

Reread(w) ==
    /\ At(w, "reread")
    /\ job' = [job EXCEPT ![w].pc = "revert",
                          ![w].paid = invoice[job[w].invoice].paid]
    /\ UNCHANGED <<tables, stray, crossed>>

(* Faulty form: more can be taken back than was paid.                         *)
RevertedBelow(w) == IF job[w].found THEN job[w].paid - job[w].amount ELSE 0

(* A payment without a row is taken for a payment in full.                    *)
Reverted(w) ==
    IF ~job[w].found \/ job[w].amount > job[w].paid THEN 0
    ELSE job[w].paid - job[w].amount

Revert(w) ==
    LET i == job[w].invoice IN
    /\ At(w, "revert")
    /\ IF invoice[i].status \in {"paid", "partially_paid"}
       THEN /\ SetPaid(i, Reverted(w))
            /\ crossed' = IF invoice[i].paid # job[w].paid THEN crossed \cup {i}
                          ELSE crossed
       ELSE UNCHANGED <<invoice, crossed>>
    /\ Goto(w, "purge")
    /\ UNCHANGED <<voucher, rows, stray>>

Purge(w) ==
    /\ At(w, "purge")
    /\ rows' = rows \ OwnRows(job[w].own, job[w].invoice)
    /\ Stop(w)
    /\ UNCHANGED <<invoice, voucher, stray, crossed>>

-----------------------------------------------------------------------------

Advance(w) ==
    \/ Post(w) \/ Record(w) \/ Flip(w) \/ Remove(w) \/ Cancel(w)
    \/ Lookup(w) \/ Reread(w) \/ Revert(w) \/ Purge(w)

PaymentNext ==
    \/ \E w \in Workers :
          \/ \E i \in Invoices : \E amount \in 1..Total : Settle(w, i, amount)
          \/ \E v \in Vouchers : Reverse(w, v)
          \/ Advance(w)
    \/ \E i \in Invoices : \E v \in Vouchers : Link(i, v)

-----------------------------------------------------------------------------
(* Properties.                                                                *)

(* Types of the tables and of the requests' local variables.                  *)
TypeOK ==
    /\ period \in Period
    /\ invoice \in [Invoices -> Invoice]
    /\ voucher \in [Vouchers -> Voucher]
    /\ rows \in SUBSET Row
    /\ job \in [Workers -> Job]
    /\ stray \in [rows : SUBSET Row, vouchers : SUBSET Vouchers]
    /\ crossed \in SUBSET Invoices
    /\ requests \in 0..MaxRequests

AtRest(i) == \A w \in Workers : job[w].invoice # i

PaymentRows(i) == {r \in rows : r.invoice = i}

(* What a set of rows amounts to: the units each of them has, counted.        *)
Units(R) == {u \in R \X (1..Total) : u[2] <= u[1].amount}
AmountOf(R) == Cardinality(Units(R))

(* The invoice and its sub-ledger agree once nobody works on it: paid_amount  *)
(* is the sum of its payment rows, the status says so, and every row's voucher*)
(* stands in the ledger. Losers of a race take back what they wrote, a        *)
(* reversal takes back what it reversed. Rows that could not be deleted are   *)
(* reported; invoices in crossed are the known exceptions.                    *)
SubLedgerAgrees ==
    \A i \in Invoices : AtRest(i) /\ i \notin crossed =>
        LET counted == PaymentRows(i) \ stray.rows IN
        /\ invoice[i].paid = AmountOf(counted)
        /\ invoice[i].status = StatusAt(invoice[i].paid)
        /\ \A r \in counted : Posted(r.voucher)

(* No payment voucher is left behind: one that is in the ledger has its row,  *)
(* is in the hands of a settlement, or was reported because the period was    *)
(* locked before it could be cancelled.                                       *)
VouchersAccounted ==
    \A v \in Vouchers : Posted(v) /\ voucher[v].kind = "invoice_paid" =>
        \/ RowsOf(v) # {}
        \/ InHand(v)
        \/ v \in stray.vouchers
=============================================================================
