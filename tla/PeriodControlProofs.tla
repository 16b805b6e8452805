-------------------------- MODULE PeriodControlProofs --------------------------
(* Theorems about InvoicePayments and PeriodControl together, for every number*)
(* of requests, workers, clerks, invoices and imported vouchers, every amount *)
(* and every choice of failing statements.                                    *)
EXTENDS PeriodControl, FiniteSetTheorems, TLAPS

-----------------------------------------------------------------------------
(* What the types need. A request never settles more than was open when it    *)
(* read the invoice, and createJournalEntry always finds a voucher that is not*)
(* in use: every request that is to post has one set aside.                   *)

JobFits(j) ==
    /\ j.pc # "idle" => j.invoice \in Invoices
    /\ j.pc \in Settling \cup Reversing => j.own \in Vouchers
    /\ j.pc \in {"post", "record", "flip"} => j.paid + j.amount <= Total

JobsFit == \A w \in Workers : JobFits(job[w])

PaymentsFit ==
    \A v \in Vouchers :
        voucher[v].kind = "invoice_paid" => voucher[v].invoice \in Invoices

ClerksFit ==
    /\ clerk \in [Clerks -> Clerk]
    /\ \A c \in Clerks : clerk[c].pc \in {"check", "link"} => clerk[c].entry \in Vouchers

Spent == {v \in Vouchers : voucher[v].status # "absent"}
PayersPosting == {w \in Workers : job[w].pc = "post"}
ClerksPosting == {c \in Clerks : clerk[c].pc = "entry"}

Spending ==
    {<<"payment", w>> : w \in PayersPosting} \cup {<<"closing", c>> : c \in ClerksPosting}

Room ==
    /\ IsFiniteSet(Spending)
    /\ Cardinality(Spent) + Cardinality(Spending) <= Imported + requests

Typed == TypeOK /\ JobsFit /\ PaymentsFit /\ ClerksFit /\ Room

LEMMA VouchersFinite ==
    /\ IsFiniteSet(Vouchers) /\ Cardinality(Vouchers) = Imported + MaxRequests
    /\ IsFiniteSet(Spent) /\ Cardinality(Spent) \in Nat
    /\ IsFiniteSet(Spent') /\ Cardinality(Spent') \in Nat
<1>1. IsFiniteSet(Vouchers) /\ Cardinality(Vouchers) = Imported + MaxRequests
  <2> DEFINE n == Imported + MaxRequests
  <2>1. n \in Nat /\ n \in Int /\ 1 \in Int BY PaymentsAssumption
  <2>2. IsFiniteSet(1..n) /\ Cardinality(1..n) = IF 1 > n THEN 0 ELSE n - 1 + 1
    BY <2>1, FS_Interval
  <2>3. Cardinality(1..n) = n
    <3> HIDE DEF n
    <3> QED BY <2>1, <2>2
  <2> QED BY <2>2, <2>3 DEF Vouchers
<1>2. Spent \in SUBSET Vouchers /\ Spent' \in SUBSET Vouchers BY DEF Spent
<1>3. IsFiniteSet(Spent) /\ IsFiniteSet(Spent') BY <1>1, <1>2, FS_Subset
<1> QED BY <1>1, <1>3, FS_CardinalityType

LEMMA VoucherLeft ==
    ASSUME Typed, Spending # {}
    PROVE  NextVoucher \in Vouchers /\ voucher[NextVoucher].status = "absent"
<1>1. Cardinality(Spending) \in Nat /\ Cardinality(Spending) # 0
  BY FS_CardinalityType, FS_EmptySet DEF Typed, Room
<1>2. requests \in Nat /\ requests <= MaxRequests BY PaymentsAssumption DEF Typed, TypeOK
<1>3. Cardinality(Spent) < Imported + MaxRequests
  BY <1>1, <1>2, VouchersFinite, PaymentsAssumption DEF Typed, Room
<1>4. Spent # Vouchers BY <1>3, VouchersFinite, PaymentsAssumption
<1>5. Unused # {} BY <1>4 DEF Spent, Unused
<1> QED BY <1>5 DEF NextVoucher, Unused

(* The account is kept by whatever spends, gives up or adds a request.        *)
LEMMA RoomStep ==
    ASSUME Room, requests \in Nat, NEW r, NEW v,
           \/ Spent' = Spent /\ Spending' \subseteq Spending /\ requests' = requests
           \/ Spent' = Spent /\ Spending' \subseteq Spending \cup {r}
              /\ requests' = requests + 1
           \/ r \in Spending /\ Spent' \subseteq Spent \cup {v}
              /\ Spending' \subseteq Spending \ {r} /\ requests' = requests
    PROVE  Room'
<1>0. Imported \in Nat BY PaymentsAssumption
<1>1. IsFiniteSet(Spending) /\ Cardinality(Spending) \in Nat
  BY FS_CardinalityType DEF Room
<1>2. CASE Spent' = Spent /\ Spending' \subseteq Spending /\ requests' = requests
  <2>1. Spending' \in SUBSET Spending BY <1>2
  <2>2. IsFiniteSet(Spending') /\ Cardinality(Spending') <= Cardinality(Spending)
    BY <1>1, <2>1, FS_Subset
  <2>3. Cardinality(Spending') \in Nat BY <2>2, FS_CardinalityType
  <2>4. Cardinality(Spent') + Cardinality(Spending') <= Imported + requests'
    BY <1>0, <1>1, <1>2, <2>2, <2>3, VouchersFinite DEF Room
  <2> QED BY <2>2, <2>4 DEF Room
<1>3. CASE /\ Spent' = Spent /\ Spending' \subseteq Spending \cup {r}
           /\ requests' = requests + 1
  <2>0. /\ IsFiniteSet(Spending \cup {r})
        /\ Cardinality(Spending \cup {r}) =
              IF r \in Spending THEN Cardinality(Spending)
              ELSE Cardinality(Spending) + 1
    BY <1>1, FS_AddElement
  <2>1. IsFiniteSet(Spending \cup {r})
        /\ Cardinality(Spending \cup {r}) <= Cardinality(Spending) + 1
    BY <1>1, <2>0
  <2>2. Spending' \in SUBSET (Spending \cup {r}) BY <1>3
  <2>3. IsFiniteSet(Spending')
        /\ Cardinality(Spending') <= Cardinality(Spending \cup {r})
    BY <2>1, <2>2, FS_Subset
  <2>4. Cardinality(Spending') \in Nat /\ Cardinality(Spending \cup {r}) \in Nat
    BY <2>1, <2>3, FS_CardinalityType
  <2> QED BY <1>0, <1>1, <1>3, <2>1, <2>3, <2>4, VouchersFinite DEF Room
<1>4. CASE /\ r \in Spending /\ Spent' \subseteq Spent \cup {v}
           /\ Spending' \subseteq Spending \ {r} /\ requests' = requests
  <2>1. IsFiniteSet(Spending \ {r})
        /\ Cardinality(Spending \ {r}) = Cardinality(Spending) - 1
    BY <1>1, <1>4, FS_RemoveElement
  <2>2. Spending' \in SUBSET (Spending \ {r}) BY <1>4
  <2>3. IsFiniteSet(Spending')
        /\ Cardinality(Spending') <= Cardinality(Spending \ {r})
    BY <2>1, <2>2, FS_Subset
  <2>4. IsFiniteSet(Spent \cup {v})
        /\ Cardinality(Spent \cup {v}) <= Cardinality(Spent) + 1
    BY VouchersFinite, FS_AddElement
  <2>5. Spent' \in SUBSET (Spent \cup {v}) BY <1>4
  <2>6. Cardinality(Spent') <= Cardinality(Spent \cup {v})
    BY <2>4, <2>5, FS_Subset
  <2>7. Cardinality(Spending') \in Nat /\ Cardinality(Spending \ {r}) \in Nat
        /\ Cardinality(Spent \cup {v}) \in Nat
    BY <2>1, <2>3, <2>4, FS_CardinalityType
  <2> QED BY <1>0, <1>1, <1>4, <2>1, <2>3, <2>4, <2>6, <2>7, VouchersFinite DEF Room
<1> QED BY <1>2, <1>3, <1>4

-----------------------------------------------------------------------------
(* What the statements write.                                                 *)

LEMMA JobStep ==
    ASSUME TypeOK, JobsFit, NEW w \in Workers, NEW j \in Job, JobFits(j),
           job' = [job EXCEPT ![w] = j]
    PROVE  /\ job' \in [Workers -> Job] /\ JobsFit'
           /\ PayersPosting' \subseteq PayersPosting \cup {w}
           /\ j.pc # "post" => PayersPosting' \subseteq PayersPosting \ {w}
<1>1. job' \in [Workers -> Job] /\ job'[w] = j
      /\ \A q \in Workers \ {w} : job'[q] = job[q]
  BY DEF TypeOK
<1>2. JobsFit' BY <1>1 DEF JobsFit, JobFits
<1> QED BY <1>1, <1>2 DEF PayersPosting

LEMMA IdleFits == Idle \in Job /\ JobFits(Idle) /\ Idle.pc = "idle"
BY PaymentsAssumption
   DEF Idle, Job, JobFits, Settling, Reversing, NoVoucher, Amounts

LEMMA StopStep ==
    ASSUME TypeOK, JobsFit, NEW w \in Workers, Stop(w)
    PROVE  job' \in [Workers -> Job] /\ JobsFit'
           /\ PayersPosting' \subseteq PayersPosting
<1>1. job' = [job EXCEPT ![w] = Idle] BY DEF Stop
<1> QED BY <1>1, IdleFits, JobStep

LEMMA GotoStep ==
    ASSUME TypeOK, JobsFit, NEW w \in Workers, NEW s \in Settling \cup Reversing,
           job[w].pc \in Settling \cup Reversing,
           s = "flip" => job[w].pc = "record", s # "record", Goto(w, s)
    PROVE  job' \in [Workers -> Job] /\ JobsFit'
           /\ PayersPosting' \subseteq PayersPosting
<1> DEFINE j == [job[w] EXCEPT !.pc = s]
<1>1. job[w] \in Job /\ JobFits(job[w]) BY DEF TypeOK, JobsFit
<1>2. j \in Job /\ j.pc = s /\ j.invoice = job[w].invoice /\ j.own = job[w].own
      /\ j.paid = job[w].paid /\ j.amount = job[w].amount
  BY <1>1 DEF Job
<1>3. job' = [job EXCEPT ![w] = j] BY DEF Goto
<1> HIDE DEF j
<1>4. JobFits(j) /\ j.pc # "post" BY <1>1, <1>2 DEF JobFits, Settling, Reversing
<1> QED BY <1>2, <1>3, <1>4, JobStep

LEMMA AmountsAdd ==
    /\ \A a, b \in Amounts : a + b <= Total => a + b \in Amounts
    /\ \A a \in Amounts : StatusAt(a) \in {"sent", "partially_paid", "paid"}
    /\ 0 \in Amounts
BY PaymentsAssumption DEF Amounts, StatusAt

LEMMA SetPaidStep ==
    ASSUME TypeOK, NEW i, NEW paid \in Amounts, SetPaid(i, paid)
    PROVE  invoice' \in [Invoices -> Invoice]
<1>1. [status |-> StatusAt(paid), paid |-> paid] \in Invoice
  BY AmountsAdd DEF Invoice
<1> QED BY <1>1 DEF SetPaid, TypeOK

(* A voucher changes its status.                                              *)
LEMMA StatusStep ==
    ASSUME TypeOK, PaymentsFit, NEW v, Posted(v), NEW s \in {"reversed", "cancelled"},
           voucher' = [voucher EXCEPT ![v].status = s]
    PROVE  voucher' \in [Vouchers -> Voucher] /\ PaymentsFit' /\ Spent' = Spent
<1>1. CASE v \notin Vouchers
  <2>1. voucher' = voucher BY <1>1 DEF TypeOK
  <2> QED BY <2>1 DEF TypeOK, PaymentsFit, Spent
<1>2. CASE v \in Vouchers
  <2> DEFINE row == [voucher[v] EXCEPT !.status = s]
  <2>1. row \in Voucher /\ row.status = s /\ row.kind = voucher[v].kind
        /\ row.invoice = voucher[v].invoice
    BY <1>2 DEF TypeOK, Voucher
  <2>2. voucher' = [voucher EXCEPT ![v] = row] OBVIOUS
  <2> HIDE DEF row
  <2>3. voucher' \in [Vouchers -> Voucher] /\ voucher'[v] = row
        /\ \A u \in Vouchers \ {v} : voucher'[u] = voucher[u]
    BY <1>2, <2>1, <2>2 DEF TypeOK
  <2> QED BY <1>2, <2>1, <2>3 DEF PaymentsFit, Spent, Posted
<1> QED BY <1>1, <1>2

(* A voucher is posted.                                                       *)
LEMMA PostStep ==
    ASSUME TypeOK, PaymentsFit, NextVoucher \in Vouchers,
           NEW kind \in {"invoice_paid", "year_end"}, NEW i \in Invoices \cup {None},
           NEW amount \in Amounts, kind = "invoice_paid" => i \in Invoices,
           PostEntry(kind, i, amount)
    PROVE  /\ voucher' \in [Vouchers -> Voucher] /\ PaymentsFit'
           /\ Spent' \subseteq Spent \cup {NextVoucher}
<1> DEFINE row == [status |-> "posted", kind |-> kind, invoice |-> i,
                   amount |-> amount]
<1>1. row \in Voucher /\ row.kind = kind /\ row.invoice = i BY DEF Voucher
<1>2. voucher' = [voucher EXCEPT ![NextVoucher] = row] BY DEF PostEntry
<1> HIDE DEF row
<1>3. voucher' \in [Vouchers -> Voucher] /\ voucher'[NextVoucher] = row
      /\ \A u \in Vouchers \ {NextVoucher} : voucher'[u] = voucher[u]
  BY <1>1, <1>2 DEF TypeOK
<1> QED BY <1>1, <1>3 DEF PaymentsFit, Spent

LEMMA RowTyped ==
    ASSUME TypeOK, NEW v \in Vouchers, NEW i \in Invoices, NEW amount \in Amounts,
           rows' = rows \cup {[voucher |-> v, invoice |-> i, amount |-> amount]}
    PROVE  rows' \in SUBSET Row
BY DEF TypeOK, Row

-----------------------------------------------------------------------------
(* Types. Fits is what a worker's step must keep; Keeps also leaves alone what*)
(* the account of vouchers counts.                                            *)

Fits == TypeOK /\ JobsFit /\ PaymentsFit

Keeps == Fits' /\ Spent' = Spent /\ PayersPosting' \subseteq PayersPosting

LEMMA UntouchedVouchers ==
    ASSUME Fits, voucher' = voucher
    PROVE  voucher' \in [Vouchers -> Voucher] /\ PaymentsFit' /\ Spent' = Spent
BY DEF Fits, TypeOK, PaymentsFit, Spent

LEMMA PostTyped ==
    ASSUME Typed, NEW w \in Workers, Post(w)
    PROVE  \/ Keeps
           \/ /\ w \in PayersPosting /\ Fits'
              /\ Spent' \subseteq Spent \cup {NextVoucher}
              /\ PayersPosting' \subseteq PayersPosting \ {w}
<1>1. Fits /\ TypeOK /\ JobsFit /\ PaymentsFit BY DEF Typed, Fits
<1>2. /\ job[w].pc = "post"
      /\ UNCHANGED <<period, requests, invoice, rows, stray, crossed>>
  BY DEF Post, At
<1>3. job[w] \in Job /\ JobFits(job[w]) BY <1>1 DEF TypeOK, JobsFit
<1>4. w \in PayersPosting /\ Spending # {} BY <1>2 DEF PayersPosting, Spending
<1>5. CASE Stop(w) /\ voucher' = voucher
  BY <1>1, <1>2, <1>5, StopStep, UntouchedVouchers DEF Keeps, Fits, TypeOK
<1>6. CASE /\ PostEntry("invoice_paid", job[w].invoice, job[w].amount)
           /\ job' = [job EXCEPT ![w].pc = "record", ![w].own = NextVoucher]
  <2> DEFINE j == [job[w] EXCEPT !.pc = "record", !.own = NextVoucher]
  <2>1. NextVoucher \in Vouchers BY <1>4, VoucherLeft
  <2>2. j \in Job /\ j.pc = "record" /\ j.own = NextVoucher
        /\ j.invoice = job[w].invoice /\ j.paid = job[w].paid
        /\ j.amount = job[w].amount
    BY <1>3, <2>1 DEF Job, Settling
  <2>3. job' = [job EXCEPT ![w] = j] BY <1>6
  <2>4. job[w].invoice \in Invoices /\ job[w].amount \in Amounts
    BY <1>2, <1>3 DEF JobFits, Job
  <2> HIDE DEF j
  <2>5. JobFits(j) BY <1>2, <1>3, <2>1, <2>2 DEF JobFits
  <2>6. job' \in [Workers -> Job] /\ JobsFit'
        /\ PayersPosting' \subseteq PayersPosting \ {w}
    BY <1>1, <2>2, <2>3, <2>5, JobStep
  <2>7. /\ voucher' \in [Vouchers -> Voucher] /\ PaymentsFit'
        /\ Spent' \subseteq Spent \cup {NextVoucher}
    BY <1>1, <1>6, <2>1, <2>4, PostStep
  <2> QED BY <1>1, <1>2, <1>4, <2>6, <2>7 DEF Fits, TypeOK
<1> QED BY <1>5, <1>6 DEF Post

LEMMA SettlingTyped ==
    ASSUME Fits, NEW w \in Workers
    PROVE  /\ Record(w) => Keeps
           /\ Flip(w) => Keeps
           /\ Remove(w) => Keeps
           /\ Cancel(w) => Keeps
<1>1. TypeOK /\ JobsFit /\ PaymentsFit BY DEF Fits
<1>2. job[w] \in Job /\ JobFits(job[w]) BY <1>1 DEF TypeOK, JobsFit
<1>3. {"record", "flip", "remove", "cancel"} \subseteq Settling
      /\ \A s \in Settling : s # "idle"
  BY DEF Settling
<1>4. ASSUME Record(w) PROVE Keeps
  <2>1. job[w].pc = "record"
        /\ UNCHANGED <<period, requests, invoice, voucher, stray, crossed>>
    BY <1>4 DEF Record, At
  <2>2. job' \in [Workers -> Job] /\ JobsFit' /\ PayersPosting' \subseteq PayersPosting
    <3>1. Goto(w, "flip") \/ Goto(w, "cancel") BY <1>4 DEF Record
    <3> QED BY <1>1, <1>3, <2>1, <3>1, GotoStep
  <2>3. job[w].own \in Vouchers /\ job[w].invoice \in Invoices
        /\ job[w].amount \in Amounts
    BY <1>2, <1>3, <2>1 DEF JobFits, Job
  <2>4. rows' \in SUBSET Row
    <3>1. CASE rows' = rows BY <1>1, <3>1 DEF TypeOK
    <3>2. CASE rows' = rows \cup {[voucher |-> job[w].own,
                                   invoice |-> job[w].invoice,
                                   amount |-> job[w].amount]}
      BY <1>1, <2>3, <3>2, RowTyped
    <3> QED BY <1>4, <3>1, <3>2 DEF Record
  <2> QED BY <1>1, <2>1, <2>2, <2>4, UntouchedVouchers DEF Keeps, Fits, TypeOK
<1>5. ASSUME Flip(w) PROVE Keeps
  <2>1. job[w].pc = "flip"
        /\ UNCHANGED <<period, requests, voucher, rows, stray>>
    BY <1>5 DEF Flip, At
  <2>2. job[w].invoice \in Invoices /\ job[w].paid + job[w].amount \in Amounts
    BY <1>2, <1>3, <2>1, AmountsAdd DEF JobFits, Job
  <2>3. job' \in [Workers -> Job] /\ JobsFit' /\ PayersPosting' \subseteq PayersPosting
    <3>1. Stop(w) \/ Goto(w, "remove") BY <1>5 DEF Flip
    <3> QED BY <1>1, <1>3, <2>1, <3>1, GotoStep, StopStep
  <2>4. invoice' \in [Invoices -> Invoice]
    <3>1. CASE SetPaid(job[w].invoice, job[w].paid + job[w].amount)
      BY <1>1, <2>2, <3>1, SetPaidStep
    <3>2. CASE invoice' = invoice BY <1>1, <3>2 DEF TypeOK
    <3> QED BY <1>5, <3>1, <3>2 DEF Flip
  <2>5. crossed' \in SUBSET Invoices BY <1>1, <1>5, <2>2 DEF Flip, TypeOK
  <2> QED BY <1>1, <2>1, <2>3, <2>4, <2>5, UntouchedVouchers
      DEF Keeps, Fits, TypeOK
<1>6. ASSUME Remove(w) PROVE Keeps
  <2>1. job[w].pc = "remove" /\ Goto(w, "cancel")
        /\ UNCHANGED <<period, requests, invoice, voucher, crossed>>
    BY <1>6 DEF Remove, At
  <2>2. job' \in [Workers -> Job] /\ JobsFit' /\ PayersPosting' \subseteq PayersPosting
    BY <1>1, <1>3, <2>1, GotoStep
  <2>3. OwnRows(job[w].own, job[w].invoice) \in SUBSET Row
    BY <1>1 DEF OwnRows, TypeOK
  <2>4. rows' \in SUBSET Row BY <1>1, <1>6 DEF Remove, TypeOK
  <2>5. stray' \in [rows : SUBSET Row, vouchers : SUBSET Vouchers]
    BY <1>1, <1>6, <2>3 DEF Remove, Strand, TypeOK
  <2> QED BY <1>1, <2>1, <2>2, <2>4, <2>5, UntouchedVouchers
      DEF Keeps, Fits, TypeOK
<1>7. ASSUME Cancel(w) PROVE Keeps
  <2>1. job[w].pc = "cancel" /\ Stop(w)
        /\ UNCHANGED <<period, requests, invoice, rows, crossed>>
    BY <1>7 DEF Cancel, At
  <2>2. job' \in [Workers -> Job] /\ JobsFit' /\ PayersPosting' \subseteq PayersPosting
    BY <1>1, <2>1, StopStep
  <2>3. job[w].own \in Vouchers BY <1>2, <1>3, <2>1 DEF JobFits
  <2>4. voucher' \in [Vouchers -> Voucher] /\ PaymentsFit' /\ Spent' = Spent
    BY <1>1, <1>7, StatusStep, UntouchedVouchers DEF Cancel, CancelAccepted
  <2>5. stray' \in [rows : SUBSET Row, vouchers : SUBSET Vouchers]
    BY <1>1, <1>7, <2>3 DEF Cancel, Strand, TypeOK
  <2> QED BY <1>1, <2>1, <2>2, <2>4, <2>5 DEF Keeps, Fits, TypeOK
<1> QED BY <1>4, <1>5, <1>6, <1>7

LEMMA ReversingTyped ==
    ASSUME Fits, NEW w \in Workers
    PROVE  /\ Lookup(w) => Keeps
           /\ Reread(w) => Keeps
           /\ Revert(w) => Keeps
           /\ Purge(w) => Keeps
<1>1. TypeOK /\ JobsFit /\ PaymentsFit BY DEF Fits
<1>2. job[w] \in Job /\ JobFits(job[w]) BY <1>1 DEF TypeOK, JobsFit
<1>3. {"lookup", "reread", "revert", "purge"} \subseteq Reversing
      /\ \A s \in Reversing : s \notin {"idle", "post", "record", "flip"}
  BY DEF Reversing
<1>4. ASSUME Lookup(w) PROVE Keeps
  <2> DEFINE own == OwnRows(job[w].own, job[w].invoice)
             amount == IF own = {} THEN 0 ELSE (CHOOSE r \in own : TRUE).amount
             j == [job[w] EXCEPT !.pc = "reread", !.found = (own # {}),
                                 !.amount = amount]
  <2>1. job[w].pc = "lookup" /\ job' = [job EXCEPT ![w] = j]
        /\ UNCHANGED <<period, requests, invoice, voucher, rows, stray, crossed>>
    BY <1>4 DEF Lookup, At, tables
  <2>2. amount \in Amounts
    <3>1. own \subseteq Row BY <1>1 DEF OwnRows, TypeOK
    <3> HIDE DEF own
    <3>2. own # {} => (CHOOSE r \in own : TRUE) \in own OBVIOUS
    <3> QED BY <3>1, <3>2, AmountsAdd DEF Row
  <2> HIDE DEF amount, own
  <2>3. j \in Job /\ j.pc = "reread" /\ j.own = job[w].own
        /\ j.invoice = job[w].invoice
    BY <1>2, <2>2 DEF Job, Reversing
  <2> HIDE DEF j
  <2>4. JobFits(j) BY <1>2, <1>3, <2>1, <2>3 DEF JobFits
  <2>5. job' \in [Workers -> Job] /\ JobsFit' /\ PayersPosting' \subseteq PayersPosting
    BY <1>1, <2>1, <2>3, <2>4, JobStep
  <2> QED BY <1>1, <2>1, <2>5, UntouchedVouchers DEF Keeps, Fits, TypeOK
<1>5. ASSUME Reread(w) PROVE Keeps
  <2> DEFINE paid == invoice[job[w].invoice].paid
             j == [job[w] EXCEPT !.pc = "revert", !.paid = paid]
  <2>1. job[w].pc = "reread" /\ job' = [job EXCEPT ![w] = j]
        /\ UNCHANGED <<period, requests, invoice, voucher, rows, stray, crossed>>
    BY <1>5 DEF Reread, At, tables
  <2>2. paid \in Amounts
    BY <1>1, <1>2, <1>3, <2>1 DEF JobFits, TypeOK, Invoice
  <2> HIDE DEF paid
  <2>3. j \in Job /\ j.pc = "revert" /\ j.own = job[w].own
        /\ j.invoice = job[w].invoice
    BY <1>2, <2>2 DEF Job, Reversing
  <2> HIDE DEF j
  <2>4. JobFits(j) BY <1>2, <1>3, <2>1, <2>3 DEF JobFits
  <2>5. job' \in [Workers -> Job] /\ JobsFit' /\ PayersPosting' \subseteq PayersPosting
    BY <1>1, <2>1, <2>3, <2>4, JobStep
  <2> QED BY <1>1, <2>1, <2>5, UntouchedVouchers DEF Keeps, Fits, TypeOK
<1>6. ASSUME Revert(w) PROVE Keeps
  <2>1. job[w].pc = "revert" /\ Goto(w, "purge")
        /\ UNCHANGED <<period, requests, voucher, rows, stray>>
    BY <1>6 DEF Revert, At
  <2>2. job' \in [Workers -> Job] /\ JobsFit' /\ PayersPosting' \subseteq PayersPosting
    BY <1>1, <1>3, <2>1, GotoStep
  <2>3. job[w].invoice \in Invoices BY <1>2, <1>3, <2>1 DEF JobFits
  <2>4. Reverted(w) \in Amounts
    BY <1>2, PaymentsAssumption DEF Reverted, Job, Amounts
  <2>5. invoice' \in [Invoices -> Invoice]
    <3>1. CASE SetPaid(job[w].invoice, Reverted(w)) BY <1>1, <2>4, <3>1, SetPaidStep
    <3>2. CASE invoice' = invoice BY <1>1, <3>2 DEF TypeOK
    <3> QED BY <1>6, <3>1, <3>2 DEF Revert
  <2>6. crossed' \in SUBSET Invoices BY <1>1, <1>6, <2>3 DEF Revert, TypeOK
  <2> QED BY <1>1, <2>1, <2>2, <2>5, <2>6, UntouchedVouchers
      DEF Keeps, Fits, TypeOK
<1>7. ASSUME Purge(w) PROVE Keeps
  <2>1. Stop(w) /\ rows' \subseteq rows
        /\ UNCHANGED <<period, requests, invoice, voucher, stray, crossed>>
    BY <1>7 DEF Purge, At
  <2>2. job' \in [Workers -> Job] /\ JobsFit' /\ PayersPosting' \subseteq PayersPosting
    BY <1>1, <2>1, StopStep
  <2> QED BY <1>1, <2>1, <2>2, UntouchedVouchers DEF Keeps, Fits, TypeOK
<1> QED BY <1>4, <1>5, <1>6, <1>7

LEMMA RequestsTyped ==
    ASSUME Fits, NEW w \in Workers
    PROVE  /\ \A i \in Invoices : \A amount \in 1..Total : Settle(w, i, amount) =>
                 /\ Fits' /\ Spent' = Spent /\ requests' = requests + 1
                 /\ PayersPosting' \subseteq PayersPosting \cup {w}
           /\ \A v \in Vouchers : Reverse(w, v) =>
                 /\ Fits' /\ Spent' = Spent /\ requests' = requests + 1
                 /\ PayersPosting' \subseteq PayersPosting
<1>1. TypeOK /\ JobsFit /\ PaymentsFit BY DEF Fits
<1>2. Request => requests' \in 0..MaxRequests /\ requests' = requests + 1
  BY <1>1, PaymentsAssumption DEF Request, TypeOK
<1>3. ASSUME NEW i \in Invoices, NEW amount \in 1..Total, Settle(w, i, amount)
      PROVE  /\ Fits' /\ Spent' = Spent /\ requests' = requests + 1
             /\ PayersPosting' \subseteq PayersPosting \cup {w}
  <2> DEFINE j == [Idle EXCEPT !.pc = "post", !.invoice = i, !.amount = amount,
                               !.paid = invoice[i].paid]
  <2>1. /\ job' = [job EXCEPT ![w] = j] /\ amount <= Total - invoice[i].paid
        /\ Request
        /\ UNCHANGED <<period, invoice, voucher, rows, stray, crossed>>
    BY <1>3 DEF Settle, Remaining, tables
  <2>2. invoice[i].paid \in Amounts /\ amount \in Amounts
    BY <1>1, PaymentsAssumption DEF TypeOK, Invoice, Amounts
  <2>3. j \in Job /\ j.pc = "post" /\ j.invoice = i /\ j.paid = invoice[i].paid
        /\ j.amount = amount
    BY <2>2 DEF Job, Idle, NoVoucher
  <2>4. invoice[i].paid + amount <= Total
    BY <2>1, <2>2, PaymentsAssumption DEF Amounts
  <2> HIDE DEF j
  <2>5. JobFits(j) BY <2>3, <2>4 DEF JobFits, Settling, Reversing
  <2>6. job' \in [Workers -> Job] /\ JobsFit'
        /\ PayersPosting' \subseteq PayersPosting \cup {w}
    BY <1>1, <2>1, <2>3, <2>5, JobStep
  <2> QED BY <1>1, <1>2, <2>1, <2>6, UntouchedVouchers DEF Fits, TypeOK
<1>4. ASSUME NEW v \in Vouchers, Reverse(w, v)
      PROVE  /\ Fits' /\ Spent' = Spent /\ requests' = requests + 1
             /\ PayersPosting' \subseteq PayersPosting
  <2> DEFINE j == [Idle EXCEPT !.pc = "lookup", !.own = v,
                               !.invoice = voucher[v].invoice]
  <2>1. /\ Request /\ Posted(v) /\ UNCHANGED <<period, invoice, rows, stray>>
        /\ voucher' = [voucher EXCEPT ![v].status = "reversed"]
    BY <1>4 DEF Reverse
  <2>2. voucher' \in [Vouchers -> Voucher] /\ PaymentsFit' /\ Spent' = Spent
    BY <1>1, <2>1, StatusStep
  <2>3. crossed' \in SUBSET Invoices
    <3>1. {r.invoice : r \in RowsOf(v)} \subseteq Invoices
      BY <1>1 DEF RowsOf, TypeOK, Row
    <3>2. voucher[v].invoice \in Invoices \cup {None} BY <1>1 DEF TypeOK, Voucher
    <3> QED BY <1>1, <1>4, <3>1, <3>2 DEF Reverse, TypeOK
  <2>4. job' \in [Workers -> Job] /\ JobsFit' /\ PayersPosting' \subseteq PayersPosting
    <3>1. CASE job' = job
      BY <1>1, <3>1 DEF TypeOK, JobsFit, JobFits, PayersPosting
    <3>2. CASE voucher[v].kind = "invoice_paid" /\ job' = [job EXCEPT ![w] = j]
      <4>1. voucher[v].invoice \in Invoices BY <1>1, <3>2 DEF PaymentsFit
      <4>2. j \in Job /\ j.pc = "lookup" /\ j.own = v
            /\ j.invoice = voucher[v].invoice
        <5>1. \A i \in Invoices :
                 [Idle EXCEPT !.pc = "lookup", !.own = v, !.invoice = i] \in Job
          BY AmountsAdd DEF Job, Idle, Reversing
        <5> QED BY <4>1, <5>1 DEF Idle
      <4> HIDE DEF j
      <4>3. JobFits(j) BY <4>1, <4>2 DEF JobFits
      <4> QED BY <1>1, <3>2, <4>2, <4>3, JobStep
    <3> QED BY <1>4, <3>1, <3>2 DEF Reverse
  <2> QED BY <1>1, <1>2, <2>1, <2>2, <2>3, <2>4 DEF Fits, TypeOK
<1> QED BY <1>3, <1>4

LEMMA LinkTyped ==
    ASSUME Fits, NEW i \in Invoices, NEW v \in Vouchers, Link(i, v)
    PROVE  /\ Fits' /\ Spent' = Spent /\ requests' = requests + 1
           /\ PayersPosting' \subseteq PayersPosting
<1>1. TypeOK /\ JobsFit /\ PaymentsFit BY DEF Fits
<1>2. /\ Request /\ voucher[v].amount <= Total - invoice[i].paid
      /\ UNCHANGED <<period, voucher, job, stray>>
  BY DEF Link, Linkable, Remaining
<1>3. requests' \in 0..MaxRequests /\ requests' = requests + 1
  BY <1>1, <1>2, PaymentsAssumption DEF Request, TypeOK
<1>4. voucher[v].amount \in Amounts /\ invoice[i].paid \in Amounts
      /\ voucher[v].invoice \in Invoices \cup {None}
  BY <1>1 DEF TypeOK, Voucher, Invoice
<1>5. invoice[i].paid + voucher[v].amount \in Amounts
  BY <1>2, <1>4, PaymentsAssumption DEF Amounts
<1>6. invoice' \in [Invoices -> Invoice] BY <1>1, <1>5, SetPaidStep DEF Link
<1>7. rows' \in SUBSET Row BY <1>1, <1>4, RowTyped DEF Link
<1>8. crossed' \in SUBSET Invoices BY <1>1, <1>4 DEF Link, TypeOK
<1>9. JobsFit' /\ PayersPosting' = PayersPosting
  BY <1>1, <1>2 DEF JobsFit, JobFits, PayersPosting
<1> QED BY <1>1, <1>2, <1>3, <1>6, <1>7, <1>8, <1>9, UntouchedVouchers
    DEF Fits, TypeOK

-----------------------------------------------------------------------------
(* A step of a clerk leaves the payments alone.                               *)

LEMMA ClerkStep ==
    ASSUME ClerksFit, NEW c \in Clerks, NEW k \in Clerk,
           k.pc \in {"check", "link"} => k.entry \in Vouchers,
           clerk' = [clerk EXCEPT ![c] = k]
    PROVE  /\ ClerksFit'
           /\ ClerksPosting' \subseteq ClerksPosting \cup {c}
           /\ k.pc # "entry" => ClerksPosting' \subseteq ClerksPosting \ {c}
<1>1. clerk' \in [Clerks -> Clerk] /\ clerk'[c] = k
      /\ \A q \in Clerks \ {c} : clerk'[q] = clerk[q]
  BY DEF ClerksFit
<1>2. ClerksFit' BY <1>1 DEF ClerksFit
<1> QED BY <1>1, <1>2 DEF ClerksPosting

LEMMA ClerkMoves ==
    ASSUME ClerksFit, NEW c \in Clerks
    PROVE  /\ Done(c) => ClerksFit' /\ ClerksPosting' \subseteq ClerksPosting
           /\ \A s \in {"lock", "unlock", "close", "external", "reopen", "link",
                        "tolock", "toclose"} :
                 StepTo(c, s) /\ (s = "link" => clerk[c].pc = "check") =>
                    ClerksFit' /\ ClerksPosting' \subseteq ClerksPosting
           /\ StepTo(c, "entry") =>
                 ClerksFit' /\ ClerksPosting' \subseteq ClerksPosting \cup {c}
<1>1. clerk[c] \in Clerk BY DEF ClerksFit
<1>2. ASSUME Done(c) PROVE ClerksFit' /\ ClerksPosting' \subseteq ClerksPosting
  <2>1. Free \in Clerk /\ Free.pc = "idle" BY DEF Free, Clerk, NoVoucher
  <2> QED BY <1>2, <2>1, ClerkStep DEF Done
<1>3. ASSUME NEW s, StepTo(c, s),
             s \in {"lock", "unlock", "close", "external", "reopen", "entry",
                    "link", "tolock", "toclose"},
             s = "link" => clerk[c].pc = "check"
      PROVE  /\ ClerksFit' /\ ClerksPosting' \subseteq ClerksPosting \cup {c}
             /\ s # "entry" => ClerksPosting' \subseteq ClerksPosting
  <2> DEFINE k == [clerk[c] EXCEPT !.pc = s]
  <2>1. k \in Clerk /\ k.pc = s /\ k.entry = clerk[c].entry BY <1>1, <1>3 DEF Clerk
  <2>2. clerk' = [clerk EXCEPT ![c] = k] BY <1>3 DEF StepTo
  <2>3. k.pc \in {"check", "link"} => k.entry \in Vouchers
    BY <1>3, <2>1 DEF ClerksFit
  <2> HIDE DEF k
  <2> QED BY <2>1, <2>2, <2>3, ClerkStep
<1> QED BY <1>2, <1>3

LEMMA PaymentsUntouched ==
    ASSUME Fits, UNCHANGED <<invoice, rows, job, stray, crossed>>, period' \in Period,
           voucher' \in [Vouchers -> Voucher], PaymentsFit',
           requests' \in 0..MaxRequests
    PROVE  Fits' /\ PayersPosting' = PayersPosting
BY DEF Fits, TypeOK, JobsFit, JobFits, PayersPosting

LEMMA FlagsTyped ==
    ASSUME period \in Period
    PROVE  /\ \A b \in BOOLEAN : /\ [period EXCEPT !.locked = b] \in Period
                                 /\ [period EXCEPT !.closed = b] \in Period
           /\ \A b \in BOOLEAN :
                 [period EXCEPT !.closed = b, !.external = b, !.locked = b] \in Period
           /\ \A v \in Vouchers : [period EXCEPT !.closing = v] \in Period
BY DEF Period

LEMMA ControlTyped ==
    ASSUME Typed, NEW c \in Clerks, Control(c)
    PROVE  /\ Fits' /\ ClerksFit' /\ PayersPosting' = PayersPosting
           /\ \/ /\ Spent' = Spent /\ requests' = requests
                 /\ ClerksPosting' \subseteq ClerksPosting
              \/ /\ Spent' = Spent /\ requests' = requests + 1
                 /\ ClerksPosting' \subseteq ClerksPosting \cup {c}
              \/ /\ c \in ClerksPosting /\ requests' = requests
                 /\ Spent' \subseteq Spent \cup {NextVoucher}
                 /\ ClerksPosting' \subseteq ClerksPosting \ {c}
<1> DEFINE Goal ==
       /\ Fits' /\ ClerksFit' /\ PayersPosting' = PayersPosting
       /\ \/ /\ Spent' = Spent /\ requests' = requests
             /\ ClerksPosting' \subseteq ClerksPosting
          \/ /\ Spent' = Spent /\ requests' = requests + 1
             /\ ClerksPosting' \subseteq ClerksPosting \cup {c}
          \/ /\ c \in ClerksPosting /\ requests' = requests
             /\ Spent' \subseteq Spent \cup {NextVoucher}
             /\ ClerksPosting' \subseteq ClerksPosting \ {c}
<1>1. Fits /\ TypeOK /\ ClerksFit /\ PaymentsFit /\ period \in Period
      /\ requests \in 0..MaxRequests
  BY DEF Typed, Fits, TypeOK
<1>2. ASSUME NEW accepted, NEW to, Start(c, accepted, to),
             to \in {"lock", "unlock", "close", "external", "reopen", "entry"}
      PROVE  Goal
  <2>1. /\ UNCHANGED <<invoice, rows, job, stray, crossed, period, voucher>>
        /\ Request /\ StepTo(c, to)
    BY <1>2 DEF Start, Holds
  <2>2. requests' \in 0..MaxRequests /\ requests' = requests + 1
    BY <1>1, <2>1, PaymentsAssumption DEF Request
  <2>3. voucher' \in [Vouchers -> Voucher] /\ PaymentsFit' /\ Spent' = Spent
    BY <1>1, <2>1, UntouchedVouchers
  <2>4. Fits' /\ PayersPosting' = PayersPosting
    BY <1>1, <2>1, <2>2, <2>3, PaymentsUntouched
  <2>5. ClerksFit' /\ ClerksPosting' \subseteq ClerksPosting \cup {c}
    BY <1>1, <1>2, <2>1, ClerkMoves
  <2> QED BY <2>2, <2>3, <2>4, <2>5
<1>3. ASSUME UNCHANGED <<invoice, rows, job, stray, crossed, requests>>,
             period' \in Period, ClerksFit', ClerksPosting' \subseteq ClerksPosting,
             voucher' \in [Vouchers -> Voucher], PaymentsFit', Spent' = Spent
      PROVE  Goal
  BY <1>1, <1>3, PaymentsUntouched
<1>4. ASSUME NEW step, On(c, step), period' \in Period, voucher' = voucher,
             ClerksFit', ClerksPosting' \subseteq ClerksPosting
      PROVE  Goal
  BY <1>1, <1>3, <1>4, UntouchedVouchers DEF On, Holds
<1>5. ASSUME NEW step, Refused(c, step) PROVE Goal
  BY <1>1, <1>4, <1>5, ClerkMoves DEF Refused
<1>6. ASSUME NEW step, NEW flags \in Period, Write(c, step, flags, Done(c)) PROVE Goal
  BY <1>1, <1>4, <1>6, ClerkMoves DEF Write
<1>7. ASSUME NEW from, NEW accepted, NEW to \in {"lock", "close"},
             Decide(c, from, accepted, to)
      PROVE  Goal
  BY <1>1, <1>4, <1>7, ClerkMoves DEF Decide
<1> HIDE DEF Goal
<1>8. StartLock(c) \/ StartUnlock(c) \/ StartClose(c) \/ StartExternal(c)
      \/ StartReopen(c) \/ StartYearEnd(c) => Goal
  BY <1>2 DEF StartLock, StartUnlock, StartClose, StartExternal, StartReopen,
              StartYearEnd
<1>9. ASSUME WriteLock(c) PROVE Goal
  <2>1. On(c, "lock") /\ voucher' = voucher
        /\ period' = [period EXCEPT !.locked = TRUE]
        /\ (Done(c) \/ StepTo(c, "toclose"))
    BY <1>9 DEF WriteLock, Write
  <2>2. ClerksFit' /\ ClerksPosting' \subseteq ClerksPosting
    BY <1>1, <2>1, ClerkMoves
  <2> QED BY <1>1, <1>4, <2>1, <2>2, FlagsTyped
<1>10. ASSUME WriteUnlock(c) PROVE Goal
  BY <1>1, <1>6, <1>10, FlagsTyped DEF WriteUnlock
<1>11. ASSUME WriteClose(c) PROVE Goal
  BY <1>1, <1>6, <1>11, FlagsTyped DEF WriteClose
<1>12. ASSUME WriteExternal(c) PROVE Goal
  BY <1>1, <1>5, <1>6, <1>12, FlagsTyped DEF WriteExternal
<1>13. ASSUME WriteReopen(c) PROVE Goal
  BY <1>1, <1>5, <1>6, <1>13, FlagsTyped DEF WriteReopen
<1>14. ASSUME PostClosing(c) PROVE Goal
  <2>1. On(c, "entry") /\ period' = period BY <1>14 DEF PostClosing
  <2>2. CASE Done(c) /\ voucher' = voucher
    BY <1>1, <1>4, <2>1, <2>2, ClerkMoves
  <2>3. CASE /\ PostEntry("year_end", None, 0)
             /\ clerk' = [clerk EXCEPT ![c] = [pc |-> "check", entry |-> NextVoucher]]
    <3>1. c \in ClerksPosting /\ Spending # {}
      BY <2>1 DEF On, Holds, ClerksPosting, Spending
    <3>2. NextVoucher \in Vouchers BY <3>1, VoucherLeft
    <3>3. /\ voucher' \in [Vouchers -> Voucher] /\ PaymentsFit'
          /\ Spent' \subseteq Spent \cup {NextVoucher}
      BY <1>1, <2>3, <3>2, PostStep, AmountsAdd
    <3>4. [pc |-> "check", entry |-> NextVoucher] \in Clerk BY <3>2 DEF Clerk
    <3>5. ClerksFit' /\ ClerksPosting' \subseteq ClerksPosting \ {c}
      <4> DEFINE k == [pc |-> "check", entry |-> NextVoucher]
      <4>1. k \in Clerk /\ k.pc = "check" /\ k.entry \in Vouchers BY <3>2, <3>4
      <4>2. clerk' = [clerk EXCEPT ![c] = k] BY <2>3
      <4> HIDE DEF k
      <4> QED BY <1>1, <4>1, <4>2, ClerkStep
    <3>6. Fits' /\ PayersPosting' = PayersPosting /\ requests' = requests
      BY <1>1, <2>1, <3>3, PaymentsUntouched DEF On, Holds
    <3> QED BY <3>1, <3>3, <3>5, <3>6 DEF Goal
  <2> QED BY <1>14, <2>2, <2>3 DEF PostClosing
<1>15. ASSUME Check(c) PROVE Goal
  <2>1. On(c, "check") /\ period' = period BY <1>15 DEF Check
  <2>2. CASE StepTo(c, "link") /\ voucher' = voucher
    <3>1. clerk[c].pc = "check" BY <2>1 DEF On, Holds
    <3>2. ClerksFit' /\ ClerksPosting' \subseteq ClerksPosting
      BY <1>1, <2>2, <3>1, ClerkMoves
    <3> QED BY <1>1, <1>4, <2>1, <2>2, <3>2
  <2>3. CASE /\ Done(c)
             /\ \/ voucher' = voucher
                \/ /\ Posted(clerk[c].entry)
                   /\ voucher' = [voucher EXCEPT ![clerk[c].entry].status = "reversed"]
    <3>1. voucher' \in [Vouchers -> Voucher] /\ PaymentsFit' /\ Spent' = Spent
      BY <1>1, <2>3, StatusStep, UntouchedVouchers
    <3>2. ClerksFit' /\ ClerksPosting' \subseteq ClerksPosting
      BY <1>1, <2>3, ClerkMoves
    <3> QED BY <1>1, <1>3, <2>1, <3>1, <3>2 DEF On, Holds
  <2> QED BY <1>15, <2>2, <2>3 DEF Check
<1>16. ASSUME LinkClosing(c) PROVE Goal
  <2>1. CASE Refused(c, "link") BY <1>5, <2>1
  <2>2. CASE Write(c, "link", [period EXCEPT !.closing = clerk[c].entry],
                   StepTo(c, "tolock"))
    <3>1. clerk[c].entry \in Vouchers
      BY <1>1, <2>2 DEF Write, On, Holds, ClerksFit
    <3>2. period' \in Period BY <1>1, <2>2, <3>1, FlagsTyped DEF Write
    <3>3. ClerksFit' /\ ClerksPosting' \subseteq ClerksPosting
      BY <1>1, <2>2, ClerkMoves DEF Write
    <3> QED BY <1>4, <2>2, <3>2, <3>3 DEF Write
  <2> QED BY <1>16, <2>1, <2>2 DEF LinkClosing
<1>17. GoOnToLock(c) \/ GoOnToClose(c) => Goal
  BY <1>5, <1>7 DEF GoOnToLock, GoOnToClose
<1>18. Goal
  BY <1>8, <1>9, <1>10, <1>11, <1>12, <1>13, <1>14, <1>15, <1>16, <1>17 DEF Control
<1> QED BY <1>18 DEF Goal

LEMMA TypedInit == ControlInit => Typed
<1> SUFFICES ASSUME ControlInit PROVE Typed OBVIOUS
<1>1. PICK credit \in 1..Total :
         voucher = [v \in Vouchers |->
            IF v <= Imported
            THEN [status |-> "posted", kind |-> "import",
                  invoice |-> None, amount |-> credit]
            ELSE NoEntry]
  BY DEF ControlInit, Init
<1>2. credit \in Amounts /\ 0 \in Amounts
  BY PaymentsAssumption DEF Amounts
<1>3. voucher \in [Vouchers -> Voucher] /\ PaymentsFit
  BY <1>1, <1>2 DEF Voucher, NoEntry, PaymentsFit
<1>4. [status |-> "sent", paid |-> 0] \in Invoice BY <1>2 DEF Invoice
<1>5. period \in Period BY DEF ControlInit, Init, Period
<1>6. /\ rows = {} /\ job = [w \in Workers |-> Idle] /\ crossed = {}
      /\ stray = [rows |-> {}, vouchers |-> {}] /\ requests = 0
      /\ invoice = [i \in Invoices |-> [status |-> "sent", paid |-> 0]]
      /\ clerk = [c \in Clerks |-> Free]
  BY DEF ControlInit, Init
<1>7. TypeOK BY <1>3, <1>4, <1>5, <1>6, IdleFits, PaymentsAssumption DEF TypeOK
<1>8. JobsFit BY <1>6, IdleFits DEF JobsFit
<1>9. ClerksFit /\ Spending = {}
  BY <1>6, IdleFits
     DEF ClerksFit, Clerk, Free, NoVoucher, Spending, PayersPosting, ClerksPosting
<1>10. Spent \subseteq 1..Imported
  BY <1>1, PaymentsAssumption DEF Spent, NoEntry, Vouchers
<1>11. IsFiniteSet(1..Imported) /\ Cardinality(1..Imported) = Imported
  <2>1. Imported \in Int /\ 1 \in Int /\ Imported \in Nat BY PaymentsAssumption
  <2>2. IsFiniteSet(1..Imported)
        /\ Cardinality(1..Imported) = IF 1 > Imported THEN 0 ELSE Imported - 1 + 1
    BY <2>1, FS_Interval
  <2> QED BY <2>1, <2>2
<1>12. Cardinality(Spent) <= Imported
  <2>1. Spent \in SUBSET (1..Imported) BY <1>10
  <2>2. Cardinality(Spent) <= Cardinality(1..Imported) BY <1>11, <2>1, FS_Subset
  <2> QED BY <1>11, <2>2
<1>13. Room
  <2>1. IsFiniteSet(Spending) /\ Cardinality(Spending) = 0 BY <1>9, FS_EmptySet
  <2> QED BY <1>6, <1>12, <2>1, VouchersFinite, PaymentsAssumption DEF Room
<1> QED BY <1>3, <1>7, <1>8, <1>9, <1>13 DEF Typed

(* What happens to the two kinds of posters happens to the account.           *)
LEMMA SpendingStep ==
    /\ PayersPosting' \subseteq PayersPosting /\ ClerksPosting' \subseteq ClerksPosting
         => Spending' \subseteq Spending
    /\ \A w : PayersPosting' \subseteq PayersPosting \cup {w}
              /\ ClerksPosting' \subseteq ClerksPosting
         => Spending' \subseteq Spending \cup {<<"payment", w>>}
    /\ \A c : PayersPosting' \subseteq PayersPosting
              /\ ClerksPosting' \subseteq ClerksPosting \cup {c}
         => Spending' \subseteq Spending \cup {<<"closing", c>>}
    /\ \A w : PayersPosting' \subseteq PayersPosting \ {w}
              /\ ClerksPosting' \subseteq ClerksPosting
         => Spending' \subseteq Spending \ {<<"payment", w>>}
    /\ \A c : PayersPosting' \subseteq PayersPosting
              /\ ClerksPosting' \subseteq ClerksPosting \ {c}
         => Spending' \subseteq Spending \ {<<"closing", c>>}
<1>1. \A x, y : <<"payment", x>> # <<"closing", y>> OBVIOUS
<1> QED BY <1>1 DEF Spending

LEMMA TypedStep == Typed /\ [ControlNext]_vars => Typed'
<1> SUFFICES ASSUME Typed, [ControlNext]_vars PROVE Typed' OBVIOUS
<1>1. Fits /\ ClerksFit /\ Room /\ requests \in Nat
  BY PaymentsAssumption DEF Typed, Fits, TypeOK
<1>2. clerk' = clerk => ClerksFit' /\ ClerksPosting' \subseteq ClerksPosting
  BY <1>1 DEF ClerksFit, ClerksPosting
<1>3. ASSUME clerk' = clerk, Fits', Spent' = Spent,
             PayersPosting' \subseteq PayersPosting, requests' = requests
      PROVE  Typed'
  <2>1. Spending' \subseteq Spending BY <1>2, <1>3, SpendingStep
  <2>2. Room' BY <1>1, <1>3, <2>1, RoomStep
  <2> QED BY <1>2, <1>3, <2>2 DEF Fits, Typed
<1>4. ASSUME clerk' = clerk, Fits', Spent' = Spent, requests' = requests + 1,
             NEW w \in Workers, PayersPosting' \subseteq PayersPosting \cup {w}
      PROVE  Typed'
  <2>1. Spending' \subseteq Spending \cup {<<"payment", w>>}
    BY <1>2, <1>4, SpendingStep
  <2>2. Room' BY <1>1, <1>4, <2>1, RoomStep
  <2> QED BY <1>2, <1>4, <2>2 DEF Fits, Typed
<1>5. CASE UNCHANGED vars
  BY <1>5 DEF vars, payVars, Typed, TypeOK, JobsFit, JobFits, PaymentsFit,
              ClerksFit, Room, Spent, Spending, PayersPosting, ClerksPosting
<1>6. ASSUME NEW w \in Workers, Advance(w), clerk' = clerk PROVE Typed'
  <2>1. requests' = requests
    BY <1>6 DEF Advance, Post, Record, Flip, Remove, Cancel, Lookup, Reread,
                Revert, Purge, At
  <2>2. CASE Keeps BY <1>3, <1>6, <2>1, <2>2 DEF Keeps
  <2>3. CASE /\ w \in PayersPosting /\ Fits'
             /\ Spent' \subseteq Spent \cup {NextVoucher}
             /\ PayersPosting' \subseteq PayersPosting \ {w}
    <3>1. Spending' \subseteq Spending \ {<<"payment", w>>}
      BY <1>2, <1>6, <2>3, SpendingStep
    <3>2. <<"payment", w>> \in Spending BY <2>3 DEF Spending
    <3>3. Room' BY <1>1, <2>1, <2>3, <3>1, <3>2, RoomStep
    <3> QED BY <1>2, <1>6, <2>3, <3>3 DEF Fits, Typed
  <2> QED BY <1>1, <1>6, <2>2, <2>3, PostTyped, SettlingTyped, ReversingTyped
      DEF Advance
<1>7. ASSUME NEW w \in Workers, NEW i \in Invoices, NEW amount \in 1..Total,
             Settle(w, i, amount), clerk' = clerk
      PROVE  Typed'
  BY <1>1, <1>4, <1>7, RequestsTyped
<1>8. ASSUME NEW w \in Workers, NEW v \in Vouchers, Reverse(w, v), clerk' = clerk
      PROVE  Typed'
  <2>1. PayersPosting' \subseteq PayersPosting \cup {w} /\ Fits' /\ Spent' = Spent
        /\ requests' = requests + 1
    BY <1>1, <1>8, RequestsTyped
  <2> QED BY <1>4, <1>8, <2>1
<1>9. ASSUME NEW i \in Invoices, NEW v \in Vouchers, Link(i, v), clerk' = clerk
      PROVE  Typed'
  <2>1. /\ Fits' /\ Spent' = Spent /\ requests' = requests + 1
        /\ PayersPosting' \subseteq PayersPosting
    BY <1>1, <1>9, LinkTyped
  <2>2. Spending' \subseteq Spending \cup {i} BY <1>2, <1>9, <2>1, SpendingStep
  <2>3. Room' BY <1>1, <2>1, <2>2, RoomStep
  <2> QED BY <1>2, <1>9, <2>1, <2>3 DEF Fits, Typed
<1>10. ASSUME NEW c \in Clerks, Control(c) PROVE Typed'
  <2>1. Fits' /\ ClerksFit' /\ PayersPosting' \subseteq PayersPosting
    BY <1>10, ControlTyped
  <2>2. CASE /\ Spent' = Spent /\ requests' = requests
             /\ ClerksPosting' \subseteq ClerksPosting
    <3>1. Spending' \subseteq Spending BY <2>1, <2>2, SpendingStep
    <3>2. Room' BY <1>1, <2>2, <3>1, RoomStep
    <3> QED BY <2>1, <3>2 DEF Fits, Typed
  <2>3. CASE /\ Spent' = Spent /\ requests' = requests + 1
             /\ ClerksPosting' \subseteq ClerksPosting \cup {c}
    <3>1. Spending' \subseteq Spending \cup {<<"closing", c>>}
      BY <2>1, <2>3, SpendingStep
    <3>2. Room' BY <1>1, <2>3, <3>1, RoomStep
    <3> QED BY <2>1, <3>2 DEF Fits, Typed
  <2>4. CASE /\ c \in ClerksPosting /\ requests' = requests
             /\ Spent' \subseteq Spent \cup {NextVoucher}
             /\ ClerksPosting' \subseteq ClerksPosting \ {c}
    <3>1. Spending' \subseteq Spending \ {<<"closing", c>>}
      BY <2>1, <2>4, SpendingStep
    <3>2. <<"closing", c>> \in Spending BY <2>4 DEF Spending
    <3>3. Room' BY <1>1, <2>4, <3>1, <3>2, RoomStep
    <3> QED BY <2>1, <3>3 DEF Fits, Typed
  <2> QED BY <1>10, <2>2, <2>3, <2>4, ControlTyped
<1> QED BY <1>5, <1>6, <1>7, <1>8, <1>9, <1>10 DEF ControlNext, PaymentNext

LEMMA TypedAlways == ControlSpec => []Typed
BY TypedInit, TypedStep, PTL DEF ControlSpec

(* Invoices, payment rows, vouchers, the period and all local variables keep  *)
(* their types: in particular paid_amount stays between nothing and the whole *)
(* invoice, whatever race or reversal wrote it.                               *)
THEOREM BooksTyped == ControlSpec => []TypeOK
<1>1. Typed => TypeOK BY DEF Typed
<1> QED BY <1>1, TypedAlways, PTL

-----------------------------------------------------------------------------
(* Closing.                                                                   *)

(* closePeriod writes after it has seen a closing voucher, and no statement   *)
(* takes that pointer away again.                                             *)
Linked == period.closed => period.closing # NoVoucher \/ period.external

ClosesForCause ==
    /\ Linked
    /\ \A c \in Clerks : clerk[c].pc = "close" => period.closing # NoVoucher

LEMMA CauseInit == ControlInit => ClosesForCause
BY DEF ControlInit, Init, ClosesForCause, Linked, Free

LEMMA CauseStep ==
    ASSUME Typed, [ControlNext]_vars, ClosesForCause
    PROVE  /\ ClosesForCause'
           /\ period.closed /\ period.closing # NoVoucher =>
                 /\ period'.closed
                 /\ period'.external = period.external
                 /\ period'.closing # NoVoucher
<1> DEFINE Goal ==
       /\ ClosesForCause'
       /\ period.closed /\ period.closing # NoVoucher =>
             /\ period'.closed
             /\ period'.external = period.external
             /\ period'.closing # NoVoucher
<1>1. period \in Period /\ ClerksFit BY DEF Typed, TypeOK
<1>2. ASSUME period' = period,
             \A c \in Clerks : clerk'[c].pc = "close" =>
                 clerk[c].pc = "close" \/ period.closing # NoVoucher
      PROVE  Goal
  BY <1>2 DEF ClosesForCause, Linked
<1>3. ASSUME clerk' = clerk, period' = period PROVE Goal
  BY <1>2, <1>3
<1>4. CASE UNCHANGED vars BY <1>3, <1>4 DEF vars, payVars
<1>5. CASE PaymentNext /\ clerk' = clerk
  <2>1. period' = period
    BY <1>5 DEF PaymentNext, Settle, Reverse, Link, Advance, Post, Record, Flip,
                Remove, Cancel, Lookup, Reread, Revert, Purge, At
  <2> QED BY <1>3, <1>5, <2>1
<1>6. ASSUME NEW c \in Clerks, Control(c) PROVE Goal
  <2>1. ASSUME NEW s, StepTo(c, s), s # "close" \/ period.closing # NoVoucher
        PROVE  \A q \in Clerks : clerk'[q].pc = "close" =>
                  clerk[q].pc = "close" \/ period.closing # NoVoucher
    BY <1>1, <2>1 DEF StepTo, ClerksFit, Clerk
  <2>2. ASSUME NEW k \in {Free, [pc |-> "check", entry |-> NextVoucher]},
               clerk' = [clerk EXCEPT ![c] = k]
        PROVE  \A q \in Clerks : clerk'[q].pc = "close" => clerk[q].pc = "close"
    BY <1>1, <2>2 DEF Free, ClerksFit
  <2>3. Done(c) => \A q \in Clerks : clerk'[q].pc = "close" => clerk[q].pc = "close"
    BY <2>2 DEF Done
  <2>4. ASSUME NEW accepted, NEW to, Start(c, accepted, to),
               to = "close" => period.closing # NoVoucher
        PROVE  Goal
    BY <1>2, <2>1, <2>4 DEF Start
  <2>5. ASSUME NEW step, Refused(c, step) PROVE Goal
    BY <1>2, <2>3, <2>5 DEF Refused
  <2>6. ASSUME NEW from, NEW accepted, NEW to, Decide(c, from, accepted, to),
               to = "close" => period.closing # NoVoucher
        PROVE  Goal
    BY <1>2, <2>1, <2>6 DEF Decide
  <2>7. CASE StartLock(c) \/ StartUnlock(c) \/ StartExternal(c)
             \/ StartReopen(c) \/ StartYearEnd(c)
    BY <2>4, <2>7 DEF StartLock, StartUnlock, StartExternal, StartReopen, StartYearEnd
  <2>8. CASE StartClose(c)
    <3>1. period.closing # NoVoucher BY <2>8 DEF StartClose, Start, Closable
    <3> QED BY <2>4, <2>8, <3>1 DEF StartClose
  <2>9. CASE WriteLock(c) \/ WriteUnlock(c)
    <3>1. PICK b \in BOOLEAN : period' = [period EXCEPT !.locked = b]
      BY <2>9 DEF WriteLock, WriteUnlock, Write
    <3>2. period'.closed = period.closed /\ period'.external = period.external
          /\ period'.closing = period.closing
      BY <1>1, <3>1 DEF Period
    <3>3. \A q \in Clerks : clerk'[q].pc = "close" =>
             clerk[q].pc = "close" \/ period.closing # NoVoucher
      BY <2>1, <2>3, <2>9 DEF WriteLock, WriteUnlock, Write
    <3> QED BY <3>2, <3>3 DEF ClosesForCause, Linked
  <2>10. CASE WriteClose(c)
    <3>1. clerk[c].pc = "close" /\ Done(c)
          /\ period' = [period EXCEPT !.closed = TRUE]
      BY <2>10 DEF WriteClose, Write, On, Holds
    <3>2. period'.closed /\ period'.external = period.external
          /\ period'.closing = period.closing
      BY <1>1, <3>1 DEF Period
    <3> QED BY <2>3, <3>1, <3>2 DEF ClosesForCause, Linked
  <2>11. CASE WriteExternal(c)
    <3>1. CASE Refused(c, "external") BY <2>5, <3>1
    <3>2. CASE /\ ~period.closed
               /\ Write(c, "external",
                        [period EXCEPT !.closed = TRUE, !.external = TRUE,
                                       !.locked = TRUE], Done(c))
      <4>1. period'.external /\ period'.closing = period.closing
        BY <1>1, <3>2 DEF Write, Period
      <4> QED BY <2>3, <3>2, <4>1 DEF Write, ClosesForCause, Linked
    <3> QED BY <2>11, <3>1, <3>2 DEF WriteExternal, ExternalAccepted
  <2>12. CASE WriteReopen(c)
    <3>1. CASE Refused(c, "reopen") BY <2>5, <3>1
    <3>2. CASE /\ period.closing = NoVoucher
               /\ Write(c, "reopen",
                        [period EXCEPT !.closed = FALSE, !.external = FALSE,
                                       !.locked = FALSE], Done(c))
      <4>1. ~period'.closed /\ period'.closing = period.closing
        BY <1>1, <3>2 DEF Write, Period
      <4> QED BY <2>3, <3>2, <4>1 DEF Write, ClosesForCause, Linked
    <3> QED BY <2>12, <3>1, <3>2 DEF WriteReopen, ReopenAccepted
  <2>13. CASE PostClosing(c)
    BY <1>2, <2>2, <2>3, <2>13 DEF PostClosing
  <2>14. CASE Check(c) BY <1>2, <2>1, <2>3, <2>14 DEF Check
  <2>15. CASE LinkClosing(c)
    <3>1. CASE Refused(c, "link") BY <2>5, <3>1
    <3>2. CASE Write(c, "link", [period EXCEPT !.closing = clerk[c].entry],
                     StepTo(c, "tolock"))
      <4>1. clerk[c].entry \in Vouchers
        BY <1>1, <3>2 DEF Write, On, Holds, ClerksFit
      <4>2. clerk[c].entry # NoVoucher
        BY <4>1, PaymentsAssumption DEF Vouchers, NoVoucher
      <4>3. /\ period'.closed = period.closed /\ period'.external = period.external
            /\ period'.closing # NoVoucher
        BY <1>1, <3>2, <4>2 DEF Write, Period
      <4> QED BY <3>2, <4>3 DEF Write, ClosesForCause, Linked
    <3> QED BY <2>15, <3>1, <3>2 DEF LinkClosing
  <2>16. CASE GoOnToLock(c) BY <2>5, <2>6, <2>16 DEF GoOnToLock
  <2>17. CASE GoOnToClose(c)
    <3>1. Decide(c, "toclose", Closable, "close") => period.closing # NoVoucher
      BY DEF Decide, Closable
    <3> QED BY <2>5, <2>6, <2>17, <3>1 DEF GoOnToClose
  <2> HIDE DEF Goal
  <2> QED BY <1>6, <2>7, <2>8, <2>9, <2>10, <2>11, <2>12, <2>13, <2>14, <2>15,
         <2>16, <2>17 DEF Control
<1> QED BY <1>4, <1>5, <1>6 DEF ControlNext

(* What a year-end run has closed stays closed, under the closing voucher it  *)
(* has or another one: the guards inside the statements that reopen and that  *)
(* close externally hold against everything that happened since the read.     *)
THEOREM ClosedStaysFinal == ControlSpec => ClosedIsFinal
<1>1. ControlInit => ClosesForCause BY CauseInit
<1>2. Typed /\ ClosesForCause /\ [ControlNext]_vars => ClosesForCause'
  BY CauseStep
<1>3. Typed /\ ClosesForCause /\ [ControlNext]_vars =>
         [period.closed /\ period.closing # NoVoucher =>
            /\ period'.closed
            /\ period'.external = period.external
            /\ period'.closing # NoVoucher]_vars
  BY CauseStep
<1> QED BY <1>1, <1>2, <1>3, TypedAlways, PTL DEF ControlSpec, ClosedIsFinal

-----------------------------------------------------------------------------
(* Payment vouchers. A settlement is alone with the voucher it posted, its row*)
(* stays until the settlement or the reversal of the voucher removes it, and  *)
(* who resets an invoice has reversed the voucher first.                      *)

Holding(w, v) == job[w].pc \in Settling /\ job[w].own = v
Recorded(w, v) == job[w].pc = "flip" /\ job[w].own = v
Undoing(w, v) == job[w].pc \in Reversing /\ job[w].own = v

Accounted ==
    /\ VouchersAccounted
    /\ \A w \in Workers, v \in Vouchers :
          /\ Holding(w, v) => voucher[v].status # "absent"
          /\ Recorded(w, v) /\ Posted(v) => RowsOf(v) # {}
          /\ Undoing(w, v) => ~Posted(v) /\ voucher[v].status # "absent"
    /\ \A w, q \in Workers, v \in Vouchers :
          Holding(w, v) /\ Holding(q, v) => w = q

LEMMA HoldingIsInHand ==
    \A v : /\ InHand(v) <=> \E w \in Workers : Holding(w, v)
           /\ InHand(v)' <=> \E w \in Workers : Holding(w, v)'
BY DEF InHand, Holding

LEMMA AccountedInit == ControlInit => Accounted
<1> SUFFICES ASSUME ControlInit PROVE Accounted OBVIOUS
<1>1. \A v \in Vouchers : voucher[v].kind # "invoice_paid"
  BY DEF ControlInit, Init, NoEntry
<1>2. \A w \in Workers : job[w].pc = "idle" BY DEF ControlInit, Init, Idle
<1> QED BY <1>1, <1>2
    DEF Accounted, VouchersAccounted, Holding, Recorded, Undoing, Settling, Reversing

(* A step that posts nothing, claims no voucher, and gives one up or takes its*)
(* rows only when it is recorded, reversed or reported.                       *)
VoucherKept(v) ==
    /\ Posted(v)' => Posted(v) /\ voucher'[v].kind = voucher[v].kind
    /\ voucher[v].status # "absent" => voucher'[v].status # "absent"
    /\ Posted(v)' /\ RowsOf(v) # {} =>
          \/ RowsOf(v)' # {}
          \/ InHand(v)' /\ \A w \in Workers : ~Recorded(w, v)'
    /\ v \in stray.vouchers => v \in stray'.vouchers
    /\ Posted(v)' /\ InHand(v) =>
          InHand(v)' \/ RowsOf(v)' # {} \/ v \in stray'.vouchers

HandKept(w, v) ==
    /\ Holding(w, v)' => Holding(w, v)
    /\ Recorded(w, v)' => Recorded(w, v) \/ RowsOf(v)' # {}
    /\ Undoing(w, v)' =>
          Undoing(w, v) \/ (~Posted(v)' /\ voucher'[v].status # "absent")

LEMMA AccountedKept ==
    ASSUME Accounted, \A v \in Vouchers : VoucherKept(v),
           \A w \in Workers, v \in Vouchers : HandKept(w, v)
    PROVE  Accounted'
<1> USE DEF VoucherKept, HandKept
<1>1. VouchersAccounted'
  <2> SUFFICES ASSUME NEW v \in Vouchers, Posted(v)', voucher'[v].kind = "invoice_paid"
               PROVE  RowsOf(v)' # {} \/ InHand(v)' \/ v \in stray'.vouchers
    BY DEF VouchersAccounted
  <2>1. RowsOf(v) # {} \/ InHand(v) \/ v \in stray.vouchers
    BY DEF Accounted, VouchersAccounted
  <2> QED BY <2>1
<1>2. (\A w \in Workers, v \in Vouchers :
          /\ Holding(w, v) => voucher[v].status # "absent"
          /\ Recorded(w, v) /\ Posted(v) => RowsOf(v) # {}
          /\ Undoing(w, v) => ~Posted(v) /\ voucher[v].status # "absent")'
  BY DEF Accounted
<1>3. (\A w, q \in Workers, v \in Vouchers :
          Holding(w, v) /\ Holding(q, v) => w = q)'
  BY DEF Accounted
<1> QED BY <1>1, <1>2, <1>3 DEF Accounted

LEMMA NoPosting ==
    ASSUME TypeOK, \/ voucher' = voucher
                   \/ \E u, s : /\ voucher' = [voucher EXCEPT ![u].status = s]
                                /\ s \in {"reversed", "cancelled"} /\ Posted(u)
    PROVE  \A v \in Vouchers :
              /\ Posted(v)' => Posted(v) /\ voucher'[v] = voucher[v]
              /\ voucher[v].status # "absent" => voucher'[v].status # "absent"
<1>1. CASE voucher' = voucher BY <1>1 DEF Posted
<1>2. ASSUME NEW u, NEW s \in {"reversed", "cancelled"},
             voucher' = [voucher EXCEPT ![u].status = s]
      PROVE  \A v \in Vouchers :
                /\ Posted(v)' => Posted(v) /\ voucher'[v] = voucher[v]
                /\ voucher[v].status # "absent" => voucher'[v].status # "absent"
  <2>1. /\ u \in Vouchers => voucher'[u].status = s
        /\ \A v \in Vouchers \ {u} : voucher'[v] = voucher[v]
    BY <1>2 DEF TypeOK, Voucher
  <2> QED BY <2>1 DEF Posted
<1> QED BY <1>1, <1>2

(* The posting takes a voucher nobody has.                                    *)
LEMMA Posting ==
    ASSUME TypeOK, Accounted, NextVoucher \in Vouchers,
           voucher[NextVoucher].status = "absent", NEW kind, NEW i, NEW amount,
           PostEntry(kind, i, amount)
    PROVE  /\ \A v \in Vouchers \ {NextVoucher} : voucher'[v] = voucher[v]
           /\ voucher'[NextVoucher].status = "posted"
           /\ voucher'[NextVoucher].kind = kind
           /\ \A w \in Workers : ~Holding(w, NextVoucher) /\ ~Undoing(w, NextVoucher)
BY DEF TypeOK, Accounted, PostEntry

LEMMA AccountedPost ==
    ASSUME Typed, Accounted, NEW w \in Workers, Post(w)
    PROVE  Accounted'
<1>1. TypeOK BY DEF Typed
<1>2. job[w].pc = "post" /\ UNCHANGED <<rows, stray>> BY DEF Post, At
<1>3. CASE Stop(w) /\ voucher' = voucher
  <2>1. \A q \in Workers, v \in Vouchers :
           /\ Holding(q, v)' <=> Holding(q, v)
           /\ Recorded(q, v)' <=> Recorded(q, v)
           /\ Undoing(q, v)' <=> Undoing(q, v)
    BY <1>1, <1>2, <1>3
       DEF Stop, Idle, TypeOK, Holding, Recorded, Undoing, Settling, Reversing
  <2>2. \A v \in Vouchers : InHand(v)' <=> InHand(v)
    BY <2>1, HoldingIsInHand
  <2>3. \A v \in Vouchers : RowsOf(v)' = RowsOf(v) BY <1>2 DEF RowsOf
  <2>4. \A v \in Vouchers :
           /\ Posted(v)' => Posted(v) /\ voucher'[v].kind = voucher[v].kind
           /\ voucher[v].status # "absent" => voucher'[v].status # "absent"
    BY <1>1, <1>3, NoPosting
  <2>5. \A v \in Vouchers : VoucherKept(v)
    BY <1>2, <2>2, <2>3, <2>4 DEF VoucherKept
  <2>6. \A q \in Workers, v \in Vouchers : HandKept(q, v) BY <2>1 DEF HandKept
  <2> QED BY <2>5, <2>6, AccountedKept
<1>4. CASE /\ PostEntry("invoice_paid", job[w].invoice, job[w].amount)
           /\ job' = [job EXCEPT ![w].pc = "record", ![w].own = NextVoucher]
  <2> DEFINE n == NextVoucher
  <2>1. n \in Vouchers /\ voucher[n].status = "absent"
    <3>1. Spending # {} BY <1>2 DEF PayersPosting, Spending
    <3> QED BY <3>1, VoucherLeft
  <2>2. /\ \A v \in Vouchers \ {n} : voucher'[v] = voucher[v]
        /\ voucher'[n].status = "posted"
        /\ \A q \in Workers : ~Holding(q, n) /\ ~Undoing(q, n)
    BY <1>1, <1>4, <2>1, Posting
  <2>3. /\ job'[w].pc = "record" /\ job'[w].own = n
        /\ \A q \in Workers \ {w} : job'[q] = job[q]
    BY <1>1, <1>4 DEF TypeOK, Job
  <2> HIDE DEF n
  <2>4. PICK m : m = n OBVIOUS
  <2>5. /\ Holding(w, m)'
        /\ \A q \in Workers, v \in Vouchers : Holding(q, v)' =>
              (Holding(q, v) /\ v # m) \/ (q = w /\ v = m)
        /\ \A q \in Workers, v \in Vouchers : Holding(q, v) => Holding(q, v)'
        /\ \A q \in Workers, v \in Vouchers :
              /\ Recorded(q, v)' => Recorded(q, v) /\ v # m
              /\ Undoing(q, v)' => Undoing(q, v)
    BY <1>2, <2>2, <2>3, <2>4 DEF Holding, Recorded, Undoing, Settling, Reversing
  <2>6. InHand(m)' /\ \A v \in Vouchers : InHand(v) => InHand(v)'
    BY <2>5, HoldingIsInHand DEF Holding, InHand
  <2>7. \A v \in Vouchers : RowsOf(v)' = RowsOf(v) BY <1>2 DEF RowsOf
  <2>8. \A v \in Vouchers \ {m} :
           (Posted(v)' <=> Posted(v)) /\ voucher'[v] = voucher[v]
    BY <2>2, <2>4 DEF Posted
  <2>9. VouchersAccounted'
    BY <1>2, <2>4, <2>6, <2>7, <2>8 DEF Accounted, VouchersAccounted
  <2>10. \A q \in Workers : ~Undoing(q, m)' BY <2>1, <2>2, <2>4, <2>5
  <2> QED BY <2>1, <2>2, <2>4, <2>5, <2>7, <2>8, <2>9, <2>10 DEF Accounted
<1> QED BY <1>3, <1>4 DEF Post

(* Where a request ends up decides what it holds.                            *)
LEMMA Hands ==
    ASSUME NEW w \in Workers, job' = job \/ \A q \in Workers \ {w} : job'[q] = job[q]
    PROVE  /\ \A q \in Workers \ {w}, v \in Vouchers :
                 /\ Holding(q, v)' <=> Holding(q, v)
                 /\ Recorded(q, v)' <=> Recorded(q, v)
                 /\ Undoing(q, v)' <=> Undoing(q, v)
           /\ \A v \in Vouchers : InHand(v) /\ ~Holding(w, v) => InHand(v)'
           /\ \A v \in Vouchers : Holding(w, v)' => InHand(v)'
<1>1. \A q \in Workers \ {w}, v \in Vouchers :
         /\ Holding(q, v)' <=> Holding(q, v)
         /\ Recorded(q, v)' <=> Recorded(q, v)
         /\ Undoing(q, v)' <=> Undoing(q, v)
  BY DEF Holding, Recorded, Undoing
<1>2. \A v \in Vouchers : InHand(v) /\ ~Holding(w, v) => InHand(v)'
  BY <1>1, HoldingIsInHand
<1>3. \A v \in Vouchers : Holding(w, v)' => InHand(v)' BY HoldingIsInHand
<1> QED BY <1>1, <1>2, <1>3

LEMMA Ended ==
    ASSUME TypeOK, NEW w \in Workers, Stop(w)
    PROVE  /\ \A q \in Workers \ {w} : job'[q] = job[q]
           /\ \A v \in Vouchers :
                 ~Holding(w, v)' /\ ~Recorded(w, v)' /\ ~Undoing(w, v)'
BY DEF Stop, TypeOK, Idle, Holding, Recorded, Undoing, Settling, Reversing

LEMMA Moved ==
    ASSUME TypeOK, NEW w \in Workers, NEW s, Goto(w, s)
    PROVE  /\ \A q \in Workers \ {w} : job'[q] = job[q]
           /\ job'[w].pc = s /\ job'[w].own = job[w].own
BY DEF Goto, TypeOK, Job

LEMMA AccountedSettling ==
    ASSUME Typed, Accounted, NEW w \in Workers
    PROVE  /\ Record(w) => Accounted'
           /\ Flip(w) => Accounted'
           /\ Remove(w) => Accounted'
           /\ Cancel(w) => Accounted'
<1>1. TypeOK BY DEF Typed
<1>2. ASSUME Record(w) PROVE Accounted'
  <2>1. /\ job[w].pc = "record" /\ voucher' = voucher /\ stray' = stray
        /\ rows \subseteq rows'
        /\ \/ Goto(w, "cancel")
           \/ /\ Goto(w, "flip")
              /\ [voucher |-> job[w].own, invoice |-> job[w].invoice,
                  amount |-> job[w].amount] \in rows'
    BY <1>2 DEF Record, At
  <2>2. /\ \A q \in Workers \ {w} : job'[q] = job[q]
        /\ job'[w].pc \in {"cancel", "flip"} /\ job'[w].own = job[w].own
    BY <1>1, <2>1, Moved
  <2>3. \A v \in Vouchers :
           /\ Holding(w, v)' <=> Holding(w, v)
           /\ ~Undoing(w, v)'
    BY <2>1, <2>2 DEF Holding, Undoing, Settling, Reversing
  <2>4. \A v \in Vouchers : RowsOf(v) \subseteq RowsOf(v)'
    BY <2>1 DEF RowsOf
  <2>5. \A v \in Vouchers : Recorded(w, v)' => RowsOf(v)' # {}
    <3>1. CASE Goto(w, "cancel")
      <4>1. job'[w].pc = "cancel" BY <1>1, <3>1, Moved
      <4> QED BY <4>1 DEF Recorded
    <3>2. CASE [voucher |-> job[w].own, invoice |-> job[w].invoice,
                amount |-> job[w].amount] \in rows'
      BY <2>2, <3>2 DEF Recorded, RowsOf
    <3> QED BY <2>1, <3>1, <3>2
  <2>6. \A v \in Vouchers : VoucherKept(v)
    BY <2>1, <2>2, <2>3, <2>4, Hands DEF VoucherKept, Posted
  <2>7. \A q \in Workers, v \in Vouchers : HandKept(q, v)
    BY <2>2, <2>3, <2>5, Hands DEF HandKept
  <2> QED BY <2>6, <2>7, AccountedKept
<1>3. ASSUME Flip(w) PROVE Accounted'
  <2>1. /\ job[w].pc = "flip" /\ UNCHANGED <<voucher, rows, stray>>
        /\ Stop(w) \/ Goto(w, "remove")
    BY <1>3 DEF Flip, At
  <2>2. \A q \in Workers \ {w} : job'[q] = job[q] BY <1>1, <2>1, Ended, Moved
  <2>3. \A v \in Vouchers :
           /\ Holding(w, v)' => Holding(w, v)
           /\ ~Recorded(w, v)' /\ ~Undoing(w, v)'
    <3>1. CASE Stop(w) BY <1>1, <3>1, Ended
    <3>2. CASE Goto(w, "remove")
      <4>1. job'[w].pc = "remove" /\ job'[w].own = job[w].own
        BY <1>1, <3>2, Moved
      <4> QED BY <2>1, <4>1 DEF Holding, Recorded, Undoing, Settling, Reversing
    <3> QED BY <2>1, <3>1, <3>2
  <2>4. \A v \in Vouchers : RowsOf(v)' = RowsOf(v) /\ (Posted(v)' <=> Posted(v))
    BY <2>1 DEF RowsOf, Posted
  <2>5. \A v \in Vouchers : Holding(w, v) /\ Posted(v) => RowsOf(v) # {}
    BY <2>1 DEF Accounted, Holding, Recorded
  <2>6. \A v \in Vouchers : VoucherKept(v)
    BY <2>1, <2>2, <2>4, <2>5, Hands DEF VoucherKept
  <2>7. \A q \in Workers, v \in Vouchers : HandKept(q, v)
    BY <2>2, <2>3, Hands DEF HandKept
  <2> QED BY <2>6, <2>7, AccountedKept
<1>4. ASSUME Remove(w) PROVE Accounted'
  <2> DEFINE own == OwnRows(job[w].own, job[w].invoice)
  <2>1. /\ job[w].pc = "remove" /\ voucher' = voucher /\ Goto(w, "cancel")
        /\ stray.vouchers \subseteq stray'.vouchers
        /\ rows \ own \subseteq rows'
    BY <1>4 DEF Remove, At, Strand
  <2>2. /\ \A q \in Workers \ {w} : job'[q] = job[q]
        /\ job'[w].pc = "cancel" /\ job'[w].own = job[w].own
    BY <1>1, <2>1, Moved
  <2>3. \A v \in Vouchers :
           /\ Holding(w, v)' <=> Holding(w, v)
           /\ Holding(w, v) <=> job[w].own = v
           /\ ~Recorded(w, v)' /\ ~Undoing(w, v)'
    BY <2>1, <2>2 DEF Holding, Recorded, Undoing, Settling, Reversing
  <2>4. \A v \in Vouchers : ~Holding(w, v) => RowsOf(v) \subseteq RowsOf(v)'
    BY <2>1, <2>3 DEF RowsOf, OwnRows
  <2>5. \A v \in Vouchers : Holding(w, v) =>
           InHand(v)' /\ \A q \in Workers : ~Recorded(q, v)'
    <3>1. \A v \in Vouchers, q \in Workers \ {w} : Holding(w, v) => ~Recorded(q, v)
      BY DEF Accounted, Holding, Recorded, Settling
    <3> QED BY <2>2, <2>3, <3>1, Hands
  <2>6. \A v \in Vouchers : VoucherKept(v)
    BY <2>1, <2>2, <2>4, <2>5, Hands DEF VoucherKept, Posted
  <2>7. \A q \in Workers, v \in Vouchers : HandKept(q, v)
    BY <2>2, <2>3, Hands DEF HandKept
  <2> QED BY <2>6, <2>7, AccountedKept
<1>5. ASSUME Cancel(w) PROVE Accounted'
  <2>1. /\ job[w].pc = "cancel" /\ rows' = rows /\ Stop(w)
        /\ stray.vouchers \subseteq stray'.vouchers
        /\ \/ /\ Posted(job[w].own)
              /\ voucher' = [voucher EXCEPT ![job[w].own].status = "cancelled"]
           \/ job[w].own \in stray'.vouchers /\ voucher' = voucher
    BY <1>5 DEF Cancel, At, Strand, CancelAccepted
  <2>2. /\ \A q \in Workers \ {w} : job'[q] = job[q]
        /\ \A v \in Vouchers :
              ~Holding(w, v)' /\ ~Recorded(w, v)' /\ ~Undoing(w, v)'
    BY <1>1, <2>1, Ended
  <2>3. \A v \in Vouchers :
           /\ Posted(v)' => Posted(v) /\ voucher'[v] = voucher[v]
           /\ voucher[v].status # "absent" => voucher'[v].status # "absent"
    BY <1>1, <2>1, NoPosting
  <2>4. \A v \in Vouchers : Holding(w, v) =>
           ~Posted(v)' \/ v \in stray'.vouchers
    BY <1>1, <2>1 DEF Holding, Posted, TypeOK, Voucher
  <2>5. \A v \in Vouchers : RowsOf(v)' = RowsOf(v) BY <2>1 DEF RowsOf
  <2>6. \A v \in Vouchers : VoucherKept(v)
    BY <2>1, <2>2, <2>3, <2>4, <2>5, Hands DEF VoucherKept
  <2>7. \A q \in Workers, v \in Vouchers : HandKept(q, v)
    BY <2>2, Hands DEF HandKept
  <2> QED BY <2>6, <2>7, AccountedKept
<1> QED BY <1>2, <1>3, <1>4, <1>5

LEMMA AccountedReversing ==
    ASSUME Typed, Accounted, NEW w \in Workers
    PROVE  /\ Lookup(w) \/ Reread(w) \/ Revert(w) => Accounted'
           /\ Purge(w) => Accounted'
           /\ \A v \in Vouchers : Reverse(w, v) => Accounted'
           /\ \A i \in Invoices : \A amount \in 1..Total :
                 Settle(w, i, amount) => Accounted'
<1>1. TypeOK BY DEF Typed
<1>2. ASSUME Lookup(w) \/ Reread(w) \/ Revert(w) PROVE Accounted'
  <2>1. UNCHANGED <<voucher, rows, stray>> /\ job[w].pc \in Reversing
    BY <1>2 DEF Lookup, Reread, Revert, At, tables, Reversing
  <2>2. /\ \A q \in Workers \ {w} : job'[q] = job[q]
        /\ job'[w].pc \in Reversing /\ job'[w].own = job[w].own
    <3>1. ASSUME NEW j, job' = [job EXCEPT ![w] = j], j.pc \in Reversing,
                 j.own = job[w].own
          PROVE  /\ \A q \in Workers \ {w} : job'[q] = job[q]
                 /\ job'[w].pc \in Reversing /\ job'[w].own = job[w].own
      BY <1>1, <3>1 DEF TypeOK
    <3>2. job[w] \in Job BY <1>1 DEF TypeOK
    <3>3. CASE Lookup(w)
      <4>1. PICK found, amount :
               job' = [job EXCEPT ![w] = [job[w] EXCEPT !.pc = "reread", !.found = found, !.amount = amount]]
        BY <3>3 DEF Lookup
      <4> DEFINE j == [job[w] EXCEPT !.pc = "reread", !.found = found, !.amount = amount]
      <4>2. j.pc \in Reversing /\ j.own = job[w].own BY <3>2 DEF Job, Reversing
      <4>3. job' = [job EXCEPT ![w] = j] BY <4>1
      <4> HIDE DEF j
      <4> QED BY <3>1, <4>2, <4>3
    <3>4. CASE Reread(w)
      <4>1. PICK paid :
               job' = [job EXCEPT ![w] = [job[w] EXCEPT !.pc = "revert", !.paid = paid]]
        BY <3>4 DEF Reread
      <4> DEFINE j == [job[w] EXCEPT !.pc = "revert", !.paid = paid]
      <4>2. j.pc \in Reversing /\ j.own = job[w].own BY <3>2 DEF Job, Reversing
      <4>3. job' = [job EXCEPT ![w] = j] BY <4>1
      <4> HIDE DEF j
      <4> QED BY <3>1, <4>2, <4>3
    <3>5. CASE Revert(w)
      <4>1. job' = [job EXCEPT ![w] = [job[w] EXCEPT !.pc = "purge"]]
        BY <3>5 DEF Revert, Goto
      <4> DEFINE j == [job[w] EXCEPT !.pc = "purge"]
      <4>2. j.pc \in Reversing /\ j.own = job[w].own BY <3>2 DEF Job, Reversing
      <4>3. job' = [job EXCEPT ![w] = j] BY <4>1
      <4> HIDE DEF j
      <4> QED BY <3>1, <4>2, <4>3
    <3> QED BY <1>2, <3>3, <3>4, <3>5
  <2>3. \A v \in Vouchers :
           /\ ~Holding(w, v) /\ ~Holding(w, v)' /\ ~Recorded(w, v)'
           /\ Undoing(w, v)' => Undoing(w, v)
    BY <2>1, <2>2 DEF Holding, Recorded, Undoing, Settling, Reversing
  <2>4. \A v \in Vouchers : RowsOf(v)' = RowsOf(v) /\ (Posted(v)' <=> Posted(v))
    BY <2>1 DEF RowsOf, Posted
  <2>5. \A v \in Vouchers : VoucherKept(v)
    BY <2>1, <2>2, <2>3, <2>4, Hands DEF VoucherKept
  <2>6. \A q \in Workers, v \in Vouchers : HandKept(q, v)
    BY <2>2, <2>3, Hands DEF HandKept
  <2> QED BY <2>5, <2>6, AccountedKept
<1>3. ASSUME Purge(w) PROVE Accounted'
  <2>1. /\ job[w].pc = "purge" /\ UNCHANGED <<voucher, stray>> /\ Stop(w)
        /\ rows' = rows \ OwnRows(job[w].own, job[w].invoice)
    BY <1>3 DEF Purge, At
  <2>2. /\ \A q \in Workers \ {w} : job'[q] = job[q]
        /\ \A v \in Vouchers :
              ~Holding(w, v)' /\ ~Recorded(w, v)' /\ ~Undoing(w, v)'
    BY <1>1, <2>1, Ended
  <2>3. \A v \in Vouchers : ~Holding(w, v) /\ (Undoing(w, v) <=> job[w].own = v)
    BY <2>1 DEF Holding, Undoing, Settling, Reversing
  <2>4. \A v \in Vouchers : Posted(v)' => Posted(v) /\ RowsOf(v)' = RowsOf(v)
    BY <2>1, <2>3 DEF Accounted, Posted, RowsOf, OwnRows
  <2>5. \A v \in Vouchers : VoucherKept(v)
    BY <2>1, <2>2, <2>3, <2>4, Hands DEF VoucherKept
  <2>6. \A q \in Workers, v \in Vouchers : HandKept(q, v)
    BY <2>2, Hands DEF HandKept
  <2> QED BY <2>5, <2>6, AccountedKept
<1>4. ASSUME NEW v \in Vouchers, Reverse(w, v) PROVE Accounted'
  <2>1. /\ job[w].pc = "idle" /\ UNCHANGED <<rows, stray>>
        /\ Posted(v) /\ voucher' = [voucher EXCEPT ![v].status = "reversed"]
    BY <1>4 DEF Reverse
  <2>2. \A u \in Vouchers :
           /\ Posted(u)' => Posted(u) /\ voucher'[u] = voucher[u]
           /\ voucher[u].status # "absent" => voucher'[u].status # "absent"
    BY <1>1, <2>1, NoPosting
  <2>3. voucher'[v].status = "reversed" /\ ~Posted(v)'
    BY <1>1, <2>1 DEF TypeOK, Voucher, Posted
  <2>4. /\ job' = job \/ \A q \in Workers \ {w} : job'[q] = job[q]
        /\ \A u \in Vouchers :
              /\ ~Holding(w, u) /\ ~Holding(w, u)' /\ ~Recorded(w, u)'
              /\ Undoing(w, u)' => u = v
    <3>1. CASE job' = job
      BY <2>1, <3>1 DEF Holding, Recorded, Undoing, Settling, Reversing
    <3>2. CASE job' = [job EXCEPT ![w] = [Idle EXCEPT !.pc = "lookup", !.own = v,
                                            !.invoice = voucher[v].invoice]]
      <4>1. /\ job'[w].pc = "lookup" /\ job'[w].own = v
            /\ \A q \in Workers \ {w} : job'[q] = job[q]
        BY <1>1, <3>2 DEF TypeOK, Idle
      <4> QED BY <2>1, <4>1 DEF Holding, Recorded, Undoing, Settling, Reversing
    <3> QED BY <1>4, <3>1, <3>2 DEF Reverse
  <2>5. \A u \in Vouchers : RowsOf(u)' = RowsOf(u) BY <2>1 DEF RowsOf
  <2>6. \A u \in Vouchers : VoucherKept(u)
    BY <2>1, <2>2, <2>4, <2>5, Hands DEF VoucherKept
  <2>7. \A q \in Workers, u \in Vouchers : HandKept(q, u)
    BY <2>3, <2>4, Hands DEF HandKept
  <2> QED BY <2>6, <2>7, AccountedKept
<1>5. ASSUME NEW i \in Invoices, NEW amount \in 1..Total, Settle(w, i, amount)
      PROVE  Accounted'
  <2>1. job[w].pc = "idle" /\ UNCHANGED <<voucher, rows, stray>>
    BY <1>5 DEF Settle, tables
  <2>2. /\ \A q \in Workers \ {w} : job'[q] = job[q]
        /\ job'[w].pc = "post"
    BY <1>1, <1>5 DEF Settle, TypeOK, Idle
  <2>3. \A v \in Vouchers :
           /\ ~Holding(w, v) /\ ~Holding(w, v)' /\ ~Recorded(w, v)'
           /\ ~Undoing(w, v)'
    BY <2>1, <2>2 DEF Holding, Recorded, Undoing, Settling, Reversing
  <2>4. \A v \in Vouchers : RowsOf(v)' = RowsOf(v) /\ (Posted(v)' <=> Posted(v))
    BY <2>1 DEF RowsOf, Posted
  <2>5. \A v \in Vouchers : VoucherKept(v)
    BY <2>1, <2>2, <2>3, <2>4, Hands DEF VoucherKept
  <2>6. \A q \in Workers, v \in Vouchers : HandKept(q, v)
    BY <2>2, <2>3, Hands DEF HandKept
  <2> QED BY <2>5, <2>6, AccountedKept
<1> QED BY <1>2, <1>3, <1>4, <1>5

(* Links, and the clerks, leave the requests alone.                          *)
LEMMA AccountedOthers ==
    ASSUME Typed, Accounted
    PROVE  /\ \A i \in Invoices : \A v \in Vouchers : Link(i, v) => Accounted'
           /\ \A c \in Clerks : Control(c) => Accounted'
<1>1. TypeOK BY DEF Typed
<1>2. job' = job => \A w \in Workers, v \in Vouchers :
         /\ Holding(w, v)' <=> Holding(w, v)
         /\ Recorded(w, v)' <=> Recorded(w, v)
         /\ Undoing(w, v)' <=> Undoing(w, v)
         /\ InHand(v)' <=> InHand(v)
  BY DEF Holding, Recorded, Undoing, InHand
<1>3. ASSUME job' = job, stray' = stray, rows \subseteq rows',
             \A v \in Vouchers :
                /\ Posted(v)' => Posted(v) /\ voucher'[v] = voucher[v]
                /\ voucher[v].status # "absent" => voucher'[v].status # "absent"
      PROVE  Accounted'
  <2>1. \A v \in Vouchers : RowsOf(v) \subseteq RowsOf(v)' BY <1>3 DEF RowsOf
  <2>2. \A v \in Vouchers : InHand(v)' <=> InHand(v) BY <1>3 DEF InHand
  <2>3. \A v \in Vouchers : VoucherKept(v) BY <1>3, <2>1, <2>2 DEF VoucherKept
  <2>4. \A w \in Workers, v \in Vouchers : HandKept(w, v)
    BY <1>2, <1>3 DEF HandKept
  <2> QED BY <2>3, <2>4, AccountedKept
<1>4. ASSUME NEW i \in Invoices, NEW v \in Vouchers, Link(i, v) PROVE Accounted'
  <2>1. job' = job /\ stray' = stray /\ voucher' = voucher /\ rows \subseteq rows'
    BY <1>4 DEF Link
  <2> QED BY <1>1, <1>3, <2>1, NoPosting
<1>5. ASSUME NEW c \in Clerks, Control(c) PROVE Accounted'
  <2>1. UNCHANGED <<job, rows, stray>>
    BY <1>5
       DEF Control, StartLock, WriteLock, StartUnlock, WriteUnlock, StartClose,
           WriteClose, StartExternal, WriteExternal, StartReopen, WriteReopen,
           StartYearEnd, PostClosing, Check, LinkClosing, GoOnToLock, GoOnToClose,
           Start, Write, Refused, Decide, On, Holds
  <2>2. CASE \/ voucher' = voucher
             \/ \E u, s : /\ voucher' = [voucher EXCEPT ![u].status = s]
                          /\ s \in {"reversed", "cancelled"} /\ Posted(u)
    BY <1>1, <1>3, <2>1, <2>2, NoPosting
  <2>3. CASE PostEntry("year_end", None, 0) /\ On(c, "entry")
    <3>1. Spending # {}
      BY <2>3 DEF On, Holds, ClerksPosting, Spending
    <3>2. PICK n : n = NextVoucher OBVIOUS
    <3>3. /\ n \in Vouchers
          /\ \A v \in Vouchers \ {n} : voucher'[v] = voucher[v]
          /\ voucher'[n].status = "posted" /\ voucher'[n].kind = "year_end"
          /\ \A w \in Workers : ~Holding(w, n) /\ ~Undoing(w, n)
      BY <1>1, <2>3, <3>1, <3>2, VoucherLeft, Posting
    <3>4. \A v \in Vouchers : RowsOf(v)' = RowsOf(v) /\ (InHand(v)' <=> InHand(v))
      BY <2>1 DEF RowsOf, InHand
    <3>5. \A v \in Vouchers \ {n} : Posted(v)' <=> Posted(v)
      BY <3>3 DEF Posted
    <3>6. VouchersAccounted'
      BY <2>1, <3>3, <3>4, <3>5 DEF Accounted, VouchersAccounted
    <3>7. \A w \in Workers : ~Recorded(w, n)
      BY <3>3 DEF Holding, Recorded, Settling
    <3> QED BY <1>2, <2>1, <3>3, <3>4, <3>5, <3>6, <3>7 DEF Accounted
  <2>4. PostClosing(c) => voucher' = voucher \/ (PostEntry("year_end", None, 0)
                                                 /\ On(c, "entry"))
    BY DEF PostClosing
  <2>5. Check(c) => \/ voucher' = voucher
                    \/ \E u, s : /\ voucher' = [voucher EXCEPT ![u].status = s]
                                 /\ s \in {"reversed", "cancelled"} /\ Posted(u)
    BY DEF Check
  <2>6. Control(c) => PostClosing(c) \/ Check(c) \/ voucher' = voucher
    BY DEF Control, StartLock, WriteLock, StartUnlock, WriteUnlock, StartClose,
           WriteClose, StartExternal, WriteExternal, StartReopen, WriteReopen,
           StartYearEnd, LinkClosing, GoOnToLock, GoOnToClose,
           Start, Write, Refused, Decide
  <2> QED BY <1>5, <2>2, <2>3, <2>4, <2>5, <2>6
<1> QED BY <1>4, <1>5

LEMMA AccountedStep == Typed /\ Accounted /\ [ControlNext]_vars => Accounted'
<1> SUFFICES ASSUME Typed, Accounted, [ControlNext]_vars PROVE Accounted' OBVIOUS
<1>1. CASE UNCHANGED vars
  BY <1>1 DEF vars, payVars, Accounted, VouchersAccounted, Holding, Recorded,
              Undoing, InHand, Posted, RowsOf
<1>2. ASSUME NEW w \in Workers, Advance(w) PROVE Accounted'
  BY <1>2, AccountedPost, AccountedSettling, AccountedReversing DEF Advance
<1>3. CASE PaymentNext
  BY <1>2, <1>3, AccountedReversing, AccountedOthers DEF PaymentNext
<1>4. CASE \E c \in Clerks : Control(c) BY <1>4, AccountedOthers
<1> QED BY <1>1, <1>3, <1>4 DEF ControlNext

(* However settlements, links, reversals and the locking of the period        *)
(* interleave, and whichever statements fail: no payment voucher stays in the *)
(* ledger without a row, a settlement that will deal with it, or a report.    *)
THEOREM NoVoucherForgotten == ControlSpec => []VouchersAccounted
<1>1. Accounted => VouchersAccounted BY DEF Accounted
<1> QED BY <1>1, AccountedInit, AccountedStep, TypedAlways, PTL DEF ControlSpec

-----------------------------------------------------------------------------
(* Sums of rows.                                                              *)

(* The units of disjoint sets of rows add up.                                *)
LEMMA UnitsFinite ==
    ASSUME NEW R, IsFiniteSet(R)
    PROVE  IsFiniteSet(Units(R)) /\ AmountOf(R) \in Nat
<1>1. Total \in Int /\ 1 \in Int BY PaymentsAssumption
<1>2. IsFiniteSet(1..Total) BY <1>1, FS_Interval
<1>3. IsFiniteSet(R \X (1..Total)) BY <1>2, FS_Product
<1>4. Units(R) \in SUBSET (R \X (1..Total)) BY DEF Units
<1>5. IsFiniteSet(Units(R)) BY <1>3, <1>4, FS_Subset
<1> QED BY <1>5, FS_CardinalityType DEF AmountOf

LEMMA AmountOfNone == AmountOf({}) = 0
<1>1. Units({}) = {} BY DEF Units
<1> QED BY <1>1, FS_EmptySet DEF AmountOf

LEMMA AmountOfOne ==
    ASSUME NEW r, r.amount \in Amounts
    PROVE  IsFiniteSet(Units({r})) /\ Cardinality(Units({r})) = r.amount
<1> DEFINE n == r.amount
           f == [u \in 1..n |-> <<r, u>>]
<1>1. n \in Nat /\ n <= Total /\ Total \in Nat /\ n \in Int /\ 1 \in Int
  BY PaymentsAssumption DEF Amounts
<1>2. Units({r}) = {<<r, u>> : u \in 1..n}
  <2>1. ASSUME NEW u \in {r} \X (1..Total), u[2] <= n
        PROVE  u \in {<<r, k>> : k \in 1..n}
    <3>1. u = <<r, u[2]>> /\ u[2] \in 1..Total BY <2>1
    <3>2. u[2] \in 1..n BY <1>1, <2>1, <3>1
    <3> QED BY <3>1, <3>2
  <2>2. ASSUME NEW k \in 1..n PROVE <<r, k>> \in Units({r})
    BY <1>1, <2>2 DEF Units
  <2> QED BY <2>1, <2>2 DEF Units
<1> HIDE DEF n
<1>3. f \in Bijection(1..n, Units({r}))
  BY <1>2 DEF Bijection, Injection, Surjection, IsInjective
<1>4. IsFiniteSet(1..n) /\ Cardinality(1..n) = n BY <1>1, FS_Interval
<1>5. ExistsBijection(1..n, Units({r})) BY <1>3 DEF ExistsBijection
<1>6. IsFiniteSet(Units({r})) /\ Cardinality(Units({r})) = n
  BY <1>4, <1>5, FS_Bijection
<1> QED BY <1>6 DEF n

LEMMA AmountOfMore ==
    ASSUME NEW R, IsFiniteSet(R), NEW r, r \notin R, r.amount \in Amounts
    PROVE  AmountOf(R \cup {r}) = AmountOf(R) + r.amount
<1>1. IsFiniteSet(Units(R)) /\ Cardinality(Units(R)) \in Nat
  BY UnitsFinite DEF AmountOf
<1>2. IsFiniteSet(Units({r})) /\ Cardinality(Units({r})) = r.amount
  BY AmountOfOne
<1>3. Units(R \cup {r}) = Units(R) \cup Units({r}) BY DEF Units
<1>4. Units(R) \cap Units({r}) = {}
  <2>1. \A u \in Units(R) : u[1] \in R BY DEF Units
  <2>2. \A u \in Units({r}) : u[1] = r BY DEF Units
  <2> QED BY <2>1, <2>2
<1>5. Cardinality(Units(R) \cup Units({r})) =
         Cardinality(Units(R)) + Cardinality(Units({r}))
            - Cardinality(Units(R) \cap Units({r}))
  BY <1>1, <1>2, FS_Union
<1>6. Cardinality(Units(R) \cap Units({r})) = 0 BY <1>4, FS_EmptySet
<1>7. r.amount \in Nat BY PaymentsAssumption DEF Amounts
<1>8. Cardinality(Units(R) \cup Units({r})) = Cardinality(Units(R)) + r.amount
  BY <1>1, <1>2, <1>5, <1>6, <1>7
<1> QED BY <1>3, <1>8 DEF AmountOf

-----------------------------------------------------------------------------
(* The sub-ledger. Between its statements a request owes the invoice: a       *)
(* settlement has written its row and not yet what is paid, a reversal has    *)
(* taken back what was paid and not yet its row, or has reversed the voucher  *)
(* and not yet taken anything back. Rows are counted accordingly.             *)

Unpaid(w, r) ==
    /\ job[w].pc \in {"flip", "remove", "purge"}
    /\ r.voucher = job[w].own /\ r.invoice = job[w].invoice

Takes(w, r) ==
    /\ job[w].pc \in {"lookup", "reread", "revert"}
    /\ r.voucher = job[w].own /\ r.invoice = job[w].invoice

Counted(i) ==
    {r \in PaymentRows(i) \ stray.rows : \A w \in Workers : ~Unpaid(w, r)}

Agrees(i) ==
    /\ invoice[i].paid = AmountOf(Counted(i))
    /\ \A r \in Counted(i) : Posted(r.voucher) \/ \E w \in Workers : Takes(w, r)

RowsKnown ==
    /\ IsFiniteSet(rows)
    /\ \A r \in rows \cup stray.rows :
          voucher[r.voucher].status # "absent" /\ voucher[r.voucher].kind # "year_end"
    /\ \A r, s \in rows : r.voucher = s.voucher /\ r.invoice = s.invoice => r = s
    /\ \A r \in stray.rows : r \in rows \/ ~Posted(r.voucher)

(* The voucher in hand is the payment's.                                     *)
Own(w) ==
    /\ voucher[job[w].own].kind = "invoice_paid"
    /\ voucher[job[w].own].invoice = job[w].invoice

(* What a settlement can rely on, as long as nobody got in its way.          *)
Settles(w) ==
    LET v == job[w].own
        i == job[w].invoice
    IN
    /\ Own(w)
    /\ job[w].pc # "cancel" => \A s \in stray.rows : s.voucher # v
    /\ \A r \in RowsOf(v) : r.invoice = i \/ r.invoice \in crossed
    /\ i \notin crossed =>
          /\ Posted(v)
          /\ job[w].pc = "record" => OwnRows(v, i) = {}
          /\ job[w].pc = "flip" =>
                [voucher |-> v, invoice |-> i, amount |-> job[w].amount] \in rows
          /\ job[w].pc = "cancel" => OwnRows(v, i) \subseteq stray.rows

(* What a reversal can rely on.                                              *)
Undoes(w) ==
    /\ Own(w)
    /\ job[w].pc # "purge" /\ job[w].invoice \notin crossed =>
          \E r \in OwnRows(job[w].own, job[w].invoice) :
             /\ r \notin stray.rows
             /\ job[w].pc # "lookup" => job[w].found /\ job[w].amount = r.amount

Worked ==
    /\ \A w \in Workers :
          /\ job[w].pc \in Settling => Settles(w)
          /\ job[w].pc \in Reversing => Undoes(w)
    /\ \A w, q \in Workers :
          /\ job[w].pc \in Reversing /\ job[q].pc \in Reversing
          /\ job[w].own = job[q].own
          => w = q

Closings ==
    \A c \in Clerks : clerk[c].pc = "check" =>
        /\ voucher[clerk[c].entry].kind = "year_end"
        /\ voucher[clerk[c].entry].status # "absent"

StatusKept == \A i \in Invoices : invoice[i].status = StatusAt(invoice[i].paid)

Booked ==
    /\ RowsKnown /\ Worked /\ Closings /\ StatusKept
    /\ \A i \in Invoices \ crossed : Agrees(i)

-----------------------------------------------------------------------------

LEMMA BookedInit == ControlInit => Booked
<1> SUFFICES ASSUME ControlInit PROVE Booked OBVIOUS
<1>1. /\ rows = {} /\ stray.rows = {}
      /\ \A w \in Workers : job[w].pc = "idle"
      /\ \A c \in Clerks : clerk[c].pc = "idle"
      /\ \A i \in Invoices : invoice[i].paid = 0 /\ invoice[i].status = "sent"
  BY DEF ControlInit, Init, Idle, Free
<1>2. RowsKnown BY <1>1, FS_EmptySet DEF RowsKnown
<1>3. Worked BY <1>1 DEF Worked, Settling, Reversing
<1>4. Closings BY <1>1 DEF Closings
<1>5. StatusKept BY <1>1 DEF StatusKept, StatusAt
<1>6. \A i \in Invoices : Counted(i) = {} BY <1>1 DEF Counted, PaymentRows
<1>7. \A i \in Invoices : Agrees(i) BY <1>1, <1>6, AmountOfNone DEF Agrees
<1> QED BY <1>2, <1>3, <1>4, <1>5, <1>7 DEF Booked

(* Two requests with the same voucher in hand: it was reversed under a        *)
(* settlement.                                                               *)
LEMMA SameVoucher ==
    ASSUME Typed, Accounted, Booked, NEW w \in Workers, NEW q \in Workers, q # w,
           job[w].pc \in Settling \cup Reversing,
           job[q].pc \in Settling \cup Reversing, job[q].own = job[w].own
    PROVE  /\ job[q].invoice = job[w].invoice /\ job[w].invoice \in crossed
           /\ job[w].pc \in Settling => job[q].pc \notin Settling
<1>1. \A p \in {w, q} : Own(p) /\ job[p].own \in Vouchers
  BY DEF Booked, Worked, Settles, Undoes, Typed, JobsFit, JobFits
<1>2. job[q].invoice = job[w].invoice BY <1>1 DEF Own
<1>3. ~(job[w].pc \in Settling /\ job[q].pc \in Settling)
  BY <1>1 DEF Accounted, Holding
<1>4. ~(job[w].pc \in Reversing /\ job[q].pc \in Reversing)
  BY DEF Booked, Worked
<1>5. \A p \in {w, q} : job[p].pc \in Reversing => ~Posted(job[p].own)
  BY <1>1 DEF Accounted, Undoing
<1>6. \A p \in {w, q} : job[p].pc \in Settling /\ job[p].invoice \notin crossed
                          => Posted(job[p].own)
  BY DEF Booked, Worked, Settles
<1> QED BY <1>2, <1>3, <1>4, <1>5, <1>6

(* What a step must leave to the other requests.                             *)
Spares(q) ==
    LET v == job[q].own
        i == job[q].invoice
    IN
    /\ job[q].pc \in Settling =>
          /\ \A r \in RowsOf(v)' : r \in rows \/ r.invoice \in crossed'
          /\ \A s \in stray'.rows : s.voucher = v => s \in stray.rows
          /\ i \notin crossed' /\ Posted(v) => Posted(v)'
    /\ i \notin crossed' =>
          /\ OwnRows(v, i)' = OwnRows(v, i)
          /\ \A r \in OwnRows(v, i) : r \in stray'.rows <=> r \in stray.rows

Named(v) ==
    voucher[v].status # "absent" =>
        /\ voucher'[v].kind = voucher[v].kind
        /\ voucher'[v].invoice = voucher[v].invoice
        /\ voucher'[v].status # "absent"

LEMMA Spared ==
    ASSUME Typed, Accounted, Booked, NEW q \in Workers, job'[q] = job[q],
           job[q].pc \in Settling \cup Reversing => Spares(q),
           crossed \subseteq crossed', \A v \in Vouchers : Named(v)
    PROVE  /\ job'[q].pc \in Settling => Settles(q)'
           /\ job'[q].pc \in Reversing => Undoes(q)'
<1> DEFINE v == job[q].own
           i == job[q].invoice
<1>1. ASSUME job[q].pc \in Settling \cup Reversing PROVE Own(q) /\ Own(q)'
  <2>1. v \in Vouchers /\ voucher[v].status # "absent"
    BY <1>1 DEF Typed, JobsFit, JobFits, Accounted, Holding, Undoing
  <2>2. Own(q) BY <1>1 DEF Booked, Worked, Settles, Undoes
  <2> QED BY <2>1, <2>2 DEF Own, Named
<1>2. ASSUME job[q].pc \in Settling PROVE Settles(q)'
  <2>1. Own(q)' BY <1>1, <1>2
  <2>2. Settles(q) BY <1>2 DEF Booked, Worked
  <2>3. (job[q].pc # "cancel" => \A s \in stray.rows : s.voucher # v)'
    BY <1>2, <2>2 DEF Settles, Spares
  <2>4. (\A r \in RowsOf(job[q].own) :
            r.invoice = job[q].invoice \/ r.invoice \in crossed)'
    <3> SUFFICES ASSUME NEW r \in rows', r.voucher = v
                 PROVE  r.invoice = i \/ r.invoice \in crossed'
      BY DEF RowsOf
    <3>1. CASE r \in rows BY <2>2, <3>1 DEF Settles, RowsOf
    <3> QED BY <1>2, <3>1 DEF Spares, RowsOf
  <2>5. ASSUME i \notin crossed'
        PROVE  /\ Posted(v)'
               /\ job[q].pc = "record" => OwnRows(v, i)' = {}
               /\ job[q].pc = "flip" =>
                     [voucher |-> v, invoice |-> i, amount |-> job[q].amount] \in rows'
               /\ job[q].pc = "cancel" => OwnRows(v, i)' \subseteq stray'.rows
    <3>1. i \notin crossed BY <2>5
    <3>2. /\ Posted(v)
          /\ job[q].pc = "record" => OwnRows(v, i) = {}
          /\ job[q].pc = "flip" =>
                [voucher |-> v, invoice |-> i, amount |-> job[q].amount] \in rows
          /\ job[q].pc = "cancel" => OwnRows(v, i) \subseteq stray.rows
      BY <2>2, <3>1 DEF Settles
    <3>3. /\ Posted(v)' /\ OwnRows(v, i)' = OwnRows(v, i)
          /\ \A r \in OwnRows(v, i) : r \in stray'.rows <=> r \in stray.rows
      BY <1>2, <2>5, <3>2 DEF Spares
    <3>4. \A r \in rows : r.voucher = v /\ r.invoice = i => r \in rows'
      BY <3>3 DEF OwnRows
    <3> QED BY <3>2, <3>3, <3>4
  <2>6. /\ OwnRows(job[q].own, job[q].invoice)' = OwnRows(v, i)'
        /\ Posted(job[q].own)' = Posted(v)'
    BY DEF OwnRows, Posted
  <2> QED BY <2>1, <2>3, <2>4, <2>5, <2>6 DEF Settles
<1>3. ASSUME job[q].pc \in Reversing PROVE Undoes(q)'
  <2>1. Own(q)' BY <1>1, <1>3
  <2>2. ASSUME job[q].pc # "purge", i \notin crossed'
        PROVE  \E r \in OwnRows(v, i)' :
                  /\ r \notin stray'.rows
                  /\ job[q].pc # "lookup" => job[q].found /\ job[q].amount = r.amount
    <3>1. i \notin crossed BY <2>2
    <3>2. PICK r \in OwnRows(v, i) :
             /\ r \notin stray.rows
             /\ job[q].pc # "lookup" => job[q].found /\ job[q].amount = r.amount
      BY <1>3, <2>2, <3>1 DEF Booked, Worked, Undoes
    <3> QED BY <1>3, <2>2, <3>2 DEF Spares
  <2>3. OwnRows(job[q].own, job[q].invoice)' = OwnRows(v, i)' BY DEF OwnRows
  <2> QED BY <2>1, <2>2, <2>3 DEF Undoes
<1> QED BY <1>2, <1>3

(* A step of the workers in W, of whom there is at most one.                 *)
LEMMA WorkedStep ==
    ASSUME Typed, Accounted, Booked, NEW W \in SUBSET Workers,
           \A w, q \in W : w = q,
           \A q \in Workers \ W :
              /\ job'[q] = job[q]
              /\ job[q].pc \in Settling \cup Reversing => Spares(q),
           crossed \subseteq crossed', \A v \in Vouchers : Named(v),
           \A w \in W :
              /\ job'[w].pc \in Settling => Settles(w)'
              /\ job'[w].pc \in Reversing =>
                    /\ Undoes(w)'
                    /\ \/ job[w].pc \in Reversing /\ job'[w].own = job[w].own
                       \/ Posted(job'[w].own)
    PROVE  Worked'
<1>1. (\A w \in Workers :
          /\ job[w].pc \in Settling => Settles(w)
          /\ job[w].pc \in Reversing => Undoes(w))'
  BY Spared
<1>2. ASSUME NEW w \in Workers, NEW q \in Workers, w # q,
             job'[w].pc \in Reversing, job'[q].pc \in Reversing,
             job'[w].own = job'[q].own
      PROVE  FALSE
  <2>1. \A p \in Workers : job[p].pc \in Reversing => ~Posted(job[p].own)
    BY DEF Typed, JobsFit, JobFits, Accounted, Undoing
  <2>2. w \notin W \/ q \notin W BY <1>2
  <2>3. \A p \in {w, q} :
           \/ job[p].pc \in Reversing /\ job'[p].own = job[p].own
           \/ p \in W /\ Posted(job'[p].own)
    BY <1>2
  <2>4. job[w].pc \in Reversing /\ job'[w].own = job[w].own
        /\ job[q].pc \in Reversing /\ job'[q].own = job[q].own
    BY <1>2, <2>1, <2>2, <2>3
  <2> QED BY <1>2, <2>4 DEF Booked, Worked
<1> QED BY <1>1, <1>2 DEF Worked

(* What an invoice counts changes only with its rows and who owes them.      *)
Seen(W, r) == r \in rows /\ r \notin stray.rows /\ \A w \in W : ~Unpaid(w, r)

LEMMA CountedSplit ==
    ASSUME NEW W \in SUBSET Workers, \A q \in Workers \ W : job'[q] = job[q]
    PROVE  /\ \A i, r : r \in Counted(i) <=>
                 /\ Seen(W, r) /\ r.invoice = i
                 /\ \A q \in Workers \ W : ~Unpaid(q, r)
           /\ \A i, r : r \in Counted(i)' <=>
                 /\ Seen(W, r)' /\ r.invoice = i
                 /\ \A q \in Workers \ W : ~Unpaid(q, r)
<1>1. \A q \in Workers \ W : \A r : Unpaid(q, r)' <=> Unpaid(q, r) BY DEF Unpaid
<1>2. \A i, r : r \in Counted(i) <=>
         r \in rows /\ r.invoice = i /\ r \notin stray.rows
         /\ \A q \in Workers : ~Unpaid(q, r)
  BY DEF Counted, PaymentRows
<1>3. \A i, r : r \in Counted(i)' <=>
         r \in rows' /\ r.invoice = i /\ r \notin stray'.rows
         /\ \A q \in Workers : ~Unpaid(q, r)'
  BY DEF Counted, PaymentRows
<1> QED BY <1>1, <1>2, <1>3 DEF Seen

(* What stands goes on standing, or is being taken back.                     *)
StillStands(i) ==
    \A r \in Counted(i) :
        Posted(r.voucher) \/ (\E w \in Workers : Takes(w, r))
        => Posted(r.voucher)' \/ \E w \in Workers : Takes(w, r)'

LEMMA AgreesKept ==
    ASSUME NEW W \in SUBSET Workers, \A q \in Workers \ W : job'[q] = job[q],
           NEW i, Agrees(i), invoice'[i].paid = invoice[i].paid, StillStands(i),
           \A r : r.invoice = i => (Seen(W, r)' <=> Seen(W, r))
    PROVE  Agrees(i)'
<1>1. Counted(i)' = Counted(i)
  <2>1. \A r : r \in Counted(i)' <=> r \in Counted(i) BY CountedSplit
  <2> QED BY <2>1
<1>2. invoice'[i].paid = AmountOf(Counted(i)) BY DEF Agrees
<1>3. \A r \in Counted(i) : Posted(r.voucher)' \/ \E w \in Workers : Takes(w, r)'
  BY DEF Agrees, StillStands
<1> QED BY <1>1, <1>2, <1>3 DEF Agrees

LEMMA CountedRows ==
    ASSUME RowsKnown, NEW i
    PROVE  /\ Counted(i) \subseteq rows /\ IsFiniteSet(Counted(i))
           /\ AmountOf(Counted(i)) \in Nat
<1>1. Counted(i) \in SUBSET rows BY DEF Counted, PaymentRows
<1>2. IsFiniteSet(Counted(i)) BY <1>1, FS_Subset DEF RowsKnown
<1> QED BY <1>1, <1>2, UnitsFinite

(* Steps that write none of the tables the invariant is about.               *)
LEMMA TablesAlone ==
    ASSUME Typed, Accounted, Booked, NEW W \in SUBSET Workers,
           \A w, q \in W : w = q, \A q \in Workers \ W : job'[q] = job[q],
           UNCHANGED <<invoice, voucher, rows, crossed>>, stray'.rows = stray.rows,
           \A w \in W :
              /\ \A r : Unpaid(w, r)' <=> Unpaid(w, r)
              /\ \A r : Takes(w, r) => Takes(w, r)'
              /\ job'[w].pc \in Settling => Settles(w)'
              /\ job'[w].pc \in Reversing =>
                    /\ Undoes(w)' /\ job[w].pc \in Reversing
                    /\ job'[w].own = job[w].own,
           Closings'
    PROVE  Booked'
<1>1. \A v \in Vouchers : Named(v) BY DEF Named
<1>2. \A v : Posted(v)' <=> Posted(v) BY DEF Posted
<1>3. \A q \in Workers \ W : Spares(q) BY <1>2 DEF Spares, RowsOf, OwnRows
<1>4. Worked'
  BY <1>1, <1>3, WorkedStep
<1>5. RowsKnown' BY <1>2 DEF Booked, RowsKnown
<1>6. StatusKept' BY DEF Booked, StatusKept
<1>7. \A i \in Invoices \ crossed' : Agrees(i)'
  <2> TAKE i \in Invoices \ crossed'
  <2>1. Agrees(i) BY DEF Booked
  <2>2. \A q \in Workers : \A r : Takes(q, r) => Takes(q, r)' BY DEF Takes
  <2>3. StillStands(i) BY <1>2, <2>2 DEF StillStands
  <2>4. \A r : Seen(W, r)' <=> Seen(W, r) BY DEF Seen
  <2> QED BY <2>1, <2>3, <2>4, AgreesKept
<1> QED BY <1>4, <1>5, <1>6, <1>7 DEF Booked

LEMMA Went ==
    ASSUME TypeOK, NEW w \in Workers, NEW s, Goto(w, s)
    PROVE  /\ \A q \in Workers \ {w} : job'[q] = job[q]
           /\ job'[w].pc = s /\ job'[w].own = job[w].own
           /\ job'[w].invoice = job[w].invoice /\ job'[w].amount = job[w].amount
           /\ job'[w].paid = job[w].paid /\ job'[w].found = job[w].found
BY DEF Goto, TypeOK, Job

LEMMA Stopped ==
    ASSUME TypeOK, NEW w \in Workers, Stop(w)
    PROVE  /\ \A q \in Workers \ {w} : job'[q] = job[q]
           /\ job'[w].pc = "idle"
           /\ \A r : ~Unpaid(w, r)' /\ ~Takes(w, r)'
BY DEF Stop, TypeOK, Idle, Unpaid, Takes

LEMMA ClosingsKept ==
    ASSUME Typed, Booked, clerk' = clerk, \A v \in Vouchers : Named(v)
    PROVE  Closings'
<1>1. \A c \in Clerks : clerk[c].pc = "check" => clerk[c].entry \in Vouchers
  BY DEF Typed, ClerksFit
<1> QED BY <1>1 DEF Booked, Closings, Named

(* Every other request is spared when rows and reports change by those of a  *)
(* voucher this one has in hand.                                             *)
LEMMA OthersSpared ==
    ASSUME Typed, Accounted, Booked, NEW w \in Workers,
           job[w].pc \in Settling \cup Reversing, crossed \subseteq crossed',
           \A v \in Vouchers \ {job[w].own} : voucher'[v] = voucher[v],
           voucher' = voucher \/ job[w].pc \in Settling,
           \A r : r.voucher # job[w].own \/ r.invoice # job[w].invoice =>
                    /\ r \in rows' <=> r \in rows
                    /\ r \in stray'.rows <=> r \in stray.rows,
           stray'.rows = stray.rows \/ job[w].pc \in Settling,
           NEW q \in Workers, q # w, job'[q] = job[q],
           job[q].pc \in Settling \cup Reversing
    PROVE  Spares(q)
<1> DEFINE v == job[q].own
           i == job[q].invoice
<1>0. v \in Vouchers /\ job[w].own \in Vouchers BY DEF Typed, JobsFit, JobFits
<1>1. CASE v # job[w].own
  <2>1. \A r : r.voucher = v =>
          /\ r \in rows' <=> r \in rows
          /\ r \in stray'.rows <=> r \in stray.rows
    BY <1>1
  <2>2. Posted(v)' <=> Posted(v) BY <1>0, <1>1 DEF Posted
  <2> QED BY <2>1, <2>2 DEF Spares, RowsOf, OwnRows
<1>2. CASE v = job[w].own
  <2>1. /\ i = job[w].invoice /\ i \in crossed
        /\ job[w].pc \in Settling => job[q].pc \notin Settling
    BY <1>2, SameVoucher
  <2>2. i \in crossed' BY <2>1
  <2>3. ASSUME job[q].pc \in Settling
        PROVE  /\ \A r \in rows' : r.voucher = v => r \in rows \/ r.invoice \in crossed'
               /\ \A s \in stray'.rows : s.voucher = v => s \in stray.rows
    BY <1>2, <2>1, <2>2, <2>3
  <2> QED BY <2>2, <2>3 DEF Spares, RowsOf
<1> QED BY <1>1, <1>2

(* What a settlement knows.                                                  *)
LEMMA AtSettling ==
    ASSUME Typed, Accounted, Booked, NEW w \in Workers, job[w].pc \in Settling
    PROVE  /\ Settles(w) /\ Own(w)
           /\ job[w].own \in Vouchers /\ voucher[job[w].own].status # "absent"
           /\ job[w].invoice \in Invoices /\ job[w].amount \in Amounts
           /\ \A r : ~Takes(w, r)
           /\ \A q \in Workers \ {w} : \A r :
                 /\ Unpaid(q, r) /\ r.voucher = job[w].own => r.invoice \in crossed
                 /\ Takes(q, r) /\ r.voucher = job[w].own => r.invoice \in crossed
<1>1. Settles(w) /\ Own(w) BY DEF Booked, Worked, Settles
<1>2. job[w].own \in Vouchers /\ job[w].invoice \in Invoices
      /\ job[w].amount \in Amounts
  BY DEF Typed, TypeOK, JobsFit, JobFits, Settling, Job
<1>3. voucher[job[w].own].status # "absent" BY <1>2 DEF Accounted, Holding
<1>4. \A r : ~Takes(w, r) BY DEF Takes, Settling
<1>5. ASSUME NEW q \in Workers \ {w}, NEW r, Unpaid(q, r) \/ Takes(q, r),
             r.voucher = job[w].own
      PROVE  r.invoice \in crossed
  <2>1. job[q].pc \in Settling \cup Reversing /\ job[q].own = job[w].own
        /\ r.invoice = job[q].invoice
    BY <1>5 DEF Unpaid, Takes, Settling, Reversing
  <2> QED BY <2>1, SameVoucher
<1> QED BY <1>1, <1>2, <1>3, <1>4, <1>5

(* A step of a settlement or a reversal on its own voucher and its rows.     *)
LEMMA WorkerStep ==
    ASSUME Typed, Accounted, Booked, clerk' = clerk, NEW w \in Workers,
           job[w].pc \in Settling \cup Reversing,
           \A q \in Workers \ {w} : job'[q] = job[q],
           crossed \subseteq crossed',
           \A v \in Vouchers \ {job[w].own} : voucher'[v] = voucher[v],
           voucher' = voucher \/ (job[w].pc \in Settling /\ Named(job[w].own)),
           \A r : r.voucher # job[w].own \/ r.invoice # job[w].invoice =>
                    /\ r \in rows' <=> r \in rows
                    /\ r \in stray'.rows <=> r \in stray.rows,
           stray'.rows = stray.rows \/ job[w].pc \in Settling,
           job'[w].pc \in Settling => Settles(w)',
           job'[w].pc \in Reversing =>
              Undoes(w)' /\ job[w].pc \in Reversing /\ job'[w].own = job[w].own,
           RowsKnown', StatusKept', \A i \in Invoices \ crossed' : Agrees(i)'
    PROVE  Booked'
<1>1. \A v \in Vouchers : Named(v) BY DEF Named
<1>2. Worked'
  <2> DEFINE W == {w}
  <2>1. W \in SUBSET Workers /\ \A p, q \in W : p = q OBVIOUS
  <2>2. \A q \in Workers \ W :
           /\ job'[q] = job[q]
           /\ job[q].pc \in Settling \cup Reversing => Spares(q)
    BY OthersSpared
  <2>3. \A p \in W : /\ job'[p].pc \in Settling => Settles(p)'
                     /\ job'[p].pc \in Reversing =>
                          /\ Undoes(p)'
                          /\ job[p].pc \in Reversing /\ job'[p].own = job[p].own
    OBVIOUS
  <2> HIDE DEF W
  <2> QED BY <1>1, <2>1, <2>2, <2>3, WorkedStep
<1>3. Closings' BY <1>1, ClosingsKept
<1> QED BY <1>2, <1>3 DEF Booked

(* The same for one worker.                                                  *)
LEMMA AgreesKeptBy ==
    ASSUME NEW w \in Workers, \A q \in Workers \ {w} : job'[q] = job[q],
           NEW i, Agrees(i), invoice'[i].paid = invoice[i].paid, StillStands(i),
           \A r : r.invoice = i =>
              (r \in rows' /\ r \notin stray'.rows /\ ~Unpaid(w, r)')
              <=> (r \in rows /\ r \notin stray.rows /\ ~Unpaid(w, r))
    PROVE  Agrees(i)'
<1> DEFINE W == {w}
<1>1. W \in SUBSET Workers /\ \A q \in Workers \ W : job'[q] = job[q] OBVIOUS
<1>2. \A r : /\ Seen(W, r)' <=> r \in rows' /\ r \notin stray'.rows /\ ~Unpaid(w, r)'
             /\ Seen(W, r) <=> r \in rows /\ r \notin stray.rows /\ ~Unpaid(w, r)
  BY DEF Seen
<1> HIDE DEF W
<1> QED BY <1>1, <1>2, AgreesKept

LEMMA JobAlone ==
    ASSUME Typed, Accounted, Booked, clerk' = clerk, NEW w \in Workers,
           \A q \in Workers \ {w} : job'[q] = job[q],
           UNCHANGED <<invoice, voucher, rows, crossed>>, stray'.rows = stray.rows,
           \A r : Unpaid(w, r)' <=> Unpaid(w, r),
           \A r : Takes(w, r) => Takes(w, r)',
           job'[w].pc \in Settling => Settles(w)',
           job'[w].pc \in Reversing =>
              Undoes(w)' /\ job[w].pc \in Reversing /\ job'[w].own = job[w].own
    PROVE  Booked'
<1> DEFINE W == {w}
<1>1. W \in SUBSET Workers /\ (\A p, q \in W : p = q)
      /\ \A q \in Workers \ W : job'[q] = job[q]
  OBVIOUS
<1>2. \A p \in W :
         /\ \A r : Unpaid(p, r)' <=> Unpaid(p, r)
         /\ \A r : Takes(p, r) => Takes(p, r)'
         /\ job'[p].pc \in Settling => Settles(p)'
         /\ job'[p].pc \in Reversing =>
              /\ Undoes(p)' /\ job[p].pc \in Reversing
              /\ job'[p].own = job[p].own
  OBVIOUS
<1>3. Closings' BY ClosingsKept DEF Named
<1> HIDE DEF W
<1> QED BY <1>1, <1>2, <1>3, TablesAlone

LEMMA BookedRecord ==
    ASSUME Typed, Accounted, Booked, clerk' = clerk, NEW w \in Workers, Record(w)
    PROVE  Booked'
<1>0. TypeOK BY DEF Typed
<1>1. PICK v : v = job[w].own OBVIOUS
<1>2. PICK i : i = job[w].invoice OBVIOUS
<1>3. job[w].pc = "record" /\ UNCHANGED <<invoice, voucher, stray, crossed>>
  BY DEF Record, At
<1>4. /\ Settles(w) /\ Own(w) /\ v \in Vouchers /\ voucher[v].status # "absent"
      /\ i \in Invoices /\ \A r : ~Takes(w, r)
      /\ \A q \in Workers \ {w} : \A r : Unpaid(q, r) /\ r.voucher = v => r.invoice \in crossed
  BY <1>1, <1>2, <1>3, AtSettling DEF Settling
<1>5. \A r : ~Unpaid(w, r) BY <1>3 DEF Unpaid
<1>6. CASE Goto(w, "cancel") /\ rows' = rows
  <2>1. /\ \A q \in Workers \ {w} : job'[q] = job[q]
        /\ job'[w].pc = "cancel" /\ job'[w].own = v /\ job'[w].invoice = i
    BY <1>0, <1>1, <1>2, <1>6, Went
  <2>2. Settles(w)'
    BY <1>1, <1>2, <1>3, <1>4, <1>6, <2>1 DEF Settles, Own, RowsOf, OwnRows, Posted
  <2>3. \A r : ~Unpaid(w, r)' BY <2>1 DEF Unpaid
  <2>4. job'[w].pc \notin Reversing BY <2>1 DEF Reversing
  <2> QED BY <1>3, <1>4, <1>5, <1>6, <2>1, <2>2, <2>3, <2>4, JobAlone
<1>7. ASSUME Goto(w, "flip"), OwnRows(v, i) = {},
             rows' = rows \cup {[voucher |-> v, invoice |-> i, amount |-> job[w].amount]}
      PROVE  Booked'
  <2>0. PICK row : row = [voucher |-> v, invoice |-> i, amount |-> job[w].amount]
    OBVIOUS
  <2>1. /\ \A q \in Workers \ {w} : job'[q] = job[q]
        /\ job'[w].pc = "flip" /\ job'[w].own = v /\ job'[w].invoice = i
        /\ job'[w].amount = job[w].amount
    BY <1>0, <1>1, <1>2, <1>7, Went
  <2>2. rows' = rows \cup {row} /\ row.voucher = v /\ row.invoice = i /\ row \notin rows
        /\ \A r \in rows : r.voucher # v \/ r.invoice # i
    BY <1>7, <2>0 DEF OwnRows
  <2>3. Settles(w)'
    <3>1. Own(w)' BY <1>1, <1>2, <1>3, <1>4, <2>1 DEF Own
    <3>2. \A s \in stray'.rows : s.voucher # v
      BY <1>1, <1>3, <1>4 DEF Settles
    <3>3. \A r \in rows' : r.voucher = v => r.invoice = i \/ r.invoice \in crossed'
      BY <1>1, <1>2, <1>3, <1>4, <2>2 DEF Settles, RowsOf
    <3>4. i \notin crossed' => Posted(v)'
      BY <1>1, <1>2, <1>3, <1>4 DEF Settles, Posted
    <3>5. [voucher |-> v, invoice |-> i, amount |-> job'[w].amount] \in rows'
      BY <2>0, <2>1, <2>2
    <3> QED BY <2>1, <3>1, <3>2, <3>3, <3>4, <3>5 DEF Settles, RowsOf, Posted
  <2>4. RowsKnown'
    <3>1. IsFiniteSet(rows') BY <2>2, FS_AddElement DEF Booked, RowsKnown
    <3>2. \A r \in rows' \cup stray'.rows :
             voucher'[r.voucher].status # "absent" /\ voucher'[r.voucher].kind # "year_end"
      BY <1>1, <1>3, <1>4, <2>2 DEF Booked, RowsKnown, Own
    <3>3. \A r, s \in rows' : r.voucher = s.voucher /\ r.invoice = s.invoice => r = s
      BY <2>2 DEF Booked, RowsKnown
    <3>4. \A r \in stray'.rows : r \in rows' \/ ~Posted(r.voucher)'
      BY <1>3, <2>2 DEF Booked, RowsKnown, Posted
    <3> QED BY <3>1, <3>2, <3>3, <3>4 DEF RowsKnown
  <2>5. StatusKept' BY <1>3 DEF Booked, StatusKept
  <2>6. ASSUME NEW j \in Invoices \ crossed' PROVE Agrees(j)'
    <3>1. \A r : Unpaid(w, r)' <=> r.voucher = v /\ r.invoice = i
      BY <2>1 DEF Unpaid
    <3>2. \A r : (r \in rows' /\ r \notin stray'.rows /\ ~Unpaid(w, r)')
                 <=> (r \in rows /\ r \notin stray.rows /\ ~Unpaid(w, r))
      BY <1>3, <1>5, <2>2, <3>1
    <3>3. \A q \in Workers : \A r : Takes(q, r) => Takes(q, r)'
      BY <1>4, <2>1 DEF Takes
    <3>4. StillStands(j) BY <1>3, <3>3 DEF StillStands, Posted
    <3>5. Agrees(j) /\ invoice'[j].paid = invoice[j].paid BY <1>3, <2>6 DEF Booked
    <3> QED BY <2>1, <3>2, <3>4, <3>5, AgreesKeptBy
  <2>7. \A r : r.voucher # job[w].own \/ r.invoice # job[w].invoice =>
                    /\ r \in rows' <=> r \in rows
                    /\ r \in stray'.rows <=> r \in stray.rows
    BY <1>1, <1>2, <1>3, <2>2
  <2>8. /\ job[w].pc \in Settling \cup Reversing
        /\ job'[w].pc \in Settling /\ job'[w].pc \notin Reversing
        /\ crossed \subseteq crossed' /\ voucher' = voucher /\ stray'.rows = stray.rows
    BY <1>3, <2>1 DEF Settling, Reversing
  <2> QED BY <2>1, <2>3, <2>4, <2>5, <2>6, <2>7, <2>8, WorkerStep
<1> QED BY <1>1, <1>2, <1>6, <1>7 DEF Record

LEMMA BookedFlip ==
    ASSUME Typed, Accounted, Booked, clerk' = clerk, NEW w \in Workers, Flip(w)
    PROVE  Booked'
<1>0. TypeOK BY DEF Typed
<1>1. PICK v : v = job[w].own OBVIOUS
<1>2. PICK i : i = job[w].invoice OBVIOUS
<1>3. job[w].pc = "flip" /\ UNCHANGED <<voucher, rows, stray>>
  BY DEF Flip, At
<1>4. /\ Settles(w) /\ Own(w) /\ v \in Vouchers /\ voucher[v].status # "absent"
      /\ i \in Invoices /\ job[w].amount \in Amounts /\ \A r : ~Takes(w, r)
      /\ \A q \in Workers \ {w} : \A r : Unpaid(q, r) /\ r.voucher = v => r.invoice \in crossed
  BY <1>1, <1>2, <1>3, AtSettling DEF Settling
<1>5. \A r : Unpaid(w, r) <=> r.voucher = v /\ r.invoice = i
  BY <1>1, <1>2, <1>3 DEF Unpaid
<1>6. CASE Goto(w, "remove") /\ UNCHANGED <<invoice, crossed>>
  <2>1. /\ \A q \in Workers \ {w} : job'[q] = job[q]
        /\ job'[w].pc = "remove" /\ job'[w].own = v /\ job'[w].invoice = i
    BY <1>0, <1>1, <1>2, <1>6, Went
  <2>2. Settles(w)'
    BY <1>1, <1>2, <1>3, <1>4, <1>6, <2>1 DEF Settles, Own, RowsOf, Posted
  <2>3. \A r : Unpaid(w, r)' <=> Unpaid(w, r) BY <1>5, <2>1 DEF Unpaid
  <2>4. job'[w].pc \notin Reversing BY <2>1 DEF Reversing
  <2> QED BY <1>3, <1>4, <1>6, <2>1, <2>2, <2>3, <2>4, JobAlone
<1>7. ASSUME SetPaid(i, job[w].paid + job[w].amount), Stop(w),
             crossed' = IF Overwrites(w) THEN crossed \cup {i} ELSE crossed,
             Payable(i)
      PROVE  Booked'
  <2>1. /\ \A q \in Workers \ {w} : job'[q] = job[q]
        /\ job'[w].pc = "idle" /\ \A r : ~Unpaid(w, r)' /\ ~Takes(w, r)'
    BY <1>0, <1>7, Stopped
  <2>2. /\ \A j \in Invoices \ {i} : invoice'[j] = invoice[j]
        /\ invoice'[i].paid = job[w].paid + job[w].amount
        /\ invoice'[i].status = StatusAt(invoice'[i].paid)
    BY <1>0, <1>4, <1>7 DEF SetPaid, TypeOK
  <2>3. StatusKept' BY <2>2 DEF Booked, StatusKept
  <2>4. crossed \subseteq crossed' BY <1>7
  <2>5. RowsKnown' BY <1>3 DEF Booked, RowsKnown, Posted
  <2>6. \A q \in Workers : \A r : Takes(q, r) => Takes(q, r)'
    BY <1>4, <2>1 DEF Takes
  <2>7. \A j : StillStands(j) BY <1>3, <2>6 DEF StillStands, Posted
  <2>8. ASSUME NEW j \in Invoices \ crossed', j # i PROVE Agrees(j)'
    <3>1. Agrees(j) /\ invoice'[j].paid = invoice[j].paid
      BY <2>2, <2>4, <2>8 DEF Booked
    <3>2. \A r : r.invoice = j =>
            ((r \in rows' /\ r \notin stray'.rows /\ ~Unpaid(w, r)')
             <=> (r \in rows /\ r \notin stray.rows /\ ~Unpaid(w, r)))
      BY <1>3, <1>5, <2>1, <2>8
    <3> QED BY <2>1, <2>7, <3>1, <3>2, AgreesKeptBy
  <2>9. ASSUME i \notin crossed' PROVE Agrees(i)'
    <3>0. PICK row : row = [voucher |-> v, invoice |-> i, amount |-> job[w].amount]
      OBVIOUS
    <3>1. i \notin crossed /\ job[w].paid = invoice[i].paid
      BY <1>2, <1>7, <2>9 DEF Overwrites
    <3>2. /\ row \in rows /\ row \notin stray.rows /\ Posted(v)
          /\ row.voucher = v /\ row.invoice = i /\ row.amount = job[w].amount
      BY <1>1, <1>2, <1>3, <1>4, <3>0, <3>1 DEF Settles
    <3>3. \A r \in rows : r.voucher = v /\ r.invoice = i => r = row
      BY <3>2 DEF Booked, RowsKnown
    <3>4. \A q \in Workers \ {w} : ~Unpaid(q, row) BY <1>4, <3>1, <3>2
    <3>5. \A q \in Workers \ {w} : \A r : Unpaid(q, r)' <=> Unpaid(q, r)
      BY <2>1 DEF Unpaid
    <3>6. Counted(i)' = Counted(i) \cup {row} /\ row \notin Counted(i)
      <4>1. \A r : r \in Counted(i) <=>
               r \in rows /\ r.invoice = i /\ r \notin stray.rows /\ ~Unpaid(w, r)
               /\ \A q \in Workers \ {w} : ~Unpaid(q, r)
        BY DEF Counted, PaymentRows
      <4>2. \A r : r \in Counted(i)' <=>
               r \in rows /\ r.invoice = i /\ r \notin stray.rows
               /\ \A q \in Workers \ {w} : ~Unpaid(q, r)
        BY <1>3, <2>1, <3>5 DEF Counted, PaymentRows
      <4>3. \A r : r \in Counted(i)' <=> r \in Counted(i) \/ r = row
        BY <1>5, <3>2, <3>3, <3>4, <4>1, <4>2
      <4>4. row \notin Counted(i) BY <1>5, <3>2, <4>1
      <4> QED BY <4>3, <4>4
    <3>7. IsFiniteSet(Counted(i)) BY CountedRows DEF Booked
    <3>8. AmountOf(Counted(i) \cup {row}) = AmountOf(Counted(i)) + row.amount
      BY <1>4, <3>2, <3>6, <3>7, AmountOfMore
    <3>9. invoice[i].paid = AmountOf(Counted(i)) /\ Agrees(i)
      BY <1>4, <3>1 DEF Booked, Agrees
    <3>10. invoice'[i].paid = AmountOf(Counted(i) \cup {row})
      BY <2>2, <3>1, <3>2, <3>8, <3>9
    <3>11. \A r \in Counted(i) \cup {row} :
              Posted(r.voucher)' \/ \E q \in Workers : Takes(q, r)'
      BY <1>3, <2>7, <3>2, <3>9 DEF StillStands, Agrees, Posted
    <3> QED BY <3>6, <3>10, <3>11 DEF Agrees
  <2>10. /\ job[w].pc \in Settling \cup Reversing
         /\ job'[w].pc \notin Settling /\ job'[w].pc \notin Reversing
         /\ voucher' = voucher /\ stray'.rows = stray.rows /\ rows' = rows
    BY <1>3, <2>1 DEF Settling, Reversing
  <2>11. \A j \in Invoices \ crossed' : Agrees(j)' BY <2>8, <2>9
  <2> QED BY <2>1, <2>3, <2>4, <2>5, <2>10, <2>11, WorkerStep
<1> QED BY <1>2, <1>6, <1>7 DEF Flip, FlipAccepted

LEMMA BookedRemove ==
    ASSUME Typed, Accounted, Booked, clerk' = clerk, NEW w \in Workers, Remove(w)
    PROVE  Booked'
<1>0. TypeOK BY DEF Typed
<1>1. PICK v : v = job[w].own OBVIOUS
<1>2. PICK i : i = job[w].invoice OBVIOUS
<1>3. /\ job[w].pc = "remove" /\ Goto(w, "cancel") /\ UNCHANGED <<invoice, voucher, crossed>>
      /\ \/ rows' = rows \ OwnRows(v, i) /\ stray'.rows = stray.rows
         \/ rows' = rows /\ stray'.rows = stray.rows \cup OwnRows(v, i)
  BY <1>1, <1>2 DEF Remove, At, Strand
<1>4. /\ Settles(w) /\ Own(w) /\ v \in Vouchers /\ voucher[v].status # "absent"
      /\ \A r : ~Takes(w, r)
  BY <1>1, <1>2, <1>3, AtSettling DEF Settling
<1>5. \A r : Unpaid(w, r) <=> r.voucher = v /\ r.invoice = i
  BY <1>1, <1>2, <1>3 DEF Unpaid
<1>6. /\ \A q \in Workers \ {w} : job'[q] = job[q]
      /\ job'[w].pc = "cancel" /\ job'[w].own = v /\ job'[w].invoice = i
  BY <1>0, <1>1, <1>2, <1>3, Went
<1>7. \A r : ~Unpaid(w, r)' BY <1>6 DEF Unpaid
<1>8. \A r : /\ r.voucher # v \/ r.invoice # i =>
                  /\ r \in rows' <=> r \in rows
                  /\ r \in stray'.rows <=> r \in stray.rows
             /\ r.voucher = v /\ r.invoice = i => r \notin rows' \/ r \in stray'.rows
  BY <1>3 DEF OwnRows
<1>9. rows' \subseteq rows /\ stray.rows \subseteq stray'.rows
      /\ \A r \in stray'.rows : r \in stray.rows \/ r \in rows'
  BY <1>3 DEF OwnRows
<1>10. Settles(w)'
  <2>1. Own(w)' BY <1>1, <1>2, <1>3, <1>4, <1>6 DEF Own
  <2>2. \A r \in rows' : r.voucher = v => r.invoice = i \/ r.invoice \in crossed'
    BY <1>1, <1>2, <1>3, <1>4, <1>9 DEF Settles, RowsOf
  <2>3. i \notin crossed' => Posted(v)'
    BY <1>1, <1>2, <1>3, <1>4 DEF Settles, Posted
  <2>4. \A r \in rows' : r.voucher = v /\ r.invoice = i => r \in stray'.rows BY <1>8
  <2> QED BY <1>6, <2>1, <2>2, <2>3, <2>4 DEF Settles, RowsOf, OwnRows, Posted
<1>11. RowsKnown'
  <2>1. IsFiniteSet(rows') BY <1>9, FS_Subset DEF Booked, RowsKnown
  <2>2. \A r \in rows' \cup stray'.rows :
           voucher'[r.voucher].status # "absent" /\ voucher'[r.voucher].kind # "year_end"
    BY <1>3, <1>9 DEF Booked, RowsKnown
  <2>3. \A r, s \in rows' : r.voucher = s.voucher /\ r.invoice = s.invoice => r = s
    BY <1>9 DEF Booked, RowsKnown
  <2>4. \A r \in stray'.rows : r \in rows' \/ ~Posted(r.voucher)'
    <3> TAKE r \in stray'.rows
    <3>1. CASE r \in stray.rows
      <4>1. r.voucher # v BY <1>1, <1>3, <1>4, <3>1 DEF Settles
      <4> QED BY <1>3, <1>8, <3>1, <4>1 DEF Booked, RowsKnown, Posted
    <3> QED BY <1>9, <3>1
  <2> QED BY <2>1, <2>2, <2>3, <2>4 DEF RowsKnown
<1>12. StatusKept' BY <1>3 DEF Booked, StatusKept
<1>13. ASSUME NEW j \in Invoices \ crossed' PROVE Agrees(j)'
  <2>1. Agrees(j) /\ invoice'[j].paid = invoice[j].paid BY <1>3, <1>13 DEF Booked
  <2>2. \A r : (r \in rows' /\ r \notin stray'.rows /\ ~Unpaid(w, r)')
               <=> (r \in rows /\ r \notin stray.rows /\ ~Unpaid(w, r))
    BY <1>5, <1>7, <1>8
  <2>3. \A q \in Workers : \A r : Takes(q, r) => Takes(q, r)'
    BY <1>4, <1>6 DEF Takes
  <2>4. StillStands(j) BY <1>3, <2>3 DEF StillStands, Posted
  <2> QED BY <1>6, <2>1, <2>2, <2>4, AgreesKeptBy
<1>14. /\ job[w].pc \in Settling
       /\ job'[w].pc \in Settling /\ job'[w].pc \notin Reversing
       /\ voucher' = voucher /\ crossed' = crossed
  BY <1>3, <1>6 DEF Settling, Reversing
<1>15. \A r : r.voucher # job[w].own \/ r.invoice # job[w].invoice =>
                    /\ r \in rows' <=> r \in rows
                    /\ r \in stray'.rows <=> r \in stray.rows
  BY <1>1, <1>2, <1>8
<1> QED BY <1>6, <1>10, <1>11, <1>12, <1>13, <1>14, <1>15, WorkerStep

LEMMA BookedCancel ==
    ASSUME Typed, Accounted, Booked, clerk' = clerk, NEW w \in Workers, Cancel(w)
    PROVE  Booked'
<1>0. TypeOK BY DEF Typed
<1>1. PICK v : v = job[w].own OBVIOUS
<1>2. PICK i : i = job[w].invoice OBVIOUS
<1>3. /\ job[w].pc = "cancel" /\ Stop(w) /\ UNCHANGED <<invoice, rows, crossed>>
      /\ stray'.rows = stray.rows
      /\ voucher' = voucher \/ voucher' = [voucher EXCEPT ![v].status = "cancelled"]
  BY <1>1 DEF Cancel, At, Strand
<1>4. /\ Settles(w) /\ v \in Vouchers /\ \A r : ~Takes(w, r)
      /\ voucher[v].status # "absent"
  BY <1>1, <1>2, <1>3, AtSettling DEF Settling
<1>5. \A r : ~Unpaid(w, r) BY <1>3 DEF Unpaid
<1>6. /\ \A q \in Workers \ {w} : job'[q] = job[q]
      /\ job'[w].pc = "idle" /\ \A r : ~Unpaid(w, r)' /\ ~Takes(w, r)'
  BY <1>0, <1>3, Stopped
<1>7. CASE voucher' = voucher
  <2>1. job'[w].pc \notin Settling /\ job'[w].pc \notin Reversing
    BY <1>6 DEF Settling, Reversing
  <2> QED BY <1>3, <1>4, <1>5, <1>6, <1>7, <2>1, JobAlone
<1>8. CASE voucher' = [voucher EXCEPT ![v].status = "cancelled"]
  <2>1. /\ voucher'[v].status = "cancelled" /\ voucher'[v].kind = voucher[v].kind
        /\ voucher'[v].invoice = voucher[v].invoice
        /\ \A u \in Vouchers \ {v} : voucher'[u] = voucher[u]
        /\ \A u : u \notin Vouchers => voucher'[u] = voucher[u]
    BY <1>0, <1>4, <1>8 DEF TypeOK, Voucher
  <2>2. \A u \in Vouchers : Named(u) BY <2>1 DEF Named
  <2>3. ~Posted(v)' /\ \A u : u # v => (Posted(u)' <=> Posted(u))
    BY <2>1 DEF Posted
  <2>4. \A r \in rows \cup stray.rows : r.voucher \in Vouchers
    BY <1>0 DEF TypeOK, Row
  <2>5. RowsKnown'
    <3>1. \A r \in rows \cup stray.rows :
            voucher'[r.voucher].status # "absent" /\ voucher'[r.voucher].kind # "year_end"
      BY <2>2, <2>4 DEF Booked, RowsKnown, Named
    <3> QED BY <1>3, <2>3, <3>1 DEF Booked, RowsKnown
  <2>6. StatusKept' BY <1>3 DEF Booked, StatusKept
  <2>7. ASSUME NEW j \in Invoices \ crossed' PROVE Agrees(j)'
    <3>1. Agrees(j) /\ invoice'[j].paid = invoice[j].paid BY <1>3, <2>7 DEF Booked
    <3>2. ASSUME NEW r \in Counted(j), r.voucher = v PROVE FALSE
      <4>1. r \in rows /\ r \notin stray.rows /\ r.invoice = j
        BY DEF Counted, PaymentRows
      <4>2. j = i BY <1>1, <1>2, <1>3, <1>4, <2>7, <3>2, <4>1 DEF Settles, RowsOf
      <4> QED BY <1>1, <1>2, <1>3, <1>4, <2>7, <3>2, <4>1, <4>2 DEF Settles, OwnRows
    <3>3. \A q \in Workers : \A r : Takes(q, r) => Takes(q, r)'
      BY <1>4, <1>6 DEF Takes
    <3>4. StillStands(j) BY <2>3, <3>2, <3>3 DEF StillStands
    <3> QED BY <1>3, <1>5, <1>6, <3>1, <3>4, AgreesKeptBy
  <2>8. /\ job[w].pc \in Settling
        /\ job'[w].pc \notin Settling /\ job'[w].pc \notin Reversing
        /\ crossed' = crossed /\ Named(job[w].own)
        /\ \A u \in Vouchers \ {job[w].own} : voucher'[u] = voucher[u]
    BY <1>1, <1>3, <1>4, <1>6, <2>1, <2>2 DEF Settling, Reversing
  <2> QED BY <1>3, <1>6, <2>5, <2>6, <2>7, <2>8, WorkerStep
<1> QED BY <1>3, <1>7, <1>8

(* A new voucher: nothing is known of it yet.                                *)
LEMMA NewVoucher ==
    ASSUME Typed, Accounted, Booked, Spending # {}, NEW n, n = NextVoucher,
           NEW kind, NEW i, NEW amount, PostEntry(kind, i, amount)
    PROVE  /\ n \in Vouchers /\ voucher[n].status = "absent"
           /\ voucher'[n].status = "posted" /\ voucher'[n].kind = kind
           /\ voucher'[n].invoice = i
           /\ \A u \in Vouchers : Named(u)
           /\ \A u \in Vouchers : u # n => voucher'[u] = voucher[u]
           /\ \A r \in rows \cup stray.rows : r.voucher \in Vouchers /\ r.voucher # n
           /\ \A q \in Workers : ~Holding(q, n) /\ ~Undoing(q, n)
           /\ \A r \in rows \cup stray.rows : Posted(r.voucher)' <=> Posted(r.voucher)
<1>1. n \in Vouchers /\ voucher[n].status = "absent" BY VoucherLeft
<1>2. /\ voucher'[n].status = "posted" /\ voucher'[n].kind = kind
      /\ voucher'[n].invoice = i
      /\ \A u \in Vouchers : u # n => voucher'[u] = voucher[u]
  BY <1>1 DEF PostEntry, Typed, TypeOK
<1>3. \A u \in Vouchers : Named(u) BY <1>1, <1>2 DEF Named
<1>4. \A r \in rows \cup stray.rows : r.voucher \in Vouchers /\ r.voucher # n
  BY <1>1 DEF Typed, TypeOK, Row, Booked, RowsKnown
<1>5. \A q \in Workers : ~Holding(q, n) /\ ~Undoing(q, n)
  BY <1>1 DEF Accounted
<1> QED BY <1>1, <1>2, <1>3, <1>4, <1>5 DEF Posted

(* Posting a voucher leaves the invoices and their rows alone.               *)
LEMMA PostingBooked ==
    ASSUME Typed, Accounted, Booked, NEW n \in Vouchers,
           UNCHANGED <<invoice, rows, stray, crossed>>,
           NEW W \in SUBSET Workers, \A w, q \in W : w = q,
           \A q \in Workers \ W : job'[q] = job[q],
           \A w \in W : /\ \A r : ~Unpaid(w, r) /\ ~Takes(w, r)
                        /\ \A r : ~Unpaid(w, r)'
                        /\ job'[w].pc \in Settling => Settles(w)'
                        /\ job'[w].pc \notin Reversing,
           \A u \in Vouchers : Named(u),
           \A u \in Vouchers : u # n => voucher'[u] = voucher[u],
           \A q \in Workers : ~Holding(q, n) /\ ~Undoing(q, n),
           \A r \in rows \cup stray.rows : Posted(r.voucher)' <=> Posted(r.voucher),
           \A r \in rows \cup stray.rows : r.voucher \in Vouchers,
           Closings'
    PROVE  Booked'
<1>1. RowsKnown' BY DEF Booked, RowsKnown, Named
<1>2. StatusKept' BY DEF Booked, StatusKept
<1>3. ASSUME NEW q \in Workers \ W, job[q].pc \in Settling \cup Reversing
      PROVE  Spares(q)
  <2>1. job[q].own \in Vouchers /\ job[q].own # n
    BY <1>3 DEF Typed, JobsFit, JobFits, Holding, Undoing
  <2>2. Posted(job[q].own)' <=> Posted(job[q].own) BY <1>3, <2>1 DEF Posted
  <2> QED BY <1>3, <2>2 DEF Spares, RowsOf, OwnRows
<1>4. Worked' BY <1>3, WorkedStep
<1>5. ASSUME NEW j \in Invoices \ crossed' PROVE Agrees(j)'
  <2>1. Agrees(j) /\ invoice'[j].paid = invoice[j].paid BY <1>5 DEF Booked
  <2>2. \A q \in Workers : \A r : Takes(q, r) => Takes(q, r)' BY DEF Takes
  <2>3. Counted(j) \subseteq rows BY DEF Counted, PaymentRows
  <2>4. StillStands(j) BY <2>2, <2>3 DEF StillStands
  <2>5. \A r : Seen(W, r)' <=> Seen(W, r) BY DEF Seen
  <2> QED BY <2>1, <2>4, <2>5, AgreesKept
<1> QED BY <1>1, <1>2, <1>4, <1>5 DEF Booked

LEMMA BookedPost ==
    ASSUME Typed, Accounted, Booked, clerk' = clerk, NEW w \in Workers, Post(w)
    PROVE  Booked'
<1>0. TypeOK BY DEF Typed
<1>1. job[w].pc = "post" /\ UNCHANGED <<invoice, rows, stray, crossed>>
  BY DEF Post, At
<1>2. \A r : ~Unpaid(w, r) /\ ~Takes(w, r) BY <1>1 DEF Unpaid, Takes
<1>3. CASE Stop(w) /\ UNCHANGED voucher
  <2>1. /\ \A q \in Workers \ {w} : job'[q] = job[q]
        /\ job'[w].pc = "idle" /\ \A r : ~Unpaid(w, r)'
    BY <1>0, <1>3, Stopped
  <2>2. job'[w].pc \notin Settling /\ job'[w].pc \notin Reversing
    BY <2>1 DEF Settling, Reversing
  <2> QED BY <1>1, <1>2, <1>3, <2>1, <2>2, JobAlone
<1>4. ASSUME PostEntry("invoice_paid", job[w].invoice, job[w].amount),
             job' = [job EXCEPT ![w].pc = "record", ![w].own = NextVoucher]
      PROVE  Booked'
  <2>1. PICK n : n = NextVoucher OBVIOUS
  <2>2. Spending # {} BY <1>1 DEF PayersPosting, Spending
  <2>3. /\ n \in Vouchers /\ voucher[n].status = "absent"
        /\ voucher'[n].status = "posted" /\ voucher'[n].kind = "invoice_paid"
        /\ voucher'[n].invoice = job[w].invoice
        /\ \A u \in Vouchers : Named(u)
        /\ \A u \in Vouchers : u # n => voucher'[u] = voucher[u]
        /\ \A r \in rows \cup stray.rows : r.voucher \in Vouchers /\ r.voucher # n
        /\ \A q \in Workers : ~Holding(q, n) /\ ~Undoing(q, n)
        /\ \A r \in rows \cup stray.rows : Posted(r.voucher)' <=> Posted(r.voucher)
    BY <1>4, <2>1, <2>2, NewVoucher
  <2>4. /\ \A q \in Workers \ {w} : job'[q] = job[q]
        /\ job'[w].pc = "record" /\ job'[w].own = n
        /\ job'[w].invoice = job[w].invoice
    BY <1>0, <1>4, <2>1 DEF TypeOK, Job
  <2>5. Settles(w)'
    <3>1. n # NoVoucher BY <2>3, PaymentsAssumption DEF Vouchers, NoVoucher
    <3>2. Own(w)' BY <2>3, <2>4 DEF Own
    <3>3. \A r \in rows' \cup stray'.rows : r.voucher # n BY <1>1, <2>3
    <3>4. Posted(n)' BY <2>3, <3>1 DEF Posted
    <3> QED BY <2>4, <3>2, <3>3, <3>4 DEF Settles, RowsOf, OwnRows, Posted
  <2>6. \A r : ~Unpaid(w, r)' BY <2>4 DEF Unpaid
  <2>7. Closings' BY <2>3, ClosingsKept
  <2>8. job'[w].pc \notin Reversing BY <2>4 DEF Reversing
  <2> DEFINE W == {w}
  <2>9. W \in SUBSET Workers /\ (\A p, q \in W : p = q)
        /\ \A q \in Workers \ W : job'[q] = job[q]
    BY <2>4
  <2>10. \A p \in W : /\ \A r : ~Unpaid(p, r) /\ ~Takes(p, r)
                      /\ \A r : ~Unpaid(p, r)'
                      /\ job'[p].pc \in Settling => Settles(p)'
                      /\ job'[p].pc \notin Reversing
    BY <1>2, <2>5, <2>6, <2>8
  <2> HIDE DEF W
  <2> QED BY <1>1, <2>3, <2>7, <2>9, <2>10, PostingBooked
<1> QED BY <1>3, <1>4 DEF Post

LEMMA BookedSettle ==
    ASSUME Typed, Accounted, Booked, clerk' = clerk, NEW w \in Workers,
           NEW i, NEW amount, Settle(w, i, amount)
    PROVE  Booked'
<1>1. /\ job[w].pc = "idle" /\ UNCHANGED <<invoice, voucher, rows, crossed, stray>>
      /\ job' = [job EXCEPT ![w] = [Idle EXCEPT !.pc = "post", !.invoice = i,
                                      !.amount = amount, !.paid = invoice[i].paid]]
  BY DEF Settle, tables
<1>2. /\ \A q \in Workers \ {w} : job'[q] = job[q]
      /\ job'[w].pc = "post"
  BY <1>1 DEF Typed, TypeOK, Idle
<1>3. \A r : ~Unpaid(w, r) /\ ~Takes(w, r) /\ ~Unpaid(w, r)'
  BY <1>1, <1>2 DEF Unpaid, Takes
<1>4. job'[w].pc \notin Settling /\ job'[w].pc \notin Reversing
  BY <1>2 DEF Settling, Reversing
<1> QED BY <1>1, <1>2, <1>3, <1>4, JobAlone

(* What a reversal knows. As long as nobody got in its way the row of the    *)
(* voucher it has reversed is still counted when it takes back what is paid. *)
LEMMA AtReversing ==
    ASSUME Typed, Accounted, Booked, NEW w \in Workers, job[w].pc \in Reversing
    PROVE  /\ Undoes(w) /\ Own(w) /\ ~Posted(job[w].own)
           /\ job[w].own \in Vouchers /\ job[w].invoice \in Invoices
           /\ job[w] \in Job
           /\ \A q \in Workers \ {w} : \A r :
                 Unpaid(q, r) /\ r.voucher = job[w].own => r.invoice \in crossed
<1>1. Undoes(w) /\ Own(w) BY DEF Booked, Worked, Undoes
<1>2. job[w].own \in Vouchers /\ job[w].invoice \in Invoices /\ job[w] \in Job
  BY DEF Typed, TypeOK, JobsFit, JobFits, Reversing
<1>3. ~Posted(job[w].own) BY <1>2 DEF Accounted, Undoing
<1>4. ASSUME NEW q \in Workers \ {w}, NEW r, Unpaid(q, r), r.voucher = job[w].own
      PROVE  r.invoice \in crossed
  <2>1. job[q].pc \in Settling \cup Reversing /\ job[q].own = job[w].own
        /\ r.invoice = job[q].invoice
    BY <1>4 DEF Unpaid, Settling, Reversing
  <2> QED BY <2>1, SameVoucher
<1> QED BY <1>1, <1>2, <1>3, <1>4

LEMMA LookupReads ==
    ASSUME TypeOK, NEW w \in Workers, Lookup(w), NEW own,
           own = OwnRows(job[w].own, job[w].invoice)
    PROVE  /\ \A q \in Workers \ {w} : job'[q] = job[q]
           /\ job'[w].pc = "reread" /\ job'[w].own = job[w].own
           /\ job'[w].invoice = job[w].invoice
           /\ job'[w].found = (own # {})
           /\ job'[w].amount = IF own = {} THEN 0 ELSE (CHOOSE r \in own : TRUE).amount
<1>1. PICK found : found = (own # {}) OBVIOUS
<1>2. PICK amount :
         amount = IF own = {} THEN 0 ELSE (CHOOSE r \in own : TRUE).amount
  OBVIOUS
<1>3. job' = [job EXCEPT ![w].pc = "reread", ![w].found = found,
                         ![w].amount = amount]
  BY <1>1, <1>2 DEF Lookup
<1>4. job \in [Workers -> Job] BY DEF TypeOK
<1>5. job' = [job EXCEPT ![w] = [job[w] EXCEPT !.pc = "reread", !.found = found,
                                              !.amount = amount]]
  BY <1>3, <1>4
<1>6. job'[w] = [job[w] EXCEPT !.pc = "reread", !.found = found, !.amount = amount]
      /\ \A q \in Workers \ {w} : job'[q] = job[q]
  BY <1>4, <1>5
<1>7. /\ job'[w].pc = "reread" /\ job'[w].own = job[w].own
      /\ job'[w].invoice = job[w].invoice
      /\ job'[w].found = found /\ job'[w].amount = amount
  BY <1>4, <1>6 DEF Job
<1> QED BY <1>1, <1>2, <1>6, <1>7

LEMMA RereadReads ==
    ASSUME TypeOK, NEW w \in Workers, Reread(w)
    PROVE  /\ \A q \in Workers \ {w} : job'[q] = job[q]
           /\ job'[w].pc = "revert" /\ job'[w].own = job[w].own
           /\ job'[w].invoice = job[w].invoice
           /\ job'[w].found = job[w].found /\ job'[w].amount = job[w].amount
<1>1. PICK paid : paid = invoice[job[w].invoice].paid OBVIOUS
<1>2. job' = [job EXCEPT ![w].pc = "revert", ![w].paid = paid] BY <1>1 DEF Reread
<1> QED BY <1>2 DEF TypeOK, Job

LEMMA BookedReading ==
    ASSUME Typed, Accounted, Booked, clerk' = clerk, NEW w \in Workers,
           Lookup(w) \/ Reread(w)
    PROVE  Booked'
<1>0. TypeOK BY DEF Typed
<1>1. PICK v : v = job[w].own OBVIOUS
<1>2. PICK i : i = job[w].invoice OBVIOUS
<1>3. /\ job[w].pc \in {"lookup", "reread"}
      /\ UNCHANGED <<invoice, voucher, rows, crossed, stray>>
  BY DEF Lookup, Reread, At, tables
<1>4. Undoes(w) /\ Own(w) /\ job[w] \in Job
  BY <1>3, AtReversing DEF Reversing
<1>5. /\ \A q \in Workers \ {w} : job'[q] = job[q]
      /\ job'[w].own = v /\ job'[w].invoice = i
      /\ job'[w].pc = IF job[w].pc = "lookup" THEN "reread" ELSE "revert"
  <2>1. Lookup(w) => job[w].pc = "lookup" BY DEF Lookup, At
  <2>2. Reread(w) => job[w].pc = "reread" BY DEF Reread, At
  <2> QED BY <1>0, <1>1, <1>2, <2>1, <2>2, LookupReads, RereadReads
<1>6. \A r : /\ ~Unpaid(w, r) /\ ~Unpaid(w, r)'
             /\ Takes(w, r) => Takes(w, r)'
  BY <1>1, <1>2, <1>3, <1>5 DEF Unpaid, Takes
<1>7. Undoes(w)'
  <2>1. Own(w)' BY <1>1, <1>2, <1>3, <1>4, <1>5 DEF Own
  <2>2. ASSUME i \notin crossed
        PROVE  \E r \in OwnRows(v, i) :
                  r \notin stray.rows /\ job'[w].found /\ job'[w].amount = r.amount
    <3>1. PICK r \in OwnRows(v, i) :
             /\ r \notin stray.rows
             /\ job[w].pc # "lookup" => job[w].found /\ job[w].amount = r.amount
      BY <1>1, <1>2, <1>3, <1>4, <2>2 DEF Undoes
    <3>2. CASE job[w].pc = "lookup"
      <4>1. PICK own : own = OwnRows(v, i) OBVIOUS
      <4>2. own = {r} BY <3>1, <4>1 DEF OwnRows, Booked, RowsKnown
      <4>3. (CHOOSE s \in own : TRUE) = r BY <4>2
      <4>4. /\ job'[w].found = (own # {})
            /\ job'[w].amount = IF own = {} THEN 0 ELSE (CHOOSE s \in own : TRUE).amount
        <5>1. Lookup(w) BY <3>2 DEF Reread, At
        <5>2. own = OwnRows(job[w].own, job[w].invoice) BY <1>1, <1>2, <4>1
        <5> QED BY <1>0, <5>1, <5>2, LookupReads
      <4> QED BY <3>1, <4>2, <4>3, <4>4
    <3>3. CASE job[w].pc # "lookup"
      <4>1. job'[w].found = job[w].found /\ job'[w].amount = job[w].amount
        <5>1. Reread(w) BY <3>3 DEF Lookup, At
        <5> QED BY <1>0, <5>1, RereadReads
      <4> QED BY <3>1, <3>3, <4>1
    <3> QED BY <3>2, <3>3
  <2> QED BY <1>3, <1>5, <2>1, <2>2 DEF Undoes, OwnRows
<1>8. job'[w].pc \notin Settling /\ job[w].pc \in Reversing
  BY <1>3, <1>5 DEF Settling, Reversing
<1> QED BY <1>1, <1>3, <1>5, <1>6, <1>7, <1>8, JobAlone

LEMMA BookedPurge ==
    ASSUME Typed, Accounted, Booked, clerk' = clerk, NEW w \in Workers, Purge(w)
    PROVE  Booked'
<1>0. TypeOK BY DEF Typed
<1>1. PICK v : v = job[w].own OBVIOUS
<1>2. PICK i : i = job[w].invoice OBVIOUS
<1>3. /\ job[w].pc = "purge" /\ Stop(w) /\ rows' = rows \ OwnRows(v, i)
      /\ UNCHANGED <<invoice, voucher, crossed, stray>>
  BY <1>1, <1>2 DEF Purge, At
<1>4. ~Posted(v) BY <1>1, <1>3, AtReversing DEF Reversing
<1>5. \A r : Unpaid(w, r) <=> r.voucher = v /\ r.invoice = i
  BY <1>1, <1>2, <1>3 DEF Unpaid
<1>6. /\ \A q \in Workers \ {w} : job'[q] = job[q]
      /\ job'[w].pc = "idle" /\ \A r : ~Unpaid(w, r)'
  BY <1>0, <1>3, Stopped
<1>7. /\ \A r : r \in rows' <=> r \in rows /\ ~(r.voucher = v /\ r.invoice = i)
      /\ rows' \subseteq rows
  BY <1>3 DEF OwnRows
<1>8. RowsKnown'
  <2>1. IsFiniteSet(rows') BY <1>7, FS_Subset DEF Booked, RowsKnown
  <2>2. \A r \in stray'.rows : r \in rows' \/ ~Posted(r.voucher)'
    BY <1>3, <1>4, <1>7 DEF Booked, RowsKnown, Posted
  <2> QED BY <1>3, <1>7, <2>1, <2>2 DEF Booked, RowsKnown
<1>9. StatusKept' BY <1>3 DEF Booked, StatusKept
<1>10. ASSUME NEW j \in Invoices \ crossed' PROVE Agrees(j)'
  <2>1. Agrees(j) /\ invoice'[j].paid = invoice[j].paid BY <1>3, <1>10 DEF Booked
  <2>2. \A r : (r \in rows' /\ r \notin stray'.rows /\ ~Unpaid(w, r)')
               <=> (r \in rows /\ r \notin stray.rows /\ ~Unpaid(w, r))
    BY <1>3, <1>5, <1>6, <1>7
  <2>3. \A q \in Workers : \A r : Takes(q, r) => Takes(q, r)'
    BY <1>3, <1>6 DEF Takes
  <2>4. StillStands(j) BY <1>3, <2>3 DEF StillStands, Posted
  <2> QED BY <1>6, <2>1, <2>2, <2>4, AgreesKeptBy
<1>11. /\ job[w].pc \in Settling \cup Reversing
       /\ job'[w].pc \notin Settling /\ job'[w].pc \notin Reversing
       /\ voucher' = voucher /\ crossed' = crossed
  BY <1>3, <1>6 DEF Settling, Reversing
<1>12. \A r : r.voucher # job[w].own \/ r.invoice # job[w].invoice =>
                    /\ r \in rows' <=> r \in rows
                    /\ r \in stray'.rows <=> r \in stray.rows
  BY <1>1, <1>2, <1>3, <1>7
<1> QED BY <1>3, <1>6, <1>8, <1>9, <1>10, <1>11, <1>12, WorkerStep

LEMMA BookedRevert ==
    ASSUME Typed, Accounted, Booked, clerk' = clerk, NEW w \in Workers, Revert(w)
    PROVE  Booked'
<1>0. TypeOK BY DEF Typed
<1>1. PICK v : v = job[w].own OBVIOUS
<1>2. PICK i : i = job[w].invoice OBVIOUS
<1>3. job[w].pc = "revert" /\ Goto(w, "purge") /\ UNCHANGED <<voucher, rows, stray>>
  BY DEF Revert, At
<1>4. /\ Undoes(w) /\ Own(w) /\ i \in Invoices /\ job[w] \in Job
      /\ \A q \in Workers \ {w} : \A r : Unpaid(q, r) /\ r.voucher = v => r.invoice \in crossed
  BY <1>1, <1>2, <1>3, AtReversing DEF Reversing
<1>5. /\ \A q \in Workers \ {w} : job'[q] = job[q]
      /\ job'[w].pc = "purge" /\ job'[w].own = v /\ job'[w].invoice = i
  BY <1>0, <1>1, <1>2, <1>3, Went
<1>6. \A r : /\ ~Unpaid(w, r)
             /\ Unpaid(w, r)' <=> r.voucher = v /\ r.invoice = i
             /\ Takes(w, r) <=> r.voucher = v /\ r.invoice = i
  BY <1>1, <1>2, <1>3, <1>5 DEF Unpaid, Takes
<1>7. /\ \A j \in Invoices \ {i} : invoice'[j] = invoice[j]
      /\ IF invoice[i].status \in {"paid", "partially_paid"}
         THEN /\ invoice'[i].paid = Reverted(w)
              /\ invoice'[i].status = StatusAt(invoice'[i].paid)
              /\ i \notin crossed' => invoice[i].paid = job[w].paid
         ELSE invoice' = invoice
      /\ crossed \subseteq crossed'
  BY <1>0, <1>2, <1>4 DEF Revert, SetPaid, TypeOK
<1>8. StatusKept' BY <1>7 DEF Booked, StatusKept
<1>9. RowsKnown' BY <1>3 DEF Booked, RowsKnown, Posted
<1>10. Undoes(w)' BY <1>1, <1>2, <1>3, <1>4, <1>5 DEF Undoes, Own
<1>11. \A q \in Workers \ {w} : \A r : /\ Takes(q, r)' <=> Takes(q, r)
                                       /\ Unpaid(q, r)' <=> Unpaid(q, r)
  BY <1>5 DEF Takes, Unpaid
<1>12. ASSUME NEW j \in Invoices \ crossed', j # i PROVE Agrees(j)'
  <2>1. Agrees(j) /\ invoice'[j].paid = invoice[j].paid
    BY <1>7, <1>12 DEF Booked
  <2>2. \A r : r.invoice = j =>
          ((r \in rows' /\ r \notin stray'.rows /\ ~Unpaid(w, r)')
           <=> (r \in rows /\ r \notin stray.rows /\ ~Unpaid(w, r)))
    BY <1>3, <1>6, <1>12
  <2>3. \A r \in Counted(j) : r.invoice = j BY DEF Counted, PaymentRows
  <2>4. StillStands(j) BY <1>3, <1>6, <1>11, <1>12, <2>3 DEF StillStands, Posted
  <2> QED BY <1>5, <2>1, <2>2, <2>4, AgreesKeptBy
<1>13. ASSUME i \notin crossed' PROVE Agrees(i)'
  <2>1. i \notin crossed BY <1>7, <1>13
  <2>2. PICK row \in OwnRows(v, i) :
           row \notin stray.rows /\ job[w].found /\ job[w].amount = row.amount
    BY <1>1, <1>2, <1>3, <1>4, <2>1 DEF Undoes
  <2>3. row \in rows /\ row.voucher = v /\ row.invoice = i BY DEF OwnRows
  <2>4. \A r \in rows : r.voucher = v /\ r.invoice = i => r = row
    BY <2>3 DEF Booked, RowsKnown
  <2>5. \A q \in Workers \ {w} : ~Unpaid(q, row) BY <1>4, <2>1, <2>3
  <2>6. PICK R : R = Counted(i)' OBVIOUS
  <2>7. Counted(i) = R \cup {row} /\ row \notin R
    <3>1. \A r : r \in Counted(i) <=>
             r \in rows /\ r.invoice = i /\ r \notin stray.rows
             /\ \A q \in Workers \ {w} : ~Unpaid(q, r)
      BY <1>6 DEF Counted, PaymentRows
    <3>2. \A r : r \in R <=>
             r \in rows /\ r.invoice = i /\ r \notin stray.rows /\ ~Unpaid(w, r)'
             /\ \A q \in Workers \ {w} : ~Unpaid(q, r)
      BY <1>3, <1>11, <2>6 DEF Counted, PaymentRows
    <3>3. \A r : r \in Counted(i) <=> r \in R \/ r = row
      BY <1>6, <2>2, <2>3, <2>4, <2>5, <3>1, <3>2
    <3>4. row \notin R BY <1>6, <2>3, <3>2
    <3> QED BY <3>3, <3>4
  <2>8. IsFiniteSet(R)
    <3>1. IsFiniteSet(Counted(i)) BY CountedRows DEF Booked
    <3>2. R \in SUBSET Counted(i) BY <2>7
    <3> QED BY <3>1, <3>2, FS_Subset
  <2>9. AmountOf(R) \in Nat BY <2>8, UnitsFinite
  <2>10. row.amount \in Amounts BY <1>0, <2>3 DEF TypeOK, Row
  <2>11. AmountOf(R \cup {row}) = AmountOf(R) + row.amount
    BY <2>7, <2>8, <2>10, AmountOfMore
  <2>12. Agrees(i) BY <1>4, <2>1 DEF Booked
  <2>13. invoice[i].paid = AmountOf(R) + row.amount BY <2>7, <2>11, <2>12 DEF Agrees
  <2>14. row.amount \in Nat BY <2>10, PaymentsAssumption DEF Amounts
  <2>15. invoice'[i].paid = AmountOf(R)
    <3>1. CASE invoice[i].status \in {"paid", "partially_paid"}
      <4>1. job[w].paid = AmountOf(R) + job[w].amount
        BY <1>7, <1>13, <2>2, <2>13, <3>1
      <4>2. Reverted(w) = AmountOf(R) BY <2>2, <2>9, <2>14, <4>1 DEF Reverted
      <4> QED BY <1>7, <3>1, <4>2
    <3>2. CASE invoice[i].status \notin {"paid", "partially_paid"}
      <4>1. invoice[i].status = StatusAt(invoice[i].paid)
        BY <1>4 DEF Booked, StatusKept
      <4>2. invoice[i].paid = 0 BY <3>2, <4>1 DEF StatusAt
      <4>3. AmountOf(R) = 0 BY <2>9, <2>13, <2>14, <4>2
      <4> QED BY <1>7, <3>2, <4>2, <4>3
    <3> QED BY <3>1, <3>2
  <2>16. \A r \in R : Posted(r.voucher)' \/ \E q \in Workers : Takes(q, r)'
    <3> TAKE r \in R
    <3>1. r \in Counted(i) /\ r # row /\ r \in rows /\ r.invoice = i
      BY <2>7 DEF Counted, PaymentRows
    <3>2. ~Takes(w, r) BY <1>6, <2>4, <3>1
    <3>3. Posted(r.voucher) \/ \E q \in Workers : Takes(q, r)
      BY <2>12, <3>1 DEF Agrees
    <3> QED BY <1>3, <1>11, <3>2, <3>3 DEF Posted
  <2> QED BY <2>6, <2>15, <2>16 DEF Agrees
<1>14. /\ job[w].pc \in Settling \cup Reversing /\ job[w].pc \in Reversing
       /\ job'[w].pc \notin Settling
       /\ voucher' = voucher /\ rows' = rows /\ stray'.rows = stray.rows
       /\ crossed \subseteq crossed' /\ job'[w].own = job[w].own
  BY <1>1, <1>3, <1>5, <1>7 DEF Settling, Reversing
<1>15. \A j \in Invoices \ crossed' : Agrees(j)' BY <1>12, <1>13
<1> QED BY <1>5, <1>8, <1>9, <1>10, <1>14, <1>15, WorkerStep

LEMMA BookedReverse ==
    ASSUME Typed, Accounted, Booked, clerk' = clerk, NEW w \in Workers,
           NEW v \in Vouchers, Reverse(w, v)
    PROVE  Booked'
<1>0. TypeOK BY DEF Typed
<1>1. PICK i : i = voucher[v].invoice OBVIOUS
<1>2. /\ job[w].pc = "idle" /\ Posted(v) /\ UNCHANGED <<invoice, rows, stray>>
      /\ voucher' = [voucher EXCEPT ![v].status = "reversed"]
      /\ crossed' = IF Undoable(v) THEN crossed
                    ELSE crossed \cup ({r.invoice : r \in RowsOf(v)} \cup ({i} \ {None}))
      /\ job' = IF voucher[v].kind # "invoice_paid" THEN job
                ELSE [job EXCEPT ![w] = [Idle EXCEPT !.pc = "lookup", !.own = v,
                                           !.invoice = i]]
  BY <1>1 DEF Reverse
<1>3. /\ voucher'[v].status = "reversed" /\ voucher'[v].kind = voucher[v].kind
      /\ voucher'[v].invoice = voucher[v].invoice
      /\ \A u \in Vouchers \ {v} : voucher'[u] = voucher[u]
      /\ \A u : u \notin Vouchers => voucher'[u] = voucher[u]
  BY <1>0, <1>2 DEF TypeOK, Voucher
<1>4. (\A u \in Vouchers : Named(u)) /\ crossed \subseteq crossed'
      /\ ~Posted(v)' /\ \A u : u # v => (Posted(u)' <=> Posted(u))
  BY <1>2, <1>3 DEF Named, Posted
<1>5. /\ \A q \in Workers \ {w} : job'[q] = job[q]
      /\ voucher[v].kind # "invoice_paid" => job'[w].pc = "idle"
      /\ voucher[v].kind = "invoice_paid" =>
           job'[w].pc = "lookup" /\ job'[w].own = v /\ job'[w].invoice = i
  BY <1>0, <1>2 DEF TypeOK, Idle
<1>6. \A r : ~Unpaid(w, r) /\ ~Unpaid(w, r)' /\ ~Takes(w, r)
  BY <1>2, <1>5 DEF Unpaid, Takes
<1>7. voucher[v].kind = "invoice_paid" => i \in Invoices /\ i # None
  BY <1>1, PaymentsAssumption DEF Typed, PaymentsFit
<1>8. /\ ~Undoable(v) => /\ \A r \in RowsOf(v) : r.invoice \in crossed'
                         /\ voucher[v].kind = "invoice_paid" => i \in crossed'
  BY <1>2, <1>7
<1>9. RowsKnown'
  <2>1. \A r \in rows \cup stray.rows : r.voucher \in Vouchers
    BY <1>0 DEF TypeOK, Row
  <2>2. \A r \in rows \cup stray.rows :
          voucher'[r.voucher].status # "absent" /\ voucher'[r.voucher].kind # "year_end"
    BY <1>4, <2>1 DEF Booked, RowsKnown, Named
  <2> QED BY <1>2, <1>4, <2>2 DEF Booked, RowsKnown
<1>10. StatusKept' BY <1>2 DEF Booked, StatusKept
<1>11. ASSUME NEW j \in Invoices \ crossed' PROVE Agrees(j)'
  <2>1. Agrees(j) /\ invoice'[j].paid = invoice[j].paid
    BY <1>2, <1>4, <1>11 DEF Booked
  <2>2. \A q \in Workers : \A r : Takes(q, r) => Takes(q, r)'
    BY <1>5, <1>6 DEF Takes
  <2>3. ASSUME NEW r \in Counted(j), r.voucher = v PROVE Takes(w, r)'
    <3>1. r \in RowsOf(v) /\ r.invoice = j
      BY <2>3 DEF Counted, PaymentRows, RowsOf
    <3>2. Undoable(v) BY <1>8, <1>11, <3>1
    <3>3. voucher[v].kind = "invoice_paid" /\ RowsOf(v) = OwnRows(v, i)
      BY <1>1, <3>1, <3>2 DEF Undoable
    <3> QED BY <1>5, <2>3, <3>1, <3>3 DEF Takes, OwnRows
  <2>4. StillStands(j) BY <1>4, <2>2, <2>3 DEF StillStands
  <2> QED BY <1>2, <1>5, <1>6, <2>1, <2>4, AgreesKeptBy
<1>12. ASSUME NEW q \in Workers \ {w}, job[q].pc \in Settling \cup Reversing
       PROVE  Spares(q)
  <2>1. ASSUME job[q].pc \in Settling, job[q].own = v PROVE job[q].invoice \in crossed'
    <3>1. InHand(v) BY <2>1 DEF InHand
    <3>2. Own(q) BY <2>1 DEF Booked, Worked, Settles
    <3> QED BY <1>1, <1>8, <2>1, <3>1, <3>2 DEF Undoable, Own
  <2>2. job[q].pc \in Settling /\ job[q].invoice \notin crossed' /\ Posted(job[q].own)
        => Posted(job[q].own)'
    BY <1>4, <1>5, <1>12, <2>1 DEF Posted
  <2> QED BY <1>2, <1>12, <2>2 DEF Spares, RowsOf, OwnRows
<1>13. ASSUME voucher[v].kind = "invoice_paid" PROVE Undoes(w)'
  <2>1. Own(w)' BY <1>1, <1>3, <1>5, <1>13 DEF Own
  <2>2. ASSUME i \notin crossed' PROVE \E r \in OwnRows(v, i) : r \notin stray.rows
    BY <1>1, <1>8, <1>13, <2>2 DEF Undoable
  <2> QED BY <1>2, <1>5, <1>13, <2>1, <2>2 DEF Undoes, OwnRows
<1>14. Worked'
  <2> DEFINE W == {w}
  <2>1. W \in SUBSET Workers /\ \A p, q \in W : p = q OBVIOUS
  <2>2. \A q \in Workers \ W :
           /\ job'[q] = job[q]
           /\ job[q].pc \in Settling \cup Reversing => Spares(q)
    BY <1>5, <1>12
  <2>3. \A p \in W : /\ job'[p].pc \in Settling => Settles(p)'
                     /\ job'[p].pc \in Reversing => Undoes(p)' /\ Posted(job'[p].own)
    BY <1>2, <1>5, <1>13 DEF Settling, Reversing
  <2> HIDE DEF W
  <2> QED BY <1>4, <2>1, <2>2, <2>3, WorkedStep
<1>15. Closings' BY <1>4, ClosingsKept
<1> QED BY <1>9, <1>10, <1>11, <1>14, <1>15 DEF Booked

LEMMA BookedLink ==
    ASSUME Typed, Accounted, Booked, clerk' = clerk, NEW i \in Invoices,
           NEW v \in Vouchers, Link(i, v)
    PROVE  Booked'
<1>0. TypeOK BY DEF Typed
<1>1. PICK row : row = [voucher |-> v, invoice |-> i, amount |-> voucher[v].amount]
  OBVIOUS
<1>2. /\ Posted(v) /\ voucher[v].kind # "year_end" /\ OwnRows(v, i) = {}
      /\ SetPaid(i, invoice[i].paid + voucher[v].amount)
      /\ rows' = rows \cup {row} /\ UNCHANGED <<voucher, job, stray>>
      /\ crossed' = IF InHand(v)
                    THEN crossed \cup ({i, voucher[v].invoice} \ {None}) ELSE crossed
  BY <1>1 DEF Link, Linkable
<1>3. /\ \A j \in Invoices \ {i} : invoice'[j] = invoice[j]
      /\ invoice'[i].paid = invoice[i].paid + row.amount
      /\ invoice'[i].status = StatusAt(invoice'[i].paid)
      /\ row.amount \in Amounts
  BY <1>0, <1>1, <1>2 DEF SetPaid, TypeOK, Voucher
<1>4. /\ row \notin rows /\ row.voucher = v /\ row.invoice = i
      /\ \A r \in rows : r.voucher # v \/ r.invoice # i
  BY <1>1, <1>2 DEF OwnRows
<1>5. row \notin stray.rows BY <1>2, <1>4 DEF Booked, RowsKnown
<1>6. crossed \subseteq crossed' /\ i # None BY <1>2, PaymentsAssumption
<1>7. StatusKept' BY <1>3 DEF Booked, StatusKept
<1>8. RowsKnown'
  <2>1. IsFiniteSet(rows') BY <1>2, FS_AddElement DEF Booked, RowsKnown
  <2>2. \A r \in rows' \cup stray'.rows :
          voucher'[r.voucher].status # "absent" /\ voucher'[r.voucher].kind # "year_end"
    BY <1>2, <1>4 DEF Booked, RowsKnown, Posted
  <2>3. \A r, s \in rows' : r.voucher = s.voucher /\ r.invoice = s.invoice => r = s
    BY <1>2, <1>4 DEF Booked, RowsKnown
  <2>4. \A r \in stray'.rows : r \in rows' \/ ~Posted(r.voucher)'
    BY <1>2 DEF Booked, RowsKnown, Posted
  <2> QED BY <2>1, <2>2, <2>3, <2>4 DEF RowsKnown
<1>9. \A q \in Workers : \A r : /\ Unpaid(q, r)' <=> Unpaid(q, r)
                                /\ Takes(q, r)' <=> Takes(q, r)
  BY <1>2 DEF Unpaid, Takes
<1>10. \A j : /\ j # i => Counted(j)' = Counted(j)
              /\ \A r : r \in Counted(j) <=>
                    r \in rows /\ r.invoice = j /\ r \notin stray.rows
                    /\ \A q \in Workers : ~Unpaid(q, r)
              /\ \A r : r \in Counted(j)' <=>
                    r \in rows' /\ r.invoice = j /\ r \notin stray.rows
                    /\ \A q \in Workers : ~Unpaid(q, r)
  <2>1. \A j, r : r \in Counted(j) <=>
           r \in rows /\ r.invoice = j /\ r \notin stray.rows
           /\ \A q \in Workers : ~Unpaid(q, r)
    BY DEF Counted, PaymentRows
  <2>2. \A j, r : r \in Counted(j)' <=>
           r \in rows' /\ r.invoice = j /\ r \notin stray.rows
           /\ \A q \in Workers : ~Unpaid(q, r)
    BY <1>2, <1>9 DEF Counted, PaymentRows
  <2>3. ASSUME NEW j, j # i PROVE Counted(j)' = Counted(j)
    <3>1. \A r : r \in Counted(j)' <=> r \in Counted(j)
      BY <1>2, <1>4, <2>1, <2>2, <2>3
    <3> QED BY <3>1
  <2> QED BY <2>1, <2>2, <2>3
<1>11. ASSUME NEW j \in Invoices \ crossed', j # i PROVE Agrees(j)'
  <2>1. Agrees(j) /\ invoice'[j].paid = invoice[j].paid /\ Counted(j)' = Counted(j)
    BY <1>3, <1>6, <1>10, <1>11 DEF Booked
  <2>2. \A r \in Counted(j) : Posted(r.voucher)' \/ \E q \in Workers : Takes(q, r)'
    BY <1>2, <1>9, <2>1 DEF Agrees, Posted
  <2>3. invoice'[j].paid = AmountOf(Counted(j)) BY <2>1 DEF Agrees
  <2> QED BY <2>1, <2>2, <2>3 DEF Agrees
<1>12. ASSUME i \notin crossed' PROVE Agrees(i)'
  <2>1. i \notin crossed /\ ~InHand(v) BY <1>2, <1>6, <1>12
  <2>2. ASSUME NEW q \in Workers PROVE ~Unpaid(q, row)
    <3>1. SUFFICES ASSUME Unpaid(q, row) PROVE FALSE OBVIOUS
    <3>2. job[q].own = v /\ job[q].pc \in {"flip", "remove", "purge"}
      BY <1>4, <3>1 DEF Unpaid
    <3>3. job[q].pc \notin Settling BY <2>1, <3>2 DEF InHand
    <3>4. job[q].pc \in Reversing BY <3>2, <3>3 DEF Settling, Reversing
    <3> QED BY <1>2, <3>2, <3>4, AtReversing
  <2>3. PICK C : C = Counted(i) OBVIOUS
  <2>4. Counted(i)' = C \cup {row} /\ row \notin C
    <3>1. \A r : r \in Counted(i)' <=> r \in C \/ r = row
      BY <1>2, <1>4, <1>5, <1>10, <2>2, <2>3
    <3>2. row \notin C BY <1>4, <1>10, <2>3
    <3> QED BY <3>1, <3>2
  <2>5. IsFiniteSet(C) BY <2>3, CountedRows DEF Booked
  <2>6. AmountOf(C \cup {row}) = AmountOf(C) + row.amount
    BY <1>3, <2>4, <2>5, AmountOfMore
  <2>7. Agrees(i) BY <2>1 DEF Booked
  <2>8. invoice[i].paid = AmountOf(C) BY <2>3, <2>7 DEF Agrees
  <2>9. invoice'[i].paid = AmountOf(C \cup {row}) BY <1>3, <2>6, <2>8
  <2>10. \A r \in C \cup {row} : Posted(r.voucher)' \/ \E q \in Workers : Takes(q, r)'
    BY <1>2, <1>4, <1>9, <2>3, <2>7 DEF Agrees, Posted
  <2> QED BY <2>4, <2>9, <2>10 DEF Agrees
<1>13. ASSUME NEW q \in Workers, job[q].pc \in Settling \cup Reversing
       PROVE  Spares(q)
  <2>1. CASE job[q].own # v
    BY <1>2, <1>4, <2>1 DEF Spares, RowsOf, OwnRows, Posted
  <2>2. CASE job[q].own = v
    <3>1. job[q].pc \in Settling
      BY <1>2, <1>13, <2>2, AtReversing
    <3>2. InHand(v) BY <2>2, <3>1 DEF InHand
    <3>3. Own(q) /\ job[q].invoice \in Invoices BY <3>1, AtSettling
    <3>4. job[q].invoice \in crossed' /\ i \in crossed'
      BY <1>2, <1>6, <2>2, <3>2, <3>3, PaymentsAssumption DEF Own
    <3> QED BY <1>2, <1>4, <3>4 DEF Spares, RowsOf
  <2> QED BY <2>1, <2>2
<1>14. \A u \in Vouchers : Named(u) BY <1>2 DEF Named
<1>15. Worked'
  <2> DEFINE W == {}
  <2>1. W \in SUBSET Workers /\ \A p, q \in W : p = q OBVIOUS
  <2>2. \A q \in Workers \ W :
           /\ job'[q] = job[q]
           /\ job[q].pc \in Settling \cup Reversing => Spares(q)
    BY <1>2, <1>13
  <2>3. \A p \in W : FALSE OBVIOUS
  <2> HIDE DEF W
  <2> QED BY <1>6, <1>14, <2>1, <2>2, <2>3, WorkedStep
<1>16. Closings' BY <1>14, ClosingsKept
<1> QED BY <1>7, <1>8, <1>11, <1>12, <1>15, <1>16 DEF Booked

LEMMA BookedControl ==
    ASSUME Typed, Accounted, Booked, NEW c \in Clerks, Control(c)
    PROVE  Booked'
<1>0. TypeOK /\ clerk \in [Clerks -> Clerk] BY DEF Typed, ClerksFit
<1>1. UNCHANGED <<invoice, rows, job, stray, crossed>>
  BY DEF Control, StartLock, WriteLock, StartUnlock, WriteUnlock, StartClose,
         WriteClose, StartExternal, WriteExternal, StartReopen, WriteReopen,
         StartYearEnd, PostClosing, Check, LinkClosing, GoOnToLock, GoOnToClose,
         Start, Write, Refused, Decide, On, Holds
<1> DEFINE W == {}
<1>2. W \in SUBSET Workers /\ (\A p, q \in W : p = q)
      /\ (\A q \in Workers \ W : job'[q] = job[q]) /\ \A p \in W : FALSE
  BY <1>1
<1>3. \A r \in rows \cup stray.rows : r.voucher \in Vouchers
  BY <1>0 DEF TypeOK, Row
<1> HIDE DEF W
<1>4. ASSUME voucher' = voucher,
             \A d \in Clerks : clerk'[d].pc = "check" =>
                 clerk[d].pc = "check" /\ clerk'[d].entry = clerk[d].entry
      PROVE  Booked'
  <2>1. Closings' BY <1>4 DEF Booked, Closings
  <2> QED BY <1>1, <1>2, <1>4, <2>1, TablesAlone
<1>5. ASSUME PostClosing(c) PROVE Booked'
  <2>1. CASE Done(c) /\ UNCHANGED voucher
    <3>1. \A d \in Clerks : clerk'[d] = clerk[d] \/ clerk'[d].pc = "idle"
      BY <1>0, <2>1 DEF Done, Free
    <3> QED BY <1>4, <2>1, <3>1
  <2>2. CASE /\ PostEntry("year_end", None, 0) /\ clerk[c].pc = "entry"
             /\ clerk' = [clerk EXCEPT ![c] = [pc |-> "check", entry |-> NextVoucher]]
    <3>1. PICK n : n = NextVoucher OBVIOUS
    <3>2. Spending # {} BY <2>2 DEF ClerksPosting, Spending
    <3>3. /\ n \in Vouchers /\ voucher'[n].status = "posted"
          /\ voucher'[n].kind = "year_end"
          /\ \A u \in Vouchers : Named(u)
          /\ \A u \in Vouchers : u # n => voucher'[u] = voucher[u]
          /\ \A q \in Workers : ~Holding(q, n) /\ ~Undoing(q, n)
          /\ \A r \in rows \cup stray.rows : Posted(r.voucher)' <=> Posted(r.voucher)
      BY <2>2, <3>1, <3>2, NewVoucher
    <3>4. \A d \in Clerks \ {c} : clerk'[d] = clerk[d] BY <1>0, <2>2
    <3>5. clerk'[c].entry = n BY <1>0, <2>2, <3>1
    <3>6. Closings'
      <4> SUFFICES ASSUME NEW d \in Clerks, clerk'[d].pc = "check"
                   PROVE  /\ voucher'[clerk'[d].entry].kind = "year_end"
                          /\ voucher'[clerk'[d].entry].status # "absent"
        BY DEF Closings
      <4>1. CASE d = c BY <3>3, <3>5, <4>1
      <4>2. CASE d # c
        <5>1. clerk'[d] = clerk[d] /\ clerk[d].entry \in Vouchers
          BY <3>4, <4>2 DEF Typed, ClerksFit
        <5> QED BY <3>3, <5>1 DEF Booked, Closings, Named
      <4> QED BY <4>1, <4>2
    <3> QED BY <1>1, <1>2, <1>3, <3>3, <3>6, PostingBooked
  <2> QED BY <1>5, <2>1, <2>2 DEF PostClosing, On, Holds
<1>6. ASSUME Check(c) PROVE Booked'
  <2>1. PICK v : v = clerk[c].entry OBVIOUS
  <2>2. clerk[c].pc = "check" /\ v \in Vouchers /\ voucher[v].kind = "year_end"
        /\ voucher[v].status # "absent"
    BY <1>6, <2>1 DEF Check, On, Holds, Typed, ClerksFit, Booked, Closings
  <2>3. \A d \in Clerks : clerk'[d].pc = "check" => clerk'[d] = clerk[d]
    BY <1>0, <1>6 DEF Check, StepTo, Done, Free, Clerk
  <2>4. CASE voucher' = voucher BY <1>4, <2>3, <2>4
  <2>5. CASE voucher' = [voucher EXCEPT ![v].status = "reversed"]
    <3>1. /\ voucher'[v].status = "reversed" /\ voucher'[v].kind = voucher[v].kind
          /\ voucher'[v].invoice = voucher[v].invoice
          /\ \A u \in Vouchers : u # v => voucher'[u] = voucher[u]
      BY <1>0, <2>2, <2>5 DEF TypeOK, Voucher
    <3>2. \A u \in Vouchers : Named(u) BY <3>1 DEF Named
    <3>3. \A r \in rows \cup stray.rows : r.voucher # v
      BY <2>2 DEF Booked, RowsKnown
    <3>4. \A r \in rows \cup stray.rows : Posted(r.voucher)' <=> Posted(r.voucher)
      BY <1>3, <3>1, <3>3 DEF Posted
    <3>5. ASSUME NEW q \in Workers, Holding(q, v) \/ Undoing(q, v) PROVE FALSE
      <4>1. Own(q) /\ job[q].own = v
        BY <3>5 DEF Holding, Undoing, Booked, Worked, Settles, Undoes
      <4> QED BY <2>2, <4>1 DEF Own
    <3>6. Closings'
      <4> SUFFICES ASSUME NEW d \in Clerks, clerk'[d].pc = "check"
                   PROVE  /\ voucher'[clerk'[d].entry].kind = "year_end"
                          /\ voucher'[clerk'[d].entry].status # "absent"
        BY DEF Closings
      <4>1. clerk'[d] = clerk[d] /\ clerk[d].entry \in Vouchers
        BY <2>3 DEF Typed, ClerksFit
      <4> QED BY <3>2, <4>1 DEF Booked, Closings, Named
    <3> QED BY <1>1, <1>2, <1>3, <2>2, <3>1, <3>2, <3>4, <3>5, <3>6, PostingBooked
  <2> QED BY <1>6, <2>1, <2>4, <2>5 DEF Check
<1>7. ASSUME ~PostClosing(c), ~Check(c) PROVE Booked'
  <2>1. voucher' = voucher
    BY <1>7 DEF Control, StartLock, WriteLock, StartUnlock, WriteUnlock, StartClose,
         WriteClose, StartExternal, WriteExternal, StartReopen, WriteReopen,
         StartYearEnd, LinkClosing, GoOnToLock, GoOnToClose,
         Start, Write, Refused, Decide
  <2>2. \/ Done(c)
        \/ \E s \in {"lock", "unlock", "close", "external", "reopen", "entry",
                     "tolock", "toclose"} : StepTo(c, s)
    BY <1>7 DEF Control, StartLock, WriteLock, StartUnlock, WriteUnlock, StartClose,
         WriteClose, StartExternal, WriteExternal, StartReopen, WriteReopen,
         StartYearEnd, LinkClosing, GoOnToLock, GoOnToClose,
         Start, Write, Refused, Decide
  <2>3. \A d \in Clerks : clerk'[d].pc = "check" => clerk'[d] = clerk[d]
    BY <1>0, <2>2 DEF StepTo, Done, Free, Clerk
  <2> QED BY <1>4, <2>1, <2>3
<1> QED BY <1>5, <1>6, <1>7

LEMMA BookedStep == Typed /\ Accounted /\ Booked /\ [ControlNext]_vars => Booked'
<1> SUFFICES ASSUME Typed, Accounted, Booked, [ControlNext]_vars PROVE Booked' OBVIOUS
<1>1. CASE UNCHANGED vars
  <2> DEFINE W == {}
  <2>1. W \in SUBSET Workers /\ (\A p, q \in W : p = q)
        /\ (\A q \in Workers \ W : job'[q] = job[q]) /\ \A p \in W : FALSE
    BY <1>1 DEF vars, payVars
  <2>2. UNCHANGED <<invoice, voucher, rows, crossed, stray, clerk>>
    BY <1>1 DEF vars, payVars
  <2>3. Closings' BY <2>2 DEF Booked, Closings
  <2> HIDE DEF W
  <2> QED BY <2>1, <2>2, <2>3, TablesAlone
<1>2. ASSUME NEW w \in Workers, Advance(w), clerk' = clerk PROVE Booked'
  BY <1>2, BookedPost, BookedRecord, BookedFlip, BookedRemove, BookedCancel,
     BookedReading, BookedRevert, BookedPurge DEF Advance
<1>3. CASE PaymentNext /\ clerk' = clerk
  BY <1>2, <1>3, BookedSettle, BookedReverse, BookedLink DEF PaymentNext
<1>4. CASE \E c \in Clerks : Control(c) BY <1>4, BookedControl
<1> QED BY <1>1, <1>3, <1>4 DEF ControlNext

(* However settlements, links, reversals and the work on the period           *)
(* interleave, and whichever statements of a settlement fail: an invoice      *)
(* nobody works on is paid what its rows amount to, has the status that goes  *)
(* with it, and every row's voucher stands in the ledger, except for the      *)
(* reported rows and the invoices that requests got in each other's way on.   *)
THEOREM SubLedgersAgree == ControlSpec => []SubLedgerAgrees
<1>1. Typed /\ Accounted /\ Booked => SubLedgerAgrees
  <2> SUFFICES ASSUME Typed, Booked, NEW i \in Invoices, AtRest(i), i \notin crossed
               PROVE  LET counted == PaymentRows(i) \ stray.rows IN
                      /\ invoice[i].paid = AmountOf(counted)
                      /\ invoice[i].status = StatusAt(invoice[i].paid)
                      /\ \A r \in counted : Posted(r.voucher)
    BY DEF SubLedgerAgrees
  <2>1. Agrees(i) /\ invoice[i].status = StatusAt(invoice[i].paid)
    BY DEF Booked, StatusKept
  <2>2. \A w \in Workers : \A r \in PaymentRows(i) : ~Unpaid(w, r) /\ ~Takes(w, r)
    BY DEF AtRest, PaymentRows, Unpaid, Takes
  <2>3. Counted(i) = PaymentRows(i) \ stray.rows BY <2>2 DEF Counted
  <2> QED BY <2>1, <2>2, <2>3 DEF Agrees
<1>2. ControlInit => Typed /\ Accounted /\ Booked
  BY TypedInit, AccountedInit, BookedInit
<1>3. Typed /\ Accounted /\ Booked /\ [ControlNext]_vars
      => (Typed /\ Accounted /\ Booked)'
  BY TypedStep, AccountedStep, BookedStep
<1> QED BY <1>1, <1>2, <1>3, PTL DEF ControlSpec

-----------------------------------------------------------------------------
(* Closing vouchers. What a year-end run has in hand, and what the period is  *)
(* linked to, is a voucher such a run has posted: only settlements cancel     *)
(* vouchers, and only their own.                                              *)

Backed ==
    /\ period.closing # NoVoucher => IsClosing(period.closing)
    /\ \A c \in Clerks : clerk[c].pc \in {"check", "link"} => IsClosing(clerk[c].entry)

LEMMA BackedInit == ControlInit => Backed
BY DEF ControlInit, Init, Backed, Free

LEMMA ClosingStands ==
    ASSUME Typed, Booked, [ControlNext]_vars, NEW v \in Vouchers, IsClosing(v)
    PROVE  IsClosing(v)'
<1>1. /\ voucher \in [Vouchers -> Voucher] /\ voucher[v].kind = "year_end"
      /\ voucher[v].status \in {"posted", "reversed"} /\ v # NoVoucher
  BY DEF Typed, TypeOK, IsClosing
<1>2. CASE voucher' = voucher BY <1>1, <1>2 DEF IsClosing
<1>3. ASSUME NEW u, voucher' = [voucher EXCEPT ![u].status = "reversed"]
      PROVE  IsClosing(v)'
  BY <1>1, <1>3 DEF IsClosing, Voucher
<1>4. ASSUME Spending # {}, NEW kind, NEW i, NEW amount, PostEntry(kind, i, amount)
      PROVE  IsClosing(v)'
  <2>1. NextVoucher # v BY <1>1, <1>4, VoucherLeft
  <2>2. voucher'[v] = voucher[v] BY <1>1, <1>4, <2>1 DEF PostEntry
  <2> QED BY <1>1, <2>2 DEF IsClosing
<1>5. ASSUME NEW w \in Workers, Advance(w) PROVE IsClosing(v)'
  <2>1. CASE Post(w)
    <3>1. Spending # {} BY <2>1 DEF Post, At, PayersPosting, Spending
    <3> QED BY <1>2, <1>4, <2>1, <3>1 DEF Post
  <2>2. CASE Cancel(w)
    <3>1. voucher[job[w].own].kind = "invoice_paid"
      BY <2>2 DEF Cancel, At, Settling, Booked, Worked, Settles, Own
    <3>2. voucher' = voucher
          \/ voucher' = [voucher EXCEPT ![job[w].own].status = "cancelled"]
      BY <2>2 DEF Cancel
    <3>3. voucher'[v] = voucher[v] BY <1>1, <3>1, <3>2
    <3> QED BY <1>1, <3>3 DEF IsClosing
  <2>3. CASE \/ Record(w) \/ Flip(w) \/ Remove(w) \/ Lookup(w) \/ Reread(w)
             \/ Revert(w) \/ Purge(w)
    BY <1>2, <2>3 DEF Record, Flip, Remove, Lookup, Reread, Revert, Purge, tables
  <2> QED BY <1>5, <2>1, <2>2, <2>3 DEF Advance
<1>6. CASE PaymentNext
  BY <1>2, <1>3, <1>5, <1>6 DEF PaymentNext, Settle, Reverse, Link, tables
<1>7. ASSUME NEW c \in Clerks, Control(c) PROVE IsClosing(v)'
  <2>1. CASE PostClosing(c)
    <3>1. Spending # {} BY <2>1 DEF PostClosing, On, Holds, ClerksPosting, Spending
    <3> QED BY <1>2, <1>4, <2>1, <3>1 DEF PostClosing
  <2>2. CASE Check(c) BY <1>2, <1>3, <2>2 DEF Check
  <2>3. CASE ~PostClosing(c) /\ ~Check(c)
    BY <1>2, <1>7, <2>3
       DEF Control, StartLock, WriteLock, StartUnlock, WriteUnlock, StartClose,
           WriteClose, StartExternal, WriteExternal, StartReopen, WriteReopen,
           StartYearEnd, LinkClosing, GoOnToLock, GoOnToClose, Start, Write,
           Refused, Decide
  <2> QED BY <2>1, <2>2, <2>3
<1> QED BY <1>2, <1>6, <1>7 DEF ControlNext, vars, payVars

LEMMA BackedStep ==
    ASSUME Typed, Booked, Backed, [ControlNext]_vars
    PROVE  Backed'
<1>1. /\ period \in Period /\ clerk \in [Clerks -> Clerk]
      /\ voucher \in [Vouchers -> Voucher] /\ ClerksFit
  BY DEF Typed, TypeOK, ClerksFit
<1>2. \A v \in Vouchers : IsClosing(v) => IsClosing(v)' BY ClosingStands
<1>3. \A c \in Clerks : clerk[c].pc \in {"check", "link"} =>
         \E v \in Vouchers : clerk[c].entry = v /\ IsClosing(v)'
  BY <1>1, <1>2 DEF Backed, ClerksFit
<1>4. period.closing # NoVoucher =>
         \E v \in Vouchers : period.closing = v /\ IsClosing(v)'
  BY <1>1, <1>2 DEF Backed, Period
<1>5. ASSUME period'.closing = period.closing,
             \A c \in Clerks : clerk'[c].pc \in {"check", "link"} =>
                clerk[c].pc \in {"check", "link"} /\ clerk'[c].entry = clerk[c].entry
      PROVE  Backed'
  <2>1. period'.closing # NoVoucher => IsClosing(period.closing)'
    BY <1>4, <1>5 DEF IsClosing
  <2>2. ASSUME NEW c \in Clerks, clerk'[c].pc \in {"check", "link"}
        PROVE  IsClosing(clerk[c].entry)'
    BY <1>3, <1>5, <2>2 DEF IsClosing
  <2> QED BY <2>1, <2>2 DEF Backed
<1>6. CASE UNCHANGED vars BY <1>5, <1>6 DEF vars, payVars
<1>7. CASE PaymentNext /\ clerk' = clerk
  <2>1. period' = period
    BY <1>7 DEF PaymentNext, Settle, Reverse, Link, Advance, Post, Record, Flip,
                Remove, Cancel, Lookup, Reread, Revert, Purge, At
  <2> QED BY <1>5, <1>7, <2>1
<1>8. ASSUME NEW c \in Clerks, Control(c) PROVE Backed'
  <2>1. ASSUME NEW s, StepTo(c, s), s \notin {"check", "link"}
        PROVE  \A d \in Clerks : clerk'[d].pc \in {"check", "link"} =>
                  clerk[d].pc \in {"check", "link"} /\ clerk'[d].entry = clerk[d].entry
    BY <1>1, <2>1 DEF StepTo, Clerk
  <2>2. Done(c) => \A d \in Clerks : clerk'[d].pc \in {"check", "link"} =>
                  clerk[d].pc \in {"check", "link"} /\ clerk'[d].entry = clerk[d].entry
    BY <1>1 DEF Done, Free
  <2>3. CASE PostClosing(c)
    <3>1. period' = period BY <2>3 DEF PostClosing
    <3>2. CASE Done(c) BY <1>5, <2>2, <3>1, <3>2
    <3>3. CASE /\ PostEntry("year_end", None, 0) /\ clerk[c].pc = "entry"
               /\ clerk' = [clerk EXCEPT ![c] = [pc |-> "check", entry |-> NextVoucher]]
      <4>1. Spending # {} BY <3>3 DEF ClerksPosting, Spending
      <4>2. NextVoucher \in Vouchers BY <4>1, VoucherLeft
      <4>3. PICK n \in Vouchers : n = NextVoucher BY <4>2
      <4>4. /\ voucher'[n].kind = "year_end" /\ voucher'[n].status = "posted"
            /\ n # NoVoucher
        BY <1>1, <3>3, <4>3, PaymentsAssumption DEF PostEntry, Vouchers, NoVoucher
      <4>5. IsClosing(n)' BY <4>4 DEF IsClosing
      <4>6. clerk'[c].entry = n /\ \A d \in Clerks \ {c} : clerk'[d] = clerk[d]
        BY <1>1, <3>3, <4>3
      <4> QED BY <1>3, <1>4, <3>1, <4>5, <4>6 DEF Backed, IsClosing
    <3> QED BY <2>3, <3>2, <3>3 DEF PostClosing, On, Holds
  <2>4. CASE Check(c)
    <3>1. period' = period /\ clerk[c].pc = "check" BY <2>4 DEF Check, On, Holds
    <3>2. CASE Done(c) BY <1>5, <2>2, <3>1, <3>2
    <3>3. CASE StepTo(c, "link")
      <4>1. clerk'[c].entry = clerk[c].entry
            /\ \A d \in Clerks \ {c} : clerk'[d] = clerk[d]
        BY <1>1, <3>3 DEF StepTo, Clerk
      <4>2. \A d \in Clerks : clerk'[d].pc \in {"check", "link"} =>
               clerk[d].pc \in {"check", "link"} /\ clerk'[d].entry = clerk[d].entry
        BY <3>1, <4>1
      <4> QED BY <1>5, <3>1, <4>2
    <3> QED BY <2>4, <3>2, <3>3 DEF Check
  <2>5. CASE LinkClosing(c)
    <3>1. CASE Refused(c, "link") BY <1>5, <2>2, <3>1 DEF Refused
    <3>2. CASE Write(c, "link", [period EXCEPT !.closing = clerk[c].entry],
                     StepTo(c, "tolock"))
      <4>1. clerk[c].pc = "link" /\ clerk[c].entry \in Vouchers
        BY <1>1, <3>2 DEF Write, On, Holds, ClerksFit
      <4>2. period'.closing = clerk[c].entry BY <1>1, <3>2 DEF Write, Period
      <4>3. \A d \in Clerks : clerk'[d].pc \in {"check", "link"} =>
               clerk[d].pc \in {"check", "link"} /\ clerk'[d].entry = clerk[d].entry
        BY <2>1, <3>2 DEF Write
      <4> QED BY <1>3, <4>1, <4>2, <4>3 DEF Backed, IsClosing
    <3> QED BY <2>5, <3>1, <3>2 DEF LinkClosing
  <2>6. CASE ~PostClosing(c) /\ ~Check(c) /\ ~LinkClosing(c)
    <3>1. \/ Done(c)
          \/ \E s \in {"lock", "unlock", "close", "external", "reopen", "entry",
                       "tolock", "toclose"} : StepTo(c, s)
      BY <1>8, <2>6 DEF Control, StartLock, WriteLock, StartUnlock, WriteUnlock,
         StartClose, WriteClose, StartExternal, WriteExternal, StartReopen,
         WriteReopen, StartYearEnd, GoOnToLock, GoOnToClose, Start, Write,
         Refused, Decide
    <3>2. \/ period' = period
          \/ \E b \in BOOLEAN : period' = [period EXCEPT !.locked = b]
          \/ period' = [period EXCEPT !.closed = TRUE]
          \/ \E b \in BOOLEAN : period' = [period EXCEPT !.closed = b, !.external = b,
                                                       !.locked = b]
      BY <1>8, <2>6 DEF Control, StartLock, WriteLock, StartUnlock, WriteUnlock,
         StartClose, WriteClose, StartExternal, WriteExternal, StartReopen,
         WriteReopen, StartYearEnd, GoOnToLock, GoOnToClose, Start, Write,
         Refused, Decide
    <3>3. period'.closing = period.closing BY <1>1, <3>2 DEF Period
    <3> QED BY <1>5, <2>1, <2>2, <3>1, <3>3
  <2> QED BY <2>3, <2>4, <2>5, <2>6
<1> QED BY <1>6, <1>7, <1>8 DEF ControlNext

(* However the requests that read and write the period's flags overlap with   *)
(* each other and with payments: a period is closed because it was closed in  *)
(* another system, or because it is linked to a voucher that a year-end run   *)
(* has posted. That voucher may have been reversed before the close.          *)
THEOREM ClosesWithCause == ControlSpec => []ClosedForCause
<1>1. ClosesForCause /\ Backed => ClosedForCause
  BY DEF ClosesForCause, Linked, Backed, ClosedForCause
<1>2. ControlInit => Typed /\ Accounted /\ Booked /\ ClosesForCause /\ Backed
  BY TypedInit, AccountedInit, BookedInit, CauseInit, BackedInit
<1>3. Typed /\ Accounted /\ Booked /\ ClosesForCause /\ Backed /\ [ControlNext]_vars
      => (Typed /\ Accounted /\ Booked /\ ClosesForCause /\ Backed)'
  BY TypedStep, AccountedStep, BookedStep, CauseStep, BackedStep
<1> QED BY <1>1, <1>2, <1>3, PTL DEF ControlSpec
=============================================================================
