--------------------------- MODULE PendingOperations ---------------------------
(* Staged operations on one bank transaction: an agent proposes to book the   *)
(* transaction by category or to match it with an invoice, a user approves or *)
(* rejects the proposal, and a server process executes an approved one. The   *)
(* process claims the operation by a compare-and-set, runs the executor, whose*)
(* vouchers are posted for good, and only then writes the outcome. A sweep    *)
(* resolves what a dead process left behind. Users also book the transaction  *)
(* by hand through the same steps, and edit a proposal before approving it.   *)
(*                                                                            *)
(* Every statement is an action. reverseEntry and createJournalEntry, whose   *)
(* own statements are modelled in Journal, are one statement each here.       *)
EXTENDS Naturals, FiniteSets

CONSTANTS
    Runners,         \* server processes
    Sweepers,        \* runs of the recovery sweep that may overlap
    Ops,             \* the staged operations
    Matching,        \* those that match the invoice; the others categorize
    AllowDuplicate,  \* those staged with allow_duplicate
    Hand,            \* stands for a user who books without an operation
    None,            \* no operation
    MaxRuns,         \* bound: how often something is approved or booked by hand
    Faults           \* what may go wrong: subset of FaultKinds

FaultKinds == {"error", "lostReply", "crash"}

ASSUME OperationsAssumption ==
    /\ Matching \subseteq Ops
    /\ AllowDuplicate \subseteq Ops \ Matching
    /\ Hand \notin Ops /\ None \notin Ops /\ Hand # None
    /\ MaxRuns \in Nat
    /\ Faults \subseteq FaultKinds

VARIABLES
    op,        \* pending_operations
    voucher,   \* journal entries booking the transaction
    tx,        \* the bank transaction and its invoice
    storno,    \* the operations whose executor has reversed a booking
    edit,      \* the operation a user has open for editing
    job,       \* what each process has done of its request
    sweep,     \* what each sweep is doing
    runs       \* how many requests were made

vars == <<op, voucher, tx, storno, edit, job, sweep, runs>>
tables == <<op, voucher, tx, storno>>

(* A request posts at most one voucher that books the transaction.            *)
Vouchers == 1..MaxRuns
NoVoucher == 0

Final == {"committed", "rejected", "failed_partial"}

(* stale: the row has been committing for longer than the threshold of the    *)
(* sweep. recovered is the mark a sweep leaves in result_data.                *)
Operation ==
    [status : {"pending", "committing"} \cup Final,
     stale : BOOLEAN, recovered : BOOLEAN]

Voucher ==
    [status : {"absent", "posted", "reversed"}, by : Ops \cup {Hand, None}]

(* link is transactions.journal_entry_id, invoiced transactions.invoice_id,   *)
(* payment the row in invoice_payments; settled says the invoice is paid.     *)
Transaction ==
    [link : Vouchers \cup {NoVoucher}, invoiced : BOOLEAN,
     settled : BOOLEAN, payment : BOOLEAN]

Endings == {"finish", "reject", "release", "partial"}
Steps == {"idle", "claim", "read", "guard", "book", "link", "undo", "reverse",
          "unlink", "pay", "settle", "record", "point"} \cup Endings

Job ==
    [pc : Steps, op : Ops \cup {Hand, None},
     observed : Vouchers \cup {NoVoucher}, own : Vouchers \cup {NoVoucher},
     posted : BOOLEAN]

Idle ==
    [pc |-> "idle", op |-> None,
     observed |-> NoVoucher, own |-> NoVoucher, posted |-> FALSE]

Resting == [todo |-> {}, row |-> None, evidence |-> FALSE]

(* All operations are staged; the transaction is unbooked, its invoice open.  *)
Init ==
    /\ op = [o \in Ops |-> [status |-> "pending",
                            stale |-> FALSE, recovered |-> FALSE]]
    /\ voucher = [v \in Vouchers |-> [status |-> "absent", by |-> None]]
    /\ tx = [link |-> NoVoucher, invoiced |-> FALSE,
             settled |-> FALSE, payment |-> FALSE]
    /\ storno = {}
    /\ edit = None
    /\ job = [r \in Runners |-> Idle]
    /\ sweep = [s \in Sweepers |-> Resting]
    /\ runs = 0

-----------------------------------------------------------------------------
(* The tables.                                                                *)

Posted(v) == v # NoVoucher /\ voucher[v].status = "posted"

(* An UPDATE of an operation; enforce_pending_operations_immutability refuses *)
(* it for a resolved one.                                                     *)
Updatable(o) == op[o].status \notin Final

SetOp(o, row) ==
    /\ op' = [op EXCEPT ![o] = [row EXCEPT !.stale = FALSE]]
    /\ UNCHANGED <<voucher, tx, storno>>

SetTx(row) == tx' = row /\ UNCHANGED <<op, voucher, storno>>

(* createJournalEntry.                                                        *)
NextVoucher == CHOOSE v \in Vouchers : voucher[v].status = "absent"

PostVoucher(r) ==
    /\ voucher' = [voucher EXCEPT ![NextVoucher] =
                     [status |-> "posted", by |-> job[r].op]]
    /\ UNCHANGED <<op, tx, storno>>

(* reverseEntry: its tail takes the transaction's pointer off the voucher.    *)
ReverseVoucher(v) ==
    /\ voucher' = [voucher EXCEPT ![v].status = "reversed"]
    /\ tx' = [tx EXCEPT !.link = IF @ = v THEN NoVoucher ELSE @]
    /\ UNCHANGED op

(* One statement: accepted it commits, and its reply may be lost; refused or  *)
(* broken on the way it changes nothing.                                      *)
Statement(accepted, effect, succeed, fail) ==
    \/ accepted /\ effect /\ succeed
    \/ accepted /\ effect /\ "lostReply" \in Faults /\ fail
    \/ (~accepted \/ "error" \in Faults) /\ UNCHANGED tables /\ fail

-----------------------------------------------------------------------------
(* A request: the approval of an operation, or a booking by hand.             *)

At(r, step) == job[r].pc = step /\ UNCHANGED <<edit, sweep, runs>>

Goto(r, step) == job' = [job EXCEPT ![r].pc = step]

Stop(r) == job' = [job EXCEPT ![r] = Idle]

(* The end of a request that runs for an operation is a write to its row.     *)
End(r, ending) == IF job[r].op = Hand THEN Stop(r) ELSE Goto(r, ending)

Refuse(r) == End(r, "reject")

Begin(r, j) ==
    /\ job[r].pc = "idle"
    /\ runs < MaxRuns
    /\ runs' = runs + 1
    /\ job' = [job EXCEPT ![r] = j]
    /\ UNCHANGED <<tables, edit, sweep>>

(* The commit route reads the operation it is going to execute.               *)
Approve(r, o) ==
    /\ op[o].status = "pending"
    /\ Begin(r, [Idle EXCEPT !.pc = "claim", !.op = o])

BookByHand(r) == Begin(r, [Idle EXCEPT !.pc = "read", !.op = Hand])

(* Faulty form: the claim trusts the status that was read.                    *)
ClaimableUnguarded(o) == Updatable(o)

Claimable(o) == op[o].status = "pending"

Claim(r) ==
    LET o == job[r].op IN
    /\ At(r, "claim")
    /\ Statement(Claimable(o), SetOp(o, [op[o] EXCEPT !.status = "committing"]),
                 Goto(r, "read"), Stop(r))

(* The transaction is read. It may be booked already, or refused for any of   *)
(* the other reasons the executors check.                                     *)
ReadTransaction(r) ==
    /\ At(r, "read")
    /\ \/ /\ IF job[r].op \in Matching THEN ~tx.invoiced /\ ~tx.settled
             ELSE IF job[r].op = Hand THEN tx.link = NoVoucher
             ELSE ~Posted(tx.link)
          /\ job' = [job EXCEPT ![r].pc = "guard", ![r].observed = tx.link]
       \/ Refuse(r)
    /\ UNCHANGED tables

(* The duplicate guards: a posted voucher that books this amount and is not   *)
(* linked stops the booking; an error of the detection does not.              *)
Guard(r) ==
    /\ At(r, "guard")
    /\ \/ /\ \/ \A v \in Vouchers : Posted(v) => v = tx.link
             \/ job[r].op \in AllowDuplicate
             \/ "error" \in Faults
          /\ Goto(r, IF job[r].op \notin Matching THEN "book"
                     ELSE IF job[r].observed = NoVoucher THEN "pay"
                     ELSE "reverse")
       \/ /\ \E v \in Vouchers : Posted(v) /\ v # tx.link
          /\ Refuse(r)
    /\ UNCHANGED tables

(* The chart of accounts lacks an account: nothing is posted, and the         *)
(* operation is to be given back.                                             *)
AccountsMissing(r) == UNCHANGED tables /\ End(r, "release")

Book(r) ==
    LET posted == job' = [job EXCEPT ![r].pc = "link", ![r].own = NextVoucher] IN
    /\ At(r, "book")
    /\ \/ Statement(TRUE, PostVoucher(r), posted, Refuse(r))
       \/ AccountsMissing(r)

(* Faulty form: the pointer is replaced whatever it has become.               *)
LinkableUnguarded(r) == TRUE

(* The pointer is as it was read.                                             *)
Linkable(r) == tx.link = job[r].observed

Link(r) ==
    /\ At(r, "link")
    /\ Statement(Linkable(r), SetTx([tx EXCEPT !.link = job[r].own]),
                 End(r, "finish"), Goto(r, "undo"))

(* reverseOrphanedJournalEntry.                                               *)
Undo(r) ==
    /\ At(r, "undo")
    /\ Statement(Posted(job[r].own),
                 ReverseVoucher(job[r].own) /\ UNCHANGED storno,
                 Refuse(r), Refuse(r))

(* A match takes the place of an earlier booking: that is reversed first.     *)
ReverseOld(r) ==
    /\ At(r, "reverse")
    /\ Statement(Posted(job[r].observed),
          /\ ReverseVoucher(job[r].observed)
          /\ storno' = storno \cup {job[r].op},
          job' = [job EXCEPT ![r].pc = "unlink", ![r].posted = TRUE],
          Refuse(r))

(* Its pointer is cleared once more, whatever it is and whether or not that   *)
(* succeeds.                                                                  *)
Unlink(r) ==
    /\ At(r, "unlink")
    /\ Statement(TRUE, SetTx([tx EXCEPT !.link = NoVoucher]),
                 Goto(r, "pay"), Goto(r, "pay"))

(* Faulty form: what was posted is forgotten.                                 *)
FailedClean(r) == "reject"

(* An executor that has posted something fails in part.                       *)
Failed(r) == IF job[r].posted THEN "partial" ELSE "reject"

(* The payment voucher. A bookkeeping error fails the operation; any other,   *)
(* or the lack of an open period, is passed over.                             *)
Pay(r) ==
    /\ At(r, "pay")
    /\ \/ Statement(TRUE, PostVoucher(r),
             job' = [job EXCEPT ![r].pc = "settle", ![r].own = NextVoucher,
                                ![r].posted = TRUE],
             Goto(r, Failed(r)) \/ Goto(r, "settle"))
       \/ UNCHANGED tables /\ Goto(r, "settle")
       \/ AccountsMissing(r)

(* The invoice becomes paid, unless it has been in the meantime.              *)
Settle(r) ==
    /\ At(r, "settle")
    /\ Statement(~tx.settled, SetTx([tx EXCEPT !.settled = TRUE]),
                 Goto(r, "record"), Goto(r, Failed(r)))

(* The payment row, one for each transaction and invoice; its error is logged.*)
RecordPayment(r) ==
    /\ At(r, "record")
    /\ Statement(~tx.payment, SetTx([tx EXCEPT !.payment = TRUE]),
                 Goto(r, "point"), Goto(r, "point"))

(* The transaction now points at the invoice and the payment voucher.         *)
Point(r) ==
    /\ At(r, "point")
    /\ Statement(TRUE, SetTx([tx EXCEPT !.invoiced = TRUE, !.link = job[r].own]),
                 Goto(r, "finish"), Goto(r, "finish"))

(* Faulty form: a failure is written under a status the table does not have.  *)
OutcomeFailed(ending) ==
    CASE ending = "finish" -> "committed" [] ending = "reject" -> "failed"
      [] ending = "release" -> "pending" [] ending = "partial" -> "failed_partial"

Outcome(ending) ==
    CASE ending = "finish" -> "committed" [] ending = "reject" -> "rejected"
      [] ending = "release" -> "pending" [] ending = "partial" -> "failed_partial"

(* The outcome is written by id; an error leaves the operation committing.    *)
Conclude(r) ==
    LET o == job[r].op IN
    /\ job[r].pc \in Endings
    /\ UNCHANGED <<edit, sweep, runs>>
    /\ Statement(Updatable(o),
          SetOp(o, [op[o] EXCEPT !.status = Outcome(job[r].pc)]),
          Stop(r), Stop(r))

Crash(r) ==
    /\ "crash" \in Faults
    /\ job[r].pc # "idle"
    /\ Stop(r)
    /\ UNCHANGED <<tables, edit, sweep, runs>>

-----------------------------------------------------------------------------
(* Rejection, expiry and editing of a proposal.                               *)

Reject(o) ==
    /\ op[o].status = "pending"
    /\ SetOp(o, [op[o] EXCEPT !.status = "rejected"])
    /\ UNCHANGED <<edit, job, sweep, runs>>

(* PATCH: the status is checked when the proposal is read, not when the new   *)
(* parameters are written, which makes the row look young to the sweep.       *)
StartEdit(o) ==
    /\ edit = None
    /\ o \notin Matching
    /\ op[o].status = "pending"
    /\ edit' = o
    /\ UNCHANGED <<tables, job, sweep, runs>>

FinishEdit ==
    /\ edit # None
    /\ edit' = None
    /\ IF Updatable(edit) THEN SetOp(edit, op[edit])
       ELSE UNCHANGED tables
    /\ UNCHANGED <<job, sweep, runs>>

-----------------------------------------------------------------------------
(* The recovery sweep.                                                        *)

Executing(r, o) == job[r].op = o /\ job[r].pc \notin {"idle", "claim"}

(* Faulty form: the threshold is shorter than a request.                      *)
AbandonedEarly(o) == op[o].status = "committing"

(* The threshold is well past what the platform lets a request run, so a row  *)
(* that old has no process any more.                                          *)
Abandoned(o) ==
    op[o].status = "committing" /\ \A r \in Runners : ~Executing(r, o)

Age(o) ==
    /\ Abandoned(o)
    /\ op' = [op EXCEPT ![o].stale = TRUE]
    /\ UNCHANGED <<voucher, tx, storno, edit, job, sweep, runs>>

SweepStep(s, next) ==
    /\ sweep' = [sweep EXCEPT ![s] = next]
    /\ UNCHANGED <<voucher, tx, storno, edit, job, runs>>

ListStuck(s) ==
    LET stuck == {o \in Ops : op[o].status = "committing" /\ op[o].stale} IN
    /\ sweep[s] = Resting
    /\ stuck # {}
    /\ SweepStep(s, [Resting EXCEPT !.todo = stuck])
    /\ UNCHANGED op

(* findPostedEvidence: the transaction is booked, or the payment is there.    *)
Evidence(o) ==
    IF o \in Matching THEN tx.payment
    ELSE o \notin AllowDuplicate /\ (tx.link # NoVoucher \/ tx.payment)

(* A failed probe skips the row.                                              *)
Probe(s) ==
    /\ sweep[s].row = None
    /\ \E o \in sweep[s].todo :
          LET rest == sweep[s].todo \ {o} IN
          \/ SweepStep(s, [todo |-> rest, row |-> o, evidence |-> Evidence(o)])
          \/ "error" \in Faults /\ SweepStep(s, [Resting EXCEPT !.todo = rest])
    /\ UNCHANGED op

(* Faulty forms: without evidence the operation is given back; the sweep only *)
(* reports what it finds.                                                     *)
VerdictGivingBack(o, evidence) ==
    [op[o] EXCEPT !.status = IF evidence THEN "committed" ELSE "pending",
                  !.recovered = TRUE]
VerdictReporting(o, evidence) == op[o]

Verdict(o, evidence) ==
    [op[o] EXCEPT !.status = IF evidence THEN "committed" ELSE "rejected",
                  !.recovered = TRUE]

(* The compare-and-set on committing.                                         *)
Resolve(s) ==
    LET o == sweep[s].row IN
    /\ o # None
    /\ \/ /\ op[o].status = "committing"
          /\ op' = [op EXCEPT ![o] =
                      [Verdict(o, sweep[s].evidence) EXCEPT !.stale = FALSE]]
       \/ /\ op[o].status # "committing" \/ "error" \in Faults
          /\ UNCHANGED op
    /\ SweepStep(s, [Resting EXCEPT !.todo = sweep[s].todo])

-----------------------------------------------------------------------------

Advance(r) ==
    \/ Claim(r) \/ ReadTransaction(r) \/ Guard(r)
    \/ Book(r) \/ Link(r) \/ Undo(r)
    \/ ReverseOld(r) \/ Unlink(r) \/ Pay(r) \/ Settle(r)
    \/ RecordPayment(r) \/ Point(r) \/ Conclude(r)

Sweep(s) == ListStuck(s) \/ Probe(s) \/ Resolve(s)

Next ==
    \/ \E r \in Runners :
          \/ \E o \in Ops : Approve(r, o)
          \/ BookByHand(r) \/ Advance(r) \/ Crash(r)
    \/ \E o \in Ops : Reject(o) \/ StartEdit(o) \/ Age(o)
    \/ FinishEdit
    \/ \E s \in Sweepers : Sweep(s)

Spec == Init /\ [][Next]_vars

(* Processes go on or are killed, rows get old, and the cron runs the sweep.  *)
FairSpec ==
    /\ Spec
    /\ \A r \in Runners : WF_vars(Advance(r))
    /\ \A o \in Ops : WF_vars(Age(o))
    /\ \A s \in Sweepers : WF_vars(Sweep(s))

-----------------------------------------------------------------------------
(* Properties.                                                                *)

(* Types of the tables and of the local variables of requests and sweeps.     *)
TypeOK ==
    /\ op \in [Ops -> Operation]
    /\ voucher \in [Vouchers -> Voucher]
    /\ tx \in Transaction
    /\ storno \in SUBSET Ops
    /\ edit \in Ops \cup {None}
    /\ job \in [Runners -> Job]
    /\ sweep \in [Sweepers -> [todo : SUBSET Ops, row : Ops \cup {None},
                               evidence : BOOLEAN]]
    /\ runs \in 0..MaxRuns

(* While a process executes an operation the row stays committing and no      *)
(* other process executes it: neither an approval, a rejection nor the sweep  *)
(* takes it over.                                                             *)
ClaimHeld ==
    \A r \in Runners : \A o \in Ops : Executing(r, o) =>
        /\ op[o].status = "committing"
        /\ \A q \in Runners \ {r} : ~Executing(q, o)

(* An operation never has two vouchers in the ledger, however often it was    *)
(* given back, approved again, interrupted or swept.                          *)
PostedOnce ==
    \A o \in Ops :
        Cardinality({v \in Vouchers : Posted(v) /\ voucher[v].by = o}) <= 1

(* A request still has voucher v in hand.                                     *)
InHand(v) == \E r \in Runners : job[r].pc # "idle" /\ job[r].own = v

(* The transaction counts once: every posted voucher that books it is the one *)
(* it points at, or belongs to a request that is about to link or undo it.    *)
BookedOnce == \A v \in Vouchers : Posted(v) => tx.link = v \/ InHand(v)

(* A rejected operation has no voucher standing in the ledger: an executor    *)
(* that fails after it has posted has reversed that, or ends failed_partial.  *)
(* What the sweep rejects is left out: there the code only knows that it found*)
(* no evidence.                                                               *)
RejectedIsClean ==
    \A o \in Ops :
        op[o].status = "rejected" /\ ~op[o].recovered =>
            \A v \in Vouchers : ~(Posted(v) /\ voucher[v].by = o)

(* A rejected operation has reversed nothing either: once its executor has    *)
(* posted a storno it ends committed or failed_partial.                       *)
RejectedReversedNothing ==
    \A o \in Ops :
        op[o].status = "rejected" /\ ~op[o].recovered => o \notin storno

(* No operation stays committing: when its process is gone, the sweep gets to *)
(* it.                                                                        *)
OperationsSettle ==
    \A o \in Ops : op[o].status = "committing" ~> op[o].status # "committing"
=============================================================================
