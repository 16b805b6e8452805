----------------------- MODULE PendingOperationsProofs -----------------------
(* Theorems about PendingOperations, for every number of processes, sweeps,  *)
(* operations and requests and every choice of faults.                       *)
EXTENDS PendingOperations, FiniteSetTheorems, TLAPS

-----------------------------------------------------------------------------
(* What a step does, as far as the theorems ask.                             *)

(* From these steps a request may still go on to post.                       *)
BeforePosting == {"claim", "read", "guard", "book", "reverse", "unlink", "pay"}

(* At these an operation has been claimed and nothing is posted for it.      *)
NothingPosted == (BeforePosting \ {"claim"}) \cup {"release"}

TablesTyped ==
    /\ op \in [Ops -> Operation]
    /\ voucher \in [Vouchers -> Voucher]
    /\ tx \in Transaction
    /\ storno \in SUBSET Ops

(* The request of r goes to one of the steps, or ends.                       *)
To(r, steps) ==
    \E j \in Job :
       /\ job' = [job EXCEPT ![r] = j]
       /\ j = Idle \/ (j.pc \in steps /\ j.op = job[r].op)

(* The request takes nothing back that it has left behind.                   *)
Onward(r) ==
    {s \in Steps \ {"idle", "claim"} :
        /\ s \in NothingPosted => job[r].pc \in NothingPosted
        /\ s \in BeforePosting => job[r].pc \in BeforePosting
        /\ s = "reverse" => job[r].op \in Matching}

(* Steps of a request that has posted.                                       *)
AfterPosting == Steps \ ({"idle"} \cup BeforePosting \cup NothingPosted)

(* No voucher appears; one that is posted may be reversed.                   *)
NoneAdded ==
    \/ UNCHANGED voucher
    \/ \E v \in Vouchers : voucher' = [voucher EXCEPT ![v].status = "reversed"]
                           /\ Posted(v)

Adds(r) ==
    /\ job[r].pc \in {"book", "pay"}
    /\ voucher' = [voucher EXCEPT ![NextVoucher] =
                     [status |-> "posted", by |-> job[r].op]]

(* A request between its claim and its conclusion.                           *)
Executes(r) ==
    \/ ReadTransaction(r) \/ Guard(r) \/ Book(r) \/ Link(r) \/ Undo(r)
    \/ ReverseOld(r) \/ Unlink(r) \/ Pay(r) \/ Settle(r)
    \/ RecordPayment(r) \/ Point(r)

LEMMA StepSets ==
    /\ BeforePosting \subseteq Steps /\ NothingPosted \subseteq Steps
    /\ Endings \subseteq Steps
    /\ "idle" \notin BeforePosting \cup NothingPosted \cup Endings
    /\ "claim" \notin NothingPosted \cup Endings
    /\ BeforePosting \cap Endings = {}
BY DEF BeforePosting, NothingPosted, Steps, Endings

LEMMA IdleTyped == Idle \in Job /\ Idle.pc = "idle" /\ Idle.op = None
BY DEF Idle, Job, Steps, NoVoucher

(* Where a request may go from where it is.                                  *)
LEMMA Moves ==
    ASSUME job \in [Runners -> Job], NEW r \in Runners
    PROVE  /\ \A s \in Steps : Goto(r, s) => To(r, {s})
           /\ Stop(r) => To(r, {})
           /\ \A s \in Steps : End(r, s) => To(r, {s})
<1>1. job[r] \in Job OBVIOUS
<1>2. ASSUME NEW s \in Steps, Goto(r, s) PROVE To(r, {s})
  <2> DEFINE j == [job[r] EXCEPT !.pc = s]
  <2>1. j \in Job /\ j.pc = s /\ j.op = job[r].op BY <1>1 DEF Job
  <2>2. job' = [job EXCEPT ![r] = j] BY <1>2 DEF Goto
  <2> QED BY <2>1, <2>2 DEF To
<1>3. Stop(r) => To(r, {}) BY IdleTyped DEF Stop, To
<1>4. ASSUME NEW s \in Steps, End(r, s) PROVE To(r, {s})
  <2>1. CASE job[r].op = Hand BY <2>1, <1>4, IdleTyped DEF End, Stop, To
  <2>2. CASE job[r].op # Hand BY <2>2, <1>4, <1>2 DEF End
  <2> QED BY <2>1, <2>2
<1> QED BY <1>2, <1>3, <1>4

LEMMA Weaker ==
    ASSUME NEW r, NEW few, NEW many, few \subseteq many, To(r, few)
    PROVE  To(r, many)
BY DEF To

(* What a statement writes has the types of the columns.                     *)
LEMMA Writes ==
    ASSUME TypeOK, NEW r \in Runners
    PROVE  /\ UNCHANGED tables => TablesTyped'
           /\ \A row \in Transaction : SetTx(row) => TablesTyped'
           /\ NextVoucher \in Vouchers /\ PostVoucher(r) => TablesTyped'
           /\ \A v \in Vouchers :
                 ReverseVoucher(v) /\ storno' \in SUBSET Ops => TablesTyped'
<1> USE DEF TypeOK, TablesTyped
<1>1. UNCHANGED tables => TablesTyped' BY DEF tables
<1>2. \A row \in Transaction : SetTx(row) => TablesTyped' BY DEF SetTx
<1>3. ASSUME NextVoucher \in Vouchers, PostVoucher(r) PROVE TablesTyped'
  <2>1. [status |-> "posted", by |-> job[r].op] \in Voucher BY DEF Voucher, Job
  <2> QED BY <1>3, <2>1 DEF PostVoucher
<1>4. ASSUME NEW v \in Vouchers, ReverseVoucher(v), storno' \in SUBSET Ops
      PROVE  TablesTyped'
  <2>1. voucher' = [voucher EXCEPT ![v] = [voucher[v] EXCEPT !.status = "reversed"]]
    BY <1>4 DEF ReverseVoucher
  <2>2. [voucher[v] EXCEPT !.status = "reversed"] \in Voucher BY DEF Voucher
  <2>3. tx' \in Transaction BY <1>4 DEF ReverseVoucher, Transaction
  <2> QED BY <1>4, <2>1, <2>2, <2>3 DEF ReverseVoucher
<1> QED BY <1>1, <1>2, <1>3, <1>4

(* Reversing a posted voucher adds none.                                     *)
LEMMA Reversing ==
    ASSUME TypeOK, NEW v \in Vouchers \cup {NoVoucher}, Posted(v), ReverseVoucher(v)
    PROVE  NoneAdded /\ v \in Vouchers /\ op' = op
BY DEF Posted, ReverseVoucher, NoneAdded

(* What a request does between its claim and its conclusion: it leaves the   *)
(* operations alone, and adds a voucher at most once.                        *)
Continues(r) ==
    /\ TablesTyped'
    /\ UNCHANGED <<op, edit, sweep, runs>>
    /\ job[r].pc \in Steps \ ({"idle", "claim"} \cup Endings)
    /\ \/ NoneAdded /\ To(r, Onward(r))
       \/ Adds(r) /\ To(r, AfterPosting)

LEMMA ExecutesStep ==
    ASSUME TypeOK, NEW r \in Runners, Executes(r),
           job[r].pc \in {"book", "pay"} => NextVoucher \in Vouchers,
           job[r].pc = "reverse" => job[r].op \in Matching
    PROVE  Continues(r)
<1> DEFINE pc == job[r].pc
<1>1. job \in [Runners -> Job] /\ job[r] \in Job BY DEF TypeOK
<1>2. job[r].own \in Vouchers \cup {NoVoucher}
      /\ job[r].observed \in Vouchers \cup {NoVoucher}
      /\ job[r].op \in Ops \cup {Hand, None} /\ pc \in Steps
  BY <1>1 DEF Job
<1>3. tx \in Transaction BY DEF TypeOK
<1>4. UNCHANGED tables => op' = op /\ NoneAdded BY DEF tables, NoneAdded
<1>5. \A row : SetTx(row) => op' = op /\ NoneAdded BY DEF SetTx, NoneAdded
<1> HIDE DEF pc
<1>6. \A s \in Onward(r) :
         /\ Goto(r, s) => To(r, Onward(r))
         /\ End(r, s) => To(r, Onward(r))
  <2> SUFFICES ASSUME NEW s \in Onward(r)
               PROVE  /\ Goto(r, s) => To(r, Onward(r))
                      /\ End(r, s) => To(r, Onward(r))
    OBVIOUS
  <2>1. s \in Steps /\ {s} \subseteq Onward(r) BY DEF Onward
  <2>2. Goto(r, s) \/ End(r, s) => To(r, {s}) BY <1>1, <2>1, Moves
  <2>3. To(r, {s}) => To(r, Onward(r)) BY <2>1 DEF To
  <2> QED BY <2>2, <2>3
<1>7. Stop(r) => To(r, Onward(r))
  BY <1>1, Moves, Weaker, {} \subseteq Onward(r)
<1>8. {"finish", "reject", "partial", "settle", "record", "point"} \subseteq Onward(r)
  BY DEF Onward, Steps, Endings, NothingPosted, BeforePosting
<1>9. ASSUME ReadTransaction(r) PROVE Continues(r)
  <2>1. pc = "read" BY <1>9 DEF ReadTransaction, At, pc
  <2>2. "guard" \in Onward(r)
    BY <2>1 DEF Onward, Steps, NothingPosted, BeforePosting, pc
  <2>3. CASE job' = [job EXCEPT ![r].pc = "guard", ![r].observed = tx.link]
    <3> DEFINE j == [job[r] EXCEPT !.pc = "guard", !.observed = tx.link]
    <3>1. j \in Job /\ j.pc = "guard" /\ j.op = job[r].op
      BY <1>1, <1>3 DEF Job, Steps, Transaction
    <3>2. job' = [job EXCEPT ![r] = j] BY <2>3
    <3> QED BY <3>1, <3>2, <2>2, <1>4, <1>9, <2>1, Writes
        DEF To, Continues, ReadTransaction, At, Endings, Steps, tables, pc
  <2>4. CASE Refuse(r)
    BY <2>4, <1>4, <1>6, <1>8, <1>9, <2>1, Writes
       DEF Refuse, Continues, ReadTransaction, At, Endings, Steps, tables, pc
  <2> QED BY <1>9, <2>3, <2>4 DEF ReadTransaction
<1>10. ASSUME Guard(r) PROVE Continues(r)
  <2>1. pc = "guard" BY <1>10 DEF Guard, At, pc
  <2>2. {"book", "pay"} \subseteq Onward(r)
        /\ (job[r].op \in Matching => "reverse" \in Onward(r))
    BY <2>1 DEF Onward, Steps, NothingPosted, BeforePosting, pc
  <2>3. To(r, Onward(r))
    BY <2>2, <1>6, <1>8, <1>10 DEF Guard, Refuse
  <2> QED BY <2>1, <2>3, <1>4, <1>10, Writes
      DEF Continues, Guard, At, Endings, Steps, tables, pc
<1>11. ASSUME Book(r) PROVE Continues(r)
  <2>1. pc = "book" BY <1>11 DEF Book, At, pc
  <2>2. "release" \in Onward(r)
    BY <2>1 DEF Onward, Steps, Endings, NothingPosted, BeforePosting, pc
  <2>3. CASE /\ PostVoucher(r)
             /\ \/ job' = [job EXCEPT ![r].pc = "link", ![r].own = NextVoucher]
                \/ Refuse(r)
    <3>1. Adds(r) /\ op' = op /\ TablesTyped'
      BY <2>1, <2>3, Writes DEF Adds, PostVoucher, pc
    <3>2. {"link", "reject"} \subseteq AfterPosting
      BY DEF AfterPosting, Steps, Endings, NothingPosted, BeforePosting
    <3>3. CASE job' = [job EXCEPT ![r].pc = "link", ![r].own = NextVoucher]
      <4> DEFINE j == [job[r] EXCEPT !.pc = "link", !.own = NextVoucher]
      <4>1. j \in Job /\ j.pc = "link" /\ j.op = job[r].op
        BY <1>1, <2>1 DEF Job, Steps, pc
      <4>2. job' = [job EXCEPT ![r] = j] BY <3>3
      <4> QED BY <3>1, <3>2, <4>1, <4>2, <1>11, <2>1
          DEF To, Continues, Book, At, Endings, Steps, pc
    <3>4. CASE Refuse(r)
      <4>1. To(r, {"reject"})
        BY <1>1, <3>4, Moves DEF Refuse, Steps, Endings
      <4>2. To(r, AfterPosting) BY <3>2, <4>1, Weaker
      <4> QED BY <3>1, <4>2, <1>11, <2>1 DEF Continues, Book, At, Endings, Steps, pc
    <3> QED BY <2>3, <3>3, <3>4
  <2>4. CASE UNCHANGED tables /\ (Refuse(r) \/ End(r, "release"))
    BY <2>4, <1>4, <1>6, <1>8, <2>2, <1>11, <2>1, Writes
       DEF Refuse, Continues, Book, At, Endings, Steps, tables, pc
  <2> QED BY <1>11, <2>3, <2>4 DEF Book, Statement, AccountsMissing
<1>12. ASSUME Link(r) PROVE Continues(r)
  <2>1. pc = "link" BY <1>12 DEF Link, At, pc
  <2>2. {"finish", "undo"} \subseteq Onward(r)
    BY DEF Onward, Steps, Endings, NothingPosted, BeforePosting
  <2>3. To(r, Onward(r)) BY <2>2, <1>6, <1>12 DEF Link, Statement
  <2>4. [tx EXCEPT !.link = job[r].own] \in Transaction
    BY <1>2, <1>3 DEF Transaction
  <2>5. TablesTyped' /\ op' = op /\ NoneAdded
    BY <1>4, <1>5, <2>4, <1>12, Writes DEF Link, Statement
  <2> QED BY <2>1, <2>3, <2>5, <1>12 DEF Continues, Link, At, Endings, Steps, pc
<1>13. ASSUME Undo(r) PROVE Continues(r)
  <2>1. pc = "undo" BY <1>13 DEF Undo, At, pc
  <2>2. To(r, Onward(r)) BY <1>6, <1>8, <1>13 DEF Undo, Statement, Refuse
  <2>3. CASE Posted(job[r].own) /\ ReverseVoucher(job[r].own) /\ storno' = storno
    <3>1. NoneAdded /\ job[r].own \in Vouchers /\ op' = op
      BY <1>2, <2>3, Reversing
    <3>2. storno' \in SUBSET Ops BY <2>3 DEF TypeOK
    <3>3. TablesTyped' BY <3>1, <3>2, <2>3, Writes
    <3> QED BY <2>1, <2>2, <3>1, <3>3, <1>13 DEF Continues, Undo, At, Endings, Steps, pc
  <2>4. CASE UNCHANGED tables
    BY <1>4, <2>1, <2>2, <2>4, <1>13, Writes
       DEF Continues, Undo, At, Endings, Steps, pc
  <2> QED BY <1>13, <2>3, <2>4 DEF Undo, Statement
<1>14. ASSUME ReverseOld(r) PROVE Continues(r)
  <2>1. pc = "reverse" BY <1>14 DEF ReverseOld, At, pc
  <2>2. "unlink" \in Onward(r)
    BY <2>1 DEF Onward, Steps, Endings, NothingPosted, BeforePosting, pc
  <2>3. To(r, Onward(r))
    <3>1. CASE job' = [job EXCEPT ![r].pc = "unlink", ![r].posted = TRUE]
      <4> DEFINE j == [job[r] EXCEPT !.pc = "unlink", !.posted = TRUE]
      <4>1. j \in Job /\ j.pc = "unlink" /\ j.op = job[r].op
        BY <1>1 DEF Job, Steps
      <4>2. job' = [job EXCEPT ![r] = j] BY <3>1
      <4> QED BY <4>1, <4>2, <2>2 DEF To
    <3>2. CASE Refuse(r) BY <3>2, <1>6, <1>8 DEF Refuse
    <3> QED BY <1>14, <3>1, <3>2 DEF ReverseOld, Statement
  <2>4. CASE /\ Posted(job[r].observed) /\ ReverseVoucher(job[r].observed)
             /\ storno' = storno \cup {job[r].op}
    <3>1. NoneAdded /\ job[r].observed \in Vouchers /\ op' = op
      BY <1>2, <2>4, Reversing
    <3>2. storno' \in SUBSET Ops
      BY <2>1, <2>4, OperationsAssumption DEF TypeOK, pc
    <3>3. TablesTyped' BY <3>1, <3>2, <2>4, Writes
    <3> QED BY <2>1, <2>3, <3>1, <3>3, <1>14
        DEF Continues, ReverseOld, At, Endings, Steps, pc
  <2>5. CASE UNCHANGED tables
    BY <1>4, <2>1, <2>3, <2>5, <1>14, Writes
       DEF Continues, ReverseOld, At, Endings, Steps, pc
  <2> QED BY <1>14, <2>4, <2>5 DEF ReverseOld, Statement
<1>15. ASSUME Unlink(r) PROVE Continues(r)
  <2>1. pc = "unlink" BY <1>15 DEF Unlink, At, pc
  <2>2. "pay" \in Onward(r)
    BY <2>1 DEF Onward, Steps, Endings, NothingPosted, BeforePosting, pc
  <2>3. To(r, Onward(r)) BY <2>2, <1>6, <1>15 DEF Unlink, Statement
  <2>4. [tx EXCEPT !.link = NoVoucher] \in Transaction
    BY <1>3 DEF Transaction
  <2>5. TablesTyped' /\ op' = op /\ NoneAdded
    BY <1>4, <1>5, <2>4, <1>15, Writes DEF Unlink, Statement
  <2> QED BY <2>1, <2>3, <2>5, <1>15 DEF Continues, Unlink, At, Endings, Steps, pc
<1>16. ASSUME Pay(r) PROVE Continues(r)
  <2>1. pc = "pay" BY <1>16 DEF Pay, At, pc
  <2>2. "release" \in Onward(r) /\ Failed(r) \in {"reject", "partial"}
    BY <2>1 DEF Onward, Steps, Endings, NothingPosted, BeforePosting, pc, Failed
  <2>3. CASE /\ PostVoucher(r)
             /\ \/ job' = [job EXCEPT ![r].pc = "settle", ![r].own = NextVoucher,
                                      ![r].posted = TRUE]
                \/ Goto(r, Failed(r)) \/ Goto(r, "settle")
    <3>1. Adds(r) /\ op' = op /\ TablesTyped'
      BY <2>1, <2>3, Writes DEF Adds, PostVoucher, pc
    <3>2. {"settle", "reject", "partial"} \subseteq AfterPosting
      BY DEF AfterPosting, Steps, Endings, NothingPosted, BeforePosting
    <3>3. CASE job' = [job EXCEPT ![r].pc = "settle", ![r].own = NextVoucher,
                                  ![r].posted = TRUE]
      <4> DEFINE j == [job[r] EXCEPT !.pc = "settle", !.own = NextVoucher,
                                     !.posted = TRUE]
      <4>1. j \in Job /\ j.pc = "settle" /\ j.op = job[r].op
        BY <1>1, <2>1 DEF Job, Steps, pc
      <4>2. job' = [job EXCEPT ![r] = j] BY <3>3
      <4> QED BY <3>1, <3>2, <4>1, <4>2, <1>16, <2>1
          DEF To, Continues, Pay, At, Endings, Steps, pc
    <3>4. CASE Goto(r, Failed(r)) \/ Goto(r, "settle")
      <4>1. To(r, {Failed(r)}) \/ To(r, {"settle"})
        BY <1>1, <2>2, <3>4, Moves DEF Steps, Endings
      <4>2. To(r, AfterPosting) BY <2>2, <3>2, <4>1 DEF To
      <4> QED BY <3>1, <4>2, <1>16, <2>1 DEF Continues, Pay, At, Endings, Steps, pc
    <3> QED BY <2>3, <3>3, <3>4
  <2>4. CASE /\ UNCHANGED tables
             /\ Goto(r, Failed(r)) \/ Goto(r, "settle") \/ End(r, "release")
    <3>1. To(r, Onward(r)) BY <2>2, <2>4, <1>6, <1>8
    <3> QED BY <2>4, <3>1, <1>4, <1>16, <2>1, Writes
        DEF Continues, Pay, At, Endings, Steps, pc
  <2> QED BY <1>16, <2>3, <2>4 DEF Pay, Statement, AccountsMissing
<1>17. ASSUME Settle(r) PROVE Continues(r)
  <2>1. pc = "settle" BY <1>17 DEF Settle, At, pc
  <2>2. Failed(r) \in Onward(r) BY <1>8 DEF Failed
  <2>3. To(r, Onward(r)) BY <2>2, <1>6, <1>8, <1>17 DEF Settle, Statement
  <2>4. [tx EXCEPT !.settled = TRUE] \in Transaction
    BY <1>3 DEF Transaction
  <2>5. TablesTyped' /\ op' = op /\ NoneAdded
    BY <1>4, <1>5, <2>4, <1>17, Writes DEF Settle, Statement
  <2> QED BY <2>1, <2>3, <2>5, <1>17 DEF Continues, Settle, At, Endings, Steps, pc
<1>18. ASSUME RecordPayment(r) PROVE Continues(r)
  <2>1. pc = "record" BY <1>18 DEF RecordPayment, At, pc
  <2>2. To(r, Onward(r)) BY <1>6, <1>8, <1>18 DEF RecordPayment, Statement
  <2>3. [tx EXCEPT !.payment = TRUE] \in Transaction
    BY <1>3 DEF Transaction
  <2>4. TablesTyped' /\ op' = op /\ NoneAdded
    BY <1>4, <1>5, <2>3, <1>18, Writes DEF RecordPayment, Statement
  <2> QED BY <2>1, <2>2, <2>4, <1>18
      DEF Continues, RecordPayment, At, Endings, Steps, pc
<1>19. ASSUME Point(r) PROVE Continues(r)
  <2>1. pc = "point" BY <1>19 DEF Point, At, pc
  <2>2. To(r, Onward(r)) BY <1>6, <1>8, <1>19 DEF Point, Statement
  <2>3. [tx EXCEPT !.invoiced = TRUE, !.link = job[r].own] \in Transaction
    BY <1>2, <1>3 DEF Transaction
  <2>4. TablesTyped' /\ op' = op /\ NoneAdded
    BY <1>4, <1>5, <2>3, <1>19, Writes DEF Point, Statement
  <2> QED BY <2>1, <2>2, <2>4, <1>19 DEF Continues, Point, At, Endings, Steps, pc
<1> QED BY <1>9, <1>10, <1>11, <1>12, <1>13, <1>14, <1>15, <1>16, <1>17, <1>18,
       <1>19 DEF Executes

(* The other requests are where they were.                                   *)
LEMMA Others ==
    ASSUME job \in [Runners -> Job], NEW r \in Runners, NEW steps, To(r, steps)
    PROVE  /\ job' \in [Runners -> Job]
           /\ \A q \in Runners \ {r} : job'[q] = job[q]
           /\ \/ job'[r] = Idle
              \/ job'[r].pc \in steps /\ job'[r].op = job[r].op
BY DEF To

-----------------------------------------------------------------------------
(* Types. createJournalEntry always finds a voucher that is not in use: every*)
(* request that has not posted yet has one set aside.                        *)

Spent == {v \in Vouchers : voucher[v].status # "absent"}
Spending == {r \in Runners : job[r].pc \in BeforePosting}

Room ==
    /\ IsFiniteSet(Spending)
    /\ Cardinality(Spent) + Cardinality(Spending) <= runs

OnlyMatchesReverse ==
    \A r \in Runners : job[r].pc = "reverse" => job[r].op \in Matching

Typed == TypeOK /\ Room /\ OnlyMatchesReverse

LEMMA VouchersFinite ==
    /\ IsFiniteSet(Vouchers) /\ Cardinality(Vouchers) = MaxRuns
    /\ IsFiniteSet(Spent) /\ Cardinality(Spent) \in Nat
    /\ IsFiniteSet(Spent') /\ Cardinality(Spent') \in Nat
<1>1. IsFiniteSet(Vouchers) /\ Cardinality(Vouchers) = MaxRuns
  <2>1. MaxRuns \in Int /\ 1 \in Int /\ MaxRuns \in Nat BY OperationsAssumption
  <2>2. IsFiniteSet(1..MaxRuns)
        /\ Cardinality(1..MaxRuns) = IF 1 > MaxRuns THEN 0 ELSE MaxRuns - 1 + 1
    BY <2>1, FS_Interval
  <2> QED BY <2>1, <2>2 DEF Vouchers
<1>2. Spent \in SUBSET Vouchers /\ Spent' \in SUBSET Vouchers BY DEF Spent
<1>3. IsFiniteSet(Spent) /\ IsFiniteSet(Spent') BY <1>1, <1>2, FS_Subset
<1> QED BY <1>1, <1>3, FS_CardinalityType

LEMMA VoucherLeft ==
    ASSUME Typed, NEW r \in Runners, job[r].pc \in BeforePosting
    PROVE  NextVoucher \in Vouchers
<1>1. r \in Spending BY DEF Spending
<1>2. Cardinality(Spending) \in Nat /\ Cardinality(Spending) # 0
  BY <1>1, FS_CardinalityType, FS_EmptySet DEF Typed, Room
<1>3. Cardinality(Spent) < MaxRuns
  BY <1>2, VouchersFinite, OperationsAssumption DEF Typed, Room, TypeOK
<1>4. Spent # Vouchers BY <1>3, VouchersFinite, OperationsAssumption
<1>5. \E v \in Vouchers : voucher[v].status = "absent" BY <1>4 DEF Spent
<1> QED BY <1>5 DEF NextVoucher

(* The account is kept by whatever spends, gives up or adds a request.       *)
LEMMA RoomStep ==
    ASSUME Room, runs \in Nat, NEW r, NEW v,
           \/ Spent' = Spent /\ Spending' \subseteq Spending /\ runs' = runs
           \/ Spent' = Spent /\ Spending' \subseteq Spending \cup {r}
              /\ runs' = runs + 1
           \/ r \in Spending /\ Spent' \subseteq Spent \cup {v}
              /\ Spending' \subseteq Spending \ {r} /\ runs' = runs
    PROVE  Room'
<1>1. IsFiniteSet(Spending) /\ Cardinality(Spending) \in Nat
  BY FS_CardinalityType DEF Room
<1>2. CASE Spent' = Spent /\ Spending' \subseteq Spending /\ runs' = runs
  <2>1. Spending' \in SUBSET Spending BY <1>2
  <2>2. IsFiniteSet(Spending') /\ Cardinality(Spending') <= Cardinality(Spending)
    BY <1>1, <2>1, FS_Subset
  <2>3. Cardinality(Spending') \in Nat BY <2>2, FS_CardinalityType
  <2> QED BY <1>1, <1>2, <2>2, <2>3, VouchersFinite DEF Room
<1>3. CASE /\ Spent' = Spent /\ Spending' \subseteq Spending \cup {r}
           /\ runs' = runs + 1
  <2>1. IsFiniteSet(Spending \cup {r})
        /\ Cardinality(Spending \cup {r}) <= Cardinality(Spending) + 1
    BY <1>1, FS_AddElement
  <2>2. Spending' \in SUBSET (Spending \cup {r}) BY <1>3
  <2>3. IsFiniteSet(Spending')
        /\ Cardinality(Spending') <= Cardinality(Spending \cup {r})
    BY <2>1, <2>2, FS_Subset
  <2>4. Cardinality(Spending') \in Nat /\ Cardinality(Spending \cup {r}) \in Nat
    BY <2>1, <2>3, FS_CardinalityType
  <2> QED BY <1>1, <1>3, <2>1, <2>3, <2>4, VouchersFinite DEF Room
<1>4. CASE /\ r \in Spending /\ Spent' \subseteq Spent \cup {v}
           /\ Spending' \subseteq Spending \ {r} /\ runs' = runs
  <2>1. IsFiniteSet(Spending \ {r})
        /\ Cardinality(Spending \ {r}) = Cardinality(Spending) - 1
    BY <1>1, <1>4, FS_RemoveElement
  <2>2. Spending' \in SUBSET (Spending \ {r}) BY <1>4
  <2>3. IsFiniteSet(Spending')
        /\ Cardinality(Spending') <= Cardinality(Spending \ {r})
    BY <2>1, <2>2, FS_Subset
  <2>4. IsFiniteSet(Spent \cup {v})
        /\ Cardinality(Spent \cup {v}) <= Cardinality(Spent) + 1
    BY VouchersFinite, FS_AddElement
  <2>5. Spent' \in SUBSET (Spent \cup {v}) BY <1>4
  <2>6. Cardinality(Spent') <= Cardinality(Spent \cup {v})
    BY <2>4, <2>5, FS_Subset
  <2>7. Cardinality(Spending') \in Nat /\ Cardinality(Spending \ {r}) \in Nat
        /\ Cardinality(Spent \cup {v}) \in Nat
    BY <2>1, <2>3, <2>4, FS_CardinalityType
  <2> QED BY <1>1, <1>4, <2>1, <2>3, <2>4, <2>6, <2>7, VouchersFinite DEF Room
<1> QED BY <1>2, <1>3, <1>4

LEMMA SpentStep ==
    ASSUME TypeOK
    PROVE  /\ voucher' = voucher => Spent' = Spent
           /\ NoneAdded => Spent' = Spent
           /\ \A r : Adds(r) => Spent' \subseteq Spent \cup {NextVoucher}
<1>1. voucher' = voucher => Spent' = Spent BY DEF Spent
<1>2. ASSUME NEW v \in Vouchers, Posted(v),
             voucher' = [voucher EXCEPT ![v].status = "reversed"]
      PROVE  Spent' = Spent
  BY <1>2 DEF Spent, Posted, TypeOK, Voucher
<1>3. ASSUME NEW r, Adds(r) PROVE Spent' \subseteq Spent \cup {NextVoucher}
  BY <1>3 DEF Spent, Adds, TypeOK
<1> QED BY <1>1, <1>2, <1>3 DEF NoneAdded

LEMMA SpendingStep ==
    ASSUME job \in [Runners -> Job], NEW r \in Runners
    PROVE  /\ To(r, Onward(r)) => Spending' \subseteq Spending
           /\ To(r, {}) => Spending' \subseteq Spending
           /\ To(r, AfterPosting) => Spending' \subseteq Spending \ {r}
           /\ job' = job => Spending' = Spending
<1>1. Idle.pc \notin BeforePosting BY DEF Idle, BeforePosting
<1>2. ASSUME To(r, Onward(r)) PROVE Spending' \subseteq Spending
  BY <1>1, <1>2, Others DEF Spending, Onward
<1>3. ASSUME To(r, {}) PROVE Spending' \subseteq Spending
  BY <1>1, <1>3, Others DEF Spending
<1>4. ASSUME To(r, AfterPosting) PROVE Spending' \subseteq Spending \ {r}
  BY <1>1, <1>4, Others DEF Spending, AfterPosting
<1>5. job' = job => Spending' = Spending BY DEF Spending
<1> QED BY <1>2, <1>3, <1>4, <1>5

LEMMA TypedExecutes ==
    ASSUME Typed, NEW r \in Runners, Executes(r)
    PROVE  Continues(r) /\ Typed'
<1>1. Continues(r)
  <2>1. job[r].pc \in {"book", "pay"} => NextVoucher \in Vouchers
    BY VoucherLeft DEF BeforePosting
  <2> QED BY <2>1, ExecutesStep DEF Typed, OnlyMatchesReverse
<1>2. TypeOK /\ Room /\ job \in [Runners -> Job] /\ runs \in Nat
  BY DEF Typed, TypeOK
<1>3. "reverse" \notin AfterPosting /\ Idle.pc # "reverse"
  BY DEF AfterPosting, BeforePosting, Idle
<1>4. CASE NoneAdded /\ To(r, Onward(r))
  <2>1. Spent' = Spent /\ Spending' \subseteq Spending /\ runs' = runs
    BY <1>1, <1>2, <1>4, SpentStep, SpendingStep DEF Continues
  <2>2. Room' BY <1>2, <2>1, RoomStep
  <2>3. TypeOK' BY <1>1, <1>2, <1>4, Others DEF Continues, TablesTyped, TypeOK
  <2>4. OnlyMatchesReverse'
    BY <1>2, <1>3, <1>4, Others DEF Typed, OnlyMatchesReverse, Onward
  <2> QED BY <1>1, <2>2, <2>3, <2>4 DEF Typed
<1>5. CASE Adds(r) /\ To(r, AfterPosting)
  <2>1. r \in Spending BY <1>5 DEF Adds, Spending, BeforePosting
  <2>2. Spent' \subseteq Spent \cup {NextVoucher} BY <1>2, <1>5, SpentStep
  <2>3. Spending' \subseteq Spending \ {r} BY <1>2, <1>5, SpendingStep
  <2>4. runs' = runs BY <1>1 DEF Continues
  <2>5. Room' BY <1>2, <2>1, <2>2, <2>3, <2>4, RoomStep
  <2>6. TypeOK' BY <1>1, <1>2, <1>5, Others DEF Continues, TablesTyped, TypeOK
  <2>7. OnlyMatchesReverse'
    BY <1>2, <1>3, <1>5, Others DEF Typed, OnlyMatchesReverse
  <2> QED BY <1>1, <2>5, <2>6, <2>7 DEF Typed
<1> QED BY <1>1, <1>4, <1>5 DEF Continues

LEMMA OperationRows ==
    ASSUME TypeOK
    PROVE  /\ \A o \in Ops, s \in {"pending", "committing"} \cup Final :
                 [op[o] EXCEPT !.status = s] \in Operation
           /\ \A o : \A row : (o \in Ops => row \in Operation) /\ SetOp(o, row)
                 => TablesTyped'
<1>1. ASSUME NEW o \in Ops, NEW s \in {"pending", "committing"} \cup Final
      PROVE  [op[o] EXCEPT !.status = s] \in Operation
  BY DEF TypeOK, Operation
<1>2. ASSUME NEW o, NEW row, o \in Ops => row \in Operation, SetOp(o, row)
      PROVE  TablesTyped'
  <2>1. o \in Ops => [row EXCEPT !.stale = FALSE] \in Operation
    BY <1>2 DEF Operation
  <2>2. op' = [op EXCEPT ![o] = [row EXCEPT !.stale = FALSE]]
    BY <1>2 DEF SetOp
  <2>3. op' \in [Ops -> Operation] BY <2>1, <2>2 DEF TypeOK
  <2> QED BY <2>3, <1>2 DEF TypeOK, TablesTyped, SetOp
<1> QED BY <1>1, <1>2

(* A step that leaves vouchers and requests alone, but for ending one.       *)
LEMMA TypedQuietly ==
    ASSUME Typed, TablesTyped', voucher' = voucher,
           job' = job \/ \E r \in Runners : To(r, {}), runs' = runs,
           edit' \in Ops \cup {None},
           sweep' \in [Sweepers -> [todo : SUBSET Ops, row : Ops \cup {None},
                                    evidence : BOOLEAN]]
    PROVE  Typed'
<1>1. TypeOK /\ Room /\ job \in [Runners -> Job] /\ runs \in Nat
  BY DEF Typed, TypeOK
<1>2. Spent' = Spent /\ Spending' \subseteq Spending
  <2>1. Spent' = Spent BY <1>1, SpentStep
  <2>2. CASE job' = job BY <2>1, <2>2 DEF Spending
  <2>3. CASE \E r \in Runners : To(r, {})
    <3>1. PICK r \in Runners : To(r, {}) BY <2>3
    <3>2. Spending' \subseteq Spending BY <1>1, <3>1, SpendingStep
    <3> QED BY <2>1, <3>2
  <2> QED BY <2>2, <2>3
<1>3. Room' BY <1>1, <1>2, RoomStep
<1>4. job' \in [Runners -> Job] BY <1>1, Others
<1>5. TypeOK' BY <1>1, <1>4 DEF TablesTyped, TypeOK
<1>6. Idle.pc # "reverse" BY DEF Idle
<1>7. OnlyMatchesReverse'
  BY <1>1, <1>6, Others DEF Typed, OnlyMatchesReverse, Onward
<1> QED BY <1>3, <1>5, <1>7 DEF Typed

LEMMA TypedInit == Init => Typed
<1> SUFFICES ASSUME Init PROVE Typed OBVIOUS
<1>1. TypeOK
  BY OperationsAssumption, IdleTyped
     DEF Init, TypeOK, Operation, Voucher, Transaction, Resting, NoVoucher
<1>2. Spent = {} /\ Spending = {}
  BY DEF Init, Spent, Spending, Idle, BeforePosting
<1>3. Room BY <1>2, FS_EmptySet DEF Init, Room
<1>4. OnlyMatchesReverse BY DEF Init, OnlyMatchesReverse, Idle
<1> QED BY <1>1, <1>3, <1>4 DEF Typed

LEMMA TypedBegin ==
    ASSUME Typed, NEW r \in Runners, NEW j \in Job, j.pc # "reverse", Begin(r, j)
    PROVE  Typed'
<1>1. TypeOK /\ Room /\ job \in [Runners -> Job] /\ runs \in Nat
  BY DEF Typed, TypeOK
<1>2. job' = [job EXCEPT ![r] = j] /\ runs' = runs + 1 /\ runs < MaxRuns
      /\ UNCHANGED <<op, voucher, tx, storno, edit, sweep>>
  BY DEF Begin, tables
<1>3. Spent' = Spent /\ Spending' \subseteq Spending \cup {r}
  BY <1>1, <1>2 DEF Spent, Spending
<1>4. Room' BY <1>1, <1>2, <1>3, RoomStep
<1>5. TypeOK' BY <1>1, <1>2, OperationsAssumption DEF TypeOK
<1>6. OnlyMatchesReverse' BY <1>1, <1>2 DEF Typed, OnlyMatchesReverse
<1> QED BY <1>4, <1>5, <1>6 DEF Typed

(* A request's other steps: the claim, the conclusion and its death.         *)
LEMMA TypedRequest ==
    ASSUME Typed, NEW r \in Runners
    PROVE  /\ \A o \in Ops : Approve(r, o) => Typed'
           /\ BookByHand(r) => Typed'
           /\ Claim(r) => Typed'
           /\ Conclude(r) => Typed'
           /\ Crash(r) => Typed'
<1>1. TypeOK /\ job \in [Runners -> Job] /\ job[r] \in Job
  BY DEF Typed, TypeOK
<1>2. UNCHANGED tables => TablesTyped' /\ voucher' = voucher
  BY <1>1 DEF tables, TypeOK, TablesTyped
<1>3. ASSUME NEW o \in Ops, Approve(r, o) PROVE Typed'
  <2> DEFINE j == [Idle EXCEPT !.pc = "claim", !.op = o]
  <2>1. j \in Job /\ j.pc # "reverse" BY DEF Idle, Job, Steps
  <2>2. Begin(r, j) BY <1>3 DEF Approve
  <2> HIDE DEF j
  <2> QED BY <2>1, <2>2, TypedBegin
<1>4. ASSUME BookByHand(r) PROVE Typed'
  <2> DEFINE j == [Idle EXCEPT !.pc = "read", !.op = Hand]
  <2>1. j \in Job /\ j.pc # "reverse" BY DEF Idle, Job, Steps
  <2>2. Begin(r, j) BY <1>4 DEF BookByHand
  <2> HIDE DEF j
  <2> QED BY <2>1, <2>2, TypedBegin
<1>5. ASSUME Claim(r) PROVE Typed'
  <2>1. job[r].pc = "claim" /\ UNCHANGED <<edit, sweep, runs>>
    BY <1>5 DEF Claim, At
  <2>2. TablesTyped' /\ voucher' = voucher
    <3>1. ASSUME SetOp(job[r].op, [op[job[r].op] EXCEPT !.status = "committing"])
          PROVE  TablesTyped' /\ voucher' = voucher
      BY <1>1, <3>1, OperationRows DEF SetOp
    <3> QED BY <1>2, <1>5, <3>1 DEF Claim, Statement
  <2>3. CASE Stop(r)
    <3>1. To(r, {}) BY <1>1, <2>3, Moves
    <3> QED BY <1>1, <2>1, <2>2, <3>1, TypedQuietly DEF TypeOK
  <2>4. CASE Goto(r, "read")
    <3>1. To(r, {"read"}) BY <1>1, <2>4, Moves DEF Steps
    <3>2. \/ job'[r] = Idle
          \/ job'[r].pc = "read" /\ job'[r].op = job[r].op
      BY <1>1, <3>1, Others
    <3>3. /\ job' \in [Runners -> Job]
          /\ \A q \in Runners \ {r} : job'[q] = job[q]
      BY <1>1, <3>1, Others
    <3>4. TypeOK' BY <1>1, <2>1, <2>2, <3>3 DEF TypeOK, TablesTyped
    <3>5. Spent' = Spent BY <1>1, <2>2, SpentStep
    <3>6. Spending' \subseteq Spending
      BY <2>1, <3>2, <3>3 DEF Spending, BeforePosting, Idle
    <3>7. Room' BY <2>1, <3>5, <3>6, RoomStep DEF Typed, TypeOK
    <3>8. OnlyMatchesReverse'
      BY <3>2, <3>3 DEF Typed, OnlyMatchesReverse, Idle
    <3> QED BY <3>4, <3>7, <3>8 DEF Typed
  <2> QED BY <1>5, <2>3, <2>4 DEF Claim, Statement
<1>6. ASSUME Conclude(r) PROVE Typed'
  <2>1. job[r].pc \in Endings /\ UNCHANGED <<edit, sweep, runs>> /\ Stop(r)
    BY <1>6 DEF Conclude, Statement
  <2>2. Outcome(job[r].pc) \in {"pending", "committing"} \cup Final
    BY <2>1 DEF Outcome, Endings, Final
  <2>3. TablesTyped' /\ voucher' = voucher
    <3>1. ASSUME SetOp(job[r].op, [op[job[r].op] EXCEPT
                                    !.status = Outcome(job[r].pc)])
          PROVE  TablesTyped' /\ voucher' = voucher
      BY <1>1, <2>2, <3>1, OperationRows DEF SetOp
    <3> QED BY <1>2, <1>6, <3>1 DEF Conclude, Statement
  <2>4. To(r, {}) BY <1>1, <2>1, Moves
  <2> QED BY <1>1, <2>1, <2>3, <2>4, TypedQuietly DEF TypeOK
<1>7. ASSUME Crash(r) PROVE Typed'
  <2>1. To(r, {}) BY <1>1, <1>7, Moves DEF Crash
  <2> QED BY <1>1, <1>2, <1>7, <2>1, TypedQuietly DEF TypeOK, Crash
<1> QED BY <1>3, <1>4, <1>5, <1>6, <1>7

(* Rejections, edits and the sweep.                                          *)
LEMMA TypedOthers ==
    ASSUME Typed
    PROVE  /\ \A o \in Ops : Reject(o) => Typed'
           /\ \A o \in Ops : StartEdit(o) => Typed'
           /\ \A o \in Ops : Age(o) => Typed'
           /\ FinishEdit => Typed'
           /\ \A s \in Sweepers : Sweep(s) => Typed'
<1>1. TypeOK BY DEF Typed
<1>2. UNCHANGED tables => TablesTyped' /\ voucher' = voucher
  BY <1>1 DEF tables, TypeOK, TablesTyped
<1>3. ASSUME NEW o \in Ops, Reject(o) PROVE Typed'
  <2>1. SetOp(o, [op[o] EXCEPT !.status = "rejected"])
        /\ UNCHANGED <<edit, job, sweep, runs>>
    BY <1>3 DEF Reject
  <2>2. [op[o] EXCEPT !.status = "rejected"] \in Operation
    BY <1>1, OperationRows DEF Final
  <2>3. TablesTyped' BY <1>1, <2>1, <2>2, OperationRows
  <2> QED BY <1>1, <2>1, <2>3, TypedQuietly DEF TypeOK, SetOp
<1>4. ASSUME NEW o \in Ops, StartEdit(o) PROVE Typed'
  BY <1>1, <1>2, <1>4, TypedQuietly DEF StartEdit, TypeOK
<1>5. ASSUME NEW o \in Ops, Age(o) PROVE Typed'
  <2>1. op' = [op EXCEPT ![o] = [op[o] EXCEPT !.stale = TRUE]]
        /\ UNCHANGED <<voucher, tx, storno, edit, job, sweep, runs>>
    BY <1>5 DEF Age
  <2>2. [op[o] EXCEPT !.stale = TRUE] \in Operation
    <3>1. \A row \in Operation : [row EXCEPT !.stale = TRUE] \in Operation
      BY DEF Operation
    <3> QED BY <1>1, <3>1 DEF TypeOK
  <2>3. op' \in [Ops -> Operation] BY <1>1, <2>1, <2>2 DEF TypeOK
  <2>4. TablesTyped' BY <1>1, <2>1, <2>3 DEF TypeOK, TablesTyped
  <2> QED BY <1>1, <2>1, <2>4, TypedQuietly DEF TypeOK
<1>6. ASSUME FinishEdit PROVE Typed'
  <2>1. edit' = None /\ UNCHANGED <<job, sweep, runs>> BY <1>6 DEF FinishEdit
  <2>2. TablesTyped' /\ voucher' = voucher
    <3>1. ASSUME SetOp(edit, op[edit]) PROVE TablesTyped' /\ voucher' = voucher
      <4>1. edit \in Ops => op[edit] \in Operation BY <1>1 DEF TypeOK
      <4> QED BY <1>1, <3>1, <4>1, OperationRows DEF SetOp
    <3> QED BY <1>2, <1>6, <3>1 DEF FinishEdit
  <2> QED BY <1>1, <2>1, <2>2, TypedQuietly DEF TypeOK
<1>7. ASSUME NEW s \in Sweepers, Sweep(s) PROVE Typed'
  <2> DEFINE Runs == [todo : SUBSET Ops, row : Ops \cup {None}, evidence : BOOLEAN]
  <2>1. sweep[s] \in Runs BY <1>1 DEF TypeOK
  <2>2. \A next \in Runs : SweepStep(s, next) =>
           /\ sweep' \in [Sweepers -> Runs]
           /\ UNCHANGED <<voucher, tx, storno, edit, job, runs>>
    BY <1>1 DEF SweepStep, TypeOK
  <2>3. \A todo \in SUBSET Ops : [Resting EXCEPT !.todo = todo] \in Runs
    BY DEF Resting
  <2> HIDE DEF Runs
  <2>4. ASSUME NEW next \in Runs, SweepStep(s, next), op' \in [Ops -> Operation]
        PROVE  Typed'
    <3>1. /\ sweep' \in [Sweepers -> Runs]
          /\ UNCHANGED <<voucher, tx, storno, edit, job, runs>>
      BY <2>2, <2>4
    <3>2. TablesTyped' BY <1>1, <2>4, <3>1 DEF TypeOK, TablesTyped
    <3> QED BY <1>1, <3>1, <3>2, TypedQuietly DEF TypeOK, Runs
  <2>5. op' = op => op' \in [Ops -> Operation] BY <1>1 DEF TypeOK
  <2>6. CASE ListStuck(s)
    <3>1. {o \in Ops : op[o].status = "committing" /\ op[o].stale} \in SUBSET Ops
      OBVIOUS
    <3> QED BY <2>3, <2>4, <2>5, <2>6, <3>1 DEF ListStuck
  <2>7. CASE Probe(s)
    <3>1. sweep[s].todo \in SUBSET Ops BY <2>1 DEF Runs
    <3>2. PICK o \in sweep[s].todo :
             \/ SweepStep(s, [todo |-> sweep[s].todo \ {o}, row |-> o,
                              evidence |-> Evidence(o)])
             \/ SweepStep(s, [Resting EXCEPT !.todo = sweep[s].todo \ {o}])
      BY <2>7 DEF Probe
    <3>3. Evidence(o) \in BOOLEAN BY <1>1 DEF Evidence, TypeOK, Transaction
    <3>4. [todo |-> sweep[s].todo \ {o}, row |-> o, evidence |-> Evidence(o)]
             \in Runs
      BY <3>1, <3>3 DEF Runs
    <3>5. [Resting EXCEPT !.todo = sweep[s].todo \ {o}] \in Runs BY <3>1, <2>3
    <3> QED BY <2>4, <2>5, <2>7, <3>2, <3>4, <3>5 DEF Probe
  <2>8. CASE Resolve(s)
    <3> DEFINE o == sweep[s].row
               row == [Verdict(o, sweep[s].evidence) EXCEPT !.stale = FALSE]
    <3>1. o \in Ops /\ sweep[s].todo \in SUBSET Ops
      BY <2>1, <2>8 DEF Resolve, Runs
    <3>2. row \in Operation
      <4>1. \A status \in Final, r \in Operation :
               [[r EXCEPT !.status = status, !.recovered = TRUE]
                  EXCEPT !.stale = FALSE] \in Operation
        BY DEF Operation
      <4>2. op[o] \in Operation BY <1>1, <3>1 DEF TypeOK
      <4>3. (IF sweep[s].evidence THEN "committed" ELSE "rejected") \in Final
        BY DEF Final
      <4> QED BY <4>1, <4>2, <4>3 DEF Verdict
    <3>3. op' = [op EXCEPT ![o] = row] \/ op' = op BY <2>8 DEF Resolve
    <3> HIDE DEF row
    <3>4. op' \in [Ops -> Operation] BY <1>1, <3>1, <3>2, <3>3 DEF TypeOK
    <3> QED BY <2>3, <2>4, <2>8, <3>1, <3>4 DEF Resolve
  <2> QED BY <1>7, <2>6, <2>7, <2>8 DEF Sweep
<1> QED BY <1>3, <1>4, <1>5, <1>6, <1>7

LEMMA TypedStep == Typed /\ [Next]_vars => Typed'
<1> SUFFICES ASSUME Typed, [Next]_vars PROVE Typed' OBVIOUS
<1>1. CASE UNCHANGED vars
  BY <1>1 DEF vars, Typed, TypeOK, Room, Spent, Spending, OnlyMatchesReverse
<1>2. ASSUME NEW r \in Runners, Advance(r) PROVE Typed'
  <2>1. CASE Claim(r) \/ Conclude(r) BY <2>1, TypedRequest
  <2>2. CASE Executes(r) BY <2>2, TypedExecutes
  <2> QED BY <1>2, <2>1, <2>2 DEF Advance, Executes
<1> QED BY <1>1, <1>2, TypedRequest, TypedOthers DEF Next

(* Operations, vouchers, the transaction and all local variables keep their  *)
(* types: in particular no status outside the table's check constraint is    *)
(* written, and no request posts more vouchers than it may.                  *)
THEOREM OperationsTyped == Spec => []TypeOK
<1>1. Typed => TypeOK BY DEF Typed
<1> QED BY <1>1, TypedInit, TypedStep, PTL DEF Spec

LEMMA TypedAlways == Spec => []Typed
BY TypedInit, TypedStep, PTL DEF Spec

-----------------------------------------------------------------------------
(* Claims. What is being executed is committing and young, and what a sweep  *)
(* has listed is neither executed nor to be claimed any more.                *)

Listed(s, o) == o \in sweep[s].todo \/ o = sweep[s].row

Claimed ==
    /\ ClaimHeld
    /\ \A r \in Runners : \A o \in Ops : Executing(r, o) => ~op[o].stale
    /\ \A s \in Sweepers : \A o \in Ops : Listed(s, o) =>
          /\ op[o].status # "pending"
          /\ \A r \in Runners : ~Executing(r, o)

LEMMA ClaimedInit == Init => Claimed
BY OperationsAssumption
   DEF Init, Claimed, ClaimHeld, Executing, Listed, Resting, Idle

(* Nobody begins to execute, and the operations and sweeps stay as they are. *)
LEMMA ClaimedQuietly ==
    ASSUME Claimed, UNCHANGED <<op, sweep>>,
           \A q \in Runners : \A o \in Ops : Executing(q, o)' => Executing(q, o)
    PROVE  Claimed'
BY DEF Claimed, ClaimHeld, Listed

LEMMA ExecutingStep ==
    ASSUME TypeOK, NEW r \in Runners, NEW steps, To(r, steps),
           job[r].pc \notin {"idle", "claim"} \/ steps \subseteq {"idle", "claim"}
    PROVE  \A q \in Runners : \A o \in Ops : Executing(q, o)' => Executing(q, o)
<1>1. job \in [Runners -> Job] BY DEF TypeOK
<1>2. ASSUME NEW q \in Runners, NEW o \in Ops, Executing(q, o)'
      PROVE  Executing(q, o)
  <2>1. CASE q # r BY <1>1, <1>2, <2>1, Others DEF Executing
  <2>2. CASE q = r
    <3>1. job'[r].op = o /\ job'[r].pc \notin {"idle", "claim"}
      BY <1>2, <2>2 DEF Executing
    <3>2. job'[r].pc \in steps /\ job'[r].op = job[r].op
      BY <1>1, <3>1, Others, IdleTyped
    <3> QED BY <2>2, <3>1, <3>2 DEF Executing
  <2> QED BY <2>1, <2>2
<1> QED BY <1>2

(* One row changes: what is executed stays committing and young, and what is *)
(* listed does not become pending.                                           *)
LEMMA ClaimedRow ==
    ASSUME TypeOK, Claimed, NEW o \in Ops, NEW row,
           op' = [op EXCEPT ![o] = row], sweep' = sweep,
           \A q \in Runners : \A p \in Ops : Executing(q, p)' => Executing(q, p),
           (\E q \in Runners : Executing(q, o)') =>
               row.status = "committing" /\ ~row.stale,
           (\E s \in Sweepers : Listed(s, o)) => row.status # "pending"
    PROVE  Claimed'
<1>1. /\ op'[o] = row
      /\ \A p \in Ops \ {o} : op'[p] = op[p]
  BY DEF TypeOK
<1>2. ClaimHeld' BY <1>1 DEF Claimed, ClaimHeld
<1>3. (\A r \in Runners : \A p \in Ops : Executing(r, p) => ~op[p].stale)'
  BY <1>1 DEF Claimed
<1>4. (\A s \in Sweepers : \A p \in Ops : Listed(s, p) =>
          /\ op[p].status # "pending"
          /\ \A r \in Runners : ~Executing(r, p))'
  BY <1>1 DEF Claimed, Listed
<1> QED BY <1>2, <1>3, <1>4 DEF Claimed

LEMMA ClaimedRequest ==
    ASSUME Typed, Claimed, NEW r \in Runners
    PROVE  /\ \A o \in Ops : Approve(r, o) => Claimed'
           /\ BookByHand(r) => Claimed'
           /\ Claim(r) => Claimed'
           /\ Executes(r) => Claimed'
           /\ Conclude(r) => Claimed'
           /\ Crash(r) => Claimed'
<1>1. TypeOK /\ job \in [Runners -> Job] BY DEF Typed, TypeOK
<1>2. ASSUME NEW j \in Job, Begin(r, j), j.pc = "claim" \/ j.op \notin Ops
      PROVE  Claimed'
  <2>1. job' = [job EXCEPT ![r] = j] /\ UNCHANGED <<op, sweep>>
    BY <1>2 DEF Begin, tables
  <2>2. \A q \in Runners : \A o \in Ops : Executing(q, o)' => Executing(q, o)
    BY <1>1, <1>2, <2>1 DEF Executing
  <2> QED BY <2>1, <2>2, ClaimedQuietly
<1>3. ASSUME NEW o \in Ops, Approve(r, o) PROVE Claimed'
  <2> DEFINE j == [Idle EXCEPT !.pc = "claim", !.op = o]
  <2>1. j \in Job /\ j.pc = "claim" BY DEF Idle, Job, Steps
  <2>2. Begin(r, j) BY <1>3 DEF Approve
  <2> HIDE DEF j
  <2> QED BY <2>1, <2>2, <1>2
<1>4. ASSUME BookByHand(r) PROVE Claimed'
  <2> DEFINE j == [Idle EXCEPT !.pc = "read", !.op = Hand]
  <2>1. j \in Job /\ j.op \notin Ops
    BY OperationsAssumption DEF Idle, Job, Steps
  <2>2. Begin(r, j) BY <1>4 DEF BookByHand
  <2> HIDE DEF j
  <2> QED BY <2>1, <2>2, <1>2
<1>5. ASSUME NEW steps, To(r, steps), UNCHANGED <<op, sweep>>,
             job[r].pc \notin {"idle", "claim"} \/ steps \subseteq {"idle", "claim"}
      PROVE  Claimed'
  BY <1>1, <1>5, ExecutingStep, ClaimedQuietly
<1>6. ASSUME Claim(r) PROVE Claimed'
  <2> DEFINE o == job[r].op
             row == [[op[o] EXCEPT !.status = "committing"] EXCEPT !.stale = FALSE]
  <2>1. job[r].pc = "claim" /\ sweep' = sweep BY <1>6 DEF Claim, At
  <2>2. CASE Stop(r) /\ op' = op
    BY <1>1, <1>5, <2>1, <2>2, Moves, {} \subseteq {"idle", "claim"}
  <2>3. ASSUME o \in Ops, job[r].pc = "claim", op[o].status = "pending",
               op' = [op EXCEPT ![o] = row], To(r, {"read"}) \/ Stop(r)
        PROVE  Claimed'
    <3>1. /\ op'[o].status = "committing" /\ ~op'[o].stale
          /\ \A p \in Ops \ {o} : op'[p] = op[p]
      BY <1>1, <2>3 DEF TypeOK, Operation
    <3>2. \A q \in Runners : ~Executing(q, o) /\ \A s \in Sweepers : ~Listed(s, o)
      BY <2>3 DEF Claimed, ClaimHeld
    <3>3. \A q \in Runners \ {r} : job'[q] = job[q]
      BY <1>1, <2>3, Others DEF Stop
    <3>4. job'[r] = Idle \/ job'[r].op = o
      BY <1>1, <2>3, Others DEF Stop
    <3>5. \A q \in Runners : \A p \in Ops :
             Executing(q, p)' => Executing(q, p) \/ (q = r /\ p = o)
      BY <3>3, <3>4, IdleTyped, OperationsAssumption DEF Executing
    <3>6. ClaimHeld' BY <3>1, <3>2, <3>5 DEF Claimed, ClaimHeld
    <3>7. (\A q \in Runners : \A p \in Ops : Executing(q, p) => ~op[p].stale)'
      BY <3>1, <3>2, <3>5 DEF Claimed
    <3>8. (\A s \in Sweepers : \A p \in Ops : Listed(s, p) =>
              /\ op[p].status # "pending"
              /\ \A q \in Runners : ~Executing(q, p))'
      <4>1. \A s \in Sweepers : \A p \in Ops : Listed(s, p)' => Listed(s, p) /\ p # o
        BY <2>1, <3>2 DEF Listed
      <4> QED BY <3>1, <3>5, <4>1 DEF Claimed
    <3> QED BY <3>6, <3>7, <3>8 DEF Claimed
  <2>4. ASSUME o \notin Ops, op' = [op EXCEPT ![o] = row], To(r, {"read"}) \/ Stop(r)
        PROVE  Claimed'
    <3>1. op' = op BY <1>1, <2>4 DEF TypeOK
    <3>2. \A q \in Runners \ {r} : job'[q] = job[q]
      BY <1>1, <2>4, Others DEF Stop
    <3>3. job'[r] = Idle \/ job'[r].op = o
      BY <1>1, <2>4, Others DEF Stop
    <3>4. \A q \in Runners : \A p \in Ops : Executing(q, p)' => Executing(q, p)
      BY <2>4, <3>2, <3>3, IdleTyped, OperationsAssumption DEF Executing
    <3> QED BY <2>1, <3>1, <3>4, ClaimedQuietly
  <2>5. CASE /\ op[o].status = "pending" /\ op' = [op EXCEPT ![o] = row]
             /\ Goto(r, "read") \/ Stop(r)
    <3>1. To(r, {"read"}) \/ Stop(r) BY <1>1, <2>5, Moves DEF Steps
    <3> QED BY <2>1, <2>3, <2>4, <2>5, <3>1
  <2> QED BY <1>6, <2>2, <2>5 DEF Claim, Statement, Claimable, SetOp, tables
<1>7. ASSUME Executes(r) PROVE Claimed'
  <2>1. Continues(r) BY <1>7, TypedExecutes
  <2>2. job[r].pc \notin {"idle", "claim"} /\ UNCHANGED <<op, sweep>>
    BY <2>1 DEF Continues
  <2> QED BY <1>5, <2>1, <2>2 DEF Continues
<1>8. ASSUME Conclude(r) PROVE Claimed'
  <2> DEFINE o == job[r].op
             row == [[op[o] EXCEPT !.status = Outcome(job[r].pc)] EXCEPT !.stale = FALSE]
  <2>1. job[r].pc \in Endings /\ Stop(r) /\ sweep' = sweep
        /\ (op' = op \/ op' = [op EXCEPT ![o] = row])
    BY <1>8 DEF Conclude, Statement, SetOp, tables
  <2>2. To(r, {}) BY <1>1, <2>1, Moves
  <2>3. CASE op' = op
    BY <1>5, <2>1, <2>2, <2>3, {} \subseteq {"idle", "claim"}
  <2>4. CASE op' = [op EXCEPT ![o] = row] /\ o \notin Ops
    <3>1. op' = op BY <1>1, <2>4 DEF TypeOK
    <3> QED BY <1>5, <2>1, <2>2, <3>1, {} \subseteq {"idle", "claim"}
  <2>5. ASSUME NEW p \in Ops, p = o, op' = [op EXCEPT ![p] = row]
        PROVE  Claimed'
    <3>1. \A q \in Runners : \A x \in Ops : Executing(q, x)' => Executing(q, x)
      BY <1>1, <2>2, ExecutingStep, {} \subseteq {"idle", "claim"}
    <3>2. Executing(r, p) BY <2>1, <2>5 DEF Executing, Endings
    <3>3. \A q \in Runners : ~Executing(q, p)'
      <4>1. ~Executing(r, p)' BY <1>1, <2>1, IdleTyped DEF Executing, Stop
      <4>2. \A q \in Runners \ {r} : ~Executing(q, p)
        BY <3>2 DEF Claimed, ClaimHeld
      <4> QED BY <3>1, <4>1, <4>2
    <3>4. \A s \in Sweepers : ~Listed(s, p) BY <3>2 DEF Claimed
    <3> HIDE DEF row
    <3> QED BY <1>1, <2>1, <2>5, <3>1, <3>3, <3>4, ClaimedRow
  <2> QED BY <2>1, <2>3, <2>4, <2>5
<1>9. ASSUME Crash(r) PROVE Claimed'
  <2>1. To(r, {}) /\ UNCHANGED <<op, sweep>>
    BY <1>1, <1>9, Moves DEF Crash, tables
  <2> QED BY <1>5, <2>1, {} \subseteq {"idle", "claim"}
<1> QED BY <1>3, <1>4, <1>6, <1>7, <1>8, <1>9

(* Rejections, edits and the sweep leave alone what is executed.             *)
LEMMA ClaimedOthers ==
    ASSUME Typed, Claimed
    PROVE  /\ \A o \in Ops : Reject(o) => Claimed'
           /\ \A o \in Ops : StartEdit(o) => Claimed'
           /\ \A o \in Ops : Age(o) => Claimed'
           /\ FinishEdit => Claimed'
           /\ \A s \in Sweepers : Sweep(s) => Claimed'
<1>1. TypeOK BY DEF Typed
<1>2. job' = job =>
         \A q \in Runners : \A o \in Ops : Executing(q, o)' => Executing(q, o)
  BY DEF Executing
<1>3. ASSUME NEW o \in Ops, Reject(o) PROVE Claimed'
  <2> DEFINE row == [[op[o] EXCEPT !.status = "rejected"] EXCEPT !.stale = FALSE]
  <2>1. op[o].status = "pending" /\ op' = [op EXCEPT ![o] = row]
        /\ UNCHANGED <<job, sweep>>
    BY <1>3 DEF Reject, SetOp
  <2>2. row.status = "rejected" BY <1>1 DEF TypeOK, Operation
  <2>3. \A q \in Runners : ~Executing(q, o)'
    BY <1>2, <2>1 DEF Claimed, ClaimHeld
  <2> HIDE DEF row
  <2> QED BY <1>1, <1>2, <2>1, <2>2, <2>3, ClaimedRow
<1>4. ASSUME NEW o \in Ops, StartEdit(o) PROVE Claimed'
  BY <1>2, <1>4, ClaimedQuietly DEF StartEdit, tables
<1>5. ASSUME NEW o \in Ops, Age(o) PROVE Claimed'
  <2> DEFINE row == [op[o] EXCEPT !.stale = TRUE]
  <2>1. Abandoned(o) /\ op' = [op EXCEPT ![o] = row] /\ UNCHANGED <<job, sweep>>
    BY <1>5 DEF Age
  <2>2. row.status = "committing" BY <1>1, <2>1 DEF Abandoned, TypeOK, Operation
  <2>3. \A q \in Runners : ~Executing(q, o)' BY <1>2, <2>1 DEF Abandoned
  <2> HIDE DEF row
  <2> QED BY <1>1, <1>2, <2>1, <2>2, <2>3, ClaimedRow
<1>6. ASSUME FinishEdit PROVE Claimed'
  <2> DEFINE row == [op[edit] EXCEPT !.stale = FALSE]
  <2>1. UNCHANGED <<job, sweep>> /\ (op' = op \/ op' = [op EXCEPT ![edit] = row])
    BY <1>6 DEF FinishEdit, SetOp, tables
  <2>2. CASE op' = op BY <1>2, <2>1, <2>2, ClaimedQuietly
  <2>3. CASE op' = [op EXCEPT ![edit] = row] /\ edit \notin Ops
    <3>1. op' = op BY <1>1, <2>3 DEF TypeOK
    <3> QED BY <1>2, <2>1, <3>1, ClaimedQuietly
  <2>4. ASSUME NEW o \in Ops, o = edit, op' = [op EXCEPT ![o] = row]
        PROVE  Claimed'
    <3>1. row.status = op[o].status /\ ~row.stale
      BY <1>1, <2>4 DEF TypeOK, Operation
    <3>2. \A q \in Runners : Executing(q, o)' <=> Executing(q, o)
      BY <2>1 DEF Executing
    <3>3. (\E q \in Runners : Executing(q, o)') =>
             row.status = "committing" /\ ~row.stale
      BY <3>1, <3>2 DEF Claimed, ClaimHeld
    <3>4. (\E s \in Sweepers : Listed(s, o)) => row.status # "pending"
      BY <3>1 DEF Claimed
    <3> HIDE DEF row
    <3> QED BY <1>1, <1>2, <2>1, <2>4, <3>3, <3>4, ClaimedRow
  <2> QED BY <2>1, <2>2, <2>3, <2>4
<1>7. ASSUME NEW s \in Sweepers, Sweep(s) PROVE Claimed'
  <2>1. ASSUME NEW next, SweepStep(s, next), op' = op,
               \A o \in Ops : o \in next.todo \/ o = next.row =>
                   Listed(s, o) \/ (op[o].status = "committing" /\ op[o].stale)
        PROVE  Claimed'
    <3>1. /\ job' = job /\ sweep'[s] = next
          /\ \A z \in Sweepers \ {s} : sweep'[z] = sweep[z]
      BY <1>1, <2>1 DEF SweepStep, TypeOK
    <3>2. \A q \in Runners : \A o \in Ops : Executing(q, o)' <=> Executing(q, o)
      BY <3>1 DEF Executing
    <3>3. \A z \in Sweepers : \A o \in Ops : Listed(z, o)' =>
             Listed(z, o) \/ (op[o].status = "committing" /\ op[o].stale)
      BY <2>1, <3>1 DEF Listed
    <3> QED BY <2>1, <3>2, <3>3 DEF Claimed, ClaimHeld
  <2>2. CASE ListStuck(s)
    <3>1. None \notin Ops BY OperationsAssumption
    <3>2. op' = op BY <2>2 DEF ListStuck
    <3> DEFINE stuck == {o \in Ops : op[o].status = "committing" /\ op[o].stale}
               next == [Resting EXCEPT !.todo = stuck]
    <3>3. SweepStep(s, next) BY <2>2 DEF ListStuck
    <3>4. next.todo = stuck /\ next.row = None BY DEF Resting
    <3> HIDE DEF next
    <3> QED BY <2>1, <3>1, <3>2, <3>3, <3>4
  <2>3. CASE Probe(s)
    <3>1. None \notin Ops /\ op' = op BY <2>3, OperationsAssumption DEF Probe
    <3>2. PICK o \in sweep[s].todo :
             \/ SweepStep(s, [todo |-> sweep[s].todo \ {o}, row |-> o,
                              evidence |-> Evidence(o)])
             \/ SweepStep(s, [Resting EXCEPT !.todo = sweep[s].todo \ {o}])
      BY <2>3 DEF Probe
    <3>3. PICK next : /\ SweepStep(s, next)
                      /\ next.todo = sweep[s].todo \ {o}
                      /\ next.row \in {o, None}
      BY <3>2 DEF Resting
    <3> QED BY <2>1, <3>1, <3>3 DEF Listed
  <2>4. CASE Resolve(s)
    <3> DEFINE o == sweep[s].row
               row == [Verdict(o, sweep[s].evidence) EXCEPT !.stale = FALSE]
               next == [Resting EXCEPT !.todo = sweep[s].todo]
    <3>1. o \in Ops /\ None \notin Ops
      BY <1>1, <2>4, OperationsAssumption DEF Resolve, TypeOK
    <3>2. SweepStep(s, next) /\ (op' = op \/ op' = [op EXCEPT ![o] = row])
      BY <2>4 DEF Resolve
    <3>3. next.todo = sweep[s].todo /\ next.row = None BY DEF Resting
    <3>4. row.status \in {"committed", "rejected"}
      BY <1>1, <3>1 DEF Verdict, TypeOK, Operation
    <3>5. CASE op' = op
      <4> HIDE DEF next
      <4> QED BY <2>1, <3>1, <3>2, <3>3, <3>5 DEF Listed
    <3>6. CASE op' = [op EXCEPT ![o] = row]
      <4>1. /\ job' = job /\ sweep'[s] = next
            /\ \A z \in Sweepers \ {s} : sweep'[z] = sweep[z]
        BY <1>1, <3>2 DEF SweepStep, TypeOK
      <4> HIDE DEF next, row
      <4>2. \A q \in Runners : \A p \in Ops : Executing(q, p)' <=> Executing(q, p)
        BY <4>1 DEF Executing
      <4>3. \A z \in Sweepers : \A p \in Ops : Listed(z, p)' => Listed(z, p)
        BY <3>1, <3>3, <4>1 DEF Listed
      <4>4. op'[o] = row /\ \A p \in Ops \ {o} : op'[p] = op[p]
        BY <1>1, <3>1, <3>6 DEF TypeOK
      <4>5. \A q \in Runners : ~Executing(q, o) BY <3>1 DEF Claimed, Listed
      <4> QED BY <3>4, <4>2, <4>3, <4>4, <4>5 DEF Claimed, ClaimHeld
    <3> QED BY <3>2, <3>5, <3>6
  <2> QED BY <1>7, <2>2, <2>3, <2>4 DEF Sweep
<1> QED BY <1>3, <1>4, <1>5, <1>6, <1>7

LEMMA ClaimedStep == Typed /\ Claimed /\ [Next]_vars => Claimed'
<1> SUFFICES ASSUME Typed, Claimed, [Next]_vars PROVE Claimed' OBVIOUS
<1>1. CASE UNCHANGED vars
  BY <1>1 DEF vars, Claimed, ClaimHeld, Executing, Listed
<1>2. ASSUME NEW r \in Runners, Advance(r) PROVE Claimed'
  <2>1. CASE Claim(r) \/ Conclude(r) BY <2>1, ClaimedRequest
  <2>2. CASE Executes(r) BY <2>2, ClaimedRequest
  <2> QED BY <1>2, <2>1, <2>2 DEF Advance, Executes
<1> QED BY <1>1, <1>2, ClaimedRequest, ClaimedOthers DEF Next

LEMMA ClaimedAlways == Spec => []Claimed
BY TypedAlways, ClaimedInit, ClaimedStep, PTL DEF Spec

(* Whatever fails, and however requests, edits and sweeps overlap: what a    *)
(* process executes stays committing, and no other process executes it.      *)
THEOREM ClaimsHeld == Spec => []ClaimHeld
<1>1. Claimed => ClaimHeld BY DEF Claimed
<1> QED BY <1>1, ClaimedAlways, PTL

-----------------------------------------------------------------------------
(* Vouchers. An operation that may be claimed, or is executed but has not    *)
(* come to its posting yet, has none in the ledger.                          *)

BookedBy(v, o) == Posted(v) /\ voucher[v].by = o
Unbooked(o) == \A v \in Vouchers : ~BookedBy(v, o)
Unposted(r, o) == job[r].op = o /\ job[r].pc \in NothingPosted

Once ==
    \A o \in Ops :
       /\ \A v, w \in Vouchers : BookedBy(v, o) /\ BookedBy(w, o) => v = w
       /\ op[o].status = "pending" => Unbooked(o)
       /\ \A r \in Runners : Unposted(r, o) => Unbooked(o)

LEMMA OnceInit == Init => Once
BY DEF Init, Once, Unbooked, BookedBy, Posted

(* No voucher is added, and what becomes pending or comes before its posting *)
(* has none.                                                                 *)
LEMMA OnceKept ==
    ASSUME Once,
           \A v \in Vouchers, o \in Ops : BookedBy(v, o)' => BookedBy(v, o),
           \A o \in Ops : op'[o].status = "pending" =>
               op[o].status = "pending" \/ Unbooked(o),
           \A r \in Runners, o \in Ops : Unposted(r, o)' =>
               Unposted(r, o) \/ Unbooked(o)
    PROVE  Once'
BY DEF Once, Unbooked

LEMMA BookedKept ==
    ASSUME TypeOK, NoneAdded
    PROVE  \A v \in Vouchers, o \in Ops : BookedBy(v, o)' => BookedBy(v, o)
<1>1. CASE voucher' = voucher BY <1>1 DEF BookedBy, Posted
<1>2. ASSUME NEW w \in Vouchers, voucher' = [voucher EXCEPT ![w].status = "reversed"]
      PROVE  \A v \in Vouchers, o \in Ops : BookedBy(v, o)' => BookedBy(v, o)
  <2>1. voucher'[w].status = "reversed" /\ \A v \in Vouchers \ {w} : voucher'[v] = voucher[v]
    BY <1>2 DEF TypeOK, Voucher
  <2> QED BY <2>1 DEF BookedBy, Posted
<1> QED BY <1>1, <1>2 DEF NoneAdded

LEMMA UnpostedStep ==
    ASSUME TypeOK, NEW r \in Runners, NEW steps, To(r, steps),
           steps \cap NothingPosted # {} => job[r].pc \in NothingPosted
    PROVE  \A q \in Runners, o \in Ops : Unposted(q, o)' => Unposted(q, o)
<1>1. /\ \A q \in Runners \ {r} : job'[q] = job[q]
      /\ \/ job'[r] = Idle
         \/ job'[r].pc \in steps /\ job'[r].op = job[r].op
  BY Others DEF TypeOK
<1>2. Idle.pc \notin NothingPosted BY DEF Idle, NothingPosted, BeforePosting
<1> QED BY <1>1, <1>2 DEF Unposted

(* The posting itself: the claim keeps every other process away.             *)
LEMMA OnceAdds ==
    ASSUME Typed, Claimed, Once, NEW r \in Runners,
           NextVoucher \in Vouchers, Adds(r), To(r, AfterPosting), op' = op
    PROVE  Once'
<1>1. TypeOK /\ job[r].pc \in {"book", "pay"} BY DEF Typed, Adds
<1>2. /\ voucher'[NextVoucher] = [status |-> "posted", by |-> job[r].op]
      /\ \A v \in Vouchers \ {NextVoucher} : voucher'[v] = voucher[v]
  BY <1>1 DEF Adds, TypeOK
<1>3. \A v \in Vouchers, o \in Ops : BookedBy(v, o)' =>
         \/ v = NextVoucher /\ o = job[r].op
         \/ v # NextVoucher /\ BookedBy(v, o)
  BY <1>2 DEF BookedBy, Posted
<1>4. \A q \in Runners, o \in Ops : Unposted(q, o)' => Unposted(q, o) /\ q # r
  <2>1. /\ \A q \in Runners \ {r} : job'[q] = job[q]
        /\ \/ job'[r] = Idle
           \/ job'[r].pc \in AfterPosting
    BY <1>1, Others DEF TypeOK
  <2>2. Idle.pc \notin NothingPosted /\ AfterPosting \cap NothingPosted = {}
    BY DEF Idle, NothingPosted, BeforePosting, AfterPosting
  <2> QED BY <2>1, <2>2 DEF Unposted
<1>5. ASSUME NEW o \in Ops, o = job[r].op
      PROVE  /\ Unbooked(o) /\ op[o].status = "committing"
             /\ \A q \in Runners \ {r} : ~Unposted(q, o)
  <2>1. Unposted(r, o) /\ Executing(r, o)
    BY <1>1, <1>5 DEF Unposted, Executing, NothingPosted, BeforePosting
  <2>2. \A q \in Runners : Unposted(q, o) => Executing(q, o)
    BY StepSets DEF Unposted, Executing
  <2> QED BY <2>1, <2>2 DEF Once, Claimed, ClaimHeld
<1>6. ASSUME NEW o \in Ops
      PROVE  (/\ \A v, w \in Vouchers : BookedBy(v, o) /\ BookedBy(w, o) => v = w
              /\ op[o].status = "pending" => Unbooked(o)
              /\ \A q \in Runners : Unposted(q, o) => Unbooked(o))'
  <2>1. CASE o = job[r].op
    <3>1. /\ Unbooked(o) /\ op[o].status = "committing"
          /\ \A q \in Runners \ {r} : ~Unposted(q, o)
      BY <1>5, <2>1
    <3>2. \A v \in Vouchers : BookedBy(v, o)' => v = NextVoucher
      BY <1>3, <3>1 DEF Unbooked
    <3>3. (\A v, w \in Vouchers : BookedBy(v, o) /\ BookedBy(w, o) => v = w)'
      BY <3>2
    <3>4. \A q \in Runners : ~Unposted(q, o)' BY <1>4, <3>1
    <3>5. op'[o].status = "committing" BY <3>1
    <3> QED BY <3>3, <3>4, <3>5
  <2>2. CASE o # job[r].op
    <3>1. \A v \in Vouchers : BookedBy(v, o)' => BookedBy(v, o) BY <1>3, <2>2
    <3>2. \A q \in Runners : Unposted(q, o)' => Unposted(q, o) BY <1>4
    <3> QED BY <3>1, <3>2 DEF Once, Unbooked
  <2> QED BY <2>1, <2>2
<1> QED BY <1>6 DEF Once

LEMMA OnceRequest ==
    ASSUME Typed, Claimed, Once, NEW r \in Runners
    PROVE  /\ \A o \in Ops : Approve(r, o) => Once'
           /\ BookByHand(r) => Once'
           /\ Claim(r) => Once'
           /\ Executes(r) => Once'
           /\ Conclude(r) => Once'
           /\ Crash(r) => Once'
<1>1. TypeOK /\ job \in [Runners -> Job] BY DEF Typed, TypeOK
<1>2. voucher' = voucher =>
         \A v \in Vouchers, o \in Ops : BookedBy(v, o)' => BookedBy(v, o)
  BY DEF BookedBy, Posted
<1>3. ASSUME NEW j \in Job, Begin(r, j), j.pc = "claim" \/ j.op \notin Ops
      PROVE  Once'
  <2>1. job' = [job EXCEPT ![r] = j] /\ UNCHANGED <<op, voucher>>
    BY <1>3 DEF Begin, tables
  <2>2. \A q \in Runners, o \in Ops : Unposted(q, o)' => Unposted(q, o)
    BY <1>1, <1>3, <2>1, StepSets DEF Unposted
  <2> QED BY <1>2, <2>1, <2>2, OnceKept
<1>4. ASSUME NEW o \in Ops, Approve(r, o) PROVE Once'
  <2> DEFINE j == [Idle EXCEPT !.pc = "claim", !.op = o]
  <2>1. j \in Job /\ j.pc = "claim" BY DEF Idle, Job, Steps
  <2>2. Begin(r, j) BY <1>4 DEF Approve
  <2> HIDE DEF j
  <2> QED BY <2>1, <2>2, <1>3
<1>5. ASSUME BookByHand(r) PROVE Once'
  <2> DEFINE j == [Idle EXCEPT !.pc = "read", !.op = Hand]
  <2>1. j \in Job /\ j.op \notin Ops
    BY OperationsAssumption DEF Idle, Job, Steps
  <2>2. Begin(r, j) BY <1>5 DEF BookByHand
  <2> HIDE DEF j
  <2> QED BY <2>1, <2>2, <1>3
<1>6. ASSUME To(r, {}) PROVE \A q \in Runners, o \in Ops : Unposted(q, o)' => Unposted(q, o)
  BY <1>1, <1>6, UnpostedStep, {} \cap NothingPosted = {}
<1>7. ASSUME Claim(r) PROVE Once'
  <2>1. CASE Stop(r) /\ UNCHANGED tables
    <3>1. To(r, {}) /\ UNCHANGED <<op, voucher>> BY <1>1, <2>1, Moves DEF tables
    <3> QED BY <1>2, <1>6, <3>1, OnceKept
  <2>2. ASSUME NEW o, o = job[r].op, op[o].status = "pending",
               SetOp(o, [op[o] EXCEPT !.status = "committing"]),
               Goto(r, "read") \/ Stop(r)
        PROVE  Once'
    <3>1. voucher' = voucher BY <2>2 DEF SetOp
    <3>2. \A p \in Ops : op'[p].status = "pending" => op[p].status = "pending"
      BY <1>1, <2>2 DEF SetOp, TypeOK, Operation
    <3>3. To(r, {"read"}) \/ Stop(r) BY <1>1, <2>2, Moves DEF Steps
    <3>4. \A q \in Runners \ {r} : job'[q] = job[q]
      BY <1>1, <3>3, Others DEF Stop
    <3>5. job'[r] = Idle \/ job'[r].op = o
      BY <1>1, <2>2, <3>3, Others DEF Stop
    <3>6. \A q \in Runners, p \in Ops : Unposted(q, p)' =>
             Unposted(q, p) \/ Unbooked(p)
      <4>1. o \in Ops => Unbooked(o) BY <2>2 DEF Once
      <4> QED BY <3>4, <3>5, <4>1, IdleTyped, OperationsAssumption DEF Unposted
    <3> QED BY <1>2, <3>1, <3>2, <3>6, OnceKept
  <2> QED BY <1>7, <2>1, <2>2 DEF Claim, Statement, Claimable
<1>8. ASSUME Executes(r) PROVE Once'
  <2>1. Continues(r) /\ op' = op BY <1>8, TypedExecutes DEF Continues
  <2>2. CASE NoneAdded /\ To(r, Onward(r))
    <3>1. Onward(r) \cap NothingPosted # {} => job[r].pc \in NothingPosted
      BY DEF Onward
    <3>2. \A q \in Runners, o \in Ops : Unposted(q, o)' => Unposted(q, o)
      BY <1>1, <2>2, <3>1, UnpostedStep
    <3> QED BY <1>1, <2>1, <2>2, <3>2, BookedKept, OnceKept
  <2>3. CASE Adds(r) /\ To(r, AfterPosting)
    <3>1. NextVoucher \in Vouchers
      BY <2>3, VoucherLeft DEF Adds, BeforePosting
    <3> QED BY <2>1, <2>3, <3>1, OnceAdds
  <2> QED BY <2>1, <2>2, <2>3 DEF Continues
<1>9. ASSUME Conclude(r) PROVE Once'
  <2>1. job[r].pc \in Endings /\ Stop(r) /\ voucher' = voucher
    BY <1>9 DEF Conclude, Statement, SetOp, tables
  <2>2. To(r, {}) BY <1>1, <2>1, Moves
  <2>3. ASSUME NEW o \in Ops, op'[o].status = "pending"
        PROVE  op[o].status = "pending" \/ Unbooked(o)
    <3>1. CASE op' = op BY <2>3, <3>1
    <3>2. CASE SetOp(job[r].op, [op[job[r].op] EXCEPT !.status = Outcome(job[r].pc)])
      <4>1. CASE o # job[r].op BY <1>1, <2>3, <3>2, <4>1 DEF SetOp, TypeOK
      <4>2. CASE o = job[r].op
        <5>1. op'[o].status = Outcome(job[r].pc)
          BY <1>1, <3>2, <4>2 DEF SetOp, TypeOK, Operation
        <5>2. job[r].pc = "release"
          BY <2>1, <2>3, <5>1 DEF Outcome, Endings
        <5>3. Unposted(r, o) BY <4>2, <5>2 DEF Unposted, NothingPosted
        <5> QED BY <5>3 DEF Once
      <4> QED BY <4>1, <4>2
    <3> QED BY <1>9, <3>1, <3>2 DEF Conclude, Statement, tables
  <2> QED BY <1>2, <1>6, <2>1, <2>2, <2>3, OnceKept
<1>10. ASSUME Crash(r) PROVE Once'
  <2>1. To(r, {}) /\ UNCHANGED <<op, voucher>>
    BY <1>1, <1>10, Moves DEF Crash, tables
  <2> QED BY <1>2, <1>6, <2>1, OnceKept
<1> QED BY <1>4, <1>5, <1>7, <1>8, <1>9, <1>10

(* Nothing else makes an operation pending or posts a voucher.               *)
LEMMA OnceOthers ==
    ASSUME Typed, Once
    PROVE  /\ \A o \in Ops : Reject(o) => Once'
           /\ \A o \in Ops : StartEdit(o) => Once'
           /\ \A o \in Ops : Age(o) => Once'
           /\ FinishEdit => Once'
           /\ \A s \in Sweepers : Sweep(s) => Once'
<1>1. TypeOK BY DEF Typed
<1>2. ASSUME UNCHANGED <<voucher, job>>,
             \A o \in Ops : op'[o].status = "pending" => op[o].status = "pending"
      PROVE  Once'
  <2>1. \A v \in Vouchers, o \in Ops : BookedBy(v, o)' => BookedBy(v, o)
    BY <1>2 DEF BookedBy, Posted
  <2>2. \A q \in Runners, o \in Ops : Unposted(q, o)' => Unposted(q, o)
    BY <1>2 DEF Unposted
  <2> QED BY <1>2, <2>1, <2>2, OnceKept
<1>3. ASSUME NEW o \in Ops, Reject(o) PROVE Once'
  BY <1>1, <1>2, <1>3 DEF Reject, SetOp, TypeOK, Operation
<1>4. ASSUME NEW o \in Ops, StartEdit(o) PROVE Once'
  BY <1>2, <1>4 DEF StartEdit, tables
<1>5. ASSUME NEW o \in Ops, Age(o) PROVE Once'
  BY <1>1, <1>2, <1>5 DEF Age, TypeOK, Operation
<1>6. ASSUME FinishEdit PROVE Once'
  BY <1>1, <1>2, <1>6 DEF FinishEdit, SetOp, tables, TypeOK, Operation
<1>7. ASSUME NEW s \in Sweepers, Sweep(s) PROVE Once'
  <2>1. UNCHANGED <<voucher, job>>
    BY <1>7 DEF Sweep, ListStuck, Probe, Resolve, SweepStep
  <2>2. CASE op' = op BY <1>2, <2>1, <2>2
  <2>3. CASE op' # op
    <3> DEFINE o == sweep[s].row
               row == [Verdict(o, sweep[s].evidence) EXCEPT !.stale = FALSE]
    <3>1. op' = [op EXCEPT ![o] = row]
      BY <1>7, <2>3 DEF Sweep, ListStuck, Probe, Resolve
    <3>2. o \in Ops => row.status \in {"committed", "rejected"}
      BY <1>1 DEF Verdict, TypeOK, Operation
    <3> HIDE DEF row, o
    <3>3. \A p \in Ops : op'[p].status = "pending" => op[p].status = "pending"
      BY <1>1, <3>1, <3>2 DEF TypeOK
    <3> QED BY <1>2, <2>1, <3>3
  <2> QED BY <2>2, <2>3
<1> QED BY <1>3, <1>4, <1>5, <1>6, <1>7

LEMMA OnceStep == Typed /\ Claimed /\ Once /\ [Next]_vars => Once'
<1> SUFFICES ASSUME Typed, Claimed, Once, [Next]_vars PROVE Once' OBVIOUS
<1>1. CASE UNCHANGED vars
  BY <1>1 DEF vars, Once, Unbooked, Unposted, BookedBy, Posted
<1>2. ASSUME NEW r \in Runners, Advance(r) PROVE Once'
  <2>1. CASE Claim(r) \/ Conclude(r) BY <2>1, OnceRequest
  <2>2. CASE Executes(r) BY <2>2, OnceRequest
  <2> QED BY <1>2, <2>1, <2>2 DEF Advance, Executes
<1> QED BY <1>1, <1>2, OnceRequest, OnceOthers DEF Next

LEMMA OnceMeans == Once => PostedOnce
<1> SUFFICES ASSUME Once, NEW o \in Ops
             PROVE  Cardinality({v \in Vouchers : BookedBy(v, o)}) <= 1
  BY DEF PostedOnce, BookedBy
<1> DEFINE V == {v \in Vouchers : BookedBy(v, o)}
<1>1. CASE V = {} BY <1>1, FS_EmptySet
<1>2. CASE V # {}
  <2>1. PICK v \in V : TRUE BY <1>2
  <2>2. V = {v} BY <2>1 DEF Once
  <2> QED BY <2>2, FS_Singleton
<1> QED BY <1>1, <1>2

(* However often an operation is given back, approved again, interrupted by a*)
(* crash or a lost reply, or swept: its executor's voucher, the payment of an*)
(* invoice or the booking of the transaction, stands in the ledger once.     *)
THEOREM PostedAtMostOnce == Spec => []PostedOnce
<1>1. Spec => []Once
  BY TypedAlways, ClaimedAlways, OnceInit, OnceStep, PTL DEF Spec
<1> QED BY <1>1, OnceMeans, PTL
-----------------------------------------------------------------------------
(* Bookings without matches and faults. What the transaction points at, or   *)
(* pointed at when it was read, is reversed before another voucher replaces  *)
(* it.                                                                       *)

Known(v) == v # NoVoucher => voucher[v].status # "absent"
Passed(v) == v # NoVoucher => voucher[v].status = "reversed"
Linking(r) == job[r].pc \in {"link", "undo"}

Booking == {"idle", "claim", "read", "guard", "book", "link", "undo"} \cup Endings

Points(r) ==
    /\ job[r].pc \in Booking
    /\ job[r].pc \in {"guard", "book", "link"} => Passed(job[r].observed)
    /\ job[r].pc = "link" => Known(job[r].own)

(* BookedOnce counts every request with the voucher in hand; these are about *)
(* to link or undo it.                                                       *)
Pending(v) == \E r \in Runners : Linking(r) /\ job[r].own = v
Settled == \A v \in Vouchers : Posted(v) => tx.link = v \/ Pending(v)

DirectInv == Settled /\ Known(tx.link) /\ \A r \in Runners : Points(r)

LEMMA DirectInit == Init => DirectInv
BY DEF Init, DirectInv, Settled, Posted, Known, Points, Idle, Booking, NoVoucher

LEMMA DirectQuietly ==
    ASSUME DirectInv, UNCHANGED <<voucher, tx>>,
           \A r \in Runners :
              \/ job'[r] = job[r]
              \/ /\ job'[r].pc \in Booking \ {"guard", "book", "link"}
                 /\ ~Linking(r)
    PROVE  DirectInv'
<1>1. \A v \in Vouchers : Pending(v) => Pending(v)' BY DEF Pending, Linking
<1>2. Settled' BY <1>1 DEF DirectInv, Settled, Posted
<1>3. \A r \in Runners : Points(r)' BY DEF DirectInv, Points, Known, Passed
<1> QED BY <1>2, <1>3 DEF DirectInv, Known

LEMMA DirectStops ==
    ASSUME Typed, DirectInv, NEW r \in Runners, UNCHANGED <<voucher, tx>>,
           ~Linking(r), NEW s \in Endings \cup {"read"},
           Stop(r) \/ Goto(r, s) \/ End(r, s)
    PROVE  DirectInv'
<1>1. job[r] \in Job /\ job \in [Runners -> Job] BY DEF Typed, TypeOK
<1>2. Stop(r) \/ Goto(r, s) BY DEF End
<1>3. Idle.pc = "idle" BY DEF Idle
<1>4. /\ \A q \in Runners \ {r} : job'[q] = job[q]
      /\ job'[r].pc \in Endings \cup {"idle", "read"}
  BY <1>1, <1>2, <1>3 DEF Stop, Goto, Job
<1> QED BY <1>4, DirectQuietly DEF Booking, Endings

LEMMA DirectRead ==
    ASSUME Typed, DirectInv, Matching = {}, NEW r \in Runners, ReadTransaction(r)
    PROVE  DirectInv'
<1>1. job[r] \in Job /\ job \in [Runners -> Job] /\ tx \in Transaction
      /\ voucher \in [Vouchers -> Voucher]
  BY DEF Typed, TypeOK
<1>2. job[r].pc = "read" /\ UNCHANGED <<voucher, tx>> /\ ~Linking(r)
  BY DEF ReadTransaction, At, tables, Linking
<1>3. CASE Refuse(r) BY <1>2, <1>3, DirectStops DEF Refuse, Endings
<1>4. CASE /\ IF job[r].op = Hand THEN tx.link = NoVoucher ELSE ~Posted(tx.link)
           /\ job' = [job EXCEPT ![r].pc = "guard", ![r].observed = tx.link]
  <2>1. Passed(tx.link)
    BY <1>1, <1>4 DEF Passed, DirectInv, Known, Posted, Transaction, Voucher
  <2>2. /\ job'[r].pc = "guard" /\ job'[r].observed = tx.link
        /\ \A q \in Runners \ {r} : job'[q] = job[q]
    BY <1>1, <1>4 DEF Job
  <2>3. Points(r)' BY <1>2, <2>1, <2>2 DEF Points, Booking, Passed
  <2>4. \A q \in Runners \ {r} : Points(q)'
    BY <1>2, <2>2 DEF DirectInv, Points, Passed, Known
  <2>5. \A v \in Vouchers : Pending(v) => Pending(v)'
    BY <1>2, <2>2 DEF Pending, Linking
  <2> QED BY <1>2, <2>3, <2>4, <2>5 DEF DirectInv, Settled, Posted, Known
<1> QED BY <1>3, <1>4 DEF ReadTransaction

LEMMA DirectGuard ==
    ASSUME Typed, DirectInv, Matching = {}, NEW r \in Runners, Guard(r)
    PROVE  DirectInv'
<1>1. job[r] \in Job /\ job \in [Runners -> Job] BY DEF Typed, TypeOK
<1>2. job[r].pc = "guard" /\ UNCHANGED <<voucher, tx>> /\ ~Linking(r)
  BY DEF Guard, At, tables, Linking
<1>3. CASE Refuse(r) BY <1>2, <1>3, DirectStops DEF Refuse, Endings
<1>4. CASE Goto(r, "book")
  <2>1. /\ job'[r].pc = "book" /\ job'[r].observed = job[r].observed
        /\ \A q \in Runners \ {r} : job'[q] = job[q]
    BY <1>1, <1>4 DEF Goto, Job
  <2>2. Points(r)' BY <1>2, <2>1 DEF DirectInv, Points, Booking, Passed
  <2>3. \A q \in Runners \ {r} : Points(q)'
    BY <1>2, <2>1 DEF DirectInv, Points, Passed, Known
  <2>4. \A v \in Vouchers : Pending(v) => Pending(v)'
    BY <1>2, <2>1 DEF Pending, Linking
  <2> QED BY <1>2, <2>2, <2>3, <2>4 DEF DirectInv, Settled, Posted, Known
<1> QED BY <1>3, <1>4 DEF Guard

LEMMA DirectBook ==
    ASSUME Typed, DirectInv, Faults = {}, NEW r \in Runners, Book(r)
    PROVE  DirectInv'
<1>1. job[r] \in Job /\ job \in [Runners -> Job]
      /\ voucher \in [Vouchers -> Voucher] /\ tx \in Transaction
  BY DEF Typed, TypeOK
<1>2. job[r].pc = "book" /\ ~Linking(r) BY DEF Book, At, Linking
<1>3. CASE UNCHANGED tables /\ End(r, "release")
  BY <1>2, <1>3, DirectStops DEF tables, Endings
<1>4. CASE /\ PostVoucher(r)
           /\ job' = [job EXCEPT ![r].pc = "link", ![r].own = NextVoucher]
  <2>1. NextVoucher \in Vouchers BY <1>2, VoucherLeft DEF BeforePosting
  <2>2. voucher[NextVoucher].status = "absent"
    <3>1. \E v \in Vouchers : voucher[v].status = "absent"
      <4>1. Spent # Vouchers
        <5>1. job[r].pc \in BeforePosting BY <1>2 DEF BeforePosting
        <5>2. r \in Spending BY <5>1 DEF Spending
        <5>3. Cardinality(Spending) \in Nat /\ Cardinality(Spending) # 0
          BY <5>2, FS_CardinalityType, FS_EmptySet DEF Typed, Room
        <5>4. Cardinality(Spent) < MaxRuns
          BY <5>3, VouchersFinite, OperationsAssumption DEF Typed, Room, TypeOK
        <5> QED BY <5>4, VouchersFinite, OperationsAssumption
      <4> QED BY <4>1 DEF Spent
    <3> QED BY <3>1 DEF NextVoucher
  <2>0. PICK n \in Vouchers : n = NextVoucher BY <2>1
  <2>3. /\ voucher'[n].status = "posted"
        /\ \A v \in Vouchers \ {n} : voucher'[v] = voucher[v]
        /\ tx' = tx
    BY <1>1, <1>4, <2>0 DEF PostVoucher
  <2>4. /\ job'[r].pc = "link" /\ job'[r].own = n
        /\ job'[r].observed = job[r].observed
        /\ \A q \in Runners \ {r} : job'[q] = job[q]
    BY <1>1, <1>4, <2>0 DEF Job
  <2>5. n \in Vouchers /\ voucher[n].status = "absent" BY <2>0, <2>2
  <2>6. /\ \A v \in Vouchers \cup {NoVoucher} : Passed(v) => Passed(v)'
        /\ \A v \in Vouchers \cup {NoVoucher} : Known(v) => Known(v)'
    BY <2>3, <2>5 DEF Passed, Known
  <2>7. Points(r)'
    BY <1>1, <1>2, <2>3, <2>4, <2>5, <2>6 DEF DirectInv, Points, Booking, Job, Known
  <2>8. ASSUME NEW q \in Runners \ {r} PROVE Points(q)'
    <3>1. job[q] \in Job BY <1>1
    <3> QED BY <3>1, <2>4, <2>6 DEF DirectInv, Points, Job
  <2>9. \A v \in Vouchers : Pending(v) => Pending(v)'
    BY <1>2, <2>4 DEF Pending, Linking
  <2>10. Pending(n)' BY <2>4 DEF Pending, Linking
  <2>11. Settled' BY <2>3, <2>9, <2>10 DEF DirectInv, Settled, Posted
  <2>12. Known(tx.link)' BY <1>1, <2>3, <2>6 DEF DirectInv, Transaction
  <2> QED BY <2>7, <2>8, <2>11, <2>12 DEF DirectInv
<1> QED BY <1>3, <1>4 DEF Book, Statement, AccountsMissing

LEMMA DirectLink ==
    ASSUME Typed, DirectInv, Faults = {}, NEW r \in Runners, Link(r)
    PROVE  DirectInv'
<1>1. job[r] \in Job /\ job \in [Runners -> Job] /\ tx \in Transaction
  BY DEF Typed, TypeOK
<1>2. job[r].pc = "link" /\ Points(r) BY DEF Link, At, DirectInv
<1>3. CASE UNCHANGED tables /\ Goto(r, "undo")
  <2>1. /\ job'[r].pc = "undo" /\ job'[r].own = job[r].own
        /\ \A q \in Runners \ {r} : job'[q] = job[q]
        /\ UNCHANGED <<voucher, tx>>
    BY <1>1, <1>3 DEF Goto, Job, tables
  <2>2. \A q \in Runners : Points(q)'
    BY <2>1 DEF DirectInv, Points, Booking, Passed, Known
  <2>3. \A v \in Vouchers : Pending(v) => Pending(v)'
    BY <2>1 DEF Pending, Linking
  <2> QED BY <2>1, <2>2, <2>3 DEF DirectInv, Settled, Posted, Known
<1>4. CASE /\ Linkable(r) /\ SetTx([tx EXCEPT !.link = job[r].own])
           /\ End(r, "finish")
  <2>1. Stop(r) \/ Goto(r, "finish") BY <1>4 DEF End
  <2>2. /\ job'[r].pc \in {"idle", "finish"}
        /\ \A q \in Runners \ {r} : job'[q] = job[q]
    BY <1>1, <2>1 DEF Goto, Stop, Idle, Job
  <2>3. voucher' = voucher /\ tx'.link = job[r].own
    BY <1>1, <1>4 DEF SetTx, Transaction
  <2>4. \A q \in Runners : Points(q)'
    BY <2>2, <2>3 DEF DirectInv, Points, Booking, Endings, Passed, Known
  <2>5. Known(tx.link)' BY <1>2, <2>3 DEF Points, Known
  <2>6. tx.link = job[r].observed /\ Passed(tx.link)
    BY <1>2, <1>4 DEF Linkable, Points
  <2>7. ASSUME NEW v \in Vouchers, Posted(v)' PROVE tx'.link = v \/ Pending(v)'
    <3>1. Posted(v) /\ v # tx.link BY <2>3, <2>6, <2>7 DEF Posted, Passed
    <3>2. PICK q \in Runners : Linking(q) /\ job[q].own = v
      BY <3>1 DEF DirectInv, Settled, Pending
    <3>3. CASE q = r BY <2>3, <3>2, <3>3
    <3>4. CASE q # r BY <2>2, <3>2, <3>4 DEF Pending, Linking
    <3> QED BY <3>3, <3>4
  <2> QED BY <2>4, <2>5, <2>7 DEF DirectInv, Settled
<1> QED BY <1>3, <1>4 DEF Link, Statement

LEMMA DirectUndo ==
    ASSUME Typed, DirectInv, Faults = {}, NEW r \in Runners, Undo(r)
    PROVE  DirectInv'
<1>1. job[r] \in Job /\ job \in [Runners -> Job] /\ tx \in Transaction
      /\ voucher \in [Vouchers -> Voucher]
  BY DEF Typed, TypeOK
<1>2. job[r].pc = "undo" BY DEF Undo, At
<1>3. Refuse(r) BY DEF Undo, Statement
<1>4. Stop(r) \/ Goto(r, "reject") BY <1>3 DEF Refuse, End
<1>5. /\ job'[r].pc \in {"idle", "reject"}
      /\ \A q \in Runners \ {r} : job'[q] = job[q]
  BY <1>1, <1>4 DEF Goto, Stop, Idle, Job
<1>6. PICK o \in Vouchers \cup {NoVoucher} : o = job[r].own BY <1>1 DEF Job
<1>7. /\ ~Posted(o)'
      /\ \A v \in Vouchers \cup {NoVoucher} : Passed(v) => Passed(v)'
      /\ \A v \in Vouchers \cup {NoVoucher} : Known(v) => Known(v)'
      /\ \A v \in Vouchers : Posted(v)' => Posted(v)
      /\ tx'.link = tx.link \/ (tx'.link = NoVoucher /\ tx.link = o)
  <2>1. CASE Posted(o) /\ ReverseVoucher(o)
    <3>1. o \in Vouchers BY <2>1 DEF Posted
    <3>2. /\ voucher'[o].status = "reversed"
          /\ \A v \in Vouchers \ {o} : voucher'[v] = voucher[v]
      BY <1>1, <2>1, <3>1 DEF ReverseVoucher, Voucher
    <3>3. tx'.link = IF tx.link = o THEN NoVoucher ELSE tx.link
      BY <1>1, <2>1 DEF ReverseVoucher, Transaction
    <3> QED BY <3>1, <3>2, <3>3 DEF Posted, Passed, Known
  <2>2. CASE ~Posted(o) /\ UNCHANGED tables
    BY <2>2 DEF Posted, Passed, Known, tables
  <2> QED BY <1>6, <2>1, <2>2 DEF Undo, Statement
<1>8. ASSUME NEW q \in Runners PROVE Points(q)'
  <2>1. CASE q = r BY <1>5, <2>1 DEF Points, Booking, Endings
  <2>2. CASE q # r
    <3>1. job[q] \in Job BY <1>1
    <3> QED BY <1>5, <1>7, <2>2, <3>1 DEF DirectInv, Points, Job
  <2> QED BY <2>1, <2>2
<1>9. Known(tx.link)'
  BY <1>1, <1>7 DEF DirectInv, Transaction, Known
<1>10. ASSUME NEW v \in Vouchers, Posted(v)' PROVE tx'.link = v \/ Pending(v)'
  <2>1. Posted(v) /\ v # o BY <1>7, <1>10
  <2>2. CASE tx.link = v BY <1>7, <2>1, <2>2
  <2>3. CASE Pending(v) BY <1>5, <1>6, <2>1, <2>3 DEF Pending, Linking
  <2> QED BY <2>1, <2>2, <2>3 DEF DirectInv, Settled
<1> QED BY <1>8, <1>9, <1>10 DEF DirectInv, Settled

LEMMA DirectBegin ==
    ASSUME Typed, DirectInv, NEW r \in Runners, NEW j, Begin(r, j),
           j.pc \in {"claim", "read"}
    PROVE  DirectInv'
<1>1. job \in [Runners -> Job] BY DEF Typed, TypeOK
<1>2. job[r].pc = "idle" /\ job' = [job EXCEPT ![r] = j] /\ UNCHANGED <<voucher, tx>>
  BY DEF Begin, tables
<1>3. j.pc \in Booking \ {"guard", "book", "link"} BY DEF Booking
<1> QED BY <1>1, <1>2, <1>3, DirectQuietly DEF Linking

LEMMA DirectRequest ==
    ASSUME Typed, DirectInv, Matching = {}, Faults = {}, NEW r \in Runners
    PROVE  /\ \A o \in Ops : Approve(r, o) => DirectInv'
           /\ BookByHand(r) => DirectInv'
           /\ Claim(r) => DirectInv'
           /\ Conclude(r) => DirectInv'
           /\ Executes(r) => DirectInv'
           /\ ~Crash(r)
<1>1. Points(r) BY DEF DirectInv
<1>2. ASSUME NEW o \in Ops, Approve(r, o) PROVE DirectInv'
  <2> DEFINE j == [Idle EXCEPT !.pc = "claim", !.op = o]
  <2>1. j.pc = "claim" BY DEF Idle
  <2>2. Begin(r, j) BY <1>2 DEF Approve
  <2> HIDE DEF j
  <2> QED BY <2>1, <2>2, DirectBegin
<1>3. ASSUME BookByHand(r) PROVE DirectInv'
  <2> DEFINE j == [Idle EXCEPT !.pc = "read", !.op = Hand]
  <2>1. j.pc = "read" BY DEF Idle
  <2>2. Begin(r, j) BY <1>3 DEF BookByHand
  <2> HIDE DEF j
  <2> QED BY <2>1, <2>2, DirectBegin
<1>4. ASSUME Claim(r) PROVE DirectInv'
  <2>1. UNCHANGED <<voucher, tx>> /\ ~Linking(r) /\ (Stop(r) \/ Goto(r, "read"))
    BY <1>4 DEF Claim, At, Statement, SetOp, tables, Linking
  <2> QED BY <2>1, DirectStops
<1>5. ASSUME Conclude(r) PROVE DirectInv'
  <2>1. UNCHANGED <<voucher, tx>> /\ ~Linking(r) /\ Stop(r)
    BY <1>5 DEF Conclude, Statement, SetOp, tables, Linking, Endings
  <2> QED BY <2>1, DirectStops
<1>6. ASSUME Executes(r) PROVE DirectInv'
  <2>1. ReadTransaction(r) \/ Guard(r) \/ Book(r) \/ Link(r) \/ Undo(r)
    BY <1>1, <1>6
       DEF Points, Booking, Endings, Executes, At, ReverseOld, Unlink, Pay,
           Settle, RecordPayment, Point
  <2> QED BY <2>1, DirectRead, DirectGuard, DirectBook, DirectLink, DirectUndo
<1>7. ~Crash(r) BY DEF Crash
<1> QED BY <1>2, <1>3, <1>4, <1>5, <1>6, <1>7

LEMMA DirectStep ==
    ASSUME Matching = {}, Faults = {}
    PROVE  Typed /\ DirectInv /\ [Next]_vars => DirectInv'
<1> SUFFICES ASSUME Typed, DirectInv, [Next]_vars PROVE DirectInv' OBVIOUS
<1>1. ASSUME UNCHANGED <<voucher, tx, job>> PROVE DirectInv'
  BY <1>1, DirectQuietly
<1>2. CASE UNCHANGED vars BY <1>1, <1>2 DEF vars
<1>3. ASSUME NEW r \in Runners, Advance(r) PROVE DirectInv'
  <2>1. Claim(r) \/ Executes(r) \/ Conclude(r) BY <1>3 DEF Advance, Executes
  <2> QED BY <2>1, DirectRequest
<1>4. ASSUME NEW o \in Ops, Reject(o) \/ StartEdit(o) \/ Age(o) PROVE DirectInv'
  BY <1>1, <1>4 DEF Reject, StartEdit, Age, SetOp, tables
<1>5. ASSUME FinishEdit PROVE DirectInv'
  BY <1>1, <1>5 DEF FinishEdit, SetOp, tables
<1>6. ASSUME NEW s \in Sweepers, Sweep(s) PROVE DirectInv'
  BY <1>1, <1>6 DEF Sweep, ListStuck, Probe, Resolve, SweepStep
<1> QED BY <1>2, <1>3, <1>4, <1>5, <1>6, DirectRequest DEF Next

(* Without matches and faults the transaction counts once, however many      *)
(* operations and bookings by hand are on their way for it, with or without  *)
(* allow_duplicate: every posted voucher is the one it points at, or is about*)
(* to be linked or undone by the request that posted it.                     *)
THEOREM TransactionBookedOnce ==
    ASSUME Matching = {}, Faults = {}
    PROVE  Spec => []BookedOnce
<1>1. DirectInv => BookedOnce
  BY DEF DirectInv, Settled, BookedOnce, Pending, Linking, InHand
<1> QED BY <1>1, TypedAlways, DirectInit, DirectStep, PTL DEF Spec

-----------------------------------------------------------------------------
(* Rejections. A request on its way to a rejection knows that its operation  *)
(* has no voucher in the ledger, or which one it has; and only a categorize  *)
(* operation can get to an undo, whose error would go unnoticed.             *)

Rejected(o) == op[o].status = "rejected" /\ ~op[o].recovered

Tidy(r) ==
    \A o \in Ops : job[r].op = o =>
       /\ job[r].pc = "reject" => Unbooked(o)
       /\ job[r].pc \in {"link", "undo"} =>
             \A v \in Vouchers : BookedBy(v, o) => v = job[r].own
       /\ job[r].pc = "settle" /\ ~job[r].posted => Unbooked(o)
       /\ job[r].pc \in {"book", "link", "undo"} => o \notin Matching

Clean ==
    /\ \A o \in Ops : Rejected(o) => Unbooked(o)
    /\ \A r \in Runners : Tidy(r)

LEMMA CleanInit == Init => Clean
BY OperationsAssumption DEF Init, Clean, Rejected, Tidy, Idle

(* No voucher is added, nothing is rejected that has one, and every request  *)
(* that moves is tidy.                                                       *)
LEMMA CleanKept ==
    ASSUME Clean,
           \A v \in Vouchers, o \in Ops : BookedBy(v, o)' => BookedBy(v, o),
           \A o \in Ops : Rejected(o)' => Rejected(o) \/ Unbooked(o),
           \A r \in Runners : job'[r] = job[r] \/ Tidy(r)'
    PROVE  Clean'
<1>1. \A o \in Ops : Unbooked(o) => Unbooked(o)' BY DEF Unbooked
<1>2. \A r \in Runners : job'[r] = job[r] => Tidy(r)'
  BY <1>1 DEF Clean, Tidy
<1> QED BY <1>1, <1>2 DEF Clean

LEMMA TidyElsewhere ==
    ASSUME NEW r \in Runners,
           \/ job'[r] = Idle
           \/ job'[r].pc \notin {"reject", "book", "link", "undo", "settle"}
    PROVE  Tidy(r)'
BY OperationsAssumption DEF Tidy, Idle

(* What the request has not posted cannot stand in the ledger.               *)
LEMMA NothingStands ==
    ASSUME Once, NEW r \in Runners, NEW o \in Ops,
           job[r].op = o, job[r].pc \in NothingPosted
    PROVE  Unbooked(o)
BY DEF Once, Unposted

(* A request that adds no voucher goes on.                                   *)
LEMMA CleanMoves ==
    ASSUME TypeOK, Clean, NEW r \in Runners, NoneAdded, op' = op,
           NEW steps, To(r, steps), Tidy(r)'
    PROVE  Clean'
<1>1. \A q \in Runners \ {r} : job'[q] = job[q] BY Others DEF TypeOK
<1> QED BY <1>1, BookedKept, CleanKept DEF Rejected

(* It is refused: its operation has no voucher.                              *)
LEMMA TidyRefused ==
    ASSUME TypeOK, NEW r \in Runners, NoneAdded, Refuse(r) \/ Goto(r, "reject"),
           \A o \in Ops : job[r].op = o => Unbooked(o) \/ Unbooked(o)'
    PROVE  Tidy(r)' /\ To(r, {"reject"})
<1>1. job \in [Runners -> Job] BY DEF TypeOK
<1>2. To(r, {"reject"}) BY <1>1, Moves DEF Refuse, Steps, Endings
<1>3. job'[r] = Idle \/ (job'[r].pc = "reject" /\ job'[r].op = job[r].op)
  BY <1>1, <1>2, Others
<1>4. \A o \in Ops : Unbooked(o) => Unbooked(o)' BY BookedKept DEF Unbooked
<1> QED BY <1>2, <1>3, <1>4, TidyElsewhere DEF Tidy

(* It posts its voucher: nobody else executes its operation.                 *)
LEMMA CleanAdds ==
    ASSUME Typed, Claimed, Once, Clean, NEW r \in Runners, op' = op,
           NextVoucher \in Vouchers, Adds(r), NEW j \in Job,
           job' = [job EXCEPT ![r] = j], j.op = job[r].op,
           \/ j.pc = "link" /\ j.own = NextVoucher /\ job[r].pc = "book"
           \/ j.pc = "settle" /\ j.posted
    PROVE  Clean'
<1>1. TypeOK /\ job \in [Runners -> Job] BY DEF Typed, TypeOK
<1>2. job'[r] = j /\ \A q \in Runners \ {r} : job'[q] = job[q] BY <1>1
<1>3. PICK n \in Vouchers : n = NextVoucher OBVIOUS
<1>4. /\ voucher'[n] = [status |-> "posted", by |-> job[r].op]
      /\ \A v \in Vouchers \ {n} : voucher'[v] = voucher[v]
  BY <1>1, <1>3 DEF Adds, TypeOK
<1>5. \A v \in Vouchers, o \in Ops : BookedBy(v, o)' =>
         (v = n /\ o = job[r].op) \/ BookedBy(v, o)
  BY <1>4 DEF BookedBy, Posted
<1>6. \A o \in Ops : o = job[r].op => Unbooked(o) /\ Executing(r, o)
  BY NothingStands DEF Adds, NothingPosted, BeforePosting, Executing
<1>7. \A o \in Ops : Rejected(o)' => Unbooked(o)'
  <2> SUFFICES ASSUME NEW o \in Ops, Rejected(o) PROVE Unbooked(o)'
    BY DEF Rejected
  <2>1. o # job[r].op BY <1>6 DEF Claimed, ClaimHeld, Rejected
  <2> QED BY <1>5, <2>1 DEF Clean, Unbooked
<1>8. Tidy(r)' BY <1>2, <1>3, <1>5, <1>6 DEF Clean, Tidy, Unbooked
<1>9. ASSUME NEW q \in Runners \ {r} PROVE Tidy(q)'
  <2>1. CASE job[q].pc \in {"idle", "claim"} BY <1>2, <2>1 DEF Tidy
  <2>2. CASE job[q].pc \notin {"idle", "claim"}
    <3>1. \A o \in Ops : job[q].op = o => o # job[r].op
      BY <1>6, <2>2 DEF Claimed, ClaimHeld, Executing
    <3> QED BY <1>2, <1>5, <3>1 DEF Clean, Tidy, Unbooked
  <2> QED BY <2>1, <2>2
<1> QED BY <1>7, <1>8, <1>9 DEF Clean

LEMMA CleanExecutes ==
    ASSUME "lostReply" \notin Faults, "error" \in Faults => Ops \subseteq Matching,
           Typed, Claimed, Once, Clean, NEW r \in Runners, Executes(r)
    PROVE  Clean'
<1>1. /\ TypeOK /\ job \in [Runners -> Job] /\ job[r] \in Job
      /\ tx \in Transaction
  BY DEF Typed, TypeOK
<1>2. op' = op BY TypedExecutes DEF Continues
<1>3. UNCHANGED tables => NoneAdded BY DEF tables, NoneAdded
<1>4. \A row : SetTx(row) => NoneAdded BY DEF SetTx, NoneAdded
<1>5. job[r].own \in Vouchers \cup {NoVoucher}
      /\ job[r].observed \in Vouchers \cup {NoVoucher}
  BY <1>1 DEF Job
(* Refused before it has posted, and on its way without posting.             *)
<1>6. ASSUME job[r].pc \in NothingPosted, NoneAdded, Refuse(r) \/ Goto(r, "reject")
      PROVE  Clean'
  <2>1. \A o \in Ops : job[r].op = o => Unbooked(o)
    BY <1>6, NothingStands
  <2>2. Tidy(r)' /\ To(r, {"reject"}) BY <1>1, <1>6, <2>1, TidyRefused
  <2> QED BY <1>1, <1>2, <1>6, <2>2, CleanMoves
<1>7. ASSUME NEW s \in Steps \ {"reject", "book", "link", "undo", "settle"},
             NoneAdded, Goto(r, s) \/ End(r, s)
      PROVE  Clean'
  <2>1. To(r, {s}) BY <1>1, <1>7, Moves
  <2>2. \/ job'[r] = Idle
        \/ job'[r].pc \notin {"reject", "book", "link", "undo", "settle"}
    BY <1>1, <2>1, Others
  <2>3. Tidy(r)' BY <2>2, TidyElsewhere
  <2> QED BY <1>1, <1>2, <1>7, <2>1, <2>3, CleanMoves
<1>8. ASSUME NEW j \in Job, job' = [job EXCEPT ![r] = j], j.op = job[r].op,
             j.pc \notin {"reject", "book", "link", "undo", "settle"}, NoneAdded
      PROVE  Clean'
  <2>1. To(r, {j.pc}) BY <1>8 DEF To
  <2>2. job'[r] = j BY <1>1, <1>8
  <2>3. Tidy(r)' BY <1>8, <2>2, TidyElsewhere
  <2> QED BY <1>1, <1>2, <1>8, <2>1, <2>3, CleanMoves
<1>9. ASSUME ReadTransaction(r) PROVE Clean'
  <2>1. job[r].pc = "read" /\ NoneAdded BY <1>3, <1>9 DEF ReadTransaction, At
  <2>2. CASE Refuse(r) BY <1>6, <2>1, <2>2 DEF NothingPosted, BeforePosting
  <2>3. CASE job' = [job EXCEPT ![r].pc = "guard", ![r].observed = tx.link]
    <3> DEFINE j == [job[r] EXCEPT !.pc = "guard", !.observed = tx.link]
    <3>1. j \in Job /\ j.op = job[r].op /\ j.pc = "guard"
      BY <1>1 DEF Job, Steps, Transaction
    <3>2. job' = [job EXCEPT ![r] = j] BY <2>3
    <3> HIDE DEF j
    <3> QED BY <1>8, <2>1, <3>1, <3>2
  <2> QED BY <1>9, <2>2, <2>3 DEF ReadTransaction
<1>10. ASSUME Guard(r) PROVE Clean'
  <2>1. job[r].pc = "guard" /\ NoneAdded BY <1>3, <1>10 DEF Guard, At
  <2>2. CASE Refuse(r) BY <1>6, <2>1, <2>2 DEF NothingPosted, BeforePosting
  <2>3. CASE \E s \in {"pay", "reverse"} : Goto(r, s)
    BY <1>7, <2>1, <2>3 DEF Steps
  <2>4. CASE job[r].op \notin Matching /\ Goto(r, "book")
    <3>1. To(r, {"book"}) BY <1>1, <2>4, Moves DEF Steps
    <3>2. job'[r].pc = "book" /\ job'[r].op = job[r].op
      BY <1>1, <2>4 DEF Goto, Job
    <3>3. Tidy(r)' BY <2>4, <3>2 DEF Tidy
    <3> QED BY <1>1, <1>2, <2>1, <3>1, <3>3, CleanMoves
  <2> QED BY <1>10, <2>2, <2>3, <2>4 DEF Guard
<1>11. ASSUME Book(r) PROVE Clean'
  <2>1. job[r].pc = "book" BY <1>11 DEF Book, At
  <2>2. CASE UNCHANGED tables /\ (End(r, "release") \/ Refuse(r))
    <3>1. CASE End(r, "release") BY <1>3, <1>7, <2>2, <3>1 DEF Steps, Endings
    <3>2. CASE Refuse(r)
      BY <1>3, <1>6, <2>1, <2>2, <3>2 DEF NothingPosted, BeforePosting
    <3> QED BY <2>2, <3>1, <3>2
  <2>3. CASE /\ PostVoucher(r)
             /\ job' = [job EXCEPT ![r].pc = "link", ![r].own = NextVoucher]
    <3>1. NextVoucher \in Vouchers BY <2>1, VoucherLeft DEF BeforePosting
    <3>2. Adds(r) BY <2>1, <2>3 DEF Adds, PostVoucher
    <3> DEFINE j == [job[r] EXCEPT !.pc = "link", !.own = NextVoucher]
    <3>3. j \in Job /\ j.pc = "link" /\ j.op = job[r].op /\ j.own = NextVoucher
      BY <1>1, <3>1 DEF Job, Steps
    <3>4. job' = [job EXCEPT ![r] = j] BY <2>3
    <3> HIDE DEF j
    <3> QED BY <1>2, <2>1, <3>1, <3>2, <3>3, <3>4, CleanAdds
  <2> QED BY <1>11, <2>2, <2>3 DEF Book, Statement, AccountsMissing
<1>12. ASSUME Link(r) PROVE Clean'
  <2>1. job[r].pc = "link" /\ NoneAdded
    BY <1>3, <1>4, <1>12 DEF Link, At, Statement
  <2>2. CASE End(r, "finish") BY <1>7, <2>1, <2>2 DEF Steps, Endings
  <2>3. CASE Goto(r, "undo")
    <3>1. To(r, {"undo"}) BY <1>1, <2>3, Moves DEF Steps
    <3>2. job'[r] = [job[r] EXCEPT !.pc = "undo"] BY <1>1, <2>3 DEF Goto
    <3>3. \A v \in Vouchers, o \in Ops : BookedBy(v, o)' => BookedBy(v, o)
      BY <1>1, <2>1, BookedKept
    <3>4. /\ job'[r].pc = "undo" /\ job'[r].op = job[r].op
          /\ job'[r].own = job[r].own
      BY <1>1, <3>2 DEF Job
    <3>5. Tidy(r)' BY <2>1, <3>3, <3>4 DEF Clean, Tidy
    <3> QED BY <1>1, <1>2, <2>1, <3>1, <3>5, CleanMoves
  <2> QED BY <1>12, <2>2, <2>3 DEF Link, Statement
<1>13. ASSUME Undo(r) PROVE Clean'
  <2>1. job[r].pc = "undo" /\ Refuse(r) BY <1>13 DEF Undo, At, Statement
  <2>2. PICK u \in Vouchers \cup {NoVoucher} : u = job[r].own BY <1>5
  <2>3. CASE UNCHANGED tables /\ "error" \in Faults
    <3>1. \A o \in Ops : job[r].op # o BY <2>1, <2>3 DEF Clean, Tidy
    <3>2. Tidy(r)' /\ To(r, {"reject"})
      BY <1>1, <1>3, <2>1, <2>3, <3>1, TidyRefused
    <3> QED BY <1>1, <1>2, <1>3, <2>1, <2>3, <3>2, CleanMoves
  <2>4. CASE (Posted(u) /\ ReverseVoucher(u)) \/ (~Posted(u) /\ UNCHANGED tables)
    <3>1. NoneAdded /\ ~Posted(u)'
      <4>1. CASE Posted(u) /\ ReverseVoucher(u)
        <5>1. NoneAdded /\ u \in Vouchers BY <1>1, <4>1, Reversing
        <5>2. voucher'[u].status = "reversed"
          BY <1>1, <4>1, <5>1 DEF ReverseVoucher, TypeOK, Voucher
        <5> QED BY <5>1, <5>2 DEF Posted
      <4>2. CASE ~Posted(u) /\ UNCHANGED tables
        BY <1>3, <4>2 DEF Posted, tables
      <4> QED BY <2>4, <4>1, <4>2
    <3>2. \A o \in Ops : job[r].op = o => Unbooked(o)'
      <4>1. \A v \in Vouchers, o \in Ops : BookedBy(v, o)' => BookedBy(v, o)
        BY <1>1, <3>1, BookedKept
      <4>2. \A v \in Vouchers, o \in Ops : BookedBy(v, o)' => Posted(v)'
        BY DEF BookedBy
      <4>3. \A o \in Ops : job[r].op = o =>
               \A v \in Vouchers : BookedBy(v, o) => v = u
        BY <2>1, <2>2 DEF Clean, Tidy
      <4> QED BY <3>1, <4>1, <4>2, <4>3 DEF Unbooked
    <3>3. Tidy(r)' /\ To(r, {"reject"}) BY <1>1, <2>1, <3>1, <3>2, TidyRefused
    <3> QED BY <1>1, <1>2, <3>1, <3>3, CleanMoves
  <2> QED BY <1>13, <2>2, <2>3, <2>4 DEF Undo, Statement
<1>14. ASSUME ReverseOld(r) PROVE Clean'
  <2>1. job[r].pc = "reverse" BY <1>14 DEF ReverseOld, At
  <2>2. NoneAdded
    <3>1. Posted(job[r].observed) /\ ReverseVoucher(job[r].observed) => NoneAdded
      BY <1>1, <1>5, Reversing
    <3> QED BY <1>3, <1>14, <3>1 DEF ReverseOld, Statement
  <2>3. CASE Refuse(r) BY <1>6, <2>1, <2>2, <2>3 DEF NothingPosted, BeforePosting
  <2>4. CASE job' = [job EXCEPT ![r].pc = "unlink", ![r].posted = TRUE]
    <3> DEFINE j == [job[r] EXCEPT !.pc = "unlink", !.posted = TRUE]
    <3>1. j \in Job /\ j.op = job[r].op /\ j.pc = "unlink" BY <1>1 DEF Job, Steps
    <3>2. job' = [job EXCEPT ![r] = j] BY <2>4
    <3> HIDE DEF j
    <3> QED BY <1>8, <2>2, <3>1, <3>2
  <2> QED BY <1>14, <2>3, <2>4 DEF ReverseOld, Statement
<1>15. ASSUME Unlink(r) PROVE Clean'
  <2>1. NoneAdded /\ Goto(r, "pay") BY <1>3, <1>4, <1>15 DEF Unlink, Statement
  <2> QED BY <1>7, <2>1 DEF Steps
<1>16. ASSUME Pay(r) PROVE Clean'
  <2>1. job[r].pc = "pay" BY <1>16 DEF Pay, At
  <2>2. CASE UNCHANGED tables /\ End(r, "release")
    BY <1>3, <1>7, <2>2 DEF Steps, Endings
  <2>3. CASE /\ PostVoucher(r)
             /\ job' = [job EXCEPT ![r].pc = "settle", ![r].own = NextVoucher,
                                   ![r].posted = TRUE]
    <3>1. NextVoucher \in Vouchers BY <2>1, VoucherLeft DEF BeforePosting
    <3>2. Adds(r) BY <2>1, <2>3 DEF Adds, PostVoucher
    <3> DEFINE j == [job[r] EXCEPT !.pc = "settle", !.own = NextVoucher,
                                   !.posted = TRUE]
    <3>3. j \in Job /\ j.pc = "settle" /\ j.op = job[r].op /\ j.posted
      BY <1>1, <3>1 DEF Job, Steps
    <3>4. job' = [job EXCEPT ![r] = j] BY <2>3
    <3> HIDE DEF j
    <3> QED BY <1>2, <3>1, <3>2, <3>3, <3>4, CleanAdds
  <2>4. CASE UNCHANGED tables /\ Goto(r, "settle")
    <3>1. To(r, {"settle"}) BY <1>1, <2>4, Moves DEF Steps
    <3>2. job'[r].op = job[r].op BY <1>1, <2>4 DEF Goto, Job
    <3>3. \A o \in Ops : job[r].op = o => Unbooked(o)
      BY <2>1, NothingStands DEF NothingPosted, BeforePosting
    <3>4. \A o \in Ops : Unbooked(o) => Unbooked(o)'
      BY <2>4 DEF Unbooked, BookedBy, Posted, tables
    <3>5. job'[r].pc = "settle" BY <1>1, <2>4 DEF Goto, Job
    <3>6. Tidy(r)' BY <3>2, <3>3, <3>4, <3>5 DEF Tidy
    <3> QED BY <1>1, <1>2, <1>3, <2>4, <3>1, <3>6, CleanMoves
  <2>5. CASE UNCHANGED tables /\ Goto(r, Failed(r))
    <3>1. CASE Goto(r, "reject")
      BY <1>3, <1>6, <2>1, <2>5, <3>1 DEF NothingPosted, BeforePosting
    <3>2. CASE Goto(r, "partial") BY <1>3, <1>7, <2>5, <3>2 DEF Steps, Endings
    <3> QED BY <2>5, <3>1, <3>2 DEF Failed
  <2> QED BY <1>16, <2>2, <2>3, <2>4, <2>5 DEF Pay, Statement, AccountsMissing
<1>17. ASSUME Settle(r) PROVE Clean'
  <2>1. job[r].pc = "settle" /\ NoneAdded
    BY <1>3, <1>4, <1>17 DEF Settle, At, Statement
  <2>2. CASE Goto(r, "record") BY <1>7, <2>1, <2>2 DEF Steps
  <2>3. CASE Goto(r, "partial") BY <1>7, <2>1, <2>3 DEF Steps, Endings
  <2>4. CASE ~job[r].posted /\ Goto(r, "reject")
    <3>1. \A o \in Ops : job[r].op = o => Unbooked(o)
      BY <2>1, <2>4 DEF Clean, Tidy
    <3>2. Tidy(r)' /\ To(r, {"reject"}) BY <1>1, <2>1, <2>4, <3>1, TidyRefused
    <3> QED BY <1>1, <1>2, <2>1, <3>2, CleanMoves
  <2> QED BY <1>17, <2>2, <2>3, <2>4 DEF Settle, Statement, Failed
<1>18. ASSUME RecordPayment(r) PROVE Clean'
  <2>1. NoneAdded /\ Goto(r, "point")
    BY <1>3, <1>4, <1>18 DEF RecordPayment, Statement
  <2> QED BY <1>7, <2>1 DEF Steps
<1>19. ASSUME Point(r) PROVE Clean'
  <2>1. NoneAdded /\ Goto(r, "finish")
    BY <1>3, <1>4, <1>19 DEF Point, Statement
  <2> QED BY <1>7, <2>1 DEF Steps, Endings
<1> QED BY <1>9, <1>10, <1>11, <1>12, <1>13, <1>14, <1>15, <1>16, <1>17, <1>18,
       <1>19 DEF Executes

LEMMA CleanRequest ==
    ASSUME Typed, Clean, NEW r \in Runners
    PROVE  /\ \A o \in Ops : Approve(r, o) => Clean'
           /\ BookByHand(r) => Clean'
           /\ Claim(r) => Clean'
           /\ Conclude(r) => Clean'
           /\ Crash(r) => Clean'
<1>1. TypeOK /\ job \in [Runners -> Job] BY DEF Typed, TypeOK
<1>2. voucher' = voucher =>
         \A v \in Vouchers, o \in Ops : BookedBy(v, o)' => BookedBy(v, o)
  BY DEF BookedBy, Posted
<1>3. ASSUME NEW j, Begin(r, j), j.pc \in {"claim", "read"} PROVE Clean'
  <2>1. job' = [job EXCEPT ![r] = j] /\ UNCHANGED <<op, voucher>>
    BY <1>3 DEF Begin, tables
  <2>2. job'[r] = j /\ \A q \in Runners \ {r} : job'[q] = job[q] BY <1>1, <2>1
  <2>3. Tidy(r)' BY <1>3, <2>2, TidyElsewhere
  <2> QED BY <1>2, <2>1, <2>2, <2>3, CleanKept DEF Rejected
<1>4. ASSUME NEW o \in Ops, Approve(r, o) PROVE Clean'
  <2> DEFINE j == [Idle EXCEPT !.pc = "claim", !.op = o]
  <2>1. j.pc = "claim" BY DEF Idle
  <2>2. Begin(r, j) BY <1>4 DEF Approve
  <2> HIDE DEF j
  <2> QED BY <2>1, <2>2, <1>3
<1>5. ASSUME BookByHand(r) PROVE Clean'
  <2> DEFINE j == [Idle EXCEPT !.pc = "read", !.op = Hand]
  <2>1. j.pc = "read" BY DEF Idle
  <2>2. Begin(r, j) BY <1>5 DEF BookByHand
  <2> HIDE DEF j
  <2> QED BY <2>1, <2>2, <1>3
<1>6. ASSUME Stop(r) \/ Goto(r, "read")
      PROVE  Tidy(r)' /\ \A q \in Runners \ {r} : job'[q] = job[q]
  <2>1. To(r, {}) \/ To(r, {"read"}) BY <1>1, <1>6, Moves DEF Steps
  <2>2. /\ job'[r] = Idle \/ job'[r].pc = "read"
        /\ \A q \in Runners \ {r} : job'[q] = job[q]
    BY <1>1, <2>1, Others
  <2> QED BY <2>2, TidyElsewhere
<1>7. ASSUME Claim(r) PROVE Clean'
  <2>1. voucher' = voucher /\ (Stop(r) \/ Goto(r, "read"))
    BY <1>7 DEF Claim, Statement, SetOp, tables
  <2>2. \A o \in Ops : Rejected(o)' => Rejected(o)
    BY <1>1, <1>7
       DEF Claim, Statement, SetOp, tables, Rejected, TypeOK, Operation
  <2> QED BY <1>2, <1>6, <2>1, <2>2, CleanKept
<1>8. ASSUME Conclude(r) PROVE Clean'
  <2>1. job[r].pc \in Endings /\ Stop(r) /\ voucher' = voucher
    BY <1>8 DEF Conclude, Statement, SetOp, tables
  <2>2. ASSUME NEW o \in Ops, Rejected(o)' PROVE Rejected(o) \/ Unbooked(o)
    <3>1. CASE op'[o] = op[o] BY <2>2, <3>1 DEF Rejected
    <3>2. CASE op'[o] # op[o]
      <4>1. SetOp(job[r].op,
                  [op[job[r].op] EXCEPT !.status = Outcome(job[r].pc)])
        BY <1>8, <3>2 DEF Conclude, Statement, tables
      <4>2. o = job[r].op BY <1>1, <3>2, <4>1 DEF SetOp, TypeOK
      <4>3. op'[o].status = Outcome(job[r].pc)
        BY <1>1, <4>1, <4>2 DEF SetOp, TypeOK, Operation
      <4>4. job[r].pc = "reject"
        BY <2>1, <2>2, <4>3 DEF Rejected, Outcome, Endings
      <4> QED BY <4>2, <4>4 DEF Clean, Tidy
    <3> QED BY <3>1, <3>2
  <2> QED BY <1>2, <1>6, <2>1, <2>2, CleanKept
<1>9. ASSUME Crash(r) PROVE Clean'
  <2>1. Stop(r) /\ UNCHANGED <<op, voucher>> BY <1>9 DEF Crash, tables
  <2> QED BY <1>2, <1>6, <2>1, CleanKept DEF Rejected
<1> QED BY <1>4, <1>5, <1>7, <1>8, <1>9

(* A user rejects what is pending, and the sweep leaves its mark.            *)
LEMMA CleanOthers ==
    ASSUME Typed, Once, Clean
    PROVE  /\ \A o \in Ops : Reject(o) => Clean'
           /\ \A o \in Ops : StartEdit(o) => Clean'
           /\ \A o \in Ops : Age(o) => Clean'
           /\ FinishEdit => Clean'
           /\ \A s \in Sweepers : Sweep(s) => Clean'
<1>1. TypeOK BY DEF Typed
<1>2. ASSUME UNCHANGED <<voucher, job>>,
             \A o \in Ops : Rejected(o)' => Rejected(o) \/ Unbooked(o)
      PROVE  Clean'
  <2>1. \A v \in Vouchers, o \in Ops : BookedBy(v, o)' => BookedBy(v, o)
    BY <1>2 DEF BookedBy, Posted
  <2> QED BY <1>2, <2>1, CleanKept
<1>3. ASSUME NEW o \in Ops, Reject(o) PROVE Clean'
  <2>1. Unbooked(o) BY <1>3 DEF Reject, Once
  <2>2. \A p \in Ops : Rejected(p)' => Rejected(p) \/ p = o
    BY <1>1, <1>3 DEF Reject, SetOp, Rejected, TypeOK
  <2> QED BY <1>2, <1>3, <2>1, <2>2 DEF Reject, SetOp
<1>4. ASSUME NEW o \in Ops, StartEdit(o) PROVE Clean'
  BY <1>2, <1>4 DEF StartEdit, tables, Rejected
<1>5. ASSUME NEW o \in Ops, Age(o) PROVE Clean'
  BY <1>1, <1>2, <1>5 DEF Age, TypeOK, Operation, Rejected
<1>6. ASSUME FinishEdit PROVE Clean'
  BY <1>1, <1>2, <1>6 DEF FinishEdit, SetOp, tables, TypeOK, Operation, Rejected
<1>7. ASSUME NEW s \in Sweepers, Sweep(s) PROVE Clean'
  <2>1. UNCHANGED <<voucher, job>>
    BY <1>7 DEF Sweep, ListStuck, Probe, Resolve, SweepStep
  <2>2. CASE op' = op BY <1>2, <2>1, <2>2 DEF Rejected
  <2>3. CASE op' # op
    <3> DEFINE o == sweep[s].row
               row == [Verdict(o, sweep[s].evidence) EXCEPT !.stale = FALSE]
    <3>1. op' = [op EXCEPT ![o] = row]
      BY <1>7, <2>3 DEF Sweep, ListStuck, Probe, Resolve
    <3>2. o \in Ops => row.recovered
      BY <1>1 DEF Verdict, TypeOK, Operation
    <3> HIDE DEF row, o
    <3>3. \A p \in Ops : Rejected(p)' => Rejected(p)
      BY <1>1, <3>1, <3>2 DEF TypeOK, Rejected
    <3> QED BY <1>2, <2>1, <3>3
  <2> QED BY <2>2, <2>3
<1> QED BY <1>3, <1>4, <1>5, <1>6, <1>7

LEMMA CleanStep ==
    ASSUME "lostReply" \notin Faults, "error" \in Faults => Ops \subseteq Matching
    PROVE  Typed /\ Claimed /\ Once /\ Clean /\ [Next]_vars => Clean'
<1> SUFFICES ASSUME Typed, Claimed, Once, Clean, [Next]_vars PROVE Clean' OBVIOUS
<1>1. CASE UNCHANGED vars
  BY <1>1 DEF vars, Clean, Tidy, Rejected, Unbooked, BookedBy, Posted
<1>2. ASSUME NEW r \in Runners, Advance(r) PROVE Clean'
  <2>1. CASE Claim(r) \/ Conclude(r) BY <2>1, CleanRequest
  <2>2. CASE Executes(r) BY <2>2, CleanExecutes
  <2> QED BY <1>2, <2>1, <2>2 DEF Advance, Executes
<1> QED BY <1>1, <1>2, CleanRequest, CleanOthers DEF Next

(* When no reply of an applied statement is lost, and no statement fails for *)
(* a passing reason unless all operations are matches: an operation that a   *)
(* user or its executor rejects has no voucher standing in the ledger, also  *)
(* when its match lost the invoice or its booking lost the transaction after *)
(* the voucher was posted. An error can make the undo of a booking fail,     *)
(* which a match does not have: it ends failed_partial instead.              *)
THEOREM RejectionsClean ==
    ASSUME "lostReply" \notin Faults, "error" \in Faults => Ops \subseteq Matching
    PROVE  Spec => []RejectedIsClean
<1>1. Clean => RejectedIsClean
  BY DEF Clean, Rejected, RejectedIsClean, Unbooked, BookedBy
<1>2. Spec => []Once
  BY TypedAlways, ClaimedAlways, OnceInit, OnceStep, PTL DEF Spec
<1> QED BY <1>1, <1>2, TypedAlways, ClaimedAlways, CleanInit, CleanStep, PTL
     DEF Spec
=============================================================================
