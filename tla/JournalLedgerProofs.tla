-------------------------- MODULE JournalLedgerProofs --------------------------
(* The journal implements the abstract Ledger, and a locked period does not  *)
(* change, for every number of processes, periods, vouchers and requests.    *)
EXTENDS JournalLedger, JournalNumberProofs, JournalReversalProofs

(* What one step does to the headers and the locks: nothing, or the effect   *)
(* of one accepted statement.                                                *)
Inserts ==
    \E w \in Workers :
        /\ job[w].pc = "insert"
        /\ InsertAccepted(OwnHeader(w)) /\ InsertEffect(OwnHeader(w))

Relines ==
    \E e \in EntryIds :
        \/ SetLines(e, TRUE)
        \/ LinesRemovable(e) /\ SetLines(e, FALSE)

Commits == \E e \in EntryIds : CommitAccepted(e) /\ CommitEffect(e)

Posts ==
    \E w \in Workers :
        /\ job[w].pc = "post" /\ job[w].own \in EntryIds
        /\ PostAccepted(w, job[w].own) /\ SetStatus(job[w].own, "posted")

Cancels ==
    \E e \in EntryIds :
        /\ entry[e].source = "regular" \/ \E w \in Workers : Held(w, e)
        /\ StatusAccepted(e, "cancelled") /\ SetStatus(e, "cancelled")

Links ==
    \E w \in Workers :
        /\ job[w].pc = "mark" /\ job[w].storno \in EntryIds
        /\ ReversalAccepted(job[w].orig, job[w].storno)
        /\ LinkReversal(job[w].orig, job[w].storno)

Locks == \E p \in Periods, b \in BOOLEAN : SetLock(p, b)

Quiet == UNCHANGED <<entry, locked>>

LEMMA StepEffects ==
    ASSUME IType, [Next]_vars
    PROVE  Quiet \/ Inserts \/ Relines \/ Commits \/ Posts \/ Cancels \/ Links
           \/ Locks
<1>1. UNCHANGED db => Quiet BY DEF db, Quiet
<1>2. ASSUME NEW w \in Workers, Advance(w)
      PROVE  Quiet \/ Inserts \/ Relines \/ Commits \/ Posts \/ Cancels \/ Links
  <2>1. job[w] \in Job BY DEF IType, TypeOK
  <2>2. CASE AllocateNumber(w)
    BY <1>1, <2>2 DEF AllocateNumber, Statement, ConsumeNumber, Quiet
  <2>3. CASE InsertHeader(w)
    BY <1>1, <2>3 DEF InsertHeader, At, Statement, Inserts
  <2>4. CASE InsertLines(w)
    <3>1. job[w].own \in EntryIds BY <2>4 DEF InsertLines, At, IType, Hands
    <3> QED BY <1>1, <2>4, <3>1 DEF InsertLines, Statement, Relines
  <2>5. CASE CancelDraft(w)
    <3>1. job[w].own \in EntryIds /\ Held(w, job[w].own)
      BY <2>5 DEF CancelDraft, At, IType, Hands, Held
    <3> QED BY <1>1, <2>5, <3>1 DEF CancelDraft, Statement, Cancels
  <2>11. CASE CancelIfDraft(w)
    <3>1. job[w].own \in EntryIds /\ Held(w, job[w].own)
      BY <2>11 DEF CancelIfDraft, At, IType, Hands, Held
    <3>2. entry[job[w].own].status = "draft"
             /\ ~locked[entry[job[w].own].period]
             => StatusAccepted(job[w].own, "cancelled")
      BY DEF StatusAccepted, StatusSteps
    <3> QED BY <1>1, <2>11, <3>1, <3>2 DEF CancelIfDraft, Statement, Cancels
  <2>6. CASE Commit(w)
    <3>1. job[w].own \in EntryIds BY <2>6 DEF Commit, At, IType, Hands
    <3> QED BY <1>1, <2>6, <3>1 DEF Commit, Statement, Commits
  <2>7. CASE Post(w)
    <3>1. job[w].pc = "post" /\ job[w].own \in EntryIds
      BY <2>7 DEF Post, At, IType, Hands
    <3> QED BY <1>1, <2>7, <3>1 DEF Post, Statement, Posts
  <2>8. CASE MarkReversed(w)
    <3>1. job[w].pc = "mark" /\ job[w].storno \in EntryIds
      BY <2>1, <2>8 DEF MarkReversed, At, IType, Hands, Job, Sources
    <3> QED BY <1>1, <2>8, <3>1 DEF MarkReversed, Statement, Links
  <2>9. CASE UndoHeader(w)
    <3>1. job[w].undo \in Seq(EntryIds) /\ job[w].undo # <<>>
      BY <2>1, <2>9 DEF UndoHeader, At, IType, Hands, Job
    <3>2. Head(job[w].undo) \in EntryIds /\ Held(w, Head(job[w].undo))
      BY <3>1 DEF Held
    <3> QED BY <1>1, <2>9, <3>2 DEF UndoHeader, Statement, Cancels
  <2>10. CASE UndoLines(w)
    <3>1. Head(job[w].undo) \in EntryIds
      BY <2>1, <2>10 DEF UndoLines, At, IType, Hands, Job
    <3> QED BY <1>1, <2>10, <3>1 DEF UndoLines, Statement, Relines
  <2> QED BY <1>2, <2>2, <2>3, <2>4, <2>5, <2>6, <2>7, <2>8, <2>9, <2>10,
      <2>11 DEF Advance
<1>3. ASSUME NEW w \in Workers, Start(w) \/ Crash(w) PROVE Quiet
  BY <1>1, <1>3 DEF Start, StartCreate, StartReverse, StartCorrect, Begin,
     Crash
<1>4. CASE Other
  <2>1. ASSUME NEW e \in EntryIds, CommitDraft(e) PROVE Commits
    BY <2>1 DEF CommitDraft, Commits
  <2>2. ASSUME NEW e \in EntryIds, CancelOrphan(e) PROVE Cancels
    BY <2>2 DEF CancelOrphan, Cancels
  <2>3. ASSUME NEW p \in Periods, LockPeriod(p) \/ UnlockPeriod(p) PROVE Locks
    BY <2>3 DEF LockPeriod, UnlockPeriod, Locks
  <2> QED BY <1>4, <2>1, <2>2, <2>3 DEF Other
<1>5. CASE UNCHANGED vars BY <1>5 DEF vars, Quiet
<1> QED BY <1>2, <1>3, <1>4, <1>5 DEF Next

-----------------------------------------------------------------------------
(* A locked period does not change.                                          *)

(* The row of a header in the ledger, if it is there.                        *)
InBooks(h) == h.status \in {"posted", "reversed"}

(* A step that touches a header touches none of a locked period's ledger.    *)
Spares(e) ==
    entry'[e] # entry[e] =>
        /\ InBooks(entry[e]) => ~locked[entry[e].period]
        /\ InBooks(entry'[e]) => ~locked[entry'[e].period]

LEMMA EffectsSpare ==
    ASSUME IType, IdsFresh, PostedKeepsLines, [Next]_vars, ~Locks
    PROVE  \A e \in EntryIds : Spares(e)
<1> USE DEF IType, TypeOK, Spares, InBooks
<1>1. \A e \in EntryIds : entry[e] \in Entry OBVIOUS
<1>2. CASE Quiet BY <1>2 DEF Quiet
<1>3. CASE Inserts
  <2>1. PICK w \in Workers : InsertEffect(OwnHeader(w)) BY <1>3 DEF Inserts
  <2>2. OwnHeader(w).status = "draft" BY DEF OwnHeader, Header
  <2>3. entry[nextId].status = "absent"
    BY <2>1 DEF InsertEffect, IdsFresh, Present
  <2> QED BY <2>1, <2>2, <2>3 DEF InsertEffect
<1>4. CASE Relines
  <2>1. PICK e \in EntryIds : \/ SetLines(e, TRUE)
                              \/ LinesRemovable(e) /\ SetLines(e, FALSE)
    BY <1>4 DEF Relines
  <2>2. \A b : /\ [entry[e] EXCEPT !.lines = b].status = entry[e].status
               /\ entry[e].lines = b => [entry[e] EXCEPT !.lines = b] = entry[e]
    BY <1>1 DEF Entry
  <2>3. CASE SetLines(e, TRUE)
    BY <2>2, <2>3 DEF SetLines, PostedKeepsLines
  <2>4. CASE LinesRemovable(e) /\ SetLines(e, FALSE)
    BY <2>2, <2>4 DEF SetLines, LinesRemovable
  <2> QED BY <2>1, <2>3, <2>4
<1>5. CASE Commits
  BY <1>1, <1>5 DEF Commits, CommitAccepted, CommitEffect, Entry
<1>6. CASE Posts
  BY <1>1, <1>6 DEF Posts, PostAccepted, StatusAccepted, SetStatus, Entry
<1>7. CASE Cancels
  BY <1>1, <1>7 DEF Cancels, StatusAccepted, SetStatus, Present, Entry
<1>8. CASE Links
  BY <1>1, <1>8 DEF Links, ReversalAccepted, LinkReversal, Entry
<1> QED BY <1>2, <1>3, <1>4, <1>5, <1>6, <1>7, <1>8, StepEffects

LEMMA FrozenStep ==
    ASSUME IType, IdsFresh, PostedKeepsLines, [Next]_vars,
           NEW p \in Periods, locked[p], locked'[p]
    PROVE  Ledger(p)' = Ledger(p)
<1>1. CASE Locks
  BY <1>1 DEF Locks, SetLock, Ledger
<1>2. CASE ~Locks
  <2>1. \A e \in EntryIds : Spares(e) BY <1>2, EffectsSpare
  <2>2. \A e \in EntryIds :
           \/ entry'[e] = entry[e]
           \/ /\ ~(entry[e].period = p /\ InBooks(entry[e]))
              /\ ~(entry'[e].period = p /\ InBooks(entry'[e]))
    BY <2>1 DEF Spares
  <2> QED BY <2>2 DEF Ledger, InBooks
<1> QED BY <1>1, <1>2

(* While a period is locked its vouchers stay as they are, whatever requests *)
(* were under way when the lock fell, whatever fails and whoever connects.   *)
THEOREM LockedStaysFrozen == Spec => LedgerFrozen
<1>1. Init => IdsFresh
  BY JournalAssumption DEF Init, IdsFresh, Present, NoEntry, Header, EntryIds
<1>2. IType /\ IdsFresh /\ [Next]_vars => IdsFresh' BY IdsStep
<1>3. IType /\ PostedKeepsLines /\ IdsFresh /\ [Next]_vars
         => [\A p \in Periods :
               locked[p] /\ locked'[p] => Ledger(p)' = Ledger(p)]_vars
  BY FrozenStep
<1> QED BY <1>1, <1>2, <1>3, TypeAlways, LinesStay, PTL DEF Spec, LedgerFrozen

-----------------------------------------------------------------------------
(* The numbers of the headers in the ledger differ.                          *)

Numbered ==
    /\ \A e \in EntryIds : InBooks(entry[e]) => entry[e].number > 0
    /\ \A w \in Workers :
          job[w].pc \in {"lines", "post"} /\ job[w].role # "regular"
              => entry[job[w].own].number > 0
    /\ \A e, f \in EntryIds :
          /\ e # f /\ Present(e) /\ Present(f)
          /\ entry[e].period = entry[f].period /\ entry[e].number > 0
          => entry[e].number # entry[f].number

(* A request past its insert keeps the header it inserted.                   *)
Writes(v) ==
    job'[v].pc \in {"lines", "post"} /\ job'[v].role # "regular" =>
        \/ /\ job[v].pc \in {"lines", "post"} /\ job[v].role # "regular"
           /\ job'[v].own = job[v].own
        \/ /\ job[v].pc = "insert" /\ job[v].role # "regular"
           /\ InsertEffect(OwnHeader(v)) /\ job'[v].own = nextId

LEMMA StepWrites ==
    ASSUME IType, [Next]_vars
    PROVE  \A v \in Workers : Writes(v)
<1> USE DEF IType, TypeOK
<1>1. \A v \in Workers : job[v] \in Job OBVIOUS
<1>2. ASSUME NEW w \in Workers, \A v \in Workers \ {w} : job'[v] = job[v],
             Writes(w)
      PROVE  \A v \in Workers : Writes(v)
  BY <1>2 DEF Writes
<1>3. ASSUME NEW w \in Workers, NEW j, job' = [job EXCEPT ![w] = j],
             j.pc \notin {"lines", "post"} \/ j.role = "regular"
      PROVE  \A v \in Workers : Writes(v)
  BY <1>2, <1>3 DEF Writes
<1>4. ASSUME NEW w \in Workers, NEW es, Abandon(w, es)
      PROVE  \A v \in Workers : Writes(v)
  <2>1. CASE es = <<>> BY <1>3, <1>4, <2>1 DEF Abandon, Finish, Idle
  <2>2. CASE es # <<>>
    <3> DEFINE j == [[job[w] EXCEPT !.pc = "undo"] EXCEPT !.undo = es]
    <3>1. job' = [job EXCEPT ![w] = j] BY <1>4, <2>2 DEF Abandon
    <3>2. j.pc = "undo" BY <1>1 DEF Job
    <3> HIDE DEF j
    <3> QED BY <1>3, <3>1, <3>2
  <2> QED BY <2>1, <2>2
<1>5. ASSUME NEW w \in Workers,
             Finish(w) \/ CancelOwn(w) \/ CancelEarlier(w)
      PROVE  \A v \in Workers : Writes(v)
  BY <1>3, <1>4, <1>5 DEF Finish, Idle, CancelOwn, CancelEarlier
<1>6. ASSUME NEW w \in Workers, NEW step, step # "lines", Goto(w, step),
             step = "post" => job[w].pc = "lines" /\ job[w].role # "regular"
      PROVE  \A v \in Workers : Writes(v)
  <2> DEFINE j == [job[w] EXCEPT !.pc = step]
  <2>1. job' = [job EXCEPT ![w] = j] BY <1>6 DEF Goto
  <2>2. j.pc = step /\ j.own = job[w].own BY <1>1 DEF Job
  <2> HIDE DEF j
  <2>3. CASE step # "post" BY <1>3, <1>6, <2>1, <2>2, <2>3
  <2>4. CASE step = "post"
    <3>1. job'[w].own = job[w].own BY <2>1, <2>2
    <3> QED BY <1>2, <1>6, <2>1, <2>4, <3>1 DEF Writes
  <2> QED BY <2>3, <2>4
<1>7. ASSUME NEW w \in Workers, Advance(w)
      PROVE  \A v \in Workers : Writes(v)
  <2>1. CASE AllocateNumber(w)
    <3>1. ASSUME NEW n, job' = [job EXCEPT ![w].pc = "insert", ![w].number = n]
          PROVE  \A v \in Workers : Writes(v)
      <4> DEFINE j == [[job[w] EXCEPT !.pc = "insert"] EXCEPT !.number = n]
      <4>1. job' = [job EXCEPT ![w] = j] BY <3>1
      <4>2. j.pc = "insert" BY <1>1 DEF Job
      <4> HIDE DEF j
      <4> QED BY <1>3, <4>1, <4>2
    <3> QED BY <1>5, <2>1, <3>1 DEF AllocateNumber, Statement
  <2>2. CASE InsertHeader(w)
    <3>1. ASSUME Remember(w), InsertEffect(OwnHeader(w))
          PROVE  \A v \in Workers : Writes(v)
      <4> DEFINE s == IF job[w].role = "storno" THEN nextId ELSE job[w].storno
                 j == [[[job[w] EXCEPT !.pc = "lines"] EXCEPT !.own = nextId]
                         EXCEPT !.storno = s]
      <4>1. job' = [job EXCEPT ![w] = j] BY <3>1 DEF Remember
      <4>2. j.own = nextId /\ j.role = job[w].role BY <1>1 DEF Job
      <4> HIDE DEF j
      <4>3. job'[w].own = nextId /\ job'[w].role = job[w].role BY <4>1, <4>2
      <4>4. job[w].pc = "insert" BY <2>2 DEF InsertHeader, At
      <4> QED BY <1>2, <3>1, <4>1, <4>3, <4>4 DEF Writes
    <3> QED BY <1>5, <2>2, <3>1 DEF InsertHeader, Statement
  <2>3. CASE InsertLines(w)
    <3>1. job[w].pc = "lines" BY <2>3 DEF InsertLines, At
    <3> QED BY <1>5, <1>6, <2>3, <3>1 DEF InsertLines, Statement
  <2>4. CASE CancelDraft(w) \/ CancelIfDraft(w)
    BY <1>5, <2>4 DEF CancelDraft, CancelIfDraft, Statement
  <2>5. CASE Commit(w)
    BY <1>5, <1>6, <2>5 DEF Commit, Statement
  <2>6. CASE Post(w)
    <3>1. ASSUME job' = [job EXCEPT ![w].pc = "number", ![w].role = "correction"]
          PROVE  \A v \in Workers : Writes(v)
      <4> DEFINE j == [[job[w] EXCEPT !.pc = "number"]
                         EXCEPT !.role = "correction"]
      <4>1. job' = [job EXCEPT ![w] = j] BY <3>1
      <4>2. j.pc = "number" BY <1>1 DEF Job
      <4> HIDE DEF j
      <4> QED BY <1>3, <4>1, <4>2
    <3> QED BY <1>5, <1>6, <2>6, <3>1 DEF Post, Statement, GoOn
  <2>7. CASE MarkReversed(w)
    BY <1>4, <1>5, <2>7 DEF MarkReversed, Statement
  <2>8. CASE UndoHeader(w) BY <1>6, <2>8 DEF UndoHeader, Statement
  <2>9. CASE UndoLines(w) BY <1>4, <2>9 DEF UndoLines, Statement
  <2> QED BY <1>7, <2>1, <2>2, <2>3, <2>4, <2>5, <2>6, <2>7, <2>8, <2>9
      DEF Advance
<1>8. ASSUME NEW w \in Workers, Start(w) PROVE \A v \in Workers : Writes(v)
  <2>1. ASSUME NEW j, Begin(w, j), j.pc \in {"number", "insert"}
        PROVE  \A v \in Workers : Writes(v)
    BY <1>3, <2>1 DEF Begin
  <2> QED BY <1>8, <2>1 DEF Start, StartCreate, StartReverse, StartCorrect, Idle
<1>9. ASSUME NEW w \in Workers, Crash(w) PROVE \A v \in Workers : Writes(v)
  BY <1>5, <1>9 DEF Crash
<1>10. CASE UNCHANGED job BY <1>10 DEF Writes
<1>11. CASE Other
  BY <1>10, <1>11 DEF Other, CommitDraft, CancelOrphan, LockPeriod,
     UnlockPeriod, SetLock
<1> QED BY <1>7, <1>8, <1>9, <1>10, <1>11 DEF Next, vars

(* The strengthening under which every step is one of Ledger's.              *)
Simulating == IType /\ Reversals /\ Numbers /\ Numbered

(* No header comes into being, and only a posting changes a number.          *)
SameHeaders ==
    \A e \in EntryIds :
        /\ entry'[e].period = entry[e].period
        /\ entry'[e].number = entry[e].number
        /\ Present(e)' => Present(e)
        /\ InBooks(entry'[e]) => InBooks(entry[e]) \/ entry[e].number > 0

LEMMA EffectsSame ==
    ASSUME Simulating, [Next]_vars, ~Inserts, ~Commits
    PROVE  SameHeaders
<1> USE DEF Simulating, IType, TypeOK, SameHeaders, InBooks, Present
<1>1. \A e \in EntryIds : entry[e] \in Entry OBVIOUS
<1>2. CASE Quiet \/ Locks BY <1>2 DEF Quiet, Locks, SetLock
<1>3. CASE Relines BY <1>1, <1>3 DEF Relines, SetLines, Entry
<1>4. CASE Posts
  <2>1. PICK w \in Workers :
           /\ job[w].pc = "post" /\ job[w].own \in EntryIds
           /\ SetStatus(job[w].own, "posted")
    BY <1>4 DEF Posts
  <2>2. entry[job[w].own].number > 0 BY <2>1 DEF Hands, Numbered
  <2> QED BY <1>1, <2>1, <2>2 DEF SetStatus, Entry
<1>5. CASE Cancels BY <1>1, <1>5 DEF Cancels, SetStatus, Entry
<1>6. CASE Links
  BY <1>1, <1>6 DEF Links, ReversalAccepted, LinkReversal, Entry
<1> QED BY <1>2, <1>3, <1>4, <1>5, <1>6, StepEffects

LEMMA NumberedStep ==
    ASSUME Simulating, IType', [Next]_vars
    PROVE  Numbered'
<1> USE DEF Simulating, IType, TypeOK
<1>1. \A e \in EntryIds : entry[e] \in Entry OBVIOUS
<1>2. EntryIds \subseteq Nat /\ nextId \in Nat BY DEF EntryIds
<1>3. ASSUME NEW v \in Workers, job'[v].pc \in {"lines", "post"},
             job'[v].role # "regular",
             \A e \in EntryIds :
                e # nextId => \/ entry'[e].number = entry[e].number
                              \/ entry'[e].number > 0
      PROVE  entry'[job'[v].own].number > 0
  <2>1. Writes(v) BY StepWrites
  <2>2. CASE job[v].pc \in {"lines", "post"} /\ job[v].role # "regular"
             /\ job'[v].own = job[v].own
    <3>1. job[v].own \in EntryIds /\ Held(v, job[v].own)
      BY <2>2 DEF Hands, Held
    <3>2. job[v].own # nextId BY <1>2, <3>1 DEF Reversals, Apart
    <3> QED BY <1>3, <2>2, <3>1, <3>2 DEF Numbered
  <2>3. CASE job[v].pc = "insert" /\ job[v].role # "regular"
             /\ InsertEffect(OwnHeader(v)) /\ job'[v].own = nextId
    <3>1. OwnHeader(v).number = job[v].number BY DEF OwnHeader, Header
    <3>2. job[v].number > 0
      <4>1. job[v].number \in 1..lastNumber[OwnPeriod(v)]
        BY <2>3 DEF Numbers, HeldNumberFresh
      <4>2. OwnPeriod(v) \in Periods BY DEF OwnPeriod, Job
      <4> QED BY <4>1, <4>2
    <3> QED BY <2>3, <3>1, <3>2 DEF InsertEffect
  <2> QED BY <1>3, <2>1, <2>2, <2>3 DEF Writes
<1>4. CASE ~Inserts /\ ~Commits
  <2>1. SameHeaders BY <1>4, EffectsSame
  <2> QED BY <1>3, <2>1 DEF Numbered, SameHeaders
<1>5. CASE Inserts
  <2>1. PICK w \in Workers : InsertAccepted(OwnHeader(w))
                             /\ InsertEffect(OwnHeader(w))
    BY <1>5 DEF Inserts
  <2> DEFINE h == OwnHeader(w)
  <2>2. h.status = "draft" BY DEF OwnHeader, Header
  <2> HIDE DEF h
  <2>3. /\ nextId \in EntryIds /\ entry'[nextId] = h
        /\ \A e \in EntryIds \ {nextId} : entry'[e] = entry[e]
    BY <2>1 DEF InsertEffect, h
  <2>4. NumberFree(h.period, h.number) BY <2>1 DEF InsertAccepted, h
  <2>5. \A e \in EntryIds : InBooks(entry'[e]) => entry'[e].number > 0
    BY <2>2, <2>3 DEF Numbered, InBooks
  <2>6. ASSUME NEW e \in EntryIds, NEW f \in EntryIds, e # f,
               Present(e)', Present(f)', entry'[e].period = entry'[f].period,
               entry'[e].number > 0
        PROVE  entry'[e].number # entry'[f].number
    <3>1. CASE e = nextId BY <2>3, <2>4, <2>6, <3>1 DEF NumberFree, Present
    <3>2. CASE f = nextId BY <2>3, <2>4, <2>6, <3>2 DEF NumberFree, Present
    <3>3. CASE e # nextId /\ f # nextId
      BY <2>3, <2>6, <3>3 DEF Numbered, Present
    <3> QED BY <3>1, <3>2, <3>3
  <2> QED BY <1>3, <2>3, <2>5, <2>6 DEF Numbered
<1>6. CASE Commits
  <2>1. PICK c \in EntryIds : CommitAccepted(c) /\ CommitEffect(c)
    BY <1>6 DEF Commits
  <2> DEFINE p == entry[c].period
             n == lastNumber[p] + 1
  <2>2. p \in Periods /\ lastNumber[p] \in Nat BY <1>1 DEF Entry
  <2>3. n \in Nat /\ n > 0 BY <2>2
  <2>4. NumberFree(p, n) BY <2>1 DEF CommitAccepted
  <2>5. /\ entry'[c].number = n /\ entry'[c].period = p
        /\ \A e \in EntryIds \ {c} : entry'[e] = entry[e]
    BY <1>1, <2>1 DEF CommitEffect, Entry
  <2> HIDE DEF p, n
  <2>6. \A e \in EntryIds : InBooks(entry'[e]) => entry'[e].number > 0
    BY <2>3, <2>5 DEF Numbered, InBooks
  <2>7. ASSUME NEW e \in EntryIds, NEW f \in EntryIds, e # f,
               Present(e)', Present(f)', entry'[e].period = entry'[f].period,
               entry'[e].number > 0
        PROVE  entry'[e].number # entry'[f].number
    <3>1. CASE e = c BY <2>4, <2>5, <2>7, <3>1 DEF NumberFree, Present
    <3>2. CASE f = c BY <2>4, <2>5, <2>7, <3>2 DEF NumberFree, Present
    <3>3. CASE e # c /\ f # c BY <2>5, <2>7, <3>3 DEF Numbered, Present
    <3> QED BY <3>1, <3>2, <3>3
  <2> QED BY <1>3, <2>3, <2>5, <2>6, <2>7 DEF Numbered
<1> QED BY <1>4, <1>5, <1>6

LEMMA SimulatingAlways ==
    ASSUME "lostReply" \notin Faults
    PROVE  Spec => []Simulating
<1>1. Init => Numbered
  <2> SUFFICES ASSUME Init PROVE Numbered OBVIOUS
  <2>1. \A e \in EntryIds :
           /\ entry[e].status = IF e <= Seeds THEN "posted" ELSE "absent"
           /\ e <= Seeds => entry[e].number = e
           /\ ~(e <= Seeds) => entry[e].number = 0
    BY DEF Init, NoEntry, Header
  <2>2. \A e \in EntryIds : e \in Nat /\ e > 0
    BY JournalAssumption DEF EntryIds
  <2>3. \A w \in Workers : job[w].pc = "idle" BY DEF Init, Idle
  <2> QED BY <2>1, <2>2, <2>3 DEF Numbered, InBooks, Present
<1>2. IType /\ Reversals /\ Numbers /\ Numbered /\ IType' /\ [Next]_vars
         => Numbered'
  BY NumberedStep DEF Simulating
<1>3. IType /\ Reversals /\ Numbers /\ Numbered => Simulating
  BY DEF Simulating
<1> QED BY <1>1, <1>2, <1>3, TypeAlways, ReversalsAlways, NumbersAlways, PTL
    DEF Spec

-----------------------------------------------------------------------------
(* Every step of the journal is a step of Ledger, or shows nothing in it.    *)

(* The row of header e in the books does not change.                         *)
SameRow(e) ==
    /\ StateOf(e)' = StateOf(e)
    /\ PlaceOf(e)' = PlaceOf(e)
    /\ ReverserOf(e)' = ReverserOf(e)

LEMMA SameBooks ==
    ASSUME locked' = locked, \A e \in EntryIds : SameRow(e)
    PROVE  UNCHANGED Books!ledgerVars
BY DEF SameRow, Books!ledgerVars

(* A header that changes in nothing the books read.                          *)
LEMMA SameHeader ==
    ASSUME NEW e \in EntryIds,
           \/ /\ entry'[e].status = entry[e].status
              /\ InBooks(entry[e]) =>
                    /\ entry'[e].period = entry[e].period
                    /\ entry'[e].number = entry[e].number
                    /\ entry'[e].reversedBy = entry[e].reversedBy
           \/ entry[e].status = "absent" /\ entry'[e].status = "draft"
    PROVE  SameRow(e)
BY DEF SameRow, StateOf, PlaceOf, ReverserOf, InBooks

(* A draft is posted: it enters the books at a number of its own.            *)
LEMMA BookedStep ==
    ASSUME Simulating, IType', Numbered', locked' = locked,
           NEW e \in EntryIds, entry[e].status = "draft",
           entry'[e].status = "posted", ~locked[entry'[e].period],
           \A f \in EntryIds \ {e} : entry'[f] = entry[f]
    PROVE  Books!Book(e)
<1> USE DEF Simulating, IType, TypeOK
<1>1. entry'[e] \in Entry OBVIOUS
<1>2. \A f \in EntryIds \ {e} : SameRow(f) BY SameHeader
<1>3. StateOf(e) = "open" /\ StateOf(e)' = "booked" BY DEF StateOf
<1>4. PlaceOf(e)' = <<entry'[e].period, entry'[e].number>> BY DEF PlaceOf
<1>5. ReverserOf(e)' = ReverserOf(e) BY DEF ReverserOf
<1>6. PlaceOf(e)' \in Periods \X (Nat \ {0})
  BY <1>1, <1>4 DEF Entry, Numbered, InBooks
<1>7. ASSUME NEW u \in EntryIds PROVE PlaceOf(u) # PlaceOf(e)'
  <2>1. CASE InBooks(entry[u])
    <3>1. u # e /\ entry'[u] = entry[u] BY <2>1 DEF InBooks
    <3>2. PlaceOf(u) = <<entry'[u].period, entry'[u].number>>
      BY <2>1, <3>1 DEF PlaceOf, InBooks
    <3>3. ~(entry'[u].period = entry'[e].period
              /\ entry'[u].number = entry'[e].number)
      BY <2>1, <3>1 DEF Numbered, InBooks, Present
    <3> QED BY <1>4, <3>2, <3>3
  <2>2. CASE ~InBooks(entry[u])
    BY <1>4, <2>2 DEF PlaceOf, InBooks
  <2> QED BY <2>1, <2>2
<1>8. [f \in EntryIds |-> StateOf(f)]'
         = [[f \in EntryIds |-> StateOf(f)] EXCEPT ![e] = "booked"]
  BY <1>2, <1>3 DEF SameRow
<1>9. [f \in EntryIds |-> PlaceOf(f)]'
         = [[f \in EntryIds |-> PlaceOf(f)] EXCEPT ![e] = PlaceOf(e)']
  BY <1>2 DEF SameRow
<1>10. [f \in EntryIds |-> ReverserOf(f)]' = [f \in EntryIds |-> ReverserOf(f)]
  BY <1>2, <1>5 DEF SameRow
<1>11. locked[(PlaceOf(e)')[1]] = locked[entry'[e].period] BY <1>4
<1> QED BY <1>3, <1>6, <1>7, <1>8, <1>9, <1>10, <1>11 DEF Books!Book

(* The compare-and-set: a voucher in the books is reversed by another.       *)
LEMMA ReversedStep ==
    ASSUME IType, NEW o \in EntryIds, NEW s \in EntryIds,
           Standing(entry[s], o), ReversalAccepted(o, s), LinkReversal(o, s)
    PROVE  Books!Reverse(o, s)
<1> USE DEF IType, TypeOK
<1>1. locked' = locked /\ entry[o].status = "posted" /\ ~locked[entry[o].period]
  BY DEF ReversalAccepted, LinkReversal
<1>2. /\ entry'[o].status = "reversed" /\ entry'[o].reversedBy = s
      /\ entry'[o].period = entry[o].period
      /\ entry'[o].number = entry[o].number
      /\ \A f \in EntryIds \ {o} : entry'[f] = entry[f]
  BY DEF LinkReversal, Entry
<1>3. \A f \in EntryIds \ {o} : SameRow(f) BY <1>2, SameHeader
<1>4. /\ StateOf(o) = "booked" /\ StateOf(o)' = "reversed"
      /\ PlaceOf(o)' = PlaceOf(o) /\ ReverserOf(o)' = s
      /\ PlaceOf(o) = <<entry[o].period, entry[o].number>>
  BY <1>1, <1>2 DEF StateOf, PlaceOf, ReverserOf
<1>5. StateOf(s) \in {"booked", "reversed"}
  BY DEF StateOf, Standing, Drafted, ReversalAccepted, Present
<1>6. [f \in EntryIds |-> StateOf(f)]'
         = [[f \in EntryIds |-> StateOf(f)] EXCEPT ![o] = "reversed"]
  BY <1>3, <1>4 DEF SameRow
<1>7. [f \in EntryIds |-> PlaceOf(f)]' = [f \in EntryIds |-> PlaceOf(f)]
  BY <1>3, <1>4 DEF SameRow
<1>8. [f \in EntryIds |-> ReverserOf(f)]'
         = [[f \in EntryIds |-> ReverserOf(f)] EXCEPT ![o] = s]
  BY <1>3, <1>4 DEF SameRow
<1>9. ~locked[PlaceOf(o)[1]] BY <1>1, <1>4
<1> QED BY <1>1, <1>4, <1>5, <1>6, <1>7, <1>8, <1>9
    DEF Books!Reverse, Books!InLedger

(* A header nothing was reversed by is cancelled.                            *)
LEMMA WithdrawnStep ==
    ASSUME Simulating, NEW e \in EntryIds,
           entry[e].source = "regular" \/ \E w \in Workers : Held(w, e),
           StatusAccepted(e, "cancelled"), SetStatus(e, "cancelled")
    PROVE  Books!Withdraw(e) \/ UNCHANGED Books!ledgerVars
<1> USE DEF Simulating, IType, TypeOK
<1>1. \A f \in EntryIds : entry[f] \in Entry OBVIOUS
<1>2. locked' = locked /\ \A f \in EntryIds \ {e} : entry'[f] = entry[f]
  BY DEF SetStatus
<1>3. CASE entry[e].status \notin {"draft", "posted"}
  <2>1. entry'[e].status = entry[e].status
        /\ entry'[e].reversedBy = entry[e].reversedBy
        /\ entry'[e].period = entry[e].period
        /\ entry'[e].number = entry[e].number
    BY <1>1, <1>3 DEF StatusAccepted, StatusSteps, SetStatus, Present, Entry
  <2>2. \A f \in EntryIds : SameRow(f) BY <1>2, <2>1, SameHeader
  <2> QED BY <1>2, <2>2, SameBooks
<1>4. CASE entry[e].status \in {"draft", "posted"}
  <2>1. entry'[e].status = "cancelled" /\ ~locked[entry[e].period]
    BY <1>1, <1>4 DEF StatusAccepted, SetStatus, Present, Entry
  <2>2. \A f \in EntryIds \ {e} : SameRow(f) BY <1>2, SameHeader
  <2>3. /\ StateOf(e) \in {"open", "booked"} /\ StateOf(e)' = "withdrawn"
        /\ PlaceOf(e)' = <<>> /\ ReverserOf(e)' = ReverserOf(e)
        /\ StateOf(e) = "booked"
              => PlaceOf(e) = <<entry[e].period, entry[e].number>>
    BY <1>4, <2>1 DEF StateOf, PlaceOf, ReverserOf
  <2>4. ASSUME NEW u \in EntryIds PROVE ReverserOf(u) # e
    <3>1. e # None BY DEF EntryIds, None
    <3>2. CASE entry[u].status # "reversed" BY <3>1, <3>2 DEF ReverserOf
    <3>3. CASE entry[u].status = "reversed"
      <4>1. entry[entry[u].reversedBy].reverses = u
        BY <3>3 DEF Reversals, ReversalStands
      <4>2. u # None BY DEF EntryIds, None
      <4>3. entry[entry[u].reversedBy].source # "regular"
        BY <3>3, <4>1, <4>2 DEF Reversals, RegularAlone, ReversalStands
      <4>4. entry[u].reversedBy # e
        BY <3>3, <4>3 DEF Reversals, Loose
      <4> QED BY <3>3, <4>4 DEF ReverserOf
    <3> QED BY <3>2, <3>3
  <2>5. [f \in EntryIds |-> StateOf(f)]'
           = [[f \in EntryIds |-> StateOf(f)] EXCEPT ![e] = "withdrawn"]
    BY <2>2, <2>3 DEF SameRow
  <2>6. [f \in EntryIds |-> PlaceOf(f)]'
           = [[f \in EntryIds |-> PlaceOf(f)] EXCEPT ![e] = <<>>]
    BY <2>2, <2>3 DEF SameRow
  <2>7. [f \in EntryIds |-> ReverserOf(f)]' = [f \in EntryIds |-> ReverserOf(f)]
    BY <2>2, <2>3 DEF SameRow
  <2>8. StateOf(e) = "booked" => ~locked[PlaceOf(e)[1]] BY <2>1, <2>3
  <2> QED BY <1>2, <2>3, <2>4, <2>5, <2>6, <2>7, <2>8
      DEF Books!Withdraw, Books!NoPlace
<1> QED BY <1>3, <1>4

LEMMA SimulationStep ==
    ASSUME Simulating, IType', [Next]_vars
    PROVE  [Books!LedgerNext]_(Books!ledgerVars)
<1> USE DEF Simulating, IType, TypeOK
<1>1. \A e \in EntryIds : entry[e] \in Entry OBVIOUS
<1>2. Numbered' BY NumberedStep
<1>3. ASSUME locked' = locked, NEW e \in EntryIds,
             \A f \in EntryIds \ {e} : entry'[f] = entry[f], SameRow(e)
      PROVE  UNCHANGED Books!ledgerVars
  <2>1. \A f \in EntryIds \ {e} : SameRow(f) BY <1>3, SameHeader
  <2> QED BY <1>3, <2>1, SameBooks
<1>4. CASE Quiet
  <2>1. \A e \in EntryIds : SameRow(e) BY <1>4, SameHeader DEF Quiet
  <2> QED BY <1>4, <2>1, SameBooks DEF Quiet
<1>5. CASE Inserts
  <2>1. PICK w \in Workers : InsertEffect(OwnHeader(w)) BY <1>5 DEF Inserts
  <2>2. OwnHeader(w).status = "draft" BY DEF OwnHeader, Header
  <2>3. entry[nextId].status = "absent"
    <3>1. nextId \in EntryIds /\ nextId \in Nat BY <2>1 DEF InsertEffect
    <3> QED BY <3>1 DEF Reversals, Apart, Present
  <2>4. SameRow(nextId) BY <2>1, <2>2, <2>3, SameHeader DEF InsertEffect
  <2> QED BY <1>3, <2>1, <2>4 DEF InsertEffect
<1>6. CASE Relines
  <2>1. PICK e \in EntryIds, b \in BOOLEAN : SetLines(e, b) BY <1>6 DEF Relines
  <2>2. SameRow(e) BY <1>1, <2>1, SameHeader DEF SetLines, Entry
  <2> QED BY <1>3, <2>1, <2>2 DEF SetLines
<1>7. CASE Commits
  <2>1. PICK e \in EntryIds : CommitAccepted(e) /\ CommitEffect(e)
    BY <1>7 DEF Commits
  <2>2. /\ locked' = locked /\ entry[e].status = "draft"
        /\ entry'[e].status = "posted" /\ ~locked[entry'[e].period]
        /\ \A f \in EntryIds \ {e} : entry'[f] = entry[f]
    BY <1>1, <2>1 DEF CommitAccepted, CommitEffect, Entry
  <2>3. Books!Book(e) BY <1>2, <2>2, BookedStep
  <2> QED BY <2>3 DEF Books!LedgerNext
<1>8. CASE Posts
  <2>1. PICK e \in EntryIds, w \in Workers :
           PostAccepted(w, e) /\ SetStatus(e, "posted")
    BY <1>8 DEF Posts
  <2>2. CASE entry[e].status = "draft"
    <3>1. /\ locked' = locked
          /\ entry'[e].status = "posted" /\ ~locked[entry'[e].period]
          /\ \A f \in EntryIds \ {e} : entry'[f] = entry[f]
      BY <1>1, <2>1, <2>2
      DEF PostAccepted, StatusAccepted, SetStatus, Present, Entry
    <3>2. Books!Book(e) BY <1>2, <2>2, <3>1, BookedStep
    <3> QED BY <3>2 DEF Books!LedgerNext
  <2>3. CASE entry[e].status # "draft"
    <3>1. entry'[e] = entry[e]
      BY <1>1, <2>1, <2>3
      DEF PostAccepted, StatusAccepted, StatusSteps, SetStatus, Present, Entry
    <3>2. SameRow(e) BY <3>1, SameHeader
    <3> QED BY <1>3, <2>1, <3>2 DEF SetStatus
  <2> QED BY <2>2, <2>3
<1>9. CASE Cancels
  <2>1. PICK e \in EntryIds : Books!Withdraw(e) \/ UNCHANGED Books!ledgerVars
    BY <1>9, WithdrawnStep DEF Cancels
  <2> QED BY <2>1 DEF Books!LedgerNext
<1>10. CASE Links
  <2>1. PICK w \in Workers, o \in EntryIds \cup {None}, s \in EntryIds :
           /\ job[w].pc = "mark" /\ o = job[w].orig /\ s = job[w].storno
           /\ ReversalAccepted(o, s) /\ LinkReversal(o, s)
    BY <1>10 DEF Links, Job
  <2>2. CASE o \in EntryIds
    <3>1. Standing(entry[s], o) BY <2>1 DEF Reversals, Owing
    <3>2. Books!Reverse(o, s) BY <2>1, <2>2, <3>1, ReversedStep
    <3> QED BY <2>2, <3>2 DEF Books!LedgerNext
  <2>3. CASE o \notin EntryIds
    <3>1. entry' = entry /\ locked' = locked BY <2>1, <2>3 DEF LinkReversal
    <3>2. \A e \in EntryIds : SameRow(e) BY <3>1, SameHeader
    <3> QED BY <3>1, <3>2, SameBooks
  <2> QED BY <2>2, <2>3
<1>11. CASE Locks
  <2>1. PICK p \in Periods, b \in BOOLEAN : SetLock(p, b) BY <1>11 DEF Locks
  <2>2. locked' = [locked EXCEPT ![p] = ~locked[p]] BY <2>1 DEF SetLock
  <2>3. entry' = entry BY <2>1 DEF SetLock
  <2>4. \A e \in EntryIds : SameRow(e) BY <2>3, SameHeader
  <2>5. Books!Freeze(p) BY <2>2, <2>4 DEF Books!Freeze, SameRow
  <2> QED BY <2>5 DEF Books!LedgerNext
<1> QED BY <1>4, <1>5, <1>6, <1>7, <1>8, <1>9, <1>10, <1>11, StepEffects

(* The journal keeps the promise of Ledger: every request of the engine,     *)
(* with its drafts, compensation and races, and whatever fails or crashes,   *)
(* shows in the books as a booking, a reversal, a withdrawal, a freeze or    *)
(* nothing, as long as no reply of an applied statement is lost.             *)
THEOREM JournalKeepsTheBooks ==
    ASSUME "lostReply" \notin Faults
    PROVE  Spec => KeepsTheBooks
<1>1. Init => Books!LedgerInit
  <2> SUFFICES ASSUME Init PROVE Books!LedgerInit OBVIOUS
  <2>1. \A e \in EntryIds : e \in Nat \ {0}
    BY JournalAssumption DEF EntryIds
  <2>2. \A e \in EntryIds :
           /\ entry[e].status = IF e <= Seeds THEN "posted" ELSE "absent"
           /\ e <= Seeds => entry[e].number = e /\ entry[e].period = FirstPeriod
    BY DEF Init, NoEntry, Header
  <2>3. \A e \in EntryIds :
           /\ StateOf(e) = IF e <= Seeds THEN "booked" ELSE "open"
           /\ PlaceOf(e) = IF e <= Seeds THEN <<FirstPeriod, e>> ELSE <<>>
           /\ ReverserOf(e) = None
    BY <2>2 DEF StateOf, PlaceOf, ReverserOf
  <2>4. \A e \in EntryIds :
           /\ StateOf(e) \in {"open", "booked"}
           /\ PlaceOf(e) \in {<<>>} \cup (Periods \X (Nat \ {0}))
           /\ StateOf(e) = "open" <=> PlaceOf(e) = <<>>
    BY <2>1, <2>3, JournalAssumption
  <2>5. \A u, v \in EntryIds :
           u # v /\ StateOf(u) = "booked" => PlaceOf(u) # PlaceOf(v)
    BY <2>3
  <2>6. locked = [p \in Periods |-> FALSE] BY DEF Init
  <2> QED BY <2>3, <2>4, <2>5, <2>6
      DEF Books!LedgerInit, Books!NoPlace, Books!Nobody, None
<1>2. Simulating /\ IType' /\ [Next]_vars => [Books!LedgerNext]_(Books!ledgerVars)
  BY SimulationStep
<1> QED BY <1>1, <1>2, SimulatingAlways, TypeAlways, PTL
    DEF Spec, KeepsTheBooks, Books!LedgerSpec
=============================================================================
