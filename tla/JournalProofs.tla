----------------------------- MODULE JournalProofs -----------------------------
(* Theorems about Journal, for every number of processes, periods, vouchers  *)
(* and requests.                                                             *)
EXTENDS Journal, TLAPS

(* What a request that has come this far has in hand.                        *)
Hands ==
    \A w \in Workers :
        /\ job[w].pc \in {"lines", "post", "commit", "cancelDraft", "cleanup",
                          "mark"} => job[w].own \in EntryIds
        /\ job[w].role = "correction" => job[w].storno \in EntryIds
        /\ job[w].role = "storno" /\ job[w].pc \in {"lines", "post", "mark"}
              => job[w].storno = job[w].own
        /\ job[w].pc \in {"post", "mark"} => job[w].role # "regular"
        /\ job[w].pc \in {"undo", "undoLines"} => job[w].undo # <<>>

IType == TypeOK /\ Hands

(* Idle requests, headers and the empty row have their types.                *)
LEMMA RecordTypes ==
    /\ Idle \in Job
    /\ NoEntry \in Entry
    /\ \A p \in Periods, n \in Nat, src \in Sources, s \in Statuses :
          Header(p, n, src, s) \in Entry
<1>1. FirstPeriod \in Periods BY JournalAssumption
<1>2. <<>> \in Seq(EntryIds) OBVIOUS
<1> QED BY <1>1, <1>2 DEF Idle, NoEntry, Header, Job, Entry, Steps, OpKinds, Sources,
              Statuses

LEMMA TypeInit == Init => IType
<1> SUFFICES ASSUME Init PROVE IType OBVIOUS
<1> USE DEF Init
<1>1. EntryIds \subseteq Nat /\ Seeds \in Nat /\ FirstPeriod \in Periods
  BY JournalAssumption DEF EntryIds
<1>2. entry \in [EntryIds -> Entry]
  <2>1. ASSUME NEW e \in EntryIds
        PROVE  [Header(FirstPeriod, e, "regular", "posted")
                  EXCEPT !.lines = TRUE] \in Entry
    <3>1. Header(FirstPeriod, e, "regular", "posted") \in Entry
      BY <1>1, RecordTypes DEF Sources, Statuses
    <3> QED BY <3>1 DEF Entry
  <2> QED BY <2>1, RecordTypes
<1>3. nextId \in Nat \ {0} BY <1>1
<1>4. lastNumber \in [Periods -> Nat] BY <1>1
<1>5. job \in [Workers -> Job] BY RecordTypes
<1>6. Hands BY DEF Hands, Idle
<1> QED BY <1>2, <1>3, <1>4, <1>5, <1>6 DEF IType, TypeOK

(* The ways a request gives up: it is idle again or has headers to undo.     *)
LEMMA AbandonTypes ==
    ASSUME IType, NEW w \in Workers, NEW es \in Seq(EntryIds), Abandon(w, es)
    PROVE  job' \in [Workers -> Job] /\ Hands'
<1> USE DEF IType, TypeOK
<1>1. CASE es = <<>>
  <2>1. job' = [job EXCEPT ![w] = Idle] BY <1>1 DEF Abandon, Finish
  <2> QED BY <2>1, RecordTypes DEF Hands, Idle
<1>2. CASE es # <<>>
  <2>1. job' = [job EXCEPT ![w].pc = "undo", ![w].undo = es]
    BY <1>2 DEF Abandon
  <2>2. job' = [job EXCEPT ![w] = [job[w] EXCEPT !.pc = "undo", !.undo = es]]
    BY <2>1
  <2>3. job[w] \in Job OBVIOUS
  <2>4. [job[w] EXCEPT !.pc = "undo", !.undo = es] \in Job
    BY <2>3 DEF Job, Steps
  <2>5. job' \in [Workers -> Job] BY <2>2, <2>4
  <2> QED BY <2>2, <2>5, <1>2 DEF Hands, Job
<1> QED BY <1>1, <1>2

(* A request that goes to a later step, with what that step needs in hand.   *)
LEMMA GotoTypes ==
    ASSUME IType, NEW w \in Workers, NEW step \in Steps, Goto(w, step),
           step \in {"lines", "post", "commit", "cancelDraft", "cleanup", "mark"}
              => job[w].own \in EntryIds,
           job[w].role = "storno" /\ step \in {"lines", "post", "mark"}
              => job[w].storno = job[w].own,
           step \in {"post", "mark"} => job[w].role # "regular",
           step \in {"undo", "undoLines"} => job[w].undo # <<>>
    PROVE  job' \in [Workers -> Job] /\ Hands'
<1> USE DEF IType, TypeOK
<1>1. job' = [job EXCEPT ![w] = [job[w] EXCEPT !.pc = step]] BY DEF Goto
<1>2. job[w] \in Job OBVIOUS
<1>3. [job[w] EXCEPT !.pc = step] \in Job BY <1>2 DEF Job
<1>4. job' \in [Workers -> Job] BY <1>1, <1>3
<1> QED BY <1>1, <1>2, <1>4 DEF Hands, Job

LEMMA FinishTypes ==
    ASSUME IType, NEW w \in Workers, Finish(w)
    PROVE  job' \in [Workers -> Job] /\ Hands'
BY RecordTypes DEF IType, TypeOK, Finish, Hands, Idle

LEMMA CancelTypes ==
    ASSUME IType, NEW w \in Workers
    PROVE  /\ job[w].own \in EntryIds /\ CancelOwn(w)
                => job' \in [Workers -> Job] /\ Hands'
           /\ CancelEarlier(w) => job' \in [Workers -> Job] /\ Hands'
<1>1. job[w] \in Job BY DEF IType, TypeOK
<1>2. <<>> \in Seq(EntryIds) OBVIOUS
<1>3. job[w].role = "correction" => job[w].storno \in EntryIds
  BY DEF IType, Hands
<1>4. ASSUME job[w].own \in EntryIds, CancelOwn(w)
      PROVE  job' \in [Workers -> Job] /\ Hands'
  <2>1. CASE job[w].role = "correction"
    <3>1. <<job[w].own, job[w].storno>> \in Seq(EntryIds) BY <1>3, <1>4, <2>1
    <3>2. Abandon(w, <<job[w].own, job[w].storno>>)
      BY <1>4, <2>1 DEF CancelOwn
    <3> QED BY <3>1, <3>2, AbandonTypes
  <2>2. CASE job[w].role # "correction"
    <3>1. <<job[w].own>> \in Seq(EntryIds) BY <1>4
    <3>2. Abandon(w, <<job[w].own>>) BY <1>4, <2>2 DEF CancelOwn
    <3> QED BY <3>1, <3>2, AbandonTypes
  <2> QED BY <2>1, <2>2
<1>5. ASSUME CancelEarlier(w) PROVE job' \in [Workers -> Job] /\ Hands'
  <2>1. CASE job[w].role = "correction"
    <3>1. <<job[w].storno>> \in Seq(EntryIds) BY <1>3, <2>1
    <3>2. Abandon(w, <<job[w].storno>>) BY <1>5, <2>1 DEF CancelEarlier
    <3> QED BY <3>1, <3>2, AbandonTypes
  <2>2. CASE job[w].role # "correction"
    <3>1. Abandon(w, <<>>) BY <1>5, <2>2 DEF CancelEarlier
    <3> QED BY <3>1, <1>2, AbandonTypes
  <2> QED BY <2>1, <2>2
<1> QED BY <1>4, <1>5

(* The four variables of the database have their types.                      *)
DbTypes ==
    /\ entry \in [EntryIds -> Entry]
    /\ nextId \in Nat \ {0}
    /\ lastNumber \in [Periods -> Nat]
    /\ locked \in [Periods -> BOOLEAN]

(* What a statement writes has the types of the columns.                     *)
LEMMA EffectTypes ==
    ASSUME DbTypes
    PROVE  /\ UNCHANGED db => DbTypes'
           /\ \A e \in EntryIds, s \in Statuses : SetStatus(e, s) => DbTypes'
           /\ \A e \in EntryIds, b \in BOOLEAN : SetLines(e, b) => DbTypes'
           /\ \A e \in EntryIds :
                 entry[e].period \in Periods /\ CommitEffect(e) => DbTypes'
           /\ \A h \in Entry : InsertEffect(h) => DbTypes'
           /\ \A p \in Periods : ConsumeNumber(p) => DbTypes'
           /\ \A o \in EntryIds \cup {None}, s \in EntryIds :
                 LinkReversal(o, s) => DbTypes'
<1> USE DEF DbTypes
<1>1. UNCHANGED db => DbTypes' BY DEF db
<1>2. ASSUME NEW e \in EntryIds, NEW s \in Statuses, SetStatus(e, s)
      PROVE  DbTypes'
  <2>1. [entry[e] EXCEPT !.status = s] \in Entry BY DEF Entry
  <2> QED BY <1>2, <2>1 DEF SetStatus
<1>3. ASSUME NEW e \in EntryIds, NEW b \in BOOLEAN, SetLines(e, b)
      PROVE  DbTypes'
  <2>1. [entry[e] EXCEPT !.lines = b] \in Entry BY DEF Entry
  <2> QED BY <1>3, <2>1 DEF SetLines
<1>4. ASSUME NEW e \in EntryIds, entry[e].period \in Periods, CommitEffect(e)
      PROVE  DbTypes'
  <2> DEFINE n == lastNumber[entry[e].period] + 1
  <2>1. n \in Nat BY <1>4
  <2>2. [[entry[e] EXCEPT !.status = "posted"] EXCEPT !.number = n] \in Entry
    BY <2>1 DEF Entry, Statuses
  <2>3. entry' = [entry EXCEPT ![e] =
           [[entry[e] EXCEPT !.status = "posted"] EXCEPT !.number = n]]
    BY <1>4 DEF CommitEffect
  <2>4. lastNumber' = [lastNumber EXCEPT ![entry[e].period] = n]
    BY <1>4 DEF CommitEffect
  <2>5. UNCHANGED <<nextId, locked>> BY <1>4 DEF CommitEffect
  <2> QED BY <2>1, <2>2, <2>3, <2>4, <2>5
<1>5. ASSUME NEW h \in Entry, InsertEffect(h) PROVE DbTypes'
  BY <1>5 DEF InsertEffect
<1>6. ASSUME NEW p \in Periods, ConsumeNumber(p) PROVE DbTypes'
  BY <1>6 DEF ConsumeNumber
<1>7. ASSUME NEW o \in EntryIds \cup {None}, NEW s \in EntryIds,
             LinkReversal(o, s)
      PROVE  DbTypes'
  <2>1. ASSUME o \in EntryIds
        PROVE  [[entry[o] EXCEPT !.status = "reversed"]
                  EXCEPT !.reversedBy = s] \in Entry
    BY <2>1 DEF Entry, Statuses
  <2>2. entry' = [entry EXCEPT ![o] =
           [[entry[o] EXCEPT !.status = "reversed"] EXCEPT !.reversedBy = s]]
    BY <1>7 DEF LinkReversal
  <2>3. entry' \in [EntryIds -> Entry] BY <2>1, <2>2
  <2> QED BY <1>7, <2>3 DEF LinkReversal
<1> QED BY <1>1, <1>2, <1>3, <1>4, <1>5, <1>6, <1>7

(* The statements of a request keep the types.                               *)
LEMMA TypeAdvance ==
    ASSUME IType, NEW w \in Workers, Advance(w)
    PROVE  IType'
<1> DEFINE JobTypes == job \in [Workers -> Job] /\ Hands
<1>1. DbTypes /\ job[w] \in Job /\ started \in Nat
  BY DEF IType, TypeOK, DbTypes
<1>2. SUFFICES DbTypes' /\ JobTypes' /\ started' \in Nat
  BY DEF IType, TypeOK, DbTypes
<1>3. started' \in Nat
  BY <1>1 DEF Advance, At, AllocateNumber, InsertHeader, InsertLines,
     CancelDraft, Commit, CancelIfDraft, Post, MarkReversed, UndoHeader,
     UndoLines
<1>4. OwnPeriod(w) \in Periods BY <1>1 DEF OwnPeriod, Job
<1>5. OwnHeader(w) \in Entry
  <2>1. Header(OwnPeriod(w), job[w].number, job[w].role, "draft") \in Entry
    BY <1>1, <1>4, RecordTypes DEF Job, Statuses
  <2> DEFINE r == IF job[w].role = "storno" THEN job[w].orig ELSE None
             c == IF job[w].role = "correction" THEN job[w].orig ELSE None
             h == Header(OwnPeriod(w), job[w].number, job[w].role, "draft")
  <2>2. r \in EntryIds \cup {None} /\ c \in EntryIds \cup {None}
    BY <1>1 DEF Job
  <2>3. [[h EXCEPT !.reverses = r] EXCEPT !.corrects = c] \in Entry
    BY <2>1, <2>2 DEF Entry
  <2> QED BY <2>3 DEF OwnHeader
<1>6. CASE AllocateNumber(w)
  <2>1. DbTypes'
    BY <1>1, <1>4, <1>6, EffectTypes DEF AllocateNumber, Statement
  <2> DEFINE n == lastNumber[OwnPeriod(w)] + 1
  <2>2. CASE job' = [job EXCEPT ![w].pc = "insert", ![w].number = n]
    <3> DEFINE j == [[job[w] EXCEPT !.pc = "insert"] EXCEPT !.number = n]
    <3>1. n \in Nat BY <1>1, <1>4 DEF DbTypes
    <3>2. j \in Job BY <1>1, <3>1 DEF Job, Steps
    <3>3. job' = [job EXCEPT ![w] = j] BY <2>2
    <3>4. job' \in [Workers -> Job] BY <3>2, <3>3 DEF IType, TypeOK
    <3>5. j.pc = "insert" /\ j.role = job[w].role /\ j.storno = job[w].storno
      BY <1>1 DEF Job
    <3> HIDE DEF j
    <3>6. Hands' BY <1>1, <3>3, <3>4, <3>5 DEF IType, TypeOK, Hands
    <3> QED BY <2>1, <3>4, <3>6, <1>3
  <2>3. CASE CancelEarlier(w) BY <2>1, <2>3, <1>3, CancelTypes
  <2> QED BY <1>6, <2>1, <2>2, <2>3, <1>3 DEF AllocateNumber, Statement
<1>7. CASE InsertHeader(w)
  <2>1. DbTypes'
    BY <1>1, <1>5, <1>7, EffectTypes DEF InsertHeader, Statement
  <2>2. ASSUME Remember(w), InsertEffect(OwnHeader(w)) PROVE JobTypes'
    <3> DEFINE s == IF job[w].role = "storno" THEN nextId ELSE job[w].storno
               j == [[[job[w] EXCEPT !.pc = "lines"] EXCEPT !.own = nextId]
                       EXCEPT !.storno = s]
    <3>1. nextId \in EntryIds BY <2>2 DEF InsertEffect
    <3>2. s \in EntryIds \cup {None} BY <1>1, <3>1 DEF Job
    <3>3. j \in Job BY <1>1, <3>1, <3>2 DEF Job, Steps
    <3>4. job' = [job EXCEPT ![w] = j] BY <2>2 DEF Remember
    <3>5. job' \in [Workers -> Job] BY <3>3, <3>4 DEF IType, TypeOK
    <3>6. /\ j.pc = "lines" /\ j.own = nextId /\ j.role = job[w].role
          /\ j.storno = s
      BY <1>1 DEF Job
    <3> HIDE DEF j
    <3> QED BY <1>1, <3>1, <3>4, <3>5, <3>6 DEF IType, TypeOK, Hands
  <2>3. CASE CancelEarlier(w) BY <2>1, <2>3, <1>3, CancelTypes
  <2> QED BY <1>7, <2>1, <2>2, <2>3, <1>3 DEF InsertHeader, Statement
<1>8. CASE InsertLines(w)
  <2>1. job[w].pc = "lines" /\ job[w].own \in EntryIds
        /\ (job[w].role = "storno" => job[w].storno = job[w].own)
    BY <1>8 DEF InsertLines, At, IType, Hands
  <2>2. DbTypes' BY <1>1, <1>8, <2>1, EffectTypes DEF InsertLines, Statement
  <2>3. \/ Finish(w) \/ CancelOwn(w)
        \/ job[w].role = "regular" /\ Goto(w, "commit")
        \/ job[w].role = "regular" /\ Goto(w, "cancelDraft")
        \/ job[w].role # "regular" /\ Goto(w, "post")
    BY <1>8 DEF InsertLines, Statement
  <2>4. {"commit", "cancelDraft", "post"} \subseteq Steps BY DEF Steps
  <2>5. JobTypes'
    BY <2>1, <2>3, <2>4, FinishTypes, CancelTypes, GotoTypes
  <2> QED BY <2>2, <2>5, <1>3
<1>9. CASE CancelDraft(w)
  <2>1. job[w].own \in EntryIds BY <1>9 DEF CancelDraft, At, IType, Hands
  <2>2. DbTypes'
    BY <1>1, <1>9, <2>1, EffectTypes DEF CancelDraft, Statement, Statuses
  <2> QED BY <1>9, <2>2, <1>3, FinishTypes DEF CancelDraft, Statement
<1>10. CASE Commit(w)
  <2>1. job[w].own \in EntryIds BY <1>10 DEF Commit, At, IType, Hands
  <2>2. entry[job[w].own].period \in Periods
    BY <1>1, <2>1 DEF DbTypes, Entry
  <2>3. DbTypes' BY <1>1, <1>10, <2>1, <2>2, EffectTypes DEF Commit, Statement
  <2>4. "cleanup" \in Steps BY DEF Steps
  <2>5. JobTypes'
    BY <1>10, <2>1, <2>4, FinishTypes, GotoTypes DEF Commit, Statement
  <2> QED BY <2>3, <2>5, <1>3
<1>11. CASE CancelIfDraft(w)
  <2>1. job[w].own \in EntryIds BY <1>11 DEF CancelIfDraft, At, IType, Hands
  <2>2. DbTypes'
    BY <1>1, <1>11, <2>1, EffectTypes DEF CancelIfDraft, Statement, Statuses
  <2> QED BY <1>11, <2>2, <1>3, FinishTypes DEF CancelIfDraft, Statement
<1>12. CASE Post(w)
  <2>1. job[w].pc = "post" /\ job[w].own \in EntryIds
        /\ job[w].role # "regular"
        /\ (job[w].role = "storno" => job[w].storno = job[w].own)
    BY <1>12 DEF Post, At, IType, Hands
  <2>2. DbTypes'
    BY <1>1, <1>12, <2>1, EffectTypes DEF Post, Statement, Statuses
  <2>3. ASSUME GoOn(w), job[w].role # "regular" PROVE JobTypes'
    <3>1. CASE job[w].op = "correct" /\ job[w].role = "storno"
      <4> DEFINE j == [[job[w] EXCEPT !.pc = "number"]
                         EXCEPT !.role = "correction"]
      <4>1. j \in Job BY <1>1 DEF Job, Steps, Sources
      <4>2. job' = [job EXCEPT ![w] = j] BY <2>3, <3>1 DEF GoOn
      <4>3. job' \in [Workers -> Job] BY <4>1, <4>2 DEF IType, TypeOK
      <4>4. j.pc = "number" /\ j.storno = job[w].storno BY <1>1 DEF Job
      <4> HIDE DEF j
      <4> QED BY <1>1, <2>1, <3>1, <4>2, <4>3, <4>4 DEF IType, TypeOK, Hands
    <3>2. CASE ~(job[w].op = "correct" /\ job[w].role = "storno")
      <4>1. Goto(w, "mark") BY <2>3, <3>2 DEF GoOn
      <4>2. "mark" \in Steps BY DEF Steps
      <4> QED BY <2>1, <2>3, <4>1, <4>2, GotoTypes
    <3> QED BY <3>1, <3>2
  <2> QED BY <1>12, <2>1, <2>2, <2>3, <1>3, CancelTypes DEF Post, Statement
<1>13. CASE MarkReversed(w)
  <2>1. job[w].pc = "mark" /\ job[w].own \in EntryIds
        /\ job[w].storno \in EntryIds
    BY <1>1, <1>13 DEF MarkReversed, At, IType, Hands, Job, Sources
  <2>2. job[w].orig \in EntryIds \cup {None} BY <1>1 DEF Job
  <2>3. DbTypes'
    BY <1>1, <1>13, <2>1, <2>2, EffectTypes DEF MarkReversed, Statement
  <2>4. <<job[w].storno, job[w].own>> \in Seq(EntryIds)
        /\ <<job[w].storno>> \in Seq(EntryIds)
    BY <2>1
  <2>5. Finish(w) \/ Abandon(w, <<job[w].storno, job[w].own>>)
        \/ Abandon(w, <<job[w].storno>>)
    BY <1>13 DEF MarkReversed, Statement
  <2> QED BY <2>3, <2>4, <2>5, <1>3, FinishTypes, AbandonTypes
<1>14. CASE UndoHeader(w)
  <2>1. job[w].undo # <<>> /\ job[w].undo \in Seq(EntryIds)
    BY <1>1, <1>14 DEF UndoHeader, At, IType, Hands, Job
  <2>2. Head(job[w].undo) \in EntryIds BY <2>1
  <2>3. DbTypes'
    BY <1>1, <1>14, <2>2, EffectTypes DEF UndoHeader, Statement, Statuses
  <2>4. "undoLines" \in Steps BY DEF Steps
  <2> QED BY <1>14, <2>1, <2>3, <2>4, <1>3, GotoTypes
      DEF UndoHeader, Statement
<1>15. CASE UndoLines(w)
  <2>1. job[w].undo # <<>> /\ job[w].undo \in Seq(EntryIds)
    BY <1>1, <1>15 DEF UndoLines, At, IType, Hands, Job
  <2>2. Head(job[w].undo) \in EntryIds /\ Tail(job[w].undo) \in Seq(EntryIds)
    BY <2>1
  <2>3. DbTypes'
    BY <1>1, <1>15, <2>2, EffectTypes DEF UndoLines, Statement
  <2>4. Abandon(w, Tail(job[w].undo)) BY <1>15 DEF UndoLines, Statement
  <2> QED BY <2>2, <2>3, <2>4, <1>3, AbandonTypes
<1> QED BY <1>6, <1>7, <1>8, <1>9, <1>10, <1>11, <1>12, <1>13, <1>14, <1>15
    DEF Advance

(* A request begins as one that is about to number or insert its header.     *)
LEMMA BeginTypes ==
    ASSUME IType, NEW w \in Workers, NEW j \in Job, Begin(w, j),
           j.pc \in {"number", "insert"}, j.role # "correction"
    PROVE  IType'
<1>1. job' = [job EXCEPT ![w] = j] BY DEF Begin
<1>2. job' \in [Workers -> Job] BY <1>1 DEF IType, TypeOK
<1>3. Hands' BY <1>1, <1>2 DEF IType, TypeOK, Hands
<1> QED BY <1>2, <1>3 DEF IType, TypeOK, Begin, db

LEMMA TypeStart ==
    ASSUME IType, NEW w \in Workers, Start(w)
    PROVE  IType'
<1>1. ASSUME NEW p \in Periods, StartCreate(w, p) PROVE IType'
  <2> DEFINE j == [[Idle EXCEPT !.pc = "insert"] EXCEPT !.target = p]
  <2>1. j \in Job BY RecordTypes DEF Job, Steps
  <2>2. j.pc = "insert" /\ j.role = "regular" BY DEF Idle
  <2>3. Begin(w, j) BY <1>1 DEF StartCreate
  <2> HIDE DEF j
  <2> QED BY <2>1, <2>2, <2>3, BeginTypes
<1>2. ASSUME NEW e \in EntryIds, StartReverse(w, e) PROVE IType'
  <2> DEFINE j == [Idle EXCEPT !.pc = "number", !.op = "reverse",
                               !.role = "storno", !.orig = e,
                               !.home = entry[e].period]
  <2>1. entry[e].period \in Periods BY DEF IType, TypeOK, Entry
  <2>2. j \in Job /\ j.pc = "number" /\ j.role = "storno"
    BY <2>1, RecordTypes DEF Idle, Job, Steps, OpKinds, Sources
  <2>3. Begin(w, j) BY <1>2 DEF StartReverse
  <2> HIDE DEF j
  <2> QED BY <2>2, <2>3, BeginTypes
<1>3. ASSUME NEW e \in EntryIds, NEW p \in Periods, StartCorrect(w, e, p)
      PROVE  IType'
  <2> DEFINE j == [Idle EXCEPT !.pc = "number", !.op = "correct",
                               !.role = "storno", !.orig = e,
                               !.home = entry[e].period, !.target = p]
  <2>1. entry[e].period \in Periods BY DEF IType, TypeOK, Entry
  <2>2. j \in Job /\ j.pc = "number" /\ j.role = "storno"
    BY <2>1, RecordTypes DEF Idle, Job, Steps, OpKinds, Sources
  <2>3. Begin(w, j) BY <1>3 DEF StartCorrect
  <2> HIDE DEF j
  <2> QED BY <2>2, <2>3, BeginTypes
<1> QED BY <1>1, <1>2, <1>3 DEF Start

LEMMA TypeOther ==
    ASSUME IType, Other \/ \E w \in Workers : Crash(w)
    PROVE  IType'
<1>1. DbTypes BY DEF IType, TypeOK, DbTypes
<1>2. ASSUME NEW e \in EntryIds, CommitDraft(e) PROVE IType'
  <2>1. entry[e].period \in Periods BY <1>1 DEF DbTypes, Entry
  <2>2. DbTypes' BY <1>1, <1>2, <2>1, EffectTypes DEF CommitDraft
  <2> QED BY <1>2, <2>2 DEF CommitDraft, DbTypes, IType, TypeOK, Hands
<1>3. ASSUME NEW e \in EntryIds, CancelOrphan(e) PROVE IType'
  <2>1. DbTypes' BY <1>1, <1>3, EffectTypes DEF CancelOrphan, Statuses
  <2> QED BY <1>3, <2>1 DEF CancelOrphan, DbTypes, IType, TypeOK, Hands
<1>4. ASSUME NEW p \in Periods, LockPeriod(p) \/ UnlockPeriod(p) PROVE IType'
  BY <1>4 DEF LockPeriod, UnlockPeriod, SetLock, IType, TypeOK, Hands
<1>5. ASSUME NEW w \in Workers, Crash(w) PROVE IType'
  BY <1>5, FinishTypes DEF Crash, db, IType, TypeOK
<1> QED BY <1>2, <1>3, <1>4, <1>5 DEF Other

LEMMA TypeStep == IType /\ [Next]_vars => IType'
<1> SUFFICES ASSUME IType, [Next]_vars PROVE IType' OBVIOUS
<1>1. CASE Next BY <1>1, TypeAdvance, TypeStart, TypeOther DEF Next
<1>2. CASE UNCHANGED vars BY <1>2 DEF vars, IType, TypeOK, Hands
<1> QED BY <1>1, <1>2

LEMMA TypeAlways == Spec => []IType
BY TypeInit, TypeStep, PTL DEF Spec

(* Every header, counter and request of every execution has its type.        *)
THEOREM TypeCorrect == Spec => []TypeOK
<1>1. IType => TypeOK BY DEF IType
<1> QED BY <1>1, TypeAlways, PTL

-----------------------------------------------------------------------------
(* A posted voucher keeps its lines.                                         *)

(* No statement takes lines from a posted voucher, nor posts one without.    *)
LEMMA LinesStep ==
    ASSUME IType, PostedKeepsLines, [Next]_vars
    PROVE  PostedKeepsLines'
<1> USE DEF PostedKeepsLines
<1>1. entry \in [EntryIds -> Entry] BY DEF IType, TypeOK
<1>2. CASE UNCHANGED entry BY <1>2
<1>3. ASSUME NEW e \in EntryIds, CommitAccepted(e), CommitEffect(e)
      PROVE  PostedKeepsLines'
  BY <1>1, <1>3 DEF CommitAccepted, CommitEffect, Entry
<1>4. ASSUME NEW e \in EntryIds, SetStatus(e, "cancelled")
      PROVE  PostedKeepsLines'
  BY <1>1, <1>4 DEF SetStatus, Entry
<1>5. ASSUME NEW w \in Workers, Advance(w) PROVE PostedKeepsLines'
  <2>1. job[w] \in Job BY DEF IType, TypeOK
  <2>2. CASE AllocateNumber(w)
    BY <1>2, <2>2 DEF AllocateNumber, Statement, ConsumeNumber, db
  <2>3. CASE InsertHeader(w)
    <3>1. OwnHeader(w).status = "draft" BY DEF OwnHeader, Header
    <3>2. ASSUME NEW h, h.status = "draft", InsertEffect(h)
          PROVE  PostedKeepsLines'
      BY <1>1, <3>2 DEF InsertEffect
    <3> QED BY <1>2, <2>3, <3>1, <3>2 DEF InsertHeader, Statement, db
  <2>4. CASE InsertLines(w)
    BY <1>1, <1>2, <2>4 DEF InsertLines, Statement, SetLines, db, Entry
  <2>5. CASE CancelDraft(w)
    <3>1. job[w].own \in EntryIds BY <2>5 DEF CancelDraft, At, IType, Hands
    <3> QED BY <1>2, <1>4, <2>5, <3>1 DEF CancelDraft, Statement, db
  <2>6. CASE Commit(w)
    <3>1. job[w].own \in EntryIds BY <2>6 DEF Commit, At, IType, Hands
    <3> QED BY <1>2, <1>3, <2>6, <3>1 DEF Commit, Statement, db
  <2>7. CASE CancelIfDraft(w)
    <3>1. job[w].own \in EntryIds BY <2>7 DEF CancelIfDraft, At, IType, Hands
    <3> QED BY <1>2, <1>4, <2>7, <3>1 DEF CancelIfDraft, Statement, db
  <2>8. CASE Post(w)
    <3>1. job[w].own \in EntryIds BY <2>8 DEF Post, At, IType, Hands
    <3>2. ASSUME PostAccepted(w, job[w].own), SetStatus(job[w].own, "posted")
          PROVE  PostedKeepsLines'
      BY <1>1, <3>1, <3>2 DEF PostAccepted, StatusAccepted, StatusSteps,
         SetStatus, Entry, Present
    <3> QED BY <1>2, <2>8, <3>2 DEF Post, Statement, db
  <2>9. CASE MarkReversed(w)
    <3>1. ASSUME NEW o, NEW s, ReversalAccepted(o, s), LinkReversal(o, s)
          PROVE  PostedKeepsLines'
      BY <1>1, <3>1 DEF ReversalAccepted, LinkReversal, Entry
    <3> QED BY <1>2, <2>9, <3>1 DEF MarkReversed, Statement, db
  <2>10. CASE UndoHeader(w)
    <3>1. Head(job[w].undo) \in EntryIds
      BY <2>1, <2>10 DEF UndoHeader, At, IType, Hands, Job
    <3> QED BY <1>2, <1>4, <2>10, <3>1 DEF UndoHeader, Statement, db
  <2>11. CASE UndoLines(w)
    <3>1. ASSUME NEW e, LinesRemovable(e), SetLines(e, FALSE)
          PROVE  PostedKeepsLines'
      BY <1>1, <3>1 DEF LinesRemovable, SetLines, Entry
    <3> QED BY <1>2, <2>11, <3>1 DEF UndoLines, Statement, db
  <2> QED BY <1>5, <2>2, <2>3, <2>4, <2>5, <2>6, <2>7, <2>8, <2>9, <2>10,
      <2>11 DEF Advance
<1>6. ASSUME NEW w \in Workers, Start(w) \/ Crash(w) PROVE PostedKeepsLines'
  BY <1>2, <1>6 DEF Start, StartCreate, StartReverse, StartCorrect, Begin,
     Crash, db
<1>7. CASE Other
  BY <1>2, <1>3, <1>4, <1>7 DEF Other, CommitDraft, CancelOrphan, LockPeriod,
     UnlockPeriod, SetLock
<1> QED BY <1>2, <1>5, <1>6, <1>7 DEF Next, vars

(* The lines of a posted voucher stay, in every execution and whatever       *)
(* fails: PostedKeepsLines is inductive once the types are known.            *)
THEOREM LinesStay == Spec => []PostedKeepsLines
<1>1. Init => PostedKeepsLines
  BY DEF Init, PostedKeepsLines, Header, NoEntry
<1>2. IType /\ PostedKeepsLines /\ [Next]_vars => PostedKeepsLines'
  BY LinesStep
<1> QED BY <1>1, <1>2, TypeAlways, PTL DEF Spec
-----------------------------------------------------------------------------
(* Booked history is final.                                                  *)

(* The next header gets an id no header has.                                 *)
IdsFresh == \A e \in EntryIds : Present(e) => e < nextId

(* What a step may do to header e.                                           *)
Final(e) ==
    /\ entry[e].status = "posted" =>
          \/ entry'[e] = entry[e]
          \/ entry'[e].reversedBy # None
             /\ entry'[e] = [entry[e] EXCEPT !.status = "reversed",
                                    !.reversedBy = entry'[e].reversedBy]
          \/ entry'[e] = [entry[e] EXCEPT !.status = "cancelled"]
    /\ entry[e].status = "reversed" => entry'[e] = entry[e]

(* The effects that reach a header, each under the guard of its statement.   *)
LEMMA EffectsFinal ==
    ASSUME IType, PostedKeepsLines, IdsFresh
    PROVE  /\ UNCHANGED entry => \A f \in EntryIds : Final(f)
           /\ \A e \in EntryIds :
                 CommitAccepted(e) /\ CommitEffect(e)
                    => \A f \in EntryIds : Final(f)
           /\ \A h : InsertEffect(h) => \A f \in EntryIds : Final(f)
           /\ \A e \in EntryIds :
                 StatusAccepted(e, "cancelled") /\ SetStatus(e, "cancelled")
                    => \A f \in EntryIds : Final(f)
           /\ \A e \in EntryIds : \A w :
                 PostAccepted(w, e) /\ SetStatus(e, "posted")
                    => \A f \in EntryIds : Final(f)
           /\ \A e \in EntryIds :
                 SetLines(e, TRUE) => \A f \in EntryIds : Final(f)
           /\ \A e \in EntryIds :
                 LinesRemovable(e) /\ SetLines(e, FALSE)
                    => \A f \in EntryIds : Final(f)
           /\ \A o, s : ReversalAccepted(o, s) /\ LinkReversal(o, s) /\ s # None
                    => \A f \in EntryIds : Final(f)
<1> USE DEF Final
<1>1. \A e \in EntryIds : entry[e] \in Entry BY DEF IType, TypeOK
<1>2. UNCHANGED entry => \A f \in EntryIds : Final(f) OBVIOUS
<1>3. ASSUME NEW e \in EntryIds, NEW r, entry' = [entry EXCEPT ![e] = r],
             \/ entry[e].status \notin {"posted", "reversed"}
             \/ r = entry[e]
             \/ /\ entry[e].status = "posted"
                /\ r = [entry[e] EXCEPT !.status = "cancelled"]
             \/ /\ entry[e].status = "posted"
                /\ r.reversedBy # None
                /\ r = [entry[e] EXCEPT !.status = "reversed",
                                        !.reversedBy = r.reversedBy]
      PROVE  \A f \in EntryIds : Final(f)
  <2>1. entry'[e] = r /\ \A f \in EntryIds \ {e} : entry'[f] = entry[f]
    BY <1>3 DEF IType, TypeOK
  <2>2. Final(e) BY <1>3, <2>1
  <2>3. ASSUME NEW f \in EntryIds \ {e} PROVE Final(f) BY <2>1
  <2> QED BY <2>2, <2>3
<1>4. ASSUME NEW e \in EntryIds, CommitAccepted(e), CommitEffect(e)
      PROVE  \A f \in EntryIds : Final(f)
  <2>1. entry[e].status = "draft" BY <1>4 DEF CommitAccepted
  <2>2. PICK r : entry' = [entry EXCEPT ![e] = r] BY <1>4 DEF CommitEffect
  <2> QED BY <2>1, <2>2, <1>3
<1>5. ASSUME NEW h, InsertEffect(h) PROVE \A f \in EntryIds : Final(f)
  <2>1. nextId \in EntryIds /\ entry' = [entry EXCEPT ![nextId] = h]
    BY <1>5 DEF InsertEffect
  <2>2. ~Present(nextId)
    BY <2>1 DEF IdsFresh, IType, TypeOK
  <2>3. entry[nextId].status \notin {"posted", "reversed"}
    BY <2>2 DEF Present
  <2> QED BY <2>1, <2>3, <1>3
<1>6. ASSUME NEW e \in EntryIds, NEW s \in {"cancelled", "posted"},
             StatusAccepted(e, s), SetStatus(e, s)
      PROVE  \A f \in EntryIds : Final(f)
  <2>1. CASE ~Present(e) BY <1>6, <2>1 DEF SetStatus
  <2>2. CASE Present(e)
    <3>1. <<entry[e].status, s>> \in StatusSteps
      BY <1>6, <2>2 DEF StatusAccepted
    <3>2. entry' = [entry EXCEPT ![e] = [entry[e] EXCEPT !.status = s]]
      BY <1>6, <2>2 DEF SetStatus
    <3>3. s = entry[e].status => [entry[e] EXCEPT !.status = s] = entry[e]
      BY <1>1 DEF Entry
    <3>4. entry[e].status # "reversed"
          /\ (entry[e].status = "posted" => s \in {"posted", "cancelled"})
      BY <3>1 DEF StatusSteps
    <3> QED BY <3>2, <3>3, <3>4, <1>3
  <2> QED BY <2>1, <2>2
<1>7. ASSUME NEW e \in EntryIds, NEW b \in BOOLEAN, SetLines(e, b),
             entry[e].status \in {"posted", "reversed"} => b = TRUE
      PROVE  \A f \in EntryIds : Final(f)
  <2>1. entry' = [entry EXCEPT ![e] = [entry[e] EXCEPT !.lines = b]]
    BY <1>7 DEF SetLines
  <2>2. entry[e].status \in {"posted", "reversed"}
           => [entry[e] EXCEPT !.lines = b] = entry[e]
    BY <1>1, <1>7 DEF PostedKeepsLines, Entry
  <2> QED BY <2>1, <2>2, <1>3
<1>8. ASSUME NEW o, NEW s, ReversalAccepted(o, s), LinkReversal(o, s), s # None
      PROVE  \A f \in EntryIds : Final(f)
  <2> DEFINE r == [[entry[o] EXCEPT !.status = "reversed"] EXCEPT !.reversedBy = s]
  <2>1. entry' = [entry EXCEPT ![o] = r] BY <1>8 DEF LinkReversal
  <2>2. CASE o \in EntryIds
    <3>1. r.reversedBy = s BY <1>1, <2>2 DEF Entry
    <3>2. r = [entry[o] EXCEPT !.status = "reversed",
                               !.reversedBy = r.reversedBy]
      BY <3>1
    <3>3. entry[o].status = "posted" BY <1>8 DEF ReversalAccepted
    <3> HIDE DEF r
    <3> QED BY <2>1, <2>2, <3>1, <3>2, <3>3, <1>3, <1>8
  <2>3. CASE o \notin EntryIds
    <3>1. UNCHANGED entry BY <2>1, <2>3 DEF IType, TypeOK
    <3> QED BY <3>1
  <2> QED BY <2>2, <2>3
<1>9. \A e \in EntryIds : LinesRemovable(e)
         => entry[e].status \notin {"posted", "reversed"}
  BY DEF LinesRemovable
<1> HIDE DEF Final
<1>10. \A e \in EntryIds : \A w :
          PostAccepted(w, e) /\ SetStatus(e, "posted")
             => \A f \in EntryIds : Final(f)
  BY <1>6 DEF PostAccepted
<1>11. \A e \in EntryIds : LinesRemovable(e) /\ SetLines(e, FALSE)
          => \A f \in EntryIds : Final(f)
  BY <1>7, <1>9
<1> QED BY <1>2, <1>4, <1>5, <1>6, <1>7, <1>8, <1>10, <1>11
LEMMA FinalStep ==
    ASSUME IType, PostedKeepsLines, IdsFresh, [Next]_vars
    PROVE  \A f \in EntryIds : Final(f)
<1>1. ASSUME UNCHANGED entry PROVE \A f \in EntryIds : Final(f)
  BY <1>1, EffectsFinal
<1>2. ASSUME NEW w \in Workers, Advance(w)
      PROVE  \A f \in EntryIds : Final(f)
  <2>1. job[w] \in Job BY DEF IType, TypeOK
  <2>2. CASE AllocateNumber(w)
    BY <1>1, <2>2 DEF AllocateNumber, Statement, ConsumeNumber, db
  <2>3. CASE InsertHeader(w)
    BY <1>1, <2>3, EffectsFinal DEF InsertHeader, Statement, db
  <2>4. CASE InsertLines(w)
    <3>1. job[w].own \in EntryIds BY <2>4 DEF InsertLines, At, IType, Hands
    <3> QED BY <1>1, <2>4, <3>1, EffectsFinal DEF InsertLines, Statement, db
  <2>5. CASE CancelDraft(w)
    <3>1. job[w].own \in EntryIds BY <2>5 DEF CancelDraft, At, IType, Hands
    <3> QED BY <1>1, <2>5, <3>1, EffectsFinal DEF CancelDraft, Statement, db
  <2>6. CASE Commit(w)
    <3>1. job[w].own \in EntryIds BY <2>6 DEF Commit, At, IType, Hands
    <3> QED BY <1>1, <2>6, <3>1, EffectsFinal DEF Commit, Statement, db
  <2>7. CASE CancelIfDraft(w)
    <3> DEFINE e == job[w].own
    <3>1. e \in EntryIds BY <2>7 DEF CancelIfDraft, At, IType, Hands
    <3>2. entry[e].status = "draft" /\ ~locked[entry[e].period]
             => StatusAccepted(e, "cancelled")
      BY DEF StatusAccepted, StatusSteps
    <3> QED BY <1>1, <2>7, <3>1, <3>2, EffectsFinal
            DEF CancelIfDraft, Statement, db
  <2>8. CASE Post(w)
    <3>1. job[w].own \in EntryIds BY <2>8 DEF Post, At, IType, Hands
    <3> QED BY <1>1, <2>8, <3>1, EffectsFinal DEF Post, Statement, db
  <2>9. CASE MarkReversed(w)
    <3>1. job[w].storno # None
      BY <2>1, <2>9 DEF MarkReversed, At, IType, Hands, Job, Sources,
         EntryIds, None
    <3> QED BY <1>1, <2>9, <3>1, EffectsFinal DEF MarkReversed, Statement, db
  <2>10. CASE UndoHeader(w)
    <3>1. Head(job[w].undo) \in EntryIds
      BY <2>1, <2>10 DEF UndoHeader, At, IType, Hands, Job
    <3> QED BY <1>1, <2>10, <3>1, EffectsFinal DEF UndoHeader, Statement, db
  <2>11. CASE UndoLines(w)
    <3>1. Head(job[w].undo) \in EntryIds
      BY <2>1, <2>11 DEF UndoLines, At, IType, Hands, Job
    <3> QED BY <1>1, <2>11, <3>1, EffectsFinal DEF UndoLines, Statement, db
  <2> QED BY <1>2, <2>2, <2>3, <2>4, <2>5, <2>6, <2>7, <2>8, <2>9, <2>10,
      <2>11 DEF Advance
<1>3. ASSUME NEW w \in Workers, Start(w) \/ Crash(w)
      PROVE  \A f \in EntryIds : Final(f)
  BY <1>1, <1>3 DEF Start, StartCreate, StartReverse, StartCorrect, Begin,
     Crash, db
<1>4. CASE Other
  BY <1>1, <1>4, EffectsFinal DEF Other, CommitDraft, CancelOrphan,
     LockPeriod, UnlockPeriod, SetLock
<1>5. CASE UNCHANGED vars BY <1>1, <1>5 DEF vars
<1> QED BY <1>2, <1>3, <1>4, <1>5 DEF Next

LEMMA IdsStep ==
    ASSUME IType, IdsFresh, [Next]_vars
    PROVE  IdsFresh'
<1> USE DEF IdsFresh, Present
<1>1. EntryIds \subseteq Nat /\ nextId \in Nat
  BY DEF EntryIds, IType, TypeOK
<1>2. CASE UNCHANGED <<entry, nextId>> BY <1>2
<1>3. ASSUME NEW e, NEW r, r.status = "absent" => entry[e].status = "absent",
             entry[e].status = "absent" => r.status = "absent",
             entry' = [entry EXCEPT ![e] = r], nextId' = nextId
      PROVE  IdsFresh'
  BY <1>3 DEF IType, TypeOK
<1>4. ASSUME NEW h, InsertEffect(h) PROVE IdsFresh'
  BY <1>1, <1>4 DEF InsertEffect, IType, TypeOK
<1>5. \A e \in EntryIds : entry[e] \in Entry BY DEF IType, TypeOK
<1>6. ASSUME NEW e, NEW s, s # "absent", SetStatus(e, s) PROVE IdsFresh'
  BY <1>1, <1>5, <1>6 DEF SetStatus, IType, TypeOK, Entry
<1>7. ASSUME NEW e, NEW b, SetLines(e, b) PROVE IdsFresh'
  BY <1>1, <1>5, <1>7 DEF SetLines, IType, TypeOK, Entry
<1>8. ASSUME NEW o, NEW s, ReversalAccepted(o, s), LinkReversal(o, s)
      PROVE  IdsFresh'
  BY <1>1, <1>5, <1>8 DEF ReversalAccepted, LinkReversal, IType, TypeOK, Entry
<1>9. ASSUME NEW e, CommitAccepted(e), CommitEffect(e) PROVE IdsFresh'
  BY <1>1, <1>5, <1>9 DEF CommitAccepted, CommitEffect, IType, TypeOK, Entry
<1> HIDE DEF IdsFresh, Present
<1>10. CASE UNCHANGED vars BY <1>2, <1>10 DEF vars
<1>11. ASSUME NEW w \in Workers, Advance(w) PROVE IdsFresh'
  <2>1. UNCHANGED db => IdsFresh' BY <1>2 DEF db
  <2>2. CASE AllocateNumber(w)
    BY <1>2, <2>1, <2>2 DEF AllocateNumber, Statement, ConsumeNumber
  <2>3. CASE InsertHeader(w)
    BY <1>4, <2>1, <2>3 DEF InsertHeader, Statement
  <2>4. CASE InsertLines(w) \/ UndoLines(w)
    BY <1>7, <2>1, <2>4 DEF InsertLines, UndoLines, Statement
  <2>5. CASE CancelDraft(w) \/ CancelIfDraft(w) \/ UndoHeader(w)
    BY <1>6, <2>1, <2>5 DEF CancelDraft, CancelIfDraft, UndoHeader, Statement
  <2>6. CASE Commit(w) BY <1>9, <2>1, <2>6 DEF Commit, Statement
  <2>7. CASE Post(w) BY <1>6, <2>1, <2>7 DEF Post, Statement
  <2>8. CASE MarkReversed(w) BY <1>8, <2>1, <2>8 DEF MarkReversed, Statement
  <2> QED BY <1>11, <2>2, <2>3, <2>4, <2>5, <2>6, <2>7, <2>8 DEF Advance
<1>12. ASSUME NEW w \in Workers, Start(w) \/ Crash(w) PROVE IdsFresh'
  BY <1>2, <1>12 DEF Start, StartCreate, StartReverse, StartCorrect, Begin,
     Crash, db
<1>13. CASE Other
  BY <1>2, <1>6, <1>9, <1>13 DEF Other, CommitDraft, CancelOrphan, LockPeriod,
     UnlockPeriod, SetLock
<1> QED BY <1>10, <1>11, <1>12, <1>13 DEF Next

(* Booked history is final in every execution, whatever fails: no statement  *)
(* of any request changes a posted voucher except to reverse or cancel it,   *)
(* and none changes a reversed one.                                          *)
THEOREM HistoryFinal == Spec => BookedIsFinal
<1>1. Init => IdsFresh
  BY JournalAssumption DEF Init, IdsFresh, Present, NoEntry, Header, EntryIds
<1>2. IType /\ IdsFresh /\ [Next]_vars => IdsFresh' BY IdsStep
<1>3. IType /\ PostedKeepsLines /\ IdsFresh /\ [Next]_vars
         => [\A e \in EntryIds :
               /\ entry[e].status = "posted" =>
                     \/ entry'[e] = entry[e]
                     \/ entry'[e].reversedBy # None
                        /\ entry'[e] = [entry[e] EXCEPT !.status = "reversed",
                                               !.reversedBy = entry'[e].reversedBy]
                     \/ entry'[e] = [entry[e] EXCEPT !.status = "cancelled"]
               /\ entry[e].status = "reversed" => entry'[e] = entry[e]]_vars
  BY FinalStep DEF Final
<1> QED BY <1>1, <1>2, <1>3, TypeAlways, LinesStay, PTL DEF Spec, BookedIsFinal
=============================================================================
