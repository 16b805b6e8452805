-------------------------- MODULE JournalNumberProofs --------------------------
(* Voucher numbers: a number is handed out once, for every number of         *)
(* processes and whatever fails between handing it out and writing it. And   *)
(* none is lost as long as nothing fails.                                    *)
EXTENDS JournalReversalProofs

(* No header carries a number its series has not reached, a draft by         *)
(* createDraftEntry carries none, and held numbers are fresh.                *)
Numbers ==
    /\ \A e \in EntryIds :
          Present(e) => entry[e].number <= lastNumber[entry[e].period]
    /\ \A w \in Workers :
          job[w].role = "regular" => job[w].number = 0 /\ job[w].pc # "number"
    /\ HeldNumberFresh

(* No request comes into possession of a number.                             *)
JobsQuiet ==
    \A v \in Workers :
        /\ job'[v].pc = "insert" =>
              \/ job'[v].role = "regular"
              \/ /\ job[v].pc = "insert"
                 /\ job[v].role = job'[v].role
                 /\ job'[v].number = job[v].number
                 /\ OwnPeriod(v)' = OwnPeriod(v)
        /\ job'[v].role = "regular"
              => job'[v].number = 0 /\ job'[v].pc # "number"

(* No header comes into being or changes its number.                         *)
HeadersQuiet ==
    /\ lastNumber' = lastNumber
    /\ \A e \in EntryIds : Present(e)' =>
          /\ Present(e)
          /\ entry'[e].number = entry[e].number
          /\ entry'[e].period = entry[e].period

LEMMA QuietStep ==
    ASSUME IType, Numbers, JobsQuiet, HeadersQuiet, IType'
    PROVE  Numbers'
<1> USE DEF IType, TypeOK, JobsQuiet, HeadersQuiet, Numbers
<1>1. \A p, n : NumberFree(p, n) => NumberFree(p, n)' BY DEF NumberFree
<1>2. ASSUME NEW w \in Workers, job'[w].pc = "insert", job'[w].role # "regular"
      PROVE  /\ job'[w].number \in 1..lastNumber'[OwnPeriod(w)']
             /\ NumberFree(OwnPeriod(w), job[w].number)'
             /\ \A v \in Workers \ {w} :
                  job'[v].pc = "insert" /\ OwnPeriod(v)' = OwnPeriod(w)'
                      => job'[v].number # job'[w].number
  <2>1. /\ job[w].pc = "insert" /\ job[w].role # "regular"
        /\ job'[w].number = job[w].number /\ OwnPeriod(w)' = OwnPeriod(w)
    BY <1>2
  <2>2. /\ job[w].number \in 1..lastNumber[OwnPeriod(w)]
        /\ NumberFree(OwnPeriod(w), job[w].number)
        /\ \A v \in Workers \ {w} :
              job[v].pc = "insert" /\ OwnPeriod(v) = OwnPeriod(w)
                  => job[v].number # job[w].number
    BY <2>1 DEF HeldNumberFresh
  <2>3. job'[w].number \in 1..lastNumber'[OwnPeriod(w)'] BY <2>1, <2>2
  <2>4. NumberFree(OwnPeriod(w), job[w].number)' BY <1>1, <2>1, <2>2
  <2>5. ASSUME NEW v \in Workers \ {w}, job'[v].pc = "insert",
               OwnPeriod(v)' = OwnPeriod(w)'
        PROVE  job'[v].number # job'[w].number
    <3>1. CASE job'[v].role = "regular" BY <2>1, <2>2, <3>1
    <3>2. CASE job'[v].role # "regular"
      BY <2>1, <2>2, <2>5, <3>2
    <3> QED BY <3>1, <3>2
  <2> QED BY <2>3, <2>4, <2>5
<1>3. HeldNumberFresh' BY <1>2 DEF HeldNumberFresh
<1>4. \A e \in EntryIds :
         Present(e)' => entry'[e].number <= lastNumber'[entry'[e].period]
  OBVIOUS
<1> QED BY <1>3, <1>4

(* A request that gives up or goes on without a number is quiet.             *)
LEMMA QuietMoves ==
    ASSUME IType, Numbers, NEW w \in Workers,
           \/ Finish(w)
           \/ \E es : Abandon(w, es)
           \/ \E step \in Steps \ {"number", "insert"} : Goto(w, step)
    PROVE  JobsQuiet
<1> USE DEF IType, TypeOK, Numbers
<1>1. \A v \in Workers : job[v] \in Job OBVIOUS
<1>2. CASE Finish(w)
  <2>1. job' = [job EXCEPT ![w] = Idle] BY <1>2 DEF Finish
  <2> QED BY <2>1, <1>1 DEF JobsQuiet, Idle, OwnPeriod
<1>3. ASSUME NEW es, Abandon(w, es) PROVE JobsQuiet
  <2>1. CASE es = <<>>
    <3>1. job' = [job EXCEPT ![w] = Idle] BY <1>3, <2>1 DEF Abandon, Finish
    <3> QED BY <3>1, <1>1 DEF JobsQuiet, Idle, OwnPeriod
  <2>2. CASE es # <<>>
    <3> DEFINE j == [[job[w] EXCEPT !.pc = "undo"] EXCEPT !.undo = es]
    <3>1. job' = [job EXCEPT ![w] = j] BY <1>3, <2>2 DEF Abandon
    <3>2. j.pc = "undo" /\ j.role = job[w].role /\ j.number = job[w].number
      BY <1>1 DEF Job
    <3> HIDE DEF j
    <3> QED BY <3>1, <3>2, <1>1 DEF JobsQuiet, OwnPeriod
  <2> QED BY <2>1, <2>2
<1>4. ASSUME NEW step \in Steps \ {"number", "insert"}, Goto(w, step) PROVE JobsQuiet
  <2> DEFINE j == [job[w] EXCEPT !.pc = step]
  <2>1. job' = [job EXCEPT ![w] = j] BY <1>4 DEF Goto
  <2>2. j.pc = step /\ j.role = job[w].role /\ j.number = job[w].number
    BY <1>1 DEF Job
  <2> HIDE DEF j
  <2> QED BY <2>1, <2>2, <1>1 DEF JobsQuiet, OwnPeriod
<1> QED BY <1>2, <1>3, <1>4

(* Statements that leave the numbers of the headers alone.                   *)
LEMMA QuietEffects ==
    ASSUME IType
    PROVE  /\ UNCHANGED db => HeadersQuiet
           /\ \A e, s : s # "absent" /\ SetStatus(e, s) => HeadersQuiet
           /\ \A e, b : SetLines(e, b) => HeadersQuiet
           /\ \A o, s : ReversalAccepted(o, s) /\ LinkReversal(o, s)
                           => HeadersQuiet
<1> USE DEF IType, TypeOK, HeadersQuiet, Entry, Present
<1>1. UNCHANGED db => HeadersQuiet BY DEF db
<1>2. \A e, s : s # "absent" /\ SetStatus(e, s) => HeadersQuiet BY DEF SetStatus
<1>3. \A e, b : SetLines(e, b) => HeadersQuiet BY DEF SetLines
<1>4. \A o, s : ReversalAccepted(o, s) /\ LinkReversal(o, s) => HeadersQuiet
  BY DEF ReversalAccepted, LinkReversal
<1> QED BY <1>1, <1>2, <1>3, <1>4

(* next_voucher_number: the new number is above all others of its series.    *)
LEMMA IssueStep ==
    ASSUME IType, Numbers, NEW w \in Workers, job[w].pc = "number",
           ConsumeNumber(OwnPeriod(w)),
           job' = [job EXCEPT ![w].pc = "insert",
                              ![w].number = lastNumber[OwnPeriod(w)] + 1]
    PROVE  Numbers'
<1> USE DEF IType, TypeOK, Numbers
<1> DEFINE p == OwnPeriod(w)
           n == lastNumber[p] + 1
           j == [[job[w] EXCEPT !.pc = "insert"] EXCEPT !.number = n]
<1>1. \A v \in Workers : job[v] \in Job /\ OwnPeriod(v) \in Periods
  BY DEF OwnPeriod, Job
<1>2. job' = [job EXCEPT ![w] = j] OBVIOUS
<1>3. /\ j.pc = "insert" /\ j.role = job[w].role /\ j.number = n
      /\ j.home = job[w].home /\ j.target = job[w].target
  BY <1>1 DEF Job
<1> HIDE DEF j
<1>4. \A v \in Workers : OwnPeriod(v)' = OwnPeriod(v)
  BY <1>1, <1>2, <1>3 DEF OwnPeriod
<1>5. entry' = entry /\ lastNumber' = [lastNumber EXCEPT ![p] = n]
  BY DEF ConsumeNumber
<1> HIDE DEF p
<1>6. p \in Periods /\ n \in Nat /\ n = lastNumber[p] + 1 BY <1>1 DEF p
<1>7. \A q \in Periods : lastNumber[q] \in Nat /\ lastNumber'[q] \in Nat
                         /\ lastNumber[q] <= lastNumber'[q]
  BY <1>5, <1>6
<1>8. \A e \in EntryIds : entry[e] \in Entry OBVIOUS
<1>9. \A e \in EntryIds :
         Present(e)' => entry'[e].number <= lastNumber'[entry'[e].period]
  BY <1>5, <1>7, <1>8 DEF Present, Entry
<1>10. NumberFree(p, n)
  BY <1>6, <1>8 DEF NumberFree, Entry
<1>11. \A q, k : NumberFree(q, k)' <=> NumberFree(q, k)
  BY <1>5 DEF NumberFree, Present
<1>12. \A v \in Workers : job'[v].role = "regular"
          => job'[v].number = 0 /\ job'[v].pc # "number"
  BY <1>1, <1>2, <1>3
<1>13. ASSUME NEW u \in Workers, job'[u].pc = "insert",
              job'[u].role # "regular"
       PROVE  /\ job'[u].number \in 1..lastNumber'[OwnPeriod(u)']
              /\ NumberFree(OwnPeriod(u), job[u].number)'
              /\ \A v \in Workers \ {u} :
                   job'[v].pc = "insert" /\ OwnPeriod(v)' = OwnPeriod(u)'
                       => job'[v].number # job'[u].number
  <2>1. CASE u = w
    <3>1. job'[u].number = n /\ OwnPeriod(u)' = p
      BY <1>2, <1>3, <1>4, <2>1, <1>1 DEF p
    <3>2. job'[u].number \in 1..lastNumber'[OwnPeriod(u)']
      BY <3>1, <1>5, <1>6
    <3>3. NumberFree(OwnPeriod(u), job[u].number)' BY <3>1, <1>10, <1>11
    <3>4. ASSUME NEW v \in Workers \ {u}, job'[v].pc = "insert",
                 OwnPeriod(v)' = p
          PROVE  job'[v].number # n
      <4>1. job'[v] = job[v] BY <1>2, <2>1
      <4>2. job[v].pc = "insert" /\ OwnPeriod(v) = p
        BY <4>1, <3>4, <1>4
      <4>3. job[v].number <= lastNumber[p]
        <5>1. CASE job[v].role = "regular" BY <5>1, <1>6
        <5>2. CASE job[v].role # "regular"
          <6>1. job[v].number \in 1..lastNumber[OwnPeriod(v)]
            BY <5>2, <4>2 DEF HeldNumberFresh
          <6> QED BY <6>1, <4>2, <1>6
        <5> QED BY <5>1, <5>2
      <4>4. job[v].number \in Nat BY <1>1 DEF Job
      <4>5. lastNumber[p] \in Nat BY <1>6
      <4>6. job[v].number # n BY <4>3, <4>4, <4>5, <1>6
      <4> QED BY <4>1, <4>6
    <3> QED BY <3>1, <3>2, <3>3, <3>4
  <2>2. CASE u # w
    <3>1. job'[u] = job[u] /\ job[u].pc = "insert" /\ job[u].role # "regular"
      BY <1>2, <1>13, <2>2
    <3>2. /\ job[u].number \in 1..lastNumber[OwnPeriod(u)]
          /\ NumberFree(OwnPeriod(u), job[u].number)
          /\ \A v \in Workers \ {u} :
               job[v].pc = "insert" /\ OwnPeriod(v) = OwnPeriod(u)
                   => job[v].number # job[u].number
      BY <3>1 DEF HeldNumberFresh
    <3>3. job'[u].number \in 1..lastNumber'[OwnPeriod(u)']
      BY <3>1, <3>2, <1>1, <1>4, <1>7
    <3>4. NumberFree(OwnPeriod(u), job[u].number)' BY <3>1, <3>2, <1>4, <1>11
    <3>5. ASSUME NEW v \in Workers \ {u}, job'[v].pc = "insert",
                 OwnPeriod(v)' = OwnPeriod(u)'
          PROVE  job'[v].number # job'[u].number
      <4>1. CASE v = w
        <5>1. job'[v].number = n /\ OwnPeriod(u) = p
          BY <4>1, <3>5, <1>1, <1>2, <1>3, <1>4 DEF p
        <5> QED BY <5>1, <3>1, <3>2, <1>6
      <4>2. CASE v # w
        <5>1. job'[v] = job[v] BY <4>2, <1>2
        <5> QED BY <5>1, <3>1, <3>2, <3>5, <1>4
      <4> QED BY <4>1, <4>2
    <3> QED BY <3>3, <3>4, <3>5
  <2> QED BY <2>1, <2>2
<1>14. HeldNumberFresh' BY <1>13 DEF HeldNumberFresh
<1> QED BY <1>9, <1>12, <1>14

(* The request no longer holds the number, and no other request moves.       *)
LeavesInsert(w) ==
    /\ job'[w].pc # "insert"
    /\ job'[w].role = "regular" => job'[w].number = 0 /\ job'[w].pc # "number"
    /\ \A v \in Workers \ {w} : job'[v] = job[v]

LEMMA InsertLeaves ==
    ASSUME IType, Numbers, NEW w \in Workers, Remember(w) \/ CancelEarlier(w)
    PROVE  LeavesInsert(w)
<1> USE DEF IType, TypeOK, Numbers
<1>1. job[w] \in Job OBVIOUS
<1>2. ASSUME NEW j, job' = [job EXCEPT ![w] = j],
             j.pc \notin {"number", "insert"},
             j.role = "regular" => j.number = 0
      PROVE  LeavesInsert(w)
  BY <1>2 DEF LeavesInsert
<1>3. CASE Remember(w)
  <2> DEFINE j == [[[job[w] EXCEPT !.pc = "lines"] EXCEPT !.own = nextId]
                      EXCEPT !.storno = IF job[w].role = "storno" THEN nextId
                                        ELSE job[w].storno]
  <2>1. job' = [job EXCEPT ![w] = j] BY <1>3 DEF Remember
  <2>2. j.pc = "lines" /\ j.role = job[w].role /\ j.number = job[w].number
    BY <1>1 DEF Job
  <2> HIDE DEF j
  <2> QED BY <2>1, <2>2, <1>2
<1>4. ASSUME NEW es, Abandon(w, es) PROVE LeavesInsert(w)
  <2>1. CASE es = <<>> BY <1>2, <1>4, <2>1 DEF Abandon, Finish, Idle
  <2>2. CASE es # <<>>
    <3> DEFINE j == [[job[w] EXCEPT !.pc = "undo"] EXCEPT !.undo = es]
    <3>1. job' = [job EXCEPT ![w] = j] BY <1>4, <2>2 DEF Abandon
    <3>2. j.pc = "undo" /\ j.role = job[w].role /\ j.number = job[w].number
      BY <1>1 DEF Job
    <3> HIDE DEF j
    <3> QED BY <3>1, <3>2, <1>2
  <2> QED BY <2>1, <2>2
<1> QED BY <1>3, <1>4 DEF CancelEarlier

(* The request writes its number on a header, and only its own.              *)
LEMMA WriteStep ==
    ASSUME IType, Numbers, NEW w \in Workers, job[w].pc = "insert",
           InsertEffect(OwnHeader(w)), LeavesInsert(w)
    PROVE  Numbers'
<1> USE DEF IType, TypeOK, Numbers
<1> DEFINE p == OwnPeriod(w)
           n == job[w].number
           h == OwnHeader(w)
<1>1. \A v \in Workers : job[v] \in Job /\ OwnPeriod(v) \in Periods
  BY DEF OwnPeriod, Job
<1>2. h.period = p /\ h.number = n BY DEF OwnHeader, Header
<1>3. nextId \in EntryIds /\ entry' = [entry EXCEPT ![nextId] = h]
      /\ lastNumber' = lastNumber
  BY DEF InsertEffect
<1>4. n \in 0..lastNumber[p] BY <1>1 DEF HeldNumberFresh, Job
<1> HIDE DEF h, p, n
<1>5. /\ job'[w].pc # "insert"
      /\ job'[w].role = "regular"
            => job'[w].number = 0 /\ job'[w].pc # "number"
      /\ \A v \in Workers \ {w} : job'[v] = job[v]
  BY DEF LeavesInsert
<1>6. \A e \in EntryIds : entry[e] \in Entry OBVIOUS
<1>7. \A e \in EntryIds :
         Present(e)' => entry'[e].number <= lastNumber'[entry'[e].period]
  BY <1>1, <1>2, <1>3, <1>4, <1>6 DEF Present, p
<1>8. \A v \in Workers : job'[v].role = "regular"
          => job'[v].number = 0 /\ job'[v].pc # "number"
  BY <1>5
<1>9. ASSUME NEW u \in Workers, job'[u].pc = "insert",
             job'[u].role # "regular"
      PROVE  /\ job'[u].number \in 1..lastNumber'[OwnPeriod(u)']
             /\ NumberFree(OwnPeriod(u), job[u].number)'
             /\ \A v \in Workers \ {u} :
                  job'[v].pc = "insert" /\ OwnPeriod(v)' = OwnPeriod(u)'
                      => job'[v].number # job'[u].number
  <2>1. u # w /\ job'[u] = job[u] BY <1>5, <1>9
  <2>2. \A v \in Workers : job'[v] = job[v] => OwnPeriod(v)' = OwnPeriod(v)
    BY DEF OwnPeriod
  <2>3. /\ job[u].number \in 1..lastNumber[OwnPeriod(u)]
        /\ NumberFree(OwnPeriod(u), job[u].number)
        /\ \A v \in Workers \ {u} :
             job[v].pc = "insert" /\ OwnPeriod(v) = OwnPeriod(u)
                 => job[v].number # job[u].number
    BY <1>9, <2>1 DEF HeldNumberFresh
  <2>4. ~(p = OwnPeriod(u) /\ n = job[u].number) BY <2>1, <2>3 DEF p, n
  <2>5. NumberFree(OwnPeriod(u), job[u].number)'
    <3>1. ASSUME NEW e \in EntryIds
          PROVE  ~(Present(e)' /\ entry'[e].period = OwnPeriod(u)
                     /\ entry'[e].number = job[u].number /\ job[u].number > 0)
      BY <1>2, <1>3, <2>3, <2>4 DEF NumberFree, Present
    <3> QED BY <3>1, <2>1, <2>2 DEF NumberFree
  <2>6. ASSUME NEW v \in Workers \ {u}, job'[v].pc = "insert",
               OwnPeriod(v)' = OwnPeriod(u)'
        PROVE  job'[v].number # job'[u].number
    <3>1. v # w BY <1>5, <2>6
    <3>2. job'[v] = job[v] BY <1>5, <3>1
    <3> QED BY <2>1, <2>2, <2>3, <2>6, <3>2
  <2> QED BY <1>3, <2>1, <2>2, <2>3, <2>5, <2>6
<1>10. HeldNumberFresh' BY <1>9 DEF HeldNumberFresh
<1> QED BY <1>7, <1>8, <1>10
(* commit_journal_entry numbers a draft above every held number.             *)
LEMMA CommitStep ==
    ASSUME IType, Numbers, JobsQuiet, IType', NEW e \in EntryIds,
           CommitAccepted(e), CommitEffect(e)
    PROVE  Numbers'
<1> USE DEF IType, TypeOK, Numbers, JobsQuiet
<1> DEFINE p == entry[e].period
           n == lastNumber[p] + 1
<1>1. \A f \in EntryIds : entry[f] \in Entry OBVIOUS
<1>2. p \in Periods /\ lastNumber[p] \in Nat /\ n \in Nat BY <1>1 DEF Entry
<1>3. lastNumber' = [lastNumber EXCEPT ![p] = n] BY DEF CommitEffect
<1>4. /\ entry'[e].period = p /\ entry'[e].number = n
      /\ \A f \in EntryIds \ {e} : entry'[f] = entry[f]
  BY <1>1 DEF CommitEffect, Entry
<1>5. Present(e) BY DEF CommitAccepted, Present
<1> HIDE DEF p
<1>6. \A q \in Periods : lastNumber[q] \in Nat /\ lastNumber'[q] \in Nat
                         /\ lastNumber[q] <= lastNumber'[q]
  BY <1>2, <1>3
<1>7. \A f \in EntryIds :
         Present(f)' => entry'[f].number <= lastNumber'[entry'[f].period]
  <2>1. ASSUME NEW f \in EntryIds, Present(f)'
        PROVE  entry'[f].number <= lastNumber'[entry'[f].period]
    <3>1. CASE f = e BY <3>1, <1>2, <1>3, <1>4
    <3>2. CASE f # e BY <2>1, <3>2, <1>1, <1>4, <1>6 DEF Present, Entry
    <3> QED BY <3>1, <3>2
  <2> QED BY <2>1
<1>8. ASSUME NEW u \in Workers, job'[u].pc = "insert", job'[u].role # "regular"
      PROVE  /\ job'[u].number \in 1..lastNumber'[OwnPeriod(u)']
             /\ NumberFree(OwnPeriod(u), job[u].number)'
             /\ \A v \in Workers \ {u} :
                  job'[v].pc = "insert" /\ OwnPeriod(v)' = OwnPeriod(u)'
                      => job'[v].number # job'[u].number
  <2>1. /\ job[u].pc = "insert" /\ job[u].role # "regular"
        /\ job'[u].number = job[u].number /\ OwnPeriod(u)' = OwnPeriod(u)
    BY <1>8
  <2>2. /\ job[u].number \in 1..lastNumber[OwnPeriod(u)]
        /\ NumberFree(OwnPeriod(u), job[u].number)
        /\ \A v \in Workers \ {u} :
              job[v].pc = "insert" /\ OwnPeriod(v) = OwnPeriod(u)
                  => job[v].number # job[u].number
    BY <2>1 DEF HeldNumberFresh
  <2>3. OwnPeriod(u) \in Periods BY DEF OwnPeriod, Job
  <2>4. job'[u].number \in 1..lastNumber'[OwnPeriod(u)']
    BY <2>1, <2>2, <2>3, <1>6
  <2>5. NumberFree(OwnPeriod(u), job[u].number)'
    <3>1. ~(p = OwnPeriod(u) /\ n = job[u].number) BY <2>2, <1>2
    <3>2. ASSUME NEW f \in EntryIds
          PROVE  ~(Present(f)' /\ entry'[f].period = OwnPeriod(u)
                     /\ entry'[f].number = job[u].number /\ job[u].number > 0)
      BY <2>2, <3>1, <1>4 DEF NumberFree, Present
    <3> QED BY <3>2, <2>1 DEF NumberFree
  <2>6. ASSUME NEW v \in Workers \ {u}, job'[v].pc = "insert",
               OwnPeriod(v)' = OwnPeriod(u)'
        PROVE  job'[v].number # job'[u].number
    <3>1. CASE job'[v].role = "regular" BY <2>1, <2>2, <3>1
    <3>2. CASE job'[v].role # "regular" BY <2>1, <2>2, <2>6, <3>2
    <3> QED BY <3>1, <3>2
  <2> QED BY <2>4, <2>5, <2>6
<1>9. HeldNumberFresh' BY <1>8 DEF HeldNumberFresh
<1> QED BY <1>7, <1>9

(* After a posting, at most the request's turn to number the corrected entry *)
(* comes.                                                                    *)
LEMMA GoOnQuiet ==
    ASSUME IType, Numbers, NEW w \in Workers, GoOn(w)
    PROVE  JobsQuiet
<1> USE DEF IType, TypeOK, Numbers
<1>1. \A v \in Workers : job[v] \in Job OBVIOUS
<1>2. CASE Goto(w, "mark") BY <1>2, QuietMoves DEF Steps
<1>3. CASE job' = [job EXCEPT ![w].pc = "number", ![w].role = "correction"]
  <2> DEFINE j == [[job[w] EXCEPT !.pc = "number"] EXCEPT !.role = "correction"]
  <2>1. job' = [job EXCEPT ![w] = j] BY <1>3
  <2>2. j.pc = "number" /\ j.role = "correction" BY <1>1 DEF Job
  <2> HIDE DEF j
  <2> QED BY <2>1, <2>2, <1>1 DEF JobsQuiet, OwnPeriod
<1> QED BY <1>2, <1>3 DEF GoOn

(* Raising a series without writing the number.                              *)
LEMMA LostNumber ==
    ASSUME IType, Numbers, JobsQuiet, IType', NEW p \in Periods,
           ConsumeNumber(p)
    PROVE  Numbers'
<1> USE DEF IType, TypeOK, Numbers, JobsQuiet
<1>1. entry' = entry BY DEF ConsumeNumber
<1>2. \A q \in Periods : lastNumber[q] \in Nat /\ lastNumber'[q] \in Nat
                         /\ lastNumber[q] <= lastNumber'[q]
  BY DEF ConsumeNumber
<1>3. \A e \in EntryIds : entry[e] \in Entry OBVIOUS
<1>4. \A e \in EntryIds :
         Present(e)' => entry'[e].number <= lastNumber'[entry'[e].period]
  BY <1>1, <1>2, <1>3 DEF Present, Entry
<1>5. \A q, k : NumberFree(q, k)' <=> NumberFree(q, k)
  BY <1>1 DEF NumberFree, Present
<1>6. \A v \in Workers : OwnPeriod(v) \in Periods BY DEF OwnPeriod, Job
<1>7. ASSUME NEW u \in Workers, job'[u].pc = "insert", job'[u].role # "regular"
      PROVE  /\ job'[u].number \in 1..lastNumber'[OwnPeriod(u)']
             /\ NumberFree(OwnPeriod(u), job[u].number)'
             /\ \A v \in Workers \ {u} :
                  job'[v].pc = "insert" /\ OwnPeriod(v)' = OwnPeriod(u)'
                      => job'[v].number # job'[u].number
  <2>1. /\ job[u].pc = "insert" /\ job[u].role # "regular"
        /\ job'[u].number = job[u].number /\ OwnPeriod(u)' = OwnPeriod(u)
    BY <1>7
  <2>2. /\ job[u].number \in 1..lastNumber[OwnPeriod(u)]
        /\ NumberFree(OwnPeriod(u), job[u].number)
        /\ \A v \in Workers \ {u} :
              job[v].pc = "insert" /\ OwnPeriod(v) = OwnPeriod(u)
                  => job[v].number # job[u].number
    BY <2>1 DEF HeldNumberFresh
  <2>3. job'[u].number \in 1..lastNumber'[OwnPeriod(u)']
    BY <2>1, <2>2, <1>2, <1>6
  <2>4. NumberFree(OwnPeriod(u), job[u].number)' BY <2>1, <2>2, <1>5
  <2>5. ASSUME NEW v \in Workers \ {u}, job'[v].pc = "insert",
               OwnPeriod(v)' = OwnPeriod(u)'
        PROVE  job'[v].number # job'[u].number
    <3>1. CASE job'[v].role = "regular" BY <2>1, <2>2, <3>1
    <3>2. CASE job'[v].role # "regular" BY <2>1, <2>2, <2>5, <3>2
    <3> QED BY <3>1, <3>2
  <2> QED BY <2>3, <2>4, <2>5
<1>8. HeldNumberFresh' BY <1>7 DEF HeldNumberFresh
<1> QED BY <1>4, <1>8

-----------------------------------------------------------------------------
(* Every step of the specification.                                          *)

(* A request begins without a number in its hand.                            *)
LEMMA NumberStart ==
    ASSUME IType, Numbers, NEW w \in Workers, Start(w), IType'
    PROVE  Numbers'
<1> USE DEF IType, TypeOK
<1>1. ASSUME NEW j, Begin(w, j),
             \/ j.pc = "insert" /\ j.role = "regular" /\ j.number = 0
             \/ j.pc = "number" /\ j.role = "storno"
      PROVE  Numbers'
  <2>1. job' = [job EXCEPT ![w] = j] BY <1>1 DEF Begin
  <2>2. JobsQuiet BY <1>1, <2>1 DEF JobsQuiet, Numbers, OwnPeriod
  <2>3. HeadersQuiet BY <1>1, QuietEffects DEF Begin
  <2> QED BY <2>2, <2>3, QuietStep
<1>2. ASSUME NEW p \in Periods, StartCreate(w, p) PROVE Numbers'
  <2> DEFINE j == [[Idle EXCEPT !.pc = "insert"] EXCEPT !.target = p]
  <2>1. j.pc = "insert" /\ j.role = "regular" /\ j.number = 0 BY DEF Idle
  <2>2. Begin(w, j) BY <1>2 DEF StartCreate
  <2> HIDE DEF j
  <2> QED BY <2>1, <2>2, <1>1
<1>3. ASSUME NEW e \in EntryIds, StartReverse(w, e) PROVE Numbers'
  <2> DEFINE j == [Idle EXCEPT !.pc = "number", !.op = "reverse",
                               !.role = "storno", !.orig = e,
                               !.home = entry[e].period]
  <2>1. j.pc = "number" /\ j.role = "storno" BY DEF Idle
  <2>2. Begin(w, j) BY <1>3 DEF StartReverse
  <2> HIDE DEF j
  <2> QED BY <2>1, <2>2, <1>1
<1>4. ASSUME NEW e \in EntryIds, NEW p \in Periods, StartCorrect(w, e, p)
      PROVE  Numbers'
  <2> DEFINE j == [Idle EXCEPT !.pc = "number", !.op = "correct",
                               !.role = "storno", !.orig = e,
                               !.home = entry[e].period, !.target = p]
  <2>1. j.pc = "number" /\ j.role = "storno" BY DEF Idle
  <2>2. Begin(w, j) BY <1>4 DEF StartCorrect
  <2> HIDE DEF j
  <2> QED BY <2>1, <2>2, <1>1
<1> QED BY <1>2, <1>3, <1>4 DEF Start
LEMMA NumberAdvance ==
    ASSUME IType, Numbers, NEW w \in Workers, Advance(w), IType'
    PROVE  Numbers'
<1> USE DEF IType, TypeOK
<1>1. ASSUME JobsQuiet, HeadersQuiet PROVE Numbers' BY <1>1, QuietStep
<1>2. UNCHANGED db => HeadersQuiet BY QuietEffects
<1>3. \A es : Abandon(w, es) => JobsQuiet BY QuietMoves
<1>4. CancelOwn(w) \/ CancelEarlier(w) => JobsQuiet
  BY <1>3 DEF CancelOwn, CancelEarlier
<1>5. Finish(w) => JobsQuiet BY QuietMoves
<1>6. ASSUME NEW step \in Steps \ {"number", "insert"}, Goto(w, step)
      PROVE  JobsQuiet
  BY <1>6, QuietMoves
<1>7. CASE AllocateNumber(w)
  <2>1. job[w].pc = "number" BY <1>7 DEF AllocateNumber, At
  <2>2. \/ /\ ConsumeNumber(OwnPeriod(w))
           /\ job' = [job EXCEPT ![w].pc = "insert",
                                 ![w].number = lastNumber[OwnPeriod(w)] + 1]
        \/ ConsumeNumber(OwnPeriod(w)) /\ CancelEarlier(w)
        \/ UNCHANGED db /\ CancelEarlier(w)
    BY <1>7 DEF AllocateNumber, Statement
  <2>3. OwnPeriod(w) \in Periods BY DEF OwnPeriod, Job
  <2>4. ASSUME ConsumeNumber(OwnPeriod(w)), CancelEarlier(w) PROVE Numbers'
    BY <2>3, <2>4, <1>4, LostNumber
  <2>5. ASSUME UNCHANGED db, CancelEarlier(w) PROVE Numbers'
    BY <2>5, <1>1, <1>2, <1>4
  <2> QED BY <2>1, <2>2, <2>4, <2>5, IssueStep
<1>8. CASE InsertHeader(w)
  <2>1. job[w].pc = "insert" BY <1>8 DEF InsertHeader, At
  <2>2. \/ InsertEffect(OwnHeader(w)) /\ (Remember(w) \/ CancelEarlier(w))
        \/ UNCHANGED db /\ CancelEarlier(w)
    BY <1>8 DEF InsertHeader, Statement
  <2> QED BY <2>1, <2>2, <1>1, <1>2, <1>4, InsertLeaves, WriteStep
<1>9. CASE InsertLines(w)
  <2>1. JobsQuiet
    BY <1>9, <1>4, <1>5, <1>6 DEF InsertLines, Statement, Steps
  <2>2. HeadersQuiet BY <1>9, <1>2, QuietEffects DEF InsertLines, Statement
  <2> QED BY <2>1, <2>2, <1>1
<1>10. CASE CancelDraft(w)
  <2>1. JobsQuiet BY <1>10, <1>5 DEF CancelDraft, Statement
  <2>2. HeadersQuiet BY <1>10, <1>2, QuietEffects DEF CancelDraft, Statement
  <2> QED BY <2>1, <2>2, <1>1
<1>11. CASE Commit(w)
  <2>1. JobsQuiet BY <1>11, <1>5, <1>6 DEF Commit, Statement, Steps
  <2>2. job[w].own \in EntryIds BY <1>11 DEF Commit, At, Hands
  <2> QED BY <1>11, <2>1, <2>2, <1>1, <1>2, CommitStep DEF Commit, Statement
<1>12. CASE CancelIfDraft(w)
  <2>1. JobsQuiet BY <1>12, <1>5 DEF CancelIfDraft, Statement
  <2>2. HeadersQuiet BY <1>12, <1>2, QuietEffects DEF CancelIfDraft, Statement
  <2> QED BY <2>1, <2>2, <1>1
<1>13. CASE Post(w)
  <2>1. JobsQuiet BY <1>13, <1>4, GoOnQuiet DEF Post, Statement
  <2>2. HeadersQuiet BY <1>13, <1>2, QuietEffects DEF Post, Statement
  <2> QED BY <2>1, <2>2, <1>1
<1>14. CASE MarkReversed(w)
  <2>1. JobsQuiet BY <1>14, <1>3, <1>5 DEF MarkReversed, Statement
  <2>2. HeadersQuiet BY <1>14, <1>2, QuietEffects DEF MarkReversed, Statement
  <2> QED BY <2>1, <2>2, <1>1
<1>15. CASE UndoHeader(w)
  <2>1. JobsQuiet BY <1>15, <1>6 DEF UndoHeader, Statement, Steps
  <2>2. HeadersQuiet BY <1>15, <1>2, QuietEffects DEF UndoHeader, Statement
  <2> QED BY <2>1, <2>2, <1>1
<1>16. CASE UndoLines(w)
  <2>1. JobsQuiet BY <1>16, <1>3 DEF UndoLines, Statement
  <2>2. HeadersQuiet BY <1>16, <1>2, QuietEffects DEF UndoLines, Statement
  <2> QED BY <2>1, <2>2, <1>1
<1> QED BY <1>7, <1>8, <1>9, <1>10, <1>11, <1>12, <1>13, <1>14, <1>15, <1>16
    DEF Advance

LEMMA NumberStep ==
    ASSUME IType, Numbers, [Next]_vars, IType'
    PROVE  Numbers'
<1>1. ASSUME UNCHANGED job PROVE JobsQuiet
  BY <1>1 DEF JobsQuiet, OwnPeriod, Numbers
<1>2. CASE UNCHANGED vars
  <2>1. HeadersQuiet BY <1>2, QuietEffects DEF vars, db
  <2> QED BY <1>1, <1>2, <2>1, QuietStep DEF vars
<1>3. ASSUME NEW w \in Workers, Crash(w) PROVE Numbers'
  <2>1. JobsQuiet BY <1>3, QuietMoves DEF Crash
  <2>2. HeadersQuiet BY <1>3, QuietEffects DEF Crash
  <2> QED BY <2>1, <2>2, QuietStep
<1>4. CASE Other
  <2>1. ASSUME NEW e \in EntryIds, CommitDraft(e) PROVE Numbers'
    BY <2>1, <1>1, CommitStep DEF CommitDraft
  <2>2. ASSUME NEW e \in EntryIds, CancelOrphan(e) PROVE Numbers'
    <3>1. HeadersQuiet BY <2>2, QuietEffects DEF CancelOrphan
    <3> QED BY <2>2, <3>1, <1>1, QuietStep DEF CancelOrphan
  <2>3. ASSUME NEW p \in Periods, LockPeriod(p) \/ UnlockPeriod(p)
        PROVE  Numbers'
    <3>1. UNCHANGED <<entry, lastNumber, job>>
      BY <2>3 DEF LockPeriod, UnlockPeriod, SetLock
    <3>2. HeadersQuiet BY <3>1 DEF HeadersQuiet, Present
    <3> QED BY <3>1, <3>2, <1>1, QuietStep
  <2> QED BY <1>4, <2>1, <2>2, <2>3 DEF Other
<1> QED BY <1>2, <1>3, <1>4, NumberStart, NumberAdvance DEF Next

LEMMA NumbersAlways == Spec => []Numbers
<1>1. Init => Numbers
  BY JournalAssumption DEF Init, Numbers, HeldNumberFresh, Idle, Header,
     NoEntry, Present, EntryIds
<1>2. Numbers /\ IType /\ IType' /\ [Next]_vars => Numbers' BY NumberStep
<1> QED BY <1>1, <1>2, TypeAlways, PTL DEF Spec

(* A voucher number is handed out once: whatever fails, the number a request *)
(* holds is on no header and in no other request's hand until it is written. *)
THEOREM NumbersFresh == Spec => []HeldNumberFresh
<1>1. Numbers => HeldNumberFresh BY DEF Numbers
<1> QED BY <1>1, NumbersAlways, PTL

-----------------------------------------------------------------------------
(* The series has no gap. A number is lost when its request fails between    *)
(* handing it out and writing it, when a period is locked in between, or     *)
(* when a draft that already carries a number is posted by hand and gets a   *)
(* second one; without those every number ends up on a header.               *)

Holds(w, p, n) ==
    job[w].pc = "insert" /\ OwnPeriod(w) = p /\ job[w].number = n

(* A draft by createDraftEntry carries no number yet, and a request that     *)
(* reverses or corrects finds its original there.                            *)
Gapless ==
    /\ NoGap
    /\ \A e \in EntryIds :
          entry[e].source = "regular" /\ entry[e].status = "draft"
              => entry[e].number = 0
    /\ \A w \in Workers : job[w].role # "regular" => Present(job[w].orig)

(* No header goes away or loses its number, and no new draft appears.        *)
HeadersStay ==
    \A e \in EntryIds :
        /\ Present(e) => /\ Present(e)'
                         /\ entry'[e].number = entry[e].number
                         /\ entry'[e].period = entry[e].period
        /\ entry'[e].source = entry[e].source
        /\ entry'[e].status = "draft" => entry[e].status = "draft"

OriginalsStay ==
    \A w \in Workers : job'[w].role # "regular" =>
        \/ job[w].role # "regular" /\ job'[w].orig = job[w].orig
        \/ job'[w].orig \in EntryIds /\ Present(job'[w].orig)

LEMMA GaplessQuiet ==
    ASSUME IType, Accounted, Gapless, HeadersStay, OriginalsStay,
           lastNumber' = lastNumber,
           \A w \in Workers, p \in Periods, n \in Nat :
              n > 0 /\ Holds(w, p, n) => Holds(w, p, n)'
    PROVE  Gapless'
<1>1. ASSUME NEW p \in Periods, NEW n \in 1..lastNumber[p]
      PROVE  \/ ~NumberFree(p, n)'
             \/ \E w \in Workers : Holds(w, p, n)'
  <2>1. n \in Nat /\ n > 0 BY DEF IType, TypeOK
  <2>2. \/ ~NumberFree(p, n) \/ \E w \in Workers : Holds(w, p, n)
    BY DEF Gapless, NoGap, Holds
  <2>3. ~NumberFree(p, n) => ~NumberFree(p, n)'
    BY DEF NumberFree, HeadersStay
  <2> QED BY <2>1, <2>2, <2>3
<1>2. NoGap' BY <1>1 DEF NoGap, Holds
<1>3. \A e \in EntryIds :
         entry'[e].source = "regular" /\ entry'[e].status = "draft"
             => entry'[e].number = 0
  BY DEF HeadersStay, Gapless, Present
<1>4. ASSUME NEW w \in Workers, job'[w].role # "regular"
      PROVE  Present(job[w].orig)'
  <2>1. PICK o : o = job'[w].orig OBVIOUS
  <2>2. o \in EntryIds /\ Present(o)
    BY <1>4, <2>1 DEF OriginalsStay, Gapless, Accounted, Tended
  <2>3. Present(o)' BY <2>2 DEF HeadersStay
  <2> QED BY <2>1, <2>3 DEF Present
<1> QED BY <1>2, <1>3, <1>4 DEF Gapless

LEMMA StayEffects ==
    ASSUME IType
    PROVE  /\ UNCHANGED db => HeadersStay /\ lastNumber' = lastNumber
           /\ \A e, b : SetLines(e, b) =>
                 HeadersStay /\ lastNumber' = lastNumber
           /\ \A e \in EntryIds : \A s \in {"posted", "cancelled"} :
                 SetStatus(e, s) => HeadersStay /\ lastNumber' = lastNumber
           /\ \A o, s : LinkReversal(o, s) /\ ReversalAccepted(o, s) =>
                 HeadersStay /\ lastNumber' = lastNumber
           /\ \A p : ConsumeNumber(p) => HeadersStay
<1> USE DEF IType, TypeOK, HeadersStay, Entry, Present
<1>1. UNCHANGED db => HeadersStay /\ lastNumber' = lastNumber BY DEF db
<1>2. \A e, b : SetLines(e, b) => HeadersStay /\ lastNumber' = lastNumber
  BY DEF SetLines
<1>3. \A e \in EntryIds : \A s \in {"posted", "cancelled"} :
         SetStatus(e, s) => HeadersStay /\ lastNumber' = lastNumber
  BY DEF SetStatus
<1>4. \A o, s : LinkReversal(o, s) /\ ReversalAccepted(o, s) =>
         HeadersStay /\ lastNumber' = lastNumber
  BY DEF LinkReversal, ReversalAccepted
<1>5. \A p : ConsumeNumber(p) => HeadersStay BY DEF ConsumeNumber
<1> QED BY <1>1, <1>2, <1>3, <1>4, <1>5

(* A step of a request is a step of its own, and keeps its original.         *)
LEMMA AdvanceMoves ==
    ASSUME IType, NEW w \in Workers, Advance(w)
    PROVE  /\ \A v \in Workers \ {w} : job'[v] = job[v]
           /\ job'[w].role # "regular" => /\ job[w].role # "regular"
                                          /\ job'[w].orig = job[w].orig
<1> USE DEF IType, TypeOK
<1>1. ASSUME Finish(w)
      PROVE  \E j : /\ job' = [job EXCEPT ![w] = j]
                    /\ j.role = "regular"
  <2>1. Idle.role = "regular" BY DEF Idle
  <2> QED BY <1>1, <2>1 DEF Finish
<1>2. ASSUME NEW step, Goto(w, step)
      PROVE  \E j : /\ job' = [job EXCEPT ![w] = j]
                    /\ j.role = job[w].role /\ j.orig = job[w].orig
  <2> DEFINE j == [job[w] EXCEPT !.pc = step]
  <2>1. job' = [job EXCEPT ![w] = j] BY <1>2 DEF Goto
  <2>2. j.role = job[w].role /\ j.orig = job[w].orig BY DEF Job
  <2> QED BY <2>1, <2>2
<1>3. ASSUME NEW es, Abandon(w, es)
      PROVE  \E j : /\ job' = [job EXCEPT ![w] = j]
                    /\ j.role = "regular"
                       \/ (j.role = job[w].role /\ j.orig = job[w].orig)
  <2>1. CASE es = <<>> BY <1>1, <1>3, <2>1 DEF Abandon
  <2>2. CASE es # <<>>
    <3> DEFINE j == [[job[w] EXCEPT !.pc = "undo"] EXCEPT !.undo = es]
    <3>1. job' = [job EXCEPT ![w] = j] BY <1>3, <2>2 DEF Abandon
    <3>2. j.role = job[w].role /\ j.orig = job[w].orig BY DEF Job
    <3> QED BY <3>1, <3>2
  <2> QED BY <2>1, <2>2
<1>4. ASSUME NEW n, job' = [job EXCEPT ![w].pc = "insert", ![w].number = n]
      PROVE  \E j : /\ job' = [job EXCEPT ![w] = j]
                    /\ j.role = job[w].role /\ j.orig = job[w].orig
  <2> DEFINE j == [[job[w] EXCEPT !.pc = "insert"] EXCEPT !.number = n]
  <2>1. job' = [job EXCEPT ![w] = j] BY <1>4
  <2>2. j.role = job[w].role /\ j.orig = job[w].orig BY DEF Job
  <2> QED BY <2>1, <2>2
<1>5. ASSUME Remember(w)
      PROVE  \E j : /\ job' = [job EXCEPT ![w] = j]
                    /\ j.role = job[w].role /\ j.orig = job[w].orig
  <2> DEFINE j == [[[job[w] EXCEPT !.pc = "lines"] EXCEPT !.own = nextId]
                     EXCEPT !.storno = IF job[w].role = "storno" THEN nextId
                                       ELSE job[w].storno]
  <2>1. job' = [job EXCEPT ![w] = j] BY <1>5 DEF Remember
  <2>2. j.role = job[w].role /\ j.orig = job[w].orig BY DEF Job
  <2> QED BY <2>1, <2>2
<1>6. ASSUME job[w].role = "storno",
             job' = [job EXCEPT ![w].pc = "number", ![w].role = "correction"]
      PROVE  \E j : /\ job' = [job EXCEPT ![w] = j]
                    /\ job[w].role # "regular" /\ j.orig = job[w].orig
  <2> DEFINE j == [[job[w] EXCEPT !.pc = "number"] EXCEPT !.role = "correction"]
  <2>1. job' = [job EXCEPT ![w] = j] BY <1>6
  <2>2. j.orig = job[w].orig BY DEF Job
  <2> QED BY <1>6, <2>1, <2>2
<1>7. \/ Finish(w) \/ \E step : Goto(w, step)
      \/ \E es : Abandon(w, es)
      \/ \E n : job' = [job EXCEPT ![w].pc = "insert", ![w].number = n]
      \/ Remember(w)
      \/ /\ job[w].role = "storno"
         /\ job' = [job EXCEPT ![w].pc = "number", ![w].role = "correction"]
  BY DEF Advance, AllocateNumber, InsertHeader, InsertLines, CancelDraft,
     Commit, CancelIfDraft, Post, MarkReversed, UndoHeader, UndoLines,
     Statement, CancelOwn, CancelEarlier, GoOn
<1> DEFINE Moved == \E j : /\ job' = [job EXCEPT ![w] = j]
                           /\ j.role # "regular" =>
                                 /\ job[w].role # "regular"
                                 /\ j.orig = job[w].orig
<1>8. Moved
  <2>1. CASE Finish(w) BY <1>1, <2>1
  <2>2. ASSUME NEW step, Goto(w, step) PROVE Moved BY <1>2, <2>2
  <2>3. ASSUME NEW es, Abandon(w, es) PROVE Moved BY <1>3, <2>3
  <2>4. ASSUME NEW n,
               job' = [job EXCEPT ![w].pc = "insert", ![w].number = n]
        PROVE  Moved
    BY <1>4, <2>4
  <2> QED BY <1>5, <1>6, <1>7, <2>1, <2>2, <2>3, <2>4
<1> QED BY <1>8

LEMMA AdvanceOriginals ==
    ASSUME IType, NEW w \in Workers, Advance(w)
    PROVE  OriginalsStay
BY AdvanceMoves DEF OriginalsStay

(* A request that is not about to write its number gives none up.            *)
LEMMA HoldersStay ==
    ASSUME IType, NEW w \in Workers, job[w].pc # "insert",
           \A v \in Workers \ {w} : job'[v] = job[v]
    PROVE  \A v \in Workers : \A p, n : Holds(v, p, n) => Holds(v, p, n)'
BY DEF Holds, OwnPeriod

LEMMA IssueGapless ==
    ASSUME IType, Numbers, Accounted, Gapless, NEW w \in Workers,
           Faults = {}, AllocateNumber(w)
    PROVE  Gapless'
<1> USE DEF IType, TypeOK
<1>1. PICK p \in Periods : p = OwnPeriod(w) BY DEF OwnPeriod, Job
<1>n. PICK n \in Nat : n = lastNumber[p] + 1 OBVIOUS
<1> DEFINE j == [[job[w] EXCEPT !.pc = "insert"] EXCEPT !.number = n]
<1>2. /\ job[w].pc = "number" /\ ConsumeNumber(p)
      /\ job' = [job EXCEPT ![w].pc = "insert", ![w].number = n]
  BY <1>n, <1>1 DEF AllocateNumber, At, Statement
<1>3. job' = [job EXCEPT ![w] = j] BY <1>2
<1>4. /\ j.pc = "insert" /\ j.number = n /\ j.role = job[w].role
      /\ j.home = job[w].home /\ j.target = job[w].target
      /\ j.orig = job[w].orig
  BY DEF Job
<1>5. lastNumber[p] \in Nat
      /\ lastNumber' = [lastNumber EXCEPT ![p] = n]
  BY <1>n, <1>2 DEF ConsumeNumber
<1> HIDE DEF j
<1>6. job'[w] = j /\ \A v \in Workers \ {w} : job'[v] = job[v] BY <1>3
<1>7. Holds(w, p, n)' BY <1>1, <1>4, <1>6 DEF Holds, OwnPeriod
<1>8. HeadersStay BY <1>2, StayEffects
<1>9. \A v \in Workers : \A q, m : Holds(v, q, m) => Holds(v, q, m)'
  BY <1>2, <1>6, HoldersStay
<1>10. ASSUME NEW q \in Periods, NEW m \in 1..lastNumber'[q]
       PROVE  \/ ~NumberFree(q, m)' \/ \E v \in Workers : Holds(v, q, m)'
  <2>1. CASE q = p /\ m = n BY <1>7, <2>1
  <2>2. CASE ~(q = p /\ m = n)
    <3>1. m \in 1..lastNumber[q] BY <1>n, <1>5, <1>10, <2>2
    <3>2. \/ ~NumberFree(q, m) \/ \E v \in Workers : Holds(v, q, m)
      BY <3>1 DEF Gapless, NoGap, Holds
    <3>3. ~NumberFree(q, m) => ~NumberFree(q, m)'
      BY <1>8 DEF NumberFree, HeadersStay
    <3> QED BY <1>9, <3>2, <3>3
  <2> QED BY <2>1, <2>2
<1>11. NoGap' BY <1>10 DEF NoGap, Holds
<1>12. \A e \in EntryIds :
          entry'[e].source = "regular" /\ entry'[e].status = "draft"
              => entry'[e].number = 0
  BY <1>2 DEF ConsumeNumber, Gapless
<1>13. \A v \in Workers : job'[v].role # "regular" => Present(job[v].orig)'
  BY <1>2, <1>4, <1>6 DEF Gapless, ConsumeNumber, Present
<1> QED BY <1>11, <1>12, <1>13 DEF Gapless

(* A posted draft takes the next number, and had none to lose.               *)
LEMMA CommitGapless ==
    ASSUME IType, Accounted, Gapless, NEW e \in EntryIds,
           entry[e].source = "regular", CommitAccepted(e), CommitEffect(e),
           OriginalsStay,
           \A w \in Workers, p \in Periods, n \in Nat :
              n > 0 /\ Holds(w, p, n) => Holds(w, p, n)'
    PROVE  Gapless'
<1> USE DEF IType, TypeOK, Entry
<1>1. PICK p \in Periods : p = entry[e].period OBVIOUS
<1>n. PICK n \in Nat : n = lastNumber[p] + 1 OBVIOUS
<1>2. /\ entry[e].status = "draft" /\ entry[e].number = 0
      /\ lastNumber[p] \in Nat
      /\ lastNumber' = [lastNumber EXCEPT ![p] = n]
  BY <1>n, <1>1 DEF CommitAccepted, CommitEffect, Gapless
<1>3. /\ entry'[e].status = "posted" /\ entry'[e].number = n
      /\ entry'[e].period = p
      /\ \A f \in EntryIds \ {e} : entry'[f] = entry[f]
  BY <1>n, <1>1 DEF CommitEffect
<1>4. ~NumberFree(p, n)' BY <1>n, <1>2, <1>3 DEF NumberFree, Present
<1>5. \A q, m : m > 0 /\ ~NumberFree(q, m) => ~NumberFree(q, m)'
  <2>1. ASSUME NEW q, NEW m, m > 0, ~NumberFree(q, m)
        PROVE  ~NumberFree(q, m)'
    <3>1. PICK f \in EntryIds : /\ Present(f) /\ entry[f].period = q
                                /\ entry[f].number = m
      BY <2>1 DEF NumberFree
    <3>2. f # e BY <1>2, <2>1, <3>1
    <3> QED BY <1>3, <2>1, <3>1, <3>2 DEF NumberFree, Present
  <2> QED BY <2>1
<1>6. ASSUME NEW q \in Periods, NEW m \in 1..lastNumber'[q]
      PROVE  \/ ~NumberFree(q, m)' \/ \E v \in Workers : Holds(v, q, m)'
  <2>1. CASE q = p /\ m = n BY <1>4, <2>1
  <2>2. CASE ~(q = p /\ m = n)
    <3>1. m \in 1..lastNumber[q] BY <1>n, <1>2, <1>6, <2>2
    <3>2. \/ ~NumberFree(q, m) \/ \E v \in Workers : Holds(v, q, m)
      BY <3>1 DEF Gapless, NoGap, Holds
    <3>3. m \in Nat /\ m > 0 BY <3>1, <1>2
    <3> QED BY <1>5, <3>2, <3>3
  <2> QED BY <2>1, <2>2
<1>7. NoGap' BY <1>6 DEF NoGap, Holds
<1>8. \A f \in EntryIds :
         entry'[f].source = "regular" /\ entry'[f].status = "draft"
             => entry'[f].number = 0
  BY <1>3 DEF Gapless
<1>9. \A f \in EntryIds : Present(f) => Present(f)' BY <1>3 DEF Present
<1>10. ASSUME NEW w \in Workers, job'[w].role # "regular"
       PROVE  Present(job[w].orig)'
  <2>1. PICK o : o = job'[w].orig OBVIOUS
  <2>2. o \in EntryIds /\ Present(o)
    BY <1>10, <2>1 DEF OriginalsStay, Gapless, Accounted, Tended
  <2>3. Present(o)' BY <1>9, <2>2
  <2> QED BY <2>1, <2>3 DEF Present
<1> QED BY <1>7, <1>8, <1>10 DEF Gapless

(* The held number goes to the new header: the insert cannot be refused.     *)
LEMMA WriteGapless ==
    ASSUME IType, Apart, Numbers, Accounted, Gapless, NEW w \in Workers,
           Faults = {}, InsertHeader(w)
    PROVE  Gapless'
<1> USE DEF IType, TypeOK
<1> DEFINE h == OwnHeader(w)
<1>1. /\ h.status = "draft" /\ h.source = job[w].role
      /\ h.number = job[w].number /\ h.period = OwnPeriod(w)
      /\ h.reverses \in {None, job[w].orig}
      /\ h.corrects \in {None, job[w].orig}
  BY DEF OwnHeader, Header
<1>2. job[w].pc = "insert" /\ OwnPeriod(w) \in Periods
  BY DEF InsertHeader, At, OwnPeriod, Job
<1>3. Tended(w) BY DEF Accounted
<1>4. \A v \in Workers \ {w} : job'[v] = job[v]
  BY AdvanceMoves DEF Advance
<1>5. OriginalsStay BY AdvanceOriginals DEF Advance
<1>6. \/ InsertAccepted(h) /\ InsertEffect(h)
      \/ ~InsertAccepted(h) /\ UNCHANGED db
  BY DEF InsertHeader, Statement
<1> HIDE DEF h
<1>7. \A v \in Workers \ {w} : \A p, n : Holds(v, p, n) => Holds(v, p, n)'
  BY <1>4 DEF Holds, OwnPeriod
<1>8. CASE ~InsertAccepted(h) /\ UNCHANGED db
  <2>1. job[w].role = "regular"
    <3>1. SUFFICES ASSUME job[w].role # "regular" PROVE FALSE OBVIOUS
    <3>2. ~locked[h.period] BY <1>1, <1>2 DEF Accounted
    <3>3. NumberFree(h.period, h.number)
      BY <1>1, <1>2, <3>1 DEF Numbers, HeldNumberFresh
    <3>4. Present(job[w].orig) BY <3>1 DEF Gapless
    <3> QED BY <1>1, <1>8, <3>2, <3>3, <3>4 DEF InsertAccepted
  <2>2. job[w].number = 0 BY <2>1 DEF Numbers
  <2>3. HeadersStay /\ lastNumber' = lastNumber BY <1>8, StayEffects
  <2>4. \A p \in Periods, n \in Nat : n > 0 => ~Holds(w, p, n)
    BY <2>2 DEF Holds
  <2> QED BY <1>5, <1>7, <2>3, <2>4, GaplessQuiet
<1>9. CASE InsertAccepted(h) /\ InsertEffect(h)
  <2>1. PICK i \in EntryIds : i = nextId BY <1>9 DEF InsertEffect
  <2>2. /\ entry'[i] = h /\ lastNumber' = lastNumber
        /\ \A e \in EntryIds \ {i} : entry'[e] = entry[e]
    BY <1>9, <2>1 DEF InsertEffect
  <2>3. ~Present(i) BY <2>1 DEF Apart
  <2>4. \A p, n : ~NumberFree(p, n) => ~NumberFree(p, n)'
    BY <2>2, <2>3 DEF NumberFree, Present
  <2>5. \A p \in Periods, n \in Nat :
           n > 0 /\ Holds(w, p, n) => ~NumberFree(p, n)'
    BY <1>1, <2>2 DEF Holds, NumberFree, Present
  <2>6. ASSUME NEW p \in Periods, NEW n \in 1..lastNumber[p]
        PROVE  \/ ~NumberFree(p, n)' \/ \E v \in Workers : Holds(v, p, n)'
    <3>1. \/ ~NumberFree(p, n) \/ \E v \in Workers : Holds(v, p, n)
      BY DEF Gapless, NoGap, Holds
    <3>2. n \in Nat /\ n > 0 OBVIOUS
    <3> QED BY <1>7, <2>4, <2>5, <3>1, <3>2
  <2>7. NoGap' BY <2>2, <2>6 DEF NoGap, Holds
  <2>8. \A e \in EntryIds :
           entry'[e].source = "regular" /\ entry'[e].status = "draft"
               => entry'[e].number = 0
    BY <1>1, <2>2 DEF Gapless, Numbers
  <2>9. \A e \in EntryIds : Present(e) => Present(e)'
    BY <1>1, <2>2 DEF Present
  <2>10. ASSUME NEW v \in Workers, job'[v].role # "regular"
         PROVE  Present(job[v].orig)'
    <3>1. PICK o : o = job'[v].orig OBVIOUS
    <3>2. o \in EntryIds /\ Present(o)
      BY <1>5, <2>10, <3>1 DEF OriginalsStay, Gapless, Accounted, Tended
    <3>3. Present(o)' BY <2>9, <3>2
    <3> QED BY <3>1, <3>3 DEF Present
  <2> QED BY <2>7, <2>8, <2>10 DEF Gapless
<1> QED BY <1>6, <1>8, <1>9

LEMMA AdvanceGapless ==
    ASSUME IType, Apart, Numbers, Accounted, Gapless, NEW w \in Workers,
           Advance(w), Faults = {}
    PROVE  Gapless'
<1>1. OriginalsStay BY AdvanceOriginals
<1>2. ASSUME job[w].pc # "insert"
      PROVE  \A v \in Workers, p \in Periods, n \in Nat :
                n > 0 /\ Holds(v, p, n) => Holds(v, p, n)'
  BY <1>2, AdvanceMoves, HoldersStay
<1>3. ASSUME job[w].pc # "insert", HeadersStay, lastNumber' = lastNumber
      PROVE  Gapless'
  BY <1>1, <1>2, <1>3, GaplessQuiet
<1>4. job[w].pc \in {"lines", "post", "commit", "cancelDraft", "cleanup"}
        => job[w].own \in EntryIds
  BY DEF IType, Hands
<1>5. UNCHANGED db => HeadersStay /\ lastNumber' = lastNumber
  BY StayEffects
<1>6. CASE AllocateNumber(w) BY <1>6, IssueGapless
<1>7. CASE InsertHeader(w) BY <1>7, WriteGapless
<1>8. CASE InsertLines(w)
  BY <1>3, <1>5, <1>8, StayEffects DEF InsertLines, At, Statement
<1>9. CASE CancelDraft(w)
  BY <1>3, <1>4, <1>5, <1>9, StayEffects DEF CancelDraft, At, Statement
<1>10. CASE Commit(w)
  <2>1. job[w].pc = "commit" BY <1>10 DEF Commit, At
  <2>2. \/ CommitAccepted(job[w].own) /\ CommitEffect(job[w].own)
        \/ UNCHANGED db
    BY <1>10 DEF Commit, Statement
  <2>3. job[w].role = "regular" /\ entry[job[w].own].source = "regular"
    <3>1. Tended(w) BY DEF Accounted
    <3> QED BY <1>4, <2>1, <3>1 DEF Tended, Busy
  <2> QED BY <1>1, <1>2, <1>3, <1>4, <1>5, <2>1, <2>2, <2>3, CommitGapless
<1>11. CASE CancelIfDraft(w)
  BY <1>3, <1>4, <1>5, <1>11, StayEffects DEF CancelIfDraft, At, Statement
<1>12. CASE Post(w)
  BY <1>3, <1>4, <1>5, <1>12, StayEffects DEF Post, At, Statement
<1>13. CASE MarkReversed(w)
  BY <1>3, <1>5, <1>13, StayEffects DEF MarkReversed, At, Statement
<1>14. CASE UndoHeader(w)
  <2>1. job[w].undo \in Seq(EntryIds) /\ job[w].undo # <<>>
        /\ job[w].pc = "undo"
    BY <1>14 DEF UndoHeader, At, IType, TypeOK, Hands, Job
  <2>2. Head(job[w].undo) \in EntryIds BY <2>1
  <2> QED BY <1>3, <1>5, <1>14, <2>1, <2>2, StayEffects
          DEF UndoHeader, Statement
<1>15. CASE UndoLines(w)
  BY <1>3, <1>5, <1>15, StayEffects DEF UndoLines, At, Statement
<1> QED BY <1>6, <1>7, <1>8, <1>9, <1>10, <1>11, <1>12, <1>13, <1>14, <1>15
    DEF Advance

LEMMA StartGapless ==
    ASSUME IType, Accounted, Gapless, NEW w \in Workers, Start(w)
    PROVE  Gapless'
<1>1. ASSUME NEW j, Begin(w, j),
             j.role = "regular"
             \/ (j.orig \in EntryIds /\ entry[j.orig].status = "posted")
      PROVE  Gapless'
  <2>1. job' = [job EXCEPT ![w] = j] /\ UNCHANGED db /\ job[w].pc = "idle"
    BY <1>1 DEF Begin
  <2>2. job'[w] = j /\ \A v \in Workers \ {w} : job'[v] = job[v]
    BY <2>1 DEF IType, TypeOK
  <2>3. HeadersStay /\ lastNumber' = lastNumber BY <2>1, StayEffects
  <2>4. OriginalsStay BY <1>1, <2>2 DEF OriginalsStay, Present
  <2>5. \A v \in Workers : \A p, n : Holds(v, p, n) => Holds(v, p, n)'
    BY <2>1, <2>2, HoldersStay
  <2> QED BY <2>3, <2>4, <2>5, GaplessQuiet
<1>2. ASSUME NEW p \in Periods, StartCreate(w, p) PROVE Gapless'
  <2> DEFINE j == [[Idle EXCEPT !.pc = "insert"] EXCEPT !.target = p]
  <2>1. j.role = "regular" BY DEF Idle
  <2>2. Begin(w, j) BY <1>2 DEF StartCreate
  <2> HIDE DEF j
  <2> QED BY <2>1, <2>2, <1>1
<1>3. ASSUME NEW e \in EntryIds, StartReverse(w, e) PROVE Gapless'
  <2> DEFINE j == [Idle EXCEPT !.pc = "number", !.op = "reverse",
                               !.role = "storno", !.orig = e,
                               !.home = entry[e].period]
  <2>1. j.orig = e BY DEF Idle
  <2>2. Begin(w, j) BY <1>3 DEF StartReverse
  <2> HIDE DEF j
  <2> QED BY <1>1, <1>3, <2>1, <2>2 DEF StartReverse
<1>4. ASSUME NEW e \in EntryIds, NEW p \in Periods, StartCorrect(w, e, p)
      PROVE  Gapless'
  <2> DEFINE j == [Idle EXCEPT !.pc = "number", !.op = "correct",
                               !.role = "storno", !.orig = e,
                               !.home = entry[e].period, !.target = p]
  <2>1. j.orig = e BY DEF Idle
  <2>2. Begin(w, j) BY <1>4 DEF StartCorrect
  <2> HIDE DEF j
  <2> QED BY <1>1, <1>4, <2>1, <2>2 DEF StartCorrect
<1> QED BY <1>2, <1>3, <1>4 DEF Start

LEMMA StepGapless ==
    ASSUME IType, Apart, Numbers, Accounted, Gapless, [Next]_vars,
           Faults = {}, Lockable = {}, Committable \subseteq {"regular"}
    PROVE  Gapless'
<1>1. ASSUME UNCHANGED job
      PROVE  /\ OriginalsStay
             /\ \A w \in Workers, p \in Periods, n \in Nat :
                   n > 0 /\ Holds(w, p, n) => Holds(w, p, n)'
  <2>1. \A w \in Workers : \A p, n : Holds(w, p, n) => Holds(w, p, n)'
    BY <1>1 DEF Holds, OwnPeriod
  <2>2. OriginalsStay BY <1>1 DEF OriginalsStay
  <2> QED BY <2>1, <2>2
<1>2. CASE UNCHANGED vars
  <2>1. HeadersStay /\ lastNumber' = lastNumber BY <1>2, StayEffects DEF vars, db
  <2> QED BY <1>1, <1>2, <2>1, GaplessQuiet DEF vars
<1>3. CASE Other
  <2>1. ASSUME NEW e \in EntryIds, CommitDraft(e) PROVE Gapless'
    <3>1. /\ entry[e].source = "regular" /\ UNCHANGED job
          /\ CommitAccepted(e) /\ CommitEffect(e)
      BY <2>1 DEF CommitDraft
    <3> QED BY <1>1, <3>1, CommitGapless
  <2>2. ASSUME NEW e \in EntryIds, CancelOrphan(e) PROVE Gapless'
    <3>1. HeadersStay /\ lastNumber' = lastNumber /\ UNCHANGED job
      BY <2>2, StayEffects DEF CancelOrphan
    <3> QED BY <1>1, <3>1, GaplessQuiet
  <2> QED BY <1>3, <2>1, <2>2 DEF Other, LockPeriod, UnlockPeriod
<1>4. \A w \in Workers : ~Crash(w) BY DEF Crash
<1> QED BY <1>2, <1>3, <1>4, StartGapless, AdvanceGapless DEF Next

LEMMA GaplessAlways ==
    ASSUME Faults = {}, Lockable = {}, Committable \subseteq {"regular"}
    PROVE  Spec => []Gapless
<1>1. Init => Gapless
  <2> SUFFICES ASSUME Init PROVE Gapless OBVIOUS
  <2>1. Seeds \in Nat /\ FirstPeriod \in Periods BY JournalAssumption
  <2>2. ASSUME NEW p \in Periods, NEW n \in 1..lastNumber[p]
        PROVE  ~NumberFree(p, n)
    <3>1. p = FirstPeriod /\ n \in 1..Seeds BY <2>1, <2>2 DEF Init
    <3>2. n \in EntryIds BY <2>1, <3>1, JournalAssumption DEF EntryIds
    <3>3. /\ entry[n].status = "posted" /\ entry[n].period = FirstPeriod
          /\ entry[n].number = n
      BY <2>1, <3>1, <3>2 DEF Init, Header
    <3> QED BY <3>1, <3>2, <3>3 DEF NumberFree, Present
  <2>3. \A e \in EntryIds : entry[e].status # "draft"
    BY DEF Init, NoEntry, Header
  <2>4. \A w \in Workers : job[w].role = "regular" BY DEF Init, Idle
  <2> QED BY <2>2, <2>3, <2>4 DEF Gapless, NoGap
<1>2. /\ IType /\ Reversals /\ Numbers /\ Accounted /\ Gapless /\ [Next]_vars
      => Gapless'
  BY StepGapless DEF Reversals
<1>3. Spec => []Reversals BY ReversalsAlways
<1>4. Spec => []Accounted
  <2>1. Faults \subseteq {"lostReply"} OBVIOUS
  <2> QED BY <2>1, AccountedAlways
<1> QED BY <1>1, <1>2, <1>3, <1>4, TypeAlways, NumbersAlways, PTL DEF Spec

(* If no statement fails for a passing reason, nothing crashes, no period is *)
(* locked under way and no draft of a reversal or a correction is posted by  *)
(* hand, the voucher series has no gap: every number next_voucher_number has *)
(* handed out is on a header or in the hand of the request about to write it.*)
THEOREM SeriesGapless ==
    ASSUME Faults = {}, Lockable = {}, Committable \subseteq {"regular"}
    PROVE  Spec => []NoGap
<1>1. Gapless => NoGap BY DEF Gapless
<1>2. Spec => []Gapless BY GaplessAlways
<1> QED BY <1>1, <1>2, PTL
=============================================================================
