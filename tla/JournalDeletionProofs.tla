------------------------- MODULE JournalDeletionProofs -------------------------
(* Theorems about the journal with delete_last_voucher, for every number of  *)
(* processes, periods and vouchers: the links between vouchers survive       *)
(* deletion, whatever a request under way still knows of a deleted header.   *)
EXTENDS JournalDeletion, JournalReversalProofs

LEMMA DeleteTypes ==
    ASSUME IType, NEW e \in EntryIds, DeleteVoucher(e) \/ DeleteDraft(e)
    PROVE  IType'
<1> USE DEF IType, TypeOK
<1>1. NoEntry \in Entry BY RecordTypes
<1>2. CASE DeleteVoucher(e)
  <2>1. \A f \in EntryIds : Restored(f) \in Entry
    BY DEF Restored, Entry, Statuses
  <2>2. entry' \in [EntryIds -> Entry] BY <1>1, <1>2, <2>1 DEF DeleteVoucher
  <2>3. entry[e].period \in Periods BY DEF Entry
  <2>4. lastNumber' \in [Periods -> Nat] BY <1>2, <2>3 DEF DeleteVoucher
  <2> QED BY <1>2, <2>2, <2>4 DEF DeleteVoucher, Hands
<1>3. CASE DeleteDraft(e) BY <1>1, <1>3 DEF DeleteDraft, Hands
<1> QED BY <1>2, <1>3

LEMMA DeletionTypes == IType /\ [DeletionNext]_vars => IType'
BY TypeStep, DeleteTypes DEF DeletionNext

LEMMA DeletionTypeAlways == DeletionSpec => []IType
BY TypeInit, DeletionTypes, PTL DEF DeletionSpec

-----------------------------------------------------------------------------
(* Links between vouchers.                                                   *)

(* A header that may be pointed at is there and is no draft, for a draft     *)
(* can be deleted without a look at what points at it.                       *)
Firm(e) == e \in EntryIds /\ Present(e) /\ entry[e].status # "draft"

(* What a request knows by id is there as it remembers it, or was deleted.   *)
Aware(w) ==
    /\ \A e \in {job[w].orig, job[w].storno} \cap EntryIds : e < nextId
    /\ job[w].orig \in EntryIds /\ Present(job[w].orig)
          => entry[job[w].orig].status # "draft"
    /\ job[w].storno \in EntryIds /\ Present(job[w].storno) =>
          /\ entry[job[w].storno].reverses = job[w].orig
          /\ job[w].pc = "mark" \/ job[w].role = "correction"
                => entry[job[w].storno].status # "draft"

(* The strengthening of LinksResolve that every step preserves: a reversed   *)
(* original and its storno point at each other.                              *)
Links ==
    /\ \A e \in EntryIds : Present(e) =>
          /\ e < nextId
          /\ \A f \in {entry[e].reverses, entry[e].corrects} :
                f # None => Firm(f)
          /\ entry[e].reversedBy # None =>
                /\ Firm(entry[e].reversedBy)
                /\ entry[entry[e].reversedBy].reverses = e
    /\ \A w \in Workers : Aware(w)

(* No header comes or goes, or changes what it points at.                    *)
HeadersLinked ==
    /\ nextId' = nextId
    /\ \A e \in EntryIds :
          /\ Present(e)' <=> Present(e)
          /\ entry'[e].reverses = entry[e].reverses
          /\ entry'[e].corrects = entry[e].corrects
          /\ entry'[e].reversedBy = entry[e].reversedBy
          /\ entry'[e].status = "draft" => entry[e].status = "draft"

(* The request keeps what it knows, or forgets it.                           *)
Remembers(w) ==
    /\ job'[w].orig \in {job[w].orig, None}
    /\ job'[w].storno \in {job[w].storno, None}
    /\ job'[w].storno # None => job'[w].orig = job[w].orig
    /\ job'[w].pc = "mark" \/ job'[w].role = "correction"
          => job[w].pc = "mark" \/ job[w].role = "correction"

LEMMA LinkedHeaders ==
    ASSUME IType, Links, HeadersLinked
    PROVE  \A e \in EntryIds : Present(e)' =>
             /\ e < nextId'
             /\ \A f \in {entry'[e].reverses, entry'[e].corrects} :
                   f # None => Firm(f)'
             /\ entry'[e].reversedBy # None =>
                   /\ Firm(entry[e].reversedBy)'
                   /\ entry'[entry'[e].reversedBy].reverses = e
<1>1. \A f : Firm(f) => Firm(f)' BY DEF Firm, HeadersLinked
<1>2. ASSUME NEW e \in EntryIds, Present(e)'
      PROVE  /\ e < nextId'
             /\ \A f \in {entry'[e].reverses, entry'[e].corrects} :
                   f # None => Firm(f)'
             /\ entry'[e].reversedBy # None =>
                   /\ Firm(entry[e].reversedBy)'
                   /\ entry'[entry'[e].reversedBy].reverses = e
  <2>1. PICK s : s = entry[e].reversedBy /\ s = entry'[e].reversedBy
    BY DEF HeadersLinked
  <2>2. Present(e) /\ e < nextId' BY <1>2 DEF HeadersLinked, Links
  <2>3. \A f \in {entry'[e].reverses, entry'[e].corrects} :
           f # None => Firm(f)'
    BY <1>1, <2>2 DEF HeadersLinked, Links
  <2>4. s # None => Firm(s)' /\ entry'[s].reverses = e
    BY <1>1, <2>1, <2>2 DEF HeadersLinked, Links, Firm
  <2> QED BY <2>1, <2>2, <2>3, <2>4
<1> QED BY <1>2

LEMMA StillAware ==
    ASSUME IType, Links, HeadersLinked, NEW w \in Workers, Remembers(w)
    PROVE  Aware(w)'
<1>1. PICK o, s : o = job'[w].orig /\ s = job'[w].storno OBVIOUS
<1>2. Aware(w) BY DEF Links
<1>3. None \notin EntryIds BY DEF None, EntryIds
<1>4. \A e \in {o, s} \cap EntryIds : e < nextId'
  BY <1>1, <1>2, <1>3 DEF Aware, Remembers, HeadersLinked
<1>5. o \in EntryIds /\ Present(o)' => entry'[o].status # "draft"
  BY <1>1, <1>2, <1>3 DEF Aware, Remembers, HeadersLinked
<1>6. s \in EntryIds /\ Present(s)' =>
         /\ entry'[s].reverses = o
         /\ job'[w].pc = "mark" \/ job'[w].role = "correction"
               => entry'[s].status # "draft"
  BY <1>1, <1>2, <1>3 DEF Aware, Remembers, HeadersLinked
<1> QED BY <1>1, <1>4, <1>5, <1>6 DEF Aware, Present

LEMMA LinksFollow ==
    ASSUME IType, Links, HeadersLinked, \A w \in Workers : Aware(w)'
    PROVE  Links'
<1>1. \A e \in EntryIds : Present(e)' =>
         /\ e < nextId'
         /\ \A f \in {entry'[e].reverses, entry'[e].corrects} :
               f # None => Firm(f)'
         /\ entry'[e].reversedBy # None =>
               /\ Firm(entry[e].reversedBy)'
               /\ entry'[entry'[e].reversedBy].reverses = e
  BY LinkedHeaders
<1> QED BY <1>1 DEF Links

(* The statements that leave the links alone.                                *)
LEMMA LinkedEffects ==
    ASSUME IType
    PROVE  /\ UNCHANGED db => HeadersLinked
           /\ \A p : ConsumeNumber(p) => HeadersLinked
           /\ \A e, b : SetLines(e, b) => HeadersLinked
           /\ \A e \in EntryIds :
                 CommitAccepted(e) /\ CommitEffect(e) => HeadersLinked
           /\ \A e \in EntryIds : \A s \in {"posted", "cancelled"} :
                 SetStatus(e, s) => HeadersLinked
<1> USE DEF IType, TypeOK, HeadersLinked, Entry, Present
<1>1. UNCHANGED db => HeadersLinked BY DEF db
<1>2. \A p : ConsumeNumber(p) => HeadersLinked BY DEF ConsumeNumber
<1>3. \A e, b : SetLines(e, b) => HeadersLinked BY DEF SetLines
<1>4. \A e \in EntryIds : CommitAccepted(e) /\ CommitEffect(e) => HeadersLinked
  BY DEF CommitAccepted, CommitEffect
<1>5. \A e \in EntryIds : \A s \in {"posted", "cancelled"} :
         SetStatus(e, s) => HeadersLinked
  BY DEF SetStatus
<1> QED BY <1>1, <1>2, <1>3, <1>4, <1>5

(* A request that goes on, or gives up, and its neighbours.                  *)
LEMMA MovesRemember ==
    ASSUME IType, NEW w \in Workers,
           \/ Finish(w)
           \/ \E es : Abandon(w, es)
           \/ \E step : step # "mark" /\ Goto(w, step)
           \/ \E n : job' = [job EXCEPT ![w].pc = "insert", ![w].number = n]
    PROVE  \A v \in Workers : Remembers(v)
<1> USE DEF IType, TypeOK
<1>1. ASSUME NEW j, job' = [job EXCEPT ![w] = j],
             \/ /\ j.orig = None /\ j.storno = None
                /\ j.pc = "idle" /\ j.role = "regular"
             \/ /\ j.orig = job[w].orig /\ j.storno = job[w].storno
                /\ j.role = job[w].role /\ j.pc # "mark"
      PROVE  \A v \in Workers : Remembers(v)
  <2>1. job'[w] = j /\ \A v \in Workers \ {w} : job'[v] = job[v] BY <1>1
  <2>2. Remembers(w) BY <1>1, <2>1 DEF Remembers
  <2>3. \A v \in Workers \ {w} : Remembers(v) BY <2>1 DEF Remembers
  <2> QED BY <2>2, <2>3
<1>2. Idle.orig = None /\ Idle.storno = None /\ Idle.pc = "idle"
      /\ Idle.role = "regular"
  BY DEF Idle
<1>3. CASE Finish(w) BY <1>1, <1>2, <1>3 DEF Finish
<1>4. ASSUME NEW es, Abandon(w, es) PROVE \A v \in Workers : Remembers(v)
  <2>1. CASE es = <<>> BY <1>1, <1>2, <1>4, <2>1 DEF Abandon, Finish
  <2>2. CASE es # <<>>
    <3> DEFINE j == [[job[w] EXCEPT !.pc = "undo"] EXCEPT !.undo = es]
    <3>1. job' = [job EXCEPT ![w] = j] BY <1>4, <2>2 DEF Abandon
    <3>2. /\ j.orig = job[w].orig /\ j.storno = job[w].storno
          /\ j.role = job[w].role /\ j.pc # "mark"
      BY DEF Job
    <3> HIDE DEF j
    <3> QED BY <1>1, <3>1, <3>2
  <2> QED BY <2>1, <2>2
<1>5. ASSUME NEW step, step # "mark", Goto(w, step)
      PROVE  \A v \in Workers : Remembers(v)
  <2> DEFINE j == [job[w] EXCEPT !.pc = step]
  <2>1. job' = [job EXCEPT ![w] = j] BY <1>5 DEF Goto
  <2>2. /\ j.orig = job[w].orig /\ j.storno = job[w].storno
        /\ j.role = job[w].role /\ j.pc # "mark"
    BY <1>5 DEF Job
  <2> HIDE DEF j
  <2> QED BY <1>1, <2>1, <2>2
<1>6. ASSUME NEW n, job' = [job EXCEPT ![w].pc = "insert", ![w].number = n]
      PROVE  \A v \in Workers : Remembers(v)
  <2> DEFINE j == [[job[w] EXCEPT !.pc = "insert"] EXCEPT !.number = n]
  <2>1. job' = [job EXCEPT ![w] = j] BY <1>6
  <2>2. /\ j.orig = job[w].orig /\ j.storno = job[w].storno
        /\ j.role = job[w].role /\ j.pc # "mark"
    BY DEF Job
  <2> HIDE DEF j
  <2> QED BY <1>1, <2>1, <2>2
<1> QED BY <1>3, <1>4, <1>5, <1>6
-----------------------------------------------------------------------------
(* The steps that make or follow a link.                                     *)

(* The foreign keys: the original is there when the header is inserted.      *)
LEMMA InsertLinks ==
    ASSUME IType, Links, NEW w \in Workers,
           InsertAccepted(OwnHeader(w)), InsertEffect(OwnHeader(w)),
           Remember(w) \/ CancelEarlier(w)
    PROVE  Links'
<1> USE DEF IType, TypeOK
<1>1. PICK n \in EntryIds : n = nextId BY DEF InsertEffect
<1> DEFINE h == OwnHeader(w)
<1>2. /\ h.status = "draft" /\ h.reversedBy = None
      /\ h.reverses \in {None, job[w].orig}
      /\ h.corrects \in {None, job[w].orig}
      /\ job[w].role = "storno" => h.reverses = job[w].orig
      /\ \A f \in {h.reverses, h.corrects} : f # None => Present(f)
  BY DEF OwnHeader, Header, InsertAccepted
<1>3. /\ nextId' = n + 1 /\ n \in Nat /\ entry'[n] = h
      /\ \A e \in EntryIds : e # n => entry'[e] = entry[e]
  BY <1>1 DEF InsertEffect
<1> HIDE DEF h
<1>4. \A v \in Workers :
         \/ Remembers(v)
         \/ /\ v = w /\ job[w].role = "storno"
            /\ job'[w].storno = n /\ job'[w].orig = job[w].orig
            /\ ~(job'[w].pc = "mark" \/ job'[w].role = "correction")
  <2>1. CASE CancelEarlier(w)
    BY <2>1, MovesRemember DEF CancelEarlier
  <2>2. CASE Remember(w)
    <3> DEFINE j == [[[job[w] EXCEPT !.pc = "lines"] EXCEPT !.own = n]
                       EXCEPT !.storno = IF job[w].role = "storno" THEN n
                                         ELSE job[w].storno]
    <3>1. job' = [job EXCEPT ![w] = j] BY <1>1, <2>2 DEF Remember
    <3>2. /\ j.pc = "lines" /\ j.role = job[w].role /\ j.orig = job[w].orig
          /\ j.storno = IF job[w].role = "storno" THEN n ELSE job[w].storno
      BY DEF Job
    <3> HIDE DEF j
    <3>3. job'[w] = j /\ \A v \in Workers \ {w} : job'[v] = job[v] BY <3>1
    <3> QED BY <3>2, <3>3 DEF Remembers
  <2> QED BY <2>1, <2>2
<1>7. EntryIds \subseteq Nat /\ None \notin EntryIds BY DEF EntryIds, None
<1>8. ~Present(n) BY <1>1, <1>7 DEF Links
<1>9. \A f : Firm(f) => f # n /\ Firm(f)'
  BY <1>3, <1>8 DEF Firm, Present
<1>10. job[w].orig \in EntryIds /\ Present(job[w].orig) => Firm(job[w].orig)
  BY DEF Links, Aware, Firm
<1>11. \A f \in {h.reverses, h.corrects} : f # None => Firm(f)
  <2>1. job[w].orig # None => job[w].orig \in EntryIds BY DEF Job
  <2> QED BY <1>2, <1>10, <2>1
<1>12. ASSUME NEW e \in EntryIds, Present(e)'
       PROVE  /\ e < nextId'
              /\ \A f \in {entry'[e].reverses, entry'[e].corrects} :
                    f # None => Firm(f)'
              /\ entry'[e].reversedBy # None =>
                    /\ Firm(entry[e].reversedBy)'
                    /\ entry'[entry'[e].reversedBy].reverses = e
  <2>1. CASE e = n BY <1>2, <1>3, <1>9, <1>11, <2>1
  <2>2. CASE e # n
    <3>1. PICK s : s = entry[e].reversedBy /\ s = entry'[e].reversedBy
      BY <1>3, <2>2
    <3>2. Present(e) /\ entry'[e] = entry[e] BY <1>3, <1>12, <2>2 DEF Present
    <3>3. e < nextId' BY <1>1, <1>3, <1>7, <3>2 DEF Links
    <3>4. \A f \in {entry'[e].reverses, entry'[e].corrects} :
             f # None => Firm(f)'
      BY <1>9, <3>2 DEF Links
    <3>5. ASSUME s # None PROVE Firm(s)' /\ entry'[s].reverses = e
      <4>1. Firm(s) /\ entry[s].reverses = e BY <3>1, <3>2, <3>5 DEF Links
      <4>2. s \in EntryIds /\ s # n /\ Firm(s)' BY <1>9, <4>1 DEF Firm
      <4> QED BY <1>3, <4>1, <4>2
    <3> QED BY <3>1, <3>3, <3>4, <3>5
  <2> QED BY <2>1, <2>2
<1>13. ASSUME NEW v \in Workers PROVE Aware(v)'
  <2>1. PICK o, s : o = job'[v].orig /\ s = job'[v].storno OBVIOUS
  <2>2. Aware(v) BY DEF Links
  <2>3. o \in EntryIds => o = job[v].orig
    BY <1>4, <1>7, <2>1 DEF Remembers
  <2>4. \A e \in EntryIds : e < nextId => e # n /\ e < nextId'
    BY <1>1, <1>3, <1>7
  <2>5. o \in EntryIds => o # n /\ o < nextId'
    BY <2>2, <2>3, <2>4 DEF Aware
  <2>6. o \in EntryIds /\ Present(o)' => entry'[o].status # "draft"
    BY <1>3, <2>2, <2>3, <2>5 DEF Aware, Present
  <2>7. CASE /\ v = w /\ job[w].role = "storno"
             /\ job'[w].storno = n /\ job'[w].orig = job[w].orig
             /\ ~(job'[w].pc = "mark" \/ job'[w].role = "correction")
    <3>1. entry'[s].reverses = o BY <1>2, <1>3, <2>1, <2>7
    <3>2. s < nextId' BY <1>3, <2>1, <2>7
    <3> QED BY <2>1, <2>5, <2>6, <2>7, <3>1, <3>2 DEF Aware, Present
  <2>8. CASE Remembers(v)
    <3>1. s \in EntryIds => s = job[v].storno /\ o = job[v].orig
      BY <1>7, <2>1, <2>8 DEF Remembers
    <3>2. s \in EntryIds => s # n /\ s < nextId'
      BY <2>2, <2>4, <3>1 DEF Aware
    <3>3. s \in EntryIds /\ Present(s)' =>
             /\ entry'[s].reverses = o
             /\ job'[v].pc = "mark" \/ job'[v].role = "correction"
                   => entry'[s].status # "draft"
      BY <1>3, <2>2, <2>8, <3>1, <3>2 DEF Aware, Present, Remembers
    <3> QED BY <2>1, <2>5, <2>6, <3>2, <3>3 DEF Aware, Present
  <2> QED BY <1>4, <2>7, <2>8
<1> QED BY <1>12, <1>13 DEF Links

(* From here on the storno, if it is still there, is no draft.               *)
LEMMA PostLinks ==
    ASSUME IType, Links, NEW w \in Workers, job[w].pc = "post",
           SetStatus(job[w].own, "posted"), GoOn(w)
    PROVE  Links'
<1> USE DEF IType, TypeOK
<1>1. job[w].own \in EntryIds BY DEF Hands
<1>2. HeadersLinked BY <1>1, LinkedEffects
<1>3. /\ job'[w].orig = job[w].orig /\ job'[w].storno = job[w].storno
      /\ \A v \in Workers \ {w} : job'[v] = job[v]
  <2>1. CASE job[w].op = "correct" /\ job[w].role = "storno"
    <3> DEFINE j == [[job[w] EXCEPT !.pc = "number"] EXCEPT !.role = "correction"]
    <3>1. job' = [job EXCEPT ![w] = j] BY <2>1 DEF GoOn
    <3>2. j.orig = job[w].orig /\ j.storno = job[w].storno BY DEF Job
    <3> HIDE DEF j
    <3> QED BY <3>1, <3>2
  <2>2. CASE ~(job[w].op = "correct" /\ job[w].role = "storno")
    <3> DEFINE j == [job[w] EXCEPT !.pc = "mark"]
    <3>1. job' = [job EXCEPT ![w] = j] BY <2>2 DEF GoOn, Goto
    <3>2. j.orig = job[w].orig /\ j.storno = job[w].storno BY DEF Job
    <3> HIDE DEF j
    <3> QED BY <3>1, <3>2
  <2> QED BY <2>1, <2>2
<1>4. \A v \in Workers \ {w} : Remembers(v) BY <1>3 DEF Remembers
<1>5. Aware(w)'
  <2>1. PICK o, s : /\ o = job'[w].orig /\ s = job'[w].storno
                    /\ o = job[w].orig /\ s = job[w].storno
    BY <1>3
  <2>2. Aware(w) BY DEF Links
  <2>3. \A e \in {o, s} \cap EntryIds : e < nextId'
    BY <1>2, <2>1, <2>2 DEF Aware, HeadersLinked
  <2>4. o \in EntryIds /\ Present(o)' => entry'[o].status # "draft"
    BY <1>2, <2>1, <2>2 DEF Aware, HeadersLinked
  <2>5. ASSUME s \in EntryIds, Present(s)'
        PROVE  entry'[s].reverses = o /\ entry'[s].status # "draft"
    <3>1. Present(s) BY <1>2, <2>5 DEF HeadersLinked
    <3>2. entry[s].reverses = o BY <2>1, <2>2, <2>5, <3>1 DEF Aware
    <3>3. CASE job[w].role = "correction"
      <4>1. entry[s].status # "draft" BY <2>1, <2>2, <2>5, <3>1, <3>3 DEF Aware
      <4> QED BY <1>2, <2>5, <3>2, <4>1 DEF HeadersLinked
    <3>4. CASE job[w].role # "correction"
      <4>1. s = job[w].own BY <2>1, <3>4 DEF Hands, Job, Sources
      <4>2. entry'[s].status = "posted"
        BY <2>5, <3>1, <4>1 DEF SetStatus, Entry
      <4> QED BY <1>2, <2>5, <3>2, <4>2 DEF HeadersLinked
    <3> QED BY <3>3, <3>4
  <2> QED BY <2>1, <2>3, <2>4, <2>5 DEF Aware, Present
<1>6. \A v \in Workers : Aware(v)' BY <1>2, <1>4, <1>5, StillAware
<1> QED BY <1>2, <1>6, LinksFollow

(* The compare-and-set: the original points back at its storno.              *)
LEMMA MarkLinks ==
    ASSUME IType, Links, NEW w \in Workers, job[w].pc = "mark",
           ReversalAccepted(job[w].orig, job[w].storno),
           LinkReversal(job[w].orig, job[w].storno),
           \A v \in Workers : Remembers(v)
    PROVE  Links'
<1> USE DEF IType, TypeOK
<1>1. PICK s \in EntryIds : s = job[w].storno BY DEF Hands, Job, Sources
<1>2. PICK o : o = job[w].orig OBVIOUS
<1>3. entry[o].status = "posted" /\ Present(s)
  BY <1>1, <1>2 DEF ReversalAccepted
<1>4. /\ nextId' = nextId
      /\ \A e \in EntryIds :
           /\ entry'[e].reverses = entry[e].reverses
           /\ entry'[e].corrects = entry[e].corrects
           /\ e = o => /\ entry'[e].status = "reversed"
                       /\ entry'[e].reversedBy = s
           /\ e # o => entry'[e] = entry[e]
  BY <1>1, <1>2 DEF LinkReversal, Entry
<1>5. Aware(w) BY DEF Links
<1>6. entry[s].reverses = o /\ entry[s].status # "draft"
  BY <1>1, <1>2, <1>3, <1>5 DEF Aware
<1>7. \A f : Firm(f) => Firm(f)' BY <1>4 DEF Firm, Present
<1>8. Firm(s)' BY <1>3, <1>6, <1>7 DEF Firm
<1>9. ASSUME NEW e \in EntryIds, Present(e)'
      PROVE  /\ e < nextId'
             /\ \A f \in {entry'[e].reverses, entry'[e].corrects} :
                   f # None => Firm(f)'
             /\ entry'[e].reversedBy # None =>
                   /\ Firm(entry[e].reversedBy)'
                   /\ entry'[entry'[e].reversedBy].reverses = e
  <2>1. Present(e) BY <1>3, <1>4, <1>9 DEF Present
  <2>2. /\ e < nextId'
        /\ \A f \in {entry'[e].reverses, entry'[e].corrects} :
              f # None => Firm(f)'
    BY <1>4, <1>7, <2>1 DEF Links
  <2>3. PICK q : q = entry'[e].reversedBy OBVIOUS
  <2>4. q # None => Firm(q)' /\ entry'[q].reverses = e
    <3>1. CASE e = o BY <1>4, <1>6, <1>8, <2>3, <3>1
    <3>2. CASE e # o
      <4>1. q = entry[e].reversedBy BY <1>4, <2>3, <3>2
      <4> QED BY <1>4, <1>7, <2>1, <4>1 DEF Links, Firm
    <3> QED BY <3>1, <3>2
  <2> QED BY <2>2, <2>3, <2>4
<1>10. ASSUME NEW v \in Workers PROVE Aware(v)'
  <2>1. PICK p, r : p = job'[v].orig /\ r = job'[v].storno OBVIOUS
  <2>2. Aware(v) BY DEF Links
  <2>3. None \notin EntryIds BY DEF None, EntryIds
  <2>4. \A e \in EntryIds :
           /\ Present(e)' => Present(e)
           /\ entry'[e].status = "draft" => entry[e].status = "draft"
    BY <1>3, <1>4 DEF Present
  <2>5. \A e \in {p, r} \cap EntryIds : e < nextId'
    BY <1>4, <2>1, <2>2, <2>3 DEF Aware, Remembers
  <2>6. p \in EntryIds /\ Present(p)' => entry'[p].status # "draft"
    BY <2>1, <2>2, <2>3, <2>4 DEF Aware, Remembers
  <2>7. r \in EntryIds /\ Present(r)' =>
           /\ entry'[r].reverses = p
           /\ job'[v].pc = "mark" \/ job'[v].role = "correction"
                 => entry'[r].status # "draft"
    BY <1>4, <2>1, <2>2, <2>3, <2>4 DEF Aware, Remembers
  <2> QED BY <2>1, <2>5, <2>6, <2>7 DEF Aware, Present
<1> QED BY <1>9, <1>10 DEF Links

(* What the RPC deletes: nothing points at it, and the original of a deleted *)
(* storno no longer points at the storno.                                    *)
LEMMA DeleteEffect ==
    ASSUME IType, Links, NEW e \in EntryIds, DeleteVoucher(e) \/ DeleteDraft(e)
    PROVE  /\ nextId' = nextId /\ UNCHANGED job
           /\ entry'[e] = NoEntry
           /\ \A f \in EntryIds \ {e} :
                 /\ entry'[f].source = entry[f].source
                 /\ entry'[f].reverses = entry[f].reverses
                 /\ entry'[f].corrects = entry[f].corrects
                 /\ \/ entry'[f] = entry[f]
                    \/ /\ entry[e].reverses = f /\ entry[e].status # "draft"
                       /\ entry[f].status \in {"posted", "reversed"}
                       /\ entry'[f].status = "posted"
                       /\ entry'[f].reversedBy = None
           /\ \A f \in EntryIds : Present(f) /\ f # e =>
                 /\ e \notin {entry[f].reverses, entry[f].corrects}
                 /\ entry[f].reversedBy = e =>
                       entry'[f].reversedBy = None
<1> USE DEF IType, TypeOK
<1>1. None \notin EntryIds /\ NoEntry \in Entry
  BY RecordTypes DEF None, EntryIds
<1>2. CASE DeleteVoucher(e)
  <2>1. PICK o : o = entry[e].reverses OBVIOUS
  <2>2. /\ entry'[e] = NoEntry /\ entry[e].status = "posted"
        /\ nextId' = nextId /\ UNCHANGED job
        /\ o # None => entry[o].status \in {"posted", "reversed"}
        /\ \A f \in EntryIds \ {e} :
              entry'[f] = IF f = o THEN Restored(f) ELSE entry[f]
    BY <1>2, <2>1 DEF DeleteVoucher
  <2>3. \A f \in EntryIds :
           /\ Restored(f).source = entry[f].source
           /\ Restored(f).reverses = entry[f].reverses
           /\ Restored(f).corrects = entry[f].corrects
           /\ Restored(f).status = "posted" /\ Restored(f).reversedBy = None
    BY DEF Restored, Entry
  <2>4. \A f \in EntryIds : Present(f) /\ entry[f].reversedBy = e => f = o
    BY <1>1, <2>1 DEF Links
  <2>5. \A f \in EntryIds : Present(f) =>
           e \notin {entry[f].reverses, entry[f].corrects}
    BY <1>2 DEF DeleteVoucher, Unreferenced
  <2> QED BY <1>1, <2>1, <2>2, <2>3, <2>4, <2>5
<1>3. CASE DeleteDraft(e)
  <2>1. /\ entry'[e] = NoEntry /\ entry[e].status = "draft"
        /\ nextId' = nextId /\ UNCHANGED job
        /\ \A f \in EntryIds \ {e} : entry'[f] = entry[f]
    BY <1>3 DEF DeleteDraft
  <2>2. ~Firm(e) BY <2>1 DEF Firm
  <2>3. \A f \in EntryIds : Present(f) =>
           /\ e \notin {entry[f].reverses, entry[f].corrects}
           /\ entry[f].reversedBy # e
    BY <1>1, <2>2 DEF Links
  <2> QED BY <2>1, <2>3
<1> QED BY <1>2, <1>3

LEMMA DeleteLinks ==
    ASSUME IType, Links, NEW e \in EntryIds, DeleteVoucher(e) \/ DeleteDraft(e)
    PROVE  Links'
<1> USE DEF IType, TypeOK
<1>1. /\ nextId' = nextId /\ UNCHANGED job
      /\ entry'[e] = NoEntry
      /\ \A f \in EntryIds \ {e} :
            /\ entry'[f].reverses = entry[f].reverses
            /\ entry'[f].corrects = entry[f].corrects
            /\ \/ entry'[f] = entry[f]
               \/ /\ entry[f].status \in {"posted", "reversed"}
                  /\ entry'[f].status = "posted"
                  /\ entry'[f].reversedBy = None
      /\ \A f \in EntryIds : Present(f) /\ f # e =>
            /\ e \notin {entry[f].reverses, entry[f].corrects}
            /\ entry[f].reversedBy = e => entry'[f].reversedBy = None
  BY DeleteEffect
<1>2. ~Present(e)' BY <1>1 DEF Present, NoEntry, Header
<1>3. \A f \in EntryIds : Present(f)' => f # e /\ Present(f)
  BY <1>1, <1>2 DEF Present
<1>4. \A f \in EntryIds \ {e} :
         entry'[f].status = "draft" => entry[f].status = "draft"
  BY <1>1
<1>5. \A f : Firm(f) /\ f # e => Firm(f)'
  BY <1>1 DEF Firm, Present
<1>6. ASSUME NEW f \in EntryIds, Present(f)'
      PROVE  /\ f < nextId'
             /\ \A g \in {entry'[f].reverses, entry'[f].corrects} :
                   g # None => Firm(g)'
             /\ entry'[f].reversedBy # None =>
                   /\ Firm(entry[f].reversedBy)'
                   /\ entry'[entry'[f].reversedBy].reverses = f
  <2>1. f # e /\ Present(f) BY <1>3, <1>6
  <2>2. /\ f < nextId'
        /\ \A g \in {entry'[f].reverses, entry'[f].corrects} :
              g # None => Firm(g)'
    BY <1>1, <1>5, <2>1 DEF Links
  <2>3. PICK s : s = entry'[f].reversedBy OBVIOUS
  <2>4. ASSUME s # None PROVE Firm(s)' /\ entry'[s].reverses = f
    <3>1. entry[f].reversedBy = s BY <1>1, <2>1, <2>3, <2>4
    <3>2. Firm(s) /\ entry[s].reverses = f BY <2>1, <2>4, <3>1 DEF Links
    <3>3. s # e BY <1>1, <2>1, <2>3, <2>4, <3>1
    <3>4. s \in EntryIds BY <3>2 DEF Firm
    <3> QED BY <1>1, <1>5, <3>2, <3>3, <3>4
  <2> QED BY <2>2, <2>3, <2>4
<1>7. ASSUME NEW v \in Workers PROVE Aware(v)'
  <2>1. PICK o, s : /\ o = job'[v].orig /\ s = job'[v].storno
                    /\ o = job[v].orig /\ s = job[v].storno
    BY <1>1
  <2>2. Aware(v) BY DEF Links
  <2>3. \A f \in {o, s} \cap EntryIds : f < nextId'
    BY <1>1, <2>1, <2>2 DEF Aware
  <2>4. o \in EntryIds /\ Present(o)' => entry'[o].status # "draft"
    BY <1>3, <1>4, <2>1, <2>2 DEF Aware
  <2>5. s \in EntryIds /\ Present(s)' =>
           /\ entry'[s].reverses = o
           /\ job'[v].pc = "mark" \/ job'[v].role = "correction"
                 => entry'[s].status # "draft"
    BY <1>1, <1>3, <1>4, <2>1, <2>2 DEF Aware
  <2> QED BY <2>1, <2>3, <2>4, <2>5 DEF Aware, Present
<1> QED BY <1>6, <1>7 DEF Links

-----------------------------------------------------------------------------
(* Every step of the specification.                                          *)

LEMMA StartLinks ==
    ASSUME IType, Links, NEW w \in Workers, Start(w)
    PROVE  Links'
<1>1. ASSUME NEW j, Begin(w, j), j.storno = None,
             j.orig = None
             \/ (j.orig \in EntryIds /\ entry[j.orig].status = "posted")
      PROVE  Links'
  <2>1. job' = [job EXCEPT ![w] = j] /\ UNCHANGED db BY <1>1 DEF Begin
  <2>2. job'[w] = j /\ \A v \in Workers \ {w} : job'[v] = job[v]
    BY <2>1 DEF IType, TypeOK
  <2>3. HeadersLinked /\ nextId' = nextId /\ entry' = entry
    BY <2>1, LinkedEffects DEF db
  <2>4. \A v \in Workers \ {w} : Remembers(v) BY <2>2 DEF Remembers
  <2>5. None \notin EntryIds BY DEF None, EntryIds
  <2>6. j.orig # None => j.orig < nextId BY <1>1 DEF Links, Present
  <2>7. Aware(w)' BY <1>1, <2>2, <2>3, <2>5, <2>6 DEF Aware
  <2>8. \A v \in Workers : Aware(v)' BY <2>3, <2>4, <2>7, StillAware
  <2> QED BY <2>3, <2>8, LinksFollow
<1>2. ASSUME NEW p \in Periods, StartCreate(w, p) PROVE Links'
  <2> DEFINE j == [[Idle EXCEPT !.pc = "insert"] EXCEPT !.target = p]
  <2>1. j.storno = None /\ j.orig = None BY DEF Idle
  <2>2. Begin(w, j) BY <1>2 DEF StartCreate
  <2> HIDE DEF j
  <2> QED BY <2>1, <2>2, <1>1
<1>3. ASSUME NEW e \in EntryIds, StartReverse(w, e) PROVE Links'
  <2> DEFINE j == [Idle EXCEPT !.pc = "number", !.op = "reverse",
                               !.role = "storno", !.orig = e,
                               !.home = entry[e].period]
  <2>1. j.storno = None /\ j.orig = e BY DEF Idle
  <2>2. Begin(w, j) BY <1>3 DEF StartReverse
  <2> HIDE DEF j
  <2> QED BY <1>1, <1>3, <2>1, <2>2 DEF StartReverse
<1>4. ASSUME NEW e \in EntryIds, NEW p \in Periods, StartCorrect(w, e, p)
      PROVE  Links'
  <2> DEFINE j == [Idle EXCEPT !.pc = "number", !.op = "correct",
                               !.role = "storno", !.orig = e,
                               !.home = entry[e].period, !.target = p]
  <2>1. j.storno = None /\ j.orig = e BY DEF Idle
  <2>2. Begin(w, j) BY <1>4 DEF StartCorrect
  <2> HIDE DEF j
  <2> QED BY <1>1, <1>4, <2>1, <2>2 DEF StartCorrect
<1> QED BY <1>2, <1>3, <1>4 DEF Start

LEMMA AdvanceLinks ==
    ASSUME IType, Links, NEW w \in Workers, Advance(w)
    PROVE  Links'
<1>1. ASSUME HeadersLinked, \A v \in Workers : Remembers(v) PROVE Links'
  <2>1. \A v \in Workers : Aware(v)' BY <1>1, StillAware
  <2> QED BY <1>1, <2>1, LinksFollow
<1>2. UNCHANGED db => HeadersLinked BY LinkedEffects
<1>3. ASSUME HeadersLinked,
             \/ Finish(w) \/ CancelOwn(w) \/ CancelEarlier(w)
             \/ \E es : Abandon(w, es)
             \/ \E step \in {"post", "commit", "cancelDraft", "cleanup",
                             "undoLines"} : Goto(w, step)
             \/ \E n : job' = [job EXCEPT ![w].pc = "insert", ![w].number = n]
      PROVE  Links'
  BY <1>1, <1>3, MovesRemember DEF CancelOwn, CancelEarlier
<1>4. job[w].pc \in {"lines", "post", "commit", "cancelDraft", "cleanup"}
        => job[w].own \in EntryIds
  BY DEF IType, Hands
<1>5. CASE AllocateNumber(w)
  BY <1>3, <1>5, LinkedEffects DEF AllocateNumber, Statement
<1>6. CASE InsertHeader(w)
  BY <1>2, <1>3, <1>6, InsertLinks DEF InsertHeader, Statement
<1>7. CASE InsertLines(w)
  BY <1>3, <1>7, LinkedEffects DEF InsertLines, Statement
<1>8. CASE CancelDraft(w)
  BY <1>3, <1>4, <1>8, LinkedEffects DEF CancelDraft, At, Statement
<1>9. CASE Commit(w)
  BY <1>3, <1>4, <1>9, LinkedEffects DEF Commit, At, Statement
<1>10. CASE CancelIfDraft(w)
  BY <1>3, <1>4, <1>10, LinkedEffects DEF CancelIfDraft, At, Statement
<1>11. CASE Post(w)
  <2>1. /\ job[w].pc = "post"
        /\ \/ SetStatus(job[w].own, "posted") /\ GoOn(w)
           \/ SetStatus(job[w].own, "posted") /\ CancelOwn(w)
           \/ UNCHANGED db /\ CancelOwn(w)
    BY <1>11 DEF Post, At, Statement
  <2> QED BY <1>3, <1>4, <2>1, PostLinks, LinkedEffects
<1>12. CASE MarkReversed(w)
  <2>1. job[w].pc = "mark" BY <1>12 DEF MarkReversed, At
  <2>2. PICK es : \/ /\ ReversalAccepted(job[w].orig, job[w].storno)
                     /\ LinkReversal(job[w].orig, job[w].storno)
                     /\ Finish(w) \/ Abandon(w, es)
                  \/ UNCHANGED db /\ Abandon(w, es)
    BY <1>12 DEF MarkReversed, Statement
  <2>3. \A v \in Workers : Remembers(v) BY <2>2, MovesRemember
  <2> QED BY <1>2, <1>3, <2>1, <2>2, <2>3, MarkLinks
<1>13. CASE UndoHeader(w)
  <2>1. job[w].undo \in Seq(EntryIds) /\ job[w].undo # <<>>
    BY <1>13 DEF UndoHeader, At, IType, TypeOK, Hands, Job
  <2>2. Head(job[w].undo) \in EntryIds BY <2>1
  <2> QED BY <1>3, <1>13, <2>2, LinkedEffects DEF UndoHeader, Statement
<1>14. CASE UndoLines(w)
  BY <1>3, <1>14, LinkedEffects DEF UndoLines, Statement
<1> QED BY <1>5, <1>6, <1>7, <1>8, <1>9, <1>10, <1>11, <1>12, <1>13, <1>14
    DEF Advance

LEMMA StepLinks ==
    ASSUME IType, Links, [DeletionNext]_vars
    PROVE  Links'
<1>1. ASSUME HeadersLinked, \A v \in Workers : Remembers(v) PROVE Links'
  <2>1. \A v \in Workers : Aware(v)' BY <1>1, StillAware
  <2> QED BY <1>1, <2>1, LinksFollow
<1>2. ASSUME HeadersLinked, UNCHANGED job PROVE Links'
  BY <1>1, <1>2 DEF Remembers
<1>3. CASE UNCHANGED vars BY <1>2, <1>3, LinkedEffects DEF vars, db
<1>4. ASSUME NEW w \in Workers, Crash(w) PROVE Links'
  BY <1>1, <1>4, LinkedEffects, MovesRemember DEF Crash
<1>5. CASE Other
  <2>1. ASSUME NEW e \in EntryIds, CommitDraft(e) PROVE Links'
    BY <1>2, <2>1, LinkedEffects DEF CommitDraft
  <2>2. ASSUME NEW e \in EntryIds, CancelOrphan(e) PROVE Links'
    BY <1>2, <2>2, LinkedEffects DEF CancelOrphan
  <2>3. ASSUME NEW p \in Periods, LockPeriod(p) \/ UnlockPeriod(p)
        PROVE  Links'
    <3>1. UNCHANGED <<entry, nextId, job>>
      BY <2>3 DEF LockPeriod, UnlockPeriod, SetLock
    <3>2. HeadersLinked BY <3>1 DEF HeadersLinked, Present
    <3> QED BY <1>2, <3>1, <3>2
  <2> QED BY <1>5, <2>1, <2>2, <2>3 DEF Other
<1>6. ASSUME NEW e \in EntryIds, DeleteVoucher(e) \/ DeleteDraft(e)
      PROVE  Links'
  BY <1>6, DeleteLinks
<1> QED BY <1>3, <1>4, <1>5, <1>6, StartLinks, AdvanceLinks
        DEF DeletionNext, Next

LEMMA LinksAlways == DeletionSpec => []Links
<1>1. Init => Links
  <2> SUFFICES ASSUME Init PROVE Links OBVIOUS
  <2>1. \A e \in EntryIds :
           /\ entry[e].status \in {"posted", "absent"}
           /\ entry[e].status = "posted" => e <= Seeds
           /\ entry[e].reverses = None /\ entry[e].corrects = None
           /\ entry[e].reversedBy = None
    BY DEF Init, NoEntry, Header
  <2>2. Seeds \in Nat /\ EntryIds \subseteq Nat /\ nextId = Seeds + 1
    BY JournalAssumption DEF EntryIds, Init
  <2>3. ASSUME NEW e \in EntryIds, Present(e) PROVE e < nextId
    <3>1. e <= Seeds BY <2>1, <2>3 DEF Present
    <3> QED BY <2>2, <3>1
  <2>4. ASSUME NEW w \in Workers PROVE Aware(w)
    <3>1. job[w] = Idle BY DEF Init
    <3>2. None \notin EntryIds BY DEF None, EntryIds
    <3> QED BY <3>1, <3>2 DEF Aware, Idle
  <2> QED BY <2>1, <2>3, <2>4 DEF Links
<1>2. IType /\ Links /\ [DeletionNext]_vars => Links' BY StepLinks
<1> QED BY <1>1, <1>2, DeletionTypeAlways, PTL DEF DeletionSpec

(* Deleting the last voucher of a series, or a draft, while other requests   *)
(* reverse and correct, leaves no link that points at a deleted header.      *)
THEOREM LinksAlwaysResolve == DeletionSpec => []LinksResolve
<1>1. Links => LinksResolve BY DEF Links, LinksResolve, Firm
<1> QED BY <1>1, LinksAlways, PTL

-----------------------------------------------------------------------------
(* Deletion does not take a storno from under a reversed original either.    *)

LEMMA DeleteReversals ==
    ASSUME IType, Reversals, Links, NEW e \in EntryIds,
           DeleteVoucher(e) \/ DeleteDraft(e)
    PROVE  Reversals'
<1> USE DEF IType, TypeOK, Reversals
<1>1. /\ nextId' = nextId /\ UNCHANGED job
      /\ entry'[e] = NoEntry
      /\ \A f \in EntryIds \ {e} :
            /\ entry'[f].source = entry[f].source
            /\ entry'[f].reverses = entry[f].reverses
            /\ \/ entry'[f] = entry[f]
               \/ /\ entry[f].status \in {"posted", "reversed"}
                  /\ entry'[f].status = "posted"
                  /\ entry'[f].reversedBy = None
      /\ \A f \in EntryIds : Present(f) /\ f # e /\ entry[f].reversedBy = e
            => entry'[f].reversedBy = None
  BY DeleteEffect
<1>2. /\ entry'[e].status = "absent" /\ entry'[e].source = "regular"
      /\ entry'[e].reverses = None /\ None \notin EntryIds
  BY <1>1 DEF NoEntry, Header, None, EntryIds
<1>3. \A w \in Workers, f \in EntryIds : Held(w, f)' <=> Held(w, f)
  BY <1>1 DEF Held
<1>4. \A f \in EntryIds : Present(f)' => Present(f)
  BY <1>1, <1>2 DEF Present
<1>5. \A f \in EntryIds : entry'[f].status = "reversed"
         => f # e /\ entry'[f] = entry[f]
  BY <1>1, <1>2
<1>6. Apart' BY <1>1, <1>3, <1>4 DEF Apart
<1>7. Loose' BY <1>3, <1>5 DEF Loose
<1>8. RegularAlone' BY <1>1, <1>2 DEF RegularAlone
<1>9. ASSUME NEW f \in EntryIds, entry'[f].status = "reversed"
      PROVE  /\ entry'[f].reversedBy \in EntryIds
             /\ entry'[entry'[f].reversedBy].reverses = f
             /\ entry'[entry'[f].reversedBy].status \in {"posted", "reversed"}
  <2>1. f # e /\ entry'[f] = entry[f] BY <1>5, <1>9
  <2>2. PICK s \in EntryIds :
           /\ s = entry[f].reversedBy /\ entry[s].reverses = f
           /\ entry[s].status \in {"posted", "reversed"}
    BY <1>9, <2>1 DEF ReversalStands
  <2>3. Present(f) BY <1>9, <2>1 DEF Present
  <2>4. s # e BY <1>1, <1>2, <2>1, <2>2, <2>3
  <2> QED BY <1>1, <2>1, <2>2, <2>4
<1>10. ReversalStands' BY <1>9 DEF ReversalStands
<1>11. \A s \in EntryIds : \A q :
          /\ Drafted(entry[s], q) => Drafted(entry'[s], q)
          /\ Standing(entry[s], q) => Standing(entry'[s], q)
  BY <1>1, <1>2 DEF Drafted, Standing
<1>12. ASSUME NEW v \in Workers PROVE Owing(v)'
  <2>1. Owing(v) /\ job'[v] = job[v] BY <1>1
  <2>2. ASSUME job[v].role = "storno", job[v].pc \in {"lines", "post"}
        PROVE  Drafted(entry'[job[v].own], job[v].orig)
    <3>1. job[v].own \in EntryIds BY <2>2 DEF Hands
    <3>2. Drafted(entry[job[v].own], job[v].orig) BY <2>1, <2>2 DEF Owing
    <3> QED BY <3>1, <3>2, <1>11 DEF Drafted
  <2>3. ASSUME job[v].pc = "mark"
               \/ (job[v].role = "correction" /\ job[v].pc \in Busy)
        PROVE  Standing(entry'[job[v].storno], job[v].orig)
    <3>1. job[v].storno \in EntryIds BY <2>3 DEF Hands, Job, Sources
    <3>2. Standing(entry[job[v].storno], job[v].orig) BY <2>1, <2>3 DEF Owing
    <3> QED BY <3>1, <3>2, <1>11 DEF Drafted, Standing
  <2> QED BY <2>1, <2>2, <2>3 DEF Owing, Drafted, Standing
<1> QED BY <1>6, <1>7, <1>8, <1>10, <1>12

(* Nor does deletion undo what the reversals of an original promise: the     *)
(* storno of a reversed original is still in the ledger, as long as no reply *)
(* of an applied statement is lost.                                          *)
THEOREM ReversalsOutliveDeletion ==
    ASSUME "lostReply" \notin Faults
    PROVE  DeletionSpec => []ReversalStands
<1>1. Init => Reversals BY ReversalsInit
<1>2. /\ IType /\ IType' /\ Links /\ Reversals /\ [DeletionNext]_vars
      => Reversals'
  BY StepReversals, DeleteReversals DEF DeletionNext
<1>3. Reversals => ReversalStands BY DEF Reversals
<1> QED BY <1>1, <1>2, <1>3, LinksAlways, DeletionTypeAlways, PTL
        DEF DeletionSpec
===============================================================================
