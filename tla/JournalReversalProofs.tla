------------------------- MODULE JournalReversalProofs -------------------------
(* What an original was reversed by stays in the ledger: for every number of *)
(* processes reversing and correcting at once, whatever statement fails and  *)
(* wherever they crash, as long as no reply of an applied statement is lost. *)
(* And what a race leaves over is taken out of the ledger again, as long as  *)
(* no statement fails for a passing reason, no process dies and no period is *)
(* locked.                                                                   *)
EXTENDS JournalProofs

(* Request w can still write or cancel header e.                             *)
Held(w, e) ==
    \/ e \in {job[w].own, job[w].storno}
    \/ \E i \in DOMAIN job[w].undo : job[w].undo[i] = e

(* A header that is, or becomes, the posted storno of o, if it is not        *)
(* deleted (which is a matter of JournalDeletion).                           *)
Drafted(h, o) ==
    /\ h.status \in {"absent", "draft", "posted", "reversed"}
    /\ h.status # "absent" => h.source = "storno" /\ h.reverses = o

Standing(h, o) == Drafted(h, o) /\ h.status # "draft"

Busy == {"number", "insert", "lines", "post", "mark"}

(* The storno of a request that has not given up is there or was deleted,    *)
(* and no longer a draft once the request is past posting it.                *)
Owing(w) ==
    /\ job[w].role = "storno" /\ job[w].pc \in {"lines", "post"}
          => Drafted(entry[job[w].own], job[w].orig)
    /\ job[w].pc = "mark" \/ (job[w].role = "correction" /\ job[w].pc \in Busy)
          => Standing(entry[job[w].storno], job[w].orig)

(* Every header is inserted under a new id, and in one request's hand.       *)
Apart ==
    /\ \A e \in EntryIds : Present(e) => e < nextId
    /\ \A w \in Workers, e \in EntryIds : Held(w, e) => e < nextId
    /\ \A w, v \in Workers, e \in EntryIds : Held(w, e) /\ Held(v, e) => w = v

(* The header an original was reversed by is in no request's hand.           *)
Loose ==
    \A w \in Workers, o, e \in EntryIds :
        Held(w, e) /\ entry[o].status = "reversed" => entry[o].reversedBy # e

RegularAlone ==
    \A e \in EntryIds :
        entry[e].source = "regular" => entry[e].reverses = None

(* The strengthening of ReversalStands that every step preserves.            *)
Reversals ==
    Apart /\ Loose /\ RegularAlone /\ ReversalStands
          /\ \A w \in Workers : Owing(w)

-----------------------------------------------------------------------------
(* Steps that insert no header and reverse no original.                      *)

(* A header is at most posted, or cancelled where it is a regular voucher or *)
(* in the hand of a request that has given up.                               *)
HeadersFollow ==
    /\ nextId' = nextId
    /\ \A e \in EntryIds :
        /\ entry'[e].source = entry[e].source
        /\ entry'[e].reverses = entry[e].reverses
        /\ entry'[e].reversedBy = entry[e].reversedBy
        /\ \/ entry'[e].status = entry[e].status
           \/ entry[e].status = "draft" /\ entry'[e].status = "posted"
           \/ /\ entry[e].status \in {"draft", "posted"}
              /\ entry'[e].status = "cancelled"
              /\ \/ entry[e].source = "regular"
                 \/ \E w \in Workers : Held(w, e) /\ job'[w].pc \notin Busy

HandsShrink ==
    \A w \in Workers, e \in EntryIds : Held(w, e)' => Held(w, e)

(* The request goes on as it was, or starts afresh, or has given up.         *)
Follows(w) ==
    \/ job'[w].pc \notin Busy
    \/ job'[w].pc = "number" /\ job'[w].role = "storno"
    \/ job'[w].pc = "insert" /\ job'[w].role = "regular"
    \/ /\ job'[w].role = job[w].role /\ job'[w].orig = job[w].orig
       /\ job'[w].own = job[w].own /\ job'[w].storno = job[w].storno
       /\ <<job[w].pc, job'[w].pc>> \in
             {<<s, s>> : s \in Busy} \cup
             {<<"number", "insert">>, <<"lines", "post">>}

LEMMA LedgerFollows ==
    ASSUME IType, Reversals, HeadersFollow, HandsShrink
    PROVE  Apart' /\ Loose' /\ RegularAlone' /\ ReversalStands'
<1> USE DEF Reversals, HeadersFollow, HandsShrink
<1>1. Apart' BY DEF Apart, Present
<1>2. Loose' BY DEF Loose
<1>3. RegularAlone' BY DEF RegularAlone
<1>4. ASSUME NEW e \in EntryIds, entry'[e].status = "reversed"
      PROVE  /\ entry'[e].reversedBy \in EntryIds
             /\ entry'[entry'[e].reversedBy].reverses = e
             /\ entry'[entry'[e].reversedBy].status \in {"posted", "reversed"}
  <2> DEFINE s == entry[e].reversedBy
  <2>1. entry[e].status = "reversed" /\ entry'[e].reversedBy = s BY <1>4
  <2>2. /\ s \in EntryIds /\ entry[s].reverses = e
        /\ entry[s].status \in {"posted", "reversed"}
    BY <2>1 DEF ReversalStands
  <2>3. entry[s].source # "regular"
    <3>1. e # None BY DEF EntryIds, None
    <3> QED BY <2>2, <3>1 DEF RegularAlone
  <2>4. \A w \in Workers : ~Held(w, s) BY <2>1, <2>2 DEF Loose
  <2> HIDE DEF s
  <2>5. entry'[s].status = entry[s].status BY <2>2, <2>3, <2>4
  <2> QED BY <2>1, <2>2, <2>5
<1>5. ReversalStands' BY <1>4 DEF ReversalStands
<1> QED BY <1>1, <1>2, <1>3, <1>5

(* A busy request's storno is not cancelled by another.                      *)
LEMMA StornoFollows ==
    ASSUME IType, Reversals, HeadersFollow, NEW w \in Workers,
           job'[w].pc \in Busy, NEW s \in EntryIds, Held(w, s), NEW o
    PROVE  /\ Drafted(entry[s], o) => Drafted(entry'[s], o)
           /\ Standing(entry[s], o) => Standing(entry'[s], o)
<1> USE DEF Drafted, Standing, HeadersFollow
<1>1. \A v \in Workers : Held(v, s) => v = w BY DEF Reversals, Apart
<1>2. ~ \E v \in Workers : Held(v, s) /\ job'[v].pc \notin Busy BY <1>1
<1> QED BY <1>2

LEMMA OwingFollows ==
    ASSUME IType, Reversals, HeadersFollow, NEW w \in Workers, Follows(w)
    PROVE  Owing(w)'
<1>1. job[w].own \in EntryIds => Held(w, job[w].own) BY DEF Held
<1>2. job[w].storno \in EntryIds => Held(w, job[w].storno) BY DEF Held
<1>3. CASE \/ job'[w].pc \notin Busy
           \/ job'[w].pc = "number" /\ job'[w].role = "storno"
           \/ job'[w].pc = "insert" /\ job'[w].role = "regular"
  BY <1>3 DEF Owing, Busy
<1>4. CASE /\ job'[w].role = job[w].role /\ job'[w].orig = job[w].orig
           /\ job'[w].own = job[w].own /\ job'[w].storno = job[w].storno
           /\ <<job[w].pc, job'[w].pc>> \in
                 {<<s, s>> : s \in Busy} \cup
                 {<<"number", "insert">>, <<"lines", "post">>}
  <2>1. job[w].pc \in Busy /\ job'[w].pc \in Busy BY <1>4 DEF Busy
  <2>2. ASSUME job'[w].role = "storno", job'[w].pc \in {"lines", "post"}
        PROVE  Drafted(entry'[job[w].own], job[w].orig)
    <3>1. job[w].pc \in {"lines", "post"} BY <1>4, <2>2 DEF Busy
    <3>2. job[w].own \in EntryIds BY <3>1 DEF IType, Hands
    <3>3. Drafted(entry[job[w].own], job[w].orig)
      BY <1>4, <2>2, <3>1 DEF Reversals, Owing
    <3>4. Held(w, job[w].own) BY <1>1, <3>2
    <3> QED BY <1>4, <2>1, <3>2, <3>3, <3>4, StornoFollows DEF Drafted
  <2>3. ASSUME job'[w].pc = "mark" \/ job'[w].role = "correction"
        PROVE  Standing(entry'[job[w].storno], job[w].orig)
    <3>1. job[w].pc = "mark" \/ job[w].role = "correction"
      BY <1>4, <2>3 DEF Busy
    <3>2. job[w].storno \in EntryIds
      BY <3>1 DEF IType, TypeOK, Job, Sources, Hands
    <3>3. Standing(entry[job[w].storno], job[w].orig)
      BY <2>1, <3>1 DEF Reversals, Owing
    <3>4. Held(w, job[w].storno) BY <1>2, <3>2
    <3> QED BY <1>4, <2>1, <3>2, <3>3, <3>4, StornoFollows
            DEF Standing, Drafted
  <2> QED BY <1>4, <2>2, <2>3 DEF Owing, Busy
<1> QED BY <1>3, <1>4 DEF Follows

LEMMA ReversalsFollow ==
    ASSUME IType, Reversals, HeadersFollow, HandsShrink,
           \A w \in Workers : Follows(w)
    PROVE  Reversals'
BY LedgerFollows, OwingFollows DEF Reversals

(* What the statements do to the headers.                                    *)
LEMMA HeaderEffects ==
    ASSUME IType
    PROVE  /\ UNCHANGED db => HeadersFollow
           /\ \A p : ConsumeNumber(p) => HeadersFollow
           /\ \A e, b : SetLines(e, b) => HeadersFollow
           /\ \A e \in EntryIds :
                 CommitAccepted(e) /\ CommitEffect(e) => HeadersFollow
           /\ \A e \in EntryIds : \A w :
                 PostAccepted(w, e) /\ SetStatus(e, "posted") => HeadersFollow
<1> USE DEF IType, TypeOK, HeadersFollow, Entry
<1>1. UNCHANGED db => HeadersFollow BY DEF db
<1>2. \A p : ConsumeNumber(p) => HeadersFollow BY DEF ConsumeNumber
<1>3. \A e, b : SetLines(e, b) => HeadersFollow BY DEF SetLines
<1>4. \A e \in EntryIds : CommitAccepted(e) /\ CommitEffect(e) => HeadersFollow
  BY DEF CommitAccepted, CommitEffect
<1>5. \A e \in EntryIds : \A w :
         PostAccepted(w, e) /\ SetStatus(e, "posted") => HeadersFollow
  BY DEF PostAccepted, StatusAccepted, StatusSteps, SetStatus, Present
<1> QED BY <1>1, <1>2, <1>3, <1>4, <1>5

LEMMA CancelEffect ==
    ASSUME IType, NEW e \in EntryIds, StatusAccepted(e, "cancelled"),
           SetStatus(e, "cancelled"),
           \/ entry[e].source = "regular"
           \/ \E w \in Workers : Held(w, e) /\ job'[w].pc \notin Busy
    PROVE  HeadersFollow
BY DEF IType, TypeOK, HeadersFollow, Entry, StatusAccepted, StatusSteps,
   SetStatus, Present

(* What the moves of a request do to its hands.                              *)
LEMMA Turn ==
    ASSUME IType, NEW w \in Workers, NEW j, job' = [job EXCEPT ![w] = j],
           \A e \in EntryIds :
              \/ e \in {j.own, j.storno}
              \/ \E i \in DOMAIN j.undo : j.undo[i] = e
              => Held(w, e),
           \/ j.pc \notin Busy
           \/ j.pc = "number" /\ j.role = "storno"
           \/ j.pc = "insert" /\ j.role = "regular"
           \/ /\ j.role = job[w].role /\ j.orig = job[w].orig
              /\ j.own = job[w].own /\ j.storno = job[w].storno
              /\ <<job[w].pc, j.pc>> \in
                    {<<s, s>> : s \in Busy} \cup
                    {<<"number", "insert">>, <<"lines", "post">>}
    PROVE  /\ HandsShrink
           /\ \A v \in Workers : Follows(v)
<1>1. job'[w] = j /\ \A v \in Workers \ {w} : job'[v] = job[v]
  BY DEF IType, TypeOK
<1>2. ASSUME NEW v \in Workers, NEW e \in EntryIds, Held(v, e)' PROVE Held(v, e)
  <2>1. CASE v = w BY <1>1, <1>2, <2>1 DEF Held
  <2>2. CASE v # w BY <1>1, <1>2, <2>2 DEF Held
  <2> QED BY <2>1, <2>2
<1>3. ASSUME NEW v \in Workers PROVE Follows(v)
  <2>1. CASE v = w BY <1>1, <2>1 DEF Follows
  <2>2. CASE v # w BY <1>1, <2>2 DEF Follows
  <2> QED BY <2>1, <2>2
<1> QED BY <1>2, <1>3 DEF HandsShrink

LEMMA AbandonTurns ==
    ASSUME IType, NEW w \in Workers, NEW es, Abandon(w, es),
           \A i \in DOMAIN es : es[i] \in EntryIds => Held(w, es[i])
    PROVE  /\ HandsShrink
           /\ \A v \in Workers : Follows(v)
           /\ job'[w].pc \notin Busy
<1>1. CASE es = <<>>
  <2>1. job' = [job EXCEPT ![w] = Idle] BY <1>1 DEF Abandon, Finish
  <2>2. Idle.pc \notin Busy /\ Idle.own = None /\ Idle.storno = None
        /\ Idle.undo = <<>>
    BY DEF Idle, Busy
  <2>3. \A e \in EntryIds : e # None BY DEF EntryIds, None
  <2>4. job'[w].pc \notin Busy BY <2>1, <2>2 DEF IType, TypeOK
  <2>5. \A e \in EntryIds :
           ~ \/ e \in {Idle.own, Idle.storno}
             \/ \E i \in DOMAIN Idle.undo : Idle.undo[i] = e
    BY <2>2, <2>3
  <2> QED BY <2>1, <2>2, <2>4, <2>5, Turn
<1>2. CASE es # <<>>
  <2> DEFINE j == [[job[w] EXCEPT !.pc = "undo"] EXCEPT !.undo = es]
  <2>1. job' = [job EXCEPT ![w] = j] BY <1>2 DEF Abandon
  <2>2. /\ j.pc = "undo" /\ j.undo = es
        /\ j.own = job[w].own /\ j.storno = job[w].storno
    BY DEF IType, TypeOK, Job
  <2> HIDE DEF j
  <2>3. j.pc \notin Busy BY <2>2 DEF Busy
  <2>4. job'[w].pc \notin Busy BY <2>1, <2>3 DEF IType, TypeOK
  <2>5. \A e \in EntryIds :
           \/ e \in {j.own, j.storno}
           \/ \E i \in DOMAIN j.undo : j.undo[i] = e
           => Held(w, e)
    BY <2>2 DEF Held
  <2> QED BY <2>1, <2>3, <2>4, <2>5, Turn
<1> QED BY <1>1, <1>2

LEMMA FinishTurns ==
    ASSUME IType, NEW w \in Workers, Finish(w)
    PROVE  /\ HandsShrink
           /\ \A v \in Workers : Follows(v)
           /\ job'[w].pc \notin Busy
<1>1. Abandon(w, <<>>) BY DEF Abandon
<1> QED BY <1>1, AbandonTurns

LEMMA GotoTurns ==
    ASSUME IType, NEW w \in Workers, NEW step, Goto(w, step),
           step \notin Busy \/ <<job[w].pc, step>> = <<"lines", "post">>
    PROVE  /\ HandsShrink
           /\ \A v \in Workers : Follows(v)
           /\ step \notin Busy => job'[w].pc \notin Busy
<1> DEFINE j == [job[w] EXCEPT !.pc = step]
<1>1. job' = [job EXCEPT ![w] = j] BY DEF Goto
<1>2. /\ j.pc = step /\ j.undo = job[w].undo /\ j.role = job[w].role
      /\ j.orig = job[w].orig /\ j.own = job[w].own
      /\ j.storno = job[w].storno
  BY DEF IType, TypeOK, Job
<1> HIDE DEF j
<1>3. step \notin Busy => job'[w].pc \notin Busy
  BY <1>1, <1>2 DEF IType, TypeOK
<1>4. \A e \in EntryIds :
         \/ e \in {j.own, j.storno}
         \/ \E i \in DOMAIN j.undo : j.undo[i] = e
         => Held(w, e)
  BY <1>2 DEF Held
<1> QED BY <1>1, <1>2, <1>3, <1>4, Turn

(* The two ways of giving up: only what the request holds is undone.         *)
LEMMA CancelTurns ==
    ASSUME IType, NEW w \in Workers, CancelOwn(w) \/ CancelEarlier(w)
    PROVE  /\ HandsShrink
           /\ \A v \in Workers : Follows(v)
           /\ job'[w].pc \notin Busy
<1>1. \A es : (\A i \in DOMAIN es : es[i] \in {job[w].own, job[w].storno})
                 => \A i \in DOMAIN es : es[i] \in EntryIds => Held(w, es[i])
  BY DEF Held
<1>2. CASE CancelOwn(w)
  BY <1>1, <1>2, AbandonTurns DEF CancelOwn
<1>3. CASE CancelEarlier(w)
  BY <1>1, <1>3, AbandonTurns DEF CancelEarlier
<1> QED BY <1>2, <1>3
-----------------------------------------------------------------------------
(* The three steps on which the invariant hangs.                             *)

(* A header is inserted under an id that no link and no request knows.       *)
LEMMA InsertReversals ==
    ASSUME IType, Reversals, IType', NEW w \in Workers, job[w].pc = "insert",
           InsertEffect(OwnHeader(w)), Remember(w)
    PROVE  Reversals'
<1> USE DEF IType, TypeOK, Reversals
<1> DEFINE h == OwnHeader(w)
           j == [[[job[w] EXCEPT !.pc = "lines"] EXCEPT !.own = nextId]
                    EXCEPT !.storno = IF job[w].role = "storno" THEN nextId
                                      ELSE job[w].storno]
<1>1. /\ h.status = "draft" /\ h.source = job[w].role
      /\ job[w].role = "storno" => h.reverses = job[w].orig
      /\ job[w].role = "regular" => h.reverses = None
  BY DEF OwnHeader, Header
<1>2. /\ nextId \in EntryIds /\ nextId \in Nat /\ nextId' = nextId + 1
      /\ entry'[nextId] = h
      /\ \A e \in EntryIds \ {nextId} : entry'[e] = entry[e]
  BY DEF InsertEffect
<1>3. job' = [job EXCEPT ![w] = j] BY DEF Remember
<1>4. /\ j.pc = "lines" /\ j.role = job[w].role /\ j.orig = job[w].orig
      /\ j.own = nextId /\ j.undo = job[w].undo
      /\ j.storno = IF job[w].role = "storno" THEN nextId ELSE job[w].storno
  BY DEF Job
<1> HIDE DEF j, h
<1>5. job'[w] = j /\ \A v \in Workers \ {w} : job'[v] = job[v] BY <1>3
<1>6. \A v \in Workers, e \in EntryIds :
         Held(v, e)' => Held(v, e) \/ (v = w /\ e = nextId)
  <2>1. ASSUME NEW v \in Workers, NEW e \in EntryIds, Held(v, e)'
        PROVE  Held(v, e) \/ (v = w /\ e = nextId)
    <3>1. CASE v = w BY <1>4, <1>5, <2>1, <3>1 DEF Held
    <3>2. CASE v # w BY <1>5, <2>1, <3>2 DEF Held
    <3> QED BY <3>1, <3>2
  <2> QED BY <2>1
<1>7. EntryIds \subseteq Nat BY DEF EntryIds
<1>8. ~Present(nextId) /\ \A v \in Workers : ~Held(v, nextId)
  BY <1>2 DEF Apart
<1>9. Apart'
  <2>1. \A e \in EntryIds : Present(e)' => e < nextId'
    BY <1>2, <1>7 DEF Apart, Present
  <2>2. \A v \in Workers, e \in EntryIds : Held(v, e)' => e < nextId'
    BY <1>2, <1>6, <1>7 DEF Apart
  <2>3. \A u, v \in Workers, e \in EntryIds :
           Held(u, e)' /\ Held(v, e)' => u = v
    BY <1>6, <1>8 DEF Apart
  <2> QED BY <2>1, <2>2, <2>3 DEF Apart
<1>10. \A o \in EntryIds : entry'[o].status = "reversed" =>
          /\ o # nextId /\ entry[o].status = "reversed"
          /\ entry[o].reversedBy \in EntryIds \ {nextId}
  <2>1. \A o \in EntryIds : entry'[o].status = "reversed" =>
           o # nextId /\ entry[o].status = "reversed"
    BY <1>1, <1>2
  <2> QED BY <2>1, <1>8 DEF ReversalStands, Present
<1>11. Loose' BY <1>2, <1>6, <1>10 DEF Loose
<1>12. ASSUME NEW e \in EntryIds, entry'[e].status = "reversed"
       PROVE  /\ entry'[e].reversedBy \in EntryIds
              /\ entry'[entry'[e].reversedBy].reverses = e
              /\ entry'[entry'[e].reversedBy].status \in {"posted", "reversed"}
  <2>1. entry'[e] = entry[e] /\ entry[e].status = "reversed"
        /\ entry[e].reversedBy \in EntryIds \ {nextId}
    BY <1>2, <1>10, <1>12
  <2>2. /\ entry[entry[e].reversedBy].reverses = e
        /\ entry[entry[e].reversedBy].status \in {"posted", "reversed"}
    BY <2>1 DEF ReversalStands
  <2> QED BY <1>2, <2>1, <2>2
<1>13. RegularAlone' BY <1>1, <1>2 DEF RegularAlone
<1>14. \A v \in Workers, s \in EntryIds : Held(v, s) => entry'[s] = entry[s]
  BY <1>2, <1>8
<1>15. ASSUME NEW v \in Workers PROVE Owing(v)'
  <2>1. CASE v = w
    <3>1. job[w].role = "storno" => Drafted(entry'[nextId], job[w].orig)
      BY <1>1, <1>2 DEF Drafted
    <3>2. ASSUME job[w].role = "correction"
          PROVE  Standing(entry'[job[w].storno], job[w].orig)
      <4>1. job[w].storno \in EntryIds BY <3>2 DEF Hands
      <4>2. Standing(entry[job[w].storno], job[w].orig) BY <3>2 DEF Owing, Busy
      <4>3. Held(w, job[w].storno) BY DEF Held
      <4> QED BY <4>1, <4>2, <4>3, <1>14 DEF Standing, Drafted
    <3>3. job[w].role = "storno" => Drafted(entry'[j.own], j.orig)
      BY <3>1, <1>4 DEF Drafted
    <3>4. job[w].role = "correction" => Standing(entry'[j.storno], j.orig)
      BY <3>2, <1>4 DEF Standing, Drafted
    <3> QED BY <1>4, <1>5, <2>1, <3>3, <3>4 DEF Owing, Drafted, Standing
  <2>2. CASE v # w
    <3>1. job'[v] = job[v] BY <1>5, <2>2
    <3>2. Owing(v) OBVIOUS
    <3>3. ASSUME job[v].role = "storno", job[v].pc \in {"lines", "post"}
          PROVE  Drafted(entry'[job[v].own], job[v].orig)
      <4>1. job[v].own \in EntryIds BY <3>3 DEF Hands
      <4>2. Drafted(entry[job[v].own], job[v].orig) BY <3>2, <3>3 DEF Owing
      <4>3. Held(v, job[v].own) BY DEF Held
      <4> QED BY <4>1, <4>2, <4>3, <1>14 DEF Drafted
    <3>4. ASSUME job[v].pc = "mark"
                 \/ (job[v].role = "correction" /\ job[v].pc \in Busy)
          PROVE  Standing(entry'[job[v].storno], job[v].orig)
      <4>1. job[v].storno \in EntryIds BY <3>4 DEF Hands, Job, Sources
      <4>2. Standing(entry[job[v].storno], job[v].orig) BY <3>2, <3>4 DEF Owing
      <4>3. Held(v, job[v].storno) BY DEF Held
      <4> QED BY <4>1, <4>2, <4>3, <1>14 DEF Drafted, Standing
    <3> QED BY <3>1, <3>3, <3>4 DEF Owing, Drafted, Standing
  <2> QED BY <2>1, <2>2
<1>16. ReversalStands' BY <1>12 DEF ReversalStands
<1> QED BY <1>9, <1>11, <1>13, <1>15, <1>16

(* The storno, or the corrected entry, is posted and the request goes on.    *)
LEMMA PostReversals ==
    ASSUME IType, Reversals, NEW w \in Workers, job[w].pc = "post",
           PostAccepted(w, job[w].own), SetStatus(job[w].own, "posted"), GoOn(w)
    PROVE  Reversals'
<1> USE DEF IType, TypeOK, Reversals
<1> DEFINE s == job[w].storno
           o == job[w].orig
<1>1. job[w].own \in EntryIds /\ s \in EntryIds
  BY DEF Hands, Job, Sources
<1>2. HeadersFollow BY <1>1, HeaderEffects
<1>3. PICK step, role : job' = [job EXCEPT ![w] =
                                  [[job[w] EXCEPT !.pc = step] EXCEPT !.role = role]]
                        /\ \/ step = "number" /\ role = "correction"
                           \/ step = "mark" /\ role = job[w].role
  <2>1. CASE job[w].op = "correct" /\ job[w].role = "storno"
    BY <2>1 DEF GoOn
  <2>2. CASE ~(job[w].op = "correct" /\ job[w].role = "storno")
    <3>1. job' = [job EXCEPT ![w] = [job[w] EXCEPT !.pc = "mark"]]
      BY <2>2 DEF GoOn, Goto
    <3>2. [job[w] EXCEPT !.pc = "mark"] =
             [[job[w] EXCEPT !.pc = "mark"] EXCEPT !.role = job[w].role]
      BY DEF Job
    <3> QED BY <3>1, <3>2
  <2> QED BY <2>1, <2>2
<1> DEFINE j == [[job[w] EXCEPT !.pc = step] EXCEPT !.role = role]
<1>4. /\ j.pc = step /\ j.role = role /\ j.orig = o /\ j.storno = s
      /\ j.own = job[w].own /\ j.undo = job[w].undo
  BY DEF Job
<1>5. job'[w] = j /\ \A v \in Workers \ {w} : job'[v] = job[v] BY <1>3
<1> HIDE DEF j
<1>6. HandsShrink
  <2>1. ASSUME NEW v \in Workers, NEW e \in EntryIds, Held(v, e)'
        PROVE  Held(v, e)
    <3>1. CASE v = w BY <1>4, <1>5, <2>1, <3>1 DEF Held
    <3>2. CASE v # w BY <1>5, <2>1, <3>2 DEF Held
    <3> QED BY <3>1, <3>2
  <2> QED BY <2>1 DEF HandsShrink
<1>7. Standing(entry'[s], o)
  <2>1. step \in Busy /\ job'[w].pc \in Busy BY <1>3, <1>4, <1>5 DEF Busy
  <2>2. Held(w, s) BY DEF Held
  <2>3. CASE job[w].role = "correction"
    <3>1. Standing(entry[s], o) BY <2>3 DEF Owing, Busy
    <3> QED BY <3>1, <2>1, <2>2, <1>1, <1>2, StornoFollows
            DEF Standing, Drafted
  <2>4. CASE job[w].role = "storno"
    <3>1. job[w].own = s /\ Drafted(entry[s], o) BY <2>4 DEF Hands, Owing
    <3>2. /\ entry'[s].status = IF Present(s) THEN "posted" ELSE "absent"
          /\ entry'[s].source = entry[s].source
          /\ entry'[s].reverses = entry[s].reverses
      BY <3>1, <1>1 DEF SetStatus, Present, Entry
    <3> QED BY <3>1, <3>2 DEF Standing, Drafted, Present
  <2> QED BY <2>3, <2>4 DEF Hands, Job, Sources
<1>8. ASSUME NEW v \in Workers PROVE Owing(v)'
  <2>1. CASE v = w
    <3>1. job'[w].pc \notin {"lines", "post"} /\ job'[w].storno = s
          /\ job'[w].orig = o
      BY <1>3, <1>4, <1>5
    <3> QED BY <1>7, <2>1, <3>1 DEF Owing, Standing, Drafted
  <2>2. CASE v # w
    <3>1. Follows(v) BY <1>5, <2>2 DEF Follows
    <3> QED BY <3>1, <1>2, OwingFollows
  <2> QED BY <2>1, <2>2
<1>9. Apart' /\ Loose' /\ RegularAlone' /\ ReversalStands'
  BY <1>2, <1>6, LedgerFollows
<1> QED BY <1>8, <1>9

(* The compare-and-set: the storno leaves the request's hand for the link.   *)
LEMMA MarkReversals ==
    ASSUME IType, Reversals, NEW w \in Workers, job[w].pc = "mark",
           ReversalAccepted(job[w].orig, job[w].storno),
           LinkReversal(job[w].orig, job[w].storno), Finish(w)
    PROVE  Reversals'
<1> USE DEF IType, TypeOK, Reversals
<1> DEFINE s == job[w].storno
           o == job[w].orig
<1>1. s \in EntryIds BY DEF Hands, Job, Sources
<1>2. Standing(entry[s], o) BY DEF Owing
<1>3. Held(w, s) BY DEF Held
<1>4. entry[o].status = "posted" /\ entry[s].status # "absent"
  BY DEF ReversalAccepted, Present
<1>5. /\ nextId' = nextId
      /\ \A e \in EntryIds :
           /\ entry'[e].source = entry[e].source
           /\ entry'[e].reverses = entry[e].reverses
           /\ e = o => /\ entry'[e].status = "reversed"
                       /\ entry'[e].reversedBy = s
           /\ e # o => entry'[e] = entry[e]
  BY DEF LinkReversal, Entry
<1>6. HandsShrink /\ (\A v \in Workers : Follows(v)) BY FinishTurns
<1>7. \A e \in EntryIds : ~Held(w, e)'
  <2>1. job'[w] = Idle BY DEF Finish
  <2> QED BY <2>1 DEF Held, Idle, EntryIds, None
<1> HIDE DEF s, o
<1>8. Apart' BY <1>4, <1>5, <1>6 DEF Apart, HandsShrink, Present
<1>9. Loose'
  <2>1. ASSUME NEW v \in Workers, NEW q \in EntryIds, NEW e \in EntryIds,
               Held(v, e)', entry'[q].status = "reversed"
        PROVE  entry'[q].reversedBy # e
    <3>1. v # w /\ Held(v, e) BY <1>6, <1>7, <2>1 DEF HandsShrink
    <3>2. CASE q = o BY <1>1, <1>3, <1>5, <3>1, <3>2 DEF Apart
    <3>3. CASE q # o BY <1>5, <2>1, <3>1, <3>3 DEF Loose
    <3> QED BY <3>2, <3>3
  <2> QED BY <2>1 DEF Loose
<1>10. RegularAlone' BY <1>5 DEF RegularAlone
<1>11. \A e \in EntryIds : entry[e].status \in {"posted", "reversed"}
          => entry'[e].status \in {"posted", "reversed"}
  BY <1>5
<1>12. ASSUME NEW e \in EntryIds, entry'[e].status = "reversed"
       PROVE  /\ entry'[e].reversedBy \in EntryIds
              /\ entry'[entry'[e].reversedBy].reverses = e
              /\ entry'[entry'[e].reversedBy].status \in {"posted", "reversed"}
  <2>1. CASE e = o
    BY <1>1, <1>2, <1>4, <1>5, <1>11, <2>1 DEF Standing, Drafted
  <2>2. CASE e # o
    <3>1. entry'[e].reversedBy = entry[e].reversedBy
          /\ entry[e].status = "reversed"
      BY <1>5, <1>12, <2>2
    <3>2. /\ entry[e].reversedBy \in EntryIds
          /\ entry[entry[e].reversedBy].reverses = e
          /\ entry[entry[e].reversedBy].status \in {"posted", "reversed"}
      BY <3>1 DEF ReversalStands
    <3> QED BY <3>1, <3>2, <1>5, <1>11
  <2> QED BY <2>1, <2>2
<1>13. ReversalStands' BY <1>12 DEF ReversalStands
<1>14. \A r \in EntryIds : \A q :
          /\ Drafted(entry[r], q) => Drafted(entry'[r], q)
          /\ Standing(entry[r], q) => Standing(entry'[r], q)
  BY <1>4, <1>5 DEF Drafted, Standing
<1>15. ASSUME NEW v \in Workers PROVE Owing(v)'
  <2>1. CASE v = w
    <3>1. job'[w].pc = "idle" /\ job'[w].role = "regular"
      BY DEF Finish, Idle
    <3> QED BY <2>1, <3>1 DEF Owing
  <2>2. CASE v # w
    <3>1. job'[v] = job[v] BY <2>2 DEF Finish
    <3>2. Owing(v) OBVIOUS
    <3>3. ASSUME job[v].role = "storno", job[v].pc \in {"lines", "post"}
          PROVE  Drafted(entry'[job[v].own], job[v].orig)
      <4>1. job[v].own \in EntryIds BY <3>3 DEF Hands
      <4>2. Drafted(entry[job[v].own], job[v].orig) BY <3>2, <3>3 DEF Owing
      <4> QED BY <4>1, <4>2, <1>14 DEF Drafted
    <3>4. ASSUME job[v].pc = "mark"
                 \/ (job[v].role = "correction" /\ job[v].pc \in Busy)
          PROVE  Standing(entry'[job[v].storno], job[v].orig)
      <4>1. job[v].storno \in EntryIds BY <3>4 DEF Hands, Job, Sources
      <4>2. Standing(entry[job[v].storno], job[v].orig) BY <3>2, <3>4 DEF Owing
      <4> QED BY <4>1, <4>2, <1>14 DEF Drafted, Standing
    <3> QED BY <3>1, <3>3, <3>4 DEF Owing, Drafted, Standing
  <2> QED BY <2>1, <2>2
<1> QED BY <1>8, <1>9, <1>10, <1>13, <1>15
-----------------------------------------------------------------------------
(* Every step of the specification.                                          *)

LEMMA StartReversals ==
    ASSUME IType, Reversals, NEW w \in Workers, Start(w)
    PROVE  Reversals'
<1>1. ASSUME NEW j, Begin(w, j), j.own = None, j.storno = None, j.undo = <<>>,
             \/ j.pc = "number" /\ j.role = "storno"
             \/ j.pc = "insert" /\ j.role = "regular"
      PROVE  Reversals'
  <2>1. \A e \in EntryIds :
           ~ \/ e \in {j.own, j.storno}
             \/ \E i \in DOMAIN j.undo : j.undo[i] = e
    BY <1>1 DEF EntryIds, None
  <2>2. job' = [job EXCEPT ![w] = j] /\ UNCHANGED db BY <1>1 DEF Begin
  <2>3. HandsShrink /\ (\A v \in Workers : Follows(v)) BY <1>1, <2>1, <2>2, Turn
  <2>4. HeadersFollow BY <2>2, HeaderEffects
  <2> QED BY <2>3, <2>4, ReversalsFollow
<1>2. ASSUME NEW p \in Periods, StartCreate(w, p) PROVE Reversals'
  <2> DEFINE j == [[Idle EXCEPT !.pc = "insert"] EXCEPT !.target = p]
  <2>1. /\ j.pc = "insert" /\ j.role = "regular" /\ j.undo = <<>>
        /\ j.own = None /\ j.storno = None
    BY DEF Idle
  <2>2. Begin(w, j) BY <1>2 DEF StartCreate
  <2> HIDE DEF j
  <2> QED BY <2>1, <2>2, <1>1
<1>3. ASSUME NEW e \in EntryIds, StartReverse(w, e) PROVE Reversals'
  <2> DEFINE j == [Idle EXCEPT !.pc = "number", !.op = "reverse",
                               !.role = "storno", !.orig = e,
                               !.home = entry[e].period]
  <2>1. /\ j.pc = "number" /\ j.role = "storno" /\ j.undo = <<>>
        /\ j.own = None /\ j.storno = None
    BY DEF Idle
  <2>2. Begin(w, j) BY <1>3 DEF StartReverse
  <2> HIDE DEF j
  <2> QED BY <2>1, <2>2, <1>1
<1>4. ASSUME NEW e \in EntryIds, NEW p \in Periods, StartCorrect(w, e, p)
      PROVE  Reversals'
  <2> DEFINE j == [Idle EXCEPT !.pc = "number", !.op = "correct",
                               !.role = "storno", !.orig = e,
                               !.home = entry[e].period, !.target = p]
  <2>1. /\ j.pc = "number" /\ j.role = "storno" /\ j.undo = <<>>
        /\ j.own = None /\ j.storno = None
    BY DEF Idle
  <2>2. Begin(w, j) BY <1>4 DEF StartCorrect
  <2> HIDE DEF j
  <2> QED BY <2>1, <2>2, <1>1
<1> QED BY <1>2, <1>3, <1>4 DEF Start

LEMMA AdvanceReversals ==
    ASSUME IType, Reversals, IType', NEW w \in Workers, Advance(w),
           "lostReply" \notin Faults
    PROVE  Reversals'
<1>1. ASSUME HeadersFollow, HandsShrink, \A v \in Workers : Follows(v)
      PROVE  Reversals'
  BY <1>1, ReversalsFollow
<1>2. UNCHANGED db => HeadersFollow BY HeaderEffects
<1>3. ASSUME Finish(w) \/ CancelOwn(w) \/ CancelEarlier(w)
      PROVE  HandsShrink /\ (\A v \in Workers : Follows(v))
             /\ job'[w].pc \notin Busy
  BY <1>3, FinishTurns, CancelTurns
<1>4. ASSUME NEW step, step \in {"commit", "cancelDraft", "cleanup",
                                 "undo", "undoLines"}, Goto(w, step)
      PROVE  HandsShrink /\ (\A v \in Workers : Follows(v))
             /\ job'[w].pc \notin Busy
  <2>1. step \notin Busy BY <1>4 DEF Busy
  <2> QED BY <1>4, <2>1, GotoTurns
<1>5. CASE AllocateNumber(w)
  <2>1. HeadersFollow
    BY <1>5, HeaderEffects DEF AllocateNumber, Statement
  <2>2. CASE CancelEarlier(w) BY <2>1, <2>2, <1>1, <1>3
  <2>3. ASSUME NEW n, job' = [job EXCEPT ![w].pc = "insert", ![w].number = n]
        PROVE  Reversals'
    <3> DEFINE j == [[job[w] EXCEPT !.pc = "insert"] EXCEPT !.number = n]
    <3>1. job' = [job EXCEPT ![w] = j] BY <2>3
    <3>2. /\ j.pc = "insert" /\ j.role = job[w].role /\ j.orig = job[w].orig
          /\ j.own = job[w].own /\ j.storno = job[w].storno
          /\ j.undo = job[w].undo
      BY DEF IType, TypeOK, Job
    <3> HIDE DEF j
    <3>3. job[w].pc = "number" BY <1>5 DEF AllocateNumber, At
    <3>4. \A e \in EntryIds :
             \/ e \in {j.own, j.storno}
             \/ \E i \in DOMAIN j.undo : j.undo[i] = e
             => Held(w, e)
      BY <3>2 DEF Held
    <3>5. HandsShrink /\ (\A v \in Workers : Follows(v))
      BY <3>1, <3>2, <3>3, <3>4, Turn
    <3> QED BY <2>1, <3>5, <1>1
  <2> QED BY <1>5, <2>2, <2>3 DEF AllocateNumber, Statement
<1>6. CASE InsertHeader(w)
  <2>1. job[w].pc = "insert" BY <1>6 DEF InsertHeader, At
  <2>2. \/ InsertEffect(OwnHeader(w)) /\ Remember(w)
        \/ UNCHANGED db /\ CancelEarlier(w)
    BY <1>6 DEF InsertHeader, Statement
  <2> QED BY <2>1, <2>2, <1>1, <1>2, <1>3, InsertReversals
<1>7. CASE InsertLines(w)
  <2>1. HeadersFollow BY <1>7, HeaderEffects DEF InsertLines, Statement
  <2>2. job[w].pc = "lines" BY <1>7 DEF InsertLines, At
  <2>3. ASSUME Goto(w, "post")
        PROVE  HandsShrink /\ (\A v \in Workers : Follows(v))
    BY <2>2, <2>3, GotoTurns
  <2>4. HandsShrink /\ (\A v \in Workers : Follows(v))
    BY <1>7, <1>3, <1>4, <2>3 DEF InsertLines, Statement
  <2> QED BY <2>1, <2>4, <1>1
<1>8. CASE CancelDraft(w)
  <2>1. Finish(w) BY <1>8 DEF CancelDraft, Statement
  <2>2. job[w].own \in EntryIds /\ Held(w, job[w].own)
    BY <1>8 DEF CancelDraft, At, IType, Hands, Held
  <2>3. HeadersFollow
    BY <1>8, <2>1, <2>2, <1>2, <1>3, CancelEffect DEF CancelDraft, Statement
  <2> QED BY <2>1, <2>3, <1>1, <1>3
<1>9. CASE Commit(w)
  <2>1. job[w].own \in EntryIds BY <1>9 DEF Commit, At, IType, Hands
  <2>2. HeadersFollow BY <1>9, <2>1, HeaderEffects DEF Commit, Statement
  <2>3. Finish(w) \/ Goto(w, "cleanup") BY <1>9 DEF Commit, Statement
  <2> QED BY <2>2, <2>3, <1>1, <1>3, <1>4
<1>10. CASE CancelIfDraft(w)
  <2>1. Finish(w) BY <1>10 DEF CancelIfDraft, Statement
  <2>2. job[w].own \in EntryIds /\ Held(w, job[w].own)
    BY <1>10 DEF CancelIfDraft, At, IType, Hands, Held
  <2>3. ASSUME entry[job[w].own].status = "draft",
               ~locked[entry[job[w].own].period]
        PROVE  StatusAccepted(job[w].own, "cancelled")
    BY <2>3 DEF StatusAccepted, StatusSteps
  <2>4. HeadersFollow
    BY <1>10, <2>1, <2>2, <2>3, <1>2, <1>3, CancelEffect
    DEF CancelIfDraft, Statement
  <2> QED BY <2>1, <2>4, <1>1, <1>3
<1>11. CASE Post(w)
  <2>1. job[w].pc = "post" BY <1>11 DEF Post, At
  <2>2. \/ /\ PostAccepted(w, job[w].own)
           /\ SetStatus(job[w].own, "posted") /\ GoOn(w)
        \/ UNCHANGED db /\ CancelOwn(w)
    BY <1>11 DEF Post, Statement
  <2> QED BY <2>1, <2>2, <1>1, <1>2, <1>3, PostReversals
<1>12. CASE MarkReversed(w)
  <2>1. job[w].pc = "mark" BY <1>12 DEF MarkReversed, At
  <2>2. \/ /\ ReversalAccepted(job[w].orig, job[w].storno)
           /\ LinkReversal(job[w].orig, job[w].storno) /\ Finish(w)
        \/ /\ UNCHANGED db
           /\ \/ Abandon(w, <<job[w].storno, job[w].own>>)
              \/ Abandon(w, <<job[w].storno>>)
    BY <1>12 DEF MarkReversed, Statement
  <2>3. ASSUME \/ Abandon(w, <<job[w].storno, job[w].own>>)
               \/ Abandon(w, <<job[w].storno>>)
        PROVE  HandsShrink /\ (\A v \in Workers : Follows(v))
    BY <2>3, AbandonTurns DEF Held
  <2> QED BY <2>1, <2>2, <2>3, <1>1, <1>2, MarkReversals
<1>13. CASE UndoHeader(w)
  <2>1. job'[w].pc \notin Busy /\ HandsShrink /\ (\A v \in Workers : Follows(v))
    BY <1>13, <1>4 DEF UndoHeader, Statement
  <2>2. Head(job[w].undo) \in EntryIds /\ Held(w, Head(job[w].undo))
    <3>1. job[w].undo \in Seq(EntryIds) /\ job[w].undo # <<>>
      BY <1>13 DEF UndoHeader, At, IType, TypeOK, Hands, Job
    <3> QED BY <3>1 DEF Held
  <2>3. HeadersFollow
    BY <1>13, <2>1, <2>2, <1>2, CancelEffect DEF UndoHeader, Statement
  <2> QED BY <2>1, <2>3, <1>1
<1>14. CASE UndoLines(w)
  <2>1. HeadersFollow BY <1>14, HeaderEffects DEF UndoLines, Statement
  <2>2. Abandon(w, Tail(job[w].undo)) BY <1>14 DEF UndoLines, Statement
  <2>3. ASSUME NEW i \in DOMAIN Tail(job[w].undo)
        PROVE  Held(w, Tail(job[w].undo)[i])
    <3>1. job[w].undo \in Seq(EntryIds) /\ job[w].undo # <<>>
      BY <1>14 DEF UndoLines, At, IType, TypeOK, Hands, Job
    <3>2. /\ i + 1 \in DOMAIN job[w].undo
          /\ Tail(job[w].undo)[i] = job[w].undo[i + 1]
      BY <3>1
    <3> QED BY <3>2 DEF Held
  <2>4. HandsShrink /\ (\A v \in Workers : Follows(v))
    BY <2>2, <2>3, AbandonTurns
  <2> QED BY <2>1, <2>4, <1>1
<1> QED BY <1>5, <1>6, <1>7, <1>8, <1>9, <1>10, <1>11, <1>12, <1>13, <1>14
    DEF Advance

LEMMA StepReversals ==
    ASSUME IType, Reversals, IType', [Next]_vars, "lostReply" \notin Faults
    PROVE  Reversals'
<1>1. ASSUME UNCHANGED job
      PROVE  HandsShrink /\ (\A v \in Workers : Follows(v))
  BY <1>1 DEF HandsShrink, Held, Follows
<1>2. CASE UNCHANGED vars
  <2>1. HeadersFollow BY <1>2, HeaderEffects DEF vars, db
  <2> QED BY <1>1, <1>2, <2>1, ReversalsFollow DEF vars
<1>3. ASSUME NEW w \in Workers, Crash(w) PROVE Reversals'
  <2>1. HeadersFollow BY <1>3, HeaderEffects DEF Crash
  <2> QED BY <1>3, <2>1, FinishTurns, ReversalsFollow DEF Crash
<1>4. CASE Other
  <2>1. ASSUME NEW e \in EntryIds, CommitDraft(e) PROVE Reversals'
    <3>1. HeadersFollow BY <2>1, HeaderEffects DEF CommitDraft
    <3> QED BY <2>1, <3>1, <1>1, ReversalsFollow DEF CommitDraft
  <2>2. ASSUME NEW e \in EntryIds, CancelOrphan(e) PROVE Reversals'
    <3>1. HeadersFollow BY <2>2, CancelEffect DEF CancelOrphan
    <3> QED BY <2>2, <3>1, <1>1, ReversalsFollow DEF CancelOrphan
  <2>3. ASSUME NEW p \in Periods, LockPeriod(p) \/ UnlockPeriod(p)
        PROVE  Reversals'
    <3>1. UNCHANGED <<entry, nextId, job>>
      BY <2>3 DEF LockPeriod, UnlockPeriod, SetLock
    <3>2. HeadersFollow BY <3>1 DEF HeadersFollow
    <3> QED BY <3>1, <3>2, <1>1, ReversalsFollow
  <2> QED BY <1>4, <2>1, <2>2, <2>3 DEF Other
<1> QED BY <1>2, <1>3, <1>4, StartReversals, AdvanceReversals DEF Next

LEMMA ReversalsInit == Init => Reversals
<1> SUFFICES ASSUME Init PROVE Reversals OBVIOUS
<1>1. \A e \in EntryIds :
         /\ entry[e].status \in {"posted", "absent"}
         /\ entry[e].status = "posted" => e <= Seeds
         /\ entry[e].source = "regular" /\ entry[e].reverses = None
  BY DEF Init, NoEntry, Header
<1>2. Seeds \in Nat /\ EntryIds \subseteq Nat /\ nextId = Seeds + 1
  BY JournalAssumption DEF EntryIds, Init
<1>3. \A w \in Workers, e \in EntryIds : ~Held(w, e)
  BY DEF Init, Held, Idle, EntryIds, None
<1>4. \A w \in Workers : Owing(w) BY DEF Init, Owing, Idle
<1>5. ASSUME NEW e \in EntryIds, Present(e) PROVE e < nextId
  <2>1. e <= Seeds BY <1>1, <1>5 DEF Present
  <2>2. e \in Nat BY <1>2
  <2> QED BY <1>2, <2>1, <2>2
<1>6. Apart BY <1>3, <1>5 DEF Apart
<1>7. Loose BY <1>3 DEF Loose
<1>8. RegularAlone /\ ReversalStands
  BY <1>1 DEF RegularAlone, ReversalStands
<1> QED BY <1>4, <1>6, <1>7, <1>8 DEF Reversals

LEMMA ReversalsAlways ==
    ASSUME "lostReply" \notin Faults
    PROVE  Spec => []Reversals
<1>1. Init => Reversals BY ReversalsInit
<1>2. Reversals /\ IType /\ IType' /\ [Next]_vars => Reversals'
  BY StepReversals
<1> QED BY <1>1, <1>2, TypeAlways, PTL DEF Spec

(* If no reply of an applied statement is lost, the storno an original was   *)
(* reversed by stays in the ledger, however many requests reverse and        *)
(* correct it at once and whatever fails or crashes.                         *)
THEOREM ReversalsStand ==
    ASSUME "lostReply" \notin Faults
    PROVE  Spec => []ReversalStands
<1>1. Reversals => ReversalStands BY DEF Reversals
<1> QED BY <1>1, ReversalsAlways, PTL
-----------------------------------------------------------------------------
(* Stornos and corrected entries are accounted for. A header that may still  *)
(* count is settled, or a request is minding it: it will link the header, or *)
(* cancel it. The undo of a request is ignored when a period is locked or a  *)
(* statement fails for a passing reason, and a crash leaves a posted storno  *)
(* behind, so this is about a run without these. A lost reply only makes a   *)
(* request take back what it has done: what it no longer knows is a draft    *)
(* without lines, which nobody can post.                                     *)

(* Every id on a header, and every id a request knows, was handed out.       *)
Known ==
    /\ IdsFresh
    /\ \A w \in Workers, e \in EntryIds : Held(w, e) => e < nextId

HandsGrow ==
    \A w \in Workers, e \in EntryIds :
        Held(w, e)' => Held(w, e) \/ (e = nextId /\ nextId' = nextId + 1)

Live(e) ==
    \/ entry[e].status = "posted"
    \/ entry[e].status = "draft" /\ entry[e].lines

(* Storno e has reversed its original; the original corrected by e is        *)
(* reversed.                                                                 *)
Settled(e) ==
    /\ entry[e].source = "storno" => Linked(e)
    /\ entry[e].source = "correction" =>
          \E o \in EntryIds : /\ entry[e].corrects = o
                              /\ entry[o].status = "reversed"

Minding(w, e) ==
    \/ job[w].pc \in Busy /\ e \in {job[w].own, job[w].storno}
    \/ \E i \in DOMAIN job[w].undo :
          /\ job[w].undo[i] = e
          /\ job[w].pc = "undo" \/ (job[w].pc = "undoLines" /\ i # 1)

Minded(e) == \E w \in Workers : Minding(w, e)

(* What a request has in hand at its steps: nothing before its first header, *)
(* the storno of its original alone before the corrected entry, and a regular*)
(* voucher only in createJournalEntry, which undoes nothing.                 *)
Tended(w) ==
    /\ job[w].role = "regular" =>
          /\ job[w].pc \notin {"number", "post", "mark", "undo", "undoLines"}
          /\ job[w].storno = None
          /\ job[w].own \in EntryIds => entry[job[w].own].source = "regular"
    /\ job[w].role # "regular" =>
          /\ job[w].orig \in EntryIds
          /\ job[w].pc \in Busy \cup {"undo", "undoLines"}
    /\ job[w].role = "correction" => job[w].op = "correct"
    /\ job[w].pc \in {"number", "insert"} =>
          IF job[w].role = "correction" THEN job[w].own = job[w].storno
          ELSE job[w].own = None /\ job[w].storno = None
    /\ job[w].role = "correction" /\ job[w].pc \in {"lines", "post", "mark"}
          => /\ entry[job[w].own].source = "correction"
             /\ entry[job[w].own].corrects = job[w].orig
    /\ job[w].pc \in Busy /\ job[w].storno \in EntryIds
          => /\ entry[job[w].storno].source = "storno"
             /\ entry[job[w].storno].reverses = job[w].orig

Accounted ==
    /\ \A e \in EntryIds : Live(e) => Settled(e) \/ Minded(e)
    /\ \A w \in Workers : Tended(w)
    /\ \A p \in Periods : ~locked[p]

(* No header changes what it is, nor a reversed one anything.                *)
Kept ==
    /\ locked' = locked
    /\ \A e \in EntryIds : e < nextId =>
          /\ entry'[e].source = entry[e].source
          /\ entry'[e].reverses = entry[e].reverses
          /\ entry'[e].corrects = entry[e].corrects
          /\ entry[e].status = "reversed" =>
                /\ entry'[e].status = "reversed"
                /\ entry'[e].reversedBy = entry[e].reversedBy

(* Request w drops a header only when it is settled or no longer live.       *)
Careful(w) ==
    /\ Tended(w)'
    /\ \A e \in EntryIds :
          Minding(w, e) /\ Live(e)' => Minding(w, e)' \/ Settled(e)'

LEMMA AdvanceHands ==
    ASSUME IType, NEW w \in Workers, Advance(w)
    PROVE  HandsGrow /\ nextId' \in {nextId, nextId + 1}
<1> USE DEF IType, TypeOK
<1>1. nextId' \in {nextId, nextId + 1}
  BY DEF Advance, AllocateNumber, InsertHeader, InsertLines, CancelDraft, Commit,
     CancelIfDraft, Post, MarkReversed, UndoHeader, UndoLines, Statement, db,
     ConsumeNumber, InsertEffect, SetLines, SetStatus, CommitEffect, LinkReversal
<1>2. ASSUME NEW j, job' = [job EXCEPT ![w] = j],
             \A e \in EntryIds :
                \/ e \in {j.own, j.storno}
                \/ \E i \in DOMAIN j.undo : j.undo[i] = e
                => Held(w, e) \/ (e = nextId /\ nextId' = nextId + 1)
      PROVE  HandsGrow
  <2>1. job'[w] = j /\ \A v \in Workers \ {w} : job'[v] = job[v] BY <1>2
  <2>2. ASSUME NEW v \in Workers, NEW e \in EntryIds, Held(v, e)'
        PROVE  Held(v, e) \/ (e = nextId /\ nextId' = nextId + 1)
    <3>1. CASE v = w BY <1>2, <2>1, <2>2, <3>1 DEF Held
    <3>2. CASE v # w BY <2>1, <2>2, <3>2 DEF Held
    <3> QED BY <3>1, <3>2
  <2> QED BY <2>2 DEF HandsGrow
<1>3. ASSUME NEW j, job' = [job EXCEPT ![w] = j],
             j.own = job[w].own, j.storno = job[w].storno, j.undo = job[w].undo
      PROVE  HandsGrow
  <2>1. \A e \in EntryIds :
           \/ e \in {j.own, j.storno}
           \/ \E i \in DOMAIN j.undo : j.undo[i] = e
           => Held(w, e)
    BY <1>3 DEF Held
  <2> QED BY <1>2, <1>3, <2>1
<1>4. HandsShrink => HandsGrow BY DEF HandsShrink, HandsGrow
<1>5. ASSUME NEW step, Goto(w, step) PROVE HandsGrow
  <2> DEFINE j == [job[w] EXCEPT !.pc = step]
  <2>1. job' = [job EXCEPT ![w] = j] BY <1>5 DEF Goto
  <2>2. /\ j.own = job[w].own /\ j.storno = job[w].storno
        /\ j.undo = job[w].undo
    BY DEF Job
  <2> HIDE DEF j
  <2> QED BY <1>3, <2>1, <2>2
<1>6. ASSUME Finish(w) \/ CancelOwn(w) \/ CancelEarlier(w) PROVE HandsGrow
  BY <1>4, <1>6, FinishTurns, CancelTurns
<1>7. CASE AllocateNumber(w)
  <2>1. ASSUME NEW n, job' = [job EXCEPT ![w].pc = "insert", ![w].number = n]
        PROVE  HandsGrow
    <3> DEFINE j == [[job[w] EXCEPT !.pc = "insert"] EXCEPT !.number = n]
    <3>1. job' = [job EXCEPT ![w] = j] BY <2>1
    <3>2. /\ j.own = job[w].own /\ j.storno = job[w].storno
          /\ j.undo = job[w].undo
      BY DEF Job
    <3> HIDE DEF j
    <3> QED BY <1>3, <3>1, <3>2
  <2> QED BY <1>1, <1>6, <1>7, <2>1 DEF AllocateNumber, Statement
<1>8. CASE InsertHeader(w)
  <2>1. ASSUME Remember(w), nextId' = nextId + 1 PROVE HandsGrow
    <3> DEFINE j == [[[job[w] EXCEPT !.pc = "lines"] EXCEPT !.own = nextId]
                       EXCEPT !.storno = IF job[w].role = "storno" THEN nextId
                                         ELSE job[w].storno]
    <3>1. job' = [job EXCEPT ![w] = j] BY <2>1 DEF Remember
    <3>2. /\ j.own = nextId /\ j.storno \in {nextId, job[w].storno}
          /\ j.undo = job[w].undo
      BY DEF Job
    <3> HIDE DEF j
    <3>3. \A e \in EntryIds :
             \/ e \in {j.own, j.storno}
             \/ \E i \in DOMAIN j.undo : j.undo[i] = e
             => Held(w, e) \/ e = nextId
      BY <3>2 DEF Held
    <3> QED BY <1>2, <2>1, <3>1, <3>3
  <2> QED BY <1>1, <1>6, <1>8, <2>1 DEF InsertHeader, Statement, InsertEffect
<1>9. CASE \/ InsertLines(w) \/ CancelDraft(w) \/ Commit(w) \/ CancelIfDraft(w)
           \/ UndoHeader(w)
  BY <1>1, <1>5, <1>6, <1>9
     DEF InsertLines, CancelDraft, Commit, CancelIfDraft, UndoHeader, Statement
<1>10. CASE Post(w)
  <2>1. ASSUME job' = [job EXCEPT ![w].pc = "number", ![w].role = "correction"]
        PROVE  HandsGrow
    <3> DEFINE j == [[job[w] EXCEPT !.pc = "number"] EXCEPT !.role = "correction"]
    <3>1. job' = [job EXCEPT ![w] = j] BY <2>1
    <3>2. /\ j.own = job[w].own /\ j.storno = job[w].storno
          /\ j.undo = job[w].undo
      BY DEF Job
    <3> HIDE DEF j
    <3> QED BY <1>3, <3>1, <3>2
  <2> QED BY <1>1, <1>5, <1>6, <1>10, <2>1 DEF Post, Statement, GoOn
<1>11. CASE MarkReversed(w)
  <2>1. \/ Finish(w) \/ Abandon(w, <<job[w].storno, job[w].own>>)
        \/ Abandon(w, <<job[w].storno>>)
    BY <1>11 DEF MarkReversed, Statement
  <2>2. ASSUME \/ Abandon(w, <<job[w].storno, job[w].own>>)
               \/ Abandon(w, <<job[w].storno>>)
        PROVE  HandsShrink
    BY <2>2, AbandonTurns DEF Held
  <2> QED BY <1>1, <1>4, <1>6, <2>1, <2>2
<1>12. CASE UndoLines(w)
  <2>1. Abandon(w, Tail(job[w].undo)) BY <1>12 DEF UndoLines, Statement
  <2>2. ASSUME NEW i \in DOMAIN Tail(job[w].undo)
        PROVE  Held(w, Tail(job[w].undo)[i])
    <3>1. job[w].undo \in Seq(EntryIds) /\ job[w].undo # <<>>
      BY <1>12 DEF UndoLines, At, Hands, Job
    <3>2. /\ i + 1 \in DOMAIN job[w].undo
          /\ Tail(job[w].undo)[i] = job[w].undo[i + 1]
      BY <3>1
    <3> QED BY <3>2 DEF Held
  <2> QED BY <1>1, <1>4, <2>1, <2>2, AbandonTurns
<1> QED BY <1>1, <1>7, <1>8, <1>9, <1>10, <1>11, <1>12 DEF Advance

LEMMA KnownStep ==
    ASSUME IType, Known, [Next]_vars
    PROVE  Known'
<1>1. IdsFresh' BY IdsStep DEF Known
<1>2. ASSUME HandsGrow, nextId' \in {nextId, nextId + 1} PROVE Known'
  <2>1. nextId \in Nat /\ EntryIds \subseteq Nat
    BY JournalAssumption DEF IType, TypeOK, EntryIds
  <2> QED BY <1>1, <1>2, <2>1 DEF Known, HandsGrow
<1>3. ASSUME NEW w \in Workers, Start(w) PROVE Known'
  <2>1. ASSUME NEW j, Begin(w, j), j.own = None, j.storno = None, j.undo = <<>>
        PROVE  Known'
    <3>1. job' = [job EXCEPT ![w] = j] /\ nextId' = nextId
      BY <2>1 DEF Begin, db
    <3>2. job'[w] = j /\ \A v \in Workers \ {w} : job'[v] = job[v]
      BY <3>1 DEF IType, TypeOK
    <3>3. HandsGrow BY <2>1, <3>2 DEF HandsGrow, Held, None, EntryIds
    <3> QED BY <1>2, <3>1, <3>3
  <2>2. ASSUME NEW p, StartCreate(w, p) PROVE Known'
    <3> DEFINE j == [[Idle EXCEPT !.pc = "insert"] EXCEPT !.target = p]
    <3>1. j.own = None /\ j.storno = None /\ j.undo = <<>> BY DEF Idle
    <3>2. Begin(w, j) BY <2>2 DEF StartCreate
    <3> HIDE DEF j
    <3> QED BY <2>1, <3>1, <3>2
  <2>3. ASSUME NEW e, StartReverse(w, e) PROVE Known'
    <3> DEFINE j == [Idle EXCEPT !.pc = "number", !.op = "reverse",
                                 !.role = "storno", !.orig = e,
                                 !.home = entry[e].period]
    <3>1. j.own = None /\ j.storno = None /\ j.undo = <<>> BY DEF Idle
    <3>2. Begin(w, j) BY <2>3 DEF StartReverse
    <3> HIDE DEF j
    <3> QED BY <2>1, <3>1, <3>2
  <2>4. ASSUME NEW e, NEW p, StartCorrect(w, e, p) PROVE Known'
    <3> DEFINE j == [Idle EXCEPT !.pc = "number", !.op = "correct",
                                 !.role = "storno", !.orig = e,
                                 !.home = entry[e].period, !.target = p]
    <3>1. j.own = None /\ j.storno = None /\ j.undo = <<>> BY DEF Idle
    <3>2. Begin(w, j) BY <2>4 DEF StartCorrect
    <3> HIDE DEF j
    <3> QED BY <2>1, <3>1, <3>2
  <2> QED BY <1>3, <2>2, <2>3, <2>4 DEF Start
<1>4. ASSUME NEW w \in Workers, Crash(w) PROVE Known'
  <2>1. HandsShrink /\ nextId' = nextId BY <1>4, FinishTurns DEF Crash, db
  <2> QED BY <1>2, <2>1 DEF HandsShrink, HandsGrow
<1>5. CASE UNCHANGED job /\ nextId' = nextId
  BY <1>2, <1>5 DEF HandsGrow, Held
<1>6. CASE Other
  BY <1>5, <1>6 DEF Other, CommitDraft, CommitEffect, CancelOrphan, SetStatus,
     LockPeriod, UnlockPeriod, SetLock
<1> QED BY <1>2, <1>3, <1>4, <1>5, <1>6, AdvanceHands DEF Next, vars

LEMMA KnownAlways == Spec => []Known
<1>1. Init => Known
  BY ReversalsInit DEF Reversals, Apart, Known, IdsFresh
<1>2. IType /\ Known /\ [Next]_vars => Known' BY KnownStep
<1> QED BY <1>1, <1>2, TypeAlways, PTL DEF Spec

-----------------------------------------------------------------------------

LEMMA AccountedFollows ==
    ASSUME IType, Known, Accounted, Kept,
           \A w \in Workers : Careful(w),
           \A e \in EntryIds : Live(e)' => Live(e) \/ Settled(e)' \/ Minded(e)'
    PROVE  Accounted'
<1>1. ASSUME NEW e \in EntryIds, Live(e)' PROVE Settled(e)' \/ Minded(e)'
  <2>1. CASE Live(e) /\ Settled(e)
    <3>1. e < nextId BY <2>1 DEF Live, Known, IdsFresh, Present
    <3>2. \A o \in EntryIds : entry[o].status = "reversed" => o < nextId
      BY DEF Known, IdsFresh, Present
    <3>3. entry[e].source = "storno" => Linked(e)'
      BY <2>1, <3>1, <3>2 DEF Settled, Linked, Kept
    <3>4. entry[e].source = "correction" =>
             \E o \in EntryIds : /\ entry'[e].corrects = o
                                 /\ entry'[o].status = "reversed"
      BY <2>1, <3>1, <3>2 DEF Settled, Kept
    <3> QED BY <3>1, <3>3, <3>4 DEF Settled, Kept
  <2>2. CASE Live(e) /\ Minded(e) BY <1>1, <2>2 DEF Minded, Careful
  <2> QED BY <1>1, <2>1, <2>2 DEF Accounted
<1> QED BY <1>1 DEF Accounted, Careful, Kept

(* A request that does nothing drops nothing.                                *)
LEMMA StillCareful ==
    ASSUME IType, Known, Accounted, Kept, NEW w \in Workers, job'[w] = job[w]
    PROVE  Careful(w)
<1>1. \A e \in EntryIds : Minding(w, e) => Minding(w, e)' BY DEF Minding
<1>2. /\ job[w].own \in EntryIds => job[w].own < nextId
      /\ job[w].storno \in EntryIds => job[w].storno < nextId
  BY DEF Known, Held
<1>3. Tended(w) BY DEF Accounted
<1>4. job[w].role = "correction" /\ job[w].pc \in {"lines", "post", "mark"}
        => job[w].own \in EntryIds
  BY DEF IType, Hands
<1>5. Tended(w)'
  <2>1. job[w].role = "regular" /\ job[w].own \in EntryIds
          => entry'[job[w].own].source = "regular"
    BY <1>2, <1>3 DEF Tended, Kept
  <2>2. job[w].role = "correction" /\ job[w].pc \in {"lines", "post", "mark"}
          => /\ entry'[job[w].own].source = "correction"
             /\ entry'[job[w].own].corrects = job[w].orig
    BY <1>2, <1>3, <1>4 DEF Tended, Kept
  <2>3. job[w].pc \in Busy /\ job[w].storno \in EntryIds
          => /\ entry'[job[w].storno].source = "storno"
             /\ entry'[job[w].storno].reverses = job[w].orig
    BY <1>2, <1>3 DEF Tended, Kept
  <2> QED BY <1>3, <2>1, <2>2, <2>3 DEF Tended
<1> QED BY <1>1, <1>5 DEF Careful

LEMMA AccountedStep ==
    ASSUME IType, Known, Accounted, Kept, NEW w \in Workers,
           NEW j, job' = [job EXCEPT ![w] = j], Careful(w),
           \A e \in EntryIds : Live(e)' => Live(e) \/ Minding(w, e)
    PROVE  Accounted'
<1>1. \A v \in Workers \ {w} : job'[v] = job[v] BY DEF IType, TypeOK
<1>2. \A v \in Workers : Careful(v) BY <1>1, StillCareful
<1>3. \A e \in EntryIds : Live(e)' => Live(e) \/ Settled(e)' \/ Minded(e)'
  BY DEF Minded, Careful
<1> QED BY <1>2, <1>3, AccountedFollows

LEMMA AbandonCareful ==
    ASSUME IType, Accounted, NEW w \in Workers, NEW es, Abandon(w, es),
           es # <<>> => job[w].role # "regular",
           \A e \in EntryIds : Minding(w, e) /\ Live(e)' =>
              (\E i \in DOMAIN es : es[i] = e) \/ Settled(e)'
    PROVE  /\ \E j : job' = [job EXCEPT ![w] = j]
           /\ Careful(w)
<1> USE DEF IType, TypeOK
<1>1. CASE es = <<>>
  <2>1. job' = [job EXCEPT ![w] = Idle] BY <1>1 DEF Abandon, Finish
  <2>2. Tended(w)' BY <2>1 DEF Tended, Idle, Busy, EntryIds, None
  <2>3. \A e \in EntryIds : Minding(w, e) /\ Live(e)' => Settled(e)'
    BY <1>1
  <2> QED BY <2>1, <2>2, <2>3 DEF Careful
<1>2. CASE es # <<>>
  <2> DEFINE j == [[job[w] EXCEPT !.pc = "undo"] EXCEPT !.undo = es]
  <2>1. job' = [job EXCEPT ![w] = j] BY <1>2 DEF Abandon
  <2>2. /\ j.pc = "undo" /\ j.undo = es /\ j.role = job[w].role
        /\ j.orig = job[w].orig /\ j.op = job[w].op
    BY DEF Job
  <2> HIDE DEF j
  <2>3. job'[w] = j BY <2>1
  <2>4. Tended(w)'
    <3>1. Tended(w) BY DEF Accounted
    <3> QED BY <1>2, <2>2, <2>3, <3>1 DEF Tended, Busy
  <2>5. \A e \in EntryIds : (\E i \in DOMAIN es : es[i] = e) => Minding(w, e)'
    BY <2>2, <2>3 DEF Minding
  <2> QED BY <2>1, <2>4, <2>5 DEF Careful
<1> QED BY <1>1, <1>2

LEMMA KeptEffects ==
    ASSUME IType
    PROVE  /\ UNCHANGED db => Kept
           /\ \A p : ConsumeNumber(p) => Kept
           /\ \A e, b : SetLines(e, b) => Kept
           /\ \A e \in EntryIds :
                 CommitAccepted(e) /\ CommitEffect(e) => Kept
           /\ \A e \in EntryIds : \A s \in {"posted", "cancelled"} :
                 StatusAccepted(e, s) /\ SetStatus(e, s) => Kept
           /\ \A e \in EntryIds : \A s :
                 ReversalAccepted(e, s) /\ LinkReversal(e, s) => Kept
<1> USE DEF IType, TypeOK, Kept, Entry
<1>1. UNCHANGED db => Kept BY DEF db
<1>2. \A p : ConsumeNumber(p) => Kept BY DEF ConsumeNumber
<1>3. \A e, b : SetLines(e, b) => Kept BY DEF SetLines
<1>4. \A e \in EntryIds : CommitAccepted(e) /\ CommitEffect(e) => Kept
  BY DEF CommitAccepted, CommitEffect
<1>5. \A e \in EntryIds : \A s \in {"posted", "cancelled"} :
         StatusAccepted(e, s) /\ SetStatus(e, s) => Kept
  BY DEF StatusAccepted, StatusSteps, SetStatus, Present
<1>6. \A e \in EntryIds : \A s :
         ReversalAccepted(e, s) /\ LinkReversal(e, s) => Kept
  BY DEF ReversalAccepted, LinkReversal
<1> QED BY <1>1, <1>2, <1>3, <1>4, <1>5, <1>6

(* No statement but the insertion of lines makes a header live.              *)
LEMMA LiveEffects ==
    ASSUME IType
    PROVE  /\ UNCHANGED db => \A f \in EntryIds : Live(f)' => Live(f)
           /\ \A p : ConsumeNumber(p) => \A f \in EntryIds : Live(f)' => Live(f)
           /\ \A e : SetLines(e, FALSE) =>
                 \A f \in EntryIds : Live(f)' => Live(f)
           /\ \A e : SetLines(e, TRUE) =>
                 \A f \in EntryIds : Live(f)' => Live(f) \/ f = e
           /\ \A e \in EntryIds : CommitAccepted(e) /\ CommitEffect(e) =>
                 \A f \in EntryIds : Live(f)' => Live(f)
           /\ \A e \in EntryIds :
                 StatusAccepted(e, "cancelled") /\ SetStatus(e, "cancelled") =>
                    \A f \in EntryIds : Live(f)' => Live(f)
           /\ \A e \in EntryIds : \A w :
                 PostAccepted(w, e) /\ SetStatus(e, "posted") =>
                    \A f \in EntryIds : Live(f)' => Live(f)
           /\ \A e \in EntryIds : \A s :
                 ReversalAccepted(e, s) /\ LinkReversal(e, s) =>
                    \A f \in EntryIds : Live(f)' => Live(f)
<1> USE DEF IType, TypeOK, Live, Entry
<1>1. UNCHANGED db => \A f \in EntryIds : Live(f)' => Live(f) BY DEF db
<1>2. \A p : ConsumeNumber(p) => \A f \in EntryIds : Live(f)' => Live(f)
  BY DEF ConsumeNumber
<1>3. /\ \A e : SetLines(e, FALSE) => \A f \in EntryIds : Live(f)' => Live(f)
      /\ \A e : SetLines(e, TRUE) =>
            \A f \in EntryIds : Live(f)' => Live(f) \/ f = e
  BY DEF SetLines
<1>4. \A e \in EntryIds : CommitAccepted(e) /\ CommitEffect(e) =>
         \A f \in EntryIds : Live(f)' => Live(f)
  BY DEF CommitAccepted, CommitEffect
<1>5. \A e \in EntryIds :
         StatusAccepted(e, "cancelled") /\ SetStatus(e, "cancelled") =>
            \A f \in EntryIds : Live(f)' => Live(f)
  BY DEF StatusAccepted, StatusSteps, SetStatus, Present
<1>6. \A e \in EntryIds : \A w : PostAccepted(w, e) /\ SetStatus(e, "posted") =>
         \A f \in EntryIds : Live(f)' => Live(f)
  <2>1. ASSUME NEW e \in EntryIds, NEW w, PostAccepted(w, e),
               SetStatus(e, "posted"), NEW f \in EntryIds, Live(f)'
        PROVE  Live(f)
    <3>1. CASE f # e \/ ~Present(e) BY <2>1, <3>1 DEF SetStatus
    <3>2. CASE f = e /\ Present(e)
      BY <2>1, <3>2 DEF PostAccepted, StatusAccepted, StatusSteps
    <3> QED BY <3>1, <3>2
  <2> QED BY <2>1
<1>7. \A e \in EntryIds : \A s :
         ReversalAccepted(e, s) /\ LinkReversal(e, s) =>
            \A f \in EntryIds : Live(f)' => Live(f)
  BY DEF ReversalAccepted, LinkReversal
<1> QED BY <1>1, <1>2, <1>3, <1>4, <1>5, <1>6, <1>7

(* An undone header is cancelled, unless it was reversed or never there.     *)
LEMMA Cancelled ==
    ASSUME IType, Accounted, NEW e \in EntryIds,
           \/ StatusAccepted(e, "cancelled") /\ SetStatus(e, "cancelled")
           \/ ~StatusAccepted(e, "cancelled") /\ UNCHANGED db
    PROVE  ~Live(e)'
<1> USE DEF IType, TypeOK, Entry, Live, StatusAccepted, StatusSteps, Present
<1>1. entry[e].period \in Periods OBVIOUS
<1>2. ~locked[entry[e].period] BY <1>1 DEF Accounted
<1>3. CASE StatusAccepted(e, "cancelled") /\ SetStatus(e, "cancelled")
  BY <1>3 DEF SetStatus
<1>4. CASE ~StatusAccepted(e, "cancelled") /\ UNCHANGED db
  <2>1. entry[e].status \notin {"draft", "posted"} BY <1>2, <1>4
  <2> QED BY <1>4, <2>1 DEF db
<1> QED BY <1>3, <1>4

(* A request in createJournalEntry has only a regular voucher in hand.       *)
LEMMA RegularCareful ==
    ASSUME IType, Known, Accounted, Kept, NEW w \in Workers,
           job[w].role = "regular",
           \/ Finish(w)
           \/ \E step \in {"commit", "cancelDraft", "cleanup"} : Goto(w, step)
    PROVE  /\ \E j : job' = [job EXCEPT ![w] = j]
           /\ Careful(w)
<1> USE DEF IType, TypeOK
<1>1. Tended(w) BY DEF Accounted
<1>2. ASSUME NEW e \in EntryIds, Minding(w, e) PROVE Settled(e)'
  <2>1. e = job[w].own BY <1>1, <1>2 DEF Minding, Tended, None, EntryIds
  <2>2. entry[e].source = "regular" BY <1>1, <2>1 DEF Tended
  <2>3. e < nextId BY <2>1 DEF Known, Held
  <2> QED BY <2>2, <2>3 DEF Kept, Settled
<1>3. CASE Finish(w)
  <2>1. job' = [job EXCEPT ![w] = Idle] BY <1>3 DEF Finish
  <2>2. Tended(w)' BY <2>1 DEF Tended, Idle, Busy, EntryIds, None
  <2> QED BY <1>2, <2>1, <2>2 DEF Careful
<1>4. ASSUME NEW step \in {"commit", "cancelDraft", "cleanup"}, Goto(w, step)
      PROVE  /\ \E j : job' = [job EXCEPT ![w] = j]
             /\ Careful(w)
  <2> DEFINE j == [job[w] EXCEPT !.pc = step]
  <2>1. job' = [job EXCEPT ![w] = j] BY <1>4 DEF Goto
  <2>2. /\ j.pc = step /\ j.role = "regular" /\ j.own = job[w].own
        /\ j.storno = job[w].storno
    BY DEF Job
  <2> HIDE DEF j
  <2>3. job'[w] = j BY <2>1
  <2>4. job[w].own \in EntryIds => job[w].own < nextId BY DEF Known, Held
  <2>5. job[w].own \in EntryIds => entry'[job[w].own].source = "regular"
    BY <1>1, <2>4 DEF Tended, Kept
  <2>6. Tended(w)' BY <1>1, <2>2, <2>3, <2>5 DEF Tended, None, EntryIds, Busy
  <2> QED BY <1>2, <2>1, <2>6 DEF Careful
<1> QED BY <1>3, <1>4

LEMMA PairItems ==
    ASSUME NEW a, NEW b
    PROVE  \A e \in {a, b} : \E i \in DOMAIN <<a, b>> : <<a, b>>[i] = e
<1>1. 1 \in DOMAIN <<a, b>> /\ 2 \in DOMAIN <<a, b>>
      /\ <<a, b>>[1] = a /\ <<a, b>>[2] = b
  OBVIOUS
<1> QED BY <1>1

(* What a request that has given up its draft takes back.                    *)
LEMMA CancelCareful ==
    ASSUME IType, Accounted, NEW w \in Workers,
           \/ /\ job[w].pc \in {"lines", "post"} /\ job[w].role # "regular"
              /\ CancelOwn(w)
           \/ job[w].pc \in {"number", "insert"} /\ CancelEarlier(w)
    PROVE  /\ \E j : job' = [job EXCEPT ![w] = j]
           /\ Careful(w)
<1> USE DEF IType, TypeOK, Job, Sources
<1>1. Tended(w) BY DEF Accounted
<1>2. CASE /\ job[w].pc \in {"lines", "post"} /\ job[w].role # "regular"
           /\ CancelOwn(w)
  <2> DEFINE es == IF job[w].role = "correction"
                   THEN <<job[w].own, job[w].storno>> ELSE <<job[w].own>>
  <2>1. Abandon(w, es) BY <1>2 DEF CancelOwn
  <2>2. \A e \in EntryIds : Minding(w, e) => e \in {job[w].own, job[w].storno}
    BY <1>2 DEF Minding
  <2>3. job[w].role # "correction" => job[w].storno = job[w].own
    BY <1>2 DEF Hands
  <2>4. ASSUME NEW e \in {job[w].own, job[w].storno}
        PROVE  \E i \in DOMAIN es : es[i] = e
    <3>1. CASE job[w].role = "correction"
      <4>1. es = <<job[w].own, job[w].storno>> BY <3>1
      <4> HIDE DEF es
      <4> QED BY <4>1, PairItems
    <3>2. CASE job[w].role # "correction"
      <4>1. es = <<job[w].own>> /\ e = job[w].own BY <2>3, <3>2
      <4>2. 1 \in DOMAIN es /\ es[1] = e BY <4>1
      <4> QED BY <4>2
    <3> QED BY <3>1, <3>2
  <2> HIDE DEF es
  <2> QED BY <1>2, <2>1, <2>2, <2>4, AbandonCareful
<1>3. CASE job[w].pc \in {"number", "insert"} /\ CancelEarlier(w)
  <2>1. CASE job[w].role = "correction"
    <3>1. Abandon(w, <<job[w].storno>>) BY <1>3, <2>1 DEF CancelEarlier
    <3>2. \A e \in EntryIds : Minding(w, e) => e = job[w].storno
      BY <1>1, <1>3, <2>1 DEF Minding, Tended
    <3>3. 1 \in DOMAIN <<job[w].storno>> /\ <<job[w].storno>>[1] = job[w].storno
      OBVIOUS
    <3> QED BY <2>1, <3>1, <3>2, <3>3, AbandonCareful
  <2>2. CASE job[w].role # "correction"
    <3>1. Abandon(w, <<>>) BY <1>3, <2>2 DEF CancelEarlier
    <3>2. \A e \in EntryIds : ~Minding(w, e)
      BY <1>1, <1>3, <2>2 DEF Minding, Tended, None, EntryIds
    <3> QED BY <3>1, <3>2, AbandonCareful
  <2> QED BY <2>1, <2>2
<1> QED BY <1>2, <1>3

(* The new header is in the request's hand from the start.                   *)
LEMMA InsertAccounted ==
    ASSUME IType, Known, Accounted, NEW w \in Workers, job[w].pc = "insert",
           InsertEffect(OwnHeader(w)), Remember(w)
    PROVE  Accounted'
<1> USE DEF IType, TypeOK
<1>1. PICK n \in EntryIds : n = nextId BY DEF InsertEffect
<1> DEFINE h == OwnHeader(w)
           j == [[[job[w] EXCEPT !.pc = "lines"] EXCEPT !.own = n]
                    EXCEPT !.storno = IF job[w].role = "storno" THEN n
                                      ELSE job[w].storno]
<1>2. /\ h.source = job[w].role
      /\ job[w].role = "correction" => h.corrects = job[w].orig
      /\ job[w].role = "storno" => h.reverses = job[w].orig
      /\ ~(h.status = "posted" \/ h.lines)
  BY DEF OwnHeader, Header
<1>3. /\ locked' = locked /\ entry'[n] = h
      /\ \A e \in EntryIds : e # n => entry'[e] = entry[e]
  BY <1>1 DEF InsertEffect
<1>4. job' = [job EXCEPT ![w] = j] BY <1>1 DEF Remember
<1>5. /\ j.pc = "lines" /\ j.role = job[w].role /\ j.orig = job[w].orig
      /\ j.op = job[w].op /\ j.own = n /\ j.undo = job[w].undo
      /\ j.storno = IF job[w].role = "storno" THEN n ELSE job[w].storno
  BY DEF Job
<1> HIDE DEF j, h
<1>6. job'[w] = j BY <1>4
<1>7. \A e \in EntryIds : e < nextId => e # n
  <2>1. n \in Nat BY <1>1
  <2> QED BY <1>1, <2>1
<1>8. Kept BY <1>3, <1>7 DEF Kept
<1>9. Tended(w) BY DEF Accounted
<1>10. Tended(w)'
  <2>1. job[w].role = "regular" => entry'[n].source = "regular"
    BY <1>2, <1>3
  <2>2. job[w].role = "correction" => /\ entry'[n].source = "correction"
                                      /\ entry'[n].corrects = job[w].orig
    BY <1>2, <1>3
  <2>3. job[w].role = "storno" => /\ entry'[n].source = "storno"
                                  /\ entry'[n].reverses = job[w].orig
    BY <1>2, <1>3
  <2>4. job[w].role = "correction" =>
           /\ entry'[job[w].storno].source = "storno"
           /\ entry'[job[w].storno].reverses = job[w].orig
    <3>1. job[w].role = "correction" =>
             job[w].storno \in EntryIds /\ job[w].storno < nextId
      BY DEF Hands, Known, Held
    <3> QED BY <1>3, <1>7, <1>9, <3>1 DEF Tended, Busy
  <2>5. job[w].role = "regular" => job[w].storno \notin EntryIds
    BY <1>9 DEF Tended, None, EntryIds
  <2>6. job[w].role \in {"regular", "storno", "correction"} BY DEF Job, Sources
  <2> QED BY <1>5, <1>6, <1>9, <2>1, <2>2, <2>3, <2>4, <2>5, <2>6 DEF Tended, Busy
<1>11. ~Live(n)' BY <1>2, <1>3 DEF Live
<1>12. ASSUME NEW e \in EntryIds, Minding(w, e) PROVE Minding(w, e)'
  <2>1. e \in {job[w].own, job[w].storno} BY <1>12 DEF Minding
  <2>2. job[w].role = "correction" /\ e = job[w].storno
    BY <1>9, <2>1 DEF Tended, None, EntryIds
  <2> QED BY <1>5, <1>6, <2>2 DEF Minding, Busy
<1>13. Careful(w) BY <1>10, <1>12 DEF Careful
<1>14. \A e \in EntryIds : Live(e)' => Live(e) BY <1>3, <1>11 DEF Live
<1> QED BY <1>4, <1>8, <1>13, <1>14, AccountedStep

(* The new header, whose id its request has not learnt, has no lines.        *)
LEMMA LostInsertAccounted ==
    ASSUME IType, Known, Accounted, NEW w \in Workers, job[w].pc = "insert",
           InsertEffect(OwnHeader(w)), CancelEarlier(w)
    PROVE  Accounted'
<1>1. PICK n \in EntryIds : n = nextId BY DEF InsertEffect
<1>2. ~(OwnHeader(w).status = "posted" \/ OwnHeader(w).lines)
  BY DEF OwnHeader, Header
<1>3. /\ locked' = locked /\ entry'[n] = OwnHeader(w)
      /\ \A e \in EntryIds : e # n => entry'[e] = entry[e]
  BY <1>1 DEF InsertEffect, IType, TypeOK
<1>4. \A e \in EntryIds : e < nextId => e # n
  <2>1. n \in Nat BY <1>1 DEF IType, TypeOK
  <2> QED BY <1>1, <2>1
<1>5. Kept BY <1>3, <1>4 DEF Kept
<1>6. \A e \in EntryIds : Live(e)' => Live(e) BY <1>2, <1>3 DEF Live
<1>7. Careful(w) /\ \E j : job' = [job EXCEPT ![w] = j] BY CancelCareful
<1> QED BY <1>5, <1>6, <1>7, AccountedStep

(* A request that goes on keeps minding what it has in hand.                 *)
LEMMA BusyCareful ==
    ASSUME IType, Known, Accounted, Kept, NEW w \in Workers, NEW j,
           job' = [job EXCEPT ![w] = j], job[w].pc \in Busy,
           job[w].role # "regular" \/ j.pc = "insert",
           j.pc \in {"number", "insert", "post", "mark"},
           j.own = job[w].own, j.storno = job[w].storno,
           j.orig = job[w].orig, j.op = job[w].op,
           \/ /\ j.role = job[w].role
              /\ <<job[w].pc, j.pc>> \in {<<"number", "insert">>,
                    <<"lines", "post">>, <<"post", "mark">>}
           \/ /\ job[w].role = "storno" /\ j.role = "correction"
              /\ job[w].op = "correct" /\ job[w].pc = "post"
              /\ j.pc = "number"
    PROVE  Careful(w)
<1>1. job'[w] = j BY DEF IType, TypeOK
<1>2. Tended(w) BY DEF Accounted
<1>3. /\ job[w].own \in EntryIds => job[w].own < nextId
      /\ job[w].storno \in EntryIds => job[w].storno < nextId
  BY DEF Known, Held
<1>4. job[w].pc \in {"lines", "post"} => job[w].own \in EntryIds
  BY DEF IType, Hands
<1>5. job[w].role = "correction" /\ job[w].pc \in {"lines", "post"}
        => /\ entry'[job[w].own].source = "correction"
           /\ entry'[job[w].own].corrects = job[w].orig
  BY <1>2, <1>3, <1>4 DEF Tended, Kept
<1>6. job[w].role = "regular" /\ job[w].own \in EntryIds
        => entry'[job[w].own].source = "regular"
  BY <1>2, <1>3 DEF Tended, Kept
<1>7. job[w].pc = "post" /\ job[w].role = "storno"
        => job[w].storno = job[w].own
  BY DEF IType, Hands
<1>8. Tended(w)'
  <2>1. job[w].storno \in EntryIds
          => /\ entry'[job[w].storno].source = "storno"
             /\ entry'[job[w].storno].reverses = job[w].orig
    BY <1>2, <1>3 DEF Tended, Kept
  <2> QED BY <1>1, <1>2, <1>5, <1>6, <1>7, <2>1 DEF Tended, Busy
<1>9. \A e \in EntryIds : Minding(w, e) => e \in {job[w].own, job[w].storno}
  BY DEF Minding, Busy
<1>10. \A e \in {job[w].own, job[w].storno} : Minding(w, e)'
  BY <1>1 DEF Minding, Busy
<1> QED BY <1>8, <1>9, <1>10 DEF Careful

(* The compare-and-set settles the storno and the corrected entry.           *)
LEMMA MarkAccounted ==
    ASSUME IType, Known, Accounted, NEW w \in Workers, job[w].pc = "mark",
           ReversalAccepted(job[w].orig, job[w].storno),
           LinkReversal(job[w].orig, job[w].storno), Finish(w)
    PROVE  Accounted'
<1> USE DEF IType, TypeOK
<1>1. Tended(w) BY DEF Accounted
<1>2. PICK s \in EntryIds, o \in EntryIds, c \in EntryIds :
         s = job[w].storno /\ o = job[w].orig /\ c = job[w].own
  BY <1>1 DEF Hands, Job, Sources, Tended
<1>3. entry[s].source = "storno" /\ entry[s].reverses = o
  BY <1>1, <1>2 DEF Tended, Busy
<1>5. /\ entry'[o].status = "reversed" /\ entry'[o].reversedBy = s
      /\ \A e \in EntryIds :
           /\ entry'[e].source = entry[e].source
           /\ entry'[e].reverses = entry[e].reverses
           /\ entry'[e].corrects = entry[e].corrects
  BY <1>2 DEF LinkReversal, Entry
<1>6. job' = [job EXCEPT ![w] = Idle] BY DEF Finish
<1>7. Kept /\ \A e \in EntryIds : Live(e)' => Live(e)
  BY <1>2, KeptEffects, LiveEffects
<1>8. Tended(w)' BY <1>6 DEF Tended, Idle, Busy, EntryIds, None
<1>9. Settled(s)'
  <2>1. entry'[s].reverses = o /\ entry'[s].source = "storno"
    BY <1>3, <1>5
  <2> QED BY <1>5, <2>1 DEF Settled, Linked
<1>10. Settled(c)'
  <2>1. CASE job[w].role = "storno" BY <1>2, <1>9, <2>1 DEF Hands
  <2>2. CASE job[w].role = "correction"
    <3>1. entry[c].source = "correction" /\ entry[c].corrects = o
      BY <1>1, <1>2, <2>2 DEF Tended
    <3> QED BY <1>5, <3>1 DEF Settled
  <2> QED BY <2>1, <2>2 DEF Hands, Job, Sources
<1>11. \A e \in EntryIds : Minding(w, e) => e = s \/ e = c
  BY <1>2 DEF Minding
<1>12. Careful(w) BY <1>8, <1>9, <1>10, <1>11 DEF Careful
<1> QED BY <1>6, <1>7, <1>12, AccountedStep

LEMMA StartAccounted ==
    ASSUME IType, Known, Accounted, NEW w \in Workers, Start(w)
    PROVE  Accounted'
<1>1. ASSUME NEW j, Begin(w, j), j.own = None, j.storno = None,
             \/ /\ j.pc = "number" /\ j.role = "storno"
                /\ j.orig \in EntryIds
             \/ j.pc = "insert" /\ j.role = "regular"
      PROVE  Accounted'
  <2>1. job' = [job EXCEPT ![w] = j] /\ UNCHANGED db /\ job[w].pc = "idle"
    BY <1>1 DEF Begin
  <2>2. job'[w] = j BY <2>1 DEF IType, TypeOK
  <2>3. Kept /\ \A e \in EntryIds : Live(e)' => Live(e)
    BY <2>1, KeptEffects, LiveEffects
  <2>4. Tended(w)' BY <1>1, <2>2 DEF Tended, Busy, None, EntryIds
  <2>5. \A e \in EntryIds : ~Minding(w, e) BY <2>1 DEF Minding, Busy
  <2>6. Careful(w) BY <2>4, <2>5 DEF Careful
  <2> QED BY <2>1, <2>3, <2>6, AccountedStep
<1>2. ASSUME NEW p \in Periods, StartCreate(w, p) PROVE Accounted'
  <2> DEFINE j == [[Idle EXCEPT !.pc = "insert"] EXCEPT !.target = p]
  <2>1. /\ j.pc = "insert" /\ j.role = "regular"
        /\ j.own = None /\ j.storno = None
    BY DEF Idle
  <2>2. Begin(w, j) BY <1>2 DEF StartCreate
  <2> HIDE DEF j
  <2> QED BY <2>1, <2>2, <1>1
<1>3. ASSUME NEW e \in EntryIds, StartReverse(w, e) PROVE Accounted'
  <2> DEFINE j == [Idle EXCEPT !.pc = "number", !.op = "reverse",
                               !.role = "storno", !.orig = e,
                               !.home = entry[e].period]
  <2>1. /\ j.pc = "number" /\ j.role = "storno" /\ j.orig = e
        /\ j.own = None /\ j.storno = None
    BY DEF Idle
  <2>2. Begin(w, j) BY <1>3 DEF StartReverse
  <2> HIDE DEF j
  <2> QED BY <2>1, <2>2, <1>1
<1>4. ASSUME NEW e \in EntryIds, NEW p \in Periods, StartCorrect(w, e, p)
      PROVE  Accounted'
  <2> DEFINE j == [Idle EXCEPT !.pc = "number", !.op = "correct",
                               !.role = "storno", !.orig = e,
                               !.home = entry[e].period, !.target = p]
  <2>1. /\ j.pc = "number" /\ j.role = "storno" /\ j.orig = e
        /\ j.own = None /\ j.storno = None
    BY DEF Idle
  <2>2. Begin(w, j) BY <1>4 DEF StartCorrect
  <2> HIDE DEF j
  <2> QED BY <2>1, <2>2, <1>1
<1> QED BY <1>2, <1>3, <1>4 DEF Start

LEMMA PostAccounted ==
    ASSUME IType, Known, Accounted, NEW w \in Workers, job[w].pc = "post",
           PostAccepted(w, job[w].own), SetStatus(job[w].own, "posted"), GoOn(w)
    PROVE  Accounted'
<1> USE DEF IType, TypeOK
<1>1. job[w].own \in EntryIds /\ job[w].role # "regular" BY DEF Hands
<1>2. Kept /\ \A e \in EntryIds : Live(e)' => Live(e)
  BY <1>1, KeptEffects, LiveEffects DEF PostAccepted
<1>3. CASE job[w].op = "correct" /\ job[w].role = "storno"
  <2> DEFINE j == [[job[w] EXCEPT !.pc = "number"] EXCEPT !.role = "correction"]
  <2>1. job' = [job EXCEPT ![w] = j] BY <1>3 DEF GoOn
  <2>2. /\ j.pc = "number" /\ j.role = "correction" /\ j.orig = job[w].orig
        /\ j.op = job[w].op /\ j.own = job[w].own
        /\ j.storno = job[w].storno
    BY DEF Job
  <2> HIDE DEF j
  <2>3. Careful(w) BY <1>1, <1>2, <1>3, <2>1, <2>2, BusyCareful DEF Busy
  <2> QED BY <1>2, <2>1, <2>3, AccountedStep
<1>4. CASE ~(job[w].op = "correct" /\ job[w].role = "storno")
  <2> DEFINE j == [job[w] EXCEPT !.pc = "mark"]
  <2>1. job' = [job EXCEPT ![w] = j] BY <1>4 DEF GoOn, Goto
  <2>2. /\ j.pc = "mark" /\ j.role = job[w].role /\ j.orig = job[w].orig
        /\ j.op = job[w].op /\ j.own = job[w].own
        /\ j.storno = job[w].storno
    BY DEF Job
  <2> HIDE DEF j
  <2>3. Careful(w) BY <1>1, <1>2, <2>1, <2>2, BusyCareful DEF Busy
  <2> QED BY <1>2, <2>1, <2>3, AccountedStep
<1> QED BY <1>3, <1>4

(* The reversal refused, or its reply lost: storno and corrected entry are   *)
(* undone.                                                                   *)
LEMMA LoserAccounted ==
    ASSUME IType, Known, Accounted, NEW w \in Workers, job[w].pc = "mark",
           Kept, \A e \in EntryIds : Live(e)' => Live(e),
           Abandon(w, IF job[w].op = "correct"
                      THEN <<job[w].storno, job[w].own>> ELSE <<job[w].storno>>)
    PROVE  Accounted'
<1> USE DEF IType, TypeOK
<1> DEFINE es == IF job[w].op = "correct"
                 THEN <<job[w].storno, job[w].own>> ELSE <<job[w].storno>>
<1>1. Tended(w) BY DEF Accounted
<1>2. job[w].role # "regular" BY DEF Hands
<1>3. job[w].op # "correct" => job[w].own = job[w].storno
  BY <1>1, <1>2 DEF Hands, Job, Sources, Tended
<1>4. \A e \in EntryIds : Minding(w, e) => e \in {job[w].storno, job[w].own}
  BY DEF Minding
<1>5. ASSUME NEW e \in {job[w].storno, job[w].own}
      PROVE  \E i \in DOMAIN es : es[i] = e
  <2>1. CASE job[w].op = "correct"
    <3>1. es = <<job[w].storno, job[w].own>> BY <2>1
    <3> HIDE DEF es
    <3> QED BY <3>1, PairItems
  <2>2. CASE job[w].op # "correct"
    <3>1. es = <<job[w].storno>> /\ e = job[w].storno BY <1>3, <2>2
    <3>2. 1 \in DOMAIN <<e>> /\ <<e>>[1] = e OBVIOUS
    <3> QED BY <3>1, <3>2
  <2> QED BY <2>1, <2>2
<1>6. Abandon(w, es) OBVIOUS
<1> HIDE DEF es
<1>7. Careful(w) /\ \E j : job' = [job EXCEPT ![w] = j]
  BY <1>2, <1>4, <1>5, <1>6, AbandonCareful
<1> QED BY <1>7, AccountedStep

LEMMA UndoAccounted ==
    ASSUME IType, Known, Accounted, NEW w \in Workers, Faults \subseteq {"lostReply"},
           UndoHeader(w) \/ UndoLines(w)
    PROVE  Accounted'
<1> USE DEF IType, TypeOK
<1>1. /\ job[w].undo \in Seq(EntryIds) /\ job[w].undo # <<>>
      /\ job[w].pc \in {"undo", "undoLines"}
  BY DEF UndoHeader, UndoLines, At, Hands, Job
<1>2. PICK e \in EntryIds : e = Head(job[w].undo) BY <1>1
<1>3. Tended(w) BY DEF Accounted
<1>4. CASE UndoHeader(w)
  <2>1. /\ \/ StatusAccepted(e, "cancelled") /\ SetStatus(e, "cancelled")
           \/ ~StatusAccepted(e, "cancelled") /\ UNCHANGED db
        /\ Goto(w, "undoLines")
    BY <1>2, <1>4 DEF UndoHeader, Statement
  <2>2. ~Live(e)' BY <2>1, Cancelled
  <2>3. Kept /\ \A f \in EntryIds : Live(f)' => Live(f)
    BY <2>1, KeptEffects, LiveEffects
  <2> DEFINE j == [job[w] EXCEPT !.pc = "undoLines"]
  <2>4. job' = [job EXCEPT ![w] = j] BY <2>1 DEF Goto
  <2>5. /\ j.pc = "undoLines" /\ j.role = job[w].role /\ j.orig = job[w].orig
        /\ j.op = job[w].op /\ j.undo = job[w].undo
    BY DEF Job
  <2> HIDE DEF j
  <2>6. job'[w] = j BY <2>4
  <2>7. job[w].pc = "undo" BY <1>4 DEF UndoHeader, At
  <2>8. Tended(w)' BY <1>3, <2>5, <2>6, <2>7 DEF Tended, Busy
  <2>9. ASSUME NEW f \in EntryIds, Minding(w, f), Live(f)'
        PROVE  Minding(w, f)'
    <3>1. PICK i \in DOMAIN job[w].undo : job[w].undo[i] = f
      BY <2>7, <2>9 DEF Minding, Busy
    <3>2. i # 1 BY <1>1, <1>2, <2>2, <2>9, <3>1
    <3> QED BY <2>5, <2>6, <3>1, <3>2 DEF Minding
  <2>10. Careful(w) BY <2>8, <2>9 DEF Careful
  <2> QED BY <2>3, <2>4, <2>10, AccountedStep
<1>5. CASE UndoLines(w)
  <2>1. /\ UNCHANGED db \/ SetLines(e, FALSE)
        /\ Abandon(w, Tail(job[w].undo))
    BY <1>2, <1>5 DEF UndoLines, Statement
  <2>2. Kept /\ \A f \in EntryIds : Live(f)' => Live(f)
    BY <2>1, KeptEffects, LiveEffects
  <2>3. job[w].pc = "undoLines" BY <1>5 DEF UndoLines, At
  <2>4. job[w].role # "regular" BY <1>3, <2>3 DEF Tended
  <2>5. ASSUME NEW f \in EntryIds, Minding(w, f)
        PROVE  \E i \in DOMAIN Tail(job[w].undo) : Tail(job[w].undo)[i] = f
    <3>1. PICK i \in DOMAIN job[w].undo : job[w].undo[i] = f /\ i # 1
      BY <2>3, <2>5 DEF Minding, Busy
    <3>2. /\ i - 1 \in DOMAIN Tail(job[w].undo)
          /\ Tail(job[w].undo)[i - 1] = f
      BY <1>1, <3>1
    <3> QED BY <3>2
  <2>6. Careful(w) /\ \E j : job' = [job EXCEPT ![w] = j]
    BY <2>1, <2>4, <2>5, AbandonCareful
  <2> QED BY <2>2, <2>6, AccountedStep
<1> QED BY <1>4, <1>5

LEMMA AdvanceAccounted ==
    ASSUME IType, Known, Accounted, NEW w \in Workers, Advance(w),
           Faults \subseteq {"lostReply"}
    PROVE  Accounted'
<1> USE DEF IType, TypeOK
<1>1. Tended(w) BY DEF Accounted
<1>2. ASSUME Kept, \A e \in EntryIds : Live(e)' => Live(e) \/ Minding(w, e),
             Careful(w), \E j : job' = [job EXCEPT ![w] = j]
      PROVE  Accounted'
  BY <1>2, AccountedStep
<1>3. ASSUME UNCHANGED db
      PROVE  Kept /\ \A e \in EntryIds : Live(e)' => Live(e)
  BY <1>3, KeptEffects, LiveEffects
<1>4. CASE AllocateNumber(w)
  <2>1. ConsumeNumber(OwnPeriod(w)) /\ job[w].pc = "number"
    BY <1>4 DEF AllocateNumber, Statement, At
  <2>2. Kept /\ \A e \in EntryIds : Live(e)' => Live(e)
    BY <2>1, KeptEffects, LiveEffects
  <2>3. CASE CancelEarlier(w) BY <1>2, <2>1, <2>2, <2>3, CancelCareful
  <2>4. ASSUME NEW n, job' = [job EXCEPT ![w].pc = "insert", ![w].number = n]
        PROVE  Accounted'
    <3> DEFINE j == [[job[w] EXCEPT !.pc = "insert"] EXCEPT !.number = n]
    <3>1. job' = [job EXCEPT ![w] = j] BY <2>4
    <3>2. /\ j.pc = "insert" /\ j.role = job[w].role /\ j.orig = job[w].orig
          /\ j.op = job[w].op /\ j.own = job[w].own
          /\ j.storno = job[w].storno
      BY DEF Job
    <3> HIDE DEF j
    <3>3. Careful(w) BY <1>1, <2>1, <2>2, <3>1, <3>2, BusyCareful DEF Busy
    <3> QED BY <1>2, <2>2, <3>1, <3>3
  <2> QED BY <1>4, <2>3, <2>4 DEF AllocateNumber, Statement
<1>5. CASE InsertHeader(w)
  <2>1. job[w].pc = "insert" BY <1>5 DEF InsertHeader, At
  <2>2. \/ InsertEffect(OwnHeader(w)) /\ (Remember(w) \/ CancelEarlier(w))
        \/ UNCHANGED db /\ CancelEarlier(w)
    BY <1>5 DEF InsertHeader, Statement
  <2> QED BY <1>2, <1>3, <2>1, <2>2, InsertAccounted, LostInsertAccounted,
         CancelCareful
<1>6. CASE InsertLines(w)
  <2>1. job[w].pc = "lines" BY <1>6 DEF InsertLines, At
  <2>2. Kept /\ \A e \in EntryIds : Live(e)' => Live(e) \/ Minding(w, e)
    <3>1. Kept /\ \A e \in EntryIds : Live(e)' => Live(e) \/ e = job[w].own
      BY <1>6, KeptEffects, LiveEffects DEF InsertLines, Statement
    <3> QED BY <2>1, <3>1 DEF Minding, Busy
  <2>3. CASE job[w].role = "regular"
    <3>1. \/ Finish(w)
          \/ \E step \in {"commit", "cancelDraft", "cleanup"} : Goto(w, step)
      BY <1>6, <2>3 DEF InsertLines, Statement
    <3> QED BY <1>1, <1>2, <2>2, <2>3, <3>1, RegularCareful
  <2>4. CASE job[w].role # "regular"
    <3>1. CASE CancelOwn(w) BY <1>2, <2>1, <2>2, <2>4, <3>1, CancelCareful
    <3>2. CASE Goto(w, "post")
      <4> DEFINE j == [job[w] EXCEPT !.pc = "post"]
      <4>1. job' = [job EXCEPT ![w] = j] BY <3>2 DEF Goto
      <4>2. /\ j.pc = "post" /\ j.role = job[w].role /\ j.orig = job[w].orig
            /\ j.op = job[w].op /\ j.own = job[w].own
            /\ j.storno = job[w].storno
        BY DEF Job
      <4> HIDE DEF j
      <4>3. Careful(w) BY <1>1, <2>1, <2>2, <2>4, <4>1, <4>2, BusyCareful DEF Busy
      <4> QED BY <1>2, <2>2, <4>1, <4>3
    <3> QED BY <1>6, <2>4, <3>1, <3>2 DEF InsertLines, Statement
  <2> QED BY <2>3, <2>4
<1>7. CASE CancelDraft(w) \/ Commit(w) \/ CancelIfDraft(w)
  <2>1. /\ job[w].pc \in {"cancelDraft", "commit", "cleanup"}
        /\ Finish(w) \/ Goto(w, "cleanup")
    BY <1>7 DEF CancelDraft, Commit, CancelIfDraft, Statement, At
  <2>2. job[w].role = "regular" BY <1>1, <2>1 DEF Tended, Busy
  <2>3. job[w].own \in EntryIds BY <2>1 DEF Hands
  <2>4. \/ UNCHANGED db
        \/ CommitAccepted(job[w].own) /\ CommitEffect(job[w].own)
        \/ /\ StatusAccepted(job[w].own, "cancelled")
           /\ SetStatus(job[w].own, "cancelled")
    BY <1>7 DEF CancelDraft, Commit, CancelIfDraft, Statement,
       StatusAccepted, StatusSteps
  <2>5. Kept /\ \A e \in EntryIds : Live(e)' => Live(e)
    BY <2>3, <2>4, KeptEffects, LiveEffects
  <2> QED BY <1>1, <1>2, <2>1, <2>2, <2>5, RegularCareful
<1>8. CASE Post(w)
  <2>1. job[w].pc = "post" BY <1>8 DEF Post, At
  <2>2. \/ /\ PostAccepted(w, job[w].own)
           /\ SetStatus(job[w].own, "posted") /\ (GoOn(w) \/ CancelOwn(w))
        \/ UNCHANGED db /\ CancelOwn(w)
    BY <1>8 DEF Post, Statement
  <2>3. job[w].role # "regular" /\ job[w].own \in EntryIds BY <2>1 DEF Hands
  <2>4. PostAccepted(w, job[w].own) /\ SetStatus(job[w].own, "posted")
           => Kept /\ \A e \in EntryIds : Live(e)' => Live(e)
    BY <2>3, KeptEffects, LiveEffects DEF PostAccepted
  <2> QED BY <1>2, <1>3, <2>1, <2>2, <2>3, <2>4, PostAccounted, CancelCareful
<1>9. CASE MarkReversed(w)
  <2> DEFINE gone == Abandon(w, IF job[w].op = "correct"
                                THEN <<job[w].storno, job[w].own>>
                                ELSE <<job[w].storno>>)
             linked == /\ ReversalAccepted(job[w].orig, job[w].storno)
                       /\ LinkReversal(job[w].orig, job[w].storno)
  <2>1. job[w].pc = "mark" /\ job[w].orig \in EntryIds
    BY <1>1, <1>9 DEF MarkReversed, At, Hands, Tended
  <2>2. (linked /\ (Finish(w) \/ gone)) \/ (UNCHANGED db /\ gone)
    BY <1>9 DEF MarkReversed, Statement
  <2>3. linked => Kept /\ \A e \in EntryIds : Live(e)' => Live(e)
    BY <2>1, KeptEffects, LiveEffects
  <2>4. CASE linked /\ Finish(w) BY <2>1, <2>4, MarkAccounted
  <2>5. CASE gone /\ (linked \/ UNCHANGED db)
    BY <1>3, <2>1, <2>3, <2>5, LoserAccounted
  <2> QED BY <2>2, <2>4, <2>5
<1> QED BY <1>4, <1>5, <1>6, <1>7, <1>8, <1>9, UndoAccounted DEF Advance

LEMMA StepAccounted ==
    ASSUME IType, Known, Accounted, [Next]_vars,
           Faults \subseteq {"lostReply"}, Lockable = {}
    PROVE  Accounted'
<1>2. ASSUME Kept, \A e \in EntryIds : Live(e)' => Live(e), UNCHANGED job
      PROVE  Accounted'
  <2>1. \A w \in Workers : Careful(w) BY <1>2, StillCareful
  <2> QED BY <1>2, <2>1, AccountedFollows
<1>3. CASE UNCHANGED vars
  BY <1>2, <1>3, KeptEffects, LiveEffects DEF vars, db
<1>4. CASE Other
  <2>1. ASSUME NEW e \in EntryIds, CommitDraft(e) PROVE Accounted'
    BY <1>2, <2>1, KeptEffects, LiveEffects DEF CommitDraft
  <2>2. ASSUME NEW e \in EntryIds, CancelOrphan(e) PROVE Accounted'
    BY <1>2, <2>2, KeptEffects, LiveEffects DEF CancelOrphan
  <2> QED BY <1>4, <2>1, <2>2 DEF Other, LockPeriod, UnlockPeriod
<1>5. \A w \in Workers : ~Crash(w) BY DEF Crash
<1> QED BY <1>3, <1>4, <1>5, StartAccounted, AdvanceAccounted DEF Next

LEMMA AccountedAlways ==
    ASSUME Faults \subseteq {"lostReply"}, Lockable = {}
    PROVE  Spec => []Accounted
<1>1. Init => Accounted
  <2> SUFFICES ASSUME Init PROVE Accounted OBVIOUS
  <2>1. \A e \in EntryIds : entry[e].source = "regular"
    BY DEF Init, NoEntry, Header
  <2>2. ASSUME NEW w \in Workers PROVE Tended(w)
    <3>1. job[w] = Idle BY DEF Init
    <3> QED BY <3>1 DEF Tended, Idle, Busy, EntryIds, None
  <2>3. \A p \in Periods : ~locked[p] BY DEF Init
  <2> QED BY <2>1, <2>2, <2>3 DEF Accounted, Settled
<1>2. IType /\ Known /\ Accounted /\ [Next]_vars => Accounted'
  BY StepAccounted
<1>3. Spec => []Known BY KnownAlways
<1> QED BY <1>1, <1>2, <1>3, TypeAlways, PTL DEF Spec

LEMMA MindedInHand ==
    ASSUME NEW e \in EntryIds, Minded(e)
    PROVE  InHand(e)
BY DEF Minded, Minding, InHand, Busy

(* If no statement fails for a passing reason, nothing crashes and no period *)
(* is locked under way, every posted storno is the one its original was      *)
(* reversed by, or its request is still at work: the loser of a race takes   *)
(* its storno out of the ledger, however many requests race and whichever    *)
(* replies are lost.                                                         *)
THEOREM StornosAccounted ==
    ASSUME Faults \subseteq {"lostReply"}, Lockable = {}
    PROVE  Spec => []StornoAccounted
<1>1. Accounted => StornoAccounted
  BY MindedInHand DEF Accounted, StornoAccounted, Live, Settled
<1>2. Spec => []Accounted BY AccountedAlways
<1> QED BY <1>1, <1>2, PTL

(* In the same setting no verifikation counts twice: the original of every   *)
(* posted corrected entry is reversed, or its request is still at work.      *)
THEOREM CorrectionsAccounted ==
    ASSUME Faults \subseteq {"lostReply"}, Lockable = {}
    PROVE  Spec => []CorrectionAccounted
<1>1. Accounted => CorrectionAccounted
  BY MindedInHand DEF Accounted, CorrectionAccounted, Live, Settled
<1>2. Spec => []Accounted BY AccountedAlways
<1> QED BY <1>1, <1>2, PTL
=============================================================================
