------------------------------- MODULE Journal -------------------------------
(* The verifikation lifecycle of the bookkeeping engine: drafting, posting,  *)
(* storno reversal and rattelse, over the tables journal_entries,            *)
(* journal_entry_lines, voucher_sequences and the lock flags of              *)
(* fiscal_periods.                                                           *)
(*                                                                           *)
(* A request runs in a server process that holds no lock: each of its        *)
(* database statements is a transaction of its own, so every statement is    *)
(* one action and other requests run between two of them. What the triggers  *)
(* and indexes of the database accept is the guard of the statement.         *)
(* Statements on other tables (bank transaction anchors, documents, the      *)
(* audit log, events) leave these variables unchanged and are stuttering.    *)
(* The voucher series of an entry is the one of the entry it reverses or     *)
(* corrects, so one series per fiscal period is kept.                        *)
EXTENDS Naturals, Sequences

CONSTANTS
    Workers,         \* server processes handling requests
    ServiceWorkers,  \* those that connect with the service role
    Periods,         \* fiscal periods
    FirstPeriod,     \* the period the initial vouchers were posted in
    Seeds,           \* how many vouchers are posted initially
    Lockable,        \* the periods an operator may lock and unlock
    Ops,             \* the kinds of request made: subset of OpKinds
    Committable,     \* the sources whose drafts a user posts by hand
    Faults,          \* what may go wrong: subset of FaultKinds
    MaxJobs          \* bound: how many requests are made

OpKinds == {"create", "reverse", "correct"}
FaultKinds == {"error", "lostReply", "crash"}
Sources == {"regular", "storno", "correction"}

ASSUME JournalAssumption ==
    /\ ServiceWorkers \subseteq Workers
    /\ FirstPeriod \in Periods
    /\ Seeds \in Nat
    /\ MaxJobs \in Nat
    /\ Lockable \subseteq Periods
    /\ Ops \subseteq OpKinds
    /\ Committable \subseteq Sources
    /\ Faults \subseteq FaultKinds

VARIABLES
    entry,       \* journal_entries with their lines, by id
    nextId,      \* the id the next inserted header gets
    lastNumber,  \* voucher_sequences.last_number, by period
    locked,      \* the period is closed or has locked_at set
    job,         \* what each process has done of its request
    started      \* how many requests were made

vars == <<entry, nextId, lastNumber, locked, job, started>>
db == <<entry, nextId, lastNumber, locked>>

(* A request inserts at most two headers. *)
EntryIds == 1..(Seeds + 2 * MaxJobs)
None == 0

Statuses == {"absent", "draft", "posted", "reversed", "cancelled"}

Entry ==
    [status : Statuses, period : Periods, number : Nat, source : Sources,
     reverses : EntryIds \cup {None}, reversedBy : EntryIds \cup {None},
     corrects : EntryIds \cup {None}, lines : BOOLEAN]

Steps == {"idle", "number", "insert", "lines", "post", "commit", "mark",
          "cancelDraft", "cleanup", "undo", "undoLines"}

Job ==
    [pc : Steps, op : OpKinds, role : Sources,
     orig : EntryIds \cup {None}, home : Periods, target : Periods,
     number : Nat,
     own : EntryIds \cup {None}, storno : EntryIds \cup {None},
     undo : Seq(EntryIds)]

Header(p, n, src, status) ==
    [status |-> status, period |-> p, number |-> n, source |-> src,
     reverses |-> None, reversedBy |-> None, corrects |-> None,
     lines |-> FALSE]

NoEntry == Header(FirstPeriod, 0, "regular", "absent")

Idle ==
    [pc |-> "idle", op |-> "create", role |-> "regular", orig |-> None,
     home |-> FirstPeriod, target |-> FirstPeriod,
     number |-> 0, own |-> None, storno |-> None,
     undo |-> <<>>]

(* The books of a company that has posted Seeds vouchers and is idle. *)
Init ==
    /\ entry = [e \in EntryIds |->
                  IF e <= Seeds
                  THEN [Header(FirstPeriod, e, "regular", "posted")
                          EXCEPT !.lines = TRUE]
                  ELSE NoEntry]
    /\ nextId = Seeds + 1
    /\ lastNumber = [p \in Periods |-> IF p = FirstPeriod THEN Seeds ELSE 0]
    /\ locked = [p \in Periods |-> FALSE]
    /\ job = [w \in Workers |-> Idle]
    /\ started = 0

-----------------------------------------------------------------------------
(* What the database accepts, and what a statement does to it.               *)

Present(e) == entry[e].status # "absent"

(* The number is on no other header of the series: the partial unique index *)
(* covers cancelled headers too.                                             *)
NumberFree(p, n) ==
    \A e \in EntryIds :
        ~(Present(e) /\ entry[e].period = p /\ entry[e].number = n /\ n > 0)

(* The header changes enforce_journal_entry_immutability lets through; a    *)
(* repeated status is an update that changes nothing.                       *)
StatusSteps ==
    {<<"draft", "draft">>, <<"draft", "posted">>, <<"draft", "cancelled">>,
     <<"posted", "posted">>, <<"posted", "reversed">>,
     <<"posted", "cancelled">>, <<"cancelled", "cancelled">>}

(* Faulty form: the statement is not subject to the period lock.            *)
StatusAcceptedInLockedPeriod(e, s) ==
    Present(e) => <<entry[e].status, s>> \in StatusSteps

(* An UPDATE of the status of header e. It touches no row, without an       *)
(* error, when e was deleted; enforce_period_lock refuses every update of a *)
(* header in a locked period.                                               *)
StatusAccepted(e, s) ==
    Present(e) => /\ ~locked[entry[e].period]
                  /\ <<entry[e].status, s>> \in StatusSteps

(* Faulty form: a header is deleted instead of cancelled.                   *)
SetStatusDeleting(e, s) ==
    /\ entry' = IF s = "cancelled" THEN [entry EXCEPT ![e] = NoEntry]
                ELSE IF Present(e) THEN [entry EXCEPT ![e].status = s]
                ELSE entry
    /\ UNCHANGED <<nextId, lastNumber, locked>>

SetStatus(e, s) ==
    /\ entry' = IF Present(e) THEN [entry EXCEPT ![e].status = s] ELSE entry
    /\ UNCHANGED <<nextId, lastNumber, locked>>

(* Posting by UPDATE: the deferred balance trigger wants lines, and a       *)
(* statement of an end user may only use a number the sequence has issued.  *)
PostAccepted(w, e) ==
    /\ StatusAccepted(e, "posted")
    /\ entry[e].status = "draft" =>
          /\ entry[e].lines
          /\ w \in ServiceWorkers
             \/ entry[e].number \in 1..lastNumber[entry[e].period]

(* commit_journal_entry, one transaction: the next number and the posting.  *)
CommitAccepted(e) ==
    LET p == entry[e].period IN
    /\ entry[e].status = "draft"
    /\ entry[e].lines
    /\ ~locked[p]
    /\ NumberFree(p, lastNumber[p] + 1)

CommitEffect(e) ==
    LET n == lastNumber[entry[e].period] + 1 IN
    /\ entry' = [entry EXCEPT ![e].status = "posted", ![e].number = n]
    /\ lastNumber' = [lastNumber EXCEPT ![entry[e].period] = n]
    /\ UNCHANGED <<nextId, locked>>

(* next_voucher_number, without the increment (faulty) and with it.         *)
ConsumeNothing(p) == UNCHANGED db

ConsumeNumber(p) ==
    /\ lastNumber' = [lastNumber EXCEPT ![p] = @ + 1]
    /\ UNCHANGED <<entry, nextId, locked>>

InsertAccepted(h) ==
    /\ ~locked[h.period]
    /\ NumberFree(h.period, h.number)
    /\ \A e \in {h.reverses, h.corrects} : e # None => Present(e)

InsertEffect(h) ==
    /\ nextId \in EntryIds
    /\ entry' = [entry EXCEPT ![nextId] = h]
    /\ nextId' = nextId + 1
    /\ UNCHANGED <<lastNumber, locked>>

(* Lines may be added to a draft, and by the service role to any header.    *)
LinesAccepted(w, e) ==
    Present(e) /\ (entry[e].status = "draft" \/ w \in ServiceWorkers)

(* Faulty form: lines are deleted whatever the header became.               *)
LinesAlwaysRemovable(e) == TRUE

(* Lines of a posted or reversed header cannot be deleted.                  *)
LinesRemovable(e) == entry[e].status \in {"absent", "draft", "cancelled"}

SetLines(e, b) ==
    /\ entry' = [entry EXCEPT ![e].lines = b]
    /\ UNCHANGED <<nextId, lastNumber, locked>>

(* Faulty form: the update of the original is not guarded by its status.    *)
ReversalUnguarded(o, s) ==
    /\ entry[o].status \in {"posted", "reversed"}
    /\ ~locked[entry[o].period]
    /\ Present(s)

(* The compare-and-set posted -> reversed on the original o of storno s.    *)
ReversalAccepted(o, s) ==
    /\ entry[o].status = "posted"
    /\ ~locked[entry[o].period]
    /\ Present(s)

LinkReversal(o, s) ==
    /\ entry' = [entry EXCEPT ![o].status = "reversed", ![o].reversedBy = s]
    /\ UNCHANGED <<nextId, lastNumber, locked>>

(* One statement of a request. Accepted, it commits; its reply may be lost, *)
(* and the caller then sees an error. Refused, or broken on the way, it     *)
(* changes nothing and the caller sees an error.                            *)
Statement(accepted, effect, succeed, fail) ==
    \/ accepted /\ effect /\ succeed
    \/ accepted /\ effect /\ "lostReply" \in Faults /\ fail
    \/ (~accepted \/ "error" \in Faults) /\ UNCHANGED db /\ fail

-----------------------------------------------------------------------------
(* The progress of a request.                                                *)

At(w, step) == job[w].pc = step /\ UNCHANGED started

Goto(w, step) == job' = [job EXCEPT ![w].pc = step]

Finish(w) == job' = [job EXCEPT ![w] = Idle]

(* Faulty form: nothing is cancelled.                                       *)
AbandonAtOnce(w, entries) == Finish(w)

(* Cancel these headers and delete their lines, in order, then give up.     *)
Abandon(w, entries) ==
    IF entries = <<>>
    THEN Finish(w)
    ELSE job' = [job EXCEPT ![w].pc = "undo", ![w].undo = entries]

(* What is cancelled when the header at hand cannot be completed: the       *)
(* header itself if it was inserted, and, for a corrected entry, the storno *)
(* posted before it.                                                        *)
CancelOwn(w) ==
    Abandon(w, IF job[w].role = "correction"
               THEN <<job[w].own, job[w].storno>> ELSE <<job[w].own>>)

(* Faulty form: the storno is cancelled before there is one.                *)
CancelEarlierAlways(w) == Abandon(w, <<job[w].storno>>)

CancelEarlier(w) ==
    Abandon(w, IF job[w].role = "correction" THEN <<job[w].storno>> ELSE <<>>)

Begin(w, j) ==
    /\ job[w].pc = "idle"
    /\ started < MaxJobs
    /\ started' = started + 1
    /\ job' = [job EXCEPT ![w] = j]
    /\ UNCHANGED db

(* createJournalEntry, after its validations.                                *)
StartCreate(w, p) ==
    /\ "create" \in Ops
    /\ Begin(w, [Idle EXCEPT !.pc = "insert", !.target = p])

(* reverseEntry up to the first write: the entry is read as posted and is   *)
(* not itself a storno.                                                     *)
StartReverse(w, e) ==
    /\ "reverse" \in Ops
    /\ entry[e].status = "posted"
    /\ entry[e].source # "storno"
    /\ Begin(w, [Idle EXCEPT !.pc = "number", !.op = "reverse",
                             !.role = "storno", !.orig = e,
                             !.home = entry[e].period])

(* correctEntry, or recordateEntry when the corrected entry is booked in    *)
(* another period, which was open when its status was read.                 *)
StartCorrect(w, e, p) ==
    /\ "correct" \in Ops
    /\ entry[e].status = "posted"
    /\ p = entry[e].period \/ ~locked[p]
    /\ Begin(w, [Idle EXCEPT !.pc = "number", !.op = "correct",
                             !.role = "storno", !.orig = e,
                             !.home = entry[e].period, !.target = p])

(* A storno is booked where its original was read, the rest in target.      *)
OwnPeriod(w) == IF job[w].role = "storno" THEN job[w].home ELSE job[w].target

(* next_voucher_number: a transaction of its own that consumes the number.  *)
AllocateNumber(w) ==
    LET p == OwnPeriod(w) IN
    /\ At(w, "number")
    /\ Statement(TRUE, ConsumeNumber(p),
          job' = [job EXCEPT ![w].pc = "insert",
                             ![w].number = lastNumber[p] + 1],
          CancelEarlier(w))

OwnHeader(w) ==
    [Header(OwnPeriod(w), job[w].number, job[w].role, "draft") EXCEPT
       !.reverses = IF job[w].role = "storno" THEN job[w].orig ELSE None,
       !.corrects = IF job[w].role = "correction" THEN job[w].orig ELSE None]

(* Faulty form: the corrected entry is remembered as the storno.            *)
RememberLatest(w) ==
    job' = [job EXCEPT ![w].pc = "lines", ![w].own = nextId,
                       ![w].storno = nextId]

Remember(w) ==
    job' = [job EXCEPT ![w].pc = "lines", ![w].own = nextId,
                       ![w].storno = IF job[w].role = "storno"
                                     THEN nextId ELSE @]

(* The draft header. A rejected insert leaves the number it carries unused. *)
InsertHeader(w) ==
    /\ At(w, "insert")
    /\ Statement(InsertAccepted(OwnHeader(w)), InsertEffect(OwnHeader(w)),
          Remember(w), CancelEarlier(w))

InsertLines(w) ==
    /\ At(w, "lines")
    /\ Statement(LinesAccepted(w, job[w].own), SetLines(job[w].own, TRUE),
          \/ job[w].role = "regular" /\ (Goto(w, "commit") \/ Finish(w))
          \/ job[w].role # "regular" /\ Goto(w, "post"),
          \/ job[w].role = "regular" /\ Goto(w, "cancelDraft")
          \/ job[w].role # "regular" /\ CancelOwn(w))

(* createDraftEntry: a draft whose lines failed is cancelled.               *)
CancelDraft(w) ==
    /\ At(w, "cancelDraft")
    /\ Statement(StatusAccepted(job[w].own, "cancelled"),
                 SetStatus(job[w].own, "cancelled"), Finish(w), Finish(w))

(* createJournalEntry: the commit RPC, and the clean-up when it failed.     *)
Commit(w) ==
    /\ At(w, "commit")
    /\ Statement(CommitAccepted(job[w].own), CommitEffect(job[w].own),
                 Finish(w), Goto(w, "cleanup"))

CancelIfDraft(w) ==
    LET e == job[w].own IN
    /\ At(w, "cleanup")
    /\ Statement(entry[e].status = "draft" /\ ~locked[entry[e].period],
                 SetStatus(e, "cancelled"), Finish(w), Finish(w))

(* A posted storno is followed by the corrected entry, if there is one.     *)
GoOn(w) ==
    IF job[w].op = "correct" /\ job[w].role = "storno"
    THEN job' = [job EXCEPT ![w].pc = "number", ![w].role = "correction"]
    ELSE Goto(w, "mark")

(* The storno is posted, and in correctEntry later the corrected entry.     *)
Post(w) ==
    /\ At(w, "post")
    /\ Statement(PostAccepted(w, job[w].own), SetStatus(job[w].own, "posted"),
                 GoOn(w), CancelOwn(w))

(* The original becomes reversed. For whatever reason the compare-and-set   *)
(* fails, the storno and the corrected entry are cancelled.                 *)
MarkReversed(w) ==
    LET o == job[w].orig
        s == job[w].storno
    IN
    /\ At(w, "mark")
    /\ Statement(ReversalAccepted(o, s), LinkReversal(o, s), Finish(w),
          Abandon(w, IF job[w].op = "correct"
                     THEN <<s, job[w].own>> ELSE <<s>>))

(* cancelEntry: the header, then its lines; the errors of both are ignored. *)
UndoHeader(w) ==
    LET e == Head(job[w].undo) IN
    /\ At(w, "undo")
    /\ Statement(StatusAccepted(e, "cancelled"), SetStatus(e, "cancelled"),
                 Goto(w, "undoLines"), Goto(w, "undoLines"))

(* Faulty form: only the first header is undone.                            *)
UndoFirst(w) ==
    LET e == Head(job[w].undo) IN
    /\ At(w, "undoLines")
    /\ Statement(LinesRemovable(e), SetLines(e, FALSE), Finish(w), Finish(w))

UndoLines(w) ==
    LET e == Head(job[w].undo)
        rest == Abandon(w, Tail(job[w].undo))
    IN
    /\ At(w, "undoLines")
    /\ Statement(LinesRemovable(e), SetLines(e, FALSE), rest, rest)

(* The process dies, or the platform stops it, between two statements.      *)
Crash(w) ==
    /\ "crash" \in Faults
    /\ job[w].pc # "idle"
    /\ Finish(w)
    /\ UNCHANGED <<db, started>>

-----------------------------------------------------------------------------
(* Requests that are a single statement here.                                *)

(* The commit route posts any draft by its id.                               *)
CommitDraft(e) ==
    /\ entry[e].source \in Committable
    /\ CommitAccepted(e)
    /\ CommitEffect(e)
    /\ UNCHANGED <<job, started>>

(* cancelOrphanedPaymentEntry: a payment voucher whose invoice was settled  *)
(* by someone else is cancelled in place.                                   *)
CancelOrphan(e) ==
    /\ entry[e].source = "regular"
    /\ entry[e].status = "posted"
    /\ StatusAccepted(e, "cancelled")
    /\ SetStatus(e, "cancelled")
    /\ UNCHANGED <<job, started>>

SetLock(p, b) ==
    /\ locked[p] # b
    /\ locked' = [locked EXCEPT ![p] = b]
    /\ UNCHANGED <<entry, nextId, lastNumber, job, started>>

LockPeriod(p) == p \in Lockable /\ SetLock(p, TRUE)
UnlockPeriod(p) == p \in Lockable /\ SetLock(p, FALSE)

-----------------------------------------------------------------------------

Advance(w) ==
    \/ AllocateNumber(w) \/ InsertHeader(w) \/ InsertLines(w)
    \/ CancelDraft(w) \/ Commit(w) \/ CancelIfDraft(w)
    \/ Post(w) \/ MarkReversed(w) \/ UndoHeader(w) \/ UndoLines(w)

Start(w) ==
    \/ \E p \in Periods : StartCreate(w, p)
    \/ \E e \in EntryIds : StartReverse(w, e)
    \/ \E e \in EntryIds, p \in Periods : StartCorrect(w, e, p)

Other ==
    \/ \E e \in EntryIds : CommitDraft(e) \/ CancelOrphan(e)
    \/ \E p \in Periods : LockPeriod(p) \/ UnlockPeriod(p)

Next ==
    \/ \E w \in Workers : Start(w) \/ Advance(w) \/ Crash(w)
    \/ Other

Spec == Init /\ [][Next]_vars

-----------------------------------------------------------------------------
(* Properties.                                                               *)

(* Types: every header, counter and request has the shape of its columns    *)
(* and local variables.                                                     *)
TypeOK ==
    /\ entry \in [EntryIds -> Entry]
    /\ nextId \in Nat \ {0}
    /\ lastNumber \in [Periods -> Nat]
    /\ locked \in [Periods -> BOOLEAN]
    /\ job \in [Workers -> Job]
    /\ started \in Nat

(* A request still has header e in hand: it is writing it or undoing it.    *)
InHand(e) ==
    \E w \in Workers :
        /\ job[w].pc # "idle"
        /\ \/ e \in {job[w].own, job[w].storno}
           \/ \E i \in DOMAIN job[w].undo : job[w].undo[i] = e

(* The original of storno s was reversed by it.                              *)
Linked(s) ==
    \E o \in EntryIds : /\ entry[s].reverses = o
                         /\ entry[o].status = "reversed"
                         /\ entry[o].reversedBy = s

(* Every posted storno either is the one its original was reversed by, or   *)
(* belongs to a request still under way: when two requests reverse or       *)
(* correct the same verifikation, the one that loses the compare-and-set    *)
(* takes its storno out of the ledger again.                                *)
StornoAccounted ==
    \A s \in EntryIds :
        entry[s].status = "posted" /\ entry[s].source = "storno"
            => Linked(s) \/ InHand(s)

(* Every posted corrected entry replaces an original that was reversed, or  *)
(* belongs to a request still under way: no verifikation counts twice, as   *)
(* booked and as corrected.                                                 *)
CorrectionAccounted ==
    \A c \in EntryIds :
        entry[c].status = "posted" /\ entry[c].source = "correction"
            => entry[entry[c].corrects].status = "reversed" \/ InHand(c)

(* A number next_voucher_number has handed out and its request has not yet  *)
(* written is on no header and in no other request's hand.                  *)
HeldNumberFresh ==
    \A w \in Workers :
        job[w].pc = "insert" /\ job[w].role # "regular" =>
            /\ job[w].number \in 1..lastNumber[OwnPeriod(w)]
            /\ NumberFree(OwnPeriod(w), job[w].number)
            /\ \A v \in Workers \ {w} :
                  job[v].pc = "insert" /\ OwnPeriod(v) = OwnPeriod(w)
                      => job[v].number # job[w].number

(* Every number the series has issued is on a header, or a request is about *)
(* to write it: failed requests leave no unexplained gap.                   *)
NoGap ==
    \A p \in Periods : \A n \in 1..lastNumber[p] :
        \/ ~NumberFree(p, n)
        \/ \E w \in Workers : /\ job[w].pc = "insert"
                              /\ OwnPeriod(w) = p /\ job[w].number = n

(* The header an original was reversed by is its storno, and it is still in *)
(* the ledger: it was posted and never cancelled.                           *)
ReversalStands ==
    \A e \in EntryIds :
        entry[e].status = "reversed" =>
            /\ entry[e].reversedBy \in EntryIds
            /\ entry[entry[e].reversedBy].reverses = e
            /\ entry[entry[e].reversedBy].status \in {"posted", "reversed"}

(* The lines of a posted or reversed header stay, whatever the clean-up of  *)
(* a failed request meets.                                                  *)
PostedKeepsLines ==
    \A e \in EntryIds :
        entry[e].status \in {"posted", "reversed"} => entry[e].lines

(* Booked history is final: a posted voucher keeps its number, period,      *)
(* links and lines, and can only become reversed or cancelled; a reversed   *)
(* one never changes again, so no second reversal takes it over.            *)
BookedIsFinal ==
    [][\A e \in EntryIds :
        /\ entry[e].status = "posted" =>
              \/ entry'[e] = entry[e]
              \/ entry'[e].reversedBy # None
                 /\ entry'[e] = [entry[e] EXCEPT !.status = "reversed",
                                        !.reversedBy = entry'[e].reversedBy]
              \/ entry'[e] = [entry[e] EXCEPT !.status = "cancelled"]
        /\ entry[e].status = "reversed" => entry'[e] = entry[e]]_vars

(* The vouchers of a period as the reports read them.                        *)
Ledger(p) ==
    {<<e, entry[e]>> : e \in {f \in EntryIds :
        entry[f].period = p /\ entry[f].status \in {"posted", "reversed"}}}

(* While a period is locked its ledger does not change, whatever requests   *)
(* were under way when the lock fell.                                       *)
LedgerFrozen ==
    [][\A p \in Periods : locked[p] /\ locked'[p] => Ledger(p)' = Ledger(p)]_vars
=============================================================================
