--------------------------- MODULE JournalDeletion ---------------------------
(* The journal with delete_last_voucher: an owner removes a draft, or the    *)
(* last voucher of a series, and the series hands its number out again.      *)
EXTENDS Journal

(* The last voucher as the RPC sees it: drafts and cancelled headers are    *)
(* not counted, though they may carry a higher number.                      *)
IsLast(e) ==
    \A f \in EntryIds :
        /\ entry[f].period = entry[e].period
        /\ entry[f].status \in {"posted", "reversed"}
        => entry[f].number <= entry[e].number

(* Faulty form: what refers to the voucher is not looked at.                *)
AnythingGoes(e) == TRUE

(* No header points at e as the entry it reverses or corrects. A live one   *)
(* is counted by the RPC; for a cancelled one the foreign key would have to *)
(* be cleared, which the immutability trigger refuses.                      *)
Unreferenced(e) ==
    \A f \in EntryIds :
        Present(f) => e \notin {entry[f].reverses, entry[f].corrects}

(* Faulty form: the original of a deleted storno stays reversed.            *)
LeftReversed(o) == entry[o]

(* The original of a deleted storno, un-reversed.                            *)
Restored(o) == [entry[o] EXCEPT !.status = "posted", !.reversedBy = None]

DeleteVoucher(e) ==
    LET p == entry[e].period
        o == entry[e].reverses
    IN
    /\ entry[e].status = "posted"
    /\ ~locked[p]
    /\ IsLast(e)
    /\ Unreferenced(e)
    /\ o # None => entry[o].status \in {"posted", "reversed"}
    /\ entry' = [f \in EntryIds |->
                   IF f = e THEN NoEntry
                   ELSE IF f = o THEN Restored(o) ELSE entry[f]]
    /\ lastNumber' =
         [lastNumber EXCEPT ![p] = IF @ = 0 THEN 0 ELSE @ - 1]
    /\ UNCHANGED <<nextId, locked, job, started>>

(* A draft goes without a look at the series or at the period.               *)
DeleteDraft(e) ==
    /\ entry[e].status = "draft"
    /\ entry' = [entry EXCEPT ![e] = NoEntry]
    /\ UNCHANGED <<nextId, lastNumber, locked, job, started>>

DeletionNext ==
    \/ Next
    \/ \E e \in EntryIds : DeleteVoucher(e) \/ DeleteDraft(e)

DeletionSpec == Init /\ [][DeletionNext]_vars

(* Every link between vouchers leads to a header that exists: deletion      *)
(* leaves no storno, correction or reversed original pointing nowhere.      *)
LinksResolve ==
    \A e \in EntryIds :
        Present(e) =>
            \A f \in {entry[e].reverses, entry[e].corrects,
                      entry[e].reversedBy} : f # None => Present(f)

(* When no request is under way, the number commit_journal_entry would      *)
(* assign next is free in every series: the next voucher can be booked.     *)
SeriesGoesOn ==
    (\A w \in Workers : job[w].pc = "idle")
        => \A p \in Periods : NumberFree(p, lastNumber[p] + 1)
=============================================================================
