----------------------------- MODULE JournalLedger -----------------------------
(* The journal implements Ledger: what of its headers is in the books.       *)
EXTENDS Journal

StateOf(e) ==
    CASE entry[e].status \in {"absent", "draft"} -> "open"
      [] entry[e].status = "posted"              -> "booked"
      [] entry[e].status = "reversed"            -> "reversed"
      [] entry[e].status = "cancelled"           -> "withdrawn"

PlaceOf(e) ==
    IF entry[e].status \in {"posted", "reversed"}
    THEN <<entry[e].period, entry[e].number>> ELSE <<>>

ReverserOf(e) ==
    IF entry[e].status = "reversed" THEN entry[e].reversedBy ELSE None

Books ==
    INSTANCE Ledger WITH
        Vouchers <- EntryIds,
        Series <- Periods,
        state <- [e \in EntryIds |-> StateOf(e)],
        place <- [e \in EntryIds |-> PlaceOf(e)],
        reverser <- [e \in EntryIds |-> ReverserOf(e)],
        frozen <- locked

(* Every request of the engine, with its drafts, its compensation and the   *)
(* races it runs into, shows in the books as one of the promised steps.     *)
KeepsTheBooks == Books!LedgerSpec
=============================================================================
