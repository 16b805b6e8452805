-------------------------------- MODULE Ledger --------------------------------
(* What the books promise of their verifikationer, without the requests,    *)
(* drafts and clean-ups behind them: a voucher enters the ledger once, at a *)
(* number of its series no other voucher in it has; it is then reversed, by *)
(* a voucher that is in the ledger too and stays there, or withdrawn; both  *)
(* are final, and a frozen series does not change.                          *)
EXTENDS Naturals

CONSTANTS
    Vouchers,   \* the ids of vouchers
    Series      \* voucher series: one per fiscal period

VARIABLES
    state,      \* where each voucher is on its way
    place,      \* series and number of a voucher in the ledger
    reverser,   \* the voucher a reversed one was reversed by
    frozen      \* series that do not change

ledgerVars == <<state, place, reverser, frozen>>

States == {"open", "booked", "reversed", "withdrawn"}
InLedger == {"booked", "reversed"}

NoPlace == <<>>
Nobody == 0

LedgerInit ==
    /\ state \in [Vouchers -> {"open", "booked"}]
    /\ place \in [Vouchers -> {NoPlace} \cup (Series \X (Nat \ {0}))]
    /\ \A v \in Vouchers : state[v] = "open" <=> place[v] = NoPlace
    /\ \A u, v \in Vouchers :
          u # v /\ state[v] = "booked" => place[u] # place[v]
    /\ reverser = [v \in Vouchers |-> Nobody]
    /\ frozen = [s \in Series |-> FALSE]

(* The number is the ledger's choice, as long as it is free.                 *)
Book(v) ==
    /\ state[v] = "open"
    /\ place'[v] \in Series \X (Nat \ {0})
    /\ ~frozen[place'[v][1]]
    /\ \A u \in Vouchers : place[u] # place'[v]
    /\ state' = [state EXCEPT ![v] = "booked"]
    /\ place' = [place EXCEPT ![v] = place'[v]]
    /\ UNCHANGED <<reverser, frozen>>

Reverse(v, by) ==
    /\ state[v] = "booked"
    /\ state[by] \in InLedger
    /\ ~frozen[place[v][1]]
    /\ state' = [state EXCEPT ![v] = "reversed"]
    /\ reverser' = [reverser EXCEPT ![v] = by]
    /\ UNCHANGED <<place, frozen>>

(* A voucher no reversal rests on leaves the ledger, or never enters it.     *)
Withdraw(v) ==
    /\ state[v] \in {"open", "booked"}
    /\ state[v] = "booked" => ~frozen[place[v][1]]
    /\ \A u \in Vouchers : reverser[u] # v
    /\ state' = [state EXCEPT ![v] = "withdrawn"]
    /\ place' = [place EXCEPT ![v] = NoPlace]
    /\ UNCHANGED <<reverser, frozen>>

Freeze(s) ==
    /\ frozen' = [frozen EXCEPT ![s] = ~frozen[s]]
    /\ UNCHANGED <<state, place, reverser>>

LedgerNext ==
    \/ \E v \in Vouchers :
          \/ Book(v)
          \/ \E by \in Vouchers : Reverse(v, by)
          \/ Withdraw(v)
    \/ \E s \in Series : Freeze(s)

LedgerSpec == LedgerInit /\ [][LedgerNext]_ledgerVars
=============================================================================
