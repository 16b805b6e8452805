----------------------------- MODULE PeriodControl -----------------------------
(* The life of the fiscal period the payments are booked in: it is locked and *)
(* unlocked, closed by the year-end run with its closing voucher, or marked as*)
(* closed in a previous system and reopened. Every operation reads the        *)
(* period's flags, decides, and writes them in a later statement, some with a *)
(* guard in the statement and some without.                                   *)
EXTENDS InvoicePayments

CONSTANT Clerks        \* requests on the period that may be under way at once

VARIABLE clerk         \* what each of them is doing

vars == <<payVars, clerk>>

(* entry is the closing voucher of a year-end run; the other operations have  *)
(* none.                                                                      *)
Clerk ==
    [pc : {"idle", "lock", "unlock", "close", "external", "reopen",
           "entry", "check", "link", "tolock", "toclose"},
     entry : Vouchers \cup {NoVoucher}]

Free == [pc |-> "idle", entry |-> NoVoucher]

ControlInit ==
    /\ Init
    /\ clerk = [c \in Clerks |-> Free]

-----------------------------------------------------------------------------

Holds(c, step) ==
    /\ clerk[c].pc = step
    /\ UNCHANGED <<invoice, rows, job, stray, crossed>>

On(c, step) == Holds(c, step) /\ UNCHANGED requests

StepTo(c, step) == clerk' = [clerk EXCEPT ![c].pc = step]

Done(c) == clerk' = [clerk EXCEPT ![c] = Free]

(* A request reads the flags first.                                           *)
Start(c, accepted, to) ==
    /\ Holds(c, "idle")
    /\ accepted
    /\ Request
    /\ StepTo(c, to)
    /\ UNCHANGED <<period, voucher>>

(* A later statement that reads the flags.                                    *)
Decide(c, from, accepted, to) ==
    /\ On(c, from)
    /\ accepted
    /\ StepTo(c, to)
    /\ UNCHANGED <<period, voucher>>

(* A write of the flags, and one that is refused or finds no row.             *)
Write(c, step, flags, next) ==
    /\ On(c, step)
    /\ period' = flags
    /\ next
    /\ UNCHANGED voucher

Refused(c, step) ==
    /\ On(c, step)
    /\ Done(c)
    /\ UNCHANGED <<period, voucher>>

Locking == ~period.closed /\ ~period.locked

(* lockPeriod, once no bank transaction of the period is unbooked.            *)
StartLock(c) == Start(c, Locking, "lock")

(* The year-end run goes on to close the period.                              *)
WriteLock(c) ==
    Write(c, "lock", [period EXCEPT !.locked = TRUE],
          IF clerk[c].entry = NoVoucher THEN Done(c) ELSE StepTo(c, "toclose"))

StartUnlock(c) == Start(c, ~period.closed /\ period.locked, "unlock")

WriteUnlock(c) ==
    Write(c, "unlock", [period EXCEPT !.locked = FALSE], Done(c))

(* Faulty form: a period can be closed without its closing voucher.           *)
ClosableUnclosed == ~period.closed /\ period.locked

Closable == ~period.closed /\ period.locked /\ period.closing # NoVoucher

(* closePeriod, requested on its own or by the year-end run.                  *)
StartClose(c) == Start(c, Closable, "close")

WriteClose(c) ==
    Write(c, "close", [period EXCEPT !.closed = TRUE], Done(c))

-----------------------------------------------------------------------------
(* markPeriodClosedExternally and reopenExternallyClosedPeriod.               *)

(* The year was kept in another system: its vouchers were imported, or there  *)
(* are none.                                                                  *)
Migrated == Imported > 0 \/ \A v \in Vouchers : voucher[v].status = "absent"

StartExternal(c) ==
    Start(c, ~period.closed /\ period.closing = NoVoucher /\ Migrated, "external")

ExternalAccepted == ~period.closed

WriteExternal(c) ==
    \/ /\ ExternalAccepted
       /\ Write(c, "external",
             [period EXCEPT !.closed = TRUE, !.external = TRUE, !.locked = TRUE],
             Done(c))
    \/ ~ExternalAccepted /\ Refused(c, "external")

StartReopen(c) ==
    Start(c, period.closed /\ period.external /\ period.closing = NoVoucher,
          "reopen")

(* Faulty form: what was read is not compared again.                          *)
ReopenUnguarded == TRUE

ReopenAccepted ==
    period.closed /\ period.external /\ period.closing = NoVoucher

WriteReopen(c) ==
    \/ /\ ReopenAccepted
       /\ Write(c, "reopen",
             [period EXCEPT !.closed = FALSE, !.external = FALSE,
                            !.locked = FALSE],
             Done(c))
    \/ ~ReopenAccepted /\ Refused(c, "reopen")

-----------------------------------------------------------------------------
(* executeYearEndClosing.                                                     *)

StartYearEnd(c) ==
    Start(c, ~period.closed /\ period.closing = NoVoucher, "entry")

PostClosing(c) ==
    /\ On(c, "entry")
    /\ \/ /\ PeriodOpen
          /\ PostEntry("year_end", None, 0)
          /\ clerk' = [clerk EXCEPT ![c] = [pc |-> "check", entry |-> NextVoucher]]
       \/ Done(c) /\ UNCHANGED voucher
    /\ UNCHANGED period

(* The result accounts are read again; when they are not zero the closing     *)
(* voucher is reversed, if that is still possible.                            *)
Check(c) ==
    LET v == clerk[c].entry IN
    /\ On(c, "check")
    /\ \/ StepTo(c, "link") /\ UNCHANGED voucher
       \/ /\ IF PeriodOpen /\ Posted(v)
             THEN voucher' = [voucher EXCEPT ![v].status = "reversed"]
             ELSE UNCHANGED voucher
          /\ Done(c)
    /\ UNCHANGED period

(* enforce_opening_balance_immutability: a closing voucher is not abandoned   *)
(* before it is reversed.                                                     *)
ClosingAccepted(v) ==
    period.closing # NoVoucher =>
        voucher[period.closing].status = "reversed" /\ Posted(v)

LinkClosing(c) ==
    LET v == clerk[c].entry IN
    \/ /\ ClosingAccepted(v)
       /\ Write(c, "link", [period EXCEPT !.closing = v], StepTo(c, "tolock"))
    \/ ~ClosingAccepted(v) /\ Refused(c, "link")

(* lockPeriod and closePeriod refuse what they would refuse anybody; an error *)
(* about the next period stops the run as well.                               *)
GoOnToLock(c) ==
    \/ Decide(c, "tolock", Locking, "lock")
    \/ Refused(c, "tolock")

GoOnToClose(c) ==
    \/ Decide(c, "toclose", Closable, "close")
    \/ ~Closable /\ Refused(c, "toclose")

-----------------------------------------------------------------------------

Control(c) ==
    \/ StartLock(c) \/ WriteLock(c) \/ StartUnlock(c) \/ WriteUnlock(c)
    \/ StartClose(c) \/ WriteClose(c)
    \/ StartExternal(c) \/ WriteExternal(c) \/ StartReopen(c) \/ WriteReopen(c)
    \/ StartYearEnd(c) \/ PostClosing(c) \/ Check(c) \/ LinkClosing(c)
    \/ GoOnToLock(c) \/ GoOnToClose(c)

ControlNext ==
    \/ PaymentNext /\ UNCHANGED clerk
    \/ \E c \in Clerks : Control(c)

ControlSpec == ControlInit /\ [][ControlNext]_vars

-----------------------------------------------------------------------------
(* Properties.                                                                *)

(* What the year-end run has closed is final: no reopening and no external    *)
(* close that was decided on what the period looked like before undoes or     *)
(* relabels it, and its closing voucher is at most replaced.                  *)
ClosedIsFinal ==
    [][period.closed /\ period.closing # NoVoucher =>
         /\ period'.closed
         /\ period'.external = period.external
         /\ period'.closing # NoVoucher]_vars

(* A voucher the year-end run has posted; it may have been reversed since.    *)
IsClosing(v) ==
    /\ v # NoVoucher
    /\ voucher[v].kind = "year_end"
    /\ voucher[v].status \in {"posted", "reversed"}

(* A period is closed because the closing was done elsewhere, or because it is*)
(* linked to a voucher that a year-end run has posted, whatever the order in  *)
(* which requests that had read it open write. closePeriod asks for the link  *)
(* only: the linked voucher may have been reversed before the period closed,  *)
(* but it is no payment's voucher, and no clean-up has cancelled it.          *)
ClosedForCause == period.closed => period.external \/ IsClosing(period.closing)
=============================================================================
