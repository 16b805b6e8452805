--------------------------- MODULE WebhookDelivery ---------------------------
(* The webhook dispatcher: rows of webhook_deliveries are claimed by dispatch *)
(* cycles, posted to their receivers, retried on a back-off schedule and      *)
(* swept back into the queue when the process that claimed them is gone.      *)
(*                                                                            *)
(* A cycle holds no lock while it works: its claim on a row is nothing but    *)
(* the status in_flight, and what keeps two cycles apart is time. A cycle     *)
(* stops taking up rows after Budget - Timeout, and the sweep only touches    *)
(* rows that have been in_flight for longer than Budget + Timeout + Slack.    *)
(* Time is therefore part of the model: Tick lets one unit pass, rows and     *)
(* cycles carry timers, a statement of a live cycle takes at most Latency and *)
(* the resolution of a receiver's name at most Lookup, for which the code sets*)
(* no limit of its own.                                                       *)
EXTENDS Integers, FiniteSets, Functions

CONSTANTS
    Dispatchers,    \* processes that run dispatch cycles: cron and kicks
    Hooks,          \* registered webhooks of one company
    NoHook,         \* the NULL of webhook_deliveries.webhook_id
    MaxDeliveries,  \* bound: how many delivery rows are inserted
    BatchSize,      \* rows a cycle claims at most
    MaxAttempts,    \* MAX_ATTEMPTS
    Backoff,        \* RETRY_BACKOFF_SECONDS, by the attempts made before
    Timeout,        \* REQUEST_TIMEOUT_MS
    Budget,         \* CYCLE_BUDGET_MS
    Slack,          \* STUCK_RECOVERY_SLACK_MS
    Latency,        \* how long a statement of a live cycle may take
    Lookup,         \* how long a name may take to resolve: the code has no limit
    Faults          \* what may go wrong: subset of FaultKinds

FaultKinds == {"error", "lostReply", "crash"}

(* The claim and the lookup of the webhooks leave the cycle time for an       *)
(* attempt.                                                                   *)
ASSUME WebhookAssumption ==
    /\ NoHook \notin Hooks
    /\ MaxDeliveries \in Nat /\ BatchSize \in Nat \ {0}
    /\ MaxAttempts \in Nat \ {0}
    /\ Backoff \in [0..(MaxAttempts - 2) -> Nat \ {0}]
    /\ \A i, j \in DOMAIN Backoff : i <= j => Backoff[i] <= Backoff[j]
    /\ Timeout \in Nat /\ Budget \in Nat /\ Slack \in Nat /\ Latency \in Nat
    /\ Lookup \in Nat
    /\ Timeout < Budget
    /\ 2 * Latency < Budget - Timeout
    /\ Faults \subseteq FaultKinds

VARIABLES
    hook,      \* webhooks: active, disabled or deleted
    delivery,  \* webhook_deliveries, by id
    emit,      \* webhooks a fan-out has read and will insert rows for
    cycle,     \* what each dispatcher is doing
    post       \* history: the POSTs of each delivery, and what found it dead

vars == <<hook, delivery, emit, cycle, post>>
tables == <<hook, delivery>>

Ids == 1..MaxDeliveries

(* STUCK_IN_FLIGHT_AFTER_MS.                                                  *)
Window == Budget + Timeout + Slack

(* After its last budget check at Budget - Timeout - 1 a cycle may still wait *)
(* for a touch, a name to resolve, a POST, its record, the three statements   *)
(* that disable a webhook and two that release rows. Whether the window has   *)
(* room for that is up to the deployment: nothing in the code bounds Lookup.  *)
WindowFits == 7 * Latency + Lookup <= Timeout + Slack + 1

(* Timers stop where nothing compares them any more: rows are claimed at most *)
(* two statements after the cycle's now, and swept at most one.               *)
Stale == -(2 * Latency)
MaxAge == Window + Latency + 1
MaxWait == IF MaxAttempts < 2 THEN 0 ELSE Backoff[MaxAttempts - 2]
Older(t, limit) == IF t < limit THEN t + 1 ELSE t

Statuses == {"absent", "pending", "in_flight", "failed", "delivered", "dead"}
Final == {"delivered", "dead"}

(* wait is the time until next_attempt_at, negative once that has passed; age *)
(* is the time since updated_at, which only matters for rows in flight.       *)
Delivery ==
    [status : Statuses, attempts : 0..MaxAttempts, hook : Hooks \cup {NoHook},
     wait : Stale..MaxWait, age : 0..MaxAge]

(* A claimed row, as the claim returned it.                                   *)
Claims == [id : Ids, attempts : 0..MaxAttempts, hook : Hooks]
NoRow == [id |-> 0, attempts |-> 0, hook |-> NoHook]

Steps == {"idle", "sweep", "claim", "load", "loop", "touch", "drop", "resolve",
          "post", "record", "snapshot", "disable", "audit", "release"}
Disabling == {"snapshot", "disable", "audit"}
Outcomes == {"none", "delivered", "dead", "failed"}

(* Whether the last attempt found its delivery dead: the receiver answered 410*)
(* or with a redirect, its name leads nowhere it may be called at, or the     *)
(* lookup of the name failed.                                                 *)
Verdicts == {"none", "dead"}

(* elapsed is the time since the cycle's now, lag what of it the sweep took:  *)
(* the budget counts from the end of the sweep.                               *)
Cycle ==
    [pc : Steps, todo : SUBSET Claims, row : Claims \cup {NoRow},
     known : SUBSET Hooks, outcome : Outcomes,
     elapsed : Nat, lag : Nat, busy : Nat]

Idle ==
    [pc |-> "idle", todo |-> {}, row |-> NoRow, known |-> {},
     outcome |-> "none", elapsed |-> 0, lag |-> 0, busy |-> 0]

NoDelivery ==
    [status |-> "absent", attempts |-> 0, hook |-> NoHook,
     wait |-> Stale, age |-> 0]

Init ==
    /\ hook = [h \in Hooks |-> "active"]
    /\ delivery = [d \in Ids |-> NoDelivery]
    /\ emit = {}
    /\ cycle = [c \in Dispatchers |-> Idle]
    /\ post = [d \in Ids |-> [count |-> 0, since |-> 0, verdict |-> "none"]]

-----------------------------------------------------------------------------
(* The rows and what the database accepts.                                    *)

Present(d) == delivery[d].status # "absent"

(* enforce_webhook_delivery_immutability: a final row takes no UPDATE.        *)
UpdateAccepted(d) == delivery[d].status \notin Final

(* next_attempt_at, so long after the cycle's now, as a wait from here on.    *)
Later(c, delay) ==
    LET left == delay - cycle[c].elapsed IN IF left < Stale THEN Stale ELSE left

(* Faulty forms: the sweep leaves the row in flight; it charges no attempt;   *)
(* it re-arms the row at once.                                                *)
LeftInFlight(c, r) == r
RecoveredUncharged(c, r) ==
    [r EXCEPT !.status = "failed", !.age = 0,
              !.wait = IF r.attempts \in DOMAIN Backoff
                       THEN Later(c, Backoff[r.attempts]) ELSE 0]
RecoveredAtOnce(c, r) ==
    [r EXCEPT !.attempts = @ + 1, !.age = 0, !.wait = 0,
              !.status = IF r.attempts + 1 >= MaxAttempts
                         THEN "dead" ELSE "failed"]

(* A stalled attempt is charged and waits like one that failed.               *)
Recovered(c, r) ==
    IF r.attempts + 1 >= MaxAttempts
    THEN [r EXCEPT !.status = "dead", !.attempts = @ + 1, !.age = 0]
    ELSE [r EXCEPT !.status = "failed", !.attempts = @ + 1, !.age = 0,
                   !.wait = Later(c, Backoff[r.attempts])]

(* Faulty form: the old threshold of two request timeouts.                    *)
StuckEarly(c, r) ==
    r.status = "in_flight" /\ r.age - cycle[c].elapsed > 2 * Timeout

(* Stranded for longer than the window, seen from the cycle's now.            *)
Stuck(c, r) == r.status = "in_flight" /\ r.age - cycle[c].elapsed > Window

(* recover_stuck_webhook_deliveries.                                          *)
Recover(c) ==
    /\ delivery' = [d \in Ids |-> IF Stuck(c, delivery[d])
                                  THEN Recovered(c, delivery[d])
                                  ELSE delivery[d]]
    /\ UNCHANGED hook

(* Faulty form: rows in flight are claimed as well.                           *)
DueOrInFlight(c) ==
    {d \in Ids : /\ delivery[d].status \in {"pending", "failed", "in_flight"}
                 /\ delivery[d].wait <= -cycle[c].elapsed
                 /\ delivery[d].hook # NoHook}

(* What was due at the cycle's now.                                           *)
Due(c) ==
    {d \in Ids : /\ delivery[d].status \in {"pending", "failed"}
                 /\ delivery[d].wait <= -cycle[c].elapsed
                 /\ delivery[d].hook # NoHook}

(* claim_due_webhook_deliveries: as many due rows as the batch holds. Which   *)
(* of several due rows come first is left open.                               *)
Batches(c) ==
    {S \in SUBSET Due(c) : \/ S = Due(c) /\ Cardinality(S) <= BatchSize
                           \/ Cardinality(S) = BatchSize}

ClaimRows(S) ==
    /\ delivery' = [d \in Ids |-> IF d \in S
                                  THEN [delivery[d] EXCEPT !.status = "in_flight",
                                                           !.age = 0]
                                  ELSE delivery[d]]
    /\ UNCHANGED hook

Claimed(S) ==
    {[id |-> d, attempts |-> delivery[d].attempts, hook |-> delivery[d].hook] :
        d \in S}

(* One statement of a cycle: accepted it commits, and its reply may be lost;  *)
(* refused or broken on the way it changes nothing.                           *)
Statement(accepted, effect, succeed, fail) ==
    \/ accepted /\ effect /\ succeed
    \/ accepted /\ effect /\ "lostReply" \in Faults /\ fail
    \/ (~accepted \/ "error" \in Faults) /\ UNCHANGED tables /\ fail

-----------------------------------------------------------------------------
(* A dispatch cycle.                                                          *)

At(c, step) == cycle[c].pc = step /\ UNCHANGED emit

Move(c, next) == cycle' = [cycle EXCEPT ![c] = [next EXCEPT !.busy = 0]]

Goto(c, step) == Move(c, [cycle[c] EXCEPT !.pc = step])

(* The rest of the batch, or the end of the cycle.                            *)
Loop(c, todo) ==
    IF todo = {}
    THEN Move(c, Idle)
    ELSE Move(c, [cycle[c] EXCEPT !.pc = "loop", !.todo = todo, !.row = NoRow,
                                  !.outcome = "none"])

NextRow(c) == Loop(c, cycle[c].todo \ {cycle[c].row})

(* dispatchDueDeliveries is called by the per-minute cron and by kicks.       *)
Start(c) ==
    /\ At(c, "idle")
    /\ Move(c, [Idle EXCEPT !.pc = "sweep"])
    /\ UNCHANGED <<tables, post>>

Sweep(c) ==
    LET next == Move(c, [cycle[c] EXCEPT !.pc = "claim",
                                         !.lag = cycle[c].elapsed]) IN
    /\ At(c, "sweep")
    /\ Statement(TRUE, Recover(c), next, next)
    /\ UNCHANGED post

Claim(c) ==
    /\ At(c, "claim")
    /\ \E S \in Batches(c) :
          Statement(TRUE, ClaimRows(S),
             IF S = {} THEN Move(c, Idle)
             ELSE Move(c, [cycle[c] EXCEPT !.pc = "load", !.todo = Claimed(S)]),
             Move(c, Idle))
    /\ UNCHANGED post

(* Faulty form: the lookup finds active webhooks only.                        *)
LoadActive(c) ==
    /\ At(c, "load")
    /\ Move(c, [cycle[c] EXCEPT !.pc = "loop",
                   !.known = {h \in Hooks : hook[h] = "active"}])
    /\ UNCHANGED <<tables, post>>

(* loadWebhooksByIds: a failed lookup leaves no webhook known.                *)
LoadWebhooks(c) ==
    /\ At(c, "load")
    /\ \/ Move(c, [cycle[c] EXCEPT !.pc = "loop",
                       !.known = {h \in Hooks : hook[h] # "deleted"}])
       \/ "error" \in Faults /\ Goto(c, "loop")
    /\ UNCHANGED <<tables, post>>

(* The next row, if the budget allows another attempt.                        *)
Pick(c) ==
    /\ At(c, "loop")
    /\ cycle[c].elapsed - cycle[c].lag < Budget - Timeout
    /\ \E r \in cycle[c].todo :
          Move(c, [cycle[c] EXCEPT
                     !.pc = IF r.hook \in cycle[c].known THEN "touch" ELSE "drop",
                     !.row = r])
    /\ UNCHANGED <<tables, post>>

GiveUp(c) ==
    /\ At(c, "loop")
    /\ cycle[c].elapsed - cycle[c].lag >= Budget - Timeout
    /\ Goto(c, "release")
    /\ UNCHANGED <<tables, post>>

(* markDead without an outcome: the webhook was not found.                    *)
Drop(c) ==
    LET d == cycle[c].row.id IN
    /\ At(c, "drop")
    /\ Statement(UpdateAccepted(d),
          /\ delivery' = [delivery EXCEPT ![d].status = "dead", ![d].age = 0]
          /\ UNCHANGED hook,
          NextRow(c), NextRow(c))
    /\ UNCHANGED post

(* touchInFlight: the row's age counts from here. A row that is no longer in  *)
(* flight is skipped; an error of the statement is taken for a yes.           *)
Touch(c) ==
    LET d == cycle[c].row.id IN
    /\ At(c, "touch")
    /\ \/ /\ delivery[d].status = "in_flight"
          /\ delivery' = [delivery EXCEPT ![d].age = 0]
          /\ Goto(c, "resolve")
       \/ /\ delivery[d].status # "in_flight"
          /\ NextRow(c)
          /\ UNCHANGED delivery
       \/ /\ Faults \cap {"error", "lostReply"} # {}
          /\ Goto(c, "resolve")
          /\ UNCHANGED delivery
    /\ UNCHANGED <<hook, post>>

Found(c, outcome) ==
    Move(c, [cycle[c] EXCEPT !.pc = "record", !.outcome = outcome])

(* pinnedHttpsFetch resolves and vets the receiver's name before it opens the *)
(* request. A name it may not call, or cannot resolve, ends the attempt.      *)
Resolve(c) ==
    LET d == cycle[c].row.id IN
    /\ At(c, "resolve")
    /\ \/ /\ Goto(c, "post")
          /\ post' = [post EXCEPT ![d] = [count |-> @.count + 1, since |-> 0,
                                          verdict |-> "none"]]
       \/ /\ Found(c, "dead")
          /\ post' = [post EXCEPT ![d].verdict = "dead"]
    /\ UNCHANGED tables

(* The receiver's answer: 2xx; 410 or a redirect; anything else, a timeout    *)
(* included.                                                                  *)
Answer(c) ==
    /\ At(c, "post")
    /\ \E o \in Outcomes \ {"none"} :
          /\ Found(c, o)
          /\ post' = [post EXCEPT ![cycle[c].row.id].verdict =
                          IF o = "dead" THEN "dead" ELSE "none"]
    /\ UNCHANGED tables

(* Faulty form: an off-by-one at the cap.                                     *)
ResultOneMore(c, r, o) ==
    LET before == cycle[c].row.attempts IN
    IF o = "delivered" \/ o = "dead" \/ before >= MaxAttempts
    THEN [r EXCEPT !.status = IF o = "delivered" THEN "delivered" ELSE "dead",
                   !.attempts = before + 1, !.age = 0]
    ELSE [r EXCEPT !.status = "failed", !.attempts = before + 1, !.age = 0,
                   !.wait = IF before \in DOMAIN Backoff
                            THEN Later(c, Backoff[before]) ELSE MaxWait]

(* markDelivered, markDead and markFailedForRetry: what becomes of row r. The *)
(* attempts are counted from those of the claim, the wait from the cycle's    *)
(* now.                                                                       *)
Result(c, r, o) ==
    LET before == cycle[c].row.attempts
        tried == [r EXCEPT !.attempts = before + 1, !.age = 0]
    IN
    IF o = "delivered" THEN [tried EXCEPT !.status = "delivered"]
    ELSE IF o = "dead" \/ before + 1 >= MaxAttempts
    THEN [tried EXCEPT !.status = "dead"]
    ELSE [tried EXCEPT !.status = "failed", !.wait = Later(c, Backoff[before])]

(* The outcome is written by id, whatever became of the row; its error is     *)
(* only logged.                                                               *)
Record(c) ==
    LET r == cycle[c].row
        next == IF cycle[c].outcome = "dead" THEN Goto(c, "snapshot")
                ELSE NextRow(c)
    IN
    /\ At(c, "record")
    /\ Statement(UpdateAccepted(r.id),
          /\ delivery' = [delivery EXCEPT
                            ![r.id] = Result(c, @, cycle[c].outcome)]
          /\ UNCHANGED hook,
          next, next)
    /\ UNCHANGED post

(* disableWebhook: it reads the webhook first, an error of which it ignores...*)
Snapshot(c) ==
    /\ At(c, "snapshot")
    /\ Goto(c, "disable")
    /\ UNCHANGED <<tables, post>>

(* ... disables it, which finds no row when the webhook was deleted ...       *)
Disable(c) ==
    LET h == cycle[c].row.hook IN
    /\ At(c, "disable")
    /\ Statement(TRUE,
          /\ hook' = IF hook[h] = "deleted" THEN hook
                     ELSE [hook EXCEPT ![h] = "disabled"]
          /\ UNCHANGED delivery,
          Goto(c, "audit"), NextRow(c))
    /\ UNCHANGED post

(* ... and writes an audit entry, whose error is only logged.                 *)
Audit(c) ==
    /\ At(c, "audit")
    /\ NextRow(c)
    /\ UNCHANGED <<tables, post>>

(* Faulty form: every released row reads as failed.                           *)
ReleasedAsFailed(c, r, attempts) ==
    [r EXCEPT !.status = "failed", !.wait = Later(c, 0), !.age = 0]

Released(c, r, attempts) ==
    [r EXCEPT !.status = IF attempts = 0 THEN "pending" ELSE "failed",
              !.wait = Later(c, 0), !.age = 0]

(* releaseUnattempted: one statement for the rows never attempted, one for    *)
(* the others.                                                                *)
Release(c) ==
    LET fresh == {r \in cycle[c].todo : r.attempts = 0}
        group == IF fresh # {} THEN fresh ELSE cycle[c].todo
        rest == cycle[c].todo \ group
        next == IF rest = {} THEN Move(c, Idle)
                ELSE Move(c, [cycle[c] EXCEPT !.todo = rest])
    IN
    /\ At(c, "release")
    /\ Statement(TRUE,
          /\ delivery' = [d \in Ids |->
                IF delivery[d].status = "in_flight" /\ \E r \in group : r.id = d
                THEN Released(c, delivery[d],
                              (CHOOSE r \in group : r.id = d).attempts)
                ELSE delivery[d]]
          /\ UNCHANGED hook,
          next, next)
    /\ UNCHANGED post

(* The platform kills the process.                                            *)
Crash(c) ==
    /\ "crash" \in Faults
    /\ cycle[c].pc # "idle"
    /\ cycle' = [cycle EXCEPT ![c] = Idle]
    /\ UNCHANGED <<tables, emit, post>>

-----------------------------------------------------------------------------
(* Where deliveries come from, and the webhooks they go to.                   *)

Active == {h \in Hooks : hook[h] = "active"}

(* fanOutToWebhooks reads the active webhooks; a retry and a test read one.   *)
Read(H) ==
    /\ emit = {} /\ H # {}
    /\ emit' = H
    /\ UNCHANGED <<tables, cycle, post>>

FanOut == Read(Active)

TestHook(h) == h \in Active /\ Read({h})

Retry(d) ==
    /\ delivery[d].status \in Final
    /\ delivery[d].hook \in Active
    /\ Read({delivery[d].hook})

Free == {d \in Ids : ~Present(d)}

(* The insert of all their rows; the foreign key refuses it as a whole when   *)
(* one of the webhooks has been deleted since.                                *)
InsertDeliveries ==
    /\ emit # {}
    /\ emit' = {}
    /\ \/ /\ \A h \in emit : hook[h] # "deleted"
          /\ \E new \in Injection(emit, Free) :
                delivery' = [d \in Ids |->
                  IF \E h \in emit : new[h] = d
                  THEN [NoDelivery EXCEPT !.status = "pending", !.wait = 0,
                          !.hook = CHOOSE h \in emit : new[h] = d]
                  ELSE delivery[d]]
       \/ /\ \E h \in emit : hook[h] = "deleted"
          /\ UNCHANGED delivery
    /\ UNCHANGED <<hook, cycle, post>>

(* PATCH of a webhook.                                                        *)
SetActive(h) ==
    /\ hook[h] # "deleted"
    /\ hook' = [hook EXCEPT ![h] = IF @ = "active" THEN "disabled" ELSE "active"]
    /\ UNCHANGED <<delivery, emit, cycle, post>>

(* ON DELETE SET NULL updates every row of the webhook, so the trigger that   *)
(* protects final rows refuses the delete.                                    *)
DeleteAccepted(h) == \A d \in Ids : delivery[d].hook = h => UpdateAccepted(d)

DeleteHook(h) ==
    /\ hook[h] # "deleted"
    /\ DeleteAccepted(h)
    /\ hook' = [hook EXCEPT ![h] = "deleted"]
    /\ delivery' = [d \in Ids |->
                      IF delivery[d].hook = h
                      THEN [delivery[d] EXCEPT !.hook = NoHook, !.age = 0]
                      ELSE delivery[d]]
    /\ UNCHANGED <<emit, cycle, post>>

-----------------------------------------------------------------------------
(* Time.                                                                      *)

(* How long a live cycle may stay where it is. The absolute timer of a request*)
(* is armed only once the name has been resolved.                             *)
Limit(step) ==
    CASE step = "post" -> Timeout
      [] step = "resolve" -> Lookup
      [] step = "loop" -> 0
      [] OTHER -> Latency

Tick ==
    /\ \A c \in Dispatchers :
          cycle[c].pc # "idle" => cycle[c].busy < Limit(cycle[c].pc)
    /\ delivery' = [d \in Ids |->
          [delivery[d] EXCEPT
             !.wait = IF @ > Stale THEN @ - 1 ELSE Stale,
             !.age = IF delivery[d].status = "in_flight"
                     THEN Older(@, MaxAge) ELSE @]]
    /\ cycle' = [c \in Dispatchers |->
          IF cycle[c].pc = "idle" THEN Idle
          ELSE [cycle[c] EXCEPT !.busy = @ + 1, !.elapsed = @ + 1]]
    /\ post' = [d \in Ids |->
          [post[d] EXCEPT !.since = IF post[d].count = 0 THEN 0
                                    ELSE Older(@, MaxWait)]]
    /\ UNCHANGED <<hook, emit>>

-----------------------------------------------------------------------------

Advance(c) ==
    \/ Sweep(c) \/ Claim(c) \/ LoadWebhooks(c) \/ Pick(c) \/ GiveUp(c)
    \/ Drop(c) \/ Touch(c) \/ Resolve(c) \/ Answer(c) \/ Record(c)
    \/ Snapshot(c) \/ Disable(c) \/ Audit(c) \/ Release(c)

Next ==
    \/ \E c \in Dispatchers : Start(c) \/ Advance(c) \/ Crash(c)
    \/ \E h \in Hooks : TestHook(h) \/ SetActive(h) \/ DeleteHook(h)
    \/ \E d \in Ids : Retry(d)
    \/ FanOut \/ InsertDeliveries
    \/ Tick

Spec == Init /\ [][Next]_vars

(* Time passes, the cron keeps starting cycles, and a cycle goes on. Processes*)
(* may be killed again and again, but some cycle gets through its sweep, and  *)
(* some through its claim, every now and then.                                *)
FairSpec ==
    /\ Spec
    /\ SF_vars(Tick)
    /\ \A c \in Dispatchers : WF_vars(Start(c) \/ Advance(c))
    /\ SF_vars(\E c \in Dispatchers : Sweep(c))
    /\ SF_vars(\E c \in Dispatchers : Claim(c))

-----------------------------------------------------------------------------
(* Properties.                                                                *)

(* Types of the tables, the timers and the cycles' local variables.           *)
TypeOK ==
    /\ hook \in [Hooks -> {"active", "disabled", "deleted"}]
    /\ delivery \in [Ids -> Delivery]
    /\ emit \in SUBSET Hooks
    /\ cycle \in [Dispatchers -> Cycle]
    /\ post \in
          [Ids -> [count : Nat, since : 0..MaxWait, verdict : Verdicts]]

(* The claimed rows a cycle still has to deal with.                           *)
Owns(c, r) ==
    /\ r \in cycle[c].todo
    /\ cycle[c].pc \in Disabling => r # cycle[c].row

(* What a live cycle has claimed stays claimed until it is done with it: no   *)
(* sweep re-arms the row under it, so no second cycle claims it and no two    *)
(* POSTs of one delivery are on the way at once. It takes WindowFits: a name  *)
(* that takes too long to resolve lets the sweep take rows from a live cycle. *)
ClaimsHold ==
    \A c \in Dispatchers : \A r \in cycle[c].todo : Owns(c, r) =>
        /\ delivery[r.id].status = "in_flight"
        /\ delivery[r.id].attempts = r.attempts
        /\ \A b \in Dispatchers \ {c} : \A s \in cycle[b].todo :
              Owns(b, s) => s.id # r.id

(* MAX_ATTEMPTS is a real cap: every POST is charged, by its outcome or by    *)
(* the sweep, before the row can be claimed again.                            *)
AttemptsCapped ==
    \A d \in Ids :
        /\ post[d].count <= MaxAttempts
        /\ delivery[d].status \in {"pending", "failed"}
              => post[d].count <= delivery[d].attempts

(* A delivery nobody has charged reads as pending, a charged one as failed.   *)
FailedWasCharged ==
    \A d \in Ids :
        /\ delivery[d].status = "pending" => delivery[d].attempts = 0
        /\ delivery[d].status = "failed" => delivery[d].attempts > 0

(* How long after the cycle's now a POST can go out: the sweep, the budget    *)
(* left for attempts, the touch, and the name.                                *)
Loss == Latency + (Budget - Timeout - 1) + Latency + Lookup

(* The back-off is counted from the now of the cycle, so a retry may come     *)
(* early by the time that cycle had run, but by no more: neither a crash, the *)
(* sweep nor a release shortens it further.                                   *)
BackoffNearlyKept ==
    [][\A d \in Ids :
        post'[d].count > post[d].count /\ post[d].count > 0
            => post[d].since + Loss >= Backoff[post[d].count - 1]]_vars

(* A delivery is given up only when its attempts are used up, its last attempt*)
(* found it dead (the receiver refused it, or its name was unsafe or could not*)
(* be looked up) or its webhook was deleted. It does not hold when statements *)
(* may fail: a failed lookup of the webhooks gives up the whole batch.        *)
DeadForCause ==
    \A d \in Ids :
        delivery[d].status = "dead" =>
            \/ delivery[d].attempts = MaxAttempts
            \/ post[d].verdict # "none"
            \/ delivery[d].hook = NoHook

(* A webhook can be deleted whatever became of its deliveries.                *)
HooksDeletable == \A h \in Hooks : hook[h] # "deleted" => DeleteAccepted(h)

(* Every delivery row comes to an end, or goes dormant with its webhook.      *)
DeliveriesSettle ==
    \A d \in Ids :
        Present(d) ~> delivery[d].status \in Final \/ delivery[d].hook = NoHook
=============================================================================
