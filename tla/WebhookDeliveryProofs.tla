------------------------- MODULE WebhookDeliveryProofs -------------------------
(* Theorems about the webhook dispatcher, for every number of cycles, hooks   *)
(* and deliveries, every choice of faults, and all timeouts, budgets and      *)
(* back-off schedules that satisfy WebhookAssumption. What rests on the       *)
(* claims of a live cycle assumes WindowFits besides.                         *)
EXTENDS WebhookDelivery, TLAPS

-----------------------------------------------------------------------------
(* What the types need. A row that can be claimed has an attempt left, and so *)
(* has a claim; a cycle at work on a row took it from its batch.              *)

Chargeable == {"pending", "failed", "in_flight"}
RowSteps == {"touch", "drop", "resolve", "post", "record", "snapshot", "disable",
             "audit"}
Early == {"idle", "sweep", "claim"}

RowFits(r) ==
    /\ r \in Delivery
    /\ r.status \in Chargeable => r.attempts < MaxAttempts

CycleFits(q) ==
    /\ q \in Cycle
    /\ \A r \in q.todo : r.attempts < MaxAttempts
    /\ \A r, s \in q.todo : r.id = s.id => r = s
    /\ q.pc \in RowSteps => q.row \in q.todo
    /\ q.pc \in Early => q.todo = {}

HooksFit == hook \in [Hooks -> {"active", "disabled", "deleted"}]
RowsFit == delivery \in [Ids -> Delivery] /\ \A d \in Ids : RowFits(delivery[d])
CyclesFit ==
    cycle \in [Dispatchers -> Cycle] /\ \A c \in Dispatchers : CycleFits(cycle[c])
PostsFit ==
    post \in [Ids -> [count : Nat, since : 0..MaxWait, verdict : Verdicts]]

Typed == HooksFit /\ RowsFit /\ emit \in SUBSET Hooks /\ CyclesFit /\ PostsFit

LEMMA TypedIsTypeOK == Typed => TypeOK
BY DEF Typed, TypeOK, HooksFit, RowsFit, CyclesFit, PostsFit

LEMMA Constants ==
    /\ Stale \in Int /\ Stale <= 0
    /\ MaxWait \in Nat
    /\ Window \in Nat /\ MaxAge \in Nat
    /\ \A n \in Nat : n + 1 < MaxAttempts =>
          n \in DOMAIN Backoff /\ Backoff[n] \in Nat /\ Backoff[n] <= MaxWait
<1>1. Stale \in Int /\ Stale <= 0 BY WebhookAssumption DEF Stale
<1>2. Window \in Nat /\ MaxAge \in Nat BY WebhookAssumption DEF Window, MaxAge
<1>3. MaxAttempts \in Nat BY WebhookAssumption
<1>4. ASSUME NEW n \in Nat, n + 1 < MaxAttempts
      PROVE  n \in DOMAIN Backoff /\ Backoff[n] \in Nat /\ Backoff[n] <= MaxWait
             /\ MaxWait \in Nat
  <2>1. DOMAIN Backoff = 0..(MaxAttempts - 2) BY WebhookAssumption
  <2>2. n \in DOMAIN Backoff /\ MaxAttempts - 2 \in DOMAIN Backoff
        /\ n <= MaxAttempts - 2
    BY <1>3, <1>4, <2>1
  <2>3. \A i \in DOMAIN Backoff : Backoff[i] \in Nat BY <2>1, WebhookAssumption
  <2>4. Backoff[n] <= Backoff[MaxAttempts - 2] BY <2>2, WebhookAssumption
  <2>5. MaxWait = Backoff[MaxAttempts - 2] BY <1>3, <1>4 DEF MaxWait
  <2> QED BY <2>2, <2>3, <2>4, <2>5
<1>5. MaxWait \in Nat
  <2>1. CASE MaxAttempts < 2 BY <2>1 DEF MaxWait
  <2>2. CASE ~(MaxAttempts < 2) BY <1>3, <1>4, <2>2
  <2> QED BY <2>1, <2>2
<1> QED BY <1>1, <1>2, <1>4, <1>5

LEMMA TypedInit == Init => Typed
<1> SUFFICES ASSUME Init PROVE Typed OBVIOUS
<1>1. NoDelivery \in Delivery
  BY Constants, WebhookAssumption DEF NoDelivery, Delivery, Statuses
<1>2. RowFits(NoDelivery) BY <1>1 DEF RowFits, NoDelivery, Chargeable
<1>3. Idle \in Cycle BY DEF Idle, Cycle, Steps, Outcomes
<1>4. CycleFits(Idle) BY <1>3 DEF CycleFits, Idle, RowSteps
<1> QED BY <1>1, <1>2, <1>3, <1>4, Constants
     DEF Init, Typed, HooksFit, RowsFit, CyclesFit, PostsFit, Verdicts

-----------------------------------------------------------------------------
(* What a cycle becomes.                                                      *)

LEMMA MoveFits ==
    ASSUME CyclesFit, NEW c \in Dispatchers, NEW q, CycleFits(q), Move(c, q)
    PROVE  CyclesFit'
<1>1. [q EXCEPT !.busy = 0] \in Cycle BY DEF CycleFits, Cycle
<1>2. CycleFits([q EXCEPT !.busy = 0]) BY <1>1 DEF CycleFits, Cycle
<1> QED BY <1>1, <1>2 DEF Move, CyclesFit

LEMMA IdleFits == CycleFits(Idle)
BY DEF CycleFits, Idle, Cycle, Steps, Outcomes, RowSteps

LEMMA GotoFits ==
    ASSUME CyclesFit, NEW c \in Dispatchers, NEW step \in Steps \ Early,
           step \in RowSteps => cycle[c].row \in cycle[c].todo, Goto(c, step)
    PROVE  CyclesFit'
<1>1. CycleFits([cycle[c] EXCEPT !.pc = step])
  BY DEF CyclesFit, CycleFits, Cycle
<1> QED BY <1>1, MoveFits DEF Goto

LEMMA LoopFits ==
    ASSUME CyclesFit, NEW c \in Dispatchers, NEW todo \in SUBSET cycle[c].todo,
           Loop(c, todo)
    PROVE  CyclesFit'
<1> DEFINE q == [cycle[c] EXCEPT !.pc = "loop", !.todo = todo, !.row = NoRow,
                                 !.outcome = "none"]
<1>1. CycleFits(cycle[c]) BY DEF CyclesFit
<1>2. q \in Cycle BY <1>1 DEF CycleFits, Cycle, Steps, Outcomes
<1>3. CycleFits(q) BY <1>1, <1>2 DEF CycleFits, RowSteps, Early, Cycle
<1> QED BY <1>3, IdleFits, MoveFits DEF Loop

LEMMA NextRowFits ==
    ASSUME CyclesFit, NEW c \in Dispatchers, NextRow(c)
    PROVE  CyclesFit'
BY LoopFits DEF NextRow

-----------------------------------------------------------------------------
(* What a row becomes.                                                        *)

LEMMA LaterFits ==
    ASSUME CyclesFit, NEW c \in Dispatchers, NEW delay \in 0..MaxWait
    PROVE  Later(c, delay) \in Stale..MaxWait
<1>1. cycle[c].elapsed \in Nat BY DEF CyclesFit, Cycle
<1> QED BY <1>1, Constants DEF Later

LEMMA RecoveredFits ==
    ASSUME CyclesFit, NEW c \in Dispatchers, NEW r, RowFits(r),
           r.status = "in_flight"
    PROVE  RowFits(Recovered(c, r))
<1>1. r \in Delivery /\ r.attempts \in Nat /\ r.attempts < MaxAttempts
  BY WebhookAssumption DEF RowFits, Chargeable, Delivery
<1>2. r.attempts + 1 \in 0..MaxAttempts BY <1>1, WebhookAssumption
<1>3. 0 \in 0..MaxAge BY Constants
<1>4. CASE r.attempts + 1 >= MaxAttempts
  BY <1>1, <1>2, <1>3, <1>4 DEF Recovered, RowFits, Delivery, Statuses, Chargeable
<1>5. CASE ~(r.attempts + 1 >= MaxAttempts)
  <2>1. r.attempts + 1 < MaxAttempts BY <1>1, <1>5, WebhookAssumption
  <2>2. Backoff[r.attempts] \in 0..MaxWait BY <1>1, <2>1, Constants
  <2>3. Later(c, Backoff[r.attempts]) \in Stale..MaxWait BY <2>2, LaterFits
  <2> QED BY <1>1, <1>2, <1>3, <1>5, <2>1, <2>3
       DEF Recovered, RowFits, Delivery, Statuses, Chargeable
<1> QED BY <1>4, <1>5

LEMMA ResultFits ==
    ASSUME CyclesFit, NEW c \in Dispatchers, NEW r, RowFits(r), NEW o,
           cycle[c].pc = "record"
    PROVE  RowFits(Result(c, r, o))
<1> DEFINE before == cycle[c].row.attempts
<1>1. before \in Nat /\ before < MaxAttempts
  BY WebhookAssumption DEF CyclesFit, CycleFits, RowSteps, Cycle, Claims
<1>2. before + 1 \in 0..MaxAttempts BY <1>1, WebhookAssumption
<1>3. 0 \in 0..MaxAge BY Constants
<1>4. r \in Delivery BY DEF RowFits
<1>5. CASE o = "delivered" \/ o = "dead" \/ before + 1 >= MaxAttempts
  <2> HIDE DEF before
  <2> QED BY <1>2, <1>3, <1>4, <1>5 DEF Result, RowFits, Delivery, Statuses, Chargeable, before
<1>6. CASE ~(o = "delivered" \/ o = "dead" \/ before + 1 >= MaxAttempts)
  <2>1. before + 1 < MaxAttempts BY <1>1, <1>6, WebhookAssumption
  <2>2. Backoff[before] \in 0..MaxWait BY <1>1, <2>1, Constants
  <2>3. Later(c, Backoff[before]) \in Stale..MaxWait BY <2>2, LaterFits
  <2> QED BY <1>2, <1>3, <1>4, <1>6, <2>1, <2>3
       DEF Result, RowFits, Delivery, Statuses, Chargeable
<1> QED BY <1>5, <1>6

LEMMA ReleasedFits ==
    ASSUME CyclesFit, NEW c \in Dispatchers, NEW r, RowFits(r), NEW n,
           r.status = "in_flight"
    PROVE  RowFits(Released(c, r, n))
<1>1. Later(c, 0) \in Stale..MaxWait /\ 0 \in 0..MaxAge BY Constants, LaterFits
<1> QED BY <1>1 DEF Released, RowFits, Delivery, Statuses, Chargeable

-----------------------------------------------------------------------------
(* The types are kept, step by step.                                          *)

LEMMA QuietRows == ASSUME RowsFit, UNCHANGED delivery PROVE RowsFit'
BY DEF RowsFit

LEMMA TypedSweep ==
    ASSUME Typed, NEW c \in Dispatchers, Sweep(c)
    PROVE  Typed'
<1> DEFINE q == [cycle[c] EXCEPT !.pc = "claim", !.lag = cycle[c].elapsed]
<1>1. CycleFits(cycle[c]) /\ cycle[c].pc = "sweep" BY DEF Typed, CyclesFit, Sweep, At
<1>2. CycleFits(q) BY <1>1 DEF CycleFits, RowSteps, Early, Cycle, Steps
<1>3. Move(c, q) BY DEF Sweep, Statement
<1>4. CyclesFit' BY <1>2, <1>3, MoveFits DEF Typed
<1>5. RowsFit'
  <2>1. CASE UNCHANGED tables BY <2>1, QuietRows DEF Typed, tables
  <2>2. CASE Recover(c)
    <3>1. \A d \in Ids : Stuck(c, delivery[d]) => delivery[d].status = "in_flight"
      BY DEF Stuck
    <3>2. \A d \in Ids : RowFits(delivery'[d])
      BY <2>2, <3>1, RecoveredFits DEF Recover, Typed, RowsFit
    <3> QED BY <2>2, <3>2 DEF Recover, RowsFit, RowFits
  <2> QED BY <2>1, <2>2 DEF Sweep, Statement
<1>6. HooksFit' BY DEF Sweep, Statement, Recover, tables, Typed, HooksFit
<1> QED BY <1>4, <1>5, <1>6 DEF Sweep, At, Typed, PostsFit

LEMMA TypedClaim ==
    ASSUME Typed, NEW c \in Dispatchers, Claim(c)
    PROVE  Typed'
<1>1. CycleFits(cycle[c]) /\ cycle[c].pc = "claim" BY DEF Typed, CyclesFit, Claim, At
<1>2. PICK S \in Batches(c) :
          \/ ClaimRows(S) /\ (\/ Move(c, Idle)
                             \/ Move(c, [cycle[c] EXCEPT !.pc = "load",
                                                         !.todo = Claimed(S)]))
          \/ UNCHANGED tables /\ Move(c, Idle)
  BY DEF Claim, Statement
<1>3. S \subseteq Due(c) BY DEF Batches
<1>4. \A d \in S : /\ d \in Ids /\ delivery[d].status \in Chargeable
                   /\ delivery[d].hook # NoHook
                   /\ RowFits(delivery[d])
  BY <1>3 DEF Due, Chargeable, Typed, RowsFit
<1>5. RowsFit'
  <2>1. CASE UNCHANGED tables BY <2>1, QuietRows DEF Typed, tables
  <2>2. CASE ClaimRows(S)
    <3>1. 0 \in 0..MaxAge BY Constants
    <3>2. \A d \in S : RowFits([delivery[d] EXCEPT !.status = "in_flight", !.age = 0])
      BY <1>4, <3>1 DEF RowFits, Delivery, Statuses, Chargeable
    <3>3. \A d \in Ids : RowFits(delivery'[d])
      BY <2>2, <3>2 DEF ClaimRows, Typed, RowsFit
    <3> QED BY <2>2, <3>3 DEF ClaimRows, RowsFit, RowFits
  <2> QED BY <1>2, <2>1, <2>2
<1>6. CyclesFit'
  <2>1. CASE Move(c, Idle) BY <2>1, IdleFits, MoveFits DEF Typed
  <2>2. CASE Move(c, [cycle[c] EXCEPT !.pc = "load", !.todo = Claimed(S)])
    <3>1. \A r \in Claimed(S) : r \in Claims /\ r.attempts < MaxAttempts
      BY <1>4 DEF Claimed, Claims, RowFits, Delivery
    <3>2. \A r, s \in Claimed(S) : r.id = s.id => r = s BY DEF Claimed
    <3>3. CycleFits([cycle[c] EXCEPT !.pc = "load", !.todo = Claimed(S)])
      BY <1>1, <3>1, <3>2 DEF CycleFits, RowSteps, Early, Cycle, Steps
    <3> QED BY <2>2, <3>3, MoveFits DEF Typed
  <2> QED BY <1>2, <2>1, <2>2
<1>7. HooksFit' BY <1>2 DEF ClaimRows, tables, Typed, HooksFit
<1> QED BY <1>5, <1>6, <1>7 DEF Claim, At, Typed, PostsFit

LEMMA TypedQuietly ==
    ASSUME Typed, NEW c \in Dispatchers,
           Start(c) \/ LoadWebhooks(c) \/ Pick(c) \/ GiveUp(c) \/ Crash(c)
    PROVE  Typed'
<1>1. CycleFits(cycle[c]) BY DEF Typed, CyclesFit
<1>2. UNCHANGED <<tables, post, emit>>
  BY DEF Start, LoadWebhooks, Pick, GiveUp, Crash, At
<1>3. CyclesFit'
  <2>1. CASE Start(c)
    <3>1. CycleFits([Idle EXCEPT !.pc = "sweep"])
      BY IdleFits DEF CycleFits, Idle, Cycle, Steps, RowSteps, Early
    <3> QED BY <2>1, <3>1, MoveFits DEF Start, Typed
  <2>2. CASE LoadWebhooks(c)
    <3> DEFINE q == [cycle[c] EXCEPT !.pc = "loop",
                       !.known = {h \in Hooks : hook[h] # "deleted"}]
    <3>1. CycleFits(q) BY <1>1 DEF CycleFits, Cycle, Steps, RowSteps, Early
    <3>2. CASE Move(c, q) BY <3>1, <3>2, MoveFits DEF Typed
    <3>3. CASE Goto(c, "loop")
      BY <3>3, GotoFits DEF Typed, Steps, RowSteps, Early
    <3> QED BY <2>2, <3>2, <3>3 DEF LoadWebhooks
  <2>3. CASE Pick(c)
    <3>1. PICK r \in cycle[c].todo :
            Move(c, [cycle[c] EXCEPT
                       !.pc = IF r.hook \in cycle[c].known THEN "touch" ELSE "drop",
                       !.row = r])
      BY <2>3 DEF Pick
    <3>2. r \in Claims BY <1>1 DEF CycleFits, Cycle
    <3>3. CycleFits([cycle[c] EXCEPT
                       !.pc = IF r.hook \in cycle[c].known THEN "touch" ELSE "drop",
                       !.row = r])
      BY <1>1, <3>2 DEF CycleFits, Cycle, Steps, Early
    <3> QED BY <3>1, <3>3, MoveFits DEF Typed
  <2>4. CASE GiveUp(c)
    BY <2>4, GotoFits DEF GiveUp, Typed, Steps, RowSteps, Early
  <2>5. CASE Crash(c) BY <2>5, IdleFits DEF Crash, Typed, CyclesFit, CycleFits
  <2> QED BY <2>1, <2>2, <2>3, <2>4, <2>5
<1> QED BY <1>2, <1>3, QuietRows DEF Typed, tables, HooksFit, PostsFit

LEMMA TypedDrop ==
    ASSUME Typed, NEW c \in Dispatchers, Drop(c)
    PROVE  Typed'
<1>1. NextRow(c) BY DEF Drop, Statement
<1>2. CyclesFit' BY <1>1, NextRowFits DEF Typed
<1>3. 0 \in 0..MaxAge BY Constants
<1>4. RowsFit'
  BY <1>3 DEF Drop, Statement, tables, Typed, RowsFit, RowFits, Delivery, Statuses,
     Chargeable
<1> QED BY <1>2, <1>4 DEF Drop, At, Statement, tables, Typed, HooksFit, PostsFit

LEMMA TypedTouch ==
    ASSUME Typed, NEW c \in Dispatchers, Touch(c)
    PROVE  Typed'
<1>1. CASE NextRow(c) /\ UNCHANGED delivery
  BY <1>1, NextRowFits, QuietRows DEF Touch, At, Typed, HooksFit, PostsFit
<1>2. CASE /\ Goto(c, "resolve")
           /\ \/ delivery' = [delivery EXCEPT ![cycle[c].row.id].age = 0]
              \/ UNCHANGED delivery
  <2>1. cycle[c].row \in cycle[c].todo
    BY DEF Touch, At, Typed, CyclesFit, CycleFits, RowSteps
  <2>2. CyclesFit' BY <1>2, <2>1, GotoFits DEF Typed, Steps, Early
  <2>3. 0 \in 0..MaxAge BY Constants
  <2>4. RowsFit'
    BY <1>2, <2>3 DEF Typed, RowsFit, RowFits, Delivery, Chargeable
  <2> QED BY <2>2, <2>4 DEF Touch, At, Typed, HooksFit, PostsFit
<1> QED BY <1>1, <1>2 DEF Touch

LEMMA FoundFits ==
    ASSUME CyclesFit, NEW c \in Dispatchers, NEW o \in Outcomes, Found(c, o),
           cycle[c].pc \in RowSteps
    PROVE  CyclesFit'
<1>1. CycleFits(cycle[c]) BY DEF CyclesFit
<1>2. CycleFits([cycle[c] EXCEPT !.pc = "record", !.outcome = o])
  BY <1>1 DEF CycleFits, Cycle, Steps, RowSteps, Early
<1> QED BY <1>2, MoveFits DEF Found

LEMMA TypedResolve ==
    ASSUME Typed, NEW c \in Dispatchers, Resolve(c)
    PROVE  Typed'
<1> DEFINE d == cycle[c].row.id
<1>1. cycle[c].pc = "resolve" /\ cycle[c].row \in cycle[c].todo
  BY DEF Resolve, At, Typed, CyclesFit, CycleFits, RowSteps
<1>2. d \in Ids BY <1>1 DEF Typed, CyclesFit, Cycle, Claims
<1>3. CyclesFit'
  <2>1. CASE Goto(c, "post") BY <1>1, <2>1, GotoFits DEF Typed, Steps, Early
  <2>2. CASE Found(c, "dead")
    BY <1>1, <2>2, FoundFits DEF Typed, Outcomes, RowSteps
  <2> QED BY <2>1, <2>2 DEF Resolve
<1>4. PostsFit'
  <2>1. CASE post' = [post EXCEPT ![d] = [count |-> @.count + 1, since |-> 0,
                                          verdict |-> "none"]]
    BY <1>2, <2>1, Constants DEF Typed, PostsFit, Verdicts
  <2>2. CASE post' = [post EXCEPT ![d].verdict = "dead"]
    BY <1>2, <2>2 DEF Typed, PostsFit, Verdicts
  <2> QED BY <2>1, <2>2 DEF Resolve
<1> QED BY <1>3, <1>4, QuietRows DEF Resolve, At, tables, Typed, HooksFit

LEMMA TypedAnswer ==
    ASSUME Typed, NEW c \in Dispatchers, Answer(c)
    PROVE  Typed'
<1>1. PICK o \in Outcomes \ {"none"} :
          /\ Found(c, o)
          /\ post' = [post EXCEPT ![cycle[c].row.id].verdict =
                          IF o = "dead" THEN "dead" ELSE "none"]
  BY DEF Answer
<1>2. cycle[c].pc = "post" BY DEF Answer, At
<1>3. CyclesFit' BY <1>1, <1>2, FoundFits DEF Typed, RowSteps
<1>4. PostsFit' BY <1>1 DEF Typed, PostsFit, Verdicts
<1> QED BY <1>3, <1>4, QuietRows DEF Answer, At, tables, Typed, HooksFit

LEMMA TypedRecord ==
    ASSUME Typed, NEW c \in Dispatchers, Record(c)
    PROVE  Typed'
<1>1. cycle[c].pc = "record" /\ CycleFits(cycle[c])
  BY DEF Record, At, Typed, CyclesFit
<1>2. CyclesFit'
  <2>1. CASE Goto(c, "snapshot")
    BY <1>1, <2>1, GotoFits DEF Typed, CycleFits, Steps, Early, RowSteps
  <2>2. CASE NextRow(c) BY <2>2, NextRowFits DEF Typed
  <2> QED BY <2>1, <2>2 DEF Record, Statement
<1>3. RowsFit'
  <2>1. CASE UNCHANGED tables BY <2>1, QuietRows DEF Typed, tables
  <2>2. CASE delivery' = [delivery EXCEPT ![cycle[c].row.id] =
                            Result(c, @, cycle[c].outcome)]
    <3>1. \A d \in Ids : RowFits(Result(c, delivery[d], cycle[c].outcome))
      BY <1>1, ResultFits DEF Typed, RowsFit
    <3>2. \A d \in Ids : RowFits(delivery'[d])
      BY <2>2, <3>1 DEF Typed, RowsFit
    <3> QED BY <2>2, <3>1, <3>2 DEF Typed, RowsFit, RowFits
  <2> QED BY <2>1, <2>2 DEF Record, Statement
<1>4. UNCHANGED <<hook, emit, post>> BY DEF Record, At, Statement, tables
<1> QED BY <1>2, <1>3, <1>4 DEF Typed, HooksFit, PostsFit

LEMMA TypedDisable ==
    ASSUME Typed, NEW c \in Dispatchers, Snapshot(c) \/ Disable(c) \/ Audit(c)
    PROVE  Typed'
<1>1. cycle[c].pc \in RowSteps /\ CycleFits(cycle[c])
  BY DEF Snapshot, Disable, Audit, At, Typed, CyclesFit, RowSteps
<1>2. CyclesFit'
  <2>1. CASE Goto(c, "disable") \/ Goto(c, "audit")
    BY <1>1, <2>1, GotoFits DEF Typed, CycleFits, Steps, Early
  <2>2. CASE NextRow(c) BY <2>2, NextRowFits DEF Typed
  <2> QED BY <2>1, <2>2 DEF Snapshot, Disable, Audit, Statement
<1>3. UNCHANGED <<delivery, emit, post>>
  BY DEF Snapshot, Disable, Audit, At, Statement, tables
<1>4. HooksFit'
  BY DEF Snapshot, Disable, Audit, Statement, tables, Typed, HooksFit
<1> QED BY <1>2, <1>3, <1>4, QuietRows DEF Typed, PostsFit

LEMMA TypedRelease ==
    ASSUME Typed, NEW c \in Dispatchers, Release(c)
    PROVE  Typed'
<1> DEFINE fresh == {r \in cycle[c].todo : r.attempts = 0}
           group == IF fresh # {} THEN fresh ELSE cycle[c].todo
           rest == cycle[c].todo \ group
<1>1. CycleFits(cycle[c]) /\ cycle[c].pc = "release"
  BY DEF Typed, CyclesFit, Release, At
<1>2. CyclesFit'
  <2>1. CASE Move(c, Idle) BY <2>1, IdleFits, MoveFits DEF Typed
  <2>2. CASE Move(c, [cycle[c] EXCEPT !.todo = rest])
    <3>1. rest \subseteq cycle[c].todo OBVIOUS
    <3> HIDE DEF rest
    <3>2. CycleFits([cycle[c] EXCEPT !.todo = rest])
      BY <1>1, <3>1 DEF CycleFits, Cycle, RowSteps, Early
    <3> QED BY <2>2, <3>2, MoveFits DEF Typed
  <2> QED BY <2>1, <2>2 DEF Release, Statement
<1>3. RowsFit'
  <2>1. CASE UNCHANGED tables BY <2>1, QuietRows DEF Typed, tables
  <2>2. CASE delivery' = [d \in Ids |->
                IF delivery[d].status = "in_flight" /\ \E r \in group : r.id = d
                THEN Released(c, delivery[d],
                              (CHOOSE r \in group : r.id = d).attempts)
                ELSE delivery[d]]
    <3> HIDE DEF group
    <3>1. \A d \in Ids : RowFits(delivery'[d])
      BY <2>2, ReleasedFits DEF Typed, RowsFit
    <3> QED BY <2>2, <3>1 DEF RowsFit, RowFits
  <2> QED BY <2>1, <2>2 DEF Release, Statement
<1>4. UNCHANGED <<hook, emit, post>> BY DEF Release, At, Statement, tables
<1> QED BY <1>2, <1>3, <1>4 DEF Typed, HooksFit, PostsFit

LEMMA TypedHooks ==
    ASSUME Typed,
           \/ FanOut
           \/ \E h \in Hooks : TestHook(h) \/ SetActive(h) \/ DeleteHook(h)
           \/ \E d \in Ids : Retry(d)
    PROVE  Typed'
<1>1. CASE FanOut \/ (\E h \in Hooks : TestHook(h)) \/ \E d \in Ids : Retry(d)
  <2>1. UNCHANGED <<tables, cycle, post>> BY <1>1 DEF FanOut, TestHook, Retry, Read
  <2>2. emit' \in SUBSET Hooks BY <1>1 DEF FanOut, TestHook, Retry, Read, Active
  <2> QED BY <2>1, <2>2 DEF Typed, HooksFit, RowsFit, CyclesFit, PostsFit, tables
<1>2. ASSUME NEW h \in Hooks, SetActive(h) PROVE Typed'
  BY <1>2 DEF SetActive, Typed, HooksFit, RowsFit, CyclesFit, PostsFit
<1>3. ASSUME NEW h \in Hooks, DeleteHook(h) PROVE Typed'
  <2>1. 0 \in 0..MaxAge BY Constants
  <2>2. \A d \in Ids : RowFits([delivery[d] EXCEPT !.hook = NoHook, !.age = 0])
    BY <2>1 DEF Typed, RowsFit, RowFits, Delivery
  <2>3. \A d \in Ids : RowFits(delivery'[d])
    BY <1>3, <2>2 DEF DeleteHook, Typed, RowsFit
  <2>4. RowsFit' BY <1>3, <2>3 DEF DeleteHook, RowsFit, RowFits
  <2> QED BY <1>3, <2>4 DEF DeleteHook, Typed, HooksFit, CyclesFit, PostsFit
<1> QED BY <1>1, <1>2, <1>3

LEMMA TypedInsert ==
    ASSUME Typed, InsertDeliveries
    PROVE  Typed'
<1>1. RowsFit'
  <2>1. CASE UNCHANGED delivery BY <2>1, QuietRows DEF Typed
  <2>2. ASSUME NEW new \in Injection(emit, Free),
               delivery' = [d \in Ids |->
                  IF \E h \in emit : new[h] = d
                  THEN [NoDelivery EXCEPT !.status = "pending", !.wait = 0,
                          !.hook = CHOOSE h \in emit : new[h] = d]
                  ELSE delivery[d]]
        PROVE  RowsFit'
    <3>1. 0 \in Stale..MaxWait /\ 0 \in 0..MaxAge /\ 0 \in 0..MaxAttempts
          /\ 0 < MaxAttempts
      BY Constants, WebhookAssumption
    <3>2. \A h \in Hooks : RowFits([NoDelivery EXCEPT !.status = "pending",
                                      !.wait = 0, !.hook = h])
      BY <3>1 DEF NoDelivery, RowFits, Delivery, Statuses, Chargeable
    <3>3. \A d \in Ids : (\E h \in emit : new[h] = d)
              => (CHOOSE h \in emit : new[h] = d) \in Hooks
      BY DEF Typed
    <3>4. \A d \in Ids : RowFits(delivery'[d])
      BY <2>2, <3>2, <3>3 DEF Typed, RowsFit
    <3> QED BY <2>2, <3>4 DEF RowsFit, RowFits
  <2> QED BY <2>1, <2>2 DEF InsertDeliveries
<1>2. emit' \in SUBSET Hooks /\ UNCHANGED <<hook, cycle, post>> BY DEF InsertDeliveries
<1> QED BY <1>1, <1>2 DEF Typed, HooksFit, CyclesFit, PostsFit

LEMMA TypedTick ==
    ASSUME Typed, Tick
    PROVE  Typed'
<1>1. RowsFit'
  <2>1. \A t \in 0..MaxAge : Older(t, MaxAge) \in 0..MaxAge BY Constants DEF Older
  <2>2. \A t \in Stale..MaxWait : (IF t > Stale THEN t - 1 ELSE Stale) \in Stale..MaxWait
    BY Constants
  <2>3. \A d \in Ids : RowFits(delivery'[d])
    BY <2>1, <2>2 DEF Tick, Typed, RowsFit, RowFits, Delivery
  <2> QED BY <2>3 DEF Tick, RowsFit, RowFits
<1>2. CyclesFit'
  <2>1. \A c \in Dispatchers : CycleFits(cycle'[c])
    <3> SUFFICES ASSUME NEW c \in Dispatchers PROVE CycleFits(cycle'[c]) OBVIOUS
    <3>1. CycleFits(cycle[c]) BY DEF Typed, CyclesFit
    <3>2. CASE cycle[c].pc = "idle" BY <3>2, IdleFits DEF Tick
    <3>3. CASE cycle[c].pc # "idle"
      <4>1. cycle'[c] = [cycle[c] EXCEPT !.busy = @ + 1, !.elapsed = @ + 1]
        BY <3>3 DEF Tick
      <4> DEFINE q == [cycle[c] EXCEPT !.busy = @ + 1]
      <4>2. CycleFits(q) BY <3>1 DEF CycleFits, Cycle
      <4>3. cycle'[c] = [q EXCEPT !.elapsed = @ + 1] BY <4>1
      <4> HIDE DEF q
      <4> QED BY <4>2, <4>3 DEF CycleFits, Cycle
    <3> QED BY <3>2, <3>3
  <2> QED BY <2>1 DEF Tick, CyclesFit, CycleFits
<1>3. PostsFit'
  <2>1. \A t \in 0..MaxWait : Older(t, MaxWait) \in 0..MaxWait /\ 0 \in 0..MaxWait
    BY Constants DEF Older
  <2> QED BY <2>1 DEF Tick, Typed, PostsFit
<1> QED BY <1>1, <1>2, <1>3 DEF Tick, Typed, HooksFit

LEMMA TypedStep == Typed /\ [Next]_vars => Typed'
<1> SUFFICES ASSUME Typed, [Next]_vars PROVE Typed' OBVIOUS
<1>1. ASSUME NEW c \in Dispatchers, Start(c) \/ Advance(c) \/ Crash(c)
      PROVE  Typed'
  BY <1>1, TypedSweep, TypedClaim, TypedQuietly, TypedDrop, TypedTouch, TypedResolve,
     TypedAnswer, TypedRecord, TypedDisable, TypedRelease DEF Advance
<1>2. CASE UNCHANGED vars
  BY <1>2 DEF vars, Typed, HooksFit, RowsFit, CyclesFit, PostsFit
<1> QED BY <1>1, <1>2, TypedHooks, TypedInsert, TypedTick DEF Next

LEMMA TypedAlways == Spec => []Typed
BY TypedInit, TypedStep, PTL DEF Spec

(* No status, attempt count or timer leaves its range: in particular every    *)
(* index into the back-off table is in the table, whatever order claims,      *)
(* outcomes and sweeps come in.                                               *)
THEOREM DeliveriesTyped == Spec => []TypeOK
BY TypedIsTypeOK, TypedAlways, PTL

-----------------------------------------------------------------------------
(* Time. A cycle is never further from the end of its sweep than its position *)
(* allows, and even at its last statement that is within the sweep's window.  *)

Ran(q) == q.elapsed - q.lag

(* When an attempt can begin at the latest, and when it is over.              *)
LastPick == Budget - Timeout - 1
LastAnswer == LastPick + Latency + Lookup + Timeout

OnTime(q) ==
    /\ q.lag <= q.elapsed /\ q.lag <= Latency
    /\ q.pc # "idle" => q.busy <= Limit(q.pc)
    /\ q.pc = "sweep" => q.elapsed <= q.busy
    /\ q.pc = "claim" => Ran(q) <= q.busy
    /\ q.pc = "load" => Ran(q) <= Latency + q.busy
    /\ q.pc = "loop" => Ran(q) <= LastAnswer + 4 * Latency
    /\ q.pc \in {"touch", "drop"} => Ran(q) <= LastPick + q.busy
    /\ q.pc = "resolve" => Ran(q) <= LastPick + Latency + q.busy
    /\ q.pc = "post" => Ran(q) <= LastPick + Latency + Lookup + q.busy
    /\ q.pc = "record" => Ran(q) <= LastAnswer + q.busy
    /\ q.pc = "snapshot" => Ran(q) <= LastAnswer + Latency + q.busy
    /\ q.pc = "disable" => Ran(q) <= LastAnswer + 2 * Latency + q.busy
    /\ q.pc = "audit" => Ran(q) <= LastAnswer + 3 * Latency + q.busy
    /\ q.pc = "release" =>
          IF \E r \in q.todo : r.attempts = 0
          THEN Ran(q) <= LastAnswer + 4 * Latency + q.busy
          ELSE Ran(q) <= LastAnswer + 5 * Latency + q.busy

Timely == \A c \in Dispatchers : OnTime(cycle[c])

LEMMA WithinWindow ==
    ASSUME WindowFits, NEW q \in Cycle, OnTime(q), q.pc \notin {"idle", "sweep"}
    PROVE  Ran(q) \in Nat /\ Ran(q) <= Window
<1>1. /\ Latency \in Nat /\ Budget \in Nat /\ Timeout \in Nat /\ Slack \in Nat
      /\ Lookup \in Nat
      /\ Timeout < Budget /\ 7 * Latency + Lookup <= Timeout + Slack + 1
      /\ 2 * Latency < Budget - Timeout
  BY WebhookAssumption DEF WindowFits
<1>2. q.elapsed \in Nat /\ q.lag \in Nat /\ q.busy \in Nat /\ q.pc \in Steps
  BY DEF Cycle
<1>3. q.lag <= q.elapsed /\ q.busy <= Limit(q.pc)
  BY DEF OnTime
<1>4. Ran(q) \in Nat BY <1>2, <1>3 DEF Ran
<1>5. CASE q.pc \in {"claim", "load"}
  BY <1>1, <1>2, <1>3, <1>4, <1>5 DEF OnTime, Limit, Window
<1>6. CASE q.pc = "loop"
  BY <1>1, <1>2, <1>3, <1>4, <1>6 DEF OnTime, Limit, Window, LastPick, LastAnswer
<1>7. CASE q.pc \in {"touch", "drop", "resolve", "post"}
  BY <1>1, <1>2, <1>3, <1>4, <1>7 DEF OnTime, Limit, Window, LastPick, LastAnswer
<1>8. CASE q.pc \in {"record", "snapshot", "disable", "audit", "release"}
  BY <1>1, <1>2, <1>3, <1>4, <1>8 DEF OnTime, Limit, Window, LastPick, LastAnswer
<1> QED BY <1>2, <1>4, <1>5, <1>6, <1>7, <1>8 DEF Steps

LEMMA TimelyInit == Init => Timely
BY WebhookAssumption DEF Init, Timely, OnTime, Idle

LEMMA IdleOnTime == OnTime(Idle)
BY WebhookAssumption DEF OnTime, Idle

LEMMA MoveOnTime ==
    ASSUME Typed, Timely, NEW c \in Dispatchers, NEW q \in Cycle, Move(c, q),
           OnTime([q EXCEPT !.busy = 0])
    PROVE  Timely'
BY DEF Move, Timely, Typed, CyclesFit

(* What a cycle goes on to do in the loop is in time when it comes from there.*)
LEMMA LoopOnTime ==
    ASSUME Typed, Timely, NEW c \in Dispatchers, NEW todo \in SUBSET cycle[c].todo,
           Loop(c, todo), Ran(cycle[c]) <= LastAnswer + 4 * Latency
    PROVE  Timely'
<1> DEFINE q == [cycle[c] EXCEPT !.pc = "loop", !.todo = todo, !.row = NoRow,
                                 !.outcome = "none"]
<1>1. /\ cycle[c] \in Cycle /\ cycle[c].lag <= cycle[c].elapsed
      /\ cycle[c].lag <= Latency
  BY DEF Typed, CyclesFit, Timely, OnTime
<1>2. q \in Cycle BY <1>1 DEF Cycle, Steps, Outcomes
<1>3. OnTime([q EXCEPT !.busy = 0]) BY <1>1 DEF OnTime, Ran, Limit, Cycle
<1>4. CASE todo = {}
  <2>1. OnTime([Idle EXCEPT !.busy = 0]) BY WebhookAssumption DEF OnTime, Idle
  <2> QED BY <1>4, <2>1, IdleFits, MoveOnTime DEF Loop, CycleFits
<1>5. CASE todo # {} BY <1>2, <1>3, <1>5, MoveOnTime DEF Loop
<1> QED BY <1>4, <1>5

LEMMA TimelyAdvance ==
    ASSUME Typed, Timely, NEW c \in Dispatchers, Start(c) \/ Advance(c) \/ Crash(c)
    PROVE  Timely'
<1> DEFINE p == cycle[c]
<1>1. CycleFits(p) /\ p \in Cycle /\ OnTime(p) BY DEF Typed, CyclesFit, Timely
<1>2. /\ Latency \in Nat /\ Budget \in Nat /\ Timeout \in Nat
      /\ Lookup \in Nat /\ Timeout < Budget /\ 2 * Latency < Budget - Timeout
  BY WebhookAssumption
<1>3. /\ p.elapsed \in Nat /\ p.lag \in Nat /\ p.busy \in Nat
      /\ Ran(p) = p.elapsed - p.lag /\ Ran(p) \in Int
  BY <1>1 DEF Cycle, Ran
<1>4. Idle \in Cycle /\ OnTime([Idle EXCEPT !.busy = 0])
  BY <1>2, IdleFits DEF CycleFits, OnTime, Idle
<1>5. CASE Start(c)
  <2>1. [Idle EXCEPT !.pc = "sweep"] \in Cycle BY <1>4 DEF Cycle, Steps, Idle
  <2>2. OnTime([[Idle EXCEPT !.pc = "sweep"] EXCEPT !.busy = 0])
    BY <1>2 DEF OnTime, Idle, Limit
  <2> QED BY <1>5, <2>1, <2>2, MoveOnTime DEF Start
<1>6. CASE Crash(c) BY <1>6, IdleOnTime DEF Crash, Timely, Typed, CyclesFit
<1>7. CASE Sweep(c)
  <2> DEFINE q == [cycle[c] EXCEPT !.pc = "claim", !.lag = cycle[c].elapsed]
  <2>1. q \in Cycle BY <1>1 DEF Cycle, Steps
  <2>2. p.pc = "sweep" BY <1>7 DEF Sweep, At
  <2>3. p.elapsed <= Latency BY <1>1, <1>2, <1>3, <2>2 DEF OnTime, Limit
  <2>4. OnTime([q EXCEPT !.busy = 0])
    BY <1>1, <1>2, <1>3, <2>3 DEF OnTime, Ran, Limit, Cycle
  <2>5. Move(c, q) BY <1>7 DEF Sweep, Statement
  <2> QED BY <2>1, <2>4, <2>5, MoveOnTime
<1>8. CASE Claim(c)
  <2>1. PICK S : \/ Move(c, Idle)
                 \/ /\ Move(c, [cycle[c] EXCEPT !.pc = "load",
                                                !.todo = Claimed(S)])
                    /\ cycle[c].pc = "claim"
    BY <1>8 DEF Claim, Statement, At
  <2>2. CASE Move(c, Idle) BY <1>4, <2>2, MoveOnTime
  <2>3. CASE /\ Move(c, [cycle[c] EXCEPT !.pc = "load", !.todo = Claimed(S)])
             /\ cycle[c].pc = "claim"
    <3> DEFINE q == [cycle[c] EXCEPT !.pc = "load", !.todo = Claimed(S)]
    <3>1. OnTime([q EXCEPT !.busy = 0])
      BY <1>1, <1>2, <1>3, <2>3 DEF OnTime, Ran, Limit, Cycle
    <3> QED BY <2>3, <3>1 DEF Move, Timely, Typed, CyclesFit
  <2> QED BY <2>1, <2>2, <2>3
<1>9. CASE LoadWebhooks(c)
  <2>1. p.pc = "load" BY <1>9 DEF LoadWebhooks, At
  <2>2. PICK known \in SUBSET Hooks :
            Move(c, [cycle[c] EXCEPT !.pc = "loop", !.known = known])
    <3>1. CASE Goto(c, "loop")
      <4>1. [cycle[c] EXCEPT !.pc = "loop"]
              = [cycle[c] EXCEPT !.pc = "loop", !.known = cycle[c].known]
        BY <1>1 DEF Cycle
      <4> QED BY <1>1, <3>1, <4>1 DEF Goto, Cycle
    <3> QED BY <1>9, <3>1 DEF LoadWebhooks
  <2> DEFINE q == [cycle[c] EXCEPT !.pc = "loop", !.known = known]
  <2>3. q \in Cycle BY <1>1 DEF Cycle, Steps
  <2>4. OnTime([q EXCEPT !.busy = 0])
    BY <1>1, <1>2, <1>3, <2>1 DEF OnTime, Ran, Limit, Cycle, LastPick, LastAnswer
  <2> QED BY <2>2, <2>3, <2>4, MoveOnTime
<1>10. CASE Pick(c)
  <2>1. PICK r \in cycle[c].todo, to \in {"touch", "drop"} :
            Move(c, [cycle[c] EXCEPT !.pc = to, !.row = r])
    BY <1>10 DEF Pick
  <2>2. r \in Claims BY <1>1 DEF Cycle
  <2> DEFINE q == [cycle[c] EXCEPT !.pc = to, !.row = r]
  <2>3. q \in Cycle BY <1>1, <2>2 DEF Cycle, Steps
  <2>4. Ran(p) <= LastPick BY <1>2, <1>3, <1>10 DEF Pick, LastPick
  <2>5. OnTime([q EXCEPT !.busy = 0])
    BY <1>1, <1>2, <1>3, <2>4 DEF OnTime, Ran, Limit, Cycle, LastPick
  <2> QED BY <2>1, <2>3, <2>5, MoveOnTime
<1>11. ASSUME NEW to \in {"release", "resolve", "post", "record", "snapshot",
                           "disable", "audit"},
              NEW o \in Outcomes,
              Move(c, [cycle[c] EXCEPT !.pc = to, !.outcome = o]),
              \/ to = "release" /\ Ran(p) <= LastAnswer + 4 * Latency
              \/ to = "resolve" /\ Ran(p) <= LastPick + Latency
              \/ to = "post" /\ Ran(p) <= LastPick + Latency + Lookup
              \/ to = "record" /\ Ran(p) <= LastAnswer
              \/ to = "snapshot" /\ Ran(p) <= LastAnswer + Latency
              \/ to = "disable" /\ Ran(p) <= LastAnswer + 2 * Latency
              \/ to = "audit" /\ Ran(p) <= LastAnswer + 3 * Latency
       PROVE  Timely'
  <2> DEFINE q == [cycle[c] EXCEPT !.pc = to, !.outcome = o]
  <2>1. q \in Cycle BY <1>1 DEF Cycle, Steps
  <2>2. OnTime([q EXCEPT !.busy = 0])
    BY <1>1, <1>2, <1>3, <1>11 DEF OnTime, Ran, Limit, Cycle, LastPick, LastAnswer
  <2> QED BY <1>11, <2>1, <2>2, MoveOnTime
<1>12. ASSUME NEW to \in {"release", "resolve", "post", "snapshot", "disable",
                           "audit"},
              Goto(c, to),
              \/ to = "release" /\ Ran(p) <= LastAnswer + 4 * Latency
              \/ to = "resolve" /\ Ran(p) <= LastPick + Latency
              \/ to = "post" /\ Ran(p) <= LastPick + Latency + Lookup
              \/ to = "snapshot" /\ Ran(p) <= LastAnswer + Latency
              \/ to = "disable" /\ Ran(p) <= LastAnswer + 2 * Latency
              \/ to = "audit" /\ Ran(p) <= LastAnswer + 3 * Latency
       PROVE  Timely'
  <2>1. [cycle[c] EXCEPT !.pc = to]
          = [cycle[c] EXCEPT !.pc = to, !.outcome = cycle[c].outcome]
    BY <1>1 DEF Cycle
  <2>2. cycle[c].outcome \in Outcomes BY <1>1 DEF Cycle
  <2> QED BY <1>11, <1>12, <2>1, <2>2 DEF Goto
<1>13. ASSUME NextRow(c), Ran(p) <= LastAnswer + 4 * Latency PROVE Timely'
  BY <1>13, LoopOnTime DEF NextRow
<1>14. CASE GiveUp(c)
  <2>1. Ran(p) <= LastAnswer + 4 * Latency BY <1>1, <1>14 DEF GiveUp, At, OnTime
  <2> QED BY <1>12, <1>14, <2>1 DEF GiveUp
<1>15. CASE Drop(c) \/ Touch(c)
  <2>1. p.pc \in {"touch", "drop"} BY <1>15 DEF Drop, Touch, At
  <2>2. Ran(p) <= LastPick + Latency
    BY <1>1, <1>2, <1>3, <2>1 DEF OnTime, Limit, LastPick
  <2>3. Ran(p) <= LastAnswer + 4 * Latency
    BY <1>2, <1>3, <2>2 DEF LastPick, LastAnswer
  <2>4. NextRow(c) \/ Goto(c, "resolve") BY <1>15 DEF Drop, Touch, Statement
  <2> QED BY <1>12, <1>13, <2>2, <2>3, <2>4
<1>16. CASE Resolve(c)
  <2>1. p.pc = "resolve" BY <1>16 DEF Resolve, At
  <2>2. Ran(p) <= LastPick + Latency + Lookup
    BY <1>1, <1>2, <1>3, <2>1 DEF OnTime, Limit, LastPick
  <2>3. Ran(p) <= LastAnswer BY <1>2, <1>3, <2>2 DEF LastPick, LastAnswer
  <2>4. Goto(c, "post") \/ Found(c, "dead") BY <1>16 DEF Resolve
  <2> QED BY <1>11, <1>12, <2>2, <2>3, <2>4 DEF Found, Outcomes
<1>17. CASE Answer(c)
  <2>1. p.pc = "post" BY <1>17 DEF Answer, At
  <2>2. Ran(p) <= LastAnswer
    BY <1>1, <1>2, <1>3, <2>1 DEF OnTime, Limit, LastPick, LastAnswer
  <2> QED BY <1>11, <1>17, <2>2 DEF Answer, Found
<1>18. CASE Record(c) \/ Snapshot(c) \/ Disable(c) \/ Audit(c)
  <2>1. ASSUME NEW n \in {1, 2, 3, 4}, Ran(p) <= LastAnswer + n * Latency, NextRow(c)
        PROVE  Timely'
    <3>1. Ran(p) <= LastAnswer + 4 * Latency
      BY <1>2, <1>3, <2>1 DEF LastPick, LastAnswer
    <3> QED BY <1>13, <2>1, <3>1
  <2>2. CASE Record(c)
    <3>1. p.pc = "record" BY <2>2 DEF Record, At
    <3>2. Ran(p) <= LastAnswer + Latency
      BY <1>1, <1>2, <1>3, <3>1 DEF OnTime, Limit, LastPick, LastAnswer
    <3>3. Ran(p) <= LastAnswer + 1 * Latency BY <1>2, <3>2
    <3>4. NextRow(c) \/ Goto(c, "snapshot") BY <2>2 DEF Record, Statement
    <3> QED BY <1>12, <2>1, <3>2, <3>3, <3>4
  <2>3. CASE Snapshot(c)
    <3>1. p.pc = "snapshot" BY <2>3 DEF Snapshot, At
    <3>2. Ran(p) <= LastAnswer + 2 * Latency
      BY <1>1, <1>2, <1>3, <3>1 DEF OnTime, Limit, LastPick, LastAnswer
    <3> QED BY <1>12, <2>3, <3>2 DEF Snapshot
  <2>4. CASE Disable(c)
    <3>1. p.pc = "disable" BY <2>4 DEF Disable, At
    <3>2. Ran(p) <= LastAnswer + 3 * Latency
      BY <1>1, <1>2, <1>3, <3>1 DEF OnTime, Limit, LastPick, LastAnswer
    <3>3. NextRow(c) \/ Goto(c, "audit") BY <2>4 DEF Disable, Statement
    <3> QED BY <1>12, <2>1, <3>2, <3>3
  <2>5. CASE Audit(c)
    <3>1. p.pc = "audit" BY <2>5 DEF Audit, At
    <3>2. Ran(p) <= LastAnswer + 4 * Latency
      BY <1>1, <1>2, <1>3, <3>1 DEF OnTime, Limit, LastPick, LastAnswer
    <3> QED BY <2>1, <2>5, <3>2 DEF Audit
  <2> QED BY <1>18, <2>2, <2>3, <2>4, <2>5
<1>19. CASE Release(c)
  <2> DEFINE fresh == {r \in cycle[c].todo : r.attempts = 0}
             group == IF fresh # {} THEN fresh ELSE cycle[c].todo
             rest == cycle[c].todo \ group
             q == [cycle[c] EXCEPT !.todo = rest]
  <2>1. p.pc = "release" BY <1>19 DEF Release, At
  <2>2. IF rest = {} THEN Move(c, Idle) ELSE Move(c, q)
    BY <1>19 DEF Release, Statement
  <2>3. CASE rest # {} /\ Move(c, q)
    <3>1. fresh # {} /\ ~\E r \in rest : r.attempts = 0 BY <2>3
    <3>2. Ran(p) <= LastAnswer + 5 * Latency
      <4>1. \E r \in p.todo : r.attempts = 0 BY <3>1
      <4>2. Ran(p) <= LastAnswer + 4 * Latency + p.busy BY <1>1, <2>1, <4>1 DEF OnTime
      <4>3. p.busy <= Latency BY <1>1, <2>1 DEF OnTime, Limit
      <4> QED BY <1>2, <1>3, <4>2, <4>3 DEF LastPick, LastAnswer
    <3>3. rest \subseteq cycle[c].todo OBVIOUS
    <3> HIDE DEF rest
    <3>4. q \in Cycle BY <1>1, <3>3 DEF Cycle
    <3>5. OnTime([q EXCEPT !.busy = 0])
      BY <1>1, <1>2, <1>3, <2>1, <3>1, <3>2 DEF OnTime, Ran, Limit, Cycle, LastPick, LastAnswer
    <3> QED BY <2>3, <3>4, <3>5, MoveOnTime
  <2> QED BY <1>4, <2>2, <2>3, MoveOnTime
<1> QED BY <1>5, <1>6, <1>7, <1>8, <1>9, <1>10, <1>14, <1>15, <1>16, <1>17, <1>18,
        <1>19 DEF Advance

LEMMA TimelyTick ==
    ASSUME Typed, Timely, Tick
    PROVE  Timely'
<1> SUFFICES ASSUME NEW c \in Dispatchers PROVE OnTime(cycle'[c])
  BY DEF Timely
<1>1. cycle[c] \in Cycle /\ OnTime(cycle[c]) BY DEF Typed, CyclesFit, Timely
<1>2. CASE cycle[c].pc = "idle" BY <1>2, IdleOnTime DEF Tick
<1>3. CASE cycle[c].pc # "idle"
  <2> DEFINE q == [cycle[c] EXCEPT !.busy = @ + 1]
  <2>1. cycle'[c] = [q EXCEPT !.elapsed = @ + 1] BY <1>3 DEF Tick
  <2>2. /\ q \in Cycle /\ q.pc = cycle[c].pc /\ q.todo = cycle[c].todo
        /\ q.busy = cycle[c].busy + 1 /\ q.elapsed = cycle[c].elapsed
        /\ q.lag = cycle[c].lag
    BY <1>1 DEF Cycle
  <2> HIDE DEF q
  <2>3. /\ cycle'[c].pc = cycle[c].pc /\ cycle'[c].todo = cycle[c].todo
        /\ cycle'[c].busy = cycle[c].busy + 1 /\ cycle'[c].lag = cycle[c].lag
        /\ cycle'[c].elapsed = cycle[c].elapsed + 1
    BY <2>1, <2>2 DEF Cycle
  <2>4. cycle[c].busy < Limit(cycle[c].pc) BY <1>3 DEF Tick
  <2>5. /\ cycle[c].busy \in Nat /\ cycle[c].elapsed \in Nat /\ cycle[c].lag \in Nat
        /\ Limit(cycle[c].pc) \in Nat
        /\ Latency \in Nat /\ Lookup \in Nat /\ LastPick \in Int /\ LastAnswer \in Int
    <3>1. /\ Latency \in Nat /\ Lookup \in Nat /\ Timeout \in Nat /\ Budget \in Nat
      BY WebhookAssumption
    <3> QED BY <1>1, <3>1 DEF Cycle, Limit, LastPick, LastAnswer
  <2>6. cycle[c].pc # "loop" BY <2>4, <2>5 DEF Limit
  <2>7. Ran(cycle'[c]) = Ran(cycle[c]) + 1 /\ Ran(cycle[c]) \in Int
    BY <2>3, <2>5 DEF Ran
  <2>8. CASE cycle[c].pc \in {"sweep", "claim", "load", "touch", "drop"}
    BY <1>1, <2>3, <2>4, <2>5, <2>7, <2>8 DEF OnTime
  <2>9. CASE cycle[c].pc \in {"resolve", "post", "record"}
    BY <1>1, <2>3, <2>4, <2>5, <2>7, <2>9 DEF OnTime
  <2>10. CASE cycle[c].pc \in {"snapshot", "disable", "audit", "release"}
    BY <1>1, <2>3, <2>4, <2>5, <2>7, <2>10 DEF OnTime
  <2> QED BY <1>1, <1>3, <2>6, <2>8, <2>9, <2>10 DEF Cycle, Steps
<1> QED BY <1>2, <1>3

LEMMA TimelyStep == Typed /\ Timely /\ [Next]_vars => Timely'
<1> SUFFICES ASSUME Typed, Timely, [Next]_vars PROVE Timely' OBVIOUS
<1>1. CASE UNCHANGED cycle BY <1>1 DEF Timely
<1>2. CASE \/ FanOut \/ InsertDeliveries
           \/ \E h \in Hooks : TestHook(h) \/ SetActive(h) \/ DeleteHook(h)
           \/ \E d \in Ids : Retry(d)
  BY <1>1, <1>2 DEF FanOut, InsertDeliveries, TestHook, SetActive, DeleteHook, Retry, Read
<1>3. CASE UNCHANGED vars BY <1>1, <1>3 DEF vars
<1> QED BY <1>2, <1>3, TimelyAdvance, TimelyTick DEF Next

-----------------------------------------------------------------------------
(* Claims. What a cycle holds is in flight with the attempts it was claimed   *)
(* with, untouched for no longer than the cycle has run, and held once.       *)

Secure(c, r) ==
    /\ delivery[r.id].status = "in_flight"
    /\ delivery[r.id].attempts = r.attempts
    /\ delivery[r.id].age <= Ran(cycle[c])

Holding == \A c \in Dispatchers : \A r \in Claims : Owns(c, r) => Secure(c, r)

Apart ==
    \A b, c \in Dispatchers : \A r, s \in Claims :
        Owns(b, r) /\ Owns(c, s) /\ r.id = s.id => b = c

Held == Timely /\ Holding /\ Apart

LEMMA HeldInit == Init => Held
BY TimelyInit DEF Init, Held, Holding, Apart, Owns, Idle

LEMMA OwnsClaims ==
    ASSUME Typed, NEW c \in Dispatchers, NEW r, Owns(c, r)
    PROVE  r \in Claims /\ r.id \in Ids
BY DEF Typed, CyclesFit, Cycle, Claims, Owns

LEMMA HeldIsClaimsHold == Typed /\ Held => ClaimsHold
<1> SUFFICES ASSUME Typed, Held PROVE ClaimsHold OBVIOUS
<1>1. \A c \in Dispatchers : cycle[c].todo \subseteq Claims
  BY DEF Typed, CyclesFit, Cycle
<1> QED BY <1>1 DEF ClaimsHold, Held, Holding, Apart, Secure

(* A cycle that only lets go of rows, and a table that spares what is held    *)
(* before and after.                                                          *)
Shrinks(c) ==
    /\ \A b \in Dispatchers \ {c} : cycle'[b] = cycle[b]
    /\ \A r \in Claims : Owns(c, r)' =>
          /\ Owns(c, r) /\ Ran(cycle[c])' = Ran(cycle[c])
          /\ cycle'[c].elapsed = cycle[c].elapsed

Spares ==
    \A c \in Dispatchers : \A r \in Claims : Owns(c, r) /\ Owns(c, r)' =>
        /\ delivery'[r.id].status = delivery[r.id].status
        /\ delivery'[r.id].attempts = delivery[r.id].attempts
        /\ delivery'[r.id].age \in {delivery[r.id].age, 0}

LEMMA OthersOwn ==
    ASSUME NEW c \in Dispatchers, Shrinks(c)
    PROVE  \A b \in Dispatchers : \A r \in Claims : Owns(b, r)' =>
              /\ Owns(b, r) /\ Ran(cycle[b])' = Ran(cycle[b])
              /\ cycle'[b].elapsed = cycle[b].elapsed
<1> SUFFICES ASSUME NEW b \in Dispatchers, NEW r \in Claims, Owns(b, r)'
             PROVE  /\ Owns(b, r) /\ Ran(cycle[b])' = Ran(cycle[b])
                    /\ cycle'[b].elapsed = cycle[b].elapsed
  OBVIOUS
<1>1. CASE b = c BY <1>1 DEF Shrinks
<1>2. CASE b # c
  <2>1. cycle'[b] = cycle[b] BY <1>2 DEF Shrinks
  <2> QED BY <2>1 DEF Owns, Ran
<1> QED BY <1>1, <1>2

LEMMA HeldKept ==
    ASSUME Typed, Held, NEW c \in Dispatchers, Shrinks(c), Spares
    PROVE  Holding' /\ Apart'
<1>1. ASSUME NEW b \in Dispatchers, NEW r \in Claims, Owns(b, r)'
      PROVE  Secure(b, r)'
  <2>1. Owns(b, r) /\ Ran(cycle[b])' = Ran(cycle[b]) BY <1>1, OthersOwn
  <2>2. Secure(b, r) BY <2>1 DEF Held, Holding
  <2>3. 0 <= Ran(cycle[b])
    <3>1. cycle[b] \in Cycle /\ cycle[b].lag <= cycle[b].elapsed
      BY DEF Typed, CyclesFit, Held, Timely, OnTime
    <3> QED BY <3>1 DEF Ran, Cycle
  <2>4. /\ delivery'[r.id].status = delivery[r.id].status
        /\ delivery'[r.id].attempts = delivery[r.id].attempts
        /\ delivery'[r.id].age \in {delivery[r.id].age, 0}
    BY <1>1, <2>1 DEF Spares
  <2> QED BY <2>1, <2>2, <2>3, <2>4 DEF Secure
<1>2. Holding' BY <1>1 DEF Holding
<1>3. Apart' BY OthersOwn DEF Held, Apart
<1> QED BY <1>2, <1>3

LEMMA MoveShrinks ==
    ASSUME Typed, NEW c \in Dispatchers, NEW q \in Cycle, Move(c, q),
           q.todo \subseteq cycle[c].todo,
           cycle[c].pc \in Disabling =>
              \/ cycle[c].row \notin q.todo
              \/ q.pc \in Disabling /\ q.row = cycle[c].row,
           q.todo = {} \/ (q.elapsed = cycle[c].elapsed /\ q.lag = cycle[c].lag)
    PROVE  /\ Shrinks(c)
           /\ \A r \in Claims : Owns(c, r)' =>
                 r \in q.todo /\ (q.pc \in Disabling => r # q.row)
<1>1. cycle'[c] = [q EXCEPT !.busy = 0] BY DEF Move, Typed, CyclesFit
<1>2. /\ cycle'[c].todo = q.todo /\ cycle'[c].elapsed = q.elapsed
      /\ cycle'[c].lag = q.lag /\ cycle'[c].pc = q.pc /\ cycle'[c].row = q.row
  BY <1>1 DEF Cycle
<1>3. \A b \in Dispatchers \ {c} : cycle'[b] = cycle[b]
  BY DEF Move, Typed, CyclesFit
<1> QED BY <1>2, <1>3 DEF Shrinks, Owns, Ran

LEMMA GotoShrinks ==
    ASSUME Typed, NEW c \in Dispatchers, NEW step \in Steps, Goto(c, step),
           cycle[c].pc \in Disabling => step \in Disabling
    PROVE  /\ Shrinks(c)
           /\ \A r \in Claims : Owns(c, r)' =>
                 r \in cycle[c].todo /\ (step \in Disabling => r # cycle[c].row)
<1> DEFINE q == [cycle[c] EXCEPT !.pc = step]
<1>1. cycle[c] \in Cycle BY DEF Typed, CyclesFit
<1>2. /\ q \in Cycle /\ q.todo = cycle[c].todo /\ q.elapsed = cycle[c].elapsed
      /\ q.lag = cycle[c].lag /\ q.pc = step /\ q.row = cycle[c].row
  BY <1>1 DEF Cycle
<1>3. Move(c, q) BY DEF Goto
<1> HIDE DEF q
<1> QED BY <1>2, <1>3, MoveShrinks

LEMMA IdleShrinks ==
    ASSUME Typed, NEW c \in Dispatchers, Move(c, Idle)
    PROVE  Shrinks(c) /\ \A r \in Claims : ~Owns(c, r)'
<1>1. Idle \in Cycle /\ Idle.todo = {} BY IdleFits DEF CycleFits, Idle
<1> QED BY <1>1, MoveShrinks

LEMMA NextRowShrinks ==
    ASSUME Typed, NEW c \in Dispatchers, NextRow(c)
    PROVE  /\ Shrinks(c)
           /\ \A r \in Claims : Owns(c, r)' => r \in cycle[c].todo \ {cycle[c].row}
<1> DEFINE todo == cycle[c].todo \ {cycle[c].row}
           q == [cycle[c] EXCEPT !.pc = "loop", !.todo = todo, !.row = NoRow,
                                 !.outcome = "none"]
<1>1. cycle[c] \in Cycle BY DEF Typed, CyclesFit
<1>2. /\ q \in Cycle /\ q.todo = todo /\ q.elapsed = cycle[c].elapsed
      /\ q.lag = cycle[c].lag
  BY <1>1 DEF Cycle, Steps, Outcomes
<1>3. IF todo = {} THEN Move(c, Idle) ELSE Move(c, q) BY DEF NextRow, Loop
<1> HIDE DEF q
<1> QED BY <1>2, <1>3, IdleShrinks, MoveShrinks

(* A statement on one row that its cycle holds, and lets go of.               *)
LEMMA OneRowSpared ==
    ASSUME Typed, Held, NEW c \in Dispatchers, cycle[c].pc \in RowSteps,
           Owns(c, cycle[c].row),
           \A d \in Ids \ {cycle[c].row.id} : delivery'[d] = delivery[d],
           \A r \in Claims : Owns(c, r)' => r \in cycle[c].todo \ {cycle[c].row}
    PROVE  Spares
<1> SUFFICES ASSUME NEW b \in Dispatchers, NEW r \in Claims,
                    Owns(b, r), Owns(b, r)'
             PROVE  r.id # cycle[c].row.id
  BY OwnsClaims DEF Spares
<1>1. cycle[c].row \in Claims BY OwnsClaims
<1>2. CASE b = c
  <2>1. r \in cycle[c].todo /\ r # cycle[c].row /\ cycle[c].row \in cycle[c].todo
    BY <1>2 DEF Owns
  <2>2. CycleFits(cycle[c]) BY DEF Typed, CyclesFit
  <2> QED BY <2>1, <2>2 DEF CycleFits
<1>3. CASE b # c BY <1>1, <1>3 DEF Held, Apart
<1> QED BY <1>2, <1>3

LEMMA UntouchedSpared ==
    ASSUME \A d \in Ids : delivery'[d] = delivery[d]
                           \/ delivery'[d] = [delivery[d] EXCEPT !.age = 0],
           Typed
    PROVE  Spares
<1> SUFFICES ASSUME NEW c \in Dispatchers, NEW r \in Claims
             PROVE  /\ delivery'[r.id].status = delivery[r.id].status
                    /\ delivery'[r.id].attempts = delivery[r.id].attempts
                    /\ delivery'[r.id].age \in {delivery[r.id].age, 0}
  BY DEF Spares
<1>1. r.id \in Ids BY DEF Claims
<1>2. delivery[r.id] \in Delivery BY <1>1 DEF Typed, RowsFit
<1> QED BY <1>1, <1>2 DEF Delivery

LEMMA RowHeld ==
    ASSUME Typed, NEW c \in Dispatchers, cycle[c].pc \in RowSteps \ Disabling
    PROVE  Owns(c, cycle[c].row)
BY DEF Typed, CyclesFit, CycleFits, Owns, RowSteps

LEMMA HeldSweep ==
    ASSUME WindowFits, Typed, Held, NEW c \in Dispatchers, Sweep(c)
    PROVE  Holding' /\ Apart'
<1> DEFINE q == [cycle[c] EXCEPT !.pc = "claim", !.lag = cycle[c].elapsed]
<1>1. CycleFits(cycle[c]) /\ cycle[c].pc = "sweep" BY DEF Typed, CyclesFit, Sweep, At
<1>2. q \in Cycle /\ q.todo = {}
  BY <1>1 DEF CycleFits, Early, Cycle, Steps
<1>3. Move(c, q) BY DEF Sweep, Statement
<1>4. Shrinks(c)
  <2> HIDE DEF q
  <2> QED BY <1>1, <1>2, <1>3, MoveShrinks DEF Disabling
<1>5. Spares
  <2>1. ASSUME NEW b \in Dispatchers, NEW r \in Claims, Owns(b, r)
        PROVE  ~Stuck(c, delivery[r.id])
    <3>1. CycleFits(cycle[b]) /\ OnTime(cycle[b])
      BY DEF Typed, CyclesFit, Held, Timely
    <3>2. cycle[b].pc \notin {"idle", "sweep"}
      BY <2>1, <3>1 DEF Owns, CycleFits, Early
    <3>3. Ran(cycle[b]) \in Nat /\ Ran(cycle[b]) <= Window
      BY <3>1, <3>2, WithinWindow DEF CycleFits
    <3>4. delivery[r.id].age <= Ran(cycle[b])
      BY <2>1 DEF Held, Holding, Secure
    <3>5. r.id \in Ids BY DEF Claims
    <3>6. delivery[r.id].age \in Nat
      BY <3>5, Constants DEF Typed, RowsFit, Delivery
    <3>7. cycle[c].elapsed \in Nat BY <1>1 DEF CycleFits, Cycle
    <3>8. Window \in Nat BY Constants
    <3> QED BY <3>3, <3>4, <3>6, <3>7, <3>8 DEF Stuck
  <2>2. CASE UNCHANGED tables BY <2>2, UntouchedSpared DEF tables
  <2>3. CASE Recover(c)
    <3>1. \A d \in Ids : ~Stuck(c, delivery[d]) => delivery'[d] = delivery[d]
      BY <2>3 DEF Recover
    <3>2. \A r \in Claims : r.id \in Ids BY DEF Claims
    <3> QED BY <2>1, <3>1, <3>2 DEF Spares
  <2> QED BY <2>2, <2>3 DEF Sweep, Statement
<1> QED BY <1>4, <1>5, HeldKept

LEMMA HeldClaim ==
    ASSUME Typed, Held, NEW c \in Dispatchers, Claim(c)
    PROVE  Holding' /\ Apart'
<1>1. CycleFits(cycle[c]) /\ cycle[c].pc = "claim" BY DEF Typed, CyclesFit, Claim, At
<1>2. PICK S \in Batches(c) :
          \/ ClaimRows(S) /\ (\/ Move(c, Idle)
                             \/ Move(c, [cycle[c] EXCEPT !.pc = "load",
                                                         !.todo = Claimed(S)]))
          \/ UNCHANGED tables /\ Move(c, Idle)
  BY DEF Claim, Statement
<1>3. \A d \in S : d \in Ids /\ delivery[d].status \in {"pending", "failed"}
  BY DEF Batches, Due
<1>4. \A b \in Dispatchers : \A r \in Claims :
          Owns(b, r) => r.id \notin S /\ r.id \in Ids
  BY <1>3, OwnsClaims DEF Held, Holding, Secure
<1>5. Spares
  <2>1. CASE UNCHANGED tables BY <2>1, UntouchedSpared DEF tables
  <2>2. CASE ClaimRows(S) BY <1>4, <2>2 DEF ClaimRows, Spares
  <2> QED BY <1>2, <2>1, <2>2
<1>6. CASE Move(c, Idle) BY <1>5, <1>6, IdleShrinks, HeldKept
<1>7. CASE ClaimRows(S) /\ Move(c, [cycle[c] EXCEPT !.pc = "load", !.todo = Claimed(S)])
  <2>1. cycle'[c] = [[cycle[c] EXCEPT !.pc = "load", !.todo = Claimed(S)]
                        EXCEPT !.busy = 0]
        /\ \A b \in Dispatchers \ {c} : cycle'[b] = cycle[b]
    BY <1>7 DEF Move, Typed, CyclesFit
  <2>2. /\ cycle'[c].todo = Claimed(S) /\ cycle'[c].pc = "load"
        /\ cycle'[c].elapsed = cycle[c].elapsed /\ cycle'[c].lag = cycle[c].lag
    BY <1>1, <2>1 DEF CycleFits, Cycle
  <2>3. ASSUME NEW r \in Claims, Owns(c, r)'
        PROVE  /\ r.id \in S /\ r.attempts = delivery[r.id].attempts
               /\ Secure(c, r)'
    <3>1. r \in Claimed(S) BY <2>2, <2>3 DEF Owns
    <3>2. r.id \in S /\ r.attempts = delivery[r.id].attempts BY <3>1 DEF Claimed
    <3>3. r.id \in Ids BY <1>3, <3>2
    <3>4. delivery'[r.id] = [delivery[r.id] EXCEPT !.status = "in_flight", !.age = 0]
      BY <1>7, <3>2, <3>3 DEF ClaimRows
    <3>5. delivery[r.id] \in Delivery BY <3>3 DEF Typed, RowsFit
    <3>6. 0 <= Ran(cycle'[c])
      <4>1. cycle[c] \in Cycle /\ cycle[c].lag <= cycle[c].elapsed
        BY DEF Typed, CyclesFit, Held, Timely, OnTime
      <4> QED BY <2>2, <4>1 DEF Ran, Cycle
    <3> QED BY <3>2, <3>4, <3>5, <3>6 DEF Secure, Delivery
  <2>4. ASSUME NEW b \in Dispatchers \ {c}, NEW r \in Claims, Owns(b, r)'
        PROVE  Owns(b, r) /\ Secure(b, r)' /\ r.id \notin S
    <3>1. cycle'[b] = cycle[b] BY <2>1
    <3>2. Owns(b, r) BY <2>4, <3>1 DEF Owns
    <3>3. r.id \notin S /\ r.id \in Ids BY <1>4, <3>2
    <3>4. delivery'[r.id] = delivery[r.id] BY <1>7, <3>3 DEF ClaimRows
    <3>5. Secure(b, r) BY <3>2 DEF Held, Holding
    <3> QED BY <3>1, <3>2, <3>3, <3>4, <3>5 DEF Secure, Ran
  <2>5. Holding' BY <2>3, <2>4 DEF Holding
  <2>6. Apart'
    <3> SUFFICES ASSUME NEW a \in Dispatchers, NEW b \in Dispatchers,
                        NEW r \in Claims, NEW s \in Claims,
                        Owns(a, r)', Owns(b, s)', r.id = s.id
                 PROVE  a = b
      BY DEF Apart
    <3>1. CASE a = c /\ b # c BY <2>3, <2>4, <3>1
    <3>2. CASE a # c /\ b = c BY <2>3, <2>4, <3>2
    <3>3. CASE a # c /\ b # c BY <2>4, <3>3 DEF Held, Apart
    <3> QED BY <3>1, <3>2, <3>3
  <2> QED BY <2>5, <2>6
<1> QED BY <1>2, <1>6, <1>7

LEMMA FoundShrinks ==
    ASSUME Typed, NEW c \in Dispatchers, NEW o \in Outcomes, Found(c, o),
           cycle[c].pc \notin Disabling
    PROVE  Shrinks(c)
<1> DEFINE q == [cycle[c] EXCEPT !.pc = "record", !.outcome = o]
<1>1. cycle[c] \in Cycle BY DEF Typed, CyclesFit
<1>2. /\ q \in Cycle /\ q.todo = cycle[c].todo /\ q.elapsed = cycle[c].elapsed
      /\ q.lag = cycle[c].lag
  BY <1>1 DEF Cycle, Steps
<1>3. Move(c, q) BY DEF Found
<1> HIDE DEF q
<1> QED BY <1>2, <1>3, MoveShrinks

LEMMA HeldQuietly ==
    ASSUME Typed, Held, NEW c \in Dispatchers,
           \/ Start(c) \/ LoadWebhooks(c) \/ Pick(c) \/ GiveUp(c) \/ Resolve(c)
           \/ Answer(c) \/ Crash(c)
    PROVE  Shrinks(c) /\ Holding' /\ Apart'
<1>1. cycle[c] \in Cycle /\ CycleFits(cycle[c]) BY DEF Typed, CyclesFit
<1>2. UNCHANGED delivery
  BY DEF Start, LoadWebhooks, Pick, GiveUp, Resolve, Answer, Crash, tables
<1>3. Spares BY <1>2, UntouchedSpared
<1>4. Shrinks(c)
  <2>1. CASE Start(c)
    <3>1. [Idle EXCEPT !.pc = "sweep"] \in Cycle /\ [Idle EXCEPT !.pc = "sweep"].todo = {}
      BY IdleFits DEF CycleFits, Idle, Cycle, Steps
    <3>2. cycle[c].pc = "idle" BY <2>1 DEF Start, At
    <3> QED BY <2>1, <3>1, <3>2, MoveShrinks DEF Start, Disabling
  <2>2. CASE LoadWebhooks(c)
    <3> DEFINE q == [cycle[c] EXCEPT !.pc = "loop",
                       !.known = {h \in Hooks : hook[h] # "deleted"}]
    <3>1. /\ q \in Cycle /\ q.todo = cycle[c].todo /\ q.elapsed = cycle[c].elapsed
          /\ q.lag = cycle[c].lag
      BY <1>1 DEF Cycle, Steps
    <3>2. Move(c, q) \/ Goto(c, "loop") BY <2>2 DEF LoadWebhooks
    <3>3. cycle[c].pc = "load" BY <2>2 DEF LoadWebhooks, At
    <3> HIDE DEF q
    <3> QED BY <3>1, <3>2, <3>3, MoveShrinks, GotoShrinks DEF Steps, Disabling
  <2>3. CASE Pick(c)
    <3>1. PICK r \in cycle[c].todo, to \in {"touch", "drop"} :
              Move(c, [cycle[c] EXCEPT !.pc = to, !.row = r])
      BY <2>3 DEF Pick
    <3> DEFINE q == [cycle[c] EXCEPT !.pc = to, !.row = r]
    <3>2. /\ q \in Cycle /\ q.todo = cycle[c].todo /\ q.elapsed = cycle[c].elapsed
          /\ q.lag = cycle[c].lag
      BY <1>1 DEF Cycle, Steps
    <3>3. cycle[c].pc = "loop" BY <2>3 DEF Pick, At
    <3>4. Move(c, q) BY <3>1
    <3> HIDE DEF q
    <3> QED BY <3>2, <3>3, <3>4, MoveShrinks DEF Disabling
  <2>4. CASE GiveUp(c) BY <2>4, GotoShrinks DEF GiveUp, At, Steps, Disabling
  <2>5. CASE Resolve(c) \/ Answer(c)
    <3>1. cycle[c].pc \notin Disabling
      BY <2>5 DEF Resolve, Answer, At, Disabling
    <3>2. Goto(c, "post") \/ \E o \in Outcomes : Found(c, o)
      BY <2>5 DEF Resolve, Answer, Outcomes
    <3> QED BY <3>1, <3>2, GotoShrinks, FoundShrinks DEF Steps
  <2>6. CASE Crash(c)
    <3>1. cycle'[c] = Idle /\ \A b \in Dispatchers \ {c} : cycle'[b] = cycle[b]
      BY <2>6 DEF Crash, Typed, CyclesFit
    <3> QED BY <3>1 DEF Shrinks, Owns, Idle
  <2> QED BY <2>1, <2>2, <2>3, <2>4, <2>5, <2>6
<1> QED BY <1>3, <1>4, HeldKept

LEMMA HeldDrop ==
    ASSUME Typed, Held, NEW c \in Dispatchers, Drop(c)
    PROVE  Holding' /\ Apart'
<1>1. cycle[c].pc = "drop" /\ NextRow(c) BY DEF Drop, At, Statement
<1>2. \A d \in Ids \ {cycle[c].row.id} : delivery'[d] = delivery[d]
  BY DEF Drop, Statement, tables, Typed, RowsFit
<1>3. Owns(c, cycle[c].row) BY <1>1, RowHeld DEF RowSteps, Disabling
<1>4. Spares BY <1>1, <1>2, <1>3, NextRowShrinks, OneRowSpared DEF RowSteps
<1> QED BY <1>1, <1>4, NextRowShrinks, HeldKept

LEMMA HeldTouch ==
    ASSUME Typed, Held, NEW c \in Dispatchers, Touch(c)
    PROVE  Holding' /\ Apart'
<1>1. cycle[c].pc = "touch" BY DEF Touch, At
<1>2. \A d \in Ids : delivery'[d] = delivery[d]
                     \/ delivery'[d] = [delivery[d] EXCEPT !.age = 0]
  BY DEF Touch, Typed, RowsFit
<1>3. Spares BY <1>2, UntouchedSpared
<1>4. Goto(c, "resolve") \/ NextRow(c) BY DEF Touch
<1>5. Shrinks(c) BY <1>1, <1>4, GotoShrinks, NextRowShrinks DEF Steps, Disabling
<1> QED BY <1>3, <1>5, HeldKept

LEMMA HeldRecord ==
    ASSUME Typed, Held, NEW c \in Dispatchers, Record(c)
    PROVE  Holding' /\ Apart'
<1>1. cycle[c].pc = "record" BY DEF Record, At
<1>2. Goto(c, "snapshot") \/ NextRow(c) BY DEF Record, Statement
<1>3. Shrinks(c) BY <1>1, <1>2, GotoShrinks, NextRowShrinks DEF Steps, Disabling
<1>4. \A r \in Claims : Owns(c, r)' => r \in cycle[c].todo \ {cycle[c].row}
  BY <1>1, <1>2, GotoShrinks, NextRowShrinks DEF Steps, Disabling
<1>5. \A d \in Ids \ {cycle[c].row.id} : delivery'[d] = delivery[d]
  BY DEF Record, Statement, tables, Typed, RowsFit
<1>6. Owns(c, cycle[c].row) BY <1>1, RowHeld DEF RowSteps, Disabling
<1>7. Spares BY <1>1, <1>4, <1>5, <1>6, OneRowSpared DEF RowSteps
<1> QED BY <1>3, <1>7, HeldKept

LEMMA DisablingShrinks ==
    ASSUME Typed, Held, NEW c \in Dispatchers, Snapshot(c) \/ Disable(c) \/ Audit(c)
    PROVE  Shrinks(c)
<1>1. \/ cycle[c].pc = "snapshot" /\ Goto(c, "disable")
      \/ cycle[c].pc = "disable" /\ Goto(c, "audit")
      \/ NextRow(c)
  BY DEF Snapshot, Disable, Audit, At, Statement
<1> QED BY <1>1, GotoShrinks, NextRowShrinks DEF Steps, Disabling

LEMMA HeldDisable ==
    ASSUME Typed, Held, NEW c \in Dispatchers, Snapshot(c) \/ Disable(c) \/ Audit(c)
    PROVE  Holding' /\ Apart'
<1>1. UNCHANGED delivery BY DEF Snapshot, Disable, Audit, Statement, tables
<1> QED BY <1>1, DisablingShrinks, UntouchedSpared, HeldKept

(* The rows one of the two statements of a release concerns.                  *)
Fresh(c) == {r \in cycle[c].todo : r.attempts = 0}
Group(c) == IF Fresh(c) # {} THEN Fresh(c) ELSE cycle[c].todo

LEMMA ReleaseEffect ==
    ASSUME Typed, NEW c \in Dispatchers, Release(c)
    PROVE  /\ Shrinks(c)
           /\ \A r \in Claims : Owns(c, r)' => r \in cycle[c].todo \ Group(c)
           /\ \A r \in Group(c) : Owns(c, r) /\ r \in Claims
           /\ \A d \in Ids :
                 \/ delivery'[d] = delivery[d]
                 \/ \E r \in Group(c) :
                       /\ r.id = d /\ delivery[d].status = "in_flight"
                       /\ delivery'[d] = Released(c, delivery[d], r.attempts)
<1> DEFINE rest == cycle[c].todo \ Group(c)
           q == [cycle[c] EXCEPT !.todo = rest]
<1>1. cycle[c] \in Cycle /\ cycle[c].pc = "release"
  BY DEF Typed, CyclesFit, Release, At
<1>2. /\ q \in Cycle /\ q.todo = rest /\ q.elapsed = cycle[c].elapsed
      /\ q.lag = cycle[c].lag
  BY <1>1 DEF Cycle
<1>3. IF rest = {} THEN Move(c, Idle) ELSE Move(c, q)
  BY DEF Release, Statement, Group, Fresh
<1>4. /\ Shrinks(c)
      /\ \A r \in Claims : Owns(c, r)' => r \in rest
  <2> HIDE DEF q
  <2> QED BY <1>1, <1>2, <1>3, IdleShrinks, MoveShrinks DEF Disabling
<1>5. \A r \in Group(c) : Owns(c, r) /\ r \in Claims
  BY <1>1 DEF Group, Fresh, Owns, Cycle, Disabling
<1>6. \A d \in Ids :
          \/ delivery'[d] = delivery[d]
          \/ \E r \in Group(c) :
                /\ r.id = d /\ delivery[d].status = "in_flight"
                /\ delivery'[d] = Released(c, delivery[d], r.attempts)
  <2>1. CASE UNCHANGED tables BY <2>1 DEF tables
  <2>2. CASE delivery' = [d \in Ids |->
                IF delivery[d].status = "in_flight" /\ \E r \in Group(c) : r.id = d
                THEN Released(c, delivery[d],
                              (CHOOSE r \in Group(c) : r.id = d).attempts)
                ELSE delivery[d]]
    <3> SUFFICES ASSUME NEW d \in Ids, delivery[d].status = "in_flight",
                        \E r \in Group(c) : r.id = d
                 PROVE  \E r \in Group(c) :
                          /\ r.id = d
                          /\ delivery'[d] = Released(c, delivery[d], r.attempts)
      BY <2>2
    <3> DEFINE r == CHOOSE r \in Group(c) : r.id = d
    <3>1. r \in Group(c) /\ r.id = d OBVIOUS
    <3>2. delivery'[d] = Released(c, delivery[d], r.attempts) BY <2>2
    <3> QED BY <3>1, <3>2
  <2> QED BY <2>1, <2>2 DEF Release, Statement, Group, Fresh
<1> QED BY <1>4, <1>5, <1>6

LEMMA HeldRelease ==
    ASSUME Typed, Held, NEW c \in Dispatchers, Release(c)
    PROVE  Holding' /\ Apart'
<1>1. ASSUME NEW b \in Dispatchers, NEW r \in Claims, Owns(b, r), Owns(b, r)'
      PROVE  delivery'[r.id] = delivery[r.id]
  <2>1. r.id \in Ids BY DEF Claims
  <2>2. SUFFICES ASSUME NEW s \in Group(c), s.id = r.id PROVE FALSE
    BY <2>1, ReleaseEffect
  <2>3. Owns(c, s) /\ s \in Claims BY ReleaseEffect
  <2>4. b = c BY <1>1, <2>2, <2>3 DEF Held, Apart
  <2>5. r \in cycle[c].todo \ Group(c) BY <1>1, <2>4, ReleaseEffect
  <2>6. CycleFits(cycle[c]) /\ s \in cycle[c].todo
    BY DEF Typed, CyclesFit, Group, Fresh
  <2> QED BY <2>2, <2>5, <2>6 DEF CycleFits
<1>2. Spares BY <1>1 DEF Spares
<1> QED BY <1>2, ReleaseEffect, HeldKept

LEMMA HeldOthers ==
    ASSUME Typed, Held,
           \/ FanOut \/ InsertDeliveries \/ UNCHANGED vars
           \/ \E h \in Hooks : TestHook(h) \/ SetActive(h) \/ DeleteHook(h)
           \/ \E d \in Ids : Retry(d)
    PROVE  Holding' /\ Apart'
<1>1. UNCHANGED cycle
  BY DEF FanOut, InsertDeliveries, vars, TestHook, SetActive, DeleteHook, Retry, Read
<1>2. ASSUME NEW c \in Dispatchers, NEW r \in Claims, Owns(c, r)
      PROVE  /\ delivery'[r.id].status = delivery[r.id].status
             /\ delivery'[r.id].attempts = delivery[r.id].attempts
             /\ delivery'[r.id].age \in {delivery[r.id].age, 0}
  <2>1. /\ r.id \in Ids /\ delivery[r.id] \in Delivery
        /\ delivery[r.id].status = "in_flight"
    BY <1>2 DEF Claims, Typed, RowsFit, Held, Holding, Secure
  <2>2. CASE InsertDeliveries
    <3>1. CASE UNCHANGED delivery BY <3>1
    <3>2. ASSUME NEW new \in Injection(emit, Free),
                 delivery' = [d \in Ids |->
                  IF \E h \in emit : new[h] = d
                  THEN [NoDelivery EXCEPT !.status = "pending", !.wait = 0,
                          !.hook = CHOOSE h \in emit : new[h] = d]
                  ELSE delivery[d]]
          PROVE  delivery'[r.id] = delivery[r.id]
      <4>1. r.id \notin Free BY <2>1 DEF Free, Present
      <4>2. new \in [emit -> Free] BY <3>2 DEF Injection
      <4> QED BY <2>1, <3>2, <4>1, <4>2
    <3> QED BY <2>2, <3>1, <3>2 DEF InsertDeliveries
  <2>3. ASSUME NEW h \in Hooks, DeleteHook(h)
        PROVE  delivery'[r.id] = delivery[r.id]
               \/ delivery'[r.id] = [delivery[r.id] EXCEPT !.hook = NoHook, !.age = 0]
    BY <2>1, <2>3 DEF DeleteHook
  <2>4. CASE UNCHANGED delivery BY <2>4
  <2>5. CASE \/ FanOut \/ UNCHANGED vars
             \/ \E h \in Hooks : TestHook(h) \/ SetActive(h)
             \/ \E d \in Ids : Retry(d)
    BY <2>4, <2>5 DEF FanOut, vars, TestHook, SetActive, Retry, Read, tables
  <2> QED BY <2>1, <2>2, <2>3, <2>5 DEF Delivery
<1>3. CASE Dispatchers = {} BY <1>3 DEF Holding, Apart
<1>4. CASE Dispatchers # {}
  <2>1. PICK c \in Dispatchers : TRUE BY <1>4
  <2>2. Shrinks(c) /\ Spares BY <1>1, <1>2 DEF Shrinks, Owns, Ran, Spares
  <2> QED BY <2>2, HeldKept
<1> QED BY <1>3, <1>4

LEMMA HeldTick ==
    ASSUME Typed, Held, Tick
    PROVE  Holding' /\ Apart'
<1>1. ASSUME NEW c \in Dispatchers, NEW r \in Claims
      PROVE  /\ Owns(c, r)' <=> Owns(c, r)
             /\ Owns(c, r) => Ran(cycle[c])' = Ran(cycle[c]) + 1
  <2>1. CycleFits(cycle[c]) BY DEF Typed, CyclesFit
  <2>2. CASE cycle[c].pc = "idle"
    <3>1. cycle[c].todo = {} BY <2>1, <2>2 DEF CycleFits, Early
    <3>2. cycle'[c] = Idle BY <2>2 DEF Tick
    <3> QED BY <3>1, <3>2 DEF Owns, Idle
  <2>3. CASE cycle[c].pc # "idle"
    <3> DEFINE q == [cycle[c] EXCEPT !.busy = @ + 1]
    <3>1. cycle'[c] = [q EXCEPT !.elapsed = @ + 1] BY <2>3 DEF Tick
    <3>2. q \in Cycle /\ q.todo = cycle[c].todo /\ q.pc = cycle[c].pc
          /\ q.row = cycle[c].row /\ q.elapsed = cycle[c].elapsed
          /\ q.lag = cycle[c].lag
      BY <2>1 DEF CycleFits, Cycle
    <3> HIDE DEF q
    <3> QED BY <3>1, <3>2 DEF Owns, Ran, Cycle
  <2> QED BY <2>2, <2>3
<1>2. ASSUME NEW c \in Dispatchers, NEW r \in Claims, Owns(c, r)
      PROVE  Secure(c, r)'
  <2>1. r.id \in Ids /\ delivery[r.id] \in Delivery BY DEF Claims, Typed, RowsFit
  <2>2. Secure(c, r) BY <1>2 DEF Held, Holding
  <2> DEFINE q == [delivery[r.id] EXCEPT !.wait = IF @ > Stale THEN @ - 1 ELSE Stale]
  <2>3. delivery'[r.id] = [q EXCEPT !.age = IF delivery[r.id].status = "in_flight"
                                           THEN Older(@, MaxAge) ELSE @]
    BY <2>1 DEF Tick
  <2>4. /\ q.status = delivery[r.id].status /\ q.attempts = delivery[r.id].attempts
        /\ q.age = delivery[r.id].age
        /\ DOMAIN q = {"status", "attempts", "hook", "wait", "age"}
    BY <2>1 DEF Delivery
  <2> HIDE DEF q
  <2>5. /\ delivery'[r.id].status = delivery[r.id].status
        /\ delivery'[r.id].attempts = delivery[r.id].attempts
        /\ delivery'[r.id].age = IF delivery[r.id].status = "in_flight"
                                 THEN Older(delivery[r.id].age, MaxAge)
                                 ELSE delivery[r.id].age
    BY <2>3, <2>4
  <2>6. delivery[r.id].age \in Nat /\ MaxAge \in Nat BY <2>1, Constants DEF Delivery
  <2>7. delivery'[r.id].age <= delivery[r.id].age + 1 /\ delivery'[r.id].age \in Nat
    BY <2>5, <2>6 DEF Older
  <2>8. Ran(cycle[c]) \in Int BY DEF Typed, CyclesFit, Cycle, Ran
  <2> QED BY <1>1, <1>2, <2>2, <2>5, <2>6, <2>7, <2>8 DEF Secure
<1>3. Holding' BY <1>1, <1>2 DEF Holding
<1>4. Apart' BY <1>1 DEF Held, Apart
<1> QED BY <1>3, <1>4

LEMMA HeldStep ==
    ASSUME WindowFits
    PROVE  Typed /\ Held /\ [Next]_vars => Held'
<1> SUFFICES ASSUME Typed, Held, [Next]_vars PROVE Held' OBVIOUS
<1>1. Timely' BY TimelyStep DEF Held
<1>2. ASSUME NEW c \in Dispatchers, Start(c) \/ Advance(c) \/ Crash(c)
      PROVE  Holding' /\ Apart'
  BY <1>2, HeldSweep, HeldClaim, HeldQuietly, HeldDrop, HeldTouch, HeldRecord,
     HeldDisable, HeldRelease DEF Advance
<1>3. Holding' /\ Apart' BY <1>2, HeldOthers, HeldTick DEF Next
<1> QED BY <1>1, <1>3 DEF Held

LEMMA HeldAlways ==
    ASSUME WindowFits
    PROVE  Spec => []Held
<1>1. Typed /\ Held /\ [Next]_vars => Held' BY HeldStep
<1> QED BY <1>1, TypedAlways, HeldInit, PTL DEF Spec

(* Where the sweep's window has room for what a cycle may still wait for, the *)
(* resolution of a name included, no cycle that is alive loses a row it has   *)
(* claimed, and no two cycles hold the same row. The code does not see to the *)
(* premise: nothing in it limits that resolution.                             *)
THEOREM LiveClaimsHold ==
    ASSUME WindowFits
    PROVE  Spec => []ClaimsHold
<1>1. Spec => []Held BY HeldAlways
<1> QED BY <1>1, HeldIsClaimsHold, TypedAlways, PTL

-----------------------------------------------------------------------------
(* Attempts. Every POST is paid for: before it goes out the row has been      *)
(* posted no more often than it was charged, and afterwards once more, until  *)
(* the outcome or a sweep charges it.                                         *)

RowCounted(r, n) ==
    /\ r.status = "absent" => n = 0
    /\ r.status \in {"pending", "failed"} => n <= r.attempts
    /\ r.status = "in_flight" => n <= r.attempts + 1
    /\ r.status \in Final => n <= MaxAttempts
    /\ r.status = "pending" => r.attempts = 0
    /\ r.status = "failed" => r.attempts > 0

RowsCounted == \A d \in Ids : RowCounted(delivery[d], post[d].count)

Tried(c, r) == cycle[c].pc \in {"post", "record"} /\ r = cycle[c].row

UntriedPaid ==
    \A c \in Dispatchers : \A r \in Claims :
        Owns(c, r) /\ ~Tried(c, r) => post[r.id].count <= r.attempts

Counted == RowsCounted /\ UntriedPaid

LEMMA CountedInit == Init => Counted
BY DEF Init, Counted, RowsCounted, RowCounted, UntriedPaid, NoDelivery, Owns, Idle, Final

LEMMA CountedCaps ==
    ASSUME Typed, Counted
    PROVE  AttemptsCapped /\ FailedWasCharged
<1> SUFFICES ASSUME NEW d \in Ids
             PROVE  /\ post[d].count <= MaxAttempts
                    /\ delivery[d].status \in {"pending", "failed"}
                          => post[d].count <= delivery[d].attempts
                    /\ delivery[d].status = "pending" => delivery[d].attempts = 0
                    /\ delivery[d].status = "failed" => delivery[d].attempts > 0
  BY DEF AttemptsCapped, FailedWasCharged
<1>1. /\ RowCounted(delivery[d], post[d].count)
      /\ RowFits(delivery[d]) /\ post[d].count \in Nat
  BY DEF Counted, RowsCounted, Typed, RowsFit, PostsFit
<1>2. MaxAttempts \in Nat BY WebhookAssumption
<1> QED BY <1>1, <1>2 DEF RowCounted, RowFits, Delivery, Statuses, Chargeable, Final

SameCounts == \A d \in Ids : post'[d].count = post[d].count

LEMMA UntriedKept ==
    ASSUME Counted, SameCounts, NEW c \in Dispatchers, Shrinks(c),
           \A r \in Claims : Owns(c, r)' /\ Tried(c, r) => Tried(c, r)'
    PROVE  UntriedPaid'
<1> SUFFICES ASSUME NEW b \in Dispatchers, NEW r \in Claims,
                    Owns(b, r)', ~Tried(b, r)'
             PROVE  post'[r.id].count <= r.attempts
  BY DEF UntriedPaid
<1>1. Owns(b, r) BY OthersOwn
<1>2. ~Tried(b, r)
  <2>1. CASE b = c BY <2>1
  <2>2. CASE b # c
    <3>1. cycle'[b] = cycle[b] BY <2>2 DEF Shrinks
    <3> QED BY <3>1 DEF Tried
  <2> QED BY <2>1, <2>2
<1>3. r.id \in Ids BY DEF Claims
<1> QED BY <1>1, <1>2, <1>3 DEF Counted, UntriedPaid, SameCounts

LEMMA CountsSame == ASSUME UNCHANGED post PROVE SameCounts
BY DEF SameCounts

(* The fields the account is about.                                           *)
LEMMA RowsKept ==
    ASSUME Typed, Counted, SameCounts,
           \A d \in Ids : /\ delivery'[d].status = delivery[d].status
                         /\ delivery'[d].attempts = delivery[d].attempts
    PROVE  RowsCounted'
BY DEF Counted, RowsCounted, RowCounted, SameCounts

LEMMA HeldRowCounted ==
    ASSUME Typed, Held, Counted, NEW c \in Dispatchers, NEW r, Owns(c, r)
    PROVE  /\ r \in Claims /\ r.id \in Ids
           /\ delivery[r.id] \in Delivery /\ delivery[r.id].status = "in_flight"
           /\ delivery[r.id].attempts = r.attempts
           /\ r.attempts \in Nat /\ r.attempts < MaxAttempts /\ MaxAttempts \in Nat
           /\ post[r.id].count \in Nat
           /\ post[r.id].count <= r.attempts + 1
           /\ ~Tried(c, r) => post[r.id].count <= r.attempts
<1>1. r \in Claims /\ r.id \in Ids BY OwnsClaims
<1>2. Secure(c, r) BY <1>1 DEF Held, Holding
<1>3. RowFits(delivery[r.id]) /\ post[r.id].count \in Nat
  BY <1>1 DEF Typed, RowsFit, PostsFit
<1>4. r.attempts \in Nat /\ MaxAttempts \in Nat BY <1>1, WebhookAssumption DEF Claims
<1> QED BY <1>1, <1>2, <1>3, <1>4
     DEF Secure, RowFits, Chargeable, Counted, RowsCounted, RowCounted, UntriedPaid

LEMMA CountedSweep ==
    ASSUME Typed, Held, Counted, NEW c \in Dispatchers, Sweep(c)
    PROVE  Counted'
<1> DEFINE q == [cycle[c] EXCEPT !.pc = "claim", !.lag = cycle[c].elapsed]
<1>1. CycleFits(cycle[c]) /\ cycle[c].pc = "sweep" BY DEF Typed, CyclesFit, Sweep, At
<1>2. q \in Cycle /\ q.todo = {}
  BY <1>1 DEF CycleFits, Early, Cycle, Steps
<1>3. Move(c, q) BY DEF Sweep, Statement
<1>4. SameCounts BY CountsSame DEF Sweep
<1>5. Shrinks(c)
  <2> HIDE DEF q
  <2> QED BY <1>1, <1>2, <1>3, MoveShrinks DEF Disabling
<1>6. UntriedPaid' BY <1>1, <1>4, <1>5, UntriedKept DEF Tried
<1>7. RowsCounted'
  <2>1. CASE UNCHANGED tables BY <1>4, <2>1, RowsKept DEF tables
  <2>2. CASE Recover(c)
    <3> SUFFICES ASSUME NEW d \in Ids
                 PROVE  RowCounted(delivery'[d], post[d].count)
      BY <1>4 DEF RowsCounted, SameCounts
    <3>1. RowCounted(delivery[d], post[d].count) /\ RowFits(delivery[d])
      BY DEF Counted, RowsCounted, Typed, RowsFit
    <3>2. CASE ~Stuck(c, delivery[d]) BY <2>2, <3>1, <3>2 DEF Recover
    <3>3. CASE Stuck(c, delivery[d])
      <4>1. delivery'[d] = Recovered(c, delivery[d]) BY <2>2, <3>3 DEF Recover
      <4>2. delivery[d].status = "in_flight" BY <3>3 DEF Stuck
      <4>3. /\ delivery[d].attempts \in Nat /\ delivery[d].attempts < MaxAttempts
            /\ MaxAttempts \in Nat /\ post[d].count \in Nat
            /\ post[d].count <= delivery[d].attempts + 1
        BY <3>1, <4>2, WebhookAssumption
           DEF RowFits, Delivery, Chargeable, RowCounted, Typed, PostsFit
      <4>4. /\ delivery'[d].status \in {"dead", "failed"}
            /\ delivery'[d].attempts = delivery[d].attempts + 1
        BY <3>1, <4>1 DEF Recovered, RowFits, Delivery
      <4> QED BY <4>3, <4>4 DEF RowCounted, Final
    <3> QED BY <3>2, <3>3
  <2> QED BY <2>1, <2>2 DEF Sweep, Statement
<1> QED BY <1>6, <1>7 DEF Counted

LEMMA CountedClaim ==
    ASSUME Typed, Held, Counted, NEW c \in Dispatchers, Claim(c)
    PROVE  Counted'
<1>1. CycleFits(cycle[c]) /\ cycle[c].pc = "claim" BY DEF Typed, CyclesFit, Claim, At
<1>2. PICK S \in Batches(c) :
          \/ ClaimRows(S) /\ (\/ Move(c, Idle)
                             \/ Move(c, [cycle[c] EXCEPT !.pc = "load",
                                                         !.todo = Claimed(S)]))
          \/ UNCHANGED tables /\ Move(c, Idle)
  BY DEF Claim, Statement
<1>3. \A d \in S : d \in Ids /\ delivery[d].status \in {"pending", "failed"}
  BY DEF Batches, Due
<1>4. UNCHANGED post /\ SameCounts BY CountsSame DEF Claim
<1>5. RowsCounted'
  <2>1. CASE UNCHANGED tables BY <1>4, <2>1, RowsKept DEF tables
  <2>2. CASE ClaimRows(S)
    <3> SUFFICES ASSUME NEW d \in Ids
                 PROVE  RowCounted(delivery'[d], post[d].count)
      BY <1>4 DEF RowsCounted
    <3>1. /\ RowCounted(delivery[d], post[d].count) /\ delivery[d] \in Delivery
          /\ delivery[d].attempts \in Nat /\ post[d].count \in Nat
      BY WebhookAssumption
         DEF Counted, RowsCounted, Typed, RowsFit, PostsFit, Delivery
    <3>2. CASE d \notin S BY <2>2, <3>1, <3>2 DEF ClaimRows
    <3>3. CASE d \in S
      <4>1. delivery'[d] = [delivery[d] EXCEPT !.status = "in_flight", !.age = 0]
        BY <2>2, <3>3 DEF ClaimRows
      <4> QED BY <1>3, <3>1, <3>3, <4>1 DEF RowCounted, Delivery, Final
    <3> QED BY <3>2, <3>3
  <2> QED BY <1>2, <2>1, <2>2
<1>6. UntriedPaid'
  <2>1. CASE Move(c, Idle) BY <1>1, <1>4, <2>1, IdleShrinks, UntriedKept
  <2>2. CASE ClaimRows(S) /\ Move(c, [cycle[c] EXCEPT !.pc = "load", !.todo = Claimed(S)])
    <3> SUFFICES ASSUME NEW b \in Dispatchers, NEW r \in Claims,
                        Owns(b, r)', ~Tried(b, r)'
                 PROVE  post[r.id].count <= r.attempts
      BY <1>4 DEF UntriedPaid
    <3>1. cycle'[c] = [[cycle[c] EXCEPT !.pc = "load", !.todo = Claimed(S)]
                          EXCEPT !.busy = 0]
          /\ \A a \in Dispatchers \ {c} : cycle'[a] = cycle[a]
      BY <2>2 DEF Move, Typed, CyclesFit
    <3>2. CASE b = c
      <4>1. cycle'[c].todo = Claimed(S) BY <1>1, <3>1 DEF CycleFits, Cycle
      <4>2. r.id \in S /\ r.attempts = delivery[r.id].attempts
        BY <3>2, <4>1 DEF Owns, Claimed
      <4> QED BY <1>3, <4>2 DEF Counted, RowsCounted, RowCounted
    <3>3. CASE b # c
      <4>1. cycle'[b] = cycle[b] BY <3>1, <3>3
      <4> QED BY <4>1 DEF Owns, Tried, Counted, UntriedPaid
    <3> QED BY <3>2, <3>3
  <2> QED BY <1>2, <2>1, <2>2
<1> QED BY <1>5, <1>6 DEF Counted

LEMMA CountedQuietly ==
    ASSUME Typed, Held, Counted, NEW c \in Dispatchers,
           \/ Start(c) \/ LoadWebhooks(c) \/ Pick(c) \/ GiveUp(c) \/ Crash(c)
           \/ Snapshot(c) \/ Disable(c) \/ Audit(c),
           Shrinks(c)
    PROVE  Counted'
<1>1. UNCHANGED <<delivery, post>>
  BY DEF Start, LoadWebhooks, Pick, GiveUp, Snapshot, Disable, Audit, Statement,
     Crash, tables
<1>2. SameCounts BY <1>1, CountsSame
<1>3. \A r \in Claims : Owns(c, r)' /\ Tried(c, r) => Tried(c, r)'
  <2>1. CASE cycle[c].pc \notin {"post", "record"} BY <2>1 DEF Tried
  <2>2. CASE Crash(c)
    <3>1. cycle'[c] = Idle BY <2>2 DEF Crash, Typed, CyclesFit
    <3> QED BY <3>1 DEF Owns, Idle
  <2> QED BY <2>1, <2>2
       DEF Start, LoadWebhooks, Pick, GiveUp, Snapshot, Disable, Audit, At
<1>4. UntriedPaid' BY <1>2, <1>3, UntriedKept
<1>5. RowsCounted' BY <1>1, <1>2, RowsKept
<1> QED BY <1>4, <1>5 DEF Counted

LEMMA FoundResult ==
    ASSUME Typed, NEW c \in Dispatchers, NEW o \in Outcomes, Found(c, o)
    PROVE  /\ cycle'[c] \in Cycle
           /\ cycle'[c].pc = "record" /\ cycle'[c].outcome = o
           /\ cycle'[c].row = cycle[c].row /\ cycle'[c].todo = cycle[c].todo
           /\ cycle'[c].known = cycle[c].known
           /\ cycle'[c].elapsed = cycle[c].elapsed /\ cycle'[c].lag = cycle[c].lag
           /\ \A b \in Dispatchers \ {c} : cycle'[b] = cycle[b]
<1> DEFINE q == [cycle[c] EXCEPT !.pc = "record", !.outcome = o]
<1>1. cycle[c] \in Cycle BY DEF Typed, CyclesFit
<1>2. /\ q \in Cycle /\ q.pc = "record" /\ q.outcome = o
      /\ q.row = cycle[c].row /\ q.todo = cycle[c].todo
      /\ q.known = cycle[c].known
      /\ q.elapsed = cycle[c].elapsed /\ q.lag = cycle[c].lag
  BY <1>1 DEF Cycle, Steps
<1>3. Move(c, q) BY DEF Found
<1> HIDE DEF q
<1>4. /\ cycle'[c] = [q EXCEPT !.busy = 0]
      /\ \A b \in Dispatchers \ {c} : cycle'[b] = cycle[b]
  BY <1>3 DEF Move, Typed, CyclesFit
<1> QED BY <1>2, <1>4 DEF Cycle

(* An attempt that is over without a POST, or with its answer.                *)
LEMMA CountedFound ==
    ASSUME Typed, Held, Counted, NEW c \in Dispatchers, NEW o \in Outcomes,
           Found(c, o), SameCounts, UNCHANGED delivery, Shrinks(c)
    PROVE  Counted'
<1>1. cycle'[c].pc = "record" /\ cycle'[c].row = cycle[c].row BY FoundResult
<1>2. UntriedPaid' BY <1>1, UntriedKept DEF Tried
<1>3. RowsCounted' BY RowsKept
<1> QED BY <1>2, <1>3 DEF Counted

LEMMA CountedAnswer ==
    ASSUME Typed, Held, Counted, NEW c \in Dispatchers, Answer(c), Shrinks(c)
    PROVE  Counted'
<1>1. PICK o \in Outcomes :
          /\ Found(c, o)
          /\ post' = [post EXCEPT ![cycle[c].row.id].verdict =
                          IF o = "dead" THEN "dead" ELSE "none"]
  BY DEF Answer
<1>2. SameCounts BY <1>1 DEF SameCounts, Typed, PostsFit
<1>3. UNCHANGED delivery BY DEF Answer, tables
<1> QED BY <1>1, <1>2, <1>3, CountedFound

(* A row that gets an outcome, beside rows that stay as they are.             *)
LEMMA OneRowCounted ==
    ASSUME Counted, SameCounts, NEW d \in Ids,
           \A e \in Ids \ {d} : delivery'[e] = delivery[e],
           delivery'[d] = delivery[d] \/ RowCounted(delivery'[d], post[d].count)
    PROVE  RowsCounted'
<1> SUFFICES ASSUME NEW e \in Ids PROVE RowCounted(delivery'[e], post[e].count)
  BY DEF RowsCounted, SameCounts, RowCounted
<1> QED BY DEF Counted, RowsCounted

LEMMA CountedDrop ==
    ASSUME Typed, Held, Counted, NEW c \in Dispatchers, Drop(c)
    PROVE  Counted'
<1> DEFINE r == cycle[c].row
<1>1. cycle[c].pc = "drop" /\ NextRow(c) BY DEF Drop, At, Statement
<1>2. Owns(c, r) /\ ~Tried(c, r) BY <1>1, RowHeld DEF RowSteps, Tried, Disabling
<1>3. SameCounts BY CountsSame DEF Drop
<1>4. UntriedPaid' BY <1>1, <1>3, NextRowShrinks, UntriedKept DEF Tried
<1>5. /\ delivery[r.id] \in Delivery /\ r.id \in Ids
      /\ post[r.id].count \in Nat /\ MaxAttempts \in Nat
      /\ post[r.id].count <= MaxAttempts
  BY <1>2, HeldRowCounted
<1>6. \A e \in Ids \ {r.id} : delivery'[e] = delivery[e]
  BY DEF Drop, Statement, tables, Typed, RowsFit
<1>7. \/ delivery'[r.id] = delivery[r.id]
      \/ delivery'[r.id] = [[delivery[r.id] EXCEPT !.status = "dead"] EXCEPT !.age = 0]
  BY <1>5 DEF Drop, Statement, tables, Typed, RowsFit
<1>8. delivery'[r.id] = delivery[r.id] \/ RowCounted(delivery'[r.id], post[r.id].count)
  BY <1>5, <1>7 DEF RowCounted, Delivery, Final
<1> QED BY <1>3, <1>4, <1>5, <1>6, <1>8, OneRowCounted DEF Counted

LEMMA CountedTouch ==
    ASSUME Typed, Held, Counted, NEW c \in Dispatchers, Touch(c)
    PROVE  Counted'
<1>1. cycle[c].pc = "touch" BY DEF Touch, At
<1>2. SameCounts BY CountsSame DEF Touch
<1>3. Goto(c, "resolve") \/ NextRow(c) BY DEF Touch
<1>4. Shrinks(c) BY <1>1, <1>3, GotoShrinks, NextRowShrinks DEF Steps, Disabling
<1>5. UntriedPaid' BY <1>1, <1>2, <1>4, UntriedKept DEF Tried
<1>6. \A d \in Ids : /\ delivery'[d].status = delivery[d].status
                    /\ delivery'[d].attempts = delivery[d].attempts
  BY DEF Touch, Typed, RowsFit, Delivery
<1>7. RowsCounted' BY <1>2, <1>6, RowsKept
<1> QED BY <1>5, <1>7 DEF Counted

(* What a POST that goes out leaves in the history.                           *)
Posted(d) ==
    post' = [post EXCEPT ![d] = [count |-> @.count + 1, since |-> 0,
                                 verdict |-> "none"]]

LEMMA CountedPost ==
    ASSUME Typed, Held, Counted, NEW c \in Dispatchers, Resolve(c),
           Goto(c, "post"), Posted(cycle[c].row.id)
    PROVE  Counted'
<1> DEFINE r == cycle[c].row
<1>1. cycle[c].pc = "resolve" BY DEF Resolve, At
<1>2. Owns(c, r) /\ ~Tried(c, r) BY <1>1, RowHeld DEF RowSteps, Tried, Disabling
<1>3. /\ r \in Claims /\ r.id \in Ids /\ delivery[r.id].status = "in_flight"
      /\ delivery[r.id].attempts = r.attempts /\ r.attempts \in Nat
      /\ post[r.id].count \in Nat /\ post[r.id].count <= r.attempts
  BY <1>2, HeldRowCounted
<1>4. Goto(c, "post") OBVIOUS
<1>5. /\ \A d \in Ids \ {r.id} : post'[d] = post[d]
      /\ post'[r.id].count = post[r.id].count + 1
  BY <1>3 DEF Typed, PostsFit, Posted
<1>6. UNCHANGED delivery BY DEF Resolve, tables
<1>7. RowsCounted'
  <2> SUFFICES ASSUME NEW d \in Ids PROVE RowCounted(delivery'[d], post'[d].count)
    BY DEF RowsCounted
  <2>1. RowCounted(delivery[d], post[d].count) BY DEF Counted, RowsCounted
  <2>2. CASE d # r.id BY <1>5, <1>6, <2>1, <2>2 DEF RowCounted
  <2>3. CASE d = r.id
    BY <1>3, <1>5, <1>6, <2>3 DEF RowCounted, Final
  <2> QED BY <2>2, <2>3
<1>8. UntriedPaid'
  <2> SUFFICES ASSUME NEW b \in Dispatchers, NEW s \in Claims,
                      Owns(b, s)', ~Tried(b, s)'
               PROVE  post'[s.id].count <= s.attempts
    BY DEF UntriedPaid
  <2>1. Owns(b, s) /\ s.id \in Ids BY <1>1, <1>4, GotoShrinks, OthersOwn DEF Claims, Steps, Disabling
  <2>2. CycleFits(cycle[c]) /\ cycle[c] \in Cycle BY DEF Typed, CyclesFit
  <2>3. /\ cycle'[c] = [[cycle[c] EXCEPT !.pc = "post"] EXCEPT !.busy = 0]
        /\ \A a \in Dispatchers \ {c} : cycle'[a] = cycle[a]
    BY <1>4 DEF Goto, Move, Typed, CyclesFit
  <2>4. ~Tried(b, s) /\ s.id # r.id
    <3>1. CASE b = c
      <4>1. cycle'[c].pc = "post" /\ cycle'[c].row = r BY <2>2, <2>3 DEF Cycle
      <4>2. s # r BY <3>1, <4>1 DEF Tried
      <4>3. s \in cycle[c].todo /\ r \in cycle[c].todo BY <1>2, <2>1, <3>1 DEF Owns
      <4> QED BY <1>1, <2>2, <3>1, <4>2, <4>3 DEF CycleFits, Tried
    <3>2. CASE b # c
      <4>1. cycle'[b] = cycle[b] BY <2>3, <3>2
      <4>2. s.id # r.id BY <1>2, <1>3, <2>1, <3>2 DEF Held, Apart
      <4> QED BY <4>1, <4>2 DEF Tried
    <3> QED BY <3>1, <3>2
  <2> QED BY <1>5, <2>1, <2>4 DEF Counted, UntriedPaid
<1> QED BY <1>7, <1>8 DEF Counted

LEMMA CountedResolve ==
    ASSUME Typed, Held, Counted, NEW c \in Dispatchers, Resolve(c), Shrinks(c)
    PROVE  Counted'
<1>1. CASE Goto(c, "post") /\ Posted(cycle[c].row.id) BY <1>1, CountedPost
<1>2. ASSUME Found(c, "dead"), NEW v,
             post' = [post EXCEPT ![cycle[c].row.id].verdict = v]
      PROVE  Counted'
  <2>1. SameCounts BY <1>2 DEF SameCounts, Typed, PostsFit
  <2>2. UNCHANGED delivery /\ "dead" \in Outcomes BY DEF Resolve, tables, Outcomes
  <2> QED BY <1>2, <2>1, <2>2, CountedFound
<1> QED BY <1>1, <1>2 DEF Resolve, Posted

LEMMA CountedRecord ==
    ASSUME Typed, Held, Counted, NEW c \in Dispatchers, Record(c)
    PROVE  Counted'
<1> DEFINE r == cycle[c].row
           o == cycle[c].outcome
<1>1. cycle[c].pc = "record" BY DEF Record, At
<1>2. Owns(c, r) BY <1>1, RowHeld DEF RowSteps, Disabling
<1>3. Goto(c, "snapshot") \/ NextRow(c) BY DEF Record, Statement
<1>4. SameCounts BY CountsSame DEF Record
<1>5. /\ Shrinks(c)
      /\ \A s \in Claims : Owns(c, s)' => s \in cycle[c].todo \ {r}
  BY <1>1, <1>3, GotoShrinks, NextRowShrinks DEF Steps, Disabling
<1>6. UntriedPaid' BY <1>4, <1>5, UntriedKept DEF Tried
<1>7. /\ delivery[r.id] \in Delivery /\ r.id \in Ids
      /\ r.attempts \in Nat /\ r.attempts < MaxAttempts /\ MaxAttempts \in Nat
      /\ post[r.id].count \in Nat /\ post[r.id].count <= r.attempts + 1
  BY <1>2, HeldRowCounted
<1>8. \A e \in Ids \ {r.id} : delivery'[e] = delivery[e]
  BY DEF Record, Statement, tables, Typed, RowsFit
<1>9. delivery'[r.id] = delivery[r.id]
      \/ delivery'[r.id] = Result(c, delivery[r.id], o)
  BY <1>7 DEF Record, Statement, tables, Typed, RowsFit
<1>10. /\ Result(c, delivery[r.id], o).attempts = r.attempts + 1
       /\ Result(c, delivery[r.id], o).status \in {"delivered", "dead", "failed"}
  BY <1>7 DEF Result, Delivery
<1>11. RowCounted(Result(c, delivery[r.id], o), post[r.id].count)
  BY <1>7, <1>10 DEF RowCounted, Final
<1>12. RowsCounted' BY <1>4, <1>7, <1>8, <1>9, <1>11, OneRowCounted
<1> QED BY <1>6, <1>12 DEF Counted

LEMMA CountedRelease ==
    ASSUME Typed, Held, Counted, NEW c \in Dispatchers, Release(c)
    PROVE  Counted'
<1>1. cycle[c].pc = "release" BY DEF Release, At
<1>2. SameCounts BY CountsSame DEF Release
<1>3. UntriedPaid' BY <1>1, <1>2, ReleaseEffect, UntriedKept DEF Tried
<1>4. RowsCounted'
  <2> SUFFICES ASSUME NEW d \in Ids PROVE RowCounted(delivery'[d], post[d].count)
    BY <1>2 DEF RowsCounted, SameCounts
  <2>1. CASE delivery'[d] = delivery[d] BY <2>1 DEF Counted, RowsCounted
  <2>2. ASSUME NEW r \in Group(c), r.id = d,
               delivery'[d] = Released(c, delivery[d], r.attempts)
        PROVE  RowCounted(delivery'[d], post[d].count)
    <3>1. Owns(c, r) /\ ~Tried(c, r) BY <1>1, ReleaseEffect DEF Tried
    <3>2. /\ delivery[d] \in Delivery /\ delivery[d].attempts = r.attempts
          /\ r.attempts \in Nat /\ post[d].count <= r.attempts
      BY <2>2, <3>1, HeldRowCounted
    <3>3. /\ delivery'[d].attempts = r.attempts
          /\ delivery'[d].status = IF r.attempts = 0 THEN "pending" ELSE "failed"
      BY <2>2, <3>2 DEF Released, Delivery
    <3> QED BY <3>2, <3>3 DEF RowCounted, Final
  <2> QED BY <2>1, <2>2, ReleaseEffect
<1> QED BY <1>3, <1>4 DEF Counted

LEMMA CountedOthers ==
    ASSUME Typed, Held, Counted,
           \/ FanOut \/ InsertDeliveries \/ UNCHANGED vars
           \/ \E h \in Hooks : TestHook(h) \/ SetActive(h) \/ DeleteHook(h)
           \/ \E d \in Ids : Retry(d)
    PROVE  Counted'
<1>1. UNCHANGED <<cycle, post>>
  BY DEF FanOut, InsertDeliveries, vars, TestHook, SetActive, DeleteHook, Retry, Read
<1>2. UntriedPaid' BY <1>1 DEF Counted, UntriedPaid, Owns, Tried
<1>3. SameCounts BY <1>1, CountsSame
<1>4. RowsCounted'
  <2>1. CASE UNCHANGED delivery BY <1>3, <2>1, RowsKept
  <2>2. CASE InsertDeliveries
    <3>1. ASSUME NEW new \in Injection(emit, Free),
                 delivery' = [d \in Ids |->
                  IF \E h \in emit : new[h] = d
                  THEN [NoDelivery EXCEPT !.status = "pending", !.wait = 0,
                          !.hook = CHOOSE h \in emit : new[h] = d]
                  ELSE delivery[d]]
          PROVE  RowsCounted'
      <4> SUFFICES ASSUME NEW d \in Ids PROVE RowCounted(delivery'[d], post[d].count)
        BY <1>1 DEF RowsCounted
      <4>1. RowCounted(delivery[d], post[d].count) BY DEF Counted, RowsCounted
      <4>2. CASE \E h \in emit : new[h] = d
        <5>1. new \in [emit -> Free] BY DEF Injection
        <5>2. d \in Free BY <4>2, <5>1
        <5>3. post[d].count = 0 BY <4>1, <5>2 DEF Free, Present, RowCounted
        <5>4. delivery'[d].status = "pending" /\ delivery'[d].attempts = 0
          BY <3>1, <4>2 DEF NoDelivery
        <5> QED BY <5>3, <5>4 DEF RowCounted, Final
      <4>3. CASE ~\E h \in emit : new[h] = d BY <3>1, <4>1, <4>3
      <4> QED BY <4>2, <4>3
    <3> QED BY <2>1, <2>2, <3>1 DEF InsertDeliveries
  <2>3. ASSUME NEW h \in Hooks, DeleteHook(h) PROVE RowsCounted'
    <3>1. \A d \in Ids : /\ delivery'[d].status = delivery[d].status
                        /\ delivery'[d].attempts = delivery[d].attempts
      BY <2>3 DEF DeleteHook, Typed, RowsFit, Delivery
    <3> QED BY <1>3, <3>1, RowsKept
  <2> QED BY <2>1, <2>2, <2>3
       DEF FanOut, vars, TestHook, SetActive, Retry, Read, tables
<1> QED BY <1>2, <1>4 DEF Counted

LEMMA CountedTick ==
    ASSUME Typed, Held, Counted, Tick
    PROVE  Counted'
<1>1. SameCounts
  BY DEF Tick, SameCounts, Typed, PostsFit
<1>2. \A d \in Ids : /\ delivery'[d].status = delivery[d].status
                    /\ delivery'[d].attempts = delivery[d].attempts
  <2> SUFFICES ASSUME NEW d \in Ids
               PROVE  /\ delivery'[d].status = delivery[d].status
                      /\ delivery'[d].attempts = delivery[d].attempts
    OBVIOUS
  <2> DEFINE q == [delivery[d] EXCEPT !.wait = IF @ > Stale THEN @ - 1 ELSE Stale]
  <2>1. delivery'[d] = [q EXCEPT !.age = IF delivery[d].status = "in_flight"
                                        THEN Older(@, MaxAge) ELSE @]
    BY DEF Tick
  <2>2. /\ q.status = delivery[d].status /\ q.attempts = delivery[d].attempts
        /\ DOMAIN q = {"status", "attempts", "hook", "wait", "age"}
    BY DEF Typed, RowsFit, Delivery
  <2> HIDE DEF q
  <2> QED BY <2>1, <2>2
<1>3. RowsCounted' BY <1>1, <1>2, RowsKept
<1>4. \A c \in Dispatchers : \A r \in Claims :
          Owns(c, r)' => Owns(c, r) /\ (Tried(c, r) => Tried(c, r)')
  <2> SUFFICES ASSUME NEW c \in Dispatchers
               PROVE  \A r \in Claims : Owns(c, r)' =>
                         Owns(c, r) /\ (Tried(c, r) => Tried(c, r)')
    OBVIOUS
  <2>1. cycle[c] \in Cycle BY DEF Typed, CyclesFit
  <2>2. CASE cycle[c].pc = "idle"
    <3>1. cycle'[c] = Idle BY <2>2 DEF Tick
    <3> QED BY <3>1 DEF Owns, Idle
  <2>3. CASE cycle[c].pc # "idle"
    <3> DEFINE q == [cycle[c] EXCEPT !.busy = @ + 1]
    <3>1. cycle'[c] = [q EXCEPT !.elapsed = @ + 1] BY <2>3 DEF Tick
    <3>2. q \in Cycle /\ q.todo = cycle[c].todo /\ q.pc = cycle[c].pc
          /\ q.row = cycle[c].row
      BY <2>1 DEF Cycle
    <3> HIDE DEF q
    <3> QED BY <3>1, <3>2 DEF Owns, Tried, Cycle
  <2> QED BY <2>2, <2>3
<1>5. \A r \in Claims : r.id \in Ids BY DEF Claims
<1>6. UntriedPaid' BY <1>1, <1>4, <1>5 DEF Counted, UntriedPaid, SameCounts
<1> QED BY <1>3, <1>6 DEF Counted

LEMMA CountedStep == Typed /\ Held /\ Counted /\ [Next]_vars => Counted'
<1> SUFFICES ASSUME Typed, Held, Counted, [Next]_vars PROVE Counted' OBVIOUS
<1>1. ASSUME NEW c \in Dispatchers, Start(c) \/ Advance(c) \/ Crash(c)
      PROVE  Counted'
  <2>1. CASE \/ Start(c) \/ LoadWebhooks(c) \/ Pick(c) \/ GiveUp(c) \/ Crash(c)
    BY <2>1, HeldQuietly, CountedQuietly
  <2>2. CASE Resolve(c) \/ Answer(c)
    BY <2>2, HeldQuietly, CountedResolve, CountedAnswer
  <2>3. CASE Snapshot(c) \/ Disable(c) \/ Audit(c)
    BY <2>3, DisablingShrinks, CountedQuietly
  <2> QED BY <1>1, <2>1, <2>2, <2>3, CountedSweep, CountedClaim, CountedDrop,
          CountedTouch, CountedRecord, CountedRelease DEF Advance
<1> QED BY <1>1, CountedOthers, CountedTick DEF Next

LEMMA CountedAlways ==
    ASSUME WindowFits
    PROVE  Spec => []Counted
<1>1. Typed /\ Held /\ Counted /\ [Next]_vars => Counted' BY CountedStep
<1>2. Spec => []Held BY HeldAlways
<1> QED BY <1>1, <1>2, TypedAlways, CountedInit, PTL DEF Spec

(* Where the window fits, MAX_ATTEMPTS is a cap on POSTs and not on recorded  *)
(* outcomes, whatever crashes, lost replies and errors come between a POST and*)
(* its outcome.                                                               *)
THEOREM PostsCapped ==
    ASSUME WindowFits
    PROVE  Spec => []AttemptsCapped
<1>1. Typed /\ Counted => AttemptsCapped BY CountedCaps
<1>2. Spec => []Counted BY CountedAlways
<1> QED BY <1>1, <1>2, TypedAlways, PTL

(* Where the window fits, the status of a delivery that waits says whether an *)
(* attempt was charged to it: none while it is pending, at least one once it  *)
(* is failed. A cycle whose budget is used up rebuilds that status from the   *)
(* attempts it read when it claimed the row.                                  *)
THEOREM FailedMeansCharged ==
    ASSUME WindowFits
    PROVE  Spec => []FailedWasCharged
<1>1. Typed /\ Counted => FailedWasCharged BY CountedCaps
<1>2. Spec => []Counted BY CountedAlways
<1> QED BY <1>1, <1>2, TypedAlways, PTL

-----------------------------------------------------------------------------
(* Causes of death. A cycle drops a delivery because its lookup did not find  *)
(* the webhook; when lookups do not fail, it is gone, and so is the           *)
(* delivery's reference to it.                                                *)

Gone(h) == hook[h] = "deleted"

CauseOf(d) ==
    \/ delivery[d].attempts = MaxAttempts
    \/ post[d].verdict # "none"
    \/ delivery[d].hook = NoHook

DeadCaused == \A d \in Ids : delivery[d].status = "dead" => CauseOf(d)

HooksStand ==
    \A d \in Ids : delivery[d].hook \in Hooks => ~Gone(delivery[d].hook)

Looking == {"idle", "sweep", "claim", "load"}

KnownFits(q) ==
    /\ q.pc \notin Looking => \A h \in Hooks \ q.known : Gone(h)
    /\ q.pc = "drop" => q.row.hook \notin q.known
    /\ q.pc = "record" /\ q.outcome = "dead" => post[q.row.id].verdict # "none"

Known == \A c \in Dispatchers : KnownFits(cycle[c])

Addressed ==
    \A c \in Dispatchers : \A r \in Claims :
        Owns(c, r) => delivery[r.id].hook \in {r.hook, NoHook}

Caused == DeadCaused /\ HooksStand /\ Known /\ Addressed

LEMMA CausedInit == Init => Caused
<1> SUFFICES ASSUME Init PROVE Caused OBVIOUS
<1>1. DeadCaused /\ HooksStand
  BY WebhookAssumption DEF Init, DeadCaused, HooksStand, Gone, NoDelivery
<1>2. Known BY DEF Init, Known, KnownFits, Looking, Idle
<1>3. Addressed BY DEF Init, Addressed, Owns, Idle
<1> QED BY <1>1, <1>2, <1>3 DEF Caused

LEMMA CausedIsForCause == Caused => DeadForCause
BY DEF Caused, DeadCaused, CauseOf, DeadForCause

(* Hooks that are gone stay so, and no verdict changes.                       *)
HooksStay == \A h \in Hooks : Gone(h)' <=> Gone(h)
PostsStay == \A d \in Ids : post'[d].verdict = post[d].verdict

(* A cycle that goes from one position to another with what it knows.         *)
LEMMA KnownMoves ==
    ASSUME Typed, Caused, NEW c \in Dispatchers, HooksStay, PostsStay,
           \A b \in Dispatchers \ {c} : cycle'[b] = cycle[b],
           \/ cycle'[c].pc \in Looking
           \/ /\ cycle'[c].known = cycle[c].known
              /\ cycle[c].pc \notin Looking
              /\ cycle'[c].pc \notin {"drop", "record"}
    PROVE  Known'
<1> SUFFICES ASSUME NEW b \in Dispatchers PROVE KnownFits(cycle[b])'
  BY DEF Known
<1>1. KnownFits(cycle[b]) /\ CycleFits(cycle[b]) BY DEF Caused, Known, Typed, CyclesFit
<1>2. CASE b # c
  <2>1. cycle'[b] = cycle[b] BY <1>2
  <2>2. cycle[b].pc = "record" => cycle[b].row.id \in Ids
    BY <1>1 DEF CycleFits, RowSteps, Cycle, Claims
  <2> QED BY <1>1, <2>1, <2>2 DEF KnownFits, HooksStay, PostsStay
<1>3. CASE b = c
  BY <1>1, <1>3 DEF KnownFits, HooksStay, Looking
<1> QED BY <1>2, <1>3

LEMMA AddressedKept ==
    ASSUME Typed, Caused, NEW c \in Dispatchers, Shrinks(c),
           \A d \in Ids : delivery'[d].hook = delivery[d].hook
    PROVE  Addressed'
<1> SUFFICES ASSUME NEW b \in Dispatchers, NEW r \in Claims, Owns(b, r)'
             PROVE  delivery'[r.id].hook \in {r.hook, NoHook}
  BY DEF Addressed
<1>1. Owns(b, r) /\ r.id \in Ids BY OthersOwn DEF Claims
<1> QED BY <1>1 DEF Caused, Addressed

LEMMA StandKept ==
    ASSUME Caused, HooksStay, \A d \in Ids : delivery'[d].hook = delivery[d].hook
    PROVE  HooksStand'
BY DEF Caused, HooksStand, HooksStay, Gone

LEMMA DeadKept ==
    ASSUME Caused, PostsStay,
           \A d \in Ids : \/ delivery'[d].status # "dead"
                         \/ /\ delivery'[d].status = delivery[d].status
                            /\ delivery'[d].attempts = delivery[d].attempts
                            /\ delivery'[d].hook = delivery[d].hook
                         \/ CauseOf(d)'
    PROVE  DeadCaused'
BY DEF Caused, DeadCaused, CauseOf, PostsStay

(* What a move does to the cycle's position and knowledge.                    *)
LEMMA MoveResult ==
    ASSUME Typed, NEW c \in Dispatchers, NEW q \in Cycle, Move(c, q)
    PROVE  /\ cycle'[c].pc = q.pc /\ cycle'[c].known = q.known
           /\ cycle'[c].row = q.row /\ cycle'[c].outcome = q.outcome
           /\ \A b \in Dispatchers \ {c} : cycle'[b] = cycle[b]
<1>1. cycle'[c] = [q EXCEPT !.busy = 0] BY DEF Move, Typed, CyclesFit
<1>2. \A b \in Dispatchers \ {c} : cycle'[b] = cycle[b] BY DEF Move, Typed, CyclesFit
<1> QED BY <1>1, <1>2 DEF Cycle

LEMMA GotoResult ==
    ASSUME Typed, NEW c \in Dispatchers, NEW step \in Steps, Goto(c, step)
    PROVE  /\ cycle'[c].pc = step /\ cycle'[c].known = cycle[c].known
           /\ cycle'[c].row = cycle[c].row
           /\ \A b \in Dispatchers \ {c} : cycle'[b] = cycle[b]
<1> DEFINE q == [cycle[c] EXCEPT !.pc = step]
<1>1. cycle[c] \in Cycle BY DEF Typed, CyclesFit
<1>2. q \in Cycle /\ q.known = cycle[c].known /\ q.row = cycle[c].row /\ q.pc = step
  BY <1>1 DEF Cycle
<1>3. Move(c, q) BY DEF Goto
<1> HIDE DEF q
<1> QED BY <1>2, <1>3, MoveResult

LEMMA IdleResult ==
    ASSUME Typed, NEW c \in Dispatchers, Move(c, Idle)
    PROVE  /\ cycle'[c].pc = "idle"
           /\ \A b \in Dispatchers \ {c} : cycle'[b] = cycle[b]
<1>1. Idle \in Cycle /\ Idle.pc = "idle" BY IdleFits DEF CycleFits, Idle
<1> QED BY <1>1, MoveResult

LEMMA NextRowResult ==
    ASSUME Typed, NEW c \in Dispatchers, NextRow(c)
    PROVE  /\ \/ cycle'[c].pc = "idle"
              \/ cycle'[c].pc = "loop" /\ cycle'[c].known = cycle[c].known
           /\ \A b \in Dispatchers \ {c} : cycle'[b] = cycle[b]
<1> DEFINE todo == cycle[c].todo \ {cycle[c].row}
           q == [cycle[c] EXCEPT !.pc = "loop", !.todo = todo, !.row = NoRow,
                                 !.outcome = "none"]
<1>1. cycle[c] \in Cycle BY DEF Typed, CyclesFit
<1>2. q \in Cycle /\ q.pc = "loop" /\ q.known = cycle[c].known
  BY <1>1 DEF Cycle, Steps, Outcomes
<1>3. IF todo = {} THEN Move(c, Idle) ELSE Move(c, q) BY DEF NextRow, Loop
<1> HIDE DEF q
<1> QED BY <1>2, <1>3, IdleResult, MoveResult

LEMMA HooksQuiet == ASSUME UNCHANGED hook PROVE HooksStay
BY DEF HooksStay, Gone

LEMMA PostsQuiet == ASSUME UNCHANGED post PROVE PostsStay
BY DEF PostsStay

LEMMA CausedQuietly ==
    ASSUME Typed, Held, Caused, "error" \notin Faults, NEW c \in Dispatchers,
           Start(c) \/ LoadWebhooks(c) \/ Pick(c) \/ GiveUp(c) \/ Crash(c)
    PROVE  Caused'
<1>1. UNCHANGED <<delivery, hook, post>>
  BY DEF Start, LoadWebhooks, Pick, GiveUp, Crash, tables
<1>2. HooksStay /\ PostsStay BY <1>1, HooksQuiet, PostsQuiet
<1>3. DeadCaused' /\ HooksStand' BY <1>1, <1>2, DeadKept, StandKept
<1>4. Addressed' BY <1>1, HeldQuietly, AddressedKept
<1>5. cycle[c] \in Cycle BY DEF Typed, CyclesFit
<1>6. Known'
  <2>1. CASE Start(c)
    <3>1. [Idle EXCEPT !.pc = "sweep"] \in Cycle /\ [Idle EXCEPT !.pc = "sweep"].pc = "sweep"
      BY IdleFits DEF CycleFits, Idle, Cycle, Steps
    <3> QED BY <1>2, <2>1, <3>1, MoveResult, KnownMoves DEF Start, Looking
  <2>2. CASE LoadWebhooks(c)
    <3> DEFINE q == [cycle[c] EXCEPT !.pc = "loop",
                       !.known = {h \in Hooks : hook[h] # "deleted"}]
    <3>1. /\ q \in Cycle /\ q.pc = "loop"
          /\ q.known = {h \in Hooks : hook[h] # "deleted"}
      BY <1>5 DEF Cycle, Steps
    <3>2. Move(c, q) BY <2>2 DEF LoadWebhooks
    <3> HIDE DEF q
    <3>3. /\ cycle'[c].pc = "loop"
          /\ cycle'[c].known = {h \in Hooks : hook[h] # "deleted"}
          /\ \A b \in Dispatchers \ {c} : cycle'[b] = cycle[b]
      BY <3>1, <3>2, MoveResult
    <3> SUFFICES ASSUME NEW b \in Dispatchers PROVE KnownFits(cycle[b])'
      BY DEF Known
    <3>4. CASE b = c BY <1>1, <3>3, <3>4 DEF KnownFits, Gone
    <3>5. CASE b # c
      <4>1. cycle'[b] = cycle[b] /\ KnownFits(cycle[b])
        BY <3>3, <3>5 DEF Caused, Known
      <4> QED BY <1>1, <4>1 DEF KnownFits, Gone
    <3> QED BY <3>4, <3>5
  <2>3. CASE Pick(c)
    <3>1. PICK r \in cycle[c].todo :
              Move(c, [cycle[c] EXCEPT
                         !.pc = IF r.hook \in cycle[c].known THEN "touch" ELSE "drop",
                         !.row = r])
      BY <2>3 DEF Pick
    <3> DEFINE q == [cycle[c] EXCEPT
                         !.pc = IF r.hook \in cycle[c].known THEN "touch" ELSE "drop",
                         !.row = r]
    <3>2. /\ q \in Cycle /\ q.known = cycle[c].known /\ q.row = r
          /\ q.pc \in {"touch", "drop"}
          /\ q.pc = "drop" => r.hook \notin cycle[c].known
      BY <1>5 DEF Cycle, Steps
    <3>3. Move(c, q) BY <3>1
    <3> HIDE DEF q
    <3>4. /\ cycle'[c].pc \in {"touch", "drop"}
          /\ cycle'[c].known = cycle[c].known
          /\ cycle'[c].pc = "drop" => cycle'[c].row.hook \notin cycle'[c].known
          /\ \A b \in Dispatchers \ {c} : cycle'[b] = cycle[b]
      BY <3>2, <3>3, MoveResult
    <3>5. cycle[c].pc = "loop" BY <2>3 DEF Pick, At
    <3> SUFFICES ASSUME NEW b \in Dispatchers PROVE KnownFits(cycle[b])'
      BY DEF Known
    <3>6. KnownFits(cycle[b]) BY DEF Caused, Known
    <3>7. CASE b = c BY <1>1, <3>4, <3>5, <3>6, <3>7 DEF KnownFits, Gone, Looking
    <3>8. CASE b # c
      <4>1. cycle'[b] = cycle[b] BY <3>4, <3>8
      <4> QED BY <1>1, <3>6, <4>1 DEF KnownFits, Gone
    <3> QED BY <3>7, <3>8
  <2>4. CASE GiveUp(c)
    <3>1. cycle[c].pc = "loop" /\ Goto(c, "release") BY <2>4 DEF GiveUp, At
    <3> QED BY <1>2, <3>1, GotoResult, KnownMoves DEF Looking, Steps
  <2>5. CASE Crash(c)
    <3>1. cycle'[c].pc = "idle" /\ \A b \in Dispatchers \ {c} : cycle'[b] = cycle[b]
      BY <2>5 DEF Crash, Typed, CyclesFit, Idle
    <3> QED BY <1>2, <3>1, KnownMoves DEF Looking, Disabling
  <2> QED BY <2>1, <2>2, <2>3, <2>4, <2>5
<1> QED BY <1>3, <1>4, <1>6 DEF Caused

LEMMA CausedSweep ==
    ASSUME Typed, Held, Caused, NEW c \in Dispatchers, Sweep(c)
    PROVE  Caused'
<1> DEFINE q == [cycle[c] EXCEPT !.pc = "claim", !.lag = cycle[c].elapsed]
<1>1. CycleFits(cycle[c]) /\ cycle[c].pc = "sweep" BY DEF Typed, CyclesFit, Sweep, At
<1>2. q \in Cycle /\ q.todo = {} /\ q.pc = "claim"
  BY <1>1 DEF CycleFits, Early, Cycle, Steps
<1>3. Move(c, q) BY DEF Sweep, Statement
<1>4. UNCHANGED <<hook, post>> BY DEF Sweep, Statement, Recover, tables
<1>5. HooksStay /\ PostsStay BY <1>4, HooksQuiet, PostsQuiet
<1>6. Known' /\ Shrinks(c)
  <2> HIDE DEF q
  <2> QED BY <1>1, <1>2, <1>3, <1>5, MoveShrinks, MoveResult, KnownMoves DEF Looking, Disabling
<1>7. \A d \in Ids : \/ delivery'[d] = delivery[d]
                     \/ /\ delivery'[d].hook = delivery[d].hook
                        /\ delivery'[d].status = "dead"
                              => delivery'[d].attempts = MaxAttempts
  <2>1. CASE UNCHANGED tables BY <2>1 DEF tables
  <2>2. CASE Recover(c)
    <3> SUFFICES ASSUME NEW d \in Ids, Stuck(c, delivery[d])
                 PROVE  /\ delivery'[d].hook = delivery[d].hook
                        /\ delivery'[d].status = "dead"
                              => delivery'[d].attempts = MaxAttempts
      BY <2>2 DEF Recover
    <3>1. delivery'[d] = Recovered(c, delivery[d]) BY <2>2 DEF Recover
    <3>2. /\ delivery[d] \in Delivery /\ delivery[d].attempts \in Nat
          /\ delivery[d].attempts < MaxAttempts /\ MaxAttempts \in Nat
      BY WebhookAssumption DEF Stuck, Typed, RowsFit, RowFits, Delivery, Chargeable
    <3> QED BY <3>1, <3>2 DEF Recovered, Delivery
  <2> QED BY <2>1, <2>2 DEF Sweep, Statement
<1>8. DeadCaused' BY <1>5, <1>7, DeadKept DEF CauseOf
<1>9. HooksStand' BY <1>5, <1>7, StandKept
<1>10. Addressed' BY <1>6, <1>7, AddressedKept
<1> QED BY <1>6, <1>8, <1>9, <1>10 DEF Caused

LEMMA CausedClaim ==
    ASSUME Typed, Held, Caused, NEW c \in Dispatchers, Claim(c)
    PROVE  Caused'
<1>1. CycleFits(cycle[c]) /\ cycle[c].pc = "claim" BY DEF Typed, CyclesFit, Claim, At
<1>2. PICK S \in Batches(c) :
          \/ ClaimRows(S) /\ (\/ Move(c, Idle)
                             \/ Move(c, [cycle[c] EXCEPT !.pc = "load",
                                                         !.todo = Claimed(S)]))
          \/ UNCHANGED tables /\ Move(c, Idle)
  BY DEF Claim, Statement
<1>3. \A d \in S : d \in Ids BY DEF Batches, Due
<1>4. UNCHANGED <<hook, post>> BY <1>2 DEF Claim, ClaimRows, tables
<1>5. HooksStay /\ PostsStay BY <1>4, HooksQuiet, PostsQuiet
<1>6. \A d \in Ids : \/ delivery'[d] = delivery[d]
                     \/ /\ delivery'[d].hook = delivery[d].hook
                        /\ delivery'[d].status = "in_flight"
  BY <1>2 DEF ClaimRows, tables, Typed, RowsFit, Delivery
<1>7. DeadCaused' BY <1>5, <1>6, DeadKept
<1>8. HooksStand' BY <1>5, <1>6, StandKept
<1>9. CASE Move(c, Idle)
  <2>1. Known' BY <1>5, <1>9, IdleResult, KnownMoves DEF Looking, Disabling
  <2>2. Addressed' BY <1>6, <1>9, IdleShrinks, AddressedKept DEF Disabling
  <2> QED BY <1>7, <1>8, <2>1, <2>2 DEF Caused
<1>10. CASE Move(c, [cycle[c] EXCEPT !.pc = "load", !.todo = Claimed(S)])
  <2>1. cycle'[c] = [[cycle[c] EXCEPT !.pc = "load", !.todo = Claimed(S)]
                        EXCEPT !.busy = 0]
        /\ \A b \in Dispatchers \ {c} : cycle'[b] = cycle[b]
    BY <1>10 DEF Move, Typed, CyclesFit
  <2>2. cycle'[c].pc = "load" /\ cycle'[c].todo = Claimed(S)
    BY <1>1, <2>1 DEF CycleFits, Cycle
  <2>3. Known' BY <1>5, <2>1, <2>2, KnownMoves DEF Looking, Disabling
  <2>4. Addressed'
    <3> SUFFICES ASSUME NEW b \in Dispatchers, NEW r \in Claims, Owns(b, r)'
                 PROVE  delivery'[r.id].hook \in {r.hook, NoHook}
      BY DEF Addressed
    <3>1. r.id \in Ids BY DEF Claims
    <3>2. CASE b = c
      <4>1. r.hook = delivery[r.id].hook BY <2>2, <3>2 DEF Owns, Claimed
      <4> QED BY <1>6, <3>1, <4>1
    <3>3. CASE b # c
      <4>1. cycle'[b] = cycle[b] BY <2>1, <3>3
      <4>2. Owns(b, r) BY <4>1 DEF Owns
      <4> QED BY <1>6, <3>1, <4>2 DEF Caused, Addressed
    <3> QED BY <3>2, <3>3
  <2> QED BY <1>7, <1>8, <2>3, <2>4 DEF Caused
<1> QED BY <1>2, <1>9, <1>10

LEMMA CausedDrop ==
    ASSUME Typed, Held, Caused, NEW c \in Dispatchers, Drop(c)
    PROVE  Caused'
<1> DEFINE r == cycle[c].row
<1>1. cycle[c].pc = "drop" /\ NextRow(c) BY DEF Drop, At, Statement
<1>2. Owns(c, r) BY <1>1, RowHeld DEF RowSteps, Disabling
<1>3. r \in Claims /\ r.id \in Ids BY <1>2, OwnsClaims
<1>4. UNCHANGED <<hook, post>> BY DEF Drop, Statement, tables
<1>5. HooksStay /\ PostsStay BY <1>4, HooksQuiet, PostsQuiet
<1>6. delivery[r.id].hook = NoHook
  <2>1. r.hook \in Hooks /\ Gone(r.hook)
    <3>1. KnownFits(cycle[c]) BY DEF Caused, Known
    <3> QED BY <1>1, <1>3, <3>1 DEF KnownFits, Looking, Claims
  <2>2. delivery[r.id].hook \in {r.hook, NoHook}
    BY <1>2, <1>3 DEF Caused, Addressed
  <2> QED BY <1>3, <2>1, <2>2 DEF Caused, HooksStand
<1>7. \A d \in Ids : \/ delivery'[d] = delivery[d]
                     \/ d = r.id /\ delivery'[d].hook = delivery[d].hook
  BY DEF Drop, Statement, tables, Typed, RowsFit, Delivery
<1>8. DeadCaused' BY <1>5, <1>6, <1>7, DeadKept DEF CauseOf
<1>9. HooksStand' BY <1>5, <1>7, StandKept
<1>10. Known' BY <1>1, <1>5, NextRowResult, KnownMoves DEF Looking, Disabling
<1>11. Addressed' BY <1>1, <1>7, NextRowShrinks, AddressedKept DEF Disabling
<1> QED BY <1>8, <1>9, <1>10, <1>11 DEF Caused

LEMMA CausedTouch ==
    ASSUME Typed, Held, Caused, NEW c \in Dispatchers, Touch(c)
    PROVE  Caused'
<1>1. cycle[c].pc = "touch" /\ (Goto(c, "resolve") \/ NextRow(c)) BY DEF Touch, At
<1>2. HooksStay /\ PostsStay BY HooksQuiet, PostsQuiet DEF Touch
<1>3. Known' BY <1>1, <1>2, GotoResult, NextRowResult, KnownMoves DEF Looking, Steps
<1>4. \A d \in Ids : /\ delivery'[d].status = delivery[d].status
                    /\ delivery'[d].attempts = delivery[d].attempts
                    /\ delivery'[d].hook = delivery[d].hook
  BY DEF Touch, Typed, RowsFit, Delivery
<1>5. DeadCaused' /\ HooksStand' BY <1>2, <1>4, DeadKept, StandKept
<1>6. Shrinks(c) BY <1>1, GotoShrinks, NextRowShrinks DEF Steps, Disabling
<1>7. Addressed' BY <1>4, <1>6, AddressedKept
<1> QED BY <1>3, <1>5, <1>7 DEF Caused

(* A cycle at its attempt: only the verdict on its own row may change, and it *)
(* finds that row dead with a verdict.                                        *)
LEMMA CausedAttempt ==
    ASSUME Typed, Held, Caused, NEW c \in Dispatchers,
           cycle[c].pc \in {"resolve", "post"},
           UNCHANGED <<delivery, hook>>, Shrinks(c),
           \A e \in Ids \ {cycle[c].row.id} : post'[e] = post[e],
           \A b \in Dispatchers \ {c} : cycle'[b] = cycle[b],
           cycle'[c].known = cycle[c].known, cycle'[c].row = cycle[c].row,
           \/ cycle'[c].pc = "post"
           \/ /\ cycle'[c].pc = "record"
              /\ cycle'[c].outcome = "dead"
                    => post'[cycle[c].row.id].verdict # "none"
    PROVE  Caused'
<1> DEFINE d == cycle[c].row.id
<1>1. Owns(c, cycle[c].row) BY RowHeld DEF RowSteps, Disabling
<1>2. cycle[c].row \in Claims /\ d \in Ids /\ delivery[d].status = "in_flight"
  BY <1>1, OwnsClaims DEF Held, Holding, Secure
<1>3. DeadCaused'
  <2> SUFFICES ASSUME NEW e \in Ids, delivery[e].status = "dead" PROVE CauseOf(e)'
    BY DEF DeadCaused
  <2>1. e # d /\ CauseOf(e) BY <1>2 DEF Caused, DeadCaused
  <2>2. post'[e] = post[e] BY <2>1
  <2> QED BY <2>1, <2>2 DEF CauseOf
<1>4. HooksStand' BY DEF Caused, HooksStand, Gone
<1>5. Addressed' BY AddressedKept
<1>6. Known'
  <2> SUFFICES ASSUME NEW b \in Dispatchers PROVE KnownFits(cycle[b])'
    BY DEF Known
  <2>1. KnownFits(cycle[b]) BY DEF Caused, Known
  <2>2. CASE b = c BY <2>1, <2>2 DEF KnownFits, Gone, Looking
  <2>3. CASE b # c
    <3>1. cycle'[b] = cycle[b] BY <2>3
    <3>2. cycle[b].pc = "record" =>
             cycle[b].row.id \in Ids /\ post'[cycle[b].row.id] = post[cycle[b].row.id]
      <4> SUFFICES ASSUME cycle[b].pc = "record"
                   PROVE  cycle[b].row.id \in Ids /\ cycle[b].row.id # d
        OBVIOUS
      <4>1. Owns(b, cycle[b].row) BY RowHeld DEF RowSteps, Disabling
      <4>2. cycle[b].row \in Claims /\ cycle[b].row.id \in Ids BY <4>1, OwnsClaims
      <4> QED BY <1>1, <1>2, <2>3, <4>1, <4>2 DEF Held, Apart
    <3> QED BY <2>1, <3>1, <3>2 DEF KnownFits, Gone
  <2> QED BY <2>2, <2>3
<1> QED BY <1>3, <1>4, <1>5, <1>6 DEF Caused

LEMMA CausedResolve ==
    ASSUME Typed, Held, Caused, NEW c \in Dispatchers, Resolve(c)
    PROVE  Caused'
<1>1. cycle[c].pc = "resolve" BY DEF Resolve, At
<1>2. cycle[c].row.id \in Ids
  <2>1. Owns(c, cycle[c].row) BY <1>1, RowHeld DEF RowSteps, Disabling
  <2> QED BY <2>1, OwnsClaims
<1>3. UNCHANGED <<delivery, hook>> /\ Shrinks(c)
  BY HeldQuietly DEF Resolve, tables
<1>4. CASE Goto(c, "post") /\ Posted(cycle[c].row.id)
  <2>1. /\ cycle'[c].pc = "post" /\ cycle'[c].known = cycle[c].known
        /\ cycle'[c].row = cycle[c].row
        /\ \A b \in Dispatchers \ {c} : cycle'[b] = cycle[b]
    BY <1>4, GotoResult DEF Steps
  <2>2. \A e \in Ids \ {cycle[c].row.id} : post'[e] = post[e]
    BY <1>4 DEF Posted, Typed, PostsFit
  <2> QED BY <1>1, <1>3, <2>1, <2>2, CausedAttempt
<1>5. CASE /\ Found(c, "dead")
           /\ post' = [post EXCEPT ![cycle[c].row.id].verdict = "dead"]
  <2>1. /\ cycle'[c].pc = "record" /\ cycle'[c].known = cycle[c].known
        /\ cycle'[c].row = cycle[c].row
        /\ \A b \in Dispatchers \ {c} : cycle'[b] = cycle[b]
    BY <1>5, FoundResult DEF Outcomes
  <2>2. /\ \A e \in Ids \ {cycle[c].row.id} : post'[e] = post[e]
        /\ post'[cycle[c].row.id].verdict # "none"
    BY <1>2, <1>5 DEF Typed, PostsFit
  <2> QED BY <1>1, <1>3, <2>1, <2>2, CausedAttempt
<1> QED BY <1>4, <1>5 DEF Resolve, Posted

LEMMA CausedAnswer ==
    ASSUME Typed, Held, Caused, NEW c \in Dispatchers, Answer(c)
    PROVE  Caused'
<1>1. cycle[c].pc = "post" BY DEF Answer, At
<1>2. PICK o \in Outcomes :
          /\ Found(c, o)
          /\ post' = [post EXCEPT ![cycle[c].row.id].verdict =
                          IF o = "dead" THEN "dead" ELSE "none"]
  BY DEF Answer
<1>3. cycle[c].row.id \in Ids
  <2>1. Owns(c, cycle[c].row) BY <1>1, RowHeld DEF RowSteps, Disabling
  <2> QED BY <2>1, OwnsClaims
<1>4. /\ cycle'[c].pc = "record" /\ cycle'[c].known = cycle[c].known
      /\ cycle'[c].row = cycle[c].row /\ cycle'[c].outcome = o
      /\ \A b \in Dispatchers \ {c} : cycle'[b] = cycle[b]
  BY <1>2, FoundResult
<1>5. /\ \A e \in Ids \ {cycle[c].row.id} : post'[e] = post[e]
      /\ o = "dead" => post'[cycle[c].row.id].verdict # "none"
  BY <1>2, <1>3 DEF Typed, PostsFit
<1>6. UNCHANGED <<delivery, hook>> /\ Shrinks(c)
  BY HeldQuietly DEF Answer, tables
<1> QED BY <1>1, <1>4, <1>5, <1>6, CausedAttempt

LEMMA CausedRecord ==
    ASSUME Typed, Held, Caused, NEW c \in Dispatchers, Record(c)
    PROVE  Caused'
<1> DEFINE r == cycle[c].row
           o == cycle[c].outcome
<1>1. cycle[c].pc = "record" /\ (Goto(c, "snapshot") \/ NextRow(c))
  BY DEF Record, At, Statement
<1>2. Owns(c, r) BY <1>1, RowHeld DEF RowSteps, Disabling
<1>3. /\ r \in Claims /\ r.id \in Ids /\ delivery[r.id] \in Delivery
      /\ r.attempts \in Nat /\ r.attempts < MaxAttempts /\ MaxAttempts \in Nat
  <2>1. r \in Claims /\ r.id \in Ids BY <1>2, OwnsClaims
  <2>2. Secure(c, r) /\ RowFits(delivery[r.id])
    BY <1>2, <2>1 DEF Held, Holding, Typed, RowsFit
  <2> QED BY <2>1, <2>2, WebhookAssumption DEF Secure, RowFits, Chargeable, Claims
<1>4. UNCHANGED <<hook, post>> BY DEF Record, Statement, tables
<1>5. HooksStay /\ PostsStay BY <1>4, HooksQuiet, PostsQuiet
<1>6. \A d \in Ids : \/ delivery'[d] = delivery[d]
                     \/ d = r.id /\ delivery'[d] = Result(c, delivery[d], o)
  BY DEF Record, Statement, tables, Typed, RowsFit
<1>7. /\ Result(c, delivery[r.id], o).hook = delivery[r.id].hook
      /\ Result(c, delivery[r.id], o).status = "dead" =>
            o = "dead" \/ Result(c, delivery[r.id], o).attempts = MaxAttempts
  BY <1>3 DEF Result, Delivery
<1>8. o = "dead" => post[r.id].verdict # "none"
  BY <1>1 DEF Caused, Known, KnownFits
<1>9. \A d \in Ids : delivery'[d].hook = delivery[d].hook BY <1>6, <1>7
<1>10. DeadCaused' BY <1>4, <1>5, <1>6, <1>7, <1>8, DeadKept DEF CauseOf
<1>11. HooksStand' BY <1>5, <1>9, StandKept
<1>12. Known' BY <1>1, <1>5, GotoResult, NextRowResult, KnownMoves DEF Looking, Steps
<1>13. Shrinks(c) BY <1>1, GotoShrinks, NextRowShrinks DEF Steps, Disabling
<1>14. Addressed' BY <1>9, <1>13, AddressedKept
<1> QED BY <1>10, <1>11, <1>12, <1>14 DEF Caused

LEMMA CausedDisable ==
    ASSUME Typed, Held, Caused, NEW c \in Dispatchers,
           Snapshot(c) \/ Disable(c) \/ Audit(c)
    PROVE  Caused'
<1>1. /\ cycle[c].pc \in Disabling
      /\ Goto(c, "disable") \/ Goto(c, "audit") \/ NextRow(c)
  BY DEF Snapshot, Disable, Audit, At, Statement, Disabling
<1>2. UNCHANGED <<delivery, post>> BY DEF Snapshot, Disable, Audit, Statement, tables
<1>3. HooksStay
  BY DEF Snapshot, Disable, Audit, Statement, tables, HooksStay, Gone, Typed, HooksFit
<1>4. PostsStay BY <1>2, PostsQuiet
<1>5. DeadCaused' /\ HooksStand' BY <1>2, <1>3, <1>4, DeadKept, StandKept
<1>6. Known'
  BY <1>1, <1>3, <1>4, GotoResult, NextRowResult, KnownMoves
     DEF Looking, Steps, Disabling
<1>7. Addressed' BY <1>2, DisablingShrinks, AddressedKept
<1> QED BY <1>5, <1>6, <1>7 DEF Caused

LEMMA CausedRelease ==
    ASSUME Typed, Held, Caused, NEW c \in Dispatchers, Release(c)
    PROVE  Caused'
<1> DEFINE rest == cycle[c].todo \ Group(c)
           q == [cycle[c] EXCEPT !.todo = rest]
<1>1. cycle[c] \in Cycle /\ cycle[c].pc = "release"
  BY DEF Typed, CyclesFit, Release, At
<1>2. q \in Cycle /\ q.pc = "release" /\ q.known = cycle[c].known BY <1>1 DEF Cycle
<1>3. IF rest = {} THEN Move(c, Idle) ELSE Move(c, q)
  BY DEF Release, Statement, Group, Fresh
<1>4. UNCHANGED <<hook, post>> BY DEF Release, Statement, tables
<1>5. HooksStay /\ PostsStay BY <1>4, HooksQuiet, PostsQuiet
<1>6. Known'
  <2> HIDE DEF q
  <2> QED BY <1>1, <1>2, <1>3, <1>5, IdleResult, MoveResult, KnownMoves DEF Looking
<1>7. \A d \in Ids : \/ delivery'[d] = delivery[d]
                     \/ /\ delivery'[d].hook = delivery[d].hook
                        /\ delivery'[d].status # "dead"
  <2> SUFFICES ASSUME NEW d \in Ids, NEW n, delivery'[d] = Released(c, delivery[d], n)
               PROVE  delivery'[d].hook = delivery[d].hook /\ delivery'[d].status # "dead"
    BY ReleaseEffect
  <2>1. delivery[d] \in Delivery BY DEF Typed, RowsFit
  <2> QED BY <2>1 DEF Released, Delivery
<1>8. DeadCaused' BY <1>5, <1>7, DeadKept
<1>9. HooksStand' BY <1>5, <1>7, StandKept
<1>10. Addressed' BY <1>7, ReleaseEffect, AddressedKept
<1> QED BY <1>6, <1>8, <1>9, <1>10 DEF Caused

(* Steps outside the cycles: the cycles stay as they are.                     *)
LEMMA CyclesUntouched ==
    ASSUME Typed, Caused, UNCHANGED <<cycle, post>>, \A h \in Hooks : Gone(h) => Gone(h)'
    PROVE  Known'
<1> SUFFICES ASSUME NEW c \in Dispatchers PROVE KnownFits(cycle[c])'
  BY DEF Known
<1>1. KnownFits(cycle[c]) BY DEF Caused, Known
<1> QED BY <1>1 DEF KnownFits

LEMMA CausedInsert ==
    ASSUME Typed, Held, Caused, InsertDeliveries
    PROVE  Caused'
<1>1. UNCHANGED <<hook, cycle, post>> BY DEF InsertDeliveries
<1>2. HooksStay /\ PostsStay /\ Known'
  BY <1>1, HooksQuiet, PostsQuiet, CyclesUntouched DEF Gone
<1>3. CASE UNCHANGED delivery
  BY <1>1, <1>2, <1>3, DeadKept, StandKept DEF Caused, Addressed, Owns
<1>4. ASSUME \A h \in emit : hook[h] # "deleted",
             NEW new \in Injection(emit, Free),
             delivery' = [d \in Ids |->
                  IF \E h \in emit : new[h] = d
                  THEN [NoDelivery EXCEPT !.status = "pending", !.wait = 0,
                          !.hook = CHOOSE h \in emit : new[h] = d]
                  ELSE delivery[d]]
      PROVE  Caused'
  <2>1. new \in [emit -> Free] BY DEF Injection
  <2>2. ASSUME NEW d \in Ids
        PROVE  \/ delivery'[d] = delivery[d]
               \/ /\ d \in Free /\ delivery'[d].status = "pending"
                  /\ delivery'[d].hook \in emit
    <3>1. CASE \E h \in emit : new[h] = d
      <4>1. (CHOOSE h \in emit : new[h] = d) \in emit BY <3>1
      <4>2. d \in Free BY <2>1, <3>1
      <4> QED BY <1>4, <3>1, <4>1, <4>2 DEF NoDelivery
    <3>2. CASE ~\E h \in emit : new[h] = d BY <1>4, <3>2
    <3> QED BY <3>1, <3>2
  <2>3. DeadCaused' BY <1>2, <2>2, DeadKept
  <2>4. HooksStand' BY <1>1, <1>4, <2>2 DEF Caused, HooksStand, Gone
  <2>5. Addressed'
    <3> SUFFICES ASSUME NEW c \in Dispatchers, NEW r \in Claims, Owns(c, r)'
                 PROVE  delivery'[r.id].hook \in {r.hook, NoHook}
      BY DEF Addressed
    <3>1. Owns(c, r) /\ r.id \in Ids BY <1>1 DEF Owns, Claims
    <3>2. r.id \notin Free BY <3>1 DEF Held, Holding, Secure, Free, Present
    <3>3. delivery'[r.id] = delivery[r.id] BY <2>2, <3>1, <3>2
    <3> QED BY <3>1, <3>3 DEF Caused, Addressed
  <2> QED BY <1>2, <2>3, <2>4, <2>5 DEF Caused
<1> QED BY <1>3, <1>4 DEF InsertDeliveries

LEMMA CausedDelete ==
    ASSUME Typed, Held, Caused, NEW h \in Hooks, DeleteHook(h)
    PROVE  Caused'
<1>1. UNCHANGED <<cycle, post>> BY DEF DeleteHook
<1>2. PostsStay BY <1>1, PostsQuiet
<1>3. \A k \in Hooks : Gone(k)' <=> k = h \/ Gone(k)
  BY DEF DeleteHook, Gone, Typed, HooksFit
<1>4. Known' BY <1>1, <1>3, CyclesUntouched
<1>5. \A d \in Ids :
          \/ delivery'[d] = delivery[d] /\ delivery[d].hook # h
          \/ /\ delivery'[d].status = delivery[d].status
             /\ delivery'[d].hook = NoHook
  BY DEF DeleteHook, Typed, RowsFit, Delivery
<1>6. DeadCaused' BY <1>2, <1>5, DeadKept DEF CauseOf
<1>7. HooksStand' BY <1>3, <1>5, WebhookAssumption DEF Caused, HooksStand
<1>8. Addressed'
  <2> SUFFICES ASSUME NEW c \in Dispatchers, NEW r \in Claims, Owns(c, r)'
               PROVE  delivery'[r.id].hook \in {r.hook, NoHook}
    BY DEF Addressed
  <2>1. Owns(c, r) /\ r.id \in Ids BY <1>1 DEF Owns, Claims
  <2> QED BY <1>5, <2>1 DEF Caused, Addressed
<1> QED BY <1>4, <1>6, <1>7, <1>8 DEF Caused

LEMMA CausedOthers ==
    ASSUME Typed, Held, Caused,
           \/ FanOut \/ UNCHANGED vars
           \/ \E h \in Hooks : TestHook(h) \/ SetActive(h)
           \/ \E d \in Ids : Retry(d)
    PROVE  Caused'
<1>1. UNCHANGED <<cycle, post, delivery>>
  BY DEF FanOut, vars, TestHook, SetActive, Retry, Read, tables
<1>2. HooksStay
  BY DEF FanOut, vars, TestHook, SetActive, Retry, Read, tables, HooksStay, Gone,
         Typed, HooksFit
<1>3. PostsStay BY <1>1, PostsQuiet
<1>4. Known' BY <1>1, <1>2, CyclesUntouched DEF HooksStay
<1>5. DeadCaused' /\ HooksStand' BY <1>1, <1>2, <1>3, DeadKept, StandKept
<1>6. Addressed' BY <1>1 DEF Caused, Addressed, Owns
<1> QED BY <1>4, <1>5, <1>6 DEF Caused

LEMMA CausedTick ==
    ASSUME Typed, Held, Caused, Tick
    PROVE  Caused'
<1>1. UNCHANGED hook /\ HooksStay BY HooksQuiet DEF Tick
<1>2. PostsStay BY DEF Tick, PostsStay, Typed, PostsFit
<1>3. ASSUME NEW d \in Ids
      PROVE  /\ delivery'[d].status = delivery[d].status
             /\ delivery'[d].attempts = delivery[d].attempts
             /\ delivery'[d].hook = delivery[d].hook
  <2> DEFINE q == [delivery[d] EXCEPT !.wait = IF @ > Stale THEN @ - 1 ELSE Stale]
  <2>1. delivery'[d] = [q EXCEPT !.age = IF delivery[d].status = "in_flight"
                                        THEN Older(@, MaxAge) ELSE @]
    BY DEF Tick
  <2>2. /\ q.status = delivery[d].status /\ q.attempts = delivery[d].attempts
        /\ q.hook = delivery[d].hook
        /\ DOMAIN q = {"status", "attempts", "hook", "wait", "age"}
    BY DEF Typed, RowsFit, Delivery
  <2> HIDE DEF q
  <2> QED BY <2>1, <2>2
<1>4. DeadCaused' /\ HooksStand' BY <1>1, <1>2, <1>3, DeadKept, StandKept
<1>5. ASSUME NEW c \in Dispatchers
      PROVE  \/ cycle'[c] = Idle
             \/ /\ cycle'[c].pc = cycle[c].pc /\ cycle'[c].todo = cycle[c].todo
                /\ cycle'[c].row = cycle[c].row /\ cycle'[c].known = cycle[c].known
                /\ cycle'[c].outcome = cycle[c].outcome
  <2>1. cycle[c] \in Cycle BY DEF Typed, CyclesFit
  <2>2. CASE cycle[c].pc = "idle" BY <2>2 DEF Tick
  <2>3. CASE cycle[c].pc # "idle"
    <3> DEFINE q == [cycle[c] EXCEPT !.busy = @ + 1]
    <3>1. cycle'[c] = [q EXCEPT !.elapsed = @ + 1] BY <2>3 DEF Tick
    <3>2. q \in Cycle /\ q.todo = cycle[c].todo /\ q.pc = cycle[c].pc
          /\ q.row = cycle[c].row /\ q.known = cycle[c].known
          /\ q.outcome = cycle[c].outcome
      BY <2>1 DEF Cycle
    <3> HIDE DEF q
    <3> QED BY <3>1, <3>2 DEF Cycle
  <2> QED BY <2>2, <2>3
<1>6. Known'
  <2> SUFFICES ASSUME NEW c \in Dispatchers PROVE KnownFits(cycle[c])'
    BY DEF Known
  <2>1. KnownFits(cycle[c]) /\ CycleFits(cycle[c])
    BY DEF Caused, Known, Typed, CyclesFit
  <2>2. CASE cycle'[c] = Idle BY <2>2 DEF KnownFits, Idle, Looking
  <2>3. CASE /\ cycle'[c].pc = cycle[c].pc /\ cycle'[c].todo = cycle[c].todo
             /\ cycle'[c].row = cycle[c].row /\ cycle'[c].known = cycle[c].known
             /\ cycle'[c].outcome = cycle[c].outcome
    <3>1. cycle[c].pc = "record" => cycle[c].row.id \in Ids
      BY <2>1 DEF CycleFits, RowSteps, Cycle, Claims
    <3> QED BY <1>1, <1>2, <2>1, <2>3, <3>1 DEF KnownFits, PostsStay, Gone
  <2> QED BY <1>5, <2>2, <2>3
<1>7. Addressed'
  <2> SUFFICES ASSUME NEW c \in Dispatchers, NEW r \in Claims, Owns(c, r)'
               PROVE  delivery'[r.id].hook \in {r.hook, NoHook}
    BY DEF Addressed
  <2>1. r.id \in Ids BY DEF Claims
  <2>2. Owns(c, r) BY <1>5 DEF Owns, Idle
  <2> QED BY <1>3, <2>1, <2>2 DEF Caused, Addressed
<1> QED BY <1>4, <1>6, <1>7 DEF Caused

LEMMA CausedStep ==
    ASSUME "error" \notin Faults
    PROVE  Typed /\ Held /\ Caused /\ [Next]_vars => Caused'
<1> SUFFICES ASSUME Typed, Held, Caused, [Next]_vars PROVE Caused' OBVIOUS
<1>1. ASSUME NEW c \in Dispatchers, Start(c) \/ Advance(c) \/ Crash(c)
      PROVE  Caused'
  BY <1>1, CausedQuietly, CausedSweep, CausedClaim, CausedDrop, CausedTouch,
     CausedResolve, CausedAnswer, CausedRecord, CausedDisable, CausedRelease DEF Advance
<1> QED BY <1>1, CausedInsert, CausedDelete, CausedOthers, CausedTick DEF Next

(* As long as no statement fails outright and the window fits, a delivery that*)
(* was given up has used up its attempts, was found dead by its last attempt, *)
(* or has lost its webhook; crashes and lost replies do not matter. With      *)
(* errors this is false: a failed lookup looks like a webhook that was        *)
(* deleted.                                                                   *)
THEOREM GivenUpForCause ==
    ASSUME "error" \notin Faults, WindowFits
    PROVE  Spec => []DeadForCause
<1>1. Typed /\ Held /\ Caused /\ [Next]_vars => Caused' BY CausedStep
<1>2. Spec => []Held BY HeldAlways
<1>3. Spec => []Caused BY <1>1, <1>2, TypedAlways, CausedInit, PTL DEF Spec
<1> QED BY <1>3, CausedIsForCause, PTL

-----------------------------------------------------------------------------
(* The back-off. A row that waits has as much of its back-off before it as it *)
(* has not waited yet, up to Loss; a row that a cycle holds and has not tried *)
(* had waited enough at the cycle's now; and a row it has tried was posted no *)
(* earlier than Loss after that now, or is found dead and waits no more. since*)
(* stops at MaxWait, where any back-off is over.                              *)

Rested(d, t) ==
    post[d].count > 0 =>
        \/ post[d].since = MaxWait
        \/ post[d].since + t + Loss >= Backoff[post[d].count - 1]

Waits(d) == delivery[d].status \in {"pending", "failed"} => Rested(d, delivery[d].wait)

Condemned(c) == cycle[c].pc = "record" /\ cycle[c].outcome = "dead"

Recent(c, r) ==
    /\ post[r.id].count > 0
    /\ post[r.id].since = MaxWait \/ cycle[c].elapsed <= post[r.id].since + Loss

Paced(c, r) ==
    IF Tried(c, r)
    THEN Condemned(c) \/ Recent(c, r)
    ELSE Rested(r.id, -cycle[c].elapsed)

RowsWait == \A d \in Ids : Waits(d)
CyclesPaced == \A c \in Dispatchers : \A r \in Claims : Owns(c, r) => Paced(c, r)

Spaced == RowsWait /\ CyclesPaced

LEMMA SpacedInit == Init => Spaced
BY DEF Init, Spaced, RowsWait, Waits, NoDelivery, CyclesPaced, Owns, Idle

(* Latency and Loss, and the back-off before the next POST of a row that was  *)
(* posted and charged.                                                        *)
LEMMA Losses ==
    /\ Latency \in Nat /\ Loss \in Nat /\ 2 * Latency <= Loss
    /\ Stale \in Int /\ Stale + Loss >= 0 /\ MaxWait \in Nat
<1>1. /\ Latency \in Nat /\ Budget \in Nat /\ Timeout \in Nat /\ Timeout < Budget
      /\ Lookup \in Nat
  BY WebhookAssumption
<1> QED BY <1>1, Constants DEF Loss, Stale

LEMMA NextBackoff ==
    ASSUME NEW n \in Nat \ {0}, NEW a \in Nat, n <= a, a < MaxAttempts
    PROVE  /\ Backoff[n - 1] \in Nat /\ Backoff[a - 1] \in Nat
           /\ Backoff[n - 1] <= Backoff[a - 1] /\ Backoff[a - 1] <= MaxWait
<1>1. MaxAttempts \in Nat BY WebhookAssumption
<1>2. DOMAIN Backoff = 0..(MaxAttempts - 2) BY WebhookAssumption
<1>3. n - 1 \in DOMAIN Backoff /\ a - 1 \in DOMAIN Backoff /\ n - 1 <= a - 1
  BY <1>1, <1>2
<1>4. Backoff[n - 1] <= Backoff[a - 1] BY <1>3, WebhookAssumption
<1>5. n - 1 \in Nat /\ n < MaxAttempts /\ a - 1 \in Nat BY <1>1
<1> QED BY <1>4, <1>5, Constants

(* Waiting longer does no harm.                                               *)
LEMMA RestedLonger ==
    ASSUME Typed, NEW d \in Ids, NEW t \in Int, NEW u \in Int, t <= u, Rested(d, t),
           post[d].count < MaxAttempts
    PROVE  Rested(d, u)
<1> SUFFICES ASSUME post[d].count > 0, post[d].since # MaxWait
             PROVE  post[d].since + u + Loss >= Backoff[post[d].count - 1]
  BY DEF Rested
<1>1. post[d].count \in Nat /\ post[d].since \in Int
  BY Constants DEF Typed, PostsFit
<1>2. Backoff[post[d].count - 1] \in Nat BY <1>1, NextBackoff
<1> QED BY <1>1, <1>2, Losses DEF Rested

(* A row that is re-armed by a cycle soon after its last POST.                *)
LEMMA RestedLater ==
    ASSUME Typed, NEW c \in Dispatchers, NEW d \in Ids, NEW a \in Nat \ {0},
           post[d].count <= a, a < MaxAttempts,
           post[d].since = MaxWait \/ cycle[c].elapsed <= post[d].since + Loss
    PROVE  Rested(d, Later(c, Backoff[a - 1]))
<1> SUFFICES ASSUME post[d].count > 0, post[d].since # MaxWait
             PROVE  post[d].since + Later(c, Backoff[a - 1]) + Loss
                       >= Backoff[post[d].count - 1]
  BY DEF Rested
<1>1. post[d].count \in Nat \ {0} /\ post[d].since \in Int /\ cycle[c].elapsed \in Nat
  BY Constants DEF Typed, PostsFit, CyclesFit, Cycle
<1>2. /\ Backoff[post[d].count - 1] \in Nat /\ Backoff[a - 1] \in Nat
      /\ Backoff[post[d].count - 1] <= Backoff[a - 1]
  BY <1>1, NextBackoff
<1>3. /\ Later(c, Backoff[a - 1]) \in Int
      /\ Later(c, Backoff[a - 1]) >= Backoff[a - 1] - cycle[c].elapsed
  BY <1>1, <1>2, Losses DEF Later
<1>4. cycle[c].elapsed <= post[d].since + Loss OBVIOUS
<1> QED BY <1>1, <1>2, <1>3, <1>4, Losses

SamePosts ==
    \A d \in Ids : post'[d].count = post[d].count /\ post'[d].since = post[d].since

(* The positions of a cycle in which it has no row it has tried.              *)
Untrying == Steps \ {"post", "record"}

(* What no statement touches stays rested.                                    *)
LEMMA PacedKept ==
    ASSUME Typed, Spaced, NEW c \in Dispatchers, Shrinks(c),
           SamePosts, cycle[c].pc # "record" \/ cycle'[c].pc \in Untrying,
           \A r \in Claims : Owns(c, r)' => (Tried(c, r)' <=> Tried(c, r))
    PROVE  CyclesPaced'
<1> SUFFICES ASSUME NEW b \in Dispatchers, NEW r \in Claims, Owns(b, r)'
             PROVE  Paced(b, r)'
  BY DEF CyclesPaced
<1>1. Owns(b, r) /\ cycle'[b].elapsed = cycle[b].elapsed BY OthersOwn
<1>2. Tried(b, r)' <=> Tried(b, r)
  <2>1. CASE b = c BY <2>1
  <2>2. CASE b # c
    <3>1. cycle'[b] = cycle[b] BY <2>2 DEF Shrinks
    <3> QED BY <3>1 DEF Tried
  <2> QED BY <2>1, <2>2
<1>3. Paced(b, r) BY <1>1 DEF Spaced, CyclesPaced
<1>4. r.id \in Ids BY DEF Claims
<1>5. CASE ~Tried(b, r)
  BY <1>1, <1>2, <1>3, <1>4, <1>5 DEF Paced, Rested, SamePosts
<1>6. CASE Tried(b, r)
  <2>1. Condemned(b) => Condemned(b)'
    <3>1. CASE b = c BY <1>2, <1>6, <3>1 DEF Condemned, Tried, Untrying
    <3>2. CASE b # c
      <4>1. cycle'[b] = cycle[b] BY <3>2 DEF Shrinks
      <4> QED BY <4>1 DEF Condemned
    <3> QED BY <3>1, <3>2
  <2>2. Recent(b, r) => Recent(b, r)' BY <1>1, <1>4 DEF Recent, SamePosts
  <2> QED BY <1>2, <1>3, <1>6, <2>1, <2>2 DEF Paced
<1> QED BY <1>5, <1>6

(* A row that waits may be posted again: there is a back-off for it.          *)
LEMMA WaitingPosted ==
    ASSUME Typed, Counted, NEW d \in Ids, delivery[d].status \in {"pending", "failed"}
    PROVE  /\ post[d].count \in Nat /\ post[d].count <= delivery[d].attempts
           /\ post[d].count < MaxAttempts
           /\ delivery[d].wait \in Int /\ delivery[d].attempts \in Nat
<1>1. /\ RowCounted(delivery[d], post[d].count) /\ RowFits(delivery[d])
      /\ post[d].count \in Nat /\ MaxAttempts \in Nat
  BY WebhookAssumption DEF Counted, RowsCounted, Typed, RowsFit, PostsFit
<1> QED BY <1>1, Constants DEF RowCounted, RowFits, Delivery, Chargeable

LEMMA PostsUntouched == ASSUME UNCHANGED post PROVE SamePosts
BY DEF SamePosts

LEMMA WaitsKept ==
    ASSUME Spaced, SamePosts, NEW d \in Ids,
           \/ delivery'[d].status \notin {"pending", "failed"}
           \/ /\ delivery'[d].status = delivery[d].status
              /\ delivery'[d].wait = delivery[d].wait
    PROVE  Waits(d)'
<1>1. Waits(d) BY DEF Spaced, RowsWait
<1> QED BY <1>1 DEF Waits, Rested, SamePosts

LEMMA UntryingKept ==
    ASSUME Typed, Spaced, NEW c \in Dispatchers, Shrinks(c), SamePosts,
           cycle[c].pc \in Untrying, cycle'[c].pc \in Untrying
    PROVE  CyclesPaced'
BY PacedKept DEF Tried, Untrying

LEMMA SpacedQuietly ==
    ASSUME Typed, Held, Spaced, NEW c \in Dispatchers,
           \/ Start(c) \/ LoadWebhooks(c) \/ Pick(c) \/ GiveUp(c) \/ Touch(c)
           \/ Answer(c) \/ Snapshot(c) \/ Disable(c) \/ Audit(c) \/ Crash(c),
           Shrinks(c)
    PROVE  Spaced'
<1>1. \A d \in Ids : /\ delivery'[d].status = delivery[d].status
                    /\ delivery'[d].wait = delivery[d].wait
  <2>1. CASE UNCHANGED delivery BY <2>1
  <2>2. CASE Touch(c) BY <2>2 DEF Touch, Typed, RowsFit, Delivery
  <2> QED BY <2>1, <2>2
       DEF Start, LoadWebhooks, Pick, GiveUp, Answer, Snapshot, Disable, Audit,
           Statement, Crash, tables
<1>2. cycle[c] \in Cycle BY DEF Typed, CyclesFit
<1>3. SamePosts
  <2>1. CASE Answer(c)
    <3>1. PICK o \in Outcomes :
              post' = [post EXCEPT ![cycle[c].row.id].verdict =
                          IF o = "dead" THEN "dead" ELSE "none"]
      BY <2>1 DEF Answer
    <3> QED BY <3>1 DEF SamePosts, Typed, PostsFit
  <2>2. CASE UNCHANGED post BY <2>2, PostsUntouched
  <2> QED BY <2>1, <2>2
       DEF Start, LoadWebhooks, Pick, GiveUp, Touch, Snapshot, Disable, Audit, Crash
<1>4. RowsWait' BY <1>1, <1>3, WaitsKept DEF RowsWait
<1>5. CyclesPaced'
  <2>1. CASE Start(c)
    <3>1. [Idle EXCEPT !.pc = "sweep"] \in Cycle
          /\ [Idle EXCEPT !.pc = "sweep"].pc = "sweep"
      BY IdleFits DEF CycleFits, Idle, Cycle, Steps
    <3>2. cycle'[c].pc = "sweep" /\ cycle[c].pc = "idle"
      BY <2>1, <3>1, MoveResult DEF Start, At
    <3> QED BY <1>3, <3>2, UntryingKept DEF Untrying, Steps
  <2>2. CASE LoadWebhooks(c)
    <3> DEFINE q == [cycle[c] EXCEPT !.pc = "loop",
                       !.known = {h \in Hooks : hook[h] # "deleted"}]
    <3>1. q \in Cycle /\ q.pc = "loop" BY <1>2 DEF Cycle, Steps
    <3>2. Move(c, q) \/ Goto(c, "loop") BY <2>2 DEF LoadWebhooks
    <3>3. cycle[c].pc = "load" BY <2>2 DEF LoadWebhooks, At
    <3> HIDE DEF q
    <3>4. cycle'[c].pc = "loop" BY <3>1, <3>2, MoveResult, GotoResult DEF Steps
    <3> QED BY <1>3, <3>3, <3>4, UntryingKept DEF Untrying, Steps
  <2>3. CASE Pick(c)
    <3>1. PICK r \in cycle[c].todo, to \in {"touch", "drop"} :
              Move(c, [cycle[c] EXCEPT !.pc = to, !.row = r])
      BY <2>3 DEF Pick
    <3> DEFINE q == [cycle[c] EXCEPT !.pc = to, !.row = r]
    <3>2. q \in Cycle /\ q.pc = to BY <1>2 DEF Cycle, Steps
    <3>3. cycle[c].pc = "loop" BY <2>3 DEF Pick, At
    <3>4. Move(c, q) BY <3>1
    <3> HIDE DEF q
    <3>5. cycle'[c].pc = to BY <3>2, <3>4, MoveResult
    <3> QED BY <1>3, <3>3, <3>5, UntryingKept DEF Untrying, Steps
  <2>4. CASE GiveUp(c)
    <3>1. cycle[c].pc = "loop" /\ Goto(c, "release") BY <2>4 DEF GiveUp, At
    <3>2. cycle'[c].pc = "release" BY <3>1, GotoResult DEF Steps
    <3> QED BY <1>3, <3>1, <3>2, UntryingKept DEF Untrying, Steps
  <2>5. CASE Answer(c)
    <3>1. PICK o \in Outcomes : Found(c, o) BY <2>5 DEF Answer
    <3>2. cycle[c].pc = "post" BY <2>5 DEF Answer, At
    <3>3. cycle'[c].pc = "record" /\ cycle'[c].row = cycle[c].row
      BY <3>1, FoundResult
    <3> QED BY <1>3, <3>2, <3>3, PacedKept DEF Tried
  <2>6. CASE Touch(c)
    <3>1. cycle[c].pc = "touch" /\ (Goto(c, "resolve") \/ NextRow(c))
      BY <2>6 DEF Touch, At
    <3> QED BY <1>3, <3>1, GotoResult, NextRowResult, UntryingKept
         DEF Untrying, Steps
  <2>7. CASE Snapshot(c) \/ Disable(c) \/ Audit(c)
    <3>1. /\ cycle[c].pc \in Disabling
          /\ Goto(c, "disable") \/ Goto(c, "audit") \/ NextRow(c)
      BY <2>7 DEF Snapshot, Disable, Audit, At, Statement, Disabling
    <3> QED BY <1>3, <3>1, GotoResult, NextRowResult, UntryingKept
         DEF Untrying, Steps, Disabling
  <2>8. CASE Crash(c)
    <3>1. cycle'[c] = Idle BY <2>8 DEF Crash, Typed, CyclesFit
    <3> QED BY <1>3, <3>1, PacedKept DEF Owns, Idle, Untrying, Steps
  <2> QED BY <2>1, <2>2, <2>3, <2>4, <2>5, <2>6, <2>7, <2>8
<1> QED BY <1>4, <1>5 DEF Spaced

LEMMA SpacedSweep ==
    ASSUME Typed, Held, Counted, Spaced, NEW c \in Dispatchers, Sweep(c)
    PROVE  Spaced'
<1> DEFINE q == [cycle[c] EXCEPT !.pc = "claim", !.lag = cycle[c].elapsed]
<1>1. CycleFits(cycle[c]) /\ cycle[c].pc = "sweep" BY DEF Typed, CyclesFit, Sweep, At
<1>2. q \in Cycle /\ q.todo = {} /\ q.pc = "claim"
  BY <1>1 DEF CycleFits, Early, Cycle, Steps
<1>3. Move(c, q) BY DEF Sweep, Statement
<1>4. UNCHANGED post /\ SamePosts BY PostsUntouched DEF Sweep
<1>5. Shrinks(c) /\ cycle'[c].pc = "claim"
  <2> HIDE DEF q
  <2> QED BY <1>1, <1>2, <1>3, MoveShrinks, MoveResult DEF Disabling
<1>6. CyclesPaced' BY <1>1, <1>4, <1>5, UntryingKept
     DEF Untrying, Steps, Disabling
<1>7. cycle[c].elapsed \in Nat /\ cycle[c].elapsed <= Latency
  <2>1. OnTime(cycle[c]) /\ cycle[c] \in Cycle BY <1>1 DEF Held, Timely, CycleFits
  <2> QED BY <1>1, <2>1, Losses DEF OnTime, Limit, Cycle
<1>8. RowsWait'
  <2>1. CASE UNCHANGED tables BY <1>4, <2>1, WaitsKept DEF tables, RowsWait
  <2>2. CASE Recover(c)
    <3> SUFFICES ASSUME NEW d \in Ids PROVE Waits(d)' BY DEF RowsWait
    <3>1. CASE ~Stuck(c, delivery[d])
      <4>1. delivery'[d] = delivery[d] BY <2>2, <3>1 DEF Recover
      <4> QED BY <1>4, <4>1, WaitsKept
    <3>2. CASE Stuck(c, delivery[d])
      <4> DEFINE a == delivery[d].attempts + 1
      <4>1. delivery'[d] = Recovered(c, delivery[d]) BY <2>2, <3>2 DEF Recover
      <4>2. delivery[d].status = "in_flight" BY <3>2 DEF Stuck
      <4>3. /\ delivery[d] \in Delivery /\ a \in Nat \ {0} /\ MaxAttempts \in Nat
            /\ post[d].count <= a /\ delivery[d].attempts = a - 1
            /\ post[d].since \in Nat
        <5>1. RowCounted(delivery[d], post[d].count) /\ RowFits(delivery[d])
          BY DEF Counted, RowsCounted, Typed, RowsFit
        <5>2. delivery[d] \in Delivery /\ delivery[d].attempts \in Nat
          BY <5>1, WebhookAssumption DEF RowFits, Delivery
        <5>3. post[d].count <= a BY <4>2, <5>1 DEF RowCounted
        <5>4. post[d].since \in Nat BY Constants DEF Typed, PostsFit
        <5>5. MaxAttempts \in Nat BY WebhookAssumption
        <5> QED BY <5>2, <5>3, <5>4, <5>5
      <4>4. CASE a >= MaxAttempts
        <5>1. delivery'[d].status = "dead"
          BY <4>1, <4>3, <4>4 DEF Recovered, Delivery
        <5> QED BY <1>4, <5>1, WaitsKept
      <4>5. CASE a < MaxAttempts
        <5>1. delivery'[d].wait = Later(c, Backoff[a - 1])
          BY <4>1, <4>3, <4>5 DEF Recovered, Delivery
        <5>2. cycle[c].elapsed <= post[d].since + Loss BY <1>7, <4>3, Losses
        <5> HIDE DEF a
        <5>3. Rested(d, Later(c, Backoff[a - 1]))
          BY <4>3, <4>5, <5>2, RestedLater
        <5> QED BY <1>4, <5>1, <5>3 DEF Waits, Rested
      <4> QED BY <4>3, <4>4, <4>5
    <3> QED BY <3>1, <3>2
  <2> QED BY <2>1, <2>2 DEF Sweep, Statement
<1> QED BY <1>6, <1>8 DEF Spaced

LEMMA SpacedClaim ==
    ASSUME Typed, Held, Counted, Spaced, NEW c \in Dispatchers, Claim(c)
    PROVE  Spaced'
<1>1. CycleFits(cycle[c]) /\ cycle[c] \in Cycle /\ cycle[c].pc = "claim"
  BY DEF Typed, CyclesFit, CycleFits, Claim, At
<1>2. PICK S \in Batches(c) :
          \/ ClaimRows(S) /\ (\/ Move(c, Idle)
                             \/ Move(c, [cycle[c] EXCEPT !.pc = "load",
                                                         !.todo = Claimed(S)]))
          \/ UNCHANGED tables /\ Move(c, Idle)
  BY DEF Claim, Statement
<1>3. \A d \in S : /\ d \in Ids /\ delivery[d].status \in {"pending", "failed"}
                   /\ delivery[d].wait <= -cycle[c].elapsed
  BY DEF Batches, Due
<1>4. UNCHANGED post /\ SamePosts BY PostsUntouched DEF Claim
<1>5. RowsWait'
  <2>1. CASE UNCHANGED tables BY <1>4, <2>1, WaitsKept DEF tables, RowsWait
  <2>2. CASE ClaimRows(S)
    <3> SUFFICES ASSUME NEW d \in Ids PROVE Waits(d)' BY DEF RowsWait
    <3>1. delivery[d] \in Delivery BY DEF Typed, RowsFit
    <3>2. CASE d \in S
      <4>1. delivery'[d].status = "in_flight"
        BY <2>2, <3>1, <3>2 DEF ClaimRows, Delivery
      <4> QED BY <1>4, <4>1, WaitsKept
    <3>3. CASE d \notin S
      <4>1. delivery'[d] = delivery[d] BY <2>2, <3>3 DEF ClaimRows
      <4> QED BY <1>4, <4>1, WaitsKept
    <3> QED BY <3>2, <3>3
  <2> QED BY <1>2, <2>1, <2>2
<1>6. CyclesPaced'
  <2>1. CASE Move(c, Idle)
    BY <1>1, <1>4, <2>1, IdleShrinks, IdleResult, UntryingKept
     DEF Untrying, Steps, Disabling
  <2>2. CASE Move(c, [cycle[c] EXCEPT !.pc = "load", !.todo = Claimed(S)])
    <3> SUFFICES ASSUME NEW b \in Dispatchers, NEW r \in Claims, Owns(b, r)'
                 PROVE  Paced(b, r)'
      BY DEF CyclesPaced
    <3>1. cycle'[c] = [[cycle[c] EXCEPT !.pc = "load", !.todo = Claimed(S)]
                          EXCEPT !.busy = 0]
          /\ \A a \in Dispatchers \ {c} : cycle'[a] = cycle[a]
      BY <2>2 DEF Move, Typed, CyclesFit
    <3>2. CASE b = c
      <4>1. /\ cycle'[c].todo = Claimed(S) /\ cycle'[c].pc = "load"
            /\ cycle'[c].elapsed = cycle[c].elapsed
        BY <1>1, <3>1 DEF Cycle
      <4>2. r.id \in S BY <3>2, <4>1 DEF Owns, Claimed
      <4>3. r.id \in Ids /\ Rested(r.id, delivery[r.id].wait)
        BY <1>3, <4>2 DEF Spaced, RowsWait, Waits
      <4>4. -cycle[c].elapsed \in Int BY <1>1 DEF Cycle
      <4>5. Rested(r.id, -cycle[c].elapsed)
        BY <1>3, <4>2, <4>3, <4>4, WaitingPosted, RestedLonger
      <4> QED BY <1>4, <3>2, <4>1, <4>5 DEF Paced, Tried, Rested
    <3>3. CASE b # c
      <4>1. cycle'[b] = cycle[b] BY <3>1, <3>3
      <4>2. Paced(b, r) BY <4>1 DEF Owns, Spaced, CyclesPaced
      <4> QED BY <1>4, <4>1, <4>2 DEF Paced, Recent, Condemned, Tried, Rested
    <3> QED BY <3>2, <3>3
  <2> QED BY <1>2, <2>1, <2>2
<1> QED BY <1>5, <1>6 DEF Spaced

LEMMA SpacedDrop ==
    ASSUME Typed, Held, Counted, Spaced, NEW c \in Dispatchers, Drop(c)
    PROVE  Spaced'
<1> DEFINE d == cycle[c].row.id
<1>1. cycle[c].pc = "drop" /\ NextRow(c) BY DEF Drop, At, Statement
<1>2. SamePosts BY PostsUntouched DEF Drop
<1>3. CyclesPaced'
  BY <1>1, <1>2, NextRowShrinks, NextRowResult, UntryingKept
     DEF Untrying, Steps, Disabling
<1>4. d \in Ids
  BY <1>1, RowHeld, OwnsClaims DEF RowSteps, Disabling
<1>5. \A e \in Ids : delivery'[e] = delivery[e] \/ delivery'[e].status = "dead"
  BY <1>4 DEF Drop, Statement, tables, Typed, RowsFit, Delivery
<1>6. RowsWait' BY <1>2, <1>5, WaitsKept DEF RowsWait
<1> QED BY <1>3, <1>6 DEF Spaced

(* A POST goes out: the row was rested, and is now posted most recently.      *)
LEMMA SpacedPost ==
    ASSUME Typed, Held, Counted, Spaced, NEW c \in Dispatchers, Resolve(c),
           Goto(c, "post"), Posted(cycle[c].row.id)
    PROVE  Spaced'
<1> DEFINE r == cycle[c].row
<1>1. cycle[c].pc = "resolve" BY DEF Resolve, At
<1>2. Owns(c, r) /\ ~Tried(c, r) BY <1>1, RowHeld DEF RowSteps, Tried, Disabling
<1>3. r \in Claims /\ r.id \in Ids /\ delivery[r.id].status = "in_flight"
  BY <1>2, HeldRowCounted
<1>4. Goto(c, "post") OBVIOUS
<1>5. /\ \A d \in Ids \ {r.id} : post'[d] = post[d]
      /\ post'[r.id].since = 0 /\ post'[r.id].count > 0
  BY <1>3 DEF Typed, PostsFit, Posted
<1>6. UNCHANGED delivery BY DEF Resolve, tables
<1>7. RowsWait'
  <2> SUFFICES ASSUME NEW d \in Ids PROVE Waits(d)' BY DEF RowsWait
  <2>1. CASE d = r.id BY <1>3, <1>6, <2>1 DEF Waits
  <2>2. CASE d # r.id
    <3>1. Waits(d) BY DEF Spaced, RowsWait
    <3> QED BY <1>5, <1>6, <2>2, <3>1 DEF Waits, Rested
  <2> QED BY <2>1, <2>2
<1>8. cycle[c].elapsed \in Nat /\ cycle[c].elapsed <= Loss
  <2>1. OnTime(cycle[c]) /\ cycle[c] \in Cycle
    BY DEF Held, Timely, Typed, CyclesFit
  <2>2. Budget \in Nat /\ Timeout \in Nat /\ Latency \in Nat /\ Lookup \in Nat
    BY WebhookAssumption
  <2>3. /\ cycle[c].elapsed \in Nat /\ cycle[c].lag \in Nat /\ cycle[c].busy \in Nat
        /\ cycle[c].lag <= Latency /\ cycle[c].busy <= Lookup
        /\ cycle[c].elapsed - cycle[c].lag
             <= Budget - Timeout - 1 + Latency + cycle[c].busy
    BY <1>1, <2>1 DEF OnTime, Limit, Cycle, Ran, LastPick
  <2> QED BY <2>2, <2>3 DEF Loss
<1>9. ASSUME NEW b \in Dispatchers, NEW s \in Claims, Owns(b, s)'
      PROVE  Paced(b, s)'
  <2>1. /\ Owns(b, s) /\ s.id \in Ids /\ cycle'[b].elapsed = cycle[b].elapsed
    BY <1>1, <1>4, <1>9, GotoShrinks, OthersOwn DEF Claims, Steps, Disabling
  <2>2. CycleFits(cycle[c]) /\ cycle[c] \in Cycle BY DEF Typed, CyclesFit
  <2>3. /\ cycle'[c].pc = "post" /\ cycle'[c].row = r
        /\ \A a \in Dispatchers \ {c} : cycle'[a] = cycle[a]
    BY <1>4, GotoResult DEF Steps
  <2>4. CASE b = c /\ s = r
    <3>1. Tried(b, s)' BY <2>3, <2>4 DEF Tried
    <3>2. post'[s.id].since = 0 /\ post'[s.id].count > 0 BY <1>5, <2>4
    <3> QED BY <1>8, <2>1, <2>4, <3>1, <3>2, Losses DEF Paced, Recent
  <2>5. CASE ~(b = c /\ s = r)
    <3>1. s.id # r.id
      <4>1. CASE b = c
        <5>1. s \in cycle[c].todo /\ r \in cycle[c].todo
          BY <1>2, <2>1, <4>1 DEF Owns
        <5> QED BY <2>2, <2>5, <4>1, <5>1 DEF CycleFits
      <4>2. CASE b # c BY <1>2, <1>3, <2>1, <4>2 DEF Held, Apart
      <4> QED BY <4>1, <4>2
    <3>2. Tried(b, s)' <=> Tried(b, s)
      <4>1. CASE b = c BY <1>1, <2>3, <2>5, <4>1 DEF Tried
      <4>2. CASE b # c
        <5>1. cycle'[b] = cycle[b] BY <2>3, <4>2
        <5> QED BY <5>1 DEF Tried
      <4> QED BY <4>1, <4>2
    <3>3. Paced(b, s) BY <2>1 DEF Spaced, CyclesPaced
    <3>4. post'[s.id] = post[s.id] BY <1>5, <2>1, <3>1
    <3>5. Tried(b, s) => (Condemned(b)' <=> Condemned(b))
      <4>1. CASE b = c BY <1>1, <4>1 DEF Tried
      <4>2. CASE b # c
        <5>1. cycle'[b] = cycle[b] BY <2>3, <4>2
        <5> QED BY <5>1 DEF Condemned
      <4> QED BY <4>1, <4>2
    <3> QED BY <2>1, <3>2, <3>3, <3>4, <3>5 DEF Paced, Recent, Rested
  <2> QED BY <2>4, <2>5
<1>10. CyclesPaced' BY <1>9 DEF CyclesPaced
<1> QED BY <1>7, <1>10 DEF Spaced

LEMMA SpacedResolve ==
    ASSUME Typed, Held, Counted, Spaced, NEW c \in Dispatchers, Resolve(c), Shrinks(c)
    PROVE  Spaced'
<1>1. CASE Goto(c, "post") /\ Posted(cycle[c].row.id) BY <1>1, SpacedPost
<1>2. ASSUME Found(c, "dead"), NEW v,
             post' = [post EXCEPT ![cycle[c].row.id].verdict = v]
      PROVE  Spaced'
  <2>1. SamePosts BY <1>2 DEF SamePosts, Typed, PostsFit
  <2>2. UNCHANGED delivery BY DEF Resolve, tables
  <2>3. RowsWait' BY <2>1, <2>2, WaitsKept DEF RowsWait
  <2>4. /\ cycle[c].pc = "resolve" /\ Condemned(c)'
        /\ cycle'[c].row = cycle[c].row
    BY <1>2, FoundResult DEF Resolve, At, Outcomes, Condemned
  <2>5. ASSUME NEW b \in Dispatchers, NEW s \in Claims, Owns(b, s)'
        PROVE  Paced(b, s)'
    <3>1. Owns(b, s) /\ s.id \in Ids /\ cycle'[b].elapsed = cycle[b].elapsed
      BY <2>5, OthersOwn DEF Claims
    <3>2. Paced(b, s) BY <3>1 DEF Spaced, CyclesPaced
    <3>3. CASE b = c /\ Tried(b, s)' BY <2>4, <3>3 DEF Paced
    <3>4. CASE b = c /\ ~Tried(b, s)'
      <4>1. ~Tried(b, s) BY <2>4, <3>4 DEF Tried
      <4> QED BY <2>1, <3>1, <3>2, <3>4, <4>1 DEF Paced, Rested, SamePosts
    <3>5. CASE b # c
      <4>1. cycle'[b] = cycle[b] BY <3>5 DEF Shrinks
      <4> QED BY <2>1, <3>1, <3>2, <4>1
           DEF Paced, Recent, Condemned, Tried, Rested, SamePosts
    <3> QED BY <3>3, <3>4, <3>5
  <2>6. CyclesPaced' BY <2>5 DEF CyclesPaced
  <2> QED BY <2>3, <2>6 DEF Spaced
<1> QED BY <1>1, <1>2 DEF Resolve, Posted

LEMMA SpacedRecord ==
    ASSUME Typed, Held, Counted, Spaced, NEW c \in Dispatchers, Record(c)
    PROVE  Spaced'
<1> DEFINE r == cycle[c].row
           o == cycle[c].outcome
           a == r.attempts + 1
<1>1. cycle[c].pc = "record" BY DEF Record, At
<1>2. Owns(c, r) /\ Tried(c, r) BY <1>1, RowHeld DEF RowSteps, Tried, Disabling
<1>3. Goto(c, "snapshot") \/ NextRow(c) BY DEF Record, Statement
<1>4. UNCHANGED post /\ SamePosts BY PostsUntouched DEF Record
<1>5. /\ Shrinks(c)
      /\ \A s \in Claims : Owns(c, s)' => s \in cycle[c].todo \ {r}
      /\ cycle'[c].pc \in Untrying
  BY <1>1, <1>3, GotoShrinks, NextRowShrinks, GotoResult, NextRowResult
     DEF Steps, Untrying, Disabling
<1>6. CyclesPaced' BY <1>4, <1>5, PacedKept DEF Tried, Untrying
<1>7. /\ delivery[r.id] \in Delivery /\ r.id \in Ids
      /\ r.attempts \in Nat /\ r.attempts < MaxAttempts /\ MaxAttempts \in Nat
      /\ post[r.id].count \in Nat /\ post[r.id].count <= a /\ a \in Nat \ {0}
  BY <1>2, HeldRowCounted
<1>8. \A e \in Ids \ {r.id} : delivery'[e] = delivery[e]
  BY DEF Record, Statement, tables, Typed, RowsFit
<1>9. delivery'[r.id] = delivery[r.id]
      \/ delivery'[r.id] = Result(c, delivery[r.id], o)
  BY <1>7 DEF Record, Statement, tables, Typed, RowsFit
<1>10. PICK d \in Ids : d = r.id BY <1>7
<1>11. Waits(d)'
  <2>1. CASE delivery'[d] = delivery[d] BY <1>4, <2>1, WaitsKept
  <2>2. CASE delivery'[d] = Result(c, delivery[d], o)
    <3>1. CASE o = "delivered" \/ o = "dead" \/ a >= MaxAttempts
      <4>1. delivery'[d].status \in {"delivered", "dead"}
        BY <1>7, <1>10, <2>2, <3>1 DEF Result, Delivery
      <4> QED BY <1>4, <4>1, WaitsKept
    <3>2. CASE ~(o = "delivered" \/ o = "dead" \/ a >= MaxAttempts)
      <4>1. delivery'[d].wait = Later(c, Backoff[r.attempts])
        BY <1>7, <1>10, <2>2, <3>2 DEF Result, Delivery
      <4>2. r.attempts = a - 1 /\ a < MaxAttempts BY <1>7, <3>2
      <4>3. post[d].since = MaxWait \/ cycle[c].elapsed <= post[d].since + Loss
        BY <1>2, <1>10, <3>2, OwnsClaims DEF Spaced, CyclesPaced, Paced, Recent, Condemned
      <4> HIDE DEF a, r
      <4>4. Rested(d, Later(c, Backoff[a - 1]))
        BY <1>7, <1>10, <4>2, <4>3, RestedLater
      <4>5. Rested(d, delivery'[d].wait) BY <4>1, <4>2, <4>4
      <4> QED BY <1>4, <4>5 DEF Waits, Rested
    <3> QED BY <3>1, <3>2
  <2> QED BY <1>9, <1>10, <2>1, <2>2
<1>12. ASSUME NEW e \in Ids PROVE Waits(e)'
  <2>1. CASE e = d BY <1>11, <2>1
  <2>2. CASE e # d BY <1>4, <1>8, <1>10, <2>2, WaitsKept
  <2> QED BY <2>1, <2>2
<1>13. RowsWait' BY <1>12 DEF RowsWait
<1> QED BY <1>6, <1>13 DEF Spaced

LEMMA SpacedRelease ==
    ASSUME Typed, Held, Counted, Spaced, NEW c \in Dispatchers, Release(c)
    PROVE  Spaced'
<1> DEFINE rest == cycle[c].todo \ Group(c)
           q == [cycle[c] EXCEPT !.todo = rest]
<1>1. cycle[c] \in Cycle /\ cycle[c].pc = "release"
  BY DEF Typed, CyclesFit, Release, At
<1>2. q \in Cycle /\ q.pc = "release" BY <1>1 DEF Cycle
<1>3. IF rest = {} THEN Move(c, Idle) ELSE Move(c, q)
  BY DEF Release, Statement, Group, Fresh
<1>4. cycle'[c].pc \in {"idle", "release"}
  <2> HIDE DEF q
  <2> QED BY <1>2, <1>3, IdleResult, MoveResult
<1>5. UNCHANGED post /\ SamePosts BY PostsUntouched DEF Release
<1>6. CyclesPaced'
  BY <1>1, <1>4, <1>5, ReleaseEffect, UntryingKept DEF Untrying, Steps
<1>7. RowsWait'
  <2> SUFFICES ASSUME NEW d \in Ids PROVE Waits(d)' BY DEF RowsWait
  <2>1. CASE delivery'[d] = delivery[d] BY <1>5, <2>1, WaitsKept
  <2>2. ASSUME NEW r \in Group(c), r.id = d,
               delivery'[d] = Released(c, delivery[d], r.attempts)
        PROVE  Waits(d)'
    <3>1. Owns(c, r) /\ ~Tried(c, r) BY <1>1, ReleaseEffect DEF Tried
    <3>2. /\ r \in Claims /\ delivery[d] \in Delivery
          /\ post[d].count \in Nat /\ MaxAttempts \in Nat /\ r.attempts \in Nat
          /\ post[d].count <= r.attempts /\ r.attempts < MaxAttempts
      BY <2>2, <3>1, HeldRowCounted
    <3>3. Rested(d, -cycle[c].elapsed)
      BY <2>2, <3>1, <3>2 DEF Spaced, CyclesPaced, Paced
    <3>4. /\ -cycle[c].elapsed \in Int /\ Later(c, 0) \in Int
          /\ -cycle[c].elapsed <= Later(c, 0)
      BY <1>1, Losses DEF Later, Cycle
    <3>5. post[d].count < MaxAttempts BY <3>2
    <3>6. Rested(d, Later(c, 0)) BY <3>3, <3>4, <3>5, RestedLonger
    <3>7. delivery'[d].wait = Later(c, 0) BY <2>2, <3>2 DEF Released, Delivery
    <3> QED BY <1>5, <3>6, <3>7 DEF Waits, Rested
  <2> QED BY <2>1, <2>2, ReleaseEffect
<1> QED BY <1>6, <1>7 DEF Spaced

LEMMA SpacedOthers ==
    ASSUME Typed, Held, Counted, Spaced,
           \/ FanOut \/ InsertDeliveries \/ UNCHANGED vars
           \/ \E h \in Hooks : TestHook(h) \/ SetActive(h) \/ DeleteHook(h)
           \/ \E d \in Ids : Retry(d)
    PROVE  Spaced'
<1>1. UNCHANGED <<cycle, post>>
  BY DEF FanOut, InsertDeliveries, vars, TestHook, SetActive, DeleteHook, Retry, Read
<1>2. CyclesPaced'
  BY <1>1 DEF Spaced, CyclesPaced, Owns, Paced, Recent, Condemned, Tried, Rested
<1>3. SamePosts BY <1>1, PostsUntouched
<1>4. RowsWait'
  <2>1. CASE UNCHANGED delivery BY <1>3, <2>1, WaitsKept DEF RowsWait
  <2>2. CASE InsertDeliveries
    <3>1. ASSUME NEW new \in Injection(emit, Free),
                 delivery' = [d \in Ids |->
                  IF \E h \in emit : new[h] = d
                  THEN [NoDelivery EXCEPT !.status = "pending", !.wait = 0,
                          !.hook = CHOOSE h \in emit : new[h] = d]
                  ELSE delivery[d]]
          PROVE  RowsWait'
      <4> SUFFICES ASSUME NEW d \in Ids PROVE Waits(d)' BY DEF RowsWait
      <4>1. CASE \E h \in emit : new[h] = d
        <5>1. new \in [emit -> Free] BY DEF Injection
        <5>2. d \in Free BY <4>1, <5>1
        <5>3. post[d].count = 0
          BY <5>2 DEF Free, Present, Counted, RowsCounted, RowCounted
        <5> QED BY <1>1, <5>3 DEF Waits, Rested
      <4>2. CASE ~\E h \in emit : new[h] = d
        <5>1. delivery'[d] = delivery[d] BY <3>1, <4>2
        <5> QED BY <1>3, <5>1, WaitsKept
      <4> QED BY <4>1, <4>2
    <3> QED BY <2>1, <2>2, <3>1 DEF InsertDeliveries
  <2>3. ASSUME NEW h \in Hooks, DeleteHook(h) PROVE RowsWait'
    <3>1. \A d \in Ids : /\ delivery'[d].status = delivery[d].status
                        /\ delivery'[d].wait = delivery[d].wait
      BY <2>3 DEF DeleteHook, Typed, RowsFit, Delivery
    <3> QED BY <1>3, <3>1, WaitsKept DEF RowsWait
  <2> QED BY <2>1, <2>2, <2>3
       DEF FanOut, vars, TestHook, SetActive, Retry, Read, tables
<1> QED BY <1>2, <1>4 DEF Spaced

LEMMA TickPosts ==
    ASSUME Typed, Tick, NEW d \in Ids
    PROVE  /\ post[d].count \in Nat /\ post[d].since \in Int /\ MaxWait \in Nat
           /\ post'[d].count = post[d].count
           /\ post[d].count > 0 =>
                 \/ post[d].since = MaxWait /\ post'[d].since = MaxWait
                 \/ post[d].since # MaxWait /\ post'[d].since = post[d].since + 1
<1> DEFINE t == IF post[d].count = 0 THEN 0 ELSE Older(post[d].since, MaxWait)
<1>1. post'[d] = [post[d] EXCEPT !.since = t] BY DEF Tick
<1>2. post[d] \in [count : Nat, since : 0..MaxWait, verdict : Verdicts]
  BY DEF Typed, PostsFit
<1>3. /\ post[d].count \in Nat /\ post[d].since \in Int /\ MaxWait \in Nat
      /\ post[d].since <= MaxWait
  BY <1>2, Constants
<1>4. post'[d].count = post[d].count /\ post'[d].since = t
  <2> HIDE DEF t
  <2> QED BY <1>1, <1>2
<1>5. ASSUME post[d].count > 0
      PROVE  \/ post[d].since = MaxWait /\ t = MaxWait
             \/ post[d].since # MaxWait /\ t = post[d].since + 1
  <2>1. t = Older(post[d].since, MaxWait) BY <1>3, <1>5
  <2> QED BY <1>3, <2>1 DEF Older
<1> QED BY <1>3, <1>4, <1>5

(* A unit of time: who waits comes closer to its turn as it rests longer, and *)
(* a cycle moves on from its now as its rows do.                              *)
LEMMA SpacedTick ==
    ASSUME Typed, Held, Counted, Spaced, Tick
    PROVE  Spaced'
<1>3. \A d \in Ids : /\ delivery[d].wait \in Int
                    /\ delivery'[d].status = delivery[d].status
                    /\ delivery'[d].wait \in Int
                    /\ delivery'[d].wait >= delivery[d].wait - 1
  <2> SUFFICES ASSUME NEW d \in Ids
               PROVE  /\ delivery[d].wait \in Int
                      /\ delivery'[d].status = delivery[d].status
                      /\ delivery'[d].wait \in Int
                      /\ delivery'[d].wait >= delivery[d].wait - 1
    OBVIOUS
  <2> DEFINE w == IF delivery[d].wait > Stale THEN delivery[d].wait - 1 ELSE Stale
             q == [delivery[d] EXCEPT !.wait = w]
  <2>1. delivery'[d] = [q EXCEPT !.age = IF delivery[d].status = "in_flight"
                                        THEN Older(@, MaxAge) ELSE @]
    BY DEF Tick
  <2>2. /\ delivery[d].wait \in Int /\ delivery[d].wait >= Stale
        /\ q.status = delivery[d].status /\ q.wait = w
        /\ DOMAIN q = {"status", "attempts", "hook", "wait", "age"}
    BY Constants DEF Typed, RowsFit, Delivery
  <2>3. w \in Int /\ w >= delivery[d].wait - 1 BY <2>2, Constants
  <2> HIDE DEF q, w
  <2> QED BY <2>1, <2>2, <2>3
<1>4. RowsWait'
  <2> SUFFICES ASSUME NEW d \in Ids PROVE Waits(d)' BY DEF RowsWait
  <2> SUFFICES ASSUME delivery[d].status \in {"pending", "failed"},
                      post[d].count > 0, post'[d].since # MaxWait
               PROVE  post'[d].since + delivery'[d].wait + Loss
                         >= Backoff[post[d].count - 1]
    <3>1. post'[d].count = post[d].count /\ delivery'[d].status = delivery[d].status
      BY <1>3, TickPosts
    <3> QED BY <3>1 DEF Waits, Rested
  <2>1. /\ post'[d].since = post[d].since + 1 /\ post[d].since \in Int
        /\ post[d].since # MaxWait
    BY TickPosts
  <2>2. Waits(d) BY DEF Spaced, RowsWait
  <2>3. post[d].since + delivery[d].wait + Loss >= Backoff[post[d].count - 1]
    BY <2>1, <2>2 DEF Waits, Rested
  <2>4. post[d].count \in Nat \ {0} /\ post[d].count < MaxAttempts
    BY WaitingPosted
  <2>5. Backoff[post[d].count - 1] \in Nat BY <2>4, NextBackoff
  <2>6. /\ delivery[d].wait \in Int /\ delivery'[d].wait \in Int
        /\ delivery'[d].wait >= delivery[d].wait - 1
    BY <1>3
  <2> QED BY <2>1, <2>3, <2>5, <2>6, Losses
<1>5. \A c \in Dispatchers : \A r \in Claims : Owns(c, r)' =>
          /\ Owns(c, r) /\ (Tried(c, r)' <=> Tried(c, r))
          /\ Condemned(c)' <=> Condemned(c)
          /\ cycle[c].elapsed \in Nat /\ cycle'[c].elapsed = cycle[c].elapsed + 1
  <2> SUFFICES ASSUME NEW c \in Dispatchers
               PROVE  \A r \in Claims : Owns(c, r)' =>
                         /\ Owns(c, r) /\ (Tried(c, r)' <=> Tried(c, r))
                         /\ Condemned(c)' <=> Condemned(c)
                         /\ cycle[c].elapsed \in Nat
                         /\ cycle'[c].elapsed = cycle[c].elapsed + 1
    OBVIOUS
  <2>1. cycle[c] \in Cycle BY DEF Typed, CyclesFit
  <2>2. CASE cycle[c].pc = "idle"
    <3>1. cycle'[c] = Idle BY <2>2 DEF Tick
    <3> QED BY <3>1 DEF Owns, Idle
  <2>3. CASE cycle[c].pc # "idle"
    <3> DEFINE q == [cycle[c] EXCEPT !.busy = @ + 1]
    <3>1. cycle'[c] = [q EXCEPT !.elapsed = @ + 1] BY <2>3 DEF Tick
    <3>2. q \in Cycle /\ q.todo = cycle[c].todo /\ q.pc = cycle[c].pc
          /\ q.row = cycle[c].row /\ q.elapsed = cycle[c].elapsed
          /\ q.outcome = cycle[c].outcome
      BY <2>1 DEF Cycle
    <3> HIDE DEF q
    <3> QED BY <2>1, <3>1, <3>2 DEF Owns, Tried, Condemned, Cycle
  <2> QED BY <2>2, <2>3
<1>6. CyclesPaced'
  <2> SUFFICES ASSUME NEW c \in Dispatchers, NEW r \in Claims, Owns(c, r)'
               PROVE  Paced(c, r)'
    BY DEF CyclesPaced
  <2>1. /\ Owns(c, r) /\ (Tried(c, r)' <=> Tried(c, r))
        /\ Condemned(c)' <=> Condemned(c)
        /\ cycle[c].elapsed \in Nat /\ cycle'[c].elapsed = cycle[c].elapsed + 1
    BY <1>5
  <2>2. Paced(c, r) BY <2>1 DEF Spaced, CyclesPaced
  <2>3. PICK d \in Ids : d = r.id BY DEF Claims
  <2>4. /\ post[d].count \in Nat /\ post[d].since \in Int /\ MaxWait \in Nat
        /\ post'[d].count = post[d].count
        /\ post[d].count > 0 =>
              \/ post[d].since = MaxWait /\ post'[d].since = MaxWait
              \/ post[d].since # MaxWait /\ post'[d].since = post[d].since + 1
    BY TickPosts
  <2>5. CASE Tried(c, r) /\ Condemned(c) BY <2>1, <2>5 DEF Paced
  <2>6. CASE Tried(c, r) /\ ~Condemned(c)
    <3>1. /\ post[d].count > 0
          /\ post[d].since = MaxWait \/ cycle[c].elapsed <= post[d].since + Loss
      BY <2>2, <2>3, <2>6 DEF Paced, Recent
    <3>2. post'[d].since = MaxWait \/ cycle'[c].elapsed <= post'[d].since + Loss
      <4>1. CASE post[d].since = MaxWait BY <2>4, <3>1, <4>1
      <4>2. CASE post[d].since # MaxWait BY <2>1, <2>4, <3>1, <4>2, Losses
      <4> QED BY <4>1, <4>2
    <3> QED BY <2>1, <2>3, <2>4, <2>6, <3>1, <3>2 DEF Paced, Recent
  <2>7. CASE ~Tried(c, r)
    <3>1. SUFFICES Rested(d, -cycle[c].elapsed)' BY <2>1, <2>3, <2>7 DEF Paced
    <3>2. SUFFICES ASSUME post[d].count > 0, post'[d].since # MaxWait
                   PROVE  post'[d].since + (-cycle'[c].elapsed) + Loss
                             >= Backoff[post[d].count - 1]
      BY <2>4 DEF Rested
    <3>3. post'[d].since = post[d].since + 1 /\ post[d].since # MaxWait
      BY <2>4, <3>2
    <3>4. post[d].since + (-cycle[c].elapsed) + Loss >= Backoff[post[d].count - 1]
      BY <2>2, <2>3, <2>7, <3>2, <3>3 DEF Paced, Rested
    <3>5. post[d].count \in Nat \ {0} /\ post[d].count <= r.attempts
          /\ r.attempts \in Nat /\ r.attempts < MaxAttempts
      BY <2>1, <2>3, <2>4, <2>7, <3>2, HeldRowCounted
    <3>6. Backoff[post[d].count - 1] \in Nat BY <3>5, NextBackoff
    <3> QED BY <2>1, <2>4, <3>3, <3>4, <3>6, Losses
  <2> QED BY <2>5, <2>6, <2>7
<1> QED BY <1>4, <1>6 DEF Spaced

LEMMA SpacedStep == Typed /\ Held /\ Counted /\ Spaced /\ [Next]_vars => Spaced'
<1> SUFFICES ASSUME Typed, Held, Counted, Spaced, [Next]_vars PROVE Spaced' OBVIOUS
<1>1. ASSUME NEW c \in Dispatchers, Start(c) \/ Advance(c) \/ Crash(c)
      PROVE  Spaced'
  <2>1. CASE \/ Start(c) \/ LoadWebhooks(c) \/ Pick(c) \/ GiveUp(c) \/ Answer(c)
             \/ Crash(c)
    BY <2>1, HeldQuietly, SpacedQuietly
  <2>2. CASE Touch(c)
    <3>1. cycle[c].pc = "touch" /\ (Goto(c, "resolve") \/ NextRow(c))
      BY <2>2 DEF Touch, At
    <3>2. Shrinks(c) BY <3>1, GotoShrinks, NextRowShrinks DEF Steps, Disabling
    <3> QED BY <2>2, <3>2, SpacedQuietly
  <2>3. CASE Resolve(c) BY <2>3, HeldQuietly, SpacedResolve
  <2>4. CASE Snapshot(c) \/ Disable(c) \/ Audit(c)
    BY <2>4, DisablingShrinks, SpacedQuietly
  <2> QED BY <1>1, <2>1, <2>2, <2>3, <2>4, SpacedSweep, SpacedClaim, SpacedDrop,
          SpacedRecord, SpacedRelease DEF Advance
<1> QED BY <1>1, SpacedOthers, SpacedTick DEF Next

LEMMA SpacedAlways ==
    ASSUME WindowFits
    PROVE  Spec => []Spaced
<1>1. Spec => []Held BY HeldAlways
<1>2. Spec => []Counted BY CountedAlways
<1>3. Typed /\ Held /\ Counted /\ Spaced /\ [Next]_vars => Spaced' BY SpacedStep
<1> QED BY <1>1, <1>2, <1>3, TypedAlways, SpacedInit, PTL DEF Spec

(* Only a resolved name lets a POST go out.                                   *)
LEMMA OnlyResolvePosts ==
    ASSUME Typed, [Next]_vars, NEW d \in Ids, post'[d].count > post[d].count
    PROVE  \E c \in Dispatchers : Resolve(c)
<1>1. post[d].count \in Nat BY DEF Typed, PostsFit
<1>2. UNCHANGED post => FALSE BY <1>1
<1>3. ASSUME NEW c \in Dispatchers, Answer(c) PROVE FALSE
  <2>1. PICK o \in Outcomes :
            post' = [post EXCEPT ![cycle[c].row.id].verdict =
                        IF o = "dead" THEN "dead" ELSE "none"]
    BY <1>3 DEF Answer
  <2> QED BY <1>1, <2>1 DEF Typed, PostsFit
<1>4. CASE Tick BY <1>1, <1>4, TickPosts
<1>5. ASSUME NEW c \in Dispatchers, Start(c) \/ Advance(c) \/ Crash(c)
      PROVE  Resolve(c)
  BY <1>2, <1>3, <1>5
     DEF Advance, Start, Crash, Sweep, Claim, LoadWebhooks, Pick, GiveUp, Drop, Touch,
         Record, Snapshot, Disable, Audit, Release
<1>6. CASE UNCHANGED vars BY <1>2, <1>6 DEF vars
<1> QED BY <1>2, <1>4, <1>5, <1>6
     DEF Next, FanOut, TestHook, Retry, Read, InsertDeliveries, SetActive, DeleteHook

(* Who is posted again had rested.                                            *)
LEMMA RestedBeforePost ==
    ASSUME Typed, Held, Counted, Spaced, [Next]_vars, NEW d \in Ids,
           post'[d].count > post[d].count, post[d].count > 0
    PROVE  post[d].since + Loss >= Backoff[post[d].count - 1]
<1>1. PICK c \in Dispatchers : Resolve(c) BY OnlyResolvePosts
<1> DEFINE r == cycle[c].row
<1>2. cycle[c].pc = "resolve" BY <1>1 DEF Resolve, At
<1>3. Owns(c, r) /\ ~Tried(c, r) BY <1>2, RowHeld DEF RowSteps, Tried, Disabling
<1>4. /\ r \in Claims /\ r.id \in Ids /\ r.attempts \in Nat
      /\ r.attempts < MaxAttempts /\ post[r.id].count \in Nat
      /\ post[r.id].count <= r.attempts /\ MaxAttempts \in Nat
  BY <1>3, HeldRowCounted
<1>5. d = r.id
  <2>1. SUFFICES ASSUME d # r.id PROVE FALSE OBVIOUS
  <2>2. post'[d] = post[d]
    BY <1>1, <1>4, <2>1 DEF Resolve, Typed, PostsFit
  <2>3. post[d].count \in Nat BY DEF Typed, PostsFit
  <2> QED BY <2>2, <2>3
<1>6. Rested(d, -cycle[c].elapsed)
  BY <1>3, <1>4, <1>5 DEF Spaced, CyclesPaced, Paced
<1>7. /\ Backoff[post[d].count - 1] \in Nat /\ Backoff[post[d].count - 1] <= MaxWait
  <2>1. post[d].count \in Nat \ {0} /\ post[d].count < MaxAttempts
    BY <1>4, <1>5
  <2> QED BY <2>1, NextBackoff
<1>8. post[d].since \in Int /\ cycle[c].elapsed \in Nat
  BY Constants DEF Typed, PostsFit, CyclesFit, Cycle
<1> QED BY <1>6, <1>7, <1>8, Losses DEF Rested

(* Where the window fits, a delivery is posted again no earlier than its      *)
(* back-off, less the time a cycle can have run before it posts, the          *)
(* resolution of the name included; whatever crashes, lost replies, sweeps and*)
(* releases lie between the two POSTs, and for every back-off table, budget,  *)
(* timeout and latency within the assumption.                                 *)
THEOREM BackoffKept ==
    ASSUME WindowFits
    PROVE  Spec => BackoffNearlyKept
<1>1. Typed /\ Held /\ Counted /\ Spaced /\ [Next]_vars =>
        [\A d \in Ids :
            post'[d].count > post[d].count /\ post[d].count > 0
                => post[d].since + Loss >= Backoff[post[d].count - 1]]_vars
  BY RestedBeforePost
<1>2. Spec => []Held BY HeldAlways
<1>3. Spec => []Counted BY CountedAlways
<1>4. Spec => []Spaced BY SpacedAlways
<1> QED BY <1>1, <1>2, <1>3, <1>4, TypedAlways, PTL DEF Spec, BackoffNearlyKept
================================================================================
