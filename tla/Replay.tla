------------------------------- MODULE Replay -------------------------------
(***************************************************************************)
(* State-sync replication of one scope: the engine that loads a            *)
(* checkpoint, checks the source's tail, scans, applies and serves (core   *)
(* replication/session.rs, session/step.rs, tick.rs, idle.rs,              *)
(* bootstrap.rs), the driver that executes its effects one at a time       *)
(* (consistency replication/shell/driver.rs, driver/worker.rs), and the    *)
(* handle through which applications read and authority is given and       *)
(* revoked (shell.rs), with the fence that install permits pass (fence.rs).*)
(*                                                                         *)
(* Positions of the one history are integers.  The handle's calls run      *)
(* beside the driver: set_authority takes one step per atomic store, the   *)
(* driver's accepted tail and its publication likewise.  One caller        *)
(* changes the authority.  Application work whose call timed out goes on   *)
(* and may try to commit later.  Snapshots are the subject of SnapshotSync.*)
(***************************************************************************)
EXTENDS Integers, Sequences, FiniteSets

CONSTANTS
    Setups,
    TailCheck,   \* tail_check_ms: also how long a tail is fresh
    Attempt,     \* operation_ms
    RetryAfter,  \* retry_ms
    MaxRetries,
    QueueDepth   \* commands queued to the driver

Unknown == -1
Never == 1000

Setup ==
    [disk : Nat \cup {Unknown},  \* the durable checkpoint at the start
     head : Nat,                 \* the source's head at the start
     durable : BOOLEAN,          \* whether applies are durable
     idle : BOOLEAN,             \* an idle policy stretches the polling
     authority : SUBSET BOOLEAN, \* what the source says of its read authority
     max_time : Nat,             \* bounds
     max_head : Nat, hints : Nat, floors : Nat, revokes : Nat, faults : Nat,
     closes : Nat]

VARIABLES
    setup,
    now,
    source,   \* [head, low, past]: past[t], the head when t began
    eng,      \* SessionEngine
    drv,      \* the driver
    shared,   \* SessionShared: flags, fence, command queue
    pub,      \* what the driver published last
    caller,   \* where set_authority stands
    app,      \* [pos, disk]: the application's state and checkpoint
    held,     \* permits the application still holds
    used      \* how often each bounded event happened

vars == <<setup, now, source, eng, drv, shared, pub, caller, app, held, used>>

-----------------------------------------------------------------------------
(* The engine.  rev: an effect RevokeServing waits or runs.  phase says    *)
(* whether the outstanding operation was handed to its adapter.            *)

NewEngine ==
    [stage |-> "Unready", out |-> "none", phase |-> "none", due |-> Never, rev |-> "none",
     mat |-> Unknown, ckpt |-> Unknown, head |-> Unknown, auth |-> FALSE, batch |-> Unknown,
     fresh |-> 0, tail_due |-> 0, retry_due |-> Never, retries |-> 0, target |-> "Tail",
     floor |-> Unknown, pending |-> FALSE, ready |-> FALSE, mode |-> FALSE, hot |-> FALSE]

\* Stages that answer neither hints nor demands.
Closed == {"Cancelled", "RetryWait", "RetryExhausted", "NeedsSnapshot"}

CloseGate(e) == IF e.ready THEN [e EXCEPT !.ready = FALSE, !.rev = "queued"] ELSE e

Issue(e, stage) ==
    [e EXCEPT !.stage = stage, !.out = stage, !.phase = "queued", !.due = now + Attempt]

Settled(e) == [e EXCEPT !.out = "none", !.phase = "none", !.due = Never]

CheckTail(e) == Issue([CloseGate(e) EXCEPT !.pending = FALSE], "CheckingTail")

RequestTail(e) == IF e.out # "none" THEN [e EXCEPT !.pending = TRUE] ELSE CheckTail(e)

LoadCheckpoint(e) == Issue(e, "LoadingCheckpoint")

StartBootstrap(e) == LoadCheckpoint([e EXCEPT !.target = "Bootstrap"])

CheckpointLoaded(e, cursor) ==
    IF cursor = Unknown
    THEN CheckTail([Settled(e) EXCEPT !.target = "Tail"])
    ELSE [Issue(e, "InstallingCheckpoint") EXCEPT !.batch = cursor]

\* checkpoint_installed and resume_state: start over from a durable position.
CheckpointInstalled(e) ==
    CheckTail([Settled(CloseGate(e)) EXCEPT
                 !.mat = e.batch, !.ckpt = e.batch, !.head = Unknown, !.auth = FALSE,
                 !.batch = Unknown, !.target = "Tail", !.hot = TRUE, !.fresh = 0,
                 !.tail_due = 0, !.retries = 0, !.retry_due = Never, !.rev = "none",
                 !.pending = FALSE])

\* idle.rs: an unchanged tail may be polled later than it stays fresh.
Intervals(unchanged, e) ==
    IF setup.idle /\ unchanged /\ ~e.hot THEN {TailCheck, 2 * TailCheck} ELSE {TailCheck}

SetReadyOrWait(e) ==
    CASE e.mat < e.floor -> [e EXCEPT !.stage = "Unready"]
      [] e.mat >= e.floor /\ now >= e.fresh -> CheckTail(e)
      [] OTHER -> [e EXCEPT !.stage = "Ready", !.ready = TRUE, !.retries = 0]

\* Event::Tail with the position of the head, of the low end, the source's word on
\* its authority, and the interval the idle policy chose.
TailChecked(e, head, low, authority, interval) ==
    LET t == [Settled(e) EXCEPT !.head = head, !.auth = authority, !.pending = FALSE,
                                !.hot = FALSE, !.fresh = now + TailCheck,
                                !.tail_due = now + interval]
        r == SetReadyOrWait(t)
    IN  CASE e.mat = Unknown -> [Settled(e) EXCEPT !.stage = "NeedsSnapshot"]
          [] e.mat # Unknown /\ e.mat < low -> [t EXCEPT !.stage = "NeedsSnapshot"]
          [] e.mat >= low /\ e.mat < head -> Issue(t, "Scanning")
          [] OTHER -> IF e.pending /\ r.stage = "Ready" THEN CheckTail(r) ELSE r

Scanned(e, through) == [Issue(e, "Applying") EXCEPT !.batch = through]

Applied(e, durable) ==
    RequestTail([Settled(e) EXCEPT !.mat = e.batch, !.retries = 0, !.hot = TRUE,
                                   !.ckpt = IF durable THEN e.batch ELSE @,
                                   !.batch = Unknown])

Invalidated(e) == [e EXCEPT !.rev = "none"]

Failed(e) ==
    LET f == [Settled(CloseGate(e)) EXCEPT
                !.batch = Unknown, !.hot = TRUE, !.retries = @ + 1,
                !.target = IF e.stage \in {"LoadingCheckpoint", "InstallingCheckpoint"}
                           THEN "Bootstrap" ELSE "Tail"]
    IN  IF f.retries >= MaxRetries
        THEN [f EXCEPT !.stage = "RetryExhausted", !.retry_due = Never]
        ELSE [f EXCEPT !.stage = "RetryWait", !.retry_due = now + RetryAfter]

Hint(e) == IF e.stage \in Closed THEN e ELSE RequestTail([e EXCEPT !.hot = TRUE])

Demand(e, floor) ==
    IF e.stage \in Closed THEN e
    ELSE RequestTail([e EXCEPT !.floor = IF @ < floor THEN floor ELSE @, !.hot = TRUE])

Activity(e) ==
    LET h == [e EXCEPT !.hot = TRUE]
        earlier == IF now + TailCheck < e.fresh THEN now + TailCheck ELSE e.fresh
    IN  CASE e.stage \in Closed -> e
          [] e.stage = "CheckingTail" -> h
          [] e.stage \notin Closed \cup {"CheckingTail"}
             /\ (e.head = Unknown \/ ~e.ready \/ now >= e.fresh) -> RequestTail(h)
          [] OTHER -> [h EXCEPT !.tail_due = IF earlier < @ THEN earlier ELSE @]

Authority(e, allowed) ==
    LET a == [e EXCEPT !.mode = allowed, !.hot = @ \/ e.mode # allowed]
    IN  IF ~allowed THEN CloseGate(a)
        ELSE IF e.mode # allowed /\ e.mat # Unknown /\ e.stage \notin Closed
             THEN RequestTail(a) ELSE a

Cancel(e) ==
    CloseGate([Settled(e) EXCEPT !.stage = "Cancelled", !.head = Unknown, !.floor = Unknown,
                                 !.rev = "none", !.pending = FALSE, !.batch = Unknown,
                                 !.target = "Tail", !.auth = FALSE, !.retry_due = Never])

\* tick_replay: freshness first, then what is due.
Tick(e) ==
    LET f == IF e.ready /\ now >= e.fresh THEN CloseGate(e) ELSE e
    IN  CASE f.stage \in Closed \ {"RetryWait"} -> f
          [] f.out # "none" /\ now >= f.due -> Failed(f)
          [] f.stage = "RetryWait" /\ now >= f.retry_due ->
                LET r == [f EXCEPT !.retry_due = Never]
                IN  IF f.target = "Bootstrap" THEN LoadCheckpoint(r) ELSE CheckTail(r)
          [] f.stage \notin Closed \cup {"CheckingTail"} /\ now >= f.tail_due
             /\ ~(f.out # "none" /\ now >= f.due) -> RequestTail(f)
          [] OTHER -> f

ReadDecision(e) ==
    IF e.stage = "Ready" /\ e.ready /\ now < e.fresh /\ e.mode /\ e.auth
    THEN e.mat ELSE Unknown

-----------------------------------------------------------------------------
(* The handle and the fence.                                               *)

NewShared ==
    [gate |-> FALSE, ext |-> FALSE, reval |-> TRUE, epoch |-> 0, cancelled |-> FALSE,
     alive |-> TRUE, hinted |-> FALSE, active |-> FALSE, queue |-> <<>>,
     current |-> 0, serial |-> 0]

\* What SessionHandle::read_decision and may_serve would answer now, and with what.
Serves ==
    /\ shared.alive /\ ~shared.cancelled /\ shared.gate /\ shared.ext /\ ~shared.reval
    /\ pub.at # Unknown /\ now - pub.at < TailCheck
    /\ pub.serve # Unknown

Enqueue(s, c) == IF Len(s.queue) < QueueDepth THEN [s EXCEPT !.queue = Append(@, c)] ELSE s

\* set_authority(false), store by store; a full queue loses the command.
Revoke ==
    \/ /\ caller = "revoke1" /\ caller' = "revoke2"
       /\ shared' = [shared EXCEPT !.reval = TRUE]
    \/ /\ caller = "revoke2" /\ caller' = "revoke3"
       /\ shared' = [shared EXCEPT !.gate = FALSE, !.current = 0]
    \/ /\ caller = "revoke3" /\ caller' = "idle"
       /\ shared' = Enqueue([shared EXCEPT !.epoch = @ + 1], <<"Authority", FALSE>>)

\* set_authority(true): a pending revalidation asks for a tail.
Grant ==
    /\ caller = "grant1" /\ caller' = "idle"
    /\ shared' = [Enqueue(shared, <<"Authority", TRUE>>) EXCEPT
                    !.hinted = @ \/ (shared.reval /\ pub.at # Unknown)]

SetAuthority ==
    /\ shared.alive /\ ~shared.cancelled
    /\ \/ /\ caller = "idle" /\ ~shared.ext
          /\ caller' = "grant1" /\ shared' = [shared EXCEPT !.ext = TRUE]
          /\ UNCHANGED used
       \/ /\ caller = "idle" /\ shared.ext /\ used.revokes < setup.revokes
          /\ caller' = "revoke1" /\ shared' = [shared EXCEPT !.ext = FALSE]
          /\ used' = [used EXCEPT !.revokes = @ + 1]
       \/ Revoke /\ UNCHANGED used
       \/ Grant /\ UNCHANGED used
    /\ UNCHANGED <<setup, now, source, eng, drv, pub, app, held>>

\* hint, catch_up and record_activity.
Ask ==
    /\ shared.alive /\ ~shared.cancelled
    /\ \/ /\ used.hints < setup.hints
          /\ used' = [used EXCEPT !.hints = @ + 1]
          /\ \/ shared' = [shared EXCEPT !.hinted = TRUE]
             \/ setup.idle /\ shared' = [shared EXCEPT !.active = TRUE]
       \/ /\ used.floors < setup.floors
          /\ used' = [used EXCEPT !.floors = @ + 1]
          /\ \E f \in 0..setup.max_head : shared' = Enqueue(shared, <<"Demand", f>>)
    /\ UNCHANGED <<setup, now, source, eng, drv, pub, caller, app, held>>

\* SessionHandle::cancel; the driver sees the flag at its next turn.
CancelSession ==
    /\ used.closes < setup.closes /\ ~shared.cancelled
    /\ used' = [used EXCEPT !.closes = @ + 1]
    /\ shared' = [shared EXCEPT !.gate = FALSE, !.cancelled = TRUE, !.current = 0]
    /\ UNCHANGED <<setup, now, source, eng, drv, pub, caller, app, held>>

\* close: the registration is retired and the task aborted, wherever it stands;
\* the scope is opened again under a new session.
Reopen ==
    /\ used.closes < setup.closes /\ caller = "idle"
    /\ used' = [used EXCEPT !.closes = @ + 1]
    /\ shared' = NewShared
    /\ eng' = StartBootstrap(NewEngine)
    /\ drv' = [pc |-> "run", checked |-> Unknown, started |-> Unknown, epoch |-> 0,
               least |-> 0, proven |-> Unknown]
    /\ pub' = [serve |-> Unknown, at |-> Unknown, epoch |-> Unknown]
    \* permits of the old session name its retired fence
    /\ held' = {[p EXCEPT !.serial = 0] : p \in held}
    /\ UNCHANGED <<setup, now, source, caller, app>>

-----------------------------------------------------------------------------
(* The driver.                                                             *)

Publishable(e, d) ==
    /\ ReadDecision(e) # Unknown
    /\ d.checked # Unknown /\ now - d.checked < TailCheck
    /\ shared.ext /\ ~shared.reval /\ ~shared.cancelled /\ shared.alive

\* A step of the engine and the first half of publish: what may be served is
\* computed now, and an opening of the gate is stored by StoreGate.
Took(e, d, s) ==
    /\ eng' = e
    /\ pub' = [serve |-> ReadDecision(e), at |-> d.checked, epoch |-> d.proven]
    /\ IF Publishable(e, d)
       THEN drv' = [d EXCEPT !.pc = "gate"] /\ shared' = s
       ELSE drv' = [d EXCEPT !.pc = "run"] /\ shared' = [s EXCEPT !.gate = FALSE]

StoreGate ==
    /\ drv.pc = "gate"
    /\ drv' = [drv EXCEPT !.pc = "run"]
    /\ shared' = [shared EXCEPT !.gate = TRUE]
    /\ UNCHANGED <<setup, now, source, eng, pub, caller, app, held, used>>

Running == shared.alive /\ drv.pc = "run"

Calling == eng.phase = "sent" \/ eng.rev = "running"

TickDue ==
    \/ eng.ready /\ now >= eng.fresh
    \/ eng.out # "none" /\ now >= eng.due
    \/ eng.stage = "RetryWait" /\ now >= eng.retry_due
    \/ eng.stage \notin Closed \cup {"CheckingTail"} /\ now >= eng.tail_due /\ ~eng.pending

\* One turn of the worker's loop up to its effect: cancellation, a due tick, one
\* command, the wake-ups.
DriverTick ==
    /\ Running /\ ~Calling /\ ~shared.cancelled /\ TickDue
    /\ Took(Tick(eng), drv, shared)
    /\ UNCHANGED <<setup, now, source, caller, app, held, used>>

DriverCommand ==
    /\ Running /\ ~Calling /\ ~shared.cancelled /\ shared.queue # <<>>
    /\ LET c == shared.queue[1]
           s == [shared EXCEPT !.queue = SubSeq(@, 2, Len(@))]
       IN  Took(IF c[1] = "Authority" THEN Authority(eng, c[2]) ELSE Demand(eng, c[2]), drv, s)
    /\ UNCHANGED <<setup, now, source, caller, app, held, used>>

DriverWakes ==
    /\ Running /\ ~Calling /\ ~shared.cancelled
    /\ \/ shared.hinted /\ Took(Hint(eng), drv, [shared EXCEPT !.hinted = FALSE])
       \/ shared.active /\ Took(Activity(eng), drv, [shared EXCEPT !.active = FALSE])
    /\ UNCHANGED <<setup, now, source, caller, app, held, used>>

DriverCancels ==
    /\ Running /\ ~Calling /\ shared.cancelled /\ eng.stage # "Cancelled"
    /\ Took(Cancel(eng), drv, [shared EXCEPT !.alive = FALSE])
    /\ UNCHANGED <<setup, now, source, caller, app, held, used>>

\* The next effect: RevokeServing before the operation queued behind it.  A tail
\* records when it was asked for and under which authority; an install gets a
\* permit of the fence.
StartEffect ==
    /\ Running /\ ~Calling /\ ~shared.cancelled /\ ~TickDue
    /\ IF eng.rev = "queued"
       THEN /\ eng' = [eng EXCEPT !.rev = "running"]
            /\ shared' = [shared EXCEPT !.current = 0]
            /\ UNCHANGED <<drv, held>>
       ELSE /\ eng.phase = "queued"
            /\ eng' = [eng EXCEPT !.phase = "sent"]
            /\ drv' = IF eng.out = "CheckingTail"
                      THEN [drv EXCEPT !.started = now, !.epoch = shared.epoch,
                                       !.least = source.head]
                      ELSE drv
            /\ IF eng.out \in {"InstallingCheckpoint", "Applying"}
               THEN /\ shared' = [shared EXCEPT !.serial = @ + 1, !.current = shared.serial + 1]
                    /\ held' = held \cup
                         {[serial |-> shared.serial + 1, through |-> eng.batch, due |-> eng.due]}
               ELSE UNCHANGED <<shared, held>>
    /\ UNCHANGED <<setup, now, source, pub, caller, app, used>>

\* Mutant: the age of a tail is counted from its answer.
AcceptTailLate(e) ==
    [drv EXCEPT !.checked = now, !.proven = drv.epoch]

\* The driver's half of an accepted tail: proof and age.
AcceptTail(e) ==
    [drv EXCEPT !.checked = drv.started, !.proven = drv.epoch]

\* The tail was asked for under this authority: no revalidation is due any more.
ClearRevalidation ==
    /\ drv.pc = "clearing"
    /\ drv' = [drv EXCEPT !.pc = "cleared"]
    /\ shared' = [shared EXCEPT !.reval = FALSE]
    /\ UNCHANGED <<setup, now, source, eng, pub, caller, app, held, used>>

\* After it cleared the revalidation the driver looks again.
Recheck ==
    /\ drv.pc = "cleared"
    /\ Took(eng, drv, [shared EXCEPT !.reval = ~shared.ext \/ shared.epoch # drv.epoch])
    /\ UNCHANGED <<setup, now, source, caller, app, held, used>>

\* The source answers the tail as of some instant since it was asked.
TailAnswered ==
    /\ Running /\ eng.phase = "sent" /\ eng.out = "CheckingTail" /\ now < eng.due
    /\ \E h \in drv.least..source.head, a \in setup.authority :
       \E i \in Intervals(eng.mat = h /\ eng.head = h /\ a /\ eng.auth /\ ~eng.pending, eng) :
         LET e == TailChecked(eng, h, IF source.low < h THEN source.low ELSE h, a, i)
             d == AcceptTail(e)
         IN  IF shared.ext /\ shared.epoch = drv.epoch
             THEN eng' = e /\ drv' = [d EXCEPT !.pc = "clearing"] /\ UNCHANGED <<shared, pub>>
             ELSE Took(e, d, shared)
    /\ UNCHANGED <<setup, now, source, caller, app, held, used>>

\* The source returns the next events, up to the proven head.
ScanAnswered ==
    /\ Running /\ eng.phase = "sent" /\ eng.out = "Scanning" /\ now < eng.due
    /\ \E through \in (eng.mat + 1)..eng.head : Took(Scanned(eng, through), drv, shared)
    /\ UNCHANGED <<setup, now, source, caller, app, held, used>>

LoadAnswered ==
    /\ Running /\ eng.phase = "sent" /\ eng.out = "LoadingCheckpoint" /\ now < eng.due
    /\ Took(CheckpointLoaded(eng, app.disk), drv, shared)
    /\ UNCHANGED <<setup, now, source, caller, app, held, used>>

\* The application commits under a permit, now or long after its call was given
\* up: InstallPermit::commit_sync runs it only while the fence names the permit.
Commit(p) ==
    /\ p.serial # 0 /\ p.serial = shared.current /\ now < p.due /\ ~shared.cancelled
    /\ app' = [app EXCEPT !.pos = p.through,
                          !.disk = IF setup.durable /\ p.through > @ THEN p.through ELSE @]
    /\ held' = held \ {p}
    /\ UNCHANGED <<setup, now, source, eng, drv, shared, pub, caller, used>>

\* Its receipt reaches the driver, which retires the permit.
ReceiptAnswered ==
    /\ Running /\ eng.phase = "sent" /\ now < eng.due
    /\ eng.out \in {"InstallingCheckpoint", "Applying"}
    /\ app.pos = eng.batch /\ \A p \in held : p.serial # shared.serial
    /\ Took(IF eng.out = "Applying" THEN Applied(eng, setup.durable)
            ELSE CheckpointInstalled(eng), drv, [shared EXCEPT !.current = 0])
    /\ UNCHANGED <<setup, now, source, caller, app, held, used>>

RevokeAnswered ==
    /\ Running /\ eng.rev = "running"
    /\ Took(Invalidated(eng), drv, shared)
    /\ UNCHANGED <<setup, now, source, caller, app, held, used>>

\* Mutant: a call that is given up leaves its permit current.
CallFailsUnfenced ==
    /\ Running /\ eng.phase = "sent"
    /\ now >= eng.due \/ used.faults < setup.faults
    /\ used' = IF now >= eng.due THEN used ELSE [used EXCEPT !.faults = @ + 1]
    /\ Took(Failed(eng), drv, shared)
    /\ UNCHANGED <<setup, now, source, caller, app, held>>

\* A call fails or its deadline passes: the permit is retired, the engine told.
CallFails ==
    /\ Running /\ eng.phase = "sent"
    /\ now >= eng.due \/ used.faults < setup.faults
    /\ used' = IF now >= eng.due THEN used ELSE [used EXCEPT !.faults = @ + 1]
    /\ Took(Failed(eng), drv, [shared EXCEPT !.current = 0])
    /\ UNCHANGED <<setup, now, source, caller, app, held>>

-----------------------------------------------------------------------------
(* The environment.                                                        *)

Advance ==
    /\ now < setup.max_time
    /\ now' = now + 1
    /\ source' = [source EXCEPT !.past = Append(@, source.head)]
    /\ UNCHANGED <<setup, eng, drv, shared, pub, caller, app, held, used>>

\* The source's history grows, and forgets.
Write ==
    /\ source.head < setup.max_head
    /\ source' = [source EXCEPT !.head = @ + 1]
    /\ UNCHANGED <<setup, now, eng, drv, shared, pub, caller, app, held, used>>

Forget ==
    /\ source.low < source.head /\ used.faults < setup.faults
    /\ source' = [source EXCEPT !.low = @ + 1]
    /\ used' = [used EXCEPT !.faults = @ + 1]
    /\ UNCHANGED <<setup, now, eng, drv, shared, pub, caller, app, held>>

Init ==
    /\ setup \in Setups
    /\ now = 0
    /\ source = [head |-> setup.head, low |-> 0, past |-> <<>>]
    /\ eng = StartBootstrap(NewEngine)
    /\ drv = [pc |-> "run", checked |-> Unknown, started |-> Unknown, epoch |-> 0,
              least |-> 0, proven |-> Unknown]
    /\ shared = NewShared
    /\ pub = [serve |-> Unknown, at |-> Unknown, epoch |-> Unknown]
    /\ caller = "idle"
    /\ app = [pos |-> Unknown, disk |-> setup.disk]
    /\ held = {}
    /\ used = [hints |-> 0, floors |-> 0, revokes |-> 0, faults |-> 0, closes |-> 0]

Next ==
    \/ SetAuthority \/ Ask \/ CancelSession \/ Reopen
    \/ DriverTick \/ DriverCommand \/ DriverWakes \/ DriverCancels \/ StartEffect
    \/ StoreGate \/ ClearRevalidation \/ Recheck
    \/ TailAnswered \/ ScanAnswered \/ LoadAnswered \/ ReceiptAnswered \/ RevokeAnswered
    \/ \E p \in held : Commit(p)
    \/ CallFails
    \/ Advance \/ Write \/ Forget

Spec == Init /\ [][Next]_vars

-----------------------------------------------------------------------------
\* Deadlines follow the clock, one operation is outstanding at a time, and a
\* served position is one the application has reached.
TypeOK ==
    /\ eng.mat \in {Unknown} \cup 0..setup.max_head
    /\ (eng.out = "none") = (eng.phase = "none")
    /\ eng.out # "none" => eng.out = eng.stage
    /\ eng.ready => eng.stage = "Ready" /\ eng.out = "none"
    /\ eng.ckpt <= eng.mat
    /\ shared.current \in {0, shared.serial}
    /\ Len(source.past) = now
    /\ pub.serve # Unknown => pub.serve <= app.pos

\* A read that is let through returns a state that holds everything the source
\* had committed one tail interval ago, however late answers, ticks and readers
\* are: the age of a tail counts from its request (check_tail, publish, may_serve).
ServesFresh ==
    Serves => \A t \in 1..(now - TailCheck + 1) : pub.serve >= source.past[t]

\* After set_authority(false) returned, nothing is served before a tail that was
\* requested later has been accepted, whatever was in flight (authority_epoch,
\* authority_revalidation).
ServesRevalidated == Serves /\ caller \in {"idle", "grant1"} => pub.epoch = shared.epoch

\* Application state changes only under the operation the engine waits for: work
\* whose call was given up, revoked or cancelled commits nothing later (fence.rs).
NoLateInstall ==
    [][app' # app => /\ eng.phase = "sent" /\ now < eng.due /\ app'.pos = eng.batch
                     /\ ~shared.cancelled]_vars
=============================================================================
