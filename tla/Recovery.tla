------------------------------ MODULE Recovery ------------------------------
(***************************************************************************)
(* Recovery of a volatile index: the recovery engine (core                 *)
(* volatile_recovery/engine.rs and engine/), the control block its handles *)
(* and permits share (consistency volatile_recovery/shell.rs) and the      *)
(* worker that executes its effects (shell/worker.rs), against a feed that *)
(* gaps, a lease that lapses and writers that restart and leave.           *)
(*                                                                         *)
(* A deadline is armed and passes at some tick.  The bootstrap child the   *)
(* worker calls is the module Claims: here it builds, installs or declines.*)
(***************************************************************************)
EXTENDS Naturals, Sequences, FiniteSets

CONSTANTS Setups, Writers

\* A setup: leased (RecoveryMode), bootstrap, rearm, max_barrier_rounds, and the
\* bounds writes, gaps, lapses, restarts, cancels, leaves and faults.
VARIABLES
    setup,
    eng,        \* RecoveryEngine
    ctl,        \* Control: version, open, terminal, op, pending
    active,     \* the worker's active_version
    queue,      \* the worker's effects
    busy,       \* the operation the worker awaits, {} or {[kind, op, version, began]}
    stale,      \* the permit of a dropped operation that some task still holds
    content,    \* the index: whether it serves, and the gap count it was built after
    writers,    \* each writer's feed, membership and lease grant
    lease,      \* this node's lease: held, its confirmation, a write in flight past it
    gaps, lapses, restarts, faults

vars == <<setup, eng, ctl, active, queue, busy, stale, content, writers, lease, gaps, lapses, restarts, faults>>

Tokens == 4

-----------------------------------------------------------------------------
(* The engine.  A step is [e, fx, ok].                                     *)

NewEngine ==
    [stage |-> "Unready", gen |-> 0, recovered |-> FALSE, covered |-> 0, plan |-> "Full",
     baseline |-> "Origin", held |-> FALSE, suspended |-> FALSE, op |-> {}, token |-> 0, armed |-> {},
     seen |-> {}, exempt |-> {}, grants |-> <<>>, confirmed |-> {}, known |-> <<>>, seals |-> <<>>,
     heads |-> <<>>, rounds |-> 0, members |-> {}]

Step(e, fx) == [e |-> e, fx |-> fx, ok |-> TRUE]
Reject(e) == [e |-> e, fx |-> <<>>, ok |-> FALSE]
Before(fx, step) == [step EXCEPT !.fx = fx \o @]
Fx(kind, e) == <<[kind |-> kind, op |-> e.op]>>

ClearWork(e) ==
    [e EXCEPT !.op = {}, !.armed = {}, !.seen = {}, !.exempt = {}, !.grants = <<>>, !.confirmed = {},
              !.known = <<>>, !.seals = <<>>, !.heads = <<>>, !.rounds = 0, !.members = {}]

NoBaseline(e) == [e EXCEPT !.held = FALSE, !.suspended = FALSE]
CancelBaseline(e) == IF e.held \/ e.suspended THEN <<[kind |-> "cancel", op |-> {}]>> ELSE <<>>

\* issue: a fresh operation of the stage under its own and the episode's deadline.
Issue(e, stage) ==
    [e EXCEPT !.stage = stage, !.token = (@ + 1) % Tokens, !.op = {<<e.gen, (e.token + 1) % Tokens>>},
              !.armed = (@ \ {"wait"}) \union {"op"}]

Done(e) == [e EXCEPT !.op = {}, !.armed = @ \ {"op"}]

\* begin: a new episode.  A lapse keeps the local baseline suspended.
Begin(e, plan, count) ==
    IF e.stage = "Cancelled" THEN Reject(e)
    ELSE LET keep == plan = "Lapse" /\ e.held
             fx == IF keep THEN <<[kind |-> "suspend", op |-> {}]>> ELSE CancelBaseline(e)
             f == [ClearWork(e) EXCEPT !.recovered = FALSE, !.gen = @ + 1, !.plan = plan,
                      !.covered = IF count > @ THEN count ELSE @, !.baseline = "Origin",
                      !.held = FALSE, !.suspended = keep]
             g == Issue([f EXCEPT !.armed = {"total"}], "Invalidating")
         IN Step(g, <<[kind |-> "close", op |-> {}]>> \o fx \o Fx("invalidate", g))

\* Mutant: the re-arm is lost.
OriginForEver(e) ==
    Step([ClearWork(NoBaseline(e)) EXCEPT !.stage = "OriginOnly", !.recovered = FALSE], CancelBaseline(e))

\* origin_only: nothing is served until the next signal or the re-arm.
OriginOnly(e) ==
    LET f == [ClearWork(NoBaseline(e)) EXCEPT !.stage = "OriginOnly", !.recovered = FALSE]
    IN Step([f EXCEPT !.armed = IF setup.rearm THEN {"rearm"} ELSE {}], CancelBaseline(e))

Fallback(e) == Begin(e, "Full", e.covered)

RebuildOrigin(e) ==
    LET f == [NoBaseline(e) EXCEPT !.baseline = "Origin", !.seen = {}, !.exempt = {}, !.known = <<>>,
                 !.seals = <<>>, !.heads = <<>>, !.rounds = 0, !.members = {}]
        g == Issue(f, "Rebuilding")
    IN Step(g, CancelBaseline(e) \o Fx("rebuild", g))

FallbackOrOrigin(e) ==
    IF e.plan = "Lapse" THEN Fallback(e)
    ELSE IF e.baseline = "Peer" THEN RebuildOrigin(e)
    ELSE OriginOnly(e)

WaitFor(e, stage) == Step([Done(e) EXCEPT !.stage = stage, !.armed = @ \union {"wait"}], <<>>)

RetryFull(e) ==
    IF e.stage \in {"Invalidating", "Rebuilding", "Affirming"} THEN WaitFor(e, e.stage) ELSE OriginOnly(e)

\* What a failed or expired operation leads to.
Abandon(e) ==
    IF e.stage = "AcquiringBaseline" \/ e.baseline = "Peer" THEN RebuildOrigin(e)
    ELSE IF e.plan = "Full" THEN RetryFull(e)
    ELSE Fallback(e)

ObservePeers(e, stage) ==
    LET f == Issue(e, stage)
    IN Step(f, Fx(IF stage \in {"PeerSamplingHeads", "PeerRecheckingHeads"} THEN "peer_heads" ELSE "peers", f))

Affirm(e) == LET f == Issue(e, "Affirming") IN Step(f, Fx("affirm", f))

AcquireBaseline(e) ==
    LET f == [Issue(e, "AcquiringBaseline") EXCEPT !.held = TRUE] IN Step(f, Fx("acquire", f))

Invalidated(e) ==
    LET f == Done(e)
    IN IF f.plan = "Lapse" THEN ObservePeers(f, "SamplingInitial")
       ELSE IF setup.bootstrap THEN AcquireBaseline(f)
       ELSE RebuildOrigin(f)

-----------------------------------------------------------------------------
(* Evidence.  A mark is [epoch, seq, at], `at' the writes it counts in all. *)

EndsAfter(sealed, head) == sealed.epoch = head.epoch /\ sealed.seq > head.seq
Regressed(before, now) == now.epoch # before.epoch \/ now.seq < before.seq

\* crossed: the writer sealed the epoch of the earlier head before it began this one.
Crossed(before, p) ==
    \/ \E r \in p.renewal : EndsAfter(r, before) /\ \A h \in p.head : h.epoch = r.next
    \/ \E s \in p.sealed : EndsAfter(s, before) /\ \A h \in p.head : h.epoch > s.epoch

At(f, w) == IF w \in DOMAIN f THEN {f[w]} ELSE {}
\* record_known_heads.
Rejects(e, P) ==
    \E p \in P : \E before \in At(e.known, p.node) :
        \/ p.head = {} /\ ~Crossed(before, p)
        \/ \E now \in p.head : Regressed(before, now) /\ ~Crossed(before, p)

Record(e, P) ==
    LET Of(field, old) ==
            [w \in {x \in Writers : \/ \E p \in P : p.node = x /\ p[field] # {}
                                    \/ x \in DOMAIN old /\ \A p \in P : p.node # x} |->
                IF \E p \in P : p.node = w
                THEN CHOOSE m \in UNION {p[field] : p \in {q \in P : q.node = w}} : TRUE
                ELSE old[w]]
    IN [e EXCEPT !.known = Of("head", e.known), !.seals = Of("sealed", e.seals)]

DepartedSealed(e, w) ==
    \E s \in At(e.seals, w) : \A k \in At(e.known, w) : EndsAfter(s, k)

-----------------------------------------------------------------------------

InitialPeers(e, P, confirmed) ==
    LET old == {p.node : p \in {q \in P : q.old /\ ~q.alive}}
        f == [e EXCEPT !.exempt = old, !.seen = {p.node : p \in P} \ old,
                       !.grants = [w \in {p.node : p \in P} \ old |->
                                      (CHOOSE p \in P : p.node = w).grant],
                       !.confirmed = {confirmed}]
    IN ObservePeers(f, "WaitingRenewals")

Seen(e, P) ==
    LET back == {p.node : p \in {q \in P : q.alive}}
        exempt == e.exempt \ back
    IN [e EXCEPT !.exempt = exempt, !.seen = @ \union ({p.node : p \in P} \ exempt)]

\* renewed_peers: every grant and this node's own confirmation moved on.
RenewedPeers(e, P, confirmed) ==
    LET f == Seen(e, P)
        late == {p \in P : p.node \notin f.exempt /\ p.node \notin DOMAIN f.grants}
        grants == [w \in DOMAIN f.grants \union {p.node : p \in late} |->
                      IF w \in DOMAIN f.grants THEN f.grants[w] ELSE (CHOOSE p \in P : p.node = w).grant]
        all == \A w \in DOMAIN grants : \A p \in P : p.node = w => p.grant > grants[w]
        g == [f EXCEPT !.grants = grants]
    IN WaitFor(g, IF all /\ \A c \in e.confirmed : confirmed > c THEN "Settling" ELSE "WaitingRenewals")

\* observed_heads: wait until what the writers had written is applied, and look again
\* until nothing more was.
ObservedHeads(e, P, recheck) ==
    LET f == Seen(e, P)
        here == {p.node : p \in P}
        counted == {p \in P : p.node \notin f.exempt /\ p.head # {}}
        heads == [w \in {p.node : p \in counted} |->
                     CHOOSE h \in (CHOOSE p \in counted : p.node = w).head : TRUE]
        back == \E p \in counted : \E before \in At(f.heads, p.node) :
                   Regressed(before, heads[p.node]) /\ ~Crossed(before, p)
        g == Issue([f EXCEPT !.heads = heads, !.rounds = IF recheck THEN @ + 1 ELSE @],
                   IF e.baseline = "Peer" THEN "PeerWaitingFrontiers" ELSE "WaitingFrontiers")
    IN IF \E w \in f.seen \ here : ~DepartedSealed(f, w) THEN FallbackOrOrigin(f)
       ELSE IF recheck /\ back THEN FallbackOrOrigin(f)
       ELSE IF recheck /\ heads = f.heads THEN Affirm(f)
       ELSE IF recheck /\ f.rounds + 1 >= setup.max_barrier_rounds THEN FallbackOrOrigin(f)
       ELSE Step(g, Fx("frontiers", g))

PeersObserved(e, P, confirmed) ==
    LET f == Done(Record(e, P))
    IN IF Rejects(e, P) THEN FallbackOrOrigin(e)
       ELSE CASE e.stage = "SamplingInitial" -> InitialPeers(f, P, confirmed)
              [] e.stage = "WaitingRenewals" -> RenewedPeers(f, P, confirmed)
              [] e.stage = "SamplingHeads" -> ObservedHeads(f, P, FALSE)
              [] e.stage = "RecheckingHeads" -> ObservedHeads(f, P, TRUE)

\* valid_peer_roster: the members are the ones the handoff was made under.
PeerHeadsObserved(e, P, members) ==
    IF members # e.members \/ {p.node : p \in P} # members \/ Rejects(e, P) THEN RebuildOrigin(e)
    ELSE ObservedHeads(Done(Record(e, P)), P, e.stage = "PeerRecheckingHeads")

FrontiersReached(e) ==
    ObservePeers(Done(e), IF e.baseline = "Peer" THEN "PeerRecheckingHeads" ELSE "RecheckingHeads")

PeerBaselineInstalled(e, members) ==
    Before(CancelBaseline(e),
           ObservePeers([NoBaseline(e) EXCEPT !.baseline = "Peer", !.members = members], "PeerSamplingHeads"))

Affirmed(e, accepted) ==
    LET f == [Done(e) EXCEPT !.stage = "Ready", !.recovered = TRUE, !.armed = {}]
    IN IF ~accepted THEN WaitFor(Done(e), "Affirming")
       ELSE IF e.suspended
            THEN Step([f EXCEPT !.suspended = FALSE, !.held = TRUE, !.token = (@ + 1) % Tokens],
                      <<[kind |-> "resume", op |-> {}]>>)
       ELSE IF e.baseline = "Peer" /\ ~e.held
            THEN Step([f EXCEPT !.held = TRUE, !.token = (@ + 1) % Tokens], <<[kind |-> "adopt", op |-> {}]>>)
       ELSE Step(f, <<>>)

LeaseLapse(e, count) ==
    IF e.stage = "Cancelled" THEN Reject(e)
    ELSE IF count <= e.covered THEN Step(e, <<>>)
    ELSE IF e.stage = "OriginOnly" /\ "rearm" \in e.armed THEN Step([e EXCEPT !.covered = count], <<>>)
    ELSE Begin(e, IF e.stage = "Ready" /\ e.recovered THEN "Lapse" ELSE "Full", count)

FeedGap(e, count) ==
    IF e.stage = "OriginOnly" /\ "rearm" \in e.armed
    THEN Step([e EXCEPT !.covered = IF count > @ THEN count ELSE @], <<>>)
    ELSE Begin(e, "Full", count)

CancelEngine(e) ==
    LET f == [ClearWork(NoBaseline(e)) EXCEPT !.recovered = FALSE, !.stage = "Cancelled", !.gen = @ + 1]
    IN Step(f, <<[kind |-> "close", op |-> {}]>> \o CancelBaseline(e))

\* Tick: of the deadlines that pass, the first in the code's order is handled.
Tick(e, t) ==
    CASE t = "total" -> FallbackOrOrigin(e)
      [] t = "op" -> Abandon(e)
      [] t = "rearm" -> Begin(e, "Full", e.covered)
      [] t = "wait" ->
            LET f == [e EXCEPT !.armed = @ \ {"wait"}]
            IN CASE e.stage = "Settling" -> ObservePeers(f, "SamplingHeads")
                 [] e.stage = "WaitingRenewals" -> ObservePeers(f, "WaitingRenewals")
                 [] e.stage = "Affirming" -> Affirm(f)
                 [] e.stage = "Invalidating" -> LET g == Issue(f, "Invalidating") IN Step(g, Fx("invalidate", g))
                 [] e.stage = "Rebuilding" -> LET g == Issue(f, "Rebuilding") IN Step(g, Fx("rebuild", g))

-----------------------------------------------------------------------------
(* The control block.                                                      *)

NoPending == [start |-> FALSE, gap |-> FALSE, lapse |-> 0, cancel |-> FALSE]
Signalled == ctl.pending # NoPending

\* Mutant: a permit is good for ever.
CurrentForEver(permit) == ~ctl.terminal

\* current: what a permit's every publication checks under the lock.
Current(permit) == ~ctl.terminal /\ ctl.version = permit.version /\ ctl.op = permit.op

\* signal: the gate closes and every permit dies at once.
Signal(pending, terminal) ==
    ctl' = [ctl EXCEPT !.open = FALSE, !.op = {}, !.version = @ + 1, !.terminal = @ \/ terminal,
                       !.pending = IF @.cancel THEN @ ELSE pending]

SignalGap(count) ==
    Signal([ctl.pending EXCEPT !.gap = TRUE, !.lapse = IF count > @ THEN count ELSE @], FALSE)
SignalLapse(count) ==
    IF count <= ctl.covered THEN UNCHANGED ctl
    ELSE Signal([ctl.pending EXCEPT !.lapse = IF count > @ THEN count ELSE @], FALSE)

\* pending_event: cancel, then a gap, then a restart, then a lapse.
PendingEvent(e, p) ==
    IF p.cancel THEN CancelEngine(e)
    ELSE IF p.gap THEN FeedGap(e, p.lapse)
    ELSE IF p.start THEN Begin(e, "Full", IF p.lapse > 0 THEN p.lapse ELSE e.covered)
    ELSE LeaseLapse(e, p.lapse)

-----------------------------------------------------------------------------
(* The worker.                                                             *)

Mirrors(e, c) == [c EXCEPT !.covered = e.covered, !.recovered = e.recovered, !.gen = e.gen]

Accept(step, q) == eng' = step.e /\ queue' = q \o step.fx
Fault == faults < setup.faults /\ faults' = faults + 1

\* The stages that wait for other nodes, and so end by their deadline.
Patient == eng.stage \in {"WaitingRenewals", "WaitingFrontiers", "PeerWaitingFrontiers"}

\* A deadline that is passed is a slow operation, which is a fault, or an ordinary
\* wait; settling outlasts a write that was in flight (settle_ms).
Passes(t) ==
    /\ t \in eng.armed
    /\ IF t \in {"op", "total"} /\ ~Patient THEN Fault
       ELSE UNCHANGED faults /\ (eng.stage = "Settling" => ~lease.inflight)

Alone == ~Signalled /\ busy = {}
Live == eng.stage # "Cancelled"

\* The top of the loop: what was signalled replaces the effects of the old episode.
Take ==
    /\ Live /\ Signalled /\ busy = {}
    /\ active' = ctl.version
    /\ LET step == PendingEvent(eng, ctl.pending)
       IN /\ Accept(step, <<>>)
          /\ ctl' = Mirrors(step.e, [ctl EXCEPT !.pending = IF @.cancel THEN @ ELSE NoPending])
    /\ UNCHANGED <<setup, busy, stale, content, writers, lease, gaps, lapses, restarts, faults>>

\* An elapsed deadline supersedes the effects that were left; idle, it wakes the worker.
WorkerTick(t) ==
    /\ Live /\ Alone /\ Passes(t)
    /\ LET step == Tick(eng, t)
       IN Accept(step, <<>>) /\ ctl' = Mirrors(step.e, ctl)
    /\ UNCHANGED <<setup, active, busy, stale, content, writers, lease, gaps, lapses, restarts>>

Executes(kinds) == Live /\ Alone /\ queue # <<>> /\ Head(queue).kind \in kinds
Accepts(op) == op # {} /\ eng.op = op

\* close.
CloseGate ==
    /\ Executes({"close"})
    /\ IF ctl.version = active /\ ~ctl.terminal
       THEN /\ ctl' = [ctl EXCEPT !.open = FALSE, !.op = {}, !.version = @ + 1]
            /\ active' = ctl.version + 1
       ELSE UNCHANGED <<ctl, active>>
    /\ queue' = Tail(queue)
    /\ UNCHANGED <<setup, eng, busy, stale, content, writers, lease, gaps, lapses, restarts, faults>>

\* The child's cancel, suspend_local, resume_local and adopt_local (module Claims).
CallChild ==
    /\ Executes({"cancel", "suspend", "resume", "adopt"})
    /\ queue' = Tail(queue)
    /\ UNCHANGED <<setup, eng, ctl, active, busy, stale, content, writers, lease, gaps, lapses, restarts, faults>>

\* permit: an operation that publishes is armed in the control block first.
Begins ==
    /\ Executes({"invalidate", "rebuild", "acquire", "peers", "peer_heads", "frontiers"})
    /\ LET fx == Head(queue)
           permitted == fx.kind \in {"invalidate", "rebuild", "acquire"}
       IN IF ~Accepts(fx.op) \/ (permitted /\ (ctl.terminal \/ ctl.version # active))
          THEN UNCHANGED <<ctl, busy, stale>>
          ELSE /\ busy' = {[kind |-> fx.kind, op |-> fx.op, version |-> active, began |-> gaps,
                            totals |-> [w \in Writers |-> writers[w].total],
                            published |-> FALSE]}
               /\ ctl' = IF permitted THEN [ctl EXCEPT !.op = fx.op] ELSE ctl
               /\ stale' = {p \in stale : p.op # fx.op}
    /\ queue' = Tail(queue)
    /\ UNCHANGED <<setup, eng, active, content, writers, lease, gaps, lapses, restarts, faults>>

\* publish: a page or a swap of the index, refused unless the permit is current.
Publishes(permit) ==
    IF ~Current(permit) THEN UNCHANGED <<content, writers>>
    ELSE IF permit.kind = "invalidate"
    THEN content' = [content EXCEPT !.serves = eng.plan = "Lapse" /\ @] /\ UNCHANGED writers
    ELSE /\ content' = [serves |-> TRUE, after |-> permit.began]
         /\ writers' = [w \in Writers |->
               [writers[w] EXCEPT !.have = IF permit.totals[w] > @ THEN permit.totals[w] ELSE @]]

Publish ==
    /\ \E b \in busy :
          /\ b.kind \in {"invalidate", "rebuild", "acquire"} /\ ~b.published /\ Current(b)
          /\ Publishes(b)
          /\ busy' = {[b EXCEPT !.published = TRUE]}
    /\ UNCHANGED <<setup, eng, ctl, active, queue, stale, lease, gaps, lapses, restarts, faults>>

\* A task of a dropped operation goes on with the permit it was given.
PublishLate ==
    /\ \E p \in stale : Publishes(p)
    /\ stale' = {}
    /\ UNCHANGED <<setup, eng, ctl, active, queue, busy, lease, gaps, lapses, restarts, faults>>

Disarm(op) == IF ctl.op = op THEN [ctl EXCEPT !.op = {}] ELSE ctl
Drops(b) == stale' = IF b.kind \in {"invalidate", "rebuild", "acquire"} THEN {b} ELSE stale

\* await_operation gives up: another episode was signalled.
Interrupted ==
    /\ Signalled
    /\ \E b \in busy :
          /\ ctl' = Disarm(b.op) /\ Drops(b)
          /\ IF b.kind = "acquire" THEN Accept(RebuildOrigin(eng), queue) ELSE UNCHANGED <<eng, queue>>
    /\ busy' = {}
    /\ UNCHANGED <<setup, active, content, writers, lease, gaps, lapses, restarts, faults>>

\* await_operation gives up: the operation's deadline passed.
Expires ==
    /\ ~Signalled
    /\ \E b \in busy, t \in {"op", "total"} :
          /\ Passes(t) /\ Drops(b)
          /\ LET step == Tick(eng, t)
             IN Accept(step, <<>>) /\ ctl' = Mirrors(step.e, Disarm(b.op))
    /\ busy' = {}
    /\ UNCHANGED <<setup, active, content, writers, lease, gaps, lapses, restarts>>

\* What the adapter reports of a writer: its advertised head, and the seal of a life
\* once every write of that life is applied here.
PeerOf(w) ==
    LET x == writers[w]
    IN [node |-> w, alive |-> x.state = "alive", old |-> x.old, grant |-> x.grant,
        head |-> IF x.seq = 0 THEN {} ELSE {[epoch |-> x.epoch, seq |-> x.seq, at |-> x.total]},
        renewal |-> IF x.epoch > 1 /\ x.have >= x.base
                    THEN {[epoch |-> x.epoch - 1, seq |-> x.last + 1, next |-> x.epoch]} ELSE {},
        sealed |-> IF x.sealed /\ x.have = x.total THEN {[epoch |-> x.epoch, seq |-> x.seq + 1]} ELSE {}]

Peers == {PeerOf(w) : w \in {x \in Writers : writers[x].state # "gone"}}
Members == {w \in Writers : writers[w].state # "gone"}

\* The adapter's operation is done: its answer is the engine's next event.
Answer(b) ==
    CASE b.kind = "invalidate" -> b.published /\ Accept(Invalidated(eng), queue)
      [] b.kind = "rebuild" -> b.published /\ Accept(Affirm(Done(eng)), queue)
      [] b.kind = "acquire" ->
            \/ b.published /\ Accept(Affirm([eng EXCEPT !.baseline = "Origin"]), queue)
            \/ b.published /\ Accept(PeerBaselineInstalled(eng, Members), queue)
      [] b.kind = "peers" -> Accept(PeersObserved(eng, Peers, lease.confirmed), queue)
      [] b.kind = "peer_heads" -> Accept(PeerHeadsObserved(eng, Peers, Members), queue)
      [] b.kind = "frontiers" ->
            /\ \A w \in DOMAIN eng.heads : writers[w].have >= eng.heads[w].at
            /\ Accept(FrontiersReached(eng), queue)

Finishes ==
    /\ ~Signalled
    /\ \E b \in busy : Answer(b) /\ ctl' = Mirrors(eng', Disarm(b.op))
    /\ busy' = {}
    /\ UNCHANGED <<setup, active, stale, content, writers, lease, gaps, lapses, restarts, faults>>

\* The adapter fails, or the child declines.
Fails ==
    /\ ~Signalled /\ Fault
    /\ \E b \in busy :
          /\ Accept(Abandon(eng), queue)
          /\ ctl' = Mirrors(eng', Disarm(b.op)) /\ Drops(b)
    /\ busy' = {}
    /\ UNCHANGED <<setup, active, content, writers, lease, gaps, lapses, restarts>>

\* affirm_effect: under the lock, the adapter's own lease is affirmed and the gate opens.
AffirmEffect ==
    /\ Executes({"affirm"})
    /\ LET fx == Head(queue)
           accepted == ~ctl.terminal /\ ctl.version = active /\ (setup.leased => lease.held)
           step == Affirmed(eng, accepted)
       IN IF ~Accepts(fx.op) THEN queue' = Tail(queue) /\ UNCHANGED <<eng, ctl>>
          ELSE /\ Accept(step, Tail(queue))
               /\ ctl' = [Mirrors(step.e, ctl) EXCEPT !.open = accepted]
    /\ UNCHANGED <<setup, active, busy, stale, content, writers, lease, gaps, lapses, restarts, faults>>

-----------------------------------------------------------------------------
(* The feed, the lease and the application.                                *)

\* The feed reports a gap: what the index held before it cannot be trusted.
Gap ==
    /\ ~ctl.terminal /\ gaps < setup.gaps
    /\ gaps' = gaps + 1 /\ SignalGap(lapses)
    /\ UNCHANGED <<setup, eng, active, queue, busy, stale, content, writers, lease, lapses, restarts, faults>>

\* restart, cancel and the drop of the last handle.
Ask ==
    /\ ~ctl.terminal /\ restarts < setup.restarts
    /\ restarts' = restarts + 1
    /\ \/ Signal([ctl.pending EXCEPT !.start = TRUE], FALSE)
       \/ setup.cancels /\ Signal([NoPending EXCEPT !.cancel = TRUE], TRUE)
    /\ UNCHANGED <<setup, eng, active, queue, busy, stale, content, writers, lease, gaps, lapses, faults>>

\* This node's lease lapses: writers stop waiting for it once it knows.
Lapse ==
    /\ setup.leased /\ ~ctl.terminal /\ lease.held /\ lapses < setup.lapses
    /\ lapses' = lapses + 1 /\ SignalLapse(lapses + 1)
    /\ lease' = [lease EXCEPT !.held = FALSE]
    /\ writers' = [w \in Writers |-> [writers[w] EXCEPT !.old = writers[w].state = "down"]]
    /\ UNCHANGED <<setup, eng, active, queue, busy, stale, content, gaps, restarts, faults>>

\* The lease is granted and confirmed anew.  A renewal the engine does not wait for
\* changes nothing it looks at.
Renew ==
    /\ ~lease.held \/ lease.confirmed \in eng.confirmed
    /\ lease' = [lease EXCEPT !.held = TRUE, !.confirmed = @ + 1]
    /\ writers' = [w \in Writers |-> IF writers[w].state = "alive" THEN [writers[w] EXCEPT !.grant = @ + 1] ELSE writers[w]]
    /\ UNCHANGED <<setup, eng, ctl, active, queue, busy, stale, content, gaps, lapses, restarts, faults>>

\* A writer acknowledges a write: with the lease held, not before it is applied here.
Write(w) ==
    /\ writers[w].state = "alive" /\ writers[w].total < setup.writes
    /\ LET x == writers[w]
           next == [x EXCEPT !.seq = @ + 1, !.total = @ + 1]
       IN IF lease.held /\ ~lease.inflight
          THEN /\ x.have = x.total /\ UNCHANGED lease
               /\ writers' = [writers EXCEPT ![w] = [next EXCEPT !.have = @ + 1]]
          ELSE /\ writers' = [writers EXCEPT ![w] = next]
               /\ \E more \in BOOLEAN : lease' = [lease EXCEPT !.inflight = more /\ ~lease.held]
    /\ UNCHANGED <<setup, eng, ctl, active, queue, busy, stale, content, gaps, lapses, restarts, faults>>

\* A write that was begun without this node is acknowledged or given up.
Land ==
    /\ lease.inflight
    /\ lease' = [lease EXCEPT !.inflight = FALSE]
    /\ UNCHANGED <<setup, eng, ctl, active, queue, busy, stale, content, writers, gaps, lapses, restarts, faults>>

\* The feed applies the next write of a writer.
Apply(w) ==
    /\ writers[w].have < writers[w].total /\ writers[w].state # "gone"
    /\ writers' = [writers EXCEPT ![w].have = @ + 1]
    /\ UNCHANGED <<setup, eng, ctl, active, queue, busy, stale, content, lease, gaps, lapses, restarts, faults>>

\* A writer seals its epoch and begins the next.  One that does so before its writes
\* were applied or its head observed leaves the engine no evidence of them.
Reseal(w) ==
    /\ writers[w].state = "alive" /\ writers[w].epoch < setup.epochs
    /\ writers[w].have = writers[w].total \/ w \in DOMAIN eng.known
    /\ writers' = [writers EXCEPT ![w].epoch = @ + 1, ![w].last = writers[w].seq, ![w].seq = 0,
                                  ![w].base = writers[w].total]
    /\ UNCHANGED <<setup, eng, ctl, active, queue, busy, stale, content, lease, gaps, lapses, restarts, faults>>

\* A writer goes down, with or without its seal, and leaves the membership, which takes
\* longer than the first observation of an episode.
Leave(w) ==
    /\ setup.leaves
    /\ LET x == writers[w]
       IN \/ /\ x.state = "alive"
             /\ \E sealed \in BOOLEAN :
                   writers' = [writers EXCEPT ![w].state = "down", ![w].sealed = sealed]
          \/ /\ x.state = "down" /\ (x.have = x.total \/ w \in eng.seen)
             /\ writers' = [writers EXCEPT ![w].state = "gone"]
    /\ UNCHANGED <<setup, eng, ctl, active, queue, busy, stale, content, lease, gaps, lapses, restarts, faults>>

\* open: the worker starts with a full recovery pending.
Init ==
    /\ setup \in Setups
    /\ eng = NewEngine
    /\ ctl = [version |-> 1, open |-> FALSE, terminal |-> FALSE, op |-> {}, covered |-> 0,
              recovered |-> FALSE, gen |-> 0, pending |-> [NoPending EXCEPT !.start = TRUE]]
    /\ active = 1 /\ queue = <<>> /\ busy = {} /\ stale = {}
    /\ content = [serves |-> FALSE, after |-> 0]
    /\ writers = [w \in Writers |->
          [state |-> "alive", old |-> FALSE, epoch |-> 1, seq |-> 0, last |-> 0, base |-> 0,
           sealed |-> FALSE, total |-> 0, have |-> 0, grant |-> 0]]
    /\ lease = [held |-> TRUE, confirmed |-> 0, inflight |-> FALSE]
    /\ gaps = 0 /\ lapses = 0 /\ restarts = 0 /\ faults = 0

Worker == Take \/ CloseGate \/ CallChild \/ Begins \/ AffirmEffect \/ Publish \/ Interrupted \/ Finishes
Waits == WorkerTick("wait") \/ WorkerTick("rearm")

Next ==
    \/ Worker \/ Waits \/ WorkerTick("total") \/ WorkerTick("op")
    \/ PublishLate \/ Expires \/ Fails
    \/ Gap \/ Ask \/ Lapse \/ Renew \/ Land
    \/ \E w \in Writers : Write(w) \/ Apply(w) \/ Reseal(w) \/ Leave(w)

Spec == Init /\ [][Next]_vars

\* The worker runs, the adapter answers, waits end, a deadline
\* passes while other nodes are waited for, the feed delivers and the lease
\* is renewed.
Fairness ==
    /\ WF_vars(Worker) /\ WF_vars(Waits)
    /\ SF_vars(Patient /\ WorkerTick("total")) /\ WF_vars(Patient /\ Expires)
    /\ WF_vars(Renew) /\ WF_vars(Land) /\ \A w \in Writers : WF_vars(Apply(w))

FairSpec == Spec /\ Fairness

-----------------------------------------------------------------------------
(* Properties.                                                             *)

\* Stages, deadlines and the one operation in progress are in range.
TypeOK ==
    /\ eng.stage \in {"Unready", "Invalidating", "AcquiringBaseline", "Rebuilding", "SamplingInitial",
                      "WaitingRenewals", "Settling", "SamplingHeads", "WaitingFrontiers", "RecheckingHeads",
                      "PeerSamplingHeads", "PeerWaitingFrontiers", "PeerRecheckingHeads", "Affirming",
                      "Ready", "OriginOnly", "Cancelled"}
    /\ eng.armed \subseteq {"total", "op", "wait", "rearm"}
    /\ ("op" \in eng.armed) = (eng.op # {})
    /\ Cardinality(busy) <= 1 /\ Cardinality(stale) <= 1
    /\ eng.held => ~eng.suspended

\* While the gate is open the index is one that was built, or installed, after the
\* last gap the feed reported: no page of an earlier episode, whatever task still
\* holds its permit, is served (PublicationPermit::publish, Shared::signal).
ServesRebuilt == ctl.open => content.serves /\ content.after = gaps

\* A gate that a lease lapse closed opens again only when every write the writers
\* acknowledged without this node is applied here, but for a writer that was down
\* before the lapse (renewed_peers, observed_heads).
LapseIsCovered ==
    ctl.open /\ eng.plan = "Lapse" =>
        lease.held /\ \A w \in Writers \ eng.exempt : writers[w].have = writers[w].total

\* The gate never opens for an episode that a signal had ended: a step that opens it
\* has seen no signal since the episode began (affirm_effect).
OpensCurrent ==
    [][~ctl.open /\ ctl'.open => ctl.pending = NoPending /\ ctl.version = active /\ eng'.recovered]_vars

\* Recovery ends: once signals and faults are over the gate is open for good, unless
\* it was cancelled or left to the origin with no re-arm.
AtRest == ctl.open \/ ctl.terminal \/ (eng.stage = "OriginOnly" /\ ~setup.rearm)

Recovers == <>[]AtRest
=============================================================================
