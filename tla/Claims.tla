------------------------------- MODULE Claims -------------------------------
(***************************************************************************)
(* Who builds a volatile index and who takes it from a peer: the claim     *)
(* engine of each node (core volatile_bootstrap/engine.rs and engine/),    *)
(* the bootstrap session that drives it (consistency                       *)
(* bootstrap/session.rs and session/run.rs) and the claims and presences   *)
(* they publish as entries (native_claims).                                *)
(*                                                                         *)
(* A deadline is armed, then passed, and is seen at the next Tick.  A      *)
(* roster is the presence of every node.  The transfer itself is the       *)
(* module Transfer: here it advances, completes or aborts.                 *)
(***************************************************************************)
EXTENDS Naturals, Sequences, FiniteSets

CONSTANTS Setups, Node

\* A setup: rank (placement's order of the nodes), participation
\* (require_participation), max_members, retries, whether acquisitions are staggered, and
\* the nodes that run at first and that join, the kinds of fault, and the bounds renewals, progress,
\* episodes and faults.
VARIABLES
    setup,
    eng,        \* ClaimEngine of each node
    queue,      \* BootstrapSession.effects
    mode,       \* the session: idle, running an acquisition, its result, or maintaining
    work,       \* the scan or recapture an effect waits for, {} or {[kind, members, id]}
    capture,    \* DonorCapture, {} or {[id, members, active]}
    bound,      \* the recovery the session serves: none, bound, suspended
    pub,        \* the claim each node's entry holds, {} or {claim}
    view,       \* the claims each node's gossip has delivered to it
    presence,   \* the presence each node's entry holds, 0 for none
    alive,
    episodes, faults

vars == <<setup, eng, queue, mode, work, capture, bound, pub, view, presence, alive, episodes, faults>>

Willing == 0
Building == 1
Ready == 2

Timers == {"settle", "renew", "op", "follow", "retry", "total", "recapture", "backoff", "claim", "poll"}

-----------------------------------------------------------------------------
(* The engine.  A step is [e, fx]: the engine after it and its effects.    *)

NewEngine(n, session) ==
    [me |-> n, session |-> session, stage |-> "Unready", gen |-> 0,
     phase |-> Willing, renewal |-> 0, progress |-> 0, selected |-> {}, op |-> FALSE,
     armed |-> {}, passed |-> {}, seen_progress |-> 0, observed |-> <<>>, excluded |-> {},
     roster |-> {}, recapture |-> {}, failed |-> {}, failures |-> 0, known |-> {},
     ready |-> {}, installed |-> FALSE, child |-> FALSE, present |-> FALSE]

Id(e) == <<e.me, e.session, e.gen>>
Claim(e) == [id |-> Id(e), renewal |-> e.renewal, phase |-> e.phase, progress |-> e.progress]
Arm(e, T) == [e EXCEPT !.armed = @ \union T, !.passed = @ \ T]
Off(e, T) == [e EXCEPT !.armed = @ \ T, !.passed = @ \ T]
Late(e, t) == t \in e.passed
Waiting(e, t) == t \in e.armed \ e.passed

Step(e, fx) == [e |-> e, fx |-> fx, ok |-> TRUE]
Reject(e) == [e |-> e, fx |-> <<>>, ok |-> FALSE]
Before(fx, step) == [step EXCEPT !.fx = fx \o @]

PublishFx(e) == <<[kind |-> "claim", claim |-> Claim(e)]>>
WithdrawFx(e) == <<[kind |-> "withdraw", id |-> Id(e)]>>

\* publish_renewal.
Renewed(e) == Arm([e EXCEPT !.renewal = @ + 1], {"renew"})

\* cancel_transfer: the child's own effects release its stage and reservation.
NoChild(e) == Off([e EXCEPT !.child = FALSE], {"claim", "poll"})

\* end: the claim is withdrawn and the origin takes over.
Terminate(e) ==
    LET f == [NoChild(Off(e, Timers)) EXCEPT
                 !.op = FALSE, !.stage = "Fallback", !.selected = {}, !.recapture = {},
                 !.failures = 0, !.known = {}, !.ready = {}]
    IN Step(f, WithdrawFx(e) \o <<[kind |-> "fallback"]>>)

Operation(e) == Arm([e EXCEPT !.op = TRUE], {"op"})

Observe(e) ==
    Step(Off([Operation(e) EXCEPT !.stage = "Observing"], {"settle"}), <<[kind |-> "observe"]>>)

StartEngine(e) ==
    LET fresh == [NewEngine(e.me, e.session) EXCEPT
                     !.stage = "Settling", !.gen = e.gen + 1, !.renewal = 1, !.present = TRUE]
        f == Arm(fresh, {"total", "settle", "renew"})
        old == IF e.gen > 0 THEN WithdrawFx(e) ELSE <<>>
        here == IF e.present THEN <<>> ELSE <<[kind |-> "presence"]>>
    IN Step(f, old \o here \o PublishFx(f))

PresenceFailure(e) ==
    LET t == Terminate([e EXCEPT !.present = FALSE])
    IN [t EXCEPT !.fx = <<Head(@), [kind |-> "absent"], [kind |-> "fallback"]>>]

\* track_claim: a renewal never takes a claim back.
Tracks(e, c) ==
    c.id \in DOMAIN e.observed =>
        LET was == e.observed[c.id]
        IN \/ c.renewal > was.renewal /\ c.phase >= was.phase /\ c.progress >= was.progress
           \/ c.renewal = was.renewal /\ c.phase = was.phase /\ c.progress = was.progress

Track(e, c) ==
    [e EXCEPT !.observed = [x \in DOMAIN @ \union {c.id} |-> IF x = c.id THEN c ELSE @[x]]]

\* release_stalled, donor_unavailable, abandon_transfer: a builder that is given up.
Exclude(e) == [e EXCEPT !.excluded = @ \union e.selected]
Crowded(e) == Cardinality(e.excluded) > setup.max_members

\* validate_roster, validate_participants: this node's own claim reads back exactly,
\* and under participation every claim is of its author's present session.
ValidClaims(e, claims) ==
    /\ \E c \in claims : c.id[1] = e.me
    /\ \A c \in claims :
          /\ c.id[1] = e.me => c = Claim(e)
          /\ setup.participation => presence[c.id[1]] = c.id[2]

ChooseLocal(e, c) ==
    IF c.phase # Ready /\ Waiting(e, "retry")
    THEN Step(Arm([e EXCEPT !.selected = {}, !.stage = "Settling"], {"settle"}), <<>>)
    ELSE LET f == Off(e, {"retry", "follow"})
         IN IF c.phase = Ready THEN Step(Off([f EXCEPT !.stage = "DonorAvailable"], {"total"}), <<>>)
            ELSE LET g == Operation(Renewed([f EXCEPT !.phase = Building, !.stage = "Building"]))
                 IN Step(g, PublishFx(g) \o <<[kind |-> "build", id |-> c.id]>>)

ChooseRemote(e, c, same) ==
    IF c.phase = Ready
    THEN LET f == IF "retry" \in e.armed THEN e ELSE Arm(e, {"retry"})
         IN Step([Operation(Off(f, {"follow"})) EXCEPT !.stage = "DonorAvailable"],
                 <<[kind |-> "donor", id |-> c.id]>>)
    ELSE LET first == ~same \/ "follow" \notin e.armed
             more == ~first /\ c.progress > e.seen_progress
             f == IF first THEN Arm([e EXCEPT !.seen_progress = c.progress], {"follow"})
                  ELSE IF more THEN Arm([e EXCEPT !.seen_progress = c.progress], {"follow", "total"})
                  ELSE e
         IN Step([Operation(f) EXCEPT !.stage = "Following"], <<>>)

\* Of the building and ready claims, or of all when there is none, the owner wins.
Winner(candidates) ==
    LET incumbents == {c \in candidates : c.phase # Willing}
        among == IF incumbents = {} THEN candidates ELSE incumbents
    IN CHOOSE c \in among : \A d \in among : setup.rank[d.id[1]] <= setup.rank[c.id[1]]

FollowingWithinGrace(e) == Waiting(e, "follow") /\ \E s \in e.selected : s[1] # e.me

Resample(e) == Step([Operation(e) EXCEPT !.stage = "Following"], <<>>)

\* choose: the claims of the eligible members, as this node's view has them.
ChooseClaim(e, claims, members) ==
    LET open == {c \in claims : c.id \notin e.excluded}
        RECURSIVE TrackAll(_, _)
        TrackAll(f, S) == IF S = {} THEN f ELSE LET c == CHOOSE x \in S : TRUE IN TrackAll(Track(f, c), S \ {c})
        f == TrackAll(e, open)
        unseen == /\ FollowingWithinGrace(e)
                  /\ \A s \in e.selected : s[1] \notin members /\ \A c \in open : c.id[1] # s[1]
        c == Winner(open)
        g == Off([f EXCEPT !.selected = {c.id}, !.op = FALSE], {"op"})
    IN IF ~ValidClaims(e, claims) \/ \E x \in open : ~Tracks(e, x) THEN Reject(e)
       ELSE IF ~\E x \in open : x.id[1] = e.me THEN Reject(f)
       ELSE IF unseen THEN Resample(f)
       ELSE IF c.id[1] = e.me THEN ChooseLocal(g, c)
       ELSE ChooseRemote(g, c, e.selected = {c.id})

ObservationFailed(e) == IF FollowingWithinGrace(e) THEN Resample(e) ELSE Terminate(e)

BuildProgressed(e) ==
    LET f == Renewed(Arm([e EXCEPT !.progress = @ + 1], {"total", "op"}))
    IN Step(f, PublishFx(f))

\* await_recapture, pending_claim: a fresh claim that waits for a capture.
AwaitRecapture(e) == Arm(IF "renew" \in e.armed THEN e ELSE Arm(e, {"renew"}), {"recapture"})

PendingSameAttempt(e) ==
    Renewed([e EXCEPT !.phase = Building, !.progress = 0, !.selected = {Id(e)}])

PendingClaim(e) ==
    LET f == [e EXCEPT !.gen = @ + 1, !.phase = Building, !.renewal = 0, !.progress = 0,
                       !.observed = [x \in {y \in DOMAIN @ : y[1] # e.me} |-> @[x]]]
    IN Renewed([f EXCEPT !.selected = {Id(f)}])

Pending(e) ==
    setup.participation /\ e.stage = "DonorAvailable" /\ e.phase = Building /\ e.selected = {Id(e)}

Built(e) ==
    LET f == Off([e EXCEPT !.op = FALSE, !.ready = {IF e.recapture # {} THEN e.recapture ELSE e.roster},
                           !.recapture = {}, !.failed = {}, !.stage = "DonorAvailable", !.phase = Ready],
                 {"op", "total", "recapture", "backoff"})
    IN Step(Renewed(f), PublishFx(Renewed(f)))

LocalOnlyBuilt(e) ==
    LET f == Off([e EXCEPT !.op = FALSE, !.roster = {}, !.failed = {}, !.failures = 0, !.known = {},
                           !.stage = "DonorAvailable", !.phase = Building],
                 {"op", "total", "settle", "follow", "poll", "backoff"})
    IN IF setup.participation THEN Step(AwaitRecapture(f), <<>>)
       ELSE Step(Off(f, {"renew"}), WithdrawFx(f))

AdoptInstalled(e) ==
    IF ~e.installed \/ e.stage # "Participating" THEN Reject(e)
    ELSE LET f == Off([e EXCEPT !.installed = FALSE, !.stage = "DonorAvailable", !.failed = {},
                                !.failures = 0, !.known = {}], {"backoff"})
             g == PendingClaim(f)
         IN Step(AwaitRecapture(g), PublishFx(g))

\* count_failure: the participants of the failed cut are known to have failed, a
\* node's earlier life is forgotten.
CountFailure(e, cut) ==
    Arm([e EXCEPT !.failures = IF @ < setup.retries THEN @ + 1 ELSE @,
                  !.known = {k \in @ : \A r \in cut : r[k[1]] \in {0, k[2]}}
                            \union UNION {{<<n, r[n]>> : n \in {m \in Node : r[m] # 0}} : r \in cut}],
        {"backoff"})

NamesNew(e, r) ==
    (e.failures > 0 \/ "backoff" \in e.armed) /\ \E n \in Node : r[n] # 0 /\ <<n, r[n]>> \notin e.known

\* start_ready_recapture; setup.retries failures have spent a window (retries_spent).
StartReadyRecapture(e) ==
    IF ~Pending(e) \/ e.roster = {} THEN Reject(e)
    ELSE LET r == CHOOSE x \in e.roster : TRUE
             taken == [e EXCEPT !.roster = {}]
             f == IF NamesNew(e, r) THEN Off([taken EXCEPT !.failures = 0], {"backoff"}) ELSE taken
             idle == "recapture" \notin f.armed
             g == IF idle THEN AwaitRecapture(f) ELSE f
             h == [g EXCEPT !.gen = @ + 1, !.renewal = 0, !.progress = 0, !.stage = "Building",
                            !.observed = [x \in {y \in DOMAIN @ : y[1] # e.me} |-> @[x]],
                            !.recapture = {r}]
             k == Operation(Renewed([h EXCEPT !.selected = {Id(h)}]))
         IN IF "backoff" \in f.armed THEN Step(f, <<>>)
            ELSE IF (idle \/ f.failures >= setup.retries) /\ f.failed = {r} THEN Step(f, <<>>)
            ELSE Step(k, PublishFx(k) \o <<[kind |-> "recapture", id |-> Id(k)]>>)

RecaptureFailed(e) ==
    LET f == CountFailure(Off([e EXCEPT !.op = FALSE, !.recapture = {}, !.roster = {},
                                        !.stage = "DonorAvailable"], {"op"}), e.recapture)
        g == [f EXCEPT !.failed = e.recapture]
    IN IF Waiting(g, "recapture")
       THEN Step(IF "renew" \in g.armed THEN g ELSE Arm(g, {"renew"}), <<>>)
       ELSE Step(Off(g, {"recapture", "renew"}), WithdrawFx(g))

BuildFailed(e) == IF e.recapture # {} THEN RecaptureFailed(e) ELSE Terminate(e)

\* capture_retired: an early loss counts as a failure of the cut it was taken under.
CaptureRetired(e, early) ==
    IF ~(e.stage = "DonorAvailable" /\ e.selected = {Id(e)}) THEN Reject(e)
    ELSE IF ~setup.participation THEN Terminate(e)
    ELSE LET f == [e EXCEPT !.roster = {}, !.failed = {}, !.ready = {}]
             cut == UNION e.ready
             g == IF e.ready = {} THEN f
                  ELSE IF early THEN [CountFailure(f, cut) EXCEPT !.failed = cut]
                  ELSE Off([f EXCEPT !.failures = 0, !.known = {}], {"backoff"})
             renew == g.phase = Ready \/ "recapture" \notin g.armed
             h == IF renew THEN PendingClaim(g) ELSE g
         IN Step(AwaitRecapture(h), IF renew THEN PublishFx(h) ELSE <<>>)

StartTransfer(e) ==
    IF ~e.op \/ e.stage # "DonorAvailable" THEN Reject(e)
    ELSE IF Late(e, "op") \/ Late(e, "total") THEN Terminate(e)
    ELSE Step(Arm([e EXCEPT !.child = TRUE, !.stage = "Transferring"], {"claim", "poll"}), <<>>)

\* donor_unavailable, abandon_transfer: exclude the donor and look again.
GiveUp(e) ==
    LET f == NoChild(Off([Exclude(e) EXCEPT !.op = FALSE,
                             !.observed = [x \in DOMAIN @ \ e.selected |-> @[x]]], {"op"}))
    IN IF Late(f, "total") \/ Crowded(f) THEN Terminate(f) ELSE Observe(f)

\* finish_transfer.
TransferAborted(e, unavailable) ==
    LET f == NoChild(Off([e EXCEPT !.op = FALSE], {"op"}))
    IN IF unavailable /\ Waiting(f, "retry") /\ ~Late(f, "total")
       THEN Step(Arm([f EXCEPT !.selected = {}, !.stage = "Settling"], {"settle"}), <<>>)
       ELSE GiveUp(f)

TransferCompleted(e) ==
    LET f == Off(NoChild([e EXCEPT !.stage = "Transferred", !.op = FALSE]), {"op", "follow", "total", "renew"})
    IN Step(f, WithdrawFx(f))

TransferAdvanced(e) == Step(Arm(e, {"total", "op"}), <<>>)

\* selected_claim_observed: the donor must still be Ready.
SelectedClaimObserved(e, claims) ==
    LET mine == {c \in claims : {c.id} = e.selected}
    IN IF mine = {} THEN GiveUp(e)
       ELSE LET c == CHOOSE x \in mine : TRUE
            IN IF c.phase # Ready \/ ~Tracks(e, c) THEN GiveUp(e)
               ELSE Step(Arm(Track(e, c), {"claim", "poll"}), <<>>)

TickTransfer(e) ==
    LET f == IF Late(e, "renew") THEN Renewed(e) ELSE e
        g == IF Late(f, "poll") THEN Off(f, {"poll"}) ELSE f
        fx == (IF Late(e, "renew") THEN PublishFx(f) ELSE <<>>)
              \o (IF Late(f, "poll") THEN <<[kind |-> "poll"]>> ELSE <<>>)
    IN IF Late(e, "total") \/ Late(e, "claim") THEN GiveUp(e)
       ELSE IF Late(e, "op") THEN Before(fx, TransferAborted(g, FALSE))
       ELSE Step(g, fx)

\* tick_claim, in its order.
TickClaim(e) ==
    LET a == IF Late(e, "backoff") THEN Off(e, {"backoff"}) ELSE e
        b == IF Late(a, "renew") THEN Renewed(a) ELSE a
        fx == IF Late(a, "renew") THEN PublishFx(b) ELSE <<>>
        stalled == Late(b, "follow") /\ b.selected # {}
        c == IF stalled THEN Off(Exclude(b), {"follow"}) ELSE b
    IN IF e.stage = "Transferring" THEN TickTransfer(e)
       ELSE IF Late(e, "total") THEN Terminate(e)
       ELSE IF e.stage = "Building" /\ Late(e, "op") THEN BuildFailed(e)
       ELSE IF Pending(a) /\ Late(a, "recapture") THEN Step(Off(a, {"recapture", "renew"}), WithdrawFx(a))
       ELSE IF Late(b, "settle") \/ Late(b, "op") \/ Late(b, "follow")
            THEN IF stalled /\ Crowded(c) THEN Terminate(c) ELSE Before(fx, Observe(c))
       ELSE Step(b, fx)

RetireCandidate(e) ==
    IF e.stage \in {"Cancelled", "Participating"} THEN Step(e, <<>>)
    ELSE LET f == [NoChild(Off(e, Timers)) EXCEPT
                      !.installed = setup.participation /\ e.stage = "Transferred",
                      !.failed = {}, !.op = FALSE, !.stage = "Participating", !.failures = 0,
                      !.known = {}, !.ready = {}, !.selected = {}, !.roster = {}]
         IN Step(f, IF e.gen > 0 THEN WithdrawFx(e) ELSE <<>>)

CancelEngine(e) ==
    LET f == [NoChild(Off(e, Timers)) EXCEPT
                 !.op = FALSE, !.stage = "Cancelled", !.failures = 0, !.known = {}, !.ready = {},
                 !.selected = {}, !.present = FALSE]
    IN Step(f, (IF e.gen > 0 THEN WithdrawFx(e) ELSE <<>>) \o <<[kind |-> "absent"]>>)

-----------------------------------------------------------------------------
(* The session's driver.                                                   *)

\* accept: the engine steps, its effects are queued.
Accept(n, step) ==
    /\ eng' = [eng EXCEPT ![n] = step.e]
    /\ queue' = [queue EXCEPT ![n] = @ \o step.fx]

\* tick: the engine's clock moves, and with it any of the armed deadlines pass.
Passes(e) ==
    {D \in SUBSET e.armed : D # {} /\ ("renew" \in D => e.renewal < setup.renewals)}
Tick(e, D) == TickClaim([e EXCEPT !.passed = @ \union D])

\* A participation sample: complete when every live member is present, and equal to
\* the roster the engine pinned (verify_participant_roster).  {} when it fails.
Sample(n) ==
    IF /\ \A m \in alive : presence[m] # 0
       /\ presence[n] = eng[n].session
       /\ \A r \in eng[n].roster : r = presence
       /\ \A m \in Node : \A c \in view[n][m] : presence[m] = c.id[2]
    THEN {presence} ELSE {}

Pin(e, sample) == IF e.roster = {} THEN [e EXCEPT !.roster = sample] ELSE e

Claims(n) == UNION {view[n][m] : m \in alive}

DropCapture(n) == capture' = [capture EXCEPT ![n] = {}]
Ends(n, result) == mode' = [mode EXCEPT ![n] = result]
Fault(kind) == kind \in setup.kinds /\ faults < setup.faults /\ faults' = faults + 1

\* The session is called by one worker: a maintenance turn drains its effects, and
\* only the future of an acquisition is ever dropped half way.
Settled(n) == mode[n] # "running" /\ (mode[n] = "maintaining" => queue[n] = <<>> /\ work[n] = {})

\* run_acquisition: a capture of an earlier episode is dropped, the engine starts.
Acquire(n) ==
    /\ n \in alive /\ Settled(n) /\ episodes < setup.episodes
    /\ setup.staggered => \A m \in alive : mode[m] # "running"
    /\ episodes' = episodes + 1
    /\ LET e == IF eng[n].stage = "Cancelled" THEN NewEngine(n, eng[n].session + 1) ELSE eng[n]
           step == StartEngine(e)
       IN /\ eng' = [eng EXCEPT ![n] = step.e]
          /\ queue' = [queue EXCEPT ![n] = (IF eng[n].stage = "Cancelled" THEN <<>> ELSE @) \o step.fx]
    /\ DropCapture(n) /\ Ends(n, "running")
    /\ bound' = [bound EXCEPT ![n] = "bound"]
    /\ UNCHANGED <<setup, work, pub, view, presence, alive, faults>>

Running(n) == n \in alive /\ mode[n] = "running" /\ work[n] = {}

\* The loop's tick, once its effects are executed.
RunTick(n) ==
    /\ Running(n) /\ queue[n] = <<>>
    /\ \E D \in Passes(eng[n]) : Accept(n, Tick(eng[n], D))
    /\ UNCHANGED <<setup, mode, work, capture, bound, pub, view, presence, alive, episodes, faults>>

\* The parent's permit lapses, or a selection has ended.
RunEnds(n) ==
    /\ Running(n)
    /\ \/ queue[n] = <<>> /\ eng[n].stage \in {"Fallback", "Cancelled"} /\ UNCHANGED faults
       \/ Fault("call")
    /\ Ends(n, "declined")
    /\ UNCHANGED <<setup, eng, queue, work, capture, bound, pub, view, presence, alive, episodes>>

Top(n) == Head(queue[n])
Executes(n, kind) ==
    n \in alive /\ work[n] = {} /\ queue[n] # <<>> /\ Top(n).kind = kind
Popped(n) == Tail(queue[n])
Then(n, step) ==
    /\ eng' = [eng EXCEPT ![n] = step.e]
    /\ queue' = [queue EXCEPT ![n] = Popped(n) \o step.fx]
Pops(n) == queue' = [queue EXCEPT ![n] = Popped(n)]

\* claim_live: maintenance publishes no claim nothing stands behind.
ClaimLive(n) == capture[n] # {} \/ eng[n].stage = "Building" \/ Pending(eng[n])

\* PublishClaim in execute_claim_effect, drain_ready_publication, drain_maintenance.
ExecuteClaim(n) ==
    /\ Executes(n, "claim") /\ mode[n] \in {"running", "maintaining"}
    /\ LET running == mode[n] = "running"
       IN \/ /\ running \/ ClaimLive(n)
             /\ pub' = [pub EXCEPT ![n] = {Top(n).claim}]
             /\ view' = [view EXCEPT ![n][n] = {Top(n).claim}]
             /\ Pops(n) /\ UNCHANGED <<eng, mode, capture, faults>>
          \/ /\ ~running /\ ~ClaimLive(n)
             /\ Pops(n) /\ UNCHANGED <<eng, mode, capture, pub, view, faults>>
          \/ /\ running /\ Fault("store") /\ Ends(n, "declined")
             /\ Pops(n) /\ UNCHANGED <<eng, capture, pub, view>>
          \/ /\ ~running /\ ClaimLive(n) /\ Fault("store") /\ DropCapture(n)
             /\ Then(n, IF eng[n].stage = "Building" THEN BuildFailed(eng[n])
                        ELSE IF eng[n].stage = "DonorAvailable" /\ eng[n].selected = {Top(n).claim.id}
                             THEN Terminate(eng[n]) ELSE Reject(eng[n]))
             /\ UNCHANGED <<mode, pub, view>>
    /\ UNCHANGED <<setup, work, bound, presence, alive, episodes>>

ExecutePresence(n) ==
    /\ Executes(n, "presence") /\ mode[n] \in {"running", "maintaining"}
    /\ \/ /\ presence' = [presence EXCEPT ![n] = eng[n].session]
          /\ Pops(n) /\ UNCHANGED <<eng, mode, capture, faults>>
       \/ /\ Fault("store") /\ Then(n, PresenceFailure(eng[n]))
          /\ IF mode[n] = "running" THEN Ends(n, "declined") /\ UNCHANGED capture
             ELSE DropCapture(n) /\ UNCHANGED mode
          /\ UNCHANGED presence
    /\ UNCHANGED <<setup, work, bound, pub, view, alive, episodes>>

Withdrawn(n, id) ==
    IF \E c \in pub[n] : c.id = id
    THEN pub' = [pub EXCEPT ![n] = {}] /\ view' = [view EXCEPT ![n][n] = {}]
    ELSE UNCHANGED <<pub, view>>

ExecuteWithdraw(n) ==
    /\ Executes(n, "withdraw") /\ mode[n] \in {"running", "maintaining"}
    /\ Withdrawn(n, Top(n).id) /\ Pops(n)
    /\ UNCHANGED <<setup, eng, mode, work, capture, bound, presence, alive, episodes, faults>>

ExecuteAbsent(n) ==
    /\ Executes(n, "absent") /\ mode[n] \in {"running", "maintaining"}
    /\ presence' = [presence EXCEPT ![n] = 0] /\ Pops(n)
    /\ UNCHANGED <<setup, eng, mode, work, capture, bound, pub, view, alive, episodes, faults>>

ExecuteFallback(n) ==
    /\ Executes(n, "fallback") /\ mode[n] = "running"
    /\ Pops(n) /\ Ends(n, "declined")
    /\ UNCHANGED <<setup, eng, work, capture, bound, pub, view, presence, alive, episodes, faults>>

\* drain_maintenance begins on what an acquisition left, and ignores what only an
\* acquisition executes.
Drain(n) ==
    /\ n \in alive /\ queue[n] # <<>> /\ work[n] = {}
    /\ \/ mode[n] \notin {"running", "maintaining"} /\ Ends(n, "maintaining") /\ UNCHANGED queue
       \/ /\ mode[n] = "maintaining" /\ Top(n).kind \in {"observe", "build", "donor", "poll", "fallback"}
          /\ Pops(n) /\ UNCHANGED mode
    /\ UNCHANGED <<setup, eng, work, capture, bound, pub, view, presence, alive, episodes, faults>>

\* observe_participants or observe_claim_set; an unusable sample is ObservationFailed.
ExecuteObserve(n) ==
    /\ Executes(n, "observe") /\ mode[n] = "running"
    /\ LET e == eng[n]
           complete == ~setup.participation \/ \A m \in alive : presence[m] # 0
           chosen == ChooseClaim(e, Claims(n), alive)
           pinned == [chosen EXCEPT !.e.roster = IF setup.participation THEN {presence} ELSE {}]
       IN IF e.stage # "Observing" THEN Pops(n) /\ UNCHANGED <<eng, faults>>
          ELSE \/ complete /\ chosen.ok /\ Then(n, pinned) /\ UNCHANGED faults
               \/ ~(complete /\ chosen.ok) /\ Then(n, ObservationFailed(e)) /\ UNCHANGED faults
               \/ Fault("store") /\ Then(n, ObservationFailed(e))
    /\ UNCHANGED <<setup, mode, work, capture, bound, pub, view, presence, alive, episodes>>

\* BuildOrigin and RecaptureCurrent begin with a sample of the participants.
ExecuteBuild(n) ==
    /\ Executes(n, "build") /\ mode[n] = "running"
    /\ LET s == IF setup.participation THEN Sample(n) ELSE {}
       IN IF ~eng[n].op THEN Pops(n) /\ UNCHANGED <<eng, mode, work>>
          ELSE IF setup.participation /\ s = {}
          THEN Pops(n) /\ Ends(n, "declined") /\ UNCHANGED <<eng, work>>
          ELSE /\ work' = [work EXCEPT ![n] = {[kind |-> "scan", members |-> s, id |-> Top(n).id]}]
               /\ eng' = [eng EXCEPT ![n] = Pin(@, s)]
               /\ Pops(n) /\ UNCHANGED mode
    /\ UNCHANGED <<setup, capture, bound, pub, view, presence, alive, episodes, faults>>

ExecuteRecapture(n) ==
    /\ Executes(n, "recapture") /\ mode[n] = "maintaining"
    /\ LET s == Sample(n)
       IN IF ~eng[n].op THEN Pops(n) /\ UNCHANGED <<eng, work>>
          ELSE IF s = {} THEN Then(n, BuildFailed(eng[n])) /\ UNCHANGED work
          ELSE /\ work' = [work EXCEPT ![n] = {[kind |-> "recapture", members |-> s, id |-> Top(n).id]}]
               /\ eng' = [eng EXCEPT ![n] = Pin(@, s)]
               /\ Pops(n)
    /\ UNCHANGED <<setup, mode, capture, bound, pub, view, presence, alive, episodes, faults>>

\* await_renewing: the scan's progress and the timers are seen while it runs, and
\* renewals are published; a lost operation ends the wait.
WorkTick(n) ==
    /\ n \in alive /\ work[n] # {} /\ queue[n] = <<>>
    /\ \E moved \in BOOLEAN, D \in {{}} \union Passes(eng[n]) :
          LET w == CHOOSE x \in work[n] : TRUE
              e == eng[n]
              may == moved /\ w.kind = "scan" /\ ~Late(e, "op") /\ e.progress < setup.progress
              a == IF may THEN BuildProgressed(e) ELSE Step(e, <<>>)
              b == Tick(a.e, D)
              fx == a.fx \o b.fx
              claims == {k \in 1..Len(fx) : fx[k].kind = "claim"}
          IN /\ may \/ D # {}
             /\ eng' = [eng EXCEPT ![n] = b.e]
             /\ IF claims = {} THEN UNCHANGED <<pub, view>>
                ELSE LET c == fx[CHOOSE k \in claims : \A j \in claims : j <= k].claim
                     IN pub' = [pub EXCEPT ![n] = {c}] /\ view' = [view EXCEPT ![n][n] = {c}]
             /\ queue' = [queue EXCEPT ![n] = SelectSeq(fx, LAMBDA x : x.kind # "claim")]
             /\ work' = IF b.e.op THEN work ELSE [work EXCEPT ![n] = {}]
    /\ UNCHANGED <<setup, mode, capture, bound, presence, alive, episodes, faults>>

\* The scan or the recapture returns an active capture.  It is offered only if the
\* participants are the ones it began under; then the Ready claim is published.
WorkDone(n) ==
    /\ n \in alive /\ work[n] # {} /\ queue[n] = <<>>
    /\ LET w == CHOOSE x \in work[n] : TRUE
           scan == w.kind = "scan"
           same == ~setup.participation \/ Sample(n) = w.members
           built == Built(eng[n])
       IN IF ~same
          THEN /\ Accept(n, IF scan THEN LocalOnlyBuilt(eng[n]) ELSE BuildFailed(eng[n]))
               /\ UNCHANGED <<capture, pub, view, faults>>
          ELSE \/ /\ eng' = [eng EXCEPT ![n] = built.e]
                  /\ capture' = [capture EXCEPT ![n] = {[id |-> w.id, members |-> w.members, active |-> TRUE]}]
                  /\ pub' = [pub EXCEPT ![n] = {built.fx[1].claim}]
                  /\ view' = [view EXCEPT ![n][n] = {built.fx[1].claim}]
                  /\ UNCHANGED <<queue, faults>>
               \/ /\ Fault("store")                               \* DonorPublicationFailed
                  /\ Accept(n, Terminate(built.e))
                  /\ UNCHANGED <<capture, pub, view>>
    /\ work' = [work EXCEPT ![n] = {}]
    /\ IF mode[n] = "running" THEN Ends(n, "local") ELSE UNCHANGED mode
    /\ UNCHANGED <<setup, bound, presence, alive, episodes>>

\* The scan cannot be offered (LocalOnly), or it fails.
WorkFails(n) ==
    /\ n \in alive /\ work[n] # {} /\ queue[n] = <<>> /\ Fault("work")
    /\ LET w == CHOOSE x \in work[n] : TRUE
       IN \/ w.kind = "scan" /\ Accept(n, LocalOnlyBuilt(eng[n])) /\ Ends(n, "local")
          \/ Accept(n, BuildFailed(eng[n])) /\ UNCHANGED mode
    /\ work' = [work EXCEPT ![n] = {}]
    /\ UNCHANGED <<setup, capture, bound, pub, view, presence, alive, episodes>>

\* DonorAvailable: the roster is sampled, then the child starts.
ExecuteDonor(n) ==
    /\ Executes(n, "donor") /\ mode[n] = "running"
    /\ LET s == IF setup.participation THEN Sample(n) ELSE {}
           t == StartTransfer(Pin(eng[n], s))
       IN IF setup.participation /\ s = {}
          THEN Then(n, Terminate(eng[n])) /\ Ends(n, "declined")
          ELSE Then(n, t) /\ IF t.ok THEN UNCHANGED mode ELSE Ends(n, "declined")
    /\ UNCHANGED <<setup, work, capture, bound, pub, view, presence, alive, episodes, faults>>

\* ObserveSelectedClaim; an unreadable sample is taken again later.
ExecutePoll(n) ==
    /\ Executes(n, "poll") /\ mode[n] = "running"
    /\ \/ /\ UNCHANGED faults
          /\ IF eng[n].stage = "Transferring" THEN Then(n, SelectedClaimObserved(eng[n], Claims(n)))
             ELSE Pops(n) /\ UNCHANGED eng
       \/ /\ Fault("store")
          /\ IF eng[n].stage = "Transferring" THEN Then(n, Step(Arm(eng[n], {"poll"}), <<>>))
             ELSE Pops(n) /\ UNCHANGED eng
    /\ UNCHANGED <<setup, mode, work, capture, bound, pub, view, presence, alive, episodes>>

\* The child's exchanges with the donor (module Transfer).
Serving(n, id) == \E c \in capture[n] : c.id = id /\ c.active

TransferStep(n) ==
    /\ Running(n) /\ queue[n] = <<>> /\ eng[n].child
    /\ LET e == eng[n]
           donor == CHOOSE s \in e.selected : TRUE
       IN \/ /\ Serving(donor[1], donor) /\ Accept(n, TransferCompleted(e))
             /\ Ends(n, "peer") /\ UNCHANGED faults
          \/ /\ ~Serving(donor[1], donor) /\ Accept(n, TransferAborted(e, FALSE)) /\ UNCHANGED <<mode, faults>>
          \/ /\ Fault("donor") /\ Accept(n, TransferAborted(e, TRUE)) /\ UNCHANGED mode
          \/ /\ Fault("donor") /\ Serving(donor[1], donor) /\ Accept(n, TransferAdvanced(e)) /\ UNCHANGED mode
    /\ UNCHANGED <<setup, work, capture, bound, pub, view, presence, alive, episodes>>

-----------------------------------------------------------------------------
(* The worker's other calls into the session.                              *)

Idle(n) == n \in alive /\ Settled(n) /\ queue[n] = <<>> /\ work[n] = {}
Turn(n) == mode' = [mode EXCEPT ![n] = "maintaining"]

\* retire_cancel_effects: withdrawals are executed, the capture is dropped.
Retires(n, step) ==
    /\ eng' = [eng EXCEPT ![n] = step.e]
    /\ LET fx == queue[n] \o step.fx
           ids == {fx[k].id : k \in {j \in 1..Len(fx) : fx[j].kind = "withdraw"}}
           gone == \E c \in pub[n] : c.id \in ids
       IN /\ IF gone THEN pub' = [pub EXCEPT ![n] = {}] /\ view' = [view EXCEPT ![n][n] = {}]
             ELSE UNCHANGED <<pub, view>>
          /\ presence' = IF \E k \in 1..Len(fx) : fx[k].kind = "absent" THEN [presence EXCEPT ![n] = 0] ELSE presence
    /\ queue' = [queue EXCEPT ![n] = <<>>]
    /\ DropCapture(n) /\ work' = [work EXCEPT ![n] = {}]

\* cancel: a new episode of the recovery.
Cancel(n) ==
    /\ n \in alive /\ bound[n] # "none" /\ (Settled(n) \/ mode[n] = "running")
    /\ IF Settled(n) THEN UNCHANGED faults ELSE Fault("call")
    /\ Retires(n, RetireCandidate(eng[n]))
    /\ bound' = [bound EXCEPT ![n] = "none"]
    /\ Ends(n, "idle")
    /\ UNCHANGED <<setup, alive, episodes>>

Shutdown(n) ==
    /\ n \in alive /\ eng[n].stage # "Cancelled" /\ (Settled(n) \/ mode[n] = "running") /\ Fault("call")
    /\ Retires(n, CancelEngine(eng[n]))
    /\ bound' = [bound EXCEPT ![n] = "none"]
    /\ Ends(n, "idle")
    /\ UNCHANGED <<setup, alive, episodes>>

\* suspend_local, resume_local: a lapse keeps the index and takes the capture.
Suspend(n) ==
    /\ Idle(n) /\ bound[n] = "bound" /\ eng[n].stage = "DonorAvailable" /\ Fault("call")
    /\ LET step == CaptureRetired(eng[n], TRUE)
       IN IF step.ok THEN Accept(n, step) ELSE UNCHANGED <<eng, queue>>
    /\ DropCapture(n)
    /\ bound' = [bound EXCEPT ![n] = "suspended"]
    /\ Turn(n)
    /\ UNCHANGED <<setup, work, pub, view, presence, alive, episodes>>

Resume(n) ==
    /\ Idle(n) /\ bound[n] = "suspended" /\ Pending(eng[n])
    /\ bound' = [bound EXCEPT ![n] = "bound"]
    /\ UNCHANGED <<setup, eng, queue, mode, work, capture, pub, view, presence, alive, episodes, faults>>

\* adopt_local: an index taken from a peer makes this node a donor itself.
Adopt(n) ==
    /\ Idle(n) /\ bound[n] = "none" /\ AdoptInstalled(eng[n]).ok
    /\ Accept(n, AdoptInstalled(eng[n]))
    /\ bound' = [bound EXCEPT ![n] = "bound"]
    /\ UNCHANGED <<setup, mode, work, capture, pub, view, presence, alive, episodes, faults>>

\* The journal behind a capture is invalidated.
LoseCapture(n) ==
    /\ n \in alive /\ \E c \in capture[n] : c.active
    /\ Fault("capture")
    /\ capture' = [capture EXCEPT ![n] = {[c EXCEPT !.active = FALSE] : c \in @}]
    /\ UNCHANGED <<setup, eng, queue, mode, work, bound, pub, view, presence, alive, episodes>>

Retire(n, early) ==
    LET step == CaptureRetired(eng[n], early)
    IN /\ IF step.ok THEN Accept(n, step) ELSE UNCHANGED <<eng, queue>>
       /\ DropCapture(n)

\* maintain: an invalid capture is retired and the timers are ticked ...
Maintain(n) ==
    /\ Idle(n)
    /\ \/ /\ \E c \in capture[n] : ~c.active
          /\ \E early \in BOOLEAN : Retire(n, early)
       \/ /\ \A c \in capture[n] : c.active
          /\ \E D \in Passes(eng[n]) : Accept(n, Tick(eng[n], D))
          /\ UNCHANGED capture
    /\ Turn(n)
    /\ UNCHANGED <<setup, work, bound, pub, view, presence, alive, episodes, faults>>

\* ... a capture whose participants changed is retired ...
MaintainRoster(n) ==
    /\ Idle(n) /\ setup.participation /\ capture[n] # {} /\ Sample(n) = {}
    /\ \E early \in BOOLEAN : Retire(n, early)
    /\ Turn(n)
    /\ UNCHANGED <<setup, work, bound, pub, view, presence, alive, episodes, faults>>

\* ... and a pending recapture is started under the roster of the moment.
MaintainRecapture(n) ==
    /\ Idle(n) /\ bound[n] = "bound" /\ Pending(eng[n]) /\ Sample(n) # {}
    /\ LET step == StartReadyRecapture(Pin(eng[n], Sample(n)))
       IN Accept(n, step) /\ step.e # eng[n]
    /\ Turn(n)
    /\ UNCHANGED <<setup, work, capture, bound, pub, view, presence, alive, episodes, faults>>

-----------------------------------------------------------------------------
(* The group.                                                              *)

\* Gossip delivers a node's entry, or its deletion.
Deliver(m, n) ==
    /\ m # n /\ view[m][n] # pub[n]
    /\ view' = [view EXCEPT ![m][n] = pub[n]]
    /\ UNCHANGED <<setup, eng, queue, mode, work, capture, bound, pub, presence, alive, episodes, faults>>

\* An entry that is not renewed expires.
Expire(n) ==
    /\ \E c \in pub[n] : c.id # Id(eng[n]) \/ "renew" \notin eng[n].armed
    /\ pub' = [pub EXCEPT ![n] = {}] /\ view' = [view EXCEPT ![n][n] = {}]
    /\ UNCHANGED <<setup, eng, queue, mode, work, capture, bound, presence, alive, episodes, faults>>

\* A node stops: its entries expire, its membership ends.
Crash(n) ==
    /\ n \in alive /\ alive # {n} /\ Fault("crash")
    /\ alive' = alive \ {n}
    /\ presence' = [presence EXCEPT ![n] = 0]
    /\ pub' = [pub EXCEPT ![n] = {}]
    /\ capture' = [capture EXCEPT ![n] = {}]
    /\ queue' = [queue EXCEPT ![n] = <<>>] /\ work' = [work EXCEPT ![n] = {}]
    /\ Ends(n, "idle")
    /\ bound' = [bound EXCEPT ![n] = "none"]
    /\ view' = [view EXCEPT ![n] = [m \in Node |-> {}]]
    /\ UNCHANGED <<setup, eng, episodes>>

Restart(n) ==
    /\ n \in (setup.nodes \union setup.joins) \ alive
    /\ alive' = alive \union {n}
    /\ eng' = [eng EXCEPT ![n] = NewEngine(n, @.session + 1)]
    /\ UNCHANGED <<setup, queue, mode, work, capture, bound, pub, view, presence, episodes, faults>>

Init ==
    /\ setup \in Setups
    /\ eng = [n \in Node |-> NewEngine(n, 1)]
    /\ queue = [n \in Node |-> <<>>] /\ mode = [n \in Node |-> "idle"]
    /\ work = [n \in Node |-> {}] /\ capture = [n \in Node |-> {}]
    /\ bound = [n \in Node |-> "none"] /\ pub = [n \in Node |-> {}]
    /\ view = [n \in Node |-> [m \in Node |-> {}]]
    /\ presence = [n \in Node |-> 0] /\ alive = setup.nodes
    /\ episodes = 0 /\ faults = 0

Execute(n) ==
    \/ ExecuteClaim(n) \/ ExecutePresence(n) \/ ExecuteWithdraw(n) \/ ExecuteAbsent(n)
    \/ ExecuteFallback(n) \/ ExecuteObserve(n) \/ ExecuteBuild(n) \/ ExecuteRecapture(n)
    \/ ExecuteDonor(n) \/ ExecutePoll(n) \/ Drain(n)

Next ==
    \E n \in Node :
        \/ Acquire(n) \/ RunTick(n) \/ RunEnds(n) \/ Execute(n)
        \/ WorkTick(n) \/ WorkDone(n) \/ WorkFails(n) \/ TransferStep(n)
        \/ Cancel(n) \/ Shutdown(n) \/ Suspend(n) \/ Resume(n) \/ Adopt(n)
        \/ LoseCapture(n) \/ Maintain(n) \/ MaintainRoster(n) \/ MaintainRecapture(n)
        \/ Expire(n) \/ Crash(n) \/ Restart(n)
        \/ \E m \in Node : Deliver(m, n)

Spec == Init /\ [][Next]_vars

\* The task runs, a scan ends or its deadline passes, and as every turn of the loop
\* takes time, the total deadline passes in some turn.
Fairness ==
    \A n \in Node :
        /\ WF_vars(Execute(n)) /\ WF_vars(WorkDone(n) \/ WorkTick(n))
        /\ WF_vars(RunEnds(n) /\ UNCHANGED faults)
        /\ SF_vars(RunTick(n) /\ "total" \notin eng'[n].armed)

FairSpec == Spec /\ Fairness

-----------------------------------------------------------------------------
(* Properties.                                                             *)

\* Stages, phases and deadlines stay in range; a passed deadline is an armed one.
TypeOK ==
    /\ \A n \in Node :
          /\ eng[n].stage \in {"Unready", "Settling", "Observing", "Building", "Following", "DonorAvailable",
                               "Transferring", "Transferred", "Fallback", "Participating", "Cancelled"}
          /\ eng[n].passed \subseteq eng[n].armed /\ eng[n].armed \subseteq Timers
          /\ mode[n] \in {"idle", "running", "local", "peer", "declined", "maintaining"}
          /\ Cardinality(work[n]) <= 1 /\ Cardinality(capture[n]) <= 1 /\ Cardinality(eng[n].selected) <= 1
    /\ faults \in 0..setup.faults

\* A node whose engine offers an index holds the capture of that very claim, and a
\* Ready entry it still renews has one behind it between two calls of the worker:
\* retiring a capture takes the claim with it (capture_retired, drop_capture).  An
\* entry of an earlier attempt is one whose replacement failed, and only expires.
ReadyIsBacked ==
    \A n \in alive :
        /\ eng[n].stage = "DonorAvailable" /\ eng[n].phase = Ready /\ eng[n].selected = {Id(eng[n])}
              => \E c \in capture[n] : c.id = Id(eng[n])
        /\ Idle(n) => \A p \in pub[n] :
              p.phase = Ready /\ p.id = Id(eng[n]) => \E c \in capture[n] : c.id = p.id

\* What a node publishes never contradicts what it published: attempts only grow,
\* and within one the renewal grows while the phase and the progress do not fall,
\* so no reader's track_claim refuses an honest claim.
ClaimsAdvance ==
    [][\A n \in Node : \A old \in pub[n] : \A new \in pub'[n] :
          new # old => \/ <<new.id[2], new.id[3]>> # <<old.id[2], old.id[3]>>
                          /\ new.id[2] >= old.id[2] /\ (new.id[2] = old.id[2] => new.id[3] > old.id[3])
                       \/ /\ new.id = old.id /\ new.renewal > old.renewal
                          /\ new.phase >= old.phase /\ new.progress >= old.progress]_vars

\* An acquisition ends: built, installed from a peer or declined, whatever the
\* other nodes do (run_acquisition).
AtRest == \A n \in Node : mode[n] # "running"

AcquisitionEnds == <>[]AtRest
=============================================================================
