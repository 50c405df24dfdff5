------------------------------ MODULE Election ------------------------------
(***************************************************************************)
(* The Hosted-mode election of one group: engine/election.rs, order.rs,    *)
(* quorum.rs and its resign and recovery parts, together with the runtime  *)
(* driver's write-ahead grant store (driver/durability.rs).                *)
(*                                                                         *)
(* Every node runs the same sans-IO engine.  A tick or a frame is one      *)
(* atomic step of one node: the engine mutates its state and returns       *)
(* effects, which the driver executes before it takes the next event.      *)
(* Frames may be lost, duplicated, reordered, and delayed; a claim and the *)
(* grant that answers it are together delayed by at most max_rtt.  All      *)
(* clocks run at one rate (the code's lease assumption), so one clock now  *)
(* stands for all of them.                                                 *)
(*                                                                         *)
(* Whether a node is top-ranked (is_coordinator) depends on its membership *)
(* view, which changes by gossip: here each tick of a candidate finds      *)
(* itself top-ranked or not, freely.  Likewise a broadcast goes to every   *)
(* peer, and the peers a real view lacks are covered by loss.              *)
(***************************************************************************)
EXTENDS Integers, FiniteSets

CONSTANTS
    Node,    \* node ids, positive integers: the larger one wins a tie
    Voters,  \* the static voter roster of a Quorum group
    Window,  \* claim_settle_ms under Settle
    Lease,   \* lease_ms
    Gossip,  \* gossip_interval_ms
    Setups   \* the setups a behaviour may run under

None == 0

\* How the group is set up, what may happen to it, and the bounds of the model.
Setup ==
    [activation : {"Quorum", "Settle"},
     durable    : SUBSET Voters,  \* voters whose driver has a grant store
     failing    : SUBSET Voters,  \* voters whose store may refuse a write
     candidates : SUBSET Node,    \* nodes that may find themselves top-ranked
     crashable  : SUBSET Node,    \* nodes that may crash and start again
     leavers    : SUBSET Node,    \* nodes that may leave
     nudges     : BOOLEAN,        \* whether anti-entropy rounds are nudged forward
     delivered  : SUBSET {"Claim", "Grant", "State", "Resign"},  \* bound: the other frames are lost
     max_rtt    : Nat,            \* longest claim-to-grant round trip, and frame lifetime
     max_epoch  : Nat,            \* bound: no claim above it
     max_time   : Nat]            \* bound: the clock stops there

ASSUME NodeAssumption ==
    /\ IsFiniteSet(Node) /\ Node \subseteq Nat \ {None}
    /\ Voters \subseteq Node
    /\ Setups \subseteq Setup

ASSUME TimeAssumption == Window \in Nat /\ Lease \in Nat \ {0} /\ Gossip \in Nat \ {0}

VARIABLES
    setup,      \* the setup of this behaviour; no step changes it
    now,        \* the clock
    el,         \* el[n]: node n's Election and QuorumState
    disk,       \* disk[n]: the pair in n's grant store
    undurable,  \* undurable[n]: the grant n's store refused, if any
    net,        \* frames in flight
    issued,     \* history: every <<voter, pair>> a voter has granted
    hosted      \* history: every (epoch, host) pair that was ever activated

vars == <<setup, now, el, disk, undurable, net, issued, hosted>>

IsQuorum == setup.activation = "Quorum"

-----------------------------------------------------------------------------
\* Pairs, the fencing order and the roster

Larger(a, b) == IF a >= b THEN a ELSE b
Smaller(a, b) == IF a <= b THEN a ELSE b

\* An (epoch, node) pair; the empty pair is below every real one.
NoPair == <<0, None>>

\* Mutant: the tie within an epoch goes to whoever spoke last.
OutranksOnTie(p, q) == p[1] > q[1] \/ (p[1] = q[1] /\ p[2] # q[2])

\* Epoch-major; no host sorts below any host; a tie goes to the placement owner.
Outranks(p, q) == p[1] > q[1] \/ (p[1] = q[1] /\ p[2] > q[2])

Majority == Cardinality(Voters) \div 2 + 1

\* When the next anti-entropy round is due; see Due.
NextRound == IF setup.nudges THEN 0 ELSE now + Gossip

ActivationWindow == IF IsQuorum THEN Lease ELSE Window

\* The fields of Election, QuorumState and the engine that a node loses in a
\* crash.  claim is <<epoch, settle_at>>, resigning <<epoch, pending voters>>.
BootState(granted, promise) ==
    [role |-> "Follower", highest_seen |-> granted[1], epoch |-> 0, host |-> None,
     claim |-> NoPair, lease_until |-> 0, no_claim_before |-> now + ActivationWindow,
     granted |-> granted, grant_promise_until |-> promise, resigned |-> FALSE,
     round_sent_at |-> 0, round_grants |-> {}, round_refused |-> {},
     resigning |-> <<0, {}>>, leaving |-> FALSE, next_anti_entropy |-> NextRound]

\* Mutant: the store's pair comes back without the boot blackout.
RecoveredNoBlackout(n) ==
    IF n \in setup.durable THEN BootState(disk[n], 0) ELSE BootState(NoPair, 0)

\* Mutant: the recovered pair is dropped.
RecoveredNoPair(n) == BootState(NoPair, now + Lease)

\* A start from the store: an attested empty ledger owes nobody a promise, a
\* recorded pair comes back and the blackout still runs.  A start without a
\* store knows nothing and sits out the blackout.
Recovered(n) ==
    IF n \in setup.durable
    THEN BootState(disk[n], IF disk[n] = NoPair THEN 0 ELSE now + Lease)
    ELSE BootState(NoPair, now + Lease)

-----------------------------------------------------------------------------
\* Frames.  A grant carries, for the delay bound only, the send instant of the
\* claim it answers; every other frame its own send instant.

Frame(kind, epoch, who, from, to, at) ==
    [kind |-> kind, epoch |-> epoch, who |-> who, from |-> from, to |-> to, at |-> at]

Peers(n) == Node \ {n}


\* Mutant: the claim names the host its sender knows.
ClaimForHost(n, epoch, to) == Frame("Claim", epoch, el[n].host, n, to, now)

ClaimFrame(n, epoch, to) == Frame("Claim", epoch, n, n, to, now)

StateFrame(n, s, to) == Frame("State", s.epoch, s.host, n, to, now)
ResignFrame(n, epoch, to) == Frame("Resign", epoch, n, n, to, now)
GrantFrame(n, pair, claim) == Frame("Grant", pair[1], pair[2], n, {claim.from}, claim.at)

-----------------------------------------------------------------------------
\* The voter's ledger: a grant is fresh, a repeat, or refused.

\* Mutant: an equal epoch passes for an advance.
FreshEqual(s, epoch, claimant) ==
    /\ ~s.leaving
    /\ epoch >= s.granted[1]
    /\ s.granted[2] = claimant \/ now >= s.grant_promise_until

Fresh(s, epoch, claimant) ==
    /\ ~s.leaving
    /\ epoch > s.granted[1]
    /\ s.granted[2] = claimant \/ now >= s.grant_promise_until

Repeat(s, epoch, claimant) ==
    ~s.leaving /\ s.granted = <<epoch, claimant>> /\ ~s.resigned

Grants(n, s, epoch, claimant) ==
    IsQuorum /\ n \in Voters /\ (Fresh(s, epoch, claimant) \/ Repeat(s, epoch, claimant))

\* Mutant: a repeated grant does not slide the promise.
RecordFreshOnly(n, s, epoch, claimant) ==
    IF IsQuorum /\ n \in Voters /\ Fresh(s, epoch, claimant)
    THEN [s EXCEPT !.granted = <<epoch, claimant>>, !.resigned = FALSE,
                   !.grant_promise_until = now + Lease]
    ELSE s

RecordGrant(n, s, epoch, claimant) ==
    IF Grants(n, s, epoch, claimant)
    THEN [s EXCEPT !.granted = <<epoch, claimant>>, !.resigned = FALSE,
                   !.grant_promise_until = now + Lease]
    ELSE s

\* A claim refused for its epoch is answered with the pair already granted.
FloorAnswers(n, s, epoch, claimant) ==
    /\ IsQuorum /\ ~s.leaving /\ n \in Voters /\ claimant # n /\ s.granted # NoPair
    /\ epoch <= s.granted[1] /\ s.granted # <<epoch, claimant>>

-----------------------------------------------------------------------------
\* Role changes

Activate(n, s, epoch, until) ==
    [s EXCEPT !.role = "Host", !.claim = NoPair, !.epoch = epoch, !.host = n,
              !.highest_seen = Larger(@, epoch), !.lease_until = until]

Abandon(s) == [s EXCEPT !.claim = NoPair, !.role = "Follower"]

Demote(s) == [s EXCEPT !.role = "Follower", !.host = None]

\* A pair above ours: stand down as host, and drop a claim it has overtaken.
StandDown(s, epoch) ==
    IF s.role = "Host" \/ (s.claim # NoPair /\ s.claim[1] <= epoch)
    THEN Abandon(s) ELSE s

Adopt(s, epoch, host) ==
    StandDown([s EXCEPT !.epoch = epoch, !.host = host,
                        !.highest_seen = Larger(@, epoch)], epoch)

\* A state frame that names this very node teaches the epoch, not the hostship.
LearnSelfNamed(s, epoch) ==
    LET t == [s EXCEPT !.highest_seen = Larger(@, epoch)] IN
    IF epoch <= s.epoch THEN t
    ELSE StandDown([t EXCEPT !.epoch = epoch, !.host = None], epoch)

-----------------------------------------------------------------------------
\* The grant round

CloseRound(n, s, epoch) ==
    LET until == s.round_sent_at + Lease IN
    CASE Cardinality(s.round_grants) < Majority -> s
      [] Cardinality(s.round_grants) >= Majority /\ s.role = "Claimant" ->
            Activate(n, s, epoch, until)
      [] Cardinality(s.round_grants) >= Majority /\ s.role = "Host" ->
            [s EXCEPT !.lease_until = Larger(@, until)]
      [] OTHER -> s

SelfGrant(n, s, epoch) ==
    IF Grants(n, s, epoch, n)
    THEN CloseRound(n, [RecordGrant(n, s, epoch, n) EXCEPT !.round_grants = @ \cup {n}], epoch)
    ELSE s

OpenRound(n, s, epoch) ==
    IF ~IsQuorum THEN s
    ELSE SelfGrant(n, [s EXCEPT !.round_sent_at = now, !.round_grants = {},
                                !.round_refused = {}], epoch)

RetrySelfGrant(n, s, epoch) ==
    IF n \in Voters /\ n \notin s.round_grants THEN SelfGrant(n, s, epoch) ELSE s

\* A grant proves its granter refuses a standing claim at or below it; a claim
\* too few voters can still grant is abandoned at once.
LearnGrantedEpoch(n, s, f) ==
    LET t == [s EXCEPT !.highest_seen = Larger(@, f.epoch)]
        refuses == /\ s.role = "Claimant"
                   /\ s.claim[1] < f.epoch \/ (s.claim[1] = f.epoch /\ f.who # n)
        u == [t EXCEPT !.round_refused = IF f.from \in t.round_grants THEN @ ELSE @ \cup {f.from}]
    IN  CASE ~refuses -> t
          [] refuses /\ Cardinality(Voters) - Cardinality(u.round_refused) < Majority -> Abandon(u)
          [] OTHER -> u

-----------------------------------------------------------------------------
\* One step of node n: the driver executes the engine's effects.  A fresh grant
\* is written ahead of the frames; while a pair is not durable, the grant and
\* the claim that would publish it are withheld.  An activation announces.

\* What becomes of a write: whether it reached the disk, and whether the store
\* said so.  A failed or abandoned write may have reached it all the same.
PersistResults(n) ==
    IF n \in setup.failing THEN {r \in [written : BOOLEAN, durable : BOOLEAN] : r.durable => r.written}
    ELSE {[written |-> TRUE, durable |-> TRUE]}

Sent(frames) == {f \in frames : f.kind \in setup.delivered}

\* Mutant: frames go out whatever the store said.
WithheldNever(n, f, pair) == FALSE

Withheld(n, f, pair) ==
    f.from = n /\ f.kind \in {"Grant", "Claim"} /\ <<f.epoch, f.who>> = pair

Persist(n, t) ==
    IF t.granted # el[n].granted /\ n \in setup.durable
    THEN \E r \in PersistResults(n) :
            /\ disk' = IF r.written THEN [disk EXCEPT ![n] = t.granted] ELSE disk
            /\ undurable' = [undurable EXCEPT ![n] = IF r.durable THEN NoPair ELSE t.granted]
    ELSE UNCHANGED <<disk, undurable>>

Announced(n, t) ==
    IF el[n].role # "Host" /\ t.role = "Host" THEN {StateFrame(n, t, Peers(n))} ELSE {}

Commit(n, t, frames) ==
    /\ el' = [el EXCEPT ![n] = t]
    /\ Persist(n, t)
    /\ net' = net \cup {f \in Sent(frames \cup Announced(n, t)) : ~Withheld(n, f, undurable'[n])}
    /\ issued' = IF t.granted # el[n].granted THEN issued \cup {<<n, t.granted>>} ELSE issued
    /\ hosted' = IF t.role = "Host" THEN hosted \cup {<<t.epoch, n>>} ELSE hosted
    /\ UNCHANGED <<setup, now>>

-----------------------------------------------------------------------------
\* Ticks.  Each runs the anti-entropy clock, one row of the role's table, and
\* the re-send of a pending resign.

\* A round is due by the gossip interval.  Where rounds are nudged forward (a
\* local write nudges to now, a learned change to half an interval) every tick
\* runs one: a tick that runs none is then a tick whose frames are lost.
Due(n) == setup.nudges \/ now >= el[n].next_anti_entropy

ResentResign(n, s) ==
    IF s.resigning[2] # {} THEN {ResignFrame(n, s.resigning[1], s.resigning[2])} ELSE {}

Tick(n, t, frames) ==
    IF Due(n)
    THEN Commit(n, [t EXCEPT !.next_anti_entropy = NextRound], frames \cup ResentResign(n, t))
    ELSE Commit(n, t, frames)

ClaimGuard(n) ==
    /\ el[n].role = "Follower" /\ ~el[n].leaving
    /\ now >= el[n].no_claim_before
    /\ el[n].host # n

\* tick_follower: the top-ranked node bids one epoch above all it has seen.
OpenClaim(n) ==
    LET epoch == el[n].highest_seen + 1
        s == [el[n] EXCEPT !.highest_seen = epoch, !.role = "Claimant",
                           !.claim = <<epoch, now + ActivationWindow>>]
        t == OpenRound(n, s, epoch)
    IN  /\ n \in setup.candidates /\ ClaimGuard(n)
        /\ epoch <= setup.max_epoch
        /\ Tick(n, t, IF t.role = "Claimant" THEN {ClaimFrame(n, epoch, Peers(n))} ELSE {})

\* A follower that does not claim: only the anti-entropy round runs.
IdleTick(n) ==
    /\ el[n].role = "Follower"
    /\ Tick(n, el[n], {})

\* tick_claimant: the rank was lost, or the window shut on a Quorum claim.
GiveUpClaim(n, top) ==
    /\ el[n].role = "Claimant"
    /\ ~top \/ (IsQuorum /\ now >= el[n].claim[2])
    /\ Tick(n, Abandon(el[n]), {})

\* tick_claimant under Settle: a claim that stood its window activates.
SettleClaim(n) ==
    /\ el[n].role = "Claimant" /\ n \in setup.candidates
    /\ ~IsQuorum /\ now >= el[n].claim[2]
    /\ Tick(n, Activate(n, el[n], el[n].claim[1], now + Lease), {})

\* tick_claimant while the window is open: retry the self-grant, re-offer.
PressClaim(n) ==
    LET epoch == el[n].claim[1]
        t == RetrySelfGrant(n, el[n], epoch)
    IN  /\ el[n].role = "Claimant" /\ n \in setup.candidates
        /\ now < el[n].claim[2]
        /\ Tick(n, t, IF t.role = "Claimant" /\ Due(n)
                           THEN {ClaimFrame(n, epoch, Peers(n))} ELSE {})

\* tick_host: the lease ran out.
LapseLease(n, top) ==
    /\ el[n].role = "Host" /\ now >= el[n].lease_until
    /\ IsQuorum \/ ~top
    /\ Tick(n, Demote(el[n]), {})

\* tick_host: a Settle host renews by rank, a Quorum host opens a renewal
\* round on every anti-entropy round; either beacons its pair.
HostTick(n, top) ==
    LET s == IF top /\ ~IsQuorum THEN [el[n] EXCEPT !.lease_until = now + Lease] ELSE el[n]
        renews == top /\ IsQuorum /\ Due(n)
        t == IF renews THEN OpenRound(n, s, s.epoch) ELSE s
    IN  /\ el[n].role = "Host"
        /\ top => n \in setup.candidates
        /\ now < s.lease_until
        /\ Tick(n, t, IF ~Due(n) THEN {}
                           ELSE {StateFrame(n, t, Peers(n))} \cup
                                (IF renews THEN {ClaimFrame(n, t.epoch, Voters \ {n})} ELSE {}))

-----------------------------------------------------------------------------
\* Frames received

Receivable(n) == {f \in net : n \in f.to /\ now <= f.at + setup.max_rtt}

\* on_lead_claim: learn the epoch, teach a stale claimant, vote, and give way
\* to a claim that outranks ours.
RecvClaim(n, f) ==
    LET s == [el[n] EXCEPT !.highest_seen = Larger(@, f.epoch)]
        stale == /\ f.epoch < s.epoch \/ (f.epoch = s.epoch /\ s.host # None)
                 /\ ~(IsQuorum /\ s.epoch = f.epoch /\ s.host = f.who)
        t == RecordGrant(n, s, f.epoch, f.who)
        outranked == s.role = "Claimant" /\ Outranks(<<f.epoch, f.who>>, <<s.claim[1], n>>)
        taught == IF stale THEN {StateFrame(n, s, {f.from})} ELSE {}
        answer == IF Grants(n, s, f.epoch, f.who) \/ FloorAnswers(n, s, f.epoch, f.who)
                  THEN {GrantFrame(n, t.granted, f)} ELSE {}
    IN  /\ f.kind = "Claim"
        /\ Commit(n, IF outranked THEN Abandon(t) ELSE t, taught \cup answer)

\* on_lead_state: a receipt for our resign; then adopt, teach back, or ignore.
RecvState(n, f) ==
    LET pair == <<f.epoch, f.who>>
        mine == <<el[n].epoch, el[n].host>>
        receipt == f.epoch >= el[n].resigning[1] /\ pair # <<el[n].resigning[1], n>>
        s == [el[n] EXCEPT !.resigning = <<@[1], IF receipt THEN @[2] \ {f.from} ELSE @[2]>>]
    IN  /\ f.kind = "State"
        /\ \/ /\ Outranks(pair, mine) /\ f.who = n
              /\ Commit(n, LearnSelfNamed(s, f.epoch), {})
           \/ /\ Outranks(pair, mine) /\ f.who # n
              /\ Commit(n, Adopt(s, f.epoch, f.who), {})
           \/ /\ Outranks(mine, pair)
              /\ Commit(n, s, {StateFrame(n, s, {f.from})})
           \/ /\ pair = mine
              /\ Commit(n, s, {})

\* on_lead_grant: learn the epoch; count a grant of the standing pair.
RecvGrant(n, f) ==
    LET s == LearnGrantedEpoch(n, el[n], f)
        standing == f.who = n /\ \/ s.role = "Claimant" /\ s.claim[1] = f.epoch
                                 \/ s.role = "Host" /\ s.epoch = f.epoch
        t == [s EXCEPT !.round_grants = @ \cup {f.from}]
    IN  /\ f.kind = "Grant" /\ IsQuorum /\ f.from \in Voters
        /\ Commit(n, IF standing THEN CloseRound(n, t, f.epoch) ELSE s, {})

\* Mutant: only a voter whose grant is the resigned pair answers.
RecvResignMatching(n, f) ==
    LET pair == <<f.epoch, f.who>>
        s == IF el[n].granted = pair
             THEN [el[n] EXCEPT !.resigned = TRUE,
                                !.grant_promise_until = Smaller(@, now)]
             ELSE el[n]
        t == [s EXCEPT !.highest_seen = Larger(@, f.epoch),
                       !.host = IF <<s.epoch, s.host>> = pair THEN None ELSE @]
    IN  /\ f.kind = "Resign" /\ f.from = f.who /\ IsQuorum
        /\ Commit(n, t, IF n \in Voters /\ el[n].granted = pair
                        THEN {Frame("State", f.epoch, None, n, {f.from}, now)} ELSE {})

\* on_lead_resign: the granted pair is released and never granted again; a
\* voter answers with the receipt.
RecvResign(n, f) ==
    LET pair == <<f.epoch, f.who>>
        s == IF el[n].granted = pair
             THEN [el[n] EXCEPT !.resigned = TRUE,
                                !.grant_promise_until = Smaller(@, now)]
             ELSE el[n]
        t == [s EXCEPT !.highest_seen = Larger(@, f.epoch),
                       !.host = IF <<s.epoch, s.host>> = pair THEN None ELSE @]
    IN  /\ f.kind = "Resign" /\ f.from = f.who /\ IsQuorum
        /\ Commit(n, t, IF n \in Voters
                        THEN {Frame("State", f.epoch, None, n, {f.from}, now)} ELSE {})

-----------------------------------------------------------------------------
\* Commands, restarts and time

\* Command::Leave: step down first, then resign the epoch of the hostship or
\* of the standing claim.
Leave(n) ==
    LET s == el[n]
        epoch == CASE s.role = "Host" -> s.epoch [] s.role = "Claimant" -> s.claim[1]
                   [] OTHER -> 0
        resigns == IsQuorum /\ s.role # "Follower"
        t == CASE s.role = "Host" -> Demote(s) [] s.role = "Claimant" -> Abandon(s)
               [] OTHER -> s
    IN  /\ n \in setup.leavers /\ ~s.leaving
        /\ Commit(n, [t EXCEPT !.leaving = TRUE,
                               !.resigning = IF resigns THEN <<epoch, Voters \ {n}>> ELSE @,
                               !.next_anti_entropy = Smaller(@, now)],
                  IF resigns THEN {ResignFrame(n, epoch, Peers(n))} ELSE {})

\* A crash loses all but the store; the next life starts from it.
Restart(n) ==
    /\ n \in setup.crashable
    /\ el' = [el EXCEPT ![n] = Recovered(n)]
    /\ undurable' = [undurable EXCEPT ![n] = NoPair]
    /\ UNCHANGED <<setup, now, disk, net, issued, hosted>>

Advance ==
    /\ now < setup.max_time
    /\ now' = now + 1
    /\ net' = {f \in net : now + 1 <= f.at + setup.max_rtt}
    /\ UNCHANGED <<setup, el, disk, undurable, issued, hosted>>

Init ==
    /\ setup \in Setups
    /\ now = 0
    /\ disk = [n \in Node |-> NoPair]
    /\ undurable = [n \in Node |-> NoPair]
    /\ el = [n \in Node |-> Recovered(n)]
    /\ net = {}
    /\ issued = {} /\ hosted = {}

Ticks(n) ==
    \/ OpenClaim(n) \/ IdleTick(n) \/ SettleClaim(n) \/ PressClaim(n)
    \/ \E top \in BOOLEAN : GiveUpClaim(n, top) \/ LapseLease(n, top) \/ HostTick(n, top)

Receives(n) ==
    \E f \in Receivable(n) :
        RecvClaim(n, f) \/ RecvState(n, f) \/ RecvGrant(n, f) \/ RecvResign(n, f)

Next ==
    \/ \E n \in Node : Ticks(n) \/ Receives(n) \/ Leave(n) \/ Restart(n)
    \/ Advance

Spec == Init /\ [][Next]_vars

\* What the driver's timer and a fair-lossy network give a node that left and
\* still waits for receipts: its ticks keep coming, and of the resigns and
\* receipts sent again and again some arrive.
FairSpec ==
    /\ Spec
    /\ WF_vars(Advance)
    /\ \A n \in Node :
        /\ WF_vars(IdleTick(n))
        /\ WF_vars(\E f \in Receivable(n) : RecvResign(n, f))
        /\ WF_vars(\E f \in Receivable(n) : RecvState(n, f))

-----------------------------------------------------------------------------
\* Properties

Pair == Nat \X (Node \cup {None})

ElectionState ==
    [role : {"Follower", "Claimant", "Host"}, highest_seen : Nat, epoch : Nat,
     host : Node \cup {None}, claim : Nat \X Nat, lease_until : Nat, no_claim_before : Nat,
     granted : Pair, grant_promise_until : Nat, resigned : BOOLEAN,
     round_sent_at : Nat, round_grants : SUBSET Voters, round_refused : SUBSET Voters,
     resigning : Nat \X SUBSET Voters, leaving : BOOLEAN, next_anti_entropy : Nat]

\* A claim and a resign name their sender.
LeadFrame ==
    {f \in [kind : {"Claim", "Grant", "State", "Resign"}, epoch : Nat,
            who : Node \cup {None}, from : Node, to : SUBSET Node, at : Nat] :
        f.kind \in {"Claim", "Resign"} => f.who = f.from}

\* The election state stays well-formed; grant rounds hold voters only.
TypeOK ==
    /\ setup \in Setups
    /\ now \in Nat
    /\ el \in [Node -> ElectionState]
    /\ disk \in [Node -> Pair] /\ undurable \in [Node -> Pair]
    /\ net \subseteq LeadFrame
    /\ issued \subseteq Voters \X Pair
    /\ hosted \subseteq Nat \X Node

\* A voter with a store grants one epoch to one claimant, across its crashes too:
\* the rule grant_verdict enforces and the store carries over a restart.
OneGrantPerEpoch ==
    \A i, j \in issued : i[1] \in setup.durable \ setup.failing /\ i[1] = j[1] /\ i[2][1] = j[2][1] => i = j

\* The write-ahead contract of driver/durability.rs: a grant a voter with a
\* store has on the wire is one its store holds, or has moved past, whatever
\* writes were refused in between.
PublishedIsDurable ==
    \A f \in net : f.kind = "Grant" /\ f.from \in setup.durable =>
        disk[f.from] = <<f.epoch, f.who>> \/ disk[f.from][1] > f.epoch

\* S1-strict: no two nodes ever host the same epoch, not even at disjoint times.
\* Promised of Quorum with a grant store on every voter (docs/consistency-modes.md).
S1Strict ==
    IsQuorum /\ setup.durable = Voters => \A p, q \in hosted : p[1] = q[1] => p[2] = q[2]

Leased(n) == el[n].role = "Host" /\ now < el[n].lease_until

\* S4c-global: at most one unexpired lease in the group at any instant.
S4cGlobal == IsQuorum => \A m, n \in Node : Leased(m) /\ Leased(n) => m = n

\* What a step of a running node may do to its fence: see FenceMonotone.
Forward(s, t) ==
    /\ t.highest_seen >= s.highest_seen /\ t.highest_seen >= t.epoch
    /\ t.highest_seen >= t.granted[1]
    /\ t.epoch >= s.epoch
    /\ t.epoch = s.epoch /\ None \notin {s.host, t.host} => t.host >= s.host

\* While a node runs, its fence never moves back: the epoch it has observed and
\* the epoch it has adopted only grow, the first covers the second, and within
\* one epoch a host is only ever replaced by one the pair order prefers.
FenceMonotone ==
    [][\A n \in Node : el'[n] # el[n] /\ ~Restart(n) => Forward(el[n], el'[n])]_vars

\* A node that left and resigned gets every voter's receipt in the end, so its
\* departure does not have to wait out the linger (resign_pending).
ResignDrains ==
    \A n \in Node : el[n].resigning[2] # {} ~> el[n].resigning[2] = {}
=============================================================================
