------------------------------- MODULE Anchor -------------------------------
(***************************************************************************)
(* External activation: epochs are allocated by one compare-and-set record *)
(* in a store outside the group.  Models core's anchor.rs and              *)
(* engine/election/external.rs, the rows of election.rs they rest on, and  *)
(* the runtime's anchor task (runtime/anchor.rs) with the channels between *)
(* it and the group actor: the capacity-one prompt slot, the bounded inbox *)
(* and the watched leadership.                                             *)
(*                                                                         *)
(* The actor and the anchor task of a node run concurrently.  A turn of    *)
(* the actor is one step; a round of the task is one step per await, so    *)
(* the store, the other nodes and the node's own actor move in between.    *)
(* All clocks run at one rate; the wall clock of node n is ahead of true   *)
(* time by its skew.  The engine's own clock needs no skew: no two nodes  *)
(* compare it.  Whether a node is top-ranked depends on its view and is    *)
(* free here; a gossiped pair arrives late, twice or never.                *)
(***************************************************************************)
EXTENDS Integers, Sequences, FiniteSets

CONSTANTS
    Node,      \* node ids, positive integers: the larger one wins a tie
    InboxCap,  \* bound: reports queued at one actor
    MaxEpoch,  \* bound: no claim above it
    Setups     \* the deployments and environments considered

None == 0

\* A deployment, and what its environment may do to it.
Setup ==
    [skew : [Node -> Nat],          \* how far each wall clock is ahead
     lease : Nat \ {0},             \* lease_ms, also the record's TTL
     margin : Nat,                  \* steal_margin_ms
     unanswered : SUBSET Node,      \* whose reads and writes may go unanswered
     max_late : Nat,                \* bound: unanswered writes that may land later
     lossy : BOOLEAN,               \* whether the inbox may refuse a report
     gossiped : BOOLEAN,            \* whether election frames arrive at all
     crashable : SUBSET Node,       \* who may crash and start again
     leavers : SUBSET Node,         \* who may leave
     max_time : Nat]                \* bound: the clock stops there

ASSUME NodeAssumption == Node \subseteq Nat \ {None}
ASSUME SetupAssumption == Setups \subseteq Setup
ASSUME BoundAssumption == InboxCap \in Nat /\ MaxEpoch \in Nat

VARIABLES
    setup,    \* the deployment, fixed
    now,      \* true time
    eng,      \* eng[n]: the engine's Election
    slot,     \* slot[n]: the prompt channel, an epoch hint or 0
    inbox,    \* inbox[n]: reports on their way to the actor
    changed,  \* changed[n]: leadership published since the task last looked
    task,     \* task[n]: the anchor task: its Claimant and where it awaits
    reg,      \* the store: a record and its version; version 0 is no object
    late,     \* unanswered writes that have not reached the store
    said,     \* pairs some node has sent as LeadState
    awarded,  \* history: every (epoch, host) pair that was ever the record's
    given,    \* history: the pairs whose host began to release the record
    hosted    \* history: every (epoch, host) pair that was ever activated

vars == <<setup, now, eng, slot, inbox, changed, task, reg, late, said, awarded, given, hosted>>

-----------------------------------------------------------------------------
\* Records, the claim plan and the renewal record (core/anchor.rs)

Larger(a, b) == IF a >= b THEN a ELSE b

Record(epoch, host, expires) == [epoch |-> epoch, host |-> host, expires |-> expires]
NoRecord == Record(0, None, 0)

Wall(n) == now + setup.skew[n]

Stealable(rec, w) == w >= rec.expires + setup.margin

Entitled(n, rec, w) == rec.host = n \/ Stealable(rec, w)

\* The record a claim writes: one epoch above the one loaded, at least the hint.
Planned(n, hint, store, w) ==
    Record(IF store.version = 0 THEN Larger(hint, 1)
           ELSE Larger(store.rec.epoch + 1, hint), n, w + setup.lease)

\* Mutant: the pair alone tells whether the write applied.
AppliedByPair(attempted, reread) ==
    reread.epoch = attempted.epoch /\ reread.host = attempted.host

Applied(attempted, reread) == reread = attempted

-----------------------------------------------------------------------------
\* The engine: pairs and role changes (election.rs)

Outranks(p, q) == p[1] > q[1] \/ (p[1] = q[1] /\ p[2] > q[2])

Boot ==
    [role |-> "Follower", highest_seen |-> 0, epoch |-> 0, host |-> None,
     lease_until |-> 0, no_claim_before |-> now + setup.lease, leaving |-> FALSE]

Activate(n, s, epoch, until) ==
    [s EXCEPT !.role = "Host", !.epoch = epoch, !.host = n,
              !.highest_seen = Larger(@, epoch), !.lease_until = until]

Demote(s) == [s EXCEPT !.role = "Follower", !.host = None]

Adopt(s, epoch, host) ==
    [s EXCEPT !.role = "Follower", !.epoch = epoch, !.host = host,
              !.highest_seen = Larger(@, epoch)]

\* A pair naming this node teaches the epoch, not the hostship.
LearnSelfNamed(s, epoch) ==
    IF epoch <= s.epoch THEN [s EXCEPT !.highest_seen = Larger(@, epoch)]
    ELSE Adopt(s, epoch, None)

\* A better pair is learned or adopted; any other changes nothing.
Heard(n, s, epoch, host) ==
    CASE ~Outranks(<<epoch, host>>, <<s.epoch, s.host>>) -> s
      [] Outranks(<<epoch, host>>, <<s.epoch, s.host>>) /\ host = n -> LearnSelfNamed(s, epoch)
      [] OTHER -> Adopt(s, epoch, host)

\* on_anchor_activated: drop, renew or activate.
Activated(n, s, epoch, until) ==
    CASE s.leaving \/ epoch < s.highest_seen
         \/ (s.epoch = epoch /\ s.host \notin {n, None}) -> s
      [] ~s.leaving /\ s.role = "Host" /\ s.epoch = epoch ->
            [s EXCEPT !.lease_until = Larger(@, until)]
      [] OTHER -> Activate(n, s, epoch, until)

-----------------------------------------------------------------------------
\* One turn of the actor: the new leadership is published, a prompt is sent
\* without waiting, an activation announces.

Turn(n, t, prompt, frames) ==
    /\ eng' = [eng EXCEPT ![n] = t]
    /\ slot' = [slot EXCEPT ![n] = IF @ = 0 THEN prompt ELSE @]
    /\ changed' = [changed EXCEPT ![n] = @ \/ <<t.epoch, t.host>> # <<eng[n].epoch, eng[n].host>>]
    /\ hosted' = IF t.role = "Host" THEN hosted \cup {<<t.epoch, n>>} ELSE hosted
    /\ said' = IF setup.gossiped
               THEN said \cup frames \cup (IF t.role = "Host" THEN {<<t.epoch, n>>} ELSE {})
               ELSE said
    /\ UNCHANGED <<setup, now, task, reg, late, awarded, given>>

\* tick_follower: a top-ranked node asks for an anchor round.
ClaimPrompt(n) ==
    LET s == eng[n] IN
    /\ s.role = "Follower" /\ ~s.leaving /\ now >= s.no_claim_before /\ s.host # n
    /\ s.highest_seen < MaxEpoch
    /\ slot[n] = 0
    /\ Turn(n, s, s.highest_seen + 1, {}) /\ UNCHANGED inbox

\* tick_host, top-ranked and inside its lease: asks for a renewal.
RenewPrompt(n) ==
    /\ eng[n].role = "Host" /\ now < eng[n].lease_until
    /\ slot[n] = 0
    /\ Turn(n, eng[n], eng[n].epoch, {}) /\ UNCHANGED inbox

\* tick_host: the lease ran out.
Lapse(n) ==
    /\ eng[n].role = "Host" /\ now >= eng[n].lease_until
    /\ Turn(n, Demote(eng[n]), 0, {}) /\ UNCHANGED inbox

\* The actor takes a report of its anchor task.
Report(n) ==
    LET cmd == Head(inbox[n]) IN
    /\ inbox[n] # <<>>
    /\ inbox' = [inbox EXCEPT ![n] = Tail(@)]
    /\ Turn(n, IF cmd.kind = "Activated" THEN Activated(n, eng[n], cmd.epoch, cmd.until)
               ELSE Heard(n, eng[n], cmd.epoch, cmd.host), 0, {})

\* on_lead_state: adopt, or teach the sender.
RecvState(n, p) ==
    LET mine == <<eng[n].epoch, eng[n].host>> IN
    /\ Turn(n, Heard(n, eng[n], p[1], p[2]), 0, IF Outranks(mine, p) THEN {mine} ELSE {})
    /\ UNCHANGED inbox

Leave(n) ==
    /\ n \in setup.leavers /\ ~eng[n].leaving
    /\ Turn(n, [(IF eng[n].role = "Host" THEN Demote(eng[n]) ELSE eng[n])
                EXCEPT !.leaving = TRUE], 0, {})
    /\ UNCHANGED inbox

-----------------------------------------------------------------------------
\* The anchor task.  pc is where it awaits: "idle" in its select, at the load
\* of a claim, at a conditional write, at the read after a renewal was refused
\* or a write went unanswered, or at the write of a release.

NoHeld == [epoch |-> 0, token |-> 0, expires |-> 0]

Fresh ==
    [pc |-> "idle", hint |-> 0, t0 |-> 0, w0 |-> 0, pre |-> 0, rec |-> NoRecord,
     renewing |-> FALSE, held |-> NoHeld, retry_at |-> 0, hosting |-> FALSE]

\* Back in the select; what survives a round is the hold and the retry hint.
Done(t) == [Fresh EXCEPT !.held = t.held, !.retry_at = t.retry_at, !.hosting = t.hosting]

At(n, pc) == task[n].pc = pc

\* A report goes into the bounded inbox if there is room.
Feed(n, cmd) ==
    \/ /\ Len(inbox[n]) < InboxCap
       /\ inbox' = [inbox EXCEPT ![n] = Append(@, cmd)]
    \/ setup.lossy /\ UNCHANGED inbox

Observation(rec) == [kind |-> "Observed", epoch |-> rec.epoch, host |-> rec.host, until |-> 0]

\* Mutant: an absent record is reported like any other.
ObserveAnything(n) == Feed(n, Observation(reg.rec))

\* Teach the engine who holds the record, if there is one.
Observe(n) ==
    IF reg.version = 0 THEN UNCHANGED inbox ELSE Feed(n, Observation(reg.rec))

Won(n, t, token) ==
    /\ task' = [task EXCEPT ![n] = Done([t EXCEPT !.held =
                   [epoch |-> t.rec.epoch, token |-> token, expires |-> t.rec.expires]])]
    /\ Feed(n, [kind |-> "Activated", epoch |-> t.rec.epoch, host |-> n, until |-> t.t0 + setup.lease])

\* posture: a hold the engine does not show blocks the claim until it expires.
Renews(n) ==
    LET h == task[n].held IN
    h # NoHeld /\ eng[n].epoch = h.epoch /\ eng[n].host = n

Claims(n) ==
    LET h == task[n].held IN
    \/ h = NoHeld
    \/ eng[n].epoch > h.epoch
    \/ ~Renews(n) /\ Wall(n) >= h.expires

\* The pacing floor: a renewal waits until half a lease is left.
RenewalDue(n) == task[n].held.expires - Wall(n) <= setup.lease \div 2

\* round: both clocks are read, then the posture decides.
Round(n) ==
    LET t == task[n]
        begun == [t EXCEPT !.t0 = now, !.w0 = Wall(n), !.hint = slot[n]]
    IN  /\ At(n, "idle") /\ slot[n] # 0
        /\ slot' = [slot EXCEPT ![n] = 0]
        /\ \/ /\ Claims(n) /\ Wall(n) >= t.retry_at
              /\ task' = [task EXCEPT ![n] =
                    [begun EXCEPT !.pc = "load", !.held = NoHeld, !.retry_at = 0]]
           \/ /\ Claims(n) /\ Wall(n) < t.retry_at
              /\ task' = [task EXCEPT ![n].held = NoHeld]
           \/ /\ ~Claims(n) /\ Renews(n) /\ RenewalDue(n)
              /\ task' = [task EXCEPT ![n] =
                    [begun EXCEPT !.pc = "write", !.renewing = TRUE, !.pre = t.held.token,
                                  !.rec = Record(t.held.epoch, n, Wall(n) + setup.lease)]]
           \/ /\ ~Claims(n) /\ ~(Renews(n) /\ RenewalDue(n))
              /\ UNCHANGED task
        /\ UNCHANGED <<setup, now, eng, inbox, changed, reg, late, said, awarded, given, hosted>>

\* claim: read the record; plan a write or yield.
Load(n) ==
    LET t == task[n]
        entitled == reg.version = 0 \/ Entitled(n, reg.rec, t.w0)
        planned == Planned(n, t.hint, reg, t.w0)
    IN  /\ At(n, "load")
        /\ \/ /\ entitled /\ planned.epoch <= MaxEpoch
              /\ task' = [task EXCEPT ![n].pc = "write", ![n].pre = reg.version, ![n].rec = planned]
              /\ UNCHANGED inbox
           \/ /\ ~entitled
              /\ task' = [task EXCEPT ![n] = Done([t EXCEPT !.retry_at = reg.rec.expires + setup.margin])]
              /\ Observe(n)
           \/ /\ n \in setup.unanswered
              /\ task' = [task EXCEPT ![n] = Done(t)]
              /\ UNCHANGED inbox
        /\ UNCHANGED <<setup, now, eng, slot, changed, reg, late, said, awarded, given, hosted>>

\* A conditional write reaches the store: it applies if the version matches.
Put(pre, rec) ==
    IF reg.version = pre
    THEN /\ reg' = [version |-> reg.version + 1, rec |-> rec]
         /\ awarded' = awarded \cup {<<rec.epoch, rec.host>>}
    ELSE UNCHANGED <<reg, awarded>>

\* The write is on its way and no one waits for it any more.
Delayed(pre, rec) ==
    /\ Cardinality(late) < setup.max_late
    /\ late' = late \cup {[pre |-> pre, rec |-> rec]}

\* The write gets no answer: it applied, it did not, or it is still under way.
PutUnanswered(n, pre, rec) ==
    /\ n \in setup.unanswered
    /\ \/ Put(pre, rec) /\ UNCHANGED late
       \/ UNCHANGED <<reg, awarded, late>>
       \/ Delayed(pre, rec) /\ UNCHANGED <<reg, awarded>>

\* write: a win, a refusal (which ends a hold being renewed), or no answer.
Write(n) ==
    LET t == task[n] IN
    /\ At(n, "write")
    /\ \/ /\ reg.version = t.pre
          /\ Put(t.pre, t.rec) /\ Won(n, t, reg'.version)
          /\ UNCHANGED late
       \/ /\ reg.version # t.pre
          /\ task' = [task EXCEPT ![n] =
                IF t.renewing THEN [t EXCEPT !.pc = "superseded", !.held = NoHeld] ELSE Done(t)]
          /\ UNCHANGED <<reg, awarded, late, inbox>>
       \/ /\ PutUnanswered(n, t.pre, t.rec)
          /\ task' = [task EXCEPT ![n].pc = "resolve"]
          /\ UNCHANGED inbox
    /\ UNCHANGED <<setup, now, eng, slot, changed, said, given, hosted>>

\* superseded: the hold is gone; learn who has the record.
Superseded(n) ==
    /\ At(n, "superseded")
    /\ task' = [task EXCEPT ![n] = Done(task[n])]
    /\ Observe(n) \/ (n \in setup.unanswered /\ UNCHANGED inbox)
    /\ UNCHANGED <<setup, now, eng, slot, changed, reg, late, said, awarded, given, hosted>>

\* resolve: an unanswered write is judged by the record that is there now.
Resolve(n) ==
    LET t == task[n] IN
    /\ At(n, "resolve")
    /\ \/ /\ Applied(t.rec, reg.rec) /\ Won(n, t, reg.version)
       \/ /\ ~Applied(t.rec, reg.rec) /\ Observe(n)
          /\ task' = [task EXCEPT ![n] = Done([t EXCEPT !.held = NoHeld])]
       \/ /\ n \in setup.unanswered /\ UNCHANGED inbox
          /\ task' = [task EXCEPT ![n] = Done([t EXCEPT !.held = NoHeld])]
    /\ UNCHANGED <<setup, now, eng, slot, changed, reg, late, said, awarded, given, hosted>>

\* The leadership edge: a host that became none gives its record up, if it
\* holds one, and then discards a waiting prompt.
Edge(n) ==
    LET t == task[n]
        hosts == eng[n].role = "Host"
    IN  /\ At(n, "idle") /\ changed[n]
        /\ changed' = [changed EXCEPT ![n] = FALSE]
        /\ IF t.hosting /\ ~hosts /\ t.held # NoHeld
           THEN /\ task' = [task EXCEPT ![n] =
                      [t EXCEPT !.pc = "release", !.held = NoHeld, !.pre = t.held.token,
                                !.rec = Record(t.held.epoch, n, Wall(n))]]
                /\ given' = given \cup {<<t.held.epoch, n>>}
                /\ UNCHANGED slot
           ELSE /\ task' = [task EXCEPT ![n].hosting = hosts]
                /\ slot' = IF t.hosting /\ ~hosts THEN [slot EXCEPT ![n] = 0] ELSE slot
                /\ UNCHANGED given
        /\ UNCHANGED <<setup, now, eng, inbox, reg, late, said, awarded, hosted>>

\* Mutant: the release does not care whose record it overwrites.
ReleaseBlind(n) ==
    LET t == task[n] IN
    /\ At(n, "release")
    /\ reg' = [version |-> reg.version + 1, rec |-> t.rec]
    /\ awarded' = awarded \cup {<<t.rec.epoch, t.rec.host>>} /\ UNCHANGED late
    /\ task' = [task EXCEPT ![n] = Done([t EXCEPT !.hosting = FALSE])]
    /\ slot' = [slot EXCEPT ![n] = 0]
    /\ UNCHANGED <<setup, now, eng, inbox, changed, said, given, hosted>>

\* release: best effort, and nothing depends on the answer.
Release(n) ==
    LET t == task[n] IN
    /\ At(n, "release")
    /\ (Put(t.pre, t.rec) /\ UNCHANGED late) \/ PutUnanswered(n, t.pre, t.rec)
    /\ task' = [task EXCEPT ![n] = Done([t EXCEPT !.hosting = FALSE])]
    /\ slot' = [slot EXCEPT ![n] = 0]
    /\ UNCHANGED <<setup, now, eng, inbox, changed, said, given, hosted>>

-----------------------------------------------------------------------------
\* Late writes, crashes and time

Land(w) ==
    /\ late' = late \ {w}
    /\ Put(w.pre, w.rec)
    /\ UNCHANGED <<setup, now, eng, slot, inbox, changed, task, said, given, hosted>>

\* A node remembers nothing of an earlier life; a write it had under way may land.
Restart(n) ==
    /\ n \in setup.crashable
    /\ eng' = [eng EXCEPT ![n] = Boot]
    /\ slot' = [slot EXCEPT ![n] = 0]
    /\ inbox' = [inbox EXCEPT ![n] = <<>>]
    /\ changed' = [changed EXCEPT ![n] = FALSE]
    /\ task' = [task EXCEPT ![n] = Fresh]
    /\ \/ UNCHANGED late
       \/ task[n].pc \in {"write", "release"} /\ Delayed(task[n].pre, task[n].rec)
    /\ UNCHANGED <<setup, now, reg, said, awarded, given, hosted>>

Advance ==
    /\ now < setup.max_time
    /\ now' = now + 1
    /\ UNCHANGED <<setup, eng, slot, inbox, changed, task, reg, late, said, awarded, given, hosted>>

Init ==
    /\ setup \in Setups
    /\ now = 0
    /\ eng = [n \in Node |-> Boot]
    /\ slot = [n \in Node |-> 0] /\ inbox = [n \in Node |-> <<>>]
    /\ changed = [n \in Node |-> FALSE]
    /\ task = [n \in Node |-> Fresh]
    /\ reg = [version |-> 0, rec |-> NoRecord]
    /\ late = {} /\ said = {} /\ awarded = {} /\ given = {} /\ hosted = {}

Actor(n) ==
    \/ ClaimPrompt(n) \/ RenewPrompt(n) \/ Lapse(n) \/ Report(n) \/ Leave(n)
    \/ \E p \in said : RecvState(n, p)

AnchorTask(n) ==
    Round(n) \/ Load(n) \/ Write(n) \/ Superseded(n) \/ Resolve(n) \/ Edge(n) \/ Release(n)

Next ==
    \/ \E n \in Node : Actor(n) \/ AnchorTask(n) \/ Restart(n)
    \/ \E w \in late : Land(w)
    \/ Advance

Spec == Init /\ [][Next]_vars

-----------------------------------------------------------------------------
\* Properties

EngineState ==
    [role : {"Follower", "Host"}, highest_seen : Nat, epoch : Nat, host : Node \cup {None},
     lease_until : Nat, no_claim_before : Nat, leaving : BOOLEAN]

Records == [epoch : Nat, host : Node \cup {None}, expires : Nat]

TaskState ==
    [pc : {"idle", "load", "write", "superseded", "resolve", "release"}, hint : Nat,
     t0 : Nat, w0 : Nat, pre : Nat, rec : Records, renewing : BOOLEAN,
     held : [epoch : Nat, token : Nat, expires : Nat], retry_at : Nat, hosting : BOOLEAN]

Reports == [kind : {"Activated", "Observed"}, epoch : Nat, host : Node, until : Nat]

\* Engine, task, channels and store stay well-formed.
TypeOK ==
    /\ now \in Nat
    /\ eng \in [Node -> EngineState] /\ task \in [Node -> TaskState]
    /\ slot \in [Node -> Nat] /\ inbox \in [Node -> Seq(Reports)]
    /\ changed \in [Node -> BOOLEAN]
    /\ reg \in [version : Nat, rec : Records] /\ late \subseteq [pre : Nat, rec : Records]
    /\ said \subseteq Nat \X (Node \cup {None})
    /\ awarded \subseteq Nat \X Node /\ given \subseteq Nat \X Node /\ hosted \subseteq Nat \X Node

\* S1-strict without any storage at the nodes: no two nodes ever host the same
\* epoch, whatever writes went unanswered or landed late and whoever crashed
\* (docs/consistency-modes.md: "S1-strict, unconditional").
S1Strict == \A p, q \in hosted : p[1] = q[1] => p[2] = q[2]

Leased(n) == eng[n].role = "Host" /\ now < eng[n].lease_until

\* At most one unexpired lease at any instant, for clocks that differ by no
\* more than the steal margin.
LeasesExclusive == \A m, n \in Node : Leased(m) /\ Leased(n) => m = n

\* n has begun to release a record of epoch e or a later one.
HasReleased(n, e) == \E p \in given : p[2] = n /\ p[1] >= e

\* The same, but for a host that has released its record: of two nodes with
\* overlapping leases, one has stamped the record of its epoch, or of a later
\* one it was awarded, as expired (run_anchor on the leadership edge).
LeasesExclusiveUnlessReleased ==
    \A m, n \in Node : m # n /\ Leased(m) /\ Leased(n) =>
        \E k \in {m, n} : HasReleased(k, eng[k].epoch)

\* Every behaviour of the anchor is one of the abstract epoch allocation.
Abstract == INSTANCE Epochs WITH Epoch <- 0..MaxEpoch, served <- hosted
AwardsEpochs == Abstract!Spec
=============================================================================
