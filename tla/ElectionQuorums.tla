--------------------------- MODULE ElectionQuorums --------------------------
(***************************************************************************)
(* What the majorities of a Quorum group give.  S1-strict: no two nodes    *)
(* ever host one epoch, where every voter has a store that refuses no      *)
(* write.  S4c-global: at any instant at most one node holds a lease,      *)
(* counted with the round trip off its end.  The argument for leases is    *)
(* about promises: whoever counts a voter's grant toward a lease that      *)
(* still runs is owed that voter's promise, and a voter owes it to one     *)
(* node at a time.  Voters may crash, with a store, without one or with    *)
(* one that refuses writes; a candidate does not, see SteadyCandidates.    *)
(***************************************************************************)
EXTENDS ElectionProofs, FiniteSetTheorems

-----------------------------------------------------------------------------
\* S1-strict

\* Two majorities of the roster share a voter.
LEMMA MajoritiesMeet ==
    ASSUME NEW P \in SUBSET Voters, NEW Q \in SUBSET Voters,
           Cardinality(P) >= Majority, Cardinality(Q) >= Majority
    PROVE  P \cap Q # {}
  <1>1. IsFiniteSet(Voters)  BY NodeAssumption, FS_Subset, Zenon
  <1>2. Cardinality(Voters) \in Nat /\ Cardinality(P) \in Nat /\ Cardinality(Q) \in Nat
    BY <1>1, FS_Subset, FS_CardinalityType, Zenon
  <1>3. Cardinality(P) + Cardinality(Q) > Cardinality(Voters)
    BY <1>2 DEF Majority
  <1>. QED  BY <1>1, <1>3, FS_MajoritiesIntersect, Zenon

\* No store of a group that has one on every voter refuses a write.
NoRefusedWrites ==
    \A s \in Setups : s.activation = "Quorum" /\ s.durable = Voters => s.failing = {}

\* S1-strict: in a Quorum group of any size whose voters all have a grant
\* store, no two nodes ever host the same epoch, whatever frames are lost,
\* duplicated, reordered or delayed, whoever crashes, and however long the
\* round trip; clocks and leases play no part.
THEOREM StrictS1 == NoRefusedWrites => (Spec => []S1Strict)
  <1>. SUFFICES ASSUME NoRefusedWrites PROVE Spec => []S1Strict
    BY Zenon
  <1>1. TypeOK /\ LedgerInv /\ RoundInv => S1Strict
    <2>. SUFFICES ASSUME TypeOK, LedgerInv, RoundInv, IsQuorum, setup.durable = Voters,
                         NEW p \in hosted, NEW q \in hosted, p[1] = q[1]
                  PROVE  p[2] = q[2]
      BY Zenon DEF S1Strict
    <2>1. PICK P \in SUBSET Voters :
              Cardinality(P) >= Majority /\ \A v \in P : <<v, p>> \in issued
      BY Zenon DEF RoundInv, Chosen
    <2>2. PICK Q \in SUBSET Voters :
              Cardinality(Q) >= Majority /\ \A v \in Q : <<v, q>> \in issued
      BY Zenon DEF RoundInv, Chosen
    <2>3. PICK v : v \in P /\ v \in Q  BY <2>1, <2>2, MajoritiesMeet, Zenon
    <2>4. v \in setup.durable \ setup.failing
      BY <2>1, <2>3, Zenon DEF NoRefusedWrites, TypeOK, IsQuorum
    <2>. DEFINE i == <<v, p>>  j == <<v, q>>
    <2>5. i \in issued /\ j \in issued  BY <2>1, <2>2, <2>3, Zenon
    <2>6. i[1] = v /\ i[1] = j[1] /\ i[2][1] = j[2][1]  BY Zenon
    <2>7. i = j
      <3>. HIDE DEF i, j
      <3>. QED  BY <2>4, <2>5, <2>6, Zenon DEF LedgerInv, OneGrantPerEpoch
    <2>. QED  BY <2>7, Zenon
  <1>. QED  BY <1>1, TypeCorrect, LedgersHold, HostsAreChosen, PTL

-----------------------------------------------------------------------------
\* S4c-global

\* No candidate of a Quorum group forgets what it claimed.  A candidate that
\* restarts may claim again an epoch below one it claimed before, and a voter
\* answers such a claim with the pair it granted in the earlier life, which the
\* candidate then counts although no promise was renewed.
SteadyCandidates ==
    \A s \in Setups : s.activation = "Quorum" => s.candidates \cap s.crashable = {}

-----------------------------------------------------------------------------
\* What is known of the frames in flight

\* The node of the pair has seen its epoch.
Known(p) == p[2] \in setup.candidates /\ p[1] <= el[p[2]].highest_seen

ClaimsKnown ==
    \A f \in net : f.kind = "Claim" => f.at <= now /\ Known(<<f.epoch, f.from>>)

LedgersKnown ==
    \A v \in Voters : \A p \in {el[v].granted, disk[v]} : p = NoPair \/ Known(p)

GrantsKnown ==
    \A f \in net : f.kind = "Grant" =>
        f.at <= now /\ f.from \in Voters /\ Known(<<f.epoch, f.who>>)

ResignsLeft ==
    \A f \in net : f.kind = "Resign" => f.from \in setup.candidates /\ el[f.from].leaving

\* A claim in flight is at or below the pair its sender stands on, and a voter
\* that has granted the pair has promised past what the claim asks for.
StaleClaims ==
    \A f \in net, v \in Voters :
        (/\ f.kind = "Claim" /\ el[f.from].role # "Follower"
         /\ f.epoch < Stood(el[f.from])
         /\ el[v].granted = <<Stood(el[f.from]), f.from>>)
            => f.at + Lease <= el[v].grant_promise_until

FrameInv == ClaimsKnown /\ LedgersKnown /\ GrantsKnown /\ ResignsLeft /\ StaleClaims

\* A step of node x to the state t that sends the frames.
Steps(x, t, frames) ==
    /\ Commit(x, t, frames) /\ Moves(x, el[x], t)
    /\ \A f \in frames : SendStep(x, el[x], t, f)

\* Who stands has seen the epoch it stands on.
LEMMA StandsKnown ==
    ASSUME NEW n \in Node, NEW s \in ElectionState, Sane(n, s), s.role # "Follower"
    PROVE  n \in setup.candidates /\ Stood(s) <= s.highest_seen
  BY Zenon DEF Sane, Stood, ElectionState

\* Knowledge is not lost by a step of a node.
LEMMA KnownStays ==
    ASSUME TypeOK, NEW x \in Node, NEW t \in ElectionState, NEW frames, Steps(x, t, frames),
           NEW e \in Nat, NEW n \in Node, Known(<<e, n>>)
    PROVE  Known(<<e, n>>)'
  <1>1. /\ el' = [el EXCEPT ![x] = t] /\ el \in [Node -> ElectionState] /\ setup' = setup
    BY Zenon DEF Steps, Commit, TypeOK
  <1>2. /\ t.highest_seen >= el[x].highest_seen
        /\ t.highest_seen \in Nat /\ el[x].highest_seen \in Nat
    BY <1>1, StateNat, Zenon DEF Steps, Moves, FenceStep
  <1>3. el'[n].highest_seen >= el[n].highest_seen /\ el'[n].highest_seen \in Nat
        /\ el[n].highest_seen \in Nat
    BY <1>1, <1>2, StateNat
  <1>. QED  BY <1>1, <1>3 DEF Known

\* A grant that a step publishes names the ledger's pair, which the store has.
LEMMA Published ==
    ASSUME TypeOK, NEW x \in Node, NEW t \in ElectionState, NEW frames, Steps(x, t, frames),
           Stored', NEW f \in net', f \notin net, f.kind = "Grant"
    PROVE  /\ SendStep(x, el[x], t, f) /\ f.from = x
           /\ x \in setup.durable => disk'[x] = t.granted
  <1>1. f \in frames /\ ~Withheld(x, f, undurable'[x])  BY NewFrames, Zenon DEF Steps
  <1>2. SendStep(x, el[x], t, f)  BY <1>1, Zenon DEF Steps
  <1>3. f.from = x /\ <<f.epoch, f.who>> = t.granted  BY <1>2, Zenon DEF SendStep
  <1>4. undurable'[x] # t.granted  BY <1>1, <1>3, Zenon DEF Withheld
  <1>5. el'[x] = t /\ setup' = setup  BY Zenon DEF Steps, Commit, TypeOK
  <1>. QED  BY <1>2, <1>3, <1>4, <1>5, Zenon DEF Stored

\* A step of a node keeps the ledgers known: it grants its own standing pair
\* or a claim in flight.
LEMMA StepLedgersKnown ==
    ASSUME TypeOK, NodesSane, FrameInv, NEW x \in Node, NEW t \in ElectionState, NEW frames,
           Steps(x, t, frames)
    PROVE  LedgersKnown'
  <1>1. /\ el' = [el EXCEPT ![x] = t] /\ el \in [Node -> ElectionState] /\ setup' = setup
        /\ Persist(x, t) /\ Voters \subseteq Node /\ disk \in [Node -> Pair]
    BY NodeAssumption, Zenon DEF Steps, Commit, TypeOK
  <1>2. \A m \in Node : el'[m] = IF m = x THEN t ELSE el[m]  BY <1>1, Zenon
  <1>3. ASSUME NEW p \in Pair, p = NoPair \/ Known(p) PROVE (p = NoPair \/ Known(p))'
    <2>1. SUFFICES ASSUME Known(p) PROVE Known(p)'  BY <1>3, Zenon
    <2>2. p = <<p[1], p[2]>> /\ p[1] \in Nat  BY DEF Pair
    <2>3. p[2] \in Node  BY <2>1, NodeAssumption, Zenon DEF Known, TypeOK, Setup
    <2>. QED  BY <2>1, <2>2, <2>3, KnownStays, Zenon
  <1>4. x \in Voters => (t.granted = NoPair \/ Known(t.granted)')
    <2>1. CASE t.granted = el[x].granted
      BY <1>1, <1>3, <2>1 DEF FrameInv, LedgersKnown, ElectionState
    <2>2. CASE t.granted # el[x].granted
      <3>1. Votes(x, el[x], t)
        BY <2>2, Zenon DEF Steps, Moves, LedgerStep, Keeps, Releases
      <3>2. CASE t.granted = <<Stood(t), x>> /\ t.role # "Follower"
        <4>1. x \in setup.candidates /\ Stood(t) <= t.highest_seen
          BY <3>2, StandsKnown, Zenon DEF Steps, Moves
        <4>. QED  BY <1>1, <1>2, <3>2, <4>1 DEF Known
      <3>3. ASSUME NEW f \in net, f.kind = "Claim", t.granted = <<f.epoch, f.from>>
            PROVE  Known(t.granted)'
        <4>1. f.epoch \in Nat /\ f.from \in Node  BY Zenon DEF TypeOK, LeadFrame
        <4>2. Known(<<f.epoch, f.from>>)  BY <3>3, Zenon DEF FrameInv, ClaimsKnown
        <4>. QED  BY <3>3, <4>1, <4>2, KnownStays, Zenon
      <3>. QED  BY <3>1, <3>2, <3>3, Zenon DEF Votes
    <2>. QED  BY <2>1, <2>2, Zenon
  <1>5. ASSUME NEW v \in Voters, NEW p \in {el'[v].granted, disk'[v]}
        PROVE  (p = NoPair \/ Known(p))'
    <2>1. CASE p \in {el[v].granted, disk[v]}
      <3>1. p \in Pair  BY <1>1, <2>1 DEF ElectionState
      <3>. QED  BY <1>3, <2>1, <3>1, Zenon DEF FrameInv, LedgersKnown
    <2>2. CASE v = x /\ p = t.granted  BY <1>4, <2>2, Zenon
    <2>. QED  BY <1>1, <1>2, <1>5, <2>1, <2>2, PersistEffect, SMTT(30)
  <1>. QED  BY <1>5, Zenon DEF LedgersKnown

\* A step of a node keeps what is known of the frames in flight.
LEMMA StepFramesKnown ==
    ASSUME TypeOK, NodesSane, FrameInv, Stored', NEW x \in Node, NEW t \in ElectionState,
           NEW frames \in SUBSET LeadFrame, Steps(x, t, frames)
    PROVE  ClaimsKnown' /\ GrantsKnown' /\ ResignsLeft'
  <1>1. /\ el' = [el EXCEPT ![x] = t] /\ el \in [Node -> ElectionState]
        /\ UNCHANGED <<setup, now>> /\ net \subseteq LeadFrame /\ setup.candidates \subseteq Node
    BY NodeAssumption, Zenon DEF Steps, Commit, TypeOK, Setup
  <1>2. \A m \in Node : el'[m] = IF m = x THEN t ELSE el[m]  BY <1>1, Zenon
  <1>3. Sane(x, t) /\ FenceStep(el[x], t)  BY Zenon DEF Steps, Moves
  <1>4. ASSUME NEW f \in net', f.kind = "Claim" PROVE f.at <= now /\ Known(<<f.epoch, f.from>>)'
    <2>1. CASE f \in net
      <3>1. f.epoch \in Nat /\ f.from \in Node  BY <1>1, <2>1, Zenon DEF LeadFrame
      <3>2. f.at <= now /\ Known(<<f.epoch, f.from>>)
        BY <1>4, <2>1, Zenon DEF FrameInv, ClaimsKnown
      <3>. QED  BY <3>1, <3>2, KnownStays, Zenon
    <2>2. CASE f \notin net
      <3>1. f \in frames /\ SendStep(x, el[x], t, f)
        BY <1>4, <2>2, NewFrames, Zenon DEF Steps
      <3>2. f.from = x /\ f.at = now /\ t.role # "Follower" /\ f.epoch = Stood(t)
        BY <1>4, <3>1, Zenon DEF SendStep
      <3>3. x \in setup.candidates /\ Stood(t) <= t.highest_seen
        BY <1>3, <3>2, StandsKnown, Zenon
      <3>4. now \in Nat  BY Zenon DEF TypeOK
      <3>. QED  BY <1>1, <1>2, <3>2, <3>3, <3>4 DEF Known
    <2>. QED  BY <2>1, <2>2, Zenon
  <1>5. ASSUME NEW f \in net', f.kind = "Grant"
        PROVE  f.at <= now /\ f.from \in Voters /\ Known(<<f.epoch, f.who>>)'
    <2>1. CASE f \in net
      <3>1. f.at <= now /\ f.from \in Voters /\ Known(<<f.epoch, f.who>>)
        BY <1>5, <2>1, Zenon DEF FrameInv, GrantsKnown
      <3>2. f.epoch \in Nat /\ f.who \in Node  BY <1>1, <2>1, <3>1, Zenon DEF LeadFrame, Known
      <3>. QED  BY <3>1, <3>2, KnownStays, Zenon
    <2>2. CASE f \notin net
      <3>1. SendStep(x, el[x], t, f)  BY <1>5, <2>2, Published, Zenon
      <3>2. /\ f.from = x /\ x \in Voters /\ t.granted # NoPair /\ <<f.epoch, f.who>> = t.granted
            /\ \E c \in net : c.kind = "Claim" /\ f.at = c.at
        BY <1>5, <3>1, Zenon DEF SendStep
      <3>3. f.at <= now  BY <3>2, Zenon DEF FrameInv, ClaimsKnown
      <3>4. LedgersKnown'  BY StepLedgersKnown, Zenon
      <3>5. el'[x].granted = t.granted  BY <1>2, Zenon
      <3>6. Known(t.granted)'  BY <3>2, <3>4, <3>5, Zenon DEF LedgersKnown
      <3>. QED  BY <3>2, <3>3, <3>6, Zenon
    <2>. QED  BY <2>1, <2>2, Zenon
  <1>6. ASSUME NEW f \in net', f.kind = "Resign"
        PROVE  f.from \in setup.candidates /\ el'[f.from].leaving
    <2>1. CASE f \in net
      <3>1. f.from \in setup.candidates /\ el[f.from].leaving
        BY <1>6, <2>1, Zenon DEF FrameInv, ResignsLeft
      <3>. QED  BY <1>1, <1>2, <1>3, <3>1, Zenon DEF FenceStep
    <2>2. CASE f \notin net
      <3>1. f \in frames /\ SendStep(x, el[x], t, f)
        BY <1>6, <2>2, NewFrames, Zenon DEF Steps
      <3>. QED  BY <1>2, <1>6, <3>1, Zenon DEF SendStep
    <2>. QED  BY <2>1, <2>2, Zenon
  <1>. QED  BY <1>1, <1>4, <1>5, <1>6, Zenon DEF ClaimsKnown, GrantsKnown, ResignsLeft

\* A step of a node keeps the promise ahead of every stale claim: a vote
\* renews it, and no resign of a node that stands is in flight.
LEMMA StepStaleClaims ==
    ASSUME TypeOK, NodesSane, FrameInv, NEW x \in Node, NEW t \in ElectionState,
           NEW frames \in SUBSET LeadFrame, Steps(x, t, frames)
    PROVE  StaleClaims'
  <1>1. /\ el' = [el EXCEPT ![x] = t] /\ el \in [Node -> ElectionState]
        /\ UNCHANGED <<setup, now>> /\ net \subseteq LeadFrame /\ Voters \subseteq Node
        /\ now \in Nat
    BY NodeAssumption, Zenon DEF Steps, Commit, TypeOK
  <1>2. \A m \in Node : el'[m] = IF m = x THEN t ELSE el[m]  BY <1>1, Zenon
  <1>3. /\ Sane(x, t) /\ FenceStep(el[x], t) /\ LedgerStep(x, el[x], t) /\ RoundStep(x, el[x], t)
    BY Zenon DEF Steps, Moves
  <1>. SUFFICES ASSUME NEW f \in net', NEW v \in Voters, f.kind = "Claim",
                       el'[f.from].role # "Follower", f.epoch < Stood(el'[f.from]),
                       el'[v].granted = <<Stood(el'[f.from]), f.from>>
                PROVE  f.at + Lease <= el'[v].grant_promise_until
    BY Zenon DEF StaleClaims
  <1>4. f \in net
    <2>. SUFFICES ASSUME f \notin net PROVE FALSE  BY Zenon
    <2>1. f \in frames /\ SendStep(x, el[x], t, f)  BY NewFrames, Zenon DEF Steps
    <2>2. f.from = x /\ f.epoch = Stood(t)  BY <2>1, Zenon DEF SendStep
    <2>3. f.epoch \in Nat /\ el'[f.from] = t  BY <1>2, <2>1, <2>2, Zenon DEF LeadFrame
    <2>. QED  BY <2>2, <2>3
  <1>. DEFINE n == f.from
  <1>5. n \in Node /\ f.epoch \in Nat /\ f.at \in Nat /\ n # None
    BY <1>1, <1>4, NodeAssumption, Zenon DEF LeadFrame
  <1>6. f.at <= now  BY <1>4, Zenon DEF FrameInv, ClaimsKnown
  <1>. HIDE DEF n
  <1>7. CASE v = x /\ Votes(x, el[x], t)
    <2>1. el'[v].grant_promise_until = now + Lease  BY <1>2, <1>7, Zenon DEF Votes
    <2>. QED  BY <1>1, <1>5, <1>6, <2>1, TimeAssumption, SMTT(30)
  <1>8. CASE el'[v].granted = el[v].granted
    <2>1. CASE el[n].role = "Follower"
      <3>1. n = x  BY <1>2, <1>5, <2>1, Zenon DEF n
      <3>2. Stood(t) > el[x].highest_seen /\ el'[n] = t
        BY <1>2, <1>3, <2>1, <3>1, Zenon DEF n, RoundStep, StandStep
      <3>3. el[v].granted = <<Stood(t), x>>  BY <1>8, <3>1, <3>2, Zenon DEF n
      <3>4. el[v].granted # NoPair  BY <1>5, <3>1, <3>3 DEF NoPair
      <3>5. Stood(t) <= el[x].highest_seen
        <4>1. Known(el[v].granted)  BY <3>4, Zenon DEF FrameInv, LedgersKnown
        <4>2. Known(<<Stood(t), x>>)  BY <3>3, <4>1, Zenon
        <4>. QED  BY <4>2, Zenon DEF Known
      <3>6. Stood(t) \in Nat /\ el[x].highest_seen \in Nat
        BY <1>1, StateNat, Zenon DEF Stood, ElectionState
      <3>. QED  BY <3>2, <3>5, <3>6
    <2>2. CASE el[n].role # "Follower"
      <3>1. Stood(el'[n]) = Stood(el[n])
        BY <1>2, <1>3, <1>5, <2>2, Zenon DEF n, RoundStep, StandStep
      <3>2. f.at + Lease <= el[v].grant_promise_until
        BY <1>4, <1>8, <2>2, <3>1, Zenon DEF n, FrameInv, StaleClaims
      <3>3. CASE v # x  BY <1>1, <1>2, <3>2, <3>3, Zenon
      <3>4. CASE v = x /\ Keeps(el[x], t)  BY <1>2, <3>2, <3>4, Zenon DEF Keeps
      <3>5. CASE v = x /\ Releases(el[x], t)
        <4>1. PICK g \in net : g.kind = "Resign" /\ el[x].granted = <<g.epoch, g.from>>
          BY <3>5, Zenon DEF Releases
        <4>2. g.from = n  BY <1>8, <3>5, <4>1 DEF n
        <4>3. el[n].leaving  BY <4>1, <4>2, Zenon DEF FrameInv, ResignsLeft
        <4>. QED  BY <1>5, <2>2, <4>3, Zenon DEF NodesSane, Sane
      <3>. QED  BY <1>3, <1>7, <3>3, <3>4, <3>5, Zenon DEF LedgerStep
    <2>. QED  BY <2>1, <2>2, Zenon
  <1>. QED  BY <1>1, <1>2, <1>3, <1>7, <1>8, Zenon DEF LedgerStep, Keeps, Releases

\* A restart of a node that is no candidate keeps what is known of the frames:
\* a stored pair comes back with a promise of a whole lease.
LEMMA RestartFrames ==
    ASSUME TypeOK, NodesSane, FrameInv, NEW x \in Node, x \notin setup.candidates, Restart(x)
    PROVE  FrameInv'
  <1>. DEFINE t == Recovered(x)
  <1>1. /\ el' = [el EXCEPT ![x] = t] /\ el \in [Node -> ElectionState] /\ now \in Nat
        /\ UNCHANGED <<setup, now, disk, net>> /\ Voters \subseteq Node
        /\ setup.candidates \subseteq Node /\ net \subseteq LeadFrame
    BY NodeAssumption, Zenon DEF Restart, TypeOK, Setup
  <1>2. /\ t.granted \in {NoPair, disk[x]}
        /\ t.granted # NoPair => t.grant_promise_until = now + Lease
    BY Zenon DEF Recovered, BootState
  <1>. HIDE DEF t
  <1>3. \A m \in Node : el'[m] = IF m = x THEN t ELSE el[m]  BY <1>1, Zenon
  <1>4. \A m \in setup.candidates : el'[m] = el[m]  BY <1>1, <1>3, Zenon
  <1>5. \A p : Known(p) => Known(p)'  BY <1>1, <1>4, Zenon DEF Known
  <1>6. ClaimsKnown' /\ GrantsKnown'
    BY <1>1, <1>5, Zenon DEF FrameInv, ClaimsKnown, GrantsKnown
  <1>7. ResignsLeft'  BY <1>1, <1>4, Zenon DEF FrameInv, ResignsLeft
  <1>8. LedgersKnown'
    <2>1. ASSUME NEW v \in Voters, NEW p \in {el'[v].granted, disk'[v]}
          PROVE  p \in {NoPair, disk[v], el[v].granted}
      BY <1>1, <1>2, <1>3, <2>1, Zenon
    <2>. QED  BY <1>5, <2>1 DEF FrameInv, LedgersKnown
  <1>9. StaleClaims'
    <2>. SUFFICES ASSUME NEW f \in net, NEW v \in Voters, f.kind = "Claim",
                         el'[f.from].role # "Follower", f.epoch < Stood(el'[f.from]),
                         el'[v].granted = <<Stood(el'[f.from]), f.from>>
                  PROVE  f.at + Lease <= el'[v].grant_promise_until
      BY <1>1, Zenon DEF StaleClaims
    <2>1. f.at <= now /\ Known(<<f.epoch, f.from>>)  BY Zenon DEF FrameInv, ClaimsKnown
    <2>2. f.from \in setup.candidates  BY <2>1, Zenon DEF Known
    <2>3. el'[f.from] = el[f.from]  BY <1>4, <2>2, Zenon
    <2>4. f.at \in Nat /\ f.from \in Node /\ f.from # None
      BY <1>1, NodeAssumption, Zenon DEF LeadFrame
    <2>5. CASE v # x
      <3>1. el'[v] = el[v]  BY <1>1, <1>3, <2>5, Zenon
      <3>. QED  BY <2>3, <3>1, Zenon DEF FrameInv, StaleClaims
    <2>6. CASE v = x
      <3>1. el'[v] = t  BY <1>3, <2>6, Zenon
      <3>2. t.granted # NoPair  BY <2>4, <3>1 DEF NoPair
      <3>3. t.grant_promise_until = now + Lease  BY <1>2, <3>2, Zenon
      <3>. QED  BY <1>1, <2>1, <2>4, <3>1, <3>3, TimeAssumption, SMTT(30)
    <2>. QED  BY <2>5, <2>6, Zenon
  <1>. QED  BY <1>6, <1>7, <1>8, <1>9, Zenon DEF FrameInv

\* Time only takes frames away.
LEMMA AdvanceFrames ==
    ASSUME TypeOK, FrameInv, Advance
    PROVE  FrameInv'
  <1>1. net' \subseteq net /\ UNCHANGED <<setup, el, disk>> /\ now' = now + 1 /\ now \in Nat
    BY Zenon DEF Advance, TypeOK
  <1>2. \A f \in net' : f.at \in Nat /\ (f.at <= now => f.at <= now')
    BY <1>1 DEF TypeOK, LeadFrame
  <1>3. \A p : Known(p)' = Known(p)  BY <1>1, Zenon DEF Known
  <1>4. ClaimsKnown' /\ GrantsKnown'
    BY <1>1, <1>2, <1>3, Zenon DEF FrameInv, ClaimsKnown, GrantsKnown
  <1>5. LedgersKnown'  BY <1>1, <1>3, Zenon DEF FrameInv, LedgersKnown
  <1>6. ResignsLeft' /\ StaleClaims'  BY <1>1, Zenon DEF FrameInv, ResignsLeft, StaleClaims
  <1>. QED  BY <1>4, <1>5, <1>6, Zenon DEF FrameInv

-----------------------------------------------------------------------------
\* Promises owed

\* Voter v's grant is counted in the round of s, and the round's lease, with
\* the round trip off, reaches u.
ByRound(s, v, u) ==
    v \in s.round_grants /\ u + setup.max_rtt <= s.round_sent_at + Lease

\* Voter v's grant of the pair n stands on in state s is in flight to n, and
\* the lease it answers for reaches u.
ByGrant(s, v, n, u) ==
    \E f \in net :
        /\ f.kind = "Grant" /\ f.from = v /\ f.who = n /\ n \in f.to
        /\ f.epoch = Stood(s) /\ u <= f.at + Lease

\* Voter v is of the majority Q behind the running lease, which, with the
\* round trip off, reaches u.
ByLease(s, Q, v, u) ==
    s.role = "Host" /\ v \in Q /\ u + setup.max_rtt <= s.lease_until

\* Voter v owes node n its promise until u, where q[n] is the majority behind
\* n's lease.
Owes(q, v, n, u) ==
    /\ el[n].role # "Follower"
    /\ ByRound(el[n], v, u) \/ ByGrant(el[n], v, n, u) \/ ByLease(el[n], q[n], v, u)

\* Voter v has promised until u, to n or, when it restarted without a store, to
\* nobody; and a restart from its store would promise n again.
Kept(v, n, u) ==
    /\ el[v].grant_promise_until >= u
    /\ el[v].granted[2] \in {n, None}
    /\ v \in setup.durable /\ v # n => disk[v][2] = n

\* The majorities q stand behind the hosts, every promise owed beyond now is
\* kept, and no voter owes two nodes one.
Backing(q) ==
    /\ \A n \in Node : el[n].role = "Host" => Cardinality(q[n]) >= Majority
    /\ \A v \in Voters, n \in Node, u \in Nat : u > now /\ Owes(q, v, n, u) => Kept(v, n, u)
    /\ \A v \in Voters, m, n \in Node :
        Owes(q, v, m, now + 1) /\ Owes(q, v, n, now + 1) => m = n

LeaseInv == \E q \in [Node -> SUBSET Voters] : Backing(q)

\* The majorities after a step of x to t: those of before, or the round that
\* carries x's new lease.
Rebased(q, r, x, t) ==
    /\ \A m \in Node \ {x} : r[m] = q[m]
    /\ t.role = "Host" =>
        \/ el[x].role = "Host" /\ t.lease_until = el[x].lease_until /\ r[x] = q[x]
        \/ /\ Cardinality(t.round_grants) >= Majority /\ r[x] = t.round_grants
           /\ t.lease_until = t.round_sent_at + Lease

\* A grant that a step sends to the node standing on its pair is a promise kept
\* for as long as the answered claim can ask: the step renewed it, or the claim
\* is stale and the promise is ahead of it.
LEMMA PromiseSent ==
    ASSUME TypeOK, NodesSane, FrameInv, Stored', NEW x \in Node, NEW t \in ElectionState,
           NEW frames \in SUBSET LeadFrame, Steps(x, t, frames),
           NEW f \in net', f \notin net, f.kind = "Grant",
           NEW n \in Node, f.who = n, n \in f.to,
           el'[n].role # "Follower", f.epoch = Stood(el'[n]),
           NEW u \in Nat, u <= f.at + Lease
    PROVE  f.from = x /\ el'[x].granted[2] = n /\ Kept(x, n, u)'
  <1>1. /\ el' = [el EXCEPT ![x] = t] /\ el \in [Node -> ElectionState]
        /\ UNCHANGED <<setup, now>> /\ net \subseteq LeadFrame /\ now \in Nat
    BY Zenon DEF Steps, Commit, TypeOK
  <1>2. \A m \in Node : el'[m] = IF m = x THEN t ELSE el[m]  BY <1>1, Zenon
  <1>3. /\ SendStep(x, el[x], t, f) /\ f.from = x
        /\ x \in setup.durable => disk'[x] = t.granted
    BY Published, Zenon
  <1>4. x \in Voters /\ t.granted = <<f.epoch, n>>  BY <1>3, Zenon DEF SendStep
  <1>5. PICK c \in net :
            /\ c.kind = "Claim" /\ f.to = {c.from} /\ f.at = c.at
            /\ \/ Votes(x, el[x], t)
               \/ /\ Keeps(el[x], t) /\ c.from # x
                  /\ c.epoch <= t.granted[1] /\ <<c.epoch, c.from>> # t.granted
    BY <1>3, Zenon DEF SendStep
  <1>6. c.from = n /\ c.at <= now /\ c.at \in Nat /\ c.epoch \in Nat
    BY <1>1, <1>5, Zenon DEF FrameInv, ClaimsKnown, LeadFrame
  <1>7. t.grant_promise_until >= u
    <2>0. t.grant_promise_until \in Nat  BY Zenon DEF ElectionState
    <2>1. CASE Votes(x, el[x], t)
      <3>1. t.grant_promise_until = now + Lease  BY <2>1, Zenon DEF Votes
      <3>. QED  BY <1>1, <1>5, <1>6, <2>0, <3>1, TimeAssumption, SMTT(30)
    <2>2. CASE /\ Keeps(el[x], t) /\ c.from # x
               /\ c.epoch <= t.granted[1] /\ <<c.epoch, c.from>> # t.granted
      <3>1. el'[n] = el[n] /\ el[x].granted = <<Stood(el[n]), n>>
        BY <1>2, <1>4, <1>6, <2>2, Zenon DEF Keeps
      <3>2. f.epoch = Stood(el[n]) /\ Stood(el[n]) \in Nat /\ el[n].role # "Follower"
        BY <1>1, <3>1, StateNat, Zenon DEF Stood
      <3>3. c.epoch < Stood(el[n])  BY <1>4, <1>6, <2>2, <3>2, SMTT(30)
      <3>4. c.at + Lease <= el[x].grant_promise_until
        BY <1>4, <1>5, <1>6, <3>1, <3>2, <3>3, SMTT(30) DEF FrameInv, StaleClaims
      <3>5. c.at + Lease <= t.grant_promise_until  BY <2>2, <3>4, Zenon DEF Keeps
      <3>. QED  BY <1>5, <1>6, <2>0, <3>5, TimeAssumption, SMTT(30)
    <2>. QED  BY <1>5, <2>1, <2>2, Zenon
  <1>8. el'[x] = t /\ t.granted[2] = n  BY <1>2, <1>4
  <1>9. x \in setup.durable => disk'[x][2] = n  BY <1>3, <1>4
  <1>. QED  BY <1>1, <1>3, <1>7, <1>8, <1>9, Zenon DEF Kept

\* A vote of a node for itself is a promise kept for a whole lease.
LEMMA PromiseOwn ==
    ASSUME TypeOK, NEW x \in Node, NEW t \in ElectionState, NEW frames, Steps(x, t, frames),
           Votes(x, el[x], t), t.granted = <<Stood(t), x>>,
           NEW u \in Nat, u <= now + Lease
    PROVE  el'[x].granted[2] = x /\ Kept(x, x, u)'
  <1>1. el' = [el EXCEPT ![x] = t] /\ el \in [Node -> ElectionState]
    BY Zenon DEF Steps, Commit, TypeOK
  <1>2. el'[x] = t  BY <1>1, Zenon
  <1>3. t.grant_promise_until = now + Lease /\ now + Lease \in Nat
    BY TimeAssumption DEF Votes, TypeOK
  <1>. QED  BY <1>2, <1>3 DEF Kept

\* What is owed after a step was owed before it, or the step made the promise.
LEMMA OwesStep ==
    ASSUME TypeOK, NodesSane, FrameInv, Stored', IsQuorum, NEW x \in Node,
           NEW t \in ElectionState, NEW frames \in SUBSET LeadFrame, Steps(x, t, frames),
           NEW q, NEW r, Rebased(q, r, x, t),
           NEW v \in Voters, NEW n \in Node, NEW u \in Nat, Owes(r, v, n, u)'
    PROVE  \/ Owes(q, v, n, u)
           \/ el'[v].granted[2] = n /\ Kept(v, n, u)'
  <1>1. /\ el' = [el EXCEPT ![x] = t] /\ el \in [Node -> ElectionState]
        /\ UNCHANGED <<setup, now>> /\ net \subseteq LeadFrame /\ now \in Nat
        /\ setup.max_rtt \in Nat
    BY NodeAssumption, Zenon DEF Steps, Commit, TypeOK, Setup
  <1>2. \A m \in Node : el'[m] = IF m = x THEN t ELSE el[m]  BY <1>1, Zenon
  <1>3. Sane(x, t) /\ RoundStep(x, el[x], t)  BY Zenon DEF Steps, Moves
  <1>4. ASSUME NEW f \in net', f \notin net, f.kind = "Grant", f.from = v, f.who = n, n \in f.to,
               f.epoch = Stood(el'[n]), u <= f.at + Lease
        PROVE  el'[v].granted[2] = n /\ Kept(v, n, u)'
    <2>1. el'[n].role # "Follower"  BY Zenon DEF Owes
    <2>2. f.from = x /\ el'[x].granted[2] = n /\ Kept(x, n, u)'  BY <1>4, <2>1, PromiseSent, Zenon
    <2>. QED  BY <1>4, <2>2, Zenon
  <1>5. CASE n # x
    <2>1. el'[n] = el[n] /\ r[n] = q[n]  BY <1>2, <1>5, Zenon DEF Rebased
    <2>2. el[n].role # "Follower"  BY <2>1, Zenon DEF Owes
    <2>3. CASE ByRound(el[n], v, u)'
      <3>1. ByRound(el[n], v, u)  BY <1>1, <2>1, <2>3, Zenon DEF ByRound
      <3>. QED  BY <2>2, <3>1, Zenon DEF Owes
    <2>4. CASE ByLease(el[n], r[n], v, u)'
      <3>1. ByLease(el[n], q[n], v, u)  BY <1>1, <2>1, <2>4, Zenon DEF ByLease
      <3>. QED  BY <2>2, <3>1, Zenon DEF Owes
    <2>5. CASE ByGrant(el[n], v, n, u)'
      <3>1. PICK f \in net' : /\ f.kind = "Grant" /\ f.from = v /\ f.who = n /\ n \in f.to
                              /\ f.epoch = Stood(el'[n]) /\ u <= f.at + Lease
        BY <2>5, Zenon DEF ByGrant
      <3>2. CASE f \in net
        <4>1. ByGrant(el[n], v, n, u)  BY <2>1, <3>1, <3>2, SMTT(30) DEF ByGrant
        <4>. QED  BY <2>2, <4>1, Zenon DEF Owes
      <3>. QED  BY <1>4, <3>1, <3>2, Zenon
    <2>. QED  BY <2>3, <2>4, <2>5, Zenon DEF Owes
  <1>6. CASE n = x
    <2>1. el'[n] = t /\ t.role # "Follower"  BY <1>2, <1>6, Zenon DEF Owes
    <2>2. StandStep(el[n], t)  BY <1>3, <1>6, <2>1, Zenon DEF RoundStep
    <2>3. ASSUME NEW f \in net, f.kind = "Grant", f.from = v, f.who = n, n \in f.to,
                 f.epoch = Stood(t), u <= f.at + Lease
          PROVE  Owes(q, v, n, u)
      <3>1. f.epoch <= el[n].highest_seen
        <4>1. Known(<<f.epoch, n>>)  BY <2>3, Zenon DEF FrameInv, GrantsKnown
        <4>. QED  BY <4>1, Zenon DEF Known
      <3>2. f.epoch \in Nat /\ el[n].highest_seen \in Nat  BY <1>1, StateNat, Zenon DEF LeadFrame
      <3>3. el[n].role # "Follower" /\ Stood(t) = Stood(el[n])
        BY <2>2, <2>3, <3>1, <3>2, SMTT(30) DEF StandStep
      <3>4. ByGrant(el[n], v, n, u)  BY <2>3, <3>3, Zenon DEF ByGrant
      <3>. QED  BY <3>3, <3>4, Zenon DEF Owes
    <2>4. ASSUME ByRound(t, v, u)
          PROVE  Owes(q, v, n, u) \/ (el'[v].granted[2] = n /\ Kept(v, n, u)')
      <3>0. /\ v \in t.round_grants /\ u + setup.max_rtt <= t.round_sent_at + Lease
            /\ t.round_sent_at <= now /\ t.round_sent_at \in Nat
        BY <1>3, <2>4, Zenon DEF ByRound, Sane, ElectionState
      <3>1. CountStep(n, el[n], t, v)  BY <1>3, <1>6, <2>1, <3>0, Zenon DEF RoundStep
      <3>2. CASE /\ el[n].role # "Follower" /\ v \in el[n].round_grants
                 /\ t.round_sent_at = el[n].round_sent_at
        BY <3>0, <3>2, Zenon DEF Owes, ByRound
      <3>3. CASE v = n /\ t.granted = <<Stood(t), n>> /\ Votes(n, el[n], t)
        <4>1. u <= now + Lease  BY <1>1, <3>0, TimeAssumption
        <4>. QED  BY <1>6, <3>3, <4>1, PromiseOwn, Zenon
      <3>4. ASSUME NEW f \in Receivable(n),
                   f.kind = "Grant", f.from = v, f.who = n, f.epoch = Stood(t)
            PROVE  Owes(q, v, n, u)
        <4>1. f \in net /\ n \in f.to /\ now <= f.at + setup.max_rtt /\ f.at \in Nat
          BY <1>1, Zenon DEF Receivable, LeadFrame
        <4>2. u <= f.at + Lease  BY <1>1, <3>0, <4>1, TimeAssumption, SMTT(30)
        <4>. QED  BY <2>3, <3>4, <4>1, <4>2, Zenon
      <3>. QED  BY <3>1, <3>2, <3>3, <3>4, Zenon DEF CountStep
    <2>5. CASE ByRound(el[n], v, u)'
      <3>1. ByRound(t, v, u)  BY <1>1, <2>1, <2>5, Zenon DEF ByRound
      <3>. QED  BY <2>4, <3>1, Zenon
    <2>6. CASE ByLease(el[n], r[n], v, u)'
      <3>1. t.role = "Host" /\ v \in r[n] /\ u + setup.max_rtt <= t.lease_until
        BY <1>1, <2>1, <2>6, Zenon DEF ByLease
      <3>2. CASE el[n].role = "Host" /\ t.lease_until = el[n].lease_until /\ r[n] = q[n]
        <4>1. ByLease(el[n], q[n], v, u)  BY <3>1, <3>2, ZenonT(30) DEF ByLease
        <4>. QED  BY <3>2, <4>1, Zenon DEF Owes
      <3>3. CASE r[n] = t.round_grants /\ t.lease_until = t.round_sent_at + Lease
        <4>1. ByRound(t, v, u)  BY <3>1, <3>3, SMTT(30) DEF ByRound
        <4>. QED  BY <2>4, <4>1, Zenon
      <3>. QED  BY <1>6, <3>1, <3>2, <3>3, Zenon DEF Rebased
    <2>7. CASE ByGrant(el[n], v, n, u)'
      <3>1. PICK f \in net' : /\ f.kind = "Grant" /\ f.from = v /\ f.who = n /\ n \in f.to
                              /\ f.epoch = Stood(el'[n]) /\ u <= f.at + Lease
        BY <2>7, Zenon DEF ByGrant
      <3>2. CASE f \in net  BY <2>1, <2>3, <3>1, <3>2, Zenon
      <3>. QED  BY <1>4, <3>1, <3>2, Zenon
    <2>. QED  BY <2>5, <2>6, <2>7, Zenon DEF Owes
  <1>. QED  BY <1>5, <1>6, Zenon

\* A promise to a node that stands is not taken back while it runs: a vote for
\* the same node extends it, for another waits it out, and no resign of a node
\* that stands is in flight.
LEMMA PromiseStays ==
    ASSUME TypeOK, NodesSane, FrameInv, NEW x \in Node,
           NEW t \in ElectionState, NEW frames, Steps(x, t, frames),
           NEW v \in Voters, NEW n \in Node, NEW u \in Nat, u > now,
           el[n].role # "Follower", Kept(v, n, u)
    PROVE  Kept(v, n, u)'
  <1>1. /\ el' = [el EXCEPT ![x] = t] /\ el \in [Node -> ElectionState]
        /\ UNCHANGED <<setup, now>> /\ net \subseteq LeadFrame /\ now \in Nat
        /\ Persist(x, t) /\ Voters \subseteq Node /\ Node \subseteq Nat \ {None}
    BY NodeAssumption, Zenon DEF Steps, Commit, TypeOK
  <1>2. \A m \in Node : el'[m] = IF m = x THEN t ELSE el[m]  BY <1>1, Zenon
  <1>3. CASE v # x
    <2>1. el'[v] = el[v] /\ disk'[v] = disk[v]  BY <1>1, <1>2, <1>3, PersistEffect, SMTT(30)
    <2>. QED  BY <1>1, <2>1, Zenon DEF Kept
  <1>4. CASE v = x
    <2>. DEFINE s == el[v]
    <2>1. /\ s.grant_promise_until >= u /\ s.granted[2] \in {n, None}
          /\ v \in setup.durable /\ v # n => disk[v][2] = n
      BY Zenon DEF Kept
    <2>2. /\ el'[v] = t /\ s \in ElectionState
          /\ s.grant_promise_until \in Nat /\ t.grant_promise_until \in Nat
          /\ s.grant_promise_until <= now + Lease
      BY <1>1, <1>2, <1>4, Zenon DEF ElectionState, NodesSane, Sane
    <2>. HIDE DEF s
    <2>3. LedgerStep(v, s, t)  BY <1>4, Zenon DEF Steps, Moves, s
    <2>4. CASE t.granted = s.granted /\ t.grant_promise_until >= u
      <3>1. disk'[v] = disk[v]  BY <1>1, <1>4, <2>4, PersistEffect, Zenon DEF s
      <3>. QED  BY <1>1, <2>1, <2>2, <2>4, <3>1, SMTT(30) DEF Kept
    <2>5. CASE Keeps(s, t)  BY <2>1, <2>4, <2>5, Zenon DEF Keeps
    <2>6. CASE Votes(v, s, t)
      <3>1. t.grant_promise_until >= u
        BY <1>1, <2>1, <2>2, <2>6, TimeAssumption, SMTT(30) DEF Votes
      <3>2. CASE t.granted = s.granted  BY <2>4, <3>1, <3>2, Zenon
      <3>3. CASE t.granted # s.granted
        <4>1. s.granted[2] = t.granted[2]
          BY <1>1, <2>1, <2>2, <2>6, <3>3, SMTT(30) DEF Votes
        <4>2. t.granted[2] \in Node
          <5>1. \A f \in net : f.from \in Node  BY <1>1, Zenon DEF LeadFrame
          <5>. QED  BY <1>1, <2>6, <5>1, SMTT(30) DEF Votes
        <4>3. t.granted[2] = n  BY <1>1, <2>1, <4>1, <4>2, Zenon
        <4>4. disk'[v] \in {disk[v], t.granted}  BY <1>1, <1>4, PersistEffect, Zenon
        <4>5. v \in setup.durable /\ v # n => disk'[v][2] = n  BY <2>1, <4>3, <4>4, Zenon
        <4>. QED  BY <1>1, <2>2, <3>1, <4>3, <4>5, Zenon DEF Kept
      <3>. QED  BY <3>2, <3>3, Zenon
    <2>7. CASE Releases(s, t)
      <3>1. PICK f \in net : f.kind = "Resign" /\ s.granted = <<f.epoch, f.from>>
        BY <2>7, Zenon DEF Releases
      <3>2. f.from \in Node /\ el[f.from].leaving
        BY <1>1, <3>1, Zenon DEF LeadFrame, FrameInv, ResignsLeft
      <3>3. f.from = n  BY <1>1, <2>1, <3>1, <3>2, SMTT(30)
      <3>. QED  BY <3>2, <3>3, Zenon DEF NodesSane, Sane
    <2>. QED  BY <2>3, <2>5, <2>6, <2>7, Zenon DEF LedgerStep
  <1>. QED  BY <1>3, <1>4, Zenon

-----------------------------------------------------------------------------
\* Every step keeps the promises

\* A step of a node.
LEMMA StepLeases ==
    ASSUME TypeOK, NodesSane, FrameInv, Stored', IsQuorum, LeaseInv, NEW x \in Node, NodeStep(x)
    PROVE  FrameInv' /\ LeaseInv'
  <1>1. PICK t \in ElectionState, frames \in SUBSET LeadFrame : Steps(x, t, frames)
    BY Zenon DEF NodeStep, Steps
  <1>2. FrameInv'
    BY <1>1, StepLedgersKnown, StepFramesKnown, StepStaleClaims, Zenon DEF FrameInv
  <1>3. PICK q \in [Node -> SUBSET Voters] : Backing(q)  BY Zenon DEF LeaseInv
  <1>4. /\ el' = [el EXCEPT ![x] = t] /\ el \in [Node -> ElectionState] /\ now' = now
        /\ now \in Nat /\ Node \subseteq Nat \ {None}
    BY <1>1, NodeAssumption, Zenon DEF Steps, Commit, TypeOK
  <1>5. \A m \in Node : el'[m] = IF m = x THEN t ELSE el[m]  BY <1>4, Zenon
  <1>6. PICK r \in [Node -> SUBSET Voters] : Rebased(q, r, x, t)
    <2>1. t.round_grants \in SUBSET Voters  BY Zenon DEF ElectionState
    <2>2. t.role = "Host" => LeaseStep(el[x], t)  BY <1>1, Zenon DEF Steps, Moves, RoundStep
    <2>3. CASE t.role = "Host" => el[x].role = "Host" /\ t.lease_until = el[x].lease_until
      <3>1. Rebased(q, q, x, t)  BY <2>3, Zenon DEF Rebased
      <3>. QED  BY <3>1, Zenon
    <2>4. CASE /\ Cardinality(t.round_grants) >= Majority
               /\ t.lease_until = t.round_sent_at + Lease
      <3>. DEFINE p == [q EXCEPT ![x] = t.round_grants]
      <3>1. /\ p \in [Node -> SUBSET Voters] /\ p[x] = t.round_grants
            /\ \A m \in Node \ {x} : p[m] = q[m]
        BY <2>1, Zenon
      <3>. HIDE DEF p
      <3>2. Rebased(q, p, x, t)  BY <2>4, <3>1, Zenon DEF Rebased
      <3>. QED  BY <3>1, <3>2, Zenon
    <2>. QED  BY <2>2, <2>3, <2>4, Zenon DEF LeaseStep
  <1>7. ASSUME NEW n \in Node, el'[n].role = "Host" PROVE Cardinality(r[n]) >= Majority
    <2>1. CASE n # x
      <3>1. el[n].role = "Host" /\ r[n] = q[n]  BY <1>5, <1>6, <1>7, <2>1, Zenon DEF Rebased
      <3>. QED  BY <1>3, <3>1, Zenon DEF Backing
    <2>2. CASE n = x
      <3>1. t.role = "Host"  BY <1>5, <1>7, <2>2, Zenon
      <3>. QED  BY <1>3, <1>6, <2>2, <3>1, SMTT(30) DEF Rebased, Backing
    <2>. QED  BY <2>1, <2>2, Zenon
  <1>8. ASSUME NEW v \in Voters, NEW n \in Node, NEW u \in Nat, u > now, Owes(r, v, n, u)'
        PROVE  /\ Kept(v, n, u)'
               /\ Owes(q, v, n, u) \/ el'[v].granted[2] = n
    <2>1. CASE Owes(q, v, n, u)
      <3>1. Kept(v, n, u) /\ el[n].role # "Follower"
        BY <1>3, <1>8, <2>1, Zenon DEF Backing, Owes
      <3>2. Kept(v, n, u)'  BY <1>1, <1>8, <3>1, PromiseStays, Zenon
      <3>. QED  BY <2>1, <3>2, Zenon
    <2>2. CASE el'[v].granted[2] = n /\ Kept(v, n, u)'  BY <2>2, Zenon
    <2>. QED  BY <1>1, <1>6, <1>8, <2>1, <2>2, OwesStep, SMTT(30)
  <1>9. ASSUME NEW v \in Voters, NEW m \in Node, NEW n \in Node,
               Owes(r, v, m, now + 1)', Owes(r, v, n, now + 1)'
        PROVE  m = n
    <2>0. PICK w \in Nat : w = now + 1  BY <1>4, SMTT(30)
    <2>1. Owes(r, v, m, w)' /\ Owes(r, v, n, w)' /\ w > now
      BY <1>4, <1>9, <2>0 DEF Owes, ByRound, ByGrant, ByLease
    <2>2. /\ Owes(q, v, m, w) \/ el'[v].granted[2] = m
          /\ Owes(q, v, n, w) \/ el'[v].granted[2] = n
          /\ Kept(v, m, w)' /\ Kept(v, n, w)'
      BY <1>8, <2>1, Zenon
    <2>3. el'[v].granted[2] \in {m, None} /\ el'[v].granted[2] \in {n, None}
      BY <2>2, Zenon DEF Kept
    <2>4. Owes(q, v, m, w) /\ Owes(q, v, n, w) => m = n
      BY <1>3, <2>0, Zenon DEF Backing
    <2>5. m # None /\ n # None  BY <1>4, Zenon
    <2>. QED  BY <2>2, <2>3, <2>4, <2>5, Zenon
  <1>10. Backing(r)'  BY <1>4, <1>7, <1>8, <1>9, Zenon DEF Backing
  <1>11. LeaseInv'  BY <1>10, Zenon DEF LeaseInv
  <1>. QED  BY <1>2, <1>11, Zenon

\* A restart of a node that is no candidate: a voter with a store promises the
\* stored pair's node again, one without a store sits out the blackout, and both
\* for as long as the earlier life had promised.
LEMMA RestartLeases ==
    ASSUME TypeOK, NodesSane, FrameInv, LeaseInv, NEW x \in Node,
           x \notin setup.candidates, Restart(x)
    PROVE  FrameInv' /\ LeaseInv'
  <1>1. FrameInv'  BY RestartFrames, Zenon
  <1>2. PICK q \in [Node -> SUBSET Voters] : Backing(q)  BY Zenon DEF LeaseInv
  <1>. DEFINE t == Recovered(x)
  <1>3. /\ el' = [el EXCEPT ![x] = t] /\ el \in [Node -> ElectionState] /\ now \in Nat
        /\ UNCHANGED <<setup, now, disk, net>> /\ Voters \subseteq Node
        /\ Node \subseteq Nat \ {None} /\ now + Lease \in Nat
    BY NodeAssumption, TimeAssumption DEF Restart, TypeOK
  <1>4. /\ t.role = "Follower"
        /\ x \in setup.durable => t.granted = disk[x]
        /\ x \notin setup.durable => t.granted = NoPair
        /\ x \notin setup.durable \/ disk[x] # NoPair => t.grant_promise_until = now + Lease
    BY Zenon DEF Recovered, BootState
  <1>. HIDE DEF t
  <1>5. \A m \in Node : el'[m] = IF m = x THEN t ELSE el[m]  BY <1>3, Zenon
  <1>6. ASSUME NEW v, NEW n \in Node, NEW u, Owes(q, v, n, u)'
        PROVE  Owes(q, v, n, u) /\ n # x /\ el[n].role # "Follower"
    <2>1. n # x /\ el'[n] = el[n]  BY <1>4, <1>5, <1>6, Zenon DEF Owes
    <2>. QED  BY <1>3, <1>6, <2>1, Zenon DEF Owes, ByRound, ByGrant, ByLease
  <1>7. ASSUME NEW v \in Voters, NEW n \in Node, NEW u \in Nat, u > now, Owes(q, v, n, u)'
        PROVE  Kept(v, n, u)'
    <2>1. Kept(v, n, u) /\ n # x  BY <1>2, <1>6, <1>7, Zenon DEF Backing
    <2>2. CASE v # x
      <3>1. el'[v] = el[v]  BY <1>3, <1>5, <2>2, Zenon
      <3>. QED  BY <1>3, <2>1, <3>1, Zenon DEF Kept
    <2>3. CASE v = x
      <3>1. el'[v] = t  BY <1>5, <2>3, Zenon
      <3>2. u <= now + Lease
        <4>1. el[x].grant_promise_until >= u  BY <2>1, <2>3, Zenon DEF Kept
        <4>2. el[x].grant_promise_until <= now + Lease /\ el[x].grant_promise_until \in Nat
          BY <1>3, Zenon DEF NodesSane, Sane, ElectionState
        <4>. QED  BY <1>3, <4>1, <4>2, SMTT(30)
      <3>3. x \in setup.durable => disk[x][2] = n  BY <2>1, <2>3, Zenon DEF Kept
      <3>4. x \in setup.durable => disk[x] # NoPair  BY <1>3, <3>3 DEF NoPair
      <3>5. t.grant_promise_until = now + Lease  BY <1>4, <3>4, Zenon
      <3>6. t.granted[2] \in {n, None}  BY <1>4, <3>3 DEF NoPair
      <3>. QED  BY <1>3, <2>3, <3>1, <3>2, <3>3, <3>5, <3>6, SMTT(30) DEF Kept
    <2>. QED  BY <2>2, <2>3, Zenon
  <1>8. ASSUME NEW v \in Voters, NEW m \in Node, NEW n \in Node,
               Owes(q, v, m, now + 1)', Owes(q, v, n, now + 1)'
        PROVE  m = n
    <2>0. PICK w \in Nat : w = now + 1  BY <1>3
    <2>1. Owes(q, v, m, w)' /\ Owes(q, v, n, w)'
      BY <1>3, <1>8, <2>0, Zenon DEF Owes, ByRound, ByGrant, ByLease
    <2>2. Owes(q, v, m, w) /\ Owes(q, v, n, w)  BY <1>6, <2>1, Zenon
    <2>. QED  BY <1>2, <2>0, <2>2, Zenon DEF Backing
  <1>9. \A n \in Node : el'[n].role = "Host" => Cardinality(q[n]) >= Majority
    BY <1>2, <1>4, <1>5, Zenon DEF Backing
  <1>10. Backing(q)'  BY <1>3, <1>7, <1>8, <1>9, Zenon DEF Backing
  <1>. QED  BY <1>1, <1>10, Zenon DEF LeaseInv

\* Time: what is owed for longer was owed for less.
LEMMA AdvanceLeases ==
    ASSUME TypeOK, FrameInv, LeaseInv, Advance
    PROVE  FrameInv' /\ LeaseInv'
  <1>1. FrameInv'  BY AdvanceFrames, Zenon
  <1>2. PICK q \in [Node -> SUBSET Voters] : Backing(q)  BY Zenon DEF LeaseInv
  <1>3. net' \subseteq net /\ UNCHANGED <<setup, el, disk>> /\ now' = now + 1 /\ now \in Nat
        /\ setup.max_rtt \in Nat /\ net \subseteq LeadFrame /\ el \in [Node -> ElectionState]
    BY NodeAssumption, Zenon DEF Advance, TypeOK, Setup
  <1>4. ASSUME NEW v, NEW n \in Node, NEW u \in Nat, NEW w \in Nat, w <= u, Owes(q, v, n, u)'
        PROVE  Owes(q, v, n, w)
    <2>1. el[n] \in ElectionState /\ el[n].role # "Follower"  BY <1>3, <1>4, Zenon DEF Owes
    <2>2. el[n].round_sent_at + Lease \in Nat /\ el[n].lease_until \in Nat
      BY <2>1, TimeAssumption DEF ElectionState
    <2>3. CASE ByRound(el[n], v, u)'
      <3>1. ByRound(el[n], v, w)  BY <1>3, <1>4, <2>2, <2>3, SMTT(30) DEF ByRound
      <3>. QED  BY <2>1, <3>1, Zenon DEF Owes
    <2>4. CASE ByLease(el[n], q[n], v, u)'
      <3>1. ByLease(el[n], q[n], v, w)  BY <1>3, <1>4, <2>2, <2>4, SMTT(30) DEF ByLease
      <3>. QED  BY <2>1, <3>1, Zenon DEF Owes
    <2>5. CASE ByGrant(el[n], v, n, u)'
      <3>1. PICK f \in net' : /\ f.kind = "Grant" /\ f.from = v /\ f.who = n /\ n \in f.to
                              /\ f.epoch = Stood(el'[n]) /\ u <= f.at + Lease
        BY <2>5, Zenon DEF ByGrant
      <3>2. f \in net /\ f.at + Lease \in Nat  BY <1>3, TimeAssumption, SMTT(30) DEF LeadFrame
      <3>3. w <= f.at + Lease /\ f.epoch = Stood(el[n])  BY <1>3, <1>4, <3>1, <3>2, SMTT(30)
      <3>4. ByGrant(el[n], v, n, w)  BY <3>1, <3>2, <3>3, Zenon DEF ByGrant
      <3>. QED  BY <2>1, <3>4, Zenon DEF Owes
    <2>. QED  BY <1>4, <2>3, <2>4, <2>5, Zenon DEF Owes
  <1>5. ASSUME NEW v \in Voters, NEW n \in Node, NEW u \in Nat, u > now', Owes(q, v, n, u)'
        PROVE  Kept(v, n, u)'
    <2>1. Owes(q, v, n, u) /\ u > now  BY <1>3, <1>4, <1>5
    <2>2. Kept(v, n, u)  BY <1>2, <2>1, Zenon DEF Backing
    <2>. QED  BY <1>3, <2>2, Zenon DEF Kept
  <1>6. ASSUME NEW v \in Voters, NEW m \in Node, NEW n \in Node,
               Owes(q, v, m, now + 1)', Owes(q, v, n, now + 1)'
        PROVE  m = n
    <2>0. PICK w \in Nat, u \in Nat : w = now + 1 /\ u = now + 2  BY <1>3
    <2>1. u = now' + 1 /\ w <= u  BY <1>3, <2>0
    <2>2. Owes(q, v, m, u)' /\ Owes(q, v, n, u)'
      BY <1>6, <2>1, Zenon DEF Owes, ByRound, ByGrant, ByLease
    <2>3. Owes(q, v, m, w) /\ Owes(q, v, n, w)  BY <1>4, <2>1, <2>2, Zenon
    <2>. QED  BY <1>2, <2>0, <2>3, Zenon DEF Backing
  <1>7. \A n \in Node : el'[n].role = "Host" => Cardinality(q[n]) >= Majority
    BY <1>2, <1>3, Zenon DEF Backing
  <1>8. Backing(q)'  BY <1>5, <1>6, <1>7, Zenon DEF Backing
  <1>. QED  BY <1>1, <1>8, Zenon DEF LeaseInv

-----------------------------------------------------------------------------
\* S4c-global

\* What backs the leases of a Quorum group: each voter counted toward a running
\* lease still owes it a promise, and the frames in flight keep that so.
PromisesKept == IsQuorum => FrameInv /\ LeaseInv

\* Every promise counted toward a running lease of a Quorum group is kept, when
\* no candidate forgets the epochs it has seen: grant_verdict grants another
\* node only once the promise ran out, restarts and resigns included.
THEOREM LeasesBacked == SteadyCandidates => (Spec => []PromisesKept)
  <1>. SUFFICES ASSUME SteadyCandidates PROVE Spec => []PromisesKept
    BY Zenon
  <1>1. Init => PromisesKept
    <2>. SUFFICES ASSUME Init PROVE FrameInv /\ LeaseInv  BY Zenon DEF PromisesKept
    <2>1. \A p, u : BootState(p, u).role = "Follower" /\ BootState(p, u).granted = p
      BY Zenon DEF BootState
    <2>2. \A n \in Node : el[n].role = "Follower" /\ el[n].granted = NoPair /\ disk[n] = NoPair
      BY <2>1, Zenon DEF Init, Recovered
    <2>3. FrameInv
      BY <2>2, NodeAssumption, Zenon DEF Init, FrameInv, ClaimsKnown, LedgersKnown, GrantsKnown,
         ResignsLeft, StaleClaims
    <2>. DEFINE q == [n \in Node |-> {}]
    <2>4. q \in [Node -> SUBSET Voters]  BY Zenon
    <2>. HIDE DEF q
    <2>5. Backing(q)  BY <2>2, Zenon DEF Backing, Owes
    <2>. QED  BY <2>3, <2>4, <2>5, Zenon DEF LeaseInv
  <1>2. TypeOK /\ NodesSane /\ Stored' /\ PromisesKept /\ [Next]_vars => PromisesKept'
    <2>. SUFFICES ASSUME TypeOK, NodesSane, Stored', FrameInv, LeaseInv, IsQuorum, [Next]_vars
                  PROVE  FrameInv' /\ LeaseInv'
      <3>1. [Next]_vars /\ TypeOK /\ NodesSane => (IsQuorum' => IsQuorum)
        <4>. SUFFICES ASSUME [Next]_vars, TypeOK, NodesSane PROVE setup' = setup
          BY Zenon DEF IsQuorum
        <4>. QED  BY StepKinds, Zenon DEF NodeStep, Commit, Restart, Advance, vars
      <3>. QED  BY <3>1, Zenon DEF PromisesKept
    <2>1. CASE UNCHANGED vars
      <3>1. UNCHANGED <<setup, now, el, disk, net>>  BY <2>1, Zenon DEF vars
      <3>2. FrameInv'
        BY <3>1, Zenon DEF FrameInv, ClaimsKnown, LedgersKnown, GrantsKnown, ResignsLeft,
           StaleClaims, Known
      <3>3. PICK q \in [Node -> SUBSET Voters] : Backing(q)  BY Zenon DEF LeaseInv
      <3>4. \A v, n, u : Owes(q, v, n, u)' = Owes(q, v, n, u)
        BY <3>1 DEF Owes, ByRound, ByGrant, ByLease
      <3>5. \A v, n, u : Kept(v, n, u)' = Kept(v, n, u)  BY <3>1, Zenon DEF Kept
      <3>6. Backing(q)'
        <4>1. \A v, n : Owes(q, v, n, now + 1)' = Owes(q, v, n, now + 1)
          BY <3>1 DEF Owes, ByRound, ByGrant, ByLease
        <4>. QED  BY <3>1, <3>3, <3>4, <3>5, <4>1, SMTT(30) DEF Backing
      <3>. QED  BY <3>2, <3>6, Zenon DEF LeaseInv
    <2>2. ASSUME NEW x \in Node, Restart(x) PROVE FrameInv' /\ LeaseInv'
      <3>1. x \notin setup.candidates
        BY <2>2, Zenon DEF Restart, SteadyCandidates, TypeOK, IsQuorum
      <3>. QED  BY <2>2, <3>1, RestartLeases, Zenon
    <2>. QED  BY <2>1, <2>2, StepKinds, StepLeases, AdvanceLeases, Zenon
  <1>. QED  BY <1>1, <1>2, NodesStaySane, StoresHold, PTL DEF Spec

\* Node n hosts on a lease that has more than the round trip left to run.
FirmlyLeased(n) == el[n].role = "Host" /\ now + setup.max_rtt < el[n].lease_until

\* The promises make firm leases exclusive: two majorities share a voter, and
\* it owes its promise to one node.
LEMMA FirmLeaseUnique ==
    ASSUME TypeOK, LeaseInv, NEW m \in Node, NEW n \in Node, FirmlyLeased(m), FirmlyLeased(n)
    PROVE  m = n
  <1>1. PICK q \in [Node -> SUBSET Voters] : Backing(q)  BY Zenon DEF LeaseInv
  <1>2. Cardinality(q[m]) >= Majority /\ Cardinality(q[n]) >= Majority
    BY <1>1, Zenon DEF FirmlyLeased, Backing
  <1>3. q[m] \in SUBSET Voters /\ q[n] \in SUBSET Voters  BY Zenon
  <1>4. PICK v : v \in q[m] /\ v \in q[n]  BY <1>2, <1>3, MajoritiesMeet, Zenon
  <1>5. now \in Nat /\ setup.max_rtt \in Nat /\ el \in [Node -> ElectionState]
    BY NodeAssumption, Zenon DEF TypeOK, Setup
  <1>6. ASSUME NEW k \in Node, FirmlyLeased(k), v \in q[k] PROVE Owes(q, v, k, now + 1)
    <2>1. el[k].lease_until \in Nat  BY <1>5, Zenon DEF ElectionState
    <2>2. now + 1 + setup.max_rtt <= el[k].lease_until
      BY <1>5, <1>6, <2>1, SMTT(30) DEF FirmlyLeased
    <2>3. el[k].role = "Host"  BY <1>6, Zenon DEF FirmlyLeased
    <2>. QED  BY <1>6, <2>2, <2>3, Zenon DEF Owes, ByLease
  <1>7. Owes(q, v, m, now + 1) /\ Owes(q, v, n, now + 1) /\ v \in Voters
    BY <1>3, <1>4, <1>6, Zenon
  <1>. QED  BY <1>1, <1>7, Zenon DEF Backing

\* S4c-global with the round trip off: at no instant do two nodes of a Quorum
\* group host on leases that have more than one round trip left, whatever frames
\* are lost, duplicated, reordered or delayed, whichever voters crash, with or
\* without a store, and whoever leaves.  The round trip is the header's "one
\* place this is approximate" (engine/quorum.rs): a grant that answers an
\* earlier round counts toward the round under way when it arrives.
FirmLeasesExclusive ==
    IsQuorum => \A m, n \in Node : FirmlyLeased(m) /\ FirmlyLeased(n) => m = n

\* At most one node holds a firm lease at any instant, for every roster and
\* every message delay, when no candidate forgets the epochs it has seen.
THEOREM OneFirmLease == SteadyCandidates => (Spec => []FirmLeasesExclusive)
  <1>. SUFFICES ASSUME SteadyCandidates PROVE Spec => []FirmLeasesExclusive
    BY Zenon
  <1>1. TypeOK /\ PromisesKept => FirmLeasesExclusive
    BY FirmLeaseUnique, Zenon DEF PromisesKept, FirmLeasesExclusive
  <1>. QED  BY <1>1, TypeCorrect, LeasesBacked, PTL

\* S4c-global itself, where every grant arrives within the instant its claim
\* was sent at: at most one unexpired lease in the group at any instant.
THEOREM OneLease ==
    SteadyCandidates /\ (\A s \in Setups : s.activation = "Quorum" => s.max_rtt = 0)
        => (Spec => []S4cGlobal)
  <1>. SUFFICES ASSUME SteadyCandidates,
                       \A s \in Setups : s.activation = "Quorum" => s.max_rtt = 0
                PROVE  Spec => []S4cGlobal
    BY Zenon
  <1>1. TypeOK /\ FirmLeasesExclusive => S4cGlobal
    <2>. SUFFICES ASSUME TypeOK, FirmLeasesExclusive, IsQuorum,
                         NEW m \in Node, NEW n \in Node, Leased(m), Leased(n)
                  PROVE  m = n
      BY Zenon DEF S4cGlobal
    <2>1. setup.max_rtt = 0 /\ now \in Nat  BY Zenon DEF TypeOK, IsQuorum
    <2>2. FirmlyLeased(m) /\ FirmlyLeased(n)  BY <2>1 DEF Leased, FirmlyLeased
    <2>. QED  BY <2>2, Zenon DEF FirmLeasesExclusive
  <1>. QED  BY <1>1, TypeCorrect, OneFirmLease, PTL
=============================================================================
