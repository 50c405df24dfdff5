--------------------------- MODULE ElectionProofs ---------------------------
(***************************************************************************)
(* What one step of a node may do, for every activation, roster and bound: *)
(* type correctness of Election, the law every tick, frame and command     *)
(* obeys, and the fence that only moves forward.  Then grants: what a      *)
(* voter issues, what its store holds and what is on the wire, whatever    *)
(* crashes and stores fail.  The proofs about grants use the law and look  *)
(* at no action again.                                                     *)
(***************************************************************************)
EXTENDS Election, TLAPS

-----------------------------------------------------------------------------
\* Type correctness: what each helper makes of a well-formed node state

\* BootState builds a well-formed node state from any pair and promise.
LEMMA BootStateType ==
    ASSUME now \in Nat, NEW p \in Pair, NEW u \in Nat
    PROVE  BootState(p, u) \in ElectionState
  <1>1. NextRound \in Nat /\ now + ActivationWindow \in Nat
    BY TimeAssumption DEF NextRound, ActivationWindow
  <1>2. NoPair \in Nat \X Nat /\ p[1] \in Nat
    BY Zenon DEF NoPair, None, Pair
  <1>. QED  BY <1>1, <1>2, Zenon DEF BootState, ElectionState

\* A start from the store, or without one, is well-formed.
LEMMA RecoveredType ==
    ASSUME now \in Nat, disk \in [Node -> Pair], NEW n \in Node
    PROVE  Recovered(n) \in ElectionState
  <1>1. NoPair \in Pair /\ disk[n] \in Pair
    BY Zenon DEF NoPair, Pair
  <1>2. now + Lease \in Nat /\ 0 \in Nat
    BY TimeAssumption
  <1>. QED  BY <1>1, <1>2, BootStateType, Zenon DEF Recovered

\* Recording a grant keeps a node state well-formed.
LEMMA RecordGrantType ==
    ASSUME now \in Nat, NEW n \in Node, NEW s \in ElectionState,
           NEW epoch \in Nat, NEW c \in Node \cup {None}
    PROVE  RecordGrant(n, s, epoch, c) \in ElectionState
  <1>1. ASSUME NEW p \in Pair, NEW u \in Nat
        PROVE  [s EXCEPT !.granted = p, !.resigned = FALSE, !.grant_promise_until = u]
                  \in ElectionState
    BY Zenon DEF ElectionState
  <1>2. now + Lease \in Nat /\ <<epoch, c>> \in Pair
    BY TimeAssumption DEF Pair
  <1>. QED  BY <1>1, <1>2, Zenon DEF RecordGrant

\* Activation keeps a node state well-formed.
LEMMA ActivateType ==
    ASSUME NEW n \in Node, NEW s \in ElectionState, NEW epoch \in Nat, NEW until \in Nat
    PROVE  Activate(n, s, epoch, until) \in ElectionState
  BY Zenon DEF Activate, ElectionState, NoPair, None, Larger

\* Abandoning a claim and demotion keep a node state well-formed.
LEMMA AbandonType ==
    ASSUME NEW s \in ElectionState
    PROVE  Abandon(s) \in ElectionState /\ Demote(s) \in ElectionState
  BY Zenon DEF Abandon, Demote, ElectionState, NoPair, None

\* Standing down keeps a node state well-formed.
LEMMA StandDownType ==
    ASSUME NEW s \in ElectionState, NEW epoch \in Nat
    PROVE  StandDown(s, epoch) \in ElectionState
  BY AbandonType, Zenon DEF StandDown

\* A raised highest_seen keeps a node state well-formed.
LEMMA SeenType ==
    ASSUME NEW s \in ElectionState, NEW epoch \in Nat
    PROVE  [s EXCEPT !.highest_seen = Larger(@, epoch)] \in ElectionState
  BY Zenon DEF ElectionState, Larger

\* Adopting a pair keeps a node state well-formed.
LEMMA AdoptType ==
    ASSUME NEW s \in ElectionState, NEW epoch \in Nat, NEW h \in Node \cup {None}
    PROVE  Adopt(s, epoch, h) \in ElectionState
  <1>1. [s EXCEPT !.epoch = epoch, !.host = h, !.highest_seen = Larger(@, epoch)]
            \in ElectionState
    BY Zenon DEF ElectionState, Larger
  <1>. QED  BY <1>1, StandDownType, Zenon DEF Adopt

\* Learning an epoch from a self-named state frame keeps a node state well-formed.
LEMMA LearnSelfNamedType ==
    ASSUME NEW s \in ElectionState, NEW epoch \in Nat
    PROVE  LearnSelfNamed(s, epoch) \in ElectionState
  <1>. DEFINE t == [s EXCEPT !.highest_seen = Larger(@, epoch)]
  <1>1. t \in ElectionState  BY SeenType, Zenon
  <1>. HIDE DEF t
  <1>2. [t EXCEPT !.epoch = epoch, !.host = None] \in ElectionState
    BY <1>1, Zenon DEF ElectionState
  <1>3. StandDown([t EXCEPT !.epoch = epoch, !.host = None], epoch) \in ElectionState
    BY <1>2, StandDownType, Zenon
  <1>. QED  BY <1>1, <1>3, Zenon DEF LearnSelfNamed, t

\* Closing a grant round keeps a node state well-formed.
LEMMA CloseRoundType ==
    ASSUME NEW n \in Node, NEW s \in ElectionState, NEW epoch \in Nat
    PROVE  CloseRound(n, s, epoch) \in ElectionState
  <1>. DEFINE until == s.round_sent_at + Lease
  <1>1. until \in Nat
    BY TimeAssumption DEF ElectionState
  <1>. HIDE DEF until
  <1>2. Activate(n, s, epoch, until) \in ElectionState
    BY <1>1, ActivateType, Zenon
  <1>3. [s EXCEPT !.lease_until = Larger(@, until)] \in ElectionState
    BY <1>1, Zenon DEF ElectionState, Larger
  <1>. QED  BY <1>2, <1>3, Zenon DEF CloseRound, until

\* A self-grant keeps a node state well-formed.
LEMMA SelfGrantType ==
    ASSUME now \in Nat, NEW n \in Node, NEW s \in ElectionState, NEW epoch \in Nat
    PROVE  SelfGrant(n, s, epoch) \in ElectionState
  <1>. DEFINE r == RecordGrant(n, s, epoch, n)
              t == [r EXCEPT !.round_grants = @ \cup {n}]
  <1>1. r \in ElectionState  BY RecordGrantType, Zenon
  <1>. HIDE DEF r
  <1>2. ASSUME n \in Voters PROVE t \in ElectionState
    BY <1>1, <1>2, Zenon DEF ElectionState
  <1>. HIDE DEF t
  <1>3. ASSUME n \in Voters PROVE CloseRound(n, t, epoch) \in ElectionState
    BY <1>2, <1>3, CloseRoundType, Zenon
  <1>. QED  BY <1>3, Zenon DEF SelfGrant, Grants, t, r

\* Opening a grant round keeps a node state well-formed.
LEMMA OpenRoundType ==
    ASSUME now \in Nat, NEW n \in Node, NEW s \in ElectionState, NEW epoch \in Nat
    PROVE  OpenRound(n, s, epoch) \in ElectionState
  <1>1. [s EXCEPT !.round_sent_at = now, !.round_grants = {}, !.round_refused = {}]
            \in ElectionState
    BY Zenon DEF ElectionState
  <1>. QED  BY <1>1, SelfGrantType, Zenon DEF OpenRound

\* Learning from a voter's grant keeps a node state well-formed.
LEMMA LearnGrantedEpochType ==
    ASSUME NEW n \in Node, NEW s \in ElectionState, NEW f \in LeadFrame, f.from \in Voters
    PROVE  LearnGrantedEpoch(n, s, f) \in ElectionState
  <1>. DEFINE t == [s EXCEPT !.highest_seen = Larger(@, f.epoch)]
              u == [t EXCEPT !.round_refused =
                        IF f.from \in t.round_grants THEN @ ELSE @ \cup {f.from}]
  <1>0. f.epoch \in Nat  BY Zenon DEF LeadFrame
  <1>1. t \in ElectionState  BY <1>0, SeenType, Zenon
  <1>. HIDE DEF t
  <1>2. u \in ElectionState  BY <1>1 DEF ElectionState
  <1>. HIDE DEF u
  <1>3. Abandon(u) \in ElectionState  BY <1>2, AbandonType, Zenon
  <1>. QED  BY <1>1, <1>2, <1>3, Zenon DEF LearnGrantedEpoch, t, u

-----------------------------------------------------------------------------
\* Type correctness: every step

\* Frames built from well-formed parts are well-formed.
LEMMA FrameType ==
    ASSUME NEW kind \in {"Claim", "Grant", "State", "Resign"}, NEW epoch \in Nat,
           NEW who \in Node \cup {None}, NEW from \in Node, NEW to \in SUBSET Node,
           NEW at \in Nat, kind \in {"Claim", "Resign"} => who = from
    PROVE  Frame(kind, epoch, who, from, to, at) \in LeadFrame
  BY Zenon DEF Frame, LeadFrame

\* The announcement and the beacon of a well-formed state are well-formed.
LEMMA StateFrameType ==
    ASSUME now \in Nat, NEW n \in Node, NEW s \in ElectionState, NEW to \in SUBSET Node
    PROVE  StateFrame(n, s, to) \in LeadFrame
  <1>1. s.epoch \in Nat /\ s.host \in Node \cup {None}  BY Zenon DEF ElectionState
  <1>. QED  BY <1>1, FrameType, Zenon DEF StateFrame

\* Executing the effects of an engine step whose new state and frames are
\* well-formed, and in which only a voter's ledger moved, keeps the whole
\* state well-formed.
LEMMA CommitType ==
    ASSUME TypeOK, NEW n \in Node, NEW t \in ElectionState, NEW frames \in SUBSET LeadFrame,
           t.granted # el[n].granted => n \in Voters,
           Commit(n, t, frames)
    PROVE  TypeOK'
  <1>. USE DEF TypeOK
  <1>0. t.granted \in Pair /\ t.epoch \in Nat /\ NoPair \in Pair
    BY Zenon DEF ElectionState, NoPair, Pair
  <1>1. setup' \in Setups /\ now' \in Nat /\ el' \in [Node -> ElectionState]
    BY Zenon DEF Commit
  <1>2. disk' \in [Node -> Pair] /\ undurable' \in [Node -> Pair]
    <2>1. CASE t.granted # el[n].granted /\ n \in setup.durable
      BY <1>0, <2>1, Zenon DEF Commit, Persist
    <2>2. CASE ~(t.granted # el[n].granted /\ n \in setup.durable)
      BY <2>2, Zenon DEF Commit, Persist
    <2>. QED  BY <2>1, <2>2, Zenon
  <1>3. net' \subseteq LeadFrame
    <2>1. Announced(n, t) \subseteq LeadFrame
      BY StateFrameType, Zenon DEF Announced, Peers
    <2>. QED  BY <2>1, Zenon DEF Commit, Sent
  <1>4. issued' \subseteq Voters \X Pair
    BY <1>0 DEF Commit
  <1>5. hosted' \subseteq Nat \X Node
    BY <1>0 DEF Commit
  <1>. QED  BY <1>1, <1>2, <1>3, <1>4, <1>5, Zenon

-----------------------------------------------------------------------------
\* The law of a step

\* The epoch a claimant claims or a host hosts.
Stood(s) == IF s.role = "Host" THEN s.epoch ELSE s.claim[1]

\* What a node knows of itself: it has seen every epoch it adopted, granted or
\* claims, and claims above the one it adopted; only a candidate that is not
\* leaving claims or hosts, and only one that left resigns; its round was
\* opened in the past, and it promises no further than a lease ahead.
Sane(n, s) ==
    /\ s.highest_seen >= s.epoch /\ s.highest_seen >= s.granted[1]
    /\ s.role = "Claimant" => s.claim[1] > s.epoch /\ s.claim[1] <= s.highest_seen
    /\ s.role # "Follower" => n \in setup.candidates /\ ~s.leaving
    /\ s.resigning[2] # {} => n \in setup.candidates /\ s.leaving
    /\ s.round_sent_at <= now
    /\ s.grant_promise_until <= now + Lease

NodesSane == \A n \in Node : Sane(n, el[n])

\* The fence moves forward, and who leaves stays gone until it restarts.
FenceStep(s, t) ==
    /\ t.highest_seen >= s.highest_seen /\ t.epoch >= s.epoch
    /\ t.epoch = s.epoch /\ None \notin {s.host, t.host} => t.host >= s.host
    /\ s.leaving => t.leaving

\* A voter grants: the pair it had, or a higher one, which goes to the node it
\* was promised to or waits the promise out; its own standing pair, or a claim
\* in flight.
Votes(n, s, t) ==
    /\ IsQuorum /\ n \in Voters
    /\ t.grant_promise_until = now + Lease
    /\ \/ t.granted = s.granted
       \/ /\ t.granted[1] > s.granted[1]
          /\ s.granted[2] = t.granted[2] \/ now >= s.grant_promise_until
    /\ \/ t.granted = <<Stood(t), n>> /\ t.role # "Follower"
       \/ \E f \in net : f.kind = "Claim" /\ t.granted = <<f.epoch, f.from>>

\* The granted pair's resign arrived: the promise ends.
Releases(s, t) ==
    /\ t.granted = s.granted /\ t.grant_promise_until = Smaller(s.grant_promise_until, now)
    /\ \E f \in net : f.kind = "Resign" /\ s.granted = <<f.epoch, f.from>>

Keeps(s, t) == t.granted = s.granted /\ t.grant_promise_until = s.grant_promise_until

LedgerStep(n, s, t) == Keeps(s, t) \/ Votes(n, s, t) \/ Releases(s, t)

\* A claimant or host stands on the epoch it stood on or on one it never saw.
StandStep(s, t) ==
    \/ s.role # "Follower" /\ Stood(t) = Stood(s)
    \/ s.role = "Follower" /\ ~s.leaving /\ Stood(t) > s.highest_seen

\* A node counts a voter it had counted in the same round, itself, or a voter
\* whose grant of the standing pair arrives.
CountStep(n, s, t, v) ==
    \/ s.role # "Follower" /\ v \in s.round_grants /\ t.round_sent_at = s.round_sent_at
    \/ v = n /\ t.granted = <<Stood(t), n>> /\ Votes(n, s, t)
    \/ \E f \in Receivable(n) :
        f.kind = "Grant" /\ f.from = v /\ f.who = n /\ f.epoch = Stood(t)

\* It hosts on the lease it had or on a majority of the round.
LeaseStep(s, t) ==
    \/ s.role = "Host" /\ t.lease_until = s.lease_until
    \/ Cardinality(t.round_grants) >= Majority /\ t.lease_until = t.round_sent_at + Lease

RoundStep(n, s, t) ==
    t.role # "Follower" =>
        /\ StandStep(s, t)
        /\ IsQuorum => \A v \in t.round_grants : CountStep(n, s, t, v)
        /\ IsQuorum /\ t.role = "Host" => LeaseStep(s, t)

Moves(n, s, t) == Sane(n, t) /\ FenceStep(s, t) /\ LedgerStep(n, s, t) /\ RoundStep(n, s, t)

\* A claim names the standing pair; a grant names the ledger's pair and answers
\* a claim, by a vote or, to another node's claim that is not of that pair,
\* without one; a resign comes from a candidate that left.
SendStep(n, s, t, f) ==
    /\ f.from = n
    /\ f.kind = "Claim" => f.at = now /\ t.role # "Follower" /\ f.epoch = Stood(t)
    /\ f.kind = "Grant" =>
        /\ IsQuorum /\ n \in Voters /\ t.granted # NoPair /\ <<f.epoch, f.who>> = t.granted
        /\ \E c \in net :
            /\ c.kind = "Claim" /\ f.to = {c.from} /\ f.at = c.at
            /\ \/ Votes(n, s, t)
               \/ /\ Keeps(s, t) /\ c.from # n
                  /\ c.epoch <= t.granted[1] /\ <<c.epoch, c.from>> # t.granted
    /\ f.kind = "Resign" => n \in setup.candidates /\ t.leaving

\* A step of n's engine, executed.
NodeStep(n) ==
    \E t \in ElectionState, frames \in SUBSET LeadFrame :
        /\ Commit(n, t, frames)
        /\ Moves(n, el[n], t)
        /\ \A f \in frames : SendStep(n, el[n], t, f)

\* The anti-entropy clock and the re-sent resign of a tick change nothing that
\* the law speaks of.
LEMMA TickStep ==
    ASSUME TypeOK, NEW n \in Node, NEW t \in ElectionState, NEW frames \in SUBSET LeadFrame,
           Moves(n, el[n], t), \A f \in frames : SendStep(n, el[n], t, f),
           Tick(n, t, frames)
    PROVE  NodeStep(n)
  <1>. DEFINE u == [t EXCEPT !.next_anti_entropy = NextRound]
              more == frames \cup ResentResign(n, t)
  <1>1. NextRound \in Nat  BY TimeAssumption DEF TypeOK, NextRound
  <1>2. u \in ElectionState  BY <1>1, Zenon DEF ElectionState
  <1>3. /\ u.role = t.role /\ u.highest_seen = t.highest_seen /\ u.epoch = t.epoch
        /\ u.host = t.host /\ u.claim = t.claim /\ u.lease_until = t.lease_until
        /\ u.granted = t.granted /\ u.grant_promise_until = t.grant_promise_until
        /\ u.round_sent_at = t.round_sent_at /\ u.round_grants = t.round_grants
        /\ u.resigning = t.resigning /\ u.leaving = t.leaving
    BY Zenon DEF ElectionState
  <1>4. CASE Due(n)
    <2>1. Commit(n, u, more)  BY <1>4, Zenon DEF Tick
    <2>2. more \in SUBSET LeadFrame
      <3>1. t.resigning[1] \in Nat /\ t.resigning[2] \in SUBSET Node
        BY NodeAssumption, Zenon DEF ElectionState
      <3>2. ResignFrame(n, t.resigning[1], t.resigning[2]) \in LeadFrame
        BY <3>1, FrameType, Zenon DEF ResignFrame, TypeOK
      <3>. QED  BY <3>2, Zenon DEF ResentResign
    <2>. HIDE DEF u
    <2>3. Stood(u) = Stood(t)  BY <1>3, Zenon DEF Stood
    <2>4. Moves(n, el[n], u)
      <3>1. Sane(n, u) /\ FenceStep(el[n], u)  BY <1>3, Zenon DEF Moves, Sane, FenceStep
      <3>2. Votes(n, el[n], t) => Votes(n, el[n], u)  BY <1>3, <2>3, Zenon DEF Votes
      <3>3. LedgerStep(n, el[n], u)
        BY <1>3, <3>2, Zenon DEF Moves, LedgerStep, Keeps, Releases
      <3>4. \A v : CountStep(n, el[n], t, v) => CountStep(n, el[n], u, v)
        BY <1>3, <2>3, <3>2, Zenon DEF CountStep
      <3>5. RoundStep(n, el[n], u)
        BY <1>3, <2>3, <3>4, Zenon DEF Moves, RoundStep, StandStep, LeaseStep
      <3>. QED  BY <3>1, <3>3, <3>5, Zenon DEF Moves
    <2>5. ASSUME NEW f \in more PROVE SendStep(n, el[n], u, f)
      <3>1. CASE f \in frames
        <4>1. SendStep(n, el[n], t, f)  BY <3>1, Zenon
        <4>2. Votes(n, el[n], t) => Votes(n, el[n], u)  BY <1>3, <2>3, Zenon DEF Votes
        <4>3. Keeps(el[n], t) => Keeps(el[n], u)  BY <1>3, Zenon DEF Keeps
        <4>. QED  BY <1>3, <2>3, <4>1, <4>2, <4>3, Zenon DEF SendStep
      <3>2. CASE f \in ResentResign(n, t)
        <4>1. t.resigning[2] # {} /\ f.from = n /\ f.kind = "Resign"
          BY <3>2 DEF ResentResign, ResignFrame, Frame
        <4>. QED  BY <1>3, <4>1, Zenon DEF SendStep, Moves, Sane
      <3>. QED  BY <3>1, <3>2, Zenon
    <2>. HIDE DEF more
    <2>. QED  BY <1>2, <2>1, <2>2, <2>4, <2>5, Zenon DEF NodeStep, u
  <1>5. CASE ~Due(n)
    BY <1>5, Zenon DEF Tick, NodeStep
  <1>. QED  BY <1>4, <1>5, Zenon

-----------------------------------------------------------------------------
\* What the helpers of a step do

\* A step that leaves the ledger and the round alone, and the role with its
\* pair or drops the role, obeys the law when the fence does.
LEMMA QuietMoves ==
    ASSUME NEW n \in Node, NEW s \in ElectionState, NEW t \in ElectionState,
           Sane(n, s), Keeps(s, t), FenceStep(s, t), t.highest_seen >= t.epoch,
           t.round_sent_at = s.round_sent_at, t.leaving = s.leaving,
           t.resigning[2] \subseteq s.resigning[2],
           \/ t.role = "Follower"
           \/ /\ t.role = s.role /\ Stood(t) = Stood(s) /\ t.round_grants = s.round_grants
              /\ IsQuorum => t.lease_until = s.lease_until
              /\ t.role = "Claimant" => t.claim[1] > t.epoch
    PROVE  Moves(n, s, t)
  <1>1. /\ s.highest_seen \in Nat /\ t.highest_seen \in Nat /\ s.granted[1] \in Nat
        /\ s.claim[1] \in Nat /\ t.claim[1] \in Nat
    BY Zenon DEF ElectionState, Pair
  <1>2. t.role = "Claimant" => t.claim[1] > t.epoch /\ t.claim[1] <= t.highest_seen
    BY <1>1 DEF Sane, FenceStep, Stood
  <1>3. t.highest_seen >= t.granted[1]  BY <1>1 DEF Sane, FenceStep, Keeps
  <1>4. /\ t.role # "Follower" => n \in setup.candidates /\ ~t.leaving
        /\ t.resigning[2] # {} => n \in setup.candidates /\ t.leaving
    BY Zenon DEF Sane
  <1>5. Sane(n, t)  BY <1>2, <1>3, <1>4, Zenon DEF Sane, Keeps
  <1>6. RoundStep(n, s, t)
    BY Zenon DEF RoundStep, StandStep, CountStep, LeaseStep
  <1>. QED  BY <1>5, <1>6, Zenon DEF Moves, LedgerStep

\* Closing a round changes nothing but the role with its pair, and the lease:
\* a majority activates a claimant and extends a host's lease.
Closes(n, s, t) ==
    /\ t.granted = s.granted /\ t.grant_promise_until = s.grant_promise_until
    /\ t.round_sent_at = s.round_sent_at /\ t.round_grants = s.round_grants
    /\ t.leaving = s.leaving /\ t.resigning = s.resigning
    /\ \/ /\ t.role = s.role /\ t.claim = s.claim /\ t.epoch = s.epoch
          /\ t.host = s.host /\ t.highest_seen = s.highest_seen
          /\ t.lease_until = s.lease_until \/ (s.role = "Host" /\ LeaseStep(s, t))
       \/ /\ s.role = "Claimant" /\ t.role = "Host"
          /\ t.epoch = s.claim[1] /\ t.host = n
          /\ t.highest_seen = Larger(s.highest_seen, s.claim[1])
          /\ LeaseStep(s, t)

\* CloseRound closes the standing round.
LEMMA CloseRoundCloses ==
    ASSUME NEW n \in Node, NEW s \in ElectionState, s.role # "Follower"
    PROVE  Closes(n, s, CloseRound(n, s, Stood(s)))
  <1>. DEFINE until == s.round_sent_at + Lease
              a == Activate(n, s, Stood(s), until)
              b == [s EXCEPT !.lease_until = Larger(@, until)]
  <1>1. \/ CloseRound(n, s, Stood(s)) = s
        \/ /\ CloseRound(n, s, Stood(s)) = b /\ s.role = "Host"
           /\ Cardinality(s.round_grants) >= Majority
        \/ /\ CloseRound(n, s, Stood(s)) = a /\ s.role = "Claimant"
           /\ Cardinality(s.round_grants) >= Majority
    BY DEF CloseRound
  <1>2. Closes(n, s, s)  BY Zenon DEF Closes
  <1>3. ASSUME s.role = "Host", Cardinality(s.round_grants) >= Majority
        PROVE  Closes(n, s, b)
    <2>1. /\ b.granted = s.granted /\ b.grant_promise_until = s.grant_promise_until
          /\ b.round_sent_at = s.round_sent_at /\ b.round_grants = s.round_grants
          /\ b.leaving = s.leaving /\ b.resigning = s.resigning
          /\ b.role = s.role /\ b.claim = s.claim /\ b.epoch = s.epoch
          /\ b.host = s.host /\ b.highest_seen = s.highest_seen
          /\ b.lease_until \in {s.lease_until, until}
      BY Zenon DEF ElectionState, Larger
    <2>. HIDE DEF b
    <2>. QED  BY <1>3, <2>1, Zenon DEF Closes, LeaseStep
  <1>4. ASSUME s.role = "Claimant", Cardinality(s.round_grants) >= Majority
        PROVE  Closes(n, s, a)
    <2>1. /\ a.granted = s.granted /\ a.grant_promise_until = s.grant_promise_until
          /\ a.round_sent_at = s.round_sent_at /\ a.round_grants = s.round_grants
          /\ a.leaving = s.leaving /\ a.resigning = s.resigning
          /\ a.role = "Host" /\ a.epoch = s.claim[1] /\ a.host = n
          /\ a.highest_seen = Larger(s.highest_seen, s.claim[1]) /\ a.lease_until = until
      BY <1>4, Zenon DEF Activate, ElectionState, Stood
    <2>. HIDE DEF a
    <2>. QED  BY <1>4, <2>1, Zenon DEF Closes, LeaseStep
  <1>. HIDE DEF a, b
  <1>. QED  BY <1>1, <1>2, <1>3, <1>4, Zenon

\* Closing the standing round of a lawful step is lawful.
LEMMA ClosesMoves ==
    ASSUME NEW n \in Node, NEW s \in ElectionState, NEW c \in ElectionState,
           NEW w \in ElectionState, c.role # "Follower", Moves(n, s, c), Closes(n, c, w)
    PROVE  /\ Moves(n, s, w) /\ w.role # "Follower" /\ Stood(w) = Stood(c)
           /\ c.role = "Host" => w.role = "Host"
  <1>1. /\ c.claim[1] \in Nat /\ c.epoch \in Nat /\ s.epoch \in Nat /\ w.epoch \in Nat
        /\ s.highest_seen \in Nat /\ c.highest_seen \in Nat /\ w.highest_seen \in Nat
        /\ c.granted[1] \in Nat /\ c.role \in {"Claimant", "Host"}
    BY Zenon DEF ElectionState, Pair
  <1>2. w.role # "Follower" /\ Stood(w) = Stood(c) /\ (c.role = "Host" => w.role = "Host")
    BY <1>1, Zenon DEF Closes, Stood
  <1>3. w.highest_seen >= c.highest_seen /\ w.highest_seen >= w.epoch
    BY <1>1 DEF Closes, Larger, Moves, Sane
  <1>4. Sane(n, w)
    <2>1. w.role = "Claimant" => w.claim[1] > w.epoch /\ w.claim[1] <= w.highest_seen
      BY Zenon DEF Closes, Moves, Sane
    <2>. QED  BY <1>1, <1>3, <2>1 DEF Closes, Moves, Sane
  <1>5. FenceStep(s, w)
    <2>1. CASE w.epoch = c.epoch /\ w.host = c.host
      BY <1>1, <1>3, <2>1 DEF Closes, Moves, FenceStep
    <2>2. CASE c.role = "Claimant" /\ w.epoch = c.claim[1]
      <3>1. w.epoch > s.epoch  BY <1>1, <2>2 DEF Moves, FenceStep, Sane
      <3>. QED  BY <1>1, <1>3, <3>1 DEF Closes, Moves, FenceStep
    <2>. QED  BY <2>1, <2>2, Zenon DEF Closes
  <1>6. Votes(n, s, c) => Votes(n, s, w)
    BY <1>2, Zenon DEF Votes, Closes
  <1>7. LedgerStep(n, s, w)
    BY <1>6, Zenon DEF Moves, LedgerStep, Keeps, Releases, Closes
  <1>8. RoundStep(n, s, w)
    <2>1. StandStep(s, w)  BY <1>2, Zenon DEF Moves, RoundStep, StandStep
    <2>2. \A v : CountStep(n, s, c, v) => CountStep(n, s, w, v)
      BY <1>2, <1>6, Zenon DEF CountStep, Closes
    <2>3. w.round_grants = c.round_grants /\ w.round_sent_at = c.round_sent_at
      BY Zenon DEF Closes
    <2>4. IsQuorum => \A v \in w.round_grants : CountStep(n, s, w, v)
      BY <2>2, <2>3, Zenon DEF Moves, RoundStep
    <2>5. IsQuorum /\ w.role = "Host" => LeaseStep(s, w)
      BY <2>3, Zenon DEF Closes, LeaseStep, Moves, RoundStep
    <2>. QED  BY <2>1, <2>4, <2>5, Zenon DEF RoundStep
  <1>. QED  BY <1>2, <1>4, <1>5, <1>7, <1>8, Zenon DEF Moves

\* A self-grant is a vote for the standing pair, counted in the round.
LEMMA SelfGrantMoves ==
    ASSUME now \in Nat, NEW n \in Node, NEW s \in ElectionState, NEW r \in ElectionState,
           r.role # "Follower", Moves(n, s, r), Keeps(s, r),
           r.role = "Host" => s.role = "Host" /\ r.lease_until = s.lease_until
    PROVE  /\ Moves(n, s, SelfGrant(n, r, Stood(r)))
           /\ SelfGrant(n, r, Stood(r)).role # "Follower"
           /\ Stood(SelfGrant(n, r, Stood(r))) = Stood(r)
           /\ r.role = "Host" => SelfGrant(n, r, Stood(r)).role = "Host"
  <1>. DEFINE epoch == Stood(r)
              g == RecordGrant(n, r, epoch, n)
              c == [g EXCEPT !.round_grants = @ \cup {n}]
              w == CloseRound(n, c, epoch)
  <1>1. CASE ~Grants(n, r, epoch, n)
    BY <1>1, Zenon DEF SelfGrant
  <1>2. CASE Grants(n, r, epoch, n)
    <2>1. /\ epoch \in Nat /\ r.highest_seen \in Nat /\ r.granted[1] \in Nat
          /\ r.role \in {"Claimant", "Host"}
      BY Zenon DEF ElectionState, Stood, Pair
    <2>2. g \in ElectionState  BY <2>1, RecordGrantType, Zenon
    <2>3. /\ g.granted = <<epoch, n>> /\ g.grant_promise_until = now + Lease
          /\ g.role = r.role /\ g.highest_seen = r.highest_seen /\ g.epoch = r.epoch
          /\ g.host = r.host /\ g.claim = r.claim /\ g.lease_until = r.lease_until
          /\ g.round_sent_at = r.round_sent_at /\ g.round_grants = r.round_grants
          /\ g.resigning = r.resigning /\ g.leaving = r.leaving
      BY <1>2, Zenon DEF RecordGrant, ElectionState
    <2>. HIDE DEF g
    <2>4. c \in ElectionState  BY <1>2, <2>2, Zenon DEF Grants, ElectionState
    <2>5. /\ c.granted = <<epoch, n>> /\ c.grant_promise_until = now + Lease
          /\ c.role = r.role /\ c.highest_seen = r.highest_seen /\ c.epoch = r.epoch
          /\ c.host = r.host /\ c.claim = r.claim /\ c.lease_until = r.lease_until
          /\ c.round_sent_at = r.round_sent_at /\ c.round_grants = r.round_grants \cup {n}
          /\ c.resigning = r.resigning /\ c.leaving = r.leaving
      BY <2>2, <2>3, Zenon DEF ElectionState
    <2>6. SelfGrant(n, r, epoch) = w  BY <1>2, Zenon DEF SelfGrant, g
    <2>. HIDE DEF c
    <2>7. Stood(c) = epoch  BY <2>5, Zenon DEF Stood
    <2>8. Votes(n, s, c)
      <3>1. \/ r.granted = <<epoch, n>>
            \/ epoch > r.granted[1] /\ (r.granted[2] = n \/ now >= r.grant_promise_until)
        BY <1>2, Zenon DEF Grants, Fresh, Repeat
      <3>. QED  BY <1>2, <2>5, <2>7, <3>1 DEF Votes, Keeps, Grants
    <2>9. Sane(n, c)
      <3>1. epoch <= r.highest_seen  BY <2>1, Zenon DEF Moves, Sane, Stood
      <3>. QED  BY <2>1, <2>5, <3>1, TimeAssumption DEF Moves, Sane
    <2>10. FenceStep(s, c)  BY <2>5, Zenon DEF Moves, FenceStep
    <2>11. ASSUME NEW v, CountStep(n, s, r, v) PROVE CountStep(n, s, c, v)
      BY <2>5, <2>7, <2>8, <2>11, Zenon DEF CountStep
    <2>12. CountStep(n, s, c, n)  BY <2>5, <2>7, <2>8, Zenon DEF CountStep
    <2>13. RoundStep(n, s, c)
      <3>1. StandStep(s, c)  BY <2>5, <2>7, Zenon DEF Moves, RoundStep, StandStep
      <3>2. \A v \in c.round_grants : CountStep(n, s, c, v)
        BY <1>2, <2>5, <2>11, <2>12, Zenon DEF Moves, RoundStep, Grants
      <3>3. c.role = "Host" => LeaseStep(s, c)  BY <2>5, Zenon DEF LeaseStep
      <3>. QED  BY <3>1, <3>2, <3>3, Zenon DEF RoundStep
    <2>14. Moves(n, s, c)  BY <2>8, <2>9, <2>10, <2>13, Zenon DEF Moves, LedgerStep
    <2>15. w \in ElectionState  BY <2>1, <2>4, CloseRoundType, Zenon
    <2>16. Closes(n, c, w)  BY <2>4, <2>5, <2>7, CloseRoundCloses, Zenon
    <2>17. c.role # "Follower"  BY <2>5, Zenon
    <2>. HIDE DEF w, epoch
    <2>18. /\ Moves(n, s, w) /\ w.role # "Follower" /\ Stood(w) = Stood(c)
           /\ c.role = "Host" => w.role = "Host"
      BY <2>4, <2>14, <2>15, <2>16, <2>17, ClosesMoves
    <2>. QED  BY <2>5, <2>6, <2>7, <2>18, Zenon DEF epoch
  <1>. QED  BY <1>1, <1>2, Zenon

\* A new round starts from no grants, at this instant.
LEMMA OpenRoundMoves ==
    ASSUME now \in Nat, NEW n \in Node, NEW s \in ElectionState, NEW r \in ElectionState,
           r.role # "Follower", Sane(n, r), FenceStep(s, r), Keeps(s, r), StandStep(s, r),
           r.role = "Host" => s.role = "Host" /\ r.lease_until = s.lease_until
    PROVE  /\ Moves(n, s, OpenRound(n, r, Stood(r)))
           /\ OpenRound(n, r, Stood(r)).role # "Follower"
           /\ Stood(OpenRound(n, r, Stood(r))) = Stood(r)
           /\ r.role = "Host" => OpenRound(n, r, Stood(r)).role = "Host"
  <1>. DEFINE o == [r EXCEPT !.round_sent_at = now, !.round_grants = {}, !.round_refused = {}]
  <1>1. CASE ~IsQuorum
    <2>1. RoundStep(n, s, r)  BY <1>1, Zenon DEF RoundStep
    <2>. QED  BY <1>1, <2>1, Zenon DEF OpenRound, Moves, LedgerStep
  <1>2. CASE IsQuorum
    <2>1. o \in ElectionState  BY Zenon DEF ElectionState
    <2>2. /\ o.role = r.role /\ o.highest_seen = r.highest_seen /\ o.epoch = r.epoch
          /\ o.host = r.host /\ o.claim = r.claim /\ o.lease_until = r.lease_until
          /\ o.granted = r.granted /\ o.grant_promise_until = r.grant_promise_until
          /\ o.round_sent_at = now /\ o.round_grants = {}
          /\ o.resigning = r.resigning /\ o.leaving = r.leaving
      BY Zenon DEF ElectionState
    <2>3. OpenRound(n, r, Stood(r)) = SelfGrant(n, o, Stood(r))  BY <1>2, Zenon DEF OpenRound
    <2>. HIDE DEF o
    <2>4. Stood(o) = Stood(r)  BY <2>2, Zenon DEF Stood
    <2>5. Sane(n, o)  BY <2>2 DEF Sane
    <2>6. FenceStep(s, o) /\ Keeps(s, o)  BY <2>2, Zenon DEF FenceStep, Keeps
    <2>7. RoundStep(n, s, o)  BY <2>2, <2>4, Zenon DEF RoundStep, StandStep, LeaseStep
    <2>8. Moves(n, s, o)  BY <2>5, <2>6, <2>7, Zenon DEF Moves, LedgerStep
    <2>9. /\ Moves(n, s, SelfGrant(n, o, Stood(o)))
          /\ SelfGrant(n, o, Stood(o)).role # "Follower"
          /\ Stood(SelfGrant(n, o, Stood(o))) = Stood(o)
          /\ o.role = "Host" => SelfGrant(n, o, Stood(o)).role = "Host"
      BY <2>1, <2>2, <2>6, <2>8, SelfGrantMoves, Zenon
    <2>. QED  BY <2>2, <2>3, <2>4, <2>9, Zenon
  <1>. QED  BY <1>1, <1>2, Zenon

\* The numbers of a node state.
LEMMA StateNat ==
    ASSUME NEW s \in ElectionState
    PROVE  /\ s.highest_seen \in Nat /\ s.epoch \in Nat /\ s.host \in Nat
           /\ s.claim[1] \in Nat /\ s.granted[1] \in Nat
  <1>1. s.host \in Node \cup {None}  BY Zenon DEF ElectionState
  <1>0. \A h \in Node \cup {None} : h \in Nat
    <2>1. None \in Nat  BY Zenon DEF None
    <2>2. Node \subseteq Nat  BY NodeAssumption, Zenon
    <2>. QED  BY <2>1, <2>2, Zenon
  <1>2. s.host \in Nat  BY <1>0, <1>1, Zenon
  <1>. QED  BY <1>2, Zenon DEF ElectionState, Pair

\* Abandoning a claim and demotion keep all but the role and the belief.
LEMMA DropsMove ==
    ASSUME NEW n \in Node, NEW s \in ElectionState, Sane(n, s)
    PROVE  Moves(n, s, Abandon(s)) /\ Moves(n, s, Demote(s))
  <1>1. Abandon(s) \in ElectionState /\ Demote(s) \in ElectionState  BY AbandonType, Zenon
  <1>2. ASSUME NEW t \in {Abandon(s), Demote(s)} PROVE Moves(n, s, t)
    <2>1. /\ t.role = "Follower" /\ t.highest_seen = s.highest_seen /\ t.epoch = s.epoch
          /\ t.host \in {s.host, None} /\ t.granted = s.granted
          /\ t.grant_promise_until = s.grant_promise_until
          /\ t.round_sent_at = s.round_sent_at /\ t.resigning = s.resigning
          /\ t.leaving = s.leaving /\ t \in ElectionState
      <3>1. CASE t = Abandon(s)  BY <1>1, <3>1, Zenon DEF Abandon, ElectionState
      <3>2. CASE t = Demote(s)  BY <1>1, <3>2, Zenon DEF Demote, ElectionState
      <3>. QED  BY <1>2, <3>1, <3>2, Zenon
    <2>2. FenceStep(s, t)  BY <2>1, StateNat DEF FenceStep
    <2>. QED  BY <2>1, <2>2, QuietMoves, Zenon DEF Keeps, Sane
  <1>. QED  BY <1>2, Zenon

-----------------------------------------------------------------------------
\* Every action obeys the law

\* A node's own frame of a claim for the pair it stands on.
LEMMA ClaimSends ==
    ASSUME now \in Nat, NEW n \in Node, NEW s, NEW t \in ElectionState, t.role # "Follower",
           NEW to \in SUBSET Node
    PROVE  /\ ClaimFrame(n, Stood(t), to) \in LeadFrame
           /\ SendStep(n, s, t, ClaimFrame(n, Stood(t), to))
  <1>. DEFINE f == ClaimFrame(n, Stood(t), to)
  <1>1. f.kind = "Claim" /\ f.from = n /\ f.at = now /\ f.epoch = Stood(t)
    BY Zenon DEF ClaimFrame, Frame
  <1>2. Stood(t) \in Nat  BY Zenon DEF Stood, ElectionState
  <1>3. f \in LeadFrame  BY <1>2, FrameType, Zenon DEF ClaimFrame
  <1>. HIDE DEF f
  <1>4. SendStep(n, s, t, f)  BY <1>1, Zenon DEF SendStep
  <1>. QED  BY <1>3, <1>4, Zenon DEF f

\* State frames say nothing the law speaks of.
LEMMA StateSends ==
    ASSUME NEW n, NEW s, NEW t, NEW e, NEW h, NEW to
    PROVE  /\ SendStep(n, s, t, Frame("State", e, h, n, to, now))
           /\ \A x : SendStep(n, s, t, StateFrame(n, x, to))
  BY Zenon DEF SendStep, StateFrame, Frame

\* Every tick obeys the law.
LEMMA TicksStep ==
    ASSUME TypeOK, NEW n \in Node, Sane(n, el[n]), Ticks(n)
    PROVE  NodeStep(n)
  <1>. DEFINE s == el[n]
  <1>0. now \in Nat /\ s \in ElectionState /\ Peers(n) \in SUBSET Node
    BY Zenon DEF TypeOK, Peers
  <1>n. /\ s.highest_seen \in Nat /\ s.epoch \in Nat /\ s.host \in Nat /\ s.claim[1] \in Nat
        /\ s.granted[1] \in Nat
    BY <1>0, StateNat, Zenon
  <1>i. FenceStep(s, s) /\ Keeps(s, s)  BY <1>n DEF FenceStep, Keeps
  <1>s. Moves(n, s, s)  BY <1>0, <1>i, QuietMoves, Zenon DEF Sane
  <1>1. CASE OpenClaim(n)
    <2>. DEFINE epoch == s.highest_seen + 1
                r == [s EXCEPT !.highest_seen = epoch, !.role = "Claimant",
                               !.claim = <<epoch, now + ActivationWindow>>]
                t == OpenRound(n, r, epoch)
                frames == IF t.role = "Claimant" THEN {ClaimFrame(n, epoch, Peers(n))} ELSE {}
    <2>1. epoch \in Nat /\ now + ActivationWindow \in Nat
      BY <1>0, TimeAssumption DEF ElectionState, ActivationWindow
    <2>2. /\ Tick(n, t, frames) /\ n \in setup.candidates
          /\ s.role = "Follower" /\ ~s.leaving
      BY <1>1, Zenon DEF OpenClaim, ClaimGuard
    <2>3. epoch > s.highest_seen  BY <1>n
    <2>. HIDE DEF epoch
    <2>4. /\ r \in ElectionState /\ r.role = "Claimant" /\ r.claim[1] = epoch
          /\ r.highest_seen = epoch /\ r.epoch = s.epoch /\ r.host = s.host
          /\ r.granted = s.granted /\ r.grant_promise_until = s.grant_promise_until
          /\ r.round_sent_at = s.round_sent_at /\ r.resigning = s.resigning
          /\ r.leaving = s.leaving
      BY <1>0, <2>1, Zenon DEF ElectionState
    <2>. HIDE DEF r
    <2>5. Stood(r) = epoch  BY <2>4, Zenon DEF Stood
    <2>6. Sane(n, r)  BY <1>n, <2>1, <2>2, <2>3, <2>4 DEF Sane
    <2>7. FenceStep(s, r) /\ Keeps(s, r) /\ StandStep(s, r)
      BY <1>n, <2>1, <2>2, <2>3, <2>4, <2>5 DEF FenceStep, Keeps, StandStep
    <2>8. Moves(n, s, t) /\ t.role # "Follower" /\ Stood(t) = epoch
      BY <1>0, <2>4, <2>5, <2>6, <2>7, OpenRoundMoves, Zenon
    <2>9. t \in ElectionState  BY <1>0, <2>1, <2>4, OpenRoundType, Zenon
    <2>. HIDE DEF t
    <2>10. frames \in SUBSET LeadFrame /\ \A f \in frames : SendStep(n, s, t, f)
      BY <1>0, <2>8, <2>9, ClaimSends, Zenon
    <2>. HIDE DEF frames
    <2>. QED  BY <2>2, <2>8, <2>9, <2>10, TickStep, Zenon
  <1>2. CASE IdleTick(n)
    <2>1. Tick(n, s, {})  BY <1>2, Zenon DEF IdleTick
    <2>. QED  BY <1>0, <1>s, <2>1, TickStep
  <1>3. CASE SettleClaim(n)
    <2>. DEFINE t == Activate(n, s, s.claim[1], now + Lease)
    <2>1. Tick(n, t, {}) /\ s.role = "Claimant" /\ ~IsQuorum  BY <1>3, Zenon DEF SettleClaim
    <2>2. t \in ElectionState
      BY <1>0, <1>n, TimeAssumption, ActivateType, SMTT(30)
    <2>3. /\ t.role = "Host" /\ t.epoch = s.claim[1] /\ t.host = n
          /\ t.highest_seen = Larger(s.highest_seen, s.claim[1])
          /\ t.granted = s.granted /\ t.grant_promise_until = s.grant_promise_until
          /\ t.round_sent_at = s.round_sent_at /\ t.resigning = s.resigning
          /\ t.leaving = s.leaving
      BY <1>0, Zenon DEF Activate, ElectionState
    <2>. HIDE DEF t
    <2>4. Sane(n, t)  BY <1>n, <2>1, <2>3, Zenon DEF Sane, Larger
    <2>5. FenceStep(s, t)  BY <1>n, <2>1, <2>3 DEF Sane, FenceStep, Larger
    <2>6. RoundStep(n, s, t)  BY <2>1, <2>3, Zenon DEF RoundStep, StandStep, Stood
    <2>7. Moves(n, s, t)  BY <2>3, <2>4, <2>5, <2>6, Zenon DEF Moves, LedgerStep, Keeps
    <2>. QED  BY <2>1, <2>2, <2>7, TickStep
  <1>4. CASE PressClaim(n)
    <2>. DEFINE epoch == s.claim[1]
                t == RetrySelfGrant(n, s, epoch)
                frames == IF t.role = "Claimant" /\ Due(n)
                          THEN {ClaimFrame(n, epoch, Peers(n))} ELSE {}
    <2>1. Tick(n, t, frames) /\ s.role = "Claimant"  BY <1>4, Zenon DEF PressClaim
    <2>2. epoch = Stood(s)  BY <2>1, Zenon DEF Stood
    <2>3. t \in ElectionState  BY <1>0, <1>n, SelfGrantType, Zenon DEF RetrySelfGrant
    <2>. HIDE DEF epoch
    <2>4. Moves(n, s, t) /\ t.role # "Follower" /\ Stood(t) = epoch
      BY <1>0, <1>i, <1>s, <2>1, <2>2, SelfGrantMoves, Zenon DEF RetrySelfGrant
    <2>. HIDE DEF t
    <2>5. frames \in SUBSET LeadFrame /\ \A f \in frames : SendStep(n, s, t, f)
      BY <1>0, <2>3, <2>4, ClaimSends, Zenon
    <2>. HIDE DEF frames
    <2>. QED  BY <2>1, <2>3, <2>4, <2>5, TickStep, Zenon
  <1>5. ASSUME NEW top \in BOOLEAN, GiveUpClaim(n, top) \/ LapseLease(n, top)
        PROVE  NodeStep(n)
    <2>1. Tick(n, Abandon(s), {}) \/ Tick(n, Demote(s), {})
      BY <1>5, Zenon DEF GiveUpClaim, LapseLease
    <2>2. /\ Moves(n, s, Abandon(s)) /\ Moves(n, s, Demote(s))
          /\ Abandon(s) \in ElectionState /\ Demote(s) \in ElectionState
      BY <1>0, DropsMove, AbandonType, Zenon
    <2>. QED  BY <2>1, <2>2, TickStep
  <1>6. ASSUME NEW top \in BOOLEAN, HostTick(n, top) PROVE NodeStep(n)
    <2>. DEFINE r == IF top /\ ~IsQuorum THEN [s EXCEPT !.lease_until = now + Lease] ELSE s
                renews == top /\ IsQuorum /\ Due(n)
                t == IF renews THEN OpenRound(n, r, r.epoch) ELSE r
                frames == IF ~Due(n) THEN {}
                          ELSE {StateFrame(n, t, Peers(n))} \cup
                               (IF renews THEN {ClaimFrame(n, t.epoch, Voters \ {n})} ELSE {})
    <2>1. Tick(n, t, frames) /\ s.role = "Host"  BY <1>6, Zenon DEF HostTick
    <2>2. now + Lease \in Nat  BY <1>0, TimeAssumption
    <2>3. /\ r \in ElectionState /\ r.role = "Host" /\ r.epoch = s.epoch /\ r.host = s.host
          /\ r.highest_seen = s.highest_seen /\ r.claim = s.claim
          /\ r.granted = s.granted /\ r.grant_promise_until = s.grant_promise_until
          /\ r.round_sent_at = s.round_sent_at /\ r.round_grants = s.round_grants
          /\ r.resigning = s.resigning /\ r.leaving = s.leaving
          /\ IsQuorum => r.lease_until = s.lease_until
      BY <1>0, <2>1, <2>2, ZenonT(30) DEF ElectionState
    <2>. HIDE DEF r
    <2>4. Stood(r) = s.epoch /\ Stood(s) = s.epoch  BY <2>1, <2>3, Zenon DEF Stood
    <2>5. FenceStep(s, r) /\ Keeps(s, r)  BY <1>i, <2>3, Zenon DEF FenceStep, Keeps
    <2>6. Moves(n, s, r)
      BY <1>0, <2>1, <2>3, <2>4, <2>5, QuietMoves, Zenon DEF Sane
    <2>7. t \in ElectionState  BY <1>0, <1>n, <2>3, OpenRoundType, Zenon
    <2>8. Moves(n, s, t) /\ t.role = "Host"
      <3>1. CASE ~renews  BY <2>3, <2>6, <3>1, Zenon
      <3>2. CASE renews
        <4>1. StandStep(s, r)  BY <2>1, <2>4, Zenon DEF StandStep
        <4>2. Sane(n, r)  BY <2>6, Zenon DEF Moves
        <4>3. t = OpenRound(n, r, Stood(r))  BY <2>3, <2>4, <3>2, Zenon
        <4>4. r.role = "Host" => s.role = "Host" /\ r.lease_until = s.lease_until
          BY <2>1, <2>3, <3>2, Zenon
        <4>5. Moves(n, s, OpenRound(n, r, Stood(r))) /\ OpenRound(n, r, Stood(r)).role = "Host"
          BY <1>0, <2>3, <2>5, <4>1, <4>2, <4>4, OpenRoundMoves, Zenon
        <4>. QED  BY <4>3, <4>5, Zenon
      <3>. QED  BY <3>1, <3>2, Zenon
    <2>. HIDE DEF t, renews
    <2>9. t.epoch = Stood(t) /\ Voters \ {n} \in SUBSET Node
      BY <2>8, NodeAssumption, Zenon DEF Stood
    <2>10. /\ ClaimFrame(n, t.epoch, Voters \ {n}) \in LeadFrame
           /\ SendStep(n, s, t, ClaimFrame(n, t.epoch, Voters \ {n}))
      BY <1>0, <2>7, <2>8, <2>9, ClaimSends, Zenon
    <2>11. /\ StateFrame(n, t, Peers(n)) \in LeadFrame
           /\ SendStep(n, s, t, StateFrame(n, t, Peers(n)))
      BY <1>0, <2>7, StateFrameType, StateSends, Zenon
    <2>12. frames \in SUBSET LeadFrame /\ \A f \in frames : SendStep(n, s, t, f)
      BY <2>10, <2>11, Zenon
    <2>. HIDE DEF frames
    <2>. QED  BY <2>1, <2>7, <2>8, <2>12, TickStep, Zenon
  <1>. QED  BY <1>1, <1>2, <1>3, <1>4, <1>5, <1>6, Zenon DEF Ticks

\* A received claim obeys the law: the vote is for the claim, the floor answer
\* leaves the ledger alone.
LEMMA ClaimStep ==
    ASSUME TypeOK, NEW n \in Node, Sane(n, el[n]), NEW f \in Receivable(n), RecvClaim(n, f)
    PROVE  NodeStep(n)
  <1>. DEFINE o == el[n]
              s == [o EXCEPT !.highest_seen = Larger(@, f.epoch)]
              stale == /\ f.epoch < s.epoch \/ (f.epoch = s.epoch /\ s.host # None)
                       /\ ~(IsQuorum /\ s.epoch = f.epoch /\ s.host = f.who)
              t == RecordGrant(n, s, f.epoch, f.who)
              outranked == s.role = "Claimant" /\ Outranks(<<f.epoch, f.who>>, <<s.claim[1], n>>)
              taught == IF stale THEN {StateFrame(n, s, {f.from})} ELSE {}
              answer == IF Grants(n, s, f.epoch, f.who) \/ FloorAnswers(n, s, f.epoch, f.who)
                        THEN {GrantFrame(n, t.granted, f)} ELSE {}
              u == IF outranked THEN Abandon(t) ELSE t
  <1>0. now \in Nat /\ o \in ElectionState /\ f \in LeadFrame /\ f \in net
    BY Zenon DEF TypeOK, Receivable
  <1>1. Commit(n, u, taught \cup answer) /\ f.kind = "Claim"  BY Zenon DEF RecvClaim
  <1>2. /\ f.epoch \in Nat /\ f.who = f.from /\ f.from \in Node /\ f.who \in Node \cup {None}
        /\ {f.from} \in SUBSET Node /\ f.at \in Nat
    BY <1>0, <1>1, Zenon DEF LeadFrame
  <1>3. s \in ElectionState  BY <1>0, <1>2, SeenType, Zenon
  <1>4. /\ s.highest_seen = Larger(o.highest_seen, f.epoch)
        /\ s.role = o.role /\ s.epoch = o.epoch /\ s.host = o.host /\ s.claim = o.claim
        /\ s.lease_until = o.lease_until /\ s.granted = o.granted
        /\ s.grant_promise_until = o.grant_promise_until
        /\ s.round_sent_at = o.round_sent_at /\ s.round_grants = o.round_grants
        /\ s.resigning = o.resigning /\ s.leaving = o.leaving
    BY <1>0, Zenon DEF ElectionState
  <1>. HIDE DEF s, stale, outranked
  <1>5. t \in ElectionState  BY <1>0, <1>2, <1>3, RecordGrantType, Zenon
  <1>6. /\ t.highest_seen = s.highest_seen
        /\ t.role = s.role /\ t.epoch = s.epoch /\ t.host = s.host /\ t.claim = s.claim
        /\ t.lease_until = s.lease_until
        /\ t.round_sent_at = s.round_sent_at /\ t.round_grants = s.round_grants
        /\ t.resigning = s.resigning /\ t.leaving = s.leaving
    BY <1>3, Zenon DEF RecordGrant, ElectionState
  <1>7. /\ Grants(n, s, f.epoch, f.who) =>
            t.granted = <<f.epoch, f.from>> /\ t.grant_promise_until = now + Lease
        /\ ~Grants(n, s, f.epoch, f.who) =>
            t.granted = s.granted /\ t.grant_promise_until = s.grant_promise_until
    BY <1>2, <1>3, Zenon DEF RecordGrant, ElectionState
  <1>. HIDE DEF t
  <1>8. u \in ElectionState
    BY <1>5, AbandonType, Zenon
  <1>9. /\ u.highest_seen = t.highest_seen /\ u.epoch = t.epoch /\ u.host = t.host
        /\ u.granted = t.granted /\ u.grant_promise_until = t.grant_promise_until
        /\ u.lease_until = t.lease_until
        /\ u.round_sent_at = t.round_sent_at /\ u.round_grants = t.round_grants
        /\ u.resigning = t.resigning /\ u.leaving = t.leaving
        /\ u.role = "Follower" \/ (u.role = t.role /\ u.claim = t.claim)
    BY <1>5, Zenon DEF Abandon, ElectionState
  <1>. HIDE DEF u
  <1>10. ASSUME Grants(n, s, f.epoch, f.who) PROVE Votes(n, o, u)
    <2>1. IsQuorum /\ n \in Voters /\ (Fresh(s, f.epoch, f.who) \/ Repeat(s, f.epoch, f.who))
      BY <1>10, Zenon DEF Grants
    <2>2. u.granted = <<f.epoch, f.from>> /\ u.grant_promise_until = now + Lease
      BY <1>7, <1>9, <1>10, Zenon
    <2>3. \/ o.granted = u.granted
          \/ f.epoch > o.granted[1] /\ (o.granted[2] = f.from \/ now >= o.grant_promise_until)
      BY <1>2, <1>4, <2>1, <2>2, Zenon DEF Fresh, Repeat
    <2>4. u.granted[1] = f.epoch /\ u.granted[2] = f.from  BY <2>2
    <2>. QED  BY <1>0, <1>1, <2>1, <2>2, <2>3, <2>4, Zenon DEF Votes
  <1>11. ~Grants(n, s, f.epoch, f.who) => Keeps(o, u)
    BY <1>4, <1>7, <1>9, Zenon DEF Keeps
  <1>12. FenceStep(o, u)
    BY <1>0, <1>2, <1>4, <1>6, <1>9, StateNat DEF FenceStep, Larger
  <1>13. Sane(n, u)
    <2>1. /\ o.highest_seen \in Nat /\ o.epoch \in Nat /\ o.granted[1] \in Nat /\ o.claim[1] \in Nat
      BY <1>0, StateNat, Zenon
    <2>2. u.highest_seen >= u.epoch
      BY <1>2, <1>4, <1>6, <1>9, <2>1 DEF Sane, Larger
    <2>3. u.highest_seen >= u.granted[1]
      BY <1>2, <1>4, <1>6, <1>7, <1>9, <2>1 DEF Sane, Larger
    <2>4. u.role = "Claimant" => u.claim[1] > u.epoch /\ u.claim[1] <= u.highest_seen
      BY <1>2, <1>4, <1>6, <1>9, <2>1 DEF Sane, Larger
    <2>5. u.grant_promise_until <= now + Lease
      BY <1>0, <1>4, <1>7, <1>9, TimeAssumption DEF Sane
    <2>. QED  BY <1>4, <1>6, <1>9, <2>2, <2>3, <2>4, <2>5, Zenon DEF Sane
  <1>14. RoundStep(n, o, u)
    <2>1. u.role # "Follower" => Stood(u) = Stood(o) /\ u.role = o.role
      BY <1>4, <1>6, <1>9, Zenon DEF Stood
    <2>2. u.round_grants = o.round_grants /\ u.round_sent_at = o.round_sent_at
          /\ u.lease_until = o.lease_until
      BY <1>4, <1>6, <1>9, Zenon
    <2>. QED  BY <2>1, <2>2, Zenon DEF RoundStep, StandStep, CountStep, LeaseStep
  <1>15. Moves(n, o, u)  BY <1>10, <1>11, <1>12, <1>13, <1>14, Zenon DEF Moves, LedgerStep
  <1>16. taught \in SUBSET LeadFrame /\ \A g \in taught : SendStep(n, o, u, g)
    <2>1. StateFrame(n, s, {f.from}) \in LeadFrame  BY <1>0, <1>2, <1>3, StateFrameType, Zenon
    <2>2. SendStep(n, o, u, StateFrame(n, s, {f.from}))  BY StateSends, Zenon
    <2>. QED  BY <2>1, <2>2, Zenon
  <1>17. ASSUME Grants(n, s, f.epoch, f.who) \/ FloorAnswers(n, s, f.epoch, f.who)
         PROVE  /\ GrantFrame(n, t.granted, f) \in LeadFrame
                /\ SendStep(n, o, u, GrantFrame(n, t.granted, f))
    <2>. DEFINE g == GrantFrame(n, t.granted, f)
    <2>1. /\ t.granted[1] \in Nat /\ t.granted[2] \in Node \cup {None}
          /\ t.granted = <<t.granted[1], t.granted[2]>>
      BY <1>5 DEF ElectionState, Pair
    <2>2. g \in LeadFrame
      BY <1>2, <2>1, FrameType, Zenon DEF GrantFrame
    <2>3. /\ g.kind = "Grant" /\ g.from = n /\ g.epoch = t.granted[1] /\ g.who = t.granted[2]
          /\ g.to = {f.from} /\ g.at = f.at
      BY Zenon DEF GrantFrame, Frame
    <2>. HIDE DEF g
    <2>4. IsQuorum /\ n \in Voters  BY <1>17, Zenon DEF Grants, FloorAnswers
    <2>5. <<g.epoch, g.who>> = u.granted  BY <1>9, <2>1, <2>3, Zenon
    <2>6. u.granted # NoPair
      <3>1. <<f.epoch, f.from>> # NoPair  BY <1>2, NodeAssumption, Zenon DEF NoPair
      <3>. QED  BY <1>7, <1>9, <1>17, <3>1, Zenon DEF FloorAnswers
    <2>7. \/ Votes(n, o, u)
          \/ /\ Keeps(o, u) /\ f.from # n
             /\ f.epoch <= u.granted[1] /\ <<f.epoch, f.from>> # u.granted
      <3>1. CASE Grants(n, s, f.epoch, f.who)  BY <1>10, <3>1, Zenon
      <3>2. CASE ~Grants(n, s, f.epoch, f.who)
        BY <1>2, <1>7, <1>9, <1>11, <1>17, <3>2, Zenon DEF FloorAnswers
      <3>. QED  BY <3>1, <3>2, Zenon
    <2>8. SendStep(n, o, u, g)
      BY <1>0, <1>1, <2>3, <2>4, <2>5, <2>6, <2>7, Zenon DEF SendStep
    <2>. QED  BY <2>2, <2>8, Zenon DEF g
  <1>18. answer \in SUBSET LeadFrame /\ \A g \in answer : SendStep(n, o, u, g)
    BY <1>17, Zenon
  <1>. DEFINE frames == taught \cup answer
  <1>19. frames \in SUBSET LeadFrame /\ \A g \in frames : SendStep(n, o, u, g)
    BY <1>16, <1>18, Zenon
  <1>20. Commit(n, u, frames)  BY <1>1, Zenon
  <1>. HIDE DEF frames
  <1>. QED  BY <1>8, <1>15, <1>19, <1>20, Zenon DEF NodeStep

\* A received state frame obeys the law: the fence moves only to a pair that
\* outranks the node's, and a host then stands down.
LEMMA StateStep ==
    ASSUME TypeOK, NEW n \in Node, Sane(n, el[n]), NEW f \in Receivable(n), RecvState(n, f)
    PROVE  NodeStep(n)
  <1>. DEFINE o == el[n]
              pair == <<f.epoch, f.who>>
              mine == <<o.epoch, o.host>>
              receipt == f.epoch >= o.resigning[1] /\ pair # <<o.resigning[1], n>>
              s == [o EXCEPT !.resigning = <<@[1], IF receipt THEN @[2] \ {f.from} ELSE @[2]>>]
  <1>0. now \in Nat /\ o \in ElectionState /\ f \in LeadFrame
    BY Zenon DEF TypeOK, Receivable
  <1>1. /\ f.epoch \in Nat /\ f.who \in Node \cup {None} /\ {f.from} \in SUBSET Node
    BY <1>0, Zenon DEF LeadFrame
  <1>n. /\ o.highest_seen \in Nat /\ o.epoch \in Nat /\ o.host \in Nat /\ o.claim[1] \in Nat
    BY <1>0, StateNat, Zenon
  <1>2. \/ Commit(n, LearnSelfNamed(s, f.epoch), {})
        \/ Outranks(pair, mine) /\ Commit(n, Adopt(s, f.epoch, f.who), {})
        \/ Commit(n, s, {StateFrame(n, s, {f.from})})
        \/ Commit(n, s, {})
    BY Zenon DEF RecvState
  <1>. HIDE DEF receipt
  <1>3. s \in ElectionState
    <2>1. <<o.resigning[1], IF receipt THEN o.resigning[2] \ {f.from} ELSE o.resigning[2]>>
              \in Nat \X SUBSET Voters
      BY <1>0, Zenon DEF ElectionState
    <2>. QED  BY <1>0, <2>1 DEF ElectionState
  <1>4. /\ s.role = o.role /\ s.epoch = o.epoch /\ s.host = o.host /\ s.claim = o.claim
        /\ s.highest_seen = o.highest_seen /\ s.lease_until = o.lease_until
        /\ s.granted = o.granted /\ s.grant_promise_until = o.grant_promise_until
        /\ s.round_sent_at = o.round_sent_at /\ s.round_grants = o.round_grants
        /\ s.leaving = o.leaving /\ s.resigning[2] \subseteq o.resigning[2]
    BY <1>0, Zenon DEF ElectionState
  <1>. HIDE DEF s
  <1>5. Stood(s) = Stood(o)  BY <1>4, Zenon DEF Stood
  <1>6. Moves(n, o, s)
    <2>1. FenceStep(o, s)  BY <1>4, <1>n DEF FenceStep
    <2>. QED  BY <1>0, <1>3, <1>4, <1>5, <2>1, QuietMoves, Zenon DEF Keeps, Sane
  \* What adopting and learning leave alone, and whether the node stands down.
  <1>7. ASSUME NEW t \in {Adopt(s, f.epoch, f.who), LearnSelfNamed(s, f.epoch)}
        PROVE  /\ t.lease_until = s.lease_until
               /\ t.granted = s.granted /\ t.grant_promise_until = s.grant_promise_until
               /\ t.round_sent_at = s.round_sent_at /\ t.round_grants = s.round_grants
               /\ t.leaving = s.leaving /\ t.resigning = s.resigning
               /\ t.highest_seen = Larger(s.highest_seen, f.epoch)
               /\ \/ t.role = "Follower"
                  \/ /\ t.role = s.role /\ t.claim = s.claim
                     /\ t.epoch # s.epoch \/ t.host # s.host =>
                            s.role # "Host" /\ (s.claim = NoPair \/ s.claim[1] > t.epoch)
    <2>1. CASE t = Adopt(s, f.epoch, f.who)
      <3>. DEFINE a == [s EXCEPT !.epoch = f.epoch, !.host = f.who,
                                 !.highest_seen = Larger(@, f.epoch)]
      <3>1. /\ a.lease_until = s.lease_until /\ a.epoch = f.epoch
            /\ a.granted = s.granted /\ a.grant_promise_until = s.grant_promise_until
            /\ a.round_sent_at = s.round_sent_at /\ a.round_grants = s.round_grants
            /\ a.leaving = s.leaving /\ a.resigning = s.resigning
            /\ a.highest_seen = Larger(s.highest_seen, f.epoch)
            /\ a.role = s.role /\ a.claim = s.claim
        BY <1>3, Zenon DEF ElectionState
      <3>2. a \in ElectionState  BY <1>1, <1>3, ZenonT(30) DEF ElectionState, Larger
      <3>3. t = StandDown(a, f.epoch)  BY <2>1, Zenon DEF Adopt
      <3>. HIDE DEF a
      <3>4. CASE t = a /\ s.role # "Host" /\ (s.claim = NoPair \/ s.claim[1] > f.epoch)
        BY <3>1, <3>4, Zenon
      <3>5. CASE t = Abandon(a)
        BY <3>1, <3>2, <3>5, Zenon DEF Abandon, ElectionState
      <3>6. s.claim[1] \in Nat  BY <1>3, StateNat, Zenon
      <3>. QED  BY <1>1, <3>1, <3>3, <3>4, <3>5, <3>6 DEF StandDown
    <2>2. CASE t = LearnSelfNamed(s, f.epoch)
      <3>. DEFINE b == [s EXCEPT !.highest_seen = Larger(@, f.epoch)]
                  a == [b EXCEPT !.epoch = f.epoch, !.host = None]
      <3>1. b \in ElectionState  BY <1>1, <1>3, SeenType, Zenon
      <3>2. /\ b.lease_until = s.lease_until /\ b.epoch = s.epoch /\ b.host = s.host
            /\ b.granted = s.granted /\ b.grant_promise_until = s.grant_promise_until
            /\ b.round_sent_at = s.round_sent_at /\ b.round_grants = s.round_grants
            /\ b.leaving = s.leaving /\ b.resigning = s.resigning
            /\ b.highest_seen = Larger(s.highest_seen, f.epoch)
            /\ b.role = s.role /\ b.claim = s.claim
        BY <1>3, Zenon DEF ElectionState
      <3>3. t = b \/ t = StandDown(a, f.epoch)  BY <2>2, Zenon DEF LearnSelfNamed
      <3>. HIDE DEF b
      <3>4. /\ a.lease_until = s.lease_until /\ a.epoch = f.epoch
            /\ a.granted = s.granted /\ a.grant_promise_until = s.grant_promise_until
            /\ a.round_sent_at = s.round_sent_at /\ a.round_grants = s.round_grants
            /\ a.leaving = s.leaving /\ a.resigning = s.resigning
            /\ a.highest_seen = Larger(s.highest_seen, f.epoch)
            /\ a.role = s.role /\ a.claim = s.claim
        BY <3>1, <3>2, Zenon DEF ElectionState
      <3>5. a \in ElectionState  BY <1>1, <3>1, Zenon DEF ElectionState
      <3>. HIDE DEF a
      <3>6. CASE t = b  BY <3>2, <3>6, Zenon
      <3>7. CASE t = a /\ s.role # "Host" /\ (s.claim = NoPair \/ s.claim[1] > f.epoch)
        BY <3>4, <3>7, Zenon
      <3>8. CASE t = Abandon(a)
        BY <3>4, <3>5, <3>8, Zenon DEF Abandon, ElectionState
      <3>9. s.claim[1] \in Nat  BY <1>3, StateNat, Zenon
      <3>. QED  BY <1>1, <3>3, <3>4, <3>6, <3>7, <3>8, <3>9 DEF StandDown
    <2>. QED  BY <1>7, <2>1, <2>2, Zenon
  <1>8. LET t == Adopt(s, f.epoch, f.who) IN t.epoch = f.epoch /\ t.host = f.who
    BY <1>3, Zenon DEF Adopt, StandDown, Abandon, ElectionState
  <1>9. LET t == LearnSelfNamed(s, f.epoch) IN
            \/ t.epoch = s.epoch /\ t.host = s.host
            \/ t.epoch = f.epoch /\ ~(f.epoch <= s.epoch) /\ t.host = None
    BY <1>3, Zenon DEF LearnSelfNamed, StandDown, Abandon, ElectionState
  <1>10. Adopt(s, f.epoch, f.who) \in ElectionState /\ LearnSelfNamed(s, f.epoch) \in ElectionState
    BY <1>1, <1>3, AdoptType, LearnSelfNamedType, Zenon
  <1>11. ASSUME NEW t \in ElectionState,
                t = LearnSelfNamed(s, f.epoch)
                \/ (t = Adopt(s, f.epoch, f.who) /\ Outranks(pair, mine))
         PROVE  Moves(n, o, t)
    <2>1. /\ t.lease_until = s.lease_until
          /\ t.granted = s.granted /\ t.grant_promise_until = s.grant_promise_until
          /\ t.round_sent_at = s.round_sent_at /\ t.round_grants = s.round_grants
          /\ t.leaving = s.leaving /\ t.resigning = s.resigning
          /\ t.highest_seen = Larger(s.highest_seen, f.epoch)
          /\ \/ t.role = "Follower"
             \/ /\ t.role = s.role /\ t.claim = s.claim
                /\ t.epoch # s.epoch \/ t.host # s.host =>
                       s.role # "Host" /\ (s.claim = NoPair \/ s.claim[1] > t.epoch)
      BY <1>7, <1>11, Zenon
    <2>2. \/ t.epoch = o.epoch /\ t.host = o.host
          \/ t.epoch = f.epoch /\ f.epoch > o.epoch
          \/ t.epoch = f.epoch /\ f.epoch = o.epoch /\ t.host = f.who /\ f.who > o.host
      <3>1. CASE t = LearnSelfNamed(s, f.epoch)  BY <1>1, <1>n, <1>4, <1>9, <3>1
      <3>2. CASE t = Adopt(s, f.epoch, f.who) /\ Outranks(pair, mine)
        BY <1>8, <3>2, Zenon DEF Outranks
      <3>. QED  BY <1>11, <3>1, <3>2, Zenon
    <2>3. FenceStep(o, t)
      <3>1. t.host \in Nat /\ t.epoch \in Nat  BY StateNat, Zenon
      <3>2. t.epoch >= o.epoch /\ t.highest_seen >= o.highest_seen
        BY <1>1, <1>n, <1>4, <2>1, <2>2 DEF Larger
      <3>3. t.epoch = o.epoch => t.host = o.host \/ t.host > o.host
        BY <1>1, <1>n, <2>2
      <3>. QED  BY <1>n, <1>4, <2>1, <3>1, <3>2, <3>3 DEF FenceStep
    <2>4. t.highest_seen >= t.epoch
      BY <1>1, <1>n, <1>4, <2>1, <2>2 DEF Larger, Sane
    <2>5. Keeps(o, t) /\ t.round_sent_at = o.round_sent_at /\ t.leaving = o.leaving
          /\ t.resigning[2] \subseteq o.resigning[2]
      BY <1>4, <2>1, Zenon DEF Keeps
    <2>6. ASSUME t.role # "Follower"
          PROVE  /\ t.role = o.role /\ Stood(t) = Stood(o) /\ t.round_grants = o.round_grants
                 /\ t.lease_until = o.lease_until
                 /\ t.role = "Claimant" => t.claim[1] > t.epoch
      <3>1. t.role = o.role /\ t.claim = o.claim  BY <1>4, <2>1, <2>6, Zenon
      <3>2. CASE t.epoch = o.epoch /\ t.host = o.host
        BY <1>4, <2>1, <3>1, <3>2, Zenon DEF Stood, Sane
      <3>3. CASE t.epoch # o.epoch \/ t.host # o.host
        <4>1. o.role # "Host" /\ (o.claim = NoPair \/ o.claim[1] > t.epoch)
          BY <1>4, <2>1, <2>6, <3>3, Zenon
        <4>2. o.role = "Claimant" => o.claim # NoPair
          <5>1. o.role = "Claimant" => o.claim[1] > 0  BY <1>n DEF Sane
          <5>. QED  BY <5>1 DEF NoPair
        <4>. QED  BY <1>4, <2>1, <3>1, <4>1, <4>2, Zenon DEF Stood
      <3>. QED  BY <3>2, <3>3, Zenon
    <2>. QED  BY <1>0, <1>11, <2>3, <2>4, <2>5, <2>6, QuietMoves, Zenon
  <1>12. /\ StateFrame(n, s, {f.from}) \in LeadFrame
         /\ SendStep(n, o, s, StateFrame(n, s, {f.from}))
    BY <1>0, <1>1, <1>3, StateFrameType, StateSends, Zenon
  <1>13. CASE Commit(n, LearnSelfNamed(s, f.epoch), {})
    BY <1>10, <1>11, <1>13 DEF NodeStep
  <1>14. CASE Outranks(pair, mine) /\ Commit(n, Adopt(s, f.epoch, f.who), {})
    BY <1>10, <1>11, <1>14 DEF NodeStep
  <1>15. CASE Commit(n, s, {StateFrame(n, s, {f.from})})
    <2>. DEFINE frames == {StateFrame(n, s, {f.from})}
    <2>1. frames \in SUBSET LeadFrame /\ \A g \in frames : SendStep(n, o, s, g)
      BY <1>12, Zenon
    <2>2. Commit(n, s, frames)  BY <1>15, Zenon
    <2>. HIDE DEF frames
    <2>. QED  BY <1>3, <1>6, <2>1, <2>2, Zenon DEF NodeStep
  <1>16. CASE Commit(n, s, {})
    BY <1>3, <1>6, <1>16 DEF NodeStep
  <1>. QED  BY <1>2, <1>13, <1>14, <1>15, <1>16, Zenon

\* A received grant obeys the law: it counts toward the standing pair only.
LEMMA GrantStep ==
    ASSUME TypeOK, NEW n \in Node, Sane(n, el[n]), NEW f \in Receivable(n), RecvGrant(n, f)
    PROVE  NodeStep(n)
  <1>. DEFINE o == el[n]
              s == LearnGrantedEpoch(n, o, f)
              standing == f.who = n /\ \/ s.role = "Claimant" /\ s.claim[1] = f.epoch
                                       \/ s.role = "Host" /\ s.epoch = f.epoch
              t == [s EXCEPT !.round_grants = @ \cup {f.from}]
              w == CloseRound(n, t, f.epoch)
  <1>0. now \in Nat /\ o \in ElectionState /\ f \in LeadFrame
    BY Zenon DEF TypeOK, Receivable
  <1>1. /\ f.kind = "Grant" /\ f.from \in Voters
        /\ Commit(n, IF standing THEN w ELSE s, {})
    BY Zenon DEF RecvGrant
  <1>2. f.epoch \in Nat  BY <1>0, Zenon DEF LeadFrame
  <1>n. /\ o.highest_seen \in Nat /\ o.epoch \in Nat /\ o.host \in Nat
    BY <1>0, StateNat, Zenon
  <1>3. s \in ElectionState  BY <1>0, <1>1, LearnGrantedEpochType, Zenon
  <1>4. /\ s.epoch = o.epoch /\ s.host = o.host /\ s.lease_until = o.lease_until
        /\ s.highest_seen = Larger(o.highest_seen, f.epoch)
        /\ s.granted = o.granted /\ s.grant_promise_until = o.grant_promise_until
        /\ s.round_sent_at = o.round_sent_at /\ s.round_grants = o.round_grants
        /\ s.leaving = o.leaving /\ s.resigning = o.resigning
        /\ s.role = "Follower" \/ (s.role = o.role /\ s.claim = o.claim)
    BY <1>0, Zenon DEF LearnGrantedEpoch, Abandon, ElectionState
  <1>. HIDE DEF s
  <1>5. Moves(n, o, s)
    <2>1. FenceStep(o, s) /\ s.highest_seen >= s.epoch
      BY <1>2, <1>n, <1>4 DEF FenceStep, Larger, Sane
    <2>2. s.role # "Follower" => Stood(s) = Stood(o)  BY <1>4, Zenon DEF Stood
    <2>. QED  BY <1>0, <1>3, <1>4, <2>1, <2>2, QuietMoves, Zenon DEF Keeps, Sane
  <1>6. CASE ~standing
    <2>1. Commit(n, s, {})  BY <1>1, <1>6, Zenon
    <2>. QED  BY <1>3, <1>5, <2>1 DEF NodeStep
  <1>7. CASE standing
    <2>1. s.role # "Follower" /\ Stood(s) = f.epoch /\ f.who = n  BY <1>7, Zenon DEF Stood
    <2>2. Commit(n, w, {})  BY <1>1, <1>7, Zenon
    <2>. HIDE DEF standing
    <2>3. t \in ElectionState  BY <1>1, <1>3, Zenon DEF ElectionState
    <2>4. /\ t.role = s.role /\ t.epoch = s.epoch /\ t.host = s.host /\ t.claim = s.claim
          /\ t.highest_seen = s.highest_seen /\ t.lease_until = s.lease_until
          /\ t.granted = s.granted /\ t.grant_promise_until = s.grant_promise_until
          /\ t.round_sent_at = s.round_sent_at /\ t.round_grants = s.round_grants \cup {f.from}
          /\ t.leaving = s.leaving /\ t.resigning = s.resigning
      BY <1>3, Zenon DEF ElectionState
    <2>. HIDE DEF t
    <2>5. Stood(t) = f.epoch  BY <2>1, <2>4, Zenon DEF Stood
    <2>6. Sane(n, t) /\ FenceStep(o, t)  BY <1>5, <2>4, Zenon DEF Moves, Sane, FenceStep
    <2>7. Keeps(o, t)  BY <1>4, <2>4, Zenon DEF Keeps
    <2>8. o.role # "Follower" /\ t.role = o.role /\ StandStep(o, t)
      BY <1>4, <2>1, <2>4, <2>5, Zenon DEF StandStep, Stood
    <2>9. ASSUME NEW v \in t.round_grants PROVE CountStep(n, o, t, v)
      <3>1. CASE v = f.from  BY <1>1, <2>1, <2>5, <3>1, Zenon DEF CountStep
      <3>2. CASE v \in s.round_grants  BY <1>4, <2>4, <2>8, <3>2, Zenon DEF CountStep
      <3>. QED  BY <2>4, <3>1, <3>2, Zenon
    <2>10. RoundStep(n, o, t)
      BY <1>4, <2>4, <2>8, <2>9, Zenon DEF RoundStep, LeaseStep
    <2>11. Moves(n, o, t)  BY <2>6, <2>7, <2>10, Zenon DEF Moves, LedgerStep
    <2>12. Closes(n, t, w) /\ w \in ElectionState
      BY <1>2, <2>1, <2>3, <2>4, <2>5, CloseRoundCloses, CloseRoundType, Zenon
    <2>. HIDE DEF w
    <2>13. Moves(n, o, w)
      BY <1>0, <2>1, <2>3, <2>4, <2>11, <2>12, ClosesMoves, Zenon
    <2>. QED  BY <2>2, <2>12, <2>13 DEF NodeStep
  <1>. QED  BY <1>6, <1>7, Zenon

\* Forgetting the host, with a promise that may end early and a fence that may
\* rise, keeps the fence relation and a node's sanity.
LEMMA ForgetsHost ==
    ASSUME NEW n \in Node, now \in Nat, NEW s \in ElectionState, NEW t \in ElectionState, Sane(n, s),
           t.role = s.role, t.epoch = s.epoch, t.claim = s.claim, t.granted = s.granted,
           t.round_sent_at = s.round_sent_at, t.leaving = s.leaving, t.resigning = s.resigning,
           t.host \in {s.host, None}, t.highest_seen >= s.highest_seen,
           t.grant_promise_until <= s.grant_promise_until
    PROVE  FenceStep(s, t) /\ Sane(n, t)
  <1>1. /\ s.highest_seen \in Nat /\ s.epoch \in Nat /\ s.host \in Nat
        /\ s.claim[1] \in Nat /\ s.granted[1] \in Nat /\ t.highest_seen \in Nat
    BY StateNat, Zenon
  <1>2. t.grant_promise_until <= now + Lease
    <2>1. /\ s.grant_promise_until \in Nat /\ t.grant_promise_until \in Nat /\ now + Lease \in Nat
      BY TimeAssumption DEF ElectionState
    <2>. QED  BY <2>1 DEF Sane
  <1>3. FenceStep(s, t)  BY <1>1 DEF FenceStep
  <1>4. t.highest_seen >= t.epoch /\ t.highest_seen >= t.granted[1]  BY <1>1 DEF Sane
  <1>5. t.role = "Claimant" => t.claim[1] > t.epoch /\ t.claim[1] <= t.highest_seen
    BY <1>1 DEF Sane
  <1>. QED  BY <1>2, <1>3, <1>4, <1>5, Zenon DEF Sane

\* A received resign obeys the law: it ends the promise of that very pair.
LEMMA ResignStep ==
    ASSUME TypeOK, NEW n \in Node, Sane(n, el[n]), NEW f \in Receivable(n), RecvResign(n, f)
    PROVE  NodeStep(n)
  <1>. DEFINE o == el[n]
              pair == <<f.epoch, f.who>>
              s == IF o.granted = pair
                   THEN [o EXCEPT !.resigned = TRUE, !.grant_promise_until = Smaller(@, now)]
                   ELSE o
              h == IF <<s.epoch, s.host>> = pair THEN None ELSE s.host
              t == [s EXCEPT !.highest_seen = Larger(@, f.epoch), !.host = h]
              frames == IF n \in Voters THEN {Frame("State", f.epoch, None, n, {f.from}, now)}
                        ELSE {}
  <1>0. now \in Nat /\ o \in ElectionState /\ f \in LeadFrame /\ f \in net
    BY Zenon DEF TypeOK, Receivable
  <1>1. Commit(n, t, frames) /\ f.kind = "Resign" /\ f.from = f.who  BY Zenon DEF RecvResign
  <1>2. f.epoch \in Nat /\ {f.from} \in SUBSET Node  BY <1>0, Zenon DEF LeadFrame
  <1>3. frames \in SUBSET LeadFrame /\ \A g \in frames : SendStep(n, o, t, g)
    <2>1. Frame("State", f.epoch, None, n, {f.from}, now) \in LeadFrame
      BY <1>0, <1>2, FrameType, Zenon
    <2>2. SendStep(n, o, t, Frame("State", f.epoch, None, n, {f.from}, now))
      BY StateSends, Zenon
    <2>. QED  BY <2>1, <2>2, Zenon
  <1>. HIDE DEF frames
  <1>n. /\ o.highest_seen \in Nat /\ o.epoch \in Nat /\ o.host \in Nat
        /\ Smaller(o.grant_promise_until, now) \in Nat
        /\ Smaller(o.grant_promise_until, now) <= o.grant_promise_until
    BY <1>0, StateNat DEF Smaller, ElectionState
  <1>4. s \in ElectionState  BY <1>0, <1>n, Zenon DEF ElectionState
  <1>5. /\ s.role = o.role /\ s.epoch = o.epoch /\ s.host = o.host /\ s.claim = o.claim
        /\ s.highest_seen = o.highest_seen /\ s.lease_until = o.lease_until
        /\ s.granted = o.granted
        /\ \/ s.grant_promise_until = o.grant_promise_until
           \/ o.granted = pair /\ s.grant_promise_until = Smaller(o.grant_promise_until, now)
        /\ s.round_sent_at = o.round_sent_at /\ s.round_grants = o.round_grants
        /\ s.leaving = o.leaving /\ s.resigning = o.resigning
    BY <1>0, Zenon DEF ElectionState
  <1>. HIDE DEF s
  <1>6. h \in Node \cup {None} /\ Larger(s.highest_seen, f.epoch) \in Nat /\ h \in {s.host, None}
    BY <1>2, <1>4, Zenon DEF Larger, ElectionState
  <1>. HIDE DEF h
  <1>7. /\ t \in ElectionState
        /\ t.role = s.role /\ t.epoch = s.epoch /\ t.host = h /\ t.claim = s.claim
        /\ t.highest_seen = Larger(s.highest_seen, f.epoch) /\ t.lease_until = s.lease_until
        /\ t.granted = s.granted /\ t.grant_promise_until = s.grant_promise_until
        /\ t.round_sent_at = s.round_sent_at /\ t.round_grants = s.round_grants
        /\ t.leaving = s.leaving /\ t.resigning = s.resigning
    BY <1>4, <1>6, Zenon DEF ElectionState
  <1>. HIDE DEF t
  <1>8. /\ t.role = o.role /\ t.epoch = o.epoch /\ t.claim = o.claim /\ t.granted = o.granted
        /\ t.round_sent_at = o.round_sent_at /\ t.leaving = o.leaving
        /\ t.resigning = o.resigning /\ t.host \in {o.host, None}
        /\ t.grant_promise_until <= o.grant_promise_until
    BY <1>0, <1>n, <1>5, <1>6, <1>7 DEF ElectionState
  <1>9. FenceStep(o, t) /\ Sane(n, t)
    <2>1. t.highest_seen >= o.highest_seen  BY <1>2, <1>n, <1>5, <1>7 DEF Larger
    <2>. QED  BY <1>0, <1>7, <1>8, <2>1, ForgetsHost, Zenon
  <1>10. LedgerStep(n, o, t)
    BY <1>0, <1>1, <1>5, <1>7, Zenon DEF LedgerStep, Keeps, Releases
  <1>12. RoundStep(n, o, t)
    <2>1. Stood(t) = Stood(o)  BY <1>5, <1>7, Zenon DEF Stood
    <2>. QED  BY <1>5, <1>7, <2>1, Zenon DEF RoundStep, StandStep, CountStep, LeaseStep
  <1>13. Moves(n, o, t)  BY <1>9, <1>10, <1>12, Zenon DEF Moves
  <1>. QED  BY <1>1, <1>3, <1>7, <1>13, Zenon DEF NodeStep

\* Demotion and the abandoned claim drop the role and leave the ledger alone.
Dropped(s, t) ==
    /\ t \in ElectionState /\ t.role = "Follower" /\ t.epoch = s.epoch
    /\ t.host \in {s.host, None} /\ t.highest_seen = s.highest_seen
    /\ t.granted = s.granted /\ t.grant_promise_until = s.grant_promise_until
    /\ t.round_sent_at = s.round_sent_at /\ t.resigning = s.resigning

LEMMA DropsRole ==
    ASSUME NEW s \in ElectionState
    PROVE  Dropped(s, Demote(s)) /\ Dropped(s, Abandon(s))
  <1>1. Demote(s) \in ElectionState /\ Abandon(s) \in ElectionState  BY AbandonType, Zenon
  <1>2. Dropped(s, Demote(s))  BY <1>1, Zenon DEF Dropped, Demote, ElectionState
  <1>3. Dropped(s, Abandon(s))  BY <1>1, Zenon DEF Dropped, Abandon, ElectionState
  <1>. QED  BY <1>2, <1>3, Zenon

\* Leaving obeys the law: who resigns has stepped down and is a candidate.
LEMMA LeaveStep ==
    ASSUME TypeOK, NEW n \in Node, Sane(n, el[n]), Leave(n)
    PROVE  NodeStep(n)
  <1>. DEFINE s == el[n]
              epoch == CASE s.role = "Host" -> s.epoch [] s.role = "Claimant" -> s.claim[1]
                         [] OTHER -> 0
              resigns == IsQuorum /\ s.role # "Follower"
              t == CASE s.role = "Host" -> Demote(s) [] s.role = "Claimant" -> Abandon(s)
                     [] OTHER -> s
              r == IF resigns THEN <<epoch, Voters \ {n}>> ELSE t.resigning
              u == [t EXCEPT !.leaving = TRUE, !.resigning = r,
                             !.next_anti_entropy = Smaller(@, now)]
              frames == IF resigns THEN {ResignFrame(n, epoch, Peers(n))} ELSE {}
  <1>1. Commit(n, u, frames)  BY Zenon DEF Leave
  <1>2. now \in Nat /\ s \in ElectionState  BY Zenon DEF TypeOK
  <1>3. epoch \in Nat  BY <1>2, Zenon DEF ElectionState
  <1>4. /\ t \in ElectionState /\ t.role = "Follower" /\ t.epoch = s.epoch
        /\ t.host \in {s.host, None} /\ t.highest_seen = s.highest_seen
        /\ t.granted = s.granted /\ t.grant_promise_until = s.grant_promise_until
        /\ t.round_sent_at = s.round_sent_at /\ t.resigning = s.resigning
    <2>1. \/ s.role = "Host" /\ t = Demote(s)
          \/ s.role = "Claimant" /\ t = Abandon(s)
          \/ s.role = "Follower" /\ t = s
      BY <1>2, Zenon DEF ElectionState
    <2>2. Dropped(s, Demote(s)) /\ Dropped(s, Abandon(s))  BY <1>2, DropsRole, Zenon
    <2>. HIDE DEF t
    <2>. QED  BY <1>2, <2>1, <2>2, Zenon DEF Dropped
  <1>5. frames \in SUBSET LeadFrame
    <2>1. ResignFrame(n, epoch, Peers(n)) \in LeadFrame
      BY <1>2, <1>3, FrameType, Zenon DEF ResignFrame, Peers
    <2>. QED  BY <2>1, Zenon
  <1>6. resigns => n \in setup.candidates  BY Zenon DEF Sane
  <1>7. \A f \in frames : f.kind = "Resign" /\ f.from = n /\ resigns
    BY DEF ResignFrame, Frame
  <1>. HIDE DEF t, epoch, resigns, frames
  <1>8. r \in Nat \X SUBSET Voters /\ Smaller(t.next_anti_entropy, now) \in Nat
    BY <1>2, <1>3, <1>4, Zenon DEF Smaller, ElectionState
  <1>9. r[2] # {} => n \in setup.candidates  BY <1>4, <1>6, Zenon DEF Sane
  <1>. HIDE DEF r
  <1>10. /\ u \in ElectionState /\ u.role = t.role /\ u.epoch = t.epoch /\ u.host = t.host
         /\ u.highest_seen = t.highest_seen /\ u.granted = t.granted
         /\ u.grant_promise_until = t.grant_promise_until /\ u.round_sent_at = t.round_sent_at
         /\ u.resigning = r /\ u.leaving
    BY <1>4, <1>8, Zenon DEF ElectionState
  <1>. HIDE DEF u
  <1>11. Sane(n, u)  BY <1>4, <1>9, <1>10, Zenon DEF Sane
  <1>12. FenceStep(s, u)  BY <1>2, <1>4, <1>10, StateNat DEF FenceStep
  <1>13. Moves(n, s, u)
    BY <1>4, <1>10, <1>11, <1>12, Zenon DEF Moves, LedgerStep, Keeps, RoundStep
  <1>14. \A f \in frames : SendStep(n, s, u, f)
    BY <1>6, <1>7, <1>10, Zenon DEF SendStep
  <1>. QED  BY <1>1, <1>5, <1>10, <1>13, <1>14, Zenon DEF NodeStep

-----------------------------------------------------------------------------
\* Every step

\* A step of the election is a step of one node's engine that obeys the law, a
\* restart, or the clock.
LEMMA StepKinds ==
    ASSUME TypeOK, NodesSane, Next
    PROVE  (\E n \in Node : NodeStep(n) \/ Restart(n)) \/ Advance
  <1>1. ASSUME NEW n \in Node, Ticks(n) PROVE NodeStep(n)
    BY <1>1, TicksStep, Zenon DEF NodesSane
  <1>2. ASSUME NEW n \in Node, Receives(n) PROVE NodeStep(n)
    BY <1>2, ClaimStep, StateStep, GrantStep, ResignStep, Zenon DEF NodesSane, Receives
  <1>3. ASSUME NEW n \in Node, Leave(n) PROVE NodeStep(n)
    BY <1>3, LeaveStep, Zenon DEF NodesSane
  <1>. QED  BY <1>1, <1>2, <1>3, Zenon DEF Next

\* A step that obeys the law keeps every node well-formed and sane.
LEMMA NodeStepSane ==
    ASSUME TypeOK, NodesSane, NEW n \in Node, NodeStep(n)
    PROVE  TypeOK' /\ NodesSane'
  <1>1. PICK t \in ElectionState, frames \in SUBSET LeadFrame :
            /\ Commit(n, t, frames) /\ Moves(n, el[n], t)
            /\ \A f \in frames : SendStep(n, el[n], t, f)
    BY Zenon DEF NodeStep
  <1>2. t.granted # el[n].granted => n \in Voters
    BY <1>1, Zenon DEF Moves, LedgerStep, Keeps, Votes, Releases
  <1>3. TypeOK'  BY <1>1, <1>2, CommitType, Zenon
  <1>4. el' = [el EXCEPT ![n] = t] /\ UNCHANGED <<setup, now>> /\ el \in [Node -> ElectionState]
    BY <1>1, Zenon DEF Commit, TypeOK
  <1>5. Sane(n, t)  BY <1>1, Zenon DEF Moves
  <1>6. \A m \in Node : el'[m] = IF m = n THEN t ELSE el[m]  BY <1>4, Zenon
  <1>7. NodesSane'  BY <1>4, <1>5, <1>6, Zenon DEF NodesSane, Sane
  <1>. QED  BY <1>3, <1>7, Zenon

\* A node that starts, from its store or without one, is well-formed and sane.
LEMMA RecoveredSane ==
    ASSUME now \in Nat, disk \in [Node -> Pair], NEW n \in Node
    PROVE  Recovered(n) \in ElectionState /\ Sane(n, Recovered(n))
  <1>1. Recovered(n) \in ElectionState  BY RecoveredType, Zenon
  <1>2. PICK p \in Pair, u \in {0, now + Lease} : Recovered(n) = BootState(p, u)
    BY Zenon DEF Recovered, NoPair, Pair
  <1>3. p[1] \in Nat /\ now + Lease \in Nat /\ u <= now + Lease  BY TimeAssumption DEF Pair
  <1>. DEFINE b == BootState(p, u)
  <1>4. /\ b.highest_seen = p[1] /\ b.epoch = 0 /\ b.granted = p /\ b.role = "Follower"
        /\ b.resigning = <<0, {}>> /\ b.round_sent_at = 0 /\ b.grant_promise_until = u
    BY Zenon DEF BootState
  <1>. HIDE DEF b
  <1>5. Sane(n, b)  BY <1>3, <1>4 DEF Sane
  <1>. QED  BY <1>1, <1>2, <1>5, Zenon DEF b

\* A restart keeps every node well-formed and sane.
LEMMA RestartSane ==
    ASSUME TypeOK, NodesSane, NEW n \in Node, Restart(n)
    PROVE  TypeOK' /\ NodesSane'
  <1>. DEFINE t == Recovered(n)
  <1>1. t \in ElectionState /\ Sane(n, t)  BY RecoveredSane, Zenon DEF TypeOK
  <1>2. /\ el' = [el EXCEPT ![n] = t] /\ UNCHANGED <<setup, now, disk, net, issued, hosted>>
        /\ undurable' = [undurable EXCEPT ![n] = NoPair]
    BY Zenon DEF Restart
  <1>. HIDE DEF t
  <1>3. NoPair \in Pair  BY Zenon DEF NoPair, Pair
  <1>4. TypeOK'  BY <1>1, <1>2, <1>3, Zenon DEF TypeOK
  <1>5. \A m \in Node : el'[m] = IF m = n THEN t ELSE el[m]  BY <1>2, Zenon DEF TypeOK
  <1>6. NodesSane'  BY <1>1, <1>2, <1>5 DEF NodesSane, Sane
  <1>. QED  BY <1>4, <1>6, Zenon

\* Time keeps every node well-formed and sane: rounds and promises are about
\* the past and the near future.
LEMMA AdvanceSane ==
    ASSUME TypeOK, NodesSane, Advance
    PROVE  TypeOK' /\ NodesSane'
  <1>1. TypeOK'  BY DEF TypeOK, Advance
  <1>2. ASSUME NEW n \in Node PROVE Sane(n, el[n])'
    <2>1. /\ el[n].round_sent_at \in Nat /\ el[n].grant_promise_until \in Nat /\ now \in Nat
      BY Zenon DEF TypeOK, ElectionState
    <2>2. el[n].round_sent_at <= now + 1 /\ el[n].grant_promise_until <= now + 1 + Lease
      BY <2>1, TimeAssumption DEF NodesSane, Sane
    <2>. QED  BY <2>2, Zenon DEF Advance, NodesSane, Sane
  <1>. QED  BY <1>1, <1>2, Zenon DEF NodesSane

\* Whatever the frames, restarts, refused writes and nudges, every node stays
\* well-formed and sane: it has seen every epoch it adopted, granted or claims,
\* only a candidate claims or hosts and it stops when it leaves, and no promise
\* outlasts a lease from now.
THEOREM NodesStaySane == Spec => [](TypeOK /\ NodesSane)
  <1>1. Init => TypeOK /\ NodesSane
    <2>. SUFFICES ASSUME Init PROVE TypeOK /\ NodesSane  BY Zenon
    <2>1. now \in Nat /\ disk \in [Node -> Pair] /\ undurable \in [Node -> Pair]
      BY Zenon DEF Init, NoPair, Pair
    <2>2. \A n \in Node : Recovered(n) \in ElectionState /\ Sane(n, Recovered(n))
      BY <2>1, RecoveredSane, Zenon
    <2>3. el = [n \in Node |-> Recovered(n)]  BY Zenon DEF Init
    <2>4. el \in [Node -> ElectionState] /\ \A n \in Node : Sane(n, el[n])  BY <2>2, <2>3, Zenon
    <2>. QED  BY <2>1, <2>4, Zenon DEF Init, TypeOK, NodesSane
  <1>2. TypeOK /\ NodesSane /\ [Next]_vars => TypeOK' /\ NodesSane'
    <2>. SUFFICES ASSUME TypeOK, NodesSane, [Next]_vars PROVE TypeOK' /\ NodesSane'  BY Zenon
    <2>1. CASE UNCHANGED vars  BY <2>1, Zenon DEF TypeOK, NodesSane, Sane, vars
    <2>2. CASE Next
      BY <2>2, StepKinds, NodeStepSane, RestartSane, AdvanceSane, Zenon
    <2>. QED  BY <2>1, <2>2, Zenon
  <1>. QED  BY <1>1, <1>2, PTL DEF Spec

\* The state of the election stays well-formed whatever the frames, restarts,
\* refused writes and nudges: every step of every node keeps TypeOK.
THEOREM TypeCorrect == Spec => []TypeOK
  BY NodesStaySane, PTL

\* While a node runs its fence never moves back (engine/order.rs and the raises
\* of highest_seen in election.rs and quorum.rs): under either activation, for
\* every roster, whatever frames arrive in whatever order.
THEOREM FenceHolds == Spec => FenceMonotone
  <1>. DEFINE Fenced == \A n \in Node : el'[n] # el[n] /\ ~Restart(n) => Forward(el[n], el'[n])
  <1>1. TypeOK /\ NodesSane /\ [Next]_vars => [Fenced]_vars
    <2>. SUFFICES ASSUME TypeOK, NodesSane, Next, NEW n \in Node, el'[n] # el[n], ~Restart(n)
                  PROVE  Forward(el[n], el'[n])
      BY Zenon
    <2>1. el \in [Node -> ElectionState]  BY Zenon DEF TypeOK
    <2>2. NodeStep(n)
      <3>1. ASSUME NEW m \in Node, NodeStep(m) PROVE m = n
        BY <2>1, <3>1, Zenon DEF NodeStep, Commit
      <3>2. ASSUME NEW m \in Node, Restart(m) PROVE m = n  BY <2>1, <3>2, Zenon DEF Restart
      <3>3. ~Advance  BY Zenon DEF Advance
      <3>. QED  BY <3>1, <3>2, <3>3, StepKinds, Zenon
    <2>3. PICK t \in ElectionState : el' = [el EXCEPT ![n] = t] /\ Moves(n, el[n], t)
      BY <2>2, Zenon DEF NodeStep, Commit
    <2>4. el'[n] = t  BY <2>1, <2>3, Zenon
    <2>5. Forward(el[n], t)  BY <2>3, Zenon DEF Moves, FenceStep, Sane, Forward
    <2>. QED  BY <2>4, <2>5, Zenon
  <1>. QED  BY <1>1, NodesStaySane, PTL DEF Spec, FenceMonotone

-----------------------------------------------------------------------------
\* The effects of a step

\* The write-ahead store: what it holds after a step is what it held or the
\* ledger; a fresh grant is on it, or is remembered as not durable.
LEMMA PersistEffect ==
    ASSUME TypeOK, NEW n \in Node, NEW t \in ElectionState, Persist(n, t)
    PROVE  /\ \A m \in Node \ {n} : disk'[m] = disk[m] /\ undurable'[m] = undurable[m]
           /\ t.granted = el[n].granted \/ n \notin setup.durable
                => disk'[n] = disk[n] /\ undurable'[n] = undurable[n]
           /\ t.granted # el[n].granted /\ n \in setup.durable
                => \/ disk'[n] = t.granted
                   \/ /\ n \in setup.failing
                      /\ undurable'[n] = t.granted /\ disk'[n] = disk[n]
  <1>1. disk \in [Node -> Pair] /\ undurable \in [Node -> Pair]  BY Zenon DEF TypeOK
  <1>2. CASE t.granted # el[n].granted /\ n \in setup.durable
    <2>1. PICK r \in PersistResults(n) :
            /\ disk' = IF r.written THEN [disk EXCEPT ![n] = t.granted] ELSE disk
            /\ undurable' = [undurable EXCEPT ![n] = IF r.durable THEN NoPair ELSE t.granted]
      BY <1>2, Zenon DEF Persist
    <2>2. (r.durable => r.written) /\ (n \notin setup.failing => r.written)
      BY DEF PersistResults
    <2>. QED  BY <1>1, <1>2, <2>1, <2>2, Zenon
  <1>3. CASE ~(t.granted # el[n].granted /\ n \in setup.durable)
    BY <1>1, <1>3, Zenon DEF Persist
  <1>. QED  BY <1>2, <1>3, Zenon

\* A new frame is one the step sends and does not withhold, or an announcement.
LEMMA NewFrames ==
    ASSUME NEW n, NEW t, NEW frames, Commit(n, t, frames),
           NEW f \in net', f \notin net, f.kind # "State"
    PROVE  f \in frames /\ ~Withheld(n, f, undurable'[n])
  <1>1. f \notin Announced(n, t)  BY DEF Announced, StateFrame, Frame
  <1>. QED  BY <1>1, Zenon DEF Commit, Sent

\* The ledger moves up only, and by a voter's vote only.
LEMMA LedgerUp ==
    ASSUME NEW n \in Node, NEW s \in ElectionState, NEW t \in ElectionState, Moves(n, s, t)
    PROVE  \/ t.granted = s.granted
           \/ IsQuorum /\ n \in Voters /\ t.granted[1] > s.granted[1]
  BY Zenon DEF Moves, LedgerStep, Keeps, Votes, Releases

-----------------------------------------------------------------------------
\* One grant per epoch

\* The voters whose store holds every grant.
Steady == setup.durable \ setup.failing

\* The store of a steady voter holds its ledger, and the ledger is the highest
\* grant the voter issued in any of its lives.
LedgerInv ==
    /\ \A v \in Steady : disk[v] = el[v].granted
    /\ \A i \in issued : i[1] \in Steady => i[2][1] <= el[i[1]].granted[1]
    /\ OneGrantPerEpoch

\* A step of a node keeps the ledger invariant.
LEMMA StepLedger ==
    ASSUME TypeOK, LedgerInv, NEW n \in Node, NodeStep(n)
    PROVE  LedgerInv'
  <1>1. PICK t \in ElectionState, frames \in SUBSET LeadFrame :
            Commit(n, t, frames) /\ Moves(n, el[n], t)
    BY Zenon DEF NodeStep
  <1>2. /\ el' = [el EXCEPT ![n] = t] /\ el \in [Node -> ElectionState] /\ setup' = setup
        /\ issued \subseteq Voters \X Pair /\ Steady \subseteq Node /\ Persist(n, t)
        /\ issued' = IF t.granted # el[n].granted THEN issued \cup {<<n, t.granted>>} ELSE issued
    BY <1>1, NodeAssumption, Zenon DEF Commit, TypeOK, Setup, Steady
  <1>3. \A m \in Node : el'[m] = IF m = n THEN t ELSE el[m]  BY <1>2, Zenon
  <1>4. /\ el[n].granted[1] \in Nat /\ t.granted[1] \in Nat
        /\ t.granted = el[n].granted \/ t.granted[1] > el[n].granted[1]
    BY <1>1, <1>2, StateNat, LedgerUp, Zenon
  <1>5. \A v \in Steady : disk'[v] = el'[v].granted
    BY <1>2, <1>3, PersistEffect DEF LedgerInv, Steady
  <1>6. ASSUME NEW i \in issued', i[1] \in Steady PROVE i[2][1] <= el'[i[1]].granted[1]
    <2>1. CASE i \in issued
      <3>1. i[2][1] \in Nat /\ i[1] \in Node /\ i[2][1] <= el[i[1]].granted[1]
        BY <1>2, <1>6, <2>1, Zenon DEF LedgerInv, Pair
      <3>2. CASE i[1] = n  BY <1>3, <1>4, <3>1, <3>2
      <3>3. CASE i[1] # n  BY <1>3, <3>1, <3>3, Zenon
      <3>. QED  BY <3>2, <3>3, Zenon
    <2>2. CASE i = <<n, t.granted>>  BY <1>3, <1>4, <2>2
    <2>. QED  BY <1>2, <2>1, <2>2, Zenon
  <1>7. OneGrantPerEpoch'
    <2>1. CASE t.granted = el[n].granted
      BY <1>2, <2>1, Zenon DEF LedgerInv, OneGrantPerEpoch
    <2>2. CASE t.granted # el[n].granted
      <3>1. ASSUME NEW i \in issued, i[1] = n, n \in Steady PROVE i[2][1] # t.granted[1]
        BY <1>2, <1>4, <2>2, <3>1 DEF LedgerInv, Pair
      <3>2. \A i, j \in issued \cup {<<n, t.granted>>} :
                i[1] \in Steady /\ i[1] = j[1] /\ i[2][1] = j[2][1] => i = j
        BY <3>1 DEF LedgerInv, OneGrantPerEpoch, Steady
      <3>. QED  BY <1>2, <2>2, <3>2, Zenon DEF OneGrantPerEpoch, Steady
    <2>. QED  BY <2>1, <2>2, Zenon
  <1>. QED  BY <1>2, <1>5, <1>6, <1>7, Zenon DEF LedgerInv, Steady

\* A restart reads the ledger of a steady voter back from its store.
LEMMA RestartLedger ==
    ASSUME TypeOK, LedgerInv, NEW n \in Node, Restart(n)
    PROVE  LedgerInv'
  <1>. DEFINE t == Recovered(n)
  <1>1. /\ el' = [el EXCEPT ![n] = t] /\ el \in [Node -> ElectionState]
        /\ UNCHANGED <<setup, disk, issued>> /\ Steady \subseteq Node
    BY NodeAssumption, Zenon DEF Restart, TypeOK, Setup, Steady
  <1>2. n \in Steady => t.granted = el[n].granted
    BY Zenon DEF Recovered, BootState, LedgerInv, Steady
  <1>. HIDE DEF t
  <1>3. \A m \in Node : el'[m] = IF m = n THEN t ELSE el[m]  BY <1>1, Zenon
  <1>4. \A v \in Steady : el'[v].granted = el[v].granted  BY <1>1, <1>2, <1>3, Zenon
  <1>. QED  BY <1>1, <1>4, Zenon DEF LedgerInv, OneGrantPerEpoch, Steady

\* The ledger invariant holds of every deployment.
THEOREM LedgersHold == Spec => []LedgerInv
  <1>1. Init => LedgerInv
    <2>. SUFFICES ASSUME Init PROVE LedgerInv  BY Zenon
    <2>1. \A p, u : BootState(p, u).granted = p  BY Zenon DEF BootState
    <2>2. \A n \in Node : el[n].granted = NoPair /\ disk[n] = NoPair
      BY <2>1, Zenon DEF Init, Recovered
    <2>3. Steady \subseteq Node  BY NodeAssumption, Zenon DEF Init, Setup, Steady
    <2>. QED  BY <2>2, <2>3, Zenon DEF Init, LedgerInv, OneGrantPerEpoch
  <1>2. TypeOK /\ NodesSane /\ LedgerInv /\ [Next]_vars => LedgerInv'
    <2>. SUFFICES ASSUME TypeOK, NodesSane, LedgerInv, [Next]_vars PROVE LedgerInv'  BY Zenon
    <2>1. CASE UNCHANGED vars  BY <2>1, Zenon DEF vars, LedgerInv, OneGrantPerEpoch, Steady
    <2>2. CASE Advance  BY <2>2, Zenon DEF Advance, LedgerInv, OneGrantPerEpoch, Steady
    <2>. QED  BY <2>1, <2>2, StepKinds, StepLedger, RestartLedger, Zenon
  <1>. QED  BY <1>1, <1>2, NodesStaySane, PTL DEF Spec

\* A voter with a store that refuses no write grants one epoch to one claimant,
\* across its crashes and in every deployment: grant_verdict asks for a higher
\* epoch than the ledger's, and the ledger read back from the store is the
\* highest grant the voter ever issued.
THEOREM OneGrant == Spec => []OneGrantPerEpoch
  <1>1. LedgerInv => OneGrantPerEpoch  BY Zenon DEF LedgerInv
  <1>. QED  BY <1>1, LedgersHold, PTL

-----------------------------------------------------------------------------
\* The write-ahead contract

\* A voter's store holds its ledger; or the write was refused, the store is
\* behind, and the driver remembers the pair as not durable.
Stored ==
    \A v \in setup.durable :
        \/ disk[v] = el[v].granted
        \/ undurable[v] = el[v].granted /\ disk[v][1] < el[v].granted[1]

\* A step of a node keeps the contract: a grant is published only by a step
\* after which the store holds it.
LEMMA StepStored ==
    ASSUME TypeOK, Stored, PublishedIsDurable, NEW n \in Node, NodeStep(n)
    PROVE  Stored' /\ PublishedIsDurable'
  <1>1. PICK t \in ElectionState, frames \in SUBSET LeadFrame :
            /\ Commit(n, t, frames) /\ Moves(n, el[n], t)
            /\ \A f \in frames : SendStep(n, el[n], t, f)
    BY Zenon DEF NodeStep
  <1>2. /\ el' = [el EXCEPT ![n] = t] /\ el \in [Node -> ElectionState] /\ setup' = setup
        /\ setup.durable \subseteq Node /\ Persist(n, t) /\ disk \in [Node -> Pair]
    BY <1>1, NodeAssumption, Zenon DEF Commit, TypeOK, Setup
  <1>3. \A m \in Node : el'[m] = IF m = n THEN t ELSE el[m]  BY <1>2, Zenon
  <1>4. /\ el[n].granted[1] \in Nat /\ t.granted[1] \in Nat /\ disk[n][1] \in Nat
        /\ t.granted = el[n].granted \/ t.granted[1] > el[n].granted[1]
    BY <1>1, <1>2, StateNat, LedgerUp, Zenon DEF Pair
  <1>5. \A m \in Node \ {n} : disk'[m] = disk[m] /\ undurable'[m] = undurable[m]
    BY <1>2, PersistEffect, Zenon
  <1>6. n \in setup.durable =>
            /\ \/ disk'[n] = t.granted
               \/ undurable'[n] = t.granted /\ disk'[n][1] < t.granted[1]
            /\ \/ disk'[n] = disk[n]
               \/ disk'[n] = t.granted /\ t.granted[1] > disk[n][1]
    <2>1. CASE t.granted = el[n].granted
      BY <1>2, <2>1, PersistEffect DEF Stored
    <2>2. CASE t.granted # el[n].granted
      BY <1>2, <1>4, <2>2, PersistEffect DEF Stored
    <2>. QED  BY <2>1, <2>2, Zenon
  <1>7. Stored'  BY <1>2, <1>3, <1>5, <1>6 DEF Stored
  <1>8. ASSUME NEW f \in net', f.kind = "Grant", f.from \in setup.durable
        PROVE  disk'[f.from] = <<f.epoch, f.who>> \/ disk'[f.from][1] > f.epoch
    <2>1. CASE f \in net
      <3>1. disk[f.from] = <<f.epoch, f.who>> \/ disk[f.from][1] > f.epoch
        BY <1>8, <2>1, Zenon DEF PublishedIsDurable
      <3>2. f.epoch \in Nat  BY <2>1, Zenon DEF TypeOK, LeadFrame
      <3>3. CASE f.from # n  BY <1>2, <1>5, <1>8, <3>1, <3>3, Zenon
      <3>4. CASE f.from = n  BY <1>4, <1>6, <1>8, <3>1, <3>2, <3>4
      <3>. QED  BY <3>3, <3>4, Zenon
    <2>2. CASE f \notin net
      <3>1. f \in frames /\ ~Withheld(n, f, undurable'[n])  BY <1>1, <1>8, <2>2, NewFrames, Zenon
      <3>2. f.from = n /\ <<f.epoch, f.who>> = t.granted  BY <1>1, <1>8, <3>1, Zenon DEF SendStep
      <3>3. undurable'[n] # t.granted  BY <1>8, <3>1, <3>2, Zenon DEF Withheld
      <3>. QED  BY <1>6, <1>8, <3>2, <3>3, Zenon
    <2>. QED  BY <2>1, <2>2, Zenon
  <1>. QED  BY <1>2, <1>7, <1>8, Zenon DEF PublishedIsDurable

\* A restart takes the store's pair as the ledger.
LEMMA RestartStored ==
    ASSUME TypeOK, Stored, PublishedIsDurable, NEW n \in Node, Restart(n)
    PROVE  Stored' /\ PublishedIsDurable'
  <1>. DEFINE t == Recovered(n)
  <1>1. /\ el' = [el EXCEPT ![n] = t] /\ el \in [Node -> ElectionState]
        /\ undurable' = [undurable EXCEPT ![n] = NoPair] /\ undurable \in [Node -> Pair]
        /\ UNCHANGED <<setup, disk, net>> /\ setup.durable \subseteq Node
    BY NodeAssumption, Zenon DEF Restart, TypeOK, Setup
  <1>2. n \in setup.durable => t.granted = disk[n]  BY Zenon DEF Recovered, BootState
  <1>. HIDE DEF t
  <1>3. \A m \in Node : m # n => el'[m] = el[m] /\ undurable'[m] = undurable[m]  BY <1>1, Zenon
  <1>4. el'[n] = t  BY <1>1, Zenon
  <1>5. Stored'  BY <1>1, <1>2, <1>3, <1>4, Zenon DEF Stored
  <1>. QED  BY <1>1, <1>5, Zenon DEF PublishedIsDurable

\* In every deployment a voter's store holds its ledger, or is behind it and the
\* driver remembers so (driver/durability.rs).
THEOREM StoresHold == Spec => [](Stored /\ PublishedIsDurable)
  <1>1. Init => Stored /\ PublishedIsDurable
    <2>. SUFFICES ASSUME Init PROVE Stored /\ PublishedIsDurable  BY Zenon
    <2>1. \A p, u : BootState(p, u).granted = p  BY Zenon DEF BootState
    <2>2. \A n \in Node : el[n].granted = NoPair /\ disk[n] = NoPair
      BY <2>1, Zenon DEF Init, Recovered
    <2>3. setup.durable \subseteq Node  BY NodeAssumption, Zenon DEF Init, Setup
    <2>. QED  BY <2>2, <2>3, Zenon DEF Init, Stored, PublishedIsDurable
  <1>2. TypeOK /\ NodesSane /\ Stored /\ PublishedIsDurable /\ [Next]_vars
            => Stored' /\ PublishedIsDurable'
    <2>. SUFFICES ASSUME TypeOK, NodesSane, Stored, PublishedIsDurable, [Next]_vars
                  PROVE  Stored' /\ PublishedIsDurable'
      BY Zenon
    <2>1. CASE UNCHANGED vars  BY <2>1, Zenon DEF vars, Stored, PublishedIsDurable
    <2>2. CASE Advance  BY <2>2, Zenon DEF Advance, Stored, PublishedIsDurable
    <2>. QED  BY <2>1, <2>2, StepKinds, StepStored, RestartStored, Zenon
  <1>. QED  BY <1>1, <1>2, NodesStaySane, PTL DEF Spec

\* The write-ahead contract of driver/durability.rs, in every deployment: a
\* grant on the wire is in its voter's store, or the store has moved past it,
\* whatever writes were refused and whoever crashed in between.
THEOREM GrantsAreDurable == Spec => []PublishedIsDurable
  BY StoresHold, PTL

-----------------------------------------------------------------------------
\* Rounds: what a claimant counts and what hosts have behind them

\* Every grant a claimant or a host counts in its round was issued for the
\* very pair it claims or hosts.
Backed(n, s) ==
    s.role # "Follower" => \A v \in s.round_grants : <<v, <<Stood(s), n>>>> \in issued

\* A pair a majority of the roster has granted.
Chosen(p) ==
    \E Q \in SUBSET Voters :
        Cardinality(Q) >= Majority /\ \A v \in Q : <<v, p>> \in issued

\* Ledgers, stores, grant frames and counted rounds carry only issued grants,
\* and every pair that was ever hosted under Quorum has a majority of issued
\* grants behind it.
RoundInv ==
    /\ \A v \in Voters : \A p \in {el[v].granted, disk[v]} : p = NoPair \/ <<v, p>> \in issued
    /\ \A f \in net : f.kind = "Grant" => <<f.from, <<f.epoch, f.who>>>> \in issued
    /\ \A n \in Node : el[n].role = "Host" => <<el[n].epoch, n>> \in hosted
    /\ IsQuorum => /\ \A n \in Node : Backed(n, el[n])
                   /\ \A p \in hosted : Chosen(p)

\* A step of a node keeps every round and every hosted pair backed.
LEMMA StepRounds ==
    ASSUME TypeOK, RoundInv, NEW n \in Node, NodeStep(n)
    PROVE  RoundInv'
  <1>1. PICK t \in ElectionState, frames \in SUBSET LeadFrame :
            /\ Commit(n, t, frames) /\ Moves(n, el[n], t)
            /\ \A f \in frames : SendStep(n, el[n], t, f)
    BY Zenon DEF NodeStep
  <1>2. /\ el' = [el EXCEPT ![n] = t] /\ el \in [Node -> ElectionState] /\ setup' = setup
        /\ Voters \subseteq Node /\ Persist(n, t)
        /\ issued' = IF t.granted # el[n].granted THEN issued \cup {<<n, t.granted>>} ELSE issued
        /\ hosted' = IF t.role = "Host" THEN hosted \cup {<<t.epoch, n>>} ELSE hosted
    BY <1>1, NodeAssumption, Zenon DEF Commit, TypeOK
  <1>3. \A m \in Node : el'[m] = IF m = n THEN t ELSE el[m]  BY <1>2, Zenon
  <1>4. issued \subseteq issued' /\ hosted \subseteq hosted'  BY <1>2, Zenon
  <1>5. n \in Voters => t.granted = NoPair \/ <<n, t.granted>> \in issued'
    BY <1>2, Zenon DEF RoundInv
  <1>6. \A v \in Voters : \A p \in {el'[v].granted, disk'[v]} : p = NoPair \/ <<v, p>> \in issued'
    <2>1. ASSUME NEW v \in Voters, v # n, NEW p \in {el'[v].granted, disk'[v]}
          PROVE  p = NoPair \/ <<v, p>> \in issued'
      <3>1. el'[v] = el[v] /\ disk'[v] = disk[v]  BY <1>2, <1>3, <2>1, PersistEffect
      <3>. QED  BY <1>4, <2>1, <3>1, Zenon DEF RoundInv
    <2>2. disk'[n] \in {disk[n], t.granted}  BY <1>2, PersistEffect, Zenon
    <2>3. el'[n] = t  BY <1>3, Zenon
    <2>4. n \in Voters => \A p \in {el'[n].granted, disk'[n]} : p = NoPair \/ <<n, p>> \in issued'
      BY <1>4, <1>5, <2>2, <2>3, Zenon DEF RoundInv
    <2>. QED  BY <2>1, <2>4, Zenon
  <1>7. ASSUME NEW f \in net', f.kind = "Grant" PROVE <<f.from, <<f.epoch, f.who>>>> \in issued'
    <2>1. CASE f \in net  BY <1>4, <1>7, <2>1, Zenon DEF RoundInv
    <2>2. CASE f \notin net
      <3>1. f \in frames  BY <1>1, <1>7, <2>2, NewFrames, Zenon
      <3>2. f.from = n /\ n \in Voters /\ t.granted # NoPair /\ <<f.epoch, f.who>> = t.granted
        BY <1>1, <1>7, <3>1, Zenon DEF SendStep
      <3>. QED  BY <1>5, <3>2, Zenon
    <2>. QED  BY <2>1, <2>2, Zenon
  <1>8. \A m \in Node : el'[m].role = "Host" => <<el'[m].epoch, m>> \in hosted'
    BY <1>2, <1>3, <1>4, Zenon DEF RoundInv
  <1>9. ASSUME IsQuorum, t.role # "Follower", NEW v \in t.round_grants
        PROVE  <<v, <<Stood(t), n>>>> \in issued'
    <2>1. StandStep(el[n], t) /\ CountStep(n, el[n], t, v)
      BY <1>1, <1>9, Zenon DEF Moves, RoundStep
    <2>2. CASE el[n].role # "Follower" /\ v \in el[n].round_grants
      <3>1. Stood(t) = Stood(el[n])  BY <2>1, <2>2, Zenon DEF StandStep
      <3>. QED  BY <1>4, <1>9, <2>2, <3>1, Zenon DEF RoundInv, Backed
    <2>3. CASE v = n /\ t.granted = <<Stood(t), n>> /\ Votes(n, el[n], t)
      <3>0. n # None  BY NodeAssumption, Zenon
      <3>1. t.granted # NoPair  BY <2>3, <3>0 DEF NoPair
      <3>. QED  BY <1>5, <2>3, <3>1, Zenon DEF Votes
    <2>4. CASE \E f \in Receivable(n) :
                  f.kind = "Grant" /\ f.from = v /\ f.who = n /\ f.epoch = Stood(t)
      BY <1>4, <2>4, Zenon DEF RoundInv, Receivable
    <2>. QED  BY <2>1, <2>2, <2>3, <2>4, Zenon DEF CountStep
  <1>10. ASSUME IsQuorum, NEW m \in Node, el'[m].role # "Follower", NEW v \in el'[m].round_grants
         PROVE  <<v, <<Stood(el'[m]), m>>>> \in issued'
    <2>1. CASE m = n
      <3>1. el'[m] = t  BY <1>3, <2>1, Zenon
      <3>. QED  BY <1>9, <1>10, <2>1, <3>1, Zenon
    <2>2. CASE m # n
      <3>1. el'[m] = el[m]  BY <1>3, <2>2, Zenon
      <3>. QED  BY <1>4, <1>10, <3>1, Zenon DEF RoundInv, Backed
    <2>. QED  BY <2>1, <2>2, Zenon
  <1>11. ASSUME IsQuorum, NEW p \in hosted' PROVE Chosen(p)'
    <2>1. CASE p \in hosted
      <3>1. PICK Q \in SUBSET Voters :
                Cardinality(Q) >= Majority /\ \A v \in Q : <<v, p>> \in issued
        BY <1>11, <2>1, Zenon DEF RoundInv, Chosen
      <3>. QED  BY <1>4, <3>1, Zenon DEF Chosen
    <2>2. CASE p \notin hosted
      <3>1. t.role = "Host" /\ p = <<Stood(t), n>>  BY <1>2, <1>11, <2>2, Zenon DEF Stood
      <3>2. StandStep(el[n], t) /\ LeaseStep(el[n], t)
        BY <1>1, <1>11, <3>1, Zenon DEF Moves, RoundStep
      <3>3. el[n].role # "Host"
        BY <2>2, <3>1, <3>2, Zenon DEF RoundInv, StandStep, Stood
      <3>4. Cardinality(t.round_grants) >= Majority  BY <3>2, <3>3, Zenon DEF LeaseStep
      <3>5. \A v \in t.round_grants : <<v, p>> \in issued'  BY <1>9, <1>11, <3>1, Zenon
      <3>6. t.round_grants \in SUBSET Voters  BY Zenon DEF ElectionState
      <3>. QED  BY <3>4, <3>5, <3>6, Zenon DEF Chosen
    <2>. QED  BY <2>1, <2>2, Zenon
  <1>12. (\A m \in Node : Backed(m, el[m])') \/ ~IsQuorum
    BY <1>10, Zenon DEF Backed
  <1>13. IsQuorum' = IsQuorum  BY <1>2, Zenon DEF IsQuorum
  <1>. QED  BY <1>6, <1>7, <1>8, <1>11, <1>12, <1>13, Zenon DEF RoundInv

\* A restart drops the round and takes the ledger from the store.
LEMMA RestartRounds ==
    ASSUME TypeOK, RoundInv, NEW n \in Node, Restart(n)
    PROVE  RoundInv'
  <1>. DEFINE t == Recovered(n)
  <1>1. /\ el' = [el EXCEPT ![n] = t] /\ el \in [Node -> ElectionState]
        /\ UNCHANGED <<setup, disk, net, issued, hosted>> /\ Voters \subseteq Node
    BY NodeAssumption, Zenon DEF Restart, TypeOK
  <1>2. t.role = "Follower" /\ t.granted \in {NoPair, disk[n]}
    BY Zenon DEF Recovered, BootState
  <1>. HIDE DEF t
  <1>3. \A m \in Node : el'[m] = IF m = n THEN t ELSE el[m]  BY <1>1, Zenon
  <1>4. \A v \in Voters : \A p \in {el'[v].granted, disk'[v]} : p = NoPair \/ <<v, p>> \in issued'
    <2>1. ASSUME NEW v \in Voters, NEW p \in {el'[v].granted, disk'[v]}
          PROVE  p \in {NoPair, disk[v], el[v].granted}
      BY <1>1, <1>2, <1>3, <2>1, Zenon
    <2>. QED  BY <1>1, <2>1, ZenonT(30) DEF RoundInv
  <1>5. \A m \in Node : el'[m].role # "Follower" => el'[m] = el[m]  BY <1>2, <1>3, Zenon
  <1>6. \A m \in Node : Backed(m, el[m]) => Backed(m, el[m])'  BY <1>1, <1>5, Zenon DEF Backed
  <1>7. \A m \in Node : el'[m].role = "Host" => <<el'[m].epoch, m>> \in hosted'
    BY <1>1, <1>5, Zenon DEF RoundInv
  <1>. QED  BY <1>1, <1>4, <1>6, <1>7, Zenon DEF RoundInv, IsQuorum, Chosen

\* Whatever crashes and stores fail, every pair a Quorum group ever hosted was
\* granted by a majority of the roster, each of whose voters granted that very
\* pair (CloseRound counts, on_lead_grant and the self-grant).
THEOREM HostsAreChosen == Spec => []RoundInv
  <1>1. Init => RoundInv
    <2>. SUFFICES ASSUME Init PROVE RoundInv  BY Zenon
    <2>1. \A p, u : BootState(p, u).role = "Follower" /\ BootState(p, u).granted = p
      BY Zenon DEF BootState
    <2>2. \A n \in Node : el[n].role = "Follower" /\ el[n].granted = NoPair /\ disk[n] = NoPair
      BY <2>1, Zenon DEF Init, Recovered
    <2>3. \A n \in Node : Backed(n, el[n])  BY <2>2, Zenon DEF Backed
    <2>. QED  BY <2>2, <2>3, NodeAssumption, Zenon DEF Init, RoundInv
  <1>2. TypeOK /\ NodesSane /\ RoundInv /\ [Next]_vars => RoundInv'
    <2>. SUFFICES ASSUME TypeOK, NodesSane, RoundInv, [Next]_vars PROVE RoundInv'  BY Zenon
    <2>1. CASE UNCHANGED vars  BY <2>1, Zenon DEF vars, RoundInv, Backed, Chosen, IsQuorum
    <2>2. CASE Advance  BY <2>2, Zenon DEF Advance, RoundInv, Backed, Chosen, IsQuorum
    <2>. QED  BY <2>1, <2>2, StepKinds, StepRounds, RestartRounds, Zenon
  <1>. QED  BY <1>1, <1>2, NodesStaySane, PTL DEF Spec
=============================================================================
