------------------------------- MODULE Entries -------------------------------
(***************************************************************************)
(* Anti-entropy of one member's keyed state: what its author writes and    *)
(* deletes, and how digests, delta requests and delta frames bring every   *)
(* observer to the same entries.  Models core's engine/command.rs (entry   *)
(* commands), engine/merge.rs (delta merge, own echo, content hash),       *)
(* engine/anti_entropy.rs (rounds, wants and offers, truncated deltas,     *)
(* eager push), the delta arm of engine/state.rs's on_message and the      *)
(* entry half of membership.rs and liveness.rs.                            *)
(*                                                                         *)
(* Every member is the author of its own entries and merging one member's  *)
(* never reads another's, so one author is modelled.  Membership is known  *)
(* throughout.  A content hash is the set it hashes: collisions are left   *)
(* out.  A delta frame holds a few entries.  Deadlines are kept as ticks  *)
(* left, so that time itself is unbounded.  Any round may list the author, *)
(* as its rolling window and its full digests make it do.                  *)
(***************************************************************************)
EXTENDS Integers, FiniteSets, FiniteSetsExt

CONSTANTS
    Node,    \* node ids
    Author,  \* the node whose entries these are
    Setups   \* the deployments and environments considered

\* A deployment, and what its environment may do to it.
Setup ==
    [observers : SUBSET (Node \ {Author}),  \* the other nodes of the group
     keys : SUBSET Nat,
     values : SUBSET (Nat \ {0}),  \* ordered as the tiebreak orders bytes
     ttl : Nat,                    \* TTL of every write, in ticks; 0 = none
     dead_timeout : Nat,           \* dead_timeout_ms, in ticks
     budget : Nat \ {0},           \* entries in a delta frame (max_delta_frame_bytes)
     eager_push : BOOLEAN,
     deletes : BOOLEAN,            \* whether the author deletes keys
     timely : BOOLEAN,             \* whether frames are answered or lost before the next round
     informed : BOOLEAN,           \* whether frames and tombstones reach every node in time
     max_writes : Nat,             \* bound: writes and deletes of the author
     max_restarts : Nat,           \* bound: restarts of the author
     max_lost : Nat,               \* bound: frames lost
     max_net : Nat]                \* bound: frames in flight

ASSUME EntriesAssumption ==
    /\ Author \in Node /\ Setups \subseteq Setup
    /\ \A s \in Setups : IsFiniteSet(s.keys)

VARIABLES
    setup,     \* the deployment, fixed
    member,    \* member[n]: the author's record at n: high-water mark and entries
    authored,  \* keys the author wrote since it started
    net,       \* frames in flight
    writes, restarts, lost,  \* how often each bounded event happened
    buried     \* history: buried[n][k], the highest tombstone n has held for k

vars == <<setup, member, authored, net, writes, restarts, lost, buried>>
bounds == <<writes, restarts, lost>>

Observer == setup.observers
Member == {Author} \cup Observer
Key == setup.keys
Value == setup.values
Ttl == setup.ttl
DeadTimeout == setup.dead_timeout

-----------------------------------------------------------------------------
(* The record.  left: ticks to the entry's reap, for a live one its TTL.   *)

NoEntry == [version |-> 0, tombstone |-> FALSE, value |-> 0, ttl |-> 0, left |-> 0]

Fresh == [max_state_version |-> 0, entries |-> [k \in Key |-> NoEntry]]

Held(n, k) == member[n].entries[k]

Adopted(version, value, ttl, tombstone) ==
    [version |-> version, value |-> value, ttl |-> ttl, tombstone |-> tombstone,
     left |-> IF tombstone THEN 2 * DeadTimeout ELSE ttl]

Limited(e) == e # NoEntry /\ (e.tombstone \/ e.ttl > 0)

Due(e) == Limited(e) /\ e.left = 0

ShouldGossip(e) ==
    /\ e # NoEntry
    /\ IF e.tombstone THEN e.left > DeadTimeout ELSE ~Due(e)

Wire(k, e) ==
    [key |-> k, version |-> e.version, tombstone |-> e.tombstone,
     value |-> e.value, ttl |-> e.ttl]

\* What n advertises of the author, as carried by a frame.
Advertised(m) == {Wire(k, m.entries[k]) : k \in {j \in Key : ShouldGossip(m.entries[j])}}

\* A read of key k at n: 0 when absent.
View(n, k) == IF Held(n, k).tombstone THEN 0 ELSE Held(n, k).value

-----------------------------------------------------------------------------
(* Frames.                                                                 *)

Digest(n, to, m) ==
    [kind |-> "Digest", from |-> n, to |-> to, max |-> m.max_state_version,
     hash |-> {<<e.key, e.version, e.tombstone, e.value>> : e \in Advertised(m)}]

Request(n, to, have) == [kind |-> "DeltaRequest", from |-> n, to |-> to, have |-> have]

\* The setup.budget lowest versions among es, the key deciding between equal ones.
Rank(e, es) ==
    Cardinality({f \in es : \/ f.version < e.version
                            \/ f.version = e.version /\ f.key < e.key})

\* Mutant: a truncated frame advertises the full high-water mark.
DeltaUnmarked(n, to, have, m) ==
    LET qualifying == {e \in Advertised(m) : e.version > have}
        sent == {e \in qualifying : Rank(e, qualifying) < setup.budget}
    IN IF sent # {} \/ m.max_state_version > have
       THEN {[kind |-> "Delta", from |-> n, to |-> to,
              max |-> m.max_state_version, entries |-> sent]}
       ELSE {}

\* The delta n builds for a peer that has everything up to have: nothing when
\* there is neither an entry nor a high-water mark to tell.
Delta(n, to, have, m) ==
    LET qualifying == {e \in Advertised(m) : e.version > have}
        sent == {e \in qualifying : Rank(e, qualifying) < setup.budget}
        top == Max({have} \cup {e.version : e \in sent})
        max == IF sent = qualifying THEN Max({m.max_state_version, top}) ELSE top
    IN IF sent # {} \/ max > have
       THEN {[kind |-> "Delta", from |-> n, to |-> to, max |-> max, entries |-> sent]}
       ELSE {}

\* Puts frames on the wire, some of them lost; a full network takes only some.
Send(gone, frames) ==
    \E drop \in SUBSET frames :
        LET rest == net \ gone
            full == Cardinality(rest \cup frames) > setup.max_net
            loss == IF full THEN 0 ELSE Cardinality(drop)
        IN
        /\ Cardinality(rest \cup (frames \ drop)) <= setup.max_net
        /\ lost + loss <= setup.max_lost
        /\ net' = rest \cup (frames \ drop)
        /\ lost' = lost + loss

Buried(n, m) ==
    [k \in Key |-> IF m.entries[k].tombstone
                   THEN Max({buried[n][k], m.entries[k].version}) ELSE buried[n][k]]

\* n's record becomes m.
Store(n, m) ==
    /\ member' = [member EXCEPT ![n] = m]
    /\ buried' = [buried EXCEPT ![n] = Buried(n, m)]

-----------------------------------------------------------------------------
(* The author's commands.                                                  *)

\* The unsolicited delta after a local write: the entry just written.
Pushed(m, targets) ==
    IF setup.eager_push
    THEN UNION {Delta(Author, to, m.max_state_version - 1, m) : to \in targets}
    ELSE {}

Author_Put(k, value, ttl, tombstone) ==
    LET version == member[Author].max_state_version + 1
        m == [max_state_version |-> version,
              entries |-> [member[Author].entries EXCEPT
                             ![k] = Adopted(version, value, ttl, tombstone)]]
    IN
    /\ writes < setup.max_writes
    /\ writes' = writes + 1
    /\ Store(Author, m)
    /\ authored' = authored \cup {k}
    /\ \E targets \in SUBSET Observer : Send({}, Pushed(m, targets))
    /\ UNCHANGED <<setup, restarts>>

SetLocalEntry(k, v) == Author_Put(k, v, Ttl, FALSE)

DeleteLocalEntry(k) == setup.deletes /\ Author_Put(k, 0, 0, TRUE)

-----------------------------------------------------------------------------
(* Frame handlers.                                                         *)

\* on_digest: ask for what the sender has beyond us, offer what we have
\* beyond it, and exchange everything when only the contents differ.
Answer(n, f) ==
    LET m == member[n] IN
    IF f.max > m.max_state_version THEN {Request(n, f.from, m.max_state_version)}
    ELSE IF f.max < m.max_state_version THEN Delta(n, f.from, f.max, m)
    ELSE IF f.hash # Digest(n, f.from, m).hash
         THEN {Request(n, f.from, 0)} \cup Delta(n, f.from, 0, m)
         ELSE {}

OnDigest(n, f) ==
    /\ f.kind = "Digest"
    /\ Send({f}, Answer(n, f))
    /\ UNCHANGED <<setup, member, authored, writes, restarts, buried>>

OnDeltaRequest(n, f) ==
    /\ f.kind = "DeltaRequest"
    /\ Send({f}, Delta(n, f.from, f.have, member[n]))
    /\ UNCHANGED <<setup, member, authored, writes, restarts, buried>>

\* The entry of key k that a frame carries, if any.
Carried(f, k) == {e \in f.entries : e.key = k}

\* Mutant: any live entry replaces a tombstone.
BeatsTombstone(e, cur) == cur.tombstone \/ e.version > cur.version

Beats(e, cur) ==
    \/ e.version > cur.version
    \/ e.version = cur.version /\ e.tombstone /\ ~cur.tombstone
    \/ e.version = cur.version /\ e.tombstone = cur.tombstone /\ e.value > cur.value

AdoptWire(e) == Adopted(e.version, e.value, e.ttl, e.tombstone)

\* Mutant: nothing raises the high-water mark.
MergePeerDeltaUnmarked(m, f) ==
    [max_state_version |-> m.max_state_version,
     entries |-> [k \in Key |-> LET won == {e \in Carried(f, k) : Beats(e, m.entries[k])} IN
                    IF won = {} THEN m.entries[k] ELSE AdoptWire(CHOOSE e \in won : TRUE)]]

\* merge_peer_delta: per-key last writer wins, every version seen and the
\* advertised maximum raise the high-water mark.
MergePeerDelta(m, f) ==
    [max_state_version |->
        Max({m.max_state_version, f.max} \cup {e.version : e \in f.entries}),
     entries |->
        [k \in Key |->
            LET cur == m.entries[k]
                better == {e \in Carried(f, k) : cur = NoEntry \/ Beats(e, cur)}
            IN IF better = {} THEN cur ELSE AdoptWire(CHOOSE e \in better : TRUE)]]

\* Mutant: an echo at our own version is taken for ours.
UndominatedAbove(cur, e) == cur = NoEntry \/ e.version > cur.version

\* Echoes of our own entries that we do not dominate already.
Undominated(cur, e) ==
    \/ cur = NoEntry \/ e.version > cur.version
    \/ e.version = cur.version /\ (e.value # cur.value \/ e.tombstone # cur.tombstone)

\* Mutant: an echo replaces what was written since the start.
MergeOwnEchoAdopting(m, f) == MergePeerDelta(m, f)

\* merge_own_echo: a key not written since the start is taken back; one that
\* was keeps our value, above the echo's version.  Our own mark follows the
\* entries only.
MergeOwnEcho(m, f) ==
    LET echo(k) == {e \in Carried(f, k) : Undominated(m.entries[k], e)}
        merged == [k \in Key |->
                     LET cur == m.entries[k] IN
                     IF echo(k) = {} \/ (k \in authored /\ cur = NoEntry) THEN cur
                     ELSE LET e == CHOOSE x \in echo(k) : TRUE IN
                          IF k \in authored THEN [cur EXCEPT !.version = e.version + 1]
                          ELSE AdoptWire(e)]
    IN [max_state_version |->
          Max({m.max_state_version} \cup
              {merged[k].version : k \in {j \in Key : merged[j] # m.entries[j]}}),
        entries |-> merged]

\* A truncated backfill is continued from where the frame stopped.
Continuation(n, f, m) ==
    IF n # Author /\ f.entries # {} /\ m.max_state_version > f.max
    THEN {Request(n, f.from, f.max)} ELSE {}

Merge(n, m, f) == IF n = Author THEN MergeOwnEcho(m, f) ELSE MergePeerDelta(m, f)

OnDelta(n, f) ==
    /\ f.kind = "Delta"
    /\ LET m == Merge(n, member[n], f) IN
        /\ Store(n, m)
        /\ Send({f}, Continuation(n, f, m))
    /\ UNCHANGED <<setup, authored, writes, restarts>>

Receive(n) ==
    \E f \in net :
        /\ f.to = n
        /\ OnDigest(n, f) \/ OnDeltaRequest(n, f) \/ OnDelta(n, f)

-----------------------------------------------------------------------------
(* Ticks: reap what is due, then perhaps run a round.                      *)

Reaped(m) == [m EXCEPT !.entries = [k \in Key |-> IF Due(@[k]) THEN NoEntry ELSE @[k]]]

Tick(n) ==
    /\ n \in Member /\ Reaped(member[n]) # member[n]
    /\ Store(n, Reaped(member[n]))
    /\ UNCHANGED <<setup, authored, net, bounds>>

Round(n, to) ==
    /\ n # to /\ {n, to} \subseteq Member
    /\ setup.timely => net = {}
    /\ Store(n, Reaped(member[n]))
    /\ Send({}, {Digest(n, to, Reaped(member[n]))})
    /\ UNCHANGED <<setup, authored, writes, restarts>>

-----------------------------------------------------------------------------
(* The environment: time, and a restart of the author without its state.   *)

Aged(e) == IF Limited(e) /\ e.left > 0 THEN [e EXCEPT !.left = @ - 1] ELSE e

\* With setup.informed, no frame outlives a tick and a tombstone stops being gossiped
\* only once every node has that version of the key.
Overtaken ==
    \E n \in Member, k \in Key :
        /\ Held(n, k).tombstone /\ Held(n, k).left = DeadTimeout + 1
        /\ \E p \in Member : Held(p, k).version < Held(n, k).version

Advance ==
    /\ \E n \in Member, k \in Key : Limited(Held(n, k))
    /\ setup.timely \/ setup.informed => net = {}
    /\ setup.timely => \A n \in Member, k \in Key : ~Due(Held(n, k))
    /\ ~(setup.informed /\ Overtaken)
    /\ member' = [n \in Member |->
                    [member[n] EXCEPT !.entries = [k \in Key |-> Aged(@[k])]]]
    /\ UNCHANGED <<setup, authored, net, bounds, buried>>

Restart ==
    /\ restarts < setup.max_restarts
    /\ restarts' = restarts + 1
    /\ member' = [member EXCEPT ![Author] = Fresh]
    /\ authored' = {}
    /\ buried' = [buried EXCEPT ![Author] = [k \in Key |-> 0]]
    /\ UNCHANGED <<setup, net, writes, lost>>

-----------------------------------------------------------------------------
Init ==
    /\ setup \in Setups
    /\ member = [n \in Member |-> Fresh]
    /\ authored = {}
    /\ net = {}
    /\ writes = 0 /\ restarts = 0 /\ lost = 0
    /\ buried = [n \in Member |-> [k \in Key |-> 0]]

Next ==
    \/ \E k \in Key, v \in Value : SetLocalEntry(k, v)
    \/ \E k \in Key : DeleteLocalEntry(k)
    \/ \E n \in Member : Receive(n) \/ Tick(n)
    \/ \E n, to \in Member : Round(n, to)
    \/ Advance
    \/ Restart

Spec == Init /\ [][Next]_vars

\* Due ticks run, time passes and frames on the wire arrive; every node keeps
\* running rounds, and its rotating cursor reaches every peer.
Fairness ==
    /\ \A n \in Node : WF_vars(Receive(n)) /\ WF_vars(Tick(n))
    /\ \A n \in Node : \A to \in Node \ {n} : SF_vars(Round(n, to))
    /\ SF_vars(Advance)

FairSpec == Spec /\ Fairness

-----------------------------------------------------------------------------
Entry == [version : Nat, tombstone : BOOLEAN, value : Value \cup {0}, ttl : {0, Ttl},
          left : 0 .. Max({2 * DeadTimeout, Ttl})]

WireEntry == [key : Key, version : Nat \ {0}, tombstone : BOOLEAN,
              value : Value \cup {0}, ttl : {0, Ttl}]

\* Every record, frame and counter keeps its type; a high-water mark is never
\* below an entry held beside it.
TypeOK ==
    /\ \A n \in Member :
        /\ member[n].max_state_version \in Nat
        /\ \A k \in Key : /\ Held(n, k) \in Entry
                          /\ Held(n, k).version <= member[n].max_state_version
    /\ authored \subseteq Key
    /\ \A f \in net :
        /\ {f.from, f.to} \subseteq Member /\ f.from # f.to
        /\ f.kind = "Digest" => f.max \in Nat
        /\ f.kind = "DeltaRequest" => f.have \in Nat
        /\ f.kind = "Delta" => f.max \in Nat /\ f.entries \in SUBSET WireEntry

\* The high-water mark a node advertises covers the author's live entries up to
\* it: whatever is cut from a frame, lost or late, no digest makes peers believe
\* that a node has an entry it still lacks (build_delta_frame's max_version).  An
\* eager push jumps the mark on purpose, and a restarted author reuses versions:
\* there the content hash does the repair, and Converges is what holds.
HighWaterCovers ==
    ~setup.eager_push /\ restarts = 0 =>
    \A n \in Observer, k \in Key :
        LET e == Held(Author, k) IN
        (e # NoEntry /\ ~Limited(e) /\ e.version <= member[n].max_state_version)
            => Held(n, k).version = e.version

\* membership.rs says of max_state_version that two observers reporting the same
\* high-water mark hold the identical set of the member's live entries.
SummaryExact ==
    \A n, p \in Observer :
        member[n].max_state_version = member[p].max_state_version
            => \A k \in Key : View(n, k) = View(p, k)

\* Once a node has held a tombstone of a key, reaped since or not, no value the
\* tombstone deleted is read there again (reap_entries: "can never ... resurrect").
NoResurrection ==
    \A n \in Member, k \in Key :
        View(n, k) # 0 => Held(n, k).version > buried[n][k]

\* A key the author wrote since it started keeps the value written until the
\* author writes it again, deletes it, restarts or lets it lapse: no echo from a
\* peer replaces it (merge_own_echo's sole-author rule).
AuthoredKept ==
    [][(writes' = writes /\ restarts' = restarts) =>
         \A k \in authored : View(Author, k)' \in {View(Author, k), 0}
                             /\ (~Due(Held(Author, k)) => View(Author, k)' = View(Author, k))
      ]_vars

\* When the author stops writing, every node ends up reading what the author
\* reads, for good, restarts with reused versions included (digest, request,
\* delta, continuation and echo together).
Converges == <>[](\A n \in Member, k \in Key : View(n, k) = View(Author, k))

\* StateEntry says that entries converge to absent once the author stops
\* refreshing them: with a TTL on every write, no key is read for ever.
Lapses == <>[](\A n \in Member, k \in Key : View(n, k) = 0)
=============================================================================
