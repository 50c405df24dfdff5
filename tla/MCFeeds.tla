------------------------------ MODULE MCFeeds ------------------------------
(***************************************************************************)
(* Small instances of the write feeds and of what follows them.  A         *)
(* behaviour is one of the session tier (Session) or one of a hosted       *)
(* follower (Lineage); part says which, and the other stays as it began.   *)
(***************************************************************************)
EXTENDS Naturals, Sequences

CONSTANTS Parts, SessionSetups, LineageSetups

VARIABLES
    part,
    feed_setup, feed, entry, past, confirmed, view, sub, frontier, acked, stale, written, told,
    setup, begun, ring, lead, serving, seen, dirty, cursor, queue, lin, parked, hand, last

S == INSTANCE Session WITH
        Reader <- {1, 2}, Setups <- SessionSetups,
        setup <- feed_setup, ring <- feed, seen <- view

L == INSTANCE Lineage WITH
        Host <- {1, 2, 3}, Me <- 1, Nobody <- 0, Setups <- LineageSetups

session ==
    <<feed_setup, feed, entry, past, confirmed, view, sub, frontier, acked, stale, written, told>>

lineage ==
    <<setup, begun, ring, lead, serving, seen, dirty, cursor, queue, lin, parked, hand, last>>

vars == <<part, session, lineage>>

-----------------------------------------------------------------------------
(* Feeds: two or three writes in up to three lives.                        *)

Writer ==
    [capacity |-> 2, roomy |-> FALSE, garbled |-> {}, refuses |-> FALSE,
     readers |-> {1}, roster |-> {}, early |-> FALSE,
     max_writes |-> 3, max_lives |-> 1, max_stale |-> 0]

\* Two lives, the first sealed or not, and a frame of it seen again.
Lives == [Writer EXCEPT !.max_lives = 2, !.max_stale = 1, !.refuses = TRUE, !.max_writes = 2]

\* A ring that loses its oldest writes, one of which does not decode.
Evicting == [Writer EXCEPT !.garbled = {2}, !.refuses = TRUE]

\* Writes retired as soon as they are confirmed.
Retiring == [Writer EXCEPT !.roomy = TRUE, !.roster = {1}]

\* Two subscribers, both of which the writer waits for.
Both == [Retiring EXCEPT !.readers = {1, 2}, !.roster = {1, 2}, !.early = TRUE, !.max_writes = 2]

SmallFeeds == {Lives, Evicting, Retiring, Both}

\* A life between two that a subscriber sees.
Unseen == {[Writer EXCEPT !.max_lives = 3, !.max_writes = 1, !.early = TRUE]}

-----------------------------------------------------------------------------
(* Lineages: two or three epochs, some of them the follower's own.         *)

Hosts ==
    [hosts |-> <<2, 3>>, capacity |-> 2, garbled |-> {}, held_cap |-> 8,
     lapses |-> FALSE, drained |-> TRUE, max_writes |-> 2]

\* Hand-overs between other nodes, one of which comes back.
Handovers == [Hosts EXCEPT !.hosts = <<2, 3, 2>>, !.max_writes = 1]

\* The follower takes over and hands on.
OwnTurn == [Hosts EXCEPT !.hosts = <<2, 1, 3>>]

\* A ring of one write, keys that do not decode, room to hold one event.
Tight == [Hosts EXCEPT !.hosts = <<2>>, !.capacity = 1, !.garbled = {2}, !.held_cap = 1,
                       !.max_writes = 4]

\* A watch whose host lapses and comes back.
Flickering == [OwnTurn EXCEPT !.lapses = TRUE, !.max_writes = 1]

SmallLineages == {Handovers, OwnTurn, Tight, Flickering}

-----------------------------------------------------------------------------
Init ==
    /\ part \in Parts
    /\ S!Init /\ (part # "session" => feed_setup = Lives)
    /\ L!Init /\ (part # "lineage" => setup = Tight)

Next ==
    \/ part = "session" /\ S!Next /\ UNCHANGED <<part, lineage>>
    \/ part = "lineage" /\ L!Next /\ UNCHANGED <<part, session>>

Spec == Init /\ [][Next]_vars

FairSpec ==
    /\ Spec
    /\ \/ part = "session" /\ S!Fairness
       \/ part = "lineage" /\ L!Fairness

-----------------------------------------------------------------------------
(* What the runs check.                                                    *)

\* A write that a subscriber's frontier covers was delivered to it, or a gap that
\* covers it was: through eviction, retirement, restarts and a seal that gossip
\* never showed, counted from where the subscriber came in (peers.rs, reconcile).
\* Retiring what the whole roster has confirmed costs none of its members a gap
\* (WriteFeed::retire_through after applied_by_roster).
NoSilentSkip == S!NoSilentSkip /\ S!RetirementGapless

\* PeerWrites says that "no write is ever silently skipped": the writes that had
\* left the window before a running subscriber first saw it are included.
NeverSilent == S!NeverSilent

\* A subscriber delivers each write once and in the writer's order, across lives
\* and stale frames (peers.rs, reconcile).
InOrder == S!InOrder

\* What a follower applies is one history: a write directly follows the write or
\* gap before it, no deposed host's write comes after a later lineage has opened
\* (Lineage::admit, deliver, open_with), and a node that has begun to serve an
\* epoch is handed no write of an earlier one (HostedReads::cut_to_service).
OneHistory == L!OneHistory /\ L!FencedByService

\* Once the writer is quiet, each subscriber reaches the end of its feed, also when
\* the last advertisement was refused and had to be republished (PeerWrites::next).
\* A follower applies the open lineage to its end, so a recovering host has drained
\* what its predecessor published, and applies the writes of the host that the
\* watch names, whatever arrived before (HostedReads::next, Lineage::hold, adopt).
CatchesUp ==
    /\ part = "session" => S!CatchesUp
    /\ part = "lineage" => L!TailDrained /\ L!HostFollowed
=============================================================================
