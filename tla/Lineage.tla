------------------------------ MODULE Lineage ------------------------------
(***************************************************************************)
(* One follower of a hosted write path: the feeds of successive hosts, its *)
(* PeerWrites cursors (consistency/src/peers.rs), and the lineage machine  *)
(* that makes one ordered stream of them (hosted/lineage.rs, reads.rs).    *)
(*                                                                         *)
(* The election is abstract: epochs begin one after the other, each with   *)
(* its host; the follower's leadership watch moves to any begun epoch      *)
(* above its own, and its host may lapse and come back.  A deposed host    *)
(* may go on publishing at its epoch.  The follower may be a host itself   *)
(* and then begins to serve (HostedWrites::admit_now) once recovered.      *)
(***************************************************************************)
EXTENDS Feed

CONSTANTS
    Host,   \* the nodes that host, the follower included
    Me,     \* the follower
    Nobody, \* no host
    Setups  \* the setups explored

Setup ==
    [hosts : Seq(Host),       \* the host of each epoch
     capacity : Nat \ {0},    \* writes a ring holds
     garbled : SUBSET Nat,    \* sequence numbers whose keys do not decode
     held_cap : Nat \ {0},    \* HELD_CAP
     lapses : BOOLEAN,        \* whether the watch's host may lapse and come back
     drained : BOOLEAN,       \* whether service waits for the event being applied
     max_writes : Nat]        \* bound: writes of one epoch

VARIABLES
    setup,
    begun,   \* how many epochs have begun
    ring,    \* ring[h]: h's feed, of the last epoch it published at
    lead,    \* the follower's leadership watch
    serving, \* the epoch its write path serves, shared with the reader
    seen,    \* seen[h]: the frame of h in the follower's view
    dirty,   \* the peers whose entry changed since the last scan
    cursor,  \* cursor[h]
    queue,   \* PeerWrites' queue of events
    lin,     \* the lineage machine
    parked,  \* whether next has found nothing and waits
    hand,    \* the event the application is applying
    last     \* history: the last write or gap applied

vars == <<setup, begun, ring, lead, serving, seen, dirty, cursor, queue, lin, parked, hand, last>>

feeds == <<setup, begun, ring>>
peers == <<seen, dirty, cursor, queue>>
loop == <<lin, parked, hand, last>>

None == [kind |-> "None"]

Migrated(e, h) == [kind |-> "Migrated", epoch |-> e, host |-> h]

Closed == [epoch |-> 0, host |-> Nobody, next |-> 0]

NewLineage ==
    [epoch |-> 0, host |-> Nobody, open |-> Closed, pending |-> <<>>, held |-> <<>>, floor |-> 0]

-----------------------------------------------------------------------------
(* Lineage, as functions of the machine and an event [kind, token, peer].  *)

\* deliver: what was delivered already is dropped, a jump is a gap.
Deliver(l, ev) ==
    LET s == ev.token.seq
        jump == IF ev.kind = "Wrote" /\ s > l.open.next
                THEN <<Gap(ev.token.epoch, s - 1)>> ELSE <<>>
    IN IF s < l.open.next THEN l
       ELSE [l EXCEPT !.pending = @ \o jump \o <<[kind |-> ev.kind, token |-> ev.token]>>,
                      !.open.next = s + 1]

\* open_with: one gap through the sequence before the first visible write.
OpenWith(l, ev) ==
    LET first == IF ev.kind = "Wrote" THEN ev.token.seq ELSE ev.token.seq + 1
        open == [l EXCEPT !.pending = Append(@, Gap(ev.token.epoch, first - 1)),
                          !.open = [epoch |-> ev.token.epoch, host |-> ev.peer, next |-> first]]
    IN IF ev.kind = "Wrote" THEN Deliver(open, ev) ELSE open

\* hold: the oldest held event makes room.
Hold(l, ev) ==
    [l EXCEPT !.held = Append(IF Len(@) >= setup.held_cap THEN Tail(@) ELSE @, ev)]

\* Mutant: an earlier lineage is still delivered once a later one has opened.
AdmitLate(l, ev) ==
    LET e == ev.token.epoch IN
    CASE e < l.floor -> l
      [] e >= l.floor /\ e = l.open.epoch -> IF ev.peer = l.open.host THEN Deliver(l, ev) ELSE l
      [] e >= l.floor /\ e # l.open.epoch /\ e > l.epoch -> Hold(l, ev)
      [] OTHER -> IF ev.peer = setup.hosts[e] THEN OpenWith(l, ev) ELSE l

\* admit: the event's epoch against the cut, the open lineage and the adopted pair.
Admit(l, ev) ==
    LET e == ev.token.epoch IN
    CASE e < l.floor \/ e < l.open.epoch -> l
      [] e >= l.floor /\ e = l.open.epoch -> IF ev.peer = l.open.host THEN Deliver(l, ev) ELSE l
      [] e >= l.floor /\ e > l.open.epoch /\ e < l.epoch -> l
      [] e >= l.floor /\ e > l.open.epoch /\ e > l.epoch -> Hold(l, ev)
      [] OTHER -> IF ev.peer = l.host THEN OpenWith(l, ev) ELSE l

\* adopt: the new pair is announced, and what was held is judged again.
Adopt(l, pair) ==
    IF pair.epoch = l.epoch /\ pair.host = l.host THEN l
    ELSE LET announced == [l EXCEPT !.epoch = pair.epoch, !.host = pair.host, !.held = <<>>,
                                    !.pending = Append(@, Migrated(pair.epoch, pair.host))]
             judged[i \in 0 .. Len(l.held)] ==
                 IF i = 0 THEN announced
                 ELSE CHOOSE r \in {Admit(p, l.held[i]) : p \in {judged[i - 1]}} : TRUE
         IN judged[Len(l.held)]

\* cut: everything below the serving epoch is dead, what is queued included.
Cut(l, e) ==
    IF e <= l.floor THEN l
    ELSE [l EXCEPT !.floor = e,
                   !.open = IF @.epoch < e THEN Closed ELSE @,
                   !.pending = SelectSeq(@, LAMBDA ev : ev.kind = "Migrated" \/ ev.token.epoch >= e),
                   !.held = SelectSeq(@, LAMBDA ev : ev.token.epoch >= e)]

-----------------------------------------------------------------------------
(* The group: epochs begin, hosts publish, the watch moves.                *)

Begin ==
    /\ begun < Len(setup.hosts)
    /\ begun' = begun + 1
    /\ UNCHANGED <<setup, ring, lead, serving, peers, loop>>

\* publish at epoch e: feed_for starts a new life for a new epoch.
Publish(h, e) ==
    LET r == IF ring[h].epoch = e THEN ring[h] ELSE NewRing(e) IN
    /\ h # Me /\ setup.hosts[e] = h
    /\ ring[h].epoch <= e /\ End(r) <= setup.max_writes
    /\ ring' = [ring EXCEPT ![h] =
                 Push(r, IF r.len < setup.capacity THEN r.len + 1 ELSE setup.capacity)]
    /\ UNCHANGED <<setup, begun, lead, serving, peers, loop>>

Gossip(h) ==
    /\ seen[h] # ring[h]
    /\ seen' = [seen EXCEPT ![h] = ring[h]]
    /\ dirty' = dirty \cup {h}
    /\ UNCHANGED <<feeds, lead, serving, cursor, queue, loop>>

\* The watch adopts a begun epoch.
Lead(e) ==
    /\ lead.epoch < e
    /\ lead' = [epoch |-> e, host |-> setup.hosts[e]]
    /\ UNCHANGED <<feeds, serving, peers, loop>>

\* Its host lapses, or is heard again at the same epoch.
Lapse ==
    /\ setup.lapses /\ lead.epoch > 0
    /\ lead' = [lead EXCEPT !.host = IF @ = Nobody THEN setup.hosts[lead.epoch] ELSE Nobody]
    /\ UNCHANGED <<feeds, serving, peers, loop>>

\* admit_now at a recovered host: from here on it serves the epoch.
Serve ==
    /\ lead.host = Me /\ serving < lead.epoch
    /\ setup.drained => hand = None
    /\ serving' = lead.epoch
    /\ UNCHANGED <<feeds, lead, peers, loop>>

-----------------------------------------------------------------------------
(* HostedReads::next, one turn at a time.                                  *)

\* The top of a turn: adopt the watch, take the cut, hand an event back or wait.
Turn ==
    /\ hand = None /\ ~parked
    /\ \E l \in {Cut(Adopt(lin, lead), serving)} :
        IF l.pending # <<>>
        THEN hand' = Head(l.pending) /\ lin' = [l EXCEPT !.pending = Tail(@)] /\ parked' = FALSE
        ELSE hand' = None /\ lin' = l /\ parked' = TRUE
    /\ UNCHANGED <<feeds, lead, serving, peers, last>>

\* PeerWrites::next with its queue empty: a changed entry is reconciled.
Scan(h) ==
    LET next == Reconcile(IF cursor[h] = NoCursor THEN FirstSeen(seen[h]) ELSE cursor[h],
                          seen[h], setup.garbled)
    IN /\ parked /\ queue = <<>> /\ h \in dirty
       /\ cursor' = [cursor EXCEPT ![h] = next.cursor]
       /\ queue' = [i \in DOMAIN next.events |->
                      [kind |-> next.events[i].kind, token |-> next.events[i].token, peer |-> h]]
       /\ dirty' = dirty \ {h}
       /\ UNCHANGED <<feeds, lead, serving, seen, loop>>

\* The wait ends with a peer's event, admitted under the pair adopted before it.
Wake ==
    /\ parked /\ queue # <<>>
    /\ lin' = Admit(lin, Head(queue))
    /\ queue' = Tail(queue)
    /\ parked' = FALSE
    /\ UNCHANGED <<feeds, lead, serving, seen, dirty, cursor, hand, last>>

\* The wait ends with a leadership event.
LeadershipSignal ==
    /\ parked
    /\ lead.epoch # lin.epoch \/ lead.host # lin.host
    /\ parked' = FALSE
    /\ UNCHANGED <<feeds, lead, serving, peers, lin, hand, last>>

\* The application is done with the event it was handed.
Apply ==
    /\ hand # None
    /\ last' = IF hand.kind = "Migrated" THEN last ELSE hand.token
    /\ hand' = None
    /\ UNCHANGED <<feeds, lead, serving, peers, lin, parked>>

-----------------------------------------------------------------------------
Init ==
    /\ setup \in Setups
    /\ begun = 0
    /\ ring = [h \in Host |-> NewRing(0)]
    /\ lead = [epoch |-> 0, host |-> Nobody]
    /\ serving = 0
    /\ seen = [h \in Host |-> NewRing(0)]
    /\ dirty = {}
    /\ cursor = [h \in Host |-> NoCursor]
    /\ queue = <<>>
    /\ lin = NewLineage
    /\ parked = FALSE
    /\ hand = None
    /\ last = Zero

Next ==
    \/ Begin \/ Lapse \/ Serve
    \/ \E e \in 1 .. begun : Lead(e) \/ \E h \in Host : Publish(h, e)
    \/ \E h \in Host : Gossip(h) \/ Scan(h)
    \/ Turn \/ Wake \/ LeadershipSignal \/ Apply

Spec == Init /\ [][Next]_vars

\* Gossip reaches the follower and its loop keeps running.
Fairness ==
    /\ WF_vars(Turn) /\ WF_vars(Wake) /\ WF_vars(LeadershipSignal) /\ WF_vars(Apply)
    /\ \A h \in Host : WF_vars(Gossip(h)) /\ WF_vars(Scan(h))

FairSpec == Spec /\ Fairness

-----------------------------------------------------------------------------
Event == [kind : {"Wrote", "Gap"}, token : [epoch : Nat, seq : Nat]]

\* The machine's parts keep their type; nothing is queued or open below the cut,
\* and nothing is held that the adopted epoch already admits.
TypeOK ==
    /\ setup \in Setups
    /\ lin.epoch <= lead.epoch /\ lead.epoch <= begun
    /\ lin.floor <= serving /\ serving <= lead.epoch
    /\ lin.open = Closed \/ lin.open.epoch >= lin.floor
    /\ \A i \in DOMAIN lin.pending :
         lin.pending[i].kind = "Migrated" \/ lin.pending[i] \in Event
    /\ Len(lin.held) <= setup.held_cap
    /\ \A i \in DOMAIN lin.held : lin.held[i].token.epoch > lin.epoch

\* The stream of events the application applies is one ordered history without a
\* hole: a write directly follows the last write or gap, a gap goes forward, so
\* no write of a deposed host comes after a later lineage has opened, none comes
\* twice, and none is missing that no gap covers (Lineage::admit, deliver).
OneHistory ==
    [][(hand'.kind \in {"Wrote", "Gap"} /\ hand = None) =>
         IF hand'.kind = "Wrote"
         THEN last = Token(hand'.token.epoch, hand'.token.seq - 1)
         ELSE Before(last, hand'.token)]_vars

\* A serving host is handed no write of an earlier hostship (cut_to_service).
FencedByService ==
    [][(hand'.kind = "Wrote" /\ hand = None) => hand'.token.epoch >= serving]_vars

Decodable(r) == End(r) - 1 \notin setup.garbled

\* A follower drains the lineage it is in, a recovering host its predecessor's:
\* once all is quiet, the whole of the open lineage has been applied.
TailDrained ==
    <>[](\A h \in Host :
           (lin.open.host = h /\ ring[h].epoch = lin.open.epoch /\ Decodable(ring[h]))
               => last = LastToken(ring[h]))

Followed(h) ==
    (lead.host = h /\ ring[h].epoch = lead.epoch /\ Decodable(ring[h])) => last = LastToken(ring[h])

\* The writes of the host the watch names are applied in the end, unless its host
\* lapsed: an event that arrives while the watch names nobody opens no lineage.
HostFollowed == ~setup.lapses => <>[](\A h \in Host \ {Me} : Followed(h))
=============================================================================
