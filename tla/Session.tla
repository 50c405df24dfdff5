------------------------------- MODULE Session -------------------------------
(***************************************************************************)
(* The session tier: one writer's feed (feed.rs) and the subscribers that  *)
(* apply it (peers.rs), advance their frontier (frontier.rs) and           *)
(* acknowledge what they applied (acks.rs).  The writer publishes, seals,  *)
(* retires what a wait has confirmed, and restarts into a later life; an   *)
(* advertisement may be refused, gossip is late and may show a frame of an *)
(* earlier life again, and subscribers start at any time.                  *)
(*                                                                         *)
(* Feeds of different writers never interact, so one writer is modelled.   *)
(***************************************************************************)
EXTENDS Feed

CONSTANTS
    Reader, \* the subscribers
    Setups  \* the setups explored

Setup ==
    [capacity : Nat \ {0},  \* writes the ring holds
     roomy : BOOLEAN,       \* whether the ring evicts nothing
     garbled : SUBSET Nat,  \* sequence numbers whose keys do not decode
     refuses : BOOLEAN,     \* whether an advertisement may be refused
     readers : SUBSET Reader, \* the nodes that subscribe
     roster : SUBSET Reader,  \* whom the writer waits for
     early : BOOLEAN,       \* whether every subscriber starts before the writer
     max_writes : Nat,      \* bounds: writes in all,
     max_lives : Nat,       \*   lives of the writer,
     max_stale : Nat]       \*   frames of earlier lives seen again

VARIABLES
    setup,
    ring,      \* the writer's ring
    entry,     \* the frame in the writer's gossiped entry
    past,      \* the last frame each earlier life advertised
    confirmed, \* the latest token a wait has confirmed
    seen,      \* seen[r]: the frame in r's view of the group
    sub,       \* sub[r]: r's subscriber
    frontier,  \* frontier[r]: what r's application has applied
    acked,     \* acked[r]: r's ledger in the writer's view
    stale,     \* how many earlier frames were seen again
    written,   \* history: written[e], the writes of life e
    told       \* history: told[r], what r's application was told

writer == <<ring, entry, past, confirmed, written>>
reader == <<seen, sub, frontier, acked, stale, told>>
vars == <<setup, writer, reader>>

NoFrame == NewRing(0)

\* A subscriber: whether it runs, whether an entry change waits to be looked at,
\* its cursor and its queue of events.
Off == [on |-> FALSE, dirty |-> FALSE, cursor |-> NoCursor, pending |-> <<>>]

\* What an application was told: the end of the feed its subscriber attached to,
\* what had left the window it first saw otherwise, the writes delivered one by
\* one and the latest gap.
Nothing == [from |-> Zero, window |-> Zero, writes |-> {}, missed |-> Zero]

\* An advertisement is enqueued or refused.
Advertise(r) == entry' = r \/ (setup.refuses /\ entry' = entry)

-----------------------------------------------------------------------------
(* The writer.                                                             *)

Publish ==
    /\ ~ring.sealed
    /\ FoldFunction(+, 0, written) < setup.max_writes
    /\ \E kept \in (IF setup.roomy THEN {ring.len + 1} ELSE Kept(ring, setup.capacity)) :
        /\ ring' = Push(ring, kept)
        /\ Advertise(ring')
    /\ written' = [written EXCEPT ![ring.epoch] = @ + 1]
    /\ UNCHANGED <<setup, past, confirmed, reader>>

Seal ==
    /\ ~ring.sealed
    /\ ring' = [ring EXCEPT !.sealed = TRUE]
    /\ Advertise(ring')
    /\ UNCHANGED <<setup, past, confirmed, written, reader>>

\* applied_by_roster over the newest write, or over the seal.
Wait ==
    LET token == IF ring.sealed THEN Token(ring.epoch, End(ring)) ELSE LastToken(ring) IN
    /\ setup.roster # {} /\ End(ring) > 1
    /\ Before(confirmed, token)
    /\ \A r \in setup.roster : AtMost(token, acked[r])
    /\ confirmed' = token
    /\ UNCHANGED <<setup, ring, entry, past, written, reader>>

\* retire_through, as its contract asks: only what every reader has applied.
Retire ==
    /\ RetireThrough(ring, confirmed) # ring
    /\ ring' = RetireThrough(ring, confirmed)
    /\ Advertise(ring')
    /\ UNCHANGED <<setup, past, confirmed, written, reader>>

Republish ==
    /\ entry # ring
    /\ entry' = ring
    /\ UNCHANGED <<setup, ring, past, confirmed, written, reader>>

\* The writer's process ends, sealed or not, and a later life begins.  Its entry
\* stays what peers last saw until the new life advertises.
Restart ==
    /\ ring.epoch < setup.max_lives
    /\ ring' = NewRing(ring.epoch + 1)
    /\ past' = IF entry = NoFrame THEN past ELSE past \cup {entry}
    /\ UNCHANGED <<setup, entry, confirmed, written, reader>>

-----------------------------------------------------------------------------
(* The subscribers.                                                        *)

\* Mutant: a change is not noted while events are queued.
GossipUnnoted(r, f) ==
    /\ r \in setup.readers /\ f # seen[r] /\ f # NoFrame
    /\ f # entry => stale < setup.max_stale
    /\ seen' = [seen EXCEPT ![r] = f]
    /\ sub' = [sub EXCEPT ![r].dirty = sub[r].on /\ sub[r].pending = <<>>]
    /\ stale' = IF f = entry THEN stale ELSE stale + 1
    /\ UNCHANGED <<setup, writer, frontier, acked, told>>

\* The group's view of the entry changes; an earlier life's frame may come back
\* while peers that missed the new one still offer it.
Gossip(r, f) ==
    /\ r \in setup.readers /\ f # seen[r] /\ f # NoFrame
    /\ f # entry => stale < setup.max_stale
    /\ seen' = [seen EXCEPT ![r] = f]
    /\ sub' = [sub EXCEPT ![r].dirty = @ \/ sub[r].on]
    /\ stale' = IF f = entry THEN stale ELSE stale + 1
    /\ UNCHANGED <<setup, writer, frontier, acked, told>>

\* A subscriber starts: it follows a feed it can see from its end.
Attach(r) ==
    /\ r \in setup.readers /\ ~sub[r].on
    /\ sub' = [sub EXCEPT ![r] = [Off EXCEPT !.on = TRUE, !.cursor =
                 IF seen[r] = NoFrame THEN NoCursor ELSE Attached(seen[r])]]
    /\ told' = [told EXCEPT ![r].from =
                 IF seen[r] = NoFrame THEN Zero ELSE LastToken(seen[r])]
    /\ UNCHANGED <<setup, writer, seen, frontier, acked, stale>>

\* next, with its queue empty: an entry change is looked at.
Scan(r) ==
    LET f == seen[r]
        first == sub[r].cursor = NoCursor
        next == Reconcile(IF first THEN FirstSeen(f) ELSE sub[r].cursor, f, setup.garbled)
    IN /\ sub[r].dirty /\ sub[r].pending = <<>>
       /\ sub' = [sub EXCEPT ![r].dirty = FALSE, ![r].cursor = next.cursor,
                              ![r].pending = next.events]
       /\ told' = [told EXCEPT ![r].window =
                    IF first THEN Token(f.epoch, f.first_seq - 1) ELSE @]
       /\ UNCHANGED <<setup, writer, seen, frontier, acked, stale>>

\* next, with events queued: the application applies one and advances its
\* frontier; its ledger follows when it is next enqueued.
Deliver(r) ==
    LET event == Head(sub[r].pending) IN
    /\ sub[r].pending # <<>>
    /\ sub' = [sub EXCEPT ![r].pending = Tail(@)]
    /\ frontier' = [frontier EXCEPT ![r] = Later(@, event.token)]
    /\ told' = [told EXCEPT
                 ![r].writes = IF event.kind = "Wrote" THEN @ \cup {event.token} ELSE @,
                 ![r].missed = IF event.kind = "Gap" THEN Later(@, event.token) ELSE @]
    /\ UNCHANGED <<setup, writer, seen, acked, stale>>

\* r's ledger, recorded or republished, reaches the writer.
Acknowledge(r) ==
    /\ acked[r] # frontier[r]
    /\ acked' = [acked EXCEPT ![r] = frontier[r]]
    /\ UNCHANGED <<setup, writer, seen, sub, frontier, stale, told>>

-----------------------------------------------------------------------------
Init ==
    /\ setup \in Setups
    /\ ring = NewRing(1)
    /\ entry = NoFrame
    /\ past = {}
    /\ confirmed = Zero
    /\ seen = [r \in Reader |-> NoFrame]
    /\ sub = [r \in Reader |-> [Off EXCEPT !.on = setup.early /\ r \in setup.readers]]
    /\ frontier = [r \in Reader |-> Zero]
    /\ acked = [r \in Reader |-> Zero]
    /\ stale = 0
    /\ written = [e \in 1 .. setup.max_lives |-> 0]
    /\ told = [r \in Reader |-> Nothing]

Next ==
    \/ Publish \/ Seal \/ Wait \/ Retire \/ Republish \/ Restart
    \/ \E r \in Reader :
        \/ \E f \in past \cup {entry} : Gossip(r, f)
        \/ Attach(r) \/ Scan(r) \/ Deliver(r) \/ Acknowledge(r)

Spec == Init /\ [][Next]_vars

\* What was refused is republished, gossip reaches every node, and subscribers
\* run, as the application loops and the engine's rounds do.
Fairness ==
    /\ WF_vars(Republish)
    /\ \A r \in Reader :
        WF_vars(Gossip(r, entry)) /\ WF_vars(Attach(r)) /\ WF_vars(Scan(r)) /\ WF_vars(Deliver(r))

FairSpec == Spec /\ Fairness

-----------------------------------------------------------------------------
Tokens == UNION {{Token(e, s) : s \in 1 .. written[e]} : e \in DOMAIN written}

\* Rings, frames, cursors and marks keep their type; a ring holds the latest
\* writes of its life.
TypeOK ==
    /\ End(ring) = written[ring.epoch] + 1
    /\ ring.first_seq >= 1 /\ (ring.len = 0 => ring.first_seq = 1)
    /\ entry.epoch <= ring.epoch
    /\ \A f \in past : f.epoch < ring.epoch
    /\ \A r \in Reader :
        /\ seen[r] \in past \cup {entry, NoFrame} \/ seen[r].epoch <= ring.epoch
        /\ AtMost(acked[r], frontier[r])
        /\ sub[r].cursor.epoch <= ring.epoch

Answered(r, t) ==
    t \in told[r].writes \/ AtMost(t, told[r].missed) \/ t.seq \in setup.garbled

\* No write is skipped in silence: one that r's frontier covers was delivered, or
\* a gap covering it was, from the end r attached to or the window it first saw;
\* sealed restarts, lost seals, retired and evicted writes included (reconcile).
NoSilentSkip ==
    \A r \in Reader, t \in Tokens :
        (/\ sub[r].on /\ AtMost(t, frontier[r])
         /\ Before(told[r].from, t) /\ Before(told[r].window, t)) => Answered(r, t)

\* PeerWrites: "no write is ever silently skipped", the ones that had left the
\* window a running subscriber first saw included.
NeverSilent ==
    \A r \in Reader, t \in Tokens :
        (sub[r].on /\ AtMost(t, frontier[r]) /\ Before(told[r].from, t)) => Answered(r, t)

\* Writes are delivered once, in the writer's order, across its lives: no stale
\* frame and no second look at an entry repeats one.
InOrder ==
    [][\A r \in Reader : \A t \in told'[r].writes \ told[r].writes :
         Before(frontier[r], t)]_vars

\* Retiring what the roster has confirmed costs no member of it a gap: in a life
\* whose ring evicts nothing, only its beginning is ever reported missing.
RetirementGapless ==
    setup.roomy => \A r \in setup.roster, i \in 1 .. 3 :
        (i <= Len(sub[r].pending) /\ sub[r].pending[i].kind = "Gap")
            => sub[r].pending[i].token.seq = 0

\* Once the writer is quiet every subscriber comes to the end of its feed, and
\* has nothing left to deliver.
CatchesUp ==
    <>[](\A r \in setup.readers :
           /\ sub[r].pending = <<>>
           /\ seen[r] = ring
           /\ sub[r].cursor.epoch = ring.epoch /\ sub[r].cursor.next >= End(ring))
=============================================================================
