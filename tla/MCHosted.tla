------------------------------ MODULE MCHosted ------------------------------
(***************************************************************************)
(* Small instances of the hosted write path.  A behaviour is one of the    *)
(* committed writes of a group (Hosted) or of one snapshot hand-off        *)
(* (Handoff); part says which, and the other stays as it began.            *)
(***************************************************************************)
EXTENDS Hosted, Sequences

CONSTANTS Parts, HandoffSetups

VARIABLES
    part,
    transfer, head, applied, reading, fence, phase, donor, need, sending, wire, broken, offer,
    staged, held, installs, recorded

T == INSTANCE Handoff WITH Setups <- HandoffSetups, setup <- transfer, serving <- sending

handoff ==
    <<transfer, head, applied, reading, fence, phase, donor, need, sending, wire, broken, offer,
      staged, held, installs, recorded>>

all == <<part, vars, handoff>>

-----------------------------------------------------------------------------
(* Hosted writes: two hostships, one committed write of the first.         *)

\* Three voters; the first host's lease may lapse.
Three ==
    [members |-> {1, 2, 3}, voters |-> {1, 2, 3}, hosts |-> <<1, 2>>, restarts |-> {},
     lapses |-> {1}, max_epochs |-> 2, max_writes |-> <<1, 0>>]

\* Two voters, one of which restarts with what its store kept.
Boot == [Three EXCEPT !.members = {1, 2}, !.voters = {1, 2}, !.restarts = {2}, !.lapses = {}]

\* A node that does not vote follows two writes.
Observer == [Boot EXCEPT !.voters = {1}, !.restarts = {}, !.max_writes = <<2, 0>>]

SmallHosted == {Three, Boot, Observer}

-----------------------------------------------------------------------------
(* Hand-offs: one or two donors, one or two chunks.                        *)

\* The host moves while the snapshot is under way.
Migrating ==
    [donors |-> <<"a", "b">>, misnamed |-> {}, chunks |-> 2, writes |-> 1,
     hosts |-> <<{"a"}, {"b"}>>, breaks |-> 0, refuses |-> FALSE]

\* Donors refuse, and a stream is cut.
Refusing == [Migrating EXCEPT !.refuses = TRUE, !.breaks = 1, !.hosts = <<{"a"}>>]

\* A donor answers under another name.
Misnamed == [Migrating EXCEPT !.misnamed = {"a"}, !.hosts = <<{"a"}>>]

\* Two hosts of one epoch.
Split == [Migrating EXCEPT !.hosts = <<{"a", "b"}>>, !.chunks = 1]

\* Writes are issued while the only donor's stream is cut.
Cut == [Migrating EXCEPT !.writes = 2, !.donors = <<"a">>, !.hosts = <<{"a"}>>, !.breaks = 1]

SmallHandoffs == {Migrating, Refusing, Misnamed, Split, Cut}

-----------------------------------------------------------------------------
EitherInit ==
    /\ part \in Parts
    /\ Init /\ (part # "hosted" => setup = Three)
    /\ T!Init /\ (part # "handoff" => transfer = Cut)

Either ==
    \/ part = "hosted" /\ Next /\ UNCHANGED <<part, handoff>>
    \/ part = "handoff" /\ T!Next /\ UNCHANGED <<part, vars>>

EitherSpec ==
    /\ EitherInit /\ [][Either]_all
    /\ \/ part = "hosted" /\ Fairness
       \/ part = "handoff" /\ T!Fairness

-----------------------------------------------------------------------------
(* What the runs check beside the properties of Hosted.                    *)

\* A snapshot sink is finished only with a whole image that covers what the fetch
\* needed: cut streams, refusals and failed checks leave the state as it was
\* (fetch_on).  What a node then tells the group it has applied is state that it
\* holds (Handoff::seed).
InstallsWhole == T!InstallsWhole /\ T!RecordedIsHeld

\* Nothing is installed from a donor whose fence at the end of the stream was
\* behind the requester's (done_consistent and the second staleness check).
NothingStaleInstalled == T!NothingStaleInstalled

\* A host that stays host comes to serve its epoch: recovery does not wait for
\* itself (HostedWrites::recovered_for, CommitLedger::refresh).  A requester whose
\* donors can serve ends up holding, and having published, every write of the
\* group once writing stops and the last epoch names one host (fetch, rank_donors,
\* seed).
Recovers ==
    /\ part = "hosted" => HostServes
    /\ part = "handoff" => T!Recovers
=============================================================================
