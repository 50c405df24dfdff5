------------------------------ MODULE MCVolatile ------------------------------
(****************************************************************************)
(* Small instances of the volatile index: the transfer of an image from a   *)
(* donor to a follower (Transfer), the claims by which nodes agree who      *)
(* builds and who copies (Claims), and the recovery that closes the gate    *)
(* and rebuilds (Recovery). A behaviour is one of the three; part says      *)
(* which, and the others stay as they began.                                *)
(****************************************************************************)
EXTENDS Integers, Sequences, FiniteSets

CONSTANTS Parts, TransferSetups, ClaimSetups, RecoverySetups

VARIABLES
    part,
    tra_setup, world, roster, donor, journal, inbox, session, call, stage, live, tra_faults,
    cla_setup, cla_eng, cla_queue, mode, work, capture, bound, pub, view, presence, alive,
    episodes, cla_faults,
    rec_setup, rec_eng, ctl, active, rec_queue, busy, stale, content, writers, lease, gaps,
    lapses, restarts, rec_faults

T == INSTANCE Transfer WITH
    Setups <- TransferSetups, Followers <- {1}, Writers <- {"a"}, setup <- tra_setup, faults
    <- tra_faults

C == INSTANCE Claims WITH
    Setups <- ClaimSetups, Node <- {"a", "b"}, setup <- cla_setup, eng <- cla_eng, queue <-
    cla_queue, faults <- cla_faults

R == INSTANCE Recovery WITH
    Setups <- RecoverySetups, Writers <- {"w"}, setup <- rec_setup, eng <- rec_eng, queue <-
    rec_queue, faults <- rec_faults

transfer ==
    <<tra_setup, world, roster, donor, journal, inbox, session, call, stage, live,
      tra_faults>>

claims ==
    <<cla_setup, cla_eng, cla_queue, mode, work, capture, bound, pub, view, presence, alive,
      episodes, cla_faults>>

recovery ==
    <<rec_setup, rec_eng, ctl, active, rec_queue, busy, stale, content, writers, lease,
      gaps, lapses, restarts, rec_faults>>

vars == <<part, transfer, claims, recovery>>

-----------------------------------------------------------------------------
(* Transfers: one follower, a writer that writes, renews and is local.     *)

Native == [kind |-> "native", writer |-> "a"]
Renewal == [kind |-> "renewal", writer |-> "a"]
Local == [kind |-> "local", writer |-> "a"]

OneImage ==
    [stream |-> <<Native, Native, Local, Renewal>>, max_events |-> 3, max_batch |-> 1,
     max_inflight |-> 1, max_followers |-> 1, inbox |-> 1, chunks |-> 1, world |-> 3,
     captures |-> 1, attempts |-> 1, rosters |-> 1, polls |-> 1, faults |-> 1]

SmallTransfers ==
    {OneImage,
     [OneImage EXCEPT !.stream = <<Native, Renewal, Native>>, !.captures = 2, !.faults = 0,
                      !.max_batch = 2, !.max_inflight = 2, !.rosters = 2]}

-----------------------------------------------------------------------------
(* Claims: two nodes of which "a" ranks first, or one alone with trouble.  *)

Pair ==
    [rank |-> [n \in {"a", "b"} |-> IF n = "a" THEN 2 ELSE 1], participation |-> TRUE,
     max_members |-> 2, renewals |-> 1, progress |-> 0, episodes |-> 2, faults |-> 0,
     staggered |-> FALSE, nodes |-> {"a", "b"}, joins |-> {}, kinds |-> {}, retries |-> 1]

LostDonor == [Pair EXCEPT !.faults = 1, !.kinds = {"donor"}]

SmallClaims ==
    {LostDonor,
     [Pair EXCEPT !.faults = 2, !.nodes = {"a"}, !.episodes = 1, !.renewals = 2, !.progress = 1,
                  !.kinds = {"call", "store", "work", "donor", "capture", "crash"}],
     [Pair EXCEPT !.faults = 1, !.participation = FALSE, !.staggered = TRUE, !.kinds = {"crash"}]}

-----------------------------------------------------------------------------
(* Recovery: one writer and one lapse, or gaps, or restarts.               *)

Leased ==
    [leased |-> TRUE, bootstrap |-> FALSE, rearm |-> TRUE, max_barrier_rounds |-> 2, writes |-> 1,
     gaps |-> 0, lapses |-> 1, restarts |-> 0, cancels |-> FALSE, leaves |-> FALSE, epochs |-> 1,
     faults |-> 0]

Unleased == [Leased EXCEPT !.leased = FALSE, !.bootstrap = TRUE, !.writes = 0, !.lapses = 0, !.faults = 1]

Lapses == [Leased EXCEPT !.writes = 2]

SmallRecoveries ==
    {[Unleased EXCEPT !.gaps = 1],
     [Unleased EXCEPT !.restarts = 1, !.cancels = TRUE, !.rearm = FALSE],
     [Leased EXCEPT !.gaps = 1, !.writes = 0],
     Lapses,
     [Leased EXCEPT !.leaves = TRUE],
     [Leased EXCEPT !.epochs = 2]}
-----------------------------------------------------------------------------
Init ==
    /\ part \in Parts
    /\ T!Init /\ (part # "transfer" => tra_setup = OneImage)
    /\ C!Init /\ (part # "claims" => cla_setup = LostDonor)
    /\ R!Init /\ (part # "recovery" => rec_setup = Lapses)

Next ==
    \/ part = "transfer" /\ T!Next /\ UNCHANGED <<part, claims, recovery>>
    \/ part = "claims" /\ C!Next /\ UNCHANGED <<part, transfer, recovery>>
    \/ part = "recovery" /\ R!Next /\ UNCHANGED <<part, transfer, claims>>

Spec == Init /\ [][Next]_vars

FairSpec ==
    /\ Spec
    /\ WF_transfer(part = "transfer" /\ \E r \in DOMAIN journal.followers : T!ExpireFollower(r))
    /\ WF_transfer(part = "transfer" /\ T!Expires(1))
    /\ \A n \in {"a", "b"} :
          /\ WF_claims(part = "claims" /\ C!Execute(n))
          /\ WF_claims(part = "claims" /\ (C!WorkDone(n) \/ C!WorkTick(n)))
          /\ WF_claims(part = "claims" /\ C!RunEnds(n) /\ UNCHANGED cla_faults)
          /\ SF_claims(part = "claims" /\ C!RunTick(n) /\ "total" \notin cla_eng'[n].armed)
    /\ WF_recovery(part = "recovery" /\ R!Worker) /\ WF_recovery(part = "recovery" /\ R!Waits)
    /\ SF_recovery(part = "recovery" /\ R!Patient /\ R!WorkerTick("total"))
    /\ WF_recovery(part = "recovery" /\ R!Patient /\ R!Expires)
    /\ WF_recovery(part = "recovery" /\ R!Renew) /\ WF_recovery(part = "recovery" /\ R!Land)
    /\ WF_recovery(part = "recovery" /\ R!Apply("w"))
-----------------------------------------------------------------------------
(* What the run checks.                                                    *)

\* What is served is whole: an installed image holds every event its cut names and
\* its cuts agree with the stream (align_cuts, batch_valid); a node advertises Ready
\* only over a capture it still holds (capture_retired); an open gate serves an index
\* built after the last gap, and after a lapse one that has every write that was
\* acknowledged meanwhile (PublicationPermit::publish, observed_heads).
VolatileIsWhole ==
    /\ T!InstalledIsWhole /\ T!InstalledIsAligned /\ C!ReadyIsBacked
    /\ R!ServesRebuilt /\ R!LapseIsCovered

\* Nothing of an ended attempt comes back: a node's published claims only advance
\* (publish_renewal, pending_claim), and the gate opens only for the episode that no
\* signal has ended (affirm_effect).
NothingEndedReturns == C!ClaimsAdvance /\ R!OpensCurrent

\* Every transfer ends, every acquisition ends, and recovery opens the gate once
\* faults and signals are over.
VolatileSettles ==
    <>[](/\ part = "transfer" => T!AtRest
         /\ part = "claims" => C!AtRest
         /\ part = "recovery" => R!AtRest)
=============================================================================
