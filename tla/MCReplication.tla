------------------------------ MODULE MCReplication ------------------------------
(****************************************************************************)
(* Small instances of the replication sessions. A behaviour is one of a     *)
(* named subscription, of a wait for named subscribers or of a snapshot     *)
(* synchronisation; part says which, and the others stay as they began.     *)
(****************************************************************************)
EXTENDS Integers, Sequences

CONSTANTS Parts, SubscriptionSetups, WaitSetups, SnapshotSetups

VARIABLES
    part,
    sub_setup, ses, head, retained, src, snk, ghosts, sub_faults,
    ack_setup, ack_now, acked, slot, progress, queue, call, reply, result, ack_drv, ack,
    wait, done, ack_faults,
    snap_setup, snap_now, source, eng, snap_drv, disk, committed, cancelled, snap_faults

B == INSTANCE Subscription WITH
    Setups <- SubscriptionSetups, Sessions <- {1, 2}, MaxHead <- 2, MaxRetries <- 1,
    MaxFaults <- 2, setup <- sub_setup, faults <- sub_faults

W == INSTANCE AckWait WITH
    Setups <- WaitSetups, Subscribers <- {1, 2}, Wait <- 2, Attempt <- 1, Poll <- 1, setup
    <- ack_setup, now <- ack_now, drv <- ack_drv, faults <- ack_faults

N == INSTANCE SnapshotSync WITH
    Setups <- SnapshotSetups, Chunks <- 2, Total <- 2, Attempt <- 1, setup <- snap_setup,
    now <- snap_now, drv <- snap_drv, faults <- snap_faults

subscription ==
    <<sub_setup, ses, head, retained, src, snk, ghosts, sub_faults>>

wait_named ==
    <<ack_setup, ack_now, acked, slot, progress, queue, call, reply, result, ack_drv, ack,
      wait, done, ack_faults>>

snapshot ==
    <<snap_setup, snap_now, source, eng, snap_drv, disk, committed, cancelled, snap_faults>>

vars == <<part, subscription, wait_named, snapshot>>

-----------------------------------------------------------------------------
(* Subscriptions: one session, then another of the same process or of a    *)
(* new one that resumes, resets or ends what the first left.               *)

Subscribes(own, second, terminal, expiry, events, fail) ==
    [process |-> [s \in {1, 2} |-> IF own THEN s ELSE 1],
     starts |-> [s \in {1, 2} |-> IF s = 1 THEN {"StartAt"} ELSE second],
     terminal |-> terminal, expiry |-> expiry, events |-> events, faults |-> fail]

Ends == Subscribes(FALSE, {}, TRUE, FALSE, 2, 2)

SmallSubscriptions ==
    {Ends,
     Subscribes(FALSE, {"Resume"}, FALSE, FALSE, 1, 1),
     Subscribes(TRUE, {"Resume"}, FALSE, FALSE, 1, 1),
     Subscribes(TRUE, {"Detached"}, FALSE, TRUE, 1, 1),
     Subscribes(TRUE, {"ResetAt"}, TRUE, FALSE, 1, 1)}

-----------------------------------------------------------------------------
(* Waits and snapshots.                                                    *)

NoRoster == [required |-> {}, queue |-> 2, max_waits |-> 2, max_time |-> 3, faults |-> 0]

SmallWaits ==
    {NoRoster,
     [NoRoster EXCEPT !.required = {1, 2}, !.max_waits = 1],
     [NoRoster EXCEPT !.required = {1}, !.queue = 1, !.faults = 1]}

\* The source has compacted what a replica at 1 needs.
Gap ==
    [at |-> 1, cancels |-> TRUE, max_head |-> 3, max_time |-> 1, max_attempts |-> 2, faults |-> 0]

SmallSnapshots ==
    {Gap, [Gap EXCEPT !.at = 0, !.cancels = FALSE, !.max_time = 2, !.max_attempts = 1, !.faults = 1]}
-----------------------------------------------------------------------------
Init ==
    /\ part \in Parts
    /\ B!Init /\ (part # "subscription" => sub_setup = Ends)
    /\ W!Init /\ (part # "wait_named" => ack_setup = NoRoster)
    /\ N!Init /\ (part # "snapshot" => snap_setup = Gap)

Next ==
    \/ part = "subscription" /\ B!Next /\ UNCHANGED <<part, wait_named, snapshot>>
    \/ part = "wait_named" /\ W!Next /\ UNCHANGED <<part, subscription, snapshot>>
    \/ part = "snapshot" /\ N!Next /\ UNCHANGED <<part, subscription, wait_named>>

Spec == Init /\ [][Next]_vars

FairSpec ==
    /\ Spec
    /\ \/ part = "subscription" /\ B!Fairness
       \/ part = "wait_named" /\ W!Fairness
       \/ part = "snapshot" /\ N!Fairness

-----------------------------------------------------------------------------
(* What the runs check.                                                    *)

\* What the source has recorded as acknowledged the sink has durably applied, the
\* history up to there is never reported as a gap, and an engine that believes an
\* acknowledgement or an ending has the source's word for it, whichever replies
\* were lost (SubscriberApplied, SubscriberAckRead, SubscriberTerminalRead).
DeliveredExactly ==
    B!AckedIsDelivered /\ B!NoFalseGap /\ B!EngineKnowsAck /\ B!UnsubscribeSettled

\* A wait for named subscribers that is Satisfied or TimedOut says who has
\* acknowledged its own request, whichever earlier waits were abandoned
\* (finish_ack, AckWaitGuard::drop).
WaitsAreTrue == W!OutcomeIsTrue

\* A snapshot is installed whole, and no resource of an attempt outlives its
\* clean-up (snapshot_scanned, discard_snapshot_local).
SnapshotsWhole == N!InstalledIsWhole /\ N!ResourcesAccounted

\* What is committed is delivered, the slot of an abandoned wait and the hold of
\* an aborted snapshot are given back.
ReplicationSettles ==
    /\ part = "subscription" => B!Delivers
    /\ part = "wait_named" => W!SlotFreed
    /\ part = "snapshot" => N!HoldReleased
=============================================================================
