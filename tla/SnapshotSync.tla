---------------------------- MODULE SnapshotSync ----------------------------
(***************************************************************************)
(* Snapshot synchronisation of a replica: the engine's snapshot stages     *)
(* (core replication/session/snapshot.rs, with the tail check and deadline *)
(* rules of session.rs, step.rs and tick.rs that start, finish or abort    *)
(* one) and the driver's adapters calls and resources (consistency         *)
(* replication/shell/driver/snapshot.rs, snapshot_runtime.rs).             *)
(*                                                                         *)
(* The driver makes one call at a time; a stage of the engine stands for   *)
(* its call in flight, and the answer is one action.  Installing commits   *)
(* in the application before it is answered.  Source and application are   *)
(* external: the source may answer a scan with a range nobody asked for.   *)
(***************************************************************************)
EXTENDS Naturals, FiniteSets

CONSTANTS Setups, Chunks, Total, Attempt

Setup ==
    [at : Nat,            \* what the replica holds at first, 0 for nothing
     cancels : BOOLEAN,
     max_head : Nat, max_time : Nat, max_attempts : Nat, faults : Nat]  \* bounds

VARIABLES
    setup, now,
    source,    \* [head, low, holds]: holds[a] = [floor, until]
    eng,       \* SessionEngine
    drv,       \* the driver's snapshot resources
    disk,      \* what the application has installed
    committed, \* an install committed and not yet answered
    cancelled, \* SharedSession.cancelled
    faults

vars == <<setup, now, source, eng, drv, disk, committed, cancelled, faults>>

None == [kind |-> "none"]
Content(cut, got, events) == [kind |-> "content", cut |-> cut, got |-> got, events |-> events]
Image(cut) == {cut} \X (1..Chunks)
NoCleanup == [attempt |-> 0, disp |-> "", discarding |-> FALSE, due |-> 0, queued |-> FALSE]

Empty == [hold |-> 0, read |-> 0, stage |-> None, chunk |-> 0, batch |-> None,
          sealed |-> None, attachment |-> 0, attempt |-> 0]

Least(a, b) == IF a < b THEN a ELSE b

-----------------------------------------------------------------------------
(* The engine.                                                             *)

\* snapshot_effect: the next call and its deadline.
Calls(e, stage) == [e EXCEPT !.stage = stage, !.due = Least(now + Attempt, e.total)]

StartSnapshot(e) ==
    IF e.snap \/ e.cleanup # NoCleanup THEN e
    ELSE [Calls([e EXCEPT !.total = now + Total], "Holding")
          EXCEPT !.snap = TRUE, !.ready = FALSE, !.attempt = e.attempt + 1,
                 !.attached = 0, !.idx = 0, !.cut = 0, !.cursor = 0, !.barrier = 0]

\* drop_snapshot.
DropSnapshot(e, disp) ==
    [e EXCEPT !.snap = FALSE,
              !.cleanup = [attempt |-> e.attempt, disp |-> disp, discarding |-> FALSE,
                           due |-> now + Attempt, queued |-> TRUE]]

AbortSnapshot(e) == [DropSnapshot(e, "Aborted") EXCEPT !.stage = "Aborted", !.ready = FALSE, !.live = 0]

FinishSnapshot(e) == IF e.snap THEN [DropSnapshot(e, "Completed") EXCEPT !.live = e.attempt] ELSE e

\* cancel_snapshot_resources.
CancelResources(e) ==
    IF e.snap THEN DropSnapshot(e, "Aborted")
    ELSE IF e.live = 0 THEN e
    ELSE [e EXCEPT !.live = 0,
                   !.cleanup = [attempt |-> e.live, disp |-> "Aborted", discarding |-> TRUE, due |-> now,
                                queued |-> TRUE]]

CheckTail(e) == [e EXCEPT !.stage = "CheckingTail", !.due = now + Attempt]

\* snapshot_next_chunk.
NextChunk(e) == Calls(e, IF e.idx = Chunks THEN "Verifying" ELSE "Reading")

\* After the barrier and after every applied batch.
ScanOrSeal(e) == Calls(e, IF e.cursor = e.barrier THEN "Sealing" ELSE "Scanning")

\* Event::Failed and tick: an attempt that loses a call is aborted; without one
\* the tail is checked again after a while (the replay module's retries).
Failed(e) == IF e.snap THEN AbortSnapshot(e) ELSE CheckTail(e)

Cancel(e) == [CancelResources(e) EXCEPT !.stage = "Cancelled", !.ready = FALSE]

-----------------------------------------------------------------------------
(* What each answer makes of the engine.                                   *)

Held(e) == Calls(e, "Offering")

Offered(e, cut) == Calls([e EXCEPT !.cut = cut, !.cursor = cut], "Opening")

Opened(e) == NextChunk(e)

ChunkRead(e) == Calls(e, "Writing")

Written(e) == NextChunk([e EXCEPT !.idx = @ + 1])

Verified(e) == Calls(e, "Barrier")

BarrierSet(e, head) == ScanOrSeal([e EXCEPT !.barrier = head])

Applied(e) == ScanOrSeal([e EXCEPT !.cursor = e.through])

Sealed(e) == Calls(e, "Installing")

Installed(e) == Calls([e EXCEPT !.mat = e.cursor], "Attaching")

Attached(e, head) == CheckTail([e EXCEPT !.attached = head])

TailChecked(e, low, head) ==
    IF e.mat = 0 THEN StartSnapshot(e)
    ELSE IF low > e.mat
    THEN IF e.snap THEN AbortSnapshot(e)
         ELSE IF e.live # 0 THEN [CancelResources(e) EXCEPT !.stage = "NeedsSnapshot", !.ready = FALSE]
         ELSE StartSnapshot(e)
    ELSE IF e.mat < head
    THEN [e EXCEPT !.stage = "Replaying", !.barrier = head, !.due = now + Attempt]
    ELSE FinishSnapshot([e EXCEPT !.stage = "Ready", !.ready = TRUE])

Cleaned(e) == [e EXCEPT !.cleanup = NoCleanup]

ExpireCleanup(e) == [e EXCEPT !.cleanup.discarding = TRUE, !.cleanup.queued = TRUE]

\* snapshot_discarded starts what a gap asked for.
Discarded(e) == IF e.stage = "NeedsSnapshot" THEN StartSnapshot(Cleaned(e)) ELSE Cleaned(e)

-----------------------------------------------------------------------------
(* The driver.  Every call is answered in time, answered late or fails.    *)

Idle == eng.cleanup = NoCleanup

Stop == cancelled' = TRUE /\ eng' = Cancel(eng)

Same == UNCHANGED <<setup, now, faults>>

Answers(stage) ==
    /\ Idle /\ eng.stage = stage
    /\ now < eng.due /\ (eng.snap => now < eng.total)
    /\ Same

SnapshotAcquire ==
    LET hold == [floor |-> source.low, until |-> eng.total]
    IN  /\ Answers("Holding")
        /\ ~cancelled  \* else the hold is released at once
        /\ source' = [source EXCEPT !.holds[eng.attempt] = hold]
        /\ drv' = [Empty EXCEPT !.attempt = eng.attempt, !.hold = eng.attempt]
        /\ eng' = Held(eng)
        /\ UNCHANGED <<disk, committed, cancelled>>

\* snapshot_offer: an image at a cut between what is retained and the head.
Offer ==
    /\ Answers("Offering")
    /\ \E cut \in source.low..source.head :
        /\ eng' = Offered(eng, cut)
        /\ drv' = [drv EXCEPT !.read = cut]
    /\ UNCHANGED <<source, disk, committed, cancelled>>

Open ==
    /\ Answers("Opening")
    /\ drv' = [drv EXCEPT !.stage = Content(eng.cut, {}, {})]
    /\ eng' = Opened(eng)
    /\ UNCHANGED <<source, disk, committed, cancelled>>

ReadChunk ==
    /\ Answers("Reading")
    /\ drv' = [drv EXCEPT !.chunk = eng.idx + 1]
    /\ eng' = ChunkRead(eng)
    /\ UNCHANGED <<source, disk, committed, cancelled>>

WriteChunk ==
    /\ Answers("Writing")
    /\ drv' = [drv EXCEPT !.stage.got = @ \cup {<<drv.read, drv.chunk>>}, !.chunk = 0]
    /\ eng' = Written(eng)
    /\ UNCHANGED <<source, disk, committed, cancelled>>

\* The application compares the staged image with the offered digest.
Verify ==
    /\ Answers("Verifying")
    /\ drv.stage.got = Image(drv.stage.cut)
    /\ eng' = Verified(eng)
    /\ UNCHANGED <<source, drv, disk, committed, cancelled>>

Barrier ==
    /\ Answers("Barrier")
    /\ IF source.low <= eng.cursor
       THEN eng' = BarrierSet(eng, source.head) /\ UNCHANGED cancelled
       ELSE Stop
    /\ UNCHANGED <<source, drv, disk, committed>>

\* Mutant: the batch's coverage is not compared with the cursor.
ScannedAnyRange(from, through) == through <= eng.barrier

\* snapshot_scanned: the batch starts at the cursor and ends by the barrier.
Scanned(from, through) == from = eng.cursor /\ through > from /\ through <= eng.barrier

\* scan_after answers with what follows the cursor, or with another range.
Scan ==
    /\ Idle /\ eng.stage = "Scanning" /\ now < eng.due
    /\ \E from \in eng.cut..eng.barrier, through \in eng.cut..eng.barrier :
        /\ from < through
        /\ IF from = eng.cursor THEN UNCHANGED faults
           ELSE faults < setup.faults /\ faults' = faults + 1
        /\ IF Scanned(from, through)
           THEN /\ drv' = [drv EXCEPT !.batch = Content(0, {}, (from + 1)..through)]
                /\ eng' = Calls([eng EXCEPT !.through = through], "Applying")
                /\ UNCHANGED cancelled
           ELSE Stop /\ UNCHANGED drv
    /\ UNCHANGED <<setup, now, source, disk, committed>>

Apply ==
    /\ Answers("Applying")
    /\ drv' = [drv EXCEPT !.stage.events = @ \cup drv.batch.events, !.batch = None]
    /\ eng' = Applied(eng)
    /\ UNCHANGED <<source, disk, committed, cancelled>>

Seal ==
    /\ Answers("Sealing")
    /\ drv' = [drv EXCEPT !.sealed = drv.stage, !.stage = None]
    /\ eng' = Sealed(eng)
    /\ UNCHANGED <<source, disk, committed, cancelled>>

\* install_checkpoint commits under the fence, which cancel() closes.
InstallCommits ==
    /\ eng.stage = "Installing" /\ Idle /\ now < eng.due
    /\ ~cancelled /\ ~committed
    /\ committed' = TRUE
    /\ disk' = [pos |-> eng.cursor, content |-> drv.sealed]
    /\ drv' = [drv EXCEPT !.sealed = None]
    /\ Same /\ UNCHANGED <<source, eng, cancelled>>

InstallAnswered ==
    /\ Answers("Installing") /\ committed
    /\ committed' = FALSE
    /\ eng' = Installed(eng)
    /\ UNCHANGED <<source, drv, disk, cancelled>>

Attach ==
    /\ Answers("Attaching")
    /\ IF source.low <= eng.cursor
       THEN /\ eng' = Attached(eng, source.head)
            /\ drv' = [drv EXCEPT !.attachment = eng.attempt]
            /\ UNCHANGED cancelled
       ELSE Stop /\ UNCHANGED drv
    /\ UNCHANGED <<source, disk, committed>>

\* Event::Tail: nothing yet or a gap starts a snapshot (or ends the one there
\* is), a tail ahead is replayed, and a replica at the head is ready.
TailAnswered ==
    /\ Answers("CheckingTail")
    /\ eng.mat = 0 \/ source.low > eng.mat => eng.attempt < setup.max_attempts \/ eng.snap
    /\ eng' = TailChecked(eng, source.low, source.head)
    /\ UNCHANGED <<source, drv, disk, committed, cancelled>>

\* Scan, apply and the tail check that follows, of the replay session.
Replay ==
    /\ Answers("Replaying") /\ source.low <= eng.mat /\ ~cancelled
    /\ disk' = [disk EXCEPT !.pos = eng.barrier,
                            !.content.events = @ \cup ((eng.mat + 1)..eng.barrier)]
    /\ eng' = CheckTail([eng EXCEPT !.mat = eng.barrier])
    /\ UNCHANGED <<source, drv, committed, cancelled>>

\* The tail is due again.
Recheck ==
    /\ Idle /\ eng.stage = "Ready" /\ source.head > eng.mat
    /\ eng' = CheckTail([eng EXCEPT !.ready = FALSE])
    /\ Same /\ UNCHANGED <<source, drv, disk, committed, cancelled>>

InCall == eng.stage \notin {"Ready", "Aborted", "Cancelled", "NeedsSnapshot"}

\* A deadline passes, or the adapter reports a retryable failure.
CallFails ==
    /\ Idle /\ InCall
    /\ IF now >= eng.due \/ (eng.snap /\ now >= eng.total) THEN UNCHANGED faults
       ELSE faults < setup.faults /\ faults' = faults + 1
    /\ eng' = Failed(eng)
    /\ committed' = FALSE
    /\ UNCHANGED <<setup, now, source, drv, disk, cancelled>>

\* The worker sees the flag between two calls: queued effects and what was staged
\* are dropped, then the engine is cancelled.
CancelSeen ==
    /\ cancelled /\ eng.stage # "Cancelled"
    /\ eng' = Cancel([eng EXCEPT !.cleanup.queued = FALSE])
    /\ drv' = [Empty EXCEPT !.attempt = drv.attempt, !.hold = drv.hold]
    /\ committed' = FALSE
    /\ Same /\ UNCHANGED <<source, disk, cancelled>>

-----------------------------------------------------------------------------
(* Giving the resources back.                                              *)

\* discard_snapshot_local.
DiscardLocal(d, c) ==
    IF d.attempt # c.attempt THEN d
    ELSE IF c.disp = "Aborted" THEN Empty
    ELSE [Empty EXCEPT !.attempt = d.attempt, !.attachment = d.attachment]

\* snapshot_cleanup and snapshot_cleaned: the hold is released if the call
\* succeeds in time.
Cleanup ==
    LET c == eng.cleanup
    IN  /\ c.queued /\ ~c.discarding /\ now < c.due
        /\ \E released \in BOOLEAN :
            /\ source' = IF released /\ drv.attempt = c.attempt /\ drv.hold # 0
                         THEN [source EXCEPT !.holds[drv.hold].until = 0] ELSE source
        /\ drv' = DiscardLocal(drv, c)
        /\ eng' = Cleaned(eng)
        /\ Same /\ UNCHANGED <<disk, committed, cancelled>>

\* expire_snapshot_cleanup.
CleanupExpires ==
    /\ eng.cleanup # NoCleanup /\ ~eng.cleanup.discarding /\ now >= eng.cleanup.due
    /\ eng' = ExpireCleanup(eng)
    /\ Same /\ UNCHANGED <<source, drv, disk, committed, cancelled>>

\* snapshot_discard.
Discard ==
    /\ eng.cleanup.queued /\ eng.cleanup.discarding
    /\ drv' = DiscardLocal(drv, eng.cleanup)
    /\ eng' = Discarded(eng)
    /\ Same /\ UNCHANGED <<source, disk, committed, cancelled>>

-----------------------------------------------------------------------------
CancelSession ==
    /\ setup.cancels /\ ~cancelled
    /\ cancelled' = TRUE
    /\ UNCHANGED <<setup, now, source, eng, drv, disk, committed, faults>>

Write ==
    /\ source.head < setup.max_head
    /\ source' = [source EXCEPT !.head = @ + 1]
    /\ UNCHANGED <<setup, now, eng, drv, disk, committed, cancelled, faults>>

\* The source compacts what no live hold protects.
Forget ==
    /\ source.low < source.head
    /\ \A a \in DOMAIN source.holds : source.holds[a].until > now => source.low < source.holds[a].floor
    /\ source' = [source EXCEPT !.low = @ + 1]
    /\ UNCHANGED <<setup, now, eng, drv, disk, committed, cancelled, faults>>

Advance ==
    /\ now < setup.max_time \/ now < eng.cleanup.due
    /\ now' = now + 1
    /\ UNCHANGED <<setup, source, eng, drv, disk, committed, cancelled, faults>>

Init ==
    /\ setup \in Setups
    /\ now = 0
    /\ source = [head |-> 2, low |-> 1,
                 holds |-> [a \in 1..setup.max_attempts |-> [floor |-> 0, until |-> 0]]]
    /\ eng = [stage |-> "CheckingTail", due |-> Attempt, total |-> 0, snap |-> FALSE, ready |-> FALSE,
              attempt |-> 0, attached |-> 0, idx |-> 0, cut |-> 0, cursor |-> 0, barrier |-> 0,
              through |-> 0, mat |-> setup.at, live |-> 0, cleanup |-> NoCleanup]
    /\ drv = Empty
    /\ disk = [pos |-> setup.at, content |-> Content(setup.at, Image(setup.at), {})]
    /\ committed = FALSE /\ cancelled = FALSE /\ faults = 0

Next ==
    \/ SnapshotAcquire \/ Offer \/ Open \/ ReadChunk \/ WriteChunk \/ Verify
    \/ Barrier \/ Scan \/ Apply \/ Seal \/ InstallCommits \/ InstallAnswered \/ Attach
    \/ TailAnswered \/ Replay \/ Recheck \/ CallFails \/ CancelSeen
    \/ Cleanup \/ CleanupExpires \/ Discard
    \/ CancelSession \/ Write \/ Forget \/ Advance

Spec == Init /\ [][Next]_vars

\* The driver runs: a cleanup is executed or expires, a lost call is noticed.
Fairness ==
    /\ WF_vars(Cleanup) /\ WF_vars(CleanupExpires) /\ WF_vars(Discard)
    /\ WF_vars(CancelSeen) /\ WF_vars(Advance)

FairSpec == Spec /\ Fairness

-----------------------------------------------------------------------------
TypeOK ==
    /\ source.low <= source.head
    /\ eng.snap => eng.attempt > 0 /\ eng.stage \notin {"Ready", "Aborted", "Cancelled", "NeedsSnapshot"}
    /\ eng.ready => eng.stage = "Ready"
    /\ committed => eng.stage = "Installing"

\* What the application has installed is one image and every event after its
\* cut, each once, whatever range a scan answered with (snapshot_scanned).
InstalledIsWhole ==
    disk.pos > 0 =>
        /\ disk.content.got = Image(disk.content.cut)
        /\ disk.content.events = (disk.content.cut + 1)..disk.pos

\* The driver keeps a hold, a stage, a chunk, a batch or a candidate only for
\* the attempt in progress or the one being cleaned up, so that a new attempt
\* starts with none of an earlier one's (discard_snapshot_local).
ResourcesAccounted ==
    LET kept == [drv EXCEPT !.attachment = 0, !.attempt = 0] # Empty
    IN  kept => \/ eng.snap /\ drv.attempt = eng.attempt
                \/ eng.cleanup # NoCleanup /\ eng.cleanup.attempt = drv.attempt

\* The source's retention pin does not outlive the engine's wish for it: the hold
\* handle is given up after an abort or a cancellation.  The one exception is a
\* cancellation that drops a queued discard (the worker clears its effects); then
\* the handle goes with the session.
HoldReleased ==
    (drv.hold # 0 /\ ~eng.snap) ~> (drv.hold = 0 \/ (cancelled /\ eng.cleanup.discarding))
=============================================================================
