------------------------------ MODULE Transfer ------------------------------
(***************************************************************************)
(* How a follower takes a donor's volatile index: the donor's journal      *)
(* (core volatile_bootstrap/journal), the follower's transfer session      *)
(* (core volatile_bootstrap/transfer/engine.rs), the driver that executes  *)
(* its effects (consistency bootstrap/session/run/transfer.rs), the port   *)
(* that turns effects into exchanges and serves them at the donor          *)
(* (bulk_adapter), the client and listener of an exchange                  *)
(* (bulk_wire/transport.rs) and the donor's bounded inbox (inbox.rs).      *)
(*                                                                         *)
(* The writers' mutations are the positions of setup.stream; an index is   *)
(* the set of positions it has applied.  A deadline, once armed, may pass  *)
(* at any later step.  The index, its image and the comparison of a        *)
(* barrier with the follower's live positions are the application's.       *)
(***************************************************************************)
EXTENDS Naturals, Sequences, FiniteSets

CONSTANTS Setups, Followers, Writers

\* A setup: the stream, whose i-th mutation is [kind, writer] ("native" is its
\* writer's next mutation, "renewal" opens its next epoch, "local" is an effect of
\* the donor without a position); the limits max_events, max_batch, max_inflight,
\* max_followers, inbox and chunks; the bounds world, captures, attempts, rosters,
\* polls and faults.
VARIABLES
    setup,
    world,     \* mutations published so far
    roster,    \* the membership, as a version
    donor,     \* [fed, index, cuts, whole, recovering, gen]: the donor's application
    journal,   \* DonorJournal
    inbox,     \* DonorInbox: [from, req, live]
    session,   \* TransferSession of each follower
    call,      \* the exchange a follower waits for: [kind, sent, reply]
    stage,     \* the private index a follower builds
    live,      \* mutations of each writer a follower has received itself
    faults

vars == <<setup, world, roster, donor, journal, inbox, session, call, stage, live, faults>>

None == [kind |-> "none"]

-----------------------------------------------------------------------------
(* Positions of the writers.                                               *)

Of(w, i) == setup.stream[i].writer = w /\ setup.stream[i].kind # "local"

\* The cut of a writer after i mutations of the stream: its epoch and sequence.
CutAt(w, i) ==
    LET renewals == {k \in 1..i : Of(w, k) /\ setup.stream[k].kind = "renewal"}
        last == IF renewals = {} THEN 0 ELSE CHOOSE k \in renewals : \A x \in renewals : x <= k
    IN <<1 + Cardinality(renewals), Cardinality({k \in (last + 1)..i : Of(w, k)})>>

AtLeast(a, b) == a[1] > b[1] \/ (a[1] = b[1] /\ a[2] >= b[2])

\* native_cuts_cover.
Covers(actual, expected) == \A w \in Writers : AtLeast(actual[w], expected[w])

\* Where a follower's own subscriptions stand.
Mine(w) == {i \in 1..world : Of(w, i)}
Nth(w, n) == CHOOSE i \in Mine(w) : Cardinality({k \in Mine(w) : k <= i}) = n
LiveCut(f) == [w \in Writers |-> CutAt(w, IF live[f][w] = 0 THEN 0 ELSE Nth(w, live[f][w]))]

-----------------------------------------------------------------------------
(* The donor's journal.                                                    *)

NoJournal ==
    [state |-> "Uncaptured", serial |-> 0, gen |-> 0, members |-> 0, image |-> {}, image_cuts |-> <<>>,
     cuts |-> <<>>, deltas |-> <<>>, followers |-> <<>>, aborted |-> {}, next |-> 1, ops |-> 1,
     inflight |-> 0]

Ok(j, out) == [j |-> j, ok |-> TRUE, out |-> out]
Err(j) == [j |-> j, ok |-> FALSE, out |-> None]

Drop(f, x) == [y \in DOMAIN f \ {x} |-> f[y]]
Put(f, x, v) == [y \in DOMAIN f \union {x} |-> IF y = x THEN v ELSE f[y]]
Bytes(out) == IF out = None THEN 0 ELSE out.bytes

Invalidate(j) ==
    IF j.state = "Invalidated" THEN j
    ELSE [j EXCEPT !.state = "Invalidated", !.members = 0, !.image = {}, !.image_cuts = <<>>,
                   !.cuts = <<>>, !.deltas = <<>>, !.followers = <<>>,
                   !.aborted = @ \union {[id |-> r, out |-> j.followers[r].out] : r \in DOMAIN j.followers}]

\* advance: a follower's deadline has passed.
Abort(j, r) ==
    [j EXCEPT !.followers = Drop(@, r),
              !.aborted = @ \union {[id |-> r, out |-> j.followers[r].out]}]

BeginCapture(serial) ==
    [NoJournal EXCEPT !.state = "Capturing", !.serial = serial, !.gen = donor.gen, !.members = roster,
                      !.image = donor.index, !.image_cuts = donor.cuts, !.cuts = donor.cuts]

\* record: the i-th mutation of the stream enters the journal.
Record(j, i) ==
    LET e == setup.stream[i]
        cut == CutAt(e.writer, i)
        covered == j.cuts[e.writer]
        follows == CASE e.kind = "native"  -> cut[1] = covered[1] /\ cut[2] = covered[2] + 1
                     [] e.kind = "renewal" -> covered = CutAt(e.writer, i - 1)
                     [] OTHER              -> TRUE
        kept == [j EXCEPT !.deltas = Append(@, i)]
    IN IF j.state \notin {"Capturing", "Active"} THEN j
       ELSE IF donor.gen # j.gen THEN Invalidate(j)
       ELSE IF \E k \in 1..Len(j.deltas) : j.deltas[k] = i THEN j
       ELSE IF Len(j.deltas) >= setup.max_events \/ ~follows THEN Invalidate(j)
       ELSE IF e.kind = "local" THEN kept
       ELSE [kept EXCEPT !.cuts[e.writer] = cut]

ObserveMembership(j) ==
    IF j.state \in {"Capturing", "Active"} /\ j.members # roster THEN Invalidate(j) ELSE j

\* reserved_for, reserve.
Reserve(j, who, serial) ==
    LET mine == {r \in DOMAIN j.followers : r.who = who}
        id == [capture |-> j.serial, who |-> who, n |-> j.next]
    IN IF j.state # "Active" \/ serial # j.serial THEN Err(j)
       ELSE IF mine # {} THEN Ok(j, CHOOSE r \in mine : TRUE)
       ELSE IF Cardinality(DOMAIN j.followers) + Cardinality(j.aborted) >= setup.max_followers THEN Err(j)
       ELSE Ok([j EXCEPT !.next = @ + 1,
                         !.followers = Put(@, id, [attach |-> 0, barrier |-> None, acked |-> 0,
                                                   last |-> <<0, 0>>, out |-> None])], id)

\* begin_attach or attachment_for, confirm_attach.
Attach(j, r) ==
    IF r \notin DOMAIN j.followers THEN Err(j)
    ELSE IF j.followers[r].attach # 0 THEN Ok(j, [res |-> r, op |-> j.followers[r].attach])
    ELSE Ok([j EXCEPT !.ops = @ + 1, !.followers[r].attach = j.ops], [res |-> r, op |-> j.ops])

\* The barrier the journal saves for a follower: the cuts at its last position.
Sample(j, r) ==
    LET receipt == [kind |-> "barrier", res |-> r, attach |-> j.followers[r].attach, op |-> j.ops,
                    at |-> Len(j.deltas), cuts |-> j.cuts, members |-> j.members,
                    index |-> donor.index]
    IN Ok([j EXCEPT !.ops = @ + 1, !.followers[r].barrier = receipt], receipt)

Barrier(j, token) ==
    LET r == token.res
    IN IF r \notin DOMAIN j.followers \/ j.followers[r].attach = 0 THEN Err(j)
       ELSE IF j.followers[r].barrier # None THEN
            IF j.followers[r].attach = token.op THEN Ok(j, j.followers[r].barrier) ELSE Err(j)
       ELSE Sample(j, r)

AdvanceBarrier(j, expected) ==
    LET r == expected.res
    IN IF \/ r \notin DOMAIN j.followers
          \/ j.followers[r].barrier # expected
          \/ j.followers[r].acked # expected.at
          \/ j.followers[r].out # None
       THEN Err(j) ELSE Sample(j, r)

Batch(r, op, from, through, j) ==
    [res |-> r, op |-> op, from |-> from, through |-> through, deltas |-> SubSeq(j.deltas, from + 1, through)]

\* An outstanding batch is repeated; a new one holds at most max_batch deltas.
ReadBatch(j, barrier) ==
    LET r == barrier.res
        me == j.followers[r]
        left == barrier.at - me.acked
        size == IF left > setup.max_batch THEN setup.max_batch ELSE left
    IN IF r \notin DOMAIN j.followers THEN Err(j)
       ELSE IF me.barrier # barrier \/ barrier.at > Len(j.deltas) \/ left < 0 THEN Err(j)
       ELSE IF me.out # None THEN Ok(j, Batch(r, me.out.op, me.acked, me.out.through, j))
       ELSE IF left = 0 \/ j.inflight + size > setup.max_inflight THEN Err(j)
       ELSE Ok([j EXCEPT !.ops = @ + 1, !.inflight = @ + size,
                         !.followers[r].out = [kind |-> "out", op |-> j.ops,
                                               through |-> me.acked + size, bytes |-> size]],
               Batch(r, j.ops, me.acked, me.acked + size, j))

AckBatch(j, req) ==
    LET r == req.res
        out == j.followers[r].out
    IN IF r \notin DOMAIN j.followers THEN Err(j)
       ELSE IF out = None THEN
            IF j.followers[r].last = <<req.op, req.through>> THEN Ok(j, req.through) ELSE Err(j)
       ELSE IF out.op # req.op \/ out.through # req.through THEN Err(j)
       ELSE Ok([j EXCEPT !.inflight = @ - out.bytes,
                         !.followers[r] = [@ EXCEPT !.acked = out.through, !.out = None,
                                                    !.last = <<req.op, req.through>>]], req.through)

Release(j, r) ==
    IF r \notin DOMAIN j.followers THEN Err(j)
    ELSE Ok([j EXCEPT !.inflight = @ - Bytes(j.followers[r].out), !.followers = Drop(@, r)], None)

-----------------------------------------------------------------------------
(* The donor.                                                              *)

\* prepare_donor_request.
Prepare(req, j) ==
    IF j.state # "Active" THEN Err(j)
    ELSE CASE req.kind = "Offer" ->
                Ok(j, [kind |-> "offer", capture |-> j.serial, chunks |-> setup.chunks,
                       members |-> j.members, cuts |-> j.image_cuts])
           [] req.kind = "Reserve" -> Reserve(j, req.who, req.capture)
           [] req.kind = "Chunk" -> IF req.res \in DOMAIN j.followers THEN Ok(j, j.image) ELSE Err(j)
           [] req.kind = "Attach" -> Attach(j, req.res)
           [] req.kind = "Barrier" -> Barrier(j, req.token)
           [] req.kind = "AdvanceBarrier" -> AdvanceBarrier(j, req.barrier)
           [] req.kind = "Batch" -> ReadBatch(j, req.barrier)
           [] req.kind = "Ack" -> AckBatch(j, req)
           [] req.kind = "Release" -> Release(j, req.res)

\* service_pending: one request.  A capture whose pinned members changed is retired
\* before it can offer an image or sample a barrier.
Serve ==
    /\ inbox # <<>>
    /\ LET item == Head(inbox)
           changed == /\ journal.state = "Active"
                      /\ item.req.kind \in {"Offer", "Barrier", "AdvanceBarrier"}
                      /\ journal.members # roster
           step == IF changed THEN Err(Invalidate(journal)) ELSE Prepare(item.req, journal)
       IN /\ inbox' = Tail(inbox)
          /\ journal' = step.j
          /\ call' = IF item.live
                     THEN [call EXCEPT ![item.from].reply =
                             IF step.ok THEN [kind |-> "ok", out |-> step.out] ELSE [kind |-> "refused"]]
                     ELSE call
    /\ UNCHANGED <<setup, world, roster, donor, session, stage, live, faults>>

\* The donor's application applies a mutation it receives and records it; a
\* redelivery is recorded again, and a lost one is skipped.
Apply(i) ==
    /\ donor' = [donor EXCEPT !.fed = IF i > @ THEN i ELSE @, !.index = @ \union {i},
                              !.cuts = IF setup.stream[i].kind = "local" THEN @
                                       ELSE [@ EXCEPT ![setup.stream[i].writer] = CutAt(setup.stream[i].writer, i)],
                              !.whole = @ /\ (i <= donor.fed + 1)]
    /\ journal' = Record(journal, i)
    /\ UNCHANGED <<setup, world, roster, inbox, session, call, stage, live>>

Feed == donor.fed < world /\ Apply(donor.fed + 1) /\ UNCHANGED faults

Refeed ==
    /\ faults < setup.faults /\ donor.fed > 0
    /\ Apply(donor.fed) /\ faults' = faults + 1

Skip ==
    /\ faults < setup.faults /\ donor.fed + 2 <= world
    /\ setup.stream[donor.fed + 1].kind # "local"
    /\ Apply(donor.fed + 2) /\ faults' = faults + 1

\* A lost mutation starts the donor's own recovery, a new generation; its worker
\* drops the capture (CancelBaseline) before the index is rebuilt from the origin.
Recover ==
    /\ ~donor.whole /\ ~donor.recovering
    /\ donor' = [donor EXCEPT !.gen = @ + 1, !.recovering = TRUE]
    /\ UNCHANGED <<setup, world, roster, journal, inbox, session, call, stage, live, faults>>

Rebuild ==
    /\ donor.recovering
    /\ donor' = [donor EXCEPT !.fed = world, !.index = 1..world, !.whole = TRUE, !.recovering = FALSE,
                              !.cuts = [w \in Writers |-> CutAt(w, world)]]
    /\ journal' = Invalidate(journal)
    /\ UNCHANGED <<setup, world, roster, inbox, session, call, stage, live, faults>>

\* build_local_capture: the image is the index at the cut; a capture needs an
\* index without holes.
StartCapture ==
    /\ journal.state \in {"Uncaptured", "Invalidated"} /\ donor.whole
    /\ journal.serial < setup.captures
    /\ journal' = BeginCapture(journal.serial + 1)
    /\ UNCHANGED <<setup, world, roster, donor, inbox, session, call, stage, live, faults>>

FinishCapture ==
    /\ journal.state = "Capturing"
    /\ journal' = [journal EXCEPT !.state = "Active"]
    /\ UNCHANGED <<setup, world, roster, donor, inbox, session, call, stage, live, faults>>

\* The capture's deadline, drop_capture, and a membership the donor observes.
LoseCapture ==
    /\ \/ /\ journal.state \in {"Capturing", "Active"} /\ faults < setup.faults
          /\ journal' = Invalidate(journal) /\ faults' = faults + 1
       \/ ObserveMembership(journal) # journal /\ journal' = ObserveMembership(journal) /\ UNCHANGED faults
    /\ UNCHANGED <<setup, world, roster, donor, inbox, session, call, stage, live>>

\* A follower's reservation runs out at the donor.
ExpireFollower(r) ==
    /\ r \in DOMAIN journal.followers
    /\ journal' = Abort(journal, r)
    /\ UNCHANGED <<setup, world, roster, donor, inbox, session, call, stage, live, faults>>

Publish ==
    /\ world < setup.world
    /\ world' = world + 1
    /\ UNCHANGED <<setup, roster, donor, journal, inbox, session, call, stage, live, faults>>

RosterChange ==
    /\ roster < setup.rosters
    /\ roster' = roster + 1
    /\ UNCHANGED <<setup, world, donor, journal, inbox, session, call, stage, live, faults>>

-----------------------------------------------------------------------------
(* The follower's session.                                                 *)

NoSession ==
    [stage |-> "Unready", attempt |-> 0, offer |-> None, res |-> None, token |-> None, barrier |-> None,
     chunk |-> 0, replay |-> <<>>, applied |-> 0, replayed |-> 0, pending |-> 0, polls |-> 0]

NoCall == [kind |-> "none", sent |-> FALSE, reply |-> None]
Ended == {"Unready", "Completed", "Aborted"}
Who(f, s) == <<f, s.attempt>>
Asks(req) == [kind |-> "call", req |-> req, sent |-> FALSE, reply |-> None]

\* The request a stage waits for; None for a stage of the application or a timer.
Request(f, s) ==
    CASE s.stage = "RequestingOffer" -> [kind |-> "Offer"]
      [] s.stage = "ReservingDonor" -> [kind |-> "Reserve", who |-> Who(f, s), capture |-> s.offer.capture]
      [] s.stage = "Receiving" -> [kind |-> "Chunk", res |-> s.res]
      [] s.stage = "Attaching" -> [kind |-> "Attach", res |-> s.res]
      [] s.stage = "RequestingBarrier" ->
            IF s.barrier = None THEN [kind |-> "Barrier", token |-> s.token]
            ELSE [kind |-> "AdvanceBarrier", barrier |-> s.barrier]
      [] s.stage = "Replaying" -> [kind |-> "Batch", barrier |-> s.barrier]
      [] s.stage = "AcknowledgingBatch" ->
            [kind |-> "Ack", res |-> s.res, op |-> s.pending.op, through |-> s.pending.through]
      [] OTHER -> None

\* Requests whose client has gone are still served, their answers reach nobody.
Deaf(f) == [k \in 1..Len(inbox) |-> IF inbox[k].from = f THEN [inbox[k] EXCEPT !.live = FALSE] ELSE inbox[k]]

\* The session moves to s: its next effect is under way.
Moves(f, s) ==
    /\ session' = [session EXCEPT ![f] = s]
    /\ call' = [call EXCEPT ![f] = IF Request(f, s) = None THEN NoCall ELSE Asks(Request(f, s))]

\* abort, or the ReleaseReservation of a completed session: the release of the
\* reservation is sent once.
Ends(f, next, sent) ==
    /\ session' = [session EXCEPT ![f] = next]
    /\ call' = [call EXCEPT ![f] = NoCall]
    /\ LET r == session[f].res
       IN inbox' = IF r # None /\ sent /\ Len(inbox) < setup.inbox /\ journal.state = "Active"
                   THEN Append(Deaf(f), [from |-> f, req |-> [kind |-> "Release", res |-> r], live |-> FALSE])
                   ELSE Deaf(f)

Aborts(f, sent) ==
    /\ Ends(f, [NoSession EXCEPT !.stage = "Aborted", !.attempt = session[f].attempt], sent)
    /\ stage' = [stage EXCEPT ![f] = {}]

Fails(f) == Aborts(f, TRUE)

\* StartTransfer, TransferSession::new, Start.
Start(f) ==
    /\ session[f].stage \in {"Unready", "Aborted"} /\ session[f].attempt < setup.attempts
    /\ Moves(f, [NoSession EXCEPT !.stage = "RequestingOffer", !.attempt = session[f].attempt + 1])
    /\ UNCHANGED <<setup, world, roster, donor, journal, inbox, stage, live, faults>>

\* The client's request reaches serve_connection: the donor must hold a capture it
\* serves under its identity, and have room in its inbox.
Submit(f) ==
    /\ call[f] # NoCall /\ ~call[f].sent
    /\ IF journal.state = "Active" /\ Len(inbox) < setup.inbox
       THEN /\ inbox' = Append(inbox, [from |-> f, req |-> call[f].req, live |-> TRUE])
            /\ call' = [call EXCEPT ![f].sent = TRUE]
       ELSE /\ call' = [call EXCEPT ![f].sent = TRUE, ![f].reply = [kind |-> "refused"]]
            /\ UNCHANGED inbox
    /\ UNCHANGED <<setup, world, roster, donor, journal, session, stage, live, faults>>

Answered(f, at) == session[f].stage = at /\ call[f] # NoCall /\ call[f].reply.kind = "ok"
Answer(f) == call[f].reply.out

\* A refusal, a broken exchange or the operation's deadline: Failed.
CallFails(f) ==
    /\ \/ call[f] # NoCall /\ call[f].reply.kind = "refused" /\ UNCHANGED faults
       \/ call[f] # NoCall /\ faults < setup.faults /\ faults' = faults + 1
    /\ Fails(f)
    /\ UNCHANGED <<setup, world, roster, donor, journal, live>>

Offered(f) ==
    /\ Answered(f, "RequestingOffer")
    /\ Moves(f, [session[f] EXCEPT !.stage = "ReservingStage", !.offer = Answer(f), !.replay = Answer(f).cuts])
    /\ UNCHANGED <<setup, world, roster, donor, journal, inbox, stage, live, faults>>

\* The application reserves a private index.
StageReserved(f) ==
    /\ session[f].stage = "ReservingStage"
    /\ Moves(f, [session[f] EXCEPT !.stage = "ReservingDonor"])
    /\ stage' = [stage EXCEPT ![f] = {}]
    /\ UNCHANGED <<setup, world, roster, donor, journal, inbox, live, faults>>

DonorReserved(f) ==
    /\ Answered(f, "ReservingDonor")
    /\ LET r == Answer(f)
       IN IF r.capture # session[f].offer.capture THEN Fails(f)
          ELSE /\ Moves(f, [session[f] EXCEPT !.stage = "Receiving", !.res = r])
               /\ UNCHANGED <<inbox, stage>>
    /\ UNCHANGED <<setup, world, roster, donor, journal, live, faults>>

\* The last chunk completes the image.
ChunkStored(f) ==
    /\ Answered(f, "Receiving")
    /\ LET s == session[f]
           last == s.chunk + 1 = s.offer.chunks
       IN /\ Moves(f, [s EXCEPT !.chunk = @ + 1, !.stage = IF last THEN "VerifyingImage" ELSE @])
          /\ stage' = [stage EXCEPT ![f] = IF last THEN Answer(f) ELSE @]
    /\ UNCHANGED <<setup, world, roster, donor, journal, inbox, live, faults>>

ImageVerified(f) ==
    /\ session[f].stage = "VerifyingImage"
    /\ Moves(f, [session[f] EXCEPT !.stage = "Attaching"])
    /\ UNCHANGED <<setup, world, roster, donor, journal, inbox, stage, live, faults>>

StreamAttached(f) ==
    /\ Answered(f, "Attaching")
    /\ Moves(f, [session[f] EXCEPT !.stage = "RequestingBarrier", !.token = Answer(f)])
    /\ UNCHANGED <<setup, world, roster, donor, journal, inbox, stage, live, faults>>

BarrierValid(s, b) ==
    /\ b.res = s.res /\ b.attach = s.token.op /\ b.members = s.offer.members
    /\ b.at <= setup.max_events
    /\ Covers(b.cuts, s.offer.cuts)
    /\ s.barrier # None => /\ b.op # s.barrier.op /\ b.at >= s.barrier.at
                           /\ Covers(b.cuts, s.barrier.cuts) /\ s.applied = s.barrier.at

\* next_batch_or_coverage.
NextBatchOrCoverage(f, s) ==
    IF s.applied = s.barrier.at
    THEN IF s.replay # s.barrier.cuts THEN Fails(f)
         ELSE Moves(f, [s EXCEPT !.stage = "AwaitingNativeCoverage"]) /\ UNCHANGED <<inbox, stage>>
    ELSE Moves(f, [s EXCEPT !.stage = "Replaying"]) /\ UNCHANGED <<inbox, stage>>

BarrierReceived(f) ==
    /\ Answered(f, "RequestingBarrier")
    /\ IF BarrierValid(session[f], Answer(f))
       THEN NextBatchOrCoverage(f, [session[f] EXCEPT !.barrier = Answer(f)])
       ELSE Fails(f)
    /\ UNCHANGED <<setup, world, roster, donor, journal, live, faults>>

\* batch_valid: each native delta continues its writer's replayed cut or renews it,
\* and none lies beyond the barrier.  The result is the replayed cuts, or None.
Replay(s, deltas) ==
    LET Step[k \in 0..Len(deltas)] ==
            IF k = 0 THEN s.replay
            ELSE LET before == Step[k - 1]
                     e == setup.stream[deltas[k]]
                     cut == CutAt(e.writer, deltas[k])
                     at == before[e.writer]
                 IN IF before = None \/ e.kind = "local" THEN before
                    ELSE IF /\ \/ cut[1] = at[1] /\ cut[2] = at[2] + 1
                               \/ cut[1] > at[1] /\ cut[2] = 0
                            /\ AtLeast(s.barrier.cuts[e.writer], cut)
                         THEN [before EXCEPT ![e.writer] = cut] ELSE None
    IN Step[Len(deltas)]

\* The application stages the batch; BatchStaged checks it and acknowledges.
BatchStaged(f) ==
    /\ Answered(f, "Replaying")
    /\ LET s == session[f]
           b == Answer(f)
           cuts == Replay(s, b.deltas)
           valid == /\ b.from = s.applied /\ b.through <= s.barrier.at
                    /\ b.deltas # <<>> /\ Len(b.deltas) <= setup.max_batch
                    /\ b.through = s.applied + Len(b.deltas)
                    /\ s.replayed + Len(b.deltas) <= setup.max_events
                    /\ cuts # None
       IN IF valid
          THEN /\ Moves(f, [s EXCEPT !.stage = "AcknowledgingBatch", !.replay = cuts,
                                     !.replayed = @ + Len(b.deltas),
                                     !.pending = [op |-> b.op, through |-> b.through]])
               /\ stage' = [stage EXCEPT ![f] = @ \union {b.deltas[k] : k \in 1..Len(b.deltas)}]
               /\ UNCHANGED inbox
          ELSE Fails(f)
    /\ UNCHANGED <<setup, world, roster, donor, journal, live, faults>>

BatchAcknowledged(f) ==
    /\ Answered(f, "AcknowledgingBatch")
    /\ NextBatchOrCoverage(f, [session[f] EXCEPT !.applied = session[f].pending.through, !.pending = 0])
    /\ UNCHANGED <<setup, world, roster, donor, journal, live, faults>>

\* align_cuts: only the exact positions of the barrier may be installed.
Exact(f, b) == \A w \in Writers : LiveCut(f)[w] = b.cuts[w]

NativeCovered(f) ==
    /\ session[f].stage = "AwaitingNativeCoverage"
    /\ Exact(f, session[f].barrier)
    /\ IF roster # session[f].barrier.members THEN Fails(f)
       ELSE /\ Moves(f, [session[f] EXCEPT !.stage = "Installing"]) /\ UNCHANGED <<inbox, stage>>
    /\ UNCHANGED <<setup, world, roster, donor, journal, live, faults>>

NativePending(f) ==
    /\ session[f].stage \in {"AwaitingNativeCoverage", "Installing"}
    /\ ~Exact(f, session[f].barrier)
    /\ Moves(f, [session[f] EXCEPT !.stage = "WaitingCoverage"])
    /\ UNCHANGED <<setup, world, roster, donor, journal, inbox, stage, live, faults>>

\* The application swaps the private index in under the publication permit, unless
\* its live positions have moved; then the reservation is released.
Installed(f) ==
    /\ session[f].stage = "Installing"
    /\ Exact(f, session[f].barrier)
    /\ Ends(f, [NoSession EXCEPT !.stage = "Completed", !.attempt = session[f].attempt,
                                 !.barrier = session[f].barrier], TRUE)
    /\ UNCHANGED <<setup, world, roster, donor, journal, stage, live, faults>>

\* The coverage poll is due: sample a later barrier.
CoverageDue(f) ==
    /\ session[f].stage = "WaitingCoverage" /\ session[f].polls < setup.polls
    /\ Moves(f, [session[f] EXCEPT !.stage = "RequestingBarrier", !.polls = @ + 1])
    /\ UNCHANGED <<setup, world, roster, donor, journal, inbox, stage, live, faults>>

\* The binding's deadline, or the parent's cancellation; the release may not be sent.
Expires(f) ==
    /\ session[f].stage \notin Ended
    /\ \E sent \in BOOLEAN : Aborts(f, sent)
    /\ UNCHANGED <<setup, world, roster, donor, journal, live, faults>>

\* The follower's own subscription delivers a writer's next mutation.
Receive(f, w) ==
    /\ session[f].stage \notin {"Completed"} /\ session[f].attempt > 0
    /\ live[f][w] < Cardinality(Mine(w))
    /\ live' = [live EXCEPT ![f][w] = @ + 1]
    /\ UNCHANGED <<setup, world, roster, donor, journal, inbox, session, call, stage, faults>>

-----------------------------------------------------------------------------

Init ==
    /\ setup \in Setups
    /\ world = 0 /\ roster = 1 /\ faults = 0
    /\ donor = [fed |-> 0, index |-> {}, whole |-> TRUE, recovering |-> FALSE, gen |-> 1,
                 cuts |-> [w \in Writers |-> <<1, 0>>]]
    /\ journal = NoJournal /\ inbox = <<>>
    /\ session = [f \in Followers |-> NoSession]
    /\ call = [f \in Followers |-> NoCall]
    /\ stage = [f \in Followers |-> {}]
    /\ live = [f \in Followers |-> [w \in Writers |-> 0]]

SessionStep(f) ==
    \/ Submit(f) \/ Offered(f) \/ StageReserved(f) \/ DonorReserved(f) \/ ChunkStored(f)
    \/ ImageVerified(f) \/ StreamAttached(f) \/ BarrierReceived(f) \/ BatchStaged(f)
    \/ BatchAcknowledged(f) \/ NativeCovered(f) \/ NativePending(f) \/ Installed(f) \/ CoverageDue(f)

Next ==
    \/ Publish \/ RosterChange \/ Feed \/ Refeed \/ Skip \/ Recover \/ Rebuild
    \/ StartCapture \/ FinishCapture \/ LoseCapture \/ Serve
    \/ \E r \in DOMAIN journal.followers : ExpireFollower(r)
    \/ \E f \in Followers :
          \/ Start(f) \/ SessionStep(f) \/ CallFails(f) \/ Expires(f)
          \/ \E w \in Writers : Receive(f, w)

Spec == Init /\ [][Next]_vars

\* The worker sleeps until the binding's deadline (next_deadline), the donor's
\* maintenance until a reservation's.
Fairness ==
    /\ WF_vars(\E r \in DOMAIN journal.followers : ExpireFollower(r))
    /\ \A f \in Followers : WF_vars(Expires(f))

FairSpec == Spec /\ Fairness

-----------------------------------------------------------------------------
(* Properties.                                                             *)

Stages == {"Unready", "RequestingOffer", "ReservingStage", "ReservingDonor", "Receiving", "VerifyingImage",
           "Attaching", "RequestingBarrier", "Replaying", "AcknowledgingBatch", "AwaitingNativeCoverage",
           "WaitingCoverage", "Installing", "Completed", "Aborted"}

\* Stages and positions stay in range, and the journal's in-flight bytes are those
\* of the batches its followers and aborted followers hold (inflight_bytes).
TypeOK ==
    /\ world \in 0..setup.world /\ faults \in 0..setup.faults /\ Len(inbox) <= setup.inbox
    /\ \A f \in Followers : session[f].stage \in Stages /\ stage[f] \subseteq 1..world
    /\ LET held == {j \in {<<r, journal.followers[r].out>> : r \in DOMAIN journal.followers}
                          \union {<<a.id, a.out>> : a \in journal.aborted} : j[2] # None}
           Sum[S \in SUBSET held] ==
               IF S = {} THEN 0 ELSE LET x == CHOOSE y \in S : TRUE IN x[2].bytes + Sum[S \ {x}]
       IN journal.inflight = Sum[held] /\ journal.inflight <= setup.max_inflight
    /\ Cardinality(DOMAIN journal.followers) + Cardinality(journal.aborted) <= setup.max_followers

\* A transferred index is the donor's index at its last barrier, and holds every
\* mutation of every writer up to the cut the barrier proves: an image and a replay
\* that lost, skipped or repeated a delta, or ran past a capture that ended, never
\* completes (record, read_batch, batch_valid, barrier_valid).
InstalledIsWhole ==
    \A f \in Followers : session[f].stage = "Completed" =>
        LET b == session[f].barrier
        IN /\ stage[f] = b.index
           /\ \A i \in 1..world : setup.stream[i].kind # "local" =>
                 LET w == setup.stream[i].writer
                 IN i \in stage[f] <=> AtLeast(b.cuts[w], CutAt(w, i))

\* An installed index stands exactly where the follower's own subscriptions stand:
\* nothing they delivered is missing from it or applied twice (align_cuts).
InstalledIsAligned ==
    \A f \in Followers : session[f].stage = "Completed" =>
        \A i \in 1..world : setup.stream[i].kind # "local" =>
            LET w == setup.stream[i].writer
            IN i \in stage[f] <=> AtLeast(LiveCut(f)[w], CutAt(w, i))

\* A transfer ends, and its reservation does not outlive it at the donor, though the
\* release is sent once and may be lost (abort, advance).
AtRest ==
    \A f \in Followers :
        /\ session[f].stage \in Ended
        /\ \A r \in DOMAIN journal.followers : r.who # <<f, session[f].attempt>>

Settles == <>[]AtRest
=============================================================================
