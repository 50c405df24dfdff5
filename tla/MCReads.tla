------------------------------ MODULE MCReads ------------------------------
(****************************************************************************)
(* Small instances of what lets a node serve a read: the coherence leases   *)
(* (one writer, one reader, one write, a lease of one or two ticks and one  *)
(* kind of trouble each), a replica session's freshness gate (Replay) and   *)
(* the source-ordered admissions (Admission). A behaviour is one of the     *)
(* three; part says which, and the others stay as they began.               *)
(****************************************************************************)
EXTENDS Integers, Sequences

CONSTANTS Parts, LeaseSetups, ReplaySetups, AdmissionSetups

VARIABLES
    part,
    lea_setup, time, lag, core, serve, warm, ledger, posted, offered, seen, heard, writes,
    known, synced,
    ses_setup, now, source, eng, drv, shared, pub, caller, app, held, used,
    adm_setup, log, sent, reader, writer

L == INSTANCE Lease WITH
    Setups <- LeaseSetups, setup <- lea_setup

R == INSTANCE Replay WITH
    Setups <- ReplaySetups, TailCheck <- 2, Attempt <- 2, RetryAfter <- 1, MaxRetries <- 2,
    QueueDepth <- 2, setup <- ses_setup

A == INSTANCE Admission WITH
    Setups <- AdmissionSetups, Readers <- {1}, setup <- adm_setup

lease ==
    <<lea_setup, time, lag, core, serve, warm, ledger, posted, offered, seen, heard, writes,
      known, synced>>

replay ==
    <<ses_setup, now, source, eng, drv, shared, pub, caller, app, held, used>>

admission ==
    <<adm_setup, log, sent, reader, writer>>

vars == <<part, lease, replay, admission>>

-----------------------------------------------------------------------------
(* Leases.                                                                 *)

Short ==
  [writers |-> {"w"}, readers |-> {"r"}, duration |-> 1, margin |-> 0, slow |-> {},
   renewals |-> <<2, 1>>, tracked |-> 2, writes |-> 1, warmup |-> 0, stale |-> 0,
   settled |-> TRUE, gaps |-> FALSE, timeouts |-> FALSE, restarts |-> {}, leaves |-> {},
   reaps |-> {}, max_time |-> 1]

\* A view turn works with an old instant, a gap is reported, a write times out.
Stale == [Short EXCEPT !.gaps = TRUE, !.stale = 1, !.timeouts = TRUE]

\* The reader's clock is slow within the rate margin.
Drift == [Short EXCEPT !.renewals = <<1>>, !.slow = {"r"}, !.margin = 1, !.duration = 2,
                       !.max_time = 2]

\* Nobody has met: warm-up on both sides.
Boot == [Short EXCEPT !.settled = FALSE, !.warmup = 1, !.renewals = <<1>>]

\* One side loses sight of the other.
LostReader == [Short EXCEPT !.reaps = {"w"}, !.renewals = <<1>>]
LostWriter == [Short EXCEPT !.reaps = {"r"}, !.renewals = <<1>>]

\* One side leaves.
WriterLeaves == [Short EXCEPT !.leaves = {"w"}]
ReaderLeaves == [Short EXCEPT !.leaves = {"r"}, !.renewals = <<1>>]

\* One side restarts.
ReaderRestarts == [Short EXCEPT !.restarts = {"r"}, !.renewals = <<1, 1>>, !.max_time = 0]
WriterRestarts == [Short EXCEPT !.restarts = {"w"}, !.renewals = <<1>>, !.warmup = 1]

SmallLeases ==
  {Stale, Drift, Boot, LostReader, LostWriter, WriterLeaves, ReaderLeaves, ReaderRestarts,
   WriterRestarts}

\* The writer restarts after a reader lapsed and was excused.
Relife == {[Short EXCEPT !.restarts = {"w"}, !.warmup = 1]}
-----------------------------------------------------------------------------
(* Replay: a source one event ahead, and one disturbance at a time.        *)

Quiet ==
    [disk |-> 0, head |-> 1, durable |-> FALSE, idle |-> FALSE, authority |-> {TRUE},
     max_time |-> 3, max_head |-> 1, hints |-> 0, floors |-> 0, revokes |-> 0, faults |-> 0,
     closes |-> 0]

\* Nothing on disk at the start (Unknown).
Bare == [Quiet EXCEPT !.disk = -1, !.max_time = 4]

SmallReplays ==
    {Bare,
     [Quiet EXCEPT !.max_head = 2],
     [Quiet EXCEPT !.revokes = 1],
     [Quiet EXCEPT !.idle = TRUE, !.hints = 1],
     [Quiet EXCEPT !.faults = 1, !.durable = TRUE],
     [Quiet EXCEPT !.floors = 1],
     [Quiet EXCEPT !.closes = 1, !.durable = TRUE]}

-----------------------------------------------------------------------------
(* Admissions: one reader, a writer whose clock runs twice as fast.        *)

OneReader ==
    [max_duration |-> 2, rate |-> <<2, 1>>, margin |-> 1, max_waiters |-> 2, max_time |-> 4,
     max_begins |-> 1]

SmallAdmissions == {OneReader, [OneReader EXCEPT !.max_begins = 2, !.max_time = 2]}
-----------------------------------------------------------------------------
Init ==
    /\ part \in Parts
    /\ L!Init /\ (part # "lease" => lea_setup = ReaderRestarts)
    /\ R!Init /\ (part # "replay" => ses_setup = Bare)
    /\ A!Init /\ (part # "admission" => adm_setup = OneReader)

Next ==
    \/ part = "lease" /\ L!Next /\ UNCHANGED <<part, replay, admission>>
    \/ part = "replay" /\ R!Next /\ UNCHANGED <<part, lease, admission>>
    \/ part = "admission" /\ A!Next /\ UNCHANGED <<part, lease, replay>>

Spec == Init /\ [][Next]_vars

-----------------------------------------------------------------------------
(* What the runs check.                                                    *)

\* A reader whose lease is valid serves every write it was counted for and, after
\* a lapse, nothing older than the writes that passed it by
\* (LeaseCore::live_at, GrantLedger::fold).
NoStaleServe == L!NoStaleServe

\* docs and grants.rs on a reader's return: a fresh grant never overtakes a write
\* it missed, also when the writer has restarted.
NoStaleServeEver == L!NoStaleServeEver

\* No coherent write waits for a reader longer than one lease duration after it
\* began, however often the reader renews (GrantLedger::fold).
WaitIsBounded == L!WaitIsBounded

\* A replica's read is served only from a state at least as fresh as the tail
\* check allows and revalidated since the authority last changed; a writer's
\* fence waits out every reader window it did not hear of (read_decision,
\* set_authority, WriterCore::fence).
ServesCurrent == R!ServesFresh /\ R!ServesRevalidated /\ A!FenceCovers

\* Nothing is installed for a replay session after its permit was invalidated
\* (ApplyFence).
NoLateInstall == R!NoLateInstall
=============================================================================
