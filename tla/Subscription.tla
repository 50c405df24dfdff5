---- MODULE Subscription ----
(***************************************************************************)
(* Durable named event delivery.  A session engine registers a subscriber  *)
(* name at a source, binds its sink to the granted epoch, and then delivers *)
(* batches: tail, scan, apply at the sink, acknowledge at the source.  A    *)
(* call may fail, or its answer may be lost after the source or the sink    *)
(* has acted; a write that was given up on may still arrive later.  Several *)
(* sessions of one name may be open in different processes.                 *)
(*                                                                         *)
(* The source and the sink are traits; they are modelled by their contract *)
(* and by the in-memory implementations the tests run against.             *)
(***************************************************************************)
EXTENDS Naturals, FiniteSets

CONSTANTS
    Setups,      \* the scenarios of a run
    Sessions,    \* session ids, in the order they may be opened
    MaxHead,     \* bound: events the source commits
    MaxRetries,  \* SessionConfig::max_retries
    MaxFaults    \* bound: failed calls and lost answers

VARIABLES
    setup,    \* the scenario, frozen
    ses,      \* per session: the engine, its handle and the call under way
    head,     \* the source's last committed event
    retained, \* events up to here may have been retired
    src,      \* the source's subscriber ledger for the name
    snk,      \* the sink's durable epoch and cursor
    ghosts,   \* writes given up on that may still reach the source
    faults    \* failures so far

vars == <<setup, ses, head, retained, src, snk, ghosts, faults>>

Starts == {"StartAt", "Resume", "ResetAt", "Detached"}
Setup == [process : [Sessions -> Sessions], starts : [Sessions -> SUBSET Starts],
          terminal : BOOLEAN, expiry : BOOLEAN, events : 0..MaxHead, faults : 0..MaxFaults]

Writes == {"Registering", "AckingSubscriber", "TerminatingSubscriber"}
Final == {"TerminatedSubscriber", "RetryExhausted", "IrrecoverableGap", "Cancelled"}
Max2(a, b) == IF a > b THEN a ELSE b

None == [kind |-> "none"]
NoCall == [req |-> None, ans |-> None]

Closed ==
    [open |-> FALSE, stage |-> "Unready", start |-> "StartAt", want |-> None, reg |-> 0,
     protected |-> 0, ack |-> 0, sink |-> 0, batch |-> 0, pending |-> None,
     term |-> "none", treq |-> None, receipt |-> None,
     retries |-> 0, target |-> "none", call |-> NoCall]

\* SessionEngine::issue: one outstanding operation, which also names the stage.
Issue(e, req) == [e EXCEPT !.stage = req.kind, !.call = [req |-> req, ans |-> None]]
Settle(e, stage) == [e EXCEPT !.stage = stage, !.call = NoCall]

----------------------------------------------------------------------------
\* The requests the engine's effects carry.
RegisterSubscriber(s, start, prior, reset) ==
    [kind |-> "Registering", id |-> s, start |-> start, prior |-> prior, reset |-> reset]
ReadRegistration(s) == [kind |-> "ReadingRegistration", id |-> s]
BindSinkEpoch(e) == [kind |-> "BindingSink", ord |-> e.reg, protected |-> e.protected]
CommitSubscriberAck(e) ==
    [kind |-> "AckingSubscriber", ord |-> e.reg, previous |-> e.ack, through |-> e.batch]
TerminalRequest(s, ord, ack) ==
    [kind |-> "TerminatingSubscriber", id |-> s, ord |-> ord, ack |-> ack]

----------------------------------------------------------------------------
\* commit_subscriber_terminal: the request is fixed once and then repeated.
CommitTerminal(s, e) ==
    \E req \in {IF e.treq = None THEN TerminalRequest(s, e.reg, e.ack) ELSE e.treq} :
        ses' = [ses EXCEPT ![s] = Issue([e EXCEPT !.treq = req, !.batch = 0], req)]

\* maybe_commit_subscriber_terminal: an unsubscribe waits for the pending ack.
TerminalReady(e) == e.term = "asked" /\ e.pending = None

\* poll_subscriber: always from the position the source has acknowledged.
PollOf(e) ==
    Issue([e EXCEPT !.stage = "Protected"],
          [kind |-> "CheckingSubscriberTail", ord |-> e.reg, from |-> e.ack])

\* The three places that end in `Protected` prefer a waiting unsubscribe.
TerminalOrPoll(s, e) ==
    IF TerminalReady(e) THEN CommitTerminal(s, e) ELSE ses' = [ses EXCEPT ![s] = PollOf(e)]

\* accept_registration, from the answer or from the readback.
AcceptRegistration(s, e, r) ==
    /\ r.start = e.want.start /\ r.ord > e.want.prior
    /\ \E f \in {[e EXCEPT !.reg = r.ord, !.protected = r.start, !.ack = r.start, !.retries = 0]} :
          ses' = [ses EXCEPT ![s] = Issue(f, BindSinkEpoch(f))]

\* subscriber_acked: the acknowledged position moves only with the receipt.
Acked(s, e) ==
    TerminalOrPoll(s, [e EXCEPT !.ack = e.pending.through, !.pending = None,
                                !.retries = 0, !.stage = "Protected", !.call = NoCall])

\* subscriber_terminal_committed
TerminalCommitted(s, e, r) ==
    ses' = [ses EXCEPT ![s] = [Settle(e, "TerminatedSubscriber") EXCEPT !.receipt = r]]

\* subscriber_rejected: a conclusive answer ends the session.
Rejected(s, e, error) ==
    ses' = [ses EXCEPT ![s] =
        [Settle(e, IF error \in {"Expired", "HistoryUnavailable", "FenceLost"}
                   THEN "IrrecoverableGap" ELSE "RetryExhausted")
            EXCEPT !.pending = None, !.batch = 0]]

----------------------------------------------------------------------------
\* The failure handlers: what a stage retries, or how the session gives up.
Retry(e, target) ==
    IF e.retries + 1 > MaxRetries
    THEN [Settle(e, "RetryExhausted") EXCEPT !.batch = 0]
    ELSE [Settle(e, "RetryWait") EXCEPT !.retries = e.retries + 1, !.target = target, !.batch = 0]

\* fail_subscription: a registration is read back before it is repeated.
FailSubscription(e) ==
    Retry(e, CASE e.stage = "ReadingCurrentSubscriber" -> "CurrentRead"
               [] e.stage \in {"Registering", "ReadingRegistration"} -> "Readback"
               [] e.stage = "BindingSink" -> "Bind")

\* fail_subscription_delivery: an ambiguous ack is read back, anything before
\* it starts again from the acknowledged position.
FailDelivery(e) ==
    Retry(e, IF e.stage \in {"AckingSubscriber", "ReadingSubscriberAck"}
             THEN "AckRead" ELSE "Tail")

\* fail_subscriber_terminal: an ambiguous tombstone is read back at once.
FailTerminal(e) ==
    IF e.retries + 1 > MaxRetries THEN Settle(e, "RetryExhausted")
    ELSE IF e.stage = "TerminatingSubscriber"
         THEN Issue([e EXCEPT !.retries = e.retries + 1],
                    [kind |-> "ReadingSubscriberTerminal", treq |-> e.treq])
         ELSE Retry(e, "TerminalRead")

Failed(e) ==
    CASE e.stage \in {"TerminatingSubscriber", "ReadingSubscriberTerminal"} -> FailTerminal(e)
      [] e.stage \in {"CheckingSubscriberTail", "ScanningSubscriber", "ApplyingSubscriber",
                      "AckingSubscriber", "ReadingSubscriberAck"} -> FailDelivery(e)
      [] OTHER -> FailSubscription(e)

----------------------------------------------------------------------------
\* One handler per stage: what the engine does with an accepted answer.
CurrentSubscriberRead(s, e, a) ==
    \/ a.kind = "none" /\ ses' = [ses EXCEPT ![s] = Settle(e, "IrrecoverableGap")]
    \/ /\ a.kind = "state" /\ e.start # "Detached" /\ a.retained > a.ack
       /\ ses' = [ses EXCEPT ![s] = Settle(e, "IrrecoverableGap")]
    \/ /\ a.kind = "state" /\ e.start # "Detached" /\ a.retained <= a.ack
       /\ \E req \in {RegisterSubscriber(s, a.ack, a.ord, FALSE)} :
             ses' = [ses EXCEPT ![s] = Issue([e EXCEPT !.want = req, !.retries = 0], req)]
    \/ /\ a.kind = "state" /\ e.start = "Detached"
       /\ CommitTerminal(s, [e EXCEPT !.treq = TerminalRequest(s, a.ord, a.ack),
                                      !.ack = a.ack, !.retries = 0])

SubscriberRegistered(s, e, a) == AcceptRegistration(s, e, a)

SubscriberRegistrationRead(s, e, a) ==
    IF a = None THEN ses' = [ses EXCEPT ![s] = Issue(e, e.want)] ELSE AcceptRegistration(s, e, a)

\* sink_epoch_bound: protected <= sink <= head of the registration's proof.
SinkEpochBound(s, e, a) ==
    /\ e.protected <= a.cursor
    /\ \E f \in {[Settle(e, "Protected") EXCEPT !.sink = a.cursor, !.retries = 0]} :
          IF TerminalReady(f) THEN CommitTerminal(s, f) ELSE ses' = [ses EXCEPT ![s] = f]

\* Mutant: a batch is acknowledged when it is scanned.
SubscriberScannedAcks(s, e, a) ==
    \E req \in {CommitSubscriberAck([e EXCEPT !.sink = a.through, !.batch = a.through])} :
        ses' = [ses EXCEPT ![s] = Issue([e EXCEPT !.pending = req, !.sink = a.through], req)]

SubscriberTail(s, e, a) ==
    IF a.retained > e.ack THEN ses' = [ses EXCEPT ![s] = Settle(e, "IrrecoverableGap")]
    ELSE IF TerminalReady(e) THEN CommitTerminal(s, e)
    ELSE IF e.ack < a.head
         THEN ses' = [ses EXCEPT ![s] = Issue(e, [kind |-> "ScanningSubscriber", ord |-> e.reg,
                                                  from |-> e.ack, head |-> a.head])]
         ELSE ses' = [ses EXCEPT ![s] = [Settle(e, "Protected") EXCEPT !.retries = 0]]

SubscriberScanned(s, e, a) ==
    /\ a.from = e.ack /\ a.through > e.ack
    /\ ses' = [ses EXCEPT ![s] =
          Issue([e EXCEPT !.batch = a.through],
                [kind |-> "ApplyingSubscriber", ord |-> e.reg, previous |-> e.sink,
                 through |-> a.through])]

\* subscriber_applied: the receipt covers the batch and explains the cursor.
ReceiptExplains(e, cursor) ==
    /\ e.batch <= cursor /\ e.sink <= cursor
    /\ e.batch = cursor \/ e.sink = cursor

\* A receipt that does not is refused, and the operation runs into its deadline.
SubscriberApplied(s, e, a) ==
    \E req \in {CommitSubscriberAck(e)} :
        ses' = [ses EXCEPT ![s] =
            IF ReceiptExplains(e, a.cursor)
            THEN Issue([e EXCEPT !.sink = a.cursor, !.pending = req, !.batch = 0], req)
            ELSE Failed(e)]

SubscriberAcked(s, e, a) == a = e.pending /\ Acked(s, e)

SubscriberAckRead(s, e, a) ==
    IF a = None THEN ses' = [ses EXCEPT ![s] = Issue(e, e.pending)] ELSE SubscriberAcked(s, e, a)

SubscriberTerminalCommitted(s, e, a) == a = e.treq /\ TerminalCommitted(s, e, a)

SubscriberTerminalRead(s, e, a) ==
    IF a = None THEN CommitTerminal(s, e) ELSE SubscriberTerminalCommitted(s, e, a)

\* reply_accepted and step: the answer of the outstanding call reaches the engine.
Reply(s) ==
    \E e \in {ses[s]} : \E a \in {e.call.ans} :
    /\ e.call.req # None /\ a # None
    /\ IF a.kind = "rejected" THEN Rejected(s, e, a.error)
       ELSE CASE e.stage = "ReadingCurrentSubscriber" -> CurrentSubscriberRead(s, e, a.value)
              [] e.stage = "Registering" -> SubscriberRegistered(s, e, a.value)
              [] e.stage = "ReadingRegistration" -> SubscriberRegistrationRead(s, e, a.value)
              [] e.stage = "BindingSink" -> SinkEpochBound(s, e, a.value)
              [] e.stage = "CheckingSubscriberTail" -> SubscriberTail(s, e, a.value)
              [] e.stage = "ScanningSubscriber" -> SubscriberScanned(s, e, a.value)
              [] e.stage = "ApplyingSubscriber" -> SubscriberApplied(s, e, a.value)
              [] e.stage = "AckingSubscriber" -> SubscriberAcked(s, e, a.value)
              [] e.stage = "ReadingSubscriberAck" -> SubscriberAckRead(s, e, a.value)
              [] e.stage = "TerminatingSubscriber" -> SubscriberTerminalCommitted(s, e, a.value)
              [] e.stage = "ReadingSubscriberTerminal" -> SubscriberTerminalRead(s, e, a.value)
    /\ UNCHANGED <<setup, head, retained, src, snk, ghosts, faults>>

----------------------------------------------------------------------------
\* Event::Failed: the adapter failed, or the deadline passed.  The call is
\* dropped; a write the source had not handled may reach it later.
Fail(s) ==
    \E e \in {ses[s]} :
    /\ e.call.req # None /\ faults < setup.faults
    /\ faults' = faults + 1
    /\ ses' = [ses EXCEPT ![s] = Failed(e)]
    /\ \/ UNCHANGED ghosts
       \/ /\ e.call.ans = None /\ e.call.req.kind \in Writes
          /\ ghosts' = ghosts \cup {e.call.req}
    /\ UNCHANGED <<setup, head, retained, src, snk>>

\* tick_replay_progress: the retry pause is over.
RetryDue(s) ==
    \E e \in {ses[s]} :
    /\ e.stage = "RetryWait"
    /\ CASE e.target = "CurrentRead" ->
              ses' = [ses EXCEPT ![s] = Issue(e, [kind |-> "ReadingCurrentSubscriber"])]
         [] e.target = "Readback" -> ses' = [ses EXCEPT ![s] = Issue(e, ReadRegistration(s))]
         [] e.target = "Bind" -> ses' = [ses EXCEPT ![s] = Issue(e, BindSinkEpoch(e))]
         [] e.target = "Tail" -> TerminalOrPoll(s, e)
         [] e.target = "AckRead" ->
              ses' = [ses EXCEPT ![s] = Issue(e, [kind |-> "ReadingSubscriberAck",
                                                  pending |-> e.pending])]
         [] e.target = "TerminalRead" ->
              ses' = [ses EXCEPT ![s] = Issue(e, [kind |-> "ReadingSubscriberTerminal",
                                                  treq |-> e.treq])]
    /\ UNCHANGED <<setup, head, retained, src, snk, ghosts, faults>>

\* Mutant: a subscriber one event behind is not polled.
PollDueLate(s) ==
    /\ ses[s].stage = "Protected" /\ head > ses[s].ack + 1
    /\ ses' = [ses EXCEPT ![s] = PollOf(ses[s])]
    /\ UNCHANGED <<setup, head, retained, src, snk, ghosts, faults>>

\* The tail check of a protected session falls due.
PollDue(s) ==
    /\ ses[s].stage = "Protected" /\ head > ses[s].ack
    /\ ses' = [ses EXCEPT ![s] = PollOf(ses[s])]
    /\ UNCHANGED <<setup, head, retained, src, snk, ghosts, faults>>

\* begin_subscriber_terminal: accepted only once the name is registered.
Unsubscribe(s) ==
    \E e \in {[ses[s] EXCEPT !.term = "asked", !.retries = 0]} :
    /\ setup.terminal /\ ses[s].open /\ ses[s].term = "none" /\ e.reg # 0
    /\ e.stage \in {"BindingSink", "Protected", "CheckingSubscriberTail", "ScanningSubscriber",
                    "ApplyingSubscriber", "AckingSubscriber", "ReadingSubscriberAck", "RetryWait"}
    /\ IF e.stage = "Protected" \/ (e.stage = "RetryWait" /\ e.pending = None)
       THEN CommitTerminal(s, e)
       ELSE ses' = [ses EXCEPT ![s] = e]
    /\ UNCHANGED <<setup, head, retained, src, snk, ghosts, faults>>

\* expire_subscriber_terminal: the caller's deadline passed; nothing is known.
TerminalDue(s) ==
    /\ ses[s].term = "asked" /\ ses[s].stage \notin Final
    /\ ses[s].call.req = None \/ ses[s].call.ans # None
    /\ faults < setup.faults /\ faults' = faults + 1
    /\ ses' = [ses EXCEPT ![s] = Settle(ses[s], "RetryExhausted")]
    /\ UNCHANGED <<setup, head, retained, src, snk, ghosts>>

----------------------------------------------------------------------------
\* open_named and unsubscribe_detached.  One process keeps one session per name.
OpenNamed(s) ==
    /\ ses[s] = Closed
    /\ \A t \in Sessions : t < s => ses[t] # Closed
    /\ \A t \in Sessions : ses[t].open => setup.process[t] # setup.process[s]
    /\ \E start \in setup.starts[s] : \E e \in {[Closed EXCEPT !.open = TRUE, !.start = start]} :
       \/ /\ start = "StartAt"
          /\ \E p \in retained..head : \E req \in {RegisterSubscriber(s, p, 0, FALSE)} :
                ses' = [ses EXCEPT ![s] = Issue([e EXCEPT !.want = req], req)]
       \/ /\ start = "ResetAt"
          /\ \E prior \in src.terms : \E req \in {RegisterSubscriber(s, prior.ack, prior.ord, TRUE)} :
                ses' = [ses EXCEPT ![s] = Issue([e EXCEPT !.want = req], req)]
       \/ /\ start = "Resume"
          /\ ses' = [ses EXCEPT ![s] = Issue(e, [kind |-> "ReadingCurrentSubscriber"])]
       \/ /\ start = "Detached"
          /\ ses' = [ses EXCEPT ![s] = Issue([e EXCEPT !.term = "asked"],
                                             [kind |-> "ReadingCurrentSubscriber"])]
    /\ UNCHANGED <<setup, head, retained, src, snk, ghosts, faults>>

\* close_named_if, cancel, Drop, and the return of a detached unsubscribe: the
\* fence is retired, the task aborted, and a write under way is out of reach.
CloseNamed(s) ==
    /\ ses[s].open
    /\ ses' = [ses EXCEPT ![s] = [Settle(ses[s], IF ses[s].stage \in Final THEN ses[s].stage
                                                ELSE "Cancelled") EXCEPT !.open = FALSE]]
    /\ \/ UNCHANGED ghosts
       \/ /\ ses[s].call.ans = None /\ ses[s].call.req.kind \in Writes
          /\ ghosts' = ghosts \cup {ses[s].call.req}
    /\ UNCHANGED <<setup, head, retained, src, snk, faults>>

----------------------------------------------------------------------------
\* The source, from its contract.  Every conditional write compares and writes
\* in one step; an exact repetition finds its first outcome.
Current(ord) == src.live /\ ord = src.ord

CanRegister(q) ==
    IF q.reset THEN ~src.live /\ src.ord = q.prior /\ q.start >= retained
    ELSE IF q.prior = 0 THEN src.ord = 0 /\ q.start >= retained
    ELSE Current(q.prior) /\ src.ack = q.start

Registered(q) ==
    src' = [src EXCEPT !.live = TRUE, !.ord = src.ord + 1, !.ack = q.start, !.floor = q.start,
                       !.regs = @ \cup {[id |-> q.id, ord |-> src.ord + 1, start |-> q.start]}]

SourceWrite(q) ==
    \/ q.kind = "Registering" /\ CanRegister(q) /\ Registered(q)
    \/ /\ q.kind = "AckingSubscriber" /\ Current(q.ord) /\ src.ack = q.previous
       /\ src' = [src EXCEPT !.ack = q.through, !.acks = @ \cup {q}]
    \/ /\ q.kind = "TerminatingSubscriber" /\ Current(q.ord) /\ src.ack = q.ack
       /\ src' = [src EXCEPT !.live = FALSE, !.terms = @ \cup {q}]

SourceWritable(q) ==
    \/ q.kind = "Registering" /\ CanRegister(q)
    \/ q.kind = "AckingSubscriber" /\ Current(q.ord) /\ src.ack = q.previous
    \/ q.kind = "TerminatingSubscriber" /\ Current(q.ord) /\ src.ack = q.ack

\* What the source already holds for this exact request.
Readback(q) ==
    CASE q.kind \in {"Registering", "ReadingRegistration"} -> {r \in src.regs : r.id = q.id}
      [] q.kind = "AckingSubscriber" -> src.acks \cap {q}
      [] q.kind = "ReadingSubscriberAck" -> src.acks \cap {q.pending}
      [] q.kind = "TerminatingSubscriber" -> src.terms \cap {q}
      [] q.kind = "ReadingSubscriberTerminal" -> src.terms \cap {q.treq}
      [] OTHER -> {}

Accept(s, value) == ses' = [ses EXCEPT ![s].call.ans = [kind |-> "accepted", value |-> value]]
Refuse(s, error) == ses' = [ses EXCEPT ![s].call.ans = [kind |-> "rejected", error |-> error]]

Mismatch == IF src.expired THEN "Expired" ELSE "ConditionalMismatch"

SourceRead(s, q) ==
    /\ UNCHANGED src
    /\ CASE q.kind = "ReadingCurrentSubscriber" ->
              Accept(s, IF src.live THEN [kind |-> "state", ord |-> src.ord, ack |-> src.ack,
                                          retained |-> retained]
                        ELSE None)
         [] q.kind = "CheckingSubscriberTail" ->
              IF Current(q.ord) THEN Accept(s, [head |-> head, retained |-> retained])
              ELSE Refuse(s, IF src.expired THEN "Expired" ELSE "FenceLost")
         [] q.kind = "ScanningSubscriber" ->
              IF Current(q.ord)
              THEN \E through \in (q.from + 1)..q.head : Accept(s, [from |-> q.from, through |-> through])
              ELSE Refuse(s, IF src.expired THEN "Expired" ELSE "FenceLost")
         [] OTHER -> IF Readback(q) = {} THEN Accept(s, None)
                     ELSE \E r \in Readback(q) : Accept(s, r)

\* source_call: the source handles the request of a call under way.
SourceHandles(s) ==
    \E q \in {ses[s].call.req} :
    /\ q # None /\ ses[s].call.ans = None
    /\ q.kind \notin {"BindingSink", "ApplyingSubscriber"}
    /\ IF q.kind \notin Writes THEN SourceRead(s, q)
       ELSE IF Readback(q) # {} THEN UNCHANGED src /\ \E r \in Readback(q) : Accept(s, r)
       ELSE IF ~SourceWritable(q) THEN UNCHANGED src /\ Refuse(s, Mismatch)
       ELSE /\ SourceWrite(q)
            /\ Accept(s, IF q.kind = "Registering"
                         THEN [id |-> q.id, ord |-> src.ord + 1, start |-> q.start] ELSE q)
    /\ UNCHANGED <<setup, head, retained, snk, ghosts, faults>>

\* A write that was given up on reaches the source after all, or never does.
GhostArrives ==
    \E q \in ghosts :
    /\ ghosts' = ghosts \ {q}
    /\ IF Readback(q) = {} /\ SourceWritable(q) THEN SourceWrite(q) ELSE UNCHANGED src
    /\ UNCHANGED <<setup, ses, head, retained, snk, faults>>

\* The sink, under the session's install permit: bind_subscriber_epoch and
\* apply_subscriber_batch of the contract, as the in-memory sink does them.
SinkHandles(s) ==
    \E q \in {ses[s].call.req} :
    /\ q # None /\ ses[s].call.ans = None
    /\ \/ /\ q.kind = "BindingSink" /\ q.ord >= snk.ord
          /\ snk' = [ord |-> q.ord, cursor |-> Max2(snk.cursor, q.protected)]
          /\ Accept(s, [cursor |-> snk'.cursor])
       \/ /\ q.kind = "ApplyingSubscriber" /\ q.ord = snk.ord
          /\ snk.cursor = q.previous \/ q.through <= snk.cursor
          /\ snk' = [snk EXCEPT !.cursor = IF snk.cursor = q.previous
                                           THEN Max2(snk.cursor, q.through) ELSE snk.cursor]
          /\ Accept(s, [cursor |-> snk'.cursor])
       \/ /\ \/ q.kind = "BindingSink" /\ q.ord < snk.ord
             \/ q.kind = "ApplyingSubscriber" /\ q.ord # snk.ord
             \/ /\ q.kind = "ApplyingSubscriber" /\ q.ord = snk.ord
                /\ snk.cursor # q.previous /\ q.through > snk.cursor
          /\ Refuse(s, "Unsupported") /\ UNCHANGED snk
    /\ UNCHANGED <<setup, head, retained, src, ghosts, faults>>

\* The source commits events, retires history no live subscriber still needs,
\* and may expire a subscriber under its retention policy.
Publish ==
    /\ head < setup.events /\ head' = head + 1
    /\ UNCHANGED <<setup, ses, retained, src, snk, ghosts, faults>>

Retire ==
    /\ retained < (IF src.live THEN src.ack ELSE head)
    /\ retained' = IF src.live THEN src.ack ELSE head
    /\ UNCHANGED <<setup, ses, head, src, snk, ghosts, faults>>

Expire ==
    /\ setup.expiry /\ src.live /\ src' = [src EXCEPT !.live = FALSE, !.expired = TRUE]
    /\ UNCHANGED <<setup, ses, head, retained, snk, ghosts, faults>>

----------------------------------------------------------------------------
Init ==
    /\ setup \in Setups
    /\ ses = [s \in Sessions |-> Closed]
    /\ head = 0 /\ retained = 0
    /\ src = [live |-> FALSE, ord |-> 0, ack |-> 0, floor |-> 0, expired |-> FALSE,
              regs |-> {}, acks |-> {}, terms |-> {}]
    /\ snk = [ord |-> 0, cursor |-> 0]
    /\ ghosts = {} /\ faults = 0

Next ==
    \/ \E s \in Sessions :
          \/ OpenNamed(s) \/ Reply(s) \/ Fail(s) \/ RetryDue(s) \/ PollDue(s)
          \/ Unsubscribe(s) \/ TerminalDue(s) \/ CloseNamed(s)
          \/ SourceHandles(s) \/ SinkHandles(s)
    \/ GhostArrives \/ Publish \/ Retire \/ Expire

Spec == Init /\ [][Next]_vars

\* The worker runs, timers fire, and the source and the sink answer.
Fairness ==
    \A s \in Sessions :
        /\ WF_vars(Reply(s)) /\ WF_vars(RetryDue(s)) /\ WF_vars(PollDue(s))
        /\ WF_vars(SourceHandles(s)) /\ WF_vars(SinkHandles(s))

FairSpec == Spec /\ Fairness

----------------------------------------------------------------------------
TypeOK ==
    /\ setup \in Setup
    /\ head \in 0..MaxHead /\ retained \in 0..head /\ faults \in 0..MaxFaults
    /\ src.ack \in 0..head /\ snk.cursor \in 0..head /\ snk.ord \in 0..src.ord
    /\ \A s \in Sessions :
          /\ ses[s].reg \in 0..src.ord /\ ses[s].retries \in 0..MaxRetries
          /\ ses[s].stage = ses[s].call.req.kind \/ ses[s].call = NoCall

\* An event is acknowledged to the source only after the sink holds it: the
\* source's position never passes the sink's durable cursor, except up to the
\* position the caller registered at.  Lost answers, repeated batches,
\* takeovers and late writes included.
AckedIsDelivered == src.ack <= Max2(snk.cursor, src.floor)

\* The owner of a live name never finds a gap: the source retires only what is
\* acknowledged, and after an acknowledgement whose answer was lost the engine
\* learns of it before it looks at the retained history again.
NoFalseGap ==
    \A s \in Sessions :
        ses[s].reg # 0 /\ ses[s].reg = src.ord /\ src.live => ses[s].stage # "IrrecoverableGap"

\* The engine of the current epoch is never wrong about the source: the
\* source stands at the position the engine believes acknowledged, or at the
\* end of the one acknowledgement it still has to settle.
EngineKnowsAck ==
    \A s \in Sessions :
        ses[s].reg = src.ord /\ src.live /\ ses[s].reg # 0 /\ ses[s].stage \notin Final
            => src.ack \in {ses[s].ack} \cup
                  (IF ses[s].pending = None THEN {} ELSE {ses[s].pending.through})

\* A confirmed unsubscribe is final for its epoch: the name is released at
\* the position of the receipt, and whatever the session had under way can no
\* longer move it.
UnsubscribeSettled ==
    \A s \in Sessions : ses[s].receipt # None =>
        /\ ses[s].receipt \in src.terms
        /\ src.ord = ses[s].receipt.ord => ~src.live /\ src.ack = ses[s].receipt.ack

\* A session that owns the name and is left alone delivers everything: every
\* committed event is acknowledged, or the session ends or loses the name.
Delivers ==
    \A s \in Sessions :
        (ses[s].reg # 0 /\ ses[s].reg = src.ord /\ src.live)
            ~> (src.ack = head \/ ses[s].stage \in Final \/ ses[s].reg # src.ord \/ ~src.live)
====
