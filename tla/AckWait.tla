------------------------------ MODULE AckWait ------------------------------
(***************************************************************************)
(* Waiting for named subscribers: SessionHandle::wait_named with its       *)
(* single slot and the guard that cancels an abandoned wait                *)
(* (consistency replication/shell/ack.rs), the driver's half (certify,     *)
(* start, observe, finish: shell/driver/ack.rs, validate_named of          *)
(* ack_api.rs) and the engine's wait (core session/ack_wait.rs).           *)
(*                                                                         *)
(* One caller waits several times; its wait may be dropped at any moment.  *)
(* The application's evidence source is external: it certifies the roster, *)
(* and answers a poll with one subscriber's evidence, with nothing, or     *)
(* with evidence it had prepared for an earlier poll.                      *)
(***************************************************************************)
EXTENDS Naturals, Sequences, FiniteSets

CONSTANTS Setups, Subscribers, Wait, Attempt, Poll

Setup ==
    [required : SUBSET Subscribers, queue : Nat,
     max_waits : Nat, max_time : Nat, faults : Nat]  \* bounds

VARIABLES
    setup, now,
    acked,    \* acked[g]: who has acknowledged the target of wait g
    slot,     \* AckSlot: [next, active, cancel]
    progress, \* progress[g]: what the driver recorded for wait g
    queue,    \* commands to the driver
    call,     \* the caller: the wait it is in, 0 when none, and its deadline
    reply,    \* reply[g]: what was sent to the wait's channel
    result,   \* result[g]: what wait_named returned
    drv,      \* the driver: running, certifying or observing
    ack,      \* ActiveAck: the generation whose wait the engine has
    wait,     \* the engine's AckWait
    done,     \* AckWaitFinished effects not yet executed
    faults

vars == <<setup, now, acked, slot, progress, queue, call, reply, result, drv, ack, wait, done, faults>>

Nothing == [kind |-> "none", waiting |-> {}]
Outcome(kind, waiting) == [kind |-> kind, waiting |-> waiting]
NoWait == [g |-> 0, due |-> 0, missing |-> {}, poll |-> 0, next |-> 0]

-----------------------------------------------------------------------------
(* The caller.                                                             *)

\* wait_named: take the slot, queue the command; a full queue gives it back.
WaitNamed ==
    LET g == slot.next + 1
    IN  /\ call.g = 0 /\ slot.next < setup.max_waits
        /\ IF slot.active # 0
           THEN UNCHANGED <<slot, progress, queue, call>>  \* Backpressured
           ELSE IF Len(queue) < setup.queue
           THEN /\ slot' = [next |-> g, active |-> g, cancel |-> FALSE]
                /\ progress' = [progress EXCEPT ![g] = Outcome("none", setup.required)]
                /\ queue' = Append(queue, [kind |-> "Start", g |-> g, due |-> now + Wait])
                /\ call' = [g |-> g, due |-> now + Wait]
           ELSE /\ slot' = [slot EXCEPT !.next = g]
                /\ UNCHANGED <<progress, queue, call>>
        /\ UNCHANGED <<setup, now, acked, reply, result, drv, ack, wait, done, faults>>

\* Dropping the guard: the slot is asked to cancel, the command may be lost.
Abandon(g) ==
    IF slot.active = g
    THEN /\ slot' = [slot EXCEPT !.cancel = TRUE]
         /\ queue' = IF Len(queue) < setup.queue
                     THEN Append(queue, [kind |-> "Cancel", g |-> g, due |-> 0]) ELSE queue
    ELSE UNCHANGED <<slot, queue>>

Returns(g, outcome) ==
    /\ result' = [result EXCEPT ![g] = outcome]
    /\ call' = [g |-> 0, due |-> 0]
    /\ Abandon(g)
    /\ UNCHANGED <<setup, now, acked, progress, reply, drv, ack, wait, done, faults>>

WaitReturns ==
    /\ call.g # 0
    /\ \/ reply[call.g] # Nothing /\ Returns(call.g, reply[call.g])
       \/ /\ now >= call.due
          /\ Returns(call.g, IF progress[call.g].kind # "none" THEN progress[call.g]
                             ELSE Outcome("TimedOut", progress[call.g].waiting))

\* The caller drops the future.
WaitDropped == call.g # 0 /\ Returns(call.g, Outcome("Dropped", setup.required))

-----------------------------------------------------------------------------
(* The engine.                                                             *)

\* A finished wait: its effect is queued, its outcome recorded at once.
Finish(w, outcome) ==
    /\ wait' = NoWait
    /\ done' = Append(done, [g |-> w.g, outcome |-> outcome])
    /\ progress' = IF ack = w.g /\ slot.active = w.g
                   THEN [progress EXCEPT ![w.g] = outcome] ELSE progress

\* AckWait::poll: the next poll and its deadline.
Polled(w) ==
    IF w.poll = 0 /\ now >= w.next
    THEN [w EXCEPT !.poll = IF now + Attempt < w.due THEN now + Attempt ELSE w.due] ELSE w

\* AckWait::new: every required subscriber is missing.
NewWait(g, due) == [g |-> g, due |-> due, missing |-> setup.required, poll |-> 0, next |-> now]

\* tick_ack_wait: the deadline, then a lapsed or due poll.
TickWait ==
    /\ wait # NoWait
    /\ IF now >= wait.due
       THEN Finish(wait, Outcome("TimedOut", wait.missing))
       ELSE /\ wait' = Polled(IF wait.poll # 0 /\ now >= wait.poll
                              THEN [wait EXCEPT !.poll = 0, !.next = now] ELSE wait)
            /\ wait' # wait
            /\ UNCHANGED <<done, progress>>

\* Mutant: one subscriber's evidence settles the wait.
ObservedAny(w, s) ==
    LET missing == w.missing \ {s}
    IN  IF TRUE THEN Finish(w, Outcome("Satisfied", missing))
        ELSE UNCHANGED <<wait, done, progress>>

\* AckWait::observe: evidence of one subscriber still missing.
Observed(w, s) ==
    LET missing == w.missing \ {s}
    IN  IF missing = {} THEN Finish(w, Outcome("Satisfied", {}))
        ELSE /\ wait' = Polled([w EXCEPT !.missing = missing, !.poll = 0, !.next = now])
             /\ progress' = IF slot.active = w.g
                            THEN [progress EXCEPT ![w.g] = Outcome("none", missing)] ELSE progress
             /\ UNCHANGED done

Checked(w) ==
    /\ wait' = [w EXCEPT !.poll = 0, !.next = IF now + Poll < w.due THEN now + Poll ELSE w.due]
    /\ UNCHANGED <<done, progress>>

-----------------------------------------------------------------------------
(* The driver: one await at a time.                                        *)

Idle == drv.pc = "run"

FinishPrestart(g, outcome) ==
    /\ IF slot.active = g
       THEN /\ progress' = [progress EXCEPT ![g] = outcome]
            /\ slot' = [slot EXCEPT !.active = 0, !.cancel = FALSE]
       ELSE UNCHANGED <<progress, slot>>
    /\ reply' = [reply EXCEPT ![g] = outcome]

Current(g) == slot.active = g /\ ~slot.cancel

\* start_ack up to its await, and cancel_ack.
Command ==
    LET c == queue[1]
    IN  /\ Idle /\ queue # <<>>
        /\ queue' = SubSeq(queue, 2, Len(queue))
        /\ \/ /\ c.kind = "Start" /\ Current(c.g)
              /\ drv' = [pc |-> "certify", g |-> c.g, due |-> c.due,
                         until |-> IF now + Attempt < c.due THEN now + Attempt ELSE c.due]
              /\ UNCHANGED <<slot, progress, reply, wait, done>>
           \/ /\ c.kind = "Start" /\ ~Current(c.g)
              /\ FinishPrestart(c.g, Outcome("Cancelled", {}))
              /\ UNCHANGED <<drv, wait, done>>
           \/ /\ c.kind = "Cancel"
              /\ slot' = IF slot.active = c.g THEN [slot EXCEPT !.cancel = TRUE] ELSE slot
              /\ IF ack = c.g /\ slot.active = c.g /\ wait.g = c.g
                 THEN Finish(wait, Outcome("Cancelled", {}))
                 ELSE UNCHANGED <<wait, done, progress>>
              /\ UNCHANGED <<drv, reply>>
        /\ UNCHANGED <<setup, now, acked, call, result, ack, faults>>

\* The guard's notification alone: the worker looks at the flag in every turn.
CancelRequested ==
    /\ Idle /\ slot.cancel /\ ack # 0 /\ slot.active = ack /\ wait.g = ack
    /\ Finish(wait, Outcome("Cancelled", {}))
    /\ UNCHANGED <<setup, now, acked, slot, queue, call, reply, result, drv, ack, faults>>

\* The rest of start_ack: the roster is certified, refused or not answered.
Certified ==
    /\ drv.pc = "certify"
    /\ drv' = [drv EXCEPT !.pc = "run"]
    /\ \/ /\ ~Current(drv.g)
          /\ FinishPrestart(drv.g, Outcome("Cancelled", {}))
          /\ UNCHANGED <<wait, done, ack, faults>>
       \/ /\ Current(drv.g) /\ now < drv.until
          /\ ack' = drv.g
          /\ LET w == NewWait(drv.g, drv.due)
             IN  IF w.missing = {}
                 THEN /\ wait' = NoWait
                      /\ done' = Append(done, [g |-> w.g, outcome |-> Outcome("Satisfied", {})])
                 ELSE wait' = Polled(w) /\ UNCHANGED done
          /\ UNCHANGED <<slot, progress, reply, faults>>
       \/ /\ Current(drv.g) /\ now >= drv.until
          /\ FinishPrestart(drv.g, IF now >= drv.due THEN Outcome("TimedOut", setup.required)
                                   ELSE Outcome("Backpressured", {}))
          /\ UNCHANGED <<wait, done, ack, faults>>
       \/ /\ Current(drv.g) /\ faults < setup.faults /\ faults' = faults + 1
          /\ FinishPrestart(drv.g, Outcome("AuthorityLost", {}))
          /\ UNCHANGED <<wait, done, ack>>
    /\ UNCHANGED <<setup, now, acked, queue, call, result>>

\* finish_ack: the slot is given back and the caller answered.
Finished ==
    /\ Idle /\ done # <<>>
    /\ done' = SubSeq(done, 2, Len(done))
    /\ IF ack = done[1].g
       THEN /\ ack' = 0
            /\ IF slot.active = ack
               THEN /\ progress' = [progress EXCEPT ![ack] = done[1].outcome]
                    /\ slot' = [slot EXCEPT !.active = 0, !.cancel = FALSE]
               ELSE UNCHANGED <<progress, slot>>
            /\ reply' = [reply EXCEPT ![ack] = done[1].outcome]
       ELSE UNCHANGED <<ack, progress, slot, reply>>
    /\ UNCHANGED <<setup, now, acked, queue, call, result, drv, wait, faults>>

Ticks ==
    /\ Idle /\ TickWait
    /\ UNCHANGED <<setup, now, acked, slot, queue, call, reply, result, drv, ack, faults>>

Observe ==
    /\ Idle /\ done = <<>> /\ wait.poll # 0 /\ now < wait.poll
    /\ drv' = [pc |-> "observe", g |-> wait.g, due |-> wait.poll, until |-> wait.poll]
    /\ UNCHANGED <<setup, now, acked, slot, progress, queue, call, reply, result, ack, wait, done, faults>>

\* The poll is answered, or its deadline passes and a tick settles it.
ObserveAnswered ==
    /\ drv.pc = "observe"
    /\ drv' = [drv EXCEPT !.pc = "run"]
    /\ IF now >= drv.until
       THEN TickWait /\ UNCHANGED faults
       ELSE \/ \E s \in wait.missing \cap acked[wait.g] : Observed(wait, s) /\ UNCHANGED faults
            \/ Checked(wait) /\ UNCHANGED faults
            \* evidence of another poll, or the source's word
            \/ /\ faults < setup.faults /\ faults' = faults + 1
               /\ Finish(wait, Outcome("AuthorityLost", {}))
    /\ UNCHANGED <<setup, now, acked, slot, queue, call, reply, result, ack>>

-----------------------------------------------------------------------------
Acknowledge(g, s) ==
    /\ s \notin acked[g]
    /\ acked' = [acked EXCEPT ![g] = @ \cup {s}]
    /\ UNCHANGED <<setup, now, slot, progress, queue, call, reply, result, drv, ack, wait, done, faults>>

Advance ==
    /\ now < setup.max_time
    /\ now' = now + 1
    /\ UNCHANGED <<setup, acked, slot, progress, queue, call, reply, result, drv, ack, wait, done, faults>>

Init ==
    /\ setup \in Setups
    /\ now = 0
    /\ acked = [g \in 1..setup.max_waits |-> {}]
    /\ slot = [next |-> 0, active |-> 0, cancel |-> FALSE]
    /\ progress = [g \in 1..setup.max_waits |-> Nothing]
    /\ queue = <<>>
    /\ call = [g |-> 0, due |-> 0]
    /\ reply = [g \in 1..setup.max_waits |-> Nothing]
    /\ result = [g \in 1..setup.max_waits |-> Nothing]
    /\ drv = [pc |-> "run", g |-> 0, due |-> 0, until |-> 0]
    /\ ack = 0
    /\ wait = NoWait
    /\ done = <<>>
    /\ faults = 0

Next ==
    \/ WaitNamed \/ WaitReturns \/ WaitDropped
    \/ Command \/ CancelRequested \/ Certified \/ Finished \/ Ticks \/ Observe \/ ObserveAnswered
    \/ \E g \in 1..setup.max_waits, s \in setup.required : Acknowledge(g, s)
    \/ Advance

Spec == Init /\ [][Next]_vars

Fairness ==
    /\ WF_vars(Command) /\ WF_vars(CancelRequested) /\ WF_vars(Certified) /\ WF_vars(Finished)
    /\ WF_vars(Ticks) /\ WF_vars(Observe) /\ WF_vars(ObserveAnswered)
    /\ WF_vars(WaitReturns) /\ WF_vars(Advance)

FairSpec == Spec /\ Fairness

-----------------------------------------------------------------------------
\* The engine's wait is the driver's active one, or its outcome is on the way; a
\* taken slot has a command, a start under way or a wait behind it.
TypeOK ==
    /\ wait # NoWait => wait.g = ack /\ wait.missing # {} /\ wait.missing \subseteq setup.required
    /\ Len(queue) <= setup.queue
    /\ slot.active \in 0..slot.next
    /\ slot.active # 0 =>
        \/ \E i \in 1..Len(queue) : queue[i].kind = "Start" /\ queue[i].g = slot.active
        \/ drv.pc = "certify" /\ drv.g = slot.active
        \/ ack = slot.active

\* A wait that returned Satisfied had the evidence of every required subscriber
\* for its own request, and one that timed out names everyone whose evidence is
\* missing, whichever waits were abandoned before it (finish_ack, record_ack_
\* progress, the generation in the slot).
OutcomeIsTrue ==
    \A g \in 1..setup.max_waits :
        /\ result[g].kind = "Satisfied" => setup.required \subseteq acked[g]
        /\ result[g].kind = "TimedOut" => setup.required \ result[g].waiting \subseteq acked[g]

\* A slot whose caller is gone is given back (AckWaitGuard::drop, cancel_ack).
SlotFreed == [](call.g = 0 => <>(slot.active = 0 \/ call.g # 0))
=============================================================================
