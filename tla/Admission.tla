----------------------------- MODULE Admission -----------------------------
(***************************************************************************)
(* Source-ordered read admission: readers append admissions to the source, *)
(* serve for a bounded time, and a writer that appended an intent waits    *)
(* until every reader admitted before it has acknowledged or must have     *)
(* lapsed (core replication/admission/reader.rs, writer.rs, timing.rs,     *)
(* types.rs).  The clocks of readers and writer run at different rates, at *)
(* most rate_numerator / rate_denominator apart; appends land late or go   *)
(* unanswered.  The log, its certified roster and the acknowledgements are *)
(* the embedding application's, modelled from the receipts' checks.        *)
(***************************************************************************)
EXTENDS Naturals, Sequences, FiniteSets

CONSTANTS Setups, Readers

Setup ==
    [max_duration : Nat \ {0}, rate : Nat \X Nat, margin : Nat \ {0}, max_waiters : Nat,
     max_time : Nat,   \* bound: ticks of the readers' clocks
     max_begins : Nat] \* bound: admissions a reader asks for

VARIABLES
    setup,
    log,      \* the source's records: admissions <<reader, incarnation>> and the intent
    sent,     \* appends under way
    reader,   \* reader[r]: ReaderCore and the position its state has applied
    writer    \* WriterCore

vars == <<setup, log, sent, reader, writer>>

Intent == <<"intent">>

NoWindow == [inc |-> 0, deadline |-> 0, pos |-> 0]

Position(record) == IF \E i \in 1..Len(log) : log[i] = record
                    THEN CHOOSE i \in 1..Len(log) : log[i] = record ELSE 0

Ceil(a, b) == (a + b - 1) \div b

\* The longest a reader's window can last by the writer's clock.
ExpiryWait ==
    Ceil(setup.max_duration * setup.rate[1], setup.rate[2]) + setup.margin

-----------------------------------------------------------------------------
(* Readers.                                                                *)

Live(window, now) == window # NoWindow /\ now < window.deadline

\* ReaderCore::tick, which every call makes first.
ReaderTick(r) ==
    [reader[r] EXCEPT !.active = IF Live(@, reader[r].now) THEN @ ELSE NoWindow,
                      !.pending = IF Live(@, reader[r].now) THEN @ ELSE NoWindow]

\* The deadline is fixed before the append is made.
ReaderBegin(r) ==
    LET t == ReaderTick(r)
        inc == t.begun + 1
    IN  /\ t.pending = NoWindow /\ t.begun < setup.max_begins
        /\ reader' = [reader EXCEPT ![r] =
                        [t EXCEPT !.begun = inc,
                                  !.pending = [inc |-> inc, pos |-> 0,
                                               deadline |-> t.now + setup.max_duration]]]
        /\ sent' = sent \cup {<<r, inc>>}
        /\ UNCHANGED <<setup, log, writer>>

ReaderConfirmed(r) ==
    LET t == ReaderTick(r)
        pos == Position(<<r, t.pending.inc>>)
    IN  /\ t.pending # NoWindow /\ t.pending.pos = 0 /\ pos # 0
        /\ reader' = [reader EXCEPT ![r] = [t EXCEPT !.pending.pos = pos]]
        /\ UNCHANGED <<setup, log, sent, writer>>

\* The state the reader would serve covers its own admission.
ReaderProjected(r) ==
    LET t == ReaderTick(r)
    IN  /\ t.pending # NoWindow /\ t.pending.pos # 0 /\ t.pending.pos <= t.applied
        /\ reader' = [reader EXCEPT ![r] =
                        [t EXCEPT !.active = t.pending, !.pending = NoWindow]]
        /\ UNCHANGED <<setup, log, sent, writer>>

ReaderCancel(r) ==
    /\ reader[r].active # NoWindow \/ reader[r].pending # NoWindow
    /\ reader' = [reader EXCEPT ![r].active = NoWindow, ![r].pending = NoWindow]
    /\ UNCHANGED <<setup, log, sent, writer>>

AdmittedAt(r) == Live(reader[r].active, reader[r].now)

-----------------------------------------------------------------------------
(* The writer.                                                             *)

WriterBegin ==
    /\ writer.stage = "Idle"
    /\ writer' = [writer EXCEPT !.stage = "Appending"]
    /\ sent' = sent \cup {Intent}
    /\ UNCHANGED <<setup, log, reader>>

\* The wait starts when the intent is known to be in the log.
WriterConfirmed ==
    /\ writer.stage = "Appending" /\ Position(Intent) # 0
    /\ writer' = [writer EXCEPT !.stage = "Waiting", !.wait_until = writer.now + ExpiryWait]
    /\ UNCHANGED <<setup, log, sent, reader>>

\* The certified roster: the admissions before the intent, in a bounded number.
Roster ==
    LET before == {log[i] : i \in 1..(Position(Intent) - 1)}
    IN  /\ writer.stage = "Waiting" /\ ~writer.listed
        /\ Cardinality(before) <= setup.max_waiters
        /\ writer' = [writer EXCEPT !.listed = TRUE, !.waiters = before]
        /\ UNCHANGED <<setup, log, sent, reader>>

\* A reader whose state covers the intent acknowledges for its admissions.
Acknowledge(w) ==
    /\ writer.stage = "Waiting" /\ writer.listed /\ w \in writer.waiters
    /\ reader[w[1]].applied >= Position(Intent)
    /\ writer' = [writer EXCEPT !.waiters = @ \ {w}]
    /\ UNCHANGED <<setup, log, sent, reader>>

TakeFence ==
    /\ writer.stage = "Waiting" /\ writer.listed
    /\ writer.now >= writer.wait_until \/ writer.waiters = {}
    /\ writer' = [writer EXCEPT !.stage = "Released"]
    /\ UNCHANGED <<setup, log, sent, reader>>

WriterCancel ==
    /\ writer.stage \notin {"Released", "Cancelled"}
    /\ writer' = [writer EXCEPT !.stage = "Cancelled"]
    /\ UNCHANGED <<setup, log, sent, reader>>

-----------------------------------------------------------------------------
(* The source, the readers' state and the clocks.                          *)

Land(record) ==
    /\ record \in sent
    /\ sent' = sent \ {record}
    /\ log' = Append(log, record)
    /\ UNCHANGED <<setup, reader, writer>>

Apply(r) ==
    /\ reader[r].applied < Len(log)
    /\ reader' = [reader EXCEPT ![r].applied = @ + 1]
    /\ UNCHANGED <<setup, log, sent, writer>>

\* While the readers' clocks tick once the writer's runs up to rate times as fast.
Advance ==
    /\ \A r \in Readers : reader[r].now < setup.max_time
    /\ reader' = [r \in Readers |-> [reader[r] EXCEPT !.now = @ + 1]]
    /\ \E d \in 1..Ceil(setup.rate[1], setup.rate[2]) :
         writer' = [writer EXCEPT !.now = @ + d]
    /\ UNCHANGED <<setup, log, sent>>

Init ==
    /\ setup \in Setups
    /\ log = <<>> /\ sent = {}
    /\ reader = [r \in Readers |->
                   [now |-> 0, active |-> NoWindow, pending |-> NoWindow, begun |-> 0,
                    applied |-> 0]]
    /\ writer = [now |-> 0, stage |-> "Idle", wait_until |-> 0,
                 listed |-> FALSE, waiters |-> {}]

Next ==
    \/ \E r \in Readers : ReaderBegin(r) \/ ReaderConfirmed(r) \/ ReaderProjected(r)
                          \/ ReaderCancel(r) \/ Apply(r)
    \/ WriterBegin \/ WriterConfirmed \/ Roster \/ TakeFence \/ WriterCancel
    \/ \E w \in writer.waiters : Acknowledge(w)
    \/ \E record \in sent : Land(record)
    \/ Advance

Spec == Init /\ [][Next]_vars

-----------------------------------------------------------------------------
\* Windows are of admissions the reader asked for, and an active one is in the log.
TypeOK ==
    /\ \A r \in Readers :
        /\ reader[r].active.inc <= reader[r].begun
        /\ reader[r].pending.inc <= reader[r].begun
        /\ reader[r].applied <= Len(log)
        /\ reader[r].active # NoWindow => log[reader[r].active.pos] = <<r, reader[r].active.inc>>
    /\ writer.waiters \subseteq {log[i] : i \in 1..Len(log)}

\* Once the writer's fence is released, every reader that still serves has applied
\* the intent, on clocks of any admitted rates and however late records land
\* (take_fence; expiry_wait_ms; the deadline fixed before the append).
FenceCovers ==
    writer.stage = "Released" => \A r \in Readers : AdmittedAt(r) => reader[r].applied >= Position(Intent)
=============================================================================
