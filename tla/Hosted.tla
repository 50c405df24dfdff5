------------------------------- MODULE Hosted -------------------------------
(***************************************************************************)
(* Committed hosted writes: the serving gate, the commit ledger and its    *)
(* two predicates (consistency/src/hosted: writes.rs, ledger.rs,           *)
(* commit.rs, recovery.rs).                                                *)
(*                                                                         *)
(* The election is abstract: epochs begin one after the other, each with   *)
(* the host that won it; other nodes adopt a begun epoch above their own,  *)
(* late or never; a host's lease may lapse.  What reaches a node's state   *)
(* machine is HostedReads' (Lineage): the application records a write, or  *)
(* a gap it has remediated, of any begun hostship.                         *)
(*                                                                         *)
(* A ledger is published as an encoded reading.  Readings may be refused,  *)
(* enqueued out of order, lost and late, so a node may see any reading     *)
(* another has ever encoded, or none.                                      *)
(***************************************************************************)
EXTENDS Naturals, FiniteSets

CONSTANTS
    Node,
    Setups \* the setups explored

\* A group, and what its environment may do to it.
ValidSetup(s) ==
    /\ s.members \subseteq Node                       \* the group's members
    /\ s.voters \subseteq Node /\ IsFiniteSet(s.voters) \* the static roster of Quorum activation
    /\ s.restarts \subseteq Node                      \* who may restart, applied state kept
    /\ s.lapses \subseteq Node                        \* whose lease may lapse
    /\ s.max_epochs \in Nat                           \* bound: epochs
    /\ s.hosts \in [1 .. s.max_epochs -> Node]        \* the host of each epoch
    /\ s.max_writes \in [1 .. s.max_epochs -> Nat]    \* bound: writes of each epoch

ASSUME SetupsAssumption == \A s \in Setups : ValidSetup(s)

VARIABLES
    setup,
    begun,        \* epochs begun so far
    lead,         \* lead[n]: the epoch n's leadership names
    hosting,      \* the nodes whose leadership names themselves
    written,      \* written[e]: writes published at epoch e
    ledger,       \* ledger[n]: n's CommitLedger
    readings,     \* readings[n]: what n's ledger has been encoded as
    recovered_at, \* recovered_at[n]: the epoch n has recovered for, or 0
    serving,      \* serving[n]: the highest epoch n has served
    waiting,      \* waiting[n]: tokens whose commit n awaits
    committed,    \* history: writes acknowledged as committed, and by whom
    booted        \* history: nodes that have restarted

election == <<begun, lead, hosting>>
writes == <<written, recovered_at, serving, waiting>>
vars == <<setup, election, writes, ledger, readings, committed, booted>>

Token(e, s) == [epoch |-> e, seq |-> s]

Before(t, u) == t.epoch < u.epoch \/ (t.epoch = u.epoch /\ t.seq < u.seq)

AtMost(t, u) == t = u \/ Before(t, u)

Later(t, u) == IF Before(t, u) THEN u ELSE t

Larger(a, b) == IF a < b THEN b ELSE a

Majority(Q) == Q \subseteq setup.voters /\ 2 * Cardinality(Q) > Cardinality(setup.voters)

-----------------------------------------------------------------------------
(* The election.                                                           *)

Begin ==
    LET e == begun + 1 h == setup.hosts[begun + 1] IN
    /\ begun < setup.max_epochs
    /\ begun' = e
    /\ lead' = [lead EXCEPT ![h] = e]
    /\ hosting' = hosting \cup {h}
    /\ UNCHANGED <<setup, writes, ledger, readings, committed, booted>>

\* A state frame of epoch e: one that names its receiver teaches the epoch only.
Adopt(n, e) ==
    /\ lead[n] < e
    /\ lead' = [lead EXCEPT ![n] = e]
    /\ hosting' = hosting \ {n}
    /\ UNCHANGED <<setup, begun, writes, ledger, readings, committed, booted>>

Lapse(n) ==
    /\ n \in hosting \cap setup.lapses
    /\ hosting' = hosting \ {n}
    /\ UNCHANGED <<setup, begun, lead, writes, ledger, readings, committed, booted>>

-----------------------------------------------------------------------------
(* CommitLedger.                                                           *)

\* Mutant: a mark may move back.
FoldLast(l, w, t, e) == [stamp |-> Larger(l.stamp, e), applied |-> [l.applied EXCEPT ![w] = t]]

\* fold: stamp and marks only move up.
Fold(l, w, t, e) ==
    [stamp |-> Larger(l.stamp, e), applied |-> [l.applied EXCEPT ![w] = Later(@, t)]]

\* The ledger changes under its lock and the new reading is encoded.
Store(n, l) ==
    /\ ledger' = [ledger EXCEPT ![n] = l]
    /\ readings' = [readings EXCEPT ![n] = @ \cup {l}]
    /\ UNCHANGED <<setup, election, writes, committed, booted>>

\* record, by the application that applied a write of epoch e or remediated a
\* gap, and by publish for the host's own write.
Record(n, e, s) ==
    LET l == Fold(ledger[n], setup.hosts[e], Token(e, s), lead[n]) IN
    /\ s <= written[e]
    /\ l # ledger[n]
    /\ Store(n, l)

\* refresh: the epoch is stamped again without a write.
Refresh(n) ==
    LET l == [ledger[n] EXCEPT !.stamp = Larger(@, lead[n])] IN
    /\ l # ledger[n]
    /\ Store(n, l)

-----------------------------------------------------------------------------
(* HostedWrites.                                                           *)

Fresh(r, epoch) == r.stamp >= epoch

\* CompletenessCore::step, complete: a majority has readings of the epoch or
\* later, and the host has applied what any of them says was applied.
Complete(n, epoch) ==
    \E Q \in SUBSET setup.voters :
        /\ Majority(Q)
        /\ \A m \in Q : \E r \in readings[m] :
            /\ Fresh(r, epoch)
            /\ \A w \in Node : AtMost(r.applied[w], ledger[n].applied[w])

\* recovered_for: latched for the epoch.
RecoveredFor(n, epoch) == recovered_at[n] = epoch \/ Complete(n, epoch)

\* admit_now: the leadership names this node and it has recovered.
Admit(n) ==
    /\ n \in hosting
    /\ RecoveredFor(n, lead[n])
    /\ recovered_at' = [recovered_at EXCEPT ![n] = lead[n]]
    /\ serving' = [serving EXCEPT ![n] = Larger(@, lead[n])]

\* fence
Fence(n) ==
    /\ Admit(n)
    /\ UNCHANGED <<setup, election, written, waiting, ledger, readings, committed, booted>>

\* publish_committed: the write is admitted and published; its host records it,
\* as Record, and awaits the commit.
Publish(n) ==
    LET e == lead[n] IN
    /\ Admit(n)
    /\ written[e] < setup.max_writes[e]
    /\ written' = [written EXCEPT ![e] = @ + 1]
    /\ waiting' = [waiting EXCEPT ![n] = @ \cup {Token(e, written[e] + 1)}]
    /\ UNCHANGED <<setup, election, ledger, readings, committed, booted>>

\* Mutant: a reading of a later epoch counts too.
CountsLater(r, h, t) == r.stamp >= t.epoch /\ AtMost(t, r.applied[h])

\* counts: a reading of the write's own epoch that covers it.
Counts(r, h, t) == r.stamp = t.epoch /\ AtMost(t, r.applied[h])

\* await_commit: CommitCore finds a majority of the roster, before the
\* leadership is looked at.
Commit(n, t, Q) ==
    /\ Majority(Q)
    /\ \A m \in Q : \E r \in readings[m] : Counts(r, n, t)
    /\ committed' = committed \cup {[host |-> n, token |-> t, quorum |-> Q]}
    /\ waiting' = [waiting EXCEPT ![n] = @ \ {t}]
    /\ UNCHANGED <<setup, election, written, recovered_at, serving, ledger, readings, booted>>

\* The wait ends deposed or timed out.
GiveUp(n, t) ==
    /\ waiting' = [waiting EXCEPT ![n] = @ \ {t}]
    /\ UNCHANGED <<setup, election, written, recovered_at, serving, ledger, readings, committed, booted>>

\* A process ends and starts again with what its store says it has applied
\* (with_recovered): the stamp and the leadership start over.
Restart(n) ==
    /\ n \in setup.restarts \ booted
    /\ booted' = booted \cup {n}
    /\ lead' = [lead EXCEPT ![n] = 0]
    /\ hosting' = hosting \ {n}
    /\ ledger' = [ledger EXCEPT ![n].stamp = 0]
    /\ recovered_at' = [recovered_at EXCEPT ![n] = 0]
    /\ serving' = [serving EXCEPT ![n] = 0]
    /\ waiting' = [waiting EXCEPT ![n] = {}]
    /\ UNCHANGED <<setup, begun, written, readings, committed>>

-----------------------------------------------------------------------------
Init ==
    /\ setup \in Setups
    /\ begun = 0
    /\ lead = [n \in Node |-> 0]
    /\ hosting = {}
    /\ written = [e \in 1 .. setup.max_epochs |-> 0]
    /\ ledger = [n \in Node |-> [stamp |-> 0, applied |-> [w \in Node |-> Token(0, 0)]]]
    /\ readings = [n \in Node |-> {}]
    /\ recovered_at = [n \in Node |-> 0]
    /\ serving = [n \in Node |-> 0]
    /\ waiting = [n \in Node |-> {}]
    /\ committed = {}
    /\ booted = {}

Follows(n) == \E e \in 1 .. begun : \E s \in 1 .. written[e] : Record(n, e, s)

Next ==
    \/ Begin
    \/ \E n \in setup.members :
        \/ \E e \in 1 .. begun : Adopt(n, e)
        \/ Lapse(n) \/ Refresh(n) \/ Fence(n) \/ Publish(n) \/ Restart(n)
        \/ Follows(n)
        \/ \E t \in waiting[n] : GiveUp(n, t) \/ \E Q \in SUBSET setup.voters : Commit(n, t, Q)

Spec == Init /\ [][Next]_vars

\* Nodes adopt the latest epoch, refresh and follow, as the application loops
\* around leadership events and HostedReads do, and a host asks for its fence.
Fairness ==
    \A n \in Node :
        /\ WF_vars(n \in setup.members /\ Adopt(n, begun))
        /\ WF_vars(n \in setup.members /\ Refresh(n))
        /\ WF_vars(n \in setup.members /\ Follows(n))
        /\ WF_vars(n \in setup.members /\ Fence(n))

FairSpec == Spec /\ Fairness

-----------------------------------------------------------------------------
Mark == [epoch : Nat, seq : Nat]

Ledger == [stamp : Nat, applied : [Node -> Mark]]

TypeOK ==
    /\ ValidSetup(setup)
    /\ begun \in 0 .. setup.max_epochs
    /\ lead \in [Node -> 0 .. begun] /\ hosting \subseteq {n \in Node : lead[n] > 0}
    /\ written \in [1 .. setup.max_epochs -> Nat]
    /\ ledger \in [Node -> Ledger] /\ readings \in [Node -> SUBSET Ledger]
    /\ recovered_at \in [Node -> Nat] /\ serving \in [Node -> Nat]
    /\ waiting \in [Node -> SUBSET Mark]
    /\ committed \subseteq [host : Node, token : Mark, quorum : SUBSET Node]
    /\ booted \subseteq Node

\* The stamp has begun, and the marks were written by the hosts they are kept for.
Happened(l) ==
    /\ l.stamp <= begun
    /\ \A w \in Node :
        \/ l.applied[w] = Token(0, 0)
        \/ /\ l.applied[w].epoch \in 1 .. begun
           /\ setup.hosts[l.applied[w].epoch] = w
           /\ l.applied[w].seq <= written[l.applied[w].epoch]

\* Epochs, stamps and marks stay within what has begun and been written: no
\* ledger or reading claims a write that was never published (record).
Bounded ==
    \A n \in Node :
        /\ serving[n] <= lead[n] /\ recovered_at[n] <= serving[n]
        /\ \A r \in readings[n] \cup {ledger[n]} : Happened(r)

\* S5: a write acknowledged as committed at one epoch has been applied by every
\* host that serves a later one, whichever readings either of them saw and
\* whenever the acknowledgement came, unless a voter that was counted has
\* restarted (CommitCore::evaluate, CompletenessCore::step).
CommittedIsKept ==
    \A c \in committed, n \in Node :
        (serving[n] > c.token.epoch /\ c.quorum \cap booted = {})
            => AtMost(c.token, ledger[n].applied[c.host])

\* What a running voter publishes under a later epoch covers everything it
\* published under an earlier one: stamp and marks move together (fold, refresh).
ReadingsOrdered ==
    \A n \in Node \ booted : \A r, q \in readings[n] :
        r.stamp < q.stamp => \A w \in Node : AtMost(r.applied[w], q.applied[w])

\* A host that stays host comes to serve its epoch.
HostServes ==
    \A n \in Node : (n \in hosting) ~> (n \notin hosting \/ serving[n] = lead[n])
=============================================================================
