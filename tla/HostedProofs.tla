---------------------------- MODULE HostedProofs ----------------------------
(***************************************************************************)
(* S5 for any group, any number of epochs and writes, and any restarts: a  *)
(* write acknowledged as committed is in the ledger of every host that     *)
(* serves a later epoch.                                                   *)
(*                                                                         *)
(* CommittedIsKept is not inductive: it says nothing of why the host that  *)
(* serves has the write.  Backed keeps, for each acknowledgement, the      *)
(* readings that were counted; Recovered keeps, for each host that serves, *)
(* a majority whose readings of its epoch it has applied.  The two         *)
(* majorities share a voter, and Dominated makes that voter's readings     *)
(* ordered by stamp unless it restarted: the one of the later epoch covers *)
(* the write.                                                              *)
(***************************************************************************)
EXTENDS Hosted, FiniteSetTheorems, TLAPS

Covers(l, r) == \A w \in Node : AtMost(r.applied[w], l.applied[w])

\* A running node's ledger is at or above everything it has published.
Dominated ==
    \A n \in Node \ booted : \A r \in readings[n] :
        r.stamp <= ledger[n].stamp /\ Covers(ledger[n], r)

\* The readings that made a write count as committed.
Backed ==
    \A c \in committed :
        /\ Majority(c.quorum)
        /\ \A m \in c.quorum : \E r \in readings[m] : Counts(r, c.host, c.token)

\* A host that serves has applied what a majority published at its epoch.
Recovered ==
    \A n \in Node :
        /\ recovered_at[n] <= serving[n]
        /\ serving[n] > 0 => Complete(n, serving[n])

IInv == TypeOK /\ Dominated /\ ReadingsOrdered /\ Backed /\ Recovered

-----------------------------------------------------------------------------
(* Marks are ordered, and ledgers move up.                                 *)

LEMMA AtMostTransitive ==
    ASSUME NEW t \in Mark, NEW u \in Mark, NEW v \in Mark, AtMost(t, u), AtMost(u, v)
    PROVE  AtMost(t, v)
  BY DEF Mark, AtMost, Before

LEMMA LaterCovers ==
    ASSUME NEW t \in Mark, NEW u \in Mark
    PROVE  Later(t, u) \in Mark /\ AtMost(t, Later(t, u)) /\ AtMost(u, Later(t, u))
  BY DEF Mark, Later, AtMost, Before

LEMMA CoversTransitive ==
    ASSUME NEW k \in Ledger, NEW l \in Ledger, NEW r \in Ledger, Covers(k, l), Covers(l, r)
    PROVE  Covers(k, r)
  <1> SUFFICES ASSUME NEW w \in Node PROVE AtMost(r.applied[w], k.applied[w])
    BY Zenon DEF Covers
  <1>1. r.applied[w] \in Mark /\ l.applied[w] \in Mark /\ k.applied[w] \in Mark
    BY Zenon DEF Ledger
  <1> QED BY <1>1, AtMostTransitive, Zenon DEF Covers

\* fold moves the stamp and the marks up.
LEMMA FoldMovesUp ==
    ASSUME NEW l \in Ledger, NEW w \in Node, NEW t \in Mark, NEW e \in Nat
    PROVE  /\ Fold(l, w, t, e) \in Ledger
           /\ l.stamp <= Fold(l, w, t, e).stamp
           /\ Covers(Fold(l, w, t, e), l)
  <1>1. l.stamp \in Nat /\ l.applied \in [Node -> Mark]
    BY Zenon DEF Ledger
  <1>2. Larger(l.stamp, e) \in Nat /\ l.stamp <= Larger(l.stamp, e)
    BY <1>1 DEF Larger
  <1>3. Later(l.applied[w], t) \in Mark /\ AtMost(l.applied[w], Later(l.applied[w], t))
    BY <1>1, LaterCovers, Zenon
  <1>4. [l.applied EXCEPT ![w] = Later(@, t)] \in [Node -> Mark]
    BY <1>1, <1>3, Zenon
  <1>5. \A v \in Node : AtMost(l.applied[v], [l.applied EXCEPT ![w] = Later(@, t)][v])
    BY <1>1, <1>3, Zenon DEF AtMost
  <1> QED BY <1>2, <1>4, <1>5, Zenon DEF Fold, Ledger, Covers

\* Two majorities of one roster share a voter.
LEMMA MajoritiesMeet ==
    ASSUME NEW P, NEW Q, IsFiniteSet(setup.voters), Majority(P), Majority(Q)
    PROVE  P \cap Q # {}
  <1>1. P \subseteq setup.voters /\ Q \subseteq setup.voters
    BY Zenon DEF Majority
  <1>2. IsFiniteSet(P) /\ IsFiniteSet(Q)
    BY <1>1, FS_Subset, Zenon
  <1>3. /\ Cardinality(P) \in Nat /\ Cardinality(Q) \in Nat
        /\ Cardinality(setup.voters) \in Nat /\ Cardinality(P \cap Q) \in Nat
    BY <1>2, FS_CardinalityType, FS_Intersection, Zenon
  <1>4. IsFiniteSet(P \cup Q) /\ Cardinality(P \cup Q) = Cardinality(P) + Cardinality(Q) - Cardinality(P \cap Q)
    BY <1>2, FS_Union, Zenon
  <1>5. Cardinality(P \cup Q) <= Cardinality(setup.voters)
    BY <1>1, FS_Subset, Zenon
  <1>6. SUFFICES ASSUME P \cap Q = {} PROVE FALSE
    BY Zenon
  <1>7. Cardinality(P \cap Q) = 0
    BY <1>6, FS_EmptySet, Zenon
  <1> QED BY <1>3, <1>4, <1>5, <1>7 DEF Majority

-----------------------------------------------------------------------------
(* The invariant, one kind of step at a time.                              *)

\* The committed write is covered: the argument of S5.
LEMMA InvariantKeeps == IInv => CommittedIsKept
  <1> SUFFICES ASSUME IInv, NEW c \in committed, NEW n \in Node,
                      serving[n] > c.token.epoch, c.quorum \cap booted = {}
               PROVE  AtMost(c.token, ledger[n].applied[c.host])
    BY Zenon DEF CommittedIsKept
  <1> USE DEF IInv
  <1>1. c.host \in Node /\ c.token \in Mark /\ c.quorum \subseteq Node
    BY Zenon DEF TypeOK
  <1>2. serving[n] \in Nat /\ c.token.epoch \in Nat /\ serving[n] > 0
    BY <1>1 DEF TypeOK, Mark
  <1>3. PICK Q \in SUBSET setup.voters :
            /\ Majority(Q)
            /\ \A m \in Q : \E r \in readings[m] :
                /\ Fresh(r, serving[n])
                /\ \A w \in Node : AtMost(r.applied[w], ledger[n].applied[w])
    BY <1>2, Zenon DEF Recovered, Complete
  <1>4. PICK m : m \in Q \cap c.quorum
    BY <1>3, MajoritiesMeet DEF TypeOK, ValidSetup, Backed
  <1>5. m \in Node \ booted
    BY <1>1, <1>4, Zenon
  <1>6. PICK r \in readings[m] : Counts(r, c.host, c.token)
    BY <1>4, Zenon DEF Backed
  <1>7. PICK q \in readings[m] :
            Fresh(q, serving[n]) /\ \A w \in Node : AtMost(q.applied[w], ledger[n].applied[w])
    BY <1>3, <1>4, Zenon
  <1>8. r \in Ledger /\ q \in Ledger /\ ledger[n] \in Ledger
    BY <1>5, Zenon DEF TypeOK
  <1>9. r.stamp < q.stamp
    BY <1>2, <1>6, <1>7, <1>8 DEF Counts, Fresh, Ledger
  <1>10. AtMost(r.applied[c.host], q.applied[c.host])
    BY <1>1, <1>5, <1>9, Zenon DEF ReadingsOrdered
  <1>11. AtMost(c.token, r.applied[c.host]) /\ AtMost(q.applied[c.host], ledger[n].applied[c.host])
    BY <1>1, <1>6, <1>7, Zenon DEF Counts
  <1>12. /\ r.applied[c.host] \in Mark /\ q.applied[c.host] \in Mark
         /\ ledger[n].applied[c.host] \in Mark
    BY <1>1, <1>8, Zenon DEF Ledger
  <1>13. AtMost(c.token, q.applied[c.host])
    BY <1>1, <1>10, <1>11, <1>12, AtMostTransitive, Zenon
  <1> QED BY <1>1, <1>11, <1>12, <1>13, AtMostTransitive, Zenon

\* What was complete stays complete while readings are added and ledgers move up.
LEMMA CompleteStays ==
    ASSUME TypeOK, TypeOK', setup' = setup, NEW n \in Node, NEW e \in Nat,
           \A m \in Node : readings[m] \subseteq readings'[m],
           Covers(ledger'[n], ledger[n]),
           Complete(n, e)
    PROVE  Complete(n, e)'
  <1>1. PICK Q \in SUBSET setup.voters :
            /\ Majority(Q)
            /\ \A m \in Q : \E r \in readings[m] :
                Fresh(r, e) /\ \A w \in Node : AtMost(r.applied[w], ledger[n].applied[w])
    BY Zenon DEF Complete
  <1>2. Q \in SUBSET setup'.voters /\ Majority(Q)'
    BY <1>1, Zenon DEF Majority
  <1>3. ASSUME NEW m \in Q
        PROVE  \E r \in readings'[m] :
                Fresh(r, e) /\ \A w \in Node : AtMost(r.applied[w], ledger'[n].applied[w])
    <2>1. PICK r \in readings[m] :
            Fresh(r, e) /\ \A w \in Node : AtMost(r.applied[w], ledger[n].applied[w])
      BY <1>1, <1>3, Zenon
    <2>2. m \in Node
      BY <1>3, Zenon DEF TypeOK, ValidSetup
    <2>3. r \in Ledger /\ ledger[n] \in Ledger /\ ledger'[n] \in Ledger
      BY <2>1, <2>2, Zenon DEF TypeOK
    <2>4. Covers(ledger[n], r)
      BY <2>1, Zenon DEF Covers
    <2>5. Covers(ledger'[n], r)
      BY <2>3, <2>4, CoversTransitive, Zenon
    <2> QED BY <2>1, <2>2, <2>5, Zenon DEF Covers
  <1> QED BY <1>2, <1>3, Zenon DEF Complete, Fresh

LEMMA CoversItself ==
    ASSUME NEW l PROVE Covers(l, l)
  BY Zenon DEF Covers, AtMost

\* record and refresh: the ledger moves up and the new reading is encoded.
LEMMA StoreKeeps ==
    ASSUME IInv, NEW n \in Node, NEW l \in Ledger, Store(n, l),
           ledger[n].stamp <= l.stamp, Covers(l, ledger[n])
    PROVE  IInv'
  <1> USE DEF IInv
  <1>1. /\ ledger' = [ledger EXCEPT ![n] = l]
        /\ readings' = [readings EXCEPT ![n] = @ \cup {l}]
        /\ UNCHANGED <<setup, election, writes, committed, booted>>
    BY Zenon DEF Store
  <1>2. /\ setup' = setup /\ begun' = begun /\ lead' = lead /\ hosting' = hosting
        /\ written' = written /\ recovered_at' = recovered_at /\ serving' = serving
        /\ waiting' = waiting /\ committed' = committed /\ booted' = booted
    BY <1>1, Zenon DEF election, writes
  <1>3. TypeOK'
    BY <1>1, <1>2, Zenon DEF TypeOK
  <1>4. \A m \in Node : readings[m] \subseteq readings'[m]
    BY <1>1, Zenon DEF TypeOK
  <1>5. \A m \in Node : Covers(ledger'[m], ledger[m])
    BY <1>1, CoversItself, Zenon DEF TypeOK
  <1>6. ASSUME NEW m \in Node \ booted, NEW r \in readings'[m]
        PROVE  r.stamp <= ledger'[m].stamp /\ Covers(ledger'[m], r)
    <2>1. CASE r \in readings[m]
      <3>1. r \in Ledger /\ ledger[m] \in Ledger /\ ledger'[m] \in Ledger
        BY <2>1, <1>3, Zenon DEF TypeOK
      <3>2. r.stamp <= ledger[m].stamp /\ Covers(ledger[m], r)
        BY <2>1, Zenon DEF Dominated
      <3>3. ledger[m].stamp <= ledger'[m].stamp
        BY <1>1, <3>1 DEF TypeOK, Ledger
      <3>4. r.stamp <= ledger'[m].stamp
        BY <3>1, <3>2, <3>3 DEF Ledger
      <3> QED BY <3>1, <3>2, <3>4, <1>5, CoversTransitive, Zenon
    <2>2. CASE r \notin readings[m]
      <3>1. m = n /\ r = l
        BY <2>2, <1>1, <1>6, Zenon DEF TypeOK
      <3>2. ledger'[m] = l
        BY <3>1, <1>1, Zenon DEF TypeOK
      <3> QED BY <3>1, <3>2, CoversItself DEF Ledger
    <2> QED BY <2>1, <2>2, Zenon
  <1>7. Dominated'
    BY <1>2, <1>6, Zenon DEF Dominated
  <1>8. ReadingsOrdered'
    <2> SUFFICES ASSUME NEW m \in Node \ booted, NEW r \in readings'[m], NEW q \in readings'[m],
                        r.stamp < q.stamp
                 PROVE  \A w \in Node : AtMost(r.applied[w], q.applied[w])
      BY <1>2, Zenon DEF ReadingsOrdered
    <2>1. CASE r \in readings[m] /\ q \in readings[m]
      BY <2>1, Zenon DEF ReadingsOrdered
    <2>2. CASE q \notin readings[m]
      <3>1. q = ledger'[m]
        BY <2>2, <1>1, Zenon DEF TypeOK
      <3> QED BY <3>1, <1>6, Zenon DEF Covers
    <2>3. CASE q \in readings[m] /\ r \notin readings[m]
      <3>1. m = n /\ r = l
        BY <2>3, <1>1, Zenon DEF TypeOK
      <3>2. q.stamp <= ledger[m].stamp
        BY <2>3, Zenon DEF Dominated
      <3>3. q \in Ledger /\ ledger[m] \in Ledger
        BY <2>3, Zenon DEF TypeOK
      <3> QED BY <3>1, <3>2, <3>3 DEF Ledger
    <2> QED BY <2>1, <2>2, <2>3, Zenon
  <1>9. Backed'
    <2> SUFFICES ASSUME NEW c \in committed
                 PROVE  /\ Majority(c.quorum)'
                        /\ \A m \in c.quorum : \E r \in readings'[m] : Counts(r, c.host, c.token)
      BY <1>2, Zenon DEF Backed
    <2>1. c.quorum \subseteq Node
      BY Zenon DEF TypeOK
    <2> QED BY <2>1, <1>2, <1>4, Zenon DEF Backed, Majority
  <1>10. Recovered'
    BY <1>2, <1>3, <1>4, <1>5, CompleteStays, Zenon DEF Recovered, TypeOK
  <1> QED BY <1>3, <1>7, <1>8, <1>9, <1>10, Zenon

\* Steps that leave ledgers, readings and acknowledgements alone.
LEMMA QuietKeeps ==
    ASSUME IInv, TypeOK', Recovered',
           UNCHANGED <<setup, ledger, readings, committed, booted>>
    PROVE  IInv'
  BY Zenon DEF IInv, Dominated, ReadingsOrdered, Backed, Majority

LEMMA CompleteDepends ==
    ASSUME UNCHANGED <<setup, ledger, readings>>, NEW n, NEW e
    PROVE  Complete(n, e)' <=> Complete(n, e)
  BY Zenon DEF Complete, Majority

\* admit_now: the epoch served is one the host has recovered for.
LEMMA AdmitKeeps ==
    ASSUME IInv, NEW n \in Node, Admit(n), UNCHANGED <<setup, ledger, readings>>
    PROVE  /\ recovered_at' \in [Node -> Nat] /\ serving' \in [Node -> Nat]
           /\ Recovered'
  <1> USE DEF IInv
  <1>1. lead[n] \in Nat /\ serving[n] \in Nat /\ recovered_at[n] \in Nat
    BY DEF TypeOK
  <1>2. Larger(serving[n], lead[n]) \in Nat
    BY <1>1, Zenon DEF Larger
  <1>3. recovered_at' \in [Node -> Nat] /\ serving' \in [Node -> Nat]
    BY <1>1, <1>2, Zenon DEF Admit, TypeOK
  <1>4. ASSUME NEW m \in Node
        PROVE  /\ recovered_at'[m] <= serving'[m]
               /\ serving'[m] > 0 => Complete(m, serving'[m])
    <2>1. CASE m # n
      BY <2>1, Zenon DEF Admit, TypeOK, Recovered
    <2>2. CASE m = n /\ serving[n] < lead[n]
      <3>1. recovered_at'[n] = lead[n] /\ serving'[n] = lead[n]
        BY <2>2, Zenon DEF Admit, TypeOK, Larger
      <3>2. recovered_at[n] # lead[n]
        BY <2>2, <1>1 DEF Recovered
      <3>3. Complete(n, lead[n])
        BY <3>2, Zenon DEF Admit, RecoveredFor
      <3> QED BY <2>2, <3>1, <3>3, <1>1
    <2>3. CASE m = n /\ ~(serving[n] < lead[n])
      <3>1. recovered_at'[n] = lead[n] /\ serving'[n] = serving[n]
        BY <2>3, Zenon DEF Admit, TypeOK, Larger
      <3> QED BY <2>3, <3>1, <1>1 DEF Recovered
    <2> QED BY <2>1, <2>2, <2>3, Zenon
  <1>5. Recovered'
    BY <1>4, CompleteDepends, Zenon DEF Recovered
  <1> QED BY <1>3, <1>5, Zenon

\* Steps of the election touch neither ledgers nor the serving gate.
LEMMA ElectionKeeps ==
    ASSUME IInv, TypeOK', UNCHANGED <<setup, writes, ledger, readings, committed, booted>>
    PROVE  IInv'
  <1>1. Recovered'
    BY CompleteDepends, Zenon DEF IInv, Recovered, writes
  <1> QED BY <1>1, QuietKeeps, Zenon

\* await_commit: the acknowledgement keeps the readings it counted.
LEMMA CommitKeeps ==
    ASSUME IInv, NEW n \in Node, NEW t \in waiting[n], NEW Q \in SUBSET setup.voters,
           Commit(n, t, Q)
    PROVE  IInv'
  <1> USE DEF IInv
  <1>1. /\ committed' = committed \cup {[host |-> n, token |-> t, quorum |-> Q]}
        /\ waiting' = [waiting EXCEPT ![n] = @ \ {t}]
        /\ setup' = setup /\ begun' = begun /\ lead' = lead /\ hosting' = hosting
        /\ written' = written /\ recovered_at' = recovered_at /\ serving' = serving
        /\ ledger' = ledger /\ readings' = readings /\ booted' = booted
    BY Zenon DEF Commit, election
  <1>2. t \in Mark /\ Q \subseteq Node
    BY Zenon DEF TypeOK, ValidSetup
  <1>3. TypeOK'
    <2>1. waiting' \in [Node -> SUBSET Mark]
      BY <1>1, Zenon DEF TypeOK
    <2>2. committed' \subseteq [host : Node, token : Mark, quorum : SUBSET Node]
      BY <1>1, <1>2 DEF TypeOK
    <2> QED BY <1>1, <2>1, <2>2, Zenon DEF TypeOK
  <1>4. Dominated' /\ ReadingsOrdered'
    BY <1>1, Zenon DEF Dominated, ReadingsOrdered
  <1>5. Backed'
    <2>1. Majority(Q) /\ \A m \in Q : \E r \in readings[m] : Counts(r, n, t)
      BY Zenon DEF Commit
    <2>2. \A R : Majority(R)' <=> Majority(R)
      BY <1>1, Zenon DEF Majority
    <2> SUFFICES ASSUME NEW c \in committed'
                 PROVE  /\ Majority(c.quorum)
                        /\ \A m \in c.quorum : \E r \in readings[m] : Counts(r, c.host, c.token)
      BY <1>1, <2>2, Zenon DEF Backed
    <2>3. CASE c \in committed
      BY <2>3, Zenon DEF Backed
    <2>4. CASE c = [host |-> n, token |-> t, quorum |-> Q]
      BY <2>1, <2>4, Zenon
    <2> QED BY <1>1, <2>3, <2>4, Zenon
  <1>6. Recovered'
    BY <1>1, CompleteDepends, Zenon DEF Recovered
  <1> QED BY <1>3, <1>4, <1>5, <1>6, Zenon

\* with_recovered: marks are kept, the stamp, the latch and the leadership are not.
LEMMA RestartKeeps ==
    ASSUME IInv, NEW n \in Node, Restart(n)
    PROVE  IInv'
  <1> USE DEF IInv
  <1>1. /\ setup' = setup /\ begun' = begun /\ written' = written
        /\ readings' = readings /\ committed' = committed /\ booted' = booted \cup {n}
        /\ lead' = [lead EXCEPT ![n] = 0] /\ hosting' = hosting \ {n}
        /\ ledger' = [ledger EXCEPT ![n].stamp = 0]
        /\ recovered_at' = [recovered_at EXCEPT ![n] = 0]
        /\ serving' = [serving EXCEPT ![n] = 0]
        /\ waiting' = [waiting EXCEPT ![n] = {}]
    BY Zenon DEF Restart
  <1>2. TypeOK'
    <2>1. ledger' \in [Node -> Ledger]
      BY <1>1, Zenon DEF TypeOK, Ledger
    <2>2. /\ lead' \in [Node -> 0 .. begun] /\ hosting' \subseteq {m \in Node : lead'[m] > 0}
          /\ recovered_at' \in [Node -> Nat] /\ serving' \in [Node -> Nat]
          /\ waiting' \in [Node -> SUBSET Mark] /\ booted' \subseteq Node
      BY <1>1 DEF TypeOK
    <2> QED BY <1>1, <2>1, <2>2, Zenon DEF TypeOK
  <1>3. \A m \in Node \ {n} : ledger'[m] = ledger[m]
    BY <1>1, Zenon DEF TypeOK
  <1>4. Dominated'
    BY <1>1, <1>3, Zenon DEF Dominated
  <1>5. ReadingsOrdered'
    BY <1>1, Zenon DEF ReadingsOrdered
  <1>6. Backed'
    BY <1>1, Zenon DEF Backed, Majority
  <1>7. ASSUME NEW m \in Node
        PROVE  (recovered_at[m] <= serving[m] /\ (serving[m] > 0 => Complete(m, serving[m])))'
    <2>1. CASE m = n
      BY <2>1, <1>1 DEF TypeOK
    <2>2. CASE m # n
      <3>1. recovered_at'[m] = recovered_at[m] /\ serving'[m] = serving[m]
        BY <2>2, <1>1, Zenon DEF TypeOK
      <3>2. Covers(ledger'[m], ledger[m])
        BY <2>2, <1>3, CoversItself, Zenon
      <3>3. serving[m] \in Nat /\ (serving[m] > 0 => Complete(m, serving[m]))
        BY Zenon DEF Recovered, TypeOK
      <3>4. serving[m] > 0 => Complete(m, serving[m])'
        BY <3>1, <3>2, <3>3, <1>1, <1>2, CompleteStays, Zenon
      <3> QED BY <3>1, <3>4, Zenon DEF Recovered
    <2> QED BY <2>1, <2>2, Zenon
  <1>8. Recovered'
    BY <1>7, Zenon DEF Recovered
  <1> QED BY <1>2, <1>4, <1>5, <1>6, <1>8, Zenon

-----------------------------------------------------------------------------
LEMMA Initially == Init => IInv
  <1> SUFFICES ASSUME Init PROVE IInv
    BY Zenon
  <1>1. Token(0, 0) \in Mark
    BY Zenon DEF Token, Mark
  <1>2. TypeOK
    BY <1>1, SetupsAssumption DEF Init, TypeOK, ValidSetup, Ledger
  <1>3. Dominated /\ ReadingsOrdered /\ Backed
    BY Zenon DEF Init, Dominated, ReadingsOrdered, Backed
  <1>4. Recovered
    BY DEF Init, Recovered
  <1> QED BY <1>2, <1>3, <1>4, Zenon DEF IInv

\* Every action keeps the invariant.
LEMMA Inductive == IInv /\ [Next]_vars => IInv'
  <1> SUFFICES ASSUME IInv, [Next]_vars PROVE IInv'
    BY Zenon
  <1>0. TypeOK /\ setup.members \subseteq Node
    BY Zenon DEF IInv, TypeOK, ValidSetup
  <1>1. CASE Begin
    <2>1. begun + 1 \in 1 .. setup.max_epochs
      BY <1>0, <1>1 DEF Begin, TypeOK, ValidSetup
    <2>2. setup.hosts[begun + 1] \in Node
      BY <1>0, <2>1, Zenon DEF TypeOK, ValidSetup
    <2>3. TypeOK'
      BY <1>0, <1>1, <2>1, <2>2 DEF Begin, TypeOK, writes
    <2> QED BY <1>1, <2>3, ElectionKeeps, Zenon DEF Begin
  <1>2. ASSUME NEW n \in setup.members, NEW e \in 1 .. begun, Adopt(n, e) PROVE IInv'
    <2>1. TypeOK'
      BY <1>0, <1>2 DEF Adopt, TypeOK, writes
    <2> QED BY <1>2, <2>1, ElectionKeeps, Zenon DEF Adopt
  <1>3. ASSUME NEW n \in setup.members, Lapse(n) PROVE IInv'
    <2>1. TypeOK'
      BY <1>0, <1>3, Zenon DEF Lapse, TypeOK, writes
    <2> QED BY <1>3, <2>1, ElectionKeeps, Zenon DEF Lapse
  <1>4. ASSUME NEW n \in setup.members, Refresh(n) PROVE IInv'
    <2> DEFINE l == [ledger[n] EXCEPT !.stamp = Larger(@, lead[n])]
    <2>1. ledger[n] \in Ledger /\ lead[n] \in Nat
      BY <1>0 DEF TypeOK
    <2>2. l \in Ledger /\ ledger[n].stamp <= l.stamp /\ l.applied = ledger[n].applied
      BY <2>1 DEF Ledger, Larger
    <2>3. Covers(l, ledger[n])
      BY <2>2, Zenon DEF Covers, AtMost
    <2>4. Store(n, l)
      BY <1>4, Zenon DEF Refresh
    <2> HIDE DEF l
    <2> QED BY <1>0, <2>2, <2>3, <2>4, StoreKeeps, Zenon
  <1>5. ASSUME NEW n \in setup.members, Fence(n) PROVE IInv'
    <2>1. recovered_at' \in [Node -> Nat] /\ serving' \in [Node -> Nat] /\ Recovered'
      BY <1>0, <1>5, AdmitKeeps, Zenon DEF Fence
    <2>2. TypeOK'
      BY <1>0, <1>5, <2>1, Zenon DEF Fence, TypeOK, election
    <2> QED BY <1>5, <2>1, <2>2, QuietKeeps, Zenon DEF Fence
  <1>6. ASSUME NEW n \in setup.members, Publish(n) PROVE IInv'
    <2>1. recovered_at' \in [Node -> Nat] /\ serving' \in [Node -> Nat] /\ Recovered'
      BY <1>0, <1>6, AdmitKeeps, Zenon DEF Publish
    <2>2. TypeOK'
      <3>1. lead[n] \in 1 .. setup.max_epochs
        BY <1>0, <1>6 DEF Publish, Admit, TypeOK, ValidSetup
      <3>2. written[lead[n]] + 1 \in Nat /\ Token(lead[n], written[lead[n]] + 1) \in Mark
        BY <1>0, <3>1 DEF TypeOK, Token, Mark
      <3> QED BY <1>0, <1>6, <2>1, <3>2, Zenon DEF Publish, TypeOK, election
    <2> QED BY <1>6, <2>1, <2>2, QuietKeeps, Zenon DEF Publish
  <1>7. ASSUME NEW n \in setup.members, Restart(n) PROVE IInv'
    BY <1>0, <1>7, RestartKeeps, Zenon
  <1>8. ASSUME NEW n \in setup.members, NEW e \in 1 .. begun, NEW s \in 1 .. written[e],
               Record(n, e, s)
        PROVE  IInv'
    <2> DEFINE l == Fold(ledger[n], setup.hosts[e], Token(e, s), lead[n])
    <2>0. e \in 1 .. setup.max_epochs
      BY <1>0 DEF TypeOK, ValidSetup
    <2>1. ledger[n] \in Ledger /\ lead[n] \in Nat /\ setup.hosts[e] \in Node
      BY <1>0, <2>0 DEF TypeOK, ValidSetup
    <2>2. Token(e, s) \in Mark
      BY DEF Token, Mark
    <2>3. l \in Ledger /\ ledger[n].stamp <= l.stamp /\ Covers(l, ledger[n])
      BY <2>1, <2>2, FoldMovesUp, Zenon
    <2>4. Store(n, l)
      BY <1>8, Zenon DEF Record
    <2> HIDE DEF l
    <2> QED BY <1>0, <2>3, <2>4, StoreKeeps, Zenon
  <1>9. ASSUME NEW n \in setup.members, NEW t \in waiting[n], GiveUp(n, t) PROVE IInv'
    <2>1. TypeOK'
      BY <1>0, <1>9, Zenon DEF GiveUp, TypeOK, election
    <2>2. Recovered'
      BY <1>9, CompleteDepends, Zenon DEF GiveUp, IInv, Recovered
    <2> QED BY <1>9, <2>1, <2>2, QuietKeeps, Zenon DEF GiveUp
  <1>10. ASSUME NEW n \in setup.members, NEW t \in waiting[n], NEW Q \in SUBSET setup.voters,
                Commit(n, t, Q)
         PROVE  IInv'
    BY <1>0, <1>10, CommitKeeps, Zenon
  <1>11. CASE UNCHANGED vars
    <2>1. TypeOK'
      BY <1>0, <1>11, Zenon DEF vars, election, writes, TypeOK
    <2> QED BY <1>11, <2>1, ElectionKeeps, Zenon DEF vars
  <1> QED BY <1>1, <1>2, <1>3, <1>4, <1>5, <1>6, <1>7, <1>8, <1>9, <1>10, <1>11, Zenon DEF Next, Follows

-----------------------------------------------------------------------------
(* Marks and stamps name what has happened.                                *)

\* It stays so while epochs begin and writes are published.
LEMMA HappenedStays ==
    ASSUME TypeOK, TypeOK', setup' = setup, begun <= begun',
           \A e \in 1 .. begun : written[e] <= written'[e],
           NEW l \in Ledger, Happened(l)
    PROVE  Happened(l)'
  <1>1. l.stamp \in Nat /\ begun \in Nat /\ begun' \in Nat
    BY DEF TypeOK, ValidSetup, Ledger
  <1>2. ASSUME NEW w \in Node, l.applied[w] # Token(0, 0)
        PROVE  /\ l.applied[w].epoch \in 1 .. begun'
               /\ setup.hosts[l.applied[w].epoch] = w
               /\ l.applied[w].seq <= written'[l.applied[w].epoch]
    <2> DEFINE e == l.applied[w].epoch
    <2>1. e \in 1 .. begun /\ setup.hosts[e] = w /\ l.applied[w].seq <= written[e]
      BY <1>2, Zenon DEF Happened
    <2>2. e \in 1 .. setup.max_epochs
      BY <1>1, <2>1 DEF TypeOK, ValidSetup
    <2>3. written[e] \in Nat /\ written'[e] \in Nat /\ l.applied[w].seq \in Nat
      BY <2>2, Zenon DEF TypeOK, Ledger, Mark
    <2> QED BY <1>1, <2>1, <2>3
  <1> QED BY <1>1, <1>2 DEF Happened

\* Bounded is kept by steps that move no ledger and no serving epoch up.
LEMMA BoundedStays ==
    ASSUME TypeOK, TypeOK', Bounded, setup' = setup, begun <= begun',
           \A e \in 1 .. begun : written[e] <= written'[e],
           UNCHANGED <<ledger, readings>>,
           \A n \in Node : serving'[n] <= lead'[n] /\ recovered_at'[n] <= serving'[n]
    PROVE  Bounded'
  <1> SUFFICES ASSUME NEW n \in Node, NEW r \in readings[n] \cup {ledger[n]}
               PROVE  Happened(r)'
    BY Zenon DEF Bounded
  <1>1. r \in Ledger /\ Happened(r)
    BY Zenon DEF TypeOK, Bounded
  <1> QED BY <1>1, HappenedStays, Zenon

LEMMA BoundedStore ==
    ASSUME TypeOK, Bounded, NEW n \in Node, NEW l, Happened(l), Store(n, l)
    PROVE  Bounded'
  <1>1. /\ ledger' = [ledger EXCEPT ![n] = l]
        /\ readings' = [readings EXCEPT ![n] = @ \cup {l}]
        /\ setup' = setup /\ begun' = begun /\ written' = written /\ lead' = lead
        /\ serving' = serving /\ recovered_at' = recovered_at
    BY Zenon DEF Store, election, writes
  <1>2. \A r : Happened(r)' <=> Happened(r)
    BY <1>1, Zenon DEF Happened
  <1>3. \A m \in Node : readings'[m] \cup {ledger'[m]} \subseteq readings[m] \cup {ledger[m], l}
    BY <1>1, Zenon DEF TypeOK
  <1> QED BY <1>1, <1>2, <1>3, Zenon DEF Bounded

LEMMA InductiveBounded == IInv /\ IInv' /\ Bounded /\ [Next]_vars => Bounded'
  <1> SUFFICES ASSUME IInv, IInv', Bounded, [Next]_vars PROVE Bounded'
    BY Zenon
  <1>0. TypeOK /\ TypeOK' /\ setup.members \subseteq Node
    BY Zenon DEF IInv, TypeOK, ValidSetup
  <1>a. /\ begun \in Nat /\ written \in [1 .. setup.max_epochs -> Nat]
        /\ \A e \in 1 .. begun : e \in 1 .. setup.max_epochs
    BY <1>0 DEF TypeOK, ValidSetup
  <1>b. \A m \in Node : lead[m] \in Nat /\ serving[m] \in Nat /\ recovered_at[m] \in Nat
    BY <1>0 DEF TypeOK
  <1>c. \A m \in Node : serving[m] <= lead[m] /\ recovered_at[m] <= serving[m]
    BY Zenon DEF Bounded
  <1>1. CASE Begin
    <2>1. \A m \in Node : serving'[m] <= lead'[m] /\ recovered_at'[m] <= serving'[m]
      BY <1>0, <1>1, <1>a, <1>b, <1>c DEF Begin, writes, TypeOK
    <2> QED BY <1>0, <1>1, <1>a, <2>1, BoundedStays DEF Begin, writes
  <1>2. ASSUME NEW n \in setup.members, NEW e \in 1 .. begun, Adopt(n, e) PROVE Bounded'
    <2>1. \A m \in Node : serving'[m] <= lead'[m] /\ recovered_at'[m] <= serving'[m]
      BY <1>0, <1>2, <1>b, <1>c DEF Adopt, writes, TypeOK
    <2> QED BY <1>0, <1>2, <1>a, <2>1, BoundedStays DEF Adopt, writes
  <1>3. ASSUME NEW n \in setup.members, Lapse(n) PROVE Bounded'
    BY <1>0, <1>3, <1>a, <1>c, BoundedStays DEF Lapse, writes
  <1>4. ASSUME NEW n \in setup.members, Refresh(n) PROVE Bounded'
    <2> DEFINE l == [ledger[n] EXCEPT !.stamp = Larger(@, lead[n])]
    <2>1. ledger[n] \in Ledger /\ Happened(ledger[n]) /\ lead[n] \in 0 .. begun
      BY <1>0, Zenon DEF TypeOK, Bounded
    <2>2. l.applied = ledger[n].applied /\ l.stamp <= begun
      BY <1>a, <2>1 DEF Ledger, Larger, Happened
    <2>3. Happened(l)
      BY <2>1, <2>2, Zenon DEF Happened
    <2>4. Store(n, l)
      BY <1>4, Zenon DEF Refresh
    <2> HIDE DEF l
    <2> QED BY <1>0, <2>3, <2>4, BoundedStore, Zenon
  <1>5. ASSUME NEW n \in setup.members, Admit(n), UNCHANGED <<setup, election, ledger, readings>>,
               \A e \in 1 .. begun : written[e] <= written'[e]
        PROVE  Bounded'
    <2>1. lead' = lead /\ begun' = begun
      BY <1>5, Zenon DEF election
    <2>2. \A m \in Node : serving'[m] <= lead'[m] /\ recovered_at'[m] <= serving'[m]
      BY <1>0, <1>5, <1>b, <1>c, <2>1 DEF Admit, Larger, TypeOK
    <2> QED BY <1>0, <1>5, <1>a, <2>1, <2>2, BoundedStays
  <1>6. ASSUME NEW n \in setup.members, Fence(n) PROVE Bounded'
    BY <1>5, <1>6, <1>a DEF Fence
  <1>7. ASSUME NEW n \in setup.members, Publish(n) PROVE Bounded'
    <2>1. \A e \in 1 .. begun : written[e] <= written'[e]
      BY <1>7, <1>a DEF Publish
    <2> QED BY <1>5, <1>7, <2>1, Zenon DEF Publish
  <1>8. ASSUME NEW n \in setup.members, Restart(n) PROVE Bounded'
    <2>1. /\ setup' = setup /\ begun' = begun /\ written' = written /\ readings' = readings
          /\ ledger' = [ledger EXCEPT ![n].stamp = 0]
          /\ \A m \in Node : serving'[m] <= lead'[m] /\ recovered_at'[m] <= serving'[m]
      BY <1>0, <1>8, <1>b, <1>c DEF Restart, TypeOK
    <2>2. \A r : Happened(r)' <=> Happened(r)
      BY <2>1, Zenon DEF Happened
    <2>3. \A m \in Node : ledger'[m] = ledger[m] \/ ledger'[m] = [ledger[m] EXCEPT !.stamp = 0]
      BY <1>0, <2>1, Zenon DEF TypeOK
    <2>4. \A m \in Node : Happened(ledger[m]) /\ ledger[m] \in Ledger
      BY <1>0, Zenon DEF Bounded, TypeOK
    <2>5. ASSUME NEW m \in Node PROVE Happened([ledger[m] EXCEPT !.stamp = 0])
      BY <1>a, <2>4 DEF Happened, Ledger
    <2>6. ASSUME NEW m \in Node PROVE Happened(ledger[m])'
      <3> DEFINE l == ledger'[m]
      <3>1. Happened(l)
        BY <2>3, <2>4, <2>5, Zenon
      <3> QED BY <2>1, <3>1, Zenon DEF Happened
    <2> QED BY <2>1, <2>2, <2>6, Zenon DEF Bounded
  <1>9. ASSUME NEW n \in setup.members, NEW e \in 1 .. begun, NEW s \in 1 .. written[e],
               Record(n, e, s)
        PROVE  Bounded'
    <2> DEFINE h == setup.hosts[e]
               l == Fold(ledger[n], h, Token(e, s), lead[n])
    <2>1. ledger[n] \in Ledger /\ Happened(ledger[n]) /\ lead[n] \in 0 .. begun
      BY <1>0, Zenon DEF TypeOK, Bounded
    <2>2. h \in Node
      <3>1. e \in 1 .. setup.max_epochs
        BY <1>a, Zenon
      <3> QED BY <1>0, <3>1, Zenon DEF TypeOK, ValidSetup
    <2>3. l.stamp <= begun /\ l.applied = [ledger[n].applied EXCEPT ![h] = Later(@, Token(e, s))]
      BY <1>a, <2>1 DEF Fold, Ledger, Larger, Happened
    <2>4. ASSUME NEW w \in Node
          PROVE  l.applied[w] = ledger[n].applied[w] \/ (w = h /\ l.applied[w] = Token(e, s))
      BY <2>1, <2>3, Zenon DEF Ledger, Later
    <2>5. Token(e, s).epoch = e /\ Token(e, s).seq = s /\ s <= written[e]
      BY <1>a DEF Token
    <2>6. Store(n, l)
      BY <1>9, Zenon DEF Record
    <2> HIDE DEF l
    <2>7. ASSUME NEW w \in Node, l.applied[w] # Token(0, 0)
          PROVE  /\ l.applied[w].epoch \in 1 .. begun
                 /\ setup.hosts[l.applied[w].epoch] = w
                 /\ l.applied[w].seq <= written[l.applied[w].epoch]
      <3>1. CASE l.applied[w] = ledger[n].applied[w]
        BY <2>1, <2>7, <3>1, Zenon DEF Happened
      <3>2. CASE w = h /\ l.applied[w] = Token(e, s)
        BY <2>5, <3>2, Zenon
      <3> QED BY <2>4, <3>1, <3>2, Zenon
    <2>8. Happened(l)
      BY <2>3, <2>7, Zenon DEF Happened
    <2> QED BY <1>0, <2>6, <2>8, BoundedStore, Zenon
  <1>10. ASSUME UNCHANGED <<setup, election, written, recovered_at, serving, ledger, readings>>
         PROVE  Bounded'
    BY <1>0, <1>10, <1>a, <1>c, BoundedStays DEF election
  <1>11. ASSUME NEW n \in setup.members, NEW t \in waiting[n], GiveUp(n, t) PROVE Bounded'
    BY <1>10, <1>11, Zenon DEF GiveUp
  <1>12. ASSUME NEW n \in setup.members, NEW t \in waiting[n], NEW Q \in SUBSET setup.voters,
                Commit(n, t, Q)
         PROVE  Bounded'
    BY <1>10, <1>12, Zenon DEF Commit
  <1>13. CASE UNCHANGED vars
    BY <1>10, <1>13, Zenon DEF vars, writes
  <1> QED BY <1>1, <1>2, <1>3, <1>4, <1>6, <1>7, <1>8, <1>9, <1>11, <1>12, <1>13, Zenon
          DEF Next, Follows

-----------------------------------------------------------------------------
LEMMA Invariant == Spec => []IInv
  BY Initially, Inductive, PTL DEF Spec

\* Ledgers, readings and acknowledgements are well-formed (ledger.rs, commit.rs).
THEOREM TypeCorrect == Spec => []TypeOK
  <1>1. IInv => TypeOK
    BY Zenon DEF IInv
  <1> QED BY <1>1, Invariant, PTL

\* What a voter publishes under a later epoch covers all it published under an
\* earlier one, as long as it runs (CommitLedger::fold, refresh).
THEOREM PublishedInOrder == Spec => []ReadingsOrdered
  <1>1. IInv => ReadingsOrdered
    BY Zenon DEF IInv
  <1> QED BY <1>1, Invariant, PTL

\* S5: every host that serves a later epoch has applied every write acknowledged
\* as committed before, whichever majorities acknowledged it and recovered the
\* host (CommitCore::evaluate, CompletenessCore::step, HostedWrites::admit_now).
THEOREM CommittedWritesAreKept == Spec => []CommittedIsKept
  BY Invariant, InvariantKeeps, PTL

\* No ledger and no reading names an epoch that has not begun or a write that was
\* not published by the host it is kept for (CommitLedger::record, encode).
THEOREM NothingInvented == Spec => []Bounded
  <1>1. Init => Bounded
    <2> SUFFICES ASSUME Init PROVE Bounded
      BY Zenon
    <2>1. \A n \in Node : readings[n] \cup {ledger[n]} = {ledger[n]}
      BY Zenon DEF Init
    <2>2. \A n \in Node : Happened(ledger[n])
      BY DEF Init, Happened
    <2> QED BY <2>1, <2>2 DEF Init, Bounded
  <1> QED BY <1>1, Invariant, InductiveBounded, PTL DEF Spec
=============================================================================
