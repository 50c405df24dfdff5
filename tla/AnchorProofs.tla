---------------------------- MODULE AnchorProofs ----------------------------
(***************************************************************************)
(* External activation for any set of nodes, any clocks, any number of     *)
(* crashes and any store that may leave writes unanswered or land them     *)
(* late: an epoch is awarded once, and only the node it was awarded to     *)
(* ever hosts it.  And where clocks differ by no more than the steal       *)
(* margin, leases never overlap, unless a node has begun to release its    *)
(* record.                                                                 *)
(*                                                                         *)
(* The argument is about every write that may still reach the store, in a  *)
(* task or late: if its condition still holds then it names a new epoch,   *)
(* or the very pair the record has (Pending).  What a task holds, what it  *)
(* reports and what the engine hosts was awarded.                          *)
(*                                                                         *)
(* A lease is counted from before the write on the node's own clock, and   *)
(* the record it won carries the same instant plus the node's skew.  So a  *)
(* lease in an engine, or in a report still queued, that has not run out   *)
(* is covered by the record itself (Covered); and a write that could still *)
(* replace the record renews it, comes after it ran out on its holder's    *)
(* clock, or belongs to a release (Yields).                                *)
(***************************************************************************)
EXTENDS Anchor, SequenceTheorems, TLAPS

Holds == [epoch : Nat, token : Nat, expires : Nat]

\* A conditional write that would apply now awards a new epoch, or renews or
\* releases the record that is there.
Pending(pre, rec) ==
    /\ pre <= reg.version
    /\ rec.host \in Node /\ rec.epoch \in 1 .. MaxEpoch
    /\ pre = reg.version =>
        \/ rec.epoch > reg.rec.epoch
        \/ rec.epoch = reg.rec.epoch /\ rec.host = reg.rec.host

\* Who holds the record's version holds the record.
HoldOK(n, h) ==
    /\ h.token <= reg.version
    /\ h.epoch \in 1 .. MaxEpoch
    /\ <<h.epoch, n>> \in awarded
    /\ h.token = reg.version => reg.rec.epoch = h.epoch /\ reg.rec.host = n

TaskOK(n, t) ==
    /\ t.pc \in {"write", "release", "resolve"} => Pending(t.pre, t.rec) /\ t.rec.host = n
    /\ t.held # NoHeld => HoldOK(n, t.held)

\* The record is the last award, and awards only go up.
RecordAwarded ==
    /\ reg.version = 0 => reg.rec = NoRecord
    /\ reg.version # 0 => <<reg.rec.epoch, reg.rec.host>> \in awarded
    /\ \A a \in awarded : a[1] <= reg.rec.epoch
    /\ \A a, b \in awarded : a[1] = b[1] => a[2] = b[2]

\* Every write that may still reach the store.
WritesPending ==
    /\ \A n \in Node : TaskOK(n, task[n])
    /\ \A w \in late : Pending(w.pre, w.rec)

ReportOK(n, cmd) == cmd.kind = "Activated" => <<cmd.epoch, n>> \in awarded

ReportsAwarded == \A n \in Node : \A i \in DOMAIN inbox[n] : ReportOK(n, inbox[n][i])

HostsAwarded ==
    /\ \A n \in Node : eng[n].role = "Host" => <<eng[n].epoch, n>> \in awarded
    /\ hosted \subseteq awarded

IInv ==
    /\ TypeOK /\ setup \in Setups
    /\ RecordAwarded /\ WritesPending /\ ReportsAwarded /\ HostsAwarded

-----------------------------------------------------------------------------
(* Types of what the steps build.                                          *)

LEMMA SetupType == setup \in Setups =>
    /\ setup.skew \in [Node -> Nat] /\ setup.lease \in Nat /\ setup.margin \in Nat
    /\ setup.unanswered \subseteq Node /\ setup.crashable \subseteq Node
  BY SetupAssumption, Zenon DEF Setup

LEMMA WallType ==
    ASSUME setup \in Setups, now \in Nat, NEW n \in Node
    PROVE  Wall(n) \in Nat
  BY SetupType DEF Wall

LEMMA NoneOutside == None \notin Node
  BY NodeAssumption, Zenon DEF None

LEMMA LargerType ==
    ASSUME NEW a \in Nat, NEW b \in Nat PROVE Larger(a, b) \in Nat /\ Larger(a, b) >= a /\ Larger(a, b) >= b
  BY DEF Larger

LEMMA FreshType == Fresh \in TaskState /\ NoHeld \in Holds /\ NoRecord \in Records
  BY Zenon DEF Fresh, NoHeld, NoRecord, Record, None, TaskState, Holds, Records

LEMMA BootType ==
    ASSUME setup \in Setups, now \in Nat PROVE Boot \in EngineState /\ Boot.role = "Follower"
  BY SetupType DEF Boot, EngineState, None

\* The engine's transitions keep its type; a pair heard makes no one a host.
LEMMA HeardType ==
    ASSUME NEW n \in Node, NEW s \in EngineState, NEW e \in Nat, NEW h \in Node \cup {None}
    PROVE  /\ Heard(n, s, e, h) \in EngineState
           /\ Heard(n, s, e, h).role = "Host" =>
                s.role = "Host" /\ Heard(n, s, e, h).epoch = s.epoch
  <1>1. Larger(s.highest_seen, e) \in Nat
    BY LargerType, Zenon DEF EngineState
  <1>2. \A g \in Node \cup {None} : Adopt(s, e, g) \in EngineState /\ Adopt(s, e, g).role = "Follower"
    BY <1>1, Zenon DEF Adopt, EngineState
  <1>3. /\ LearnSelfNamed(s, e) \in EngineState
        /\ LearnSelfNamed(s, e).role = "Host" =>
            s.role = "Host" /\ LearnSelfNamed(s, e).epoch = s.epoch
    <2>1. CASE e <= s.epoch
      BY <1>1, <2>1, Zenon DEF LearnSelfNamed, EngineState
    <2>2. CASE ~(e <= s.epoch)
      BY <1>2, <2>2, Zenon DEF LearnSelfNamed
    <2> QED BY <2>1, <2>2, Zenon
  <1>4. Heard(n, s, e, h) \in {s, LearnSelfNamed(s, e), Adopt(s, e, h)}
    BY Zenon DEF Heard
  <1> QED BY <1>2, <1>3, <1>4, Zenon

LEMMA ActivatedType ==
    ASSUME NEW n \in Node, NEW s \in EngineState, NEW e \in Nat, NEW u \in Nat
    PROVE  /\ Activated(n, s, e, u) \in EngineState
           /\ Activated(n, s, e, u).role = "Host" =>
                \/ s.role = "Host" /\ Activated(n, s, e, u).epoch = s.epoch
                \/ Activated(n, s, e, u).epoch = e
  <1>1. Larger(s.highest_seen, e) \in Nat /\ Larger(s.lease_until, u) \in Nat
    BY LargerType, Zenon DEF EngineState
  <1>2. Activate(n, s, e, u) \in EngineState /\ Activate(n, s, e, u).epoch = e
    BY <1>1, Zenon DEF Activate, EngineState
  <1> DEFINE r == [s EXCEPT !.lease_until = Larger(@, u)]
  <1>3. r \in EngineState /\ r.role = s.role /\ r.epoch = s.epoch
    BY <1>1, Zenon DEF EngineState
  <1>4. Activated(n, s, e, u) \in {s, r, Activate(n, s, e, u)}
    BY Zenon DEF Activated
  <1> HIDE DEF r
  <1> QED BY <1>2, <1>3, <1>4, Zenon

LEMMA DemoteType ==
    ASSUME NEW s \in EngineState
    PROVE  Demote(s) \in EngineState /\ Demote(s).role = "Follower"
  BY Zenon DEF Demote, EngineState

LEMMA DoneType ==
    ASSUME NEW t \in TaskState
    PROVE  Done(t) \in TaskState /\ Done(t).pc = "idle" /\ Done(t).held = t.held
  BY FreshType, Zenon DEF Done, TaskState, Fresh

-----------------------------------------------------------------------------
(* A turn of the actor.                                                    *)

LEMMA TurnKeeps ==
    ASSUME IInv, NEW n \in Node, NEW t \in EngineState, NEW p \in Nat,
           NEW F \in SUBSET (Nat \X (Node \cup {None})), Turn(n, t, p, F),
           t.role = "Host" => <<t.epoch, n>> \in awarded,
           inbox' \in [Node -> Seq(Reports)],
           \A m \in Node : \A i \in DOMAIN inbox'[m] : ReportOK(m, inbox'[m][i])
    PROVE  IInv'
  <1> USE DEF IInv
  <1>1. /\ eng' = [eng EXCEPT ![n] = t]
        /\ slot' = [slot EXCEPT ![n] = IF @ = 0 THEN p ELSE @]
        /\ changed' = [changed EXCEPT ![n] = @ \/ <<t.epoch, t.host>> # <<eng[n].epoch, eng[n].host>>]
        /\ hosted' = hosted \/ (t.role = "Host" /\ hosted' = hosted \cup {<<t.epoch, n>>})
        /\ said' \subseteq said \cup F \cup {<<t.epoch, n>>}
        /\ setup' = setup /\ now' = now /\ task' = task /\ reg' = reg /\ late' = late
        /\ awarded' = awarded /\ given' = given
    BY Zenon DEF Turn
  <1>2. t.epoch \in Nat
    BY Zenon DEF EngineState
  <1>3. TypeOK'
    <2>1. eng' \in [Node -> EngineState] /\ slot' \in [Node -> Nat] /\ changed' \in [Node -> BOOLEAN]
      BY <1>1, Zenon DEF TypeOK
    <2>2. said' \subseteq Nat \X (Node \cup {None}) /\ hosted' \subseteq Nat \X Node
      BY <1>1, <1>2 DEF TypeOK
    <2> QED BY <1>1, <2>1, <2>2, Zenon DEF TypeOK
  <1>4. RecordAwarded' /\ WritesPending'
    BY <1>1, Zenon DEF RecordAwarded, WritesPending, TaskOK, HoldOK, Pending
  <1>5. ReportsAwarded'
    BY <1>1, Zenon DEF ReportsAwarded, ReportOK
  <1>6. HostsAwarded'
    BY <1>1, Zenon DEF HostsAwarded, TypeOK
  <1> QED BY <1>1, <1>3, <1>4, <1>5, <1>6, Zenon

LEMMA QuietInbox ==
    ASSUME IInv, UNCHANGED inbox
    PROVE  /\ inbox' \in [Node -> Seq(Reports)]
           /\ \A m \in Node : \A i \in DOMAIN inbox'[m] : ReportOK(m, inbox'[m][i])
  BY Zenon DEF IInv, TypeOK, ReportsAwarded

LEMMA ActorKeeps ==
    ASSUME IInv, NEW n \in Node, Actor(n)
    PROVE  IInv'
  <1> DEFINE s == eng[n]
  <1>0. /\ s \in EngineState /\ now \in Nat
        /\ s.role = "Host" => <<s.epoch, n>> \in awarded
        /\ s.epoch \in Nat /\ s.highest_seen \in Nat /\ s.host \in Node \cup {None}
        /\ {} \in SUBSET (Nat \X (Node \cup {None}))
    BY Zenon DEF IInv, TypeOK, HostsAwarded, EngineState
  <1>1. CASE ClaimPrompt(n)
    <2>1. Turn(n, s, s.highest_seen + 1, {}) /\ UNCHANGED inbox
      BY <1>1, Zenon DEF ClaimPrompt
    <2>2. s.highest_seen + 1 \in Nat
      BY <1>0
    <2> HIDE DEF s
    <2> QED BY <1>0, <2>1, <2>2, TurnKeeps, QuietInbox, Zenon
  <1>2. CASE RenewPrompt(n)
    BY <1>0, <1>2, TurnKeeps, QuietInbox, Zenon DEF RenewPrompt
  <1>3. CASE Lapse(n)
    BY <1>0, <1>3, TurnKeeps, QuietInbox, DemoteType, Zenon DEF Lapse
  <1>4. CASE Report(n)
    <2> DEFINE cmd == Head(inbox[n])
               t == IF cmd.kind = "Activated" THEN Activated(n, s, cmd.epoch, cmd.until)
                    ELSE Heard(n, s, cmd.epoch, cmd.host)
    <2>1. inbox[n] \in Seq(Reports) /\ inbox[n] # <<>>
      BY <1>4, Zenon DEF Report, IInv, TypeOK
    <2>2. cmd \in Reports /\ cmd = inbox[n][1] /\ 1 \in DOMAIN inbox[n]
      BY <2>1
    <2>3. cmd.epoch \in Nat /\ cmd.until \in Nat /\ cmd.host \in Node \cup {None}
      BY <2>2, Zenon DEF Reports
    <2>4. ReportOK(n, cmd)
      BY <2>2, Zenon DEF IInv, ReportsAwarded
    <2>5. t \in EngineState /\ (t.role = "Host" => <<t.epoch, n>> \in awarded)
      <3>1. CASE cmd.kind = "Activated"
        BY <1>0, <2>3, <2>4, <3>1, ActivatedType, ZenonT(30) DEF ReportOK
      <3>2. CASE cmd.kind # "Activated"
        BY <1>0, <2>3, <3>2, HeardType, ZenonT(30)
      <3> QED BY <3>1, <3>2, Zenon
    <2>6. inbox' = [inbox EXCEPT ![n] = Tail(@)] /\ Turn(n, t, 0, {})
      BY <1>4, Zenon DEF Report
    <2>7. inbox' \in [Node -> Seq(Reports)]
      BY <2>1, <2>6 DEF IInv, TypeOK
    <2>8. ASSUME NEW m \in Node, NEW i \in DOMAIN inbox'[m] PROVE ReportOK(m, inbox'[m][i])
      <3>1. CASE m # n
        BY <2>6, <3>1, Zenon DEF IInv, TypeOK, ReportsAwarded
      <3>2. CASE m = n
        <4>1. inbox'[n] = Tail(inbox[n])
          BY <2>6, Zenon DEF IInv, TypeOK
        <4>2. i + 1 \in DOMAIN inbox[n] /\ inbox'[n][i] = inbox[n][i + 1]
          BY <2>1, <2>8, <3>2, <4>1
        <4> QED BY <3>2, <4>2, Zenon DEF IInv, ReportsAwarded
      <3> QED BY <3>1, <3>2, Zenon
    <2> HIDE DEF t
    <2> QED BY <1>0, <2>5, <2>6, <2>7, <2>8, TurnKeeps, Zenon
  <1>5. CASE Leave(n)
    <2> DEFINE d == IF s.role = "Host" THEN Demote(s) ELSE s
               t == [d EXCEPT !.leaving = TRUE]
    <2>1. d \in EngineState /\ d.role # "Host"
      BY <1>0, DemoteType, Zenon DEF EngineState
    <2> HIDE DEF d
    <2>2. t \in EngineState /\ t.role # "Host"
      BY <2>1, Zenon DEF EngineState
    <2>3. Turn(n, t, 0, {}) /\ UNCHANGED inbox
      BY <1>5, Zenon DEF Leave, d
    <2> HIDE DEF t
    <2> QED BY <1>0, <2>2, <2>3, TurnKeeps, QuietInbox, Zenon
  <1>6. ASSUME NEW p \in said, RecvState(n, p) PROVE IInv'
    <2> DEFINE mine == <<s.epoch, s.host>>
               t == Heard(n, s, p[1], p[2])
               F == IF Outranks(mine, p) THEN {mine} ELSE {}
    <2>1. p[1] \in Nat /\ p[2] \in Node \cup {None}
      BY Zenon DEF IInv, TypeOK
    <2>2. t \in EngineState /\ (t.role = "Host" => <<t.epoch, n>> \in awarded)
      <3> HIDE DEF s
      <3> QED BY <1>0, <2>1, HeardType, ZenonT(30)
    <2>3. F \in SUBSET (Nat \X (Node \cup {None}))
      BY <1>0
    <2>4. Turn(n, t, 0, F) /\ UNCHANGED inbox
      BY <1>6, Zenon DEF RecvState
    <2> HIDE DEF t, F
    <2> QED BY <2>2, <2>3, <2>4, TurnKeeps, QuietInbox, Zenon
  <1> QED BY <1>1, <1>2, <1>3, <1>4, <1>5, <1>6, Zenon DEF Actor

-----------------------------------------------------------------------------
(* The store.                                                              *)

\* A write that applies awards a new epoch or none, and what waited for the
\* record's old version no longer can apply.
LEMMA PutKeeps ==
    ASSUME TypeOK, RecordAwarded, NEW pre \in Nat, NEW rec \in Records, Pending(pre, rec),
           Put(pre, rec)
    PROVE  /\ reg' \in [version : Nat, rec : Records] /\ awarded' \subseteq Nat \X Node
           /\ RecordAwarded' /\ awarded \subseteq awarded'
           /\ \A p \in Nat, r \in Records : Pending(p, r) => Pending(p, r)'
           /\ \A n \in Node, h \in Holds : HoldOK(n, h) => HoldOK(n, h)'
  <1>1. CASE reg.version # pre
    <2>1. reg' = reg /\ awarded' = awarded
      BY <1>1, Zenon DEF Put
    <2> QED BY <2>1, Zenon DEF TypeOK, RecordAwarded, Pending, HoldOK
  <1>2. CASE reg.version = pre
    <2> DEFINE a == <<rec.epoch, rec.host>>
    <2>1. reg' = [version |-> reg.version + 1, rec |-> rec] /\ awarded' = awarded \cup {a}
      BY <1>2, Zenon DEF Put
    <2>2. /\ reg.version \in Nat /\ reg.rec.epoch \in Nat /\ rec.epoch \in Nat
          /\ rec.host \in Node /\ reg'.version = reg.version + 1 /\ reg'.rec = rec
      BY <2>1, Zenon DEF TypeOK, Records, Pending
    <2>3. reg' \in [version : Nat, rec : Records] /\ awarded' \subseteq Nat \X Node
      BY <2>1, <2>2 DEF TypeOK
    <2>4. rec.epoch > reg.rec.epoch \/ (rec.epoch = reg.rec.epoch /\ rec.host = reg.rec.host)
      BY <1>2, Zenon DEF Pending
    <2>5. \A b \in awarded : b[1] \in Nat /\ b[1] <= reg.rec.epoch
      BY Zenon DEF TypeOK, RecordAwarded
    <2>6. \A b \in awarded : b[1] = rec.epoch => b[2] = rec.host
      <3>1. CASE rec.epoch > reg.rec.epoch
        BY <2>2, <2>5, <3>1
      <3>2. CASE rec.epoch = reg.rec.epoch /\ rec.host = reg.rec.host
        <4>1. reg.version # 0
          BY <3>2, <2>2, NoneOutside DEF RecordAwarded, NoRecord, Record
        <4> QED BY <3>2, <4>1, Zenon DEF RecordAwarded
      <3> QED BY <2>4, <3>1, <3>2, Zenon
    <2>7. RecordAwarded'
      <3>1. \A b \in awarded' : b[1] <= rec.epoch
        BY <2>1, <2>2, <2>4, <2>5
      <3>2. \A b, c \in awarded' : b[1] = c[1] => b[2] = c[2]
        BY <2>1, <2>6 DEF RecordAwarded
      <3> QED BY <2>1, <2>2, <3>1, <3>2 DEF RecordAwarded
    <2>8. ASSUME NEW p \in Nat, NEW r \in Records, Pending(p, r) PROVE Pending(p, r)'
      BY <2>2, <2>8 DEF Pending
    <2>9. ASSUME NEW n \in Node, NEW h \in Holds, HoldOK(n, h) PROVE HoldOK(n, h)'
      BY <2>1, <2>2, <2>9 DEF HoldOK, Holds
    <2> QED BY <2>1, <2>3, <2>7, <2>8, <2>9, Zenon
  <1> QED BY <1>1, <1>2, Zenon

LEMMA StoreUnchanged ==
    ASSUME TypeOK, RecordAwarded, UNCHANGED <<reg, awarded>>
    PROVE  /\ reg' \in [version : Nat, rec : Records] /\ awarded' \subseteq Nat \X Node
           /\ RecordAwarded' /\ awarded \subseteq awarded'
           /\ \A p \in Nat, r \in Records : Pending(p, r) => Pending(p, r)'
           /\ \A n \in Node, h \in Holds : HoldOK(n, h) => HoldOK(n, h)'
  BY Zenon DEF TypeOK, RecordAwarded, Pending, HoldOK

-----------------------------------------------------------------------------
(* The anchor task.                                                        *)

\* What a step of n's task must show; the store may have moved by one write.
LEMMA TaskKeeps ==
    ASSUME IInv, NEW n \in Node, NEW t \in TaskState, task' = [task EXCEPT ![n] = t],
           TaskOK(n, t)',
           reg' \in [version : Nat, rec : Records], awarded' \subseteq Nat \X Node,
           RecordAwarded', awarded \subseteq awarded',
           \A p \in Nat, r \in Records : Pending(p, r) => Pending(p, r)',
           \A m \in Node, h \in Holds : HoldOK(m, h) => HoldOK(m, h)',
           late' \subseteq [pre : Nat, rec : Records], \A w \in late' : Pending(w.pre, w.rec)',
           inbox' \in [Node -> Seq(Reports)], ReportsAwarded',
           slot' \in [Node -> Nat], changed' \in [Node -> BOOLEAN], given' \subseteq Nat \X Node,
           UNCHANGED <<setup, now, said, hosted>>,
           eng' \in [Node -> EngineState],
           \A m \in Node : eng'[m] = eng[m] \/ eng'[m].role # "Host"
    PROVE  IInv'
  <1> USE DEF IInv
  <1>1. TypeOK'
    BY Zenon DEF TypeOK
  <1>2. ASSUME NEW m \in Node PROVE TaskOK(m, task[m])'
    <2>1. CASE m = n
      <3>1. task'[m] = t
        BY <2>1, Zenon DEF TypeOK
      <3> QED BY <2>1, <3>1, Zenon DEF TaskOK
    <2>2. CASE m # n
      <3>1. PICK x \in TaskState : x = task[m]
        BY Zenon DEF TypeOK
      <3>2. task'[m] = x /\ TaskOK(m, x)
        BY <2>2, <3>1, Zenon DEF TypeOK, WritesPending
      <3>3. x.pre \in Nat /\ x.rec \in Records /\ x.held \in Holds
        BY Zenon DEF TaskState, Holds
      <3>4. TaskOK(m, x)'
        BY <3>2, <3>3, Zenon DEF TaskOK
      <3> QED BY <3>2, <3>4, Zenon DEF TaskOK
    <2> QED BY <2>1, <2>2, Zenon
  <1>3. WritesPending'
    BY <1>2, Zenon DEF WritesPending
  <1>4. HostsAwarded'
    BY Zenon DEF HostsAwarded
  <1> QED BY <1>1, <1>3, <1>4, Zenon

\* A report is queued or refused.
LEMMA FeedKeeps ==
    ASSUME IInv, NEW n \in Node, NEW cmd \in Reports, Feed(n, cmd), awarded \subseteq awarded',
           cmd.kind = "Activated" => <<cmd.epoch, n>> \in awarded'
    PROVE  inbox' \in [Node -> Seq(Reports)] /\ ReportsAwarded'
  <1> USE DEF IInv
  <1>1. \A m \in Node : \A i \in DOMAIN inbox[m] :
            inbox[m][i].kind = "Activated" => <<inbox[m][i].epoch, m>> \in awarded'
    BY Zenon DEF ReportsAwarded, ReportOK
  <1>2. CASE inbox' = inbox
    BY <1>1, <1>2, Zenon DEF TypeOK, ReportsAwarded, ReportOK
  <1>3. CASE inbox' = [inbox EXCEPT ![n] = Append(@, cmd)]
    <2>1. inbox[n] \in Seq(Reports)
      BY Zenon DEF TypeOK
    <2>2. inbox' \in [Node -> Seq(Reports)]
      BY <1>3, <2>1 DEF TypeOK
    <2>3. ASSUME NEW m \in Node, NEW i \in DOMAIN inbox'[m]
          PROVE  inbox'[m][i].kind = "Activated" => <<inbox'[m][i].epoch, m>> \in awarded'
      <3>1. CASE m # n
        BY <1>1, <1>3, <3>1, Zenon DEF TypeOK
      <3>2. CASE m = n
        <4>1. inbox'[n] = Append(inbox[n], cmd)
          BY <1>3, Zenon DEF TypeOK
        <4>2. i \in 1 .. Len(inbox[n]) + 1
          BY <2>1, <2>3, <3>2, <4>1
        <4>3. CASE i = Len(inbox[n]) + 1
          BY <2>1, <3>2, <4>1, <4>3
        <4>4. CASE i \in 1 .. Len(inbox[n])
          <5>1. inbox'[n][i] = inbox[n][i] /\ i \in DOMAIN inbox[n]
            BY <2>1, <4>1, <4>4
          <5> QED BY <1>1, <3>2, <5>1, Zenon
        <4> QED BY <2>1, <4>2, <4>3, <4>4
      <3> QED BY <3>1, <3>2, Zenon
    <2> QED BY <2>2, <2>3, Zenon DEF ReportsAwarded, ReportOK
  <1> QED BY <1>2, <1>3, Zenon DEF Feed

LEMMA ObserveKeeps ==
    ASSUME IInv, NEW n \in Node, Observe(n) \/ UNCHANGED inbox, awarded' = awarded
    PROVE  inbox' \in [Node -> Seq(Reports)] /\ ReportsAwarded'
  <1>1. CASE inbox' = inbox
    BY <1>1, Zenon DEF IInv, TypeOK, ReportsAwarded, ReportOK
  <1>2. CASE inbox' # inbox
    <2>1. reg.version # 0 /\ Feed(n, Observation(reg.rec))
      BY <1>2, Zenon DEF Observe
    <2>2. reg.rec.host \in Node /\ reg.rec.epoch \in Nat
      BY <2>1, Zenon DEF IInv, TypeOK, RecordAwarded
    <2>3. Observation(reg.rec) \in Reports /\ Observation(reg.rec).kind # "Activated"
      BY <2>2, Zenon DEF Observation, Reports
    <2> QED BY <2>1, <2>3, FeedKeeps, Zenon
  <1> QED BY <1>1, <1>2, Zenon

\* A step of n's task that leaves the store alone.
LEMMA QuietTask ==
    ASSUME IInv, NEW n \in Node, NEW t \in TaskState, task' = [task EXCEPT ![n] = t],
           TaskOK(n, t),
           inbox' \in [Node -> Seq(Reports)], ReportsAwarded',
           slot' \in [Node -> Nat], changed' \in [Node -> BOOLEAN],
           given' = given \/ \E e \in Nat : given' = given \cup {<<e, n>>},
           UNCHANGED <<setup, now, eng, reg, late, said, awarded, hosted>>
    PROVE  IInv'
  <1>1. /\ reg' \in [version : Nat, rec : Records] /\ awarded' \subseteq Nat \X Node
        /\ RecordAwarded' /\ awarded \subseteq awarded'
        /\ \A p \in Nat, r \in Records : Pending(p, r) => Pending(p, r)'
        /\ \A m \in Node, h \in Holds : HoldOK(m, h) => HoldOK(m, h)'
    BY StoreUnchanged, Zenon DEF IInv
  <1>2. TaskOK(n, t)'
    BY Zenon DEF TaskOK, HoldOK, Pending
  <1>3. late' \subseteq [pre : Nat, rec : Records] /\ \A w \in late' : Pending(w.pre, w.rec)'
    BY Zenon DEF IInv, TypeOK, WritesPending, Pending
  <1>4. /\ eng' \in [Node -> EngineState] /\ given' \subseteq Nat \X Node
        /\ \A m \in Node : eng'[m] = eng[m] \/ eng'[m].role # "Host"
    BY DEF IInv, TypeOK
  <1> QED BY <1>1, <1>2, <1>3, <1>4, TaskKeeps, Zenon

\* What is known of a task before it moves.
LEMMA TaskFacts ==
    ASSUME IInv, NEW n \in Node
    PROVE  /\ task[n] \in TaskState /\ TaskOK(n, task[n]) /\ task \in [Node -> TaskState]
           /\ task[n].held \in Holds /\ task[n].rec \in Records /\ task[n].pre \in Nat
           /\ task[n].t0 \in Nat /\ task[n].w0 \in Nat /\ task[n].hint \in Nat
           /\ slot \in [Node -> Nat] /\ slot[n] \in Nat /\ changed \in [Node -> BOOLEAN]
           /\ now \in Nat /\ Wall(n) \in Nat /\ setup \in Setups
           /\ reg.version \in Nat /\ reg.rec \in Records
  BY WallType, Zenon DEF IInv, TypeOK, TaskState, Holds, WritesPending

LEMMA InboxStays ==
    ASSUME IInv, UNCHANGED <<inbox, awarded>>
    PROVE  inbox' \in [Node -> Seq(Reports)] /\ ReportsAwarded'
  BY Zenon DEF IInv, TypeOK, ReportsAwarded, ReportOK

\* round: a renewal is planned on the version held.
LEMMA RoundKeeps ==
    ASSUME IInv, NEW n \in Node, Round(n)
    PROVE  IInv'
  <1> DEFINE t == task[n]
             begun == [t EXCEPT !.t0 = now, !.w0 = Wall(n), !.hint = slot[n]]
  <1>1. /\ slot' = [slot EXCEPT ![n] = 0]
        /\ UNCHANGED <<setup, now, eng, inbox, changed, reg, late, said, awarded, given, hosted>>
    BY Zenon DEF Round
  <1>2. /\ t \in TaskState /\ TaskOK(n, t) /\ task \in [Node -> TaskState]
        /\ slot' \in [Node -> Nat] /\ changed' \in [Node -> BOOLEAN]
    BY <1>1, TaskFacts, Zenon
  <1>3. begun \in TaskState /\ begun.held = t.held /\ begun.pc = t.pc
    BY TaskFacts, ZenonT(30) DEF TaskState
  <1>4. t.pc = "idle"
    BY Zenon DEF Round, At
  <1>5. inbox' \in [Node -> Seq(Reports)] /\ ReportsAwarded'
    BY <1>1, InboxStays, Zenon
  <1>6. CASE task' = [task EXCEPT ![n] = [begun EXCEPT !.pc = "load", !.held = NoHeld, !.retry_at = 0]]
    <2> DEFINE u == [begun EXCEPT !.pc = "load", !.held = NoHeld, !.retry_at = 0]
    <2> HIDE DEF begun
    <2>1. u \in TaskState /\ TaskOK(n, u)
      BY <1>3, FreshType, Zenon DEF TaskState, TaskOK, Holds
    <2> HIDE DEF u
    <2> QED BY <1>1, <1>2, <1>5, <1>6, <2>1, QuietTask, Zenon DEF u, begun
  <1>7. CASE task' = [task EXCEPT ![n].held = NoHeld]
    <2> DEFINE u == [t EXCEPT !.held = NoHeld]
    <2>1. u \in TaskState /\ TaskOK(n, u)
      BY <1>2, <1>4, FreshType, Zenon DEF TaskState, TaskOK, Holds
    <2>2. task' = [task EXCEPT ![n] = u]
      BY <1>7, Zenon
    <2> HIDE DEF u
    <2> QED BY <1>1, <1>2, <1>5, <2>1, <2>2, QuietTask, Zenon
  <1>8. CASE /\ Renews(n)
             /\ task' = [task EXCEPT ![n] =
                    [begun EXCEPT !.pc = "write", !.renewing = TRUE, !.pre = t.held.token,
                                  !.rec = Record(t.held.epoch, n, Wall(n) + setup.lease)]]
    <2> DEFINE r == Record(t.held.epoch, n, Wall(n) + setup.lease)
               u == [begun EXCEPT !.pc = "write", !.renewing = TRUE, !.pre = t.held.token, !.rec = r]
    <2>1. t.held # NoHeld /\ t.held \in Holds
      BY <1>8, TaskFacts, Zenon DEF Renews
    <2>2. HoldOK(n, t.held)
      BY <1>2, <2>1, Zenon DEF TaskOK
    <2>3. Wall(n) + setup.lease \in Nat
      BY TaskFacts, SetupType
    <2>4. r \in Records /\ r.epoch = t.held.epoch /\ r.host = n /\ t.held.token \in Nat
      BY <2>1, <2>3, Zenon DEF Record, Records, Holds
    <2> HIDE DEF begun, r
    <2>5. /\ u \in TaskState /\ u.pc = "write" /\ u.pre = t.held.token /\ u.rec = r
          /\ u.held = t.held
      BY <1>3, <2>4, Zenon DEF TaskState
    <2> HIDE DEF u
    <2>6. Pending(u.pre, u.rec)
      BY <2>2, <2>4, <2>5, Zenon DEF HoldOK, Pending
    <2>7. TaskOK(n, u)
      BY <2>2, <2>4, <2>5, <2>6, Zenon DEF TaskOK
    <2>8. task' = [task EXCEPT ![n] = u]
      BY <1>8, Zenon DEF u, r, begun
    <2> QED BY <1>1, <1>2, <1>5, <2>5, <2>7, <2>8, QuietTask, Zenon
  <1>9. CASE task' = task
    <2>1. task' = [task EXCEPT ![n] = t]
      BY <1>2, <1>9, Zenon
    <2> QED BY <1>1, <1>2, <1>5, <2>1, QuietTask, Zenon
  <1> QED BY <1>6, <1>7, <1>8, <1>9, Zenon DEF Round

\* claim: the planned epoch is above the loaded one.
LEMMA LoadKeeps ==
    ASSUME IInv, NEW n \in Node, Load(n)
    PROVE  IInv'
  <1> DEFINE t == task[n]
             planned == Planned(n, t.hint, reg, t.w0)
  <1>1. UNCHANGED <<setup, now, eng, slot, changed, reg, late, said, awarded, given, hosted>>
    BY Zenon DEF Load
  <1>2. /\ t \in TaskState /\ TaskOK(n, t) /\ task \in [Node -> TaskState]
        /\ slot' \in [Node -> Nat] /\ changed' \in [Node -> BOOLEAN]
    BY <1>1, TaskFacts, Zenon
  <1>3. CASE /\ planned.epoch <= MaxEpoch
             /\ task' = [task EXCEPT ![n].pc = "write", ![n].pre = reg.version, ![n].rec = planned]
             /\ UNCHANGED inbox
    <2> DEFINE u == [t EXCEPT !.pc = "write", !.pre = reg.version, !.rec = planned]
    <2>1. /\ reg.rec.epoch \in Nat /\ t.hint \in Nat /\ reg.version \in Nat
          /\ t.w0 + setup.lease \in Nat
      BY TaskFacts, SetupType DEF Records
    <2>2. /\ planned.epoch \in Nat /\ planned.epoch >= 1 /\ planned.epoch > reg.rec.epoch
          /\ planned.host = n /\ planned.expires = t.w0 + setup.lease
          /\ planned \in Records
      <3> DEFINE e == IF reg.version = 0 THEN Larger(t.hint, 1) ELSE Larger(reg.rec.epoch + 1, t.hint)
      <3>1. reg.version = 0 => reg.rec.epoch = 0
        BY DEF IInv, RecordAwarded, NoRecord, Record
      <3>2. e \in Nat /\ e >= 1 /\ e > reg.rec.epoch
        BY <2>1, <3>1 DEF Larger
      <3>3. planned = [epoch |-> e, host |-> n, expires |-> t.w0 + setup.lease]
        BY Zenon DEF Planned, Record
      <3> HIDE DEF e, planned
      <3> QED BY <2>1, <3>2, <3>3, Zenon DEF Records
    <2> HIDE DEF planned
    <2>3. Pending(reg.version, planned)
      BY <1>3, <2>1, <2>2, BoundAssumption DEF Pending
    <2>4. /\ u \in TaskState /\ u.pc = "write" /\ u.pre = reg.version /\ u.rec = planned
          /\ u.held = t.held
      BY <1>2, <2>1, <2>2, Zenon DEF TaskState
    <2>5. TaskOK(n, u)
      BY <1>2, <2>2, <2>3, <2>4, Zenon DEF TaskOK
    <2>6. task' = [task EXCEPT ![n] = u]
      BY <1>2, <1>3, Zenon
    <2> HIDE DEF u
    <2> QED BY <1>1, <1>2, <1>3, <2>4, <2>5, <2>6, QuietTask, InboxStays, Zenon
  <1>4. CASE /\ task' = [task EXCEPT ![n] = Done([t EXCEPT !.retry_at = reg.rec.expires + setup.margin])]
             /\ Observe(n)
    <2> DEFINE v == [t EXCEPT !.retry_at = reg.rec.expires + setup.margin]
    <2>1. reg.rec.expires + setup.margin \in Nat
      BY TaskFacts, SetupType DEF Records
    <2>2. v \in TaskState /\ v.held = t.held
      BY <1>2, <2>1, Zenon DEF TaskState
    <2> HIDE DEF v
    <2>3. Done(v) \in TaskState /\ TaskOK(n, Done(v))
      BY <1>2, <2>2, DoneType, Zenon DEF TaskOK
    <2> QED BY <1>1, <1>2, <1>4, <2>3, QuietTask, ObserveKeeps, Zenon DEF v
  <1>5. CASE task' = [task EXCEPT ![n] = Done(t)] /\ UNCHANGED inbox
    <2>1. Done(t) \in TaskState /\ TaskOK(n, Done(t))
      BY <1>2, DoneType, Zenon DEF TaskOK
    <2> QED BY <1>1, <1>2, <1>5, <2>1, QuietTask, InboxStays, Zenon
  <1> QED BY <1>3, <1>4, <1>5, Zenon DEF Load

\* A write reaches the store or not, and may be left on its way.
LEMMA StoreStep ==
    ASSUME IInv, NEW pre \in Nat, NEW rec \in Records, Pending(pre, rec),
           Put(pre, rec) \/ UNCHANGED <<reg, awarded>>,
           late' \subseteq late \cup {[pre |-> pre, rec |-> rec]}
    PROVE  /\ reg' \in [version : Nat, rec : Records] /\ awarded' \subseteq Nat \X Node
           /\ RecordAwarded' /\ awarded \subseteq awarded'
           /\ \A p \in Nat, r \in Records : Pending(p, r) => Pending(p, r)'
           /\ \A m \in Node, h \in Holds : HoldOK(m, h) => HoldOK(m, h)'
           /\ late' \subseteq [pre : Nat, rec : Records]
           /\ \A w \in late' : Pending(w.pre, w.rec)'
  <1>1. /\ reg' \in [version : Nat, rec : Records] /\ awarded' \subseteq Nat \X Node
        /\ RecordAwarded' /\ awarded \subseteq awarded'
        /\ \A p \in Nat, r \in Records : Pending(p, r) => Pending(p, r)'
        /\ \A m \in Node, h \in Holds : HoldOK(m, h) => HoldOK(m, h)'
    <2>1. CASE Put(pre, rec)
      BY <2>1, PutKeeps, Zenon DEF IInv
    <2>2. CASE UNCHANGED <<reg, awarded>>
      BY <2>2, StoreUnchanged, Zenon DEF IInv
    <2> QED BY <2>1, <2>2, Zenon
  <1>2. late' \subseteq [pre : Nat, rec : Records]
    BY DEF IInv, TypeOK
  <1>3. ASSUME NEW w \in late' PROVE Pending(w.pre, w.rec)'
    <2>1. CASE w \in late
      <3>1. w.pre \in Nat /\ w.rec \in Records /\ Pending(w.pre, w.rec)
        BY <2>1, Zenon DEF IInv, TypeOK, WritesPending
      <3> QED BY <1>1, <3>1, Zenon
    <2>2. CASE w = [pre |-> pre, rec |-> rec]
      BY <1>1, <2>2, Zenon
    <2> QED BY <1>3, <2>1, <2>2, Zenon
  <1> QED BY <1>1, <1>2, <1>3, Zenon

\* What a win records was awarded by it.
LEMMA WonKeeps ==
    ASSUME IInv, NEW n \in Node, NEW t \in TaskState, NEW token \in Nat, Won(n, t, token),
           task \in [Node -> TaskState], setup \in Setups, awarded \subseteq awarded',
           t.rec.host = n, t.rec.epoch \in 1 .. MaxEpoch,
           <<t.rec.epoch, n>> \in awarded',
           reg'.version = token, reg'.rec = t.rec
    PROVE  /\ inbox' \in [Node -> Seq(Reports)] /\ ReportsAwarded'
           /\ \E u \in TaskState : task' = [task EXCEPT ![n] = u] /\ TaskOK(n, u)'
  <1> DEFINE h == [epoch |-> t.rec.epoch, token |-> token, expires |-> t.rec.expires]
             v == [t EXCEPT !.held = h]
             cmd == [kind |-> "Activated", epoch |-> t.rec.epoch, host |-> n, until |-> t.t0 + setup.lease]
  <1>1. t.rec \in Records /\ t.t0 \in Nat /\ setup.lease \in Nat
    BY SetupType, Zenon DEF TaskState
  <1>2. h \in Holds
    BY <1>1, Zenon DEF Holds, Records
  <1>3. cmd \in Reports
    BY <1>1 DEF Reports, Records
  <1>4. Feed(n, cmd) /\ task' = [task EXCEPT ![n] = Done(v)]
    BY Zenon DEF Won
  <1>5. inbox' \in [Node -> Seq(Reports)] /\ ReportsAwarded'
    BY <1>3, <1>4, FeedKeeps, Zenon
  <1>6. HoldOK(n, h)'
    BY <1>2 DEF HoldOK, Holds
  <1>7. v \in TaskState /\ v.held = h
    BY <1>2, Zenon DEF TaskState, Holds
  <1> HIDE DEF v, h
  <1>8. Done(v) \in TaskState /\ Done(v).pc = "idle" /\ Done(v).held = h
    BY <1>7, DoneType, Zenon
  <1>9. TaskOK(n, Done(v))'
    <2>1. PICK u \in TaskState : u = Done(v)
      BY <1>8, Zenon
    <2>2. TaskOK(n, u)'
      BY <1>6, <1>8, <2>1, Zenon DEF TaskOK
    <2> QED BY <2>1, <2>2, Zenon
  <1> QED BY <1>4, <1>5, <1>8, <1>9, Zenon

\* write: a win, a refusal, or no answer.
LEMMA WriteKeeps ==
    ASSUME IInv, NEW n \in Node, Write(n)
    PROVE  IInv'
  <1>1. PICK t \in TaskState : t = task[n]
    BY TaskFacts, Zenon
  <1>2. /\ TaskOK(n, t) /\ task \in [Node -> TaskState] /\ t.pc = "write"
        /\ t.pre \in Nat /\ t.rec \in Records
        /\ slot \in [Node -> Nat] /\ changed \in [Node -> BOOLEAN]
    BY <1>1, TaskFacts, Zenon DEF Write, At
  <1>3. Pending(t.pre, t.rec) /\ t.rec.host = n /\ t.rec.epoch \in 1 .. MaxEpoch
    BY <1>2, Zenon DEF TaskOK, Pending
  <1>4. /\ UNCHANGED <<setup, now, eng, slot, changed, said, given, hosted>>
        /\ eng' \in [Node -> EngineState] /\ given' \subseteq Nat \X Node
        /\ \A m \in Node : eng'[m] = eng[m] \/ eng'[m].role # "Host"
        /\ slot' \in [Node -> Nat] /\ changed' \in [Node -> BOOLEAN] /\ setup \in Setups
    BY <1>2, Zenon DEF Write, IInv, TypeOK
  <1>5. CASE /\ reg.version = t.pre /\ Put(t.pre, t.rec) /\ Won(n, t, reg'.version)
             /\ UNCHANGED late
    <2>1. /\ reg' = [version |-> reg.version + 1, rec |-> t.rec]
          /\ awarded' = awarded \cup {<<t.rec.epoch, t.rec.host>>}
      BY <1>5, Zenon DEF Put
    <2>2. PICK token \in Nat : token = reg'.version
      BY <2>1, TaskFacts
    <2>3. Won(n, t, token)
      BY <1>5, <2>2, Zenon
    <2>4. /\ inbox' \in [Node -> Seq(Reports)] /\ ReportsAwarded'
          /\ \E u \in TaskState : task' = [task EXCEPT ![n] = u] /\ TaskOK(n, u)'
      BY <1>2, <1>3, <1>4, <2>1, <2>2, <2>3, WonKeeps, Zenon
    <2> QED BY <1>2, <1>3, <1>4, <1>5, <2>4, StoreStep, TaskKeeps, Zenon
  <1>6. CASE /\ task' = [task EXCEPT ![n] =
                IF t.renewing THEN [t EXCEPT !.pc = "superseded", !.held = NoHeld] ELSE Done(t)]
             /\ UNCHANGED <<reg, awarded, late, inbox>>
    <2> DEFINE u == IF t.renewing THEN [t EXCEPT !.pc = "superseded", !.held = NoHeld] ELSE Done(t)
    <2>1. u \in TaskState /\ TaskOK(n, u)
      <3>1. CASE t.renewing
        BY <3>1, FreshType, Zenon DEF TaskState, TaskOK, Holds
      <3>2. CASE ~t.renewing
        BY <1>2, <3>2, DoneType, Zenon DEF TaskOK
      <3> QED BY <3>1, <3>2, Zenon
    <2> HIDE DEF u
    <2> QED BY <1>4, <1>6, <2>1, QuietTask, InboxStays, Zenon DEF u
  <1>7. CASE /\ PutUnanswered(n, t.pre, t.rec)
             /\ task' = [task EXCEPT ![n].pc = "resolve"]
             /\ UNCHANGED inbox
    <2> DEFINE u == [t EXCEPT !.pc = "resolve"]
    <2>1. /\ Put(t.pre, t.rec) \/ UNCHANGED <<reg, awarded>>
          /\ late' \subseteq late \cup {[pre |-> t.pre, rec |-> t.rec]}
      BY <1>7, Zenon DEF PutUnanswered, Delayed
    <2>2. /\ u \in TaskState /\ u.pc = "resolve" /\ u.pre = t.pre /\ u.rec = t.rec /\ u.held = t.held
          /\ t.held \in Holds
      BY Zenon DEF TaskState, Holds
    <2>3. task' = [task EXCEPT ![n] = u]
      BY <1>1, <1>2, <1>7, Zenon
    <2> HIDE DEF u
    <2>4. /\ reg' \in [version : Nat, rec : Records] /\ awarded' \subseteq Nat \X Node
          /\ RecordAwarded' /\ awarded \subseteq awarded'
          /\ \A p \in Nat, r \in Records : Pending(p, r) => Pending(p, r)'
          /\ \A m \in Node, h \in Holds : HoldOK(m, h) => HoldOK(m, h)'
          /\ late' \subseteq [pre : Nat, rec : Records]
          /\ \A w \in late' : Pending(w.pre, w.rec)'
      BY <1>2, <1>3, <2>1, StoreStep, Zenon
    <2>5. PICK x \in TaskState : x = u
      BY <2>2, Zenon
    <2>6. TaskOK(n, x)'
      BY <1>2, <1>3, <2>2, <2>4, <2>5, Zenon DEF TaskOK
    <2>7. inbox' \in [Node -> Seq(Reports)] /\ ReportsAwarded'
      BY <1>7, <2>4, Zenon DEF IInv, TypeOK, ReportsAwarded, ReportOK
    <2> QED BY <1>4, <2>3, <2>4, <2>5, <2>6, <2>7, TaskKeeps, Zenon
  <1> QED BY <1>1, <1>5, <1>6, <1>7, Zenon DEF Write

\* superseded: the hold is gone.
LEMMA SupersededKeeps ==
    ASSUME IInv, NEW n \in Node, Superseded(n)
    PROVE  IInv'
  <1>1. /\ task' = [task EXCEPT ![n] = Done(task[n])]
        /\ Observe(n) \/ UNCHANGED inbox
        /\ UNCHANGED <<setup, now, eng, slot, changed, reg, late, said, awarded, given, hosted>>
    BY Zenon DEF Superseded
  <1>2. Done(task[n]) \in TaskState /\ TaskOK(n, Done(task[n]))
    BY TaskFacts, DoneType, Zenon DEF TaskOK
  <1>3. slot' \in [Node -> Nat] /\ changed' \in [Node -> BOOLEAN]
    BY <1>1, TaskFacts, Zenon
  <1> QED BY <1>1, <1>2, <1>3, QuietTask, ObserveKeeps, Zenon

\* resolve: the record that is there is the one attempted, or the hold ends.
LEMMA ResolveKeeps ==
    ASSUME IInv, NEW n \in Node, Resolve(n)
    PROVE  IInv'
  <1>1. PICK t \in TaskState : t = task[n]
    BY TaskFacts, Zenon
  <1>2. /\ TaskOK(n, t) /\ task \in [Node -> TaskState] /\ t.pc = "resolve"
        /\ slot \in [Node -> Nat] /\ changed \in [Node -> BOOLEAN] /\ setup \in Setups
        /\ reg.version \in Nat
    BY <1>1, TaskFacts, Zenon DEF Resolve, At
  <1>3. Pending(t.pre, t.rec) /\ t.rec.host = n /\ t.rec.epoch \in 1 .. MaxEpoch
    BY <1>2, Zenon DEF TaskOK, Pending
  <1>4. UNCHANGED <<setup, now, eng, slot, changed, reg, late, said, awarded, given, hosted>>
    BY Zenon DEF Resolve
  <1>5. slot' \in [Node -> Nat] /\ changed' \in [Node -> BOOLEAN]
    BY <1>2, <1>4, Zenon
  <1>6. CASE Applied(t.rec, reg.rec) /\ Won(n, t, reg.version)
    <2>1. reg.rec = t.rec
      BY <1>6, Zenon DEF Applied
    <2>2. reg.version # 0
      BY <1>3, <2>1, NoneOutside DEF IInv, RecordAwarded, NoRecord, Record
    <2>3. <<t.rec.epoch, n>> \in awarded'
      BY <1>3, <1>4, <2>1, <2>2, Zenon DEF IInv, RecordAwarded
    <2>4. PICK token \in Nat : token = reg.version
      BY <1>2, Zenon
    <2>5. /\ inbox' \in [Node -> Seq(Reports)] /\ ReportsAwarded'
          /\ \E u \in TaskState : task' = [task EXCEPT ![n] = u] /\ TaskOK(n, u)'
      BY <1>2, <1>3, <1>4, <1>6, <2>1, <2>3, <2>4, WonKeeps, Zenon
    <2>6. PICK u \in TaskState : task' = [task EXCEPT ![n] = u] /\ TaskOK(n, u)'
      BY <2>5, Zenon
    <2>7. TaskOK(n, u)
      BY <1>4, <2>6, Zenon DEF TaskOK, HoldOK, Pending
    <2> QED BY <1>4, <1>5, <2>5, <2>6, <2>7, QuietTask, Zenon
  <1>7. CASE /\ Observe(n) \/ UNCHANGED inbox
             /\ task' = [task EXCEPT ![n] = Done([t EXCEPT !.held = NoHeld])]
    <2> DEFINE v == [t EXCEPT !.held = NoHeld]
    <2>1. v \in TaskState /\ v.held = NoHeld
      BY FreshType, Zenon DEF TaskState, Holds
    <2> HIDE DEF v
    <2>2. Done(v) \in TaskState /\ TaskOK(n, Done(v))
      BY <2>1, DoneType, Zenon DEF TaskOK
    <2> QED BY <1>4, <1>5, <1>7, <2>2, QuietTask, ObserveKeeps, Zenon DEF v
  <1> QED BY <1>1, <1>6, <1>7, Zenon DEF Resolve

\* The leadership edge: the record given up is the one held.
LEMMA EdgeKeeps ==
    ASSUME IInv, NEW n \in Node, Edge(n)
    PROVE  IInv'
  <1>1. PICK t \in TaskState : t = task[n]
    BY TaskFacts, Zenon
  <1>2. /\ TaskOK(n, t) /\ task \in [Node -> TaskState] /\ t.pc = "idle" /\ t.held \in Holds
        /\ slot \in [Node -> Nat] /\ changed \in [Node -> BOOLEAN] /\ Wall(n) \in Nat
    BY <1>1, TaskFacts, Zenon DEF Edge, At
  <1>3. /\ changed' = [changed EXCEPT ![n] = FALSE]
        /\ slot' = slot \/ slot' = [slot EXCEPT ![n] = 0]
        /\ given' = given \/ given' = given \cup {<<t.held.epoch, n>>}
        /\ UNCHANGED <<setup, now, eng, inbox, reg, late, said, awarded, hosted>>
    BY <1>1, Zenon DEF Edge
  <1>4. /\ slot' \in [Node -> Nat] /\ changed' \in [Node -> BOOLEAN]
        /\ given' = given \/ \E e \in Nat : given' = given \cup {<<e, n>>}
    BY <1>2, <1>3 DEF Holds
  <1>5. CASE /\ t.held # NoHeld
             /\ task' = [task EXCEPT ![n] =
                      [t EXCEPT !.pc = "release", !.held = NoHeld, !.pre = t.held.token,
                                !.rec = Record(t.held.epoch, n, Wall(n))]]
    <2> DEFINE r == Record(t.held.epoch, n, Wall(n))
               u == [t EXCEPT !.pc = "release", !.held = NoHeld, !.pre = t.held.token, !.rec = r]
    <2>1. HoldOK(n, t.held)
      BY <1>2, <1>5, Zenon DEF TaskOK
    <2>2. r \in Records /\ r.epoch = t.held.epoch /\ r.host = n /\ t.held.token \in Nat
      BY <1>2, Zenon DEF Record, Records, Holds
    <2> HIDE DEF r
    <2>3. u \in TaskState /\ u.pre = t.held.token /\ u.rec = r /\ u.held = NoHeld
      BY <2>2, FreshType, Zenon DEF TaskState, Holds
    <2>4. Pending(t.held.token, r)
      BY <2>1, <2>2, Zenon DEF HoldOK, Pending
    <2> HIDE DEF u
    <2>5. TaskOK(n, u)
      BY <2>2, <2>3, <2>4, Zenon DEF TaskOK
    <2> QED BY <1>3, <1>4, <1>5, <2>3, <2>5, QuietTask, InboxStays, ZenonT(40) DEF u, r
  <1>6. CASE task' = [task EXCEPT ![n].hosting = (eng[n].role = "Host")]
    <2> DEFINE u == [t EXCEPT !.hosting = (eng[n].role = "Host")]
    <2>1. u \in TaskState /\ TaskOK(n, u)
      BY <1>2, Zenon DEF TaskState, TaskOK
    <2>2. task' = [task EXCEPT ![n] = u]
      BY <1>1, <1>2, <1>6, Zenon
    <2> HIDE DEF u
    <2> QED BY <1>3, <1>4, <2>1, <2>2, QuietTask, InboxStays, Zenon
  <1> QED BY <1>1, <1>5, <1>6, Zenon DEF Edge

\* release: conditional on the version that was held.
LEMMA ReleaseKeeps ==
    ASSUME IInv, NEW n \in Node, Release(n)
    PROVE  IInv'
  <1>1. PICK t \in TaskState : t = task[n]
    BY TaskFacts, Zenon
  <1>2. /\ TaskOK(n, t) /\ task \in [Node -> TaskState] /\ t.pc = "release"
        /\ t.pre \in Nat /\ t.rec \in Records /\ t.held \in Holds
        /\ slot \in [Node -> Nat] /\ changed \in [Node -> BOOLEAN]
    BY <1>1, TaskFacts, Zenon DEF Release, At
  <1>3. Pending(t.pre, t.rec) /\ t.rec.epoch \in Nat
    BY <1>2, Zenon DEF TaskOK, Pending, Records
  <1>4. /\ Put(t.pre, t.rec) \/ UNCHANGED <<reg, awarded>>
        /\ late' \subseteq late \cup {[pre |-> t.pre, rec |-> t.rec]}
        /\ task' = [task EXCEPT ![n] = Done([t EXCEPT !.hosting = FALSE])]
        /\ slot' = [slot EXCEPT ![n] = 0]
        /\ UNCHANGED <<setup, now, eng, inbox, changed, said, given, hosted>>
    BY <1>1, Zenon DEF Release, PutUnanswered, Delayed
  <1>5. /\ reg' \in [version : Nat, rec : Records] /\ awarded' \subseteq Nat \X Node
        /\ RecordAwarded' /\ awarded \subseteq awarded'
        /\ \A p \in Nat, r \in Records : Pending(p, r) => Pending(p, r)'
        /\ \A m \in Node, h \in Holds : HoldOK(m, h) => HoldOK(m, h)'
        /\ late' \subseteq [pre : Nat, rec : Records]
        /\ \A w \in late' : Pending(w.pre, w.rec)'
    BY <1>2, <1>3, <1>4, StoreStep, Zenon
  <1> DEFINE v == [t EXCEPT !.hosting = FALSE]
  <1>6. v \in TaskState /\ v.held = t.held
    BY Zenon DEF TaskState
  <1> HIDE DEF v
  <1>7. PICK u \in TaskState : u = Done(v) /\ u.pc = "idle" /\ u.held = t.held
    BY <1>6, DoneType, Zenon
  <1>8. TaskOK(n, u)'
    BY <1>2, <1>5, <1>7, Zenon DEF TaskOK
  <1>9. inbox' \in [Node -> Seq(Reports)] /\ ReportsAwarded'
    BY <1>4, <1>5, Zenon DEF IInv, TypeOK, ReportsAwarded, ReportOK
  <1>10. /\ eng' \in [Node -> EngineState] /\ given' \subseteq Nat \X Node
         /\ \A m \in Node : eng'[m] = eng[m] \/ eng'[m].role # "Host"
         /\ slot' \in [Node -> Nat] /\ changed' \in [Node -> BOOLEAN]
    BY <1>2, <1>3, <1>4, Zenon DEF IInv, TypeOK
  <1> QED BY <1>4, <1>5, <1>7, <1>8, <1>9, <1>10, TaskKeeps, Zenon DEF v

-----------------------------------------------------------------------------
(* Late writes and crashes.                                                *)

LEMMA LandKeeps ==
    ASSUME IInv, NEW w \in late, Land(w)
    PROVE  IInv'
  <1>1. /\ late' = late \ {w} /\ Put(w.pre, w.rec)
        /\ UNCHANGED <<setup, now, eng, slot, inbox, changed, task, said, given, hosted>>
    BY Zenon DEF Land
  <1>2. w.pre \in Nat /\ w.rec \in Records /\ Pending(w.pre, w.rec)
    BY Zenon DEF IInv, TypeOK, WritesPending
  <1>3. late' \subseteq late \cup {[pre |-> w.pre, rec |-> w.rec]}
    BY <1>1, Zenon
  <1>4. /\ reg' \in [version : Nat, rec : Records] /\ awarded' \subseteq Nat \X Node
        /\ RecordAwarded' /\ awarded \subseteq awarded'
        /\ \A p \in Nat, r \in Records : Pending(p, r) => Pending(p, r)'
        /\ \A m \in Node, h \in Holds : HoldOK(m, h) => HoldOK(m, h)'
        /\ late' \subseteq [pre : Nat, rec : Records]
        /\ \A x \in late' : Pending(x.pre, x.rec)'
    BY <1>1, <1>2, <1>3, StoreStep, Zenon
  <1>5. TypeOK'
    BY <1>1, <1>4, Zenon DEF IInv, TypeOK
  <1>6. ReportsAwarded' /\ HostsAwarded'
    BY <1>1, <1>4, Zenon DEF IInv, ReportsAwarded, ReportOK, HostsAwarded
  <1>7. ASSUME NEW m \in Node PROVE TaskOK(m, task[m])'
    <2>1. PICK x \in TaskState : x = task[m]
      BY TaskFacts, Zenon
    <2>2. x.pre \in Nat /\ x.rec \in Records /\ x.held \in Holds /\ TaskOK(m, x)
      BY <2>1, TaskFacts, Zenon
    <2>3. TaskOK(m, x)'
      BY <1>4, <2>2, Zenon DEF TaskOK
    <2> QED BY <1>1, <2>1, <2>3, Zenon DEF TaskOK
  <1> QED BY <1>1, <1>4, <1>5, <1>6, <1>7, Zenon DEF IInv, WritesPending

LEMMA RestartKeeps ==
    ASSUME IInv, NEW n \in Node, Restart(n)
    PROVE  IInv'
  <1>1. PICK t \in TaskState : t = task[n]
    BY TaskFacts, Zenon
  <1>2. /\ TaskOK(n, t) /\ t.pre \in Nat /\ t.rec \in Records /\ setup \in Setups /\ now \in Nat
        /\ slot \in [Node -> Nat] /\ changed \in [Node -> BOOLEAN]
    BY <1>1, TaskFacts, Zenon
  <1>3. /\ eng' = [eng EXCEPT ![n] = Boot] /\ slot' = [slot EXCEPT ![n] = 0]
        /\ inbox' = [inbox EXCEPT ![n] = <<>>] /\ changed' = [changed EXCEPT ![n] = FALSE]
        /\ task' = [task EXCEPT ![n] = Fresh]
        /\ UNCHANGED <<setup, now, reg, said, awarded, given, hosted>>
        /\ \/ late' = late
           \/ t.pc \in {"write", "release"} /\ late' = late \cup {[pre |-> t.pre, rec |-> t.rec]}
    BY <1>1, Zenon DEF Restart, Delayed
  <1>4. late' \subseteq [pre : Nat, rec : Records] /\ \A w \in late' : Pending(w.pre, w.rec)'
    <2>1. CASE late' = late
      BY <1>3, <2>1, Zenon DEF IInv, TypeOK, WritesPending, Pending
    <2>2. CASE t.pc \in {"write", "release"} /\ late' = late \cup {[pre |-> t.pre, rec |-> t.rec]}
      <3>1. Pending(t.pre, t.rec)
        BY <1>2, <2>2, Zenon DEF TaskOK
      <3> QED BY <1>2, <1>3, <2>2, <3>1, StoreStep, Zenon
    <2> QED BY <1>3, <2>1, <2>2, Zenon
  <1>5. Boot \in EngineState /\ Boot.role = "Follower"
    BY <1>2, BootType, Zenon
  <1> HIDE DEF Boot
  <1>6. /\ eng' \in [Node -> EngineState] /\ \A m \in Node : eng'[m] = eng[m] \/ eng'[m].role # "Host"
        /\ slot' \in [Node -> Nat] /\ changed' \in [Node -> BOOLEAN] /\ given' \subseteq Nat \X Node
    BY <1>2, <1>3, <1>5, Zenon DEF IInv, TypeOK
  <1>7. inbox' \in [Node -> Seq(Reports)]
    BY <1>3 DEF IInv, TypeOK
  <1>8. ReportsAwarded'
    BY <1>3 DEF IInv, TypeOK, ReportsAwarded, ReportOK
  <1>9. PICK u \in TaskState : u = Fresh
    BY FreshType, Zenon
  <1>10. TaskOK(n, u)'
    BY <1>9, Zenon DEF TaskOK, Fresh
  <1>11. /\ reg' \in [version : Nat, rec : Records] /\ awarded' \subseteq Nat \X Node
         /\ RecordAwarded' /\ awarded \subseteq awarded'
         /\ \A p \in Nat, r \in Records : Pending(p, r) => Pending(p, r)'
         /\ \A m \in Node, h \in Holds : HoldOK(m, h) => HoldOK(m, h)'
    BY <1>3, StoreUnchanged, Zenon DEF IInv
  <1> QED BY <1>3, <1>4, <1>6, <1>7, <1>8, <1>9, <1>10, <1>11, TaskKeeps, Zenon

-----------------------------------------------------------------------------
LEMMA Initially == Init => IInv
  <1> SUFFICES ASSUME Init PROVE IInv
    BY Zenon
  <1>1. setup \in Setups /\ now = 0
    BY Zenon DEF Init
  <1>2. Boot \in EngineState /\ Boot.role = "Follower"
    BY <1>1, BootType, Zenon
  <1>3. Fresh \in TaskState /\ NoRecord \in Records /\ Fresh.held = NoHeld /\ Fresh.pc = "idle"
    BY FreshType, Zenon DEF Fresh
  <1>4. NoRecord.epoch = 0
    BY Zenon DEF NoRecord, Record
  <1>5. TypeOK
    BY <1>2, <1>3 DEF Init, TypeOK
  <1>6. WritesPending
    BY <1>3, Zenon DEF Init, WritesPending, TaskOK
  <1>7. RecordAwarded /\ ReportsAwarded /\ HostsAwarded
    BY <1>2 DEF Init, RecordAwarded, ReportsAwarded, HostsAwarded
  <1> QED BY <1>1, <1>5, <1>6, <1>7, Zenon DEF IInv

LEMMA Inductive == IInv /\ [Next]_vars => IInv'
  <1> SUFFICES ASSUME IInv, [Next]_vars PROVE IInv'
    BY Zenon
  <1>1. ASSUME NEW n \in Node, Actor(n) PROVE IInv'
    BY <1>1, ActorKeeps, Zenon
  <1>2. ASSUME NEW n \in Node, AnchorTask(n) PROVE IInv'
    BY <1>2, RoundKeeps, LoadKeeps, WriteKeeps, SupersededKeeps, ResolveKeeps, EdgeKeeps,
       ReleaseKeeps, Zenon DEF AnchorTask
  <1>3. ASSUME NEW n \in Node, Restart(n) PROVE IInv'
    BY <1>3, RestartKeeps, Zenon
  <1>4. ASSUME NEW w \in late, Land(w) PROVE IInv'
    BY <1>4, LandKeeps, Zenon
  <1>5. ASSUME UNCHANGED <<setup, eng, slot, inbox, changed, task, reg, late, said, awarded, given, hosted>>,
               now' \in Nat
        PROVE  IInv'
    <2>1. TypeOK'
      BY <1>5, Zenon DEF IInv, TypeOK
    <2>2. RecordAwarded' /\ WritesPending' /\ ReportsAwarded' /\ HostsAwarded'
      BY <1>5, Zenon DEF IInv, RecordAwarded, WritesPending, TaskOK, HoldOK, Pending, ReportsAwarded,
                  ReportOK, HostsAwarded
    <2> QED BY <1>5, <2>1, <2>2, Zenon DEF IInv
  <1>6. CASE Advance
    BY <1>5, <1>6 DEF Advance, IInv, TypeOK
  <1>7. CASE UNCHANGED vars
    BY <1>5, <1>7, Zenon DEF vars, IInv, TypeOK
  <1> QED BY <1>1, <1>2, <1>3, <1>4, <1>6, <1>7, Zenon DEF Next

LEMMA Invariant == Spec => []IInv
  BY Initially, Inductive, PTL DEF Spec

\* Engine, anchor task, channels and store stay well-formed.
THEOREM TypeCorrect == Spec => []TypeOK
  <1>1. IInv => TypeOK
    BY Zenon DEF IInv
  <1> QED BY <1>1, Invariant, PTL

\* S1-strict under External activation: no two nodes ever host the same epoch,
\* with no storage at the nodes (run_anchor, on_anchor_activated).
THEOREM StrictS1 == Spec => []S1Strict
  <1>1. IInv => S1Strict
    BY Zenon DEF IInv, HostsAwarded, RecordAwarded, S1Strict
  <1> QED BY <1>1, Invariant, PTL

-----------------------------------------------------------------------------
(* The refinement.                                                         *)

\* A conditional write awards a new epoch to one node, or no epoch.
LEMMA PutAwards ==
    ASSUME IInv, NEW pre, NEW rec, Pending(pre, rec), Put(pre, rec)
    PROVE  awarded' = awarded \/ \E e \in 0 .. MaxEpoch, n \in Node : Abstract!Award(e, n)
  <1>1. CASE awarded' = awarded
    BY <1>1, Zenon
  <1>2. CASE awarded' # awarded
    <2>1. reg.version = pre /\ awarded' = awarded \cup {<<rec.epoch, rec.host>>}
      BY <1>2, Zenon DEF Put
    <2>2. rec.epoch \in 0 .. MaxEpoch /\ rec.epoch \in 1 .. MaxEpoch /\ rec.host \in Node
      BY BoundAssumption DEF Pending
    <2>3. reg.rec.epoch \in Nat /\ reg.version \in Nat
      BY Zenon DEF IInv, TypeOK, Records
    <2>4. rec.epoch > reg.rec.epoch
      <3>1. CASE rec.epoch = reg.rec.epoch /\ rec.host = reg.rec.host
        <4>1. reg.version # 0
          BY <2>2, <3>1 DEF IInv, RecordAwarded, NoRecord, Record
        <4>2. <<rec.epoch, rec.host>> \in awarded
          BY <3>1, <4>1, Zenon DEF IInv, RecordAwarded
        <4> QED BY <1>2, <2>1, <4>2, Zenon
      <3> QED BY <2>1, <3>1, Zenon DEF Pending
    <2>5. \A a \in awarded : a[1] # rec.epoch
      BY <2>2, <2>3, <2>4 DEF IInv, TypeOK, RecordAwarded
    <2>6. Abstract!Award(rec.epoch, rec.host)
      BY <2>1, <2>5, Zenon DEF Abstract!Award
    <2> QED BY <2>2, <2>6, Zenon
  <1> QED BY <1>1, <1>2, Zenon

LEMMA StepAwards ==
    IInv /\ IInv' /\ [Next]_vars => [Abstract!Next]_<<awarded, hosted>>
  <1> SUFFICES ASSUME IInv, IInv', [Next]_vars
               PROVE  [Abstract!Next]_<<awarded, hosted>>
    BY Zenon
  <1>1. ASSUME NEW n \in Node, Actor(n) PROVE Abstract!Next \/ UNCHANGED <<awarded, hosted>>
    <2>1. \E t, p, F : Turn(n, t, p, F)
      BY <1>1, Zenon DEF Actor, ClaimPrompt, RenewPrompt, Lapse, Report, Leave, RecvState
    <2>2. awarded' = awarded /\ (hosted' = hosted \/ \E q : hosted' = hosted \cup {q})
      BY <2>1, Zenon DEF Turn
    <2>3. hosted' \subseteq awarded'
      BY Zenon DEF IInv, HostsAwarded
    <2> QED BY <2>2, <2>3, Zenon DEF Abstract!Next, Abstract!Serve
  <1>2. ASSUME NEW n \in Node, AnchorTask(n) \/ Restart(n)
        PROVE  Abstract!Next \/ UNCHANGED <<awarded, hosted>>
    <2>1. hosted' = hosted
      BY <1>2, Zenon DEF AnchorTask, Round, Load, Write, Superseded, Resolve, Edge, Release, Restart
    <2>2. \/ awarded' = awarded
          \/ Put(task[n].pre, task[n].rec) /\ task[n].pc \in {"write", "release"}
      <3>1. CASE Write(n)
        <4>1. \/ Put(task[n].pre, task[n].rec) \/ awarded' = awarded
              \/ PutUnanswered(n, task[n].pre, task[n].rec)
          BY <3>1, Zenon DEF Write
        <4> QED BY <3>1, <4>1, Zenon DEF Write, At, PutUnanswered
      <3>2. CASE Release(n)
        <4>1. Put(task[n].pre, task[n].rec) \/ PutUnanswered(n, task[n].pre, task[n].rec)
          BY <3>2, Zenon DEF Release
        <4> QED BY <3>2, <4>1, Zenon DEF Release, At, PutUnanswered
      <3>3. CASE ~Write(n) /\ ~Release(n)
        <4>1. (Round(n) \/ Load(n)) => awarded' = awarded
          BY Zenon DEF Round, Load
        <4>2. (Superseded(n) \/ Resolve(n)) => awarded' = awarded
          BY Zenon DEF Superseded, Resolve
        <4>3. (Edge(n) \/ Restart(n)) => awarded' = awarded
          BY Zenon DEF Edge, Restart
        <4> QED BY <1>2, <3>3, <4>1, <4>2, <4>3, Zenon DEF AnchorTask
      <3> QED BY <3>1, <3>2, <3>3, Zenon
    <2>3. task[n].pc \in {"write", "release"} => Pending(task[n].pre, task[n].rec)
      BY TaskFacts, Zenon DEF TaskOK
    <2>4. awarded' = awarded \/ \E e \in 0 .. MaxEpoch, m \in Node : Abstract!Award(e, m)
      BY <2>2, <2>3, PutAwards, Zenon
    <2> QED BY <2>1, <2>4, Zenon DEF Abstract!Next, Abstract!Serve
  <1>3. ASSUME NEW w \in late, Land(w) PROVE Abstract!Next \/ UNCHANGED <<awarded, hosted>>
    <2>1. hosted' = hosted /\ Put(w.pre, w.rec) /\ Pending(w.pre, w.rec)
      BY <1>3, Zenon DEF Land, IInv, WritesPending
    <2> QED BY <2>1, PutAwards, Zenon DEF Abstract!Next, Abstract!Serve
  <1>4. CASE Advance \/ UNCHANGED vars
    BY <1>4, Zenon DEF Advance, vars
  <1> QED BY <1>1, <1>2, <1>3, <1>4, Zenon DEF Next

\* Every behaviour of the anchor is one of the abstract epoch allocation: an epoch
\* is awarded once, and served only by the node it was awarded to (the conditional
\* write of run_anchor, renewals, releases and late writes included).
THEOREM AnchorAwardsEpochs == Spec => AwardsEpochs
  <1>1. Init => Abstract!Init
    BY Zenon DEF Init, Abstract!Init
  <1> QED BY <1>1, Invariant, StepAwards, PTL DEF Spec, AwardsEpochs, Abstract!Spec

-----------------------------------------------------------------------------
\* Leases

\* The operator's promise behind steal_margin: no two clocks are further apart.
ClocksAgree == \A s \in Setups : \A m, n \in Node : s.skew[m] <= s.skew[n] + s.margin

\* The lease of n for epoch e until u ran out, was released, or is what the
\* record says.
Covered(n, e, u) ==
    \/ u <= now
    \/ HasReleased(n, e)
    \/ reg.rec.host = n /\ reg.rec.epoch >= e /\ reg.rec.expires >= u + setup.skew[n]

\* A write that would apply now does not cut a lease short.
Yields(pre, rec) ==
    pre = reg.version /\ reg.version # 0 =>
        \/ /\ rec.host = reg.rec.host
           /\ rec.epoch >= reg.rec.epoch /\ rec.expires >= reg.rec.expires
        \/ reg.rec.expires <= Wall(reg.rec.host)
        \/ HasReleased(reg.rec.host, reg.rec.epoch)

\* The stages at which a task goes by the clocks it read when the round began.
Busy == {"load", "write", "resolve"}

Timed(n, t) ==
    /\ t.pc \in Busy => t.t0 <= now /\ t.w0 = t.t0 + setup.skew[n]
    /\ t.pc \in {"write", "resolve"} => t.rec.expires = t.w0 + setup.lease
    /\ t.pc = "release" => t.rec.expires <= Wall(n) + setup.lease
    /\ t.pc \in {"write", "release"} => Yields(t.pre, t.rec)

\* A record of n was written with a clock n read no later than its task t did.
Aged(n, t, rec) ==
    rec.host = n =>
        /\ rec.expires <= Wall(n) + setup.lease
        /\ t.pc \in Busy => rec.expires <= t.w0 + setup.lease

RecordsAged ==
    \A n \in Node : Aged(n, task[n], reg.rec) /\ \A w \in late : Aged(n, task[n], w.rec)

WritesYield ==
    /\ \A n \in Node : Timed(n, task[n])
    /\ \A w \in late : Yields(w.pre, w.rec)

HostsCovered == \A n \in Node : eng[n].role = "Host" => Covered(n, eng[n].epoch, eng[n].lease_until)

ReportCovered(n, cmd) == cmd.kind = "Activated" => Covered(n, cmd.epoch, cmd.until)

ReportsCovered == \A n \in Node : \A i \in DOMAIN inbox[n] : ReportCovered(n, inbox[n][i])

LInv == RecordsAged /\ WritesYield /\ HostsCovered /\ ReportsCovered

-----------------------------------------------------------------------------
(* Clocks and records.                                                     *)

LEMMA ClockFacts ==
    ASSUME IInv, NEW n \in Node
    PROVE  /\ now \in Nat /\ setup.skew[n] \in Nat /\ setup.lease \in Nat /\ setup.margin \in Nat
           /\ Wall(n) = now + setup.skew[n]
           /\ reg.version \in Nat /\ reg.rec.epoch \in Nat /\ reg.rec.expires \in Nat
  BY SetupType, Zenon DEF IInv, TypeOK, Wall, Records

LEMMA RecordHost ==
    ASSUME IInv, reg.version # 0 PROVE reg.rec.host \in Node
  BY Zenon DEF IInv, TypeOK, RecordAwarded

\* A release covers the earlier epochs too, and stays.
LEMMA ReleasedKeeps ==
    ASSUME IInv, NEW n \in Node, NEW e \in Nat, HasReleased(n, e), given \subseteq given'
    PROVE  HasReleased(n, e)' /\ \A d \in Nat : d <= e => HasReleased(n, d)'
  BY DEF HasReleased, IInv, TypeOK

\* What one write to the store leaves true: no lease is cut short, and no other
\* write of the old version can apply any more.
LEMMA PutYields ==
    ASSUME IInv, NEW pre \in Nat, NEW rec \in Records, Pending(pre, rec), Yields(pre, rec),
           Put(pre, rec) \/ UNCHANGED reg, UNCHANGED <<setup, now>>, given \subseteq given'
    PROVE  /\ \A n \in Node, e, u \in Nat : Covered(n, e, u) => Covered(n, e, u)'
           /\ \A p \in Nat, r \in Records : p <= reg.version /\ Yields(p, r) => Yields(p, r)'
  <1>0. now \in Nat /\ reg.version \in Nat /\ reg.rec.epoch \in Nat /\ reg.rec.expires \in Nat
    BY Zenon DEF IInv, TypeOK, Records
  <1>1. CASE reg' = reg
    <2>1. ASSUME NEW n \in Node, NEW e \in Nat, NEW u \in Nat, Covered(n, e, u) PROVE Covered(n, e, u)'
      BY <1>1, <2>1, ReleasedKeeps, Zenon DEF Covered
    <2>2. ASSUME NEW p \in Nat, NEW r \in Records, Yields(p, r) PROVE Yields(p, r)'
      <3>1. CASE p = reg.version /\ reg.version # 0
        <4>1. reg.rec.host \in Node
          BY <3>1, RecordHost, Zenon
        <4>2. HasReleased(reg.rec.host, reg.rec.epoch) => HasReleased(reg.rec.host, reg.rec.epoch)'
          BY <1>0, <1>1, <4>1, Zenon DEF HasReleased
        <4> QED BY <1>1, <2>2, <3>1, <4>2, Zenon DEF Yields, Wall
      <3>2. CASE ~(p = reg.version /\ reg.version # 0)
        BY <1>1, <3>2, Zenon DEF Yields
      <3> QED BY <3>1, <3>2, Zenon
    <2> QED BY <2>1, <2>2, Zenon
  <1>2. CASE reg' # reg
    <2>1. reg.version = pre /\ reg' = [version |-> reg.version + 1, rec |-> rec]
      BY <1>2, Zenon DEF Put
    <2>2. reg'.version = reg.version + 1 /\ reg'.rec = rec /\ rec.epoch \in Nat /\ rec.expires \in Nat
      BY <2>1, Zenon DEF Records
    <2>3. ASSUME NEW n \in Node, NEW e \in Nat, NEW u \in Nat, Covered(n, e, u) PROVE Covered(n, e, u)'
      <3>1. CASE u <= now
        BY <3>1, Zenon DEF Covered
      <3>2. CASE HasReleased(n, e)
        BY <3>2, ReleasedKeeps, Zenon DEF Covered
      <3>3. CASE reg.rec.host = n /\ reg.rec.epoch >= e /\ reg.rec.expires >= u + setup.skew[n]
        <4>0. reg.version # 0
          BY <3>3, NoneOutside DEF IInv, RecordAwarded, NoRecord, Record
        <4>1. setup.skew[n] \in Nat /\ Wall(n) = now + setup.skew[n]
          BY ClockFacts, Zenon
        <4>2. CASE rec.host = n /\ rec.epoch >= reg.rec.epoch /\ rec.expires >= reg.rec.expires
          BY <1>0, <2>2, <3>3, <4>1, <4>2 DEF Covered
        <4>3. CASE reg.rec.expires <= Wall(n)
          BY <1>0, <3>3, <4>1, <4>3 DEF Covered
        <4>4. CASE HasReleased(n, reg.rec.epoch)
          BY <1>0, <3>3, <4>4, ReleasedKeeps, Zenon DEF Covered
        <4> QED BY <2>1, <3>3, <4>0, <4>2, <4>3, <4>4, Zenon DEF Yields
      <3> QED BY <2>3, <3>1, <3>2, <3>3, Zenon DEF Covered
    <2>4. ASSUME NEW p \in Nat, NEW r \in Records, p <= reg.version PROVE Yields(p, r)'
      BY <1>0, <2>2, <2>4 DEF Yields
    <2> QED BY <2>3, <2>4, Zenon
  <1> QED BY <1>1, <1>2, Zenon

-----------------------------------------------------------------------------
(* A turn of the actor.                                                    *)

LEMMA TurnCovers ==
    ASSUME IInv, LInv, NEW n \in Node, NEW t \in EngineState, NEW p, NEW F, Turn(n, t, p, F),
           t.role = "Host" => Covered(n, t.epoch, t.lease_until),
           \A m \in Node : \A i \in DOMAIN inbox'[m] :
                \E j \in DOMAIN inbox[m] : inbox'[m][i] = inbox[m][j]
    PROVE  LInv'
  <1>1. /\ eng' = [eng EXCEPT ![n] = t]
        /\ setup' = setup /\ now' = now /\ task' = task /\ reg' = reg /\ late' = late
        /\ given' = given
    BY Zenon DEF Turn
  <1>2. RecordsAged' /\ WritesYield'
    BY <1>1, Zenon DEF LInv, RecordsAged, Aged, WritesYield, Timed, Yields, HasReleased, Wall
  <1>3. \A m \in Node : \A e, u : Covered(m, e, u) <=> Covered(m, e, u)'
    BY <1>1, Zenon DEF Covered, HasReleased
  <1>4. HostsCovered'
    <2>1. ASSUME NEW m \in Node, eng'[m].role = "Host"
          PROVE  Covered(m, eng'[m].epoch, eng'[m].lease_until)
      <3>1. CASE m = n
        BY <1>1, <2>1, <3>1, Zenon DEF IInv, TypeOK
      <3>2. CASE m # n
        BY <1>1, <2>1, <3>2, Zenon DEF LInv, HostsCovered, IInv, TypeOK
      <3> QED BY <3>1, <3>2, Zenon
    <2> QED BY <1>1, <2>1 DEF HostsCovered, Covered, HasReleased
  <1>5. ReportsCovered'
    <2>1. ASSUME NEW m \in Node, NEW i \in DOMAIN inbox'[m] PROVE ReportCovered(m, inbox'[m][i])
      BY <2>1, Zenon DEF LInv, ReportsCovered
    <2> QED BY <1>1, <2>1, Zenon DEF ReportsCovered, ReportCovered, Covered, HasReleased
  <1> QED BY <1>2, <1>4, <1>5, Zenon DEF LInv

LEMMA HeardLease ==
    ASSUME NEW n \in Node, NEW s \in EngineState, NEW e \in Nat, NEW h \in Node \cup {None},
           Heard(n, s, e, h).role = "Host"
    PROVE  /\ s.role = "Host" /\ Heard(n, s, e, h).epoch = s.epoch
           /\ Heard(n, s, e, h).lease_until = s.lease_until
  <1>1. \A g \in Node \cup {None} : Adopt(s, e, g).role = "Follower"
    BY Zenon DEF Adopt, EngineState
  <1>2. LearnSelfNamed(s, e).role = "Host" => LearnSelfNamed(s, e).lease_until = s.lease_until
    BY <1>1, Zenon DEF LearnSelfNamed, EngineState
  <1>3. Heard(n, s, e, h) \in {s, LearnSelfNamed(s, e), Adopt(s, e, h)}
    BY Zenon DEF Heard
  <1> QED BY <1>1, <1>2, <1>3, HeardType, Zenon

\* on_anchor_activated: the lease is the one held or the one reported.
LEMMA ActivatedLease ==
    ASSUME NEW n \in Node, NEW s \in EngineState, NEW e \in Nat, NEW u \in Nat,
           Activated(n, s, e, u).role = "Host"
    PROVE  \/ /\ s.role = "Host" /\ Activated(n, s, e, u).epoch = s.epoch
              /\ Activated(n, s, e, u).lease_until = s.lease_until
           \/ Activated(n, s, e, u).epoch = e /\ Activated(n, s, e, u).lease_until = u
  <1>1. Activate(n, s, e, u).epoch = e /\ Activate(n, s, e, u).lease_until = u
    BY Zenon DEF Activate, EngineState
  <1> DEFINE r == [s EXCEPT !.lease_until = Larger(@, u)]
  <1>2. /\ r.role = s.role /\ r.epoch = s.epoch
        /\ r.lease_until = s.lease_until \/ r.lease_until = u
    BY Zenon DEF EngineState, Larger
  <1>3. \/ Activated(n, s, e, u) = s \/ Activated(n, s, e, u) = Activate(n, s, e, u)
        \/ Activated(n, s, e, u) = r /\ s.epoch = e
    BY DEF Activated
  <1> HIDE DEF r
  <1> QED BY <1>1, <1>2, <1>3, Zenon

LEMMA ActorCovers ==
    ASSUME IInv, LInv, NEW n \in Node, Actor(n)
    PROVE  LInv'
  <1> DEFINE s == eng[n]
  <1>0. /\ s \in EngineState
        /\ s.role = "Host" => Covered(n, s.epoch, s.lease_until)
        /\ s.epoch \in Nat /\ s.host \in Node \cup {None}
    BY Zenon DEF IInv, TypeOK, LInv, HostsCovered, EngineState
  <1>a. inbox' = inbox =>
            \A m \in Node : \A i \in DOMAIN inbox'[m] :
                \E j \in DOMAIN inbox[m] : inbox'[m][i] = inbox[m][j]
    BY Zenon
  <1>1. CASE ClaimPrompt(n)
    BY <1>0, <1>1, <1>a, TurnCovers, Zenon DEF ClaimPrompt
  <1>2. CASE RenewPrompt(n)
    BY <1>0, <1>2, <1>a, TurnCovers, Zenon DEF RenewPrompt
  <1>3. CASE Lapse(n)
    BY <1>0, <1>3, <1>a, TurnCovers, DemoteType, Zenon DEF Lapse
  <1>4. CASE Report(n)
    <2> DEFINE cmd == Head(inbox[n])
               t == IF cmd.kind = "Activated" THEN Activated(n, s, cmd.epoch, cmd.until)
                    ELSE Heard(n, s, cmd.epoch, cmd.host)
    <2>1. inbox[n] \in Seq(Reports) /\ inbox[n] # <<>>
      BY <1>4, Zenon DEF Report, IInv, TypeOK
    <2>2. cmd \in Reports /\ cmd = inbox[n][1] /\ 1 \in DOMAIN inbox[n]
      BY <2>1
    <2>3. cmd.epoch \in Nat /\ cmd.until \in Nat /\ cmd.host \in Node \cup {None}
      BY <2>2, Zenon DEF Reports
    <2>4. cmd.kind = "Activated" => Covered(n, cmd.epoch, cmd.until)
      BY <2>2, Zenon DEF LInv, ReportsCovered, ReportCovered
    <2> HIDE DEF cmd, s
    <2>5. t \in EngineState /\ (t.role = "Host" => Covered(n, t.epoch, t.lease_until))
      <3>1. CASE cmd.kind = "Activated"
        <4>1. t = Activated(n, s, cmd.epoch, cmd.until)
          BY <3>1, Zenon
        <4> HIDE DEF t
        <4>2. t \in EngineState
          BY <1>0, <2>3, <4>1, ActivatedType, Zenon
        <4>3. ASSUME t.role = "Host"
              PROVE  \/ s.role = "Host" /\ t.epoch = s.epoch /\ t.lease_until = s.lease_until
                     \/ t.epoch = cmd.epoch /\ t.lease_until = cmd.until
          BY <1>0, <2>3, <4>1, <4>3, ActivatedLease
        <4> QED BY <1>0, <2>4, <3>1, <4>2, <4>3, Zenon
      <3>2. CASE cmd.kind # "Activated"
        <4>1. t = Heard(n, s, cmd.epoch, cmd.host)
          BY <3>2, Zenon
        <4> HIDE DEF t
        <4>2. t \in EngineState
          BY <1>0, <2>3, <4>1, HeardType, Zenon
        <4>3. ASSUME t.role = "Host"
              PROVE  s.role = "Host" /\ t.epoch = s.epoch /\ t.lease_until = s.lease_until
          BY <1>0, <2>3, <4>1, <4>3, HeardLease, Zenon
        <4> QED BY <1>0, <4>2, <4>3, Zenon
      <3> QED BY <3>1, <3>2, Zenon
    <2>6. inbox' = [inbox EXCEPT ![n] = Tail(@)] /\ Turn(n, t, 0, {})
      BY <1>4, Zenon DEF Report, cmd, s
    <2>7. ASSUME NEW m \in Node, NEW i \in DOMAIN inbox'[m]
          PROVE  \E j \in DOMAIN inbox[m] : inbox'[m][i] = inbox[m][j]
      <3>1. CASE m # n
        BY <2>6, <3>1, Zenon DEF IInv, TypeOK
      <3>2. CASE m = n
        <4>1. inbox'[n] = Tail(inbox[n])
          BY <2>6, Zenon DEF IInv, TypeOK
        <4>2. i + 1 \in DOMAIN inbox[n] /\ inbox'[n][i] = inbox[n][i + 1]
          BY <2>1, <2>7, <3>2, <4>1
        <4> QED BY <3>2, <4>2, Zenon
      <3> QED BY <3>1, <3>2, Zenon
    <2> HIDE DEF t
    <2> QED BY <2>5, <2>6, <2>7, TurnCovers, Zenon
  <1>5. CASE Leave(n)
    <2> DEFINE d == IF s.role = "Host" THEN Demote(s) ELSE s
               t == [d EXCEPT !.leaving = TRUE]
    <2>1. d \in EngineState /\ d.role # "Host"
      BY <1>0, DemoteType, Zenon DEF EngineState
    <2> HIDE DEF d
    <2>2. t \in EngineState /\ t.role # "Host"
      BY <2>1, Zenon DEF EngineState
    <2>3. Turn(n, t, 0, {}) /\ UNCHANGED inbox
      BY <1>5, Zenon DEF Leave, d
    <2> HIDE DEF t
    <2> QED BY <1>a, <2>2, <2>3, TurnCovers, Zenon
  <1>6. ASSUME NEW p \in said, RecvState(n, p) PROVE LInv'
    <2> DEFINE t == Heard(n, s, p[1], p[2])
               F == IF Outranks(<<s.epoch, s.host>>, p) THEN {<<s.epoch, s.host>>} ELSE {}
    <2>1. p[1] \in Nat /\ p[2] \in Node \cup {None}
      BY Zenon DEF IInv, TypeOK
    <2>2. t \in EngineState /\ (t.role = "Host" => Covered(n, t.epoch, t.lease_until))
      <3> HIDE DEF s
      <3>1. t \in EngineState  BY <1>0, <2>1, HeardType, Zenon
      <3>2. t.role = "Host" => Covered(n, t.epoch, t.lease_until)
        BY <1>0, <2>1, HeardLease, Zenon
      <3> QED BY <3>1, <3>2, Zenon
    <2>3. Turn(n, t, 0, F) /\ UNCHANGED inbox
      BY <1>6, Zenon DEF RecvState
    <2> HIDE DEF t, F
    <2> QED BY <1>a, <2>2, <2>3, TurnCovers, Zenon
  <1> QED BY <1>1, <1>2, <1>3, <1>4, <1>5, <1>6, Zenon DEF Actor
-----------------------------------------------------------------------------
(* The anchor task.                                                        *)

\* A report is queued or refused.
LEMMA FeedCovers ==
    ASSUME IInv, LInv, NEW n \in Node, NEW cmd \in Reports, Feed(n, cmd),
           \A m \in Node, e, u \in Nat : Covered(m, e, u) => Covered(m, e, u)',
           ReportCovered(n, cmd)'
    PROVE  ReportsCovered'
  <1>1. ASSUME NEW m \in Node, NEW i \in DOMAIN inbox[m], NEW c \in Reports, c = inbox[m][i]
        PROVE  ReportCovered(m, c)'
    <2>1. ReportCovered(m, c) /\ c.epoch \in Nat /\ c.until \in Nat
      BY <1>1, Zenon DEF LInv, ReportsCovered, Reports
    <2> QED BY <2>1, Zenon DEF ReportCovered
  <1>2. ASSUME NEW m \in Node, NEW i \in DOMAIN inbox'[m]
        PROVE  \E c \in Reports : c = inbox'[m][i] /\ ReportCovered(m, c)'
    <2>1. inbox[m] \in Seq(Reports) /\ \A j \in DOMAIN inbox[m] : inbox[m][j] \in Reports
      BY DEF IInv, TypeOK
    <2>2. CASE inbox'[m] = inbox[m]
      BY <1>1, <1>2, <2>1, <2>2, Zenon
    <2>3. CASE m = n /\ inbox'[m] = Append(inbox[m], cmd)
      <3>1. i \in 1 .. Len(inbox[m]) + 1
        BY <1>2, <2>1, <2>3
      <3>2. CASE i = Len(inbox[m]) + 1
        BY <2>1, <2>3, <3>2, SMTT(40)
      <3>3. CASE i \in 1 .. Len(inbox[m])
        <4>1. inbox'[m][i] = inbox[m][i] /\ i \in DOMAIN inbox[m]
          BY <2>1, <2>3, <3>3
        <4> QED BY <1>1, <2>1, <4>1, Zenon
      <3> QED BY <2>1, <3>1, <3>2, <3>3
    <2> QED BY <2>2, <2>3, Zenon DEF Feed, IInv, TypeOK
  <1>3. ASSUME NEW m \in Node, NEW i \in DOMAIN inbox'[m]
        PROVE  (ReportCovered(m, inbox[m][i]))'
    <2>1. PICK c \in Reports : c = inbox'[m][i] /\ ReportCovered(m, c)'
      BY <1>2, Zenon
    <2> QED BY <2>1, Zenon DEF ReportCovered, Covered, HasReleased
  <1> QED BY <1>3, Zenon DEF ReportsCovered

LEMMA InboxCovers ==
    ASSUME IInv, LInv, UNCHANGED inbox,
           \A m \in Node, e, u \in Nat : Covered(m, e, u) => Covered(m, e, u)'
    PROVE  ReportsCovered'
  <1>1. ASSUME NEW m \in Node, NEW i \in DOMAIN inbox'[m]
        PROVE  (ReportCovered(m, inbox[m][i]))'
    <2>1. PICK c \in Reports : c = inbox[m][i] /\ ReportCovered(m, c)
      BY DEF IInv, TypeOK, LInv, ReportsCovered
    <2>2. c.epoch \in Nat /\ c.until \in Nat
      BY Zenon DEF Reports
    <2>3. ReportCovered(m, c)'
      BY <2>1, <2>2, Zenon DEF ReportCovered
    <2> QED BY <2>1, <2>3, Zenon DEF ReportCovered, Covered, HasReleased
  <1> QED BY <1>1, Zenon DEF ReportsCovered

LEMMA ObserveCovers ==
    ASSUME IInv, LInv, NEW n \in Node, Observe(n) \/ UNCHANGED inbox,
           \A m \in Node, e, u \in Nat : Covered(m, e, u) => Covered(m, e, u)'
    PROVE  ReportsCovered'
  <1>1. CASE inbox' = inbox
    BY <1>1, InboxCovers, Zenon
  <1>2. CASE inbox' # inbox
    <2>1. reg.version # 0 /\ Feed(n, Observation(reg.rec))
      BY <1>2, Zenon DEF Observe
    <2>2. reg.rec.host \in Node /\ reg.rec.epoch \in Nat
      BY <2>1, RecordHost, Zenon DEF IInv, TypeOK, Records
    <2>3. Observation(reg.rec) \in Reports /\ Observation(reg.rec).kind # "Activated"
      BY <2>2, Zenon DEF Observation, Reports
    <2>4. PICK cmd \in Reports : cmd = Observation(reg.rec)
      BY <2>3, Zenon
    <2>5. Feed(n, cmd) /\ ReportCovered(n, cmd)'
      BY <2>1, <2>3, <2>4, Zenon DEF ReportCovered
    <2> QED BY <2>5, FeedCovers, Zenon
  <1> QED BY <1>1, <1>2, Zenon

\* What a step of n's task must show.  rec is the write it made, if any.
LEMMA TaskCovers ==
    ASSUME IInv, LInv, NEW n \in Node, NEW t \in TaskState, task' = [task EXCEPT ![n] = t],
           Timed(n, t)',
           t.pc \in Busy => t.w0 = Wall(n) \/ (task[n].pc \in Busy /\ t.w0 = task[n].w0),
           NEW pre \in Nat, NEW rec \in Records,
           reg'.rec = reg.rec \/ reg'.rec = rec,
           late' \subseteq late \cup {[pre |-> pre, rec |-> rec]},
           rec.host = n, Aged(n, t, rec), Yields(pre, rec)',
           \A m \in Node, e, u \in Nat : Covered(m, e, u) => Covered(m, e, u)',
           \A p \in Nat, r \in Records : p <= reg.version /\ Yields(p, r) => Yields(p, r)',
           \A m \in Node : eng'[m] = eng[m] \/ eng'[m].role # "Host",
           ReportsCovered',
           UNCHANGED <<setup, now>>
    PROVE  LInv'
  <1>1. ASSUME NEW m \in Node PROVE task'[m] = IF m = n THEN t ELSE task[m]
    BY Zenon DEF IInv, TypeOK
  <1>2. RecordsAged'
    <2>1. ASSUME NEW m \in Node, NEW r, Aged(m, task[m], r) PROVE Aged(m, task'[m], r)
      BY <1>1, <2>1, Zenon DEF Aged
    <2>2. ASSUME NEW m \in Node PROVE Aged(m, task'[m], rec)
      BY <1>1, Zenon DEF Aged
    <2>3. ASSUME NEW m \in Node PROVE Aged(m, task'[m], reg'.rec)
      BY <2>1, <2>2, Zenon DEF LInv, RecordsAged
    <2>4. ASSUME NEW m \in Node, NEW w \in late' PROVE Aged(m, task'[m], w.rec)
      <3>1. CASE w \in late
        BY <2>1, <3>1, Zenon DEF LInv, RecordsAged
      <3>2. CASE w = [pre |-> pre, rec |-> rec]
        BY <2>2, <3>2, Zenon
      <3> QED BY <2>4, <3>1, <3>2, Zenon
    <2> QED BY <2>3, <2>4, Zenon DEF RecordsAged, Aged, Wall
  <1>3. WritesYield'
    <2>1. ASSUME NEW m \in Node PROVE Timed(m, task[m])'
      <3>1. CASE m = n
        <4>1. task'[m] = t
          BY <1>1, <3>1, Zenon
        <4> QED BY <3>1, <4>1, Zenon DEF Timed, Yields, HasReleased, Wall
      <3>2. CASE m # n
        <4>1. PICK x \in TaskState : x = task[m]
          BY Zenon DEF IInv, TypeOK
        <4>2. task'[m] = x /\ Timed(m, x) /\ TaskOK(m, x)
          BY <1>1, <3>2, <4>1, Zenon DEF LInv, WritesYield, IInv, WritesPending
        <4>3. x.pc \in {"write", "release"} => x.pre <= reg.version
          BY <4>2, Zenon DEF TaskOK, Pending
        <4>4. x.pre \in Nat /\ x.rec \in Records
          BY Zenon DEF TaskState
        <4>5. x.pc \in {"write", "release"} => Yields(x.pre, x.rec)'
          BY <4>2, <4>3, <4>4, Zenon DEF Timed
        <4>6. Timed(m, x)'
          BY <4>2, <4>5, Zenon DEF Timed, Wall
        <4> QED BY <4>2, <4>6, Zenon DEF Timed, Yields, HasReleased, Wall
      <3> QED BY <3>1, <3>2, Zenon
    <2>2. ASSUME NEW w \in late' PROVE Yields(w.pre, w.rec)'
      <3>1. CASE w \in late
        <4>1. w.pre \in Nat /\ w.rec \in Records /\ w.pre <= reg.version /\ Yields(w.pre, w.rec)
          BY <3>1, Zenon DEF IInv, TypeOK, WritesPending, Pending, LInv, WritesYield
        <4> QED BY <4>1, Zenon
      <3>2. CASE w = [pre |-> pre, rec |-> rec]
        BY <3>2, Zenon
      <3> QED BY <2>2, <3>1, <3>2, Zenon
    <2> QED BY <2>1, <2>2, Zenon DEF WritesYield
  <1>4. HostsCovered'
    <2>1. ASSUME NEW m \in Node, eng'[m].role = "Host"
          PROVE  (Covered(m, eng[m].epoch, eng[m].lease_until))'
      <3>1. PICK s \in EngineState : s = eng[m]
        BY Zenon DEF IInv, TypeOK
      <3>2. eng'[m] = s /\ s.epoch \in Nat /\ s.lease_until \in Nat
        BY <2>1, <3>1, Zenon DEF EngineState
      <3>3. Covered(m, s.epoch, s.lease_until)
        BY <2>1, <3>1, <3>2, Zenon DEF LInv, HostsCovered
      <3>4. Covered(m, s.epoch, s.lease_until)'
        BY <3>2, <3>3, Zenon
      <3> QED BY <3>2, <3>4, Zenon DEF Covered, HasReleased
    <2> QED BY <2>1, Zenon DEF HostsCovered
  <1> QED BY <1>2, <1>3, <1>4, Zenon DEF LInv
\* A step of n's task that leaves the store alone.
LEMMA QuietCovers ==
    ASSUME IInv, LInv, NEW n \in Node, NEW t \in TaskState, task' = [task EXCEPT ![n] = t],
           Timed(n, t)',
           t.pc \in Busy => t.w0 = Wall(n) \/ (task[n].pc \in Busy /\ t.w0 = task[n].w0),
           Observe(n) \/ UNCHANGED inbox,
           given \subseteq given', UNCHANGED <<setup, now, eng, reg, late>>
    PROVE  LInv'
  <1> DEFINE rec == [epoch |-> 0, host |-> n, expires |-> 0]
             pre == reg.version + 1
  <1>1. reg.version \in Nat /\ setup.lease \in Nat /\ Wall(n) \in Nat /\ t.w0 \in Nat
    BY ClockFacts, WallType, Zenon DEF IInv, TypeOK, TaskState
  <1>2. rec \in Records /\ rec.host = n /\ pre \in Nat /\ pre # reg.version
    BY <1>1 DEF Records
  <1>3. Aged(n, t, rec)
    BY <1>1 DEF Aged
  <1>5. ASSUME NEW m \in Node, NEW e \in Nat, NEW u \in Nat, Covered(m, e, u) PROVE Covered(m, e, u)'
    BY <1>5, Zenon DEF Covered, HasReleased
  <1>6. ASSUME NEW p \in Nat, NEW r \in Records, Yields(p, r) PROVE Yields(p, r)'
    BY <1>6, Zenon DEF Yields, HasReleased, Wall
  <1>7. ReportsCovered'
    BY <1>5, ObserveCovers, Zenon
  <1> HIDE DEF rec, pre
  <1>8. PICK q \in Nat, r \in Records : q = pre /\ r = rec
    BY <1>2, Zenon
  <1>9. r.host = n /\ Aged(n, t, r) /\ Yields(q, r)'
    BY <1>2, <1>3, <1>8, Zenon DEF Yields
  <1> QED BY <1>5, <1>6, <1>7, <1>9, TaskCovers, Zenon

\* What is known of a task before it moves.
LEMMA TimedFacts ==
    ASSUME IInv, LInv, NEW n \in Node
    PROVE  /\ Timed(n, task[n]) /\ Aged(n, task[n], reg.rec)
           /\ \A w \in late : Aged(n, task[n], w.rec)
           /\ now \in Nat /\ setup.skew[n] \in Nat /\ setup.lease \in Nat /\ setup.margin \in Nat
           /\ Wall(n) = now + setup.skew[n] /\ Wall(n) \in Nat
  BY ClockFacts, WallType DEF LInv, WritesYield, RecordsAged

\* A task back in its select waits for nothing.
LEMMA IdleTimed ==
    ASSUME NEW n \in Node, NEW t \in TaskState, t.pc \notin Busy \cup {"release"}
    PROVE  Timed(n, t)' /\ Timed(n, t)
  BY Zenon DEF Timed, Busy

\* A task that ends its round, whatever it learned.
LEMMA DoneCovers ==
    ASSUME IInv, LInv, NEW n \in Node, NEW v \in TaskState, task' = [task EXCEPT ![n] = Done(v)],
           Observe(n) \/ UNCHANGED inbox, UNCHANGED <<setup, now, eng, reg, late, given>>
    PROVE  LInv'
  <1>1. PICK u \in TaskState : u = Done(v)
    BY DoneType, Zenon
  <1>2. u.pc = "idle"
    BY <1>1, DoneType, Zenon
  <1>3. Timed(n, u)' /\ u.pc \notin Busy
    BY <1>2, IdleTimed, Zenon DEF Busy
  <1> QED BY <1>1, <1>3, QuietCovers, Zenon

\* round: the clocks are read; a renewal extends the record it holds.
LEMMA RoundCovers ==
    ASSUME IInv, LInv, NEW n \in Node, Round(n)
    PROVE  LInv'
  <1> DEFINE t == task[n]
             begun == [t EXCEPT !.t0 = now, !.w0 = Wall(n), !.hint = slot[n]]
  <1>1. UNCHANGED <<setup, now, eng, inbox, changed, reg, late, said, awarded, given, hosted>>
    BY Zenon DEF Round
  <1>2. t \in TaskState /\ TaskOK(n, t) /\ task \in [Node -> TaskState] /\ Timed(n, t)
    BY TaskFacts, TimedFacts, Zenon
  <1>3. /\ begun \in TaskState /\ begun.held = t.held /\ begun.pc = t.pc
        /\ begun.t0 = now /\ begun.w0 = Wall(n)
    BY TaskFacts, ZenonT(30) DEF TaskState
  <1>4. t.pc = "idle"
    BY Zenon DEF Round, At
  <1>6. CASE task' = [task EXCEPT ![n] = [begun EXCEPT !.pc = "load", !.held = NoHeld, !.retry_at = 0]]
    <2> DEFINE v == [begun EXCEPT !.pc = "load", !.held = NoHeld, !.retry_at = 0]
    <2> HIDE DEF begun
    <2>1. v \in TaskState /\ v.pc = "load" /\ v.t0 = now /\ v.w0 = Wall(n)
      BY <1>3, FreshType, Zenon DEF TaskState, Holds
    <2> HIDE DEF v
    <2>2. PICK u \in TaskState : u = v
      BY <2>1, Zenon
    <2>3. Timed(n, u)'
      BY <1>1, <2>1, <2>2, TimedFacts DEF Timed, Busy, Wall
    <2>4. task' = [task EXCEPT ![n] = u]
      BY <1>6, <2>2, Zenon DEF v, begun
    <2> QED BY <1>1, <2>1, <2>2, <2>3, <2>4, QuietCovers, Zenon
  <1>7. CASE task' = [task EXCEPT ![n].held = NoHeld]
    <2> DEFINE v == [t EXCEPT !.held = NoHeld]
    <2>1. v \in TaskState /\ v.pc = "idle"
      BY <1>2, <1>4, FreshType, Zenon DEF TaskState, Holds
    <2>2. task' = [task EXCEPT ![n] = v]
      BY <1>7, Zenon
    <2> HIDE DEF v
    <2>3. PICK u \in TaskState : u = v
      BY <2>1, Zenon
    <2>4. Timed(n, u)' /\ u.pc \notin Busy
      BY <2>1, <2>3, IdleTimed, Zenon DEF Busy
    <2> QED BY <1>1, <2>2, <2>3, <2>4, QuietCovers, Zenon
  <1>8. CASE /\ Renews(n)
             /\ task' = [task EXCEPT ![n] =
                    [begun EXCEPT !.pc = "write", !.renewing = TRUE, !.pre = t.held.token,
                                  !.rec = Record(t.held.epoch, n, Wall(n) + setup.lease)]]
    <2> DEFINE r == Record(t.held.epoch, n, Wall(n) + setup.lease)
               v == [begun EXCEPT !.pc = "write", !.renewing = TRUE, !.pre = t.held.token, !.rec = r]
    <2>1. t.held # NoHeld /\ t.held \in Holds
      BY <1>8, TaskFacts, Zenon DEF Renews
    <2>2. HoldOK(n, t.held)
      BY <1>2, <2>1, Zenon DEF TaskOK
    <2>3. /\ r \in Records /\ r.epoch = t.held.epoch /\ r.host = n /\ t.held.token \in Nat
          /\ r.expires = Wall(n) + setup.lease
      BY <2>1, TimedFacts DEF Record, Records, Holds
    <2> HIDE DEF begun, r
    <2>4. /\ v \in TaskState /\ v.pc = "write" /\ v.pre = t.held.token /\ v.rec = r
          /\ v.t0 = now /\ v.w0 = Wall(n)
      BY <1>3, <2>3, Zenon DEF TaskState
    <2> HIDE DEF v
    <2>5. Yields(t.held.token, r)
      <3>1. reg.rec.host = n => reg.rec.expires <= r.expires
        BY <2>3, TimedFacts, Zenon DEF Aged
      <3> QED BY <2>2, <2>3, <3>1, ClockFacts DEF Yields, HoldOK
    <2>6. PICK u \in TaskState : u = v
      BY <2>4, Zenon
    <2>7. Yields(u.pre, u.rec)
      BY <2>4, <2>5, <2>6, Zenon
    <2>8. Timed(n, u)'
      <3>1. Yields(u.pre, u.rec)'
        BY <1>1, <2>7, Zenon DEF Yields, HasReleased, Wall
      <3> QED BY <1>1, <2>3, <2>4, <2>6, <3>1, TimedFacts DEF Timed, Busy, Wall
    <2>9. task' = [task EXCEPT ![n] = u]
      BY <1>8, <2>6, Zenon DEF v, r, begun
    <2> QED BY <1>1, <2>4, <2>6, <2>8, <2>9, QuietCovers, Zenon
  <1>9. CASE task' = task
    <2>1. PICK u \in TaskState : u = t
      BY <1>2, Zenon
    <2>2. Timed(n, u)' /\ u.pc \notin Busy /\ task' = [task EXCEPT ![n] = u]
      BY <1>2, <1>4, <1>9, <2>1, IdleTimed, Zenon DEF Busy
    <2> QED BY <1>1, <2>2, QuietCovers, Zenon
  <1> QED BY <1>6, <1>7, <1>8, <1>9, Zenon DEF Round

\* claim: its own record, or one that ran out on its holder's clock.
LEMMA LoadCovers ==
    ASSUME ClocksAgree, IInv, LInv, NEW n \in Node, Load(n)
    PROVE  LInv'
  <1> DEFINE t == task[n]
             planned == Planned(n, t.hint, reg, t.w0)
  <1>1. UNCHANGED <<setup, now, eng, slot, changed, reg, late, said, awarded, given, hosted>>
    BY Zenon DEF Load
  <1>2. /\ t \in TaskState /\ TaskOK(n, t) /\ task \in [Node -> TaskState] /\ Timed(n, t)
        /\ t.pc = "load" /\ t.w0 \in Nat /\ t.t0 \in Nat
    BY TaskFacts, TimedFacts, Zenon DEF Load, At
  <1>3. CASE /\ reg.version = 0 \/ Entitled(n, reg.rec, t.w0)
             /\ task' = [task EXCEPT ![n].pc = "write", ![n].pre = reg.version, ![n].rec = planned]
             /\ UNCHANGED inbox
    <2> DEFINE v == [t EXCEPT !.pc = "write", !.pre = reg.version, !.rec = planned]
    <2>1. reg.rec.epoch \in Nat /\ t.hint \in Nat /\ reg.version \in Nat /\ t.w0 + setup.lease \in Nat
      BY TaskFacts, SetupType DEF Records
    <2>2. /\ planned.host = n /\ planned.expires = t.w0 + setup.lease /\ planned \in Records
          /\ reg.version # 0 => planned.epoch >= reg.rec.epoch
      <3> DEFINE e == IF reg.version = 0 THEN Larger(t.hint, 1) ELSE Larger(reg.rec.epoch + 1, t.hint)
      <3>1. e \in Nat /\ (reg.version # 0 => e >= reg.rec.epoch)
        BY <2>1 DEF Larger
      <3>2. planned = [epoch |-> e, host |-> n, expires |-> t.w0 + setup.lease]
        BY Zenon DEF Planned, Record
      <3> HIDE DEF e, planned
      <3> QED BY <2>1, <3>1, <3>2, Zenon DEF Records
    <2> HIDE DEF planned
    <2>3. t.t0 <= now /\ t.w0 = t.t0 + setup.skew[n]
      BY <1>2, Zenon DEF Timed, Busy
    <2>4. ASSUME reg.version # 0 PROVE Yields(reg.version, planned)
      <3>1. reg.rec.host \in Node
        BY <2>4, RecordHost, Zenon
      <3>2. CASE reg.rec.host = n
        <4>1. reg.rec.expires <= t.w0 + setup.lease
          BY <1>2, <3>2, TimedFacts, Zenon DEF Aged, Busy
        <4> QED BY <2>2, <2>4, <3>2, <4>1, Zenon DEF Yields
      <3>3. CASE Stealable(reg.rec, t.w0)
        <4>1. PICK m \in Node : m = reg.rec.host
          BY <3>1, Zenon
        <4>2. setup.skew[n] <= setup.skew[m] + setup.margin
          BY Zenon DEF ClocksAgree, IInv
        <4>3. t.w0 >= reg.rec.expires + setup.margin
          BY <3>3, Zenon DEF Stealable
        <4>4. reg.rec.expires <= Wall(m)
          BY <1>2, <2>3, <4>2, <4>3, ClockFacts
        <4> QED BY <4>1, <4>4, Zenon DEF Yields
      <3> QED BY <1>3, <2>4, <3>2, <3>3, Zenon DEF Entitled
    <2>5. Yields(reg.version, planned)
      BY <2>4, Zenon DEF Yields
    <2>6. /\ v \in TaskState /\ v.pc = "write" /\ v.pre = reg.version /\ v.rec = planned
          /\ v.t0 = t.t0 /\ v.w0 = t.w0
      BY <1>2, <2>1, <2>2, Zenon DEF TaskState
    <2>7. task' = [task EXCEPT ![n] = v]
      BY <1>2, <1>3, Zenon
    <2> HIDE DEF v
    <2>8. PICK u \in TaskState : u = v
      BY <2>6, Zenon
    <2>9. Timed(n, u)'
      <3>1. Yields(u.pre, u.rec)'
        BY <1>1, <2>5, <2>6, <2>8, Zenon DEF Yields, HasReleased, Wall
      <3> QED BY <1>1, <2>2, <2>3, <2>6, <2>8, <3>1, Zenon DEF Timed, Busy, Wall
    <2>10. task[n].pc \in Busy /\ u.w0 = task[n].w0
      BY <1>2, <2>6, <2>8, Zenon DEF Busy
    <2> QED BY <1>1, <1>3, <2>7, <2>8, <2>9, <2>10, QuietCovers, Zenon
  <1>4. ASSUME NEW v \in TaskState, task' = [task EXCEPT ![n] = Done(v)],
               Observe(n) \/ UNCHANGED inbox
        PROVE  LInv'
    BY <1>1, <1>4, DoneCovers, Zenon
  <1>5. [t EXCEPT !.retry_at = reg.rec.expires + setup.margin] \in TaskState
    BY <1>2, ClockFacts DEF TaskState
  <1> HIDE DEF planned
  <1> QED BY <1>2, <1>3, <1>4, <1>5, Zenon DEF Load, planned
\* A win: the lease and the record count from the same clock reading.
LEMMA WonCovers ==
    ASSUME IInv, LInv, NEW n \in Node, NEW t \in TaskState, NEW token \in Nat, Won(n, t, token),
           t.pc \in {"write", "resolve"}, Timed(n, t), t.rec.host = n, reg'.rec = t.rec,
           UNCHANGED <<setup, now>>,
           \A m \in Node, e, u \in Nat : Covered(m, e, u) => Covered(m, e, u)'
    PROVE  /\ ReportsCovered'
           /\ \E u \in TaskState : task' = [task EXCEPT ![n] = u] /\ u.pc = "idle"
  <1> DEFINE h == [epoch |-> t.rec.epoch, token |-> token, expires |-> t.rec.expires]
             v == [t EXCEPT !.held = h]
             c == [kind |-> "Activated", epoch |-> t.rec.epoch, host |-> n, until |-> t.t0 + setup.lease]
  <1>1. t.rec \in Records /\ t.t0 \in Nat /\ setup.lease \in Nat /\ setup.skew[n] \in Nat
    BY ClockFacts, Zenon DEF TaskState
  <1>2. c \in Reports
    BY <1>1 DEF Reports, Records
  <1>3. v \in TaskState
    BY <1>1, Zenon DEF TaskState, Records
  <1>4. Feed(n, c) /\ task' = [task EXCEPT ![n] = Done(v)]
    BY Zenon DEF Won
  <1>5. PICK cmd \in Reports : cmd = c
    BY <1>2, Zenon
  <1>6. t.rec.expires = cmd.until + setup.skew[n] /\ cmd.epoch = t.rec.epoch /\ cmd.epoch \in Nat
    <2>1. t.w0 = t.t0 + setup.skew[n] /\ t.rec.expires = t.w0 + setup.lease
      BY Zenon DEF Timed, Busy
    <2> QED BY <1>1, <1>5, <2>1 DEF Records
  <1>7. ReportCovered(n, cmd)'
    BY <1>1, <1>6 DEF ReportCovered, Covered, Records
  <1>8. ReportsCovered'
    BY <1>4, <1>5, <1>7, FeedCovers, Zenon
  <1> HIDE DEF v
  <1> QED BY <1>3, <1>4, <1>8, DoneType, Zenon

\* write: a win, a refusal, or no answer.
LEMMA WriteCovers ==
    ASSUME IInv, LInv, NEW n \in Node, Write(n)
    PROVE  LInv'
  <1>1. PICK t \in TaskState : t = task[n]
    BY TaskFacts, Zenon
  <1>2. /\ TaskOK(n, t) /\ task \in [Node -> TaskState] /\ t.pc = "write" /\ Timed(n, t)
        /\ t.pre \in Nat /\ t.rec \in Records /\ t.t0 \in Nat /\ t.w0 \in Nat
    BY <1>1, TaskFacts, TimedFacts, Zenon DEF Write, At
  <1>3. /\ Pending(t.pre, t.rec) /\ t.rec.host = n /\ Yields(t.pre, t.rec)
        /\ t.pre <= reg.version
        /\ t.t0 <= now /\ t.w0 = t.t0 + setup.skew[n] /\ t.rec.expires = t.w0 + setup.lease
    BY <1>2, Zenon DEF TaskOK, Timed, Busy, Pending
  <1>4. UNCHANGED <<setup, now, eng, slot, changed, said, given, hosted>>
    BY Zenon DEF Write
  <1>6. ASSUME Put(t.pre, t.rec) \/ UNCHANGED reg
        PROVE  /\ \A m \in Node, e, u \in Nat : Covered(m, e, u) => Covered(m, e, u)'
               /\ \A p \in Nat, r \in Records : p <= reg.version /\ Yields(p, r) => Yields(p, r)'
               /\ Yields(t.pre, t.rec)'
               /\ reg'.rec = reg.rec \/ reg'.rec = t.rec
    <2>1. /\ \A m \in Node, e, u \in Nat : Covered(m, e, u) => Covered(m, e, u)'
          /\ \A p \in Nat, r \in Records : p <= reg.version /\ Yields(p, r) => Yields(p, r)'
      BY <1>2, <1>3, <1>4, <1>6, PutYields, Zenon
    <2>2. reg'.rec = reg.rec \/ reg'.rec = t.rec
      BY <1>6 DEF Put
    <2> QED BY <1>2, <1>3, <2>1, <2>2, Zenon
  <1>7. CASE /\ reg.version = t.pre /\ Put(t.pre, t.rec) /\ Won(n, t, reg'.version)
             /\ UNCHANGED late
    <2>1. reg' = [version |-> reg.version + 1, rec |-> t.rec]
      BY <1>7, Zenon DEF Put
    <2>2. PICK token \in Nat : token = reg'.version
      BY <2>1, TaskFacts
    <2>3. Won(n, t, token) /\ reg'.rec = t.rec
      BY <1>7, <2>1, <2>2, Zenon
    <2>4. /\ ReportsCovered'
          /\ \E u \in TaskState : task' = [task EXCEPT ![n] = u] /\ u.pc = "idle"
      BY <1>2, <1>3, <1>4, <1>6, <1>7, <2>3, WonCovers, Zenon
    <2>5. PICK u \in TaskState : task' = [task EXCEPT ![n] = u] /\ u.pc = "idle"
      BY <2>4, Zenon
    <2>6. Timed(n, u)' /\ u.pc \notin Busy
      <3>1. u.pc \notin Busy \cup {"release"}
        BY <2>5, SMTT(30) DEF Busy
      <3> QED BY <2>5, <3>1, IdleTimed, ZenonT(30)
    <2>7. Aged(n, u, t.rec)
      BY <1>2, <1>3, <2>6, TimedFacts DEF Aged
    <2> QED BY <1>2, <1>3, <1>4, <1>6, <1>7, <2>4, <2>5, <2>6, <2>7, TaskCovers, Zenon
  <1>8. CASE /\ task' = [task EXCEPT ![n] =
                IF t.renewing THEN [t EXCEPT !.pc = "superseded", !.held = NoHeld] ELSE Done(t)]
             /\ UNCHANGED <<reg, awarded, late, inbox>>
    <2> DEFINE v == [t EXCEPT !.pc = "superseded", !.held = NoHeld]
    <2>1. CASE t.renewing
      <3>1. v \in TaskState /\ v.pc = "superseded"
        BY FreshType, Zenon DEF TaskState, Holds
      <3>2. task' = [task EXCEPT ![n] = v]
        BY <1>8, <2>1, Zenon
      <3> HIDE DEF v
      <3>3. PICK u \in TaskState : u = v
        BY <3>1, Zenon
      <3>4. Timed(n, u)' /\ u.pc \notin Busy
        BY <3>1, <3>3, IdleTimed, Zenon DEF Busy
      <3> QED BY <1>4, <1>8, <3>2, <3>3, <3>4, QuietCovers, Zenon
    <2>2. CASE ~t.renewing
      BY <1>4, <1>8, <2>2, DoneCovers, ZenonT(30)
    <2> QED BY <2>1, <2>2, Zenon
  <1>9. CASE /\ PutUnanswered(n, t.pre, t.rec)
             /\ task' = [task EXCEPT ![n].pc = "resolve"]
             /\ UNCHANGED inbox
    <2> DEFINE v == [t EXCEPT !.pc = "resolve"]
    <2>1. /\ Put(t.pre, t.rec) \/ UNCHANGED reg
          /\ late' \subseteq late \cup {[pre |-> t.pre, rec |-> t.rec]}
      BY <1>9, Zenon DEF PutUnanswered, Delayed
    <2>2. /\ v \in TaskState /\ v.pc = "resolve" /\ v.rec = t.rec
          /\ v.t0 = t.t0 /\ v.w0 = t.w0
      BY Zenon DEF TaskState
    <2>3. task' = [task EXCEPT ![n] = v]
      BY <1>1, <1>2, <1>9, Zenon
    <2> HIDE DEF v
    <2>4. PICK u \in TaskState : u = v
      BY <2>2, Zenon
    <2>5. Timed(n, u)'
      BY <1>3, <1>4, <2>2, <2>4, Zenon DEF Timed, Busy
    <2>6. task[n].pc \in Busy /\ u.w0 = task[n].w0
      BY <1>1, <1>2, <2>2, <2>4, Zenon DEF Busy
    <2>7. ReportsCovered'
      BY <1>6, <1>9, <2>1, InboxCovers, Zenon
    <2>8. Aged(n, u, t.rec)
      BY <1>2, <1>3, <2>2, <2>4, TimedFacts DEF Aged
    <2> QED BY <1>2, <1>3, <1>4, <1>6, <2>1, <2>3, <2>4, <2>5, <2>6, <2>7, <2>8, TaskCovers, ZenonT(30)
  <1> QED BY <1>1, <1>7, <1>8, <1>9, Zenon DEF Write

\* superseded: the hold is gone.
LEMMA SupersededCovers ==
    ASSUME IInv, LInv, NEW n \in Node, Superseded(n)
    PROVE  LInv'
  <1>1. task[n] \in TaskState
    BY TaskFacts, Zenon
  <1> QED BY <1>1, DoneCovers, Zenon DEF Superseded

\* resolve: the record that is there is the one attempted, or the hold ends.
LEMMA ResolveCovers ==
    ASSUME IInv, LInv, NEW n \in Node, Resolve(n)
    PROVE  LInv'
  <1>1. PICK t \in TaskState : t = task[n]
    BY TaskFacts, Zenon
  <1>2. /\ TaskOK(n, t) /\ t.pc = "resolve" /\ Timed(n, t) /\ reg.version \in Nat
    BY <1>1, TaskFacts, TimedFacts, Zenon DEF Resolve, At
  <1>3. t.rec.host = n
    BY <1>2, Zenon DEF TaskOK
  <1>4. UNCHANGED <<setup, now, eng, slot, changed, reg, late, said, awarded, given, hosted>>
    BY Zenon DEF Resolve
  <1>5. CASE Applied(t.rec, reg.rec) /\ Won(n, t, reg.version)
    <2>1. reg'.rec = t.rec
      BY <1>4, <1>5, Zenon DEF Applied
    <2>2. \A m \in Node, e, u \in Nat : Covered(m, e, u) => Covered(m, e, u)'
      BY <1>4, Zenon DEF Covered, HasReleased
    <2>3. PICK token \in Nat : token = reg.version
      BY <1>2, Zenon
    <2>4. /\ ReportsCovered'
          /\ \E u \in TaskState : task' = [task EXCEPT ![n] = u] /\ u.pc = "idle"
      BY <1>2, <1>3, <1>4, <1>5, <2>1, <2>2, <2>3, WonCovers, Zenon
    <2>5. PICK u \in TaskState : task' = [task EXCEPT ![n] = u] /\ u.pc = "idle"
      BY <2>4, Zenon
    <2>6. Timed(n, u)' /\ u.pc \notin Busy
      <3>1. u.pc \notin Busy \cup {"release"}
        BY <2>5, SMTT(30) DEF Busy
      <3> QED BY <2>5, <3>1, IdleTimed, ZenonT(30)
    <2>7. ASSUME NEW p \in Nat, NEW r \in Records, Yields(p, r) PROVE Yields(p, r)'
      BY <1>4, <2>7, Zenon DEF Yields, HasReleased, Wall
    <2>8. PICK p \in Nat : p = reg.version + 1
      BY <1>2, SMTT(30)
    <2>9. t.rec \in Records /\ Yields(p, t.rec)' /\ Aged(n, u, t.rec)
      <3>1. Aged(n, task[n], reg.rec) /\ reg.rec = t.rec
        BY <1>5, TimedFacts, Zenon DEF Applied
      <3> QED BY <1>2, <1>4, <2>6, <2>8, <3>1, SMTT(30) DEF Yields, Aged, TaskState
    <2> QED BY <1>3, <1>4, <2>2, <2>4, <2>5, <2>6, <2>7, <2>9, TaskCovers, Zenon
  <1>6. CASE /\ task' = [task EXCEPT ![n] = Done([t EXCEPT !.held = NoHeld])]
             /\ Observe(n) \/ UNCHANGED inbox
    <2>1. [t EXCEPT !.held = NoHeld] \in TaskState
      BY FreshType, Zenon DEF TaskState, Holds
    <2> QED BY <1>4, <1>6, <2>1, DoneCovers, Zenon
  <1> QED BY <1>1, <1>5, <1>6, Zenon DEF Resolve
\* The leadership edge: from here on the pair counts as released.
LEMMA EdgeCovers ==
    ASSUME IInv, LInv, NEW n \in Node, Edge(n)
    PROVE  LInv'
  <1> DEFINE t == task[n]
  <1>1. UNCHANGED <<setup, now, eng, inbox, reg, late, said, awarded, hosted>>
    BY Zenon DEF Edge
  <1>2. /\ t \in TaskState /\ TaskOK(n, t) /\ task \in [Node -> TaskState] /\ t.pc = "idle"
        /\ t.held \in Holds
    BY TaskFacts, Zenon DEF Edge, At
  <1>3. CASE /\ t.held # NoHeld
             /\ task' = [task EXCEPT ![n] =
                    [t EXCEPT !.pc = "release", !.held = NoHeld, !.pre = t.held.token,
                              !.rec = Record(t.held.epoch, n, Wall(n))]]
             /\ given' = given \cup {<<t.held.epoch, n>>}
    <2> DEFINE r == Record(t.held.epoch, n, Wall(n))
               v == [t EXCEPT !.pc = "release", !.held = NoHeld, !.pre = t.held.token, !.rec = r]
    <2>1. HoldOK(n, t.held) /\ t.held.epoch \in Nat /\ t.held.token \in Nat
      BY <1>2, <1>3, Zenon DEF TaskOK, Holds
    <2>2. r \in Records /\ r.expires = Wall(n)
      BY <2>1, TimedFacts, Zenon DEF Record, Records
    <2> HIDE DEF r
    <2>3. v \in TaskState /\ v.pc = "release" /\ v.pre = t.held.token /\ v.rec = r
      BY <1>2, <2>1, <2>2, FreshType, Zenon DEF TaskState, Holds
    <2>4. task' = [task EXCEPT ![n] = v]
      BY <1>3, Zenon DEF r
    <2> HIDE DEF v
    <2>5. PICK u \in TaskState : u = v
      BY <2>3, Zenon
    <2>6. Yields(u.pre, u.rec)'
      <3>1. PICK e \in Nat : e = t.held.epoch
        BY <2>1, Zenon
      <3>2. u.pre = reg.version => reg.rec.epoch = e /\ reg.rec.host = n
        BY <2>1, <2>3, <2>5, <3>1, Zenon DEF HoldOK
      <3>3. <<e, n>> \in given' /\ e >= e /\ <<e, n>>[1] = e /\ <<e, n>>[2] = n
        BY <1>3, <3>1
      <3>4. \E p \in given' : p[2] = n /\ p[1] >= e
        BY <3>3, Zenon
      <3>5. HasReleased(n, e)'
        BY <3>4, Zenon DEF HasReleased
      <3> QED BY <1>1, <3>2, <3>5, Zenon DEF Yields, HasReleased
    <2>7. Timed(n, u)' /\ u.pc \notin Busy
      <3>1. u.rec.expires <= Wall(n)' + setup'.lease
        BY <1>1, <2>2, <2>3, <2>5, TimedFacts DEF Wall
      <3> QED BY <2>3, <2>5, <2>6, <3>1, Zenon DEF Timed, Busy
    <2> QED BY <1>1, <1>3, <2>4, <2>5, <2>7, QuietCovers, Zenon
  <1>4. CASE task' = [task EXCEPT ![n].hosting = (eng[n].role = "Host")] /\ UNCHANGED given
    <2> DEFINE v == [t EXCEPT !.hosting = (eng[n].role = "Host")]
    <2>1. v \in TaskState /\ v.pc = "idle"
      BY <1>2, ZenonT(30) DEF TaskState
    <2>2. task' = [task EXCEPT ![n] = v]
      BY <1>4, Zenon
    <2> HIDE DEF v
    <2>3. PICK u \in TaskState : u = v
      BY <2>1, Zenon
    <2>4. Timed(n, u)' /\ u.pc \notin Busy
      BY <2>1, <2>3, IdleTimed, Zenon DEF Busy
    <2> QED BY <1>1, <1>4, <2>2, <2>3, <2>4, QuietCovers, Zenon
  <1> QED BY <1>3, <1>4, Zenon DEF Edge

\* A write that leaves the task, answered by no one.
LEMMA LeftCovers ==
    ASSUME IInv, LInv, NEW n \in Node, NEW u \in TaskState, task' = [task EXCEPT ![n] = u],
           u.pc = "idle", NEW t \in TaskState, t = task[n], t.pc \in {"write", "release"},
           Put(t.pre, t.rec) \/ UNCHANGED reg,
           late' \subseteq late \cup {[pre |-> t.pre, rec |-> t.rec]},
           \A m \in Node : eng'[m] = eng[m] \/ eng'[m].role # "Host",
           \/ UNCHANGED inbox
           \/ inbox' = [inbox EXCEPT ![n] = <<>>],
           UNCHANGED <<setup, now, given>>
    PROVE  LInv'
  <1>1. /\ TaskOK(n, t) /\ Timed(n, t) /\ t.pre \in Nat /\ t.rec \in Records
        /\ t.t0 \in Nat /\ t.w0 \in Nat
    BY TaskFacts, TimedFacts, Zenon
  <1>2. Pending(t.pre, t.rec) /\ t.rec.host = n /\ Yields(t.pre, t.rec) /\ t.pre <= reg.version
    BY <1>1, Zenon DEF TaskOK, Timed, Pending
  <1>3. /\ \A m \in Node, e, v \in Nat : Covered(m, e, v) => Covered(m, e, v)'
        /\ \A p \in Nat, r \in Records : p <= reg.version /\ Yields(p, r) => Yields(p, r)'
    BY <1>1, <1>2, PutYields, Zenon
  <1>4. Yields(t.pre, t.rec)' /\ (reg'.rec = reg.rec \/ reg'.rec = t.rec)
    BY <1>1, <1>2, <1>3 DEF Put
  <1>5. Timed(n, u)' /\ u.pc \notin Busy
    BY IdleTimed, Zenon DEF Busy
  <1>6. Aged(n, u, t.rec)
    <2>1. t.rec.expires <= Wall(n) + setup.lease
      <3>1. CASE t.pc = "write"
        <4>1. t.t0 <= now /\ t.w0 = t.t0 + setup.skew[n] /\ t.rec.expires = t.w0 + setup.lease
          BY <1>1, <3>1, Zenon DEF Timed, Busy
        <4> QED BY <1>1, <4>1, TimedFacts, SMTT(30)
      <3>2. CASE t.pc = "release"
        BY <1>1, <3>2, Zenon DEF Timed
      <3> QED BY <3>1, <3>2, Zenon
    <2> QED BY <1>5, <2>1, Zenon DEF Aged
  <1>7. ReportsCovered'
    <2>1. CASE inbox' = inbox
      BY <1>3, <2>1, InboxCovers, Zenon
    <2>2. CASE inbox' = [inbox EXCEPT ![n] = <<>>]
      <3>1. ASSUME NEW m \in Node, NEW i \in DOMAIN inbox'[m] PROVE (ReportCovered(m, inbox[m][i]))'
        <4>1. m # n /\ inbox'[m] = inbox[m]
          BY <2>2, <3>1, SMTT(30) DEF IInv, TypeOK
        <4>2. PICK c \in Reports : c = inbox[m][i] /\ ReportCovered(m, c)
          BY <4>1, <3>1 DEF IInv, TypeOK, LInv, ReportsCovered
        <4>3. c.epoch \in Nat /\ c.until \in Nat
          BY Zenon DEF Reports
        <4>4. ReportCovered(m, c)'
          BY <1>3, <4>2, <4>3, Zenon DEF ReportCovered
        <4> QED BY <4>1, <4>2, <4>4, Zenon DEF ReportCovered, Covered, HasReleased
      <3> QED BY <3>1, Zenon DEF ReportsCovered
    <2> QED BY <2>1, <2>2, Zenon
  <1> QED BY <1>1, <1>2, <1>3, <1>4, <1>5, <1>6, <1>7, TaskCovers, ZenonT(30)

LEMMA ReleaseCovers ==
    ASSUME IInv, LInv, NEW n \in Node, Release(n)
    PROVE  LInv'
  <1>1. PICK t \in TaskState : t = task[n]
    BY TaskFacts, Zenon
  <1>2. /\ t.pc = "release"
        /\ task' = [task EXCEPT ![n] = Done([t EXCEPT !.hosting = FALSE])]
        /\ UNCHANGED <<setup, now, eng, inbox, changed, said, given, hosted>>
    BY <1>1, Zenon DEF Release, At
  <1>3. /\ Put(t.pre, t.rec) \/ UNCHANGED reg
        /\ late' \subseteq late \cup {[pre |-> t.pre, rec |-> t.rec]}
    BY <1>1, Zenon DEF Release, PutUnanswered, Delayed
  <1>4. [t EXCEPT !.hosting = FALSE] \in TaskState
    BY Zenon DEF TaskState
  <1>5. PICK u \in TaskState : u = Done([t EXCEPT !.hosting = FALSE]) /\ u.pc = "idle"
    BY <1>4, DoneType, ZenonT(30)
  <1> QED BY <1>1, <1>2, <1>3, <1>5, LeftCovers, Zenon

-----------------------------------------------------------------------------
(* Late writes, crashes and time.                                          *)

LEMMA LandCovers ==
    ASSUME IInv, LInv, NEW w \in late, Land(w)
    PROVE  LInv'
  <1>1. /\ w.pre \in Nat /\ w.rec \in Records /\ Pending(w.pre, w.rec) /\ Yields(w.pre, w.rec)
        /\ w.rec.host \in Node /\ w.pre <= reg.version
    BY Zenon DEF IInv, TypeOK, WritesPending, Pending, LInv, WritesYield
  <1>2. /\ Put(w.pre, w.rec) /\ late' = late \ {w}
        /\ UNCHANGED <<setup, now, eng, slot, inbox, changed, task, said, given, hosted>>
    BY Zenon DEF Land
  <1>3. /\ \A m \in Node, e, v \in Nat : Covered(m, e, v) => Covered(m, e, v)'
        /\ \A p \in Nat, r \in Records : p <= reg.version /\ Yields(p, r) => Yields(p, r)'
    BY <1>1, <1>2, PutYields, Zenon
  <1>4. PICK n \in Node : n = w.rec.host
    BY <1>1, Zenon
  <1>5. PICK t \in TaskState : t = task[n]
    BY TaskFacts, Zenon
  <1>6. /\ TaskOK(n, t) /\ Timed(n, t) /\ t.pre \in Nat /\ t.rec \in Records
        /\ Aged(n, t, w.rec)
    BY <1>5, TaskFacts, TimedFacts, Zenon
  <1>7. Timed(n, t)'
    <2>1. t.pc \in {"write", "release"} => Yields(t.pre, t.rec)'
      BY <1>3, <1>6, Zenon DEF Timed, TaskOK, Pending
    <2> QED BY <1>2, <1>6, <2>1, Zenon DEF Timed, Wall
  <1>8. Yields(w.pre, w.rec)' /\ (reg'.rec = reg.rec \/ reg'.rec = w.rec)
    BY <1>1, <1>2, <1>3 DEF Put
  <1>9. ReportsCovered'
    BY <1>2, <1>3, InboxCovers, Zenon
  <1>10. task' = [task EXCEPT ![n] = t]
    BY <1>2, <1>5, Zenon DEF IInv, TypeOK
  <1> QED BY <1>1, <1>2, <1>3, <1>4, <1>5, <1>6, <1>7, <1>8, <1>9, <1>10, TaskCovers, ZenonT(30)

\* A node forgets its leases; a write it had under way is still on its way.
LEMMA RestartCovers ==
    ASSUME IInv, LInv, NEW n \in Node, Restart(n)
    PROVE  LInv'
  <1>1. PICK t \in TaskState : t = task[n]
    BY TaskFacts, Zenon
  <1>2. /\ task' = [task EXCEPT ![n] = Fresh] /\ eng' = [eng EXCEPT ![n] = Boot]
        /\ inbox' = [inbox EXCEPT ![n] = <<>>]
        /\ UNCHANGED <<setup, now, reg, said, awarded, given, hosted>>
    BY Zenon DEF Restart
  <1>3. PICK u \in TaskState : u = Fresh /\ u.pc = "idle"
    BY FreshType, Zenon DEF Fresh
  <1>4. \A m \in Node : eng'[m] = eng[m] \/ eng'[m].role # "Host"
    BY <1>2, BootType, Zenon DEF IInv, TypeOK
  <1>5. CASE /\ t.pc \in {"write", "release"}
             /\ late' \subseteq late \cup {[pre |-> t.pre, rec |-> t.rec]}
    BY <1>1, <1>2, <1>3, <1>4, <1>5, LeftCovers, Zenon
  <1>6. CASE late' = late
    <2>1. Timed(n, u)' /\ u.pc \notin Busy
      BY <1>3, IdleTimed, Zenon DEF Busy
    <2>2. PICK p \in Nat : p = reg.version + 1
      BY TaskFacts
    <2>3. PICK r \in Records : r = [epoch |-> 0, host |-> n, expires |-> 0]
      BY ZenonT(30) DEF Records
    <2>4. r.host = n /\ Aged(n, u, r) /\ Yields(p, r)'
      BY <1>2, <2>1, <2>2, <2>3, TimedFacts, TaskFacts DEF Aged, Yields
    <2>5. ASSUME NEW m \in Node, NEW e \in Nat, NEW v \in Nat, Covered(m, e, v) PROVE Covered(m, e, v)'
      BY <1>2, <2>5, Zenon DEF Covered, HasReleased
    <2>6. ASSUME NEW q \in Nat, NEW s \in Records, Yields(q, s) PROVE Yields(q, s)'
      BY <1>2, <2>6, Zenon DEF Yields, HasReleased, Wall
    <2>7. ReportsCovered'
      <3>1. ASSUME NEW m \in Node, NEW i \in DOMAIN inbox'[m] PROVE (ReportCovered(m, inbox[m][i]))'
        <4>1. inbox'[m] = inbox[m]
          BY <1>2, <3>1 DEF IInv, TypeOK
        <4> QED BY <1>2, <3>1, <4>1, SMTT(30) DEF LInv, ReportsCovered, ReportCovered, Covered, HasReleased
      <3> QED BY <3>1, Zenon DEF ReportsCovered
    <2> QED BY <1>2, <1>3, <1>4, <1>6, <2>1, <2>4, <2>5, <2>6, <2>7, TaskCovers, ZenonT(30)
  <1> QED BY <1>1, <1>5, <1>6, Zenon DEF Restart, Delayed

\* As time passes leases and records only run out.
LEMMA AdvanceCovers ==
    ASSUME IInv, LInv, Advance
    PROVE  LInv'
  <1>1. /\ now' = now + 1 /\ now \in Nat
        /\ UNCHANGED <<setup, eng, slot, inbox, changed, task, reg, late, said, awarded, given, hosted>>
    BY Zenon DEF Advance, IInv, TypeOK
  <1>2. ASSUME NEW n \in Node
        PROVE  /\ setup.skew[n] \in Nat /\ setup.lease \in Nat
               /\ Wall(n) \in Nat /\ Wall(n)' = Wall(n) + 1
    BY <1>1, ClockFacts DEF Wall
  <1>3. ASSUME NEW n \in Node, NEW e \in Nat, NEW u \in Nat, Covered(n, e, u) PROVE Covered(n, e, u)'
    BY <1>1, <1>3 DEF Covered, HasReleased
  <1>4. ASSUME NEW p \in Nat, NEW r \in Records, Yields(p, r) PROVE Yields(p, r)'
    <2>1. CASE p = reg.version /\ reg.version # 0
      <3>1. PICK m \in Node : m = reg.rec.host
        BY <2>1, RecordHost, Zenon
      <3>2. reg.rec.expires <= Wall(m) => reg.rec.expires <= Wall(m)'
        BY <1>2, ClockFacts
      <3> QED BY <1>1, <1>4, <2>1, <3>1, <3>2, Zenon DEF Yields, HasReleased
    <2>2. CASE ~(p = reg.version /\ reg.version # 0)
      BY <1>1, <2>2, Zenon DEF Yields
    <2> QED BY <2>1, <2>2, Zenon
  <1>5. ASSUME NEW n \in Node, NEW t \in TaskState, Timed(n, t) PROVE Timed(n, t)'
    <2>1. t.pre \in Nat /\ t.rec \in Records /\ t.rec.expires \in Nat /\ t.t0 \in Nat
      BY Zenon DEF TaskState, Records
    <2>2. t.pc \in {"write", "release"} => Yields(t.pre, t.rec)'
      BY <1>4, <1>5, <2>1, Zenon DEF Timed
    <2>3. t.pc = "release" => t.rec.expires <= Wall(n)' + setup'.lease
      BY <1>1, <1>2, <1>5, <2>1, SMTT(30) DEF Timed
    <2> QED BY <1>1, <1>5, <2>1, <2>2, <2>3 DEF Timed
  <1>6. ASSUME NEW n \in Node, NEW t \in TaskState, NEW r \in Records, Aged(n, t, r) PROVE Aged(n, t, r)'
    <2>1. r.expires \in Nat
      BY Zenon DEF Records
    <2> QED BY <1>1, <1>2, <1>6, <2>1 DEF Aged
  <1>7. RecordsAged'
    <2>1. ASSUME NEW n \in Node, NEW r \in Records, Aged(n, task[n], r) PROVE Aged(n, task[n], r)'
      BY <1>1, <1>6, <2>1, Zenon DEF IInv, TypeOK, Aged
    <2>2. reg.rec \in Records /\ \A w \in late : w.rec \in Records
      BY Zenon DEF IInv, TypeOK
    <2>3. PICK r \in Records : r = reg.rec
      BY <2>2, Zenon
    <2>4. ASSUME NEW n \in Node PROVE (Aged(n, task[n], reg.rec))'
      <3>1. Aged(n, task[n], r)'
        BY <2>1, <2>3, Zenon DEF LInv, RecordsAged
      <3> QED BY <1>1, <2>3, <3>1, Zenon DEF Aged
    <2>5. ASSUME NEW n \in Node, NEW w \in late PROVE Aged(n, task[n], w.rec)'
      BY <2>1, <2>2, Zenon DEF LInv, RecordsAged
    <2> QED BY <1>1, <2>4, <2>5, Zenon DEF RecordsAged
  <1>8. WritesYield'
    <2>1. ASSUME NEW n \in Node PROVE Timed(n, task[n])'
      <3>1. PICK t \in TaskState : t = task[n]
        BY TaskFacts, Zenon
      <3>2. Timed(n, t)'
        BY <1>5, <3>1, Zenon DEF LInv, WritesYield
      <3> QED BY <1>1, <3>1, <3>2, Zenon DEF Timed, Yields, HasReleased, Wall
    <2>2. ASSUME NEW w \in late PROVE Yields(w.pre, w.rec)'
      BY <1>4, Zenon DEF IInv, TypeOK, LInv, WritesYield
    <2> QED BY <1>1, <2>1, <2>2, Zenon DEF WritesYield
  <1>9. HostsCovered'
    <2>1. ASSUME NEW n \in Node, eng[n].role = "Host" PROVE (Covered(n, eng[n].epoch, eng[n].lease_until))'
      <3>1. PICK s \in EngineState : s = eng[n]
        BY Zenon DEF IInv, TypeOK
      <3>2. Covered(n, s.epoch, s.lease_until)'
        BY <1>3, <2>1, <3>1, Zenon DEF LInv, HostsCovered, EngineState
      <3> QED BY <1>1, <3>1, <3>2, Zenon DEF Covered, HasReleased
    <2> QED BY <1>1, <2>1, Zenon DEF HostsCovered
  <1>10. ReportsCovered'
    BY <1>1, <1>3, InboxCovers, Zenon
  <1> QED BY <1>7, <1>8, <1>9, <1>10, Zenon DEF LInv

-----------------------------------------------------------------------------
(* The theorem.                                                            *)

LEMMA LeasesInit == IInv /\ Init => LInv
  <1> SUFFICES ASSUME IInv, Init PROVE LInv
    BY Zenon
  <1>1. ASSUME NEW n \in Node PROVE Timed(n, task[n]) /\ Aged(n, task[n], reg.rec)
    BY NoneOutside, Zenon DEF Init, Fresh, Timed, Busy, Aged, NoRecord, Record
  <1>2. eng = [n \in Node |-> Boot] /\ Boot.role = "Follower"
    BY BootType, Zenon DEF Init, IInv, TypeOK
  <1>3. HostsCovered
    BY <1>2, Zenon DEF HostsCovered
  <1>4. ReportsCovered
    BY DEF Init, ReportsCovered
  <1> QED BY <1>1, <1>3, <1>4, Zenon DEF Init, LInv, RecordsAged, WritesYield

LEMMA LeasesStep == ClocksAgree /\ IInv /\ LInv /\ [Next]_vars => LInv'
  <1> SUFFICES ASSUME ClocksAgree, IInv, LInv, [Next]_vars PROVE LInv'
    BY Zenon
  <1>1. ASSUME NEW n \in Node, Actor(n) PROVE LInv'
    BY <1>1, ActorCovers, Zenon
  <1>2. ASSUME NEW n \in Node, AnchorTask(n) PROVE LInv'
    BY <1>2, RoundCovers, LoadCovers, WriteCovers, SupersededCovers, ResolveCovers, EdgeCovers,
       ReleaseCovers, Zenon DEF AnchorTask
  <1>3. ASSUME NEW n \in Node, Restart(n) PROVE LInv'
    BY <1>3, RestartCovers, Zenon
  <1>4. ASSUME NEW w \in late, Land(w) PROVE LInv'
    BY <1>4, LandCovers, Zenon
  <1>5. CASE Advance
    BY <1>5, AdvanceCovers, ZenonT(30)
  <1>6. CASE UNCHANGED vars
    BY <1>6, ZenonT(30) DEF vars, LInv, RecordsAged, Aged, WritesYield, Timed, Yields, HostsCovered,
                ReportsCovered, ReportCovered, Covered, HasReleased, Wall
  <1> QED BY <1>1, <1>2, <1>3, <1>4, <1>5, <1>6, Zenon DEF Next

LEMMA LeasesFollow == IInv /\ LInv => LeasesExclusiveUnlessReleased
  <1> SUFFICES ASSUME IInv, LInv, NEW m \in Node, NEW n \in Node, m # n, Leased(m), Leased(n)
               PROVE  \E k \in {m, n} : HasReleased(k, eng[k].epoch)
    BY Zenon DEF LeasesExclusiveUnlessReleased
  <1>1. ASSUME NEW k \in Node, Leased(k) PROVE HasReleased(k, eng[k].epoch) \/ reg.rec.host = k
    <2>1. eng[k].lease_until \in Nat /\ now \in Nat
      BY Zenon DEF IInv, TypeOK, EngineState
    <2> QED BY <1>1, <2>1 DEF Leased, LInv, HostsCovered, Covered
  <1> QED BY <1>1, Zenon

\* run_anchor and the activation engine, for any set of nodes, any faults of the
\* store and any crashes: while no two clocks are further apart than
\* steal_margin, two leases overlap only if one of the two nodes has begun to
\* release its record.
THEOREM LeasesDoNotOverlap == ClocksAgree => (Spec => []LeasesExclusiveUnlessReleased)
  <1> SUFFICES ASSUME ClocksAgree PROVE Spec => []LeasesExclusiveUnlessReleased
    BY Zenon
  <1>1. Init => IInv /\ LInv
    BY Initially, LeasesInit, Zenon
  <1>2. IInv /\ LInv /\ [Next]_vars => (IInv /\ LInv)'
    BY Inductive, LeasesStep, Zenon
  <1>3. IInv /\ LInv => LeasesExclusiveUnlessReleased
    BY LeasesFollow, Zenon
  <1> QED BY <1>1, <1>2, <1>3, PTL DEF Spec
=============================================================================
