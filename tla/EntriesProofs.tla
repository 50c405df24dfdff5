---------------------------- MODULE EntriesProofs ----------------------------
(***************************************************************************)
(* Theorems about the entries of one member, for every group, key set,     *)
(* frame budget and environment of Entries.  The records and frames stay   *)
(* well-formed; the author's writes are its own; while the author runs,    *)
(* every copy of an entry, held or in flight, is one its author wrote and  *)
(* no newer than the author's, from which the high-water marks cover the   *)
(* live entries and, when deletes are heard of in time, nothing deleted is *)
(* read again.                                                             *)
(***************************************************************************)
EXTENDS EntriesLaws, EntriesSteps

LEMMA ShapeInvariant == Spec => []Shape
  <1>1. ASSUME Init PROVE Shape
    <2>1. setup \in Setups /\ restarts \in Nat  BY <1>1 DEF Init
    <2>2. RecordOK(Fresh)  BY <2>1, FreshType, Zenon
    <2>3. DOMAIN member = Member /\ \A n \in Member : RecordOK(member[n])
      BY <1>1, <2>2, Zenon DEF Init
    <2>4. [k \in Key |-> 0] \in [Key -> Nat]  OBVIOUS
    <2>5. buried \in [Member -> [Key -> Nat]]  BY <1>1, <2>4, Zenon DEF Init
    <2>6. authored \subseteq Key /\ net = {}  BY <1>1, Zenon DEF Init
    <2>. QED  BY <2>1, <2>3, <2>5, <2>6, Zenon DEF Shape, ShapeOf
  <1>2. ASSUME Shape, Next PROVE Shape'
    <2>1. PICK mem, A, nt, bur : mem = member' /\ A = authored' /\ nt = net' /\ bur = buried'
      BY Zenon
    <2>2. /\ setup' = setup /\ restarts' \in {restarts, restarts + 1}
          /\ Moves(mem, A, nt, bur) \/ Restarts(mem, A, nt, bur)
      BY <1>2, <2>1, Steps, Zenon
    <2>3. ShapeOf(mem, A, nt, bur)  BY <1>2, <2>2, ShapeKept, Zenon
    <2>4. ShapeOf(mem, A, nt, bur)'  BY <2>2, <2>3, ShapeStays, Zenon
    <2>5. ShapeOf(member, authored, net, buried)'  BY <2>1, <2>4, Zenon DEF ShapeOf
    <2>6. restarts' \in Nat
      <3>1. restarts \in Nat  BY <1>2, Zenon DEF Shape
      <3>. QED  BY <2>2, <3>1
    <2>7. setup' \in Setups  BY <1>2, <2>2, Zenon DEF Shape
    <2>. QED  BY <2>5, <2>6, <2>7, Zenon DEF Shape
  <1>3. ASSUME Shape, UNCHANGED vars PROVE Shape'
    <2>1. /\ setup' = setup /\ member' = member /\ authored' = authored /\ net' = net
          /\ buried' = buried /\ restarts' = restarts
      BY <1>3, Zenon DEF vars
    <2>2. PICK mem, A, nt, bur : mem = member /\ A = authored /\ nt = net /\ bur = buried
      BY Zenon
    <2>3. ShapeOf(mem, A, nt, bur)  BY <1>3, <2>2, Zenon DEF Shape
    <2>4. ShapeOf(mem, A, nt, bur)'  BY <2>1, <2>3, ShapeStays, Zenon
    <2>5. ShapeOf(member, authored, net, buried)'  BY <2>1, <2>2, <2>4, Zenon DEF ShapeOf
    <2>. QED  BY <1>3, <2>1, <2>5, Zenon DEF Shape
  <1>. QED  BY <1>1, <1>2, <1>3, PTL DEF Spec

\* Every record, frame and mark keeps its type, and no high-water mark is below
\* an entry beside it, whatever is written, merged, reaped, lost or restarted.
THEOREM TypeCorrect == Spec => []TypeOK
  <1>1. ASSUME Shape PROVE TypeOK
    <2>1. \A n \in Member :
            /\ member[n].max_state_version \in Nat
            /\ \A k \in Key : /\ Held(n, k) \in Entry
                              /\ Held(n, k).version <= member[n].max_state_version
      BY <1>1, ShapeFacts, Zenon DEF Held
    <2>2. authored \subseteq Key /\ \A f \in net : FrameOK(f)  BY <1>1, Zenon DEF Shape, ShapeOf
    <2>3. \A f \in net :
            /\ {f.from, f.to} \subseteq Member /\ f.from # f.to
            /\ f.kind = "Digest" => f.max \in Nat
            /\ f.kind = "DeltaRequest" => f.have \in Nat
            /\ f.kind = "Delta" => f.max \in Nat /\ f.entries \in SUBSET WireEntry
      BY <2>2, Zenon DEF FrameOK
    <2>. QED  BY <2>1, <2>2, <2>3, Zenon DEF TypeOK
  <1>. QED  BY <1>1, ShapeInvariant, PTL

\* A key the author wrote since it started keeps the value written until the
\* author writes or deletes it, restarts or lets it lapse: merge_own_echo lets
\* no copy from a peer replace it.
THEOREM AuthorKeeps == Spec => AuthoredKept
  <1>. DEFINE P == (writes' = writes /\ restarts' = restarts) =>
                \A k \in authored : View(Author, k)' \in {View(Author, k), 0}
                             /\ (~Due(Held(Author, k)) => View(Author, k)' = View(Author, k))
              Counts == writes \in Nat
  <1>1. Init => Counts  BY DEF Init
  <1>2. ASSUME Shape, Counts, [Next]_vars PROVE Counts'
    <2>1. writes' \in {writes, writes + 1}
      BY <1>2, Zenon DEF Next, SetLocalEntry, DeleteLocalEntry, Author_Put, Receive, OnDigest,
         OnDeltaRequest, OnDelta, Tick, Round, Advance, Restart, vars, bounds
    <2>. QED  BY <1>2, <2>1
  <1>3. ASSUME Shape, Counts, Next PROVE P
    <2>. SUFFICES ASSUME writes' = writes, restarts' = restarts, NEW k \in authored
                  PROVE  View(Author, k)' \in {View(Author, k), 0}
                         /\ (~Due(Held(Author, k)) => View(Author, k)' = View(Author, k))
      BY Zenon
    <2>1. PICK mem, A, nt, bur : mem = member' /\ A = authored' /\ nt = net' /\ bur = buried'
      BY Zenon
    <2>2. writes' # writes + 1  BY <1>3
    <2>3. restarts' # restarts + 1
      <3>1. restarts \in Nat  BY <1>3, Zenon DEF Shape
      <3>. QED  BY <3>1
    <2>4. Idles(mem, A, nt, bur)
      BY <1>3, <2>1, <2>2, <2>3, Steps, Zenon
    <2>. DEFINE e == member[Author].entries[k]
                d == mem[Author].entries[k]
    <2>5. KeptUntilDue(e, d)  BY <1>3, <2>4, OwnKept, Zenon
    <2>6. View(Author, k)' = IF d.tombstone THEN 0 ELSE d.value  BY <2>1, Zenon DEF View, Held
    <2>7. View(Author, k) = (IF e.tombstone THEN 0 ELSE e.value) /\ Held(Author, k) = e
      BY Zenon DEF View, Held
    <2>8. NoEntry.value = 0  BY Zenon DEF NoEntry
    <2>. HIDE DEF d, e
    <2>9. CASE d.value = e.value /\ d.tombstone = e.tombstone
      <3>1. View(Author, k)' = View(Author, k)  BY <2>6, <2>7, <2>9
      <3>. QED  BY <3>1, Zenon
    <2>10. CASE Due(e) /\ d = NoEntry
      <3>1. View(Author, k)' = 0  BY <2>6, <2>8, <2>10, Zenon
      <3>. QED  BY <2>7, <2>10, <3>1, Zenon
    <2>. QED  BY <2>5, <2>9, <2>10, Zenon DEF KeptUntilDue
  <1>. HIDE DEF Counts
  <1>4. Shape /\ Counts /\ [Next]_vars => [P]_vars
    <2>. HIDE DEF P
    <2>. QED  BY <1>3, Zenon
  <1>. QED  BY <1>1, <1>2, <1>4, ShapeInvariant, PTL DEF Spec, AuthoredKept

-----------------------------------------------------------------------------
(* Copies and marks.                                                       *)

\* Nothing is held or in flight at the start.
LEMMA NothingYet ==
    ASSUME Init
    PROVE  /\ setup \in Setups /\ Author \in Member /\ Copies(member, net) = {} /\ net = {}
           /\ \A n \in Member : /\ member[n].max_state_version = 0
                                /\ \A k \in Key : member[n].entries[k] = NoEntry
           /\ restarts = 0
  <1>1. setup \in Setups /\ net = {} /\ restarts = 0 /\ \A n \in Member : member[n] = Fresh
    BY Zenon DEF Init
  <1>2. \A n \in Member : /\ member[n].max_state_version = 0
                          /\ \A k \in Key : member[n].entries[k] = NoEntry
    BY <1>1, FreshType, Zenon
  <1>3. Author \in Member  BY <1>1, SetupFacts, Zenon
  <1>4. \A w \in WireEntry : w.key \in Key  BY Zenon DEF WireEntry
  <1>5. Copies(member, net) = {}  BY <1>1, <1>2, <1>4, Zenon DEF Copies
  <1>. QED  BY <1>1, <1>2, <1>3, <1>5, Zenon

LEMMA LivesInvariant == Spec => [](Shape /\ FirstLifeInv /\ CoverageInv)
  <1>1. ASSUME Init PROVE FirstLifeInv /\ CoverageInv
    <2>1. /\ Author \in Member /\ Copies(member, net) = {} /\ net = {}
          /\ \A n \in Member : /\ member[n].max_state_version = 0
                               /\ \A k \in Key : member[n].entries[k] = NoEntry
      BY <1>1, NothingYet, Zenon
    <2>2. 0 <= 0  OBVIOUS
    <2>3. \A n \in Member : member[n].max_state_version <= member[Author].max_state_version
      BY <2>1, <2>2, Zenon
    <2>4. FirstLife(member, authored, net)  BY <2>1, <2>3, Zenon DEF FirstLife
    <2>5. Coverage(member, net)  BY <2>1, Zenon DEF Coverage, Lasting
    <2>. QED  BY <2>4, <2>5, Zenon DEF FirstLifeInv, CoverageInv
  <1>2. ASSUME Shape, FirstLifeInv, CoverageInv, Next PROVE FirstLifeInv' /\ CoverageInv'
    <2>1. PICK mem, A, nt, bur : mem = member' /\ A = authored' /\ nt = net' /\ bur = buried'
      BY Zenon
    <2>2. setup' = setup  BY <1>2, <2>1, Steps, Zenon
    <2>3. CASE restarts' # 0
      BY <2>3, Zenon DEF FirstLifeInv, CoverageInv
    <2>4. CASE restarts' = 0
      <3>1. restarts \in Nat  BY <1>2, Zenon DEF Shape
      <3>2. restarts' # restarts + 1  BY <2>4, <3>1
      <3>3. /\ restarts' = restarts
            /\ Moves(mem, A, nt, bur)
        BY <1>2, <2>1, <3>2, Steps, Zenon
      <3>4. FirstLife(member, authored, net)  BY <1>2, <2>4, <3>3, Zenon DEF FirstLifeInv
      <3>5. Law(mem, A, nt)  BY <1>2, <3>3, <3>4, StepLaw, SMTT(30)
      <3>6. ShapeOf(mem, A, nt, bur)  BY <1>2, <3>3, ShapeKept, SMTT(30)
      <3>7. FirstLife(mem, A, nt)  BY <1>2, <3>4, <3>5, <3>6, FirstLifeKept, Zenon
      <3>8. FirstLife(member, authored, net)'  BY <2>1, <2>2, <3>7, FirstLifeNext, Zenon
      <3>9. ASSUME ~setup.eager_push PROVE Coverage(member, net)'
        <4>1. Coverage(member, net)  BY <1>2, <2>4, <3>3, <3>9, Zenon DEF CoverageInv
        <4>2. Coverage(mem, nt)  BY <1>2, <3>4, <3>5, <3>6, <3>7, <3>9, <4>1, CoverageKept, Zenon
        <4>. QED  BY <2>1, <2>2, <4>2, CoverageNext, Zenon
      <3>. QED  BY <2>2, <3>8, <3>9, Zenon DEF FirstLifeInv, CoverageInv
    <2>. QED  BY <2>3, <2>4, Zenon
  <1>3. ASSUME Shape, FirstLifeInv, CoverageInv, UNCHANGED vars PROVE FirstLifeInv' /\ CoverageInv'
    <2>1. /\ setup' = setup /\ member' = member /\ authored' = authored /\ net' = net
          /\ restarts' = restarts
      BY <1>3, Zenon DEF vars
    <2>2. PICK mem, A, nt : mem = member /\ A = authored /\ nt = net  BY Zenon
    <2>a. mem = member' /\ A = authored' /\ nt = net'  BY <2>1, <2>2, Zenon
    <2>3. ASSUME restarts = 0 PROVE FirstLife(member, authored, net)'
      <3>1. FirstLife(mem, A, nt)  BY <1>3, <2>2, <2>3, Zenon DEF FirstLifeInv
      <3>. QED  BY <2>1, <2>a, <3>1, FirstLifeNext, Zenon
    <2>4. ASSUME restarts = 0, ~setup.eager_push PROVE Coverage(member, net)'
      <3>1. Coverage(mem, nt)  BY <1>3, <2>2, <2>4, Zenon DEF CoverageInv
      <3>. QED  BY <2>1, <2>a, <3>1, CoverageNext, Zenon
    <2>. QED  BY <2>1, <2>3, <2>4, Zenon DEF FirstLifeInv, CoverageInv
  <1>. QED  BY <1>1, <1>2, <1>3, ShapeInvariant, PTL DEF Spec

\* No digest makes peers believe that a node has an entry it lacks: the mark a
\* node advertises covers the author's live entries up to it, whatever was cut
\* from a delta frame (build_delta_frame's max_version), lost or late.
THEOREM MarksCover == Spec => []HighWaterCovers
  <1>1. ASSUME Shape, CoverageInv PROVE HighWaterCovers
    <2>1. Observer \subseteq Member  BY Zenon DEF Member
    <2>. QED  BY <1>1, <2>1, Zenon DEF HighWaterCovers, CoverageInv, Coverage, Lasting, Held
  <1>. QED  BY <1>1, LivesInvariant, PTL

-----------------------------------------------------------------------------
(* Deletes.                                                                *)

LEMMA NoTombstonesKept ==
    ASSUME Shape, ~setup.deletes, NoTombstones(member, net, buried),
           NEW mem, NEW A, NEW nt, NEW bur, ShapeOf(mem, A, nt, bur),
           Moves(mem, A, nt, bur) \/ Restarts(mem, A, nt, bur)
    PROVE  NoTombstones(mem, nt, bur)
  <1>0. setup \in Setups  BY Zenon DEF Shape
  <1>n. ~NoEntry.tombstone  BY DEF NoEntry
  <1>1. ASSUME NEW n \in Member, NEW k \in Key PROVE ~member[n].entries[k].tombstone
    <2>. DEFINE e == member[n].entries[k]
                w == Wire(k, e)
    <2>1. CASE e = NoEntry  BY <1>n, <2>1, Zenon
    <2>2. CASE e # NoEntry
      <3>1. e \in Entry /\ e.version > 0  BY <2>2, ShapeFacts, Zenon
      <3>. HIDE DEF e
      <3>2. w \in WireEntry  BY <3>1, WireType, Zenon
      <3>3. w.key = k /\ w.tombstone = e.tombstone  BY Zenon DEF Wire
      <3>. HIDE DEF w
      <3>4. member[n].entries[w.key] # NoEntry /\ w = Wire(w.key, member[n].entries[w.key])
        BY <2>2, <3>3, Zenon DEF w, e
      <3>5. w \in Copies(member, net)  BY <3>2, <3>4, Zenon DEF Copies
      <3>6. ~w.tombstone  BY <3>5, Zenon DEF NoTombstones
      <3>. QED  BY <3>3, <3>6, Zenon DEF e
    <2>. QED  BY <2>1, <2>2, Zenon
  <1>2. ASSUME NEW f \in net, f.kind = "Delta", NEW w \in f.entries PROVE ~w.tombstone
    <2>1. w \in WireEntry  BY <1>2, ShapeFacts, Zenon DEF FrameOK
    <2>2. w \in Copies(member, net)  BY <1>2, <2>1, Zenon DEF Copies
    <2>. QED  BY <2>2, Zenon DEF NoTombstones
  <1>3. \A n \in Member, k \in Key : buried[n][k] = 0  BY Zenon DEF NoTombstones
  <1>4. \A n \in Member, k \in Key : ~mem[n].entries[k].tombstone /\ bur[n][k] = 0
    BY <1>1, <1>2, <1>3, HeldAlive, SMTT(30)
  <1>5. ASSUME NEW n \in Member, NEW w \in WireEntry, w = Wire(w.key, mem[n].entries[w.key])
        PROVE  ~w.tombstone
    <2>1. w.key \in Key  BY Zenon DEF WireEntry
    <2>2. w.tombstone = mem[n].entries[w.key].tombstone  BY <1>5 DEF Wire
    <2>. QED  BY <1>4, <2>1, <2>2, Zenon
  <1>6. ASSUME NEW f \in nt, f.kind = "Delta", NEW w \in f.entries, w \in WireEntry PROVE ~w.tombstone
    <2>1. CASE f \in net  BY <1>2, <1>6, <2>1, Zenon
    <2>2. CASE f \notin net
      <3>1. f.from \in Member /\ \E have \in Nat : BuiltFrom(f, mem[f.from], have)
        BY <1>6, <2>2, NewDeltas, SMTT(30)
      <3>2. w = Wire(w.key, mem[f.from].entries[w.key])  BY <1>6, <3>1, Zenon DEF BuiltFrom
      <3>. QED  BY <1>5, <1>6, <3>1, <3>2, Zenon
    <2>. QED  BY <2>1, <2>2, Zenon
  <1>7. \A w \in Copies(mem, nt) : ~w.tombstone  BY <1>5, <1>6, Zenon DEF Copies
  <1>. QED  BY <1>4, <1>7, Zenon DEF NoTombstones

LEMMA TombstonesInit ==
    ASSUME Init
    PROVE  TombstoneInv
  <1>1. /\ setup \in Setups /\ Author \in Member /\ Copies(member, net) = {} /\ restarts = 0
        /\ \A n \in Member : /\ member[n].max_state_version = 0
                             /\ \A k \in Key : member[n].entries[k] = NoEntry
    BY NothingYet, Zenon
  <1>2. \A n \in Member, k \in Key : buried[n][k] = 0  BY Zenon DEF Init
  <1>3. ~NoEntry.tombstone /\ 0 <= 0 /\ ~(0 > 0)  BY DEF NoEntry
  <1>4. \A n \in Member, k \in Key : Remembers(member, net, buried[n][k], member[n].entries[k], k)
    BY <1>1, <1>2, <1>3, Zenon DEF Remembers
  <1>. QED  BY <1>1, <1>2, <1>4, Zenon DEF TombstoneInv, Buries, NoTombstones

LEMMA TombstonesInvariant == DeletesHeard => (Spec => [](Shape /\ TombstoneInv))
  <1>. SUFFICES ASSUME DeletesHeard PROVE Spec => [](Shape /\ TombstoneInv)
    BY Zenon
  <1>1. Init => TombstoneInv  BY TombstonesInit
  <1>2. ASSUME Shape, FirstLifeInv, TombstoneInv, Next PROVE TombstoneInv'
    <2>1. PICK mem, A, nt, bur : mem = member' /\ A = authored' /\ nt = net' /\ bur = buried'
      BY Zenon
    <2>2. /\ setup' = setup
          /\ \/ restarts' = restarts /\ Moves(mem, A, nt, bur)
             \/ Restarts(mem, A, nt, bur)
      BY <1>2, <2>1, Steps, Zenon
    <2>3. ShapeOf(mem, A, nt, bur)  BY <1>2, <2>2, ShapeKept, SMTT(30)
    <2>4. CASE ~setup.deletes
      <3>1. NoTombstones(member, net, buried)  BY <1>2, <2>4, Zenon DEF TombstoneInv
      <3>2. NoTombstones(mem, nt, bur)  BY <1>2, <2>2, <2>3, <2>4, <3>1, NoTombstonesKept, SMTT(30)
      <3>3. NoTombstones(member, net, buried)'  BY <2>1, <2>2, <3>2, NoTombstonesNext, Zenon
      <3>. QED  BY <2>2, <2>4, <3>3, Zenon DEF TombstoneInv
    <2>5. CASE setup.deletes
      <3>1. setup \in Setups  BY <1>2, Zenon DEF Shape
      <3>2. setup.informed /\ Ttl = 0 /\ DeadTimeout > 0 /\ setup.max_restarts = 0
        BY <2>5, <3>1, Zenon DEF DeletesHeard, Ttl, DeadTimeout
      <3>3. ~Restarts(mem, A, nt, bur)
        <4>1. ~(0 > 0)  OBVIOUS
        <4>. QED  BY <3>2, <4>1, Zenon DEF Restarts
      <3>4. restarts = 0 /\ restarts' = 0 /\ Buries(member, net, buried)
        BY <1>2, <2>2, <2>5, <3>3, Zenon DEF TombstoneInv
      <3>5. FirstLife(member, authored, net)  BY <1>2, <3>4, Zenon DEF FirstLifeInv
      <3>6. Law(mem, A, nt)  BY <1>2, <2>2, <3>3, <3>5, StepLaw, SMTT(30)
      <3>7. FirstLife(mem, A, nt)  BY <1>2, <2>3, <3>5, <3>6, FirstLifeKept, ZenonT(30)
      <3>8. Buries(mem, nt, bur)
        <4>1. CASE Ages(mem, A, nt, bur)
          <5>1. \A n \in Member : mem[n] = AgedRecord(member[n])  BY <4>1, Zenon DEF Ages
          <5>2. \A n \in Member : RecordOK(member[n])  BY <1>2, ShapeFacts, Zenon
          <5>3. \A n \in Member, k \in Key : mem[n].entries[k] = Aged(member[n].entries[k])
            BY <3>1, <5>1, <5>2, AgedRecordType, Zenon
          <5>4. nt = {} /\ bur = buried /\ ~Overtaken  BY <3>2, <4>1, Zenon DEF Ages
          <5>. QED  BY <1>2, <2>3, <3>4, <3>5, <3>6, <3>7, <5>3, <5>4, AgesRemembered, Zenon
        <4>2. CASE ~Ages(mem, A, nt, bur)
          <5>1. \A n \in Member, k \in Key :
                  /\ Turn(n, k, member[n].entries[k], mem[n].entries[k])
                  /\ BuryTurn(buried[n][k], bur[n][k], mem[n].entries[k])
            BY <1>2, <2>2, <3>3, <3>4, <3>5, <4>2, EntryTurns, Zenon
          <5>. QED  BY <1>2, <2>3, <3>2, <3>4, <3>5, <3>6, <3>7, <5>1, TurnsRemembered, Zenon
        <4>. QED  BY <4>1, <4>2, Zenon
      <3>9. Buries(member, net, buried)'  BY <2>1, <2>2, <3>8, BuriesNext, Zenon
      <3>. QED  BY <2>2, <2>5, <3>4, <3>9, Zenon DEF TombstoneInv
    <2>. QED  BY <2>4, <2>5, Zenon
  <1>3. ASSUME TombstoneInv, UNCHANGED vars PROVE TombstoneInv'
    <2>1. /\ setup' = setup /\ member' = member /\ net' = net /\ buried' = buried
          /\ restarts' = restarts
      BY <1>3, Zenon DEF vars
    <2>2. PICK mem, nt, bur : mem = member /\ nt = net /\ bur = buried  BY Zenon
    <2>3. mem = member' /\ nt = net' /\ bur = buried'  BY <2>1, <2>2, Zenon
    <2>4. CASE setup.deletes
      <3>1. restarts = 0 /\ Buries(mem, nt, bur)  BY <1>3, <2>2, <2>4, Zenon DEF TombstoneInv
      <3>2. Buries(member, net, buried)'  BY <2>1, <2>3, <3>1, BuriesNext, Zenon
      <3>. QED  BY <2>1, <2>4, <3>1, <3>2, Zenon DEF TombstoneInv
    <2>5. CASE ~setup.deletes
      <3>1. NoTombstones(mem, nt, bur)  BY <1>3, <2>2, <2>5, Zenon DEF TombstoneInv
      <3>2. NoTombstones(member, net, buried)'  BY <2>1, <2>3, <3>1, NoTombstonesNext, Zenon
      <3>. QED  BY <2>1, <2>5, <3>2, Zenon DEF TombstoneInv
    <2>. QED  BY <2>4, <2>5, Zenon
  <1>. QED  BY <1>1, <1>2, <1>3, LivesInvariant, PTL DEF Spec

\* Once a node has held a tombstone of a key, reaped since or not, no value the
\* tombstone deleted is read there again (reap_entries: "can never ... resurrect"),
\* where tombstones outlive every older copy of their key.
THEOREM NothingDeletedReturns == DeletesHeard => (Spec => []NoResurrection)
  <1>. SUFFICES ASSUME DeletesHeard PROVE Spec => []NoResurrection
    BY Zenon
  <1>1. ASSUME Shape, TombstoneInv PROVE NoResurrection
    <2>. SUFFICES ASSUME NEW n \in Member, NEW k \in Key, View(n, k) # 0
                  PROVE  Held(n, k).version > buried[n][k]
      BY Zenon DEF NoResurrection
    <2>. DEFINE e == member[n].entries[k]
                b == buried[n][k]
                w == Wire(k, e)
    <2>1. ~e.tombstone /\ e.value # 0  BY Zenon DEF View, Held
    <2>2. e # NoEntry
      <3>1. NoEntry.value = 0  BY DEF NoEntry
      <3>. QED  BY <2>1, <3>1, Zenon
    <2>3. e \in Entry /\ e.version > 0 /\ b \in Nat
      BY <1>1, <2>2, ShapeFacts, Zenon DEF Shape, ShapeOf
    <2>4. w \in Copies(member, net) /\ w.key = k /\ w.version = e.version /\ ~w.tombstone
      <3>1. w \in WireEntry
        <4>. HIDE DEF e
        <4>. QED  BY <2>3, WireType, Zenon
      <3>2. w.key = k /\ w.version = e.version /\ w.tombstone = e.tombstone  BY Zenon DEF Wire
      <3>3. member[n].entries[w.key] # NoEntry /\ w = Wire(w.key, member[n].entries[w.key])
        BY <2>2, <3>2, Zenon
      <3>. HIDE DEF w
      <3>4. w \in Copies(member, net)  BY <3>1, <3>3, Zenon DEF Copies
      <3>. QED  BY <2>1, <3>2, <3>4, Zenon
    <2>5. CASE b = 0
      <3>1. e.version > b  BY <2>3, <2>5, Zenon
      <3>. QED  BY <3>1, Zenon DEF Held
    <2>6. CASE b # 0
      <3>1. Remembers(member, net, b, e, k)
        BY <1>1, <2>6, Zenon DEF TombstoneInv, NoTombstones, Buries
      <3>2. b > 0
        <4>. HIDE DEF b, e, w
        <4>. QED  BY <2>3, <2>6
      <3>3. Passed(member, net, b, k) \/ e.version > b  BY <2>1, <3>1, <3>2, Zenon DEF Remembers
      <3>4. Passed(member, net, b, k) => w.version > b
        <4>. HIDE DEF b, e, w
        <4>. QED  BY <2>4, Zenon DEF Passed, Newer
      <3>5. e.version > b
        <4>. HIDE DEF b, e, w
        <4>. QED  BY <2>4, <3>3, <3>4, Zenon
      <3>. QED  BY <3>5, Zenon DEF Held
    <2>. QED  BY <2>5, <2>6, Zenon
  <1>. QED  BY <1>1, TombstonesInvariant, PTL
=============================================================================
