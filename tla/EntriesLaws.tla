----------------------------- MODULE EntriesLaws -----------------------------
(***************************************************************************)
(* The invariants outlive every step that obeys the laws.                  *)
(***************************************************************************)
EXTENDS EntriesInvariants, TLAPS

-----------------------------------------------------------------------------
(* Fields and types.                                                       *)

LEMMA SetupTypes ==
    ASSUME setup \in Setups
    PROVE  /\ Key \in SUBSET Nat /\ IsFiniteSet(Key) /\ Author \in Member
           /\ Value \in SUBSET (Nat \ {0}) /\ Ttl \in Nat /\ DeadTimeout \in Nat
           /\ setup.budget \in Nat
  <1>1. setup \in Setup /\ IsFiniteSet(setup.keys)  BY EntriesAssumption, Zenon
  <1>. QED  BY <1>1 DEF Setup, Key, Member, Value, Ttl, DeadTimeout

\* The larger of two numbers.
LEMMA MaxPair ==
    ASSUME NEW a \in Nat, NEW b \in Nat
    PROVE  Max({a, b}) \in Nat /\ a <= Max({a, b}) /\ b <= Max({a, b})
  <1>1. \E x \in {a, b} : \A y \in {a, b} : x >= y  OBVIOUS
  <1>2. Max({a, b}) \in {a, b} /\ \A y \in {a, b} : Max({a, b}) >= y  BY <1>1, Zenon DEF Max
  <1>. QED  BY <1>2

LEMMA LeftType ==
    ASSUME setup \in Setups, NEW e \in Entry
    PROVE  e.left \in Nat /\ (Ttl = 0 => e.ttl = 0)
  <1>1. DeadTimeout \in Nat /\ Ttl \in Nat  BY SetupTypes, Zenon
  <1>2. 2 * DeadTimeout \in Nat  BY <1>1
  <1>3. Max({2 * DeadTimeout, Ttl}) \in Nat  BY <1>1, <1>2, MaxPair, Zenon
  <1>4. e.left \in 0 .. Max({2 * DeadTimeout, Ttl}) /\ e.ttl \in {0, Ttl}  BY Zenon DEF Entry
  <1>. QED  BY <1>3, <1>4

\* What a record tells of an entry is a frame's entry, with its fields.
LEMMA WireType ==
    ASSUME NEW k \in Key, NEW e \in Entry, e.version > 0
    PROVE  Wire(k, e) \in WireEntry
  <1>1. e.version \in Nat \ {0}  BY DEF Entry
  <1>2. e.tombstone \in BOOLEAN /\ e.value \in Value \cup {0} /\ e.ttl \in {0, Ttl}
    BY Zenon DEF Entry
  <1>. QED  BY <1>1, <1>2, Zenon DEF Wire, WireEntry

LEMMA WireFields ==
    ASSUME NEW k, NEW e
    PROVE  /\ Wire(k, e).key = k /\ Wire(k, e).version = e.version
           /\ Wire(k, e).tombstone = e.tombstone /\ Wire(k, e).value = e.value
           /\ Wire(k, e).ttl = e.ttl
  BY Zenon DEF Wire

\* Entries carried alike are alike, but for the time they have left.
LEMMA SameWire ==
    ASSUME NEW k, NEW e, NEW d, Wire(k, d) = Wire(k, e)
    PROVE  /\ d.version = e.version /\ d.tombstone = e.tombstone
           /\ d.value = e.value /\ d.ttl = e.ttl
  <1>. DEFINE x == Wire(k, d)
              y == Wire(k, e)
  <1>1. x.version = d.version /\ x.tombstone = d.tombstone /\ x.value = d.value /\ x.ttl = d.ttl
    BY Zenon DEF Wire
  <1>2. y.version = e.version /\ y.tombstone = e.tombstone /\ y.value = e.value /\ y.ttl = e.ttl
    BY Zenon DEF Wire
  <1>3. x = y  BY Zenon
  <1>. HIDE DEF x, y
  <1>. QED  BY <1>1, <1>2, <1>3, Zenon

\* What a frame carries is taken on as it was sent.
LEMMA AdoptWireFields ==
    ASSUME NEW w \in WireEntry
    PROVE  /\ Wire(w.key, AdoptWire(w)) = w
           /\ AdoptWire(w).version = w.version /\ AdoptWire(w).tombstone = w.tombstone
           /\ AdoptWire(w).value = w.value /\ AdoptWire(w).ttl = w.ttl
           /\ w.tombstone => AdoptWire(w).left = 2 * DeadTimeout
           /\ AdoptWire(w) # NoEntry
  <1>1. w.version # 0  BY Zenon DEF WireEntry
  <1>2. /\ AdoptWire(w).version = w.version /\ AdoptWire(w).tombstone = w.tombstone
        /\ AdoptWire(w).value = w.value /\ AdoptWire(w).ttl = w.ttl
        /\ w.tombstone => AdoptWire(w).left = 2 * DeadTimeout
    BY Zenon DEF AdoptWire, Adopted
  <1>3. w = [key |-> w.key, version |-> w.version, tombstone |-> w.tombstone,
             value |-> w.value, ttl |-> w.ttl]
    BY Zenon DEF WireEntry
  <1>4. Wire(w.key, AdoptWire(w)) = w  BY <1>2, <1>3, Zenon DEF Wire
  <1>5. NoEntry.version = 0  BY Zenon DEF NoEntry
  <1>. QED  BY <1>1, <1>2, <1>4, <1>5, Zenon

\* Time moves an entry towards its reap, and changes nothing else of it.
LEMMA AgedFields ==
    ASSUME NEW e \in Entry, NEW k
    PROVE  /\ Wire(k, Aged(e)) = Wire(k, e)
           /\ Aged(e).version = e.version /\ Aged(e).tombstone = e.tombstone
           /\ Aged(e).value = e.value /\ Aged(e).ttl = e.ttl
           /\ Aged(e) = e \/ Aged(e).left = e.left - 1
           /\ Aged(e) = NoEntry <=> e = NoEntry
  <1>1. CASE ~(Limited(e) /\ e.left > 0)
    <2>1. Aged(e) = e  BY <1>1, Zenon DEF Aged
    <2>. QED  BY <2>1, Zenon
  <1>2. CASE Limited(e) /\ e.left > 0
    <2>1. Aged(e) = [e EXCEPT !.left = e.left - 1]  BY <1>2, Zenon DEF Aged
    <2>2. /\ Aged(e).version = e.version /\ Aged(e).tombstone = e.tombstone
          /\ Aged(e).value = e.value /\ Aged(e).ttl = e.ttl /\ Aged(e).left = e.left - 1
      BY <2>1, Zenon DEF Entry
    <2>3. Wire(k, Aged(e)) = Wire(k, e)  BY <2>2, Zenon DEF Wire
    <2>4. e # NoEntry /\ (e.tombstone \/ e.ttl > 0)  BY <1>2, Zenon DEF Limited
    <2>5. ~NoEntry.tombstone /\ ~(NoEntry.ttl > 0)  BY DEF NoEntry
    <2>6. Aged(e) # NoEntry  BY <2>2, <2>4, <2>5, Zenon
    <2>. QED  BY <2>2, <2>3, <2>4, <2>6, Zenon
  <1>. QED  BY <1>1, <1>2, Zenon

\* What a well-formed state is made of.
LEMMA ShapeFacts ==
    ASSUME Shape
    PROVE  /\ setup \in Setups /\ Author \in Member
           /\ \A n \in Member : RecordOK(member[n]) /\ member[n].max_state_version \in Nat
           /\ \A n \in Member, k \in Key :
                /\ member[n].entries[k] \in Entry /\ member[n].entries[k].version \in Nat
                /\ member[n].entries[k].version <= member[n].max_state_version
                /\ member[n].entries[k] # NoEntry => member[n].entries[k].version > 0
           /\ \A f \in net : FrameOK(f) /\ f.from \in Member /\ f.to \in Member /\ f.from # f.to
  <1>1. setup \in Setups /\ \A n \in Member : RecordOK(member[n])  BY Zenon DEF Shape, ShapeOf
  <1>2. Author \in Member  BY <1>1, SetupTypes, Zenon
  <1>3. \A n \in Member : member[n] \in Record  BY <1>1, Zenon DEF RecordOK
  <1>4. \A n \in Member : member[n].max_state_version \in Nat  BY <1>3, Zenon DEF Record
  <1>5. \A n \in Member, k \in Key : member[n].entries[k] \in Entry  BY <1>3, Zenon DEF Record
  <1>6. \A n \in Member, k \in Key : member[n].entries[k].version \in Nat  BY <1>5, Zenon DEF Entry
  <1>7. \A n \in Member, k \in Key :
                /\ member[n].entries[k].version <= member[n].max_state_version
                /\ member[n].entries[k] # NoEntry => member[n].entries[k].version > 0
    BY <1>1, Zenon DEF RecordOK
  <1>8. \A f \in net : FrameOK(f)  BY Zenon DEF Shape, ShapeOf
  <1>9. \A f \in net : f.from \in Member /\ f.to \in Member /\ f.from # f.to
    BY <1>8, Zenon DEF FrameOK
  <1>. QED  BY <1>1, <1>2, <1>4, <1>5, <1>6, <1>7, <1>8, <1>9, Zenon

\* The facts of a well-formed state, of the one a step leaves.
LEMMA PostFacts ==
    ASSUME setup \in Setups, NEW mem, NEW A, NEW nt, NEW bur, ShapeOf(mem, A, nt, bur)
    PROVE  /\ Author \in Member /\ A \subseteq Key
           /\ \A n \in Member : RecordOK(mem[n]) /\ mem[n].max_state_version \in Nat
           /\ \A n \in Member, k \in Key :
                /\ mem[n].entries[k] \in Entry /\ mem[n].entries[k].version \in Nat
                /\ mem[n].entries[k].version <= mem[n].max_state_version
                /\ mem[n].entries[k] # NoEntry => mem[n].entries[k].version > 0
           /\ \A f \in nt : FrameOK(f) /\ f.from \in Member /\ f.to \in Member /\ f.from # f.to
  <1>1. (\A n \in Member : RecordOK(mem[n])) /\ A \subseteq Key  BY Zenon DEF ShapeOf
  <1>2. Author \in Member  BY <1>1, SetupTypes, Zenon
  <1>3. \A n \in Member : mem[n] \in Record  BY <1>1, Zenon DEF RecordOK
  <1>4. \A n \in Member : mem[n].max_state_version \in Nat  BY <1>3, Zenon DEF Record
  <1>5. \A n \in Member, k \in Key : mem[n].entries[k] \in Entry  BY <1>3, Zenon DEF Record
  <1>6. \A n \in Member, k \in Key : mem[n].entries[k].version \in Nat  BY <1>5, Zenon DEF Entry
  <1>7. \A n \in Member, k \in Key :
                /\ mem[n].entries[k].version <= mem[n].max_state_version
                /\ mem[n].entries[k] # NoEntry => mem[n].entries[k].version > 0
    BY <1>1, Zenon DEF RecordOK
  <1>8. \A f \in nt : FrameOK(f)  BY Zenon DEF ShapeOf
  <1>9. \A f \in nt : f.from \in Member /\ f.to \in Member /\ f.from # f.to
    BY <1>8, Zenon DEF FrameOK
  <1>. QED  BY <1>1, <1>2, <1>4, <1>5, <1>6, <1>7, <1>8, <1>9, Zenon

-----------------------------------------------------------------------------
(* Copies.                                                                 *)

\* A copy of the author's stays one.
LEMMA CopyKept ==
    ASSUME setup \in Setups, NEW m, NEW r, RecordOK(m), RecordOK(r), NEW A0, NEW A, A0 \subseteq A,
           A \subseteq Key, AuthorLaw(m, r, A), NEW w \in WireEntry, CopyOK(m, A0, w)
    PROVE  CopyOK(r, A, w)
  <1>0. /\ w.version \in Nat /\ w.version > 0 /\ w.key \in Key
    <2>1. w.version \in Nat \ {0} /\ w.key \in Key  BY Zenon DEF WireEntry
    <2>. QED  BY <2>1
  <1>1. /\ m.max_state_version \in Nat /\ r.max_state_version \in Nat
        /\ \A k \in Key : m.entries[k].version \in Nat
    BY Zenon DEF RecordOK, Record, Entry
  <1>2. /\ w.key \in A /\ w.version <= m.max_state_version
        /\ m.entries[w.key] # NoEntry =>
            w.version < m.entries[w.key].version \/ w = Wire(w.key, m.entries[w.key])
        /\ \A k \in Key \ {w.key} : w.version # m.entries[k].version
    BY Zenon DEF CopyOK
  <1>3. CASE /\ r.max_state_version = m.max_state_version
             /\ \A k \in Key : SameOrDue(k, m.entries[k], r.entries[k])
    <2>1. ASSUME r.entries[w.key] # NoEntry
          PROVE  w.version < r.entries[w.key].version \/ w = Wire(w.key, r.entries[w.key])
      <3>1. /\ Wire(w.key, r.entries[w.key]) = Wire(w.key, m.entries[w.key])
            /\ m.entries[w.key] # NoEntry
        BY <1>0, <1>3, <2>1, Zenon DEF SameOrDue
      <3>2. r.entries[w.key].version = m.entries[w.key].version  BY <3>1, SameWire
      <3>. QED  BY <1>2, <3>1, <3>2, Zenon
    <2>2. ASSUME NEW k \in Key \ {w.key} PROVE w.version # r.entries[k].version
      <3>1. CASE Wire(k, r.entries[k]) = Wire(k, m.entries[k])
        <4>1. r.entries[k].version = m.entries[k].version  BY <3>1, SameWire
        <4>. QED  BY <1>2, <4>1, Zenon
      <3>2. CASE r.entries[k] = NoEntry
        <4>1. r.entries[k].version = 0  BY <3>2 DEF NoEntry
        <4>. QED  BY <1>0, <4>1
      <3>. QED  BY <1>3, <3>1, <3>2, Zenon DEF SameOrDue
    <2>. QED  BY <1>2, <1>3, <2>1, <2>2, Zenon DEF CopyOK
  <1>4. ASSUME NEW k \in A, r.max_state_version = m.max_state_version + 1,
               r.entries[k].version = r.max_state_version,
               \A j \in Key \ {k} : r.entries[j] = m.entries[j]
        PROVE  CopyOK(r, A, w)
    <2>1. w.version < r.max_state_version /\ w.version <= r.max_state_version
      BY <1>0, <1>1, <1>2, <1>4
    <2>2. w.version < r.entries[k].version /\ w.version # r.entries[k].version
      BY <1>0, <1>1, <1>4, <2>1
    <2>3. r.entries[w.key] # NoEntry =>
            w.version < r.entries[w.key].version \/ w = Wire(w.key, r.entries[w.key])
      <3>1. CASE w.key = k  BY <2>2, <3>1, Zenon
      <3>2. CASE w.key # k
        <4>1. r.entries[w.key] = m.entries[w.key]  BY <1>0, <1>4, <3>2, Zenon
        <4>. QED  BY <1>2, <4>1, Zenon
      <3>. QED  BY <3>1, <3>2, Zenon
    <2>4. \A j \in Key \ {w.key} : w.version # r.entries[j].version  BY <1>2, <1>4, <2>2, Zenon
    <2>. QED  BY <1>2, <2>1, <2>3, <2>4, Zenon DEF CopyOK
  <1>. QED  BY <1>3, <1>4, Zenon DEF AuthorLaw

\* The copy of a new write.
Written(mem, A, w) ==
    /\ w.key \in A /\ w = Wire(w.key, mem[Author].entries[w.key])
    /\ mem[Author].max_state_version = member[Author].max_state_version + 1
    /\ w.version = mem[Author].max_state_version
    /\ \A j \in Key \ {w.key} : mem[Author].entries[j] = member[Author].entries[j]

\* A step makes no other copies than those of a write.
LEMMA HeldCopies ==
    ASSUME Shape, NEW mem, NEW A, NEW nt, NEW bur, ShapeOf(mem, A, nt, bur), Law(mem, A, nt),
           NEW n \in Member, NEW k \in Key, mem[n].entries[k] # NoEntry
    PROVE  LET w == Wire(k, mem[n].entries[k]) IN
           w \in WireEntry /\ (w \in Copies(member, net) \/ Written(mem, A, w))
  <1>. DEFINE e == member[n].entries[k]
              d == mem[n].entries[k]
              w == Wire(k, d)
  <1>0. setup \in Setups  BY Zenon DEF Shape
  <1>1. d \in Entry /\ d.version > 0  BY <1>0, PostFacts
  <1>2. w \in WireEntry /\ w.key = k /\ w.version = d.version
    <2>. HIDE DEF d
    <2>1. w \in WireEntry  BY <1>1, WireType, Zenon
    <2>2. w.key = k /\ w.version = d.version  BY Zenon DEF Wire
    <2>. QED  BY <2>1, <2>2, Zenon
  <1>3. ASSUME SameOrDue(k, e, d) PROVE w \in Copies(member, net)
    <2>1. Wire(k, d) = Wire(k, e) /\ e # NoEntry  BY <1>3, Zenon DEF SameOrDue
    <2>2. member[n].entries[w.key] # NoEntry /\ w = Wire(w.key, member[n].entries[w.key])
      BY <1>2, <2>1, Zenon
    <2>. HIDE DEF w
    <2>. QED  BY <1>2, <2>2, Zenon DEF Copies
  <1>4. CASE n # Author
    <2>1. ObserverLaw(n, member[n], mem[n])  BY <1>4, Zenon DEF Law
    <2>2. ASSUME NEW f \in net, f.kind = "Delta", TakenOn(member[n], f, k, d)
          PROVE  w \in Copies(member, net)
      <3>1. CASE d = e  BY <1>3, <3>1, Zenon DEF SameOrDue
      <3>2. CASE \E x \in Carried(f, k) : d = AdoptWire(x)
        <4>1. PICK x \in f.entries : x.key = k /\ d = AdoptWire(x)  BY <3>2, Zenon DEF Carried
        <4>2. x \in WireEntry
          <5>1. FrameOK(f)  BY ShapeFacts, Zenon
          <5>. QED  BY <2>2, <5>1, Zenon DEF FrameOK
        <4>3. w = x  BY <1>0, <4>1, <4>2, AdoptWireFields, Zenon
        <4>. QED  BY <2>2, <4>1, <4>2, <4>3, Zenon DEF Copies
      <3>. QED  BY <2>2, <3>1, <3>2, Zenon DEF TakenOn
    <2>. HIDE DEF w, d, e
    <2>3. w \in Copies(member, net)  BY <1>3, <2>1, <2>2, Zenon DEF ObserverLaw, d, e
    <2>. QED  BY <1>2, <2>3, Zenon DEF w, d
  <1>5. CASE n = Author
    <2>1. AuthorLaw(member[n], mem[n], A)  BY <1>5, Zenon DEF Law
    <2>2. ASSUME NEW j \in A, mem[n].max_state_version = member[n].max_state_version + 1,
                 mem[n].entries[j].version = mem[n].max_state_version,
                 \A i \in Key \ {j} : mem[n].entries[i] = member[n].entries[i]
          PROVE  w \in Copies(member, net) \/ Written(mem, A, w)
      <3>1. CASE j # k
        <4>1. d = e  BY <2>2, <3>1, Zenon
        <4>. QED  BY <1>3, <4>1, Zenon DEF SameOrDue
      <3>2. CASE j = k
        <4>1. w.version = mem[n].max_state_version  BY <1>2, <2>2, <3>2, Zenon
        <4>. HIDE DEF w
        <4>2. w = Wire(w.key, mem[n].entries[w.key])  BY <1>2, Zenon DEF w
        <4>. QED  BY <1>2, <1>5, <2>2, <3>2, <4>1, <4>2, Zenon DEF Written
      <3>. QED  BY <3>1, <3>2, Zenon
    <2>. HIDE DEF w, d, e
    <2>3. w \in Copies(member, net) \/ Written(mem, A, w)
      BY <1>3, <2>1, <2>2, Zenon DEF AuthorLaw, d, e
    <2>. QED  BY <1>2, <2>3, Zenon DEF w, d
  <1>. QED  BY <1>4, <1>5, Zenon

LEMMA CopiesLaw ==
    ASSUME Shape, NEW mem, NEW A, NEW nt, NEW bur, ShapeOf(mem, A, nt, bur), Law(mem, A, nt),
           NEW w \in Copies(mem, nt)
    PROVE  w \in WireEntry /\ (w \in Copies(member, net) \/ Written(mem, A, w))
  <1>0. setup \in Setups  BY Zenon DEF Shape
  <1>1. w \in WireEntry /\ w.key \in Key  BY Zenon DEF Copies, WireEntry
  <1>2. CASE \E n \in Member : mem[n].entries[w.key] # NoEntry /\ w = Wire(w.key, mem[n].entries[w.key])
    BY <1>1, <1>2, HeldCopies, Zenon
  <1>3. CASE \E f \in nt : f.kind = "Delta" /\ w \in f.entries
    <2>1. PICK f \in nt : f.kind = "Delta" /\ w \in f.entries  BY <1>3, Zenon
    <2>2. CASE f \in net  BY <1>1, <2>1, <2>2, Zenon DEF Copies
    <2>3. CASE f \notin net
      <3>1. PICK have \in Nat : BuiltFrom(f, mem[f.from], have)
        BY <2>1, <2>3, Zenon DEF Law, FrameLaw
      <3>2. mem[f.from].entries[w.key] # NoEntry /\ w = Wire(w.key, mem[f.from].entries[w.key])
        BY <2>1, <3>1, Zenon DEF BuiltFrom
      <3>3. f.from \in Member  BY <1>0, <2>1, PostFacts
      <3>. QED  BY <1>1, <3>2, <3>3, HeldCopies, Zenon
    <2>. QED  BY <2>2, <2>3, Zenon
  <1>. QED  BY <1>2, <1>3, Zenon DEF Copies

\* Marks only rise, and no observer's passes what the author had.
LEMMA MarksLaw ==
    ASSUME Shape, FirstLife(member, authored, net), NEW mem, NEW A, NEW nt, NEW bur,
           ShapeOf(mem, A, nt, bur), Law(mem, A, nt)
    PROVE  /\ \A n \in Member : member[n].max_state_version <= mem[n].max_state_version
           /\ \A n \in Member \ {Author} : mem[n].max_state_version <= member[Author].max_state_version
  <1>0. setup \in Setups /\ Author \in Member  BY ShapeFacts, Zenon
  <1>1. \A n \in Member : /\ member[n].max_state_version \in Nat /\ mem[n].max_state_version \in Nat
                          /\ member[n].max_state_version <= member[Author].max_state_version
    BY <1>0, ShapeFacts, PostFacts, Zenon DEF FirstLife
  <1>2. member[Author].max_state_version <= mem[Author].max_state_version
    <2>. DEFINE a == member[Author].max_state_version
                b == mem[Author].max_state_version
    <2>1. b = a \/ b = a + 1  BY Zenon DEF Law, AuthorLaw
    <2>2. a \in Nat  BY <1>0, <1>1, Zenon
    <2>. HIDE DEF a, b
    <2>3. a <= b  BY <2>1, <2>2
    <2>. QED  BY <2>3, Zenon DEF a, b
  <1>3. ASSUME NEW n \in Member \ {Author}
        PROVE  /\ member[n].max_state_version <= mem[n].max_state_version
               /\ mem[n].max_state_version <= member[Author].max_state_version
    <2>. DEFINE a == member[n].max_state_version
                b == mem[n].max_state_version
                c == member[Author].max_state_version
    <2>0. a \in Nat /\ b \in Nat /\ c \in Nat /\ a <= c  BY <1>0, <1>1, Zenon
    <2>1. CASE b = a
      <3>. HIDE DEF a, b, c
      <3>1. a <= b /\ b <= c  BY <2>0, <2>1
      <3>. QED  BY <3>1, Zenon DEF a, b, c
    <2>2. CASE \E f \in net :
                /\ f.kind = "Delta" /\ a <= b
                /\ b \in {a, f.max} \/ \E w \in f.entries : b = w.version
      <3>1. PICK f \in net :
                /\ f.kind = "Delta" /\ a <= b
                /\ b \in {a, f.max} \/ \E w \in f.entries : b = w.version
        BY <2>2, Zenon
      <3>2. f.max <= c /\ \A w \in f.entries : w.version <= f.max
        BY <3>1, Zenon DEF FirstLife, FrameTrue
      <3>3. f.max \in Nat  BY <3>1, ShapeFacts, Zenon DEF FrameOK
      <3>. HIDE DEF a, b, c
      <3>4. b <= c  BY <2>0, <3>1, <3>2, <3>3
      <3>. QED  BY <3>1, <3>4, Zenon DEF a, b, c
    <2>. QED  BY <2>1, <2>2, ZenonT(30) DEF Law, ObserverLaw
  <1>. QED  BY <1>2, <1>3, Zenon

LEMMA WrittenCopy ==
    ASSUME Shape, NEW mem, NEW A, NEW nt, NEW bur, ShapeOf(mem, A, nt, bur),
           NEW w \in WireEntry, Written(mem, A, w)
    PROVE  CopyOK(mem[Author], A, w)
  <1>0. setup \in Setups /\ Author \in Member /\ w.key \in Key
    BY ShapeFacts, Zenon DEF WireEntry
  <1>. DEFINE a == member[Author].max_state_version
              b == mem[Author].max_state_version
  <1>1. a \in Nat /\ \A k \in Key : /\ member[Author].entries[k].version \in Nat
                                    /\ member[Author].entries[k].version <= a
    BY <1>0, ShapeFacts, Zenon
  <1>2. /\ w.key \in A /\ w = Wire(w.key, mem[Author].entries[w.key]) /\ b = a + 1 /\ w.version = b
        /\ \A j \in Key \ {w.key} : mem[Author].entries[j] = member[Author].entries[j]
    BY Zenon DEF Written
  <1>. HIDE DEF a, b
  <1>3. w.version <= b  BY <1>1, <1>2
  <1>4. \A j \in Key : w.version # member[Author].entries[j].version  BY <1>1, <1>2
  <1>5. \A j \in Key \ {w.key} : w.version # mem[Author].entries[j].version  BY <1>2, <1>4, Zenon
  <1>. QED  BY <1>2, <1>3, <1>5, Zenon DEF CopyOK, b

LEMMA FirstLifeKept ==
    ASSUME Shape, FirstLife(member, authored, net), NEW mem, NEW A, NEW nt, NEW bur,
           ShapeOf(mem, A, nt, bur), Law(mem, A, nt)
    PROVE  FirstLife(mem, A, nt)
  <1>0. /\ setup \in Setups /\ Author \in Member /\ A \subseteq Key
        /\ \A n \in Member : RecordOK(member[n]) /\ member[n].max_state_version \in Nat
        /\ \A n \in Member : RecordOK(mem[n]) /\ mem[n].max_state_version \in Nat
        /\ \A f \in nt : FrameOK(f) /\ f.from \in Member
    <2>1. setup \in Setups  BY Zenon DEF Shape
    <2>2. Author \in Member /\ \A n \in Member : RecordOK(member[n]) /\ member[n].max_state_version \in Nat
      BY ShapeFacts, Zenon
    <2>3. /\ A \subseteq Key
          /\ \A n \in Member : RecordOK(mem[n]) /\ mem[n].max_state_version \in Nat
          /\ \A f \in nt : FrameOK(f) /\ f.from \in Member
      BY <2>1, PostFacts, Zenon
    <2>. QED  BY <2>1, <2>2, <2>3, Zenon
  <1>. DEFINE a == member[Author].max_state_version
              b == mem[Author].max_state_version
  <1>1. /\ \A n \in Member : member[n].max_state_version <= mem[n].max_state_version
        /\ \A n \in Member \ {Author} : mem[n].max_state_version <= a
    BY MarksLaw, Zenon
  <1>2. a \in Nat /\ b \in Nat /\ a <= b  BY <1>0, <1>1, Zenon
  <1>. HIDE DEF a, b
  <1>3. \A n \in Member : mem[n].max_state_version <= b
    <2>1. \A n \in Member \ {Author} : mem[n].max_state_version <= b  BY <1>0, <1>1, <1>2
    <2>2. b <= b  BY <1>2
    <2>. QED  BY <2>1, <2>2, Zenon DEF b
  <1>4. ASSUME NEW w \in Copies(mem, nt) PROVE CopyOK(mem[Author], A, w)
    <2>1. w \in WireEntry /\ (w \in Copies(member, net) \/ Written(mem, A, w))
      BY CopiesLaw, Zenon
    <2>2. CASE w \in Copies(member, net)
      <3>1. CopyOK(member[Author], authored, w)  BY <2>2, Zenon DEF FirstLife
      <3>2. authored \subseteq A /\ AuthorLaw(member[Author], mem[Author], A)  BY Zenon DEF Law
      <3>3. RecordOK(member[Author]) /\ RecordOK(mem[Author])  BY <1>0, Zenon
      <3>4. PICK m, r, A0 : m = member[Author] /\ r = mem[Author] /\ A0 = authored  BY Zenon
      <3>5. CopyOK(r, A, w)  BY <1>0, <2>1, <3>1, <3>2, <3>3, <3>4, CopyKept
      <3>. QED  BY <3>4, <3>5, Zenon
    <2>3. CASE Written(mem, A, w)  BY <2>1, <2>3, WrittenCopy, Zenon
    <2>. QED  BY <2>1, <2>2, <2>3, Zenon
  <1>5. ASSUME NEW w \in Copies(mem, nt), NEW x \in Copies(mem, nt), w.key = x.key, w.version = x.version
        PROVE  w = x
    <2>1. /\ w \in WireEntry /\ (w \in Copies(member, net) \/ Written(mem, A, w))
          /\ x \in WireEntry /\ (x \in Copies(member, net) \/ Written(mem, A, x))
      BY CopiesLaw, Zenon
    <2>2. \A y \in Copies(member, net) : y.version <= a  BY Zenon DEF FirstLife, CopyOK, a
    <2>3. \A y : Written(mem, A, y) => y.version = a + 1 /\ y = Wire(y.key, mem[Author].entries[y.key])
      BY Zenon DEF Written, a
    <2>4. w.version \in Nat  BY <2>1, Zenon DEF WireEntry
    <2>5. ~(w.version <= a /\ w.version = a + 1)  BY <1>2, <2>4
    <2>6. CASE w \in Copies(member, net) /\ x \in Copies(member, net)
      BY <1>5, <2>6, Zenon DEF FirstLife
    <2>7. CASE Written(mem, A, w) /\ Written(mem, A, x)
      <3>1. w = Wire(w.key, mem[Author].entries[w.key]) /\ x = Wire(x.key, mem[Author].entries[x.key])
        BY <2>3, <2>7, Zenon
      <3>. QED  BY <1>5, <3>1, Zenon
    <2>. QED  BY <1>5, <2>1, <2>2, <2>3, <2>5, <2>6, <2>7, Zenon
  <1>6. ASSUME NEW f \in nt PROVE FrameTrue(mem, f)
    <2>0. FrameOK(f) /\ f.from \in Member  BY <1>0, Zenon
    <2>. DEFINE p == member[f.from].max_state_version
                q == mem[f.from].max_state_version
    <2>1. p \in Nat /\ q \in Nat /\ p <= q /\ q <= b  BY <1>0, <1>1, <1>3, <2>0, Zenon
    <2>2. f.kind = "Delta" =>
            f.max \in Nat /\ f.entries \in SUBSET WireEntry
      BY <2>0, Zenon DEF FrameOK
    <2>3. f.kind = "Digest" => f.max \in Nat  BY <2>0, Zenon DEF FrameOK
    <2>4. f.kind = "DeltaRequest" => f.have \in Nat  BY <2>0, Zenon DEF FrameOK
    <2>5. CASE f \in net
      <3>1. /\ f.kind = "Digest" => f.max <= p
            /\ f.kind = "DeltaRequest" => f.have <= p
            /\ f.kind = "Delta" => f.max <= a /\ \A w \in f.entries : w.version <= f.max
        BY <2>5, Zenon DEF FirstLife, FrameTrue, a
      <3>. HIDE DEF p, q
      <3>2. /\ f.kind = "Digest" => f.max <= q
            /\ f.kind = "DeltaRequest" => f.have <= q
            /\ f.kind = "Delta" => f.max <= b
        BY <1>2, <2>1, <2>2, <2>3, <2>4, <3>1
      <3>. QED  BY <3>1, <3>2, Zenon DEF FrameTrue, q, b
    <2>6. CASE f \notin net
      <3>1. FrameLaw(mem, f)  BY <2>6, Zenon DEF Law
      <3>2. ASSUME f.kind = "Delta" PROVE f.max <= b /\ \A w \in f.entries : w.version <= f.max
        <4>1. PICK have \in Nat : BuiltFrom(f, mem[f.from], have) /\ have <= b
          BY <3>1, <3>2, Zenon DEF FrameLaw, b
        <4>2. f.max <= q \/ f.max <= have  BY <4>1, Zenon DEF BuiltFrom
        <4>. HIDE DEF p, q
        <4>3. f.max <= b  BY <1>2, <2>1, <2>2, <3>2, <4>1, <4>2
        <4>. QED  BY <4>1, <4>3, Zenon DEF BuiltFrom
      <3>. QED  BY <3>1, <3>2, Zenon DEF FrameTrue, FrameLaw, b
    <2>. QED  BY <2>5, <2>6, Zenon
  <1>. QED  BY <1>3, <1>4, <1>5, <1>6, Zenon DEF FirstLife, b

-----------------------------------------------------------------------------
(* Marks.                                                                  *)

\* What a node holds at the author's version of a lasting entry is that entry.
LEMMA HoldsThatEntry ==
    ASSUME setup \in Setups, NEW mem, NEW A, NEW nt, NEW bur, ShapeOf(mem, A, nt, bur),
           FirstLife(mem, A, nt), NEW n \in Member, NEW k \in Key,
           Lasting(mem[Author].entries[k]),
           mem[n].entries[k].version = mem[Author].entries[k].version
    PROVE  /\ Wire(k, mem[n].entries[k]) = Wire(k, mem[Author].entries[k])
           /\ Lasting(mem[n].entries[k])
  <1>. DEFINE e == mem[Author].entries[k]
              x == mem[n].entries[k]
              w == Wire(k, x)
  <1>1. Author \in Member  BY PostFacts
  <1>2. e \in Entry /\ x \in Entry /\ e.version \in Nat /\ (e # NoEntry => e.version > 0)
    BY <1>1, PostFacts
  <1>3. e # NoEntry /\ ~(e.tombstone \/ e.ttl > 0) /\ x.version = e.version
    BY Zenon DEF Lasting, Limited
  <1>. HIDE DEF e, x
  <1>4. NoEntry.version = 0  BY DEF NoEntry
  <1>5. x.version > 0 /\ x # NoEntry  BY <1>2, <1>3, <1>4
  <1>6. w \in WireEntry  BY <1>2, <1>5, WireType, Zenon
  <1>7. w.key = k /\ w.version = x.version  BY Zenon DEF Wire
  <1>. HIDE DEF w
  <1>8. w \in Copies(mem, nt)
    <2>1. mem[n].entries[w.key] # NoEntry /\ w = Wire(w.key, mem[n].entries[w.key])
      BY <1>5, <1>7, Zenon DEF w, x
    <2>. QED  BY <1>6, <2>1, Zenon DEF Copies
  <1>9. w.version < e.version \/ w = Wire(k, e)
    <2>1. CopyOK(mem[Author], A, w)  BY <1>8, Zenon DEF FirstLife
    <2>2. mem[Author].entries[w.key] = e  BY <1>7, Zenon DEF e
    <2>. QED  BY <1>3, <1>7, <2>1, <2>2, Zenon DEF CopyOK
  <1>10. ~(w.version < e.version)  BY <1>2, <1>3, <1>7
  <1>11. Wire(k, x) = Wire(k, e)  BY <1>9, <1>10, Zenon DEF w
  <1>12. x.tombstone = e.tombstone /\ x.ttl = e.ttl  BY <1>11, SameWire
  <1>13. Lasting(x)  BY <1>3, <1>5, <1>12, Zenon DEF Lasting, Limited
  <1>. QED  BY <1>11, <1>13, Zenon DEF x, e

\* An author's lasting entry that is not new was there before.
LEMMA LastingBefore ==
    ASSUME Shape, NEW mem, NEW A, NEW nt, NEW bur, ShapeOf(mem, A, nt, bur), Law(mem, A, nt),
           NEW k \in Key, Lasting(mem[Author].entries[k]),
           mem[Author].entries[k].version <= member[Author].max_state_version
    PROVE  /\ Lasting(member[Author].entries[k])
           /\ member[Author].entries[k].version = mem[Author].entries[k].version
  <1>. DEFINE e == member[Author].entries[k]
              d == mem[Author].entries[k]
  <1>0. setup \in Setups /\ Author \in Member /\ member[Author].max_state_version \in Nat
    BY ShapeFacts, Zenon
  <1>1. d # NoEntry /\ ~(d.tombstone \/ d.ttl > 0)  BY Zenon DEF Lasting, Limited
  <1>2. AuthorLaw(member[Author], mem[Author], A)  BY Zenon DEF Law
  <1>3. CASE SameOrDue(k, e, d)
    <2>1. Wire(k, d) = Wire(k, e) /\ e # NoEntry  BY <1>1, <1>3, Zenon DEF SameOrDue
    <2>. HIDE DEF e, d
    <2>2. d.version = e.version /\ d.tombstone = e.tombstone /\ d.ttl = e.ttl
      BY <2>1, SameWire
    <2>3. Lasting(e)  BY <1>1, <2>1, <2>2, Zenon DEF Lasting, Limited
    <2>. QED  BY <2>2, <2>3, Zenon DEF e, d
  <1>4. ASSUME NEW j \in A, mem[Author].max_state_version = member[Author].max_state_version + 1,
               mem[Author].entries[j].version = mem[Author].max_state_version,
               \A i \in Key \ {j} : mem[Author].entries[i] = member[Author].entries[i]
        PROVE  d = e
    <2>1. ~(member[Author].max_state_version + 1 <= member[Author].max_state_version)  BY <1>0
    <2>2. j # k  BY <1>4, <2>1, Zenon
    <2>. QED  BY <1>4, <2>2, Zenon
  <1>5. CASE d = e  BY <1>5, Zenon
  <1>. QED  BY <1>2, <1>3, <1>4, <1>5, Zenon DEF AuthorLaw

\* Nothing a frame carries displaces an entry that is the author's own.
LEMMA NoneBeats ==
    ASSUME setup \in Setups, NEW e \in Entry, NEW x \in Entry, NEW w \in WireEntry, NEW k,
           Wire(k, x) = Wire(k, e), w.version < e.version \/ w = Wire(k, e)
    PROVE  ~Beats(w, x)
  <1>1. /\ x.version = e.version /\ x.tombstone = e.tombstone /\ x.value = e.value
    BY SameWire
  <1>2. x.version \in Nat /\ x.value \in Value \cup {0} /\ w.version \in Nat
    BY Zenon DEF Entry, WireEntry
  <1>3. CASE w.version < e.version
    <2>1. ~(w.version > x.version) /\ w.version # x.version  BY <1>1, <1>2, <1>3
    <2>. QED  BY <2>1, Zenon DEF Beats
  <1>4. CASE w = Wire(k, e)
    <2>1. w.version = e.version /\ w.tombstone = e.tombstone /\ w.value = e.value
      BY <1>4, Zenon DEF Wire
    <2>2. w.version = x.version /\ w.tombstone = x.tombstone /\ w.value = x.value
      BY <1>1, <2>1, Zenon
    <2>3. ~(x.version > x.version)  BY <1>2
    <2>4. ~(x.value > x.value)
      <3>1. Value \in SUBSET (Nat \ {0})  BY SetupTypes, Zenon
      <3>2. Value \cup {0} \subseteq Nat  BY <3>1
      <3>3. x.value \in Nat  BY <1>2, <3>2, Zenon
      <3>. QED  BY <3>3
    <2>. QED  BY <2>2, <2>3, <2>4, Zenon DEF Beats
  <1>. QED  BY <1>3, <1>4, Zenon

LEMMA CoverageKept ==
    ASSUME Shape, FirstLife(member, authored, net), Coverage(member, net), ~setup.eager_push,
           NEW mem, NEW A, NEW nt, NEW bur, ShapeOf(mem, A, nt, bur), Law(mem, A, nt),
           FirstLife(mem, A, nt)
    PROVE  Coverage(mem, nt)
  <1>0. /\ setup \in Setups /\ Author \in Member /\ ShapeOf(member, authored, net, buried)
        /\ \A n \in Member : member[n].max_state_version \in Nat
        /\ \A f \in net : FrameOK(f) /\ f.to \in Member
    BY ShapeFacts, Zenon DEF Shape
  <1>p. /\ \A n \in Member : mem[n].max_state_version \in Nat
        /\ \A n \in Member, k \in Key :
                /\ mem[n].entries[k] \in Entry /\ mem[n].entries[k].version \in Nat
                /\ mem[n].entries[k].version <= mem[n].max_state_version
        /\ \A f \in nt : FrameOK(f) /\ f.from \in Member /\ f.to \in Member
    BY <1>0, PostFacts
  <1>m. /\ \A n \in Member : member[n].max_state_version <= mem[n].max_state_version
        /\ \A n \in Member \ {Author} : mem[n].max_state_version <= member[Author].max_state_version
    BY MarksLaw, Zenon
  <1>1. ASSUME NEW n \in Member, NEW k \in Key, Lasting(mem[Author].entries[k]),
               mem[Author].entries[k].version <= mem[n].max_state_version
        PROVE  mem[n].entries[k].version = mem[Author].entries[k].version
    <2>1. CASE n = Author  BY <2>1, Zenon
    <2>2. CASE n # Author
      <3>. DEFINE e == member[Author].entries[k]
                  d == mem[Author].entries[k]
                  x == member[n].entries[k]
                  y == mem[n].entries[k]
                  p == member[n].max_state_version
                  q == mem[n].max_state_version
                  a == member[Author].max_state_version
      <3>1. p \in Nat /\ q \in Nat /\ a \in Nat /\ d.version \in Nat /\ q <= a /\ d.version <= q
        BY <1>0, <1>p, <1>m, <1>1, <2>2, Zenon
      <3>2. d.version <= a
        <4>. HIDE DEF d, q, a, p
        <4>. QED  BY <3>1
      <3>3. Lasting(e) /\ e.version = d.version  BY <1>1, <3>2, LastingBefore, Zenon
      <3>4. e \in Entry /\ x \in Entry /\ e.version \in Nat /\ e.version > 0 /\ x.version \in Nat
            /\ x.version <= p
        <4>1. e # NoEntry  BY <3>3, Zenon DEF Lasting
        <4>. QED  BY <1>0, <4>1, ShapeFacts, Zenon
      <3>5. ASSUME e.version <= p PROVE x.version = e.version /\ Wire(k, x) = Wire(k, e) /\ Lasting(x)
        <4>1. x.version = e.version  BY <3>3, <3>5, Zenon DEF Coverage
        <4>2. Wire(k, x) = Wire(k, e) /\ Lasting(x)  BY <1>0, <3>3, <4>1, HoldsThatEntry
        <4>. QED  BY <4>1, <4>2, Zenon
      <3>6. ObserverLaw(n, member[n], mem[n])  BY <2>2, Zenon DEF Law
      <3>7. CASE q = p /\ SameOrDue(k, x, y)
        <4>1. x.version = e.version /\ Lasting(x)  BY <3>1, <3>3, <3>5, <3>7, Zenon
        <4>2. Wire(k, y) = Wire(k, x)  BY <3>7, <4>1, Zenon DEF SameOrDue, Lasting, Due
        <4>. HIDE DEF x, y, e, d
        <4>3. y.version = x.version  BY <4>2, SameWire
        <4>4. y.version = d.version  BY <3>3, <4>1, <4>3, Zenon
        <4>. QED  BY <4>4, Zenon DEF y, d
      <3>8. ASSUME NEW f \in net, f.kind = "Delta", f.to = n,
                   \/ q \in {p, f.max}
                   \/ \E w \in f.entries : q = w.version,
                   TakenOn(member[n], f, k, y)
            PROVE  y.version = d.version
        <4>0. FrameOK(f) /\ f.max \in Nat /\ f.entries \in SUBSET WireEntry
              /\ \A w, z \in f.entries : w.key = z.key => w = z
          BY <1>0, <3>8, Zenon DEF FrameOK
        <4>1. \A w \in f.entries : w.version <= f.max /\ CopyOK(member[Author], authored, w)
          <5>1. FrameTrue(member, f)  BY Zenon DEF FirstLife
          <5>2. \A w \in f.entries : w \in Copies(member, net)  BY <3>8, <4>0, Zenon DEF Copies
          <5>. QED  BY <3>8, <5>1, <5>2, Zenon DEF FirstLife, FrameTrue
        <4>2. ASSUME NEW w \in Carried(f, k), x = NoEntry \/ Beats(w, x), y = AdoptWire(w)
              PROVE  y.version = d.version
          <5>1. w \in f.entries /\ w.key = k /\ w \in WireEntry /\ w.version \in Nat
            BY <4>0, Zenon DEF Carried, WireEntry
          <5>2. y.version = w.version  BY <1>0, <4>2, <5>1, AdoptWireFields
          <5>3. w.version < e.version \/ w = Wire(k, e)
            BY <3>3, <4>1, <5>1, Zenon DEF CopyOK, Lasting
          <5>4. CASE w = Wire(k, e)
            <6>1. w.version = e.version  BY <5>4, Zenon DEF Wire
            <6>. QED  BY <3>3, <5>2, <6>1, Zenon
          <5>5. CASE w.version < e.version
            <6>1. CASE e.version <= p
              <7>1. x.version = e.version /\ Wire(k, x) = Wire(k, e) /\ x # NoEntry
                BY <3>5, <6>1, Zenon DEF Lasting
              <7>. HIDE DEF x, e
              <7>2. ~Beats(w, x)  BY <1>0, <3>4, <5>1, <5>3, <7>1, NoneBeats, Zenon
              <7>. QED  BY <4>2, <7>1, <7>2, Zenon
            <6>2. CASE ~(e.version <= p)
              <7>1. e.version <= f.max
                <8>1. \A z \in f.entries : z.version \in Nat  BY <4>0, Zenon DEF WireEntry
                <8>. HIDE DEF e, d, p, q, a
                <8>2. q <= f.max \/ q = p  BY <3>1, <3>8, <4>0, <4>1
                <8>. QED  BY <3>1, <3>3, <3>4, <4>0, <6>2, <8>2
              <7>2. Covers(member, f)  BY <3>8, Zenon DEF Coverage
              <7>3. PICK z \in f.entries : z.key = k /\ z.version = e.version
                BY <3>3, <3>8, <6>2, <7>1, <7>2, Zenon DEF Covers
              <7>4. z = w  BY <4>0, <5>1, <7>3, Zenon
              <7>. QED  BY <3>3, <5>2, <7>3, <7>4, Zenon
            <6>. QED  BY <6>1, <6>2, Zenon
          <5>. QED  BY <5>3, <5>4, <5>5, Zenon
        <4>3. ASSUME y = x, \A w \in Carried(f, k) : x # NoEntry /\ ~Beats(w, x)
              PROVE  y.version = d.version
          <5>1. CASE e.version <= p  BY <3>3, <3>5, <4>3, <5>1, Zenon
          <5>2. CASE ~(e.version <= p)
            <6>1. e.version <= f.max
              <7>1. \A z \in f.entries : z.version \in Nat  BY <4>0, Zenon DEF WireEntry
              <7>. HIDE DEF e, d, p, q, a
              <7>2. q <= f.max \/ q = p  BY <3>1, <3>8, <4>0, <4>1
              <7>. QED  BY <3>1, <3>3, <3>4, <4>0, <5>2, <7>2
            <6>2. Covers(member, f)  BY <3>8, Zenon DEF Coverage
            <6>3. PICK z \in f.entries : z.key = k /\ z.version = e.version
              BY <3>3, <3>8, <5>2, <6>1, <6>2, Zenon DEF Covers
            <6>4. z.version > x.version
              <7>. HIDE DEF e, d, p, q, a, x
              <7>. QED  BY <3>1, <3>4, <5>2, <6>3
            <6>5. Beats(z, x) /\ z \in Carried(f, k)  BY <6>3, <6>4, Zenon DEF Beats, Carried
            <6>. QED  BY <4>3, <6>5, Zenon
          <5>. QED  BY <5>1, <5>2, Zenon
        <4>. QED  BY <3>8, <4>2, <4>3, Zenon DEF TakenOn
      <3>. QED  BY <3>6, <3>7, <3>8, Zenon DEF ObserverLaw
    <2>. QED  BY <2>1, <2>2, Zenon
  <1>2. ASSUME NEW f \in nt, f.kind = "Delta", NEW k \in Key, Lasting(mem[Author].entries[k]),
               mem[Author].entries[k].version <= f.max
        PROVE  \/ \E w \in f.entries : w.key = k /\ w.version = mem[Author].entries[k].version
               \/ mem[Author].entries[k].version <= mem[f.to].max_state_version
    <2>. DEFINE e == member[Author].entries[k]
                d == mem[Author].entries[k]
                r == mem[f.from]
                y == r.entries[k]
    <2>0. /\ FrameOK(f) /\ f.max \in Nat /\ f.to \in Member /\ f.from \in Member
          /\ d \in Entry /\ d.version \in Nat
      BY <1>0, <1>p, <1>2, Zenon DEF FrameOK
    <2>1. CASE f \in net
      <3>1. FrameTrue(member, f) /\ Covers(member, f)  BY <1>2, <2>1, Zenon DEF FirstLife, Coverage
      <3>2. f.max <= member[Author].max_state_version  BY <1>2, <3>1, Zenon DEF FrameTrue
      <3>3. d.version <= member[Author].max_state_version
        <4>. HIDE DEF d
        <4>1. d.version <= f.max  BY <1>2, Zenon DEF d
        <4>. QED  BY <1>0, <2>0, <3>2, <4>1
      <3>4. Lasting(e) /\ e.version = d.version  BY <1>2, <3>3, LastingBefore, Zenon
      <3>5. \/ \E w \in f.entries : w.key = k /\ w.version = e.version
            \/ e.version <= member[f.to].max_state_version
        BY <1>2, <3>1, <3>4, Zenon DEF Covers
      <3>6. CASE e.version <= member[f.to].max_state_version
        <4>1. /\ member[f.to].max_state_version \in Nat /\ mem[f.to].max_state_version \in Nat
              /\ member[f.to].max_state_version <= mem[f.to].max_state_version
          BY <1>0, <1>p, <1>m, <2>0, Zenon
        <4>2. d.version <= member[f.to].max_state_version  BY <3>4, <3>6, Zenon
        <4>. HIDE DEF d
        <4>3. d.version <= mem[f.to].max_state_version  BY <2>0, <4>1, <4>2
        <4>. QED  BY <4>3, Zenon DEF d
      <3>. QED  BY <3>4, <3>5, <3>6, Zenon
    <2>2. CASE f \notin net
      <3>1. PICK have \in Nat : BuiltFrom(f, r, have) /\ have <= mem[f.to].max_state_version
        BY <1>2, <2>2, Zenon DEF Law, FrameLaw
      <3>2. mem[f.to].max_state_version \in Nat /\ r.max_state_version \in Nat  BY <1>p, <2>0, Zenon
      <3>3. f.max <= r.max_state_version \/ f.max <= have  BY <3>1, Zenon DEF BuiltFrom
      <3>4. d.version <= f.max  BY <1>2, Zenon
      <3>5. CASE d.version <= have
        <4>. HIDE DEF d
        <4>1. d.version <= mem[f.to].max_state_version  BY <2>0, <3>1, <3>2, <3>5
        <4>. QED  BY <4>1, Zenon DEF d
      <3>6. CASE ~(d.version <= have)
        <4>1. have < d.version /\ d.version <= r.max_state_version
          <5>. HIDE DEF d, r
          <5>. QED  BY <2>0, <3>1, <3>2, <3>3, <3>4, <3>6
        <4>2. y.version = d.version  BY <1>1, <1>2, <2>0, <4>1, Zenon
        <4>3. Wire(k, y) = Wire(k, d) /\ Lasting(y)
          BY <1>0, <1>2, <2>0, <4>2, HoldsThatEntry
        <4>4. ShouldGossip(y)  BY <4>3, Zenon DEF ShouldGossip, Lasting, Limited, Due
        <4>5. ASSUME NEW j \in Key \ {k} PROVE r.entries[j].version # y.version
          <5>. DEFINE v == r.entries[j]
                      w == Wire(j, v)
          <5>1. v \in Entry /\ (v # NoEntry => v.version > 0)  BY <1>0, <2>0, PostFacts
          <5>2. NoEntry.version = 0 /\ d.version > 0
            <6>1. d # NoEntry  BY <1>2, Zenon DEF Lasting
            <6>2. d.version > 0  BY <1>0, <6>1, PostFacts
            <6>3. NoEntry.version = 0  BY DEF NoEntry
            <6>. QED  BY <6>2, <6>3, Zenon
          <5>. HIDE DEF v, d
          <5>3. CASE v = NoEntry
            <6>1. v.version # d.version  BY <2>0, <5>2, <5>3
            <6>. QED  BY <4>2, <6>1, Zenon DEF v
          <5>4. CASE v # NoEntry
            <6>1. w \in WireEntry  BY <5>1, <5>4, WireType, Zenon
            <6>2. w.key = j /\ w.version = v.version  BY Zenon DEF Wire
            <6>. HIDE DEF w
            <6>3. mem[f.from].entries[w.key] # NoEntry /\ w = Wire(w.key, mem[f.from].entries[w.key])
              BY <5>4, <6>2, Zenon DEF v, w
            <6>4. w \in Copies(mem, nt)  BY <2>0, <6>1, <6>3, Zenon DEF Copies
            <6>5. CopyOK(mem[Author], A, w)  BY <6>4, Zenon DEF FirstLife
            <6>6. w.version # d.version  BY <6>2, <6>5, Zenon DEF CopyOK, d
            <6>. QED  BY <4>2, <6>2, <6>6, Zenon DEF v
          <5>. QED  BY <5>3, <5>4, Zenon
        <4>6. Wire(k, y) \in f.entries
          BY <3>1, <3>4, <4>1, <4>2, <4>4, <4>5, Zenon DEF BuiltFrom
        <4>7. Wire(k, y).key = k /\ Wire(k, y).version = d.version  BY <4>2, Zenon DEF Wire
        <4>. QED  BY <4>6, <4>7, Zenon
      <3>. QED  BY <3>5, <3>6, Zenon
    <2>. QED  BY <2>1, <2>2, Zenon
  <1>. QED  BY <1>1, <1>2, Zenon DEF Coverage, Covers

-----------------------------------------------------------------------------
(* Tombstones.                                                             *)

\* What every copy had passed stays passed: only the author writes, and above it.
LEMMA PassedKept ==
    ASSUME Shape, NEW mem, NEW A, NEW nt, NEW bur, ShapeOf(mem, A, nt, bur), Law(mem, A, nt),
           NEW b \in Nat, b <= member[Author].max_state_version, NEW k \in Key,
           Passed(member, net, b, k)
    PROVE  Passed(mem, nt, b, k)
  <1>. SUFFICES ASSUME NEW w \in Copies(mem, nt), w.key = k PROVE Newer(b, w)
    BY Zenon DEF Passed
  <1>1. w \in WireEntry /\ (w \in Copies(member, net) \/ Written(mem, A, w))  BY CopiesLaw
  <1>2. CASE w \in Copies(member, net)  BY <1>2, Zenon DEF Passed
  <1>3. CASE Written(mem, A, w)
    <2>. DEFINE a == member[Author].max_state_version
    <2>1. w.version = a + 1  BY <1>3, Zenon DEF Written
    <2>2. a \in Nat  BY ShapeFacts, Zenon
    <2>3. b <= a  BY Zenon
    <2>. HIDE DEF a
    <2>4. w.version > b  BY <2>1, <2>2, <2>3
    <2>. QED  BY <2>4, Zenon DEF Newer
  <1>. QED  BY <1>1, <1>2, <1>3, Zenon

\* What follows for b of an entry that turns from e to d, in numbers only.
LEMMA StillRemembered ==
    ASSUME setup \in Setups, Ttl = 0, DeadTimeout > 0, NEW n, NEW k, NEW e \in Entry, NEW d \in Entry,
           NEW b \in Nat, NEW c \in Nat, NEW top \in Nat,
           top = member[Author].max_state_version, b <= top,
           e.tombstone => e.version <= b,
           e # NoEntry => e.version > 0,
           c = b => (e.version > b \/ (e.version = b /\ e.tombstone /\ e.left > DeadTimeout)),
           c > 0, Turn(n, k, e, d), BuryTurn(b, c, d)
    PROVE  d.version > c \/ (d.version = c /\ d.tombstone /\ d.left > DeadTimeout)
  <1>n. ~NoEntry.tombstone /\ NoEntry.version = 0  BY DEF NoEntry
  <1>e. /\ e.version \in Nat /\ d.version \in Nat /\ e.left \in Nat /\ e.ttl = 0
        /\ e.tombstone \in BOOLEAN /\ d.tombstone \in BOOLEAN
    <2>1. e.left \in Nat /\ e.ttl = 0  BY LeftType, Zenon
    <2>. QED  BY <2>1, Zenon DEF Entry
  <1>t. DeadTimeout \in Nat /\ 2 * DeadTimeout > DeadTimeout  BY SetupTypes
  <1>. DEFINE Goal == d.version > c \/ (d.version = c /\ d.tombstone /\ d.left > DeadTimeout)
  <1>w. ASSUME NEW w \in WireEntry, e = NoEntry \/ Beats(w, e), d = AdoptWire(w)
        PROVE  /\ d.version = w.version /\ d.tombstone = w.tombstone
               /\ d.tombstone => d.left > DeadTimeout
    BY <1>w, <1>t, AdoptWireFields
  <1>1. CASE c # b
    <2>1. d.tombstone /\ c = d.version /\ d.version > b
      <3>1. d.tombstone /\ c = d.version /\ b <= c  BY <1>1, Zenon DEF BuryTurn
      <3>. QED  BY <1>1, <3>1
    <2>2. d # e  BY <1>e, <2>1
    <2>3. d # NoEntry  BY <1>n, <2>1, Zenon
    <2>4. d.left > DeadTimeout  BY <1>t, <1>w, <2>1, <2>2, <2>3, Zenon DEF Turn
    <2>. QED  BY <2>1, <2>4, Zenon
  <1>2. CASE c = b
    <2>1. e.version > b \/ (e.version = b /\ e.tombstone /\ e.left > DeadTimeout)  BY <1>2, Zenon
    <2>2. e # NoEntry  BY <1>2, <1>e, <1>n, <2>1
    <2>3. CASE d = e  BY <1>2, <2>1, <2>3, Zenon
    <2>4. CASE Due(e) /\ d = NoEntry
      <3>1. (e.tombstone \/ e.ttl > 0) /\ e.left = 0  BY <2>4, Zenon DEF Due, Limited
      <3>2. e.tombstone /\ e.version <= b /\ ~(e.left > DeadTimeout)
        BY <1>e, <1>t, <3>1
      <3>. QED  BY <1>e, <2>1, <3>2
    <2>5. ASSUME NEW w \in WireEntry, e = NoEntry \/ Beats(w, e), d = AdoptWire(w) PROVE Goal
      <3>1. /\ d.version = w.version /\ d.tombstone = w.tombstone
            /\ d.tombstone => d.left > DeadTimeout
        BY <1>w, <2>5
      <3>2. w.version > e.version \/ w.version = e.version  BY <2>2, <2>5, Zenon DEF Beats
      <3>3. CASE w.version > e.version
        <4>1. d.version > b  BY <1>e, <2>1, <3>1, <3>3
        <4>. QED  BY <1>2, <4>1, Zenon
      <3>4. CASE w.version = e.version
        <4>1. CASE e.version > b  BY <1>2, <3>1, <3>4, <4>1, Zenon
        <4>2. CASE e.version = b /\ e.tombstone
          <5>1. w.tombstone
            <6>1. ~(w.version > e.version)  BY <1>e, <3>4
            <6>. QED  BY <2>2, <2>5, <4>2, <6>1, Zenon DEF Beats
          <5>. QED  BY <1>2, <3>1, <3>4, <4>2, <5>1
        <4>. QED  BY <2>1, <4>1, <4>2, Zenon
      <3>. QED  BY <3>2, <3>3, <3>4, Zenon
    <2>6. CASE n = Author /\ d.version = member[Author].max_state_version + 1
      <3>1. d.version = top + 1  BY <2>6, Zenon
      <3>2. d.version > c  BY <1>2, <3>1
      <3>. QED  BY <3>2, Zenon
    <2>. QED  BY <2>3, <2>4, <2>5, <2>6, Zenon DEF Turn
  <1>. QED  BY <1>1, <1>2, Zenon

\* A step other than time's keeps every tombstone remembered.
LEMMA TurnsRemembered ==
    ASSUME Shape, FirstLife(member, authored, net), Buries(member, net, buried),
           Ttl = 0, DeadTimeout > 0,
           NEW mem, NEW A, NEW nt, NEW bur, ShapeOf(mem, A, nt, bur), Law(mem, A, nt),
           FirstLife(mem, A, nt),
           \A n \in Member, k \in Key :
               /\ Turn(n, k, member[n].entries[k], mem[n].entries[k])
               /\ BuryTurn(buried[n][k], bur[n][k], mem[n].entries[k])
    PROVE  Buries(mem, nt, bur)
  <1>0. setup \in Setups /\ Author \in Member  BY ShapeFacts, Zenon
  <1>. SUFFICES ASSUME NEW n \in Member, NEW k \in Key
                PROVE  Remembers(mem, nt, bur[n][k], mem[n].entries[k], k)
    BY Zenon DEF Buries
  <1>. DEFINE e == member[n].entries[k]
              d == mem[n].entries[k]
              b == buried[n][k]
              c == bur[n][k]
              top == member[Author].max_state_version
              new == mem[Author].max_state_version
  <1>1. /\ b \in Nat /\ c \in Nat /\ top \in Nat /\ e \in Entry /\ d \in Entry
        /\ e # NoEntry => e.version > 0
    BY <1>0, ShapeFacts, PostFacts, Zenon DEF Shape, ShapeOf
  <1>2. new \in Nat /\ top <= new  BY <1>0, MarksLaw, PostFacts, Zenon
  <1>3. d.version \in Nat /\ d.version <= new
    <2>. DEFINE own == mem[n].max_state_version
    <2>1. d.version \in Nat /\ own \in Nat /\ d.version <= own  BY <1>0, PostFacts, Zenon
    <2>2. own <= new  BY Zenon DEF FirstLife
    <2>. HIDE DEF d, own, new
    <2>. QED  BY <1>2, <2>1, <2>2
  <1>4. /\ e.tombstone => e.version <= b
        /\ b <= top
        /\ b > 0 => \/ Passed(member, net, b, k) \/ e.version > b
                    \/ e.version = b /\ e.tombstone /\ e.left > DeadTimeout
    BY Zenon DEF Buries, Remembers
  <1>5. Turn(n, k, e, d) /\ BuryTurn(b, c, d)  BY Zenon
  <1>6. Passed(member, net, b, k) => Passed(mem, nt, b, k)  BY <1>1, <1>4, PassedKept, Zenon
  <1>7. top = member[Author].max_state_version  BY Zenon
  <1>. HIDE DEF e, d, b, c, top, new
  <1>8. d.tombstone => d.version <= c  BY <1>5, Zenon DEF BuryTurn
  <1>9. c <= new
    <2>1. c = b \/ c = d.version  BY <1>5, Zenon DEF BuryTurn
    <2>. QED  BY <1>1, <1>2, <1>3, <1>4, <2>1
  <1>10. ASSUME c > 0
         PROVE  \/ Passed(mem, nt, c, k) \/ d.version > c
                \/ d.version = c /\ d.tombstone /\ d.left > DeadTimeout
    <2>1. CASE c = b /\ Passed(member, net, b, k)  BY <1>6, <2>1, Zenon
    <2>2. CASE ~(c = b /\ Passed(member, net, b, k))
      <3>1. c = b => (e.version > b \/ (e.version = b /\ e.tombstone /\ e.left > DeadTimeout))
        BY <1>4, <1>10, <2>2, Zenon
      <3>2. d.version > c \/ (d.version = c /\ d.tombstone /\ d.left > DeadTimeout)
        BY <1>0, <1>1, <1>4, <1>5, <1>7, <1>10, <3>1, StillRemembered
      <3>. QED  BY <3>2, Zenon
    <2>. QED  BY <2>1, <2>2, Zenon
  <1>. QED  BY <1>8, <1>9, <1>10, Zenon DEF Remembers, d, c, new

\* Time keeps every tombstone remembered: one that stops being gossiped has
\* reached every node, so that nothing older is left.
LEMMA AgesRemembered ==
    ASSUME Shape, FirstLife(member, authored, net), Buries(member, net, buried),
           NEW mem, NEW A, NEW nt, NEW bur, ShapeOf(mem, A, nt, bur), Law(mem, A, nt),
           FirstLife(mem, A, nt),
           \A n \in Member, k \in Key : mem[n].entries[k] = Aged(member[n].entries[k]),
           nt = {}, bur = buried, ~Overtaken
    PROVE  Buries(mem, nt, bur)
  <1>0. /\ setup \in Setups /\ Author \in Member
        /\ \A p \in Member : RecordOK(member[p])
        /\ \A p \in Member, j \in Key : member[p].entries[j] \in Entry
    BY ShapeFacts, Zenon
  <1>. SUFFICES ASSUME NEW n \in Member, NEW k \in Key
                PROVE  Remembers(mem, nt, bur[n][k], mem[n].entries[k], k)
    BY Zenon DEF Buries
  <1>. DEFINE e == member[n].entries[k]
              d == mem[n].entries[k]
              b == buried[n][k]
              top == member[Author].max_state_version
              new == mem[Author].max_state_version
  <1>3. b \in Nat /\ top \in Nat /\ e \in Entry
    BY <1>0, ShapeFacts, Zenon DEF Shape, ShapeOf
  <1>4. new \in Nat /\ top <= new  BY <1>0, MarksLaw, PostFacts, Zenon
  <1>5. /\ e.tombstone => e.version <= b
        /\ b <= top
        /\ b > 0 => \/ Passed(member, net, b, k) \/ e.version > b
                    \/ e.version = b /\ e.tombstone /\ e.left > DeadTimeout
    BY Zenon DEF Buries, Remembers
  <1>6. Passed(member, net, b, k) => Passed(mem, nt, b, k)  BY <1>3, <1>5, PassedKept, Zenon
  <1>7. d = Aged(e)  BY Zenon
  <1>8. b <= new
    <2>. HIDE DEF b, top, new
    <2>. QED  BY <1>3, <1>4, <1>5
  <1>9. /\ Aged(e).version = e.version /\ Aged(e).tombstone = e.tombstone
        /\ Aged(e) = e \/ Aged(e).left = e.left - 1
    <2>. HIDE DEF e
    <2>. QED  BY <1>0, <1>3, AgedFields
  <1>10. ASSUME b > 0, e.version = b, e.tombstone, e.left = DeadTimeout + 1
         PROVE  Passed(mem, nt, b, k)
    <2>. SUFFICES ASSUME NEW w \in Copies(mem, nt), w.key = k PROVE Newer(b, w)
      BY Zenon DEF Passed
    <2>1. PICK p \in Member : mem[p].entries[k] # NoEntry /\ w = Wire(k, mem[p].entries[k])
      BY Zenon DEF Copies
    <2>. DEFINE x == member[p].entries[k]
    <2>2. mem[p].entries[k] = Aged(x) /\ x \in Entry  BY <1>0, Zenon
    <2>3. ~(x.version < e.version)
      BY <1>10, Zenon DEF Overtaken, Held
    <2>. HIDE DEF x
    <2>4. Aged(x).version = x.version  BY <1>0, <2>2, AgedFields
    <2>5. w.version = x.version
      <3>1. w = Wire(k, Aged(x))  BY <2>1, <2>2, Zenon
      <3>2. Wire(k, Aged(x)).version = Aged(x).version  BY Zenon DEF Wire
      <3>. QED  BY <2>4, <3>1, <3>2, Zenon
    <2>6. x.version \in Nat  BY <2>2, Zenon DEF Entry
    <2>7. ~(x.version < b)  BY <1>10, <2>3, Zenon
    <2>. HIDE DEF b
    <2>8. w.version > b \/ w.version = b  BY <1>3, <2>5, <2>6, <2>7
    <2>9. CASE w.version > b  BY <2>9, Zenon DEF Newer
    <2>10. CASE w.version = b
      <3>. DEFINE v == Wire(k, d)
      <3>1. d \in Entry /\ (d # NoEntry => d.version > 0) /\ d.tombstone
        BY <1>0, <1>7, <1>9, <1>10, PostFacts, Zenon
      <3>2. d # NoEntry
        <4>1. ~NoEntry.tombstone  BY DEF NoEntry
        <4>. QED  BY <3>1, <4>1, Zenon
      <3>3. v \in WireEntry
        <4>. HIDE DEF d
        <4>. QED  BY <3>1, <3>2, WireType, Zenon
      <3>4. v.key = k /\ v.version = d.version /\ v.tombstone = d.tombstone  BY Zenon DEF Wire
      <3>5. v \in Copies(mem, nt)
        <4>1. mem[n].entries[v.key] # NoEntry /\ v = Wire(v.key, mem[n].entries[v.key])
          BY <3>2, <3>4, Zenon
        <4>. HIDE DEF v
        <4>. QED  BY <3>3, <4>1, Zenon DEF Copies
      <3>6. v.version = b  BY <1>7, <1>9, <1>10, <3>4, Zenon
      <3>. HIDE DEF v, d
      <3>7. w = v  BY <2>10, <3>4, <3>5, <3>6, Zenon DEF FirstLife
      <3>. QED  BY <2>10, <3>1, <3>4, <3>7, Zenon DEF Newer
    <2>. QED  BY <2>8, <2>9, <2>10, Zenon
  <1>. HIDE DEF e, d, b
  <1>11. ASSUME b > 0
         PROVE  \/ Passed(mem, nt, b, k) \/ d.version > b
                \/ d.version = b /\ d.tombstone /\ d.left > DeadTimeout
    <2>1. CASE Passed(member, net, b, k)  BY <1>6, <2>1, Zenon
    <2>2. CASE e.version > b
      <3>1. d.version > b  BY <1>7, <1>9, <2>2, Zenon
      <3>. QED  BY <3>1, Zenon
    <2>3. CASE e.version = b /\ e.tombstone /\ e.left > DeadTimeout
      <3>1. d.version = b /\ d.tombstone  BY <1>7, <1>9, <2>3, Zenon
      <3>2. e.left \in Nat /\ DeadTimeout \in Nat  BY <1>0, <1>3, SetupTypes, LeftType, Zenon
      <3>3. d.left > DeadTimeout \/ e.left = DeadTimeout + 1  BY <1>7, <1>9, <2>3, <3>2
      <3>. QED  BY <1>10, <1>11, <2>3, <3>1, <3>3, Zenon
    <2>. QED  BY <1>5, <1>11, <2>1, <2>2, <2>3, Zenon
  <1>12. d.tombstone => d.version <= b  BY <1>5, <1>7, <1>9
  <1>. QED  BY <1>8, <1>11, <1>12, Zenon DEF Remembers, d, b

-----------------------------------------------------------------------------
(* What is said of a state is a matter of the deployment, which never changes. *)

\* The shape of a state is a matter of the deployment, which never changes.
LEMMA ShapeStays ==
    ASSUME setup' = setup, NEW mem, NEW A, NEW nt, NEW bur, ShapeOf(mem, A, nt, bur)
    PROVE  ShapeOf(mem, A, nt, bur)'
  <1>1. /\ Key' = Key /\ Member' = Member /\ Value' = Value /\ Ttl' = Ttl
        /\ DeadTimeout' = DeadTimeout
    BY Zenon DEF Key, Member, Observer, Value, Ttl, DeadTimeout
  <1>2. Entry' = Entry /\ WireEntry' = WireEntry  BY <1>1, Zenon DEF Entry, WireEntry
  <1>3. Record' = Record  BY <1>1, <1>2, Zenon DEF Record
  <1>4. ASSUME NEW m, RecordOK(m) PROVE RecordOK(m)'  BY <1>1, <1>3, <1>4, Zenon DEF RecordOK
  <1>5. ASSUME NEW f, FrameOK(f) PROVE FrameOK(f)'  BY <1>1, <1>2, <1>5, Zenon DEF FrameOK
  <1>6. \A n \in Member : RecordOK(mem[n])'  BY <1>4, Zenon DEF ShapeOf
  <1>7. \A f \in nt : FrameOK(f)'  BY <1>5, Zenon DEF ShapeOf
  <1>. QED  BY <1>1, <1>6, <1>7, Zenon DEF ShapeOf

\* What is said of a state is a matter of the deployment, which never changes.
LEMMA CopiesStay ==
    ASSUME setup' = setup, NEW mem, NEW nt
    PROVE  /\ Copies(mem, nt)' = Copies(mem, nt) /\ Key' = Key /\ Member' = Member
           /\ DeadTimeout' = DeadTimeout
  <1>1. /\ Key' = Key /\ Member' = Member /\ Value' = Value /\ Ttl' = Ttl
        /\ DeadTimeout' = DeadTimeout
    BY Zenon DEF Key, Member, Observer, Value, Ttl, DeadTimeout
  <1>2. WireEntry' = WireEntry  BY <1>1, Zenon DEF WireEntry
  <1>3. Copies(mem, nt)' = Copies(mem, nt)  BY <1>1, <1>2, Zenon DEF Copies
  <1>. QED  BY <1>1, <1>3, Zenon

LEMMA FirstLifeNext ==
    ASSUME setup' = setup, NEW mem, NEW A, NEW nt, FirstLife(mem, A, nt),
           mem = member', A = authored', nt = net'
    PROVE  FirstLife(member, authored, net)'
  <1>1. Copies(mem, nt)' = Copies(mem, nt) /\ Key' = Key /\ Member' = Member  BY CopiesStay, Zenon
  <1>2. Copies(member, net)' = Copies(mem, nt)  BY <1>1, Zenon DEF Copies
  <1>3. ASSUME NEW w, CopyOK(mem[Author], A, w) PROVE CopyOK(member[Author], authored, w)'
    BY <1>1, <1>3, Zenon DEF CopyOK
  <1>4. ASSUME NEW f, FrameTrue(mem, f) PROVE FrameTrue(member, f)'  BY <1>4, Zenon DEF FrameTrue
  <1>5. \A w \in Copies(mem, nt) : CopyOK(member[Author], authored, w)'  BY <1>3, Zenon DEF FirstLife
  <1>6. \A f \in nt : FrameTrue(member, f)'  BY <1>4, Zenon DEF FirstLife
  <1>7. \A n \in Member : mem[n].max_state_version <= mem[Author].max_state_version
    BY Zenon DEF FirstLife
  <1>8. \A w, x \in Copies(mem, nt) : w.key = x.key /\ w.version = x.version => w = x
    BY Zenon DEF FirstLife
  <1>9. (\A n \in Member : member[n].max_state_version <= member[Author].max_state_version)'
    BY <1>1, <1>7, Zenon
  <1>10. (\A w \in Copies(member, net) : CopyOK(member[Author], authored, w))'  BY <1>2, <1>5, Zenon
  <1>11. (\A w, x \in Copies(member, net) : w.key = x.key /\ w.version = x.version => w = x)'
    <2>1. PICK C : C = Copies(mem, nt)  BY Zenon
    <2>2. C = Copies(member, net)' /\ \A w, x \in C : w.key = x.key /\ w.version = x.version => w = x
      BY <1>2, <1>8, <2>1, Zenon
    <2>. QED  BY <2>2, Zenon
  <1>12. (\A f \in net : FrameTrue(member, f))'  BY <1>6, Zenon
  <1>. QED  BY <1>9, <1>10, <1>11, <1>12, Zenon DEF FirstLife

LEMMA CoverageNext ==
    ASSUME setup' = setup, NEW mem, NEW nt, Coverage(mem, nt), mem = member', nt = net'
    PROVE  Coverage(member, net)'
  <1>1. Key' = Key /\ Member' = Member  BY CopiesStay, Zenon
  <1>2. ASSUME NEW f, Covers(mem, f) PROVE Covers(member, f)'  BY <1>1, <1>2, Zenon DEF Covers
  <1>3. \A f \in nt : f.kind = "Delta" => Covers(member, f)'  BY <1>2, Zenon DEF Coverage
  <1>. QED  BY <1>1, <1>3, Zenon DEF Coverage

LEMMA BuriesNext ==
    ASSUME setup' = setup, NEW mem, NEW nt, NEW bur, Buries(mem, nt, bur),
           mem = member', nt = net', bur = buried'
    PROVE  Buries(member, net, buried)'
  <1>1. /\ Copies(mem, nt)' = Copies(mem, nt) /\ Key' = Key /\ Member' = Member
        /\ DeadTimeout' = DeadTimeout
    BY CopiesStay, Zenon
  <1>2. Copies(member, net)' = Copies(mem, nt)  BY <1>1, Zenon DEF Copies
  <1>. SUFFICES ASSUME NEW n \in Member, NEW k \in Key
                PROVE  Remembers(member, net, buried[n][k], member[n].entries[k], k)'
    BY <1>1, Zenon DEF Buries
  <1>3. PICK b, e, top : b = bur[n][k] /\ e = mem[n].entries[k] /\ top = mem[Author].max_state_version
    BY Zenon
  <1>4. b = buried'[n][k] /\ e = member'[n].entries[k] /\ top = member'[Author].max_state_version
    BY <1>3, Zenon
  <1>5. Remembers(mem, nt, b, e, k)  BY <1>3, Zenon DEF Buries
  <1>6. /\ e.tombstone => e.version <= b
        /\ b <= top
        /\ b > 0 => \/ Passed(mem, nt, b, k) \/ e.version > b
                    \/ e.version = b /\ e.tombstone /\ e.left > DeadTimeout
    BY <1>3, <1>5, Zenon DEF Remembers
  <1>7. Passed(mem, nt, b, k) => Passed(member, net, buried[n][k], k)'
    BY <1>2, <1>4, Zenon DEF Passed, Newer
  <1>. QED  BY <1>1, <1>4, <1>6, <1>7, Zenon DEF Remembers

LEMMA NoTombstonesNext ==
    ASSUME setup' = setup, NEW mem, NEW nt, NEW bur, NoTombstones(mem, nt, bur),
           mem = member', nt = net', bur = buried'
    PROVE  NoTombstones(member, net, buried)'
  <1>1. Copies(mem, nt)' = Copies(mem, nt) /\ Key' = Key /\ Member' = Member  BY CopiesStay, Zenon
  <1>2. Copies(member, net)' = Copies(mem, nt)  BY <1>1, Zenon DEF Copies
  <1>. QED  BY <1>1, <1>2, Zenon DEF NoTombstones
=============================================================================
