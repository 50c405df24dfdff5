---------------------------- MODULE EntriesSteps -----------------------------
(***************************************************************************)
(* What the operators of Entries return, what each handler does in their   *)
(* terms, and that each handler obeys the laws of EntriesInvariants.       *)
(***************************************************************************)
EXTENDS EntriesInvariants, TLAPS, FiniteSetTheorems

-----------------------------------------------------------------------------
(* Maxima of finite sets, and the images they are taken of.                *)

\* A finite set of numbers has a largest one.
LEMMA MaxNat ==
    ASSUME NEW S \in SUBSET Nat, IsFiniteSet(S), S # {}
    PROVE  Max(S) \in S /\ \A x \in S : x <= Max(S)
  <1>. DEFINE Above(x) == {y \in S : y > x}
              T == {Above(x) : x \in S}
  <1>1. T \subseteq FiniteSubsetsOf(S)
    <2>. SUFFICES ASSUME NEW x \in S PROVE Above(x) \in FiniteSubsetsOf(S)
      BY Zenon
    <2>1. Above(x) \in SUBSET S  BY Zenon
    <2>2. IsFiniteSet(Above(x))  BY <2>1, FS_Subset, Zenon
    <2>. QED  BY <2>1, <2>2, Zenon DEF FiniteSubsetsOf
  <1>2. T # {}  BY Zenon
  <1>3. PICK a \in T : \A b \in T : <<b, a>> \notin StrictSubsetOrdering(S)
    <2>. HIDE DEF T
    <2>. QED  BY <1>1, <1>2, FS_StrictSubsetOrderingWellFounded, WFMin, Zenon
  <1>4. PICK x \in S : a = Above(x)  BY Zenon
  <1>5. \A y \in S : y <= x
    <2>. SUFFICES ASSUME NEW y \in S, y > x PROVE FALSE  BY SMT
    <2>0. (\A z \in S : z > y => z > x) /\ ~(y > y)
      <3>. HIDE DEF T
      <3>. QED  BY SMT
    <2>1. Above(y) \subseteq Above(x) /\ y \in Above(x) /\ y \notin Above(y)  BY <2>0, Zenon
    <2>2. Above(y) \in SUBSET S /\ Above(x) \in SUBSET S /\ Above(y) \in T  BY Zenon
    <2>. HIDE DEF Above
    <2>3. Above(y) # Above(x)  BY <2>1, Zenon
    <2>. QED  BY <1>3, <1>4, <2>1, <2>2, <2>3, ZenonT(30) DEF StrictSubsetOrdering
  <1>6. \E z \in S : \A y \in S : z >= y  BY <1>5, SMT
  <1>7. Max(S) \in S /\ \A y \in S : Max(S) >= y  BY <1>6, Zenon DEF Max
  <1>. HIDE DEF T
  <1>. QED  BY <1>7, SMT

\* What a function takes a finite set onto is finite, and so is a pair.
LEMMA ImageFinite ==
    ASSUME NEW S, IsFiniteSet(S), NEW T, NEW g \in [S -> T], \A t \in T : \E x \in S : g[x] = t
    PROVE  IsFiniteSet(T)
  <1>1. g \in Surjection(S, T)  BY Zenon DEF Surjection
  <1>. QED  BY <1>1, FS_Surjection, Zenon

LEMMA PairFinite ==
    ASSUME NEW a, NEW b
    PROVE  IsFiniteSet({a, b})
  <1>1. {a, b} = {a} \cup {b}  BY Zenon
  <1>2. IsFiniteSet({a}) /\ IsFiniteSet({b})  BY FS_Singleton, Zenon
  <1>. QED  BY <1>1, <1>2, FS_Union, Zenon

-----------------------------------------------------------------------------
(* What the operators of the model return.                                 *)

\* The deployment's own facts.
LEMMA SetupFacts ==
    ASSUME setup \in Setups
    PROVE  /\ Key \in SUBSET Nat /\ IsFiniteSet(Key) /\ Author \in Member
           /\ Value \in SUBSET (Nat \ {0}) /\ Ttl \in Nat /\ DeadTimeout \in Nat
           /\ setup.budget \in Nat
           /\ Max({2 * DeadTimeout, Ttl}) \in Nat
           /\ 2 * DeadTimeout <= Max({2 * DeadTimeout, Ttl}) /\ Ttl <= Max({2 * DeadTimeout, Ttl})
  <1>1. setup \in Setup /\ IsFiniteSet(setup.keys)  BY EntriesAssumption, Zenon
  <1>2. /\ Key \in SUBSET Nat /\ IsFiniteSet(Key) /\ Author \in Member
        /\ Value \in SUBSET (Nat \ {0}) /\ Ttl \in Nat /\ DeadTimeout \in Nat
        /\ setup.budget \in Nat
    BY <1>1 DEF Setup, Key, Member, Value, Ttl, DeadTimeout
  <1>3. {2 * DeadTimeout, Ttl} \in SUBSET Nat /\ {2 * DeadTimeout, Ttl} # {}  BY <1>2, SMT
  <1>4. IsFiniteSet({2 * DeadTimeout, Ttl})  BY PairFinite, Zenon
  <1>5. /\ Max({2 * DeadTimeout, Ttl}) \in {2 * DeadTimeout, Ttl}
        /\ \A x \in {2 * DeadTimeout, Ttl} : x <= Max({2 * DeadTimeout, Ttl})
    BY <1>3, <1>4, MaxNat, Zenon
  <1>. QED  BY <1>2, <1>3, <1>5, Zenon

\* What a well-formed state is made of.
LEMMA StateFacts ==
    ASSUME Shape
    PROVE  /\ setup \in Setups /\ Author \in Member
           /\ \A n \in Member : RecordOK(member[n]) /\ member[n].max_state_version \in Nat
           /\ \A n \in Member, k \in Key :
                /\ member[n].entries[k] \in Entry /\ member[n].entries[k].version \in Nat
                /\ member[n].entries[k].version <= member[n].max_state_version
                /\ member[n].entries[k] # NoEntry => member[n].entries[k].version > 0
           /\ \A f \in net : FrameOK(f) /\ f.from \in Member /\ f.to \in Member /\ f.from # f.to
  <1>1. setup \in Setups /\ \A n \in Member : RecordOK(member[n])  BY Zenon DEF Shape, ShapeOf
  <1>2. Author \in Member  BY <1>1, SetupFacts, Zenon
  <1>3. \A n \in Member : member[n] \in Record  BY <1>1, Zenon DEF RecordOK
  <1>4. \A n \in Member : member[n].max_state_version \in Nat  BY <1>3, Zenon DEF Record
  <1>5. \A n \in Member, k \in Key : member[n].entries[k] \in Entry  BY <1>3, Zenon DEF Record
  <1>6. \A n \in Member, k \in Key : member[n].entries[k].version \in Nat  BY <1>5, Zenon DEF Entry
  <1>7. \A n \in Member, k \in Key :
                /\ member[n].entries[k].version <= member[n].max_state_version
                /\ member[n].entries[k] # NoEntry => member[n].entries[k].version > 0
    BY <1>1, Zenon DEF RecordOK
  <1>8. \A f \in net : FrameOK(f)  BY Zenon DEF Shape, ShapeOf
  <1>9. \A f \in net : f.from \in Member /\ f.to \in Member /\ f.from # f.to
    BY <1>8, Zenon DEF FrameOK
  <1>. QED  BY <1>1, <1>2, <1>4, <1>5, <1>6, <1>7, <1>8, <1>9, Zenon

\* An entry taken on is well-formed.
LEMMA AdoptedType ==
    ASSUME setup \in Setups, NEW v \in Nat, NEW x \in Value \cup {0}, NEW t \in {0, Ttl},
           NEW b \in BOOLEAN
    PROVE  /\ Adopted(v, x, t, b) \in Entry
           /\ Adopted(v, x, t, b).version = v /\ Adopted(v, x, t, b).value = x
           /\ Adopted(v, x, t, b).ttl = t /\ Adopted(v, x, t, b).tombstone = b
           /\ b => Adopted(v, x, t, b).left = 2 * DeadTimeout
  <1>. DEFINE left == IF b THEN 2 * DeadTimeout ELSE t
  <1>1. left \in 0 .. Max({2 * DeadTimeout, Ttl})
    <2>1. 2 * DeadTimeout \in Nat /\ t \in Nat /\ t <= Max({2 * DeadTimeout, Ttl})
      BY SetupFacts
    <2>2. left \in Nat /\ left <= Max({2 * DeadTimeout, Ttl})  BY <2>1, SetupFacts, Zenon
    <2>. QED  BY <2>2, SetupFacts
  <1>. HIDE DEF left
  <1>2. Adopted(v, x, t, b) =
          [version |-> v, value |-> x, ttl |-> t, tombstone |-> b, left |-> left]
    BY Zenon DEF Adopted, left
  <1>3. [version |-> v, value |-> x, ttl |-> t, tombstone |-> b, left |-> left] \in Entry
    BY <1>1, Zenon DEF Entry
  <1>. QED  BY <1>2, <1>3 DEF left

LEMMA NoEntryType ==
    ASSUME setup \in Setups
    PROVE  NoEntry \in Entry
  <1>1. 0 \in 0 .. Max({2 * DeadTimeout, Ttl})  BY SetupFacts
  <1>2. 0 \in Nat /\ 0 \in Value \cup {0} /\ 0 \in {0, Ttl} /\ FALSE \in BOOLEAN  OBVIOUS
  <1>. QED  BY <1>1, <1>2, Zenon DEF NoEntry, Entry

\* What a frame carries is taken on as it was sent.
LEMMA AdoptWireType ==
    ASSUME setup \in Setups, NEW w \in WireEntry
    PROVE  /\ AdoptWire(w) \in Entry /\ Wire(w.key, AdoptWire(w)) = w
           /\ AdoptWire(w).version = w.version /\ AdoptWire(w).tombstone = w.tombstone
           /\ AdoptWire(w).value = w.value
           /\ w.tombstone => AdoptWire(w).left = 2 * DeadTimeout
           /\ AdoptWire(w) # NoEntry
  <1>1. /\ w.version \in Nat /\ w.version # 0 /\ w.tombstone \in BOOLEAN
        /\ w.value \in Value \cup {0} /\ w.ttl \in {0, Ttl}
    BY Zenon DEF WireEntry
  <1>2. /\ AdoptWire(w) \in Entry /\ AdoptWire(w).version = w.version
        /\ AdoptWire(w).value = w.value /\ AdoptWire(w).ttl = w.ttl
        /\ AdoptWire(w).tombstone = w.tombstone
        /\ w.tombstone => AdoptWire(w).left = 2 * DeadTimeout
    <2>1. AdoptWire(w) \in Entry  BY <1>1, AdoptedType, Zenon DEF AdoptWire
    <2>2. /\ AdoptWire(w).version = w.version /\ AdoptWire(w).tombstone = w.tombstone
          /\ AdoptWire(w).value = w.value /\ AdoptWire(w).ttl = w.ttl
          /\ w.tombstone => AdoptWire(w).left = 2 * DeadTimeout
      BY Zenon DEF AdoptWire, Adopted
    <2>. QED  BY <2>1, <2>2, Zenon
  <1>3. w = [key |-> w.key, version |-> w.version, tombstone |-> w.tombstone,
             value |-> w.value, ttl |-> w.ttl]
    BY Zenon DEF WireEntry
  <1>4. Wire(w.key, AdoptWire(w)) = w  BY <1>2, <1>3, Zenon DEF Wire
  <1>5. NoEntry.version = 0  BY Zenon DEF NoEntry
  <1>. QED  BY <1>1, <1>2, <1>4, <1>5, Zenon

\* What a record advertises: its entries, once each.
LEMMA AdvertisedType ==
    ASSUME setup \in Setups, NEW m, RecordOK(m)
    PROVE  /\ Advertised(m) \in SUBSET WireEntry /\ IsFiniteSet(Advertised(m))
           /\ \A w \in Advertised(m) :
                w.key \in Key /\ m.entries[w.key] # NoEntry /\ w = Wire(w.key, m.entries[w.key])
           /\ \A k \in Key : ShouldGossip(m.entries[k]) => Wire(k, m.entries[k]) \in Advertised(m)
  <1>. DEFINE K == {j \in Key : ShouldGossip(m.entries[j])}
              g == [k \in K |-> Wire(k, m.entries[k])]
  <1>1. IsFiniteSet(K)  BY SetupFacts, FS_Subset, Zenon
  <1>2. g \in [K -> Advertised(m)] /\ \A w \in Advertised(m) : \E k \in K : g[k] = w
    BY Zenon DEF Advertised
  <1>3. IsFiniteSet(Advertised(m))
    <2>. HIDE DEF g, K
    <2>. QED  BY <1>1, <1>2, ImageFinite, Zenon
  <1>4. ASSUME NEW w \in Advertised(m)
        PROVE  /\ w \in WireEntry /\ w.key \in Key /\ m.entries[w.key] # NoEntry
               /\ w = Wire(w.key, m.entries[w.key])
    <2>1. PICK k \in K : w = Wire(k, m.entries[k])  BY Zenon DEF Advertised
    <2>2. k \in Key /\ m.entries[k] # NoEntry  BY Zenon DEF ShouldGossip
    <2>3. m.entries[k] \in Entry /\ m.entries[k].version > 0  BY <2>2, Zenon DEF RecordOK, Record
    <2>4. PICK e : e = m.entries[k]  BY Zenon
    <2>5. e.version \in Nat \ {0}  BY <2>3, <2>4 DEF Entry
    <2>6. e.tombstone \in BOOLEAN /\ e.value \in Value \cup {0} /\ e.ttl \in {0, Ttl}
      BY <2>3, <2>4, Zenon DEF Entry
    <2>7. w \in WireEntry /\ w.key = k  BY <2>1, <2>2, <2>4, <2>5, <2>6, Zenon DEF Wire, WireEntry
    <2>. QED  BY <2>1, <2>2, <2>7, Zenon
  <1>5. \A k \in Key : ShouldGossip(m.entries[k]) => Wire(k, m.entries[k]) \in Advertised(m)
    BY Zenon DEF Advertised
  <1>. QED  BY <1>3, <1>4, <1>5, Zenon

\* An entry before one that is sent is sent.
LEMMA LowestFirst ==
    ASSUME NEW Q \in SUBSET WireEntry, IsFiniteSet(Q), NEW e \in Q, NEW g \in Q,
           e.version < g.version
    PROVE  Rank(e, Q) \in Nat /\ Rank(g, Q) \in Nat /\ Rank(e, Q) <= Rank(g, Q)
  <1>. DEFINE Ahead(x) == {f \in Q : \/ f.version < x.version
                                     \/ f.version = x.version /\ f.key < x.key}
  <1>1. Ahead(e) \in SUBSET Ahead(g)
    <2>. SUFFICES ASSUME NEW f \in Ahead(e) PROVE f \in Ahead(g)  BY Zenon
    <2>1. f \in Q /\ (f.version < e.version \/ f.version = e.version)  BY Zenon
    <2>2. f.version \in Nat /\ e.version \in Nat /\ g.version \in Nat  BY <2>1, Zenon DEF WireEntry
    <2>. HIDE DEF Ahead
    <2>3. f.version < g.version  BY <2>1, <2>2
    <2>. QED  BY <2>1, <2>3, Zenon DEF Ahead
  <1>2. IsFiniteSet(Ahead(g)) /\ IsFiniteSet(Ahead(e))  BY FS_Subset, Zenon
  <1>3. Cardinality(Ahead(e)) <= Cardinality(Ahead(g))  BY <1>1, <1>2, FS_Subset, Zenon
  <1>4. Cardinality(Ahead(e)) \in Nat /\ Cardinality(Ahead(g)) \in Nat
    BY <1>2, FS_CardinalityType, Zenon
  <1>5. Rank(e, Q) = Cardinality(Ahead(e)) /\ Rank(g, Q) = Cardinality(Ahead(g))
    BY Zenon DEF Rank
  <1>. QED  BY <1>3, <1>4, <1>5, Zenon

\* Every delta is built so (engine/anti_entropy.rs, build_delta_frame).
LEMMA DeltaBuilt ==
    ASSUME setup \in Setups, NEW m, RecordOK(m), NEW have \in Nat, NEW n, NEW to,
           NEW f \in Delta(n, to, have, m)
    PROVE  BuiltFrom(f, m, have) /\ f.from = n /\ f.to = to
  <1>. DEFINE Q == {e \in Advertised(m) : e.version > have}
              sent == {e \in Q : Rank(e, Q) < setup.budget}
              vs == {have} \cup {e.version : e \in sent}
              top == Max(vs)
              max == IF sent = Q THEN Max({m.max_state_version, top}) ELSE top
              d == [kind |-> "Delta", from |-> n, to |-> to, max |-> max, entries |-> sent]
  <1>1. f = d  BY Zenon DEF Delta
  <1>2. /\ Q \in SUBSET WireEntry /\ IsFiniteSet(Q)
        /\ sent \in SUBSET Q /\ sent \in SUBSET WireEntry /\ IsFiniteSet(sent)
    <2>1. Q \in SUBSET Advertised(m) /\ sent \in SUBSET Q  BY Zenon
    <2>2. IsFiniteSet(Q)  BY <2>1, AdvertisedType, FS_Subset, Zenon
    <2>3. IsFiniteSet(sent)  BY <2>1, <2>2, FS_Subset, Zenon
    <2>. QED  BY <2>1, <2>2, <2>3, AdvertisedType, Zenon
  <1>3. /\ \A e \in Q : e \in Advertised(m) /\ e.version > have
        /\ \A e \in Advertised(m) : e.version > have => e \in Q
        /\ \A e \in Q : Rank(e, Q) < setup.budget => e \in sent
        /\ \A e \in sent : Rank(e, Q) < setup.budget
    BY Zenon
  <1>. HIDE DEF Q
  <1>4. /\ f.kind = "Delta" /\ f.from = n /\ f.to = to /\ f.max = max /\ f.entries = sent
    BY <1>1, Zenon
  <1>. HIDE DEF sent
  <1>5. m.max_state_version \in Nat /\ \A e \in sent : e.version \in Nat
    BY <1>2, Zenon DEF RecordOK, Record, WireEntry
  <1>6. /\ top \in Nat /\ have <= top /\ \A e \in sent : e.version <= top
        /\ top = have \/ \E e \in sent : top = e.version
    <2>1. vs \in SUBSET Nat /\ vs # {}  BY <1>5, Zenon
    <2>2. IsFiniteSet(vs)
      <3>. DEFINE g == [e \in sent |-> e.version]
                  T == {e.version : e \in sent}
      <3>1. g \in [sent -> T] /\ \A t \in T : \E e \in sent : g[e] = t  BY Zenon
      <3>2. vs = {have} \cup T  BY Zenon
      <3>. HIDE DEF g, T, vs
      <3>3. IsFiniteSet(T)  BY <1>2, <3>1, ImageFinite, Zenon
      <3>4. IsFiniteSet({have})  BY FS_Singleton, Zenon
      <3>. QED  BY <3>2, <3>3, <3>4, FS_Union, Zenon
    <2>3. top \in vs /\ \A x \in vs : x <= top  BY <2>1, <2>2, MaxNat, Zenon
    <2>. QED  BY <2>1, <2>3, Zenon
  <1>7. /\ \A e \in sent : e.version <= m.max_state_version
        /\ \A e \in sent : e.version > have
    <2>0. \A e \in sent : e = Wire(e.key, m.entries[e.key]) /\ e.key \in Key
      BY <1>2, <1>3, AdvertisedType, Zenon
    <2>1. \A e \in sent : e.version = m.entries[e.key].version /\ e.key \in Key
      BY <2>0 DEF Wire
    <2>. QED  BY <1>2, <1>3, <2>1, Zenon DEF RecordOK
  <1>. HIDE DEF top
  <1>8. /\ max \in Nat /\ top <= max
        /\ max <= m.max_state_version \/ max <= have
        /\ sent # Q => max = top
    <2>1. CASE sent # Q  BY <1>5, <1>6, <1>7, <2>1, Zenon
    <2>2. CASE sent = Q
      <3>. DEFINE P == {m.max_state_version, top}
      <3>1. P \in SUBSET Nat /\ P # {} /\ IsFiniteSet(P)
        <4>2. IsFiniteSet(P)  BY PairFinite, Zenon
        <4>. QED  BY <1>5, <1>6, <4>2, Zenon
      <3>2. max = Max(P)  BY <2>2, Zenon
      <3>3. Max(P) \in P /\ \A x \in P : x <= Max(P)  BY <3>1, MaxNat, Zenon
      <3>4. max \in {m.max_state_version, top} /\ top <= max  BY <3>2, <3>3, Zenon
      <3>5. top <= m.max_state_version \/ top <= have  BY <1>6, <1>7, Zenon
      <3>6. m.max_state_version <= m.max_state_version  BY <1>5, SMT
      <3>. QED  BY <1>5, <1>6, <2>2, <3>4, <3>5, <3>6, Zenon
    <2>. QED  BY <2>1, <2>2, Zenon
  <1>. HIDE DEF max
  <1>9. \A w \in f.entries :
            /\ w.version <= f.max
            /\ w.key \in Key /\ m.entries[w.key] # NoEntry /\ w = Wire(w.key, m.entries[w.key])
    <2>1. \A w \in sent : w.version <= max  BY <1>5, <1>6, <1>8, SMT
    <2>. QED  BY <1>2, <1>3, <1>4, <2>1, AdvertisedType, Zenon
  <1>10. ASSUME NEW k \in Key, ShouldGossip(m.entries[k]),
                have < m.entries[k].version, m.entries[k].version <= f.max,
                \A j \in Key \ {k} : m.entries[j].version # m.entries[k].version
         PROVE  Wire(k, m.entries[k]) \in f.entries
    <2>. DEFINE e == Wire(k, m.entries[k])
    <2>1. e \in Advertised(m) /\ e.version = m.entries[k].version /\ e.key = k
      <3>1. e \in Advertised(m)  BY <1>10, AdvertisedType, Zenon
      <3>2. e.version = m.entries[k].version /\ e.key = k  BY Zenon DEF Wire
      <3>. QED  BY <3>1, <3>2, Zenon
    <2>2. e \in Q  BY <1>3, <1>10, <2>1
    <2>3. CASE sent = Q  BY <1>4, <2>2, <2>3, Zenon
    <2>4. CASE sent # Q
      <3>1. m.entries[k].version \in Nat  BY <2>1, <2>2, <1>2, Zenon DEF WireEntry
      <3>2. PICK g \in sent : top = g.version
        <4>1. top # have  BY <1>4, <1>8, <1>10, <2>4, <3>1, SMT
        <4>. QED  BY <1>6, <4>1, Zenon
      <3>3. g \in Q /\ g.version = m.entries[g.key].version /\ g.key \in Key
            /\ g = Wire(g.key, m.entries[g.key])
        <4>1. g \in Q /\ g.key \in Key /\ g = Wire(g.key, m.entries[g.key])
          BY <1>2, <1>3, AdvertisedType, Zenon
        <4>2. g.version = m.entries[g.key].version  BY <4>1 DEF Wire
        <4>. QED  BY <4>1, <4>2, Zenon
      <3>4. CASE g.key = k  BY <1>4, <3>3, <3>4, Zenon
      <3>5. CASE g.key # k
        <4>1. e.version # g.version  BY <1>10, <2>1, <3>3, <3>5, Zenon
        <4>2. e.version < g.version  BY <1>4, <1>6, <1>8, <1>10, <2>1, <2>4, <3>1, <3>2, <4>1, SMT
        <4>3. Rank(e, Q) \in Nat /\ Rank(g, Q) \in Nat /\ Rank(e, Q) <= Rank(g, Q)
          BY <1>2, <2>2, <3>3, <4>2, LowestFirst, Zenon
        <4>4. Rank(g, Q) < setup.budget /\ setup.budget \in Nat  BY <1>3, SetupFacts, Zenon
        <4>5. Rank(e, Q) < setup.budget  BY <4>3, <4>4, SMT
        <4>. QED  BY <1>3, <1>4, <2>2, <4>5, Zenon
      <3>. QED  BY <3>4, <3>5, Zenon
    <2>. QED  BY <2>3, <2>4, Zenon
  <1>. QED  BY <1>2, <1>4, <1>8, <1>9, <1>10, Zenon DEF BuiltFrom

\* The mark of a set of versions above a record's own.
LEMMA RaisedMark ==
    ASSUME NEW v \in Nat, NEW T \in SUBSET Nat, IsFiniteSet(T)
    PROVE  /\ Max({v} \cup T) \in Nat /\ v <= Max({v} \cup T)
           /\ \A x \in T : x <= Max({v} \cup T)
           /\ Max({v} \cup T) = v \/ Max({v} \cup T) \in T
  <1>1. {v} \cup T \in SUBSET Nat /\ {v} \cup T # {}  BY Zenon
  <1>2. IsFiniteSet({v} \cup T)
    <2>1. IsFiniteSet({v})  BY FS_Singleton, Zenon
    <2>. QED  BY <2>1, FS_Union, Zenon
  <1>3. Max({v} \cup T) \in {v} \cup T /\ \A x \in {v} \cup T : x <= Max({v} \cup T)
    BY <1>1, <1>2, MaxNat, Zenon
  <1>. QED  BY <1>1, <1>3, Zenon

\* merge_peer_delta: the record stays well-formed, its mark rises to what the
\* frame says, and each key keeps or takes on the better entry.
LEMMA MergePeer ==
    ASSUME setup \in Setups, NEW m, RecordOK(m), NEW f, FrameOK(f), f.kind = "Delta",
           NEW r, r = MergePeerDelta(m, f)
    PROVE  /\ RecordOK(r)
           /\ m.max_state_version <= r.max_state_version /\ f.max <= r.max_state_version
           /\ \/ r.max_state_version \in {m.max_state_version, f.max}
              \/ \E w \in f.entries : r.max_state_version = w.version
           /\ \A k \in Key : TakenOn(m, f, k, r.entries[k])
  <1>. DEFINE T == {f.max} \cup {w.version : w \in f.entries}
              better(k) == {w \in Carried(f, k) : m.entries[k] = NoEntry \/ Beats(w, m.entries[k])}
              new(k) == IF better(k) = {} THEN m.entries[k]
                        ELSE AdoptWire(CHOOSE w \in better(k) : TRUE)
  <1>1. f.max \in Nat /\ f.entries \in SUBSET WireEntry /\ IsFiniteSet(f.entries)
    BY Zenon DEF FrameOK
  <1>2. \A w \in f.entries : w.version \in Nat /\ w.version > 0
    <2>1. \A w \in f.entries : w.version \in Nat \ {0}  BY <1>1, Zenon DEF WireEntry
    <2>. QED  BY <2>1
  <1>3. T \in SUBSET Nat /\ IsFiniteSet(T)
    <2>. DEFINE E == f.entries
                g == [w \in E |-> w.version]
                V == {w.version : w \in E}
    <2>1. g \in [E -> V] /\ (\A t \in V : \E w \in E : g[w] = t) /\ IsFiniteSet(E)
      BY <1>1, Zenon
    <2>2. T = {f.max} \cup V /\ V \in SUBSET Nat  BY <1>2, Zenon
    <2>. HIDE DEF g, V, T, E
    <2>3. IsFiniteSet(V)  BY <2>1, ImageFinite, Zenon
    <2>4. IsFiniteSet({f.max})  BY FS_Singleton, Zenon
    <2>. QED  BY <1>1, <2>2, <2>3, <2>4, FS_Union, Zenon
  <1>4. r = [max_state_version |-> Max({m.max_state_version, f.max} \cup {w.version : w \in f.entries}),
             entries |-> [k \in Key |-> new(k)]]
    BY Zenon DEF MergePeerDelta
  <1>5. {m.max_state_version, f.max} \cup {w.version : w \in f.entries} = {m.max_state_version} \cup T
    BY Zenon
  <1>6. r.max_state_version = Max({m.max_state_version} \cup T) /\ r.entries = [k \in Key |-> new(k)]
    <2>. HIDE DEF new
    <2>1. /\ r.max_state_version = Max({m.max_state_version, f.max} \cup {w.version : w \in f.entries})
          /\ r.entries = [k \in Key |-> new(k)]
      BY <1>4
    <2>. QED  BY <1>5, <2>1, Zenon
  <1>7. m.max_state_version \in Nat /\ m.entries \in [Key -> Entry]  BY Zenon DEF RecordOK, Record
  <1>8. /\ r.max_state_version \in Nat /\ m.max_state_version <= r.max_state_version
        /\ \A x \in T : x <= r.max_state_version
        /\ r.max_state_version = m.max_state_version \/ r.max_state_version \in T
    <2>. DEFINE v == m.max_state_version
                x == r.max_state_version
    <2>1. v \in Nat /\ x = Max({v} \cup T)  BY <1>6, <1>7, Zenon
    <2>. HIDE DEF T, v, x
    <2>2. /\ x \in Nat /\ v <= x /\ (\A y \in T : y <= x) /\ (x = v \/ x \in T)
      BY <1>3, <2>1, RaisedMark, ZenonT(30)
    <2>. QED  BY <2>2, Zenon DEF v, x
  <1>9. ASSUME NEW k \in Key
        PROVE  /\ r.entries[k] = new(k) /\ TakenOn(m, f, k, new(k)) /\ new(k) \in Entry
               /\ new(k).version <= r.max_state_version
               /\ new(k) # NoEntry => new(k).version > 0
    <2>1. r.entries[k] = new(k)  BY <1>6, Zenon
    <2>2. CASE better(k) = {}
      <3>1. new(k) = m.entries[k]  BY <2>2, Zenon
      <3>2. \A w \in Carried(f, k) : m.entries[k] # NoEntry /\ ~Beats(w, m.entries[k])
        BY <2>2, Zenon
      <3>3. TakenOn(m, f, k, new(k))  BY <3>1, <3>2, Zenon DEF TakenOn
      <3>4. m.entries[k].version <= r.max_state_version
        <4>1. /\ m.entries[k].version \in Nat /\ m.max_state_version \in Nat
              /\ m.entries[k].version <= m.max_state_version
          BY <1>7 DEF RecordOK, Entry
        <4>. QED  BY <1>8, <4>1
      <3>. QED  BY <1>7, <2>1, <3>1, <3>3, <3>4, Zenon DEF RecordOK
    <2>3. CASE better(k) # {}
      <3>1. PICK w \in better(k) : new(k) = AdoptWire(w)  BY <2>3, Zenon
      <3>2. w \in f.entries /\ w \in Carried(f, k)  BY Zenon DEF Carried
      <3>3. TakenOn(m, f, k, new(k))  BY <3>1, <3>2, Zenon DEF TakenOn
      <3>4. w.version \in T  BY <3>2, Zenon
      <3>5. new(k) \in Entry /\ new(k).version = w.version
        BY <1>1, <3>1, <3>2, AdoptWireType, Zenon
      <3>. QED  BY <1>2, <1>8, <2>1, <3>2, <3>3, <3>4, <3>5, Zenon
    <2>. QED  BY <2>2, <2>3, Zenon
  <1>10. f.max <= r.max_state_version  BY <1>8, Zenon
  <1>11. \/ r.max_state_version \in {m.max_state_version, f.max}
         \/ \E w \in f.entries : r.max_state_version = w.version
    BY <1>8, Zenon
  <1>. HIDE DEF new, T
  <1>12. r \in Record
    <2>1. r = [max_state_version |-> Max({m.max_state_version} \cup T),
               entries |-> [k \in Key |-> new(k)]]
      BY <1>4, <1>5, Zenon
    <2>2. [k \in Key |-> new(k)] \in [Key -> Entry]  BY <1>9, Zenon
    <2>3. Max({m.max_state_version} \cup T) \in Nat  BY <1>6, <1>8, Zenon
    <2>4. [max_state_version |-> Max({m.max_state_version} \cup T),
           entries |-> [k \in Key |-> new(k)]] \in Record
      BY <2>2, <2>3, Zenon DEF Record
    <2>. QED  BY <2>1, <2>4, Zenon
  <1>. QED  BY <1>8, <1>9, <1>10, <1>11, <1>12, Zenon DEF RecordOK

\* No tombstone that was neither there nor carried.
TombstonesFrom(m, f, r) ==
    \A k \in Key : \/ r.entries[k].tombstone = m.entries[k].tombstone
                   \/ \E w \in f.entries : r.entries[k].tombstone = w.tombstone

\* merge_own_echo: the record stays well-formed, and a key written since the
\* start keeps its value.
LEMMA MergeEcho ==
    ASSUME setup \in Setups, NEW m, RecordOK(m), NEW f, FrameOK(f), f.kind = "Delta",
           NEW r, r = MergeOwnEcho(m, f)
    PROVE  /\ RecordOK(r) /\ m.max_state_version <= r.max_state_version
           /\ \A k \in authored : k \in Key =>
                /\ r.entries[k].value = m.entries[k].value
                /\ r.entries[k].tombstone = m.entries[k].tombstone
           /\ TombstonesFrom(m, f, r)
  <1>. DEFINE echo(k) == {w \in Carried(f, k) : Undominated(m.entries[k], w)}
              new(k) == IF echo(k) = {} \/ (k \in authored /\ m.entries[k] = NoEntry)
                        THEN m.entries[k]
                        ELSE LET e == CHOOSE x \in echo(k) : TRUE IN
                             IF k \in authored THEN [m.entries[k] EXCEPT !.version = e.version + 1]
                             ELSE AdoptWire(e)
              merged == [k \in Key |-> new(k)]
              C == {j \in Key : merged[j] # m.entries[j]}
              T == {merged[k].version : k \in C}
  <1>1. f.entries \in SUBSET WireEntry  BY Zenon DEF FrameOK
  <1>2. m.max_state_version \in Nat /\ m.entries \in [Key -> Entry]  BY Zenon DEF RecordOK, Record
  <1>3. r = [max_state_version |-> Max({m.max_state_version} \cup T), entries |-> merged]
    BY Zenon DEF MergeOwnEcho
  <1>4. ASSUME NEW k \in Key
        PROVE  /\ new(k) \in Entry /\ (new(k) # NoEntry => new(k).version > 0)
               /\ k \in authored => /\ new(k).value = m.entries[k].value
                                    /\ new(k).tombstone = m.entries[k].tombstone
               /\ \/ new(k).tombstone = m.entries[k].tombstone
                  \/ \E w \in f.entries : new(k).tombstone = w.tombstone
    <2>1. CASE new(k) = m.entries[k]
      <3>1. m.entries[k] \in Entry /\ (m.entries[k] # NoEntry => m.entries[k].version > 0)
        BY <1>2, Zenon DEF RecordOK
      <3>. HIDE DEF new
      <3>. QED  BY <2>1, <3>1, Zenon
    <2>2. CASE \E e \in echo(k) :
                 \/ k \in authored /\ new(k) = [m.entries[k] EXCEPT !.version = e.version + 1]
                 \/ k \notin authored /\ new(k) = AdoptWire(e)
      <3>1. PICK e \in echo(k) :
                 \/ k \in authored /\ new(k) = [m.entries[k] EXCEPT !.version = e.version + 1]
                 \/ k \notin authored /\ new(k) = AdoptWire(e)
        BY <2>2, Zenon
      <3>2. e \in f.entries /\ e \in WireEntry  BY <1>1, Zenon DEF Carried
      <3>3. e.version \in Nat /\ e.version > 0 /\ e.version + 1 \in Nat /\ e.version + 1 > 0
        BY <3>2 DEF WireEntry
      <3>. HIDE DEF new
      <3>4. CASE k \in authored /\ new(k) = [m.entries[k] EXCEPT !.version = e.version + 1]
        <4>. DEFINE c == m.entries[k]
                    v == e.version + 1
        <4>1. c \in Entry /\ v \in Nat /\ v > 0 /\ new(k) = [c EXCEPT !.version = v]
          BY <1>2, <3>3, <3>4, Zenon
        <4>. HIDE DEF c, v
        <4>2. /\ new(k) \in Entry /\ new(k).version = v /\ new(k).value = c.value
              /\ new(k).tombstone = c.tombstone
          BY <4>1, Zenon DEF Entry
        <4>. QED  BY <4>1, <4>2, Zenon DEF c
      <3>5. CASE k \notin authored /\ new(k) = AdoptWire(e)
        <4>1. /\ new(k) \in Entry /\ new(k).version = e.version
              /\ new(k).tombstone = e.tombstone
          BY <3>2, <3>5, AdoptWireType, Zenon
        <4>. QED  BY <3>2, <3>3, <3>5, <4>1, Zenon
      <3>. QED  BY <3>1, <3>4, <3>5, Zenon
    <2>. QED  BY <2>1, <2>2, Zenon
  <1>. HIDE DEF new
  <1>5. \A k \in Key : merged[k] = new(k)  BY Zenon
  <1>6. T \in SUBSET Nat /\ IsFiniteSet(T)
    <2>1. \A k \in C : k \in Key /\ merged[k].version \in Nat
      BY <1>4, <1>5, Zenon DEF Entry
    <2>. DEFINE g == [k \in C |-> merged[k].version]
    <2>2. g \in [C -> T] /\ \A t \in T : \E k \in C : g[k] = t  BY Zenon
    <2>3. T \in SUBSET Nat /\ C \in SUBSET Key  BY <2>1, Zenon
    <2>. HIDE DEF g, T, C
    <2>4. IsFiniteSet(C)  BY <2>3, SetupFacts, FS_Subset, Zenon
    <2>. QED  BY <2>2, <2>3, <2>4, ImageFinite, ZenonT(40)
  <1>7. /\ r.max_state_version \in Nat /\ m.max_state_version <= r.max_state_version
        /\ \A x \in T : x <= r.max_state_version
        /\ r.entries = merged
        /\ r.max_state_version = Max({m.max_state_version} \cup T)
    <2>. DEFINE v == m.max_state_version
    <2>. HIDE DEF T, merged
    <2>1. r.max_state_version = Max({v} \cup T) /\ r.entries = merged  BY <1>3
    <2>2. v \in Nat  BY <1>2, Zenon
    <2>. HIDE DEF v
    <2>3. Max({v} \cup T) \in Nat /\ v <= Max({v} \cup T) /\ \A y \in T : y <= Max({v} \cup T)
      BY <1>6, <2>2, RaisedMark, ZenonT(30)
    <2>. QED  BY <2>1, <2>3, Zenon DEF v
  <1>8. ASSUME NEW k \in Key PROVE r.entries[k].version <= r.max_state_version
    <2>1. CASE merged[k] = m.entries[k]
      <3>1. /\ m.entries[k].version \in Nat
            /\ m.entries[k].version <= m.max_state_version
        BY <1>2, Zenon DEF RecordOK, Entry
      <3>2. r.entries[k] = m.entries[k]  BY <1>7, <2>1, Zenon
      <3>. QED  BY <1>2, <1>7, <3>1, <3>2
    <2>2. CASE merged[k] # m.entries[k]
      <3>1. merged[k].version \in T  BY <2>2, Zenon
      <3>. HIDE DEF T, merged
      <3>. QED  BY <1>7, <3>1, Zenon
    <2>. QED  BY <2>1, <2>2, Zenon
  <1>9. r \in Record
    <2>1. merged \in [Key -> Entry]  BY <1>4, <1>5, Zenon
    <2>2. Max({m.max_state_version} \cup T) \in Nat  BY <1>7, Zenon
    <2>. HIDE DEF merged, T
    <2>3. [max_state_version |-> Max({m.max_state_version} \cup T), entries |-> merged] \in Record
      BY <2>1, <2>2, Zenon DEF Record
    <2>. QED  BY <1>3, <2>3, Zenon
  <1>10. \A k \in Key : r.entries[k] = new(k)  BY <1>5, <1>7, Zenon
  <1>. QED  BY <1>4, <1>7, <1>8, <1>9, <1>10, Zenon DEF RecordOK, TombstonesFrom

\* An echo of nothing but what the author wrote and still dominates changes
\* nothing.
LEMMA EchoIdle ==
    ASSUME setup \in Setups, NEW m, RecordOK(m), NEW f, FrameOK(f), f.kind = "Delta",
           \A w \in f.entries :
               /\ w.key \in authored
               /\ m.entries[w.key] # NoEntry =>
                    \/ w.version < m.entries[w.key].version
                    \/ w = Wire(w.key, m.entries[w.key])
    PROVE  MergeOwnEcho(m, f) = m
  <1>. DEFINE echo(k) == {w \in Carried(f, k) : Undominated(m.entries[k], w)}
              new(k) == IF echo(k) = {} \/ (k \in authored /\ m.entries[k] = NoEntry)
                        THEN m.entries[k]
                        ELSE LET e == CHOOSE x \in echo(k) : TRUE IN
                             IF k \in authored THEN [m.entries[k] EXCEPT !.version = e.version + 1]
                             ELSE AdoptWire(e)
              merged == [k \in Key |-> new(k)]
              C == {j \in Key : merged[j] # m.entries[j]}
              T == {merged[k].version : k \in C}
              r == MergeOwnEcho(m, f)
  <1>1. m.max_state_version \in Nat /\ m.entries \in [Key -> Entry]  BY Zenon DEF RecordOK, Record
  <1>2. ASSUME NEW k \in Key PROVE new(k) = m.entries[k]
    <2>1. ASSUME m.entries[k] # NoEntry, NEW w \in Carried(f, k) PROVE ~Undominated(m.entries[k], w)
      <3>1. w \in f.entries /\ w.key = k  BY Zenon DEF Carried
      <3>2. w.version < m.entries[k].version \/ w = Wire(k, m.entries[k])
        BY <2>1, <3>1, Zenon
      <3>3. w.version \in Nat /\ m.entries[k].version \in Nat
        BY <1>1, <3>1, Zenon DEF FrameOK, WireEntry, Entry
      <3>4. CASE w.version < m.entries[k].version
        BY <2>1, <3>3, <3>4 DEF Undominated
      <3>5. CASE w = Wire(k, m.entries[k])
        <4>1. /\ w.version = m.entries[k].version /\ w.value = m.entries[k].value
              /\ w.tombstone = m.entries[k].tombstone
          BY <3>5, Zenon DEF Wire
        <4>2. ~(w.version > m.entries[k].version)  BY <3>3, <4>1
        <4>. QED  BY <2>1, <4>1, <4>2, Zenon DEF Undominated
      <3>. QED  BY <3>2, <3>4, <3>5, Zenon
    <2>2. CASE m.entries[k] # NoEntry
      <3>1. echo(k) = {}  BY <2>1, <2>2, Zenon
      <3>. QED  BY <3>1, Zenon
    <2>3. CASE m.entries[k] = NoEntry
      <3>1. CASE echo(k) = {}  BY <3>1, Zenon
      <3>2. CASE echo(k) # {}
        <4>1. k \in authored  BY <3>2, Zenon DEF Carried
        <4>. QED  BY <2>3, <4>1, Zenon
      <3>. QED  BY <3>1, <3>2, Zenon
    <2>. QED  BY <2>2, <2>3, Zenon
  <1>3. r = [max_state_version |-> Max({m.max_state_version} \cup T), entries |-> merged]
    BY Zenon DEF MergeOwnEcho
  <1>. HIDE DEF new
  <1>4. merged = m.entries  BY <1>1, <1>2
  <1>5. {m.max_state_version} \cup T = {m.max_state_version}
    <2>1. C = {}  BY <1>4, Zenon
    <2>2. T = {}  BY <2>1, Zenon
    <2>. HIDE DEF T
    <2>. QED  BY <2>2, Zenon
  <1>6. Max({m.max_state_version}) = m.max_state_version
    <2>1. IsFiniteSet({m.max_state_version})  BY FS_Singleton, Zenon
    <2>2. {m.max_state_version} \in SUBSET Nat /\ {m.max_state_version} # {}  BY <1>1, Zenon
    <2>3. Max({m.max_state_version}) \in {m.max_state_version}  BY <2>1, <2>2, MaxNat, Zenon
    <2>. QED  BY <2>3, Zenon
  <1>7. m = [max_state_version |-> m.max_state_version, entries |-> m.entries]
    BY Zenon DEF RecordOK, Record
  <1>. HIDE DEF T, merged
  <1>. QED  BY <1>3, <1>4, <1>5, <1>6, <1>7, Zenon

\* Reaping drops what is due and nothing else.
LEMMA ReapedType ==
    ASSUME setup \in Setups, NEW m, RecordOK(m)
    PROVE  /\ RecordOK(Reaped(m))
           /\ Reaped(m).max_state_version = m.max_state_version
           /\ \A k \in Key : Reaped(m).entries[k] = IF Due(m.entries[k]) THEN NoEntry ELSE m.entries[k]
  <1>. DEFINE es == [k \in Key |-> IF Due(m.entries[k]) THEN NoEntry ELSE m.entries[k]]
              r == [m EXCEPT !.entries = es]
  <1>1. m \in Record /\ m.max_state_version \in Nat /\ m.entries \in [Key -> Entry]
    BY Zenon DEF RecordOK, Record
  <1>2. es \in [Key -> Entry]  BY <1>1, NoEntryType, Zenon
  <1>3. Reaped(m) = r  BY Zenon DEF Reaped
  <1>4. \A k \in Key : es[k] = IF Due(m.entries[k]) THEN NoEntry ELSE m.entries[k]  BY Zenon
  <1>. HIDE DEF es
  <1>5. r \in Record /\ r.max_state_version = m.max_state_version /\ r.entries = es
    BY <1>1, <1>2, Zenon DEF Record
  <1>6. NoEntry.version = 0  BY Zenon DEF NoEntry
  <1>7. ASSUME NEW k \in Key
        PROVE  es[k].version <= m.max_state_version /\ (es[k] # NoEntry => es[k].version > 0)
    <2>1. m.entries[k].version <= m.max_state_version /\ 0 <= m.max_state_version
      BY <1>1 DEF RecordOK
    <2>. QED  BY <1>4, <1>6, <2>1, Zenon DEF RecordOK
  <1>. QED  BY <1>3, <1>4, <1>5, <1>7, Zenon DEF RecordOK

\* Time changes only how long an entry has left.
LEMMA AgedType ==
    ASSUME setup \in Setups, NEW e \in Entry, NEW k
    PROVE  /\ Aged(e) \in Entry /\ Wire(k, Aged(e)) = Wire(k, e)
           /\ Aged(e).version = e.version /\ Aged(e).tombstone = e.tombstone
           /\ Aged(e).value = e.value /\ Aged(e).ttl = e.ttl
           /\ Aged(e) = e \/ Aged(e).left = e.left - 1
           /\ Aged(e) = NoEntry <=> e = NoEntry
  <1>1. CASE ~(Limited(e) /\ e.left > 0)
    <2>1. Aged(e) = e  BY <1>1, Zenon DEF Aged
    <2>. QED  BY <2>1, Zenon
  <1>2. CASE Limited(e) /\ e.left > 0
    <2>. DEFINE B == Max({2 * DeadTimeout, Ttl})
                v == e.left - 1
    <2>1. B \in Nat  BY SetupFacts, Zenon
    <2>2. e.left \in 0 .. B  BY Zenon DEF Entry
    <2>. HIDE DEF B
    <2>3. v \in 0 .. B  BY <1>2, <2>1, <2>2
    <2>4. Aged(e) = [e EXCEPT !.left = v]  BY <1>2, Zenon DEF Aged
    <2>. HIDE DEF v
    <2>5. /\ Aged(e) \in Entry /\ Aged(e).version = e.version /\ Aged(e).tombstone = e.tombstone
          /\ Aged(e).value = e.value /\ Aged(e).ttl = e.ttl /\ Aged(e).left = v
      BY <2>3, <2>4, Zenon DEF Entry, B
    <2>6. Wire(k, Aged(e)) = Wire(k, e)  BY <2>5, Zenon DEF Wire
    <2>7. e # NoEntry /\ (e.tombstone \/ e.ttl > 0)  BY <1>2, Zenon DEF Limited
    <2>8. ~NoEntry.tombstone /\ ~(NoEntry.ttl > 0)  BY DEF NoEntry
    <2>9. Aged(e) # NoEntry  BY <2>5, <2>7, <2>8, Zenon
    <2>. QED  BY <2>5, <2>6, <2>7, <2>9, Zenon DEF v
  <1>. QED  BY <1>1, <1>2, Zenon

\* A record grown older.
AgedRecord(m) == [m EXCEPT !.entries = [k \in Key |-> Aged(m.entries[k])]]

LEMMA AgedRecordType ==
    ASSUME setup \in Setups, NEW m, RecordOK(m)
    PROVE  /\ RecordOK(AgedRecord(m))
           /\ AgedRecord(m).max_state_version = m.max_state_version
           /\ \A k \in Key : AgedRecord(m).entries[k] = Aged(m.entries[k])
  <1>. DEFINE es == [k \in Key |-> Aged(m.entries[k])]
              r == AgedRecord(m)
  <1>1. m \in Record /\ m.max_state_version \in Nat /\ m.entries \in [Key -> Entry]
    BY Zenon DEF RecordOK, Record
  <1>2. \A k \in Key : /\ Aged(m.entries[k]) \in Entry
                       /\ Aged(m.entries[k]).version = m.entries[k].version
                       /\ Aged(m.entries[k]) = NoEntry <=> m.entries[k] = NoEntry
    BY <1>1, AgedType, Zenon
  <1>3. es \in [Key -> Entry] /\ \A k \in Key : es[k] = Aged(m.entries[k])  BY <1>2, Zenon
  <1>4. r = [m EXCEPT !.entries = es]  BY Zenon DEF AgedRecord
  <1>. HIDE DEF es, r
  <1>5. r \in Record /\ r.max_state_version = m.max_state_version /\ r.entries = es
    BY <1>1, <1>3, <1>4, Zenon DEF Record
  <1>6. RecordOK(r)  BY <1>2, <1>3, <1>5, Zenon DEF RecordOK
  <1>. QED  BY <1>3, <1>5, <1>6, Zenon DEF r

-----------------------------------------------------------------------------
(* What each action does, as a relation to the state it leads to.          *)

\* n's record becomes m.
Stored(n, m, mem, bur) ==
    mem = [member EXCEPT ![n] = m] /\ bur = [buried EXCEPT ![n] = Buried(n, m)]

PutRecord(k, e) ==
    [max_state_version |-> e.version, entries |-> [member[Author].entries EXCEPT ![k] = e]]

\* The author writes or deletes a key.
Writes(mem, A, nt, bur) ==
    \E k \in Key, e \in Entry :
        /\ e.version = member[Author].max_state_version + 1
        /\ e.tombstone => setup.deletes /\ e.left = 2 * DeadTimeout
        /\ Stored(Author, PutRecord(k, e), mem, bur)
        /\ A = authored \cup {k}
        /\ \E targets \in SUBSET Observer : nt \subseteq net \cup Pushed(PutRecord(k, e), targets)

\* A digest or a request is answered.
Answers(mem, A, nt, bur) ==
    /\ mem = member /\ A = authored /\ bur = buried
    /\ \E f \in net :
        \/ f.kind = "Digest" /\ nt \subseteq net \cup Answer(f.to, f)
        \/ f.kind = "DeltaRequest" /\ nt \subseteq net \cup Delta(f.to, f.from, f.have, member[f.to])

\* A delta is merged.
Merges(mem, A, nt, bur) ==
    /\ A = authored
    /\ \E f \in net :
        /\ f.kind = "Delta"
        /\ Stored(f.to, Merge(f.to, member[f.to], f), mem, bur)
        /\ nt \subseteq net \cup Continuation(f.to, f, Merge(f.to, member[f.to], f))

\* A node reaps what is due, and may open a round.
Sweeps(mem, A, nt, bur) ==
    /\ A = authored
    /\ \E n \in Member :
        /\ Stored(n, Reaped(member[n]), mem, bur)
        /\ \/ nt = net
           \/ \E to \in Member \ {n} : nt \subseteq net \cup {Digest(n, to, Reaped(member[n]))}

\* Time passes.
Ages(mem, A, nt, bur) ==
    /\ mem = [n \in Member |-> AgedRecord(member[n])]
    /\ A = authored /\ nt = net /\ bur = buried
    /\ setup.informed => net = {} /\ ~Overtaken

\* The author starts anew.
Restarts(mem, A, nt, bur) ==
    /\ setup.max_restarts \in Nat /\ setup.max_restarts > 0
    /\ mem = [member EXCEPT ![Author] = Fresh]
    /\ A = {} /\ nt = net
    /\ bur = [buried EXCEPT ![Author] = [k \in Key |-> 0]]

\* A step that writes nothing new, and a step of one life of the author.
Idles(mem, A, nt, bur) ==
    \/ Answers(mem, A, nt, bur) \/ Merges(mem, A, nt, bur)
    \/ Sweeps(mem, A, nt, bur) \/ Ages(mem, A, nt, bur)

Moves(mem, A, nt, bur) == Writes(mem, A, nt, bur) \/ Idles(mem, A, nt, bur)

\* What is sent joins what is in flight.
LEMMA SendNet ==
    ASSUME NEW gone, NEW frames, Send(gone, frames)
    PROVE  net' \subseteq net \cup frames
  BY Zenon DEF Send

LEMMA PutWrites ==
    ASSUME Shape, NEW k \in Key, NEW x \in Value \cup {0}, NEW t \in {0, Ttl}, NEW b \in BOOLEAN,
           b => setup.deletes, Author_Put(k, x, t, b),
           NEW mem, NEW A, NEW nt, NEW bur,
           mem = member', A = authored', nt = net', bur = buried'
    PROVE  /\ Writes(mem, A, nt, bur) /\ writes' = writes + 1
           /\ restarts' = restarts /\ setup' = setup
  <1>. DEFINE v == member[Author].max_state_version + 1
              e == Adopted(v, x, t, b)
              m == [max_state_version |-> v, entries |-> [member[Author].entries EXCEPT ![k] = e]]
  <1>0. setup \in Setups /\ Author \in Member /\ RecordOK(member[Author])
    BY SetupFacts, Zenon DEF Shape, ShapeOf
  <1>1. member[Author].max_state_version \in Nat  BY <1>0, Zenon DEF RecordOK, Record
  <1>2. v \in Nat  BY <1>1
  <1>3. /\ Stored(Author, m, mem, bur) /\ A = authored \cup {k}
        /\ setup' = setup /\ restarts' = restarts /\ writes' = writes + 1
        /\ \E targets \in SUBSET Observer : Send({}, Pushed(m, targets))
    BY Zenon DEF Author_Put, Store, Stored
  <1>4. v = member[Author].max_state_version + 1  OBVIOUS
  <1>5. e \in Entry /\ e.version = v /\ (b => e.left = 2 * DeadTimeout) /\ e.tombstone = b
    <2>. HIDE DEF v
    <2>1. e \in Entry /\ e.version = v  BY <1>0, <1>2, AdoptedType
    <2>2. b => e.left = 2 * DeadTimeout  BY DEF Adopted
    <2>3. e.tombstone = b  BY <1>0, <1>2, AdoptedType
    <2>. QED  BY <2>1, <2>2, <2>3
  <1>. HIDE DEF v, e
  <1>6. m = PutRecord(k, e)  BY <1>5, Zenon DEF PutRecord
  <1>7. PICK targets \in SUBSET Observer : Send({}, Pushed(m, targets))  BY <1>3, Zenon
  <1>8. nt \subseteq net \cup Pushed(m, targets)  BY <1>7, SendNet, Zenon
  <1>. HIDE DEF m
  <1>9. e.tombstone => setup.deletes /\ e.left = 2 * DeadTimeout  BY <1>5
  <1>10. e.version = member[Author].max_state_version + 1  BY <1>4, <1>5, Zenon
  <1>. QED  BY <1>3, <1>5, <1>6, <1>8, <1>9, <1>10, Zenon DEF Writes

\* Every step is one of these.
LEMMA Steps ==
    ASSUME Shape, Next, NEW mem, NEW A, NEW nt, NEW bur,
           mem = member', A = authored', nt = net', bur = buried'
    PROVE  /\ setup' = setup
           /\ \/ /\ Moves(mem, A, nt, bur) /\ restarts' = restarts
                 /\ writes' = writes + 1 \/ Idles(mem, A, nt, bur)
              \/ restarts' = restarts + 1 /\ Restarts(mem, A, nt, bur)
  <1>0. setup \in Setups /\ Value \in SUBSET (Nat \ {0})  BY SetupFacts, Zenon DEF Shape
  <1>1. CASE \E k \in Key, v \in Value : SetLocalEntry(k, v)
    <2>1. PICK k \in Key, v \in Value : Author_Put(k, v, Ttl, FALSE)
      BY <1>1, Zenon DEF SetLocalEntry
    <2>. QED  BY <2>1, PutWrites, Zenon DEF Moves
  <1>2. CASE \E k \in Key : DeleteLocalEntry(k)
    <2>1. PICK k \in Key : setup.deletes /\ Author_Put(k, 0, 0, TRUE)
      BY <1>2, Zenon DEF DeleteLocalEntry
    <2>. QED  BY <2>1, PutWrites, Zenon DEF Moves
  <1>3. CASE \E n \in Member : Receive(n)
    <2>1. PICK f \in net : OnDigest(f.to, f) \/ OnDeltaRequest(f.to, f) \/ OnDelta(f.to, f)
      BY <1>3, Zenon DEF Receive
    <2>2. CASE OnDigest(f.to, f)
      <3>1. nt \subseteq net \cup Answer(f.to, f)  BY <2>2, SendNet, Zenon DEF OnDigest
      <3>. QED  BY <2>2, <3>1, Zenon DEF OnDigest, Answers, Moves, Idles
    <2>3. CASE OnDeltaRequest(f.to, f)
      <3>1. nt \subseteq net \cup Delta(f.to, f.from, f.have, member[f.to])
        BY <2>3, SendNet, Zenon DEF OnDeltaRequest
      <3>. QED  BY <2>3, <3>1, Zenon DEF OnDeltaRequest, Answers, Moves, Idles
    <2>4. CASE OnDelta(f.to, f)
      <3>. DEFINE m == Merge(f.to, member[f.to], f)
      <3>1. /\ f.kind = "Delta" /\ Stored(f.to, m, mem, bur) /\ A = authored
            /\ setup' = setup /\ restarts' = restarts /\ Send({f}, Continuation(f.to, f, m))
        BY <2>4, Zenon DEF OnDelta, Store, Stored
      <3>. HIDE DEF m
      <3>2. nt \subseteq net \cup Continuation(f.to, f, m)  BY <3>1, SendNet, Zenon
      <3>. QED  BY <3>1, <3>2, Zenon DEF Merges, m, Moves, Idles
    <2>. QED  BY <2>1, <2>2, <2>3, <2>4, Zenon
  <1>4. CASE \E n \in Member : Tick(n)
    BY <1>4, Zenon DEF Tick, Store, Stored, Sweeps, bounds, Moves, Idles
  <1>5. CASE \E n, to \in Member : Round(n, to)
    <2>1. PICK n \in Member, to \in Member : Round(n, to)  BY <1>5, Zenon
    <2>2. nt \subseteq net \cup {Digest(n, to, Reaped(member[n]))} /\ to \in Member \ {n}
      BY <2>1, SendNet, Zenon DEF Round
    <2>. QED  BY <2>1, <2>2, Zenon DEF Round, Store, Stored, Sweeps, Moves, Idles
  <1>6. CASE Advance
    <2>1. mem = [n \in Member |-> AgedRecord(member[n])]
      BY <1>6, Zenon DEF Advance, AgedRecord
    <2>. QED  BY <1>6, <2>1, Zenon DEF Advance, Ages, bounds, Moves, Idles
  <1>7. CASE Restart
    <2>1. setup.max_restarts \in Nat  BY <1>0, EntriesAssumption, Zenon DEF Setup
    <2>2. restarts \in Nat /\ restarts < setup.max_restarts  BY <1>7, Zenon DEF Restart, Shape
    <2>3. setup.max_restarts > 0  BY <2>1, <2>2
    <2>. QED  BY <1>7, <2>1, <2>3, Zenon DEF Restart, Restarts
  <1>. QED  BY <1>1, <1>2, <1>3, <1>4, <1>5, <1>6, <1>7, Zenon DEF Next

\* The history of the tombstones a node has held.
LEMMA BuriedType ==
    ASSUME Shape, NEW n \in Member, NEW m, RecordOK(m)
    PROVE  /\ Buried(n, m) \in [Key -> Nat]
           /\ \A k \in Key : IF m.entries[k].tombstone
                             THEN /\ Buried(n, m)[k] \in {buried[n][k], m.entries[k].version}
                                  /\ buried[n][k] <= Buried(n, m)[k]
                                  /\ m.entries[k].version <= Buried(n, m)[k]
                             ELSE Buried(n, m)[k] = buried[n][k]
  <1>1. \A k \in Key : buried[n][k] \in Nat  BY Zenon DEF Shape, ShapeOf
  <1>2. \A k \in Key : m.entries[k].version \in Nat  BY Zenon DEF RecordOK, Record, Entry
  <1>3. ASSUME NEW k \in Key
        PROVE  LET x == Max({buried[n][k], m.entries[k].version}) IN
               /\ x \in {buried[n][k], m.entries[k].version} /\ x \in Nat
               /\ buried[n][k] <= x /\ m.entries[k].version <= x
    <2>. DEFINE a == buried[n][k]
                v == m.entries[k].version
    <2>1. a \in Nat /\ v \in Nat  BY <1>1, <1>2, Zenon
    <2>. HIDE DEF a, v
    <2>2. IsFiniteSet({a, v}) /\ {a, v} \in SUBSET Nat /\ {a, v} # {} /\ a \in {a, v} /\ v \in {a, v}
      BY <2>1, PairFinite, Zenon
    <2>3. Max({a, v}) \in {a, v} /\ \A x \in {a, v} : x <= Max({a, v})  BY <2>2, MaxNat, Zenon
    <2>. QED  BY <2>1, <2>2, <2>3, Zenon DEF a, v
  <1>4. \A k \in Key : Buried(n, m)[k] = IF m.entries[k].tombstone
                           THEN Max({buried[n][k], m.entries[k].version}) ELSE buried[n][k]
    BY Zenon DEF Buried
  <1>5. Buried(n, m) \in [Key -> Nat]
    <2>1. \A k \in Key : (IF m.entries[k].tombstone
                THEN Max({buried[n][k], m.entries[k].version}) ELSE buried[n][k]) \in Nat
      BY <1>1, <1>3, Zenon
    <2>. QED  BY <2>1, Zenon DEF Buried
  <1>6. ASSUME NEW k \in Key
        PROVE  IF m.entries[k].tombstone
               THEN /\ Buried(n, m)[k] \in {buried[n][k], m.entries[k].version}
                    /\ buried[n][k] <= Buried(n, m)[k]
                    /\ m.entries[k].version <= Buried(n, m)[k]
               ELSE Buried(n, m)[k] = buried[n][k]
    <2>1. CASE m.entries[k].tombstone
      <3>1. Buried(n, m)[k] = Max({buried[n][k], m.entries[k].version})  BY <1>4, <2>1, Zenon
      <3>. QED  BY <1>3, <2>1, <3>1, Zenon
    <2>2. CASE ~m.entries[k].tombstone  BY <1>4, <2>2, Zenon
    <2>. QED  BY <2>1, <2>2, Zenon
  <1>. QED  BY <1>5, <1>6, Zenon

LEMMA StoredShape ==
    ASSUME Shape, NEW n \in Member, NEW m, RecordOK(m), NEW mem, NEW bur, Stored(n, m, mem, bur)
    PROVE  /\ DOMAIN mem = Member /\ \A p \in Member : RecordOK(mem[p])
           /\ bur \in [Member -> [Key -> Nat]]
           /\ mem[n] = m /\ bur[n] = Buried(n, m)
           /\ \A p \in Member \ {n} : mem[p] = member[p] /\ bur[p] = buried[p]
  <1>1. DOMAIN member = Member /\ \A p \in Member : RecordOK(member[p])  BY Zenon DEF Shape, ShapeOf
  <1>2. buried \in [Member -> [Key -> Nat]]  BY Zenon DEF Shape, ShapeOf
  <1>3. Buried(n, m) \in [Key -> Nat]  BY BuriedType, Zenon
  <1>4. mem = [member EXCEPT ![n] = m] /\ bur = [buried EXCEPT ![n] = Buried(n, m)]
    BY Zenon DEF Stored
  <1>5. DOMAIN mem = Member /\ mem[n] = m /\ \A p \in Member \ {n} : mem[p] = member[p]
    BY <1>1, <1>4, Zenon
  <1>6. /\ bur \in [Member -> [Key -> Nat]] /\ bur[n] = Buried(n, m)
        /\ \A p \in Member \ {n} : bur[p] = buried[p]
    BY <1>2, <1>3, <1>4, Zenon
  <1>7. \A p \in Member : RecordOK(mem[p])  BY <1>1, <1>5, Zenon
  <1>. QED  BY <1>5, <1>6, <1>7, Zenon

\* The frames a node sends are well-formed.
LEMMA DigestFrame ==
    ASSUME NEW n \in Member, NEW to \in Member, n # to, NEW m, RecordOK(m)
    PROVE  FrameOK(Digest(n, to, m)) /\ Digest(n, to, m).max = m.max_state_version
           /\ Digest(n, to, m).kind = "Digest" /\ Digest(n, to, m).from = n
  <1>1. m.max_state_version \in Nat  BY Zenon DEF RecordOK, Record
  <1>. DEFINE d == Digest(n, to, m)
  <1>2. d.kind = "Digest" /\ d.from = n /\ d.to = to /\ d.max = m.max_state_version
    BY Zenon DEF Digest
  <1>. HIDE DEF d
  <1>3. d.kind # "DeltaRequest" /\ d.kind # "Delta"  BY <1>2
  <1>4. FrameOK(d)  BY <1>1, <1>2, <1>3, Zenon DEF FrameOK
  <1>. QED  BY <1>2, <1>4, Zenon DEF d

LEMMA RequestFrame ==
    ASSUME NEW n \in Member, NEW to \in Member, n # to, NEW have \in Nat
    PROVE  FrameOK(Request(n, to, have)) /\ Request(n, to, have).have = have
           /\ Request(n, to, have).kind = "DeltaRequest" /\ Request(n, to, have).from = n
  <1>. DEFINE d == Request(n, to, have)
  <1>2. d.kind = "DeltaRequest" /\ d.from = n /\ d.to = to /\ d.have = have  BY Zenon DEF Request
  <1>. HIDE DEF d
  <1>3. d.kind # "Digest" /\ d.kind # "Delta"  BY <1>2
  <1>4. FrameOK(d)  BY <1>2, <1>3, Zenon DEF FrameOK
  <1>. QED  BY <1>2, <1>4, Zenon DEF d

LEMMA DeltaFrame ==
    ASSUME setup \in Setups, NEW n \in Member, NEW to \in Member, n # to, NEW m, RecordOK(m),
           NEW have \in Nat, NEW f \in Delta(n, to, have, m)
    PROVE  FrameOK(f) /\ f.kind = "Delta" /\ f.from = n /\ f.to = to /\ BuiltFrom(f, m, have)
  <1>1. BuiltFrom(f, m, have) /\ f.from = n /\ f.to = to  BY DeltaBuilt
  <1>2. f.kind = "Delta" /\ f.max \in Nat /\ f.entries \in SUBSET WireEntry /\ IsFiniteSet(f.entries)
    BY <1>1, Zenon DEF BuiltFrom
  <1>3. f.kind # "Digest" /\ f.kind # "DeltaRequest"  BY <1>2
  <1>4. \A w, x \in f.entries : w.key = x.key => w = x  BY <1>1, Zenon DEF BuiltFrom
  <1>. QED  BY <1>1, <1>2, <1>3, <1>4, Zenon DEF FrameOK

\* A write's record, and the frames it pushes.
LEMMA PutRecordType ==
    ASSUME Shape, NEW k \in Key, NEW e \in Entry,
           e.version = member[Author].max_state_version + 1
    PROVE  LET m == PutRecord(k, e) IN
           /\ RecordOK(m) /\ m.max_state_version = e.version /\ m.entries[k] = e
           /\ \A j \in Key \ {k} : m.entries[j] = member[Author].entries[j]
           /\ e # NoEntry /\ e.version \in Nat /\ e.version > member[Author].max_state_version
  <1>. DEFINE m == PutRecord(k, e)
              u == member[Author].max_state_version
              E == member[Author].entries
              s == [E EXCEPT ![k] = e]
  <1>1. u \in Nat /\ E \in [Key -> Entry]  BY StateFacts, Zenon DEF RecordOK, Record
  <1>2. \A j \in Key : /\ E[j].version \in Nat /\ E[j].version <= u
                       /\ E[j] # NoEntry => E[j].version > 0
    BY StateFacts, Zenon
  <1>3. e.version \in Nat  BY Zenon DEF Entry
  <1>4. m = [max_state_version |-> e.version, entries |-> s]  BY Zenon DEF PutRecord
  <1>. HIDE DEF m, u, E
  <1>5. e.version = u + 1  BY Zenon DEF u
  <1>6. e.version > 0 /\ e.version > u /\ e.version <= e.version  BY <1>1, <1>3, <1>5
  <1>7. \A j \in Key : E[j].version <= e.version  BY <1>1, <1>2, <1>3, <1>5
  <1>8. s \in [Key -> Entry] /\ s[k] = e /\ \A j \in Key \ {k} : s[j] = E[j]  BY <1>1, Zenon
  <1>. HIDE DEF s
  <1>9. m \in Record /\ m.max_state_version = e.version /\ m.entries = s
    BY <1>3, <1>4, <1>8, Zenon DEF Record
  <1>10. \A j \in Key : s[j].version <= e.version /\ (s[j] # NoEntry => s[j].version > 0)
    BY <1>2, <1>6, <1>7, <1>8, Zenon
  <1>11. RecordOK(m)  BY <1>9, <1>10, Zenon DEF RecordOK
  <1>12. NoEntry.version = 0  BY Zenon DEF NoEntry
  <1>13. e # NoEntry  BY <1>6, <1>12
  <1>. QED  BY <1>3, <1>6, <1>8, <1>9, <1>11, <1>13, Zenon DEF m, u, E

\* A pushed delta is built from what the peer has below the write.
LEMMA PushedFrame ==
    ASSUME setup \in Setups, NEW m, RecordOK(m), m.max_state_version > 0,
           NEW targets \in SUBSET Observer, NEW f \in Pushed(m, targets)
    PROVE  /\ FrameOK(f) /\ f.from = Author /\ f.kind = "Delta" /\ setup.eager_push
           /\ \E have \in Nat : have < m.max_state_version /\ BuiltFrom(f, m, have)
  <1>. DEFINE have == m.max_state_version - 1
  <1>1. m.max_state_version \in Nat  BY Zenon DEF RecordOK, Record
  <1>2. have \in Nat /\ have < m.max_state_version  BY <1>1, SMTT(40)
  <1>3. setup.eager_push /\ f \in UNION {Delta(Author, to, have, m) : to \in targets}
    BY Zenon DEF Pushed
  <1>. HIDE DEF have
  <1>4. PICK to \in targets : f \in Delta(Author, to, have, m)  BY <1>3, Zenon
  <1>5. to \in Member /\ Author \in Member /\ Author # to
    BY EntriesAssumption, Zenon DEF Member, Observer, Setup
  <1>6. FrameOK(f) /\ f.kind = "Delta" /\ f.from = Author /\ BuiltFrom(f, m, have)
    BY <1>2, <1>4, <1>5, DeltaFrame
  <1>. QED  BY <1>2, <1>3, <1>6, Zenon

\* The answer to a digest: a request from what we have, or a delta from what
\* the sender has, or both from nothing.
LEMMA AnswerFrame ==
    ASSUME Shape, NEW g \in net, g.kind = "Digest", NEW f \in Answer(g.to, g)
    PROVE  /\ FrameOK(f) /\ f.from = g.to
           /\ \/ f.kind = "DeltaRequest" /\ f.have \in {0, member[g.to].max_state_version}
              \/ /\ f.kind = "Delta" /\ f.to = g.from
                 /\ \E have \in {0, g.max} : have \in Nat /\ BuiltFrom(f, member[g.to], have)
  <1>. DEFINE n == g.to
              to == g.from
              m == member[n]
              x == m.max_state_version
              v == g.max
  <1>1. /\ setup \in Setups /\ n \in Member /\ to \in Member /\ n # to /\ RecordOK(m) /\ x \in Nat
        /\ FrameOK(g)
    BY StateFacts, Zenon
  <1>2. v \in Nat  BY <1>1, Zenon DEF FrameOK
  <1>3. \/ f = Request(n, to, x) \/ f = Request(n, to, 0)
        \/ f \in Delta(n, to, v, m) \/ f \in Delta(n, to, 0, m)
    BY Zenon DEF Answer
  <1>. HIDE DEF n, to, m, x, v
  <1>4. CASE f = Request(n, to, x)
    <2>1. FrameOK(f) /\ f.have = x /\ f.kind = "DeltaRequest" /\ f.from = n
      BY <1>1, <1>4, RequestFrame
    <2>. QED  BY <2>1, Zenon DEF n, x, m
  <1>5. CASE f = Request(n, to, 0)
    <2>1. FrameOK(f) /\ f.have = 0 /\ f.kind = "DeltaRequest" /\ f.from = n
      BY <1>1, <1>5, RequestFrame, 0 \in Nat
    <2>. QED  BY <2>1, Zenon DEF n, x, m
  <1>6. CASE f \in Delta(n, to, v, m)
    <2>1. FrameOK(f) /\ f.kind = "Delta" /\ f.from = n /\ f.to = to /\ BuiltFrom(f, m, v)
      BY <1>1, <1>2, <1>6, DeltaFrame, Zenon
    <2>. QED  BY <1>2, <2>1, Zenon DEF n, m, v, to
  <1>7. CASE f \in Delta(n, to, 0, m)
    <2>1. FrameOK(f) /\ f.kind = "Delta" /\ f.from = n /\ f.to = to /\ BuiltFrom(f, m, 0)
      BY <1>1, <1>7, DeltaFrame, Zenon
    <2>. QED  BY <2>1, Zenon DEF n, m, v, to
  <1>. QED  BY <1>3, <1>4, <1>5, <1>6, <1>7, Zenon

\* A merge leaves a well-formed record with a mark no lower.
LEMMA MergeType ==
    ASSUME Shape, NEW f \in net, f.kind = "Delta"
    PROVE  /\ RecordOK(Merge(f.to, member[f.to], f))
           /\ member[f.to].max_state_version <= Merge(f.to, member[f.to], f).max_state_version
  <1>. DEFINE m == member[f.to]
  <1>1. setup \in Setups /\ RecordOK(m) /\ FrameOK(f)  BY StateFacts, Zenon
  <1>. HIDE DEF m
  <1>2. /\ RecordOK(MergePeerDelta(m, f))
        /\ m.max_state_version <= MergePeerDelta(m, f).max_state_version
    BY <1>1, MergePeer, Zenon
  <1>3. /\ RecordOK(MergeOwnEcho(m, f))
        /\ m.max_state_version <= MergeOwnEcho(m, f).max_state_version
    BY <1>1, MergeEcho, Zenon
  <1>. QED  BY <1>2, <1>3, Zenon DEF Merge, m

LEMMA ContinuationFrame ==
    ASSUME Shape, NEW g \in net, g.kind = "Delta", NEW m, NEW f \in Continuation(g.to, g, m)
    PROVE  /\ FrameOK(f) /\ f.from = g.to /\ f.kind = "DeltaRequest" /\ f.have = g.max
           /\ m.max_state_version > g.max
  <1>1. FrameOK(g) /\ g.to \in Member /\ g.from \in Member /\ g.from # g.to  BY StateFacts, Zenon
  <1>2. g.max \in Nat  BY <1>1, Zenon DEF FrameOK
  <1>3. f = Request(g.to, g.from, g.max) /\ m.max_state_version > g.max  BY Zenon DEF Continuation
  <1>. QED  BY <1>1, <1>2, <1>3, RequestFrame

LEMMA FreshType ==
    ASSUME setup \in Setups
    PROVE  /\ RecordOK(Fresh) /\ Fresh.max_state_version = 0
           /\ \A k \in Key : Fresh.entries[k] = NoEntry
  <1>. DEFINE es == [k \in Key |-> NoEntry]
  <1>1. es \in [Key -> Entry] /\ \A k \in Key : es[k] = NoEntry  BY NoEntryType, Zenon
  <1>2. Fresh = [max_state_version |-> 0, entries |-> es] /\ 0 \in Nat  BY Zenon DEF Fresh
  <1>. HIDE DEF es
  <1>3. Fresh \in Record /\ Fresh.max_state_version = 0 /\ Fresh.entries = es
    BY <1>1, <1>2, Zenon DEF Record
  <1>4. NoEntry.version <= 0  BY DEF NoEntry
  <1>. QED  BY <1>1, <1>3, <1>4, Zenon DEF RecordOK

LEMMA ShapeKept ==
    ASSUME Shape, NEW mem, NEW A, NEW nt, NEW bur,
           Moves(mem, A, nt, bur) \/ Restarts(mem, A, nt, bur)
    PROVE  ShapeOf(mem, A, nt, bur)
  <1>0. /\ setup \in Setups /\ Author \in Member /\ authored \subseteq Key
        /\ DOMAIN member = Member /\ (\A n \in Member : RecordOK(member[n]))
        /\ (\A f \in net : FrameOK(f)) /\ buried \in [Member -> [Key -> Nat]]
    BY StateFacts, Zenon DEF Shape, ShapeOf
  <1>1. CASE Writes(mem, A, nt, bur)
    <2>1. PICK k \in Key, e \in Entry :
                /\ e.version = member[Author].max_state_version + 1
                /\ Stored(Author, PutRecord(k, e), mem, bur)
                /\ A = authored \cup {k}
                /\ \E targets \in SUBSET Observer :
                     nt \subseteq net \cup Pushed(PutRecord(k, e), targets)
      BY <1>1, Zenon DEF Writes
    <2>. DEFINE m == PutRecord(k, e)
    <2>2. RecordOK(m) /\ m.max_state_version = e.version /\ e.version \in Nat /\ e # NoEntry
      BY <2>1, PutRecordType, Zenon
    <2>3. member[Author].max_state_version \in Nat  BY StateFacts, Zenon
    <2>4. m.max_state_version > 0  BY <2>1, <2>2, <2>3
    <2>5. PICK targets \in SUBSET Observer : nt \subseteq net \cup Pushed(m, targets)  BY <2>1, Zenon
    <2>6. Stored(Author, m, mem, bur) /\ A \subseteq Key  BY <1>0, <2>1, Zenon
    <2>. HIDE DEF m
    <2>7. \A f \in nt : FrameOK(f)  BY <1>0, <2>2, <2>4, <2>5, PushedFrame, Zenon
    <2>8. /\ DOMAIN mem = Member /\ (\A p \in Member : RecordOK(mem[p]))
          /\ bur \in [Member -> [Key -> Nat]]
      BY <1>0, <2>2, <2>6, StoredShape, Zenon
    <2>. QED  BY <2>6, <2>7, <2>8, Zenon DEF ShapeOf
  <1>2. CASE Answers(mem, A, nt, bur)
    <2>1. PICK f \in net :
            \/ f.kind = "Digest" /\ nt \subseteq net \cup Answer(f.to, f)
            \/ f.kind = "DeltaRequest"
               /\ nt \subseteq net \cup Delta(f.to, f.from, f.have, member[f.to])
      BY <1>2, Zenon DEF Answers
    <2>2. FrameOK(f) /\ f.to \in Member /\ f.from \in Member /\ f.from # f.to  BY StateFacts, Zenon
    <2>3. \A g \in nt : FrameOK(g)
      <3>1. CASE f.kind = "Digest" /\ nt \subseteq net \cup Answer(f.to, f)
        BY <1>0, <3>1, AnswerFrame, Zenon
      <3>2. CASE f.kind = "DeltaRequest"
                 /\ nt \subseteq net \cup Delta(f.to, f.from, f.have, member[f.to])
        <4>1. f.have \in Nat  BY <2>2, <3>2, Zenon DEF FrameOK
        <4>2. \A g \in Delta(f.to, f.from, f.have, member[f.to]) : FrameOK(g)
          BY <1>0, <2>2, <4>1, DeltaFrame, Zenon
        <4>. QED  BY <1>0, <3>2, <4>2, Zenon
      <3>. QED  BY <2>1, <3>1, <3>2, Zenon
    <2>. QED  BY <1>0, <1>2, <2>3, Zenon DEF Answers, ShapeOf
  <1>3. CASE Merges(mem, A, nt, bur)
    <2>1. PICK f \in net :
            /\ f.kind = "Delta"
            /\ Stored(f.to, Merge(f.to, member[f.to], f), mem, bur)
            /\ nt \subseteq net \cup Continuation(f.to, f, Merge(f.to, member[f.to], f))
      BY <1>3, Zenon DEF Merges
    <2>. DEFINE m == Merge(f.to, member[f.to], f)
    <2>2. f.to \in Member /\ RecordOK(m)  BY <2>1, StateFacts, MergeType, Zenon
    <2>3. Stored(f.to, m, mem, bur) /\ nt \subseteq net \cup Continuation(f.to, f, m)  BY <2>1, Zenon
    <2>. HIDE DEF m
    <2>4. \A g \in nt : FrameOK(g)  BY <1>0, <2>1, <2>3, ContinuationFrame, Zenon
    <2>5. /\ DOMAIN mem = Member /\ (\A p \in Member : RecordOK(mem[p]))
          /\ bur \in [Member -> [Key -> Nat]]
      BY <2>2, <2>3, StoredShape
    <2>. QED  BY <1>0, <1>3, <2>4, <2>5, Zenon DEF Merges, ShapeOf
  <1>4. CASE Sweeps(mem, A, nt, bur)
    <2>1. PICK n \in Member :
            /\ Stored(n, Reaped(member[n]), mem, bur)
            /\ \/ nt = net
               \/ \E to \in Member \ {n} : nt \subseteq net \cup {Digest(n, to, Reaped(member[n]))}
      BY <1>4, Zenon DEF Sweeps
    <2>. DEFINE m == Reaped(member[n])
    <2>2. RecordOK(m)  BY <1>0, ReapedType, Zenon
    <2>3. Stored(n, m, mem, bur)  BY <2>1, Zenon
    <2>4. nt = net \/ \E to \in Member \ {n} : nt \subseteq net \cup {Digest(n, to, m)}  BY <2>1, Zenon
    <2>. HIDE DEF m
    <2>5. \A g \in nt : FrameOK(g)  BY <1>0, <2>2, <2>4, DigestFrame
    <2>6. /\ DOMAIN mem = Member /\ (\A p \in Member : RecordOK(mem[p]))
          /\ bur \in [Member -> [Key -> Nat]]
      BY <2>2, <2>3, StoredShape, Zenon
    <2>. QED  BY <1>0, <1>4, <2>5, <2>6, Zenon DEF Sweeps, ShapeOf
  <1>5. CASE Ages(mem, A, nt, bur)
    <2>1. DOMAIN mem = Member /\ \A n \in Member : mem[n] = AgedRecord(member[n])
      BY <1>5, Zenon DEF Ages
    <2>2. \A n \in Member : RecordOK(mem[n])  BY <1>0, <2>1, AgedRecordType, Zenon
    <2>. QED  BY <1>0, <1>5, <2>1, <2>2, Zenon DEF Ages, ShapeOf
  <1>6. CASE Restarts(mem, A, nt, bur)
    <2>1. mem = [member EXCEPT ![Author] = Fresh] /\ RecordOK(Fresh)
      BY <1>0, <1>6, FreshType, Zenon DEF Restarts
    <2>2. DOMAIN mem = Member /\ \A n \in Member : RecordOK(mem[n])  BY <1>0, <2>1, Zenon
    <2>3. [k \in Key |-> 0] \in [Key -> Nat]  OBVIOUS
    <2>4. bur \in [Member -> [Key -> Nat]]  BY <1>0, <1>6, <2>3, Zenon DEF Restarts
    <2>. QED  BY <1>0, <1>6, <2>2, <2>4, Zenon DEF Restarts, ShapeOf
  <1>. QED  BY <1>1, <1>2, <1>3, <1>4, <1>5, <1>6, Zenon DEF Moves, Idles

-----------------------------------------------------------------------------
(* The author keeps what it wrote.                                         *)

\* Without a write or a restart, a key the author wrote keeps value and
\* tombstone until it is due.
KeptUntilDue(e, d) ==
    \/ d.value = e.value /\ d.tombstone = e.tombstone
    \/ Due(e) /\ d = NoEntry

LEMMA OwnKept ==
    ASSUME Shape, NEW mem, NEW A, NEW nt, NEW bur, NEW k \in authored,
           Idles(mem, A, nt, bur)
    PROVE  KeptUntilDue(member[Author].entries[k], mem[Author].entries[k])
  <1>. DEFINE e == member[Author].entries[k]
              d == mem[Author].entries[k]
  <1>0. /\ setup \in Setups /\ Author \in Member /\ k \in Key
        /\ (\A n \in Member : RecordOK(member[n])) /\ e \in Entry
    BY StateFacts, Zenon DEF Shape, ShapeOf
  <1>1. CASE Answers(mem, A, nt, bur)  BY <1>1, Zenon DEF Answers, KeptUntilDue
  <1>2. CASE Merges(mem, A, nt, bur)
    <2>1. PICK f \in net :
            f.kind = "Delta" /\ Stored(f.to, Merge(f.to, member[f.to], f), mem, bur)
      BY <1>2, Zenon DEF Merges
    <2>. DEFINE m == Merge(f.to, member[f.to], f)
    <2>2. f.to \in Member /\ FrameOK(f) /\ RecordOK(m)  BY <2>1, StateFacts, MergeType, Zenon
    <2>3. mem[f.to] = m /\ \A p \in Member \ {f.to} : mem[p] = member[p]
      <3>1. Stored(f.to, m, mem, bur)  BY <2>1, Zenon
      <3>. HIDE DEF m
      <3>. QED  BY <2>2, <3>1, StoredShape
    <2>4. CASE f.to # Author  BY <1>0, <2>3, <2>4, Zenon DEF KeptUntilDue
    <2>5. CASE f.to = Author
      <3>1. mem[Author] = MergeOwnEcho(member[Author], f)  BY <2>3, <2>5, Zenon DEF Merge
      <3>2. PICK a, r : a = member[Author] /\ r = mem[Author]  BY Zenon
      <3>3. RecordOK(a) /\ r = MergeOwnEcho(a, f)  BY <1>0, <3>1, <3>2, Zenon
      <3>4. r.entries[k].value = a.entries[k].value /\ r.entries[k].tombstone = a.entries[k].tombstone
        BY <1>0, <2>1, <2>2, <3>3, MergeEcho, SMTT(30)
      <3>. QED  BY <3>2, <3>4, Zenon DEF KeptUntilDue
    <2>. QED  BY <2>4, <2>5, Zenon
  <1>3. CASE Sweeps(mem, A, nt, bur)
    <2>1. PICK n \in Member : Stored(n, Reaped(member[n]), mem, bur)  BY <1>3, Zenon DEF Sweeps
    <2>. DEFINE m == Reaped(member[n])
    <2>2. /\ RecordOK(m)
          /\ m.entries[k] = IF Due(member[n].entries[k]) THEN NoEntry ELSE member[n].entries[k]
      BY <1>0, ReapedType, Zenon
    <2>3. Stored(n, m, mem, bur)  BY <2>1, Zenon
    <2>. HIDE DEF m
    <2>4. mem[n] = m /\ \A p \in Member \ {n} : mem[p] = member[p]  BY <2>2, <2>3, StoredShape
    <2>5. CASE n # Author  BY <1>0, <2>4, <2>5, Zenon DEF KeptUntilDue
    <2>6. CASE n = Author
      <3>1. d = IF Due(e) THEN NoEntry ELSE e  BY <2>2, <2>4, <2>6, Zenon
      <3>. QED  BY <3>1, Zenon DEF KeptUntilDue
    <2>. QED  BY <2>5, <2>6, Zenon
  <1>4. CASE Ages(mem, A, nt, bur)
    <2>1. mem[Author] = AgedRecord(member[Author])  BY <1>0, <1>4, Zenon DEF Ages
    <2>2. d = Aged(e)  BY <1>0, <2>1, AgedRecordType, Zenon
    <2>. HIDE DEF e, d
    <2>3. d.value = e.value /\ d.tombstone = e.tombstone  BY <1>0, <2>2, AgedType, Zenon
    <2>. QED  BY <2>3, Zenon DEF e, d, KeptUntilDue
  <1>. QED  BY <1>1, <1>2, <1>3, <1>4, Zenon DEF Idles

-----------------------------------------------------------------------------
(* Every handler obeys the laws.                                           *)

\* Nothing new happens to a record that is not touched.
LEMMA Untouched ==
    ASSUME NEW m, NEW n, NEW A
    PROVE  AuthorLaw(m, m, A) /\ ObserverLaw(n, m, m)
  BY Zenon DEF AuthorLaw, ObserverLaw, SameOrDue

LEMMA WritesLaw ==
    ASSUME Shape, NEW mem, NEW A, NEW nt, NEW bur, Writes(mem, A, nt, bur)
    PROVE  Law(mem, A, nt)
  <1>0. setup \in Setups /\ Author \in Member  BY StateFacts, Zenon
  <1>1. PICK k \in Key, e \in Entry :
                /\ e.version = member[Author].max_state_version + 1
                /\ Stored(Author, PutRecord(k, e), mem, bur)
                /\ A = authored \cup {k}
                /\ \E targets \in SUBSET Observer :
                     nt \subseteq net \cup Pushed(PutRecord(k, e), targets)
    BY Zenon DEF Writes
  <1>. DEFINE m == PutRecord(k, e)
  <1>2. PICK targets \in SUBSET Observer : nt \subseteq net \cup Pushed(m, targets)  BY <1>1, Zenon
  <1>3. /\ RecordOK(m) /\ m.max_state_version = e.version /\ m.entries[k] = e
        /\ (\A j \in Key \ {k} : m.entries[j] = member[Author].entries[j])
        /\ e.version \in Nat /\ e.version > member[Author].max_state_version
    BY <1>1, PutRecordType, Zenon
  <1>4. Stored(Author, m, mem, bur)  BY <1>1, Zenon
  <1>. HIDE DEF m
  <1>5. mem[Author] = m /\ \A n \in Member \ {Author} : mem[n] = member[n]
    BY <1>0, <1>3, <1>4, StoredShape
  <1>6. member[Author].max_state_version \in Nat  BY StateFacts, Zenon
  <1>7. m.max_state_version > 0  BY <1>3, <1>6
  <1>8. AuthorLaw(member[Author], mem[Author], A)
    <2>1. k \in A /\ m.max_state_version = member[Author].max_state_version + 1
          /\ m.entries[k].version = m.max_state_version
      BY <1>1, <1>3, Zenon
    <2>. QED  BY <1>3, <1>5, <2>1, Zenon DEF AuthorLaw
  <1>9. \A n \in Member \ {Author} : ObserverLaw(n, member[n], mem[n])  BY <1>5, Untouched, Zenon
  <1>10. ASSUME NEW f \in nt \ net PROVE FrameLaw(mem, f)
    <2>1. f \in Pushed(m, targets)  BY <1>2, <1>10, Zenon
    <2>2. /\ f.from = Author /\ f.kind = "Delta" /\ setup.eager_push
          /\ \E have \in Nat : have < m.max_state_version /\ BuiltFrom(f, m, have)
      BY <1>0, <1>3, <1>7, <2>1, PushedFrame, Zenon
    <2>3. PICK have \in Nat : have < m.max_state_version /\ BuiltFrom(f, m, have)  BY <2>2, Zenon
    <2>4. m.max_state_version \in Nat  BY <1>3, Zenon
    <2>5. have <= m.max_state_version  BY <2>3, <2>4
    <2>6. f.kind # "Digest" /\ f.kind # "DeltaRequest"  BY <2>2
    <2>. QED  BY <1>5, <2>2, <2>3, <2>5, <2>6, Zenon DEF FrameLaw
  <1>. QED  BY <1>1, <1>8, <1>9, <1>10, Zenon DEF Law

LEMMA AnswersLaw ==
    ASSUME Shape, FirstLife(member, authored, net),
           NEW mem, NEW A, NEW nt, NEW bur, Answers(mem, A, nt, bur)
    PROVE  Law(mem, A, nt)
  <1>0. /\ setup \in Setups /\ Author \in Member
        /\ \A n \in Member : RecordOK(member[n]) /\ member[n].max_state_version \in Nat
    BY StateFacts, Zenon
  <1>1. mem = member /\ A = authored  BY Zenon DEF Answers
  <1>2. AuthorLaw(member[Author], mem[Author], A)  BY <1>1, Untouched, Zenon
  <1>3. \A n \in Member \ {Author} : ObserverLaw(n, member[n], mem[n])  BY <1>1, Untouched, Zenon
  <1>4. PICK g \in net :
            \/ g.kind = "Digest" /\ nt \subseteq net \cup Answer(g.to, g)
            \/ g.kind = "DeltaRequest"
               /\ nt \subseteq net \cup Delta(g.to, g.from, g.have, member[g.to])
    BY Zenon DEF Answers
  <1>5. FrameOK(g) /\ g.to \in Member /\ g.from \in Member /\ g.from # g.to  BY StateFacts, Zenon
  <1>6. FrameTrue(member, g)  BY Zenon DEF FirstLife
  <1>. DEFINE a == member[Author].max_state_version
              p == member[g.from].max_state_version
              q == member[g.to].max_state_version
  <1>7. a \in Nat /\ p \in Nat /\ q \in Nat /\ p <= a /\ q <= a
    BY <1>0, <1>5, Zenon DEF FirstLife
  <1>. HIDE DEF a, p, q
  <1>8. 0 <= a /\ 0 <= p /\ 0 <= q /\ q <= q  BY <1>7
  <1>9. ASSUME NEW f \in nt \ net PROVE FrameLaw(mem, f)
    <2>1. CASE g.kind = "Digest" /\ nt \subseteq net \cup Answer(g.to, g)
      <3>0. g.max \in Nat /\ g.max <= p  BY <1>5, <1>6, <2>1, Zenon DEF FrameOK, FrameTrue, p
      <3>1. f \in Answer(g.to, g)  BY <2>1, <1>9, Zenon
      <3>2. /\ f.from = g.to
            /\ \/ f.kind = "DeltaRequest" /\ f.have \in {0, q}
               \/ /\ f.kind = "Delta" /\ f.to = g.from
                  /\ \E have \in {0, g.max} : have \in Nat /\ BuiltFrom(f, member[g.to], have)
        BY <2>1, <3>1, AnswerFrame, Zenon DEF q
      <3>3. CASE f.kind = "DeltaRequest" /\ f.have \in {0, q}
        <4>1. f.kind # "Digest" /\ f.kind # "Delta"  BY <3>3
        <4>2. f.have <= member[f.from].max_state_version  BY <1>8, <3>2, <3>3, Zenon DEF q
        <4>. QED  BY <1>1, <4>1, <4>2, Zenon DEF FrameLaw
      <3>4. CASE /\ f.kind = "Delta" /\ f.to = g.from
                 /\ \E have \in {0, g.max} : have \in Nat /\ BuiltFrom(f, member[g.to], have)
        <4>1. f.kind # "Digest" /\ f.kind # "DeltaRequest"  BY <3>4
        <4>2. PICK have \in Nat : have \in {0, g.max} /\ BuiltFrom(f, member[g.to], have)
          BY <3>4, Zenon
        <4>3. have <= a /\ have <= p  BY <1>7, <3>0, <4>2
        <4>. QED  BY <1>1, <3>2, <3>4, <4>1, <4>2, <4>3, Zenon DEF FrameLaw, a, p
      <3>. QED  BY <3>2, <3>3, <3>4, Zenon
    <2>2. CASE /\ g.kind = "DeltaRequest"
               /\ nt \subseteq net \cup Delta(g.to, g.from, g.have, member[g.to])
      <3>0. g.have \in Nat /\ g.have <= p  BY <1>5, <1>6, <2>2, Zenon DEF FrameOK, FrameTrue, p
      <3>1. f \in Delta(g.to, g.from, g.have, member[g.to])  BY <2>2, <1>9, Zenon
      <3>2. /\ f.kind = "Delta" /\ f.from = g.to /\ f.to = g.from
            /\ BuiltFrom(f, member[g.to], g.have)
        BY <1>0, <1>5, <3>0, <3>1, DeltaFrame, SMTT(30)
      <3>3. f.kind # "Digest" /\ f.kind # "DeltaRequest"  BY <3>2
      <3>4. g.have <= a  BY <1>7, <3>0
      <3>. QED  BY <1>1, <3>0, <3>2, <3>3, <3>4, Zenon DEF FrameLaw, a, p
    <2>. QED  BY <1>4, <2>1, <2>2, Zenon
  <1>. QED  BY <1>1, <1>2, <1>3, <1>9, Zenon DEF Law

LEMMA MergesLaw ==
    ASSUME Shape, FirstLife(member, authored, net),
           NEW mem, NEW A, NEW nt, NEW bur, Merges(mem, A, nt, bur)
    PROVE  Law(mem, A, nt)
  <1>0. /\ setup \in Setups /\ Author \in Member
        /\ \A n \in Member : RecordOK(member[n]) /\ member[n].max_state_version \in Nat
    BY StateFacts, Zenon
  <1>1. A = authored  BY Zenon DEF Merges
  <1>2. PICK g \in net :
            /\ g.kind = "Delta"
            /\ Stored(g.to, Merge(g.to, member[g.to], g), mem, bur)
            /\ nt \subseteq net \cup Continuation(g.to, g, Merge(g.to, member[g.to], g))
    BY Zenon DEF Merges
  <1>. DEFINE m == Merge(g.to, member[g.to], g)
  <1>3. FrameOK(g) /\ g.to \in Member /\ RecordOK(m)  BY <1>2, StateFacts, MergeType, Zenon
  <1>4. Stored(g.to, m, mem, bur) /\ nt \subseteq net \cup Continuation(g.to, g, m)  BY <1>2, Zenon
  <1>5. m = IF g.to = Author THEN MergeOwnEcho(member[g.to], g) ELSE MergePeerDelta(member[g.to], g)
    BY Zenon DEF Merge
  <1>. HIDE DEF m
  <1>6. mem[g.to] = m /\ \A n \in Member \ {g.to} : mem[n] = member[n]
    BY <1>3, <1>4, StoredShape
  <1>7. AuthorLaw(member[Author], mem[Author], A)
    <2>1. CASE g.to # Author  BY <1>0, <1>6, <2>1, Untouched, Zenon
    <2>2. CASE g.to = Author
      <3>1. \A w \in g.entries : w \in WireEntry /\ w \in Copies(member, net)
        BY <1>2, <1>3, Zenon DEF FrameOK, Copies
      <3>2. \A w \in g.entries : CopyOK(member[Author], authored, w)  BY <3>1, Zenon DEF FirstLife
      <3>3. \A w \in g.entries :
               /\ w.key \in authored
               /\ member[Author].entries[w.key] # NoEntry =>
                    \/ w.version < member[Author].entries[w.key].version
                    \/ w = Wire(w.key, member[Author].entries[w.key])
        BY <3>2, Zenon DEF CopyOK
      <3>4. PICK a : a = member[Author]  BY Zenon
      <3>5. MergeOwnEcho(a, g) = a  BY <1>0, <1>2, <1>3, <3>3, <3>4, EchoIdle, Zenon
      <3>6. mem[Author] = member[Author]  BY <1>5, <1>6, <2>2, <3>4, <3>5, Zenon
      <3>. QED  BY <3>6, Untouched, Zenon
    <2>. QED  BY <2>1, <2>2, Zenon
  <1>8. ASSUME NEW n \in Member \ {Author} PROVE ObserverLaw(n, member[n], mem[n])
    <2>1. CASE g.to # n  BY <1>6, <2>1, Untouched, Zenon
    <2>2. CASE g.to = n
      <3>1. PICK a, r : a = member[n] /\ r = mem[n]  BY Zenon
      <3>2. RecordOK(a) /\ r = MergePeerDelta(a, g)  BY <1>0, <1>5, <1>6, <2>2, <3>1, Zenon
      <3>3. /\ a.max_state_version <= r.max_state_version /\ g.max <= r.max_state_version
            /\ \/ r.max_state_version \in {a.max_state_version, g.max}
               \/ \E w \in g.entries : r.max_state_version = w.version
            /\ \A k \in Key : TakenOn(a, g, k, r.entries[k])
        BY <1>0, <1>2, <1>3, <3>2, MergePeer, SMTT(30)
      <3>4. ObserverLaw(n, a, r)  BY <1>2, <2>2, <3>3, Zenon DEF ObserverLaw
      <3>. QED  BY <3>1, <3>4, Zenon
    <2>. QED  BY <2>1, <2>2, Zenon
  <1>9. ASSUME NEW f \in nt \ net PROVE FrameLaw(mem, f)
    <2>1. f \in Continuation(g.to, g, m)  BY <1>4, <1>9, Zenon
    <2>2. f.from = g.to /\ f.kind = "DeltaRequest" /\ f.have = g.max /\ m.max_state_version > g.max
      BY <1>2, <2>1, ContinuationFrame, Zenon
    <2>3. m.max_state_version \in Nat  BY <1>3, Zenon DEF RecordOK, Record
    <2>4. g.max \in Nat  BY <1>2, <1>3, Zenon DEF FrameOK
    <2>5. g.max <= m.max_state_version  BY <2>2, <2>3, <2>4
    <2>6. f.kind # "Digest" /\ f.kind # "Delta"  BY <2>2
    <2>. QED  BY <1>6, <2>2, <2>5, <2>6, Zenon DEF FrameLaw
  <1>. QED  BY <1>1, <1>7, <1>8, <1>9, Zenon DEF Law

LEMMA SweepsLaw ==
    ASSUME Shape, NEW mem, NEW A, NEW nt, NEW bur, Sweeps(mem, A, nt, bur)
    PROVE  Law(mem, A, nt)
  <1>0. /\ setup \in Setups /\ Author \in Member
        /\ \A n \in Member : RecordOK(member[n]) /\ member[n].max_state_version \in Nat
    BY StateFacts, Zenon
  <1>1. A = authored  BY Zenon DEF Sweeps
  <1>2. PICK p \in Member :
            /\ Stored(p, Reaped(member[p]), mem, bur)
            /\ \/ nt = net
               \/ \E to \in Member \ {p} : nt \subseteq net \cup {Digest(p, to, Reaped(member[p]))}
    BY Zenon DEF Sweeps
  <1>. DEFINE m == Reaped(member[p])
  <1>3. /\ RecordOK(m) /\ m.max_state_version = member[p].max_state_version
        /\ \A k \in Key : m.entries[k] =
                            IF Due(member[p].entries[k]) THEN NoEntry ELSE member[p].entries[k]
    BY <1>0, ReapedType, Zenon
  <1>4. /\ Stored(p, m, mem, bur)
        /\ nt = net \/ \E to \in Member \ {p} : nt \subseteq net \cup {Digest(p, to, m)}
    BY <1>2, Zenon
  <1>. HIDE DEF m
  <1>5. mem[p] = m /\ \A n \in Member \ {p} : mem[n] = member[n]  BY <1>3, <1>4, StoredShape
  <1>6. \A k \in Key : SameOrDue(k, member[p].entries[k], m.entries[k])
    BY <1>3, Zenon DEF SameOrDue
  <1>7. AuthorLaw(member[p], m, A) /\ ObserverLaw(p, member[p], m)
    BY <1>3, <1>6, Zenon DEF AuthorLaw, ObserverLaw
  <1>8. AuthorLaw(member[Author], mem[Author], A)  BY <1>0, <1>5, <1>7, Untouched, Zenon
  <1>9. \A n \in Member \ {Author} : ObserverLaw(n, member[n], mem[n])
    BY <1>5, <1>7, Untouched, Zenon
  <1>10. ASSUME NEW f \in nt \ net PROVE FrameLaw(mem, f)
    <2>1. PICK to \in Member \ {p} : f = Digest(p, to, m)  BY <1>4, <1>10, Zenon
    <2>2. to \in Member /\ p # to  BY <2>1, Zenon
    <2>3. f.kind = "Digest" /\ f.from = p /\ f.max = m.max_state_version
      BY <1>3, <2>1, <2>2, DigestFrame, SMTT(30)
    <2>4. m.max_state_version <= m.max_state_version  BY <1>0, <1>3
    <2>5. f.kind # "Delta" /\ f.kind # "DeltaRequest"  BY <2>3
    <2>. QED  BY <1>5, <2>3, <2>4, <2>5, Zenon DEF FrameLaw
  <1>. QED  BY <1>1, <1>8, <1>9, <1>10, Zenon DEF Law

LEMMA AgesLaw ==
    ASSUME Shape, NEW mem, NEW A, NEW nt, NEW bur, Ages(mem, A, nt, bur)
    PROVE  Law(mem, A, nt)
  <1>0. /\ setup \in Setups /\ Author \in Member
        /\ \A n \in Member : RecordOK(member[n]) /\ \A k \in Key : member[n].entries[k] \in Entry
    BY StateFacts, Zenon
  <1>1. A = authored /\ nt = net /\ \A n \in Member : mem[n] = AgedRecord(member[n])
    BY Zenon DEF Ages
  <1>2. ASSUME NEW n \in Member
        PROVE  AuthorLaw(member[n], mem[n], A) /\ ObserverLaw(n, member[n], mem[n])
    <2>1. /\ mem[n].max_state_version = member[n].max_state_version
          /\ \A k \in Key : mem[n].entries[k] = Aged(member[n].entries[k])
      BY <1>0, <1>1, AgedRecordType, Zenon
    <2>2. \A k \in Key : SameOrDue(k, member[n].entries[k], mem[n].entries[k])
      <3>. SUFFICES ASSUME NEW k \in Key
                    PROVE  SameOrDue(k, member[n].entries[k], mem[n].entries[k])
        OBVIOUS
      <3>1. PICK e, d : e = member[n].entries[k] /\ d = mem[n].entries[k]  BY Zenon
      <3>2. e \in Entry /\ d = Aged(e)  BY <1>0, <2>1, <3>1, Zenon
      <3>3. Wire(k, d) = Wire(k, e) /\ (d = NoEntry <=> e = NoEntry)  BY <1>0, <3>2, AgedType, Zenon
      <3>. QED  BY <3>1, <3>3, Zenon DEF SameOrDue
    <2>. QED  BY <2>1, <2>2, Zenon DEF AuthorLaw, ObserverLaw
  <1>. QED  BY <1>0, <1>1, <1>2, Zenon DEF Law

LEMMA StepLaw ==
    ASSUME Shape, FirstLife(member, authored, net), NEW mem, NEW A, NEW nt, NEW bur,
           Moves(mem, A, nt, bur)
    PROVE  Law(mem, A, nt)
  BY WritesLaw, AnswersLaw, MergesLaw, SweepsLaw, AgesLaw, Zenon DEF Moves, Idles

-----------------------------------------------------------------------------
(* What each handler makes of tombstones.                                  *)

\* A new delta is built from its sender's record, restarts or not.
LEMMA NewDeltas ==
    ASSUME Shape, NEW mem, NEW A, NEW nt, NEW bur,
           Moves(mem, A, nt, bur) \/ Restarts(mem, A, nt, bur),
           NEW f \in nt \ net, f.kind = "Delta"
    PROVE  f.from \in Member /\ \E have \in Nat : BuiltFrom(f, mem[f.from], have)
  <1>0. /\ setup \in Setups /\ Author \in Member
        /\ \A n \in Member : RecordOK(member[n])
    BY StateFacts, Zenon
  <1>1. CASE Writes(mem, A, nt, bur)
    <2>1. Law(mem, A, nt)  BY <1>1, WritesLaw, Zenon
    <2>2. ShapeOf(mem, A, nt, bur)  BY <1>1, ShapeKept
    <2>3. f.from \in Member  BY <2>2, Zenon DEF ShapeOf, FrameOK
    <2>. QED  BY <2>1, <2>3, Zenon DEF Law, FrameLaw
  <1>2. CASE Answers(mem, A, nt, bur)
    <2>1. PICK g \in net :
            \/ g.kind = "Digest" /\ nt \subseteq net \cup Answer(g.to, g)
            \/ g.kind = "DeltaRequest"
               /\ nt \subseteq net \cup Delta(g.to, g.from, g.have, member[g.to])
      BY <1>2, Zenon DEF Answers
    <2>2. FrameOK(g) /\ g.to \in Member /\ g.from \in Member /\ g.from # g.to  BY StateFacts, Zenon
    <2>3. mem = member  BY <1>2, Zenon DEF Answers
    <2>4. CASE g.kind = "Digest" /\ nt \subseteq net \cup Answer(g.to, g)
      <3>1. f \in Answer(g.to, g)  BY <2>4, Zenon
      <3>2. /\ f.from = g.to
            /\ \/ f.kind = "DeltaRequest"
               \/ \E have \in Nat : BuiltFrom(f, member[g.to], have)
        BY <2>4, <3>1, AnswerFrame, Zenon
      <3>3. f.kind # "DeltaRequest"  OBVIOUS
      <3>. QED  BY <2>2, <2>3, <3>2, <3>3, Zenon
    <2>5. CASE /\ g.kind = "DeltaRequest"
               /\ nt \subseteq net \cup Delta(g.to, g.from, g.have, member[g.to])
      <3>1. f \in Delta(g.to, g.from, g.have, member[g.to])  BY <2>5, Zenon
      <3>2. g.have \in Nat  BY <2>2, <2>5, Zenon DEF FrameOK
      <3>3. f.from = g.to /\ BuiltFrom(f, member[g.to], g.have)
        BY <1>0, <2>2, <3>1, <3>2, DeltaFrame, SMTT(30)
      <3>. QED  BY <2>2, <2>3, <3>2, <3>3, Zenon
    <2>. QED  BY <2>1, <2>4, <2>5, Zenon
  <1>3. CASE Merges(mem, A, nt, bur)
    <2>1. PICK g \in net : g.kind = "Delta"
            /\ nt \subseteq net \cup Continuation(g.to, g, Merge(g.to, member[g.to], g))
      BY <1>3, Zenon DEF Merges
    <2>2. f.kind = "DeltaRequest"  BY <2>1, ContinuationFrame, Zenon
    <2>3. f.kind # "DeltaRequest"  OBVIOUS
    <2>. QED  BY <2>2, <2>3, Zenon
  <1>4. CASE Sweeps(mem, A, nt, bur)
    <2>1. PICK p \in Member, to \in Member : f = Digest(p, to, Reaped(member[p]))
      BY <1>4, Zenon DEF Sweeps
    <2>2. f.kind = "Digest"  BY <2>1, Zenon DEF Digest
    <2>3. f.kind # "Digest"  OBVIOUS
    <2>. QED  BY <2>2, <2>3, Zenon
  <1>5. CASE Ages(mem, A, nt, bur) \/ Restarts(mem, A, nt, bur)
    BY <1>5, Zenon DEF Ages, Restarts
  <1>. QED  BY <1>1, <1>2, <1>3, <1>4, <1>5, Zenon DEF Moves, Idles

\* No entry is a tombstone after a step that found none and wrote none.
LEMMA HeldAlive ==
    ASSUME Shape, ~setup.deletes,
           \A n \in Member, k \in Key : ~member[n].entries[k].tombstone,
           \A f \in net : f.kind = "Delta" => \A w \in f.entries : ~w.tombstone,
           \A n \in Member, k \in Key : buried[n][k] = 0,
           NEW mem, NEW A, NEW nt, NEW bur,
           Moves(mem, A, nt, bur) \/ Restarts(mem, A, nt, bur)
    PROVE  \A n \in Member, k \in Key : ~mem[n].entries[k].tombstone /\ bur[n][k] = 0
  <1>0. /\ setup \in Setups /\ Author \in Member /\ DOMAIN member = Member
        /\ \A n \in Member : RecordOK(member[n])
        /\ \A n \in Member, k \in Key : member[n].entries[k] \in Entry
        /\ \A f \in net : FrameOK(f) /\ f.to \in Member
        /\ buried \in [Member -> [Key -> Nat]]
    BY StateFacts, Zenon DEF Shape, ShapeOf
  <1>n. ~NoEntry.tombstone  BY DEF NoEntry
  <1>a. ASSUME NEW p \in Member, NEW m, RecordOK(m), Stored(p, m, mem, bur),
               \A k \in Key : ~m.entries[k].tombstone
        PROVE  \A n \in Member, k \in Key : ~mem[n].entries[k].tombstone /\ bur[n][k] = 0
    <2>1. /\ mem[p] = m /\ bur[p] = Buried(p, m)
          /\ \A n \in Member \ {p} : mem[n] = member[n] /\ bur[n] = buried[n]
      BY <1>a, StoredShape
    <2>2. \A k \in Key : Buried(p, m)[k] = buried[p][k]  BY <1>a, Zenon DEF Buried
    <2>. SUFFICES ASSUME NEW n \in Member, NEW k \in Key
                  PROVE  ~mem[n].entries[k].tombstone /\ bur[n][k] = 0
      OBVIOUS
    <2>3. CASE n = p
      <3>1. mem[n].entries[k] = m.entries[k] /\ bur[n][k] = buried[p][k]  BY <2>1, <2>2, <2>3, Zenon
      <3>. QED  BY <1>a, <3>1, Zenon
    <2>4. CASE n # p
      <3>1. mem[n] = member[n] /\ bur[n] = buried[n]  BY <2>1, <2>4, Zenon
      <3>. QED  BY <3>1, Zenon
    <2>. QED  BY <2>3, <2>4, Zenon
  <1>1. CASE Writes(mem, A, nt, bur)
    <2>1. PICK k \in Key, e \in Entry :
                /\ e.version = member[Author].max_state_version + 1
                /\ e.tombstone => setup.deletes
                /\ Stored(Author, PutRecord(k, e), mem, bur)
      BY <1>1, Zenon DEF Writes
    <2>. DEFINE m == PutRecord(k, e)
    <2>2. /\ RecordOK(m) /\ m.entries[k] = e
          /\ \A j \in Key \ {k} : m.entries[j] = member[Author].entries[j]
      BY <2>1, PutRecordType, ZenonT(30)
    <2>3. Stored(Author, m, mem, bur)  BY <2>1, Zenon
    <2>. HIDE DEF m
    <2>4. \A j \in Key : ~m.entries[j].tombstone  BY <1>0, <2>1, <2>2, Zenon
    <2>. QED  BY <1>0, <1>a, <2>2, <2>3, <2>4, Zenon
  <1>2. CASE Answers(mem, A, nt, bur)  BY <1>2, Zenon DEF Answers
  <1>3. CASE Merges(mem, A, nt, bur)
    <2>1. PICK f \in net :
            f.kind = "Delta" /\ Stored(f.to, Merge(f.to, member[f.to], f), mem, bur)
      BY <1>3, Zenon DEF Merges
    <2>. DEFINE m == Merge(f.to, member[f.to], f)
    <2>2. f.to \in Member /\ FrameOK(f) /\ RecordOK(m)  BY <2>1, StateFacts, MergeType, Zenon
    <2>3. Stored(f.to, m, mem, bur)  BY <2>1, Zenon
    <2>4. m = IF f.to = Author THEN MergeOwnEcho(member[f.to], f) ELSE MergePeerDelta(member[f.to], f)
      BY Zenon DEF Merge
    <2>. HIDE DEF m
    <2>5. PICK a : a = member[f.to]  BY Zenon
    <2>6. RecordOK(a) /\ \A k \in Key : ~a.entries[k].tombstone  BY <1>0, <2>2, <2>5, Zenon
    <2>7. ASSUME NEW k \in Key PROVE ~m.entries[k].tombstone
      <3>1. CASE m = MergeOwnEcho(a, f)
        <4>1. \A j \in Key : \/ m.entries[j].tombstone = a.entries[j].tombstone
                            \/ \E w \in f.entries : m.entries[j].tombstone = w.tombstone
          <5>1. TombstonesFrom(a, f, m)  BY <1>0, <2>1, <2>2, <2>6, <3>1, MergeEcho, Zenon
          <5>. QED  BY <5>1, Zenon DEF TombstonesFrom
        <4>. QED  BY <2>1, <2>6, <4>1, Zenon
      <3>2. CASE m = MergePeerDelta(a, f)
        <4>1. TakenOn(a, f, k, m.entries[k])  BY <1>0, <2>1, <2>2, <2>6, <3>2, MergePeer, Zenon
        <4>2. CASE m.entries[k] = a.entries[k]  BY <2>6, <4>2, Zenon
        <4>3. ASSUME NEW w \in Carried(f, k), m.entries[k] = AdoptWire(w)
              PROVE  ~m.entries[k].tombstone
          <5>1. w \in f.entries /\ w \in WireEntry  BY <2>1, <2>2, Zenon DEF Carried, FrameOK
          <5>2. AdoptWire(w).tombstone = w.tombstone  BY <1>0, <5>1, AdoptWireType
          <5>. QED  BY <2>1, <4>3, <5>1, <5>2, Zenon
        <4>. QED  BY <4>1, <4>2, <4>3, Zenon DEF TakenOn
      <3>. QED  BY <2>4, <2>5, <3>1, <3>2, Zenon
    <2>. QED  BY <1>a, <2>2, <2>3, <2>7, Zenon
  <1>4. CASE Sweeps(mem, A, nt, bur)
    <2>1. PICK p \in Member : Stored(p, Reaped(member[p]), mem, bur)  BY <1>4, Zenon DEF Sweeps
    <2>. DEFINE m == Reaped(member[p])
    <2>2. /\ RecordOK(m)
          /\ \A k \in Key : m.entries[k] =
               IF Due(member[p].entries[k]) THEN NoEntry ELSE member[p].entries[k]
      BY <1>0, ReapedType, Zenon
    <2>3. Stored(p, m, mem, bur)  BY <2>1, Zenon
    <2>. HIDE DEF m
    <2>4. \A k \in Key : ~m.entries[k].tombstone  BY <1>n, <2>2, Zenon
    <2>. QED  BY <1>a, <2>2, <2>3, <2>4, Zenon
  <1>5. CASE Ages(mem, A, nt, bur)
    <2>1. \A n \in Member : mem[n] = AgedRecord(member[n])  BY <1>5, Zenon DEF Ages
    <2>2. bur = buried  BY <1>5, Zenon DEF Ages
    <2>. SUFFICES ASSUME NEW n \in Member, NEW k \in Key
                  PROVE  ~mem[n].entries[k].tombstone /\ bur[n][k] = 0
      OBVIOUS
    <2>3. PICK m, e : m = member[n] /\ e = m.entries[k]  BY Zenon
    <2>4. RecordOK(m) /\ mem[n] = AgedRecord(m) /\ e \in Entry /\ ~e.tombstone
      BY <1>0, <2>1, <2>3, Zenon
    <2>5. mem[n].entries[k] = Aged(e)  BY <1>0, <2>3, <2>4, AgedRecordType, Zenon
    <2>6. Aged(e).tombstone = e.tombstone  BY <1>0, <2>4, AgedType, ZenonT(30)
    <2>7. ~mem[n].entries[k].tombstone  BY <2>4, <2>5, <2>6, Zenon
    <2>. QED  BY <2>2, <2>7, Zenon
  <1>6. CASE Restarts(mem, A, nt, bur)
    <2>1. /\ mem[Author] = Fresh /\ \A n \in Member \ {Author} : mem[n] = member[n]
      BY <1>0, <1>6, Zenon DEF Restarts
    <2>2. /\ bur[Author] = [k \in Key |-> 0]
          /\ \A n \in Member \ {Author} : bur[n] = buried[n]
      BY <1>0, <1>6, Zenon DEF Restarts
    <2>3. \A k \in Key : Fresh.entries[k] = NoEntry  BY <1>0, FreshType, Zenon
    <2>. SUFFICES ASSUME NEW n \in Member, NEW k \in Key
                  PROVE  ~mem[n].entries[k].tombstone /\ bur[n][k] = 0
      OBVIOUS
    <2>4. CASE n = Author
      <3>1. mem[n].entries[k] = NoEntry /\ bur[n][k] = 0  BY <2>1, <2>2, <2>3, <2>4, Zenon
      <3>. QED  BY <1>n, <3>1, Zenon
    <2>5. CASE n # Author
      <3>1. mem[n] = member[n] /\ bur[n] = buried[n]  BY <2>1, <2>2, <2>5, Zenon
      <3>. QED  BY <3>1, Zenon
    <2>. QED  BY <2>4, <2>5, Zenon
  <1>. QED  BY <1>1, <1>2, <1>3, <1>4, <1>5, <1>6, Zenon DEF Moves, Idles

LEMMA StoredTurns ==
    ASSUME Shape, Buries(member, net, buried), NEW p \in Member, NEW m, RecordOK(m),
           NEW mem, NEW bur, Stored(p, m, mem, bur),
           \A k \in Key : Turn(p, k, member[p].entries[k], m.entries[k])
    PROVE  \A n \in Member, k \in Key :
             /\ Turn(n, k, member[n].entries[k], mem[n].entries[k])
             /\ BuryTurn(buried[n][k], bur[n][k], mem[n].entries[k])
  <1>1. /\ mem[p] = m /\ bur[p] = Buried(p, m)
        /\ \A n \in Member \ {p} : mem[n] = member[n] /\ bur[n] = buried[n]
    BY StoredShape
  <1>2. \A k \in Key : BuryTurn(buried[p][k], Buried(p, m)[k], m.entries[k])
    BY BuriedType, Zenon DEF BuryTurn
  <1>. SUFFICES ASSUME NEW n \in Member, NEW k \in Key
                PROVE  /\ Turn(n, k, member[n].entries[k], mem[n].entries[k])
                       /\ BuryTurn(buried[n][k], bur[n][k], mem[n].entries[k])
    BY Zenon
  <1>3. CASE n = p  BY <1>1, <1>2, <1>3, Zenon
  <1>4. CASE n # p
    <2>1. mem[n] = member[n] /\ bur[n] = buried[n]  BY <1>1, <1>4, Zenon
    <2>. DEFINE b == buried[n][k]
                e == member[n].entries[k]
    <2>2. e.tombstone => e.version <= b  BY Zenon DEF Buries, Remembers
    <2>3. b \in Nat  BY Zenon DEF Shape, ShapeOf
    <2>. HIDE DEF b, e
    <2>4. b <= b  BY <2>3
    <2>5. BuryTurn(b, b, e)  BY <2>2, <2>4, Zenon DEF BuryTurn
    <2>6. Turn(n, k, e, e)  BY Zenon DEF Turn
    <2>. QED  BY <2>1, <2>5, <2>6, Zenon DEF b, e
  <1>. QED  BY <1>3, <1>4, Zenon

LEMMA EntryTurns ==
    ASSUME Shape, FirstLife(member, authored, net), Buries(member, net, buried),
           NEW mem, NEW A, NEW nt, NEW bur,
           Moves(mem, A, nt, bur), ~Ages(mem, A, nt, bur)
    PROVE  \A n \in Member, k \in Key :
             /\ Turn(n, k, member[n].entries[k], mem[n].entries[k])
             /\ BuryTurn(buried[n][k], bur[n][k], mem[n].entries[k])
  <1>0. /\ setup \in Setups /\ Author \in Member
        /\ \A n \in Member : RecordOK(member[n])
        /\ \A f \in net : FrameOK(f) /\ f.to \in Member
    BY StateFacts, Zenon
  <1>s. \A n, k, e : Turn(n, k, e, e)  BY Zenon DEF Turn
  <1>1. CASE Writes(mem, A, nt, bur)
    <2>1. PICK k \in Key, e \in Entry :
                /\ e.version = member[Author].max_state_version + 1
                /\ e.tombstone => e.left = 2 * DeadTimeout
                /\ Stored(Author, PutRecord(k, e), mem, bur)
      BY <1>1, Zenon DEF Writes
    <2>. DEFINE m == PutRecord(k, e)
    <2>2. /\ RecordOK(m) /\ m.entries[k] = e
          /\ \A j \in Key \ {k} : m.entries[j] = member[Author].entries[j]
      BY <2>1, PutRecordType, Zenon
    <2>3. Stored(Author, m, mem, bur)  BY <2>1, Zenon
    <2>. HIDE DEF m
    <2>4. \A j \in Key : Turn(Author, j, member[Author].entries[j], m.entries[j])
      BY <2>1, <2>2, Zenon DEF Turn
    <2>. QED  BY <1>0, <2>2, <2>3, <2>4, StoredTurns, SMTT(30)
  <1>2. CASE Answers(mem, A, nt, bur)
    <2>1. mem = member /\ bur = buried  BY <1>2, Zenon DEF Answers
    <2>. SUFFICES ASSUME NEW n \in Member, NEW k \in Key
                  PROVE  /\ Turn(n, k, member[n].entries[k], member[n].entries[k])
                         /\ BuryTurn(buried[n][k], buried[n][k], member[n].entries[k])
      BY <2>1, Zenon
    <2>. DEFINE b == buried[n][k]
                e == member[n].entries[k]
    <2>2. e.tombstone => e.version <= b  BY Zenon DEF Buries, Remembers
    <2>3. b \in Nat  BY Zenon DEF Shape, ShapeOf
    <2>. HIDE DEF b, e
    <2>4. b <= b  BY <2>3
    <2>5. BuryTurn(b, b, e)  BY <2>2, <2>4, Zenon DEF BuryTurn
    <2>. QED  BY <1>s, <2>5, Zenon DEF b, e
  <1>3. CASE Merges(mem, A, nt, bur)
    <2>1. PICK f \in net :
            f.kind = "Delta" /\ Stored(f.to, Merge(f.to, member[f.to], f), mem, bur)
      BY <1>3, Zenon DEF Merges
    <2>. DEFINE m == Merge(f.to, member[f.to], f)
    <2>2. f.to \in Member /\ FrameOK(f) /\ RecordOK(m)  BY <2>1, StateFacts, MergeType, Zenon
    <2>3. Stored(f.to, m, mem, bur)  BY <2>1, Zenon
    <2>4. m = IF f.to = Author THEN MergeOwnEcho(member[f.to], f) ELSE MergePeerDelta(member[f.to], f)
      BY Zenon DEF Merge
    <2>. HIDE DEF m
    <2>5. PICK a : a = member[f.to]  BY Zenon
    <2>6. RecordOK(a)  BY <1>0, <2>2, <2>5, Zenon
    <2>7. \A w \in f.entries : w \in WireEntry  BY <2>1, <2>2, ZenonT(30) DEF FrameOK
    <2>8. CASE f.to = Author
      <3>1. \A w \in f.entries : w \in Copies(member, net)  BY <2>1, <2>7, Zenon DEF Copies
      <3>2. \A w \in f.entries : CopyOK(member[Author], authored, w)  BY <3>1, Zenon DEF FirstLife
      <3>3. \A w \in f.entries :
               /\ w.key \in authored
               /\ a.entries[w.key] # NoEntry =>
                    \/ w.version < a.entries[w.key].version
                    \/ w = Wire(w.key, a.entries[w.key])
        BY <2>5, <2>8, <3>2, Zenon DEF CopyOK
      <3>4. MergeOwnEcho(a, f) = a  BY <1>0, <2>1, <2>2, <2>6, <3>3, EchoIdle, Zenon
      <3>5. m = a  BY <2>4, <2>5, <2>8, <3>4, Zenon
      <3>6. \A k \in Key : Turn(f.to, k, member[f.to].entries[k], m.entries[k])
        BY <1>s, <2>5, <3>5, Zenon
      <3>. QED  BY <2>2, <2>3, <3>6, StoredTurns, Zenon
    <2>9. CASE f.to # Author
      <3>1. m = MergePeerDelta(a, f)  BY <2>4, <2>5, <2>9, Zenon
      <3>2. \A k \in Key : TakenOn(a, f, k, m.entries[k])  BY <1>0, <2>1, <2>2, <2>6, <3>1, MergePeer, Zenon
      <3>3. \A k \in Key : Carried(f, k) \subseteq WireEntry  BY <2>7, Zenon DEF Carried
      <3>4. \A k \in Key : Turn(f.to, k, a.entries[k], m.entries[k])
        BY <3>2, <3>3, Zenon DEF TakenOn, Turn
      <3>5. \A k \in Key : Turn(f.to, k, member[f.to].entries[k], m.entries[k])
        BY <2>5, <3>4, ZenonT(30)
      <3>. QED  BY <2>2, <2>3, <3>5, StoredTurns
    <2>. QED  BY <2>8, <2>9, Zenon
  <1>4. CASE Sweeps(mem, A, nt, bur)
    <2>1. PICK p \in Member : Stored(p, Reaped(member[p]), mem, bur)  BY <1>4, Zenon DEF Sweeps
    <2>. DEFINE m == Reaped(member[p])
    <2>2. /\ RecordOK(m)
          /\ \A k \in Key : m.entries[k] =
               IF Due(member[p].entries[k]) THEN NoEntry ELSE member[p].entries[k]
      BY <1>0, ReapedType, Zenon
    <2>3. Stored(p, m, mem, bur)  BY <2>1, Zenon
    <2>. HIDE DEF m
    <2>4. \A k \in Key : Turn(p, k, member[p].entries[k], m.entries[k])  BY <2>2, Zenon DEF Turn
    <2>. QED  BY <2>2, <2>3, <2>4, StoredTurns, Zenon
  <1>. QED  BY <1>1, <1>2, <1>3, <1>4, Zenon DEF Moves, Idles
=============================================================================
