--------------------------- MODULE MetadataProofs ---------------------------
(***************************************************************************)
(* Group metadata for any set of nodes, values and versions: the stamp     *)
(* (version, writer) of a writer that kept its state names one value       *)
(* wherever it is held or carried, and no register moves back.             *)
(*                                                                         *)
(* StampNamesValue is not inductive: a write must not reuse a stamp that   *)
(* is still on the wire.  Known adds why it cannot: a writer that kept its *)
(* state never holds a version below one it has stamped.  Blank says that  *)
(* a register without a writer is the one nobody has written.              *)
(***************************************************************************)
EXTENDS Metadata, TLAPS

\* No writer that kept its state holds a version below one that is held or
\* carried in its name.
Known ==
    \A r \in Registers :
        r.writer \in Node \ booted => r.version <= meta[r.writer].version

Blank == \A r \in Registers : r.writer \notin Node => r = Unset

IInv == TypeOK /\ Known /\ Blank /\ StampNamesValue

LEMMA UnsetType == Unset \in Register
  BY DEF Unset, Register

\* The registers after a step that only n's register takes part in.
LEMMA OneChanges ==
    ASSUME meta \in [Node -> Register], NEW n \in Node, NEW r,
           meta' = [meta EXCEPT ![n] = r], digests' = digests
    PROVE  Registers' \subseteq Registers \cup {r}
  BY Zenon DEF Registers

\* The type invariant holds in every state: registers are only ever built by
\* UpdateMetadata or taken whole from a digest.
THEOREM TypeCorrect == Spec => []TypeOK
<1>1. Init => TypeOK
  BY UnsetType DEF Init, TypeOK
<1>2. TypeOK /\ [Next]_vars => TypeOK'
  <2> SUFFICES ASSUME TypeOK, [Next]_vars PROVE TypeOK'
    OBVIOUS
  <2>1. ASSUME NEW n \in Node, NEW v \in Value, UpdateMetadata(n, v) PROVE TypeOK'
    <3>1. meta[n].version \in Nat
      BY DEF TypeOK, Register
    <3>2. Updated(n, v) \in Register
      BY <3>1, MetadataAssumption DEF Updated, Register
    <3> QED BY <2>1, <3>2 DEF TypeOK, UpdateMetadata
  <2>2. ASSUME NEW n \in Node, Round(n) PROVE TypeOK'
    BY <2>2 DEF TypeOK, Round
  <2>3. ASSUME NEW n \in Node, NEW d \in digests, OnDigest(n, d) PROVE TypeOK'
    BY <2>3 DEF TypeOK, OnDigest
  <2>4. ASSUME NEW n \in Node, Restart(n) PROVE TypeOK'
    BY <2>4, UnsetType DEF TypeOK, Restart
  <2>5. CASE UNCHANGED vars
    BY <2>5 DEF TypeOK, vars
  <2> QED BY <2>1, <2>2, <2>3, <2>4, <2>5 DEF Next
<1> QED BY <1>1, <1>2, PTL DEF Spec

\* A step that stores register r at n keeps the invariant when r is a register
\* of the state, or carries a stamp that no register has.
LEMMA StoreKeeps ==
    ASSUME IInv, NEW n \in Node, NEW r \in Register,
           meta' = [meta EXCEPT ![n] = r], digests' = digests, booted' = booted,
           r.version >= meta[n].version,
           \/ r \in Registers
           \/ /\ r.writer = n
              /\ n \notin booted =>
                   \A q \in Registers : q.writer = n => q.version < r.version
    PROVE  Known' /\ Blank' /\ StampNamesValue'
<1>1. /\ Registers' \subseteq Registers \cup {r}
      /\ \A p \in Node : meta[p] \in Registers /\ meta'[p] = IF p = n THEN r ELSE meta[p]
  BY OneChanges DEF IInv, TypeOK, Registers
<1>2. \A q \in Registers \cup {r} : q.version \in Nat
  BY DEF IInv, TypeOK, Registers, Register
<1>3. \A p \in Node : meta[p].version <= meta'[p].version
  BY <1>1, <1>2
<1>4. \A q \in Registers : q.writer \in Node \ booted => q.version <= meta'[q.writer].version
  BY <1>1, <1>2, <1>3 DEF IInv, Known
<1>5. r.writer \in Node \ booted => r.version <= meta'[r.writer].version
  BY <1>1, <1>2, <1>4
<1>6. Known'
  BY <1>1, <1>4, <1>5 DEF Known
<1>7. Blank'
  BY <1>1 DEF IInv, Blank
<1>8. StampNamesValue'
  <2> SUFFICES ASSUME NEW a \in Registers \cup {r}, NEW b \in Registers \cup {r},
                      a.version = b.version, a.writer = b.writer, a.writer \notin booted
               PROVE  a.value = b.value
    BY <1>1 DEF StampNamesValue
  <2>1. CASE r \in Registers
    BY <2>1 DEF IInv, StampNamesValue
  <2>2. CASE /\ r.writer = n
             /\ n \notin booted =>
                  \A q \in Registers : q.writer = n => q.version < r.version
    <3>1. CASE a = r /\ b = r
      BY <3>1
    <3>2. CASE a \in Registers /\ b \in Registers
      BY <3>2 DEF IInv, StampNamesValue
    <3>3. CASE (a = r /\ b \in Registers) \/ (b = r /\ a \in Registers)
      BY <1>2, <2>2, <3>3
    <3> QED BY <3>1, <3>2, <3>3
  <2> QED BY <2>1, <2>2
<1> QED BY <1>6, <1>7, <1>8

LEMMA Inductive ==
    ASSUME IInv, TypeOK', [Next]_vars
    PROVE  IInv'
<1>0. \A q \in Registers : q.version \in Nat
  BY DEF IInv, TypeOK, Registers, Register
<1>1. ASSUME NEW n \in Node, NEW v \in Value, UpdateMetadata(n, v) PROVE IInv'
  <2>1. /\ meta[n].version \in Nat
        /\ Updated(n, v).version = meta[n].version + 1
        /\ Updated(n, v).writer = n
    BY <1>0 DEF Registers, Updated
  <2>2. Updated(n, v) \in Register
    BY <2>1 DEF Updated, Register
  <2>3. n \notin booted =>
           \A q \in Registers : q.writer = n => q.version < Updated(n, v).version
    BY <1>0, <2>1 DEF IInv, Known
  <2>4. Updated(n, v).version >= meta[n].version
    BY <2>1
  <2> DEFINE r == Updated(n, v)
  <2>a. meta' = [meta EXCEPT ![n] = r] /\ digests' = digests /\ booted' = booted
    BY <1>1 DEF UpdateMetadata
  <2>b. /\ r.writer = n
        /\ n \notin booted => \A q \in Registers : q.writer = n => q.version < r.version
    BY <2>1, <2>3
  <2>c. r \in Register /\ r.version >= meta[n].version
    BY <2>2, <2>4
  <2> HIDE DEF r
  <2>5. Known' /\ Blank' /\ StampNamesValue'
    BY <2>a, <2>b, <2>c, StoreKeeps, Zenon
  <2> QED BY <2>5 DEF IInv
<1>2. ASSUME NEW n \in Node, Round(n) PROVE IInv'
  <2>1. Registers' = Registers
    BY <1>2 DEF Registers, Round
  <2> QED BY <1>2, <2>1 DEF IInv, Known, Blank, StampNamesValue, Round
<1>3. ASSUME NEW n \in Node, NEW d \in digests, OnDigest(n, d) PROVE IInv'
  <2>1. d \in Registers /\ d \in Register
    BY DEF Registers, IInv, TypeOK
  <2>2. d.version >= meta[n].version
    BY <1>0, <1>3, <2>1 DEF OnDigest, Wins, Registers
  <2>3. Known' /\ Blank' /\ StampNamesValue'
    BY <1>3, <2>1, <2>2, StoreKeeps DEF OnDigest
  <2> QED BY <2>3 DEF IInv
<1>4. ASSUME NEW n \in Node, Restart(n) PROVE IInv'
  <2>1. /\ Registers' \subseteq Registers \cup {Unset}
        /\ \A p \in Node : p # n => meta'[p] = meta[p]
        /\ booted' = booted \cup {n}
        /\ booted' \subseteq Node
    BY <1>4, OneChanges, MetadataAssumption DEF Restart, IInv, TypeOK
  <2>2. Unset.writer \notin Node
    BY MetadataAssumption DEF Unset
  <2>3. Known'
    BY <2>1, <2>2 DEF IInv, Known
  <2>4. Blank'
    BY <2>1 DEF IInv, Blank
  <2>5. StampNamesValue'
    BY <2>1, <2>2 DEF IInv, Blank, StampNamesValue
  <2> QED BY <2>3, <2>4, <2>5 DEF IInv
<1>5. CASE UNCHANGED vars
  BY <1>5 DEF vars, IInv, Known, Blank, StampNamesValue, Registers, TypeOK
<1> QED BY <1>1, <1>2, <1>3, <1>4, <1>5 DEF Next

\* Equal stamps of a writer that kept its state mean equal values, for any group,
\* so merge_metadata never has to look at the values it orders.
THEOREM StampsNameValues == Spec => []StampNamesValue
<1>1. Init => IInv
  <2>1. ASSUME Init PROVE Registers \subseteq {Unset}
    BY <2>1 DEF Init, Registers
  <2>2. ASSUME Init PROVE TypeOK
    BY <2>2, UnsetType DEF Init, TypeOK
  <2>3. Unset.writer \notin Node
    BY MetadataAssumption DEF Unset
  <2> QED BY <2>1, <2>2, <2>3 DEF IInv, Known, Blank, StampNamesValue
<1>2. IInv /\ TypeOK' /\ [Next]_vars => IInv'
  BY Inductive
<1>3. IInv => StampNamesValue
  BY DEF IInv
<1> QED BY <1>1, <1>2, <1>3, TypeCorrect, PTL DEF Spec

\* No node's register moves back, for any group, restarts aside: merge_metadata
\* and UpdateMetadata only ever store a higher stamp.
THEOREM RegistersNeverBack == Spec => NeverBack
<1>1. TypeOK /\ [Next]_vars =>
        [\A n \in Node :
           \/ n \in booted' \ booted
           \/ meta'[n] = meta[n]
           \/ meta'[n].version > meta[n].version
           \/ meta'[n].version = meta[n].version /\ meta'[n].writer > meta[n].writer]_vars
  <2> SUFFICES ASSUME TypeOK, Next, NEW p \in Node
               PROVE  \/ p \in booted' \ booted
                      \/ meta'[p] = meta[p]
                      \/ meta'[p].version > meta[p].version
                      \/ meta'[p].version = meta[p].version /\ meta'[p].writer > meta[p].writer
    OBVIOUS
  <2>0. meta[p].version \in Nat
    BY DEF TypeOK, Register
  <2>1. ASSUME NEW n \in Node, NEW v \in Value, UpdateMetadata(n, v)
        PROVE  meta'[p] = meta[p] \/ meta'[p].version > meta[p].version
    BY <2>0, <2>1 DEF TypeOK, UpdateMetadata, Updated
  <2>2. ASSUME NEW n \in Node, Round(n) PROVE meta'[p] = meta[p]
    BY <2>2 DEF Round
  <2>3. ASSUME NEW n \in Node, NEW d \in digests, OnDigest(n, d)
        PROVE  \/ meta'[p] = meta[p]
               \/ meta'[p].version > meta[p].version
               \/ meta'[p].version = meta[p].version /\ meta'[p].writer > meta[p].writer
    BY <2>3 DEF TypeOK, OnDigest, Wins
  <2>4. ASSUME NEW n \in Node, Restart(n)
        PROVE  p \in booted' \ booted \/ meta'[p] = meta[p]
    BY <2>4 DEF TypeOK, Restart
  <2> QED BY <2>1, <2>2, <2>3, <2>4 DEF Next
<1> QED BY <1>1, TypeCorrect, PTL DEF Spec, NeverBack
=============================================================================
