-------------------------- MODULE EntriesInvariants --------------------------
(***************************************************************************)
(* What keeps the entries of one member right, apart from the protocol     *)
(* that moves them: the inductive invariant of Entries in the parts its    *)
(* theorems need, and the laws every handler is shown to obey.             *)
(***************************************************************************)
EXTENDS Entries

-----------------------------------------------------------------------------
(* The invariants.                                                         *)

Record == [max_state_version : Nat, entries : [Key -> Entry]]

\* A record's mark is at or above its entries, and only no entry has version 0.
RecordOK(m) ==
    /\ m \in Record
    /\ \A k \in Key : /\ m.entries[k].version <= m.max_state_version
                      /\ m.entries[k] # NoEntry => m.entries[k].version > 0

FrameOK(f) ==
    /\ f.from \in Member /\ f.to \in Member /\ f.from # f.to
    /\ f.kind \in {"Digest", "DeltaRequest", "Delta"}
    /\ f.kind = "Digest" => f.max \in Nat
    /\ f.kind = "DeltaRequest" => f.have \in Nat
    /\ f.kind = "Delta" =>
        /\ f.max \in Nat /\ f.entries \in SUBSET WireEntry /\ IsFiniteSet(f.entries)
        /\ \A w, x \in f.entries : w.key = x.key => w = x

\* The invariants below are stated of a state: the records mem, the keys A the
\* author wrote, the frames nt and the tombstones bur held so far.
ShapeOf(mem, A, nt, bur) ==
    /\ DOMAIN mem = Member /\ \A n \in Member : RecordOK(mem[n])
    /\ A \subseteq Key
    /\ \A f \in nt : FrameOK(f)
    /\ bur \in [Member -> [Key -> Nat]]

\* A copy of an entry of an author in its first life, whose record is own: one it
\* wrote, no newer than its own, its own when the versions agree, and of no other
\* key's version.
CopyOK(own, A, w) ==
    /\ w.key \in A /\ w.version <= own.max_state_version
    /\ own.entries[w.key] # NoEntry =>
        w.version < own.entries[w.key].version \/ w = Wire(w.key, own.entries[w.key])
    /\ \A k \in Key \ {w.key} : w.version # own.entries[k].version

\* A frame says no more than its sender knows.
FrameTrue(mem, f) ==
    /\ f.kind = "Digest" => f.max <= mem[f.from].max_state_version
    /\ f.kind = "DeltaRequest" => f.have <= mem[f.from].max_state_version
    /\ f.kind = "Delta" => /\ f.max <= mem[Author].max_state_version
                           /\ \A w \in f.entries : w.version <= f.max

\* Every entry held or in flight, as frames carry it.
Copies(mem, nt) ==
    {w \in WireEntry :
        \/ \E n \in Member : mem[n].entries[w.key] # NoEntry /\ w = Wire(w.key, mem[n].entries[w.key])
        \/ \E f \in nt : f.kind = "Delta" /\ w \in f.entries}

\* While the author has not restarted: every copy is one it wrote, and a version
\* of a key is one entry everywhere.
FirstLife(mem, A, nt) ==
    /\ \A n \in Member : mem[n].max_state_version <= mem[Author].max_state_version
    /\ \A w \in Copies(mem, nt) : CopyOK(mem[Author], A, w)
    /\ \A w, x \in Copies(mem, nt) : w.key = x.key /\ w.version = x.version => w = x
    /\ \A f \in nt : FrameTrue(mem, f)

\* An entry that neither lapses nor is deleted.
Lasting(e) == e # NoEntry /\ ~Limited(e)

\* A delta holds every lasting entry of the author up to its mark, or its
\* receiver's mark is past it.
Covers(mem, f) ==
    \A k \in Key : LET e == mem[Author].entries[k] IN
        Lasting(e) /\ e.version <= f.max =>
            \/ \E w \in f.entries : w.key = k /\ w.version = e.version
            \/ e.version <= mem[f.to].max_state_version

Coverage(mem, nt) ==
    /\ \A n \in Member, k \in Key : LET e == mem[Author].entries[k] IN
        Lasting(e) /\ e.version <= mem[n].max_state_version => mem[n].entries[k].version = e.version
    /\ \A f \in nt : f.kind = "Delta" => Covers(mem, f)

\* x is later than version b, or the tombstone of that version.
Newer(b, x) == x.version > b \/ (x.version = b /\ x.tombstone)

\* Every copy of key k, held or in flight, is newer than version b.
Passed(mem, nt, b, k) == \A w \in Copies(mem, nt) : w.key = k => Newer(b, w)

\* Of a key whose tombstone a node has held: the node holds that one, still
\* gossiped, or a later entry, or nothing older is left anywhere.
Remembers(mem, nt, b, e, k) ==
    /\ e.tombstone => e.version <= b
    /\ b <= mem[Author].max_state_version
    /\ b > 0 => \/ Passed(mem, nt, b, k)
                \/ e.version > b
                \/ e.version = b /\ e.tombstone /\ e.left > DeadTimeout

Buries(mem, nt, bur) ==
    \A n \in Member, k \in Key : Remembers(mem, nt, bur[n][k], mem[n].entries[k], k)

\* Without deletes there is no tombstone anywhere.
NoTombstones(mem, nt, bur) ==
    /\ \A w \in Copies(mem, nt) : ~w.tombstone
    /\ \A n \in Member, k \in Key : bur[n][k] = 0

\* The inductive invariant, in the parts the theorems need.
Shape == setup \in Setups /\ restarts \in Nat /\ ShapeOf(member, authored, net, buried)

FirstLifeInv == restarts = 0 => FirstLife(member, authored, net)

CoverageInv == restarts = 0 /\ ~setup.eager_push => Coverage(member, net)

TombstoneInv ==
    IF setup.deletes THEN restarts = 0 /\ Buries(member, net, buried)
    ELSE NoTombstones(member, net, buried)

\* Where a delete cannot be undone: tombstones outlive every older copy, no
\* write lapses, and the author does not restart.
DeletesHeard ==
    \A s \in Setups : s.deletes =>
        s.informed /\ s.ttl = 0 /\ s.dead_timeout > 0 /\ s.max_restarts = 0

-----------------------------------------------------------------------------
(* What a step may do to the records and put on the wire.                  *)

\* What build_delta_frame promises: entries of the record beyond what the peer
\* has, each within the frame's mark, and of those with a version of their own,
\* every one up to the mark.
BuiltFrom(f, m, have) ==
    /\ f.kind = "Delta" /\ f.max \in Nat
    /\ f.entries \in SUBSET WireEntry /\ IsFiniteSet(f.entries)
    /\ f.max <= m.max_state_version \/ f.max <= have
    /\ \A w \in f.entries :
        /\ w.version <= f.max
        /\ w.key \in Key /\ m.entries[w.key] # NoEntry /\ w = Wire(w.key, m.entries[w.key])
    /\ \A k \in Key :
        (/\ ShouldGossip(m.entries[k])
         /\ have < m.entries[k].version /\ m.entries[k].version <= f.max
         /\ \A j \in Key \ {k} : m.entries[j].version # m.entries[k].version)
            => Wire(k, m.entries[k]) \in f.entries

\* What a merge leaves at a key: the entry there, which nothing carried beats,
\* or a carried one that does.
TakenOn(m, f, k, d) ==
    \/ /\ d = m.entries[k]
       /\ \A w \in Carried(f, k) : m.entries[k] # NoEntry /\ ~Beats(w, m.entries[k])
    \/ \E w \in Carried(f, k) :
        (m.entries[k] = NoEntry \/ Beats(w, m.entries[k])) /\ d = AdoptWire(w)

\* An entry stays as frames would carry it, or is due and reaped.
SameOrDue(k, e, d) ==
    \/ Wire(k, d) = Wire(k, e) /\ (d = NoEntry <=> e = NoEntry)
    \/ Due(e) /\ d = NoEntry

\* The author's record: nothing new, or one key written above all.
AuthorLaw(m, r, A) ==
    \/ /\ r.max_state_version = m.max_state_version
       /\ \A k \in Key : SameOrDue(k, m.entries[k], r.entries[k])
    \/ \E k \in A :
        /\ r.max_state_version = m.max_state_version + 1
        /\ r.entries[k].version = r.max_state_version
        /\ \A j \in Key \ {k} : r.entries[j] = m.entries[j]

\* An observer's record: nothing new, or a delta merged.
ObserverLaw(n, m, r) ==
    \/ /\ r.max_state_version = m.max_state_version
       /\ \A k \in Key : SameOrDue(k, m.entries[k], r.entries[k])
    \/ \E f \in net :
        /\ f.kind = "Delta" /\ f.to = n
        /\ m.max_state_version <= r.max_state_version /\ f.max <= r.max_state_version
        /\ \/ r.max_state_version \in {m.max_state_version, f.max}
           \/ \E w \in f.entries : r.max_state_version = w.version
        /\ \A k \in Key : TakenOn(m, f, k, r.entries[k])

\* A frame tells what its sender has, and a delta starts from what its receiver
\* said it has, unless it is pushed.
FrameLaw(mem, f) ==
    /\ f.kind = "Digest" => f.max <= mem[f.from].max_state_version
    /\ f.kind = "DeltaRequest" => f.have <= mem[f.from].max_state_version
    /\ f.kind = "Delta" =>
        \E have \in Nat : /\ BuiltFrom(f, mem[f.from], have)
                          /\ have <= mem[Author].max_state_version
                          /\ have <= mem[f.to].max_state_version \/ setup.eager_push

Law(mem, A, nt) ==
    /\ authored \subseteq A
    /\ AuthorLaw(member[Author], mem[Author], A)
    /\ \A n \in Member \ {Author} : ObserverLaw(n, member[n], mem[n])
    /\ \A f \in nt \ net : FrameLaw(mem, f)

\* What a step other than time's makes of an entry e of key k at n: it stays, is
\* reaped when due, gives way to a copy that beats it, or is the author's write.
Turn(n, k, e, d) ==
    \/ d = e
    \/ Due(e) /\ d = NoEntry
    \/ \E w \in WireEntry : (e = NoEntry \/ Beats(w, e)) /\ d = AdoptWire(w)
    \/ /\ n = Author /\ d.version = member[Author].max_state_version + 1
       /\ d.tombstone => d.left = 2 * DeadTimeout

\* The tombstones held so far follow the entry.
BuryTurn(b, c, d) ==
    IF d.tombstone THEN c \in {b, d.version} /\ b <= c /\ d.version <= c ELSE c = b
=============================================================================
