-------------------------------- MODULE Feed --------------------------------
(***************************************************************************)
(* A writer's feed and a subscriber's place in it, as functions.  The ring *)
(* holds a writer's latest writes of one life (consistency/src/feed.rs);   *)
(* its frame is the gossiped entry (wire.rs); a cursor turns the frame now *)
(* visible into events (peers.rs).  The written keys do not matter here: a *)
(* write is its token, the pair (epoch of the life, sequence number).      *)
(***************************************************************************)
EXTENDS Naturals, Sequences, SequencesExt

Token(e, s) == [epoch |-> e, seq |-> s]

Zero == Token(0, 0)

\* WriteToken's derived order: epoch first.
Before(t, u) == t.epoch < u.epoch \/ (t.epoch = u.epoch /\ t.seq < u.seq)

AtMost(t, u) == t = u \/ Before(t, u)

Later(t, u) == IF Before(t, u) THEN u ELSE t

-----------------------------------------------------------------------------
(* The ring.                                                               *)

NewRing(epoch) == [epoch |-> epoch, first_seq |-> 1, len |-> 0, sealed |-> FALSE]

End(r) == r.first_seq + r.len

\* The oldest writes leave when the ring is over its capacity or its frame over
\* its byte budget; the newest one always stays.  kept writes remain.
Push(r, kept) == [r EXCEPT !.first_seq = End(r) + 1 - kept, !.len = kept]

Kept(r, capacity) == 1 .. (IF r.len < capacity THEN r.len + 1 ELSE capacity)

\* Acknowledged writes leave, the newest stays as an anchor.
RetireThrough(r, token) ==
    IF token.epoch # r.epoch \/ r.len <= 1 \/ token.seq < r.first_seq THEN r
    ELSE LET first == IF token.seq + 1 < End(r) THEN token.seq + 1 ELSE End(r) - 1
         IN [r EXCEPT !.first_seq = first, !.len = End(r) - first]

LastToken(r) == Token(r.epoch, End(r) - 1)

-----------------------------------------------------------------------------
(* The cursor.                                                             *)

NoCursor == [epoch |-> 0, next |-> 0, sealed |-> FALSE]

\* A feed that exists when its subscriber starts is followed from its end.
Attached(f) ==
    [epoch |-> f.epoch, next |-> IF f.sealed THEN End(f) + 1 ELSE End(f), sealed |-> f.sealed]

\* One first seen later is followed from the start of its window.
FirstSeen(f) == [epoch |-> f.epoch, next |-> f.first_seq, sealed |-> FALSE]

Wrote(e, s) == [kind |-> "Wrote", token |-> Token(e, s)]
Gap(e, s) == [kind |-> "Gap", token |-> Token(e, s)]
Sealed(e, s) == [kind |-> "Sealed", token |-> Token(e, s)]
Renewed(e) == [kind |-> "Renewed", token |-> Token(e, 0)]

\* The writes of f from next on that decode; garbled sequence numbers do not.
Writes(f, next, garbled) ==
    LET n == IF next < End(f) THEN End(f) - next ELSE 0
    IN SelectSeq([i \in 1 .. n |-> Wrote(f.epoch, next + i - 1)],
                 LAMBDA w : w.token.seq \notin garbled)

\* reconcile, after the opening: the new writes, then the seal.
Advanced(opening, next, f, garbled) ==
    LET end == IF next < End(f) THEN End(f) ELSE next
        seal == f.sealed /\ end = End(f)
    IN [events |-> opening \o Writes(f, next, garbled)
                     \o (IF seal THEN <<Sealed(f.epoch, end)>> ELSE <<>>),
        cursor |-> [epoch |-> f.epoch, next |-> IF seal THEN end + 1 ELSE end, sealed |-> seal]]

\* Mutant: a restart is taken for a renewal without the seal.
RenewsUnsealed(c, f) == f.first_seq = 1

\* The seal was delivered and the new life's first write is still visible.
Renews(c, f) == c.sealed /\ f.first_seq = 1

\* Mutant: a frame of an earlier life is followed.
OutdatedNever(c, f) == f.epoch = c.epoch /\ c.sealed

Outdated(c, f) == f.epoch < c.epoch \/ (f.epoch = c.epoch /\ c.sealed)

\* A frame of an earlier life changes nothing, nor does one of a life whose seal
\* was delivered.  A later life opens with a renewal when the seal was delivered
\* and its first write is visible, with a gap otherwise; so does a ring that ran
\* past the cursor.
Reconcile(c, f, garbled) ==
    IF Outdated(c, f) THEN [events |-> <<>>, cursor |-> c]
    ELSE IF f.epoch # c.epoch
    THEN Advanced(IF Renews(c, f) THEN <<Renewed(f.epoch)>>
                  ELSE <<Gap(f.epoch, f.first_seq - 1)>>, f.first_seq, f, garbled)
    ELSE IF c.next < f.first_seq
    THEN Advanced(<<Gap(f.epoch, f.first_seq - 1)>>, f.first_seq, f, garbled)
    ELSE Advanced(<<>>, c.next, f, garbled)
=============================================================================
