------------------------------- MODULE Lease -------------------------------
(***************************************************************************)
(* The coherence-lease tier of groupnet-consistency: a reader's            *)
(* self-expiring right to serve.  A reader's half is its LeaseCore         *)
(* (lease/core.rs), a writer's halves are its GrantLedger                  *)
(* (lease/grants.rs) and the CoherenceCore of each of its coherent writes  *)
(* (lease/coherence.rs); the shell (lease/shell.rs, lease/shell/writes.rs, *)
(* lease/tasks.rs) drives them.  Every node of the code has all three; the *)
(* model gives the writers no consumer and the readers no writes, so a     *)
(* reader's grants matter only as the proof that it counts a writer.       *)
(*                                                                         *)
(* Renewals, grant maps and applied watermarks are group entries: a node   *)
(* authors its own and another node sees each of them late, key by key,    *)
(* and may lose sight of the owner altogether (expiry, reap).  Clocks are  *)
(* monotonic, one per node; a reader's may fall behind the writers' by no  *)
(* more than the rate margin.                                              *)
(***************************************************************************)
EXTENDS Integers, Sequences, FiniteSets, FiniteSetsExt

CONSTANTS
  Setups  \* the deployments explored, each a record of Setup

VARIABLES
  setup,   \* the deployment
  time,    \* the writers' clock
  lag,     \* how far each reader's clock is behind it
  core,    \* each reader's LeaseCore
  serve,   \* each reader's published serve deadline (Shut when there is none)
  warm,    \* the readers past the boot guard
  ledger,  \* each writer's GrantLedger
  posted,  \* the entries each reader has authored
  offered, \* the entries each writer has authored
  seen,    \* seen[w][r]: what writer w sees of reader r's entries
  heard,   \* heard[r][w]: what reader r sees of writer w's entries
  writes,  \* each coherent write of each writer, by token
  known,   \* the newest write of each writer a consumer's state reflects
  synced   \* readers whose consumer re-synchronized since it last had to

vars == <<setup, time, lag, core, serve, warm, ledger, posted, offered, seen, heard,
          writes, known, synced>>

(***************************************************************************)
(* A deployment: its writers and readers, the lease duration and rate      *)
(* margin, the readers whose clocks may run slow, how many renewals a      *)
(* reader makes and tracks, how many writes are issued, the warm-up        *)
(* window, how stale the instant of a view turn may be, which nodes        *)
(* restart, leave or are lost from view, and the bound on the clock.       *)
(***************************************************************************)
Setup ==
  [writers: SUBSET STRING, readers: SUBSET STRING, duration: Nat, margin: Nat,
   slow: SUBSET STRING, renewals: Seq(Nat), tracked: Nat, writes: Nat, warmup: Nat,
   stale: Nat, settled: BOOLEAN, gaps: BOOLEAN, timeouts: BOOLEAN,
   restarts: SUBSET STRING, leaves: SUBSET STRING, reaps: SUBSET STRING, max_time: Nat]

Writer == setup.writers
Reader == setup.readers
Token == 1..setup.writes
Now(r) == time - lag[r]
Shut == -1
Never == -1

(***************************************************************************)
(* RenewalId: the reader's life and its sequence number in that life,      *)
(* ordered lexicographically.  NoId is an absent row.                      *)
(***************************************************************************)
Id(e, s) == [epoch |-> e, seq |-> s]
NoId == Id(0, 0)
Before(a, b) == a.epoch < b.epoch \/ (a.epoch = b.epoch /\ a.seq < b.seq)

(***************************************************************************)
(* A reader's entries: its renewal, its grant map (the life that authored  *)
(* it, whether that life departed, and the life of each writer it grants)  *)
(* and the watermarks it has applied.  A writer's: its capability, the     *)
(* life its renewal names, and its grant map, one row per reader.          *)
(***************************************************************************)
ReaderMap(e, d, lives) == [life |-> e, departed |-> d, counts |-> lives]
NoReaderMap == ReaderMap(0, FALSE, [w \in Writer |-> 0])
NoReaderEntries == [renewal |-> NoId, grants |-> NoReaderMap, applied |-> [w \in Writer |-> 0]]

WriterMap(e, d, rows) == [life |-> e, departed |-> d, row |-> rows]
NoWriterMap == WriterMap(0, FALSE, [r \in Reader |-> NoId])
NoWriterEntries == [cap |-> FALSE, renewal |-> 0, grants |-> NoWriterMap]
Started(e, old) == [old EXCEPT !.cap = TRUE, !.renewal = e]

NoReader == [seen |-> NoId, seen_at |-> 0, granted |-> NoId, granted_at |-> 0,
             counts_me |-> 0, departed |-> 0]
Nothing == [x \in {} |-> 0]
NewCore(e) ==
  [epoch |-> e, next_seq |-> 1, published |-> Nothing, granters |-> Nothing,
   roster |-> {}, lives |-> Nothing, caught_up |-> FALSE, departed |-> FALSE]
NewLedger(e, now) ==
  [life |-> e, born |-> now, departed |-> FALSE, ended |-> 0,
   readers |-> [r \in Reader |-> NoReader]]
NewWrite == [state |-> "none", began |-> 0, waiting |-> Nothing, lapsed |-> {}, counted |-> {}, life |-> 0]

\* A settled deployment starts where each reader has granted the writers'
\* first renewals and every writer has seen it.
Met(S) == IF setup.settled THEN S ELSE {}
FirstEntries ==
  IF setup.settled
  THEN [NoReaderEntries EXCEPT !.grants = ReaderMap(1, FALSE, [w \in Writer |-> 1])]
  ELSE NoReaderEntries

Init ==
  /\ setup \in Setups
  /\ time = 0
  /\ lag = [r \in Reader |-> 0]
  /\ core = [r \in Reader |-> [NewCore(1) EXCEPT !.roster = Met(Writer)]]
  /\ serve = [r \in Reader |-> Shut]
  /\ warm = Met(Reader)
  /\ ledger = [w \in Writer |-> [NewLedger(1, 0) EXCEPT
                !.readers = [r \in Reader |->
                  [NoReader EXCEPT !.counts_me = IF setup.settled THEN 1 ELSE 0]]]]
  /\ posted = [r \in Reader |-> FirstEntries]
  /\ offered = [w \in Writer |-> Started(1, NoWriterEntries)]
  /\ seen = [w \in Writer |-> [r \in Reader |-> FirstEntries]]
  /\ heard = [r \in Reader |-> [w \in Writer |-> Started(1, NoWriterEntries)]]
  /\ writes = [w \in Writer |-> [k \in Token |-> NewWrite]]
  /\ known = [r \in Reader |-> [w \in Writer |-> 0]]
  /\ synced = {}

-----------------------------------------------------------------------------
(***************************************************************************)
(* LeaseCore.                                                              *)
(***************************************************************************)
Newest(c) == c.next_seq - 1

\* confirmed_seq: the newest renewal every granter of the roster confirms;
\* 0 when there is none.
ConfirmedSeq(c) ==
  IF Newest(c) = 0 \/ ~ c.roster \subseteq DOMAIN c.granters THEN 0
  ELSE Min({Newest(c)} \cup {c.granters[g] : g \in c.roster})

\* serve_until: the end of the window of that renewal, Shut for a renewal the
\* core no longer tracks.
ServeUntil(c) ==
  LET s == ConfirmedSeq(c)
  IN IF s \notin DOMAIN c.published THEN Shut
     ELSE Max({c.published[s] + setup.duration - setup.margin, 0})

LiveAt(c, now) == now < ServeUntil(c)

Peek(c, now) ==
  CASE ~ c.caught_up \/ c.departed -> "needs_resync"
    [] c.caught_up /\ ~ c.departed /\ LiveAt(c, now) -> "serving"
    [] OTHER -> "lapsed"

\* poll: a lapse clears the catch-up affirmation.
Poll(c, now) ==
  IF Peek(c, now) = "lapsed" THEN [c EXCEPT !.caught_up = FALSE] ELSE c

\* on_renew: the renewal's sequence number and its publish instant, with the
\* oldest instant forgotten past the tracked bound.
OnRenew(c, now) ==
  LET seqs == {s \in DOMAIN c.published \cup {c.next_seq} : s > c.next_seq - setup.tracked}
  IN [c EXCEPT !.next_seq = @ + 1,
               !.published = [s \in seqs |-> IF s = c.next_seq THEN now ELSE c.published[s]]]

IsDeparted(c, g) == g \in DOMAIN c.lives /\ c.lives[g].departed

\* set_roster: the roster grows by what is advertised and shrinks only by a
\* departed life, which also ends the catch-up affirmation.
SetRoster(c, advertised) ==
  LET grown   == c.roster \cup {g \in advertised : ~ IsDeparted(c, g)}
      dropped == {g \in grown : IsDeparted(c, g)}
      kept    == grown \ dropped
  IN [c EXCEPT
       !.roster = kept,
       !.granters = [g \in DOMAIN @ \ dropped |-> @[g]],
       !.lives = [g \in DOMAIN @ \cap (kept \cup advertised) |-> @[g]],
       !.caught_up = @ /\ dropped = {}]

\* pin: a granted node joins the roster, unless this very life departed;
\* lives[w] is the life of w that is granted, 0 for none.
Pin(c, lives) ==
  LET granted == {w \in Writer : lives[w] # 0}
      barred  == {w \in granted : IsDeparted(c, w) /\ c.lives[w].epoch = lives[w]}
      again   == {w \in granted \ barred : IsDeparted(c, w)}
  IN [c EXCEPT !.roster = @ \cup (granted \ barred),
               !.lives = [w \in DOMAIN @ \ again |-> @[w]]]

\* observe_grant_map for every granter of the roster.
Observe(c, me, maps) ==
  LET confirms == {g \in c.roster : maps[g].row[me].epoch = c.epoch}
      alive    == {g \in c.roster : maps[g].life # 0}
  IN [c EXCEPT
       !.granters = [g \in (DOMAIN @ \ c.roster) \cup confirms |->
                       IF g \in confirms THEN maps[g].row[me].seq ELSE @[g]],
       !.lives = [g \in (DOMAIN @ \ c.roster) \cup alive |->
                    IF g \in alive THEN [epoch |-> maps[g].life, departed |-> maps[g].departed]
                    ELSE @[g]]]

\* publish_serve: what valid() compares the clock with.
Published(c, now, w) == IF w /\ Peek(c, now) = "serving" THEN ServeUntil(c) ELSE Shut

-----------------------------------------------------------------------------
(***************************************************************************)
(* GrantLedger of the writer w.                                            *)
(***************************************************************************)
InFlight(w) == {k \in Token : writes[w][k].state = "inflight"}
Visible(w) == {r \in Reader : seen[w][r].renewal # NoId}

\* Mutant: the same fold without the certificate: a reader that has not applied an
\* ended write is granted its newest renewal.
FoldReaderUncertified(l, w, r) ==
  LET id      == seen[w][r].renewal
      applied == seen[w][r].applied[w]
      rec     == l.readers[r]
      caps    == {writes[w][k].began : k \in {j \in InFlight(w) : applied < j}}
      noted   == IF rec.seen = id \/ Before(id, rec.seen) THEN rec
                 ELSE [rec EXCEPT !.seen = id, !.seen_at = time]
      grants  == \A began \in caps : noted.seen_at <= began
  IN [rec |-> IF grants /\ Before(rec.granted, id)
              THEN [noted EXCEPT !.granted = id, !.granted_at = noted.seen_at] ELSE noted,
      row |-> IF grants THEN id ELSE rec.granted]

\* Mutant: the same fold without the cap: an in-flight write holds no grant back.
FoldReaderUncapped(l, w, r) ==
  LET id    == seen[w][r].renewal
      rec   == l.readers[r]
      noted == IF rec.seen = id \/ Before(id, rec.seen) THEN rec
               ELSE [rec EXCEPT !.seen = id, !.seen_at = time]
  IN [rec |-> IF Before(rec.granted, id)
              THEN [noted EXCEPT !.granted = id, !.granted_at = noted.seen_at] ELSE noted,
      row |-> id]

\* fold, for one visible reader r: the record after it and the row granted.
\* A reader that has not applied an ended write is granted nothing new, and
\* none is granted a renewal first seen after a write it has not applied began.
FoldReader(l, w, r) ==
  LET id      == seen[w][r].renewal
      applied == seen[w][r].applied[w]
      rec     == l.readers[r]
      caps    == {writes[w][k].began : k \in {j \in InFlight(w) : applied < j}}
      noted   == IF rec.seen = id \/ Before(id, rec.seen) THEN rec
                 ELSE [rec EXCEPT !.seen = id, !.seen_at = time]
      first   == IF noted.seen = id THEN noted.seen_at ELSE time
      grants  == applied >= l.ended /\ \A began \in caps : first <= began
      stands  == rec.granted # NoId /\ rec.granted.epoch = id.epoch /\ ~ Before(id, rec.granted)
  IN [rec |-> IF grants /\ Before(rec.granted, id)
              THEN [noted EXCEPT !.granted = id, !.granted_at = first] ELSE noted,
      row |-> CASE grants -> id [] ~ grants /\ stands -> rec.granted [] OTHER -> NoId]

Fold(l, w) ==
  LET out == [r \in Visible(w) |-> FoldReader(l, w, r)]
  IN [ledger |-> [l EXCEPT !.readers = [r \in Reader |-> IF r \in Visible(w) THEN out[r].rec ELSE @[r]]],
      map |-> WriterMap(l.life, l.departed,
                [r \in Reader |-> IF r \in Visible(w) THEN out[r].row ELSE NoId])]

\* observe_reader_map: the proof, in the reader's own map, that its life
\* counts this node, or that it departed.
ObserveReader(l, w, map, rec) ==
  IF map.life = 0 THEN rec
  ELSE [rec EXCEPT
         !.departed = IF map.departed THEN map.life ELSE @,
         !.counts_me = IF map.counts[w] = l.life THEN map.life
                       ELSE IF @ < map.life THEN 0 ELSE @]

\* excusable_at: when a reader that never acknowledges has provably lapsed.
ExcusableAt(l, r) ==
  LET rec == l.readers[r]
      granted_at == IF rec.granted.epoch = rec.seen.epoch THEN Max({rec.granted_at, l.born}) ELSE l.born
  IN IF l.departed \/ rec.seen = NoId THEN Never
     ELSE IF rec.departed = rec.seen.epoch THEN 0
     ELSE IF rec.counts_me # rec.seen.epoch THEN Never
     ELSE granted_at + setup.duration

OpenGrants(l) ==
  {r \in Reader : l.readers[r].granted # NoId /\ time < l.readers[r].granted_at + setup.duration}

-----------------------------------------------------------------------------
(***************************************************************************)
(* A reader's tasks and its consumer's calls.                              *)
(***************************************************************************)
readerVars == <<core, serve, warm, posted, known, synced>>
writerVars == <<ledger, offered, writes>>
netVars == <<time, lag, seen, heard>>

Running(r) == ~ core[r].departed

\* renewal_task: record the instant, then author the renewal entry.
Renew(r) ==
  /\ Running(r) /\ Newest(core[r]) < setup.renewals[core[r].epoch]
  /\ core' = [core EXCEPT ![r] = OnRenew(@, Now(r))]
  /\ posted' = [posted EXCEPT ![r].renewal = Id(core[r].epoch, core[r].next_seq)]
  /\ UNCHANGED <<setup, serve, warm, known, synced, writerVars, netVars>>

\* granter_task: every visible renewal is granted (a reader has no writes to
\* hold a grant back), its author pinned, then the map authored.
Grants(r) == [w \in Writer |-> heard[r][w].renewal]
GrantTurn(r) ==
  /\ Running(r)
  /\ core' = [core EXCEPT ![r] = Pin(@, Grants(r))]
  /\ posted' = [posted EXCEPT ![r].grants = ReaderMap(core[r].epoch, FALSE, Grants(r))]
  /\ UNCHANGED <<setup, serve, warm, known, synced, writerVars, netVars>>

\* refresh_view: with the instant the turn read first, notice a lapse, then
\* fold the roster and the granters' maps in, then publish the deadline.
RefreshView(r, now) ==
  LET warmed == r \in warm \/ Now(r) >= setup.warmup
      lapsed == \/ Peek(core[r], now) = "lapsed"
                \/ \E w \in Writer : IsDeparted(core[r], w) /\ w \in core[r].roster
      maps   == [w \in Writer |-> heard[r][w].grants]
  IN /\ Running(r)
     /\ \E c \in {Observe(SetRoster(Poll(core[r], now), {w \in Writer : heard[r][w].cap}), r, maps)} :
          /\ core' = [core EXCEPT ![r] = c]
          /\ serve' = [serve EXCEPT ![r] = Published(c, now, warmed)]
          /\ synced' = IF lapsed THEN synced \ {r} ELSE synced
     /\ warm' = IF warmed THEN warm \cup {r} ELSE warm
     /\ UNCHANGED <<setup, posted, known, writerVars, netVars>>

\* LeaseView::state: the consumer asks, which notices a lapse.
State(r) ==
  /\ Peek(core[r], Now(r)) = "lapsed"
  /\ \E c \in {Poll(core[r], Now(r))} :
       /\ core' = [core EXCEPT ![r] = c]
       /\ serve' = [serve EXCEPT ![r] = Published(c, Now(r), r \in warm)]
  /\ synced' = synced \ {r}
  /\ UNCHANGED <<setup, warm, posted, known, writerVars, netVars>>

\* The consumer re-synchronizes from the origin, which reflects every write
\* issued so far (external).
Issued(w) == Cardinality({k \in Token : writes[w][k].state # "none"})
Resync(r) ==
  /\ ~ core[r].caught_up
  /\ known' = [known EXCEPT ![r] = [w \in Writer |-> Issued(w)]]
  /\ synced' = synced \cup {r}
  /\ UNCHANGED <<setup, core, serve, warm, posted, writerVars, netVars>>

\* mark_caught_up: takes only when warmed up and under a live lease.
MarkCaughtUp(r) ==
  /\ r \in synced /\ r \in warm /\ ~ core[r].caught_up
  /\ Running(r) /\ LiveAt(core[r], Now(r))
  /\ \E c \in {[core[r] EXCEPT !.caught_up = TRUE]} :
       /\ core' = [core EXCEPT ![r] = c]
       /\ serve' = [serve EXCEPT ![r] = Published(c, Now(r), TRUE)]
  /\ UNCHANGED <<setup, warm, posted, known, synced, writerVars, netVars>>

\* require_resync: the consumer learned of a gap.
RequireResync(r) ==
  /\ setup.gaps /\ core[r].caught_up
  /\ core' = [core EXCEPT ![r].caught_up = FALSE]
  /\ serve' = [serve EXCEPT ![r] = Shut]
  /\ synced' = synced \ {r}
  /\ UNCHANGED <<setup, warm, posted, known, writerVars, netVars>>

\* leave of a reader: the life stops serving for good, its farewell map
\* declares it departed, and its renewal is retracted.
LeaveReader(r) ==
  /\ r \in setup.leaves /\ Running(r)
  /\ core' = [core EXCEPT ![r] = Pin([@ EXCEPT !.departed = TRUE, !.caught_up = FALSE], Grants(r))]
  /\ serve' = [serve EXCEPT ![r] = Shut]
  /\ synced' = synced \ {r}
  /\ posted' = [posted EXCEPT ![r].grants = ReaderMap(core[r].epoch, TRUE, Grants(r)),
                              ![r].renewal = NoId]
  /\ UNCHANGED <<setup, warm, known, writerVars, netVars>>

\* A reader's next life: nothing cached, an empty view, a new core.
RestartReader(r) ==
  /\ r \in setup.restarts /\ core[r].epoch = 1
  /\ core' = [core EXCEPT ![r] = NewCore(2)]
  /\ serve' = [serve EXCEPT ![r] = Shut]
  /\ warm' = warm \ {r}
  /\ synced' = synced \ {r}
  /\ heard' = [heard EXCEPT ![r] = [w \in Writer |-> NoWriterEntries]]
  /\ writes' = [w \in Writer |-> [k \in Token |-> [writes[w][k] EXCEPT !.counted = @ \ {r}]]]
  /\ UNCHANGED <<setup, posted, known, time, lag, seen, ledger, offered>>

-----------------------------------------------------------------------------
(***************************************************************************)
(* A writer's tasks and its coherent writes.                               *)
(***************************************************************************)
\* granter_task: fold the visible renewals into the grant map and author it.
Grant(w) ==
  /\ ~ ledger[w].departed
  /\ \E out \in {Fold(ledger[w], w)} :
       /\ ledger' = [ledger EXCEPT ![w] = out.ledger]
       /\ offered' = [offered EXCEPT ![w].grants = out.map]
  /\ UNCHANGED <<setup, writes, readerVars, netVars>>

\* ingest_grants, the part the ledger keeps.
Ingest(w) ==
  /\ ~ ledger[w].departed
  /\ ledger' = [ledger EXCEPT ![w].readers =
                  [r \in Reader |-> ObserveReader(ledger[w], w, seen[w][r].grants, @[r])]]
  /\ UNCHANGED <<setup, writes, offered, readerVars, netVars>>

\* leave of a writer: its ledger departs before the farewell map is authored.
LeaveWriter(w) ==
  /\ w \in setup.leaves /\ ~ ledger[w].departed
  /\ \E out \in {Fold([ledger[w] EXCEPT !.departed = TRUE], w)} :
       /\ ledger' = [ledger EXCEPT ![w] = out.ledger]
       /\ offered' = [offered EXCEPT ![w].grants = out.map, ![w].renewal = 0]
  /\ UNCHANGED <<setup, writes, readerVars, netVars>>

\* A writer's next life: no record of what it granted, and the writes it was
\* waiting on never complete.
RestartWriter(w) ==
  /\ w \in setup.restarts /\ ledger[w].life = 1
  /\ ledger' = [ledger EXCEPT ![w] = NewLedger(2, time)]
  /\ offered' = [offered EXCEPT ![w] = Started(2, @)]
  /\ seen' = [seen EXCEPT ![w] = [r \in Reader |-> NoReaderEntries]]
  /\ writes' = [writes EXCEPT ![w] = [k \in Token |->
                  IF k \in InFlight(w) THEN [@[k] EXCEPT !.state = "timedout", !.waiting = Nothing] ELSE @[k]]]
  /\ UNCHANGED <<setup, time, lag, heard, readerVars>>

\* invalidated_coherently: the write is durable and its token published, and
\* it is registered in the ledger.
Begin(w, k) ==
  /\ writes[w][k].state = "none" /\ Issued(w) = k - 1
  /\ writes' = [writes EXCEPT ![w][k].state = "inflight", ![w][k].began = time]
  /\ UNCHANGED <<setup, ledger, offered, readerVars, netVars>>

\* wait_snapshot: who may be serving.
WaitSet(w) == Visible(w) \cup OpenGrants(ledger[w])

\* warmup_hold: a booting writer does not resolve on an empty wait set, nor
\* past an advertiser whose lease it has not seen.
Held(w, snapshot) ==
  /\ time - ledger[w].born < setup.warmup
  /\ \/ snapshot = {}
     \/ \E r \in Reader \ snapshot : seen[w][r] # NoReaderEntries

\* CoherenceCore::step: merge the snapshot, then excuse the lapsed.
StepOf(w, k, snapshot) ==
  LET p       == writes[w][k]
      judged  == snapshot \ p.lapsed
      behind  == {r \in judged : seen[w][r].applied[w] < k}
      waiting == [r \in (DOMAIN p.waiting \ judged) \cup behind |->
                    IF r \in behind THEN ExcusableAt(ledger[w], r) ELSE p.waiting[r]]
      excused == {r \in DOMAIN waiting : waiting[r] # Never /\ time >= waiting[r]}
  IN [p EXCEPT !.waiting = [r \in DOMAIN waiting \ excused |-> waiting[r]],
               !.lapsed = @ \cup excused]

\* The registration is dropped: the write has ended, however it ended.  The
\* readers that count the writer at that instant, and the writer's life, are
\* remembered.
End(w, k, outcome, p) ==
  /\ writes' = [writes EXCEPT ![w][k] =
                  [p EXCEPT !.state = outcome, !.waiting = Nothing,
                            !.counted = {r \in Reader : w \in DOMAIN core[r].granters},
                            !.life = ledger[w].life]]
  /\ ledger' = [ledger EXCEPT ![w].ended = Max({@, k})]

\* One poll of the wait loop, the return of a resolved write included.
Step(w, k) ==
  /\ k \in InFlight(w)
  /\ ~ Held(w, WaitSet(w))
  /\ \E p \in {StepOf(w, k, WaitSet(w))} :
       \/ /\ DOMAIN p.waiting = {}
          /\ End(w, k, "coherent", p)
       \/ /\ DOMAIN p.waiting # {} /\ p # writes[w][k]
          /\ writes' = [writes EXCEPT ![w][k] = p]
          /\ UNCHANGED ledger
  /\ UNCHANGED <<setup, offered, readerVars, netVars>>

\* The caller's deadline passed with readers still waited on, or the call was
\* cancelled: the registration is dropped all the same.
TimeOut(w, k) ==
  /\ setup.timeouts /\ k \in InFlight(w)
  /\ End(w, k, "timedout", writes[w][k])
  /\ UNCHANGED <<setup, offered, readerVars, netVars>>

-----------------------------------------------------------------------------
(***************************************************************************)
(* The group beneath and the clocks (external).                            *)
(***************************************************************************)
\* The next write of a feed reaches a reader, which applies it and
\* acknowledges it (AckLedger).
Apply(r, w) ==
  /\ posted[r].applied[w] < Issued(w)
  /\ \E k \in {posted[r].applied[w] + 1} :
       /\ known' = [known EXCEPT ![r][w] = Max({@, k})]
       /\ posted' = [posted EXCEPT ![r].applied[w] = k]
  /\ UNCHANGED <<setup, core, serve, warm, synced, writerVars, netVars>>

GossipToWriter(w, r) ==
  /\ \E key \in {"renewal", "grants", "applied"} :
       /\ seen[w][r][key] # posted[r][key]
       /\ seen' = [seen EXCEPT ![w][r][key] = posted[r][key]]
  /\ UNCHANGED <<setup, time, lag, heard, readerVars, writerVars>>

GossipToReader(r, w) ==
  /\ \E key \in {"cap", "renewal", "grants"} :
       /\ heard[r][w][key] # offered[w][key]
       /\ heard' = [heard EXCEPT ![r][w][key] = offered[w][key]]
  /\ UNCHANGED <<setup, time, lag, seen, readerVars, writerVars>>

\* A node loses sight of another: an entry expired, or its owner was reaped.
Reap(w, r) ==
  /\ \/ /\ w \in setup.reaps /\ seen[w][r] # NoReaderEntries
        /\ seen' = [seen EXCEPT ![w][r] = NoReaderEntries]
        /\ UNCHANGED heard
     \/ /\ r \in setup.reaps /\ heard[r][w] # NoWriterEntries
        /\ heard' = [heard EXCEPT ![r][w] = NoWriterEntries]
        /\ UNCHANGED seen
  /\ UNCHANGED <<setup, time, lag, readerVars, writerVars>>

\* Time passes; a slow clock may miss a tick, never falling behind by more
\* than the rate margin.
Tick ==
  /\ time < setup.max_time
  /\ time' = time + 1
  /\ \E late \in SUBSET {r \in setup.slow : lag[r] < setup.margin} :
       lag' = [r \in Reader |-> IF r \in late THEN lag[r] + 1 ELSE lag[r]]
  /\ UNCHANGED <<setup, seen, heard, readerVars, writerVars>>

Next ==
  \/ \E r \in Reader :
       \/ Renew(r) \/ GrantTurn(r) \/ State(r) \/ Resync(r) \/ MarkCaughtUp(r)
       \/ RequireResync(r) \/ LeaveReader(r) \/ RestartReader(r)
       \/ \E age \in 0..setup.stale : Now(r) >= age /\ RefreshView(r, Now(r) - age)
  \/ \E w \in Writer :
       \/ Grant(w) \/ Ingest(w) \/ LeaveWriter(w) \/ RestartWriter(w)
       \/ \E k \in Token : Begin(w, k) \/ Step(w, k) \/ TimeOut(w, k)
       \/ \E r \in Reader :
            \/ Apply(r, w) \/ GossipToWriter(w, r) \/ GossipToReader(r, w) \/ Reap(w, r)
  \/ Tick

Spec == Init /\ [][Next]_vars

-----------------------------------------------------------------------------
\* Types: cores, ledgers, entries and writes keep their shapes, a roster holds
\* writers, a sequence number confirmed was published, and no consumer
\* reflects or acknowledges a write that was not issued.
IdOK(id) == id.epoch \in 0..2 /\ id.seq \in Nat
TypeOK ==
  /\ setup \in Setups /\ time \in 0..setup.max_time
  /\ \A r \in Reader :
       /\ lag[r] \in 0..setup.margin /\ serve[r] >= Shut
       /\ core[r].roster \subseteq Writer /\ DOMAIN core[r].granters \subseteq Writer
       /\ \A w \in DOMAIN core[r].granters : core[r].granters[w] \in 1..Newest(core[r])
       /\ IdOK(posted[r].renewal)
       /\ \A w \in Writer : posted[r].applied[w] <= known[r][w] /\ known[r][w] <= Issued(w)
  /\ warm \subseteq Reader /\ synced \subseteq Reader
  /\ \A w \in Writer, r \in Reader :
       IdOK(ledger[w].readers[r].seen) /\ IdOK(ledger[w].readers[r].granted) /\ IdOK(seen[w][r].renewal)
  /\ \A w \in Writer, k \in Token :
       writes[w][k].state \in {"none", "inflight", "coherent", "timedout"}

\* LeaseView::valid: the right to serve, one comparison with the published
\* deadline.
Valid(r) == Now(r) < serve[r]

MayServeStale(r, w, k) ==
  /\ Valid(r) /\ writes[w][k].state = "coherent" /\ r \in writes[w][k].counted
  /\ known[r][w] < k

(***************************************************************************)
(* lease.rs, "The guarantee": while a reader's valid() answers true, no    *)
(* completed coherent write of a writer whose grants it was counting when  *)
(* the write ended is missing from the state it serves, whatever renewals, *)
(* maps and acknowledgements crossed on the way, as long as the writer     *)
(* lives the life that completed it.                                       *)
(***************************************************************************)
NoStaleServe ==
  \A r \in Reader, w \in Writer, k \in Token :
    MayServeStale(r, w, k) => writes[w][k].life # ledger[w].life

(***************************************************************************)
(* grants.rs: "A reader returning from a lapse cannot serve on a fresh     *)
(* grant that overtook the write itself on the wire, nor on a resync that  *)
(* predates it", whichever life of the writer grants it.                   *)
(***************************************************************************)
NoStaleServeEver == \A r \in Reader, w \in Writer, k \in Token : ~ MayServeStale(r, w, k)

(***************************************************************************)
(* invalidated_coherently: a write is held for one lease duration at the   *)
(* most by a reader that counts the writer, even one that keeps renewing   *)
(* and never applies: no grant made while the write is in flight moves the *)
(* instant it is excused past one duration after the write began (or after *)
(* the writer's own birth).                                                *)
(***************************************************************************)
WaitIsBounded ==
  \A w \in Writer : \A k \in InFlight(w) : \A r \in WaitSet(w) :
    posted[r].applied[w] < k
      => ExcusableAt(ledger[w], r) <= Max({writes[w][k].began, ledger[w].born}) + setup.duration

=============================================================================
