------------------------------ MODULE Handoff ------------------------------
(***************************************************************************)
(* Snapshot handoff: a recovering node pulls a covering snapshot from a    *)
(* donor over one data-plane stream (hosted/handoff/stream.rs), takes the  *)
(* verdicts of HandoffCore in the order of HandoffPhase (handoff/core.rs), *)
(* and folds the receipt into its own evidence (Handoff::seed).            *)
(*                                                                         *)
(* State is the prefix of one writer's feed a node holds, so a watermark   *)
(* is a number.  A snapshot is an image of a prefix cut into chunks the    *)
(* module never interprets.  The stream delivers frames in order and may   *)
(* end at any point.  Both nodes' adopted fences (epoch, host) move while  *)
(* the snapshot streams.                                                   *)
(***************************************************************************)
EXTENDS Integers, Sequences, FiniteSets, SequencesExt

CONSTANTS
  Setups  \* the deployments explored, each a record of Setup

VARIABLES
  setup,    \* the deployment
  head,     \* the writes issued by the group
  applied,  \* how many of them each donor has applied
  reading,  \* the donors' published watermarks as the requester sees them
  fence,    \* each node's adopted leadership: epoch and host
  phase,    \* the requester's HandoffPhase, "idle" between fetches
  donor,    \* the donor of the current stream, and those already tried
  need,     \* what the current fetch asks for
  serving,  \* the donor's half of the exchange
  wire,     \* the frames under way to the requester
  broken,   \* how often a stream was cut
  offer,    \* the verified offer of the current fetch
  staged,   \* the sink: chunks staged and not yet finished
  held,     \* the prefix the requester's live state holds
  installs, \* what each finished sink installed, and under which fences
  recorded  \* the watermark the requester has published of itself

vars == <<setup, head, applied, reading, fence, phase, donor, need, serving, wire, broken,
          offer, staged, held, installs, recorded>>

(***************************************************************************)
(* A deployment: the donors in rendezvous order, which of them serve this  *)
(* group and write path, the chunks of an image, the writes issued, the    *)
(* hosts each epoch may be adopted with (two for the two sides of a healed *)
(* partition), the streams that may be cut, and whether a source may be    *)
(* unable to open.                                                         *)
(***************************************************************************)
Setup ==
  [donors: Seq(STRING), misnamed: SUBSET STRING, chunks: Nat, writes: Nat,
   hosts: Seq(SUBSET STRING), breaks: Nat, refuses: BOOLEAN]

Me == "me"
NoHost == "none"
Donor == Range(setup.donors)
Party == Donor \cup {Me}
Epoch == 1..Len(setup.hosts)
Fence(e, h) == [epoch |-> e, host |-> h]

\* The frames of handoff/wire.rs; a chunk is its index in the image.
OfferFrame(f, covers) == [kind |-> "offer", fence |-> f, covers |-> covers]
RefuseFrame(code) == [kind |-> "refuse", code |-> code]
ChunkFrame(i) == [kind |-> "chunk", data |-> i]
DoneFrame(n, f) == [kind |-> "done", count |-> n, fence |-> f]
Eof == [kind |-> "eof"]

Idle == [state |-> "idle", image |-> 0, sent |-> 0]
NoOffer == OfferFrame(Fence(0, NoHost), 0)

Init ==
  /\ setup \in Setups
  /\ head = 0
  /\ applied = [d \in Donor |-> 0]
  /\ reading = [d \in Donor |-> 0]
  /\ fence = [n \in Party |-> Fence(1, NoHost)]
  /\ phase = "idle"
  /\ donor = [current |-> NoHost, tried |-> {}]
  /\ need = 0
  /\ serving = Idle
  /\ wire = <<>>
  /\ broken = 0
  /\ offer = NoOffer
  /\ staged = <<>>
  /\ held = 0
  /\ installs = {}
  /\ recorded = 0

-----------------------------------------------------------------------------
(***************************************************************************)
(* HandoffCore's verdicts.                                                 *)
(***************************************************************************)
\* staleness: epoch-major; at one epoch only two different named hosts refuse.
Stale(donors, ours) ==
  \/ donors.epoch < ours.epoch
  \/ /\ donors.epoch = ours.epoch
     /\ NoHost \notin {donors.host, ours.host} /\ donors.host # ours.host

\* Mutant: coverage is never checked.
CoveredAlways(n, covers) == TRUE

\* coverage, over the one writer.
Covered(n, covers) == n = 0 \/ covers >= n

\* advance: the ordered table of phases.
Advance == [Request |-> [Requested |-> "OfferVerify"],
            OfferVerify |-> [OfferAccepted |-> "Stage"],
            Stage |-> [Chunk |-> "Stage", DoneSeen |-> "DoneVerify"],
            DoneVerify |-> [CountsOk |-> "Finish"],
            Finish |-> [Finished |-> "Complete"]]

-----------------------------------------------------------------------------
(***************************************************************************)
(* The group around the exchange (external): writes are issued and reach   *)
(* the donors, their ledgers reach the requester, fences are adopted.      *)
(***************************************************************************)
exchange == <<phase, donor, need, serving, wire, broken, offer, staged, held, installs, recorded>>

Issue ==
  /\ head < setup.writes
  /\ head' = head + 1
  /\ UNCHANGED <<setup, applied, reading, fence, exchange>>

Apply(d) ==
  /\ applied[d] < head
  /\ applied' = [applied EXCEPT ![d] = @ + 1]
  /\ UNCHANGED <<setup, head, reading, fence, exchange>>

Hear(d) ==
  /\ reading[d] < applied[d]
  /\ reading' = [reading EXCEPT ![d] = applied[d]]
  /\ UNCHANGED <<setup, head, applied, fence, exchange>>

\* A node adopts a later epoch, perhaps before the name of its host, or
\* learns the name of the host of the epoch it is in.
Adopt(n) ==
  /\ \E e \in Epoch : \E h \in setup.hosts[e] \cup {NoHost} :
       /\ e > fence[n].epoch \/ (e = fence[n].epoch /\ fence[n].host = NoHost /\ h # NoHost)
       /\ fence' = [fence EXCEPT ![n] = Fence(e, h)]
  /\ UNCHANGED <<setup, head, applied, reading, exchange>>

-----------------------------------------------------------------------------
(***************************************************************************)
(* The requester: fetch_on.                                                *)
(***************************************************************************)
group == <<setup, head, applied, reading, fence>>

\* donors: the members whose published ledgers cover the need, the serving
\* host first, then the rendezvous order; never this node.
Donors(n) ==
  LET host == fence[Me].host
      order == (IF host \in Donor THEN <<host>> ELSE <<>>)
               \o SelectSeq(setup.donors, LAMBDA d : d # host)
  IN SelectSeq(order, LAMBDA d : Covered(n, reading[d]))

\* Mutant: the same fetch, always from the head of the list.
FetchFirst(n) ==
  /\ phase = "idle" /\ n > held
  /\ \E list \in {Donors(n)} :
       /\ list # <<>>
       /\ donor' = [current |-> list[1], tried |-> {}]
  /\ need' = n
  /\ phase' = Advance.Request.Requested
  /\ serving' = [Idle EXCEPT !.state = "asked"]
  /\ wire' = <<>>
  /\ UNCHANGED <<group, broken, offer, staged, held, installs, recorded>>

\* A fetch asks the best donor not yet tried, for a recovery target some
\* published ledger names, and sends its request.  When every candidate has
\* been tried the caller starts over (external).
Fetch(n) ==
  /\ phase = "idle" /\ n > held
  /\ \E list \in {Donors(n)} :
       /\ list # <<>>
       /\ \E rest \in {SelectSeq(list, LAMBDA d : d \notin donor.tried)} :
            donor' = IF rest # <<>>
                     THEN [current |-> rest[1], tried |-> donor.tried \cup {rest[1]}]
                     ELSE [current |-> list[1], tried |-> {list[1]}]
  /\ need' = n
  /\ phase' = Advance.Request.Requested
  /\ serving' = [Idle EXCEPT !.state = "asked"]
  /\ wire' = <<>>
  /\ UNCHANGED <<group, broken, offer, staged, held, installs, recorded>>

\* Every failure returns: the stream is dropped, and the sink with it.
Fail ==
  /\ phase' = "idle" /\ serving' = Idle /\ wire' = <<>> /\ offer' = NoOffer /\ staged' = <<>>
  /\ UNCHANGED <<group, donor, need, broken, held, installs, recorded>>

\* The answer to the request: an offer is verified, anything else is an error.
ReadOffer ==
  /\ phase = "OfferVerify" /\ wire # <<>>
  /\ \E f \in {wire[1]} :
       \/ /\ f.kind = "offer" /\ ~ Stale(f.fence, fence[Me]) /\ Covered(need, f.covers)
          /\ phase' = Advance.OfferVerify.OfferAccepted
          /\ offer' = f
          /\ wire' = Tail(wire)
          /\ UNCHANGED <<group, donor, need, serving, broken, staged, held, installs, recorded>>
       \/ /\ f.kind = "offer" /\ (Stale(f.fence, fence[Me]) \/ ~ Covered(need, f.covers))
          /\ Fail
       \/ /\ f.kind # "offer"
          /\ Fail

\* One turn of the staging loop.
ReadStage ==
  /\ phase = "Stage" /\ wire # <<>>
  /\ \E f \in {wire[1]} :
       \/ /\ f.kind = "chunk"
          /\ staged' = Append(staged, f.data)
          /\ phase' = Advance.Stage.Chunk
          /\ wire' = Tail(wire)
          /\ UNCHANGED <<group, donor, need, serving, broken, offer, held, installs, recorded>>
       \/ /\ f.kind = "done"
          /\ phase' = Advance.Stage.DoneSeen
          /\ UNCHANGED <<group, donor, need, serving, wire, broken, offer, staged, held, installs, recorded>>
       \/ /\ f.kind \notin {"chunk", "done"}
          /\ Fail

\* Mutant: the counts alone.
DoneVerifyCounts ==
  /\ phase = "DoneVerify" /\ wire[1].count = Len(staged)
  /\ phase' = Advance.DoneVerify.CountsOk
  /\ UNCHANGED <<group, donor, need, serving, wire, broken, offer, staged, held, installs, recorded>>

\* The counts, then the donor's final stamp against this node's fence, read
\* afresh.
DoneVerify ==
  /\ phase = "DoneVerify"
  /\ \E f \in {wire[1]} :
       \/ /\ f.count = Len(staged) /\ ~ Stale(f.fence, fence[Me])
          /\ phase' = Advance.DoneVerify.CountsOk
          /\ UNCHANGED <<group, donor, need, serving, wire, broken, offer, staged, held, installs, recorded>>
       \/ /\ f.count # Len(staged) \/ Stale(f.fence, fence[Me])
          /\ Fail

\* The chunks 1..k of an image, complete, hold its prefix.
Whole(chunks) == chunks = [i \in 1..setup.chunks |-> i]

\* sink.finish: the staged image replaces the live state, and the receipt
\* carries the offer's watermark.
Finish ==
  /\ phase = "Finish"
  /\ held' = IF Whole(staged) THEN IF offer.covers > held THEN offer.covers ELSE held ELSE 0
  /\ installs' = installs \cup {[image |-> serving.image, need |-> need, whole |-> Whole(staged),
                                 final |-> wire[1].fence]}
  /\ phase' = Advance.Finish.Finished
  /\ staged' = <<>>
  /\ UNCHANGED <<group, donor, need, serving, wire, broken, offer, recorded>>

\* sink.finish fails: the error returns and nothing is installed.
FinishFails ==
  /\ phase = "Finish" /\ setup.refuses
  /\ Fail

\* seed: the receipt's watermarks are recorded and the ledger refreshed.
Seed ==
  /\ phase = "Complete"
  /\ recorded' = IF offer.covers > recorded THEN offer.covers ELSE recorded
  /\ phase' = "idle" /\ donor' = [donor EXCEPT !.tried = {}]
  /\ serving' = Idle /\ wire' = <<>> /\ offer' = NoOffer
  /\ UNCHANGED <<group, need, broken, staged, held, installs>>

-----------------------------------------------------------------------------
(***************************************************************************)
(* The donor: offer.                                                       *)
(***************************************************************************)
requester == <<phase, donor, need, broken, offer, staged, held, installs, recorded>>

\* Read the request, open the source, check coverage, stamp the offer.
Offer ==
  /\ serving.state = "asked"
  /\ \E d \in {donor.current} :
       \/ /\ d \in setup.misnamed
          /\ wire' = <<RefuseFrame("BadRequest")>> /\ serving' = [serving EXCEPT !.state = "closed"]
       \/ /\ d \notin setup.misnamed /\ setup.refuses
          /\ wire' = <<RefuseFrame("Unavailable")>> /\ serving' = [serving EXCEPT !.state = "closed"]
       \/ /\ d \notin setup.misnamed /\ ~ Covered(need, applied[d])
          /\ wire' = <<RefuseFrame("NotCovered")>> /\ serving' = [serving EXCEPT !.state = "closed"]
       \/ /\ d \notin setup.misnamed /\ Covered(need, applied[d])
          /\ wire' = <<OfferFrame(fence[d], applied[d])>>
          /\ serving' = [state |-> "sending", image |-> applied[d], sent |-> 0]
  /\ UNCHANGED <<group, requester>>

\* The next chunk of the image.
SendChunk ==
  /\ serving.state = "sending" /\ serving.sent < setup.chunks
  /\ serving' = [serving EXCEPT !.sent = @ + 1]
  /\ wire' = Append(wire, ChunkFrame(serving.sent + 1))
  /\ UNCHANGED <<group, requester>>

\* The terminator: the counts sent and the donor's fence, read afresh.
SendDone ==
  /\ serving.state = "sending" /\ serving.sent = setup.chunks
  /\ serving' = [serving EXCEPT !.state = "closed"]
  /\ wire' = Append(wire, DoneFrame(serving.sent, fence[donor.current]))
  /\ UNCHANGED <<group, requester>>

\* The stream ends early: a chunk past the limit, a source that fails, a donor
\* that crashes, a lost connection.  What was sent may be lost from any point.
Break ==
  /\ serving.state \in {"asked", "sending", "closed"} /\ broken < setup.breaks
  /\ phase \in {"OfferVerify", "Stage"}
  /\ \E k \in 0..Len(wire) : wire' = Append(SubSeq(wire, 1, k), Eof)
  /\ serving' = [serving EXCEPT !.state = "gone"]
  /\ broken' = broken + 1
  /\ UNCHANGED <<group, phase, donor, need, offer, staged, held, installs, recorded>>

Next ==
  \/ Issue
  \/ \E d \in Donor : Apply(d) \/ Hear(d)
  \/ \E n \in Party : Adopt(n)
  \/ \E n \in 1..setup.writes : Fetch(n)
  \/ ReadOffer \/ ReadStage \/ DoneVerify \/ Finish \/ FinishFails \/ Seed
  \/ Offer \/ SendChunk \/ SendDone \/ Break

Spec == Init /\ [][Next]_vars

\* Both halves run to their next await, gossip delivers, donors apply, and the
\* caller retries for the newest write.
Fairness ==
  /\ WF_vars(Issue)
  /\ WF_vars(\E d \in Donor : Apply(d) \/ Hear(d))
  /\ WF_vars(\E n \in Party : Adopt(n))
  /\ WF_vars(Fetch(setup.writes))
  /\ WF_vars(ReadOffer) /\ WF_vars(ReadStage) /\ WF_vars(DoneVerify)
  /\ WF_vars(Finish) /\ WF_vars(Seed)
  /\ WF_vars(Offer) /\ WF_vars(SendChunk) /\ WF_vars(SendDone)

FairSpec == Spec /\ Fairness

-----------------------------------------------------------------------------
\* Types: phases and frames are the ones named, a published watermark is at
\* most what its donor applied, and no more chunks are staged than an image has.
TypeOK ==
  /\ setup \in Setups
  /\ head \in 0..setup.writes
  /\ \A d \in Donor : reading[d] <= applied[d] /\ applied[d] <= head
  /\ \A n \in Party : fence[n].epoch \in Epoch /\ fence[n].host \in Donor \cup {NoHost}
  /\ phase \in {"idle", "OfferVerify", "Stage", "DoneVerify", "Finish", "Complete"}
  /\ serving.state \in {"idle", "asked", "sending", "closed", "gone"}
  /\ held \in 0..setup.writes /\ recorded \in 0..setup.writes
  /\ Len(staged) <= setup.chunks

(***************************************************************************)
(* handoff.rs: a sink is finished only with a whole image that covers what *)
(* the fetch needed; every other path drops it, so a cut stream, a refusal *)
(* or a failed verification leaves the live state as it was.               *)
(***************************************************************************)
InstallsWhole == \A i \in installs : i.whole /\ i.image >= i.need

(***************************************************************************)
(* Handoff::seed: what this node tells the group it has applied is state   *)
(* it holds.                                                               *)
(***************************************************************************)
RecordedIsHeld == recorded <= held

(***************************************************************************)
(* stream.rs, "The two re-verifications": a migration either side has      *)
(* learned about before the terminator is verified lands as a stale donor: *)
(* between that verification and the next fetch nothing is installed from  *)
(* a donor that was behind this node's fence when it finished sending.     *)
(***************************************************************************)
NothingStaleInstalled ==
  [][ \A f \in {fence[Me]} :
        (phase = "DoneVerify" /\ phase' = "Finish")
          => /\ wire[1].fence.epoch >= f.epoch
             /\ wire[1].fence.epoch = f.epoch =>
                  NoHost \in {wire[1].fence.host, f.host} \/ wire[1].fence.host = f.host ]_vars

(***************************************************************************)
(* A requester whose donors can serve ends up holding, and having          *)
(* published, every write of the group once writing stops and the last     *)
(* epoch has one host: two hosts of one epoch refuse each other.           *)
(***************************************************************************)
Recovers ==
  <>[]((~ setup.refuses /\ Cardinality(setup.hosts[Len(setup.hosts)]) = 1)
         => recorded = setup.writes)
=============================================================================
