----------------------------- MODULE MCElection -----------------------------
(***************************************************************************)
(* The election on small instances: three nodes, two of them candidates.   *)
(* A run explores several setups, each with the bounds its question needs. *)
(***************************************************************************)
EXTENDS Election

\* Two candidates duel over three durable voters; rounds run on any tick, and
\* every frame arrives, if it does, within the instant it was sent at.
Duel ==
    [activation |-> "Quorum", durable |-> Voters, failing |-> {}, candidates |-> {1, 2},
     crashable |-> {}, leavers |-> {}, nudges |-> TRUE, delivered |-> {"Claim", "Grant"},
     max_rtt |-> 0, max_epoch |-> 2, max_time |-> 2 * Lease]

\* A lease passes on; a host or claimant leaves under a rival's claim; the same
\* group without voters.
Leases ==
    {Duel,
     [Duel EXCEPT !.leavers = {1}, !.delivered = @ \cup {"Resign"}, !.max_time = Lease + 1],
     [Duel EXCEPT !.activation = "Settle", !.leavers = {1}, !.delivered = {"Claim", "State"}]}

\* Everyone crashes at any step and reads its store back; a voter's store
\* fails and the voter crashes; a voter without a store crashes.
Crashes ==
    {[Duel EXCEPT !.crashable = Node],
     [Duel EXCEPT !.failing = {3}, !.crashable = {3}, !.candidates = {1}],
     [Duel EXCEPT !.durable = {1, 2}, !.crashable = {3}]}

\* A host of one epoch leaves and waits for its receipts.
Resigns ==
    {[Duel EXCEPT !.candidates = {1}, !.leavers = {1}, !.max_epoch = 1,
                  !.delivered = {"Claim", "Grant", "State", "Resign"}]}

\* The view the runs use to tell states apart: it forgets the fields of a role
\* that ended, which the code overwrites before it reads them again, and how
\* long ago a deadline passed.
Live(s) ==
    [s EXCEPT !.lease_until = IF s.role = "Host" THEN @ ELSE 0,
              !.round_sent_at = IF s.role = "Follower" THEN 0 ELSE @,
              !.round_grants = IF s.role = "Follower" THEN {} ELSE @,
              !.round_refused = IF s.role = "Claimant" THEN @ ELSE {},
              !.grant_promise_until = Larger(@, now),
              !.no_claim_before = Larger(@, now)]

LiveState == <<setup, now, [n \in Node |-> Live(el[n])], disk, undurable, net, issued, hosted>>
=============================================================================
