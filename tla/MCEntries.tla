------------------------------ MODULE MCEntries ------------------------------
(***************************************************************************)
(* The entries of node 1 at one or two observers.  Keys are integers, as   *)
(* the map orders them.                                                    *)
(***************************************************************************)
EXTENDS Entries

Small ==
    [observers |-> {2}, keys |-> {1}, values |-> {1}, ttl |-> 0, dead_timeout |-> 0,
     budget |-> 2, eager_push |-> FALSE, deletes |-> FALSE, timely |-> TRUE,
     informed |-> FALSE, max_writes |-> 3, max_restarts |-> 0, max_lost |-> 0, max_net |-> 3]

\* The author restarts without its state and writes again.
Rewrite ==
    [Small EXCEPT !.values = {1, 2}, !.eager_push = TRUE, !.max_restarts = 1, !.max_lost = 1]

\* Frames of one entry, to two observers.
Chunks == [Small EXCEPT !.observers = {2, 3}, !.keys = {1, 2}, !.budget = 1, !.max_lost = 1]

\* Deletes that reach every node while their tombstones are gossiped, and frames
\* that arrive late.
Deletion ==
    [Small EXCEPT !.observers = {2, 3}, !.dead_timeout = 1, !.deletes = TRUE,
                  !.informed = TRUE, !.timely = FALSE, !.max_writes = 2, !.max_net = 2]

Repairs == {Rewrite, Chunks, Deletion}

\* A delete that one observer does not hear of in time.
Partition ==
    {[Small EXCEPT !.observers = {2, 3}, !.dead_timeout = 1, !.deletes = TRUE, !.max_writes = 2]}

\* One write with a TTL, at two observers.
Expiry == {[Small EXCEPT !.observers = {2, 3}, !.ttl = 2, !.max_writes = 1]}

\* Frames of one entry, an author that restarts.
CutTail ==
    {[Small EXCEPT !.keys = {1, 2}, !.values = {1, 2}, !.budget = 1, !.max_restarts = 1]}

\* Deletes, and an author that restarts after they were reaped.
Forgotten ==
    {[Small EXCEPT !.dead_timeout = 1, !.eager_push = TRUE, !.deletes = TRUE,
                   !.max_restarts = 1]}

\* Eager pushes, one of them lost.
Push ==
    {[Small EXCEPT !.observers = {2, 3}, !.keys = {1, 2}, !.eager_push = TRUE,
                   !.max_writes = 2, !.max_lost = 1]}
=============================================================================
