------------------------------ MODULE MCAnchor ------------------------------
(***************************************************************************)
(* External activation on two nodes, in several setups that one run covers *)
(* together: a run starts in each of them.  LiveState is the view the      *)
(* runs tell states apart by: it forgets a follower's old lease and how    *)
(* long ago a deadline passed, which nothing reads.                        *)
(***************************************************************************)
EXTENDS Anchor

NoSkew == [n \in Node |-> 0]
FirstAhead == [n \in Node |-> IF n = 1 THEN 1 ELSE 0]

\* A store that answers, no faults, no gossip.
Calm ==
    [skew |-> NoSkew, lease |-> 1, margin |-> 0, unanswered |-> {}, max_late |-> 0,
     lossy |-> FALSE, gossiped |-> FALSE, crashable |-> {}, leavers |-> {}, max_time |-> 2]

Leased2 == [Calm EXCEPT !.lease = 2, !.margin = 1]

Crash == [Calm EXCEPT !.max_late = 1, !.crashable = {1}, !.max_time = 2]
Silent == [Calm EXCEPT !.max_late = 1, !.unanswered = {1}]
Clocks == [Leased2 EXCEPT !.skew = FirstAhead, !.max_time = 5]
Ambiguous == [Leased2 EXCEPT !.skew = FirstAhead, !.unanswered = {2}, !.max_time = 4]
Departure == [Calm EXCEPT !.lossy = TRUE, !.gossiped = TRUE, !.leavers = {1}]

Faults == {Crash, Silent, Clocks, Ambiguous, Departure}
Released == {[Leased2 EXCEPT !.max_time = 7]}

LiveEngine(n) ==
    [eng[n] EXCEPT !.lease_until = IF eng[n].role = "Host" THEN Larger(@, now) ELSE 0,
                   !.no_claim_before = Larger(@, now)]

LiveTask(n) ==
    [task[n] EXCEPT !.retry_at = Larger(@, Wall(n)),
                    !.held.expires = IF task[n].held = NoHeld THEN 0 ELSE Larger(@, Wall(n))]

LiveState ==
    <<setup, now, [n \in Node |-> <<LiveEngine(n), LiveTask(n)>>], slot, inbox, changed,
      reg, late, said, awarded, given, hosted>>
=============================================================================
