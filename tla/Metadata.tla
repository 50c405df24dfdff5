------------------------------ MODULE Metadata ------------------------------
(***************************************************************************)
(* The group's metadata: one last-writer-wins register per key, written by *)
(* any node and carried whole by every digest.  Models core's              *)
(* UpdateMetadata (engine/command.rs), merge_metadata (engine/merge.rs)    *)
(* and the metadata half of build_digest_chunks (engine/anti_entropy.rs).  *)
(* Keys never interact, so one key is modelled.  Digests may be lost,      *)
(* duplicated and reordered: the network is the set of all that were sent, *)
(* and any of them may arrive at any time, again or never.                 *)
(***************************************************************************)
EXTENDS Naturals

CONSTANTS
    Node,       \* node ids, ordered: positive integers
    Value,
    NoValue,    \* what a register without a write reads as
    MaxVersion, \* bound: no write above it
    Restartable \* nodes that may restart without their state

ASSUME MetadataAssumption ==
    /\ Node \subseteq Nat \ {0} /\ Restartable \subseteq Node
    /\ NoValue \notin Value /\ MaxVersion \in Nat

VARIABLES
    meta,    \* meta[n]: n's register
    digests, \* the registers some digest has carried
    booted   \* nodes that have restarted

vars == <<meta, digests, booted>>

Unset == [version |-> 0, writer |-> 0, value |-> NoValue]

\* Mutant: a later arrival wins among equal versions.
WinsLate(d, local) == d.version >= local.version

\* Mutant: the version alone decides.
WinsByVersion(d, local) == d.version > local.version

\* merge_metadata: (version, writer) must strictly exceed what is held.
Wins(d, local) ==
    \/ d.version > local.version
    \/ d.version = local.version /\ d.writer > local.writer

\* Mutant: a write keeps the version it replaces.
UpdatedInPlace(n, v) ==
    [version |-> IF meta[n] = Unset THEN 1 ELSE meta[n].version, writer |-> n, value |-> v]

\* Mutant: a write is stamped without its writer.
UpdatedByNobody(n, v) == [version |-> meta[n].version + 1, writer |-> NoValue, value |-> v]

\* A local write goes above the highest version held.
Updated(n, v) == [version |-> meta[n].version + 1, writer |-> n, value |-> v]

UpdateMetadata(n, v) ==
    /\ meta[n].version < MaxVersion
    /\ meta' = [meta EXCEPT ![n] = Updated(n, v)]
    /\ UNCHANGED <<digests, booted>>

\* A round: n's digest carries its register.
Round(n) ==
    /\ meta[n] # Unset
    /\ digests' = digests \cup {meta[n]}
    /\ UNCHANGED <<meta, booted>>

OnDigest(n, d) ==
    /\ Wins(d, meta[n])
    /\ meta' = [meta EXCEPT ![n] = d]
    /\ UNCHANGED <<digests, booted>>

Restart(n) ==
    /\ n \in Restartable \ booted
    /\ meta' = [meta EXCEPT ![n] = Unset]
    /\ booted' = booted \cup {n}
    /\ UNCHANGED digests

Init ==
    /\ meta = [n \in Node |-> Unset]
    /\ digests = {}
    /\ booted = {}

Next ==
    \E n \in Node :
        \/ \E v \in Value : UpdateMetadata(n, v)
        \/ Round(n)
        \/ \E d \in digests : OnDigest(n, d)
        \/ Restart(n)

Spec == Init /\ [][Next]_vars

\* Every node keeps running rounds, and what a digest carried arrives.
FairSpec ==
    /\ Spec
    /\ \A n \in Node : WF_vars(Round(n)) /\ WF_vars(\E d \in digests : OnDigest(n, d))

-----------------------------------------------------------------------------
Register == [version : Nat, writer : Node \cup {0}, value : Value \cup {NoValue}]

\* Registers, carried or held, keep their type.
TypeOK ==
    /\ meta \in [Node -> Register]
    /\ digests \subseteq Register
    /\ booted \subseteq Restartable

Registers == {meta[n] : n \in Node} \cup digests

\* The stamp (version, writer) names one value wherever it is held or carried,
\* which is what lets a merge compare stamps and never values.  Stamps of a
\* writer that restarted without its state are left out: it may reuse them.
StampNamesValue ==
    \A a, b \in Registers :
        (a.version = b.version /\ a.writer = b.writer /\ a.writer \notin booted)
            => a.value = b.value

\* A node's register never moves back: no late or repeated digest undoes a
\* write the node has seen.
NeverBack ==
    [][\A n \in Node :
         \/ n \in booted' \ booted
         \/ meta'[n] = meta[n]
         \/ meta'[n].version > meta[n].version
         \/ meta'[n].version = meta[n].version /\ meta'[n].writer > meta[n].writer]_vars

\* Once writing stops all replicas end up with one stamp, whoever restarted.
StampsConverge ==
    <>[](\A n, p \in Node : meta[n].version = meta[p].version /\ meta[n].writer = meta[p].writer)

\* merge_metadata: "all replicas converge on one value".
Converges == <>[](\A n, p \in Node : meta[n].value = meta[p].value)
=============================================================================
