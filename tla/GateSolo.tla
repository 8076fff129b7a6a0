------------------------------ MODULE GateSolo ------------------------------
(***************************************************************************)
(* The steps of GateThreads, taken by threads that wait for one another,   *)
(* add up to the calls of MemoryGate.                                      *)
(***************************************************************************)
EXTENDS GateThreads

VARIABLE before  \* the gate's state when last no call was under way

GateState ==
    [entries |-> entries, byPrincipal |-> byPrincipal, byScope |-> byScope,
     tombstones |-> tombstones, embeddings |-> embeddings, minted |-> minted,
     pending |-> pending, held |-> held, promoted |-> promoted, auditLog |-> auditLog,
     unlogged |-> unlogged, calls |-> calls, mode |-> mode, attached |-> attached,
     latest |-> latest]

SoloInit == ThreadsInit /\ before = GateState

SoloNext ==
    \E t \in Threads :
        /\ \A u \in Threads : u # t => frame[u].at = "idle"
        /\ ThreadNext(t)
        /\ before' = IF Quiescent' THEN GateState' ELSE before

SoloSpec == SoloInit /\ [][SoloNext]_<<threadVars, before>>

Atomic == INSTANCE MemoryGate WITH
    entries <- before.entries, byPrincipal <- before.byPrincipal, byScope <- before.byScope,
    tombstones <- before.tombstones, embeddings <- before.embeddings, minted <- before.minted,
    pending <- before.pending, held <- before.held, promoted <- before.promoted,
    auditLog <- before.auditLog, unlogged <- before.unlogged, calls <- before.calls,
    mode <- before.mode, attached <- before.attached, latest <- before.latest

\* Refinement: a call whose steps nobody interrupts is one action of
\* MemoryGate; what is shown of the gate's whole calls is shown of the code's
\* statements.
ImplementsGate == Atomic!GateSpec
=============================================================================
