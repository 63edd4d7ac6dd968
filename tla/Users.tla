------------------------------- MODULE Users -------------------------------
(***************************************************************************)
(* The people who hold the devices: which records they come with and when  *)
(* they start an operation.  The screens disable no button while an answer *)
(* is awaited, so the code itself lets operations overlap.                 *)
(*                                                                         *)
(*   started[d]     operations device d has started                        *)
(***************************************************************************)
EXTENDS Session

CONSTANTS
    Openings,   \* records the server may hold at the beginning
    Overlap     \* operations may start while earlier ones are unanswered

\* No count below one in a record: an item that is used up is removed.
Stocked(account) ==
    \A k \in Key : account[Inventory(k)] # Absent => account[Inventory(k)] >= 1

ASSUME UsersAssumption ==
    /\ \A opening \in Openings :
          opening \in [Leaf -> Value] /\ WellTyped(opening) /\ Stocked(opening)
    /\ Overlap \in BOOLEAN

VARIABLE started

\* A user who waits: their device has had every answer and nothing is under way
\* on any other device.
Patient(d) == Idle(d) /\ \A e \in Device \ {d} : Settled(e)

MayAct(d) == stage[d] = "tabs" /\ (Overlap \/ Patient(d))

MayStart(d) == MayAct(d) /\ started[d] < MaxOps

Op(d) == started[d] + 1

Start(d) == started' = [started EXCEPT ![d] = @ + 1]

UsersInit ==
    /\ \E opening \in Openings : SessionInit(opening)
    /\ started = [d \in Device |-> 0]

-----------------------------------------------------------------------------
(* What has gone wrong so far.                                             *)

ProcessHasEnded == faults.kills > 0 \/ faults.crashed
Disturbed       == ProcessHasEnded \/ faults.drops > 0
=============================================================================
