----------------------------- MODULE MCLogicRole -----------------------------
(* Instances of LogicRole for TLC: who owns which role.                    *)
EXTENDS LogicRole, TLC

CONSTANTS u1

SameOwner == [r \in Roid |-> u1]

FiberSymmetry == Permutations(Fiber)

=============================================================================
