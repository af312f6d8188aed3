---------------------------- MODULE MCChatService ----------------------------
(* Instances of ChatService for TLC: the list of threads that is polled,   *)
(* and a clock with two ticks to a millisecond.                            *)
EXTENDS ChatService

CONSTANT k1

OneThread == <<k1>>

TwoTicks == [t \in 0..MaxTime |-> t - (t % 2)]

=============================================================================
