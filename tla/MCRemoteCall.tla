----------------------------- MODULE MCRemoteCall -----------------------------
(* Instances of RemoteCall for TLC.                                        *)
EXTENDS RemoteCall, TLC

CONSTANTS self, r1, c1, c2

(* The first call is for two services, the second for one of them.         *)
MCReceivers == (c1 :> {self, r1}) @@ (c2 :> {r1})

=============================================================================
