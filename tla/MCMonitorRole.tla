---------------------------- MODULE MCMonitorRole ----------------------------
(* Instances of MonitorRole for TLC: which monitor writes to which home.   *)
EXTENDS MonitorRole, TLC

CONSTANTS m1, m2, h1, h2

OneMonitor == m1 :> h1
TwoMonitors == m1 :> h1 @@ m2 :> h2

FiberSymmetry == Permutations(Fiber)

=============================================================================
