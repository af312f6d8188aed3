----------------------------- MODULE MCHttpQueue -----------------------------
(* Instances of HttpQueue for TLC.                                         *)
EXTENDS HttpQueue, TLC

CONSTANTS h1, h2, q1, q2, q3, q4, q5

(* The first host is asked over HTTP, the second over HTTP and HTTPS.      *)
MCUri ==
  (q1 :> [host |-> h1, scheme |-> "http"]) @@
  (q2 :> [host |-> h1, scheme |-> "http"]) @@
  (q3 :> [host |-> h1, scheme |-> "http"]) @@
  (q4 :> [host |-> h2, scheme |-> "http"]) @@
  (q5 :> [host |-> h2, scheme |-> "https"])

=============================================================================
