----------------------------- MODULE ServiceCall -----------------------------
(***************************************************************************)
(* What Service::launch promises to its callers (service.hpp,              *)
(* service_future.hpp), without connections, sessions or messages: a call  *)
(* is sent to a set of services, each of them runs it at most once, and    *)
(* the future is completed at the very step at which the last response is  *)
(* there.  A response says either "ok", and then the service has run the   *)
(* call, or that the call was lost, and then it may or may not have run.   *)
(***************************************************************************)
CONSTANTS
  Call,   \* calls
  Target  \* services

VARIABLES
  future,  \* the future of every call
  resp,    \* the response of every service to every call
  ran      \* the services that have run the call

sc_vars == <<future, resp, ran>>

Init ==
  /\ future = [c \in Call |-> "new"]
  /\ resp = [c \in Call |-> [t \in Target |-> "absent"]]
  /\ ran = [c \in Call |-> {}]

Complete(row) == \A t \in Target : row[t] # "none"

(* A call starts with a response from none of its services; those that are *)
(* known to be unreachable are lost at once.                               *)
Start(c) ==
  /\ future[c] = "new"
  /\ \E row \in [Target -> {"absent", "none", "lost"}] :
       /\ \E t \in Target : row[t] # "absent"
       /\ resp' = [resp EXCEPT ![c] = row]
       /\ future' = [future EXCEPT ![c] = IF Complete(row) THEN "done"
                                                           ELSE "waiting"]
  /\ UNCHANGED ran

(* A service runs the call, which may be after it was given up as lost.    *)
Run(c, t) ==
  /\ t \notin ran[c] /\ resp[c][t] # "absent"
  /\ ran' = [ran EXCEPT ![c] = @ \cup {t}]
  /\ UNCHANGED <<future, resp>>

(* The last response completes the future.                                 *)
Settle(row, c) ==
  IF future[c] = "waiting" /\ Complete(row) THEN "done" ELSE future[c]

Answer(c, t) ==
  LET row == [resp[c] EXCEPT ![t] = "ok"] IN
  /\ future[c] = "waiting" /\ t \in ran[c] /\ resp[c][t] = "none"
  /\ resp' = [resp EXCEPT ![c] = row]
  /\ future' = [future EXCEPT ![c] = Settle(row, c)]
  /\ UNCHANGED ran

(* Connections are lost: responses that were awaited, or that the caller   *)
(* has not yet read, turn into errors, in several calls at once.           *)
Lose ==
  /\ \E L \in [Call -> SUBSET Target] :
       /\ \A c \in Call : L[c] # {} => future[c] \in {"waiting", "done"}
       /\ \A c \in Call : \A t \in L[c] : resp[c][t] \in {"none", "ok"}
       /\ resp' = [c \in Call |-> [t \in Target |->
                     IF t \in L[c] THEN "lost" ELSE resp[c][t]]]
       /\ future' = [c \in Call |-> Settle(resp'[c], c)]
  /\ UNCHANGED ran

(* The caller no longer waits.                                             *)
Forget(c) ==
  /\ future[c] \in {"waiting", "done"}
  /\ future' = [future EXCEPT ![c] = "gone"]
  /\ UNCHANGED <<resp, ran>>

Next ==
  \/ Lose
  \/ \E c \in Call : \/ Start(c) \/ Forget(c)
                     \/ \E t \in Target : \/ Run(c, t) \/ Answer(c, t)

Spec == Init /\ [][Next]_sc_vars

=============================================================================
