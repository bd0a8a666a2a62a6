----------------------------- MODULE RemoteCalls -----------------------------
(***************************************************************************)
(* What a JSON-RPC proxy promises to its callers, with no sockets or       *)
(* channels: a call is executed by the backend at most once; a caller that *)
(* gets an answer gets the answer to its own call, after the call was      *)
(* executed; a call that was lost with its connection is rejected, and     *)
(* then it may or may not have been executed, or be executed still.        *)
(***************************************************************************)
EXTENDS Naturals

CONSTANTS
  Calls,          \* the calls that are made
  Notifications   \* those for which the caller does not get an answer

VARIABLES
  promise,  \* call -> what the caller knows
  answer,   \* call -> the calls whose results it was answered with
  times     \* call -> how often the backend has begun to execute it

Init ==
  /\ promise = [k \in Calls |-> "idle"]
  /\ answer = [k \in Calls |-> {}]
  /\ times = [k \in Calls |-> 0]

Issue(k) ==
  /\ promise[k] = "idle"
  /\ promise' = [promise EXCEPT ![k] = "pending"]
  /\ UNCHANGED <<answer, times>>

\* The promises of notifications are resolved as soon as the notifications are sent.
Send(S) ==
  /\ S # {}
  /\ \A k \in S : k \in Notifications /\ promise[k] \in {"idle", "pending"}
  /\ promise' = [k \in Calls |-> IF k \in S THEN "answered" ELSE promise[k]]
  /\ UNCHANGED <<answer, times>>

Execute(k) ==
  /\ promise[k] # "idle"
  /\ times[k] = 0
  /\ times' = [times EXCEPT ![k] = 1]
  /\ UNCHANGED <<promise, answer>>

Answer(k) ==
  /\ promise[k] = "pending"
  /\ times[k] = 1
  /\ promise' = [promise EXCEPT ![k] = "answered"]
  /\ answer' = [answer EXCEPT ![k] = {k}]
  /\ UNCHANGED times

Reject(S) ==
  /\ S # {}
  /\ \A k \in S : promise[k] = "pending"
  /\ promise' = [k \in Calls |-> IF k \in S THEN "rejected" ELSE promise[k]]
  /\ UNCHANGED <<answer, times>>

Next ==
  \/ \E k \in Calls : Issue(k) \/ Execute(k) \/ Answer(k)
  \/ \E S \in SUBSET Calls : Send(S) \/ Reject(S)

Spec == Init /\ [][Next]_<<promise, answer, times>>
=============================================================================
