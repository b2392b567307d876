------------------------------- MODULE Answer -------------------------------
(***************************************************************************)
(* What a caller of a computation that may be refused relies on: the       *)
(* request is answered at most once, with the complete result or with a    *)
(* refusal, and the answer is never taken back or changed.                 *)
(***************************************************************************)
CONSTANTS Requests, Complete(_)

VARIABLES request, answer

NoAnswer == [kind |-> "none"]
Refusal == [kind |-> "refusal"]
Result(r) == [kind |-> "result", result |-> Complete(r)]

Init == request \in Requests /\ answer = NoAnswer

Reply ==
  /\ answer = NoAnswer
  /\ answer' = Refusal \/ answer' = Result(request)
  /\ UNCHANGED request

Spec == Init /\ [][Reply]_<<request, answer>>
=============================================================================
