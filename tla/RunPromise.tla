----------------------------- MODULE RunPromise -----------------------------
(***************************************************************************)
(* What run_once promises its caller, which is all that run_group relies   *)
(* on: RunReturns, RunFails and Die of module RunGroup are the steps below. *)
(* The record is result.json.  Its write and the answer are one step, so   *)
(* that no answer ever says Ok before the record is in place and no record *)
(* is left that the answer disowns, but for a write that reports an error  *)
(* once its file is there.                                                 *)
(***************************************************************************)
EXTENDS Environment

VARIABLES
  recorded,  \* result.json is in place
  verdict    \* "none" while the call runs, then "ok", "err" or "dead"

promiseVars == <<recorded, verdict>>

PromiseInit == recorded = FALSE /\ verdict = "none"

Return ==
  /\ verdict = "none"
  /\ \/ recorded' = TRUE /\ verdict' = "ok"
     \/ recorded' = FALSE /\ verdict' = "err"
     \/ "after" \in Faults /\ recorded' = TRUE /\ verdict' = "err"

Die ==
  /\ "kill" \in Faults
  /\ verdict = "none"
  /\ verdict' = "dead"
  /\ UNCHANGED recorded

PromiseSpec ==
  PromiseInit /\ [][Return \/ Die]_promiseVars /\ WF_promiseVars(Return)
=============================================================================
