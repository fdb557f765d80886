---------------------------- MODULE SuiteLedger ----------------------------
(***************************************************************************)
(* What a suite checkpoint promises its reader, with nothing of how it is  *)
(* kept: cells are decided one at a time, each once, in plan order, and    *)
(* the status leaves Running once.  SuiteRunner.tla implements it when one *)
(* process at a time works on a suite run.                                 *)
(***************************************************************************)
EXTENDS SuiteMatrix

VARIABLE ledger   \* None, or the checkpoint a reader finds

LedgerInit == ledger = None

Open == ledger = None /\ \E commit \in Commits : ledger' = NewExecution(commit)

Running == ledger # None /\ ledger.status = "Running"

(* The first pending cell gets its outcome: a group, or an error.          *)
Decide(c) ==
  /\ Running
  /\ IsFirst(c, PendingCells(ledger))
  /\ \E cell \in {Errored} \cup {Completed(g) : g \in Groups} :
       ledger' = SetCell(ledger, c, cell)

Close ==
  /\ Running
  /\ \/ PendingCells(ledger) = {} /\ ledger' = Finish(ledger)
     \/ ledger' = AbortRun(ledger)

LedgerNext == Open \/ (\E c \in Cells : Decide(c)) \/ Close

LedgerSpec == LedgerInit /\ [][LedgerNext]_ledger
=============================================================================
