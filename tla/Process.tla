------------------------------ MODULE Process ------------------------------
(***************************************************************************)
(* execute_process: a child in a process group of its own, with a deadline, *)
(* and up to three tasks on its pipes, one that writes its input and two   *)
(* that read its output and share one budget of bytes to keep.  The call   *)
(* waits for the child or the deadline, kills what is left of the group,   *)
(* and then gives each task a bounded time to end.  Only when the group of *)
(* a child past its deadline cannot be killed is there a wait without a    *)
(* bound, for the child itself.                                            *)
(*                                                                         *)
(* The child may leave descendants behind: members of its group, which the *)
(* kill reaches, and ones that escaped into a session of their own, which  *)
(* it does not; either kind keeps the pipes open while it lives.           *)
(***************************************************************************)
EXTENDS Integers, FiniteSets

CONSTANTS
  Members,    \* the descendants that stay in the child's process group
  Escaped,    \* those that left it
  Limit,      \* max_output_bytes
  Chunk,      \* the size of the readers' buffer
  MaxBytes,   \* a bound for model checking: the bytes written to one stream
  HasInput,   \* whether the request has bytes for the child's stdin
  KillFails   \* whether killpg may fail with an error other than ESRCH

ASSUME BytesAssumption == Limit \in Nat /\ Chunk \in Nat \ {0} /\ MaxBytes \in Nat
ASSUME ProcessAssumption == Members \cap Escaped = {} /\ {HasInput, KillFails} \subseteq BOOLEAN

VARIABLES
  child,      \* "running", "dying" when it was sent SIGKILL, "exited" or "killed"
  code,       \* the child's exit code: 0, 1 for any other, -1 for none
  alive,      \* the descendants that live
  deadline,   \* the deadline has passed
  written,    \* written[s]: bytes ever written to stream s
  pipe,       \* pipe[s]: those not read yet
  reader,     \* reader[s]: "reading", "done" at the end of file, or "aborted"
  chunk,      \* chunk[s]: bytes read and not yet charged to the budget
  kept,       \* kept[s]: bytes retained
  cut,        \* cut[s]: bytes were dropped
  consumed,   \* the shared budget used, an atomic counter
  input,      \* the writer of stdin: "none", "writing", "done", "broken"
  main,       \* where the call is, "ok" or "err" once it returned
  status,     \* what it knows: timed out, exit code, a failed kill
  output      \* output[s]: what it collected from the readers

childVars  == <<child, code, alive, deadline>>
pipeVars   == <<written, pipe>>
readerVars == <<reader, chunk, kept, cut, consumed>>
mainVars   == <<main, status, output>>
vars == <<childVars, pipeVars, readerVars, input, mainVars>>

Streams == {"stdout", "stderr"}

Zero == [s \in Streams |-> 0]

Least(a, b) == IF a < b THEN a ELSE b

-----------------------------------------------------------------------------
Init ==
  /\ child = "running" /\ code = -1
  /\ alive = {}
  /\ deadline = FALSE
  /\ written = Zero /\ pipe = Zero
  /\ reader = [s \in Streams |-> "reading"]
  /\ chunk = Zero /\ kept = Zero
  /\ cut = [s \in Streams |-> FALSE]
  /\ consumed = 0
  /\ input = IF HasInput THEN "writing" ELSE "none"
  /\ main = "wait"
  /\ status = [timedOut |-> FALSE, code |-> -1, killFailed |-> FALSE]
  /\ output = [s \in Streams |-> [kept |-> 0, cut |-> FALSE]]

(***************************************************************************)
(* The child and its descendants.                                          *)
(***************************************************************************)
Gone == child \in {"exited", "killed"}

Holders == alive \cup (IF child \in {"running", "dying"} THEN {"child"} ELSE {})

Writes(s) ==
  /\ child = "running" \/ alive # {}
  /\ written[s] < MaxBytes
  /\ reader[s] = "reading"
  /\ written' = [written EXCEPT ![s] = @ + 1]
  /\ pipe' = [pipe EXCEPT ![s] = @ + 1]
  /\ UNCHANGED <<childVars, readerVars, input, mainVars>>

Forks(d) ==
  /\ child = "running"
  /\ d \notin alive
  /\ alive' = alive \cup {d}
  /\ UNCHANGED <<child, code, deadline, pipeVars, readerVars, input, mainVars>>

(* The child exits with a code, or a signal of somebody else ends it.      *)
Exits ==
  /\ child = "running"
  /\ child' = "exited"
  /\ code' \in {0, 1, -1}
  /\ UNCHANGED <<alive, deadline, pipeVars, readerVars, input, mainVars>>

Dies ==
  /\ child = "dying"
  /\ child' = "killed"
  /\ UNCHANGED <<code, alive, deadline, pipeVars, readerVars, input, mainVars>>

DescendantExits(d) ==
  /\ d \in alive
  /\ alive' = alive \ {d}
  /\ UNCHANGED <<child, code, deadline, pipeVars, readerVars, input, mainVars>>

DeadlinePasses ==
  /\ ~deadline
  /\ deadline' = TRUE
  /\ UNCHANGED <<child, code, alive, pipeVars, readerVars, input, mainVars>>

(***************************************************************************)
(* The tasks on the pipes.                                                 *)
(***************************************************************************)

(* The writer of stdin ends when the pipe took everything, or with an      *)
(* error when nobody will read it any more.                                *)
WriteInput ==
  /\ input = "writing"
  /\ \/ Holders # {} /\ input' = "done"
     \/ input' = "broken"
  /\ UNCHANGED <<childVars, pipeVars, readerVars, mainVars>>

(* read_bounded, its two steps: a read of at most one buffer, or the end   *)
(* of file once nobody holds the pipe's other end, ...                     *)
Read(s) ==
  /\ reader[s] = "reading"
  /\ chunk[s] = 0
  /\ \/ /\ pipe[s] > 0
        /\ \E n \in 1 .. Least(pipe[s], Chunk) :
             /\ chunk' = [chunk EXCEPT ![s] = n]
             /\ pipe' = [pipe EXCEPT ![s] = @ - n]
        /\ UNCHANGED reader
     \/ /\ pipe[s] = 0 /\ Holders = {}
        /\ reader' = [reader EXCEPT ![s] = "done"]
        /\ UNCHANGED <<chunk, pipe>>
  /\ UNCHANGED <<childVars, written, kept, cut, consumed, input, mainVars>>

(* Mutation: each reader has the whole limit for itself.                   *)
MutCharge(s) ==
  /\ reader[s] = "reading"
  /\ chunk[s] > 0
  /\ LET keep == Least(Limit - Least(kept[s], Limit), chunk[s])
     IN  /\ consumed' = consumed + chunk[s]
         /\ kept' = [kept EXCEPT ![s] = @ + keep]
         /\ cut' = [cut EXCEPT ![s] = @ \/ keep < chunk[s]]
  /\ chunk' = [chunk EXCEPT ![s] = 0]
  /\ UNCHANGED <<childVars, pipeVars, reader, input, mainVars>>

(* Mutation: a chunk that was kept in part does not count as cut.          *)
MutChargeCut(s) ==
  /\ reader[s] = "reading"
  /\ chunk[s] > 0
  /\ LET keep == Least(Limit - consumed, chunk[s])
     IN  /\ consumed' = Least(consumed + chunk[s], Limit)
         /\ kept' = [kept EXCEPT ![s] = @ + keep]
         /\ cut' = [cut EXCEPT ![s] = @ \/ keep = 0]
  /\ chunk' = [chunk EXCEPT ![s] = 0]
  /\ UNCHANGED <<childVars, pipeVars, reader, input, mainVars>>

(* ... and the charge to the budget that both readers share, one           *)
(* fetch_update, after which as much of the chunk is kept as was left.     *)
Charge(s) ==
  /\ reader[s] = "reading"
  /\ chunk[s] > 0
  /\ LET keep == Least(Limit - consumed, chunk[s])
     IN  /\ consumed' = Least(consumed + chunk[s], Limit)
         /\ kept' = [kept EXCEPT ![s] = @ + keep]
         /\ cut' = [cut EXCEPT ![s] = @ \/ keep < chunk[s]]
  /\ chunk' = [chunk EXCEPT ![s] = 0]
  /\ UNCHANGED <<childVars, pipeVars, reader, input, mainVars>>

(***************************************************************************)
(* The call itself.                                                        *)
(***************************************************************************)

(* SIGKILL to the group; without one left, ESRCH, it is as good as done.   *)
KillGroup ==
  /\ alive' = alive \ Members
  /\ child' = IF child = "running" THEN "dying" ELSE child

(* Mutation: what the child left behind is not killed when it exits.       *)
MutChildWaited ==
  /\ main = "wait"
  /\ Gone
  /\ status' = [status EXCEPT !.code = code]
  /\ main' = "stdout"
  /\ UNCHANGED <<childVars, pipeVars, readerVars, input, output>>

(* The wait ends with the child's status, and the rest of its group is     *)
(* killed; the error of that kill is kept for the end.                     *)
ChildWaited ==
  /\ main = "wait"
  /\ Gone
  /\ \/ /\ KillGroup
        /\ status' = [status EXCEPT !.code = code]
     \/ /\ KillFails
        /\ UNCHANGED <<child, alive>>
        /\ status' = [status EXCEPT !.code = code, !.killFailed = TRUE]
  /\ main' = "stdout"
  /\ UNCHANGED <<code, deadline, pipeVars, readerVars, input, output>>

(* The wait failed, which ends the call; the child is killed as it drops.  *)
WaitFails ==
  /\ main = "wait"
  /\ main' = "err"
  /\ child' = IF child = "running" THEN "dying" ELSE child
  /\ UNCHANGED <<code, alive, deadline, pipeVars, readerVars, input, status, output>>

(* Mutation: the exit status that came too late is used all the same.      *)
MutTimesOut ==
  /\ main = "wait"
  /\ deadline
  /\ KillGroup
  /\ status' = [status EXCEPT !.code = 0]
  /\ main' = "reap"
  /\ UNCHANGED <<code, deadline, pipeVars, readerVars, input, output>>

(* The deadline ends the wait, and the group is killed.  When it cannot be *)
(* the child alone is, which is another wait, in "kill"; when that cannot  *)
(* be done either, the call ends, and the drop of the child tries again.   *)
TimesOut ==
  /\ main = "wait"
  /\ deadline
  /\ \/ /\ KillGroup
        /\ status' = [status EXCEPT !.timedOut = TRUE]
        /\ main' = "reap"
     \/ /\ KillFails
        /\ child' \in (IF child = "running" THEN {"running", "dying"} ELSE {child})
        /\ main' \in (IF child' = "running" THEN {"err"} ELSE {"kill", "err"})
        /\ status' = [status EXCEPT !.timedOut = TRUE, !.killFailed = TRUE]
        /\ UNCHANGED alive
  /\ UNCHANGED <<code, deadline, pipeVars, readerVars, input, output>>

(* child.kill waits for the child that it sent SIGKILL, however long.      *)
KillWaited ==
  /\ main = "kill"
  /\ Gone
  /\ main' \in {"reap", "err"}
  /\ UNCHANGED <<childVars, pipeVars, readerVars, input, status, output>>

(* Mutation: a killed child is waited for without a bound.                 *)
MutReap ==
  /\ main = "reap"
  /\ Gone
  /\ main' = "stdout"
  /\ UNCHANGED <<childVars, pipeVars, readerVars, input, status, output>>

(* A killed child is given POST_KILL_WAIT to go; the wait may also fail.   *)
Reap ==
  /\ main = "reap"
  /\ main' \in {"err"} \cup (IF Gone THEN {"stdout"} ELSE {})
  /\ UNCHANGED <<childVars, pipeVars, readerVars, input, status, output>>

After(s) == IF s = "stdout" THEN "stderr" ELSE "stdin"

(* collect_task_bounded: the reader's result, or, after PIPE_DRAIN_WAIT,   *)
(* nothing at all, marked as truncated; the reader is aborted.             *)
Collect(s) ==
  /\ main = s
  /\ main' = After(s)
  /\ IF reader[s] = "done"
       THEN /\ output' = [output EXCEPT ![s] = [kept |-> kept[s], cut |-> cut[s]]]
            /\ UNCHANGED reader
       ELSE /\ output' = [output EXCEPT ![s] = [kept |-> 0, cut |-> TRUE]]
            /\ reader' = [reader EXCEPT ![s] = "aborted"]
  /\ UNCHANGED <<childVars, pipeVars, chunk, kept, cut, consumed, input, status>>

(* Its error: the reader's own, or that of a task that panicked.  The      *)
(* other reader is left to itself.                                         *)
CollectFails(s) ==
  /\ main = s
  /\ reader[s] \in {"reading", "done"}
  /\ main' = "err"
  /\ reader' = [reader EXCEPT ![s] = "aborted"]
  /\ UNCHANGED <<childVars, pipeVars, chunk, kept, cut, consumed, input, status, output>>

(* collect_input_task_bounded and the end of the call: an input that was   *)
(* not delivered, or is not within PIPE_DRAIN_WAIT, is an error, and so is *)
(* the kill that failed after the child's exit.                            *)
Finish ==
  /\ main = "stdin"
  /\ main' = IF input \in {"none", "done"} /\ (status.killFailed => status.timedOut)
               THEN "ok" ELSE "err"
  /\ UNCHANGED <<childVars, pipeVars, readerVars, input, status, output>>

-----------------------------------------------------------------------------
Call ==
  \/ ChildWaited \/ WaitFails \/ TimesOut \/ KillWaited \/ Reap \/ Finish
  \/ \E s \in Streams : Collect(s) \/ CollectFails(s)

Next ==
  \/ Exits \/ Dies \/ DeadlinePasses \/ WriteInput \/ Call
  \/ \E s \in Streams : Writes(s) \/ Read(s) \/ Charge(s)
  \/ \E d \in Members \cup Escaped : Forks(d) \/ DescendantExits(d)

(* Timers expire: the deadline passes, and Reap, Collect and Finish are    *)
(* enabled even while what they wait for is not there; KillWaited has no   *)
(* timer.  Nothing is assumed of the child, not even that it goes when it  *)
(* was sent SIGKILL, of its descendants or of the tasks on the pipes.      *)
Spec == Init /\ [][Next]_vars /\ WF_vars(DeadlinePasses) /\ WF_vars(Call)

-----------------------------------------------------------------------------
(* The values the variables take.                                          *)
TypeOK ==
  /\ child \in {"running", "dying", "exited", "killed"}
  /\ code \in {0, 1, -1}
  /\ alive \subseteq Members \cup Escaped
  /\ deadline \in BOOLEAN
  /\ written \in [Streams -> Nat] /\ pipe \in [Streams -> Nat]
  /\ reader \in [Streams -> {"reading", "done", "aborted"}]
  /\ chunk \in [Streams -> Nat] /\ kept \in [Streams -> Nat]
  /\ cut \in [Streams -> BOOLEAN]
  /\ consumed \in 0 .. Limit
  /\ input \in {"none", "writing", "done", "broken"}
  /\ main \in {"wait", "kill", "reap", "stdout", "stderr", "stdin", "ok", "err"}
  /\ status \in [timedOut : BOOLEAN, code : {0, 1, -1}, killFailed : BOOLEAN]
  /\ output \in [Streams -> [kept : Nat, cut : BOOLEAN]]

(* The two readers together keep no more than the limit: "Maximum combined *)
(* bytes retained across stdout and stderr" (process.rs).                  *)
RetainedWithinLimit == kept["stdout"] + kept["stderr"] <= Limit

(* An answer that does not say "truncated" has every byte that the child   *)
(* and its descendants ever wrote, in both streams; none is lost without   *)
(* being reported, not even to the time limit on draining a pipe.          *)
NothingLostSilently ==
  main = "ok" /\ ~output["stdout"].cut /\ ~output["stderr"].cut =>
    \A s \in Streams : output[s].kept = written[s]

(* A call that answers with a status leaves neither the child nor any      *)
(* member of its group alive, but for the group of a timed-out child that  *)
(* could not be killed as a group.                                         *)
NoMemberSurvives ==
  main = "ok" =>
    /\ Gone
    /\ alive \cap Members # {} => status.timedOut /\ status.killFailed

(* ProcessOutput::success: the child ended by itself, in time, with code   *)
(* 0, and the input was delivered; a child killed at its deadline is never *)
(* a success, however the exit and the deadline race.                      *)
SuccessIsTheChilds ==
  main = "ok" /\ ~status.timedOut /\ status.code = 0 =>
    /\ child = "exited" /\ code = 0
    /\ input \in {"none", "done"}

(* Whatever the child, its descendants and its pipes do, the call returns, *)
(* but for one case: its group could not be killed, and the child, sent    *)
(* SIGKILL by itself, never goes.  That wait comes before POST_KILL_WAIT   *)
(* and has no bound; every other one has, a pipe that a survivor holds     *)
(* open included (docs/threat-model.md).                                   *)
CallEnds ==
  \/ <>(main \in {"ok", "err"})
  \/ <>[](main = "kill" /\ child = "dying" /\ status.killFailed)
=============================================================================
