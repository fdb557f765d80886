--------------------------- MODULE Process_proofs ---------------------------
(***************************************************************************)
(* Proofs about execute_process, for every limit, buffer size and set of   *)
(* descendants.  TypeOK is inductive.  Every other fact rests on what the  *)
(* call has waited for: the budget is the sum of what was kept, a reader   *)
(* that saw the end of its pipe left nobody who could write to it, and     *)
(* from the end of the wait on the child is gone and no descendant in its  *)
(* group is left unless the kill failed.                                   *)
(***************************************************************************)
EXTENDS Process, TLAPS

(* The phases of the call after the child was waited for, and those after  *)
(* the reader of a stream was collected.                                   *)
Waited == {"stdout", "stderr", "stdin", "ok"}
Collected(s) == IF s = "stdout" THEN {"stderr", "stdin", "ok"} ELSE {"stdin", "ok"}

(* The shared counter is what both readers kept.                           *)
BudgetIsKept == consumed = kept["stdout"] + kept["stderr"]

(* A reader's bytes: nothing is missing while nothing was cut, and its end *)
(* of file means that there is nobody left to write.                       *)
Accounted ==
  \A s \in Streams :
    /\ ~cut[s] => written[s] = pipe[s] + chunk[s] + kept[s]
    /\ reader[s] = "done" => /\ pipe[s] = 0 /\ chunk[s] = 0
                             /\ Gone /\ alive = {}

(* What was collected is what its reader had at the end of file.           *)
CollectedIsKept ==
  \A s \in Streams : main \in Collected(s) /\ ~output[s].cut =>
    reader[s] = "done" /\ ~cut[s] /\ output[s].kept = kept[s]

(* What the call knows of the child, and what the kill left.               *)
EndIsKnown ==
  /\ child # "exited" => code = -1
  /\ main = "wait" => ~status.timedOut
  /\ main \in {"kill", "reap"} => child # "running" /\ status.timedOut
  /\ main = "kill" => status.killFailed
  /\ main \in Waited => Gone /\ (~status.timedOut => status.code = code)
  /\ main \in Waited \cup {"reap"} /\ alive \cap Members # {} => status.killFailed
  /\ main = "ok" => /\ input \in {"none", "done"}
                    /\ status.killFailed => status.timedOut

ProcessInv == TypeOK /\ BudgetIsKept /\ Accounted /\ CollectedIsKept /\ EndIsKnown

-----------------------------------------------------------------------------
(* The smaller of two numbers. *)
LEMMA LeastIsLeast ==
  ASSUME NEW a \in Nat, NEW b \in Nat
  PROVE  Least(a, b) \in Nat /\ Least(a, b) <= a /\ Least(a, b) <= b
         /\ Least(a, b) \in {a, b}
BY DEF Least

(* A call begins with nothing kept and nobody waited for. *)
LEMMA InitInvariant == Init => ProcessInv
<1> SUFFICES ASSUME Init PROVE ProcessInv
  OBVIOUS
<1>1. TypeOK
  <2>1. output \in [Streams -> [kept : Nat, cut : BOOLEAN]] /\ cut \in [Streams -> BOOLEAN]
    BY Zenon DEF Init
  <2>2. status \in [timedOut : BOOLEAN, code : {0, 1, -1}, killFailed : BOOLEAN]
    BY DEF Init
  <2>3. /\ consumed \in 0 .. Limit /\ reader \in [Streams -> {"reading", "done", "aborted"}]
        /\ \A f \in {written, pipe, chunk, kept} : f \in [Streams -> Nat]
    BY BytesAssumption DEF Init, Zero
  <2>4. /\ child \in {"running", "dying", "exited", "killed"} /\ code \in {0, 1, -1}
        /\ alive \subseteq Members \cup Escaped /\ deadline \in BOOLEAN
        /\ input \in {"none", "writing", "done", "broken"}
        /\ main \in {"wait", "reap", "stdout", "stderr", "stdin", "ok", "err"}
    BY DEF Init
  <2> QED BY <2>1, <2>2, <2>3, <2>4 DEF TypeOK
<1>2. BudgetIsKept /\ Accounted
  BY DEF Init, BudgetIsKept, Accounted, Streams, Zero
<1>3. CollectedIsKept /\ EndIsKnown
  BY DEF Init, CollectedIsKept, EndIsKnown, Collected, Waited
<1> QED BY <1>1, <1>2, <1>3 DEF ProcessInv

(* The child, its descendants, the clock and the writer of stdin.          *)
LEMMA WorldInvariant ==
  ASSUME ProcessInv,
         \/ Exits \/ Dies \/ DeadlinePasses \/ WriteInput
         \/ \E s \in Streams : Writes(s)
         \/ \E d \in Members \cup Escaped : Forks(d) \/ DescendantExits(d)
  PROVE  ProcessInv'
<1> USE DEF ProcessInv, childVars, pipeVars, readerVars, mainVars
<1>1. CASE Exits
  BY <1>1 DEF Exits, TypeOK, BudgetIsKept, Accounted, CollectedIsKept, EndIsKnown, Streams, Collected, Waited, Gone
<1>2. CASE Dies
  BY <1>2 DEF Dies, TypeOK, BudgetIsKept, Accounted, CollectedIsKept, EndIsKnown, Streams, Collected, Waited, Gone
<1>3. CASE DeadlinePasses
  BY <1>3 DEF DeadlinePasses, TypeOK, BudgetIsKept, Accounted, CollectedIsKept, EndIsKnown, Streams, Collected, Waited, Gone
<1>4. CASE WriteInput
  BY <1>4 DEF WriteInput, TypeOK, BudgetIsKept, Accounted, CollectedIsKept, EndIsKnown, Streams, Collected, Waited, Gone
<1>5. ASSUME NEW s \in Streams, Writes(s)
      PROVE  ProcessInv'
  BY <1>5 DEF Writes, TypeOK, BudgetIsKept, Accounted, CollectedIsKept, EndIsKnown, Streams, Collected, Waited, Gone
<1>6. ASSUME NEW d \in Members \cup Escaped, Forks(d)
      PROVE  ProcessInv'
  BY <1>6 DEF Forks, TypeOK, BudgetIsKept, Accounted, CollectedIsKept, EndIsKnown, Streams, Collected, Waited, Gone
<1>7. ASSUME NEW d \in Members \cup Escaped, DescendantExits(d)
      PROVE  ProcessInv'
  BY <1>7 DEF DescendantExits, TypeOK, BudgetIsKept, Accounted, CollectedIsKept, EndIsKnown, Streams, Collected, Waited, Gone
<1> QED BY <1>1, <1>2, <1>3, <1>4, <1>5, <1>6, <1>7

(* The readers.                                                            *)
LEMMA ReaderInvariant ==
  ASSUME ProcessInv, NEW s \in Streams, Read(s) \/ Charge(s)
  PROVE  ProcessInv'
<1> USE DEF ProcessInv, childVars, pipeVars, readerVars, mainVars
<1>1. CASE Read(s)
  <2>1. Least(pipe[s], Chunk) \in Nat /\ Least(pipe[s], Chunk) <= pipe[s]
    BY LeastIsLeast, BytesAssumption DEF TypeOK
  <2>2. TypeOK'
    <3>1. CASE pipe[s] > 0 /\ UNCHANGED reader
      <4>1. PICK n \in 1 .. Least(pipe[s], Chunk) : /\ chunk' = [chunk EXCEPT ![s] = n]
                                                   /\ pipe' = [pipe EXCEPT ![s] = @ - n]
        BY <1>1, <3>1 DEF Read, TypeOK
      <4>2. n \in Nat /\ pipe[s] - n \in Nat
        BY <2>1 DEF TypeOK
      <4> QED BY <1>1, <3>1, <4>1, <4>2 DEF Read, TypeOK
    <3>2. CASE UNCHANGED <<chunk, pipe>>
      BY <1>1, <3>2 DEF Read, TypeOK
    <3> QED BY <1>1, <3>1, <3>2 DEF Read
  <2>3. BudgetIsKept'
    BY <1>1 DEF Read, BudgetIsKept
  <2>4. Accounted'
    BY <1>1, <2>1 DEF Read, TypeOK, Accounted, Holders, Gone
  <2>5. CollectedIsKept'
    BY <1>1 DEF Read, CollectedIsKept, Collected, TypeOK
  <2>6. EndIsKnown'
    BY <1>1 DEF Read, EndIsKnown, Gone
  <2> QED BY <2>2, <2>3, <2>4, <2>5, <2>6
<1>2. CASE Charge(s)
  <2> DEFINE keep == Least(Limit - consumed, chunk[s])
  <2>1. /\ keep \in Nat /\ keep <= chunk[s] /\ keep <= Limit - consumed
        /\ Least(consumed + chunk[s], Limit) = consumed + keep
    <3>1. Limit - consumed \in Nat /\ chunk[s] \in Nat /\ consumed \in Nat /\ Limit \in Nat
      BY BytesAssumption DEF TypeOK
    <3> QED BY <3>1 DEF Least
  <2>2. /\ consumed' = consumed + keep
        /\ kept' = [kept EXCEPT ![s] = @ + keep]
        /\ cut' = [cut EXCEPT ![s] = @ \/ keep < chunk[s]]
        /\ chunk' = [chunk EXCEPT ![s] = 0]
        /\ reader[s] = "reading"
        /\ UNCHANGED <<child, code, alive, deadline, written, pipe, reader, input, main, status, output>>
    BY <1>2, <2>1 DEF Charge
  <2> HIDE DEF keep
  <2>3. TypeOK'
    BY <2>1, <2>2, BytesAssumption DEF TypeOK
  <2>4. BudgetIsKept'
    BY <2>1, <2>2 DEF BudgetIsKept, TypeOK, Streams
  <2>5. Accounted'
    <3> SUFFICES ASSUME NEW r \in Streams
                 PROVE  /\ ~cut'[r] => written[r] = pipe[r] + chunk'[r] + kept'[r]
                        /\ reader[r] = "done" => /\ pipe[r] = 0 /\ chunk'[r] = 0
                                                 /\ Gone /\ alive = {}
      BY <2>2 DEF Accounted, Gone
    <3>1. CASE r # s
      BY <2>2, <3>1 DEF Accounted, TypeOK
    <3>2. CASE r = s
      <4>1. ~cut'[r] => ~cut[s] /\ ~(keep < chunk[s])
        BY <2>2, <3>2 DEF TypeOK
      <4>2. chunk'[r] = 0 /\ kept'[r] = kept[s] + keep
        BY <2>2, <3>2 DEF TypeOK
      <4>3. reader[r] # "done"
        BY <2>2, <3>2
      <4>4. ~cut'[r] => written[r] = pipe[r] + chunk[r] + kept[r]
        BY <3>2, <4>1 DEF Accounted
      <4>5. pipe[s] \in Nat /\ chunk[s] \in Nat /\ kept[s] \in Nat
        BY DEF TypeOK
      <4> HIDE DEF ProcessInv
      <4>6. ~(keep < chunk[s]) => keep = chunk[s]
        BY <2>1, <4>5
      <4> QED BY <2>1, <3>2, <4>1, <4>2, <4>3, <4>4, <4>5, <4>6
    <3> QED BY <3>1, <3>2
  <2>6. CollectedIsKept'
    BY <2>2 DEF CollectedIsKept, Collected, TypeOK
  <2>7. EndIsKnown'
    BY <2>2 DEF EndIsKnown, Gone
  <2> QED BY <2>3, <2>4, <2>5, <2>6, <2>7
<1> QED BY <1>1, <1>2

(* The call.                                                               *)
LEMMA CallInvariant ==
  ASSUME ProcessInv, Call
  PROVE  ProcessInv'
<1> USE DEF ProcessInv, childVars, pipeVars, readerVars, mainVars
<1>1. CASE ChildWaited
  BY <1>1 DEF ChildWaited, KillGroup, TypeOK, BudgetIsKept, Accounted, CollectedIsKept, EndIsKnown, Streams, Collected, Waited, Gone
<1>2. CASE WaitFails
  BY <1>2 DEF WaitFails, TypeOK, BudgetIsKept, Accounted, CollectedIsKept, EndIsKnown, Streams, Collected, Waited, Gone
<1>3. CASE TimesOut
  BY <1>3 DEF TimesOut, KillGroup, TypeOK, BudgetIsKept, Accounted, CollectedIsKept, EndIsKnown, Streams, Collected, Waited, Gone
<1>4. CASE Reap
  BY <1>4 DEF Reap, TypeOK, BudgetIsKept, Accounted, CollectedIsKept, EndIsKnown, Streams, Collected, Waited, Gone
<1>5. CASE Finish
  BY <1>5 DEF Finish, TypeOK, BudgetIsKept, Accounted, CollectedIsKept, EndIsKnown, Streams, Collected, Waited, Gone
<1>6. ASSUME NEW s \in Streams, Collect(s)
      PROVE  ProcessInv'
  <2>1. TypeOK'
    <3> DEFINE Outputs == [kept : Nat, cut : BOOLEAN]
    <3>0. \A o \in Outputs : [output EXCEPT ![s] = o] \in [Streams -> Outputs]
      <4>1. output \in [Streams -> Outputs]
        BY DEF TypeOK
      <4> HIDE DEF Outputs
      <4> QED BY <4>1
    <3>1. [kept |-> kept[s], cut |-> cut[s]] \in Outputs /\ [kept |-> 0, cut |-> TRUE] \in Outputs
      <4>1. kept[s] \in Nat /\ 0 \in Nat
        BY DEF TypeOK
      <4>2. cut[s] \in BOOLEAN
        BY Zenon DEF TypeOK
      <4> QED BY <4>1, <4>2, Zenon
    <3>2. output' \in [Streams -> Outputs]
      <4> HIDE DEF Outputs
      <4>1. \E o \in Outputs : output' = [output EXCEPT ![s] = o]
        BY <1>6, <3>1, Zenon DEF Collect
      <4> QED BY <3>0, <4>1
    <3> QED BY <1>6, <3>2 DEF Collect, After, TypeOK, Streams
  <2>2. BudgetIsKept' /\ EndIsKnown'
    BY <1>6 DEF Collect, After, BudgetIsKept, EndIsKnown, Waited, Gone, Streams
  <2>3. Accounted'
    BY <1>6 DEF Collect, Accounted, Gone, TypeOK
  <2>4. CollectedIsKept'
    BY <1>6 DEF Collect, After, CollectedIsKept, Collected, TypeOK, Streams
  <2> QED BY <2>1, <2>2, <2>3, <2>4
<1>7. CASE KillWaited
  BY <1>7 DEF KillWaited, TypeOK, BudgetIsKept, Accounted, CollectedIsKept, EndIsKnown, Streams, Collected, Waited, Gone
<1>8. ASSUME NEW s \in Streams, CollectFails(s)
      PROVE  ProcessInv'
  <2>1. TypeOK'
    BY <1>8 DEF CollectFails, TypeOK
  <2>2. BudgetIsKept' /\ EndIsKnown'
    BY <1>8 DEF CollectFails, BudgetIsKept, EndIsKnown, Waited, Gone, Streams
  <2>3. Accounted'
    BY <1>8 DEF CollectFails, Accounted, Gone, TypeOK
  <2>4. CollectedIsKept'
    BY <1>8 DEF CollectFails, CollectedIsKept, Collected
  <2> QED BY <2>1, <2>2, <2>3, <2>4
<1> QED BY <1>1, <1>2, <1>3, <1>4, <1>5, <1>6, <1>7, <1>8 DEF Call

(* Whatever the child, its descendants and the timers do, the budget is    *)
(* the sum of what both readers kept, a reader's end of file finds nobody  *)
(* left, and a call past its wait has seen the child go.                   *)
THEOREM ProcessInvariant == Spec => []ProcessInv
<1>1. ProcessInv /\ [Next]_vars => ProcessInv'
  <2> SUFFICES ASSUME ProcessInv, [Next]_vars PROVE ProcessInv'
    OBVIOUS
  <2>1. CASE UNCHANGED vars
    BY <2>1 DEF vars, childVars, pipeVars, readerVars, mainVars, ProcessInv, TypeOK, BudgetIsKept,
                Accounted, CollectedIsKept, EndIsKnown, Gone
  <2>2. CASE Next
    BY <2>2, WorldInvariant, ReaderInvariant, CallInvariant DEF Next
  <2> QED BY <2>1, <2>2
<1> QED BY InitInvariant, <1>1, PTL DEF Spec

(* The variables of Process keep their types.                              *)
THEOREM ProcessTypes == Spec => []TypeOK
BY ProcessInvariant, PTL DEF ProcessInv

(* Both streams together never keep more bytes than the limit.             *)
THEOREM ProcessRetains == Spec => []RetainedWithinLimit
<1>1. ProcessInv => RetainedWithinLimit
  BY DEF ProcessInv, TypeOK, BudgetIsKept, RetainedWithinLimit
<1> QED BY <1>1, ProcessInvariant, PTL

(* Output that is not marked as truncated is complete.                     *)
THEOREM ProcessLosesNothing == Spec => []NothingLostSilently
<1>1. ProcessInv => NothingLostSilently
  BY DEF ProcessInv, TypeOK, Accounted, CollectedIsKept, Collected, NothingLostSilently, Streams
<1> QED BY <1>1, ProcessInvariant, PTL

(* A call that answers left nobody of the child's group behind.            *)
THEOREM ProcessKills == Spec => []NoMemberSurvives
<1>1. ProcessInv => NoMemberSurvives
  BY DEF ProcessInv, EndIsKnown, Waited, Gone, NoMemberSurvives
<1> QED BY <1>1, ProcessInvariant, PTL

(* A success is the child's own, in time, its input delivered.             *)
THEOREM ProcessSuccess == Spec => []SuccessIsTheChilds
<1>1. ProcessInv => SuccessIsTheChilds
  BY DEF ProcessInv, EndIsKnown, Waited, Gone, SuccessIsTheChilds
<1> QED BY <1>1, ProcessInvariant, PTL

=============================================================================
