-------------------------- MODULE AtomicFile_proofs --------------------------
(***************************************************************************)
(* Proofs about atomic_write, for any number of calls on one path of which *)
(* any may create and any may replace, wherever a call fails or is killed  *)
(* and whenever the power goes off.  The invariant ties a call's position  *)
(* to the log of installs (Logged, Once), its file to what was flushed     *)
(* (Kept), the path to the log (Named), and an answer of Ok to the last    *)
(* flush of the directory (Durable).                                       *)
(***************************************************************************)
EXTENDS AtomicFile, TLAPS

InLog(w) == \E i \in 1 .. Len(log) : log[i] = w

(* Whether a call has installed its file follows from where it is, but for *)
(* a killed one.                                                           *)
Logged ==
  \A w \in Writers :
    /\ wpc[w] \in {"inspect", "create", "write", "flush", "install", "refused"} => ~InLog(w)
    /\ wpc[w] \in {"flushdir", "failed", "ok"} => InLog(w)

Once == \A i, j \in 1 .. Len(log) : log[i] = log[j] => i = j

(* A file is whole when it is flushed, flushed when it is installed.       *)
Kept ==
  \A w \in Writers :
    /\ w \in flushed => content[w] = "whole"
    /\ wpc[w] \in {"inspect", "create", "write", "flush"} => w \notin flushed
    /\ wpc[w] = "flush" => content[w] = "whole" \/ down
    /\ wpc[w] = "install" \/ InLog(w) => w \in flushed

(* The path names the last file installed; after a power loss one that was *)
(* installed at the last flush of the directory or later.                  *)
Named ==
  /\ ~down => entry = IF log = <<>> THEN None ELSE log[Len(log)]
  /\ entry # None => InLog(entry)
  /\ ~FreshParent /\ synced > 0 => \E j \in synced .. Len(log) : entry = log[j]

Durable == \A i \in 1 .. Len(log) : wpc[log[i]] = "ok" => i <= synced

(* Its parts, each of which an action's lemma shows kept.                  *)
FileInv == TypeOK /\ Logged /\ Once /\ Kept /\ Named /\ Durable /\ CreatorsNeverReplace

-----------------------------------------------------------------------------
(* What an install does to the log.                                        *)
LEMMA Appended ==
  ASSUME NEW w \in Writers, log \in Seq(Writers), log' = Append(log, w)
  PROVE  /\ Len(log') = Len(log) + 1
         /\ \A i \in 1 .. Len(log) : log'[i] = log[i]
         /\ log'[Len(log) + 1] = w
         /\ \A v : InLog(v)' <=> InLog(v) \/ v = w
<1>1. /\ Len(log') = Len(log) + 1
      /\ \A i \in 1 .. Len(log) : log'[i] = log[i]
      /\ log'[Len(log) + 1] = w
  OBVIOUS
<1>2. Len(log) \in Nat OBVIOUS
<1>3. ASSUME NEW v PROVE InLog(v)' <=> InLog(v) \/ v = w
  BY <1>1, <1>2 DEF InLog
<1> QED BY <1>1, <1>3

(* An unused path, no temporary file and no answer.                        *)
LEMMA InitInvariant == Init => FileInv
<1> SUFFICES ASSUME Init PROVE FileInv OBVIOUS
<1>1. TypeOK
  <2>1. content \in [Writers -> Contents] BY DEF Init, Contents
  <2>2. wpc \in [Writers -> Busy \cup {"refused", "failed", "ok", "dead"}] BY DEF Init, Busy
  <2>3. log \in Seq(Writers) /\ synced \in 0 .. Len(log) BY DEF Init
  <2>4. down \in BOOLEAN BY Zenon DEF Init
  <2> QED BY <2>1, <2>2, <2>3, <2>4 DEF Init, TypeOK
<1>2. Logged /\ Once /\ Kept BY DEF Init, Logged, Once, Kept, InLog
<1>3. Named /\ Durable /\ CreatorsNeverReplace
  BY DEF Init, Named, Durable, CreatorsNeverReplace
<1> QED BY <1>1, <1>2, <1>3 DEF FileInv

(* Nothing but the position of the call changes.                           *)
LEMMA InspectStep == ASSUME FileInv, NEW w \in Writers, Inspect(w) PROVE FileInv'
<1>1. TypeOK' BY DEF FileInv, TypeOK, Contents, Busy, Inspect, At, Goto, files
<1>2. Logged' BY DEF FileInv, Logged, InLog, TypeOK, Inspect, At, Goto, files
<1>3. Once' BY DEF FileInv, Once, TypeOK, Inspect, At, Goto, files
<1>4. Kept' BY DEF FileInv, Kept, InLog, TypeOK, Inspect, At, Goto, files
<1>5. Named' BY DEF FileInv, Named, InLog, TypeOK, Inspect, At, Goto, files
<1>6. Durable' BY DEF FileInv, Durable, TypeOK, Inspect, At, Goto, files
<1>7. CreatorsNeverReplace'
  BY DEF FileInv, CreatorsNeverReplace, TypeOK, Inspect, At, Goto, files
<1> QED BY <1>1, <1>2, <1>3, <1>4, <1>5, <1>6, <1>7 DEF FileInv

(* A temporary file belongs to a call at work.                             *)
LEMMA CreateStep == ASSUME FileInv, NEW w \in Writers, Create(w) PROVE FileInv'
<1>1. TypeOK' BY DEF FileInv, TypeOK, Contents, Busy, Create, At, Goto, Refuse
<1>2. Logged' BY DEF FileInv, Logged, InLog, TypeOK, Create, At, Goto, Refuse
<1>3. Once' BY DEF FileInv, Once, TypeOK, Create, At, Goto, Refuse
<1>4. Kept' BY DEF FileInv, Kept, InLog, TypeOK, Create, At, Goto, Refuse
<1>5. Named' BY DEF FileInv, Named, InLog, TypeOK, Create, At, Goto, Refuse
<1>6. Durable' BY DEF FileInv, Durable, TypeOK, Create, At, Goto, Refuse
<1>7. CreatorsNeverReplace'
  BY DEF FileInv, CreatorsNeverReplace, TypeOK, Create, At, Goto, Refuse
<1> QED BY <1>1, <1>2, <1>3, <1>4, <1>5, <1>6, <1>7 DEF FileInv

(* Only a file that is not flushed is written.                             *)
LEMMA WriteStep == ASSUME FileInv, NEW w \in Writers, Write(w) PROVE FileInv'
<1>1. TypeOK' BY DEF FileInv, TypeOK, Contents, Busy, Write, At, Goto, Refuse
<1>2. Logged' BY DEF FileInv, Logged, InLog, TypeOK, Write, At, Goto, Refuse
<1>3. Once' BY DEF FileInv, Once, TypeOK, Write, At, Goto, Refuse
<1>4. Kept' BY DEF FileInv, Kept, InLog, TypeOK, Write, At, Goto, Refuse
<1>5. Named' BY DEF FileInv, Named, InLog, TypeOK, Write, At, Goto, Refuse
<1>6. Durable' BY DEF FileInv, Durable, TypeOK, Write, At, Goto, Refuse
<1>7. CreatorsNeverReplace'
  BY DEF FileInv, CreatorsNeverReplace, TypeOK, Write, At, Goto, Refuse
<1> QED BY <1>1, <1>2, <1>3, <1>4, <1>5, <1>6, <1>7 DEF FileInv

(* What is flushed was written whole.                                      *)
LEMMA FlushStep == ASSUME FileInv, NEW w \in Writers, Flush(w) PROVE FileInv'
<1>1. TypeOK' BY DEF FileInv, TypeOK, Contents, Busy, Flush, At, Goto, Refuse
<1>2. Logged' BY DEF FileInv, Logged, InLog, TypeOK, Flush, At, Goto, Refuse
<1>3. Once' BY DEF FileInv, Once, TypeOK, Flush, At, Goto, Refuse
<1>4. Kept' BY DEF FileInv, Kept, InLog, TypeOK, Flush, At, Goto, Refuse
<1>5. Named' BY DEF FileInv, Named, InLog, TypeOK, Flush, At, Goto, Refuse
<1>6. Durable' BY DEF FileInv, Durable, TypeOK, Flush, At, Goto, Refuse
<1>7. CreatorsNeverReplace'
  BY DEF FileInv, CreatorsNeverReplace, TypeOK, Flush, At, Goto, Refuse
<1> QED BY <1>1, <1>2, <1>3, <1>4, <1>5, <1>6, <1>7 DEF FileInv

(* The path and the end of the log change together, and only a file that   *)
(* is flushed and not yet installed gets there.                            *)
LEMMA InstallStep == ASSUME FileInv, NEW w \in Writers, Install(w) PROVE FileInv'
<1>1. TypeOK' BY DEF FileInv, TypeOK, Contents, Busy, Install, At, Goto, Refuse
<1>2. Logged'
  <2>1. CASE log' = Append(log, w) /\ Goto(w, "flushdir") /\ ~(w \in Creators /\ entry # None)
    BY <2>1, Appended DEF FileInv, Logged, TypeOK, Install, At, Goto
  <2>2. CASE Refuse(w) /\ UNCHANGED <<entry, log>>
    BY <2>2 DEF FileInv, Logged, InLog, TypeOK, Install, At, Goto, Refuse
  <2> QED BY <2>1, <2>2 DEF Install
<1>3. Once'
  <2>1. CASE log' = Append(log, w) /\ Goto(w, "flushdir") /\ ~(w \in Creators /\ entry # None)
    BY <2>1, Appended DEF FileInv, Once, TypeOK, Logged, InLog, Install, At, Goto
  <2>2. CASE Refuse(w) /\ UNCHANGED <<entry, log>>
    BY <2>2 DEF FileInv, Once, InLog, TypeOK, Install, At, Goto, Refuse
  <2> QED BY <2>1, <2>2 DEF Install
<1>4. Kept'
  <2>1. CASE log' = Append(log, w) /\ Goto(w, "flushdir") /\ ~(w \in Creators /\ entry # None)
    BY <2>1, Appended DEF FileInv, Kept, TypeOK, Install, At, Goto
  <2>2. CASE Refuse(w) /\ UNCHANGED <<entry, log>>
    BY <2>2 DEF FileInv, Kept, InLog, TypeOK, Install, At, Goto, Refuse
  <2> QED BY <2>1, <2>2 DEF Install
<1>5. Named' BY DEF FileInv, Named, InLog, TypeOK, Install, At, Goto, Refuse
<1>6. Durable' BY DEF FileInv, Durable, TypeOK, Install, At, Goto, Refuse
<1>7. CreatorsNeverReplace'
  <2>1. CASE log' = Append(log, w) /\ Goto(w, "flushdir") /\ ~(w \in Creators /\ entry # None)
    <3>1. ~down /\ log \in Seq(Writers) BY DEF FileInv, TypeOK, Install, At
    <3>2. ASSUME w \in Creators PROVE Len(log) = 0
      <4>1. entry = None BY <2>1, <3>2
      <4>2. log # <<>> => log[Len(log)] \in Writers BY <3>1
      <4> QED BY <3>1, <4>1, <4>2, WritersAssumption DEF FileInv, Named
    <3> QED BY <2>1, <3>1, <3>2, Appended DEF FileInv, CreatorsNeverReplace
  <2>2. CASE Refuse(w) /\ UNCHANGED <<entry, log>>
    BY <2>2 DEF FileInv, CreatorsNeverReplace, InLog, TypeOK, Install, At, Goto, Refuse
  <2> QED BY <2>1, <2>2 DEF Install
<1> QED BY <1>1, <1>2, <1>3, <1>4, <1>5, <1>6, <1>7 DEF FileInv

(* A flush of the directory covers every install there is.                 *)
LEMMA FlushDirStep == ASSUME FileInv, NEW w \in Writers, FlushDir(w) PROVE FileInv'
<1>1. TypeOK' BY DEF FileInv, TypeOK, Contents, Busy, FlushDir, At, Goto
<1>2. Logged' BY DEF FileInv, Logged, InLog, TypeOK, FlushDir, At, Goto
<1>3. Once' BY DEF FileInv, Once, TypeOK, FlushDir, At, Goto
<1>4. Kept' BY DEF FileInv, Kept, InLog, TypeOK, FlushDir, At, Goto
<1>5. Named' BY DEF FileInv, Named, InLog, TypeOK, FlushDir, At, Goto
<1>6. Durable' BY DEF FileInv, Durable, TypeOK, FlushDir, At, Goto
<1>7. CreatorsNeverReplace'
  BY DEF FileInv, CreatorsNeverReplace, TypeOK, FlushDir, At, Goto
<1> QED BY <1>1, <1>2, <1>3, <1>4, <1>5, <1>6, <1>7 DEF FileInv

(* A killed call leaves its file as it is.                                 *)
LEMMA KillStep == ASSUME FileInv, NEW w \in Writers, Kill(w) PROVE FileInv'
<1>1. TypeOK' BY DEF FileInv, TypeOK, Contents, Busy, Kill, Goto, files
<1>2. Logged' BY DEF FileInv, Logged, InLog, TypeOK, Kill, Goto, files, Busy
<1>3. Once' BY DEF FileInv, Once, TypeOK, Kill, Goto, files, Busy
<1>4. Kept' BY DEF FileInv, Kept, InLog, TypeOK, Kill, Goto, files, Busy
<1>5. Named' BY DEF FileInv, Named, InLog, TypeOK, Kill, Goto, files, Busy
<1>6. Durable' BY DEF FileInv, Durable, TypeOK, Kill, Goto, files, Busy
<1>7. CreatorsNeverReplace'
  BY DEF FileInv, CreatorsNeverReplace, TypeOK, Kill, Goto, files, Busy
<1> QED BY <1>1, <1>2, <1>3, <1>4, <1>5, <1>6, <1>7 DEF FileInv

(* The power loss keeps what was flushed, and an entry no older than the   *)
(* last flush of the directory.                                            *)
LEMMA PowerLossStep == ASSUME FileInv, PowerLoss PROVE FileInv'
<1>1. TypeOK' BY DEF FileInv, TypeOK, Contents, Busy, PowerLoss
<1>2. Logged' BY DEF FileInv, Logged, InLog, TypeOK, PowerLoss
<1>3. Once' BY DEF FileInv, Once, TypeOK, PowerLoss
<1>4. Kept' BY DEF FileInv, Kept, InLog, TypeOK, PowerLoss
<1>5. Named' BY DEF FileInv, Named, InLog, TypeOK, PowerLoss
<1>6. Durable' BY DEF FileInv, Durable, TypeOK, PowerLoss
<1>7. CreatorsNeverReplace'
  BY DEF FileInv, CreatorsNeverReplace, TypeOK, PowerLoss
<1> QED BY <1>1, <1>2, <1>3, <1>4, <1>5, <1>6, <1>7 DEF FileInv

-----------------------------------------------------------------------------
(* The invariant holds whatever the calls, the killer and the power do.    *)
THEOREM FileInvariant == Spec => []FileInv
<1>1. FileInv /\ [Next]_vars => FileInv'
  <2> SUFFICES ASSUME FileInv, [Next]_vars PROVE FileInv' OBVIOUS
  <2>1. ASSUME NEW w \in Writers,
               Inspect(w) \/ Create(w) \/ Write(w) \/ Flush(w) \/ Install(w) \/ FlushDir(w) \/ Kill(w)
        PROVE  FileInv'
    BY <2>1, InspectStep, CreateStep, WriteStep, FlushStep, InstallStep, FlushDirStep, KillStep
  <2>2. CASE PowerLoss BY <2>2, PowerLossStep
  <2>3. CASE UNCHANGED vars
    BY <2>3 DEF FileInv, TypeOK, Logged, Once, Kept, Named, Durable, CreatorsNeverReplace,
                InLog, vars, files
  <2> QED BY <2>1, <2>2, <2>3 DEF Next
<1> QED BY InitInvariant, <1>1, PTL DEF Spec

(* The variables keep their types, and a temporary file stays behind only  *)
(* when its call was killed.                                               *)
THEOREM FileTypes == Spec => []TypeOK
<1>1. FileInv => TypeOK BY DEF FileInv
<1> QED BY FileInvariant, <1>1, PTL

(* A reader of the path never finds a part of a file.                      *)
THEOREM FileWhole == Spec => []NeverTorn
<1>1. FileInv => NeverTorn BY DEF FileInv, NeverTorn, TypeOK, Named, Kept
<1> QED BY FileInvariant, <1>1, PTL

(* An answer of Ok is durable, in a directory that was there before.       *)
THEOREM FileStays == ASSUME ~FreshParent PROVE Spec => []AcknowledgedStays
<1>1. FileInv => AcknowledgedStays
  <2> SUFFICES ASSUME FileInv, NEW i \in 1 .. Len(log), wpc[log[i]] = "ok"
               PROVE  \E j \in i .. Len(log) : entry = log[j]
    BY DEF AcknowledgedStays
  <2>1. i <= synced /\ synced \in 0 .. Len(log) BY DEF FileInv, Durable, TypeOK
  <2>2. \E j \in synced .. Len(log) : entry = log[j] BY <2>1 DEF FileInv, Named
  <2> QED BY <2>1, <2>2
<1> QED BY FileInvariant, <1>1, PTL

(* Evidence that exists is never replaced by a call that creates its file. *)
THEOREM FileCreators == Spec => []CreatorsNeverReplace
<1>1. FileInv => CreatorsNeverReplace BY DEF FileInv
<1> QED BY FileInvariant, <1>1, PTL

(* The answers are the outcomes the other modules take a write to have.    *)
THEOREM FileAnswers == Spec => []AnswersAreOutcomes
<1>1. FileInv => AnswersAreOutcomes
  BY DEF FileInv, AnswersAreOutcomes, Logged, Once, InLog
<1> QED BY FileInvariant, <1>1, PTL
=============================================================================
