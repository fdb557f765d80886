----------------------------- MODULE AtomicFile -----------------------------
(***************************************************************************)
(* core::fs::atomic_write step by step, on one path: a temporary file in   *)
(* the destination's directory is written, flushed and installed under the *)
(* destination's name, and then the directory is flushed.  Group files,    *)
(* result.json and suite.json are all written this way.  A writer is one   *)
(* call; what it writes is called by its own name.                         *)
(*                                                                         *)
(* The file system is external.  It keeps what it was told to flush: after *)
(* a power loss a file that was not flushed may hold part of its content,  *)
(* and the directory is as it was at its last flush or at a later install. *)
(***************************************************************************)
EXTENDS Sequences, Naturals

CONSTANTS
  Writers,      \* the calls of atomic_write on this path
  Creators,     \* those that create the file; the others may replace it
  None,         \* no such file
  FreshParent   \* whether the directory itself was just made, by
                \* create_private_directory, which flushes nothing

ASSUME WritersAssumption == Creators \subseteq Writers /\ None \notin Writers
ASSUME ParentAssumption == FreshParent \in BOOLEAN

VARIABLES
  entry,     \* the writer whose file the path names, or None
  temps,     \* the writers whose temporary file is in the directory
  content,   \* content[w]: how much of its bytes w's file holds
  flushed,   \* the writers whose file has been flushed
  log,       \* the installs, in order
  synced,    \* how many of them the last directory flush covered
  wpc,       \* wpc[w]: where the call is
  down       \* whether the power went off

files == <<entry, temps, content, flushed, log, synced>>
vars  == <<files, wpc, down>>

Contents == {"none", "part", "whole"}
Busy     == {"inspect", "create", "write", "flush", "install", "flushdir"}

-----------------------------------------------------------------------------
Init ==
  /\ entry = None
  /\ temps = {}
  /\ content = [w \in Writers |-> "none"]
  /\ flushed = {}
  /\ log = <<>>
  /\ synced = 0
  /\ wpc = [w \in Writers |-> "inspect"]
  /\ down = FALSE

At(w, label) == ~down /\ wpc[w] = label

Goto(w, label) == wpc' = [wpc EXCEPT ![w] = label]

(* An error return before the install: NamedTempFile removes its file.     *)
Refuse(w) ==
  /\ Goto(w, "refused")
  /\ temps' = temps \ {w}

(* symlink_metadata of the destination.  A creator refuses one that is     *)
(* there; that a replacement refuses links and directories is one of the   *)
(* errors any of these steps may meet.                                     *)
Inspect(w) ==
  /\ At(w, "inspect")
  /\ \/ ~(w \in Creators /\ entry # None) /\ Goto(w, "create")
     \/ Goto(w, "refused")
  /\ UNCHANGED <<files, down>>

Create(w) ==
  /\ At(w, "create")
  /\ \/ Goto(w, "write") /\ temps' = temps \cup {w}
     \/ Refuse(w)
  /\ UNCHANGED <<entry, content, flushed, log, synced, down>>

Write(w) ==
  /\ At(w, "write")
  /\ \/ Goto(w, "flush") /\ content' = [content EXCEPT ![w] = "whole"] /\ UNCHANGED temps
     \/ Refuse(w) /\ content' = [content EXCEPT ![w] = "part"]
  /\ UNCHANGED <<entry, flushed, log, synced, down>>

(* Mutation: the file is not flushed before it is installed.               *)
MutFlush(w) ==
  /\ At(w, "flush")
  /\ Goto(w, "install")
  /\ UNCHANGED <<files, down>>

Flush(w) ==
  /\ At(w, "flush")
  /\ \/ Goto(w, "install") /\ flushed' = flushed \cup {w} /\ UNCHANGED temps
     \/ Refuse(w) /\ UNCHANGED flushed
  /\ UNCHANGED <<entry, content, log, synced, down>>

(* Mutation: a creator relies on what it saw before it wrote.              *)
MutInstall(w) ==
  /\ At(w, "install")
  /\ \/ /\ Goto(w, "flushdir")
        /\ entry' = w
        /\ log' = Append(log, w)
        /\ temps' = temps \ {w}
     \/ Refuse(w) /\ UNCHANGED <<entry, log>>
  /\ UNCHANGED <<content, flushed, synced, down>>

(* persist_noclobber or persist: one step of the file system.              *)
Install(w) ==
  /\ At(w, "install")
  /\ \/ /\ ~(w \in Creators /\ entry # None)
        /\ Goto(w, "flushdir")
        /\ entry' = w
        /\ log' = Append(log, w)
        /\ temps' = temps \ {w}
     \/ Refuse(w) /\ UNCHANGED <<entry, log>>
  /\ UNCHANGED <<content, flushed, synced, down>>

(* Mutation: an error of the directory flush is not reported.              *)
MutFlushDir(w) ==
  /\ At(w, "flushdir")
  /\ Goto(w, "ok")
  /\ synced' \in {synced, Len(log)}
  /\ UNCHANGED <<entry, temps, content, flushed, log, down>>

(* Mutation: it is reported as if nothing had been installed.              *)
MutFlushDirRefused(w) ==
  /\ At(w, "flushdir")
  /\ \/ Goto(w, "ok") /\ synced' = Len(log)
     \/ Goto(w, "refused") /\ UNCHANGED synced
  /\ UNCHANGED <<entry, temps, content, flushed, log, down>>

(* sync_parent: its failure is an error although the file is in place.     *)
FlushDir(w) ==
  /\ At(w, "flushdir")
  /\ \/ Goto(w, "ok") /\ synced' = Len(log)
     \/ Goto(w, "failed") /\ UNCHANGED synced
  /\ UNCHANGED <<entry, temps, content, flushed, log, down>>

(* The process is killed: a temporary file may stay behind.                *)
Kill(w) ==
  /\ ~down
  /\ wpc[w] \in Busy
  /\ Goto(w, "dead")
  /\ UNCHANGED <<files, down>>

(* The power goes off.                                                     *)
PowerLoss ==
  /\ ~down
  /\ down' = TRUE
  /\ \/ \E j \in synced .. Len(log) : entry' = IF j = 0 THEN None ELSE log[j]
     \/ FreshParent /\ entry' = None
  /\ \E lost \in SUBSET (Writers \ flushed) :
       content' = [w \in Writers |->
                     IF w \in lost /\ content[w] = "whole" THEN "part" ELSE content[w]]
  /\ UNCHANGED <<temps, flushed, log, synced, wpc>>

Next ==
  \/ \E w \in Writers :
       Inspect(w) \/ Create(w) \/ Write(w) \/ Flush(w) \/ Install(w) \/ FlushDir(w) \/ Kill(w)
  \/ PowerLoss

Spec == Init /\ [][Next]_vars

-----------------------------------------------------------------------------
(* The values the variables take; a temporary file stays only while its    *)
(* call is at work, or when the call was killed.                           *)
TypeOK ==
  /\ entry \in Writers \cup {None}
  /\ temps \subseteq {w \in Writers : wpc[w] \in {"write", "flush", "install", "dead"}}
  /\ content \in [Writers -> Contents]
  /\ flushed \subseteq Writers
  /\ log \in Seq(Writers)
  /\ synced \in 0 .. Len(log)
  /\ wpc \in [Writers -> Busy \cup {"refused", "failed", "ok", "dead"}]
  /\ down \in BOOLEAN

(* Whoever reads the path, at any moment and also after a power loss,      *)
(* finds the whole of what one call wrote, never a part of it.             *)
NeverTorn == entry # None => content[entry] = "whole"

(* A call that answered Ok is durable: the path names its file or that of  *)
(* a later call, also after a power loss.  Progress is printed "only after *)
(* durable checkpoint writes" (CHANGELOG).  It holds where the directory   *)
(* was durable before (~FreshParent): nothing flushes the parent of a      *)
(* directory that the program has just made, as that of a new run is.      *)
AcknowledgedStays ==
  \A i \in 1 .. Len(log) : wpc[log[i]] = "ok" => \E j \in i .. Len(log) : entry = log[j]

(* What a creator put in place was put in place first: result.json and a   *)
(* new group or checkpoint never take the place of existing evidence, even *)
(* when two calls find the path free at the same time.                     *)
CreatorsNeverReplace == \A i \in 1 .. Len(log) : log[i] \in Creators => i = 1

(* The answer says whether the file is in place: these are the outcomes    *)
(* "ok", "before" and "after" of Environment.tla, "refused" and "failed"   *)
(* here, and each call installs its file at most once.                     *)
AnswersAreOutcomes ==
  /\ \A w \in Writers :
       /\ wpc[w] \in {"ok", "failed"} => \E i \in 1 .. Len(log) : log[i] = w
       /\ wpc[w] = "refused" => \A i \in 1 .. Len(log) : log[i] # w
  /\ \A i, j \in 1 .. Len(log) : log[i] = log[j] => i = j
=============================================================================
