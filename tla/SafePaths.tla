----------------------------- MODULE SafePaths -----------------------------
(***************************************************************************)
(* The functions that decide whether a path may be used: in core (path.rs),*)
(* in git (artifacts, worktree destinations), in the runner (private       *)
(* directories, changed links, inventories of forbidden paths) and in the  *)
(* command line (project directories).                                     *)
(*                                                                         *)
(* A path is its text split at the slashes, so <<"">> is the empty text and*)
(* <<"", "a">> the text "/a".  A file system is a function from absolute   *)
(* locations (sequences of names, <<>> the root) to nodes.                 *)
(***************************************************************************)
EXTENDS Naturals, Sequences, SequencesExt, FiniteSets

Directory  == [kind |-> "dir", target |-> <<>>, bytes |-> <<>>]
File(b)    == [kind |-> "file", target |-> <<>>, bytes |-> b]
Link(t)    == [kind |-> "link", target |-> t, bytes |-> <<>>]

Inode == [kind : {"dir", "file", "link"}, target : Seq(STRING), bytes : Seq({0, 1})]

(* A tree: what lies in a directory lies in one that exists, a name is no  *)
(* part with a meaning of its own, and a link leads somewhere; its text is *)
(* never longer than the system allows.                                    *)
Name == STRING \ {"", ".", "..", "/"}

FileTree(fs) ==
  /\ DOMAIN fs \subseteq Seq(Name)
  /\ fs \in [DOMAIN fs -> Inode]
  /\ <<>> \in DOMAIN fs /\ fs[<<>>].kind = "dir"
  /\ \A l \in DOMAIN fs \ {<<>>} : Front(l) \in DOMAIN fs /\ fs[Front(l)].kind = "dir"
  /\ \A l \in DOMAIN fs : fs[l].kind = "link" => fs[l].target # <<>>
  /\ \E l \in DOMAIN fs : \A k \in DOMAIN fs : Len(fs[k].target) <= Len(fs[l].target)

(* The text of a path: what stands between its slashes.                    *)
PathText == Seq(STRING \ {"/"}) \ {<<>>}

Found(at)  == [err |-> "", at |-> at, kind |-> ""]
Refuse(e)  == [err |-> e, at |-> <<>>, kind |-> ""]

Inside(root, at) == IsPrefix(root, at)

-----------------------------------------------------------------------------
(* The operating system.                                                   *)

MaxLinks == 6  \* a bound: links followed in one resolution (Linux: 40)

Here(at, todo, links) == [at |-> at, todo |-> todo, links |-> links]

(* A resolution stands at a location and has parts of a path before it.    *)
Walk(fs, at, todo, links) ==
  LET walk[s \in [at : DOMAIN fs, todo : Seq(STRING), links : Nat]] ==
        LET part == Head(s.todo)
            rest == Tail(s.todo)
            next == Append(s.at, part)
        IN  IF s.todo = <<>> THEN Found(s.at)
            ELSE IF fs[s.at].kind # "dir" THEN Refuse("ENOTDIR")
            ELSE IF part \in {"", "."} THEN walk[Here(s.at, rest, s.links)]
            ELSE IF part = ".."
              THEN walk[Here(IF s.at = <<>> THEN s.at ELSE Front(s.at), rest, s.links)]
            ELSE IF next \notin DOMAIN fs THEN Refuse("ENOENT")
            ELSE IF fs[next].kind # "link" THEN walk[Here(next, rest, s.links)]
            ELSE IF s.links = 0 THEN Refuse("ELOOP")
            ELSE walk[Here(IF fs[next].target[1] = "" THEN <<>> ELSE s.at,
                           fs[next].target \o rest, s.links - 1)]
  IN  walk[Here(at, todo, links)]

Canonicalize(fs, path) == Walk(fs, <<>>, path, MaxLinks)

(* lstat: links are followed on the way, not at the end.                   *)
EntryOf(fs, parent, name) ==
  LET entry == Append(parent.at, name)
  IN  IF parent.err # "" THEN parent
      ELSE IF fs[parent.at].kind # "dir" THEN Refuse("ENOTDIR")
      ELSE IF entry \notin DOMAIN fs THEN Refuse("ENOENT")
      ELSE [Found(entry) EXCEPT !.kind = fs[entry].kind]

SymlinkMetadata(fs, path) ==
  IF path = <<>> THEN [Found(path) EXCEPT !.kind = "dir"]
  ELSE EntryOf(fs, Canonicalize(fs, Front(path)), Last(path))

-----------------------------------------------------------------------------
(* std::path: components drop empty parts and every "." but a leading one. *)

Absolute(path) == Len(path) > 1 /\ path[1] = ""

(* The parts of a path that are not among those dropped, in their order.   *)
Without(path, dropped) ==
  LET Keep(kept, part) == IF part \in dropped THEN kept ELSE Append(kept, part)
  IN  FoldLeft(Keep, <<>>, path)

Components(path) ==
  (IF Absolute(path) THEN <<"/">> ELSE IF IsPrefix(<<".">>, path) THEN <<".">> ELSE <<>>)
  \o Without(path, {"", "."})

Special == {"/", ".", ".."}

Normals(path) == Without(path, {"", ".", ".."})

-----------------------------------------------------------------------------
(* Names that another platform would read as something else.               *)
CONSTANT Odd   \* the names that hold a colon or a backslash, or no UTF-8

MutEnsureSafeRelativePath(path) ==
  /\ path # <<"">>
  /\ \A i \in DOMAIN path : path[i] \notin Odd \cup {"", "."}

EnsureSafeRelativePath(path) ==
  /\ path # <<"">>
  /\ \A i \in DOMAIN path : path[i] \notin Odd \cup {"", ".", ".."}
  /\ \A i \in DOMAIN Components(path) : Components(path)[i] \notin Special

ValidateRelativePath(path) ==
  LET components == Components(path) IN
  /\ \A i \in DOMAIN components : components[i] \notin {"..", "/"}
  /\ \E i \in DOMAIN components : components[i] # "."

-----------------------------------------------------------------------------
SafeJoinNoSymlinkEscape(fs, base, path) ==
  LET root == Canonicalize(fs, base)
      Enter(reached, part) ==
        LET candidate == Append(reached.at, part)
            seen      == SymlinkMetadata(fs, candidate)
            resolved  == Canonicalize(fs, candidate)
        IN  IF reached.err # "" THEN reached
            ELSE IF seen.err = "ENOENT" THEN Found(candidate)
            ELSE IF seen.err # "" THEN seen
            ELSE IF resolved.err # "" THEN resolved
            ELSE IF Inside(root.at, resolved.at) THEN resolved
            ELSE Refuse("escape")
  IN  IF ~EnsureSafeRelativePath(path) THEN Refuse("unsafe")
      ELSE FoldLeft(Enter, root, Components(path))

(* Once a component is missing every later one is, and nothing is looked at*)
SafeArtifactPath(fs, base, path) ==
  LET root      == Canonicalize(fs, base)
      names     == Normals(path)
      Upto(i)   == root.at \o SubSeq(names, 1, i)
      Plain(i)  ==
        LET seen == SymlinkMetadata(fs, Upto(i)) IN
        \/ seen.err = "ENOENT"
        \/ /\ seen.err = "" /\ seen.kind # "link"
           /\ i < Len(names) => seen.kind = "dir"
           /\ Canonicalize(fs, Upto(i)).err = ""
           /\ Inside(root.at, Canonicalize(fs, Upto(i)).at)
  IN  IF /\ ValidateRelativePath(path)
         /\ SymlinkMetadata(fs, base).kind = "dir"
         /\ \A i \in DOMAIN names : Plain(i)
      THEN Found(root.at \o names)
      ELSE Refuse("unsafe")

ValidateWorktreeDestination(fs, path) ==
  /\ Absolute(path)
  /\ \A i \in DOMAIN path : path[i] # ".."
  /\ SymlinkMetadata(fs, Normals(path)).err = "ENOENT"
  /\ LET parent == Canonicalize(fs, Front(Normals(path)))
     IN  parent.err = "" /\ fs[parent.at].kind = "dir"

-----------------------------------------------------------------------------
(* Both walks create what is missing as they go, so that a refusal later on*)
(* leaves the directories made before it.  Seen from the root, a "." on the*)
(* way is no component at all.                                             *)
Below(path) == Without(path, {"", "."})

MakeDirectories(fs, root, path) ==
  LET Enter(state, part) ==
        LET next == Append(state.at, part)
            seen == SymlinkMetadata(state.fs, next)
        IN  IF state.err # "" THEN state
            ELSE IF part \in Special THEN [state EXCEPT !.err = "unsafe"]
            ELSE IF seen.err = "ENOENT"
              THEN [state EXCEPT !.at = next,
                      !.fs = [l \in DOMAIN @ \cup {next} |->
                                IF l = next THEN Directory ELSE @[l]]]
            ELSE IF seen.err # "" \/ seen.kind # "dir"
              THEN [state EXCEPT !.err = "unsafe"]
            ELSE [state EXCEPT !.at = next]
  IN  FoldLeft(Enter, [err |-> "", at |-> root, fs |-> fs], Below(path))

EnsurePrivateContainedDirectory(fs, base, path) ==
  LET root  == Canonicalize(fs, base).at
      made  == MakeDirectories(fs, root, path)
      final == Canonicalize(made.fs, base \o path)
  IN  IF made.err # "" THEN made
      ELSE IF final.err # "" \/ ~Inside(root, final.at)
        THEN [made EXCEPT !.err = "unsafe"]
      ELSE made

WalkContainedDirectory(fs, base, path) == MakeDirectories(fs, base, path)

-----------------------------------------------------------------------------
(* "yes", "no" or "error".  A link whose target is missing is judged by the*)
(* text of the target: it may not climb above the worktree on its way.     *)
ChangedSymlinkEscapes(fs, root, path) ==
  LET at       == root \o path
      seen     == SymlinkMetadata(fs, at)
      resolved == Canonicalize(fs, at)
      target   == Components(fs[seen.at].target)
      Climb(depth, part) ==
        IF depth < 0 THEN depth
        ELSE IF part = ".." THEN depth - 1
        ELSE IF part = "." THEN depth ELSE depth + 1
      depth == FoldLeft(Climb, Len(Normals(path)) - 1, target)
  IN  IF seen.err = "ENOENT" THEN "no"
      ELSE IF seen.err # "" THEN "error"
      ELSE IF seen.kind # "link" THEN "no"
      ELSE IF resolved.err = "" THEN IF Inside(root, resolved.at) THEN "no" ELSE "yes"
      ELSE IF resolved.err # "ENOENT" THEN "error"
      ELSE IF Absolute(fs[seen.at].target) \/ depth < 0 THEN "yes" ELSE "no"

-----------------------------------------------------------------------------
(* An inventory: what lies at a forbidden path, up to a number of entries  *)
(* and of bytes.  A hash stands for the bytes read: collisions of FNV-1a   *)
(* are left out.  The length of a directory, which the code keeps as well, *)
(* is left out too: it depends on the file system.                         *)

CONSTANTS MaxEntries, MaxBytes   \* INVENTORY_MAX_ENTRIES, INVENTORY_MAX_BYTES

ASSUME InventoryBounds == MaxEntries \in Nat \ {0} /\ MaxBytes \in Nat

Budget(entries, count, bytes, truncated) ==
  [entries |-> entries, count |-> count, bytes |-> bytes, truncated |-> truncated]

NoEntries == Budget({}, 0, 0, FALSE)

Entry(relative, kind, node, hash) ==
  [relative |-> relative, kind |-> kind, length |-> Len(node.bytes),
   hash |-> hash, target |-> node.target]

Missing == [bytes |-> <<>>, target |-> <<>>]

(* Reading stops when the budget is spent, even at the end of the file.    *)
HashFileBounded(bytes, budget) ==
  LET room == MaxBytes - budget.bytes IN
  IF Len(bytes) < room
  THEN [hash |-> bytes, spent |-> Len(bytes), truncated |-> FALSE]
  ELSE [hash |-> SubSeq(bytes, 1, room), spent |-> room, truncated |-> TRUE]

Add(budget, entry, spent, truncated) ==
  Budget(budget.entries \cup {entry}, budget.count + 1, budget.bytes + spent, truncated)

(* One call of collect_fingerprint up to its calls for the children, which *)
(* come first in what is left to do.                                       *)
Visit(fs, names, s) ==
  LET at       == Head(s.todo).at
      relative == Head(s.todo).relative
      node     == fs[at]
      read     == HashFileBounded(node.bytes, s.budget)
      entries  == Without(names, {n \in ToSet(names) : Append(at, n) \notin DOMAIN fs})
      children == [i \in DOMAIN entries |->
                     [at |-> Append(at, entries[i]), relative |-> Append(relative, entries[i])]]
      Kept(entry, spent, truncated, more) ==
        [todo |-> more \o Tail(s.todo), budget |-> Add(s.budget, entry, spent, truncated)]
  IN  IF s.todo = <<>> \/ s.budget.truncated THEN s
      ELSE IF s.budget.count >= MaxEntries
        THEN [s EXCEPT !.budget = Budget(@.entries, @.count, @.bytes, TRUE)]
      ELSE IF at \notin DOMAIN fs THEN Kept(Entry(relative, "missing", Missing, <<>>), 0, FALSE, <<>>)
      ELSE IF node.kind = "file"
        THEN Kept(Entry(relative, "file", node, read.hash), read.spent, read.truncated, <<>>)
      ELSE IF node.kind = "link" THEN Kept(Entry(relative, "link", node, <<>>), 0, FALSE, <<>>)
      ELSE Kept(Entry(relative, "dir", node, <<>>), 0, FALSE, children)

(* Every call keeps an entry or ends the inventory.                        *)
CollectFingerprint(fs, names, at, relative, budget) ==
  LET after[calls \in Nat] ==
        IF calls = 0 THEN [todo |-> <<[at |-> at, relative |-> relative]>>, budget |-> budget]
        ELSE Visit(fs, names, after[calls - 1])
  IN  after[MaxEntries + 1].budget

(* names is the order in which a directory's entries are visited.          *)
FingerprintForbiddenPath(fs, names, root, path) ==
  LET Upto(i) == root \o SubSeq(path, 1, i)
      stops   == {i \in 1 .. Len(path) - 1 :
                    Upto(i) \notin DOMAIN fs \/ fs[Upto(i)].kind # "dir"}
      first   == CHOOSE i \in stops : \A j \in stops : i <= j
      Above   == [kind |-> IF fs[Upto(first)].kind = "link" THEN "link" ELSE "other",
                  node |-> fs[Upto(first)]]
  IN  IF stops = {} THEN CollectFingerprint(fs, names, root \o path, <<>>, NoEntries)
      ELSE IF Upto(first) \notin DOMAIN fs
        THEN Add(NoEntries, Entry(path, "missing", Missing, <<>>), 0, FALSE)
      ELSE Add(NoEntries, Entry(SubSeq(path, 1, first), Above.kind, Above.node, <<>>), 0, FALSE)

=============================================================================
