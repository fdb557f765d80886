----------------------------- MODULE GitOutput -----------------------------
(***************************************************************************)
(* What patcharena-git makes of the output of the Git program: the totals  *)
(* of git diff --numstat -z, the paths of git diff --name-only -z and the  *)
(* object a revision names.                                                *)
(*                                                                         *)
(* The output is a sequence of fields, the text between two NUL bytes; a   *)
(* field of numstat is in turn the sequence of its columns, the text       *)
(* between two tabs, of which there are at most three.  Digits are read as *)
(* the number they spell.                                                  *)
(***************************************************************************)
EXTENDS Naturals, Sequences, SequencesExt

CONSTANTS
  MaxLines,   \* the largest count a u64 holds, made small
  Numeral,    \* the texts that are digits only
  ValueOf     \* the number each of them spells

ASSUME NumeralsSpellNumbers ==
  MaxLines \in Nat /\ ValueOf \in [Numeral -> Nat] /\ "-" \notin Numeral

Failed == [ok |-> FALSE, files |-> 0, added |-> 0, deleted |-> 0, binary |-> 0]
NoDiff == [Failed EXCEPT !.ok = TRUE]

EmptyText  == ""
EmptyField == <<EmptyText>>

ParseAsciiU64(text) == text \in Numeral /\ ValueOf[text] <= MaxLines

(* The effect of one record's counts on the totals.                        *)
MutTally(stats, added, deleted) ==
  IF added = "-" THEN [stats EXCEPT !.files = @ + 1, !.binary = @ + 1]
  ELSE IF ~ParseAsciiU64(added) \/ ~ParseAsciiU64(deleted) THEN Failed
  ELSE [stats EXCEPT !.files = @ + 1, !.added = @ + ValueOf[added],
                     !.deleted = @ + ValueOf[deleted]]

Tally(stats, added, deleted) ==
  IF "-" \in {added, deleted}
  THEN IF added = deleted
       THEN [stats EXCEPT !.files = @ + 1, !.binary = @ + 1]
       ELSE Failed
  ELSE IF /\ ParseAsciiU64(added) /\ ParseAsciiU64(deleted)
          /\ stats.added + ValueOf[added] <= MaxLines
          /\ stats.deleted + ValueOf[deleted] <= MaxLines
       THEN [stats EXCEPT !.files = @ + 1, !.added = @ + ValueOf[added],
                          !.deleted = @ + ValueOf[deleted]]
       ELSE Failed

(* A record whose path column is empty is a rename: the old and the new    *)
(* path are the two fields that are then due.  An empty field ends the     *)
(* output.                                                                 *)
Unread == [stats |-> NoDiff, due |-> 0, ended |-> FALSE]

ReadField(state, field) ==
  IF \/ field = EmptyField /\ state.due > 0
     \/ field # EmptyField /\ (state.ended \/ (state.due = 0 /\ Len(field) # 3))
  THEN [state EXCEPT !.stats = Failed]
  ELSE IF ~state.stats.ok THEN state
  ELSE IF field = EmptyField THEN [state EXCEPT !.ended = TRUE]
  ELSE IF state.due > 0 THEN [state EXCEPT !.due = @ - 1]
  ELSE [state EXCEPT !.stats = Tally(@, field[1], field[2]),
                     !.due   = IF field[3] = EmptyText THEN 2 ELSE 0]

ParseNumstatZ(fields) ==
  LET read == FoldLeft(ReadField, Unread, fields)
  IN  IF read.due = 0 THEN read.stats ELSE Failed

(* What Git prints for a sequence of entries: a NUL ends every field.  The *)
(* path of an entry is a text, that of a rename two fields.                *)
PrintEntry(entry) ==
  IF Len(entry.path) = 1 THEN << <<entry.added, entry.deleted, entry.path[1]>> >>
  ELSE << <<entry.added, entry.deleted, EmptyText>>, entry.path[1], entry.path[2]>>

Listing(entries) == FoldLeft(LAMBDA out, entry : out \o PrintEntry(entry), <<>>, entries)

PrintNumstat(entries) == Append(Listing(entries), EmptyField)

-----------------------------------------------------------------------------
(* A revision is a sequence of characters: its leading dash would make it  *)
(* an option.  Git answers with an object ID and line endings, or fails.   *)
TrimLineEnding(text) ==
  LET kept == {i \in DOMAIN text : text[i] \notin {"\n", "\r"}}
  IN  SubSeq(text, 1, Max(kept \cup {0}))

CONSTANTS OidLengths, HexDigits   \* {40, 64} and the hexadecimal digits

ResolveCommit(revision, gitSucceeds, output) ==
  LET oid == TrimLineEnding(output) IN
  IF revision = <<>> \/ revision[1] = "-" \/ ~gitSucceeds THEN "InvalidRevision"
  ELSE IF Len(oid) \in OidLengths /\ \A i \in DOMAIN oid : oid[i] \in HexDigits
       THEN "ok" ELSE "Parse"

=============================================================================
