-------------------------- MODULE Algorithms_proofs -------------------------
(***************************************************************************)
(* Proofs about the other functions of Algorithms, for every input: what   *)
(* is parsed of the output of git diff --numstat -z, which command lines a *)
(* rule forbids, what adding a task or a suite leaves readable, what is    *)
(* kept of an error text, which results and commits are valid, and what is *)
(* counted of a group, a battle and a suite.                               *)
(***************************************************************************)
EXTENDS SafePaths_proofs

(* What a column of a record holds, a field, and an entry of a diff.      *)
Column == STRING \cup {EmptyText}

FieldText == Seq(Column)

DueText == FieldText \ {EmptyField}

DiffPath == {<<t>> : t \in Column \ {EmptyText}} \cup (DueText \X DueText)

DiffEntry ==
  {e \in [added : Column, deleted : Column, path : DiffPath] : Counted(e.added, e.deleted)}

PrintStep == [p \in Seq(FieldText) \X DiffEntry |-> p[1] \o PrintEntry(p[2])]

(* Totals as they are while a listing is read: failed or counted.         *)
Stats ==
  {s \in [ok : BOOLEAN, files : Nat, added : Nat, deleted : Nat, binary : Nat] : s.ok \/ s = Failed}

Reading == [stats : Stats, due : Nat, ended : BOOLEAN]

ReadStep == [p \in Reading \X FieldText |-> ReadField(p[1], p[2])]

AddStep == [p \in Nat \X Nat |-> p[1] + p[2]]

(* A tally of totals is a totals again.                                   *)
LEMMA TallyIsStats ==
  ASSUME NEW s \in Stats, s.ok, NEW added, NEW deleted
  PROVE  Tally(s, added, deleted) \in Stats
PROOF
<1> DEFINE R == [ok : BOOLEAN, files : Nat, added : Nat, deleted : Nat, binary : Nat]
<1>1. Failed \in Stats
  BY DEF Failed, Stats
<1>2. s \in R /\ s.ok
  BY DEF Stats
<1>3. \A r \in R : r.ok => r \in Stats
  BY DEF Stats
<1>s. \A r \in R, n \in Nat : [r EXCEPT !.files = n] \in R /\ [r EXCEPT !.files = n].ok = r.ok
  OBVIOUS
<1>b. \A r \in R, n \in Nat : [r EXCEPT !.binary = n] \in R /\ [r EXCEPT !.binary = n].ok = r.ok
  OBVIOUS
<1>a. \A r \in R, n \in Nat : [r EXCEPT !.added = n] \in R /\ [r EXCEPT !.added = n].ok = r.ok
  OBVIOUS
<1>d. \A r \in R, n \in Nat : [r EXCEPT !.deleted = n] \in R /\ [r EXCEPT !.deleted = n].ok = r.ok
  OBVIOUS
<1>n. s.files + 1 \in Nat /\ s.binary + 1 \in Nat /\ s.added \in Nat /\ s.deleted \in Nat
  BY <1>2
<1>4. CASE "-" \in {added, deleted}
  <2> DEFINE t == [s EXCEPT !.files = s.files + 1]
  <2>1. t \in R /\ t.ok /\ t.binary = s.binary
    BY <1>2, <1>n, <1>s
  <2>2. [s EXCEPT !.files = @ + 1, !.binary = @ + 1] = [t EXCEPT !.binary = s.binary + 1]
    BY <1>2
  <2> HIDE DEF R, t
  <2>3. [s EXCEPT !.files = @ + 1, !.binary = @ + 1] \in Stats
    BY <2>1, <2>2, <1>3, <1>b, <1>n
  <2> QED BY <1>1, <1>4, <2>3 DEF Tally
<1>5. CASE "-" \notin {added, deleted} /\ ParseAsciiU64(added) /\ ParseAsciiU64(deleted)
  <2> DEFINE more == s.added + ValueOf[added]
             less == s.deleted + ValueOf[deleted]
             t == [s EXCEPT !.files = s.files + 1]
             u == [t EXCEPT !.added = more]
             v == [s EXCEPT !.files = @ + 1, !.added = @ + ValueOf[added], !.deleted = @ + ValueOf[deleted]]
  <2>1. ValueOf[added] \in Nat /\ ValueOf[deleted] \in Nat
    BY <1>5, NumeralsSpellNumbers DEF ParseAsciiU64
  <2>2. more \in Nat /\ less \in Nat
    BY <1>n, <2>1
  <2>3. v = [u EXCEPT !.deleted = less]
    BY <1>2
  <2> HIDE DEF more, less
  <2>4. t \in R /\ t.ok
    BY <1>2, <1>n, <1>s
  <2> HIDE DEF R, t
  <2>5. u \in R /\ u.ok
    BY <2>2, <2>4, <1>a
  <2> HIDE DEF u
  <2>6. v \in Stats
    <3> HIDE DEF v
    <3> QED BY <2>2, <2>3, <2>5, <1>d, <1>3
  <2> QED BY <1>1, <1>5, <2>6 DEF Tally
<1>6. CASE "-" \notin {added, deleted} /\ ~(ParseAsciiU64(added) /\ ParseAsciiU64(deleted))
  BY <1>1, <1>6 DEF Tally
<1> QED BY <1>4, <1>5, <1>6

(* Reading a field leads to a reading.                                    *)
LEMMA ReadingsClosed ==
  /\ Unread \in Reading
  /\ ReadStep \in [Reading \X FieldText -> Reading]
  /\ \A x \in Reading, y \in FieldText : ReadStep[<<x, y>>] = ReadField(x, y)
PROOF
<1>0. Failed \in Stats
  BY DEF Failed, Stats
<1>1. Unread \in Reading
  <2>1. NoDiff \in Stats
    BY DEF NoDiff, Failed, Stats
  <2> QED BY <2>1 DEF Unread, Reading
<1>2. ASSUME NEW x \in Reading, NEW y \in FieldText
      PROVE  ReadField(x, y) \in Reading
  <2>1. \A s \in Stats : [x EXCEPT !.stats = s] \in Reading
    BY DEF Reading
  <2>2. [x EXCEPT !.ended = TRUE] \in Reading
    BY DEF Reading
  <2>3. x.due > 0 => [x EXCEPT !.due = @ - 1] \in Reading
    BY DEF Reading
  <2>4. \A s \in Stats, d \in Nat : [x EXCEPT !.stats = s, !.due = d] \in Reading
    BY DEF Reading
  <2>5. x.stats \in Stats
    BY DEF Reading
  <2>6. x.stats.ok => Tally(x.stats, y[1], y[2]) \in Stats
    BY <2>5, TallyIsStats
  <2>7. x.stats.ok => [x EXCEPT !.stats = Tally(@, y[1], y[2]), !.due = IF y[3] = EmptyText THEN 2 ELSE 0] \in Reading
    <3>1. (IF y[3] = EmptyText THEN 2 ELSE 0) \in Nat
      OBVIOUS
    <3> QED BY <2>4, <2>6, <3>1
  <2> QED BY <1>0, <2>1, <2>2, <2>3, <2>7 DEF ReadField
<1> QED BY <1>1, <1>2 DEF ReadStep

(* Adding up numbers gives a number.                                      *)
LEMMA TotalStepsClosed ==
  /\ 0 \in Nat
  /\ AddStep \in [Nat \X Nat -> Nat]
  /\ \A x, y \in Nat : AddStep[<<x, y>>] = x + y
PROOF
<1> QED BY DEF AddStep

(* Tuples are sequences.                                                  *)
LEMMA ThreeOf ==
  ASSUME NEW S, NEW a \in S, NEW b \in S, NEW c \in S
  PROVE  <<a, b, c>> \in Seq(S)
PROOF
<1> QED OBVIOUS

(* So are those of one.                                                   *)
LEMMA OneOf ==
  ASSUME NEW S, NEW a \in S
  PROVE  <<a>> \in Seq(S)
PROOF
<1> QED OBVIOUS

(* How an entry is printed: as one field, or as three.                    *)
LEMMA EntryPrinted ==
  ASSUME NEW e \in DiffEntry
  PROVE  /\ e.added \in Column /\ e.deleted \in Column /\ Counted(e.added, e.deleted)
         /\ \/ \E t \in Column \ {EmptyText} :
                 e.path = <<t>> /\ PrintEntry(e) = << <<e.added, e.deleted, t>> >>
            \/ \E old, new \in DueText :
                 /\ e.path = <<old, new>>
                 /\ PrintEntry(e) = << <<e.added, e.deleted, EmptyText>>, old, new>>
PROOF
<1>1. e.added \in Column /\ e.deleted \in Column /\ Counted(e.added, e.deleted) /\ e.path \in DiffPath
  BY DEF DiffEntry
<1>2. CASE e.path \in {<<t>> : t \in Column \ {EmptyText}}
  <2>1. PICK t \in Column \ {EmptyText} : e.path = <<t>>
    BY <1>2
  <2>2. PrintEntry(e) = << <<e.added, e.deleted, t>> >>
    BY <2>1 DEF PrintEntry
  <2> QED BY <1>1, <2>1, <2>2
<1>3. CASE e.path \in DueText \X DueText
  <2>1. PICK old, new \in DueText : e.path = <<old, new>>
    BY <1>3
  <2>2. PrintEntry(e) = << <<e.added, e.deleted, EmptyText>>, old, new>>
    BY <2>1 DEF PrintEntry
  <2> QED BY <1>1, <2>1, <2>2
<1> QED BY <1>1, <1>2, <1>3 DEF DiffPath

(* Printing an entry adds fields.                                         *)
LEMMA ListingStepsClosed ==
  /\ <<>> \in Seq(FieldText)
  /\ PrintStep \in [Seq(FieldText) \X DiffEntry -> Seq(FieldText)]
  /\ \A x \in Seq(FieldText), y \in DiffEntry : PrintStep[<<x, y>>] = x \o PrintEntry(y)
PROOF
<1>1. ASSUME NEW e \in DiffEntry PROVE PrintEntry(e) \in Seq(FieldText)
  <2>1. e.added \in Column /\ e.deleted \in Column /\ EmptyText \in Column
    BY EntryPrinted DEF Column
  <2>2. CASE \E t \in Column \ {EmptyText} : PrintEntry(e) = << <<e.added, e.deleted, t>> >>
    <3>1. PICK t \in Column : PrintEntry(e) = << <<e.added, e.deleted, t>> >>
      BY <2>2
    <3> DEFINE f == <<e.added, e.deleted, t>>
    <3>2. f \in FieldText
      BY <2>1, ThreeOf DEF FieldText
    <3> HIDE DEF f
    <3>3. <<f>> \in Seq(FieldText)
      BY <3>2, OneOf
    <3> QED BY <3>1, <3>3 DEF f
  <2>3. CASE \E old, new \in DueText : PrintEntry(e) = << <<e.added, e.deleted, EmptyText>>, old, new>>
    <3>1. PICK old \in FieldText, new \in FieldText : PrintEntry(e) = << <<e.added, e.deleted, EmptyText>>, old, new>>
      BY <2>3 DEF DueText
    <3> DEFINE f == <<e.added, e.deleted, EmptyText>>
    <3>2. f \in FieldText
      BY <2>1, ThreeOf DEF FieldText
    <3> HIDE DEF f
    <3>3. <<f, old, new>> \in Seq(FieldText)
      BY <3>2, ThreeOf
    <3> QED BY <3>1, <3>3 DEF f
  <2> QED BY <2>2, <2>3, EntryPrinted
<1>2. \A S : \A x, y \in Seq(S) : x \o y \in Seq(S)
  OBVIOUS
<1>3. <<>> \in Seq(FieldText)
  OBVIOUS
<1> QED BY <1>1, <1>2, <1>3 DEF PrintStep

(* What is read after some fields.                                        *)
Read(fields) == FoldLeft(ReadField, Unread, fields)

(* The fields are read one after the other.                               *)
LEMMA Readings ==
  ASSUME NEW seq \in Seq(FieldText)
  PROVE  Stepped(Reading, ReadStep, Unread, seq, Read(seq))
PROOF
<1> DEFINE Op(x, y) == ReadField(x, y)
           A == Reading
           B == FieldText
           op == ReadStep
           P(h) == h = [s \in SUBSET DOMAIN seq |->
                          IF s = {} THEN Unread ELSE Op(h[s \ {Max(s)}], seq[Max(s)])]
           g == CHOOSE h : P(h)
<1>1. Unread \in A /\ op \in [A \X B -> A] /\ \A x \in A, y \in B : op[<<x, y>>] = Op(x, y)
  BY ReadingsClosed DEF ReadStep
<1>2. seq \in Seq(B)
  OBVIOUS
<1>3. P(g)
  <2>1. PICK f \in [SUBSET DOMAIN seq -> A] : Folds(f, op, Unread, seq)
    <3> HIDE DEF op, Op, P, A, B
    <3> QED BY <1>1, <1>2, FoldDefined
  <2>2. ASSUME NEW s \in SUBSET DOMAIN seq, s # {}
        PROVE  f[s \ {Max(s)}] \in A /\ seq[Max(s)] \in B
    <3> HIDE DEF op, Op, P, A, B
    <3> QED BY <1>2, <2>2, NextOfFold
  <2>3. P(f)
    <3> HIDE DEF op, Op, A, B
    <3> QED BY <2>1, <2>2, <1>1 DEF Folds
  <2> HIDE DEF P
  <2> QED BY <2>3
<1>4. Read(seq) = g[DOMAIN seq]
  BY DEF Read, FoldLeft, MapThenFoldSet
<1> HIDE DEF g
<1>5. g[{}] = Unread
  <2> HIDE DEF Op, op
  <2> QED BY <1>3
<1>6. \A s \in SUBSET DOMAIN seq :
         s # {} /\ g[s \ {Max(s)}] \in A /\ seq[Max(s)] \in B => g[s] = op[<<g[s \ {Max(s)}], seq[Max(s)]>>]
  <2> HIDE DEF op, Op, A, B
  <2> QED BY <1>3, <1>1, ZenonT(60)
<1>7. \E st \in [0 .. Len(seq) -> A] : Steps(st, op, Unread, seq, g[DOMAIN seq])
  <2> HIDE DEF op, P, A, B
  <2> QED BY <1>1, <1>2, <1>5, <1>6, FoldPrefixes, ZenonT(60)
<1> HIDE DEF P
<1> QED BY <1>4, <1>7 DEF Stepped

(* Numbers are added one after the other.                                 *)
LEMMA TotalSteps ==
  ASSUME NEW seq \in Seq(Nat)
  PROVE  Stepped(Nat, AddStep, 0, seq, Total(seq))
PROOF
<1> DEFINE Op(x, y) == x + y
           A == Nat
           B == Nat
           op == AddStep
           P(h) == h = [s \in SUBSET DOMAIN seq |->
                          IF s = {} THEN 0 ELSE Op(h[s \ {Max(s)}], seq[Max(s)])]
           g == CHOOSE h : P(h)
<1>1. 0 \in A /\ op \in [A \X B -> A] /\ \A x \in A, y \in B : op[<<x, y>>] = Op(x, y)
  BY TotalStepsClosed DEF AddStep
<1>2. seq \in Seq(B)
  OBVIOUS
<1>3. P(g)
  <2>1. PICK f \in [SUBSET DOMAIN seq -> A] : Folds(f, op, 0, seq)
    <3> HIDE DEF op, Op, P, A, B
    <3> QED BY <1>1, <1>2, FoldDefined
  <2>2. ASSUME NEW s \in SUBSET DOMAIN seq, s # {}
        PROVE  f[s \ {Max(s)}] \in A /\ seq[Max(s)] \in B
    <3> HIDE DEF op, Op, P, A, B
    <3> QED BY <1>2, <2>2, NextOfFold
  <2>3. P(f)
    <3> HIDE DEF op, Op, A, B
    <3> QED BY <2>1, <2>2, <1>1 DEF Folds
  <2> HIDE DEF P
  <2> QED BY <2>3
<1>4. Total(seq) = g[DOMAIN seq]
  BY DEF Total, FoldLeft, MapThenFoldSet
<1> HIDE DEF g
<1>5. g[{}] = 0
  <2> HIDE DEF Op, op
  <2> QED BY <1>3
<1>6. \A s \in SUBSET DOMAIN seq :
         s # {} /\ g[s \ {Max(s)}] \in A /\ seq[Max(s)] \in B => g[s] = op[<<g[s \ {Max(s)}], seq[Max(s)]>>]
  <2> HIDE DEF op, Op, A, B
  <2> QED BY <1>3, <1>1, ZenonT(60)
<1>7. \E st \in [0 .. Len(seq) -> A] : Steps(st, op, 0, seq, g[DOMAIN seq])
  <2> HIDE DEF op, P, A, B
  <2> QED BY <1>1, <1>2, <1>5, <1>6, FoldPrefixes, ZenonT(60)
<1> HIDE DEF P
<1> QED BY <1>4, <1>7 DEF Stepped

(* Entries are printed one after the other.                               *)
LEMMA ListingSteps ==
  ASSUME NEW seq \in Seq(DiffEntry)
  PROVE  Stepped(Seq(FieldText), PrintStep, <<>>, seq, Listing(seq))
PROOF
<1> DEFINE Op(x, y) == x \o PrintEntry(y)
           A == Seq(FieldText)
           B == DiffEntry
           op == PrintStep
           P(h) == h = [s \in SUBSET DOMAIN seq |->
                          IF s = {} THEN <<>> ELSE Op(h[s \ {Max(s)}], seq[Max(s)])]
           g == CHOOSE h : P(h)
<1>1. <<>> \in A /\ op \in [A \X B -> A] /\ \A x \in A, y \in B : op[<<x, y>>] = Op(x, y)
  BY ListingStepsClosed DEF PrintStep
<1>2. seq \in Seq(B)
  OBVIOUS
<1>3. P(g)
  <2>1. PICK f \in [SUBSET DOMAIN seq -> A] : Folds(f, op, <<>>, seq)
    <3> HIDE DEF op, Op, P, A, B
    <3> QED BY <1>1, <1>2, FoldDefined
  <2>2. ASSUME NEW s \in SUBSET DOMAIN seq, s # {}
        PROVE  f[s \ {Max(s)}] \in A /\ seq[Max(s)] \in B
    <3> HIDE DEF op, Op, P, A, B
    <3> QED BY <1>2, <2>2, NextOfFold
  <2>3. P(f)
    <3> HIDE DEF op, Op, A, B
    <3> QED BY <2>1, <2>2, <1>1 DEF Folds
  <2> HIDE DEF P
  <2> QED BY <2>3
<1>4. Listing(seq) = g[DOMAIN seq]
  BY DEF Listing, FoldLeft, MapThenFoldSet
<1> HIDE DEF g
<1>5. g[{}] = <<>>
  <2> HIDE DEF Op, op
  <2> QED BY <1>3
<1>6. \A s \in SUBSET DOMAIN seq :
         s # {} /\ g[s \ {Max(s)}] \in A /\ seq[Max(s)] \in B => g[s] = op[<<g[s \ {Max(s)}], seq[Max(s)]>>]
  <2> HIDE DEF op, Op, A, B
  <2> QED BY <1>3, <1>1, ZenonT(60)
<1>7. \E st \in [0 .. Len(seq) -> A] : Steps(st, op, <<>>, seq, g[DOMAIN seq])
  <2> HIDE DEF op, P, A, B
  <2> QED BY <1>1, <1>2, <1>5, <1>6, FoldPrefixes, ZenonT(60)
<1> HIDE DEF P
<1> QED BY <1>4, <1>7 DEF Stepped

(* Reading goes on from where it was.                                     *)
LEMMA ReadGrows ==
  ASSUME NEW s \in Seq(FieldText), NEW f \in FieldText
  PROVE  Read(s) \in Reading /\ Read(Append(s, f)) = ReadField(Read(s), f)
PROOF
<1> DEFINE A == Reading
           B == FieldText
           op == ReadStep
           base == Unread
           more == Append(s, f)
           was == Read(s)
           is == Read(more)
<1>0. s \in Seq(B) /\ f \in B
  OBVIOUS
<1>1. more \in Seq(B)
  OBVIOUS
<1>2. base \in A /\ op \in [A \X B -> A]
  BY ReadingsClosed
<1>3. Stepped(A, op, base, s, was) /\ Stepped(A, op, base, more, is)
  <2>1. Stepped(A, op, base, s, was)
    BY Readings
  <2>2. Stepped(A, op, base, more, is)
    <3> HIDE DEF more
    <3> QED BY <1>1, Readings
  <2> QED BY <2>1, <2>2
<1>4. was \in A /\ is = op[<<was, f>>]
  <2>1. Grows(A, B, op, base, s, f, was, is)
    <3> HIDE DEF A, B, op, base, was, is
    <3> QED BY <1>0, <1>2, <1>3 DEF Grows
  <2> HIDE DEF A, B, op, base, was, is, more
  <2> QED BY <2>1, StepsGrow
<1>5. op[<<was, f>>] = ReadField(Read(s), f)
  <2>1. was \in A /\ f \in B
    BY <1>4
  <2> HIDE DEF was
  <2>2. op[<<was, f>>] = ReadField(was, f)
    BY <2>1, ReadingsClosed
  <2> QED BY <2>2 DEF was
<1> QED BY <1>4, <1>5

(* At first nothing is read.                                              *)
LEMMA ReadNothing == Read(<<>>) = Unread
PROOF
<1> DEFINE nil == <<>>
           was == Read(nil)
<1>1. nil \in Seq(FieldText) /\ nil = <<>>
  OBVIOUS
<1> HIDE DEF nil
<1>2. Stepped(Reading, ReadStep, Unread, nil, was)
  BY <1>1, Readings
<1>3. was = Unread
  <2> DEFINE A == Reading
             op == ReadStep
             base == Unread
  <2>1. Stepped(A, op, base, <<>>, was)
    <3> HIDE DEF was
    <3> QED BY <1>1, <1>2
  <2> HIDE DEF A, op, base, was
  <2>2. was = base
    BY <2>1, StepsStart
  <2> QED BY <2>2 DEF base
<1> QED BY <1>1, <1>3

(* A sum grows by what is appended.                                       *)
LEMMA TotalGrows ==
  ASSUME NEW s \in Seq(Nat), NEW n \in Nat
  PROVE  Total(s) \in Nat /\ Total(Append(s, n)) = Total(s) + n
PROOF
<1> DEFINE A == Nat
           B == Nat
           op == AddStep
           base == 0
           more == Append(s, n)
           was == Total(s)
           is == Total(more)
<1>0. s \in Seq(B) /\ n \in B
  OBVIOUS
<1>1. more \in Seq(B)
  OBVIOUS
<1>2. base \in A /\ op \in [A \X B -> A]
  BY TotalStepsClosed
<1>3. Stepped(A, op, base, s, was) /\ Stepped(A, op, base, more, is)
  <2>1. Stepped(A, op, base, s, was)
    BY TotalSteps
  <2>2. Stepped(A, op, base, more, is)
    <3> HIDE DEF more
    <3> QED BY <1>1, TotalSteps
  <2> QED BY <2>1, <2>2
<1>4. was \in A /\ is = op[<<was, n>>]
  <2>1. Grows(A, B, op, base, s, n, was, is)
    <3> HIDE DEF A, B, op, base, was, is
    <3> QED BY <1>0, <1>2, <1>3 DEF Grows
  <2> HIDE DEF A, B, op, base, was, is, more
  <2> QED BY <2>1, StepsGrow
<1>5. op[<<was, n>>] = Total(s) + n
  <2>1. was \in A /\ n \in B
    BY <1>4
  <2> HIDE DEF was
  <2>2. op[<<was, n>>] = was + n
    BY <2>1, TotalStepsClosed
  <2> QED BY <2>2 DEF was
<1> QED BY <1>4, <1>5

(* The sum of nothing.                                                    *)
LEMMA TotalOfNothing == Total(<<>>) = 0
PROOF
<1> DEFINE nil == <<>>
           was == Total(nil)
<1>1. nil \in Seq(Nat) /\ nil = <<>>
  OBVIOUS
<1> HIDE DEF nil
<1>2. Stepped(Nat, AddStep, 0, nil, was)
  BY <1>1, TotalSteps
<1>3. was = 0
  <2> DEFINE A == Nat
             op == AddStep
             base == 0
  <2>1. Stepped(A, op, base, <<>>, was)
    <3> HIDE DEF was
    <3> QED BY <1>1, <1>2
  <2> HIDE DEF A, op, base, was
  <2>2. was = base
    BY <2>1, StepsStart
  <2> QED BY <2>2 DEF base
<1> QED BY <1>1, <1>3

(* A listing grows by what is printed for one entry more.                 *)
LEMMA ListingGrows ==
  ASSUME NEW s \in Seq(DiffEntry), NEW e \in DiffEntry
  PROVE  Listing(s) \in Seq(FieldText) /\ Listing(Append(s, e)) = Listing(s) \o PrintEntry(e)
PROOF
<1> DEFINE A == Seq(FieldText)
           B == DiffEntry
           op == PrintStep
           base == <<>>
           more == Append(s, e)
           was == Listing(s)
           is == Listing(more)
<1>0. s \in Seq(B) /\ e \in B
  OBVIOUS
<1>1. more \in Seq(B)
  OBVIOUS
<1>2. base \in A /\ op \in [A \X B -> A]
  BY ListingStepsClosed
<1>3. Stepped(A, op, base, s, was) /\ Stepped(A, op, base, more, is)
  <2>1. Stepped(A, op, base, s, was)
    BY ListingSteps
  <2>2. Stepped(A, op, base, more, is)
    <3> HIDE DEF more
    <3> QED BY <1>1, ListingSteps
  <2> QED BY <2>1, <2>2
<1>4. was \in A /\ is = op[<<was, e>>]
  <2>1. Grows(A, B, op, base, s, e, was, is)
    <3> HIDE DEF A, B, op, base, was, is
    <3> QED BY <1>0, <1>2, <1>3 DEF Grows
  <2> HIDE DEF A, B, op, base, was, is, more
  <2> QED BY <2>1, StepsGrow
<1>5. op[<<was, e>>] = Listing(s) \o PrintEntry(e)
  <2>1. was \in A /\ e \in B
    BY <1>4
  <2> HIDE DEF was
  <2>2. op[<<was, e>>] = was \o PrintEntry(e)
    BY <2>1, ListingStepsClosed
  <2> QED BY <2>2 DEF was
<1> QED BY <1>4, <1>5

(* A listing of nothing.                                                  *)
LEMMA ListingOfNothing == Listing(<<>>) = <<>>
PROOF
<1> DEFINE nil == <<>>
           was == Listing(nil)
<1>1. nil \in Seq(DiffEntry) /\ nil = <<>>
  OBVIOUS
<1> HIDE DEF nil
<1>2. Stepped(Seq(FieldText), PrintStep, <<>>, nil, was)
  BY <1>1, ListingSteps
<1>3. was = <<>>
  <2> DEFINE A == Seq(FieldText)
             op == PrintStep
             base == <<>>
  <2>1. Stepped(A, op, base, <<>>, was)
    <3> HIDE DEF was
    <3> QED BY <1>1, <1>2
  <2> HIDE DEF A, op, base, was
  <2>2. was = base
    BY <2>1, StepsStart
  <2> QED BY <2>2 DEF base
<1> QED BY <1>1, <1>3

Figures == [ok : BOOLEAN, files : Nat, added : Nat, deleted : Nat, binary : Nat]

(* Figures are told apart by what they count.                             *)
LEMMA SameFigures ==
  ASSUME NEW r \in Figures, NEW q \in Figures, r.ok = q.ok, r.files = q.files,
         r.added = q.added, r.deleted = q.deleted, r.binary = q.binary
  PROVE  r = q
PROOF
<1> QED BY DEF Figures

(* The figures after a file of text.                                      *)
LEMMA TextCounted ==
  ASSUME NEW t \in Figures, NEW x \in Nat, NEW y \in Nat
  PROVE  [t EXCEPT !.files = @ + 1, !.added = @ + x, !.deleted = @ + y] =
           [ok |-> t.ok, files |-> t.files + 1, added |-> t.added + x,
            deleted |-> t.deleted + y, binary |-> t.binary]
PROOF
<1> DEFINE t1 == [t EXCEPT !.files = @ + 1]
           t2 == [t1 EXCEPT !.added = @ + x]
           t3 == [t2 EXCEPT !.deleted = @ + y]
           r == [t EXCEPT !.files = @ + 1, !.added = @ + x, !.deleted = @ + y]
           q == [ok |-> t.ok, files |-> t.files + 1, added |-> t.added + x,
                 deleted |-> t.deleted + y, binary |-> t.binary]
<1>1. t1 \in Figures /\ t1.ok = t.ok /\ t1.files = t.files + 1 /\ t1.added = t.added
      /\ t1.deleted = t.deleted /\ t1.binary = t.binary
  BY DEF Figures
<1> HIDE DEF t1
<1>2. t2 \in Figures /\ t2.ok = t.ok /\ t2.files = t.files + 1 /\ t2.added = t.added + x
      /\ t2.deleted = t.deleted /\ t2.binary = t.binary
  BY <1>1 DEF Figures
<1> HIDE DEF t2
<1>3. t3 \in Figures /\ t3.ok = t.ok /\ t3.files = t.files + 1 /\ t3.added = t.added + x
      /\ t3.deleted = t.deleted + y /\ t3.binary = t.binary
  BY <1>2 DEF Figures
<1>4. r = t3
  BY DEF t1, t2, Figures
<1> HIDE DEF t3, r
<1>5. q \in Figures /\ q.ok = t.ok /\ q.files = t.files + 1 /\ q.added = t.added + x
      /\ q.deleted = t.deleted + y /\ q.binary = t.binary
  BY DEF Figures
<1> HIDE DEF q
<1>6. r = q
  BY <1>3, <1>4, <1>5, SameFigures
<1> QED BY <1>6 DEF r, q

(* The figures after a binary file.                                       *)
LEMMA BinaryCounted ==
  ASSUME NEW t \in Figures
  PROVE  [t EXCEPT !.files = @ + 1, !.binary = @ + 1] =
           [ok |-> t.ok, files |-> t.files + 1, added |-> t.added,
            deleted |-> t.deleted, binary |-> t.binary + 1]
PROOF
<1> DEFINE t1 == [t EXCEPT !.files = @ + 1]
           t2 == [t1 EXCEPT !.binary = @ + 1]
           r == [t EXCEPT !.files = @ + 1, !.binary = @ + 1]
           q == [ok |-> t.ok, files |-> t.files + 1, added |-> t.added,
                 deleted |-> t.deleted, binary |-> t.binary + 1]
<1>1. t1 \in Figures /\ t1.ok = t.ok /\ t1.files = t.files + 1 /\ t1.added = t.added
      /\ t1.deleted = t.deleted /\ t1.binary = t.binary
  BY DEF Figures
<1> HIDE DEF t1
<1>2. t2 \in Figures /\ t2.ok = t.ok /\ t2.files = t.files + 1 /\ t2.added = t.added
      /\ t2.deleted = t.deleted /\ t2.binary = t.binary + 1
  BY <1>1 DEF Figures
<1>3. r = t2
  BY DEF t1, Figures
<1> HIDE DEF t2, r
<1>4. q \in Figures /\ q.ok = t.ok /\ q.files = t.files + 1 /\ q.added = t.added
      /\ q.deleted = t.deleted /\ q.binary = t.binary + 1
  BY DEF Figures
<1> HIDE DEF q
<1>5. r = q
  BY <1>2, <1>3, <1>4, SameFigures
<1> QED BY <1>5 DEF r, q

(* The figures of no diff.                                                *)
LEMMA NothingCounted ==
  NoDiff = [ok |-> TRUE, files |-> 0, added |-> 0, deleted |-> 0, binary |-> 0]
PROOF
<1> DEFINE t == Failed
           q == [ok |-> TRUE, files |-> 0, added |-> 0, deleted |-> 0, binary |-> 0]
<1>1. t \in Figures /\ t.files = 0 /\ t.added = 0 /\ t.deleted = 0 /\ t.binary = 0
  BY DEF Failed, Figures
<1>2. NoDiff = [t EXCEPT !.ok = TRUE]
  BY DEF NoDiff
<1> HIDE DEF t
<1> DEFINE r == [t EXCEPT !.ok = TRUE]
<1>3. r \in Figures /\ r.ok /\ r.files = 0 /\ r.added = 0 /\ r.deleted = 0 /\ r.binary = 0
  BY <1>1 DEF Figures
<1>4. q \in Figures /\ q.ok /\ q.files = 0 /\ q.added = 0 /\ q.deleted = 0 /\ q.binary = 0
  BY DEF Figures
<1> HIDE DEF r, q
<1>5. r = q
  <2>1. r.ok = q.ok
    <3>1. r.ok \in BOOLEAN /\ q.ok \in BOOLEAN
      BY <1>3, <1>4 DEF Figures
    <3> QED BY <3>1, <1>3, <1>4
  <2> QED BY <2>1, <1>3, <1>4, SameFigures
<1> QED BY <1>2, <1>5 DEF r, q

(* The sum of what F counts of every element.                             *)
SumOver(F, list) == Total([i \in DOMAIN list |-> F[list[i]]])

(* It grows by what F counts of what is appended.                         *)
LEMMA SumGrows ==
  ASSUME NEW S, NEW F \in [S -> Nat], NEW list \in Seq(S), NEW x \in S
  PROVE  SumOver(F, list) \in Nat /\ SumOver(F, Append(list, x)) = SumOver(F, list) + F[x]
PROOF
<1> DEFINE values == [i \in DOMAIN list |-> F[list[i]]]
           longer == Append(list, x)
           more   == [i \in DOMAIN longer |-> F[longer[i]]]
           k      == F[x]
<1>1. values \in Seq(Nat) /\ k \in Nat
  OBVIOUS
<1>2. more = Append(values, k)
  <2>0. PICK n \in Nat : n = Len(list) /\ DOMAIN list = 1 .. n
    OBVIOUS
  <2>1. /\ DOMAIN longer = 1 .. n + 1 /\ longer[n + 1] = x
        /\ \A i \in 1 .. n : longer[i] = list[i]
    <3> HIDE DEF values, k
    <3> QED BY <2>0
  <2>2. more = [i \in 1 .. n + 1 |-> F[longer[i]]] /\ values = [i \in 1 .. n |-> F[list[i]]]
    <3> HIDE DEF longer
    <3> QED BY <2>0, <2>1
  <2>3. Len(values) = n /\ more \in [1 .. n + 1 -> Nat]
    <3>1. ASSUME NEW i \in 1 .. n + 1 PROVE F[longer[i]] \in Nat
      <4>1. longer[i] \in S
        BY <2>0, <2>1
      <4> HIDE DEF longer
      <4> QED BY <4>1
    <3>2. Len(values) = n
      BY <2>2, <2>0
    <3> HIDE DEF longer, values
    <3> QED BY <2>2, <3>1, <3>2
  <2>4. ASSUME NEW i \in 1 .. n + 1
        PROVE  more[i] = IF i = n + 1 THEN k ELSE values[i]
    <3>1. CASE i = n + 1
      <4>1. more[i] = F[longer[n + 1]]
        BY <2>2, <3>1
      <4> HIDE DEF longer, more
      <4> QED BY <2>1, <3>1, <4>1
    <3>2. CASE i # n + 1
      <4>1. i \in 1 .. n
        BY <3>2
      <4>2. longer[i] = list[i]
        BY <2>1, <4>1
      <4>3. more[i] = F[longer[i]]
        BY <2>2
      <4>4. values[i] = F[list[i]]
        BY <2>2, <4>1
      <4> HIDE DEF longer, more, values
      <4> QED BY <3>2, <4>2, <4>3, <4>4
    <3> QED BY <3>1, <3>2
  <2> DEFINE next == Append(values, k)
  <2>5. next \in Seq(Nat) /\ Len(next) = n + 1
        /\ \A i \in 1 .. n + 1 : next[i] = IF i = n + 1 THEN k ELSE values[i]
    <3> HIDE DEF values, k, longer, more
    <3> QED BY <1>1, <2>3
  <2>6. more \in Seq(Nat) /\ Len(more) = n + 1
    <3> HIDE DEF more
    <3> QED BY <2>3
  <2> HIDE DEF values, longer, more, k, next
  <2>7. more = next
    BY <2>4, <2>5, <2>6, SeqEqual
  <2> QED BY <2>7 DEF next
<1> HIDE DEF values, k
<1>3. Total(values) \in Nat /\ Total(Append(values, k)) = Total(values) + k
  BY <1>1, TotalGrows
<1> HIDE DEF more
<1> QED BY <1>2, <1>3 DEF SumOver, values, more, k

(* The sum over nothing.                                                  *)
LEMMA SumOfNothing ==
  ASSUME NEW F
  PROVE  SumOver(F, <<>>) = 0
PROOF
<1>1. [i \in DOMAIN <<>> |-> F[<<>>[i]]] = <<>>
  OBVIOUS
<1> QED BY <1>1, TotalOfNothing DEF SumOver

(* What an entry adds to the totals.                                      *)
AddedOf == [e \in DiffEntry |-> LinesIn(e.added)]

DeletedOf == [e \in DiffEntry |-> LinesIn(e.deleted)]

BinaryOf == [e \in DiffEntry |-> IF e.added = "-" THEN 1 ELSE 0]

(* They are numbers.                                                      *)
LEMMA CountsAreNumbers ==
  /\ AddedOf \in [DiffEntry -> Nat] /\ DeletedOf \in [DiffEntry -> Nat] /\ BinaryOf \in [DiffEntry -> Nat]
PROOF
<1>1. ASSUME NEW e \in DiffEntry PROVE LinesIn(e.added) \in Nat /\ LinesIn(e.deleted) \in Nat
  <2>1. Counted(e.added, e.deleted)
    BY DEF DiffEntry
  <2>2. (e.added = "-" /\ e.deleted = "-") \/ (e.added \in Numeral /\ e.deleted \in Numeral)
    BY <2>1 DEF Counted
  <2> QED BY <2>2, NumeralsSpellNumbers DEF LinesIn
<1> QED BY <1>1 DEF AddedOf, DeletedOf, BinaryOf

(* The totals are these three sums.                                       *)
LEMMA TotalsAreSums ==
  ASSUME NEW list \in Seq(DiffEntry)
  PROVE  Totals(list) =
           IF SumOver(AddedOf, list) > MaxLines \/ SumOver(DeletedOf, list) > MaxLines THEN Failed
           ELSE [ok |-> TRUE, files |-> Len(list), added |-> SumOver(AddedOf, list),
                 deleted |-> SumOver(DeletedOf, list), binary |-> SumOver(BinaryOf, list)]
PROOF
<1>1. \A i \in DOMAIN list : list[i] \in DiffEntry
  OBVIOUS
<1>2. /\ [i \in DOMAIN list |-> LinesIn(list[i].added)] = [i \in DOMAIN list |-> AddedOf[list[i]]]
      /\ [i \in DOMAIN list |-> LinesIn(list[i].deleted)] = [i \in DOMAIN list |-> DeletedOf[list[i]]]
      /\ [i \in DOMAIN list |-> IF list[i].added = "-" THEN 1 ELSE 0] = [i \in DOMAIN list |-> BinaryOf[list[i]]]
  BY <1>1 DEF AddedOf, DeletedOf, BinaryOf
<1> DEFINE a == [i \in DOMAIN list |-> LinesIn(list[i].added)]
           d == [i \in DOMAIN list |-> LinesIn(list[i].deleted)]
           b == [i \in DOMAIN list |-> IF list[i].added = "-" THEN 1 ELSE 0]
<1>3. Totals(list) = IF Total(a) > MaxLines \/ Total(d) > MaxLines THEN Failed
                     ELSE [ok |-> TRUE, files |-> Len(list), added |-> Total(a),
                           deleted |-> Total(d), binary |-> Total(b)]
  BY DEF Totals, Each
<1>4. SumOver(AddedOf, list) = Total(a)
  BY <1>2 DEF SumOver
<1>5. SumOver(DeletedOf, list) = Total(d)
  BY <1>2 DEF SumOver
<1>6. SumOver(BinaryOf, list) = Total(b)
  BY <1>2 DEF SumOver
<1> HIDE DEF a, d, b
<1> QED BY <1>3, <1>4, <1>5, <1>6

(* The totals of an entry more are those before, tallied with its counts, *)
(* unless they did not fit already.                                       *)
LEMMA TotalsGrow ==
  ASSUME NEW list \in Seq(DiffEntry), NEW e \in DiffEntry
  PROVE  /\ Totals(list) \in Stats
         /\ Totals(Append(list, e)) =
              IF Totals(list).ok THEN Tally(Totals(list), e.added, e.deleted) ELSE Failed
PROOF
<1> DEFINE longer == Append(list, e)
           a == SumOver(AddedOf, list)
           d == SumOver(DeletedOf, list)
           b == SumOver(BinaryOf, list)
           n == Len(list)
<1>1. a \in Nat /\ d \in Nat /\ b \in Nat /\ n \in Nat /\ longer \in Seq(DiffEntry) /\ Len(longer) = n + 1
  <2>1. n \in Nat /\ longer \in Seq(DiffEntry) /\ Len(longer) = n + 1
    OBVIOUS
  <2>2. a \in Nat
    BY CountsAreNumbers, SumGrows
  <2>3. d \in Nat
    BY CountsAreNumbers, SumGrows
  <2>4. b \in Nat
    BY CountsAreNumbers, SumGrows
  <2> QED BY <2>1, <2>2, <2>3, <2>4
<1>2. /\ SumOver(AddedOf, longer) = a + AddedOf[e]
      /\ SumOver(DeletedOf, longer) = d + DeletedOf[e]
      /\ SumOver(BinaryOf, longer) = b + BinaryOf[e]
  BY CountsAreNumbers, SumGrows, ZenonT(60)
<1>3. Totals(list) = IF a > MaxLines \/ d > MaxLines THEN Failed
                     ELSE [ok |-> TRUE, files |-> n, added |-> a, deleted |-> d, binary |-> b]
  BY TotalsAreSums
<1>4. Totals(longer) =
        IF a + AddedOf[e] > MaxLines \/ d + DeletedOf[e] > MaxLines THEN Failed
        ELSE [ok |-> TRUE, files |-> n + 1, added |-> a + AddedOf[e],
              deleted |-> d + DeletedOf[e], binary |-> b + BinaryOf[e]]
  <2> HIDE DEF longer, a, d, b, n
  <2> QED BY <1>1, <1>2, TotalsAreSums
<1> HIDE DEF longer, a, d, b, n
<1>5. Totals(list) \in Stats
  BY <1>1, <1>3 DEF Stats, Failed
<1>6. AddedOf[e] = LinesIn(e.added) /\ DeletedOf[e] = LinesIn(e.deleted)
      /\ BinaryOf[e] = IF e.added = "-" THEN 1 ELSE 0
  BY DEF AddedOf, DeletedOf, BinaryOf
<1>7. Counted(e.added, e.deleted) /\ MaxLines \in Nat /\ AddedOf[e] \in Nat /\ DeletedOf[e] \in Nat
  BY NumeralsSpellNumbers, CountsAreNumbers DEF DiffEntry
<1>8. CASE ~Totals(list).ok
  <2>1. a > MaxLines \/ d > MaxLines
    BY <1>3, <1>8
  <2>2. a + AddedOf[e] > MaxLines \/ d + DeletedOf[e] > MaxLines
    BY <2>1, <1>1, <1>7
  <2> QED BY <1>4, <1>5, <1>8, <2>2 DEF longer
<1>9. CASE Totals(list).ok
  <2>1. a <= MaxLines /\ d <= MaxLines
    BY <1>1, <1>3, <1>7, <1>9 DEF Failed
  <2>2. Totals(list) = [ok |-> TRUE, files |-> n, added |-> a, deleted |-> d, binary |-> b]
    BY <2>1, <1>1, <1>3, <1>7
  <2> DEFINE t == Totals(list)
  <2>3. t \in Figures /\ t.ok = TRUE /\ t.added = a /\ t.deleted = d /\ t.files = n /\ t.binary = b
    <3> HIDE DEF t
    <3>1. t = [ok |-> TRUE, files |-> n, added |-> a, deleted |-> d, binary |-> b]
      BY <2>2 DEF t
    <3> QED BY <3>1, <1>1 DEF Figures
  <2>4. Totals(longer) = Tally(t, e.added, e.deleted)
    <3>1. CASE e.added = "-" /\ e.deleted = "-"
      <4>1. AddedOf[e] = 0 /\ DeletedOf[e] = 0 /\ BinaryOf[e] = 1
        BY <3>1, <1>6 DEF LinesIn
      <4>2. Totals(longer) = [ok |-> TRUE, files |-> n + 1, added |-> a, deleted |-> d, binary |-> b + 1]
        BY <4>1, <1>4, <2>1, <1>1, <1>7
      <4>3. Tally(t, e.added, e.deleted) = [t EXCEPT !.files = @ + 1, !.binary = @ + 1]
        BY <3>1 DEF Tally
      <4>4. [t EXCEPT !.files = @ + 1, !.binary = @ + 1] =
              [ok |-> TRUE, files |-> n + 1, added |-> a, deleted |-> d, binary |-> b + 1]
        <5> HIDE DEF t
        <5> QED BY <2>3, BinaryCounted
      <4> QED BY <4>2, <4>3, <4>4
    <3>2. CASE e.added \in Numeral /\ e.deleted \in Numeral
      <4>1. e.added # "-" /\ e.deleted # "-"
        BY <3>2, NumeralsSpellNumbers
      <4>2. AddedOf[e] = ValueOf[e.added] /\ DeletedOf[e] = ValueOf[e.deleted] /\ BinaryOf[e] = 0
        BY <4>1, <1>6 DEF LinesIn
      <4>3. CASE a + AddedOf[e] <= MaxLines /\ d + DeletedOf[e] <= MaxLines
        <5>1. ParseAsciiU64(e.added) /\ ParseAsciiU64(e.deleted)
          BY <3>2, <4>2, <4>3, <1>1, <1>7 DEF ParseAsciiU64
        <5>2. Tally(t, e.added, e.deleted) =
                [t EXCEPT !.files = @ + 1, !.added = @ + ValueOf[e.added], !.deleted = @ + ValueOf[e.deleted]]
          BY <4>1, <4>2, <4>3, <5>1, <2>3 DEF Tally
        <5>3. [t EXCEPT !.files = @ + 1, !.added = @ + ValueOf[e.added], !.deleted = @ + ValueOf[e.deleted]] =
                [ok |-> TRUE, files |-> n + 1, added |-> a + ValueOf[e.added],
                 deleted |-> d + ValueOf[e.deleted], binary |-> b]
          <6>1. ValueOf[e.added] \in Nat /\ ValueOf[e.deleted] \in Nat
            BY <1>7, <4>2
          <6> HIDE DEF t
          <6> QED BY <2>3, <6>1, TextCounted
        <5>4. Totals(longer) =
                [ok |-> TRUE, files |-> n + 1, added |-> a + ValueOf[e.added],
                 deleted |-> d + ValueOf[e.deleted], binary |-> b]
          <6>1. b + BinaryOf[e] = b
            BY <4>2, <1>1
          <6>2. ~(a + AddedOf[e] > MaxLines \/ d + DeletedOf[e] > MaxLines)
            BY <4>3, <1>1, <1>7
          <6> QED BY <1>4, <4>2, <6>1, <6>2
        <5> QED BY <5>2, <5>3, <5>4
      <4>4. CASE ~(a + AddedOf[e] <= MaxLines /\ d + DeletedOf[e] <= MaxLines)
        <5>1. Totals(longer) = Failed
          BY <1>1, <1>4, <1>7, <4>4
        <5>2. Tally(t, e.added, e.deleted) = Failed
          BY <4>1, <4>2, <4>4, <2>3 DEF Tally
        <5> QED BY <5>1, <5>2
      <4> QED BY <4>3, <4>4
    <3> QED BY <3>1, <3>2, <1>7 DEF Counted
  <2> QED BY <1>5, <1>9, <2>4 DEF longer
<1> QED BY <1>8, <1>9

(* Nothing has no diff.                                                   *)
LEMMA TotalsOfNothing == Totals(<<>>) = NoDiff
PROOF
<1> DEFINE nil == <<>>
<1>1. nil \in Seq(DiffEntry) /\ Len(nil) = 0 /\ ~(0 > MaxLines)
  BY NumeralsSpellNumbers
<1>2. SumOver(AddedOf, nil) = 0 /\ SumOver(DeletedOf, nil) = 0 /\ SumOver(BinaryOf, nil) = 0
  BY SumOfNothing
<1> HIDE DEF nil
<1>3. Totals(nil) =
        IF SumOver(AddedOf, nil) > MaxLines \/ SumOver(DeletedOf, nil) > MaxLines THEN Failed
        ELSE [ok |-> TRUE, files |-> Len(nil), added |-> SumOver(AddedOf, nil),
              deleted |-> SumOver(DeletedOf, nil), binary |-> SumOver(BinaryOf, nil)]
  BY <1>1, TotalsAreSums
<1>4. Totals(nil) = [ok |-> TRUE, files |-> 0, added |-> 0, deleted |-> 0, binary |-> 0]
  BY <1>1, <1>2, <1>3
<1> QED BY <1>4, NothingCounted DEF nil

(* Totals that are not good are those of a failure.                       *)
LEMMA NotOkIsFailed ==
  ASSUME NEW s \in Stats
  PROVE  s.ok \in BOOLEAN /\ (~s.ok => s = Failed) /\ Failed \in Stats /\ ~Failed.ok
PROOF
<1> QED BY DEF Stats, Failed

(* What a reading becomes is told field by field.                         *)
LEMMA ReadingChanged ==
  ASSUME NEW x \in Reading, NEW t \in Stats, NEW n \in Nat
  PROVE  /\ [x EXCEPT !.stats = t].stats = t /\ [x EXCEPT !.stats = t].due = x.due
         /\ [x EXCEPT !.ended = TRUE].stats = x.stats /\ [x EXCEPT !.ended = TRUE].due = x.due
         /\ [x EXCEPT !.ended = TRUE].ended = TRUE
         /\ [x EXCEPT !.due = n].stats = x.stats /\ [x EXCEPT !.due = n].due = n
         /\ [x EXCEPT !.due = n].ended = x.ended
         /\ [x EXCEPT !.stats = t, !.due = n].stats = t
         /\ [x EXCEPT !.stats = t, !.due = n].due = n
         /\ [x EXCEPT !.stats = t, !.due = n].ended = x.ended
PROOF
<1> QED BY DEF Reading

(* A reading that has failed stays so.                                    *)
LEMMA FailedStays ==
  ASSUME NEW x \in Reading, NEW f \in FieldText, ~x.stats.ok
  PROVE  ~ReadField(x, f).stats.ok
PROOF
<1>1. Failed \in Stats /\ ~Failed.ok
  BY DEF Stats, Failed
<1>2. [x EXCEPT !.stats = Failed].stats = Failed
  BY <1>1, ReadingChanged
<1> QED BY <1>1, <1>2 DEF ReadField

(* An empty field ends the listing.                                       *)
LEMMA EmptyRead ==
  ASSUME NEW x \in Reading, x.stats.ok
  PROVE  /\ x.due = 0 => LET y == ReadField(x, EmptyField)
                         IN  y.stats = x.stats /\ y.due = 0 /\ y.ended
         /\ x.due > 0 => ~ReadField(x, EmptyField).stats.ok
PROOF
<1>1. Failed \in Stats /\ ~Failed.ok
  BY DEF Stats, Failed
<1>2. [x EXCEPT !.stats = Failed].stats = Failed
  BY <1>1, ReadingChanged
<1>3. [x EXCEPT !.ended = TRUE].stats = x.stats /\ [x EXCEPT !.ended = TRUE].due = x.due
      /\ [x EXCEPT !.ended = TRUE].ended = TRUE
  BY <1>1, ReadingChanged
<1> QED BY <1>1, <1>2, <1>3 DEF ReadField

(* No field may follow it, and what is no record is none.                 *)
LEMMA OddRead ==
  ASSUME NEW x \in Reading, NEW f \in FieldText, f # EmptyField,
         x.ended \/ (x.due = 0 /\ Len(f) # 3)
  PROVE  ~ReadField(x, f).stats.ok
PROOF
<1>1. Failed \in Stats /\ ~Failed.ok
  BY DEF Stats, Failed
<1>2. [x EXCEPT !.stats = Failed].stats = Failed
  BY <1>1, ReadingChanged
<1> QED BY <1>1, <1>2 DEF ReadField

(* A path that is due is read.                                            *)
LEMMA DueRead ==
  ASSUME NEW x \in Reading, NEW f \in FieldText, f # EmptyField, x.stats.ok, ~x.ended, x.due > 0
  PROVE  LET y == ReadField(x, f) IN y.stats = x.stats /\ y.due = x.due - 1 /\ ~y.ended
PROOF
<1>1. x.due - 1 \in Nat /\ x.due # 0
  BY DEF Reading
<1>2. Failed \in Stats
  BY DEF Stats, Failed
<1> DEFINE n == x.due - 1
<1>3. [x EXCEPT !.due = n].stats = x.stats /\ [x EXCEPT !.due = n].due = n
      /\ [x EXCEPT !.due = n].ended = x.ended
  <2> HIDE DEF n
  <2> QED BY <1>1, <1>2, ReadingChanged DEF n
<1>4. ReadField(x, f) = [x EXCEPT !.due = n]
  BY <1>1 DEF ReadField
<1> QED BY <1>3, <1>4

(* A record is counted.                                                   *)
LEMMA RecordRead ==
  ASSUME NEW x \in Reading, NEW f \in FieldText, f # EmptyField, x.stats.ok, ~x.ended,
         x.due = 0, Len(f) = 3
  PROVE  LET y == ReadField(x, f)
         IN  /\ y.stats = Tally(x.stats, f[1], f[2]) /\ ~y.ended
             /\ y.due = IF f[3] = EmptyText THEN 2 ELSE 0
PROOF
<1> DEFINE t == Tally(x.stats, f[1], f[2])
           n == IF f[3] = EmptyText THEN 2 ELSE 0
<1>1. n \in Nat
  OBVIOUS
<1>2. t \in Stats
  <2>1. x.stats \in Stats
    BY DEF Reading
  <2> QED BY <2>1, TallyIsStats
<1>3. ReadField(x, f) = [x EXCEPT !.stats = Tally(@, f[1], f[2]), !.due = n]
  BY DEF ReadField
<1>4. [x EXCEPT !.stats = Tally(@, f[1], f[2]), !.due = n] = [x EXCEPT !.stats = t, !.due = n]
  BY DEF Reading
<1> HIDE DEF t, n
<1>5. [x EXCEPT !.stats = t, !.due = n].stats = t
      /\ [x EXCEPT !.stats = t, !.due = n].due = n
      /\ [x EXCEPT !.stats = t, !.due = n].ended = x.ended
  BY <1>1, <1>2, ReadingChanged
<1> QED BY <1>3, <1>4, <1>5 DEF t, n

(* What is tallied was counted.                                           *)
LEMMA TallyIsCounted ==
  ASSUME NEW s, NEW a, NEW d, Tally(s, a, d).ok
  PROVE  Counted(a, d)
PROOF
<1>1. ~Failed.ok
  BY DEF Failed
<1> QED BY <1>1 DEF Tally, Counted, ParseAsciiU64

(* A record is not the empty field.                                       *)
LEMMA RecordIsField ==
  ASSUME NEW a \in Column, NEW d \in Column, NEW t \in Column
  PROVE  /\ <<a, d, t>> \in FieldText /\ <<a, d, t>> # EmptyField /\ Len(<<a, d, t>>) = 3
         /\ EmptyField \in FieldText
PROOF
<1>1. EmptyText \in Column
  BY DEF Column
<1>2. <<a, d, t>> # <<EmptyText>> /\ Len(<<a, d, t>>) = 3
  OBVIOUS
<1>3. <<a, d, t>> \in Seq(Column) /\ <<EmptyText>> \in Seq(Column)
  BY <1>1, ThreeOf, OneOf
<1> QED BY <1>2, <1>3 DEF FieldText, EmptyField

(* What is printed for an entry is appended to the listing.               *)
LEMMA PrintedIsAppended ==
  ASSUME NEW S, NEW l \in Seq(S), NEW f \in S, NEW o \in S, NEW n \in S
  PROVE  /\ l \o <<f>> = Append(l, f)
         /\ l \o <<f, o, n>> = Append(Append(Append(l, f), o), n)
PROOF
<1>1. l \o <<f>> = Append(l, f)
  OBVIOUS
<1>2. l \o <<f, o, n>> = Append(Append(Append(l, f), o), n)
  OBVIOUS
<1> QED BY <1>1, <1>2

(* The listing of entries is read as their totals.                        *)
IsRead(entries) ==
  IF Totals(entries).ok
  THEN /\ Read(Listing(entries)).stats = Totals(entries)
       /\ Read(Listing(entries)).due = 0
       /\ ~Read(Listing(entries)).ended
  ELSE ~Read(Listing(entries)).stats.ok

(* A record read after the listing.                                       *)
LEMMA RecordAppended ==
  ASSUME NEW l \in Seq(FieldText), NEW a \in Column, NEW d \in Column, NEW t \in Column
  PROVE  LET f == <<a, d, t>>
             x == Read(l)
             y == Read(Append(l, f))
         IN  /\ x \in Reading /\ y \in Reading /\ Append(l, f) \in Seq(FieldText)
             /\ ~x.stats.ok => ~y.stats.ok
             /\ x.stats.ok /\ x.due = 0 /\ ~x.ended =>
                  /\ y.stats = Tally(x.stats, a, d) /\ ~y.ended
                  /\ y.due = IF t = EmptyText THEN 2 ELSE 0
PROOF
<1> DEFINE f == <<a, d, t>>
           x == Read(l)
           y == Read(Append(l, f))
<1>1. f \in FieldText /\ f # EmptyField /\ Len(f) = 3 /\ f[1] = a /\ f[2] = d /\ f[3] = t
  BY RecordIsField
<1> HIDE DEF f
<1>2. Append(l, f) \in Seq(FieldText)
  BY <1>1
<1>3. x \in Reading /\ y = ReadField(x, f)
  BY <1>1, ReadGrows
<1>4. y \in Reading
  BY <1>2, <1>1, ReadGrows
<1> HIDE DEF x, y
<1>5. ~x.stats.ok => ~y.stats.ok
  BY <1>1, <1>3, FailedStays
<1>6. ASSUME x.stats.ok, x.due = 0, ~x.ended
      PROVE  y.stats = Tally(x.stats, a, d) /\ ~y.ended /\ y.due = IF t = EmptyText THEN 2 ELSE 0
  BY <1>1, <1>3, <1>6, RecordRead
<1> QED BY <1>2, <1>3, <1>4, <1>5, <1>6 DEF f, x, y

(* A path read after it.                                                  *)
LEMMA PathAppended ==
  ASSUME NEW l \in Seq(FieldText), NEW f \in DueText
  PROVE  LET x == Read(l)
             y == Read(Append(l, f))
         IN  /\ x \in Reading /\ y \in Reading /\ Append(l, f) \in Seq(FieldText)
             /\ ~x.stats.ok => ~y.stats.ok
             /\ x.stats.ok /\ x.due > 0 /\ ~x.ended =>
                  y.stats = x.stats /\ y.due = x.due - 1 /\ ~y.ended
PROOF
<1> DEFINE x == Read(l)
           y == Read(Append(l, f))
<1>1. f \in FieldText /\ f # EmptyField
  BY DEF DueText
<1>2. Append(l, f) \in Seq(FieldText)
  BY <1>1
<1>3. x \in Reading /\ y = ReadField(x, f)
  BY <1>1, ReadGrows
<1>4. y \in Reading
  BY <1>2, <1>1, ReadGrows
<1> HIDE DEF x, y
<1>5. ~x.stats.ok => ~y.stats.ok
  BY <1>1, <1>3, FailedStays
<1>6. ASSUME x.stats.ok, x.due > 0, ~x.ended
      PROVE  y.stats = x.stats /\ y.due = x.due - 1 /\ ~y.ended
  BY <1>1, <1>3, <1>6, DueRead
<1> QED BY <1>2, <1>3, <1>4, <1>5, <1>6 DEF x, y

(* One entry more is read as one entry more.                              *)
LEMMA EntryIsRead ==
  ASSUME NEW list \in Seq(DiffEntry), NEW e \in DiffEntry, IsRead(list)
  PROVE  IsRead(Append(list, e))
PROOF
<1> DEFINE longer == Append(list, e)
           l == Listing(list)
           m == Listing(longer)
           s == Totals(list)
           r == Totals(longer)
<1>1. l \in Seq(FieldText) /\ m = l \o PrintEntry(e)
  BY ListingGrows
<1>2. s \in Stats /\ r = IF s.ok THEN Tally(s, e.added, e.deleted) ELSE Failed
  BY TotalsGrow
<1>3. IF s.ok THEN Read(l).stats = s /\ Read(l).due = 0 /\ ~Read(l).ended ELSE ~Read(l).stats.ok
  BY DEF IsRead
<1>4. e.added \in Column /\ e.deleted \in Column /\ EmptyText \in Column /\ ~Failed.ok
  BY EntryPrinted DEF Column, Failed
<1> SUFFICES IF r.ok THEN Read(m).stats = r /\ Read(m).due = 0 /\ ~Read(m).ended ELSE ~Read(m).stats.ok
  BY DEF IsRead
<1> HIDE DEF longer, l, m, s, r
<1>5. CASE \E t \in Column \ {EmptyText} : PrintEntry(e) = << <<e.added, e.deleted, t>> >>
  <2>1. PICK t \in Column \ {EmptyText} : PrintEntry(e) = << <<e.added, e.deleted, t>> >>
    BY <1>5
  <2> DEFINE f == <<e.added, e.deleted, t>>
  <2>2. m = Append(l, f)
    <3>1. f \in FieldText
      BY <1>4, RecordIsField
    <3>2. PrintEntry(e) = <<f>>
      BY <2>1
    <3> HIDE DEF f
    <3> QED BY <1>1, <3>1, <3>2, PrintedIsAppended
  <2>3. /\ ~Read(l).stats.ok => ~Read(m).stats.ok
        /\ Read(l).stats.ok /\ Read(l).due = 0 /\ ~Read(l).ended =>
             Read(m).stats = Tally(Read(l).stats, e.added, e.deleted) /\ ~Read(m).ended /\ Read(m).due = 0
    BY <1>1, <1>4, <2>2, RecordAppended
  <2> QED BY <1>2, <1>3, <1>4, <2>3
<1>6. CASE \E old, new \in DueText : PrintEntry(e) = << <<e.added, e.deleted, EmptyText>>, old, new>>
  <2>1. PICK old \in DueText, new \in DueText : PrintEntry(e) = << <<e.added, e.deleted, EmptyText>>, old, new>>
    BY <1>6
  <2> DEFINE f == <<e.added, e.deleted, EmptyText>>
             l1 == Append(l, f)
             l2 == Append(l1, old)
  <2>2. m = Append(l2, new)
    <3>1. f \in FieldText /\ old \in FieldText /\ new \in FieldText
      BY <1>4, RecordIsField DEF DueText
    <3>2. PrintEntry(e) = <<f, old, new>>
      BY <2>1
    <3> HIDE DEF f
    <3> QED BY <1>1, <3>1, <3>2, PrintedIsAppended
  <2>3. /\ l1 \in Seq(FieldText) /\ Read(l1) \in Reading
        /\ ~Read(l).stats.ok => ~Read(l1).stats.ok
        /\ Read(l).stats.ok /\ Read(l).due = 0 /\ ~Read(l).ended =>
             Read(l1).stats = Tally(Read(l).stats, e.added, e.deleted) /\ ~Read(l1).ended /\ Read(l1).due = 2
    BY <1>1, <1>4, RecordAppended
  <2> HIDE DEF l1
  <2>4. /\ l2 \in Seq(FieldText)
        /\ ~Read(l1).stats.ok => ~Read(l2).stats.ok
        /\ Read(l1).stats.ok /\ Read(l1).due > 0 /\ ~Read(l1).ended =>
             Read(l2).stats = Read(l1).stats /\ Read(l2).due = Read(l1).due - 1 /\ ~Read(l2).ended
    BY <2>3, PathAppended
  <2> HIDE DEF l2
  <2>5. /\ ~Read(l2).stats.ok => ~Read(m).stats.ok
        /\ Read(l2).stats.ok /\ Read(l2).due > 0 /\ ~Read(l2).ended =>
             Read(m).stats = Read(l2).stats /\ Read(m).due = Read(l2).due - 1 /\ ~Read(m).ended
    BY <2>2, <2>4, PathAppended
  <2>6. CASE ~r.ok
    <3>1. CASE ~s.ok
      BY <3>1, <2>6, <1>3, <2>3, <2>4, <2>5
    <3>2. CASE s.ok
      <4>1. ~Read(l1).stats.ok
        BY <3>2, <2>6, <1>2, <1>3, <2>3
      <4> QED BY <4>1, <2>4, <2>5, <2>6
    <3> QED BY <3>1, <3>2
  <2>7. CASE r.ok
    <3>1. s.ok /\ r = Tally(s, e.added, e.deleted)
      BY <2>7, <1>2, <1>4
    <3>2. Read(l1).stats = r /\ ~Read(l1).ended /\ Read(l1).due = 2
      BY <3>1, <1>3, <2>3
    <3>3. Read(l2).stats = r /\ ~Read(l2).ended /\ Read(l2).due = 1
      BY <3>2, <2>4, <2>7
    <3> QED BY <3>3, <2>5, <2>7
  <2> QED BY <2>6, <2>7
<1> QED BY <1>5, <1>6, EntryPrinted

(* So a listing is read as its totals, whatever it lists.                 *)
LEMMA ListingIsRead ==
  ASSUME NEW list \in Seq(DiffEntry)
  PROVE  IsRead(list)
PROOF
<1> DEFINE T == {s \in Seq(DiffEntry) : IsRead(s)}
<1>1. <<>> \in T
  <2> DEFINE nil == <<>>
  <2>1. NoDiff.ok /\ Unread.stats = NoDiff /\ Unread.due = 0 /\ ~Unread.ended
    BY NothingCounted DEF Unread
  <2>2. nil \in Seq(DiffEntry) /\ Totals(nil) = NoDiff /\ Read(Listing(nil)) = Unread
    BY TotalsOfNothing, ListingOfNothing, ReadNothing
  <2> HIDE DEF nil
  <2>3. nil \in T
    BY <2>1, <2>2 DEF IsRead
  <2> QED BY <2>3 DEF nil
<1>2. ASSUME NEW s \in Seq(DiffEntry), NEW b \in DiffEntry, s \in T PROVE Append(s, b) \in T
  <2>1. Append(s, b) \in Seq(DiffEntry)
    OBVIOUS
  <2>2. IsRead(Append(s, b))
    BY <1>2, EntryIsRead
  <2> QED BY <2>1, <2>2
<1> HIDE DEF T
<1>3. Seq(DiffEntry) \subseteq T
  BY <1>1, <1>2, SequenceInduction
<1> QED BY <1>3 DEF T

(* A bounded set of numbers has a greatest one.                           *)
LEMMA MaxOfNumbers ==
  ASSUME NEW n \in Nat, NEW s \in SUBSET (0 .. n), s # {}
  PROVE  Max(s) \in s /\ \A y \in s : y <= Max(s)
PROOF
<1> DEFINE T == {k \in Nat : \E x \in s : k = n - x}
<1>1. T \in SUBSET Nat /\ T # {}
  <2>1. PICK x \in s : TRUE
    OBVIOUS
  <2>2. n - x \in T
    BY <2>1
  <2> QED BY <2>2
<1>2. PICK k \in T : \A j \in T : k <= j
  <2> HIDE DEF T
  <2> QED BY <1>1, LeastNumber
<1>3. PICK x \in s : k = n - x
  OBVIOUS
<1>4. \A y \in s : n - x <= n - y
  BY <1>2, <1>3
<1>5. \A y \in s : x >= y
  BY <1>4
<1>6. \E z \in s : \A y \in s : z >= y
  BY <1>5
<1>7. Max(s) \in s /\ \A y \in s : Max(s) >= y
  BY <1>6 DEF Max
<1> QED BY <1>7

(* The last field that is not empty.                                      *)
Kept(fields) == {0} \cup {i \in DOMAIN fields : fields[i] # EmptyField}

(* Where a stripped listing ends.                                         *)
LEMMA KeptFacts ==
  ASSUME NEW s \in Seq(FieldText), NEW n \in Nat, n = Len(s)
  PROVE  /\ Max(Kept(s)) \in Kept(s) /\ Max(Kept(s)) \in 0 .. n
         /\ \A y \in Kept(s) : y <= Max(Kept(s))
         /\ Stripped(s) = SubSeq(s, 1, Max(Kept(s)))
PROOF
<1>1. Kept(s) \in SUBSET (0 .. n) /\ Kept(s) # {}
  BY DEF Kept
<1>2. Max(Kept(s)) \in Kept(s) /\ \A y \in Kept(s) : y <= Max(Kept(s))
  BY <1>1, MaxOfNumbers
<1>3. Stripped(s) = SubSeq(s, 1, Max(Kept(s)))
  BY DEF Stripped, Kept
<1> QED BY <1>1, <1>2, <1>3

(* Prefixes of sequences.                                                 *)
LEMMA PrefixFacts ==
  ASSUME NEW S, NEW s \in Seq(S), NEW x \in S, NEW k \in 0 .. Len(s)
  PROVE  /\ SubSeq(s, 1, k) \in Seq(S) /\ Len(SubSeq(s, 1, k)) = k
         /\ \A i \in 1 .. k : SubSeq(s, 1, k)[i] = s[i]
         /\ SubSeq(Append(s, x), 1, k) = SubSeq(s, 1, k)
         /\ k = Len(s) => SubSeq(s, 1, k) = s
PROOF
<1>1. PICK n \in Nat : n = Len(s) /\ DOMAIN s = 1 .. n
  OBVIOUS
<1>2. k \in Nat /\ k <= n
  BY <1>1
<1> DEFINE p == SubSeq(s, 1, k)
           q == SubSeq(Append(s, x), 1, k)
<1>3. p \in Seq(S) /\ Len(p) = k
  BY <1>1, <1>2
<1>4. \A i \in 1 .. k : p[i] = s[i]
  BY <1>1, <1>2
<1>5. Append(s, x) \in Seq(S) /\ Len(Append(s, x)) = n + 1 /\ \A i \in 1 .. n : Append(s, x)[i] = s[i]
  BY <1>1
<1>6. q \in Seq(S) /\ Len(q) = k /\ \A i \in 1 .. k : q[i] = s[i]
  <2> DEFINE t == Append(s, x)
  <2> HIDE DEF t
  <2>1. t \in Seq(S) /\ Len(t) = n + 1 /\ \A i \in 1 .. n : t[i] = s[i]
    BY <1>5 DEF t
  <2>2. SubSeq(t, 1, k) \in Seq(S) /\ Len(SubSeq(t, 1, k)) = k
    BY <1>2, <2>1
  <2>3. \A i \in 1 .. k : SubSeq(t, 1, k)[i] = t[i]
    BY <1>2, <2>1
  <2> QED BY <2>1, <2>2, <2>3, <1>2 DEF t
<1>7. p = q
  <2> HIDE DEF p, q
  <2> QED BY <1>3, <1>4, <1>6, SeqEqual
<1>8. k = n => p = s
  <2> HIDE DEF p
  <2> QED BY <1>1, <1>3, <1>4, SeqEqual
<1> QED BY <1>1, <1>3, <1>4, <1>7, <1>8

(* Stripping takes empty fields off the end, and nothing else.            *)
LEMMA StrippedFacts ==
  ASSUME NEW s \in Seq(FieldText)
  PROVE  /\ Stripped(s) \in Seq(FieldText) /\ Len(Stripped(s)) <= Len(s)
         /\ \A i \in 1 .. Len(Stripped(s)) : i \in 1 .. Len(s) /\ Stripped(s)[i] = s[i]
         /\ Len(s) > 0 /\ s[Len(s)] # EmptyField => Stripped(s) = s
         /\ Len(s) = 0 => Stripped(s) = s
         /\ Stripped(Append(s, EmptyField)) = Stripped(s)
PROOF
<1>1. PICK n \in Nat : n = Len(s) /\ DOMAIN s = 1 .. n
  OBVIOUS
<1> DEFINE k == Max(Kept(s))
           f == EmptyField
           t == Append(s, f)
<1>2. f \in FieldText
  <2>1. EmptyText \in Column
    BY DEF Column
  <2> QED BY <2>1, OneOf DEF FieldText, EmptyField
<1>3. k \in Kept(s) /\ k \in 0 .. n /\ (\A y \in Kept(s) : y <= k) /\ Stripped(s) = SubSeq(s, 1, k)
  BY <1>1, KeptFacts
<1>4. t \in Seq(FieldText) /\ Len(t) = n + 1 /\ DOMAIN t = 1 .. n + 1 /\ t[n + 1] = f
      /\ \A i \in 1 .. n : t[i] = s[i]
  <2> HIDE DEF f
  <2> QED BY <1>1, <1>2
<1> HIDE DEF f, t
<1>5. Kept(t) = Kept(s)
  BY <1>1, <1>4 DEF Kept, f
<1>6. Stripped(t) = SubSeq(t, 1, k)
  <2>1. n + 1 \in Nat
    OBVIOUS
  <2> QED BY <1>4, <1>5, <2>1, KeptFacts
<1> HIDE DEF k
<1>7. /\ SubSeq(s, 1, k) \in Seq(FieldText) /\ Len(SubSeq(s, 1, k)) = k
      /\ \A i \in 1 .. k : SubSeq(s, 1, k)[i] = s[i]
      /\ SubSeq(t, 1, k) = SubSeq(s, 1, k)
      /\ k = Len(s) => SubSeq(s, 1, k) = s
  BY <1>1, <1>2, <1>3, PrefixFacts DEF t
<1>8. n > 0 /\ s[n] # EmptyField => k = n
  <2> SUFFICES ASSUME n > 0, s[n] # EmptyField PROVE k = n
    OBVIOUS
  <2>1. n \in Kept(s)
    BY <1>1 DEF Kept
  <2>2. n <= k
    BY <2>1, <1>3
  <2> QED BY <1>3, <2>2
<1>9. n = 0 => k = n
  BY <1>3
<1>10. k \in Nat /\ k <= n
  BY <1>3
<1> QED BY <1>1, <1>3, <1>6, <1>7, <1>8, <1>9, <1>10 DEF t, f

(* What is parsed is what is read, unless a path is still due.            *)
LEMMA ParsedIs ==
  ASSUME NEW s \in Seq(FieldText)
  PROVE  /\ ParseNumstatZ(s) = IF Read(s).due = 0 THEN Read(s).stats ELSE Failed
         /\ Read(s) \in Reading /\ Read(s).stats \in Stats /\ Read(s).due \in Nat
         /\ Read(s).ended \in BOOLEAN
         /\ ParseNumstatZ(s) \in Stats /\ (~ParseNumstatZ(s).ok => ParseNumstatZ(s) = Failed)
PROOF
<1>1. ParseNumstatZ(s) = IF Read(s).due = 0 THEN Read(s).stats ELSE Failed
  BY DEF ParseNumstatZ, Read
<1>2. Read(s) \in Reading
  <2>1. EmptyField \in FieldText
    BY RecordIsField DEF Column
  <2> QED BY <2>1, ReadGrows
<1>3. Read(s).stats \in Stats /\ Read(s).due \in Nat /\ Read(s).ended \in BOOLEAN
  BY <1>2 DEF Reading
<1>4. Failed \in Stats
  BY DEF Stats, Failed
<1>5. ParseNumstatZ(s) \in Stats
  BY <1>1, <1>3, <1>4
<1> QED BY <1>1, <1>2, <1>3, <1>5, NotOkIsFailed

(* An empty field at the end changes nothing.                             *)
LEMMA EmptyParsed ==
  ASSUME NEW s \in Seq(FieldText)
  PROVE  ParseNumstatZ(Append(s, EmptyField)) = ParseNumstatZ(s)
PROOF
<1> DEFINE f == EmptyField
           t == Append(s, f)
           x == Read(s)
           y == Read(t)
<1>1. f \in FieldText
  BY RecordIsField DEF Column
<1>2. t \in Seq(FieldText)
  <2> HIDE DEF f
  <2> QED BY <1>1
<1>3. x \in Reading /\ y \in Reading /\ y = ReadField(x, f)
  <2>1. x \in Reading /\ y = ReadField(x, f)
    <3> HIDE DEF f
    <3> QED BY <1>1, ReadGrows
  <2>2. y \in Reading
    <3> HIDE DEF t
    <3> QED BY <1>2, ParsedIs
  <2> QED BY <2>1, <2>2
<1>4. ParseNumstatZ(s) = IF x.due = 0 THEN x.stats ELSE Failed
  BY ParsedIs
<1>5. ParseNumstatZ(t) = IF y.due = 0 THEN y.stats ELSE Failed
  <2> HIDE DEF t
  <2> QED BY <1>2, ParsedIs
<1>6. /\ x.due \in Nat /\ y.due \in Nat /\ x.stats \in Stats /\ y.stats \in Stats
      /\ ~x.stats.ok => x.stats = Failed
      /\ ~y.stats.ok => y.stats = Failed
  BY <1>3, NotOkIsFailed DEF Reading
<1>7. x.stats.ok => /\ x.due = 0 => y.stats = x.stats /\ y.due = 0
                    /\ x.due > 0 => ~y.stats.ok
  BY <1>3, EmptyRead
<1>8. ~x.stats.ok => ~y.stats.ok
  BY <1>1, <1>3, FailedStays
<1> HIDE DEF x, y, t
<1>9. ParseNumstatZ(t) = ParseNumstatZ(s)
  BY <1>4, <1>5, <1>6, <1>7, <1>8
<1> QED BY <1>9 DEF t

(* So only what is left of a listing when it is stripped is parsed.       *)
LEMMA StrippedParsed ==
  ASSUME NEW s \in Seq(FieldText)
  PROVE  ParseNumstatZ(Stripped(s)) = ParseNumstatZ(s)
PROOF
<1> DEFINE T == {r \in Seq(FieldText) : ParseNumstatZ(Stripped(r)) = ParseNumstatZ(r)}
<1>1. <<>> \in T
  <2> DEFINE nil == <<>>
  <2>1. nil \in Seq(FieldText) /\ Len(nil) = 0
    OBVIOUS
  <2> HIDE DEF nil
  <2>2. nil \in T
    BY <2>1, StrippedFacts
  <2> QED BY <2>2 DEF nil
<1>2. ASSUME NEW r \in Seq(FieldText), NEW f \in FieldText, r \in T PROVE Append(r, f) \in T
  <2> DEFINE t == Append(r, f)
  <2>1. t \in Seq(FieldText) /\ Len(t) > 0 /\ t[Len(t)] = f
    OBVIOUS
  <2>2. CASE f = EmptyField
    <3>1. Stripped(t) = Stripped(r)
      BY <2>2, StrippedFacts
    <3>2. ParseNumstatZ(t) = ParseNumstatZ(r)
      BY <2>2, EmptyParsed
    <3> HIDE DEF t
    <3>3. t \in T
      BY <1>2, <2>1, <3>1, <3>2
    <3> QED BY <3>3 DEF t
  <2>3. CASE f # EmptyField
    <3> HIDE DEF t
    <3>1. Stripped(t) = t
      BY <2>1, <2>3, StrippedFacts
    <3>2. t \in T
      BY <2>1, <3>1
    <3> QED BY <3>2 DEF t
  <2> QED BY <2>2, <2>3
<1> HIDE DEF T
<1>3. Seq(FieldText) \subseteq T
  BY <1>1, <1>2, SequenceInduction
<1> QED BY <1>3 DEF T

(* What a listing lists can be told from its fields: no listing ends with *)
(* an empty field, and every entry takes at least one.                    *)
Listed(entries) ==
  /\ Stripped(Listing(entries)) = Listing(entries)
  /\ entries \in Seq(EntriesIn(Listing(entries)))
  /\ Len(entries) <= Len(Listing(entries))

(* What fields tell of, more fields tell of too.                          *)
LEMMA EntriesGrow ==
  ASSUME NEW s, NEW t, ToSet(s) \subseteq ToSet(t)
  PROVE  EntriesIn(s) \subseteq EntriesIn(t)
PROOF
<1> SUFFICES ASSUME NEW e \in EntriesIn(s) PROVE e \in EntriesIn(t)
  OBVIOUS
<1>1. PICK f \in ToSet(s) : /\ Len(f) = 3 /\ Counted(f[1], f[2])
                            /\ e \in [added : {f[1]}, deleted : {f[2]}, path : PathsIn(s, f)]
  BY DEF EntriesIn
<1>2. PathsIn(s, f) \subseteq PathsIn(t, f)
  BY DEF PathsIn
<1>3. e \in [added : {f[1]}, deleted : {f[2]}, path : PathsIn(t, f)]
  BY <1>1, <1>2
<1> QED BY <1>1, <1>3 DEF EntriesIn

(* The fields of a longer listing.                                        *)
LEMMA FieldsGrow ==
  ASSUME NEW S, NEW s \in Seq(S), NEW f \in S
  PROVE  ToSet(Append(s, f)) = ToSet(s) \cup {f}
PROOF
<1>1. PICK n \in Nat : n = Len(s) /\ DOMAIN s = 1 .. n
  OBVIOUS
<1>2. DOMAIN Append(s, f) = 1 .. n + 1 /\ Append(s, f)[n + 1] = f /\ \A i \in 1 .. n : Append(s, f)[i] = s[i]
  BY <1>1
<1> DEFINE t == Append(s, f)
<1> HIDE DEF t
<1>3. {t[i] : i \in 1 .. n + 1} = {s[i] : i \in 1 .. n} \cup {f}
  BY <1>2 DEF t
<1> QED BY <1>1, <1>2, <1>3 DEF ToSet, t

(* One entry more.                                                        *)
LEMMA EntryListed ==
  ASSUME NEW list \in Seq(DiffEntry), NEW e \in DiffEntry, Listed(list)
  PROVE  Listed(Append(list, e))
PROOF
<1> DEFINE longer == Append(list, e)
           l == Listing(list)
           m == Listing(longer)
           E == EntriesIn(m)
<1>1. l \in Seq(FieldText) /\ m = l \o PrintEntry(e)
  BY ListingGrows
<1>2. Stripped(l) = l /\ list \in Seq(EntriesIn(l)) /\ Len(list) <= Len(l)
  BY DEF Listed
<1>3. e.added \in Column /\ e.deleted \in Column /\ EmptyText \in Column /\ Counted(e.added, e.deleted)
  BY EntryPrinted DEF Column
<1>4. e = [added |-> e.added, deleted |-> e.deleted, path |-> e.path]
  BY DEF DiffEntry
<1>5. ASSUME NEW last \in FieldText, last # EmptyField, m \in Seq(FieldText), m # <<>>,
             m[Len(m)] = last, Len(m) > Len(l), ToSet(l) \subseteq ToSet(m), e \in E
      PROVE  Listed(longer)
  <2> HIDE DEF m
  <2>1. Stripped(m) = m
    <3>1. Len(m) > 0
      BY <1>5
    <3> QED BY <3>1, <1>5, StrippedFacts
  <2>2. EntriesIn(l) \subseteq E
    BY <1>5, EntriesGrow
  <2>3. longer \in Seq(E) /\ Len(longer) = Len(list) + 1
    <3>1. list \in Seq(E)
      BY <1>2, <2>2, SeqMonotonic
    <3> HIDE DEF E
    <3> QED BY <3>1, <1>5
  <2>4. Len(longer) <= Len(m)
    <3>1. Len(list) \in Nat /\ Len(l) \in Nat /\ Len(m) \in Nat
      <4> HIDE DEF l
      <4> QED BY <1>1, <1>5
    <3> QED BY <3>1, <2>3, <1>2, <1>5
  <2> QED BY <2>1, <2>3, <2>4 DEF Listed, m
<1>6. CASE \E t \in Column \ {EmptyText} : e.path = <<t>> /\ PrintEntry(e) = << <<e.added, e.deleted, t>> >>
  <2>1. PICK t \in Column \ {EmptyText} : e.path = <<t>> /\ PrintEntry(e) = << <<e.added, e.deleted, t>> >>
    BY <1>6
  <2> DEFINE f == <<e.added, e.deleted, t>>
  <2>2. f \in FieldText /\ f # EmptyField /\ Len(f) = 3 /\ f[1] = e.added /\ f[2] = e.deleted /\ f[3] = t
    BY <1>3, RecordIsField
  <2>3. PrintEntry(e) = <<f>>
    BY <2>1
  <2> HIDE DEF f
  <2>4. m = Append(l, f)
    BY <1>1, <2>2, <2>3, PrintedIsAppended
  <2>5. m \in Seq(FieldText) /\ m # <<>> /\ m[Len(m)] = f /\ Len(m) > Len(l)
    <3> HIDE DEF m, l
    <3> QED BY <1>1, <2>2, <2>4
  <2>6. ToSet(m) = ToSet(l) \cup {f}
    <3> HIDE DEF m, l
    <3> QED BY <1>1, <2>2, <2>4, FieldsGrow
  <2>7. e.path \in PathsIn(m, f)
    BY <2>1, <2>2 DEF PathsIn
  <2>8. e \in E
    <3>1. e \in [added : {f[1]}, deleted : {f[2]}, path : PathsIn(m, f)]
      BY <1>4, <2>2, <2>7
    <3>2. f \in ToSet(m) /\ Counted(f[1], f[2])
      BY <1>3, <2>2, <2>6
    <3> HIDE DEF m
    <3> QED BY <2>2, <3>1, <3>2 DEF EntriesIn
  <2>9. ToSet(l) \subseteq ToSet(m)
    BY <2>6
  <2> HIDE DEF m, l, E
  <2> QED BY <1>5, <2>2, <2>5, <2>8, <2>9
<1>7. CASE \E old, new \in DueText :
             e.path = <<old, new>> /\ PrintEntry(e) = << <<e.added, e.deleted, EmptyText>>, old, new>>
  <2>1. PICK old \in DueText, new \in DueText :
             e.path = <<old, new>> /\ PrintEntry(e) = << <<e.added, e.deleted, EmptyText>>, old, new>>
    BY <1>7
  <2> DEFINE f == <<e.added, e.deleted, EmptyText>>
             l1 == Append(l, f)
             l2 == Append(l1, old)
  <2>2. f \in FieldText /\ f # EmptyField /\ Len(f) = 3 /\ f[1] = e.added /\ f[2] = e.deleted /\ f[3] = EmptyText
    BY <1>3, RecordIsField
  <2>3. PrintEntry(e) = <<f, old, new>>
    BY <2>1
  <2>d. old \in FieldText /\ new \in FieldText /\ old # EmptyField /\ new # EmptyField
    BY DEF DueText
  <2> HIDE DEF f
  <2>4. m = Append(l2, new)
    BY <1>1, <2>2, <2>3, <2>d, PrintedIsAppended
  <2>5. l1 \in Seq(FieldText) /\ Len(l1) = Len(l) + 1 /\ ToSet(l1) = ToSet(l) \cup {f}
    <3> HIDE DEF l
    <3>1. l1 \in Seq(FieldText) /\ Len(l1) = Len(l) + 1
      BY <1>1, <2>2
    <3>2. ToSet(l1) = ToSet(l) \cup {f}
      BY <1>1, <2>2, FieldsGrow
    <3> QED BY <3>1, <3>2
  <2> HIDE DEF l1
  <2>6. l2 \in Seq(FieldText) /\ Len(l2) = Len(l1) + 1 /\ ToSet(l2) = ToSet(l1) \cup {old}
    <3>1. l2 \in Seq(FieldText) /\ Len(l2) = Len(l1) + 1
      BY <2>5, <2>d
    <3>2. ToSet(l2) = ToSet(l1) \cup {old}
      BY <2>5, <2>d, FieldsGrow
    <3> QED BY <3>1, <3>2
  <2> HIDE DEF l2, m
  <2>7. m \in Seq(FieldText) /\ Len(m) = Len(l2) + 1 /\ m # <<>> /\ m[Len(m)] = new
        /\ ToSet(m) = ToSet(l2) \cup {new}
    <3>1. m \in Seq(FieldText) /\ Len(m) = Len(l2) + 1 /\ m # <<>> /\ m[Len(m)] = new
      BY <2>6, <2>d, <2>4
    <3>2. ToSet(m) = ToSet(l2) \cup {new}
      BY <2>4, <2>6, <2>d, FieldsGrow
    <3> QED BY <3>1, <3>2
  <2>8. Len(m) > Len(l)
    <3>1. Len(l) \in Nat /\ Len(l1) \in Nat /\ Len(l2) \in Nat
      <4> HIDE DEF l
      <4> QED BY <1>1, <2>5, <2>6
    <3> QED BY <3>1, <2>5, <2>6, <2>7
  <2>9. f \in ToSet(m) /\ old \in ToSet(m) \ {EmptyField} /\ new \in ToSet(m) \ {EmptyField}
        /\ ToSet(l) \subseteq ToSet(m)
    BY <2>5, <2>6, <2>7, <2>d
  <2>10. e.path \in PathsIn(m, f)
    BY <2>1, <2>2, <2>9 DEF PathsIn
  <2>11. e \in E
    <3>1. e \in [added : {f[1]}, deleted : {f[2]}, path : PathsIn(m, f)]
      BY <1>4, <2>2, <2>10
    <3>2. f \in ToSet(m) /\ Counted(f[1], f[2])
      BY <1>3, <2>2, <2>9
    <3> QED BY <2>2, <3>1, <3>2 DEF EntriesIn
  <2> HIDE DEF l, E
  <2> QED BY <1>5, <2>d, <2>7, <2>8, <2>9, <2>11
<1> QED BY <1>6, <1>7, EntryPrinted

(* What any entries are printed as tells of just them.                    *)
LEMMA ListingListed ==
  ASSUME NEW list \in Seq(DiffEntry)
  PROVE  Listed(list)
PROOF
<1> DEFINE T == {s \in Seq(DiffEntry) : Listed(s)}
<1>1. <<>> \in T
  <2> DEFINE nil == <<>>
  <2>1. nil \in Seq(DiffEntry) /\ Len(nil) = 0 /\ nil \in Seq(FieldText) /\ nil \in Seq(EntriesIn(nil))
        /\ Listing(nil) = nil
    BY ListingOfNothing
  <2> HIDE DEF nil
  <2>2. nil \in T
    BY <2>1, StrippedFacts DEF Listed
  <2> QED BY <2>2 DEF nil
<1>2. ASSUME NEW s \in Seq(DiffEntry), NEW b \in DiffEntry, s \in T PROVE Append(s, b) \in T
  <2>1. Append(s, b) \in Seq(DiffEntry)
    OBVIOUS
  <2>2. Listed(Append(s, b))
    BY <1>2, EntryListed
  <2> QED BY <2>1, <2>2
<1> HIDE DEF T
<1>3. Seq(DiffEntry) \subseteq T
  BY <1>1, <1>2, SequenceInduction
<1> QED BY <1>3 DEF T

(* The columns of a record.                                               *)
LEMMA FirstThree ==
  ASSUME NEW S, NEW r \in Seq(S), Len(r) = 3
  PROVE  r[1] \in S /\ r[2] \in S /\ r[3] \in S
PROOF
<1>1. 1 \in 1 .. Len(r) /\ 2 \in 1 .. Len(r) /\ 3 \in 1 .. Len(r)
  OBVIOUS
<1>2. \A i \in 1 .. Len(r) : r[i] \in S
  BY ElementOfSeq
<1> QED BY <1>1, <1>2

(* Fields tell of entries.                                                *)
LEMMA EntriesAreEntries ==
  ASSUME NEW s \in Seq(FieldText)
  PROVE  EntriesIn(s) \subseteq DiffEntry
PROOF
<1> SUFFICES ASSUME NEW e \in EntriesIn(s) PROVE e \in DiffEntry
  OBVIOUS
<1>1. PICK f \in ToSet(s) : /\ Len(f) = 3 /\ Counted(f[1], f[2])
                            /\ e \in [added : {f[1]}, deleted : {f[2]}, path : PathsIn(s, f)]
  BY DEF EntriesIn
<1>2. ToSet(s) \subseteq FieldText
  BY DEF ToSet
<1>3. f[1] \in Column /\ f[2] \in Column /\ f[3] \in Column
  <2>1. f \in Seq(Column)
    BY <1>2 DEF FieldText
  <2>2. Len(f) = 3
    BY <1>1
  <2> QED BY <2>1, <2>2, FirstThree
<1>4. PathsIn(s, f) \subseteq DiffPath
  <2>1. CASE f[3] = EmptyText
    <3>1. PathsIn(s, f) = (ToSet(s) \ {EmptyField}) \X (ToSet(s) \ {EmptyField})
      BY <2>1 DEF PathsIn
    <3>2. ToSet(s) \ {EmptyField} \subseteq DueText
      BY <1>2 DEF DueText
    <3> DEFINE P == ToSet(s) \ {EmptyField}
    <3> HIDE DEF P
    <3>3. P \X P \subseteq DueText \X DueText
      BY <3>2 DEF P
    <3> QED BY <3>1, <3>3 DEF DiffPath, P
  <2>2. CASE f[3] # EmptyText
    <3>1. PathsIn(s, f) = {<<f[3]>>}
      BY <2>2 DEF PathsIn
    <3> QED BY <3>1, <2>2, <1>3 DEF DiffPath
  <2> QED BY <2>1, <2>2
<1>5. e \in [added : Column, deleted : Column, path : DiffPath]
  BY <1>1, <1>3, <1>4
<1>6. Counted(e.added, e.deleted)
  BY <1>1
<1> QED BY <1>5, <1>6 DEF DiffEntry

(* What has been read, while it is good, is a listing: with empty fields  *)
(* after it once it ended, or with a part of a rename.                    *)
Renaming(s, l) == \E a, d \in Column : Counted(a, d) /\ s = Append(l, <<a, d, EmptyText>>)

RenamingOld(s, l) ==
  \E a, d \in Column, old \in DueText :
    Counted(a, d) /\ s = Append(Append(l, <<a, d, EmptyText>>), old)

ListedBy(s, e) ==
  \/ /\ Read(s).due = 0 /\ Stripped(s) = Listing(e)
     /\ ~Read(s).ended => s = Listing(e)
  \/ /\ Read(s).due = 2 /\ ~Read(s).ended
     /\ Renaming(s, Listing(e))
  \/ /\ Read(s).due = 1 /\ ~Read(s).ended
     /\ RenamingOld(s, Listing(e))

(* A field of three columns.                                              *)
LEMMA ThreeColumns ==
  ASSUME NEW S, NEW f \in Seq(S), Len(f) = 3
  PROVE  f[1] \in S /\ f[2] \in S /\ f[3] \in S /\ f = <<f[1], f[2], f[3]>>
PROOF
<1>1. f[1] \in S /\ f[2] \in S /\ f[3] \in S
  BY FirstThree
<1> DEFINE g == <<f[1], f[2], f[3]>>
<1>2. g \in Seq(S)
  BY <1>1, ThreeOf
<1>3. Len(g) = 3 /\ g[1] = f[1] /\ g[2] = f[2] /\ g[3] = f[3]
  OBVIOUS
<1> HIDE DEF g
<1>4. \A i \in 1 .. Len(f) : f[i] = g[i]
  <2> SUFFICES ASSUME NEW i \in 1 .. 3 PROVE f[i] = g[i]
    OBVIOUS
  <2>1. i = 1 \/ i = 2 \/ i = 3
    OBVIOUS
  <2> QED BY <2>1, <1>3
<1>5. f = g
  BY <1>2, <1>3, <1>4, SeqEqual
<1> QED BY <1>1, <1>5 DEF g

(* A record of a path completes a listing.                                *)
LEMMA PathCompletes ==
  ASSUME NEW e \in Seq(DiffEntry), NEW a \in Column, NEW d \in Column, NEW t \in Column \ {EmptyText},
         Counted(a, d)
  PROVE  \E more \in Seq(DiffEntry) : Listing(more) = Append(Listing(e), <<a, d, t>>)
PROOF
<1> DEFINE f == <<a, d, t>>
           path == <<t>>
           x == [added |-> a, deleted |-> d, path |-> path]
<1>1. path \in DiffPath /\ Len(path) = 1 /\ path[1] = t
  BY DEF DiffPath
<1>2. x \in DiffEntry /\ x.path = path /\ x.added = a /\ x.deleted = d
  <2> HIDE DEF path
  <2> QED BY <1>1 DEF DiffEntry
<1>3. PrintEntry(x) = <<f>>
  <2> HIDE DEF path, x
  <2> QED BY <1>1, <1>2 DEF PrintEntry
<1>4. f \in FieldText
  BY RecordIsField
<1> HIDE DEF x, f
<1> DEFINE more == Append(e, x)
<1>5. more \in Seq(DiffEntry)
  BY <1>2
<1>6. Listing(e) \in Seq(FieldText) /\ Listing(more) = Listing(e) \o PrintEntry(x)
  BY <1>2, ListingGrows
<1>7. Listing(more) = Append(Listing(e), f)
  <2> DEFINE l == Listing(e)
  <2> HIDE DEF l, more
  <2>1. l \o <<f>> = Append(l, f)
    BY <1>4, <1>6, PrintedIsAppended DEF l
  <2> QED BY <1>3, <1>6, <2>1 DEF l
<1> HIDE DEF more
<1> QED BY <1>5, <1>7 DEF f

(* So do the two paths of a rename.                                       *)
LEMMA RenameCompletes ==
  ASSUME NEW e \in Seq(DiffEntry), NEW a \in Column, NEW d \in Column,
         NEW old \in DueText, NEW new \in DueText, Counted(a, d)
  PROVE  \E more \in Seq(DiffEntry) :
           Listing(more) = Append(Append(Append(Listing(e), <<a, d, EmptyText>>), old), new)
PROOF
<1> DEFINE f == <<a, d, EmptyText>>
           path == <<old, new>>
           x == [added |-> a, deleted |-> d, path |-> path]
<1>1. path \in DiffPath /\ Len(path) = 2 /\ path[1] = old /\ path[2] = new
  BY DEF DiffPath
<1>2. x \in DiffEntry /\ x.path = path /\ x.added = a /\ x.deleted = d
  <2> HIDE DEF path
  <2> QED BY <1>1 DEF DiffEntry
<1>3. PrintEntry(x) = <<f, old, new>>
  <2> HIDE DEF path, x
  <2>1. Len(x.path) # 1 /\ x.path[1] = old /\ x.path[2] = new
    BY <1>1, <1>2
  <2>2. PrintEntry(x) = << <<x.added, x.deleted, EmptyText>>, x.path[1], x.path[2]>>
    BY <2>1 DEF PrintEntry
  <2> QED BY <1>2, <2>1, <2>2
<1>4. f \in FieldText /\ old \in FieldText /\ new \in FieldText
  <2>1. EmptyText \in Column
    BY DEF Column
  <2> QED BY <2>1, RecordIsField DEF DueText
<1> HIDE DEF x, f
<1> DEFINE more == Append(e, x)
<1>5. more \in Seq(DiffEntry)
  BY <1>2
<1>6. Listing(e) \in Seq(FieldText) /\ Listing(more) = Listing(e) \o PrintEntry(x)
  BY <1>2, ListingGrows
<1>7. Listing(more) = Append(Append(Append(Listing(e), f), old), new)
  <2> DEFINE l == Listing(e)
  <2> HIDE DEF l, more
  <2>1. l \o <<f, old, new>> = Append(Append(Append(l, f), old), new)
    BY <1>4, <1>6, PrintedIsAppended DEF l
  <2> QED BY <1>3, <1>6, <2>1 DEF l
<1> HIDE DEF more
<1> QED BY <1>5, <1>7 DEF f

(* A listing is made of fields.                                           *)
LEMMA ListingIsText ==
  ASSUME NEW list \in Seq(DiffEntry)
  PROVE  Listing(list) \in Seq(FieldText)
PROOF
<1> DEFINE A == Seq(FieldText)
           B == DiffEntry
           op == PrintStep
           was == Listing(list)
<1>1. PICK st \in [0 .. Len(list) -> A] : Steps(st, op, <<>>, list, was)
  BY ListingSteps DEF Stepped
<1>2. st[Len(list)] = was
  BY <1>1 DEF Steps
<1>3. Len(list) \in 0 .. Len(list)
  OBVIOUS
<1> HIDE DEF A, was
<1>4. was \in A
  BY <1>2, <1>3
<1> QED BY <1>4 DEF was, A

(* A good reading of a field more.                                        *)
LEMMA FieldListed ==
  ASSUME NEW r \in Seq(FieldText), NEW f \in FieldText,
         NEW e \in Seq(DiffEntry), Read(r).stats.ok, ListedBy(r, e),
         Read(Append(r, f)).stats.ok
  PROVE  \E more \in Seq(DiffEntry) : ListedBy(Append(r, f), more)
PROOF
<1> DEFINE t == Append(r, f)
           x == Read(r)
           y == Read(t)
           l == Listing(e)
<1>1. x \in Reading /\ y = ReadField(x, f)
  BY ReadGrows
<1>2. t \in Seq(FieldText) /\ Len(t) > 0 /\ t[Len(t)] = f
  OBVIOUS
<1>3. l \in Seq(FieldText)
  BY ListingIsText
<1>4. x.stats.ok /\ y.stats.ok /\ x.due \in Nat
  BY <1>1 DEF Reading
<1>5. \/ x.due = 0 /\ Stripped(r) = l /\ (~x.ended => r = l)
      \/ x.due = 2 /\ ~x.ended /\ Renaming(r, l)
      \/ x.due = 1 /\ ~x.ended /\ RenamingOld(r, l)
  BY DEF ListedBy
<1>6. CASE f = EmptyField
  <2>1. x.due = 0 /\ y.stats = x.stats /\ y.due = 0 /\ y.ended
    BY <1>1, <1>4, <1>6, EmptyRead
  <2>2. Stripped(t) = Stripped(r)
    BY <1>6, StrippedFacts
  <2> HIDE DEF x, y, t, l
  <2>3. y.due = 0 /\ Stripped(t) = l /\ (~y.ended => t = l)
    BY <1>5, <2>1, <2>2
  <2> QED BY <2>3 DEF ListedBy, y, t, l
<1>7. CASE f # EmptyField
  <2>1. ~x.ended /\ (x.due = 0 => Len(f) = 3)
    <3> HIDE DEF x
    <3> QED BY <1>1, <1>4, <1>7, OddRead
  <2> HIDE DEF x, y, t
  <2>2. Stripped(t) = t
    BY <1>2, <1>7, StrippedFacts
  <2>3. CASE x.due = 0
    <3>1. f[1] \in Column /\ f[2] \in Column /\ f[3] \in Column /\ f = <<f[1], f[2], f[3]>>
      BY <2>1, <2>3, ThreeColumns DEF FieldText
    <3>2. y.stats = Tally(x.stats, f[1], f[2]) /\ ~y.ended /\ y.due = IF f[3] = EmptyText THEN 2 ELSE 0
      BY <1>1, <1>4, <1>7, <2>1, <2>3, RecordRead
    <3>3. Counted(f[1], f[2])
      BY <1>4, <3>2, TallyIsCounted
    <3>4. r = l
      BY <1>5, <2>1, <2>3
    <3>5. CASE f[3] = EmptyText
      <4>1. y.due = 2 /\ ~y.ended /\ t = Append(l, <<f[1], f[2], EmptyText>>)
        BY <3>1, <3>2, <3>4, <3>5 DEF t
      <4>2. Renaming(t, l)
        BY <4>1, <3>1, <3>3 DEF Renaming
      <4> QED BY <4>1, <4>2 DEF ListedBy, y, t, l
    <3>6. CASE f[3] # EmptyText
      <4>1. PICK more \in Seq(DiffEntry) : Listing(more) = Append(Listing(e), <<f[1], f[2], f[3]>>)
        BY <3>1, <3>3, <3>6, PathCompletes, ZenonT(60)
      <4>2. Listing(more) = t
        BY <4>1, <3>1, <3>4 DEF t, l
      <4>3. y.due = 0
        BY <3>2, <3>6
      <4>4. y.due = 0 /\ Stripped(t) = Listing(more) /\ (~y.ended => t = Listing(more))
        BY <2>2, <4>2, <4>3
      <4> QED BY <4>4 DEF ListedBy, y, t
    <3> QED BY <3>5, <3>6
  <2>4. CASE x.due > 0
    <3>1. y.stats = x.stats /\ y.due = x.due - 1 /\ ~y.ended
      BY <1>1, <1>4, <1>7, <2>1, <2>4, DueRead
    <3>2. f \in DueText
      BY <1>7 DEF DueText
    <3>3. CASE x.due = 2
      <4>1. PICK a \in Column, d \in Column : Counted(a, d) /\ r = Append(l, <<a, d, EmptyText>>)
        BY <1>5, <3>3 DEF Renaming
      <4>2. t = Append(Append(l, <<a, d, EmptyText>>), f)
        BY <4>1 DEF t
      <4>3. y.due = 1
        BY <3>1, <3>3
      <4>4. RenamingOld(t, l)
        BY <3>2, <4>1, <4>2 DEF RenamingOld
      <4> QED BY <3>1, <4>3, <4>4 DEF ListedBy, y, t, l
    <3>4. CASE x.due = 1
      <4>1. PICK a \in Column, d \in Column, old \in DueText :
              Counted(a, d) /\ r = Append(Append(l, <<a, d, EmptyText>>), old)
        <5>1. RenamingOld(r, l)
          BY <1>5, <3>4
        <5> QED BY <5>1 DEF RenamingOld
      <4>2. PICK more \in Seq(DiffEntry) :
              Listing(more) = Append(Append(Append(Listing(e), <<a, d, EmptyText>>), old), f)
        BY <4>1, <3>2, RenameCompletes, ZenonT(60)
      <4>3. Listing(more) = t
        BY <4>1, <4>2 DEF t, l
      <4>4. y.due = 0
        BY <3>1, <3>4
      <4>5. y.due = 0 /\ Stripped(t) = Listing(more) /\ (~y.ended => t = Listing(more))
        BY <2>2, <4>3, <4>4
      <4> QED BY <4>5 DEF ListedBy, y, t
    <3>5. x.due = 2 \/ x.due = 1
      BY <1>5, <2>4
    <3> QED BY <3>3, <3>4, <3>5
  <2> QED BY <2>3, <2>4, <1>4
<1> QED BY <1>6, <1>7

(* What is read well is a listing.                                        *)
LEMMA GoodIsListed ==
  ASSUME NEW s \in Seq(FieldText), Read(s).stats.ok
  PROVE  \E e \in Seq(DiffEntry) : ListedBy(s, e)
PROOF
<1> DEFINE T == {r \in Seq(FieldText) : Read(r).stats.ok => \E e \in Seq(DiffEntry) : ListedBy(r, e)}
<1>1. <<>> \in T
  <2> DEFINE nil == <<>>
  <2>1. nil \in Seq(FieldText) /\ nil \in Seq(DiffEntry) /\ Len(nil) = 0 /\ Listing(nil) = nil
        /\ Read(nil) = Unread
    BY ListingOfNothing, ReadNothing
  <2>2. Unread.due = 0
    BY DEF Unread
  <2> HIDE DEF nil
  <2>3. Stripped(nil) = nil
    BY <2>1, StrippedFacts
  <2>4. ListedBy(nil, nil)
    BY <2>1, <2>2, <2>3 DEF ListedBy
  <2>5. nil \in T
    BY <2>1, <2>4
  <2> QED BY <2>5 DEF nil
<1>2. ASSUME NEW r \in Seq(FieldText), NEW f \in FieldText, r \in T PROVE Append(r, f) \in T
  <2> DEFINE t == Append(r, f)
  <2>1. t \in Seq(FieldText)
    OBVIOUS
  <2>2. ASSUME Read(t).stats.ok PROVE \E e \in Seq(DiffEntry) : ListedBy(t, e)
    <3>1. Read(r) \in Reading /\ Read(t) = ReadField(Read(r), f)
      BY ReadGrows
    <3>2. Read(r).stats.ok
      BY <2>2, <3>1, FailedStays
    <3>3. PICK e \in Seq(DiffEntry) : ListedBy(r, e)
      BY <1>2, <3>2
    <3> QED BY <2>2, <3>2, <3>3, FieldListed
  <2> HIDE DEF t
  <2>3. t \in T
    BY <2>1, <2>2
  <2> QED BY <2>3 DEF t
<1> HIDE DEF T
<1>3. Seq(FieldText) \subseteq T
  BY <1>1, <1>2, SequenceInduction
<1> QED BY <1>3 DEF T

(* Sequences of bounded length are sequences.                             *)
LEMMA BoundedSequences ==
  ASSUME NEW S, NEW n \in Nat
  PROVE  /\ SeqOf(S, n) \subseteq Seq(S)
         /\ \A s \in Seq(S) : Len(s) <= n => s \in SeqOf(S, n)
PROOF
<1>1. ASSUME NEW s \in SeqOf(S, n) PROVE s \in Seq(S)
  <2>1. PICK m \in 0 .. n : s \in [1 .. m -> S]
    BY SMTT(60) DEF SeqOf
  <2> QED BY <2>1
<1>2. ASSUME NEW s \in Seq(S), Len(s) <= n PROVE s \in SeqOf(S, n)
  <2>1. Len(s) \in 0 .. n /\ s \in [1 .. Len(s) -> S]
    BY <1>2
  <2> QED BY <2>1 DEF SeqOf
<1> QED BY <1>1, <1>2

(* Totals are good, or those of a failure.                                *)
LEMMA TotalsAreStats ==
  ASSUME NEW list \in Seq(DiffEntry)
  PROVE  Totals(list) \in Stats
PROOF
<1> DEFINE T == {s \in Seq(DiffEntry) : Totals(s) \in Stats}
<1>1. <<>> \in T
  <2> DEFINE nil == <<>>
  <2>1. nil \in Seq(DiffEntry) /\ Totals(nil) = NoDiff
    BY TotalsOfNothing
  <2>2. NoDiff \in Stats
    BY NothingCounted DEF Stats
  <2> HIDE DEF nil
  <2>3. nil \in T
    BY <2>1, <2>2
  <2> QED BY <2>3 DEF nil
<1>2. ASSUME NEW s \in Seq(DiffEntry), NEW b \in DiffEntry, s \in T PROVE Append(s, b) \in T
  <2> DEFINE t == Append(s, b)
  <2>1. t \in Seq(DiffEntry)
    OBVIOUS
  <2> HIDE DEF t
  <2>2. Totals(t) \in Stats
    <3>1. Totals(t) = IF Totals(s).ok THEN Tally(Totals(s), b.added, b.deleted) ELSE Failed
      BY TotalsGrow DEF t
    <3>2. Totals(s) \in Stats
      BY <1>2
    <3>3. Totals(s).ok => Tally(Totals(s), b.added, b.deleted) \in Stats
      BY <3>2, TallyIsStats
    <3>4. Failed \in Stats
      BY DEF Stats, Failed
    <3> QED BY <3>1, <3>3, <3>4
  <2> QED BY <2>1, <2>2 DEF t
<1> HIDE DEF T
<1>3. Seq(DiffEntry) \subseteq T
  BY <1>1, <1>2, SequenceInduction
<1> QED BY <1>3 DEF T

(* What Git prints for entries is their listing and an empty field.       *)
LEMMA ToldIs ==
  ASSUME NEW fields, NEW e \in Seq(DiffEntry)
  PROVE  Tells(fields, e) <=> Listing(e) = Stripped(fields)
PROOF
<1>1. Listing(e) \in Seq(FieldText)
  BY ListingIsText
<1>2. Stripped(Listing(e)) = Listing(e)
  BY ListingListed DEF Listed
<1>3. Stripped(Append(Listing(e), EmptyField)) = Stripped(Listing(e))
  BY <1>1, StrippedFacts
<1> QED BY <1>2, <1>3 DEF Tells, PrintNumstat

(* The fields left of a listing are fields of it.                         *)
LEMMA StrippedEntries ==
  ASSUME NEW s \in Seq(FieldText)
  PROVE  EntriesIn(Stripped(s)) \subseteq EntriesIn(s)
PROOF
<1> DEFINE p == Stripped(s)
<1>1. p \in Seq(FieldText) /\ \A i \in 1 .. Len(p) : i \in 1 .. Len(s) /\ p[i] = s[i]
  BY StrippedFacts
<1> HIDE DEF p
<1>2. ToSet(p) \subseteq ToSet(s)
  <2>1. DOMAIN p = 1 .. Len(p) /\ DOMAIN s = 1 .. Len(s)
    BY <1>1
  <2> QED BY <1>1, <2>1 DEF ToSet
<1>3. EntriesIn(p) \subseteq EntriesIn(s)
  BY <1>2, EntriesGrow
<1> QED BY <1>3 DEF p

(* For every output of Git: what is parsed are the totals of the entries  *)
(* the output lists, and an output that lists none is refused             *)
(* (git/lib.rs, parse_numstat_z).                                         *)
THEOREM NumstatIsRead ==
  ASSUME NEW fields \in Seq(FieldText)
  PROVE  TotalsAgree(fields)
PROOF
<1> DEFINE parsed == ParseNumstatZ(fields)
           E == EntriesIn(fields)
           n == Len(fields)
           listings == {e \in SeqOf(E, n) : Tells(fields, e)}
<1>1. n \in Nat /\ E \subseteq DiffEntry
  BY EntriesAreEntries
<1>2. ASSUME NEW e \in listings PROVE parsed = Totals(e)
  <2>1. e \in Seq(DiffEntry) /\ Tells(fields, e)
    <3>1. e \in Seq(E)
      <4> HIDE DEF E, n
      <4> QED BY <1>1, BoundedSequences
    <3> QED BY <1>1, <3>1, SeqMonotonic
  <2>2. Listing(e) = Stripped(fields) /\ Listing(e) \in Seq(FieldText)
    BY <2>1, ToldIs, ListingIsText
  <2>3. parsed = ParseNumstatZ(Listing(e))
    BY <2>2, StrippedParsed
  <2> DEFINE l == Listing(e)
  <2>4. ParseNumstatZ(l) = (IF Read(l).due = 0 THEN Read(l).stats ELSE Failed)
        /\ Read(l).stats \in Stats
    <3> HIDE DEF l
    <3>1. l \in Seq(FieldText)
      BY <2>2 DEF l
    <3> QED BY <3>1, ParsedIs
  <2>5. IF Totals(e).ok THEN Read(l).stats = Totals(e) /\ Read(l).due = 0 ELSE ~Read(l).stats.ok
    BY <2>1, ListingIsRead DEF IsRead
  <2>6. Totals(e) \in Stats
    BY <2>1, TotalsAreStats
  <2> HIDE DEF l, parsed
  <2>7. ParseNumstatZ(l) = Totals(e)
    BY <2>4, <2>5, <2>6, NotOkIsFailed
  <2> QED BY <2>3, <2>7 DEF l
<1>3. ASSUME parsed # Failed PROVE listings # {}
  <2>1. parsed.ok /\ Read(fields).due = 0 /\ Read(fields).stats.ok
    BY <1>3, ParsedIs
  <2>2. PICK e \in Seq(DiffEntry) : ListedBy(fields, e)
    BY <2>1, GoodIsListed
  <2>3. Stripped(fields) = Listing(e)
    BY <2>1, <2>2 DEF ListedBy
  <2>4. e \in Seq(EntriesIn(Listing(e))) /\ Len(e) <= Len(Listing(e))
    BY ListingListed DEF Listed
  <2>5. EntriesIn(Stripped(fields)) \subseteq E /\ Len(Stripped(fields)) <= n
        /\ Stripped(fields) \in Seq(FieldText)
    BY StrippedEntries, StrippedFacts
  <2>6. e \in Seq(E)
    BY <2>3, <2>4, <2>5, SeqMonotonic
  <2>7. Len(e) <= n
    <3>1. Len(e) \in Nat /\ Len(Stripped(fields)) \in Nat
      BY <2>5
    <3> HIDE DEF n
    <3> QED BY <3>1, <1>1, <2>3, <2>4, <2>5
  <2>8. e \in SeqOf(E, n)
    <3> HIDE DEF E, n
    <3> QED BY <1>1, <2>6, <2>7, BoundedSequences
  <2>9. Tells(fields, e)
    BY <2>3, ToldIs
  <2> HIDE DEF E, n
  <2> QED BY <2>8, <2>9
<1>4. TotalsAgree(fields) <=> (\A e \in listings : parsed = Totals(e)) /\ (listings = {} => parsed = Failed)
  BY DEF TotalsAgree
<1> HIDE DEF listings, parsed
<1> QED BY <1>2, <1>3, <1>4

(* Inputs of the topic are fields.                                        *)
LEMMA FieldInputs ==
  ASSUME NEW s \in Inputs, s.topic = "numstat"
  PROVE  s \in FieldSamples
PROOF
<1>1. \A x \in PathSamples \cup CommandSamples \cup RulePathSamples \cup EventSamples \cup ListSamples : x.topic # "numstat"
  <2>1. \A T, P : \A x \in [topic : {"paths"}, tree : T, path : P] : x.topic # "numstat"
    OBVIOUS
  <2>2. \A x \in PathSamples : x.topic # "numstat"
    BY <2>1, Zenon DEF PathSamples
  <2> QED BY <2>2 DEF CommandSamples, RulePathSamples, EventSamples, ListSamples
<1>2. \A x \in PolicySamples \cup TemplateSamples \cup ProcessSamples \cup GroupSamples \cup ComparisonSamples : x.topic # "numstat"
  BY DEF PolicySamples, TemplateSamples, ProcessSamples, GroupSamples, ComparisonSamples
<1>3. \A x \in SuiteSamples \cup RevisionSamples \cup BattleSamples \cup TaskSamples : x.topic # "numstat"
  BY DEF SuiteSamples, RevisionSamples, BattleSamples, TaskSamples
<1>4. \A x \in SuiteDefinitionSamples \cup PlanSamples \cup ConfigSamples \cup ErrorSamples \cup {NoSample} : x.topic # "numstat"
  <2>1. \A x \in SuiteDefinitionSamples : x.topic # "numstat"
    BY DEF SuiteDefinitionSamples
  <2>2. \A x \in PlanSamples : x.topic # "numstat"
    BY DEF PlanSamples
  <2>3. \A x \in ErrorSamples : x.topic # "numstat"
    BY DEF ErrorSamples
  <2>4. \A x \in {NoSample} : x.topic # "numstat"
    BY DEF NoSample
  <2>5. \A P, I, A, E : \A x \in [topic : {"config"}, paths : P, id : I, agent : A, environment : E] : x.topic # "numstat"
    OBVIOUS
  <2>6. \A x \in ConfigSamples : x.topic # "numstat"
    BY <2>5, Zenon DEF ConfigSamples
  <2> QED BY <2>1, <2>2, <2>3, <2>4, <2>6
<1> QED BY <1>1, <1>2, <1>3, <1>4 DEF Inputs

(* The invariant of the run.                                              *)
THEOREM NumstatStays == Spec => []TotalsAreThoseOfTheDiff
PROOF
<1>1. ASSUME sample \in Inputs PROVE TotalsAreThoseOfTheDiff
  <2> SUFFICES ASSUME sample.topic = "numstat" PROVE TotalsAgree(sample.fields)
    BY DEF TotalsAreThoseOfTheDiff
  <2>1. sample.fields \in SeqOf(Fields, 3)
    <3>1. sample \in FieldSamples
      BY <1>1, FieldInputs
    <3> HIDE DEF Fields
    <3> QED BY <3>1 DEF FieldSamples
  <2>2. Fields \subseteq FieldText
    <3>1. \A S, R : S \subseteq R => Seq(S) \subseteq Seq(R)
      OBVIOUS
    <3>2. STRING \subseteq Column
      BY DEF Column
    <3> HIDE DEF Fields
    <3> QED BY <3>1, <3>2, FieldsAreTexts DEF FieldText
  <2>3. sample.fields \in Seq(Fields)
    <3> HIDE DEF Fields
    <3> QED BY <2>1, BoundedSequences
  <2> DEFINE fields == sample.fields
  <2> HIDE DEF Fields, fields
  <2>4. fields \in Seq(FieldText)
    BY <2>2, <2>3, SeqMonotonic DEF fields
  <2>5. TotalsAgree(fields)
    BY <2>4, NumstatIsRead
  <2> QED BY <2>5 DEF fields
<1> QED BY <1>1, InputsOnly, PTL

-----------------------------------------------------------------------------
(* Commands: an invocation matches when the executable behind its wrappers *)
(* is the forbidden one and the needed words follow in their order.        *)

(* How many of the needed words a word completes.                         *)
GreedyStep(B, needed) ==
  [p \in (0 .. Len(needed)) \X B |->
     IF p[1] < Len(needed) /\ p[2] = needed[p[1] + 1] THEN p[1] + 1 ELSE p[1]]

(* The words are matched one after the other.                             *)
LEMMA GreedySteps ==
  ASSUME NEW B, NEW needed \in Seq(B), NEW seq \in Seq(B)
  PROVE  Stepped(0 .. Len(needed), GreedyStep(B, needed), 0, seq, Greedy(seq, needed))
PROOF
<1> DEFINE Op(x, y) == IF x < Len(needed) /\ y = needed[x + 1] THEN x + 1 ELSE x
           A == 0 .. Len(needed)
           op == GreedyStep(B, needed)
           P(h) == h = [s \in SUBSET DOMAIN seq |->
                          IF s = {} THEN 0 ELSE Op(h[s \ {Max(s)}], seq[Max(s)])]
           g == CHOOSE h : P(h)
<1>1. 0 \in A /\ op \in [A \X B -> A] /\ \A x \in A, y \in B : op[<<x, y>>] = Op(x, y)
  <2>1. PICK n \in Nat : n = Len(needed)
    OBVIOUS
  <2>2. 0 \in A /\ \A x \in A, y \in B : Op(x, y) \in A
    BY <2>1
  <2>3. op = [p \in A \X B |-> Op(p[1], p[2])]
    BY DEF GreedyStep
  <2> HIDE DEF op, A, Op
  <2> QED BY <2>2, <2>3
<1>2. seq \in Seq(B)
  OBVIOUS
<1>3. P(g)
  <2>1. PICK f \in [SUBSET DOMAIN seq -> A] : Folds(f, op, 0, seq)
    <3> HIDE DEF op, Op, P, A
    <3> QED BY <1>1, <1>2, FoldDefined
  <2>2. ASSUME NEW s \in SUBSET DOMAIN seq, s # {}
        PROVE  f[s \ {Max(s)}] \in A /\ seq[Max(s)] \in B
    <3> HIDE DEF op, Op, P, A
    <3> QED BY <1>2, <2>2, NextOfFold
  <2>3. P(f)
    <3> HIDE DEF op, Op, A
    <3> QED BY <2>1, <2>2, <1>1 DEF Folds
  <2> HIDE DEF P
  <2> QED BY <2>3
<1>4. Greedy(seq, needed) = g[DOMAIN seq]
  BY DEF Greedy, FoldLeft, MapThenFoldSet
<1> HIDE DEF g
<1>5. g[{}] = 0
  <2> HIDE DEF Op, op
  <2> QED BY <1>3
<1>6. \A s \in SUBSET DOMAIN seq :
         s # {} /\ g[s \ {Max(s)}] \in A /\ seq[Max(s)] \in B => g[s] = op[<<g[s \ {Max(s)}], seq[Max(s)]>>]
  <2> HIDE DEF op, Op, A
  <2> QED BY <1>3, <1>1
<1>7. \E st \in [0 .. Len(seq) -> A] : Steps(st, op, 0, seq, g[DOMAIN seq])
  <2> HIDE DEF op, P, A
  <2> QED BY <1>1, <1>2, <1>5, <1>6, FoldPrefixes, ZenonT(60)
<1> HIDE DEF P
<1> QED BY <1>4, <1>7 DEF Stepped

(* The first m needed words lie in order among the first n words.         *)
Lies(needed, m, words, n) ==
  \E at \in [1 .. m -> 1 .. n] :
    /\ \A i \in 1 .. m : words[at[i]] = needed[i]
    /\ \A i, j \in 1 .. m : i < j => at[i] < at[j]

(* One word more: what lies there lay there before, or ends with it.      *)
LEMMA LiesOn ==
  ASSUME NEW B, NEW needed \in Seq(B), NEW words \in Seq(B), NEW n \in Nat, n < Len(words),
         NEW m \in Nat, m <= Len(needed)
  PROVE  /\ Lies(needed, m, words, n) => Lies(needed, m, words, n + 1)
         /\ Lies(needed, m, words, n) /\ m < Len(needed) /\ words[n + 1] = needed[m + 1]
            => Lies(needed, m + 1, words, n + 1)
         /\ Lies(needed, m, words, n + 1) /\ m > 0 =>
              \/ Lies(needed, m, words, n)
              \/ Lies(needed, m - 1, words, n) /\ words[n + 1] = needed[m]
PROOF
<1>1. ASSUME Lies(needed, m, words, n)
      PROVE  /\ Lies(needed, m, words, n + 1)
             /\ m < Len(needed) /\ words[n + 1] = needed[m + 1] => Lies(needed, m + 1, words, n + 1)
  <2>1. PICK at \in [1 .. m -> 1 .. n] : /\ \A i \in 1 .. m : words[at[i]] = needed[i]
                                         /\ \A i, j \in 1 .. m : i < j => at[i] < at[j]
    BY <1>1 DEF Lies
  <2>2. at \in [1 .. m -> 1 .. n + 1]
    OBVIOUS
  <2>3. Lies(needed, m, words, n + 1)
    BY <2>1, <2>2 DEF Lies
  <2>4. ASSUME words[n + 1] = needed[m + 1] PROVE Lies(needed, m + 1, words, n + 1)
    <3> DEFINE on == [i \in 1 .. m + 1 |-> IF i = m + 1 THEN n + 1 ELSE at[i]]
    <3>1. on \in [1 .. m + 1 -> 1 .. n + 1]
      OBVIOUS
    <3>2. \A i \in 1 .. m + 1 : words[on[i]] = needed[i]
      BY <2>1, <2>4
    <3>3. \A i, j \in 1 .. m + 1 : i < j => on[i] < on[j]
      BY <2>1
    <3> HIDE DEF on
    <3> QED BY <3>1, <3>2, <3>3 DEF Lies
  <2> QED BY <2>3, <2>4
<1>2. ASSUME Lies(needed, m, words, n + 1), m > 0
      PROVE  \/ Lies(needed, m, words, n)
             \/ Lies(needed, m - 1, words, n) /\ words[n + 1] = needed[m]
  <2>1. PICK at \in [1 .. m -> 1 .. n + 1] : /\ \A i \in 1 .. m : words[at[i]] = needed[i]
                                             /\ \A i, j \in 1 .. m : i < j => at[i] < at[j]
    BY <1>2 DEF Lies
  <2>2. at[m] \in 1 .. n + 1 /\ \A i \in 1 .. m - 1 : at[i] < at[m]
    BY <2>1, <1>2
  <2>3. CASE at[m] <= n
    <3>1. at \in [1 .. m -> 1 .. n]
      <4>1. \A i \in 1 .. m : at[i] \in 1 .. n
        BY <2>2, <2>3
      <4> QED BY <4>1
    <3> QED BY <2>1, <3>1 DEF Lies
  <2>4. CASE at[m] = n + 1
    <3> DEFINE less == [i \in 1 .. m - 1 |-> at[i]]
    <3>1. less \in [1 .. m - 1 -> 1 .. n]
      BY <2>2, <2>4
    <3>2. \A i \in 1 .. m - 1 : words[less[i]] = needed[i]
      BY <2>1
    <3>3. \A i, j \in 1 .. m - 1 : i < j => less[i] < less[j]
      BY <2>1
    <3>4. words[n + 1] = needed[m]
      BY <2>1, <2>4, <1>2
    <3> HIDE DEF less
    <3> QED BY <3>1, <3>2, <3>3, <3>4 DEF Lies
  <2> QED BY <2>2, <2>3, <2>4
<1> QED BY <1>1, <1>2

(* What is one too many.                                                  *)
LEMMA OneMore == \A m, w \in Nat : m - 1 <= w => m <= w \/ m = w + 1
PROOF
<1> QED OBVIOUS

(* Taking each needed word where it first occurs finds them whenever they *)
(* are there: the count is the greatest number that lies in order.        *)
LEMMA GreedyIsMost ==
  ASSUME NEW B, NEW needed \in Seq(B), NEW words \in Seq(B)
  PROVE  /\ Greedy(words, needed) \in 0 .. Len(needed)
         /\ \A m \in 0 .. Len(needed) :
              Lies(needed, m, words, Len(words)) <=> m <= Greedy(words, needed)
PROOF
<1>1. PICK k \in Nat : k = Len(needed)
  OBVIOUS
<1>2. PICK l \in Nat : l = Len(words)
  OBVIOUS
<1> DEFINE op == GreedyStep(B, needed)
<1>3. PICK st \in [0 .. l -> 0 .. k] : Steps(st, op, 0, words, Greedy(words, needed))
  BY GreedySteps, <1>1, <1>2 DEF Stepped
<1>4. st[0] = 0 /\ st[l] = Greedy(words, needed)
  BY <1>2, <1>3 DEF Steps
<1>5. \A n \in 0 .. l - 1 :
         st[n + 1] = IF st[n] < k /\ words[n + 1] = needed[st[n] + 1] THEN st[n] + 1 ELSE st[n]
  <2> SUFFICES ASSUME NEW n \in 0 .. l - 1
               PROVE  st[n + 1] = IF st[n] < k /\ words[n + 1] = needed[st[n] + 1] THEN st[n] + 1 ELSE st[n]
    OBVIOUS
  <2>1. st[n + 1] = op[<<st[n], words[n + 1]>>]
    BY <1>2, <1>3 DEF Steps
  <2>2. st[n] \in 0 .. k /\ words[n + 1] \in B
    BY <1>2
  <2> QED BY <2>1, <2>2, <1>1 DEF GreedyStep
<1> DEFINE Fits(n) == \A m \in 0 .. k : Lies(needed, m, words, n) <=> m <= st[n]
           T == {n \in Nat : n <= l => Fits(n)}
<1>6. 0 \in T
  <2> SUFFICES ASSUME NEW m \in 0 .. k PROVE Lies(needed, m, words, 0) <=> m <= 0
    BY <1>4
  <2>1. CASE m = 0
    <3> DEFINE no == [i \in 1 .. 0 |-> 1]
    <3>1. no \in [1 .. m -> 1 .. 0]
      BY <2>1
    <3>2. Lies(needed, m, words, 0)
      <4>1. \A i \in 1 .. m : FALSE
        BY <2>1
      <4> HIDE DEF no
      <4> QED BY <2>1, <3>1, <4>1, SMTT(30) DEF Lies
    <3> QED BY <2>1, <3>2
  <2>2. CASE m > 0
    <3>0. 1 \in 1 .. m /\ ~(m <= 0) /\ \A i \in 1 .. 0 : FALSE
      BY <2>2
    <3>1. ASSUME NEW at \in [1 .. m -> 1 .. 0] PROVE FALSE
      <4>1. at[1] \in 1 .. 0
        BY <3>0
      <4> QED BY <4>1, <3>0
    <3>2. ~Lies(needed, m, words, 0)
      BY <3>1 DEF Lies
    <3> QED BY <3>0, <3>2
  <2> QED BY <2>1, <2>2
<1>7. ASSUME NEW n \in Nat, n \in T PROVE n + 1 \in T
  <2> SUFFICES ASSUME n + 1 <= l PROVE Fits(n + 1)
    OBVIOUS
  <2>1. n < Len(words) /\ n \in 0 .. l - 1 /\ Fits(n) /\ st[n] \in 0 .. k
    BY <1>7, <1>2
  <2> PICK was \in Nat : was = st[n]
    BY <2>1
  <2> PICK is \in Nat : is = st[n + 1]
    BY <1>7, <1>2
  <2>o. is = IF was < k /\ words[n + 1] = needed[was + 1] THEN was + 1 ELSE was
    BY <2>1, <1>5
  <2>f. was <= k /\ was <= is /\ \A m \in 0 .. k : Lies(needed, m, words, n) <=> m <= was
    BY <2>1, <2>o
  <2>2. ASSUME NEW m \in 0 .. k, Lies(needed, m, words, n + 1) PROVE m <= is
    <3>1. CASE m = 0
      BY <3>1
    <3>2. CASE m > 0 /\ Lies(needed, m, words, n)
      BY <2>f, <3>2
    <3>3. CASE m > 0 /\ Lies(needed, m - 1, words, n) /\ words[n + 1] = needed[m]
      <4>0. m - 1 \in 0 .. k /\ m \in Nat
        BY <3>3
      <4>1. m - 1 <= was
        BY <2>f, <3>3, <4>0
      <4>2. m <= was \/ m = was + 1
        BY <4>0, <4>1, OneMore
      <4>3. m = was + 1 => is = was + 1
        BY <2>o, <3>3
      <4> QED BY <4>2, <4>3, <2>f
    <3>4. m = 0 \/ (m > 0 /\ (Lies(needed, m, words, n) \/ (Lies(needed, m - 1, words, n) /\ words[n + 1] = needed[m])))
      <4>1. m \in Nat /\ m <= Len(needed) /\ n < Len(words)
        BY <1>1, <2>1
      <4> HIDE DEF T, Fits, op
      <4>2. m > 0 => Lies(needed, m, words, n) \/ (Lies(needed, m - 1, words, n) /\ words[n + 1] = needed[m])
        BY <4>1, <2>2, LiesOn
      <4> QED BY <4>1, <4>2
    <3> QED BY <3>1, <3>2, <3>3, <3>4
  <2>3. ASSUME NEW m \in 0 .. k, m <= is PROVE Lies(needed, m, words, n + 1)
    <3>1. CASE m <= was
      <4>1. Lies(needed, m, words, n)
        BY <2>f, <3>1
      <4> QED BY <4>1, <2>1, <1>1, LiesOn
    <3>2. CASE m > was
      <4>1. m = was + 1 /\ was < k /\ words[n + 1] = needed[was + 1]
        BY <2>o, <2>3, <3>2
      <4>2. Lies(needed, was, words, n)
        BY <2>f
      <4> QED BY <4>1, <4>2, <2>1, <1>1, LiesOn
    <3> QED BY <3>1, <3>2
  <2> QED BY <2>2, <2>3
<1>8. l \in T
  <2> HIDE DEF T
  <2> QED BY <1>6, <1>7, Induction
<1> QED BY <1>1, <1>2, <1>4, <1>8

(* All of them are found exactly when they are embedded.                  *)
LEMMA GreedyIsEmbedded ==
  ASSUME NEW B, NEW needed \in Seq(B), NEW words \in Seq(B)
  PROVE  Greedy(words, needed) = Len(needed) <=> Embeds(needed, words)
PROOF
<1>1. Greedy(words, needed) = Len(needed) <=> Lies(needed, Len(needed), words, Len(words))
  <2>1. PICK k \in Nat : k = Len(needed)
    OBVIOUS
  <2>2. k \in 0 .. k /\ Greedy(words, needed) \in 0 .. k
    BY <2>1, GreedyIsMost
  <2>3. Lies(needed, k, words, Len(words)) <=> k <= Greedy(words, needed)
    BY <2>1, <2>2, GreedyIsMost
  <2> QED BY <2>1, <2>2, <2>3
<1>2. DOMAIN needed = 1 .. Len(needed) /\ DOMAIN words = 1 .. Len(words)
  OBVIOUS
<1> QED BY <1>1, <1>2 DEF Lies, Embeds

(* The rest of a sequence from one of its elements on.                    *)
LEMMA RestFacts ==
  ASSUME NEW B, NEW s \in Seq(B), NEW n \in 1 .. Len(s)
  PROVE  /\ SubSeq(s, n, Len(s)) \in Seq(B)
         /\ Len(SubSeq(s, n, Len(s))) = Len(s) - n + 1
         /\ \A i \in 1 .. Len(s) - n + 1 : SubSeq(s, n, Len(s))[i] = s[n + i - 1]
PROOF
<1> QED OBVIOUS

(* Leading options are dropped, up to the first word that is none.        *)
LEMMA OptionsDropped ==
  ASSUME NEW B, NEW s \in Seq(B), NEW options
  PROVE  /\ (\A i \in 1 .. Len(s) : s[i] \in options) => AfterOptions(s, options) = <<>>
         /\ \A n \in 1 .. Len(s) :
              s[n] \notin options /\ (\A i \in 1 .. n - 1 : s[i] \in options)
              => AfterOptions(s, options) = SubSeq(s, n, Len(s))
PROOF
<1> DEFINE I == {i \in 1 .. Len(s) : s[i] \notin options}
           first == IF I # {} THEN Min(I) ELSE 0
<1>1. AfterOptions(s, options) = IF first = 0 THEN <<>> ELSE SubSeq(s, first, Len(s))
  BY DEF AfterOptions, SelectInSeq
<1>2. ASSUME \A i \in 1 .. Len(s) : s[i] \in options PROVE AfterOptions(s, options) = <<>>
  <2>1. I = {}
    BY <1>2
  <2> QED BY <2>1, <1>1
<1>3. ASSUME NEW n \in 1 .. Len(s), s[n] \notin options, \A i \in 1 .. n - 1 : s[i] \in options
      PROVE  AfterOptions(s, options) = SubSeq(s, n, Len(s))
  <2>1. n \in I /\ \A i \in I : n <= i
    BY <1>3
  <2>2. \A i \in I : i \in Nat
    OBVIOUS
  <2>3. Min(I) = n
    <3> DEFINE G(x) == x \in I /\ \A i \in I : x <= i
    <3>1. G(n) /\ \A x : G(x) => x = n
      <4>1. ASSUME NEW x, G(x) PROVE x = n
        <5>1. x \in Nat /\ n \in Nat /\ x <= n /\ n <= x
          BY <2>1, <2>2, <4>1
        <5> QED BY <5>1
      <4> QED BY <2>1, <4>1
    <3>2. Min(I) = CHOOSE x : G(x)
      BY DEF Min
    <3> HIDE DEF G
    <3> QED BY <3>1, <3>2
  <2>4. first = n /\ first # 0
    BY <2>1, <2>3
  <2> HIDE DEF first
  <2> QED BY <1>1, <2>4
<1> QED BY <1>2, <1>3

(* There is a first word that is no option, or there are only options.    *)
LEMMA FirstWord ==
  ASSUME NEW B, NEW s \in Seq(B), NEW options
  PROVE  \/ \A i \in 1 .. Len(s) : s[i] \in options
         \/ \E n \in 1 .. Len(s) : s[n] \notin options /\ \A i \in 1 .. n - 1 : s[i] \in options
PROOF
<1> SUFFICES ASSUME NEW k \in 1 .. Len(s), s[k] \notin options
             PROVE  \E n \in 1 .. Len(s) : s[n] \notin options /\ \A i \in 1 .. n - 1 : s[i] \in options
  OBVIOUS
<1> DEFINE I == {i \in 1 .. Len(s) : s[i] \notin options}
<1>1. I \in SUBSET Nat /\ I # {}
  OBVIOUS
<1>2. PICK n \in I : \A i \in I : n <= i
  <2> HIDE DEF I
  <2> QED BY <1>1, LeastNumber
<1>3. \A i \in 1 .. n - 1 : s[i] \in options
  <2> SUFFICES ASSUME NEW i \in 1 .. n - 1, s[i] \notin options PROVE FALSE
    OBVIOUS
  <2>1. i \in I /\ i < n
    OBVIOUS
  <2> QED BY <2>1, <1>2
<1> QED BY <1>2, <1>3

(* How long the rest of a sequence is from its n-th element on.           *)
LEMMA RestLength ==
  ASSUME NEW l \in Nat, NEW n \in 1 .. l
  PROVE  l - n + 1 \in Nat /\ (l - n + 1) + 1 = l - n + 2
PROOF OBVIOUS

(* What dropping options leaves of a sequence, of a longer one, and of    *)
(* one that options were put before.                                      *)
LEMMA OptionsLeave ==
  ASSUME NEW B, NEW s \in Seq(B), NEW options
  PROVE  /\ AfterOptions(s, options) \in Seq(B) /\ Len(AfterOptions(s, options)) <= Len(s)
         /\ \A w \in B : AfterOptions(s, options) # <<>> =>
                           AfterOptions(Append(s, w), options) = Append(AfterOptions(s, options), w)
         /\ \A before \in Seq(B) :
              (\A i \in 1 .. Len(before) : before[i] \in options) /\ s # <<>> /\ s[1] \notin options
              => AfterOptions(before \o s, options) = s
PROOF
<1>1. AfterOptions(s, options) \in Seq(B) /\ Len(AfterOptions(s, options)) <= Len(s)
  <2>1. CASE \A i \in 1 .. Len(s) : s[i] \in options
    <3>1. AfterOptions(s, options) = <<>>
      BY <2>1, OptionsDropped
    <3> QED BY <3>1
  <2>2. ASSUME NEW n \in 1 .. Len(s), s[n] \notin options, \A i \in 1 .. n - 1 : s[i] \in options
        PROVE  AfterOptions(s, options) \in Seq(B) /\ Len(AfterOptions(s, options)) <= Len(s)
    <3>1. AfterOptions(s, options) = SubSeq(s, n, Len(s))
      BY <2>2, OptionsDropped
    <3>2. SubSeq(s, n, Len(s)) \in Seq(B) /\ Len(SubSeq(s, n, Len(s))) = Len(s) - n + 1
      BY RestFacts
    <3>3. Len(s) - n + 1 <= Len(s)
      OBVIOUS
    <3> QED BY <3>1, <3>2, <3>3
  <2> QED BY <2>1, <2>2, FirstWord
<1>2. ASSUME NEW w \in B, AfterOptions(s, options) # <<>>
      PROVE  AfterOptions(Append(s, w), options) = Append(AfterOptions(s, options), w)
  <2>1. ~ \A i \in 1 .. Len(s) : s[i] \in options
    BY <1>2, OptionsDropped
  <2>2. PICK n \in 1 .. Len(s) : s[n] \notin options /\ \A i \in 1 .. n - 1 : s[i] \in options
    BY <2>1, FirstWord
  <2> DEFINE t == Append(s, w)
             rest == SubSeq(s, n, Len(s))
  <2>3. t \in Seq(B) /\ Len(t) = Len(s) + 1 /\ t[Len(s) + 1] = w /\ \A i \in 1 .. Len(s) : t[i] = s[i]
    OBVIOUS
  <2>4. n \in 1 .. Len(t) /\ t[n] \notin options /\ \A i \in 1 .. n - 1 : t[i] \in options
    <3> HIDE DEF t
    <3> QED BY <2>2, <2>3
  <2>5. AfterOptions(s, options) = rest
    BY <2>2, OptionsDropped
  <2>6. AfterOptions(t, options) = SubSeq(t, n, Len(t))
    <3> HIDE DEF t
    <3> QED BY <2>3, <2>4, OptionsDropped
  <2>7. rest \in Seq(B) /\ Len(rest) = Len(s) - n + 1 /\ \A i \in 1 .. Len(s) - n + 1 : rest[i] = s[n + i - 1]
    BY RestFacts
  <2>8. /\ SubSeq(t, n, Len(t)) \in Seq(B) /\ Len(SubSeq(t, n, Len(t))) = Len(s) - n + 2
        /\ \A i \in 1 .. Len(s) - n + 2 : SubSeq(t, n, Len(t))[i] = t[n + i - 1]
    <3>1. Len(t) - n + 1 = Len(s) - n + 2
      <4> HIDE DEF t
      <4> QED BY <2>3
    <3> HIDE DEF t
    <3> QED BY <2>3, <2>4, <3>1, RestFacts, SMTT(30)
  <2> DEFINE one == SubSeq(t, n, Len(t))
             two == Append(rest, w)
  <2>a. PICK k \in Nat : k = Len(s) - n + 1 /\ k + 1 = Len(s) - n + 2
    <3>1. Len(s) \in Nat
      OBVIOUS
    <3> HIDE DEF t, rest, one, two
    <3>2. Len(s) - n + 1 \in Nat /\ (Len(s) - n + 1) + 1 = Len(s) - n + 2
      BY <3>1, RestLength
    <3> QED BY <3>2, Zenon
  <2>b. two \in Seq(B) /\ Len(two) = k + 1 /\ two[k + 1] = w /\ \A i \in 1 .. k : two[i] = rest[i]
    <3>1. rest \in Seq(B) /\ Len(rest) = k
      BY <2>7, <2>a
    <3> HIDE DEF rest
    <3> QED BY <3>1
  <2>9. two \in Seq(B) /\ Len(two) = Len(s) - n + 2
    BY <2>a, <2>b
  <2>10. ASSUME NEW i \in 1 .. Len(s) - n + 2 PROVE one[i] = two[i]
    <3>1. CASE i = Len(s) - n + 2
      <4>1. one[i] = t[Len(s) + 1]
        <5>1. n + i - 1 = Len(s) + 1
          BY <3>1
        <5> HIDE DEF t
        <5> QED BY <2>8, <5>1
      <4>2. two[i] = w
        BY <2>a, <2>b, <3>1
      <4> QED BY <4>1, <4>2, <2>3
    <3>2. CASE i \in 1 .. Len(s) - n + 1
      <4>1. one[i] = t[n + i - 1]
        <5> HIDE DEF t
        <5> QED BY <2>8
      <4>2. n + i - 1 \in 1 .. Len(s)
        BY <3>2
      <4>3. two[i] = rest[i]
        <5> HIDE DEF rest, two
        <5> QED BY <2>a, <2>b, <3>2
      <4> HIDE DEF rest, t, one, two
      <4> QED BY <4>1, <4>2, <4>3, <2>3, <2>7, <3>2
    <3> QED BY <3>1, <3>2
  <2>11. one = two
    <3> HIDE DEF one, two
    <3> QED BY <2>8, <2>9, <2>10, SameSequence DEF one
  <2> QED BY <2>5, <2>6, <2>11
<1>3. ASSUME NEW before \in Seq(B), \A i \in 1 .. Len(before) : before[i] \in options,
             s # <<>>, s[1] \notin options
      PROVE  AfterOptions(before \o s, options) = s
  <2> DEFINE t == before \o s
             n == Len(before) + 1
  <2>1. t \in Seq(B) /\ Len(t) = Len(before) + Len(s)
    OBVIOUS
  <2>2. /\ \A i \in 1 .. Len(before) : t[i] = before[i]
        /\ \A i \in 1 .. Len(s) : t[Len(before) + i] = s[i]
    OBVIOUS
  <2>3. n \in 1 .. Len(t) /\ 1 \in 1 .. Len(s)
    BY <1>3, <2>1
  <2>4. t[n] \notin options /\ \A i \in 1 .. n - 1 : t[i] \in options
    <3> HIDE DEF t
    <3> QED BY <1>3, <2>2, <2>3
  <2>5. AfterOptions(t, options) = SubSeq(t, n, Len(t))
    <3> HIDE DEF t, n
    <3> QED BY <2>1, <2>3, <2>4, OptionsDropped
  <2> DEFINE one == SubSeq(t, n, Len(t))
  <2>6. /\ one \in Seq(B) /\ Len(one) = Len(t) - n + 1
        /\ \A i \in 1 .. Len(t) - n + 1 : one[i] = t[n + i - 1]
    <3> HIDE DEF t, n
    <3> QED BY <2>1, <2>3, RestFacts
  <2>7. Len(one) = Len(s)
    <3> HIDE DEF one
    <3> QED BY <2>6, <2>1
  <2>8. ASSUME NEW i \in 1 .. Len(s) PROVE one[i] = s[i]
    <3>1. i \in 1 .. Len(t) - n + 1 /\ n + i - 1 = Len(before) + i
      <4> HIDE DEF t
      <4> QED BY <2>1
    <3>2. one[i] = t[n + i - 1]
      <4> HIDE DEF one, t, n
      <4> QED BY <2>6, <3>1
    <3>3. t[n + i - 1] = t[Len(before) + i]
      <4> HIDE DEF t, n
      <4> QED BY <3>1
    <3>4. t[Len(before) + i] = s[i]
      BY <2>2
    <3> HIDE DEF t, n, one
    <3> QED BY <3>2, <3>3, <3>4
  <2>9. one = s
    <3> HIDE DEF one
    <3> QED BY <2>6, <2>7, <2>8, SameSequence
  <2> QED BY <2>5, <2>9
<1> QED BY <1>1, <1>2, <1>3

(* The first word and the others, of a sequence that grows at its end or  *)
(* at its front.                                                          *)
LEMMA HeadAndTail ==
  ASSUME NEW B, NEW s \in Seq(B), s # <<>>
  PROVE  /\ s[1] \in B /\ Tail(s) \in Seq(B) /\ Len(s) \in Nat /\ Len(Tail(s)) = Len(s) - 1
         /\ \A w \in B : /\ Append(s, w)[1] = s[1]
                         /\ Tail(Append(s, w)) = Append(Tail(s), w)
                         /\ Append(s, w) # <<>> /\ Append(s, w) \in Seq(B)
PROOF
<1> QED OBVIOUS

(* What a word and options in front of a sequence make of it.             *)
LEMMA FrontedFacts ==
  ASSUME NEW B, NEW s \in Seq(B), NEW before \in Seq(B), NEW v \in B
  PROVE  LET t == <<v>> \o before \o s IN
         t \in Seq(B) /\ t # <<>> /\ t[1] = v /\ Tail(t) = before \o s
PROOF
<1> DEFINE t == <<v>> \o before \o s
<1>1. t \in Seq(B) /\ t # <<>> /\ t[1] = v
  OBVIOUS
<1>2. Len(t) = Len(before) + Len(s) + 1
  OBVIOUS
<1>3. \A i \in 1 .. Len(before) + Len(s) : t[i + 1] = (before \o s)[i]
  OBVIOUS
<1>4. Tail(t) \in Seq(B) /\ Len(Tail(t)) = Len(before) + Len(s)
  <2> HIDE DEF t
  <2> QED BY <1>1, <1>2
<1>5. \A i \in 1 .. Len(before) + Len(s) : Tail(t)[i] = t[i + 1]
  <2> HIDE DEF t
  <2> QED BY <1>1, <1>2
<1>6. before \o s \in Seq(B) /\ Len(before \o s) = Len(before) + Len(s)
  OBVIOUS
<1>7. Tail(t) = before \o s
  <2> DEFINE one == Tail(t)
             two == before \o s
  <2>1. one \in Seq(B) /\ two \in Seq(B) /\ Len(one) = Len(two)
    BY <1>4, <1>6
  <2>2. \A i \in 1 .. Len(one) : one[i] = two[i]
    BY <1>3, <1>4, <1>5
  <2> HIDE DEF one, two
  <2>3. one = two
    BY <2>1, <2>2, SameSequence
  <2> QED BY <2>3 DEF one, two
<1> QED BY <1>1, <1>7

(* The same, one by one.                                                  *)
LEMMA OptionsShorten ==
  ASSUME NEW B, NEW s \in Seq(B), NEW options
  PROVE  AfterOptions(s, options) \in Seq(B) /\ Len(AfterOptions(s, options)) <= Len(s)
PROOF
<1> QED BY OptionsLeave

(* A word more is left behind the options.                                *)
LEMMA OptionsThenWord ==
  ASSUME NEW B, NEW s \in Seq(B), NEW options, NEW w \in B, AfterOptions(s, options) # <<>>
  PROVE  AfterOptions(Append(s, w), options) = Append(AfterOptions(s, options), w)
PROOF
<1> QED BY OptionsLeave

(* Options in front are dropped again.                                    *)
LEMMA OptionsBefore ==
  ASSUME NEW B, NEW s \in Seq(B), NEW options, NEW before \in Seq(B),
         \A i \in 1 .. Len(before) : before[i] \in options, s # <<>>, s[1] \notin options
  PROVE  AfterOptions(before \o s, options) = s
PROOF
<1> QED BY OptionsLeave

(* A wrapper is dropped with its options: the rest is shorter, is the     *)
(* same rest with a word more, and is what stood behind the wrapper.      *)
LEMMA WrapperDropped ==
  ASSUME NEW B, NEW s \in Seq(B)
  PROVE  /\ AfterWrapper(s) \in Seq(B)
         /\ AfterWrapper(s) = s \/ Len(AfterWrapper(s)) < Len(s)
         /\ AfterWrapper(<<>>) = <<>>
         /\ \A w \in B : AfterWrapper(s) # <<>> => AfterWrapper(Append(s, w)) = Append(AfterWrapper(s), w)
         /\ \A v \in B, before \in Seq(B) :
              /\ Base[v] \in {"sudo", "command"} /\ (\A i \in 1 .. Len(before) : before[i] \in Dashed)
              /\ s # <<>> /\ s[1] \notin Dashed
              => AfterWrapper(<<v>> \o before \o s) = s
PROOF
<1> DEFINE Extends == \A w \in B : AfterWrapper(s) # <<>> => AfterWrapper(Append(s, w)) = Append(AfterWrapper(s), w)
           Less == AfterWrapper(s) \in Seq(B) /\ (AfterWrapper(s) = s \/ Len(AfterWrapper(s)) < Len(s))
<1>1. AfterWrapper(<<>>) = <<>>
  BY DEF AfterWrapper
<1>2. ASSUME s = <<>> PROVE Less /\ Extends
  <2>1. AfterWrapper(s) = s
    BY <1>1, <1>2
  <2> QED BY <1>1, <1>2, <2>1
<1>3. ASSUME s # <<>>, Base[s[1]] \in {"sudo", "command"} PROVE Less /\ Extends
  <2>1. AfterWrapper(s) = AfterOptions(Tail(s), Dashed)
    BY <1>3 DEF AfterWrapper
  <2>2. Tail(s) \in Seq(B) /\ Len(Tail(s)) = Len(s) - 1 /\ Len(s) \in Nat
    BY <1>3, HeadAndTail
  <2>3. AfterWrapper(s) \in Seq(B) /\ Len(AfterWrapper(s)) < Len(s)
    <3>1. AfterOptions(Tail(s), Dashed) \in Seq(B) /\ Len(AfterOptions(Tail(s), Dashed)) <= Len(Tail(s))
      BY <2>2, OptionsShorten
    <3> QED BY <2>1, <2>2, <3>1
  <2>4. ASSUME NEW w \in B, AfterWrapper(s) # <<>> PROVE AfterWrapper(Append(s, w)) = Append(AfterWrapper(s), w)
    <3>1. /\ Append(s, w)[1] = s[1] /\ Append(s, w) # <<>> /\ Tail(Append(s, w)) = Append(Tail(s), w)
      BY <1>3, HeadAndTail
    <3>2. AfterWrapper(Append(s, w)) = AfterOptions(Append(Tail(s), w), Dashed)
      <4> DEFINE t == Append(s, w)
      <4>1. t # <<>> /\ Base[t[1]] \in {"sudo", "command"}
        BY <3>1, <1>3
      <4>2. AfterWrapper(t) = AfterOptions(Tail(t), Dashed)
        <5> HIDE DEF t
        <5> QED BY <4>1 DEF AfterWrapper
      <4> QED BY <4>2, <3>1
    <3>3. AfterOptions(Append(Tail(s), w), Dashed) = Append(AfterOptions(Tail(s), Dashed), w)
      <4> DEFINE rest == Tail(s)
      <4>1. rest \in Seq(B) /\ AfterOptions(rest, Dashed) # <<>>
        BY <2>1, <2>2, <2>4
      <4> HIDE DEF rest
      <4>2. AfterOptions(Append(rest, w), Dashed) = Append(AfterOptions(rest, Dashed), w)
        BY <4>1, OptionsThenWord
      <4> QED BY <4>2 DEF rest
    <3> QED BY <2>1, <3>2, <3>3
  <2> QED BY <1>1, <2>3, <2>4
<1>4. ASSUME s # <<>>, Base[s[1]] \notin {"sudo", "command"} PROVE Less /\ Extends
  <2>1. AfterWrapper(s) = s
    BY <1>4 DEF AfterWrapper
  <2>2. ASSUME NEW w \in B PROVE AfterWrapper(Append(s, w)) = Append(s, w)
    <3> DEFINE t == Append(s, w)
    <3>1. t[1] = s[1] /\ t # <<>>
      BY <1>4, HeadAndTail
    <3>2. AfterWrapper(t) = t
      <4>1. Base[t[1]] \notin {"sudo", "command"}
        BY <3>1, <1>4
      <4> HIDE DEF t
      <4> QED BY <4>1 DEF AfterWrapper
    <3> QED BY <3>2
  <2> QED BY <1>1, <2>1, <2>2
<1>5. ASSUME NEW v \in B, NEW before \in Seq(B), Base[v] \in {"sudo", "command"},
             \A i \in 1 .. Len(before) : before[i] \in Dashed, s # <<>>, s[1] \notin Dashed
      PROVE  AfterWrapper(<<v>> \o before \o s) = s
  <2> DEFINE t == <<v>> \o before \o s
  <2>1. t # <<>> /\ t[1] = v /\ Tail(t) = before \o s
    BY FrontedFacts
  <2>2. AfterWrapper(t) = AfterOptions(before \o s, Dashed)
    <3> HIDE DEF t
    <3> QED BY <1>5, <2>1 DEF AfterWrapper
  <2>3. AfterOptions(before \o s, Dashed) = s
    BY <1>5, OptionsBefore
  <2> QED BY <2>2, <2>3
<1>6. Less /\ Extends
  <2> HIDE DEF Less, Extends
  <2> QED BY <1>2, <1>3, <1>4
<1> QED BY <1>1, <1>5, <1>6

(* The same of env, its options and assignments.                          *)
LEMMA EnvDropped ==
  ASSUME NEW B, NEW s \in Seq(B)
  PROVE  /\ AfterEnv(s) \in Seq(B)
         /\ \A w \in B : AfterEnv(s) # <<>> => AfterEnv(Append(s, w)) = Append(AfterEnv(s), w)
         /\ \A v \in B, before \in Seq(B) :
              /\ Base[v] = "env" /\ (\A i \in 1 .. Len(before) : before[i] \in Dashed \cup Assigned)
              /\ s # <<>> /\ s[1] \notin Dashed \cup Assigned
              => AfterEnv(<<v>> \o before \o s) = s
PROOF
<1> DEFINE options == Dashed \cup Assigned
           Extends == \A w \in B : AfterEnv(s) # <<>> => AfterEnv(Append(s, w)) = Append(AfterEnv(s), w)
           Less == AfterEnv(s) \in Seq(B)
<1> HIDE DEF options
<1>1. AfterEnv(<<>>) = <<>>
  BY DEF AfterEnv
<1>2. ASSUME s = <<>> PROVE Less /\ Extends
  <2>1. AfterEnv(s) = s
    BY <1>1, <1>2
  <2> QED BY <1>1, <1>2, <2>1
<1>3. ASSUME s # <<>>, Base[s[1]] = "env" PROVE Less /\ Extends
  <2>1. AfterEnv(s) = AfterOptions(Tail(s), options)
    BY <1>3 DEF AfterEnv, options
  <2>2. Tail(s) \in Seq(B)
    BY <1>3, HeadAndTail
  <2>3. AfterEnv(s) \in Seq(B)
    <3>1. AfterOptions(Tail(s), options) \in Seq(B)
      BY <2>2, OptionsShorten
    <3> QED BY <2>1, <3>1
  <2>4. ASSUME NEW w \in B, AfterEnv(s) # <<>> PROVE AfterEnv(Append(s, w)) = Append(AfterEnv(s), w)
    <3>1. /\ Append(s, w)[1] = s[1] /\ Append(s, w) # <<>> /\ Tail(Append(s, w)) = Append(Tail(s), w)
      BY <1>3, HeadAndTail
    <3>2. AfterEnv(Append(s, w)) = AfterOptions(Append(Tail(s), w), options)
      <4> DEFINE t == Append(s, w)
      <4>1. t # <<>> /\ Base[t[1]] = "env"
        BY <3>1, <1>3
      <4>2. AfterEnv(t) = AfterOptions(Tail(t), options)
        <5> HIDE DEF t
        <5> QED BY <4>1 DEF AfterEnv, options
      <4> QED BY <4>2, <3>1
    <3>3. AfterOptions(Append(Tail(s), w), options) = Append(AfterOptions(Tail(s), options), w)
      <4> DEFINE rest == Tail(s)
      <4>1. rest \in Seq(B) /\ AfterOptions(rest, options) # <<>>
        BY <2>1, <2>2, <2>4
      <4> HIDE DEF rest
      <4>2. AfterOptions(Append(rest, w), options) = Append(AfterOptions(rest, options), w)
        BY <4>1, OptionsThenWord
      <4> QED BY <4>2 DEF rest
    <3> QED BY <2>1, <3>2, <3>3
  <2> QED BY <2>3, <2>4
<1>4. ASSUME s # <<>>, Base[s[1]] # "env" PROVE Less /\ Extends
  <2>1. AfterEnv(s) = s
    BY <1>4 DEF AfterEnv
  <2>2. ASSUME NEW w \in B PROVE AfterEnv(Append(s, w)) = Append(s, w)
    <3> DEFINE t == Append(s, w)
    <3>1. t[1] = s[1] /\ t # <<>>
      BY <1>4, HeadAndTail
    <3>2. AfterEnv(t) = t
      <4>1. Base[t[1]] # "env"
        BY <3>1, <1>4
      <4> HIDE DEF t
      <4> QED BY <4>1 DEF AfterEnv
    <3> QED BY <3>2
  <2> QED BY <2>1, <2>2
<1>5. ASSUME NEW v \in B, NEW before \in Seq(B), Base[v] = "env",
             \A i \in 1 .. Len(before) : before[i] \in options, s # <<>>, s[1] \notin options
      PROVE  AfterEnv(<<v>> \o before \o s) = s
  <2> DEFINE t == <<v>> \o before \o s
  <2>1. t # <<>> /\ t[1] = v /\ Tail(t) = before \o s
    BY FrontedFacts
  <2>2. AfterEnv(t) = AfterOptions(before \o s, options)
    <3> HIDE DEF t
    <3> QED BY <1>5, <2>1 DEF AfterEnv, options
  <2>3. AfterOptions(before \o s, options) = s
    BY <1>5, OptionsBefore
  <2> QED BY <2>2, <2>3
<1>6. Less /\ Extends
  <2> HIDE DEF Less, Extends
  <2> QED BY <1>2, <1>3, <1>4
<1>7. \A v \in B, before \in Seq(B) :
              /\ Base[v] = "env" /\ (\A i \in 1 .. Len(before) : before[i] \in options)
              /\ s # <<>> /\ s[1] \notin options
              => AfterEnv(<<v>> \o before \o s) = s
  BY <1>5
<1> QED BY <1>6, <1>7 DEF options

(* One wrapper less, whatever the word.                                   *)
UnwrapStep(B) == [p \in Seq(B) \X B |-> AfterWrapper(p[1])]

(* The wrappers are dropped one after the other.                          *)
LEMMA UnwrapSteps ==
  ASSUME NEW B, NEW seq \in Seq(B)
  PROVE  Stepped(Seq(B), UnwrapStep(B), seq, seq, AfterWrappers(seq))
PROOF
<1> DEFINE first == seq
           Op(x, y) == AfterWrapper(x)
           A == Seq(B)
           op == UnwrapStep(B)
           P(h) == h = [s \in SUBSET DOMAIN seq |->
                          IF s = {} THEN first ELSE Op(h[s \ {Max(s)}], seq[Max(s)])]
           g == CHOOSE h : P(h)
<1>1. first \in A /\ op \in [A \X B -> A] /\ \A x \in A, y \in B : op[<<x, y>>] = Op(x, y)
  <2>1. \A x \in A : AfterWrapper(x) \in A
    BY WrapperDropped
  <2>2. op = [p \in A \X B |-> AfterWrapper(p[1])]
    BY DEF UnwrapStep
  <2> HIDE DEF op
  <2> QED BY <2>1, <2>2
<1>2. seq \in Seq(B)
  OBVIOUS
<1>3. P(g)
  <2>1. PICK f \in [SUBSET DOMAIN seq -> A] : Folds(f, op, first, seq)
    <3> HIDE DEF op, Op, P, A, first
    <3> QED BY <1>1, <1>2, FoldDefined
  <2>2. ASSUME NEW s \in SUBSET DOMAIN seq, s # {}
        PROVE  f[s \ {Max(s)}] \in A /\ seq[Max(s)] \in B
    <3> HIDE DEF op, Op, P, A
    <3> QED BY <1>2, <2>2, NextOfFold
  <2>3. P(f)
    <3> HIDE DEF op, Op, A, first
    <3> QED BY <2>1, <2>2, <1>1 DEF Folds
  <2> HIDE DEF P
  <2> QED BY <2>3
<1>4. AfterWrappers(seq) = g[DOMAIN seq]
  BY DEF AfterWrappers, FoldLeft, MapThenFoldSet
<1> HIDE DEF g
<1>5. g[{}] = first
  <2> HIDE DEF Op, op, first
  <2> QED BY <1>3
<1>6. \A s \in SUBSET DOMAIN seq :
         s # {} /\ g[s \ {Max(s)}] \in A /\ seq[Max(s)] \in B => g[s] = op[<<g[s \ {Max(s)}], seq[Max(s)]>>]
  <2> HIDE DEF op, Op, A
  <2> QED BY <1>3, <1>1, ZenonT(60)
<1>7. \E st \in [0 .. Len(seq) -> A] : Steps(st, op, first, seq, g[DOMAIN seq])
  <2> HIDE DEF op, P, A, first
  <2> QED BY <1>1, <1>2, <1>5, <1>6, FoldPrefixes, ZenonT(60)
<1> HIDE DEF P
<1> QED BY <1>4, <1>7 DEF Stepped

(* st drops wrappers, n times, and ends where there is none left.         *)
Drops(st, n, from, to) ==
  /\ st[0] = from /\ st[n] = to
  /\ \A i \in 0 .. n - 1 : st[i + 1] = AfterWrapper(st[i])
  /\ AfterWrapper(to) = to

Unwraps(B, from, to) == \E n \in Nat : \E st \in [0 .. n -> Seq(B)] : Drops(st, n, from, to)

(* There is one word at most for every wrapper, so all of them are        *)
(* dropped.                                                               *)
LEMMA AllUnwrapped ==
  ASSUME NEW B, NEW seq \in Seq(B)
  PROVE  AfterWrappers(seq) \in Seq(B) /\ Unwraps(B, seq, AfterWrappers(seq))
PROOF
<1> DEFINE last == AfterWrappers(seq)
<1>1. PICK n \in Nat : n = Len(seq)
  OBVIOUS
<1>2. PICK st \in [0 .. n -> Seq(B)] : Steps(st, UnwrapStep(B), seq, seq, last)
  BY UnwrapSteps, <1>1 DEF Stepped
<1>3. st[0] = seq /\ st[n] = last
  BY <1>1, <1>2 DEF Steps
<1>4. \A i \in 0 .. n - 1 : st[i + 1] = AfterWrapper(st[i])
  <2> SUFFICES ASSUME NEW i \in 0 .. n - 1 PROVE st[i + 1] = AfterWrapper(st[i])
    OBVIOUS
  <2>1. st[i + 1] = UnwrapStep(B)[<<st[i], seq[i + 1]>>]
    BY <1>1, <1>2 DEF Steps
  <2>2. st[i] \in Seq(B) /\ seq[i + 1] \in B
    BY <1>1
  <2> QED BY <2>1, <2>2 DEF UnwrapStep
<1> DEFINE Good(i) == AfterWrapper(st[i]) = st[i] \/ Len(st[i]) + i <= n
           T == {i \in Nat : i <= n => Good(i)}
<1>5. 0 \in T
  BY <1>1, <1>3
<1>6. ASSUME NEW i \in Nat, i \in T PROVE i + 1 \in T
  <2> SUFFICES ASSUME i + 1 <= n PROVE Good(i + 1)
    <3> HIDE DEF Good
    <3> QED OBVIOUS
  <2>1. i \in 0 .. n - 1 /\ i \in 0 .. n /\ i + 1 \in 0 .. n
    BY <1>1
  <2>2. st[i + 1] = AfterWrapper(st[i]) /\ st[i] \in Seq(B) /\ st[i + 1] \in Seq(B)
    BY <1>4, <2>1
  <2>3. CASE AfterWrapper(st[i]) = st[i]
    BY <2>2, <2>3
  <2>4. CASE Len(st[i]) + i <= n
    <3>1. AfterWrapper(st[i]) = st[i] \/ Len(AfterWrapper(st[i])) < Len(st[i])
      BY <2>2, WrapperDropped
    <3>2. CASE Len(st[i + 1]) < Len(st[i])
      <4>1. PICK a \in Nat : a = Len(st[i])
        BY <2>2
      <4>2. PICK b \in Nat : b = Len(st[i + 1])
        BY <2>2
      <4>3. b + (i + 1) <= n
        <5>1. a + i <= n /\ b < a
          BY <2>4, <3>2, <4>1, <4>2
        <5> HIDE DEF T, Good
        <5> QED BY <5>1
      <4> QED BY <4>2, <4>3
    <3> QED BY <2>2, <2>3, <3>1, <3>2
  <2>5. i <= n
    BY <2>1
  <2> QED BY <1>6, <2>3, <2>4, <2>5
<1>7. n \in T
  <2> HIDE DEF T
  <2> QED BY <1>5, <1>6, Induction
<1>8. AfterWrapper(last) = last
  <2>1. CASE Len(last) + n <= n
    <3>1. last \in Seq(B)
      BY <1>3
    <3>2. Len(last) = 0
      <4>1. Len(last) \in Nat
        BY <3>1
      <4> QED BY <2>1, <4>1
    <3>3. last = <<>>
      <4> HIDE DEF last
      <4> QED BY <3>1, <3>2
    <3> QED BY <3>3, WrapperDropped
  <2> QED BY <1>3, <1>7, <2>1
<1>9. last \in Seq(B)
  BY <1>3
<1>10. Drops(st, n, seq, last)
  BY <1>3, <1>4, <1>8 DEF Drops
<1> HIDE DEF last, T
<1>11. Unwraps(B, seq, last)
  BY <1>10 DEF Unwraps
<1> QED BY <1>9, <1>11 DEF last

(* Where the dropping ends is determined: a chain that is no longer than  *)
(* another one is its beginning, and the other stays where it ended.      *)
LEMMA ShorterChain ==
  ASSUME NEW B, NEW from, NEW one, NEW two, NEW n \in Nat, NEW m \in Nat, n <= m,
         NEW st \in [0 .. n -> Seq(B)], NEW tt \in [0 .. m -> Seq(B)],
         Drops(st, n, from, one), Drops(tt, m, from, two)
  PROVE  one = two
PROOF
<1>1. /\ st[0] = from /\ st[n] = one /\ AfterWrapper(one) = one
      /\ \A i \in 0 .. n - 1 : st[i + 1] = AfterWrapper(st[i])
  BY DEF Drops
<1>2. /\ tt[0] = from /\ tt[m] = two
      /\ \A i \in 0 .. m - 1 : tt[i + 1] = AfterWrapper(tt[i])
  BY DEF Drops
<1> DEFINE T == {i \in Nat : i <= m => tt[i] = IF i <= n THEN st[i] ELSE one}
<1>3. 0 \in T
  BY <1>1, <1>2
<1>4. ASSUME NEW i \in Nat, i \in T PROVE i + 1 \in T
  <2> SUFFICES ASSUME i + 1 <= m PROVE tt[i + 1] = IF i + 1 <= n THEN st[i + 1] ELSE one
    OBVIOUS
  <2>1. i \in 0 .. m - 1 /\ i <= m
    OBVIOUS
  <2>2. tt[i + 1] = AfterWrapper(tt[i]) /\ tt[i] = IF i <= n THEN st[i] ELSE one
    BY <1>2, <1>4, <2>1
  <2>3. CASE i + 1 <= n
    <3>1. i \in 0 .. n - 1 /\ i <= n
      BY <2>3
    <3> QED BY <2>2, <2>3, <3>1, <1>1
  <2>4. CASE i = n
    BY <2>2, <2>4, <1>1
  <2>5. CASE i > n
    BY <2>2, <2>5, <1>1
  <2> QED BY <2>3, <2>4, <2>5
<1>5. m \in T
  <2> HIDE DEF T
  <2> QED BY <1>3, <1>4, Induction
<1>6. two = IF m <= n THEN st[m] ELSE one
  BY <1>2, <1>5
<1> QED BY <1>1, <1>6

(* Whichever of two chains is the longer one, they end in the same place. *)
LEMMA OneEnd ==
  ASSUME NEW B, NEW from, NEW one, NEW two, Unwraps(B, from, one), Unwraps(B, from, two)
  PROVE  one = two
PROOF
<1>1. PICK n \in Nat : \E st \in [0 .. n -> Seq(B)] : Drops(st, n, from, one)
  BY DEF Unwraps
<1>2. PICK st \in [0 .. n -> Seq(B)] : Drops(st, n, from, one)
  BY <1>1
<1>3. PICK m \in Nat : \E tt \in [0 .. m -> Seq(B)] : Drops(tt, m, from, two)
  BY DEF Unwraps
<1>4. PICK tt \in [0 .. m -> Seq(B)] : Drops(tt, m, from, two)
  BY <1>3
<1>5. CASE n <= m
  BY <1>2, <1>4, <1>5, ShorterChain
<1>6. CASE m <= n
  BY <1>2, <1>4, <1>6, ShorterChain
<1> QED BY <1>5, <1>6

(* A word more is left at the end; a wrapper more is dropped.             *)
LEMMA WordUnwrapped ==
  ASSUME NEW B, NEW s \in Seq(B), NEW w \in B, AfterWrappers(s) # <<>>
  PROVE  AfterWrappers(Append(s, w)) = Append(AfterWrappers(s), w)
PROOF
<1> DEFINE last == AfterWrappers(s)
           t == Append(s, w)
           end == Append(last, w)
<1>1. last \in Seq(B) /\ t \in Seq(B) /\ Unwraps(B, s, last)
  BY AllUnwrapped
<1>2. PICK n \in Nat : \E st \in [0 .. n -> Seq(B)] : Drops(st, n, s, last)
  BY <1>1 DEF Unwraps
<1>3. PICK st \in [0 .. n -> Seq(B)] : Drops(st, n, s, last)
  BY <1>2
<1>4. /\ st[0] = s /\ st[n] = last /\ AfterWrapper(last) = last
      /\ \A i \in 0 .. n - 1 : st[i + 1] = AfterWrapper(st[i])
  BY <1>3 DEF Drops
<1> HIDE DEF last
<1> DEFINE T == {k \in Nat : k <= n => st[n - k] # <<>>}
<1>5. 0 \in T
  BY <1>4 DEF last
<1>6. ASSUME NEW k \in Nat, k \in T PROVE k + 1 \in T
  <2> SUFFICES ASSUME k + 1 <= n, st[n - (k + 1)] = <<>> PROVE FALSE
    OBVIOUS
  <2>1. n - (k + 1) \in 0 .. n - 1 /\ (n - (k + 1)) + 1 = n - k /\ k <= n
    OBVIOUS
  <2>2. st[n - k] = AfterWrapper(st[n - (k + 1)])
    BY <1>4, <2>1
  <2>3. AfterWrapper(<<>>) = <<>>
    BY WrapperDropped
  <2> QED BY <1>6, <2>1, <2>2, <2>3
<1>7. \A i \in 0 .. n : st[i] # <<>>
  <2> SUFFICES ASSUME NEW i \in 0 .. n PROVE st[i] # <<>>
    OBVIOUS
  <2>1. n - i \in T
    <3>1. n - i \in Nat
      OBVIOUS
    <3> HIDE DEF T
    <3> QED BY <1>5, <1>6, <3>1, Induction
  <2>2. n - (n - i) = i /\ n - i <= n
    OBVIOUS
  <2> QED BY <2>1, <2>2
<1> DEFINE tt == [i \in 0 .. n |-> Append(st[i], w)]
<1>8. tt \in [0 .. n -> Seq(B)]
  OBVIOUS
<1>9. \A i \in 0 .. n - 1 : tt[i + 1] = AfterWrapper(tt[i])
  <2> SUFFICES ASSUME NEW i \in 0 .. n - 1 PROVE tt[i + 1] = AfterWrapper(tt[i])
    OBVIOUS
  <2>1. i \in 0 .. n /\ i + 1 \in 0 .. n /\ st[i] \in Seq(B)
    OBVIOUS
  <2>2. st[i + 1] = AfterWrapper(st[i]) /\ st[i + 1] # <<>>
    BY <1>4, <1>7, <2>1
  <2>3. AfterWrapper(Append(st[i], w)) = Append(AfterWrapper(st[i]), w)
    <3> DEFINE r == st[i]
    <3>1. r \in Seq(B) /\ AfterWrapper(r) # <<>>
      BY <2>1, <2>2
    <3> HIDE DEF r
    <3>2. AfterWrapper(Append(r, w)) = Append(AfterWrapper(r), w)
      BY <3>1, WrapperDropped
    <3> QED BY <3>2 DEF r
  <2> QED BY <2>1, <2>2, <2>3
<1>10. AfterWrapper(end) = end
  <2>1. last # <<>>
    BY DEF last
  <2> QED BY <1>1, <1>4, <2>1, WrapperDropped
<1>11. tt[0] = t /\ tt[n] = end
  BY <1>4
<1>12. Unwraps(B, t, end)
  <2> HIDE DEF tt, t, end
  <2> QED BY <1>8, <1>9, <1>10, <1>11 DEF Unwraps, Drops
<1>13. Unwraps(B, t, AfterWrappers(t))
  <2> HIDE DEF t
  <2> QED BY <1>1, AllUnwrapped
<1>14. AfterWrappers(t) = end
  <2> HIDE DEF t, end
  <2> QED BY <1>12, <1>13, OneEnd
<1> QED BY <1>14 DEF last

(* A wrapper in front is dropped like the others.                         *)
LEMMA WrapperUnwrapped ==
  ASSUME NEW B, NEW s \in Seq(B), NEW t \in Seq(B), AfterWrapper(t) = s
  PROVE  AfterWrappers(t) = AfterWrappers(s)
PROOF
<1> DEFINE last == AfterWrappers(s)
<1>1. last \in Seq(B) /\ Unwraps(B, s, last)
  BY AllUnwrapped
<1>2. PICK n \in Nat : \E st \in [0 .. n -> Seq(B)] : Drops(st, n, s, last)
  BY <1>1 DEF Unwraps
<1>3. PICK st \in [0 .. n -> Seq(B)] : Drops(st, n, s, last)
  BY <1>2
<1> HIDE DEF last
<1>4. /\ st[0] = s /\ st[n] = last /\ AfterWrapper(last) = last
      /\ \A i \in 0 .. n - 1 : st[i + 1] = AfterWrapper(st[i])
  BY <1>3 DEF Drops
<1> DEFINE tt == [i \in 0 .. n + 1 |-> IF i = 0 THEN t ELSE st[i - 1]]
<1>5. tt \in [0 .. n + 1 -> Seq(B)]
  OBVIOUS
<1>6. \A i \in 0 .. (n + 1) - 1 : tt[i + 1] = AfterWrapper(tt[i])
  <2>0. (n + 1) - 1 = n
    OBVIOUS
  <2> SUFFICES ASSUME NEW i \in 0 .. n PROVE tt[i + 1] = AfterWrapper(tt[i])
    <3> HIDE DEF tt
    <3> QED BY <2>0
  <2>1. tt[i + 1] = st[i]
    <3>1. i + 1 \in 0 .. n + 1 /\ i + 1 # 0 /\ (i + 1) - 1 = i
      OBVIOUS
    <3> QED BY <3>1
  <2>2. CASE i = 0
    BY <2>1, <2>2, <1>4
  <2>3. CASE i > 0
    <3>1. tt[i] = st[i - 1] /\ i - 1 \in 0 .. n - 1 /\ (i - 1) + 1 = i
      BY <2>3
    <3>2. st[i] = AfterWrapper(st[i - 1])
      BY <1>4, <3>1
    <3> HIDE DEF tt
    <3> QED BY <2>1, <3>1, <3>2
  <2> QED BY <2>2, <2>3
<1>7. tt[0] = t /\ tt[n + 1] = last
  BY <1>4
<1>8. Unwraps(B, t, last)
  <2>1. Drops(tt, n + 1, t, last)
    <3> HIDE DEF tt
    <3> QED BY <1>4, <1>6, <1>7 DEF Drops
  <2> HIDE DEF tt
  <2> QED BY <1>5, <2>1 DEF Unwraps
<1>9. Unwraps(B, t, AfterWrappers(t))
  BY AllUnwrapped
<1>10. AfterWrappers(t) = last
  BY <1>8, <1>9, OneEnd
<1> QED BY <1>10 DEF last

(* What stands behind wrappers, env and assignments.                      *)
CommandOf(words) == AfterEnv(AfterWrappers(words))

(* It is a sequence of the words given.                                   *)
LEMMA CommandsAreWords ==
  ASSUME NEW B, NEW words \in Seq(B)
  PROVE  CommandOf(words) \in Seq(B)
PROOF
<1>1. AfterWrappers(words) \in Seq(B)
  BY AllUnwrapped
<1> DEFINE bare == AfterWrappers(words)
<1> HIDE DEF bare
<1>2. bare \in Seq(B)
  BY <1>1 DEF bare
<1>3. AfterEnv(bare) \in Seq(B)
  BY <1>2, EnvDropped
<1> QED BY <1>3 DEF CommandOf, bare

(* A command line matches a forbidden command exactly when the executable *)
(* it runs is the forbidden one and its needed words follow in their      *)
(* order, whatever stands between them: for every command line and every  *)
(* forbidden command (audit.rs, invocation_matches).                      *)
THEOREM InvocationsAreMatched ==
  ASSUME NEW B, NEW words \in Seq(B), NEW needle \in Seq(B), needle # <<>>
  PROVE  MatchMeansInvoked(words, needle)
PROOF
<1> DEFINE command == CommandOf(words)
<1>1. command \in Seq(B)
  BY CommandsAreWords
<1>2. InvocationMatches(words, needle) <=>
        /\ command # <<>> /\ Base[command[1]] = Base[needle[1]]
        /\ Greedy(Tail(command), Tail(needle)) = Len(Tail(needle))
  BY DEF InvocationMatches, CommandOf
<1>3. Tail(needle) \in Seq(B)
  BY HeadAndTail
<1>4. command # <<>> => Tail(command) \in Seq(B)
  <2> HIDE DEF command
  <2> QED BY <1>1, HeadAndTail
<1>5. command # <<>> =>
        (Greedy(Tail(command), Tail(needle)) = Len(Tail(needle)) <=> Embeds(Tail(needle), Tail(command)))
  <2> DEFINE rest == Tail(command)
             needed == Tail(needle)
  <2>1. command # <<>> => rest \in Seq(B)
    BY <1>4
  <2>2. needed \in Seq(B)
    BY <1>3
  <2> HIDE DEF rest, needed, command
  <2>3. command # <<>> => (Greedy(rest, needed) = Len(needed) <=> Embeds(needed, rest))
    BY <2>1, <2>2, GreedyIsEmbedded
  <2> QED BY <2>3 DEF rest, needed
<1>6. MatchMeansInvoked(words, needle) <=>
        (InvocationMatches(words, needle) <=>
           /\ command # <<>> /\ Base[command[1]] = Base[needle[1]]
           /\ Embeds(Tail(needle), Tail(command)))
  BY DEF MatchMeansInvoked, CommandOf
<1> HIDE DEF command
<1> QED BY <1>2, <1>5, <1>6

(* What is embedded stays so when a word is added.                        *)
LEMMA EmbedsOn ==
  ASSUME NEW B, NEW needed \in Seq(B), NEW words \in Seq(B), NEW w \in B, Embeds(needed, words)
  PROVE  Embeds(needed, Append(words, w))
PROOF
<1>1. PICK at \in [DOMAIN needed -> DOMAIN words] :
         /\ \A i \in DOMAIN needed : words[at[i]] = needed[i]
         /\ \A i, j \in DOMAIN needed : i < j => at[i] < at[j]
  BY DEF Embeds
<1> DEFINE more == Append(words, w)
<1>2. DOMAIN words \subseteq DOMAIN more /\ \A i \in DOMAIN words : more[i] = words[i]
  OBVIOUS
<1> HIDE DEF more
<1>3. at \in [DOMAIN needed -> DOMAIN more] /\ \A i \in DOMAIN needed : more[at[i]] = needed[i]
  BY <1>1, <1>2
<1>4. Embeds(needed, more)
  BY <1>1, <1>3 DEF Embeds
<1> QED BY <1>4 DEF more

(* The command of a longer line is the longer command.                    *)
LEMMA CommandGrows ==
  ASSUME NEW B, NEW words \in Seq(B), NEW w \in B, CommandOf(words) # <<>>
  PROVE  CommandOf(Append(words, w)) = Append(CommandOf(words), w)
PROOF
<1> DEFINE bare == AfterWrappers(words)
           more == Append(words, w)
<1>1. bare \in Seq(B)
  BY AllUnwrapped
<1>2. bare # <<>>
  <2>1. AfterEnv(<<>>) = <<>>
    BY DEF AfterEnv
  <2>2. AfterEnv(bare) # <<>>
    BY DEF CommandOf
  <2> HIDE DEF bare
  <2> QED BY <2>1, <2>2
<1>3. AfterWrappers(more) = Append(bare, w)
  BY <1>2, WordUnwrapped
<1>4. AfterEnv(bare) # <<>>
  BY DEF CommandOf
<1>5. AfterEnv(Append(bare, w)) = Append(AfterEnv(bare), w)
  <2> HIDE DEF bare
  <2> QED BY <1>1, <1>4, EnvDropped
<1>6. CommandOf(more) = AfterEnv(Append(bare, w))
  <2> HIDE DEF bare, more
  <2> QED BY <1>3 DEF CommandOf
<1> QED BY <1>5, <1>6 DEF CommandOf

(* An invocation that matches stays one whatever words are added, and a   *)
(* wrapper with its options, or env with options and assignments, in      *)
(* front of a command line changes nothing of which invocation it is: for *)
(* every command line (audit.rs, invocation_matches).  The text handed to *)
(* a shell is another matter: see WrappedShellIsNotRead.                  *)
THEOREM NothingHidesInvocations ==
  ASSUME NEW B, NEW words \in Seq(B), NEW needle \in Seq(B), needle # <<>>,
         NEW w \in B, NEW options \in Seq(B)
  PROVE  /\ WordHidesNothing(words, w, needle)
         /\ WrapperHidesNothing(w, options, words, needle)
         /\ EnvHidesNothing(w, options, words, needle)
PROOF
<1>0. ToSet(options) = {options[i] : i \in 1 .. Len(options)}
  BY DEF ToSet
<1>1. \A one, two : CommandOf(one) = CommandOf(two) =>
                      InvocationMatches(one, needle) = InvocationMatches(two, needle)
  BY DEF InvocationMatches, CommandOf
<1>2. WordHidesNothing(words, w, needle)
  <2> SUFFICES ASSUME InvocationMatches(words, needle)
               PROVE  InvocationMatches(Append(words, w), needle)
    BY DEF WordHidesNothing
  <2> DEFINE command == CommandOf(words)
             longer == Append(words, w)
             needed == Tail(needle)
             rest == Tail(command)
  <2>1. command \in Seq(B) /\ needed \in Seq(B) /\ longer \in Seq(B)
    BY CommandsAreWords, HeadAndTail
  <2>2. command # <<>> /\ Base[command[1]] = Base[needle[1]] /\ Embeds(needed, rest)
    BY InvocationsAreMatched DEF MatchMeansInvoked, CommandOf
  <2>3. CommandOf(longer) = Append(command, w)
    BY <2>2, CommandGrows
  <2>4. rest \in Seq(B) /\ Append(command, w)[1] = command[1]
        /\ Tail(Append(command, w)) = Append(rest, w) /\ Append(command, w) # <<>>
    <3> HIDE DEF command
    <3> QED BY <2>1, <2>2, HeadAndTail, SMTT(30)
  <2>5. Embeds(needed, Append(rest, w))
    <3> HIDE DEF needed, rest
    <3> QED BY <2>1, <2>2, <2>4, EmbedsOn
  <2> DEFINE end == CommandOf(longer)
  <2>6. end # <<>> /\ Base[end[1]] = Base[needle[1]] /\ Embeds(needed, Tail(end))
    <3> HIDE DEF command, rest, needed, longer
    <3> QED BY <2>2, <2>3, <2>4, <2>5
  <2>7. MatchMeansInvoked(longer, needle)
    <3> HIDE DEF longer
    <3> QED BY <2>1, InvocationsAreMatched
  <2>8. MatchMeansInvoked(longer, needle) <=>
          (InvocationMatches(longer, needle) <=>
             end # <<>> /\ Base[end[1]] = Base[needle[1]] /\ Embeds(needed, Tail(end)))
    <3> HIDE DEF longer
    <3> QED BY DEF MatchMeansInvoked, CommandOf
  <2> HIDE DEF end, needed, command, rest
  <2> QED BY <2>6, <2>7, <2>8
<1>3. WrapperHidesNothing(w, options, words, needle)
  <2> SUFFICES ASSUME Base[w] \in {"sudo", "command"}, ToSet(options) \subseteq Dashed,
                      words # <<>>, words[1] \notin Dashed
               PROVE  InvocationMatches(<<w>> \o options \o words, needle) = InvocationMatches(words, needle)
    BY DEF WrapperHidesNothing
  <2> DEFINE line == <<w>> \o options \o words
  <2>1. line \in Seq(B)
    OBVIOUS
  <2>2. AfterWrapper(line) = words
    <3>1. \A i \in 1 .. Len(options) : options[i] \in Dashed
      BY <1>0
    <3> QED BY <3>1, WrapperDropped
  <2>3. AfterWrappers(line) = AfterWrappers(words)
    <3> HIDE DEF line
    <3> QED BY <2>1, <2>2, WrapperUnwrapped
  <2>4. CommandOf(line) = CommandOf(words)
    <3> HIDE DEF line
    <3> QED BY <2>3 DEF CommandOf
  <2> HIDE DEF line
  <2>5. InvocationMatches(line, needle) = InvocationMatches(words, needle)
    BY <1>1, <2>4
  <2> QED BY <2>5 DEF line
<1>4. EnvHidesNothing(w, options, words, needle)
  <2> SUFFICES ASSUME Base[w] = "env", ToSet(options) \subseteq Dashed \cup Assigned,
                      words # <<>>, words[1] \notin Dashed \cup Assigned,
                      Base[words[1]] \notin {"sudo", "command", "env"}
               PROVE  InvocationMatches(<<w>> \o options \o words, needle) = InvocationMatches(words, needle)
    BY DEF EnvHidesNothing
  <2> DEFINE line == <<w>> \o options \o words
  <2>1. line \in Seq(B) /\ line # <<>> /\ line[1] = w
    BY FrontedFacts
  <2>2. AfterEnv(line) = words
    <3>1. \A i \in 1 .. Len(options) : options[i] \in Dashed \cup Assigned
      BY <1>0
    <3> QED BY <3>1, EnvDropped
  <2>3. AfterWrapper(line) = line /\ AfterWrapper(words) = words /\ AfterEnv(words) = words
    <3> HIDE DEF line
    <3> QED BY <2>1 DEF AfterWrapper, AfterEnv
  <2>4. \A s \in Seq(B) : AfterWrapper(s) = s => AfterWrappers(s) = s
    <3> SUFFICES ASSUME NEW s \in Seq(B), AfterWrapper(s) = s PROVE AfterWrappers(s) = s
      OBVIOUS
    <3> DEFINE st == [i \in 0 .. 0 |-> s]
    <3>1. st \in [0 .. 0 -> Seq(B)] /\ Drops(st, 0, s, s)
      BY DEF Drops
    <3> HIDE DEF st
    <3>2. Unwraps(B, s, s)
      BY <3>1 DEF Unwraps
    <3>3. Unwraps(B, s, AfterWrappers(s))
      BY AllUnwrapped
    <3> QED BY <3>2, <3>3, OneEnd
  <2>5. CommandOf(line) = CommandOf(words)
    <3> HIDE DEF line
    <3> QED BY <2>1, <2>2, <2>3, <2>4 DEF CommandOf
  <2> HIDE DEF line
  <2>6. InvocationMatches(line, needle) = InvocationMatches(words, needle)
    BY <1>1, <2>5
  <2> QED BY <2>6 DEF line
<1> QED BY <1>2, <1>3, <1>4

-----------------------------------------------------------------------------
(* Summaries: what is computed of the results of a group does not depend   *)
(* on their order, so that the group's summary and the report agree.       *)

(* An order of 1 .. n reaches every place.                                *)
LEMMA OrdersAreOnto ==
  ASSUME NEW n \in Nat, NEW o \in [1 .. n -> 1 .. n], IsInjective(o)
  PROVE  \A i \in 1 .. n : \E j \in 1 .. n : o[j] = i
PROOF
<1>1. IsFiniteSet(1 .. n)
  BY FS_Interval
<1>2. o \in Injection(1 .. n, 1 .. n)
  BY DEF Injection
<1>3. o \in Surjection(1 .. n, 1 .. n)
  BY <1>1, <1>2, FS_Injection
<1> QED BY <1>3 DEF Surjection

(* It can be undone.                                                      *)
LEMMA OrdersAreUndone ==
  ASSUME NEW n \in Nat, NEW o \in [1 .. n -> 1 .. n], IsInjective(o)
  PROVE  \E back \in [1 .. n -> 1 .. n] :
           IsInjective(back) /\ \A i \in 1 .. n : o[back[i]] = i
PROOF
<1> DEFINE back == [i \in 1 .. n |-> CHOOSE j \in 1 .. n : o[j] = i]
<1>1. \A i \in 1 .. n : back[i] \in 1 .. n /\ o[back[i]] = i
  BY OrdersAreOnto
<1>2. back \in [1 .. n -> 1 .. n] /\ DOMAIN back = 1 .. n
  BY <1>1
<1> HIDE DEF back
<1>3. IsInjective(back)
  BY <1>1, <1>2 DEF IsInjective
<1> QED BY <1>1, <1>2, <1>3

(* One after the other they are an order again.                           *)
LEMMA OrdersCompose ==
  ASSUME NEW n \in Nat, NEW o \in [1 .. n -> 1 .. n], IsInjective(o),
         NEW p \in [1 .. n -> 1 .. n], IsInjective(p)
  PROVE  [i \in 1 .. n |-> o[p[i]]] \in [1 .. n -> 1 .. n] /\ IsInjective([i \in 1 .. n |-> o[p[i]]])
PROOF
<1> DEFINE both == [i \in 1 .. n |-> o[p[i]]]
<1>1. both \in [1 .. n -> 1 .. n] /\ DOMAIN both = 1 .. n
  OBVIOUS
<1>2. \A i, j \in 1 .. n : p[i] = p[j] => i = j
  BY DEF IsInjective
<1>3. \A i, j \in 1 .. n : o[i] = o[j] => i = j
  BY DEF IsInjective
<1>4. \A i \in 1 .. n : both[i] = o[p[i]] /\ p[i] \in 1 .. n
  OBVIOUS
<1> HIDE DEF both
<1>5. \A i, j \in 1 .. n : both[i] = both[j] => i = j
  BY <1>2, <1>3, <1>4
<1>6. IsInjective(both)
  BY <1>1, <1>5 DEF IsInjective
<1> QED BY <1>1, <1>6 DEF both

(* The list s is the list t in the order o.                               *)
Puts(t, n, o, s) ==
  o \in [1 .. n -> 1 .. n] /\ IsInjective(o) /\ s = [i \in 1 .. n |-> t[o[i]]]

(* What is in a list in another order.                                    *)
LEMMA ReorderedBy ==
  ASSUME NEW B, NEW list \in Seq(B), NEW same \in Reordered(list), NEW n, n = Len(list)
  PROVE  \E o : Puts(list, n, o, same)
PROOF
<1>1. PICK o \in Orders(list) : same = [i \in DOMAIN list |-> list[o[i]]]
  BY DEF Reordered
<1>2. DOMAIN list = 1 .. n
  OBVIOUS
<1> QED BY <1>1, <1>2 DEF Orders, Puts

(* It has the length and the elements of the list.                        *)
LEMMA ReorderedFacts ==
  ASSUME NEW B, NEW list \in Seq(B), NEW same \in Reordered(list)
  PROVE  same \in Seq(B) /\ Len(same) = Len(list)
PROOF
<1>1. PICK n \in Nat : n = Len(list) /\ DOMAIN list = 1 .. n
  OBVIOUS
<1>2. PICK o : Puts(list, n, o, same)
  BY <1>1, ReorderedBy
<1>3. o \in [1 .. n -> 1 .. n] /\ same = [i \in 1 .. n |-> list[o[i]]]
  BY <1>2 DEF Puts
<1>4. \A i \in 1 .. n : list[o[i]] \in B
  BY <1>1, <1>3, SMTT(30)
<1>5. same \in Seq(B) /\ Len(same) = n
  BY <1>3, <1>4
<1> QED BY <1>1, <1>5

(* Every order of its elements is a list in another order.                *)
LEMMA IsReordered ==
  ASSUME NEW B, NEW list \in Seq(B), NEW n, n = Len(list), NEW o, NEW s, Puts(list, n, o, s)
  PROVE  s \in Reordered(list)
PROOF
<1>1. DOMAIN list = 1 .. n
  OBVIOUS
<1>2. o \in Orders(list) /\ s = [i \in DOMAIN list |-> list[o[i]]]
  BY <1>1 DEF Orders, Puts
<1> QED BY <1>2 DEF Reordered

(* The same lists come of a list and of one in another order.             *)
LEMMA SameOrders ==
  ASSUME NEW B, NEW list \in Seq(B), NEW same \in Reordered(list)
  PROVE  Reordered(same) = Reordered(list)
PROOF
<1>1. PICK n \in Nat : n = Len(list)
  OBVIOUS
<1>2. same \in Seq(B) /\ Len(same) = n
  BY <1>1, ReorderedFacts
<1>3. PICK o : Puts(list, n, o, same)
  BY <1>1, ReorderedBy
<1>4. o \in [1 .. n -> 1 .. n] /\ IsInjective(o) /\ same = [i \in 1 .. n |-> list[o[i]]]
  BY <1>3 DEF Puts
<1>5. PICK back \in [1 .. n -> 1 .. n] : IsInjective(back) /\ \A i \in 1 .. n : o[back[i]] = i
  BY <1>4, OrdersAreUndone
<1>6. ASSUME NEW s \in Reordered(same) PROVE s \in Reordered(list)
  <2>1. PICK p : Puts(same, n, p, s)
    BY <1>2, <1>6, ReorderedBy
  <2>2. p \in [1 .. n -> 1 .. n] /\ IsInjective(p) /\ s = [i \in 1 .. n |-> same[p[i]]]
    BY <2>1 DEF Puts
  <2> DEFINE both == [i \in 1 .. n |-> o[p[i]]]
  <2>3. both \in [1 .. n -> 1 .. n] /\ IsInjective(both)
    BY <1>4, <2>2, OrdersCompose
  <2>4. s = [i \in 1 .. n |-> list[both[i]]]
    BY <1>4, <2>2
  <2> HIDE DEF both
  <2>5. Puts(list, n, both, s)
    BY <2>3, <2>4 DEF Puts
  <2> QED BY <1>1, <2>5, IsReordered
<1>7. ASSUME NEW s \in Reordered(list) PROVE s \in Reordered(same)
  <2>1. PICK p : Puts(list, n, p, s)
    BY <1>1, <1>7, ReorderedBy
  <2>2. p \in [1 .. n -> 1 .. n] /\ IsInjective(p) /\ s = [i \in 1 .. n |-> list[p[i]]]
    BY <2>1 DEF Puts
  <2> DEFINE both == [i \in 1 .. n |-> back[p[i]]]
  <2>3. both \in [1 .. n -> 1 .. n] /\ IsInjective(both)
    BY <1>5, <2>2, OrdersCompose, ZenonT(60)
  <2>4. \A i \in 1 .. n : same[both[i]] = list[p[i]]
    BY <1>4, <1>5, <2>2, ZenonT(60)
  <2>5. s = [i \in 1 .. n |-> same[both[i]]]
    <3> HIDE DEF both
    <3> QED BY <2>2, <2>4
  <2> HIDE DEF both
  <2>6. Puts(same, n, both, s)
    BY <2>3, <2>5 DEF Puts
  <2> QED BY <1>2, <2>6, IsReordered
<1> QED BY <1>6, <1>7

(* A list without one of its elements.                                    *)
LeftOut(list, k) == [i \in 1 .. Len(list) - 1 |-> IF i < k THEN list[i] ELSE list[i + 1]]

(* It is one element shorter.                                             *)
LEMMA LeftOutFacts ==
  ASSUME NEW B, NEW list \in Seq(B), NEW k \in 1 .. Len(list)
  PROVE  LeftOut(list, k) \in Seq(B) /\ Len(LeftOut(list, k)) = Len(list) - 1
PROOF
<1>1. PICK n \in Nat : n = Len(list) - 1
  OBVIOUS
<1>2. LeftOut(list, k) = [i \in 1 .. n |-> IF i < k THEN list[i] ELSE list[i + 1]]
  BY <1>1 DEF LeftOut
<1>3. \A i \in 1 .. n : (IF i < k THEN list[i] ELSE list[i + 1]) \in B
  BY <1>1
<1> DEFINE w == LeftOut(list, k)
<1>4. w = [i \in 1 .. n |-> IF i < k THEN list[i] ELSE list[i + 1]]
  BY <1>2
<1> HIDE DEF w
<1>5. w \in Seq(B) /\ Len(w) = n
  BY <1>3, <1>4
<1> QED BY <1>1, <1>5 DEF w

(* The total is that of the others and the element.                       *)
LEMMA TotalLeftOut ==
  ASSUME NEW list \in Seq(Nat), NEW k \in 1 .. Len(list)
  PROVE  Total(list) = Total(LeftOut(list, k)) + list[k]
PROOF
<1> DEFINE T == {s \in Seq(Nat) : \A j \in 1 .. Len(s) : Total(s) = Total(LeftOut(s, j)) + s[j]}
<1>1. <<>> \in T
  OBVIOUS
<1>2. ASSUME NEW s \in Seq(Nat), NEW v \in Nat, s \in T PROVE Append(s, v) \in T
  <2> DEFINE more == Append(s, v)
  <2>1. more \in Seq(Nat) /\ Len(more) = Len(s) + 1 /\ more[Len(s) + 1] = v
        /\ \A i \in 1 .. Len(s) : more[i] = s[i]
    OBVIOUS
  <2>2. Total(more) = Total(s) + v /\ Total(s) \in Nat
    BY TotalGrows
  <2>3. PICK n \in Nat : n = Len(s)
    OBVIOUS
  <2> HIDE DEF more
  <2>4. ASSUME NEW j \in 1 .. n PROVE Total(more) = Total(LeftOut(more, j)) + more[j]
    <3> DEFINE rest == LeftOut(s, j)
               left == LeftOut(more, j)
    <3>1. rest \in Seq(Nat) /\ Len(rest) = n - 1
      BY <2>3, LeftOutFacts
    <3>2. left \in Seq(Nat) /\ Len(left) = n
      <4>1. j \in 1 .. Len(more) /\ Len(more) - 1 = n
        BY <2>1, <2>3
      <4> QED BY <2>1, <4>1, LeftOutFacts
    <3>3. \A i \in 1 .. n : left[i] = IF i < j THEN more[i] ELSE more[i + 1]
      BY <2>1, <2>3 DEF LeftOut
    <3>4. \A i \in 1 .. n - 1 : rest[i] = IF i < j THEN s[i] ELSE s[i + 1]
      BY <2>3 DEF LeftOut
    <3> HIDE DEF rest, left
    <3> DEFINE grown == Append(rest, v)
    <3>5. grown \in Seq(Nat) /\ Len(grown) = n /\ grown[n] = v
          /\ \A i \in 1 .. n - 1 : grown[i] = rest[i]
      BY <3>1
    <3> HIDE DEF grown
    <3>6. \A i \in 1 .. n : left[i] = grown[i]
      <4> TAKE i \in 1 .. n
      <4>1. CASE i = n
        <5>1. ~(i < j) /\ i \in 1 .. n /\ more[n + 1] = v
          BY <4>1, <2>1, <2>3
        <5> QED BY <4>1, <5>1, <3>3, <3>5
      <4>2. CASE i \in 1 .. n - 1 /\ i < j
        BY <4>2, <3>3, <3>4, <3>5, <2>1, <2>3
      <4>3. CASE i \in 1 .. n - 1 /\ i >= j
        <5>1. i + 1 \in 1 .. n
          BY <4>3
        <5> QED BY <4>3, <5>1, <3>3, <3>4, <3>5, <2>1, <2>3
      <4> QED BY <4>1, <4>2, <4>3
    <3>7. left = grown
      BY <3>2, <3>5, <3>6, SameSequence
    <3>8. Total(left) = Total(rest) + v /\ Total(rest) \in Nat
      <4>1. Total(grown) = Total(rest) + v /\ Total(rest) \in Nat
        BY <3>1, TotalGrows DEF grown
      <4> QED BY <3>7, <4>1
    <3>9. Total(s) = Total(rest) + s[j] /\ s[j] \in Nat /\ more[j] = s[j]
      <4>1. Total(s) = Total(LeftOut(s, j)) + s[j]
        BY <1>2, <2>3
      <4>2. s[j] \in Nat /\ more[j] = s[j]
        BY <2>1, <2>3, SMTT(30)
      <4> QED BY <4>1, <4>2 DEF rest
    <3>10. Total(more) = Total(left) + more[j]
      BY <2>2, <3>8, <3>9, SMTT(30)
    <3> QED BY <3>10 DEF left
  <2>5. Total(more) = Total(LeftOut(more, n + 1)) + more[n + 1]
    <3> DEFINE left == LeftOut(more, n + 1)
    <3>1. left \in Seq(Nat) /\ Len(left) = n
      <4>1. n + 1 \in 1 .. Len(more) /\ Len(more) - 1 = n
        BY <2>1, <2>3
      <4> HIDE DEF more
      <4> QED BY <2>1, <4>1, LeftOutFacts
    <3>2. \A i \in 1 .. n : left[i] = s[i]
      BY <2>1, <2>3 DEF LeftOut
    <3> HIDE DEF left
    <3>3. left = s
      BY <2>3, <3>1, <3>2, SameSequence
    <3> QED BY <3>3, <2>1, <2>2, <2>3 DEF left
  <2>6. \A j \in 1 .. n + 1 : j \in 1 .. n \/ j = n + 1
    OBVIOUS
  <2>7. more \in T
    BY <2>1, <2>3, <2>4, <2>5, <2>6
  <2> QED BY <2>7 DEF more
<1>3. Seq(Nat) \subseteq T
  <2> HIDE DEF T
  <2>1. <<>> \in T /\ \A s \in Seq(Nat), v \in Nat : s \in T => Append(s, v) \in T
    BY <1>1, <1>2
  <2> QED BY <2>1, SequenceInduction
<1> QED BY <1>3

(* The order of a list without its element at k, which the order put last *)
(* or took from the last place.                                           *)
LEMMA OrderLeftOut ==
  ASSUME NEW n \in Nat, NEW o \in [1 .. n + 1 -> 1 .. n + 1], IsInjective(o),
         NEW k \in 1 .. n + 1, o[k] = n + 1
  PROVE  LET p == [i \in 1 .. n |-> IF i < k THEN o[i] ELSE o[i + 1]] IN
         p \in [1 .. n -> 1 .. n] /\ IsInjective(p)
PROOF
<1> DEFINE p == [i \in 1 .. n |-> IF i < k THEN o[i] ELSE o[i + 1]]
           at == [i \in 1 .. n |-> IF i < k THEN i ELSE i + 1]
<1>1. \A i, j \in 1 .. n + 1 : o[i] = o[j] => i = j
  BY DEF IsInjective
<1>2. \A i \in 1 .. n : at[i] \in 1 .. n + 1 /\ at[i] # k /\ p[i] = o[at[i]]
  OBVIOUS
<1>3. \A i, j \in 1 .. n : at[i] = at[j] => i = j
  OBVIOUS
<1>4. DOMAIN p = 1 .. n
  OBVIOUS
<1>5. p = [i \in 1 .. n |-> p[i]]
  OBVIOUS
<1> HIDE DEF at, p
<1>6. \A i \in 1 .. n : p[i] \in 1 .. n
  <2> TAKE i \in 1 .. n
  <2>1. p[i] = o[at[i]] /\ at[i] \in 1 .. n + 1 /\ at[i] # k
    BY <1>2
  <2>2. o[at[i]] \in 1 .. n + 1 /\ o[at[i]] # n + 1
    BY <2>1, <1>1
  <2>3. \A x : x \in 1 .. n + 1 /\ x # n + 1 => x \in 1 .. n
    OBVIOUS
  <2> QED BY <2>1, <2>2, <2>3
<1>7. p \in [1 .. n -> 1 .. n]
  BY <1>5, <1>6
<1>8. \A i, j \in 1 .. n : p[i] = p[j] => i = j
  <2> TAKE i, j \in 1 .. n
  <2>1. p[i] = o[at[i]] /\ at[i] \in 1 .. n + 1
    BY <1>2
  <2>2. p[j] = o[at[j]] /\ at[j] \in 1 .. n + 1
    BY <1>2
  <2>3. o[at[i]] = o[at[j]] => at[i] = at[j]
    BY <1>1, <2>1, <2>2
  <2> QED BY <1>3, <2>1, <2>2, <2>3
<1>9. IsInjective(p)
  BY <1>4, <1>8 DEF IsInjective
<1> QED BY <1>7, <1>9 DEF p

(* The total of numbers does not depend on their order.                   *)
LEMMA TotalReordered ==
  ASSUME NEW values \in Seq(Nat), NEW same \in Reordered(values)
  PROVE  Total(same) = Total(values)
PROOF
<1> DEFINE Works(v, n) == \A o, s : Puts(v, n, o, s) => Total(s) = Total(v)
           T == {n \in Nat : \A v \in Seq(Nat) : Len(v) = n => Works(v, n)}
<1>1. 0 \in T
  <2> SUFFICES ASSUME NEW v \in Seq(Nat), Len(v) = 0, NEW o, NEW s, Puts(v, 0, o, s)
               PROVE  Total(s) = Total(v)
    OBVIOUS
  <2>1. s = [i \in 1 .. 0 |-> v[o[i]]]
    BY DEF Puts
  <2>2. s = <<>> /\ v = <<>>
    BY <2>1
  <2> QED BY <2>2
<1>2. ASSUME NEW n \in Nat, n \in T PROVE n + 1 \in T
  <2> SUFFICES ASSUME NEW v \in Seq(Nat), Len(v) = n + 1, NEW o, NEW s, Puts(v, n + 1, o, s)
               PROVE  Total(s) = Total(v)
    OBVIOUS
  <2> DEFINE front == [i \in 1 .. n |-> v[i]]
             last  == v[n + 1]
  <2>1. front \in Seq(Nat) /\ Len(front) = n /\ last \in Nat /\ \A i \in 1 .. n : front[i] = v[i]
    OBVIOUS
  <2>2. v = Append(front, last)
    OBVIOUS
  <2> HIDE DEF front
  <2>3. o \in [1 .. n + 1 -> 1 .. n + 1] /\ IsInjective(o) /\ s = [i \in 1 .. n + 1 |-> v[o[i]]]
    BY DEF Puts
  <2>4. n + 1 \in Nat /\ n + 1 \in 1 .. n + 1
    OBVIOUS
  <2>5. PICK k \in 1 .. n + 1 : o[k] = n + 1
    BY <2>3, <2>4, OrdersAreOnto, ZenonT(60)
  <2>6. s \in Seq(Nat) /\ Len(s) = n + 1 /\ s[k] = last /\ \A i \in 1 .. n + 1 : s[i] = v[o[i]]
    <3>1. \A i \in 1 .. n + 1 : v[o[i]] \in Nat
      BY <2>3
    <3> QED BY <2>3, <2>5, <3>1
  <2> HIDE DEF last
  <2> DEFINE p == [i \in 1 .. n |-> IF i < k THEN o[i] ELSE o[i + 1]]
             less == LeftOut(s, k)
  <2>7. p \in [1 .. n -> 1 .. n] /\ IsInjective(p)
    BY <2>3, <2>5, OrderLeftOut
  <2>8. less = [i \in 1 .. n |-> IF i < k THEN s[i] ELSE s[i + 1]]
    <3>1. Len(s) - 1 = n
      BY <2>6
    <3> QED BY <3>1 DEF LeftOut
  <2>9. \A i \in 1 .. n : less[i] = front[p[i]]
    <3> TAKE i \in 1 .. n
    <3>1. i \in 1 .. n + 1 /\ i + 1 \in 1 .. n + 1
      OBVIOUS
    <3>2. less[i] = IF i < k THEN v[o[i]] ELSE v[o[i + 1]]
      BY <2>6, <2>8, <3>1
    <3>3. less[i] = v[p[i]] /\ p[i] \in 1 .. n
      BY <3>2, <2>7
    <3> QED BY <2>1, <3>3
  <2>10. less = [i \in 1 .. n |-> front[p[i]]]
    BY <2>8, <2>9
  <2> HIDE DEF p, less
  <2>11. Puts(front, n, p, less)
    BY <2>7, <2>10 DEF Puts
  <2>12. Total(less) = Total(front)
    BY <1>2, <2>1, <2>11
  <2>13. Total(s) = Total(less) + s[k]
    <3>1. k \in 1 .. Len(s)
      BY <2>6
    <3> QED BY <2>6, <3>1, TotalLeftOut DEF less
  <2>14. Total(v) = Total(front) + last
    BY <2>1, <2>2, TotalGrows
  <2> QED BY <2>6, <2>12, <2>13, <2>14
<1>3. PICK n \in Nat : n = Len(values)
  OBVIOUS
<1>4. n \in T
  <2> HIDE DEF T
  <2> QED BY <1>1, <1>2, Induction
<1>5. PICK o : Puts(values, n, o, same)
  BY <1>3, ReorderedBy
<1> QED BY <1>3, <1>4, <1>5

(* The largest of a list's keys.                                          *)
LEMMA LargestKey ==
  ASSUME NEW B, NEW key \in [B -> Int], NEW list \in Seq(B), NEW n \in Nat, Len(list) = n + 1
  PROVE  \E m \in 1 .. n + 1 : \A i \in 1 .. n + 1 : key[list[i]] <= key[list[m]]
PROOF
<1> DEFINE Largest(q) == \E m \in 1 .. q + 1 : \A i \in 1 .. q + 1 : key[list[i]] <= key[list[m]]
           T == {q \in Nat : q <= n => Largest(q)}
<1>0. \A i \in 1 .. n + 1 : key[list[i]] \in Int
  OBVIOUS
<1>1. 0 \in T
  BY <1>0
<1>2. ASSUME NEW q \in Nat, q \in T PROVE q + 1 \in T
  <2> SUFFICES ASSUME q + 1 <= n PROVE Largest(q + 1)
    OBVIOUS
  <2>1. q <= n
    OBVIOUS
  <2>2. PICK m \in 1 .. q + 1 : \A i \in 1 .. q + 1 : key[list[i]] <= key[list[m]]
    BY <1>2, <2>1
  <2> DEFINE w == q + 2
  <2>3. w \in 1 .. (q + 1) + 1 /\ w \in 1 .. n + 1 /\ m \in 1 .. (q + 1) + 1 /\ m \in 1 .. n + 1
    OBVIOUS
  <2>4. \A i \in 1 .. (q + 1) + 1 : i \in 1 .. q + 1 \/ i = w
    OBVIOUS
  <2>5. \A i \in 1 .. (q + 1) + 1 : i \in 1 .. n + 1
    OBVIOUS
  <2> HIDE DEF w
  <2>6. CASE key[list[w]] <= key[list[m]]
    BY <2>2, <2>3, <2>4, <2>6
  <2>7. CASE ~(key[list[w]] <= key[list[m]])
    <3>1. \A i \in 1 .. (q + 1) + 1 : key[list[i]] <= key[list[w]]
      BY <1>0, <2>2, <2>3, <2>4, <2>5, <2>7
    <3> QED BY <2>3, <3>1
  <2> QED BY <2>6, <2>7
<1>3. n \in T
  <2> HIDE DEF T
  <2> QED BY <1>1, <1>2, Induction
<1> QED BY <1>3

(* The list s is in the order of its keys.                                *)
Ascends(key, s, n) == \A i, j \in 1 .. n : i < j => key[s[i]] <= key[s[j]]

(* Every list can be put into the order of its keys.                      *)
LEMMA OrderExists ==
  ASSUME NEW B, NEW key \in [B -> Int], NEW list \in Seq(B)
  PROVE  \E s \in Reordered(list) : Ascends(key, s, Len(list))
PROOF
<1> DEFINE Works(v, n) == \E o, s : Puts(v, n, o, s) /\ Ascends(key, s, n)
           T == {n \in Nat : \A v \in Seq(B) : Len(v) = n => Works(v, n)}
<1>1. 0 \in T
  <2> SUFFICES ASSUME NEW v \in Seq(B), Len(v) = 0 PROVE Works(v, 0)
    OBVIOUS
  <2> DEFINE o == [i \in 1 .. 0 |-> i]
             s == [i \in 1 .. 0 |-> v[o[i]]]
  <2>1. o \in [1 .. 0 -> 1 .. 0] /\ IsInjective(o)
    BY DEF IsInjective
  <2>2. Puts(v, 0, o, s)
    <3> HIDE DEF o
    <3> QED BY <2>1 DEF Puts
  <2>3. Ascends(key, s, 0)
    <3> HIDE DEF s
    <3> QED BY DEF Ascends
  <2> HIDE DEF o, s
  <2> QED BY <2>2, <2>3
<1>2. ASSUME NEW n \in Nat, n \in T PROVE n + 1 \in T
  <2> SUFFICES ASSUME NEW v \in Seq(B), Len(v) = n + 1 PROVE Works(v, n + 1)
    OBVIOUS
  <2>0. DOMAIN v = 1 .. n + 1 /\ \A i \in 1 .. n + 1 : v[i] \in B
    OBVIOUS
  <2>1. PICK m \in 1 .. n + 1 : \A i \in 1 .. n + 1 : key[v[i]] <= key[v[m]]
    BY LargestKey
  <2> DEFINE rest == LeftOut(v, m)
  <2>2. rest \in Seq(B) /\ Len(rest) = n
    <3>1. m \in 1 .. Len(v) /\ Len(v) - 1 = n
      OBVIOUS
    <3> QED BY <3>1, LeftOutFacts
  <2>3. \A i \in 1 .. n : rest[i] = IF i < m THEN v[i] ELSE v[i + 1]
    <3>1. Len(v) - 1 = n
      OBVIOUS
    <3> QED BY <3>1 DEF LeftOut
  <2> HIDE DEF rest
  <2>4. PICK p, r : Puts(rest, n, p, r) /\ Ascends(key, r, n)
    BY <1>2, <2>2
  <2>5. p \in [1 .. n -> 1 .. n] /\ IsInjective(p) /\ r = [i \in 1 .. n |-> rest[p[i]]]
    BY <2>4 DEF Puts
  <2> DEFINE at == [i \in 1 .. n |-> IF i < m THEN i ELSE i + 1]
             o  == [i \in 1 .. n + 1 |-> IF i <= n THEN at[p[i]] ELSE m]
             s  == [i \in 1 .. n + 1 |-> v[o[i]]]
  <2>6. \A i \in 1 .. n : at[i] \in 1 .. n + 1 /\ at[i] # m /\ rest[i] = v[at[i]]
    BY <2>3
  <2>7. \A i, j \in 1 .. n : at[i] = at[j] => i = j
    OBVIOUS
  <2> HIDE DEF at
  <2>8. \A i \in 1 .. n : o[i] = at[p[i]]
    OBVIOUS
  <2>9. o[n + 1] = m
    OBVIOUS
  <2>10. \A i \in 1 .. n + 1 : o[i] \in 1 .. n + 1
    <3> TAKE i \in 1 .. n + 1
    <3>1. CASE i \in 1 .. n
      <4>1. p[i] \in 1 .. n
        BY <2>5, <3>1
      <4> HIDE DEF o
      <4> QED BY <3>1, <4>1, <2>6, <2>8
    <3>2. CASE i = n + 1
      <4> HIDE DEF o
      <4> QED BY <3>2, <2>9
    <3> QED BY <3>1, <3>2
  <2>11. o \in [1 .. n + 1 -> 1 .. n + 1] /\ DOMAIN o = 1 .. n + 1
    BY <2>10
  <2>12. \A i \in 1 .. n + 1 : i \in 1 .. n \/ i = n + 1
    OBVIOUS
  <2>13. \A i \in 1 .. n + 1 : s[i] = v[o[i]]
    OBVIOUS
  <2>14. s = [i \in 1 .. n + 1 |-> v[o[i]]]
    OBVIOUS
  <2> HIDE DEF o, s
  <2>15. \A i, j \in 1 .. n : p[i] = p[j] => i = j
    BY <2>5 DEF IsInjective
  <2>16. \A i, j \in 1 .. n : o[i] = o[j] => i = j
    <3> TAKE i, j \in 1 .. n
    <3>1. p[i] \in 1 .. n /\ p[j] \in 1 .. n
      BY <2>5
    <3> QED BY <3>1, <2>7, <2>8, <2>15
  <2>17. \A i \in 1 .. n : o[i] # m
    <3> TAKE i \in 1 .. n
    <3>1. p[i] \in 1 .. n
      BY <2>5
    <3> QED BY <3>1, <2>6, <2>8, ZenonT(60)
  <2>18. IsInjective(o)
    <3>1. \A i, j \in 1 .. n + 1 : o[i] = o[j] => i = j
      BY <2>9, <2>12, <2>16, <2>17
    <3> QED BY <3>1, <2>11 DEF IsInjective
  <2>19. Puts(v, n + 1, o, s)
    BY <2>11, <2>14, <2>18 DEF Puts
  <2>20. \A i \in 1 .. n : s[i] = r[i]
    <3> TAKE i \in 1 .. n
    <3>1. i \in 1 .. n + 1 /\ p[i] \in 1 .. n
      BY <2>5
    <3>2. s[i] = v[at[p[i]]]
      BY <3>1, <2>8, <2>13
    <3>3. r[i] = rest[p[i]]
      BY <2>5
    <3> QED BY <3>1, <3>2, <3>3, <2>6
  <2>21. s[n + 1] = v[m]
    <3>1. n + 1 \in 1 .. n + 1
      OBVIOUS
    <3> QED BY <3>1, <2>9, <2>13
  <2>22. Ascends(key, s, n + 1)
    <3> SUFFICES ASSUME NEW i \in 1 .. n + 1, NEW j \in 1 .. n + 1, i < j
                 PROVE  key[s[i]] <= key[s[j]]
      BY DEF Ascends
    <3>1. i \in 1 .. n
      OBVIOUS
    <3>2. CASE j \in 1 .. n
      BY <3>1, <3>2, <2>4, <2>20 DEF Ascends
    <3>3. CASE j = n + 1
      <4>1. s[i] = v[o[i]] /\ o[i] \in 1 .. n + 1
        BY <2>10, <2>13
      <4> QED BY <4>1, <3>3, <2>1, <2>21
    <3> QED BY <3>2, <3>3, <2>12
  <2> QED BY <2>19, <2>22
<1>3. PICK n \in Nat : n = Len(list)
  OBVIOUS
<1>4. n \in T
  <2> HIDE DEF T
  <2> QED BY <1>1, <1>2, Induction
<1>5. PICK o, s : Puts(list, n, o, s) /\ Ascends(key, s, n)
  BY <1>3, <1>4
<1>6. s \in Reordered(list)
  BY <1>3, <1>5, IsReordered
<1> QED BY <1>3, <1>5, <1>6

(* Sorted numbers are the numbers, in ascending order.                    *)
LEMMA SortedFacts ==
  ASSUME NEW values \in Seq(Nat)
  PROVE  /\ Sorted(values) \in Reordered(values)
         /\ \A i, j \in DOMAIN values : i < j => Sorted(values)[i] <= Sorted(values)[j]
PROOF
<1> DEFINE key == [x \in Nat |-> x]
<1>1. PICK s \in Reordered(values) : Ascends(key, s, Len(values))
  <2>1. key \in [Nat -> Int]
    OBVIOUS
  <2> HIDE DEF key
  <2> QED BY <2>1, OrderExists
<1>2. PICK n \in Nat : n = Len(values) /\ DOMAIN values = 1 .. n
  OBVIOUS
<1>3. s \in Seq(Nat) /\ Len(s) = n
  BY <1>2, ReorderedFacts
<1>4. \A i, j \in DOMAIN values : i < j => s[i] <= s[j]
  <2> TAKE i, j \in DOMAIN values
  <2>1. s[i] \in Nat /\ s[j] \in Nat /\ i \in 1 .. n /\ j \in 1 .. n
    BY <1>2, <1>3
  <2>2. key[s[i]] = s[i] /\ key[s[j]] = s[j]
    BY <2>1
  <2> HIDE DEF key
  <2> QED BY <1>1, <1>2, <2>1, <2>2 DEF Ascends
<1> QED BY <1>4 DEF Sorted, InOrder

(* They do not depend on the order given.                                 *)
LEMMA SortedSame ==
  ASSUME NEW values \in Seq(Nat), NEW same \in Reordered(values)
  PROVE  Sorted(same) = Sorted(values)
PROOF
<1>1. Reordered(same) = Reordered(values)
  BY SameOrders
<1>2. DOMAIN same = DOMAIN values
  <2>1. same \in Seq(Nat) /\ Len(same) = Len(values)
    BY ReorderedFacts
  <2> QED BY <2>1
<1> QED BY <1>1, <1>2 DEF Sorted, InOrder

(* What a function makes of the elements of a list.                       *)
Images(F, list) == [i \in DOMAIN list |-> F[list[i]]]

(* The images of a list in another order.                                 *)
LEMMA EachReordered ==
  ASSUME NEW B, NEW C, NEW F \in [B -> C], NEW list \in Seq(B), NEW same \in Reordered(list)
  PROVE  /\ Images(F, list) \in Seq(C)
         /\ Images(F, same) \in Reordered(Images(F, list))
PROOF
<1>1. PICK n \in Nat : n = Len(list) /\ DOMAIN list = 1 .. n
  OBVIOUS
<1>2. PICK o : Puts(list, n, o, same)
  BY <1>1, ReorderedBy
<1>3. o \in [1 .. n -> 1 .. n] /\ IsInjective(o) /\ same = [i \in 1 .. n |-> list[o[i]]]
  BY <1>2 DEF Puts
<1> DEFINE was == [i \in DOMAIN list |-> F[list[i]]]
           now == [i \in DOMAIN same |-> F[same[i]]]
<1>4. \A i \in 1 .. n : F[list[i]] \in C
  BY <1>1
<1>5. was = [i \in 1 .. n |-> F[list[i]]]
  BY <1>1
<1>6. was \in Seq(C) /\ Len(was) = n
  <2> HIDE DEF was
  <2> QED BY <1>4, <1>5
<1>7. now = [i \in 1 .. n |-> F[same[i]]]
  BY <1>3
<1>8. \A i \in 1 .. n : F[same[i]] = was[o[i]]
  <2> TAKE i \in 1 .. n
  <2>1. o[i] \in 1 .. n /\ same[i] = list[o[i]]
    BY <1>3
  <2> HIDE DEF was
  <2> QED BY <2>1, <1>5
<1> HIDE DEF was, now
<1>9. now = [i \in 1 .. n |-> was[o[i]]]
  BY <1>7, <1>8
<1>10. Puts(was, n, o, now)
  BY <1>3, <1>9 DEF Puts
<1>11. now \in Reordered(was)
  BY <1>6, <1>10, IsReordered
<1> QED BY <1>6, <1>11 DEF was, now, Images

(* A square is no negative number.                                        *)
LEMMA SquareFacts ==
  \A d \in Int : d * d >= 0
PROOF
<1> QED OBVIOUS

(* Two squares and what lies between them.                                *)
LEMMA SquareOfDifference ==
  \A q, n, s, x, v \in Int :
    /\ (q + v * v) + (n + 1) * (x * x) - 2 * (x * (s + v)) = (q + n * (x * x) - 2 * (x * s)) + (v - x) * (v - x)
    /\ (n + 1) * (q + v * v) - (s + v) * (s + v) = (n * q - s * s) + (q + n * (v * v) - 2 * (v * s))
PROOF
<1> QED OBVIOUS

(* The spread of numbers is none below zero.                              *)
LEMMA SpreadIsNatural ==
  ASSUME NEW values \in Seq(Nat)
  PROVE  Spread(values) \in Int /\ Spread(values) >= 0
PROOF
<1> DEFINE Squares(s) == [i \in DOMAIN s |-> s[i] * s[i]]
           Around(s)  == \A x \in Int : Total(Squares(s)) + Len(s) * (x * x) - 2 * (x * Total(s)) >= 0
           Apart(s)    == Len(s) * Total(Squares(s)) - Total(s) * Total(s) >= 0
           T == {s \in Seq(Nat) : Total(Squares(s)) \in Nat /\ Total(s) \in Nat /\ Around(s) /\ Apart(s)}
<1>1. <<>> \in T
  <2>1. Squares(<<>>) = <<>>
    OBVIOUS
  <2>2. Total(<<>>) = 0
    BY TotalOfNothing
  <2> QED BY <2>1, <2>2
<1>2. ASSUME NEW s \in Seq(Nat), NEW v \in Nat, s \in T PROVE Append(s, v) \in T
  <2> DEFINE more == Append(s, v)
             was  == Squares(s)
             now  == Squares(more)
             k    == v * v
  <2>1. PICK n \in Nat : n = Len(s) /\ DOMAIN s = 1 .. n
    OBVIOUS
  <2>2. more \in Seq(Nat) /\ Len(more) = n + 1 /\ DOMAIN more = 1 .. n + 1
        /\ more[n + 1] = v /\ \A i \in 1 .. n : more[i] = s[i]
    BY <2>1
  <2>3. was \in Seq(Nat) /\ Len(was) = n /\ DOMAIN was = 1 .. n /\ k \in Nat
    BY <2>1
  <2>4. now = Append(was, k)
    <3>1. \A i \in 1 .. n + 1 : more[i] * more[i] \in Nat
      BY <2>2
    <3>2. now = [i \in 1 .. n + 1 |-> more[i] * more[i]]
      BY <2>2
    <3>3. now \in Seq(Nat) /\ Len(now) = n + 1
      <4> HIDE DEF now, more
      <4> QED BY <3>1, <3>2
    <3>4. \A i \in 1 .. n : was[i] = s[i] * s[i]
      BY <2>1
    <3> HIDE DEF was, more, k
    <3> DEFINE grown == Append(was, k)
    <3>5. grown \in Seq(Nat) /\ Len(grown) = n + 1 /\ grown[n + 1] = k
          /\ \A i \in 1 .. n : grown[i] = was[i]
      BY <2>3
    <3> HIDE DEF grown
    <3>6. \A i \in 1 .. n + 1 : now[i] = grown[i]
      <4> TAKE i \in 1 .. n + 1
      <4>1. now[i] = more[i] * more[i]
        BY <3>2
      <4> HIDE DEF now
      <4>2. CASE i \in 1 .. n
        BY <4>1, <4>2, <2>2, <3>4, <3>5
      <4>3. CASE i = n + 1
        BY <4>1, <4>3, <2>2, <3>5 DEF k
      <4> QED BY <4>2, <4>3
    <3> HIDE DEF now
    <3>7. now = grown
      BY <3>3, <3>5, <3>6, SameSequence
    <3> QED BY <3>7 DEF grown
  <2>5. PICK q \in Nat : q = Total(was)
    BY <1>2
  <2>6. PICK t \in Nat : t = Total(s)
    BY <1>2
  <2>7. \A x \in Int : q + n * (x * x) - 2 * (x * t) >= 0
    BY <1>2, <2>1, <2>5, <2>6
  <2>8. n * q - t * t >= 0
    BY <1>2, <2>1, <2>5, <2>6
  <2>9. Total(more) = t + v
    BY <2>6, TotalGrows
  <2>10. Total(now) = q + v * v
    <3> HIDE DEF was, now, k
    <3>1. Total(now) = q + k
      BY <2>3, <2>4, <2>5, TotalGrows
    <3> QED BY <3>1 DEF k
  <2>11. \A x \in Int : (q + v * v) + (n + 1) * (x * x) - 2 * (x * (t + v)) >= 0
    <3> TAKE x \in Int
    <3>1. (q + v * v) + (n + 1) * (x * x) - 2 * (x * (t + v)) = (q + n * (x * x) - 2 * (x * t)) + (v - x) * (v - x)
      BY SquareOfDifference
    <3>2. (v - x) * (v - x) >= 0 /\ (v - x) * (v - x) \in Int
      <4>1. v - x \in Int
        OBVIOUS
      <4> QED BY <4>1, SquareFacts
    <3>3. q + n * (x * x) - 2 * (x * t) >= 0 /\ q + n * (x * x) - 2 * (x * t) \in Int
      <4>1. n * (x * x) \in Int /\ x * t \in Int
        OBVIOUS
      <4> QED BY <2>7, <4>1
    <3> DEFINE a == q + n * (x * x) - 2 * (x * t)
               b == (v - x) * (v - x)
    <3>4. a \in Int /\ b \in Int /\ a >= 0 /\ b >= 0
      BY <3>2, <3>3
    <3>5. a + b >= 0
      <4> HIDE DEF a, b
      <4> QED BY <3>4
    <3> QED BY <3>1, <3>5
  <2>12. (n + 1) * (q + v * v) - (t + v) * (t + v) >= 0
    <3> DEFINE a == n * q - t * t
               b == q + n * (v * v) - 2 * (v * t)
    <3>1. (n + 1) * (q + v * v) - (t + v) * (t + v) = a + b
      BY SquareOfDifference
    <3>2. a \in Int /\ b \in Int
      OBVIOUS
    <3>3. a >= 0 /\ b >= 0
      BY <2>7, <2>8
    <3>4. a + b >= 0
      <4> HIDE DEF a, b
      <4> QED BY <3>2, <3>3
    <3> QED BY <3>1, <3>4
  <2>13. Total(now) \in Nat /\ Total(more) \in Nat
    <3>1. t + v \in Nat /\ q + v * v \in Nat
      OBVIOUS
    <3> HIDE DEF now, more
    <3> QED BY <2>9, <2>10, <3>1
  <2>14. Around(more)
    <3> HIDE DEF more
    <3> QED BY <2>2, <2>9, <2>10, <2>11
  <2>15. Apart(more)
    <3> HIDE DEF more
    <3> QED BY <2>2, <2>9, <2>10, <2>12
  <2> QED BY <2>2, <2>13, <2>14, <2>15
<1>3. Seq(Nat) \subseteq T
  <2> HIDE DEF T
  <2>1. <<>> \in T /\ \A s \in Seq(Nat), v \in Nat : s \in T => Append(s, v) \in T
    BY <1>1, <1>2
  <2> QED BY <2>1, SequenceInduction
<1>4. values \in T
  BY <1>3
<1> DEFINE squares == Squares(values)
<1>5. Spread(values) = Len(values) * Total(squares) - Total(values) * Total(values)
  BY DEF Spread, Each
<1>6. Total(squares) \in Nat /\ Total(values) \in Nat /\ Len(values) * Total(squares) - Total(values) * Total(values) >= 0
  BY <1>4
<1> HIDE DEF squares
<1>7. PICK q, t, n \in Nat : q = Total(squares) /\ t = Total(values) /\ n = Len(values)
  BY <1>6
<1>8. n * q - t * t \in Int
  OBVIOUS
<1> QED BY <1>5, <1>6, <1>7, <1>8

(* The statistics of numbers do not depend on their order.                *)
LEMMA ValuesSame ==
  ASSUME NEW values \in Seq(Nat), NEW same \in Reordered(values)
  PROVE  FromValues(same) = FromValues(values)
PROOF
<1>1. same \in Seq(Nat) /\ Len(same) = Len(values)
  BY ReorderedFacts
<1>2. Sorted(same) = Sorted(values)
  BY SortedSame
<1>3. Total(same) = Total(values)
  BY TotalReordered
<1>4. same = <<>> <=> values = <<>>
  BY <1>1
<1>5. Median(same) = Median(values)
  BY <1>2 DEF Median
<1> DEFINE sq == [x \in Nat |-> x * x]
           was == Images(sq, values)
           now == Images(sq, same)
<1>6. was \in Seq(Nat) /\ now \in Reordered(was)
  <2>1. sq \in [Nat -> Nat]
    OBVIOUS
  <2> HIDE DEF sq
  <2> QED BY <2>1, EachReordered
<1>7. Total(now) = Total(was)
  <2> HIDE DEF now, was
  <2> QED BY <1>6, TotalReordered
<1>8. was = Each(values, LAMBDA v : v * v) /\ now = Each(same, LAMBDA v : v * v)
  <2>1. (\A i \in DOMAIN values : values[i] \in Nat) /\ \A i \in DOMAIN same : same[i] \in Nat
    BY <1>1
  <2>2. \A x \in Nat : sq[x] = x * x
    OBVIOUS
  <2> HIDE DEF sq
  <2> QED BY <2>1, <2>2 DEF Each, Images
<1>9. Spread(same) = Spread(values)
  <2> HIDE DEF was, now
  <2> QED BY <1>1, <1>3, <1>7, <1>8 DEF Spread
<1> QED BY <1>1, <1>2, <1>3, <1>4, <1>5, <1>9 DEF FromValues

(* The least of them is at most the greatest, and the spread a natural.   *)
LEMMA ValuesAreStats ==
  ASSUME NEW values \in Seq(Nat)
  PROVE  FromValues(values).min <= FromValues(values).max /\ FromValues(values).spread >= 0
PROOF
<1>1. CASE values = <<>>
  BY <1>1 DEF FromValues
<1>2. CASE values # <<>>
  <2> DEFINE s == Sorted(values)
  <2>1. PICK n \in Nat : n = Len(values) /\ DOMAIN values = 1 .. n
    OBVIOUS
  <2>2. s \in Seq(Nat) /\ Len(s) = n
    BY <2>1, SortedFacts, ReorderedFacts
  <2>3. \A i, j \in 1 .. n : i < j => s[i] <= s[j]
    BY <2>1, SortedFacts
  <2>4. n > 0
    BY <1>2, <2>1
  <2> HIDE DEF s
  <2>5. s[1] <= s[n]
    <3>1. 1 \in 1 .. n /\ n \in 1 .. n /\ s[1] \in Nat
      BY <2>2, <2>4
    <3>2. CASE n = 1
      BY <3>1, <3>2
    <3>3. CASE 1 < n
      BY <2>3, <3>1, <3>3
    <3> QED BY <2>4, <3>2, <3>3
  <2>6. Last(s) = s[n]
    BY <2>2 DEF Last
  <2>7. FromValues(values).min = s[1] /\ FromValues(values).max = Last(s)
        /\ FromValues(values).spread = Spread(values)
    BY <1>2 DEF FromValues, s
  <2> QED BY <2>5, <2>6, <2>7, SpreadIsNatural
<1> QED BY <1>1, <1>2

(* Zeros and ones: their total counts the ones.                           *)
LEMMA BitsAreCounted ==
  ASSUME NEW bits \in Seq({0, 1})
  PROVE  /\ Total(bits) = Len(bits) <=> \A i \in DOMAIN bits : bits[i] = 1
         /\ Total(bits) \in Nat /\ Total(bits) <= Len(bits)
PROOF
<1> DEFINE Full(s) == \A i \in DOMAIN s : s[i] = 1
           T == {s \in Seq({0, 1}) : /\ Total(s) \in Nat /\ Total(s) <= Len(s)
                                     /\ Total(s) = Len(s) <=> Full(s)}
<1>1. <<>> \in T
  <2>1. <<>> \in Seq({0, 1}) /\ Len(<<>>) = 0 /\ Full(<<>>)
    OBVIOUS
  <2> QED BY <2>1, TotalOfNothing
<1>2. ASSUME NEW s \in Seq({0, 1}), NEW v \in {0, 1}, s \in T PROVE Append(s, v) \in T
  <2> DEFINE more == Append(s, v)
  <2>1. PICK n \in Nat : n = Len(s) /\ DOMAIN s = 1 .. n
    OBVIOUS
  <2>2. more \in Seq({0, 1}) /\ Len(more) = n + 1 /\ DOMAIN more = 1 .. n + 1
        /\ more[n + 1] = v /\ \A i \in 1 .. n : more[i] = s[i]
    BY <2>1
  <2>3. PICK t \in Nat : t = Total(s)
    BY <1>2
  <2>4. t <= n /\ (t = n <=> \A i \in 1 .. n : s[i] = 1)
    BY <1>2, <2>1, <2>3
  <2>5. Total(more) = t + v
    <3>1. s \in Seq(Nat) /\ v \in Nat
      OBVIOUS
    <3> QED BY <2>3, <3>1, TotalGrows
  <2> HIDE DEF more
  <2>6. Full(more) <=> (\A i \in 1 .. n : s[i] = 1) /\ v = 1
    <3>1. \A i \in 1 .. n + 1 : i \in 1 .. n \/ i = n + 1
      OBVIOUS
    <3>2. n + 1 \in 1 .. n + 1 /\ \A i \in 1 .. n : i \in 1 .. n + 1
      OBVIOUS
    <3> QED BY <2>2, <3>1, <3>2
  <2>7. t + v = n + 1 <=> t = n /\ v = 1
    BY <2>4
  <2>8. t + v \in Nat /\ t + v <= n + 1
    BY <2>4
  <2>9. more \in T
    BY <2>2, <2>4, <2>5, <2>6, <2>7, <2>8
  <2> QED BY <2>9 DEF more
<1>3. Seq({0, 1}) \subseteq T
  <2> HIDE DEF T
  <2>1. <<>> \in T /\ \A s \in Seq({0, 1}), v \in {0, 1} : s \in T => Append(s, v) \in T
    BY <1>1, <1>2
  <2> QED BY <2>1, SequenceInduction
<1> QED BY <1>3

(* The total of nothing but zeros.                                        *)
LEMMA ZerosAreNothing ==
  ASSUME NEW zeros \in Seq({0})
  PROVE  Total(zeros) = 0
PROOF
<1> DEFINE T == {s \in Seq({0}) : Total(s) = 0}
<1>1. <<>> \in T
  BY TotalOfNothing
<1>2. ASSUME NEW s \in Seq({0}), NEW v \in {0}, s \in T PROVE Append(s, v) \in T
  <2>1. s \in Seq(Nat) /\ 0 \in Nat /\ v = 0
    OBVIOUS
  <2>2. Total(Append(s, 0)) = Total(s) + 0
    BY <2>1, TotalGrows
  <2>3. Total(Append(s, v)) = 0
    BY <1>2, <2>1, <2>2
  <2> QED BY <2>3
<1>3. Seq({0}) \subseteq T
  <2> HIDE DEF T
  <2>1. <<>> \in T /\ \A s \in Seq({0}), v \in {0} : s \in T => Append(s, v) \in T
    BY <1>1, <1>2
  <2> QED BY <2>1, SequenceInduction
<1> QED BY <1>3

(* A count is a number, and that of all exactly when all are counted.     *)
LEMMA AllAreCounted ==
  ASSUME NEW B, NEW list \in Seq(B), NEW F \in [B -> BOOLEAN]
  PROVE  /\ Count(list, LAMBDA v : F[v]) \in Nat
         /\ Count(list, LAMBDA v : F[v]) = Len(list) <=> \A i \in DOMAIN list : F[list[i]]
         /\ (\A i \in DOMAIN list : ~F[list[i]]) => Count(list, LAMBDA v : F[v]) = 0
PROOF
<1> DEFINE bits == [i \in DOMAIN list |-> IF F[list[i]] THEN 1 ELSE 0]
<1>1. PICK n \in Nat : n = Len(list) /\ DOMAIN list = 1 .. n
  OBVIOUS
<1>2. bits \in Seq({0, 1}) /\ Len(bits) = n /\ DOMAIN bits = 1 .. n
  BY <1>1
<1>3. Count(list, LAMBDA v : F[v]) = Total(bits)
  BY DEF Count, Each
<1>4. \A i \in 1 .. n : bits[i] = 1 <=> F[list[i]]
  BY <1>1
<1>5. ASSUME \A i \in 1 .. n : ~F[list[i]] PROVE bits \in Seq({0})
  <2>1. bits = [i \in 1 .. n |-> 0]
    BY <1>1, <1>5
  <2> HIDE DEF bits
  <2> QED BY <2>1
<1> HIDE DEF bits
<1>6. Total(bits) \in Nat /\ (Total(bits) = n <=> \A i \in 1 .. n : bits[i] = 1)
  BY <1>2, BitsAreCounted
<1>7. (\A i \in 1 .. n : ~F[list[i]]) => Total(bits) = 0
  BY <1>5, ZerosAreNothing
<1> QED BY <1>1, <1>3, <1>4, <1>6, <1>7

(* What a run adds to each of the aggregates.                             *)
SuccessOf(D)   == [r \in D |-> IF r.success THEN 1 ELSE 0]

DurationOf(D)  == [r \in D |-> r.duration_ms]

FilesOf(D)     == [r \in D |-> r.changed_files]

LinesOf(D)     == [r \in D |-> DiffLines(r)]

FailuresOf(D)  == [r \in D |-> FailedOutcomes(r.verification)]

FlagsOf(D)     == [r \in D |-> Len(r.violations)]

(* What is measured of a run are numbers.                                 *)
Measured(D) ==
  /\ SuccessOf(D) \in [D -> {0, 1}] /\ DurationOf(D) \in [D -> Nat] /\ FilesOf(D) \in [D -> Nat]
  /\ LinesOf(D) \in [D -> Nat] /\ FailuresOf(D) \in [D -> Nat] /\ FlagsOf(D) \in [D -> Nat]

(* The aggregates are made of what is measured of the runs.               *)
Gathered(D, runs) ==
  [run_count |-> Len(runs),
   successes |-> Total(Images(SuccessOf(D), runs)),
   duration  |-> FromValues(Images(DurationOf(D), runs)),
   files     |-> FromValues(Images(FilesOf(D), runs)),
   lines     |-> FromValues(Images(LinesOf(D), runs)),
   verification_failures |-> Total(Images(FailuresOf(D), runs)),
   violations |-> Total(Images(FlagsOf(D), runs))]

(* They are what Aggregates computes.                                     *)
LEMMA AggregatesAreGathered ==
  ASSUME NEW D, NEW runs \in Seq(D)
  PROVE  Aggregates(runs) = Gathered(D, runs)
PROOF
<1>1. \A i \in DOMAIN runs : runs[i] \in D
  OBVIOUS
<1>2. Each(runs, LAMBDA v : IF v.success THEN 1 ELSE 0) = Images(SuccessOf(D), runs)
  BY <1>1 DEF Each, Images, SuccessOf
<1>3. Each(runs, LAMBDA r : r.duration_ms) = Images(DurationOf(D), runs)
  BY <1>1 DEF Each, Images, DurationOf
<1>4. Each(runs, LAMBDA r : r.changed_files) = Images(FilesOf(D), runs)
  BY <1>1 DEF Each, Images, FilesOf
<1>5. Each(runs, DiffLines) = Images(LinesOf(D), runs)
  BY <1>1 DEF Each, Images, LinesOf
<1>6. Each(runs, LAMBDA r : FailedOutcomes(r.verification)) = Images(FailuresOf(D), runs)
  BY <1>1 DEF Each, Images, FailuresOf
<1>7. Each(runs, LAMBDA r : Len(r.violations)) = Images(FlagsOf(D), runs)
  BY <1>1 DEF Each, Images, FlagsOf
<1>8. Count(runs, LAMBDA r : r.success) = Total(Each(runs, LAMBDA v : IF v.success THEN 1 ELSE 0))
  BY DEF Count
<1> QED BY <1>2, <1>3, <1>4, <1>5, <1>6, <1>7, <1>8 DEF Aggregates, Gathered

(* The summary is made of the same.                                       *)
LEMMA SummaryIsGathered ==
  ASSUME NEW D, NEW runs \in Seq(D)
  PROVE  /\ FromValidated(runs).ok
         /\ \A field \in Shared : FromValidated(runs)[field] = Gathered(D, runs)[field]
PROOF
<1>1. FromValidated(runs) =
        [ok |-> TRUE,
         successes |-> Aggregates(runs).successes, duration |-> Aggregates(runs).duration,
         files |-> Aggregates(runs).files, lines |-> Aggregates(runs).lines,
         verification_failures |-> Aggregates(runs).verification_failures,
         violations |-> Aggregates(runs).violations]
  BY DEF FromValidated, Aggregates
<1> DEFINE was == Aggregates(runs)
           now == Gathered(D, runs)
<1>2. was = now
  BY AggregatesAreGathered
<1> HIDE DEF was, now
<1>3. FromValidated(runs) =
        [ok |-> TRUE, successes |-> now.successes, duration |-> now.duration,
         files |-> now.files, lines |-> now.lines,
         verification_failures |-> now.verification_failures, violations |-> now.violations]
  BY <1>1, <1>2 DEF was
<1>4. FromValidated(runs).ok /\ \A field \in Shared : FromValidated(runs)[field] = now[field]
  BY <1>3 DEF Shared
<1> QED BY <1>4 DEF now

(* They do not depend on the order of the runs.                           *)
LEMMA GatheredSame ==
  ASSUME NEW D, Measured(D), NEW runs \in Seq(D), NEW same \in Reordered(runs)
  PROVE  Gathered(D, same) = Gathered(D, runs)
PROOF
<1>1. \A C, F : F \in [D -> C] => Images(F, runs) \in Seq(C) /\ Images(F, same) \in Reordered(Images(F, runs))
  BY EachReordered
<1>2. \A F : F \in [D -> Nat] => FromValues(Images(F, same)) = FromValues(Images(F, runs))
  <2> TAKE F
  <2> HAVE F \in [D -> Nat]
  <2> DEFINE was == Images(F, runs)
             now == Images(F, same)
  <2>1. was \in Seq(Nat) /\ now \in Reordered(was)
    BY <1>1
  <2> HIDE DEF was, now
  <2>2. FromValues(now) = FromValues(was)
    BY <2>1, ValuesSame
  <2> QED BY <2>2 DEF was, now
<1>3. \A F : F \in [D -> Nat] => Total(Images(F, same)) = Total(Images(F, runs))
  <2> TAKE F
  <2> HAVE F \in [D -> Nat]
  <2> DEFINE was == Images(F, runs)
             now == Images(F, same)
  <2>1. was \in Seq(Nat) /\ now \in Reordered(was)
    BY <1>1
  <2> HIDE DEF was, now
  <2>2. Total(now) = Total(was)
    BY <2>1, TotalReordered
  <2> QED BY <2>2 DEF was, now
<1>4. SuccessOf(D) \in [D -> Nat]
  <2> DEFINE f == SuccessOf(D)
  <2>1. f \in [D -> {0, 1}]
    BY DEF Measured
  <2> HIDE DEF f
  <2>2. f \in [D -> Nat]
    BY <2>1
  <2> QED BY <2>2 DEF f
<1>5. Len(same) = Len(runs)
  BY ReorderedFacts
<1>6. Total(Images(SuccessOf(D), same)) = Total(Images(SuccessOf(D), runs))
  BY <1>3, <1>4
<1>7. FromValues(Images(DurationOf(D), same)) = FromValues(Images(DurationOf(D), runs))
  BY <1>2 DEF Measured
<1>8. FromValues(Images(FilesOf(D), same)) = FromValues(Images(FilesOf(D), runs))
  BY <1>2 DEF Measured
<1>9. FromValues(Images(LinesOf(D), same)) = FromValues(Images(LinesOf(D), runs))
  BY <1>2 DEF Measured
<1>10. Total(Images(FailuresOf(D), same)) = Total(Images(FailuresOf(D), runs))
  BY <1>3 DEF Measured
<1>11. Total(Images(FlagsOf(D), same)) = Total(Images(FlagsOf(D), runs))
  BY <1>3 DEF Measured
<1> QED BY <1>5, <1>6, <1>7, <1>8, <1>9, <1>10, <1>11 DEF Gathered

(* The results of runs: outcomes that succeeded or not, counts.           *)
ResultSet(R, O, V) ==
  /\ \A o \in O : o.success \in BOOLEAN
  /\ \A r \in R : /\ r.run_id \in Nat /\ r.success \in BOOLEAN
                  /\ r.duration_ms \in Nat /\ r.changed_files \in Nat
                  /\ r.added_lines \in Nat /\ r.deleted_lines \in Nat
                  /\ r.verification \in Seq(O) /\ r.violations \in Seq(V)

(* The number of failed outcomes.                                         *)
LEMMA FailuresAreCounted ==
  ASSUME NEW O, \A o \in O : o.success \in BOOLEAN, NEW outcomes \in Seq(O)
  PROVE  /\ FailedOutcomes(outcomes) \in Nat
         /\ Successful(outcomes) => FailedOutcomes(outcomes) = 0
PROOF
<1> DEFINE F == [o \in O |-> ~o.success]
<1>1. F \in [O -> BOOLEAN]
  OBVIOUS
<1>2. \A i \in DOMAIN outcomes : outcomes[i] \in O
  OBVIOUS
<1>3. \A i \in DOMAIN outcomes : F[outcomes[i]] = ~outcomes[i].success
  BY <1>2
<1>4. FailedOutcomes(outcomes) = Total(Each(outcomes, LAMBDA v : IF ~v.success THEN 1 ELSE 0))
  BY DEF FailedOutcomes, Count
<1> HIDE DEF F
<1>5. Count(outcomes, LAMBDA v : F[v]) = Total(Each(outcomes, LAMBDA v : IF F[v] THEN 1 ELSE 0))
  BY DEF Count
<1>6. Each(outcomes, LAMBDA v : IF ~v.success THEN 1 ELSE 0) = Each(outcomes, LAMBDA v : IF F[v] THEN 1 ELSE 0)
  BY <1>3 DEF Each
<1>7. FailedOutcomes(outcomes) = Count(outcomes, LAMBDA v : F[v])
  BY <1>4, <1>5, <1>6
<1>8. Count(outcomes, LAMBDA v : F[v]) \in Nat
  BY <1>1, AllAreCounted
<1>9. Successful(outcomes) => Count(outcomes, LAMBDA v : F[v]) = 0
  <2>1. Successful(outcomes) => \A i \in DOMAIN outcomes : ~F[outcomes[i]]
    BY <1>3 DEF Successful
  <2>2. (\A i \in DOMAIN outcomes : ~F[outcomes[i]]) => Count(outcomes, LAMBDA v : F[v]) = 0
    BY <1>1, AllAreCounted
  <2> QED BY <2>1, <2>2
<1> QED BY <1>7, <1>8, <1>9

(* What is measured of a result.                                          *)
LEMMA ResultsAreMeasured ==
  ASSUME NEW R, NEW O, NEW V, ResultSet(R, O, V)
  PROVE  Measured(R)
PROOF
<1>1. \A r \in R : FailedOutcomes(r.verification) \in Nat
  <2> TAKE r \in R
  <2> DEFINE outcomes == r.verification
  <2>1. outcomes \in Seq(O) /\ \A o \in O : o.success \in BOOLEAN
    BY DEF ResultSet
  <2> HIDE DEF outcomes
  <2>2. FailedOutcomes(outcomes) \in Nat
    BY <2>1, FailuresAreCounted
  <2> QED BY <2>2 DEF outcomes
<1>2. \A r \in R : DiffLines(r) \in Nat
  <2> TAKE r \in R
  <2>1. r.added_lines \in Nat /\ r.deleted_lines \in Nat
    BY DEF ResultSet
  <2>2. PICK a, b \in Nat : a = r.added_lines /\ b = r.deleted_lines
    BY <2>1
  <2>3. Least(a + b, MaxLines) \in Nat
    BY NumeralsSpellNumbers DEF Least
  <2> QED BY <2>2, <2>3 DEF DiffLines
<1>3. \A r \in R : Len(r.violations) \in Nat
  <2> TAKE r \in R
  <2>1. PICK v \in Seq(V) : v = r.violations
    BY DEF ResultSet
  <2> QED BY <2>1
<1>4. \A r \in R : r.duration_ms \in Nat /\ r.changed_files \in Nat
  BY DEF ResultSet
<1>5. SuccessOf(R) \in [R -> {0, 1}]
  BY DEF SuccessOf
<1>6. DurationOf(R) \in [R -> Nat] /\ FilesOf(R) \in [R -> Nat]
  BY <1>4 DEF DurationOf, FilesOf
<1>7. LinesOf(R) \in [R -> Nat]
  BY <1>2 DEF LinesOf
<1>8. FailuresOf(R) \in [R -> Nat]
  BY <1>1 DEF FailuresOf
<1>9. FlagsOf(R) \in [R -> Nat]
  BY <1>3 DEF FlagsOf
<1> QED BY <1>5, <1>6, <1>7, <1>8, <1>9 DEF Measured

(* The details of results.                                                *)
Details(R) == {RunDetail(r) : r \in R}

(* What is measured of a detail is what is measured of its result.        *)
LEMMA DetailFacts ==
  ASSUME NEW R, NEW O, NEW V, ResultSet(R, O, V), NEW r \in R
  PROVE  LET d == RunDetail(r) IN
         /\ d.run_id = r.run_id /\ d.success = r.success
         /\ d.duration_ms = r.duration_ms /\ d.changed_files = r.changed_files
         /\ DiffLines(d) = DiffLines(r)
         /\ FailedOutcomes(d.verification) = FailedOutcomes(r.verification)
         /\ Len(d.violations) = Len(r.violations)
PROOF
<1> DEFINE d == RunDetail(r)
<1>1. /\ d.run_id = r.run_id /\ d.success = r.success
      /\ d.duration_ms = r.duration_ms /\ d.changed_files = r.changed_files
      /\ d.added_lines = r.added_lines /\ d.deleted_lines = r.deleted_lines
      /\ d.verification = Each(r.verification, LAMBDA o : [success |-> o.success])
      /\ d.violations = Each(r.violations, LAMBDA v : v.message)
  BY DEF RunDetail
<1> HIDE DEF d
<1>2. DiffLines(d) = DiffLines(r)
  BY <1>1 DEF DiffLines
<1>3. PICK outcomes \in Seq(O) : outcomes = r.verification
  BY DEF ResultSet
<1>4. PICK violations \in Seq(V) : violations = r.violations
  BY DEF ResultSet
<1>5. Len(d.violations) = Len(r.violations)
  <2>1. PICK n \in Nat : n = Len(violations) /\ DOMAIN violations = 1 .. n
    OBVIOUS
  <2>2. d.violations = [i \in 1 .. n |-> violations[i].message]
    BY <1>1, <1>4, <2>1 DEF Each
  <2>3. Len([i \in 1 .. n |-> violations[i].message]) = n
    OBVIOUS
  <2> QED BY <1>4, <2>1, <2>2, <2>3
<1>6. FailedOutcomes(d.verification) = FailedOutcomes(r.verification)
  <2> DEFINE told == Each(outcomes, LAMBDA o : [success |-> o.success])
  <2>1. told = [i \in DOMAIN outcomes |-> [success |-> outcomes[i].success]]
    BY DEF Each
  <2> HIDE DEF told
  <2>2. DOMAIN told = DOMAIN outcomes /\ \A i \in DOMAIN outcomes : told[i].success = outcomes[i].success
    BY <2>1
  <2>3. Each(told, LAMBDA v : IF ~v.success THEN 1 ELSE 0) = Each(outcomes, LAMBDA v : IF ~v.success THEN 1 ELSE 0)
    BY <2>2 DEF Each
  <2>4. FailedOutcomes(told) = Total(Each(told, LAMBDA v : IF ~v.success THEN 1 ELSE 0))
    BY DEF FailedOutcomes, Count
  <2>5. FailedOutcomes(outcomes) = Total(Each(outcomes, LAMBDA v : IF ~v.success THEN 1 ELSE 0))
    BY DEF FailedOutcomes, Count
  <2>6. FailedOutcomes(told) = FailedOutcomes(outcomes)
    BY <2>3, <2>4, <2>5
  <2>7. d.verification = told
    BY <1>1, <1>3 DEF told
  <2> QED BY <1>3, <2>6, <2>7
<1> QED BY <1>1, <1>2, <1>5, <1>6 DEF d

(* They are measured as the results are.                                  *)
LEMMA DetailsAreMeasured ==
  ASSUME NEW R, NEW O, NEW V, ResultSet(R, O, V), NEW list \in Seq(R)
  PROVE  /\ Measured(Details(R)) /\ Each(list, RunDetail) \in Seq(Details(R))
         /\ Gathered(Details(R), Each(list, RunDetail)) = Gathered(R, list)
PROOF
<1> DEFINE D == Details(R)
           made == Each(list, RunDetail)
<1>1. PICK n \in Nat : n = Len(list) /\ DOMAIN list = 1 .. n
  OBVIOUS
<1>2. \A i \in 1 .. n : list[i] \in R
  BY <1>1
<1>3. made = [i \in 1 .. n |-> RunDetail(list[i])]
  BY <1>1 DEF Each
<1>4. \A i \in 1 .. n : RunDetail(list[i]) \in D
  BY <1>2 DEF Details
<1> HIDE DEF made
<1>5. made \in Seq(D) /\ Len(made) = n /\ DOMAIN made = 1 .. n
  <2> HIDE DEF D
  <2> QED BY <1>3, <1>4
<1>6. \A r \in R : RunDetail(r) \in D
  BY DEF Details
<1>7. \A d \in D : \E r \in R : d = RunDetail(r)
  BY DEF Details
<1> HIDE DEF D
<1>8. /\ SuccessOf(R) \in [R -> {0, 1}] /\ DurationOf(R) \in [R -> Nat] /\ FilesOf(R) \in [R -> Nat]
      /\ LinesOf(R) \in [R -> Nat] /\ FailuresOf(R) \in [R -> Nat] /\ FlagsOf(R) \in [R -> Nat]
  BY ResultsAreMeasured DEF Measured
<1>9. \A r \in R : /\ SuccessOf(D)[RunDetail(r)] = SuccessOf(R)[r]
                   /\ DurationOf(D)[RunDetail(r)] = DurationOf(R)[r]
                   /\ FilesOf(D)[RunDetail(r)] = FilesOf(R)[r]
                   /\ LinesOf(D)[RunDetail(r)] = LinesOf(R)[r]
                   /\ FailuresOf(D)[RunDetail(r)] = FailuresOf(R)[r]
                   /\ FlagsOf(D)[RunDetail(r)] = FlagsOf(R)[r]
  <2> TAKE r \in R
  <2> DEFINE d == RunDetail(r)
  <2>1. d \in D
    BY <1>6
  <2>2. /\ d.success = r.success
        /\ d.duration_ms = r.duration_ms /\ d.changed_files = r.changed_files
        /\ DiffLines(d) = DiffLines(r)
        /\ FailedOutcomes(d.verification) = FailedOutcomes(r.verification)
        /\ Len(d.violations) = Len(r.violations)
    BY DetailFacts
  <2> HIDE DEF d
  <2>3. /\ SuccessOf(D)[d] = SuccessOf(R)[r] /\ DurationOf(D)[d] = DurationOf(R)[r]
        /\ FilesOf(D)[d] = FilesOf(R)[r] /\ LinesOf(D)[d] = LinesOf(R)[r]
        /\ FailuresOf(D)[d] = FailuresOf(R)[r] /\ FlagsOf(D)[d] = FlagsOf(R)[r]
    BY <2>1, <2>2 DEF SuccessOf, DurationOf, FilesOf, LinesOf, FailuresOf, FlagsOf
  <2> QED BY <2>3 DEF d
<1>10. \A F, G : (\A r \in R : F[RunDetail(r)] = G[r]) => Images(F, made) = Images(G, list)
  <2> TAKE F, G
  <2> HAVE \A r \in R : F[RunDetail(r)] = G[r]
  <2>1. \A i \in 1 .. n : F[made[i]] = G[list[i]]
    BY <1>2, <1>3
  <2> QED BY <1>1, <1>5, <2>1 DEF Images
<1>11. Images(SuccessOf(D), made) = Images(SuccessOf(R), list)
  BY <1>9, <1>10
<1>12. Images(DurationOf(D), made) = Images(DurationOf(R), list)
  BY <1>9, <1>10
<1>13. Images(FilesOf(D), made) = Images(FilesOf(R), list)
  BY <1>9, <1>10
<1>14. Images(LinesOf(D), made) = Images(LinesOf(R), list)
  BY <1>9, <1>10
<1>15. Images(FailuresOf(D), made) = Images(FailuresOf(R), list)
  BY <1>9, <1>10
<1>16. Images(FlagsOf(D), made) = Images(FlagsOf(R), list)
  BY <1>9, <1>10
<1>17. Gathered(D, made) = Gathered(R, list)
  BY <1>1, <1>5, <1>11, <1>12, <1>13, <1>14, <1>15, <1>16 DEF Gathered
<1>18. \A d \in D : /\ SuccessOf(D)[d] \in {0, 1} /\ DurationOf(D)[d] \in Nat /\ FilesOf(D)[d] \in Nat
                   /\ LinesOf(D)[d] \in Nat /\ FailuresOf(D)[d] \in Nat /\ FlagsOf(D)[d] \in Nat
  <2> TAKE d \in D
  <2>1. PICK r \in R : d = RunDetail(r)
    BY <1>7
  <2>2. /\ SuccessOf(R)[r] \in {0, 1} /\ DurationOf(R)[r] \in Nat /\ FilesOf(R)[r] \in Nat
        /\ LinesOf(R)[r] \in Nat /\ FailuresOf(R)[r] \in Nat /\ FlagsOf(R)[r] \in Nat
    BY <1>8
  <2> QED BY <1>9, <2>1, <2>2
<1>19. Measured(D)
  <2>1. SuccessOf(D) \in [D -> {0, 1}]
    BY <1>18 DEF SuccessOf
  <2>2. DurationOf(D) \in [D -> Nat]
    BY <1>18 DEF DurationOf
  <2>3. FilesOf(D) \in [D -> Nat]
    BY <1>18 DEF FilesOf
  <2>4. LinesOf(D) \in [D -> Nat]
    BY <1>18 DEF LinesOf
  <2>5. FailuresOf(D) \in [D -> Nat]
    BY <1>18 DEF FailuresOf
  <2>6. FlagsOf(D) \in [D -> Nat]
    BY <1>18 DEF FlagsOf
  <2> QED BY <2>1, <2>2, <2>3, <2>4, <2>5, <2>6 DEF Measured
<1> QED BY <1>5, <1>17, <1>19 DEF D, made

(* The identifiers of runs, and the place of one.                         *)
IdsOf(results) == Each(results, LAMBDA r : r.run_id)

PlaceOf(results, id) == SelectInSeq(IdsOf(results), LAMBDA i : i = id)

(* It is found there.                                                     *)
LEMMA PlaceIsFound ==
  ASSUME NEW R, \A r \in R : r.run_id \in Nat, NEW results \in Seq(R),
         \A i, j \in DOMAIN results : results[i].run_id = results[j].run_id => i = j,
         NEW at \in DOMAIN results
  PROVE  PlaceOf(results, results[at].run_id) = at
PROOF
<1> DEFINE ids == IdsOf(results)
           id  == results[at].run_id
           I   == {i \in 1 .. Len(ids) : ids[i] = id}
<1>1. PICK n \in Nat : n = Len(results) /\ DOMAIN results = 1 .. n
  OBVIOUS
<1>2. \A i \in 1 .. n : results[i].run_id \in Nat
  BY <1>1
<1>3. ids = [i \in 1 .. n |-> results[i].run_id]
  BY <1>1 DEF IdsOf, Each
<1>4. Len(ids) = n
  <2> HIDE DEF ids
  <2> QED BY <1>2, <1>3
<1>5. I = {at}
  <2>1. \A i \in 1 .. n : ids[i] = id <=> i = at
    BY <1>1, <1>3
  <2>2. at \in 1 .. n
    BY <1>1
  <2> HIDE DEF ids, id
  <2> QED BY <1>4, <2>1, <2>2
<1>6. PlaceOf(results, id) = Min(I)
  <2>1. I # {}
    BY <1>5
  <2> QED BY <2>1 DEF PlaceOf, SelectInSeq
<1> HIDE DEF I
<1>7. Min(I) = at
  <2>1. at \in Nat
    BY <1>1
  <2> QED BY <1>5, <2>1 DEF Min
<1> QED BY <1>6, <1>7

(* The results in the order in which the group lists them.                *)
InGroupOrder(group, results) == Each(group.run_ids, LAMBDA id : results[PlaceOf(results, id)])

(* What summarize demands of the results.                                 *)
Accepts(group, results) ==
  /\ \A i \in DOMAIN results : Belongs(results[i], group)
  /\ Cardinality(ToSet(IdsOf(results))) = Len(IdsOf(results))
  /\ Len(IdsOf(results)) = Len(group.run_ids)
  /\ ToSet(group.run_ids) \subseteq ToSet(IdsOf(results))

(* Results are accepted and summarized in that order, or refused.         *)
LEMMA SummarizeIs ==
  ASSUME NEW group, NEW results
  PROVE  Summarize(group, results) = IF Accepts(group, results)
                                     THEN FromValidated(InGroupOrder(group, results)) ELSE NotASummary
PROOF
<1> QED BY DEF Summarize, Accepts, InGroupOrder, IdsOf, PlaceOf

(* Results that a group accepts have each an identifier of their own.     *)
LEMMA AcceptedFacts ==
  ASSUME NEW R, \A r \in R : r.run_id \in Nat, NEW results \in Seq(R),
         NEW group, group.run_ids \in Seq(Nat), Accepts(group, results)
  PROVE  /\ \A i, j \in DOMAIN results : results[i].run_id = results[j].run_id => i = j
         /\ Len(group.run_ids) = Len(results)
         /\ \A k \in DOMAIN group.run_ids : \E i \in DOMAIN results : results[i].run_id = group.run_ids[k]
PROOF
<1>1. PICK n \in Nat : n = Len(results) /\ DOMAIN results = 1 .. n
  OBVIOUS
<1> DEFINE ids == IdsOf(results)
<1>2. \A i \in 1 .. n : results[i].run_id \in Nat
  BY <1>1
<1>3. ids = [i \in 1 .. n |-> results[i].run_id]
  BY <1>1 DEF IdsOf, Each
<1>4. ids \in Seq(Nat) /\ Len(ids) = n /\ DOMAIN ids = 1 .. n
  <2> HIDE DEF ids
  <2> QED BY <1>2, <1>3
<1>5. Cardinality(ToSet(ids)) = Len(ids) /\ Len(ids) = Len(group.run_ids)
      /\ ToSet(group.run_ids) \subseteq ToSet(ids)
  BY DEF Accepts
<1> HIDE DEF ids
<1>6. \A i, j \in 1 .. n : ids[i] = ids[j] => i = j
  BY <1>4, <1>5, IdsAreDistinct
<1>7. \A i, j \in 1 .. n : results[i].run_id = results[j].run_id => i = j
  BY <1>3, <1>6
<1>8. ToSet(ids) = {ids[i] : i \in 1 .. n}
  BY <1>4 DEF ToSet
<1>9. \A k \in DOMAIN group.run_ids : group.run_ids[k] \in ToSet(group.run_ids)
  BY DEF ToSet
<1>10. \A k \in DOMAIN group.run_ids : \E i \in 1 .. n : results[i].run_id = group.run_ids[k]
  <2> TAKE k \in DOMAIN group.run_ids
  <2>1. group.run_ids[k] \in ToSet(ids)
    BY <1>5, <1>9
  <2>2. PICK i \in 1 .. n : ids[i] = group.run_ids[k]
    BY <1>8, <2>1
  <2> QED BY <1>3, <2>2
<1> QED BY <1>1, <1>4, <1>5, <1>7, <1>10

(* No two of a group's runs have the same identifier (RunGroup::validate).*)
RunsDiffer(group) ==
  group.run_ids \in Seq(Nat)
  /\ \A k, l \in DOMAIN group.run_ids : group.run_ids[k] = group.run_ids[l] => k = l

(* In the group's order the results are the results in another order.     *)
LEMMA GroupOrders ==
  ASSUME NEW R, \A r \in R : r.run_id \in Nat, NEW results \in Seq(R),
         NEW group, RunsDiffer(group), Accepts(group, results)
  PROVE  InGroupOrder(group, results) \in Reordered(results)
PROOF
<1>1. PICK n \in Nat : n = Len(results) /\ DOMAIN results = 1 .. n
  OBVIOUS
<1> DEFINE runs == group.run_ids
           at == [k \in 1 .. n |-> CHOOSE i \in 1 .. n : results[i].run_id = runs[k]]
<1>2. /\ \A i, j \in 1 .. n : results[i].run_id = results[j].run_id => i = j
      /\ DOMAIN runs = 1 .. n
      /\ \A k \in 1 .. n : \E i \in 1 .. n : results[i].run_id = runs[k]
  <2>1. runs \in Seq(Nat)
    BY DEF RunsDiffer
  <2>2. Len(runs) = n
    BY <1>1, <2>1, AcceptedFacts
  <2>3. \A i, j \in DOMAIN results : results[i].run_id = results[j].run_id => i = j
    BY <2>1, AcceptedFacts
  <2>4. \A k \in DOMAIN runs : \E i \in DOMAIN results : results[i].run_id = runs[k]
    BY <2>1, AcceptedFacts
  <2>5. DOMAIN runs = 1 .. n
    BY <2>1, <2>2
  <2> QED BY <1>1, <2>3, <2>4, <2>5
<1>3. \A k, l \in 1 .. n : runs[k] = runs[l] => k = l
  BY <1>2 DEF RunsDiffer
<1> HIDE DEF runs
<1>4. \A k \in 1 .. n : at[k] \in 1 .. n /\ results[at[k]].run_id = runs[k]
  BY <1>2
<1>5. at \in [1 .. n -> 1 .. n] /\ DOMAIN at = 1 .. n
  BY <1>4
<1> HIDE DEF at
<1>6. \A k, l \in 1 .. n : at[k] = at[l] => k = l
  BY <1>3, <1>4
<1>7. IsInjective(at)
  BY <1>5, <1>6 DEF IsInjective
<1>8. \A k \in 1 .. n : results[PlaceOf(results, runs[k])] = results[at[k]]
  <2> TAKE k \in 1 .. n
  <2> DEFINE i == at[k]
  <2>1. i \in DOMAIN results /\ results[i].run_id = runs[k]
    BY <1>1, <1>4
  <2>2. \A a, b \in DOMAIN results : results[a].run_id = results[b].run_id => a = b
    BY <1>1, <1>2
  <2> HIDE DEF i
  <2>3. PlaceOf(results, results[i].run_id) = i
    BY <2>1, <2>2, PlaceIsFound
  <2>4. PlaceOf(results, runs[k]) = i
    BY <2>1, <2>3
  <2> QED BY <2>4 DEF i
<1>9. InGroupOrder(group, results) = [k \in 1 .. n |-> results[at[k]]]
  <2>1. InGroupOrder(group, results) = [k \in DOMAIN runs |-> results[PlaceOf(results, runs[k])]]
    BY DEF InGroupOrder, Each, runs
  <2> QED BY <2>1, <1>2, <1>8
<1> DEFINE s == InGroupOrder(group, results)
<1>10. Puts(results, n, at, s)
  <2> HIDE DEF s
  <2>1. s = [k \in 1 .. n |-> results[at[k]]]
    BY <1>9 DEF s
  <2> QED BY <1>5, <1>7, <2>1 DEF Puts
<1> HIDE DEF s
<1>11. s \in Reordered(results)
  BY <1>1, <1>10, IsReordered
<1> QED BY <1>11 DEF s

(* Another order of the results is accepted too and listed the same.      *)
LEMMA AcceptedSame ==
  ASSUME NEW R, \A r \in R : r.run_id \in Nat, NEW results \in Seq(R),
         NEW group, RunsDiffer(group), Accepts(group, results), NEW same \in Reordered(results)
  PROVE  Accepts(group, same) /\ InGroupOrder(group, same) = InGroupOrder(group, results)
PROOF
<1>1. PICK n \in Nat : n = Len(results) /\ DOMAIN results = 1 .. n
  OBVIOUS
<1>2. PICK o : Puts(results, n, o, same)
  BY <1>1, ReorderedBy
<1>3. o \in [1 .. n -> 1 .. n] /\ IsInjective(o) /\ same = [i \in 1 .. n |-> results[o[i]]]
  BY <1>2 DEF Puts
<1>4. same \in Seq(R) /\ Len(same) = n /\ DOMAIN same = 1 .. n
  <2>1. same \in Seq(R) /\ Len(same) = n
    BY <1>1, ReorderedFacts
  <2> QED BY <2>1
<1>5. \A i \in 1 .. n : \E j \in 1 .. n : o[j] = i
  BY <1>3, OrdersAreOnto
<1>6. \A i \in 1 .. n : o[i] \in 1 .. n /\ same[i] = results[o[i]]
  BY <1>3
<1>7. \A i \in 1 .. n : \E j \in 1 .. n : same[j] = results[i]
  <2> TAKE i \in 1 .. n
  <2>1. PICK j \in 1 .. n : o[j] = i
    BY <1>5
  <2>2. same[j] = results[i]
    BY <1>6, <2>1
  <2> QED BY <2>2
<1> DEFINE was == IdsOf(results)
           now == IdsOf(same)
<1>8. was = [i \in 1 .. n |-> results[i].run_id] /\ now = [i \in 1 .. n |-> same[i].run_id]
  BY <1>1, <1>4 DEF IdsOf, Each
<1>9. (\A i \in 1 .. n : results[i].run_id \in Nat) /\ \A i \in 1 .. n : same[i].run_id \in Nat
  BY <1>1, <1>4
<1> HIDE DEF was, now
<1>10. Len(was) = n /\ Len(now) = n /\ DOMAIN was = 1 .. n /\ DOMAIN now = 1 .. n
  BY <1>8, <1>9
<1>11. ToSet(now) = ToSet(was)
  <2>1. ToSet(now) = {same[i].run_id : i \in 1 .. n}
    BY <1>8, <1>10 DEF ToSet
  <2>2. ToSet(was) = {results[i].run_id : i \in 1 .. n}
    BY <1>8, <1>10 DEF ToSet
  <2>3. ASSUME NEW i \in 1 .. n PROVE same[i].run_id \in ToSet(was)
    <3>1. o[i] \in 1 .. n /\ same[i] = results[o[i]]
      BY <1>6
    <3> QED BY <2>2, <3>1
  <2>4. ASSUME NEW i \in 1 .. n PROVE results[i].run_id \in ToSet(now)
    <3>1. PICK j \in 1 .. n : same[j] = results[i]
      BY <1>7
    <3>2. results[i].run_id = same[j].run_id
      BY <3>1
    <3> QED BY <2>1, <3>2
  <2> QED BY <2>1, <2>2, <2>3, <2>4, ZenonT(60)
<1>12. \A i \in 1 .. n : Belongs(same[i], group)
  BY <1>1, <1>6 DEF Accepts
<1>13. Accepts(group, same)
  <2>1. Cardinality(ToSet(was)) = Len(was) /\ Len(was) = Len(group.run_ids)
        /\ ToSet(group.run_ids) \subseteq ToSet(was)
    BY DEF Accepts, was
  <2>2. Cardinality(ToSet(now)) = Len(now) /\ Len(now) = Len(group.run_ids)
        /\ ToSet(group.run_ids) \subseteq ToSet(now)
    BY <1>10, <1>11, <2>1
  <2> QED BY <1>4, <1>12, <2>2 DEF Accepts, now
<1>14. \A i, j \in DOMAIN results : results[i].run_id = results[j].run_id => i = j
  BY AcceptedFacts DEF RunsDiffer
<1>15. \A i, j \in DOMAIN same : same[i].run_id = same[j].run_id => i = j
  BY <1>13, <1>4, AcceptedFacts DEF RunsDiffer
<1>16. \A k \in DOMAIN group.run_ids : \E i \in DOMAIN results : results[i].run_id = group.run_ids[k]
  BY AcceptedFacts DEF RunsDiffer
<1>17. \A k \in DOMAIN group.run_ids :
         same[PlaceOf(same, group.run_ids[k])] = results[PlaceOf(results, group.run_ids[k])]
  <2> TAKE k \in DOMAIN group.run_ids
  <2> DEFINE id == group.run_ids[k]
  <2>1. PICK i \in DOMAIN results : results[i].run_id = id
    BY <1>16
  <2>2. PICK j \in 1 .. n : same[j] = results[i]
    BY <1>1, <1>7, <2>1
  <2> HIDE DEF id
  <2>3. PlaceOf(results, results[i].run_id) = i
    BY <1>14, PlaceIsFound
  <2>4. PlaceOf(same, same[j].run_id) = j
    BY <1>4, <1>15, PlaceIsFound
  <2>5. PlaceOf(results, id) = i /\ PlaceOf(same, id) = j
    BY <2>1, <2>2, <2>3, <2>4
  <2>6. same[PlaceOf(same, id)] = results[PlaceOf(results, id)]
    BY <2>2, <2>5
  <2> QED BY <2>6 DEF id
<1>18. InGroupOrder(group, same) = InGroupOrder(group, results)
  BY <1>17 DEF InGroupOrder, Each
<1> QED BY <1>13, <1>18

(* Runs sorted by their identifiers.                                      *)
ById(runs) == InOrder(runs, LAMBDA a, b : a.run_id <= b.run_id)

(* They are the same runs.                                                *)
LEMMA RunsAreSorted ==
  ASSUME NEW D, \A d \in D : d.run_id \in Nat, NEW runs \in Seq(D)
  PROVE  ById(runs) \in Reordered(runs)
PROOF
<1> DEFINE key == [d \in D |-> d.run_id]
<1>1. key \in [D -> Int] /\ \A d \in D : key[d] = d.run_id
  OBVIOUS
<1> HIDE DEF key
<1>2. PICK s \in Reordered(runs) : Ascends(key, s, Len(runs))
  BY <1>1, OrderExists
<1>3. PICK n \in Nat : n = Len(runs) /\ DOMAIN runs = 1 .. n
  OBVIOUS
<1>4. s \in Seq(D) /\ Len(s) = n
  BY <1>3, ReorderedFacts
<1>5. \A i, j \in DOMAIN runs : i < j => s[i].run_id <= s[j].run_id
  <2> TAKE i, j \in DOMAIN runs
  <2>1. i \in 1 .. n /\ j \in 1 .. n /\ s[i] \in D /\ s[j] \in D
    BY <1>3, <1>4
  <2> QED BY <1>1, <1>2, <1>3, <2>1 DEF Ascends
<1> QED BY <1>5 DEF ById, InOrder

(* The order given does not matter.                                       *)
LEMMA SortedRunsSame ==
  ASSUME NEW D, NEW runs \in Seq(D), NEW same \in Reordered(runs)
  PROVE  ById(same) = ById(runs)
PROOF
<1>1. Reordered(same) = Reordered(runs)
  BY SameOrders
<1>2. DOMAIN same = DOMAIN runs
  <2>1. same \in Seq(D) /\ Len(same) = Len(runs)
    BY ReorderedFacts
  <2> QED BY <2>1
<1> QED BY <1>1, <1>2 DEF ById, InOrder

(* What a report says of the runs.                                        *)
Aggregated == {"run_count", "successes", "duration", "files", "lines", "verification_failures",
               "violations"}

(* It says it of the sorted runs, and shows them.                         *)
LEMMA ReportIs ==
  ASSUME NEW group, NEW runs
  PROVE  LET report == AggregateDetails(GroupHead(group), runs)
         IN  /\ report.runs = ById(runs)
             /\ \A field \in Aggregated : report[field] = Aggregates(ById(runs))[field]
             /\ DOMAIN Aggregates(ById(runs)) = Aggregated
PROOF
<1> DEFINE head    == GroupHead(group)
           sorted  == ById(runs)
           numbers == Aggregates(sorted)
           report  == AggregateDetails(head, runs)
<1>1. DOMAIN numbers = Aggregated
  BY DEF Aggregates, Aggregated
<1>2. DOMAIN head = {"group_id", "task_id", "agent", "instructions_enabled", "benchmark_identity",
                     "requested_runs", "status"}
  BY DEF GroupHead
<1>3. report = [field \in DOMAIN head \cup DOMAIN numbers \cup {"runs"} |->
                  CASE field = "runs" -> sorted [] field \in DOMAIN head -> head[field]
                    [] OTHER -> numbers[field]]
  BY DEF AggregateDetails, ById
<1> HIDE DEF head, sorted, numbers, report
<1>4. report["runs"] = sorted
  <2> DEFINE name == "runs"
  <2>1. name \in DOMAIN head \cup DOMAIN numbers \cup {"runs"} /\ name = "runs"
    OBVIOUS
  <2> HIDE DEF name
  <2>2. report[name] = sorted
    <3>1. "runs" \notin DOMAIN head
      BY <1>2
    <3> QED BY <1>3, <2>1, <3>1
  <2> QED BY <2>1, <2>2
<1>5. \A field \in Aggregated : field # "runs" /\ field \notin DOMAIN head
  BY <1>2 DEF Aggregated
<1>6. \A field \in Aggregated : report[field] = numbers[field]
  BY <1>1, <1>3, <1>5
<1> QED BY <1>1, <1>4, <1>6 DEF head, sorted, numbers, report

(* The report of a group says what is gathered of its results, about the  *)
(* sorted details of them.                                                *)
LEMMA ReportIsGathered ==
  ASSUME NEW R, NEW O, NEW V, ResultSet(R, O, V), NEW group, NEW results \in Seq(R)
  PROVE  LET report == GroupReport(group, results)
             details == Each(results, RunDetail)
         IN  /\ report.runs \in Reordered(details)
             /\ \A field \in Aggregated : report[field] = Gathered(R, results)[field]
             /\ \A field \in DOMAIN Aggregates(report.runs) : report[field] = Aggregates(report.runs)[field]
PROOF
<1> DEFINE report  == GroupReport(group, results)
           details == Each(results, RunDetail)
           D       == Details(R)
           sorted  == ById(details)
<1>1. Measured(D) /\ details \in Seq(D) /\ Gathered(D, details) = Gathered(R, results)
  BY DetailsAreMeasured
<1>2. \A d \in D : d.run_id \in Nat
  <2> TAKE d \in D
  <2>1. PICK r \in R : d = RunDetail(r)
    BY DEF Details
  <2>2. RunDetail(r).run_id = r.run_id
    BY DEF RunDetail
  <2> QED BY <2>1, <2>2 DEF ResultSet
<1>3. report = AggregateDetails(GroupHead(group), details)
  BY DEF GroupReport
<1> HIDE DEF D, details, report
<1>4. sorted \in Reordered(details)
  BY <1>1, <1>2, RunsAreSorted
<1>5. report.runs = sorted /\ DOMAIN Aggregates(sorted) = Aggregated
      /\ \A field \in Aggregated : report[field] = Aggregates(sorted)[field]
  BY <1>3, ReportIs
<1> HIDE DEF sorted
<1>6. sorted \in Seq(D)
  BY <1>1, <1>4, ReorderedFacts
<1>7. Aggregates(sorted) = Gathered(D, sorted)
  BY <1>6, AggregatesAreGathered
<1>8. Gathered(D, sorted) = Gathered(D, details)
  BY <1>1, <1>4, GatheredSame
<1>9. Aggregates(sorted) = Gathered(R, results)
  BY <1>1, <1>7, <1>8
<1> QED BY <1>4, <1>5, <1>9 DEF report, details

(* It is the same whatever the order of the results.                      *)
LEMMA ReportSame ==
  ASSUME NEW R, NEW O, NEW V, ResultSet(R, O, V), NEW group, NEW results \in Seq(R),
         NEW same \in Reordered(results)
  PROVE  GroupReport(group, same) = GroupReport(group, results)
PROOF
<1> DEFINE details == Each(results, RunDetail)
           now     == Each(same, RunDetail)
           D       == Details(R)
<1>1. details \in Seq(D)
  BY DetailsAreMeasured
<1>2. PICK n \in Nat : n = Len(results) /\ DOMAIN results = 1 .. n
  OBVIOUS
<1>3. PICK o : Puts(results, n, o, same)
  BY <1>2, ReorderedBy
<1>4. o \in [1 .. n -> 1 .. n] /\ IsInjective(o) /\ same = [i \in 1 .. n |-> results[o[i]]]
  BY <1>3 DEF Puts
<1>5. details = [i \in 1 .. n |-> RunDetail(results[i])]
  BY <1>2 DEF Each
<1>6. now = [i \in 1 .. n |-> RunDetail(same[i])]
  BY <1>4 DEF Each
<1> HIDE DEF details, now, D
<1>7. \A i \in 1 .. n : now[i] = details[o[i]]
  <2> TAKE i \in 1 .. n
  <2>1. same[i] = results[o[i]] /\ o[i] \in 1 .. n
    BY <1>4
  <2>2. now[i] = RunDetail(same[i])
    BY <1>6
  <2>3. details[o[i]] = RunDetail(results[o[i]])
    BY <1>5, <2>1
  <2> QED BY <2>1, <2>2, <2>3
<1>8. now = [i \in 1 .. n |-> details[o[i]]]
  BY <1>6, <1>7
<1>9. Puts(details, n, o, now)
  BY <1>4, <1>8 DEF Puts
<1>10. Len(details) = n
  <2>1. DOMAIN details = 1 .. n
    BY <1>5
  <2> QED BY <1>1, <2>1
<1>11. now \in Reordered(details)
  BY <1>1, <1>9, <1>10, IsReordered
<1>12. ById(now) = ById(details)
  BY <1>1, <1>11, SortedRunsSame
<1>13. AggregateDetails(GroupHead(group), now) = AggregateDetails(GroupHead(group), details)
  <2> DEFINE Built(sorted) ==
          LET numbers == Aggregates(sorted)
              head == GroupHead(group)
          IN  [field \in DOMAIN head \cup DOMAIN numbers \cup {"runs"} |->
                 CASE field = "runs" -> sorted [] field \in DOMAIN head -> head[field]
                   [] OTHER -> numbers[field]]
  <2>1. \A runs : AggregateDetails(GroupHead(group), runs) = Built(ById(runs))
    BY DEF AggregateDetails, ById
  <2> HIDE DEF Built
  <2>2. Built(ById(now)) = Built(ById(details))
    BY <1>12
  <2> QED BY <2>1, <2>2
<1> QED BY <1>13 DEF GroupReport, details, now

(* The number of successes is that of all runs exactly when all succeeded,*)
(* and then nothing has failed and nothing was flagged.                   *)
LEMMA SuccessesAreGathered ==
  ASSUME NEW R, NEW O, NEW V, ResultSet(R, O, V), NEW results \in Seq(R)
  PROVE  /\ Gathered(R, results).successes = Len(results) <=> \A i \in DOMAIN results : results[i].success
         /\ (\A i \in DOMAIN results : results[i].success /\ RunResultValid(results[i])) =>
              Gathered(R, results).verification_failures = 0 /\ Gathered(R, results).violations = 0
PROOF
<1>1. PICK n \in Nat : n = Len(results) /\ DOMAIN results = 1 .. n
  OBVIOUS
<1> DEFINE bits  == Images(SuccessOf(R), results)
           fails == Images(FailuresOf(R), results)
           flags == Images(FlagsOf(R), results)
<1>2. \A i \in 1 .. n : results[i] \in R
  BY <1>1
<1>3. bits = [i \in 1 .. n |-> IF results[i].success THEN 1 ELSE 0]
  BY <1>1, <1>2 DEF Images, SuccessOf
<1>4. fails = [i \in 1 .. n |-> FailedOutcomes(results[i].verification)]
  BY <1>1, <1>2 DEF Images, FailuresOf
<1>5. flags = [i \in 1 .. n |-> Len(results[i].violations)]
  BY <1>1, <1>2 DEF Images, FlagsOf
<1>6. /\ Gathered(R, results).successes = Total(bits)
      /\ Gathered(R, results).verification_failures = Total(fails)
      /\ Gathered(R, results).violations = Total(flags)
  BY DEF Gathered
<1> HIDE DEF bits, fails, flags
<1>7. Total(bits) = n <=> \A i \in 1 .. n : results[i].success
  <2>1. bits \in Seq({0, 1}) /\ Len(bits) = n /\ DOMAIN bits = 1 .. n
    BY <1>3
  <2>2. Total(bits) = n <=> \A i \in 1 .. n : bits[i] = 1
    BY <2>1, BitsAreCounted
  <2>3. \A i \in 1 .. n : bits[i] = 1 <=> results[i].success
    BY <1>2, <1>3 DEF ResultSet
  <2> QED BY <2>2, <2>3
<1>8. ASSUME \A i \in 1 .. n : results[i].success /\ RunResultValid(results[i])
      PROVE  Total(fails) = 0 /\ Total(flags) = 0
  <2>1. \A i \in 1 .. n : FailedOutcomes(results[i].verification) = 0
    <3> TAKE i \in 1 .. n
    <3> DEFINE outcomes == results[i].verification
    <3>1. outcomes \in Seq(O) /\ \A o \in O : o.success \in BOOLEAN
      BY <1>2 DEF ResultSet
    <3>2. Successful(outcomes)
      BY <1>8 DEF RunResultValid
    <3> HIDE DEF outcomes
    <3>3. FailedOutcomes(outcomes) = 0
      BY <3>1, <3>2, FailuresAreCounted
    <3> QED BY <3>3 DEF outcomes
  <2>2. \A i \in 1 .. n : Len(results[i].violations) = 0
    <3> TAKE i \in 1 .. n
    <3>1. results[i].violations = <<>>
      BY <1>8 DEF RunResultValid
    <3> QED BY <3>1
  <2>3. fails = [i \in 1 .. n |-> 0] /\ flags = [i \in 1 .. n |-> 0]
    BY <1>4, <1>5, <2>1, <2>2
  <2>4. fails \in Seq({0}) /\ flags \in Seq({0})
    BY <2>3
  <2> QED BY <2>4, ZerosAreNothing
<1>9. (\A i \in 1 .. n : results[i].success /\ RunResultValid(results[i])) =>
         Total(fails) = 0 /\ Total(flags) = 0
  BY <1>8
<1> QED BY <1>1, <1>6, <1>7, <1>9

(* Core's summary of a group and the report's aggregates of it are equal, *)
(* whatever the order in which the results are given and whatever order   *)
(* the group lists them in; the suite report's check of the aggregates    *)
(* passes; and the exit code of a run agrees with the summary: for every  *)
(* group and all results it accepts (core/result.rs, report/lib.rs,       *)
(* report/suite.rs).                                                      *)
THEOREM SummariesAreReports ==
  ASSUME NEW R, NEW O, NEW V, ResultSet(R, O, V), NEW results \in Seq(R),
         NEW group, RunsDiffer(group)
  PROVE  SummaryIsReport(group, results)
PROOF
<1> DEFINE summary == Summarize(group, results)
           report  == GroupReport(group, results)
           all     == Gathered(R, results)
           ordered == InGroupOrder(group, results)
<1> SUFFICES ASSUME summary.ok
             PROVE  /\ \A field \in Shared : summary[field] = report[field]
                    /\ \A same \in Reordered(results) :
                         Summarize(group, same) = summary /\ GroupReport(group, same) = report
                    /\ report.run_count = Len(group.run_ids) /\ GroupAggregateValid(report)
                    /\ summary.successes = Len(results) =>
                         summary.verification_failures = 0 /\ summary.violations = 0
                    /\ ExitForRun(results) = 0 <=> summary.successes = Len(results)
                    /\ report.lines.min <= report.lines.max /\ report.duration.spread >= 0
  BY DEF SummaryIsReport
<1>1. Accepts(group, results) /\ summary = FromValidated(ordered)
  BY SummarizeIs DEF NotASummary
<1>2. \A r \in R : r.run_id \in Nat
  BY DEF ResultSet
<1>3. ordered \in Reordered(results)
  BY <1>1, <1>2, GroupOrders
<1>4. \A field \in Shared : summary[field] = all[field]
  <2> HIDE DEF ordered
  <2>1. ordered \in Seq(R)
    BY <1>3, ReorderedFacts
  <2>2. \A field \in Shared : FromValidated(ordered)[field] = Gathered(R, ordered)[field]
    BY <2>1, SummaryIsGathered
  <2>3. Gathered(R, ordered) = all
    BY <1>3, ResultsAreMeasured, GatheredSame
  <2> HIDE DEF summary, all
  <2> QED BY <1>1, <2>2, <2>3
<1>5. \A same \in Reordered(results) :
        Summarize(group, same) = summary /\ GroupReport(group, same) = report
  <2> TAKE same \in Reordered(results)
  <2>1. Accepts(group, same) /\ InGroupOrder(group, same) = ordered
    BY <1>1, <1>2, AcceptedSame
  <2>2. Summarize(group, same) = FromValidated(InGroupOrder(group, same))
    BY <2>1, SummarizeIs
  <2>3. GroupReport(group, same) = report
    BY ReportSame
  <2> HIDE DEF ordered, summary, report
  <2> QED BY <1>1, <2>1, <2>2, <2>3
<1> HIDE DEF summary, ordered
<1> DEFINE details == Each(results, RunDetail)
<1>6. /\ report.runs \in Reordered(details)
      /\ \A field \in Aggregated : report[field] = all[field]
      /\ \A field \in DOMAIN Aggregates(report.runs) : report[field] = Aggregates(report.runs)[field]
  BY ReportIsGathered
<1>7. \A field \in Shared : summary[field] = report[field]
  <2>1. Shared \subseteq Aggregated
    BY DEF Shared, Aggregated
  <2> HIDE DEF report, all
  <2> QED BY <1>4, <1>6, <2>1
<1>8. group.run_ids \in Seq(Nat) /\ Len(group.run_ids) = Len(results)
      /\ \A i, j \in DOMAIN results : results[i].run_id = results[j].run_id => i = j
  BY <1>1, <1>2, AcceptedFacts DEF RunsDiffer
<1>9. report.run_count = Len(group.run_ids)
  <2>1. all.run_count = Len(results)
    BY DEF Gathered
  <2>2. report["run_count"] = all["run_count"]
    <3> HIDE DEF report, all
    <3> QED BY <1>6 DEF Aggregated
  <2> HIDE DEF report, all
  <2> QED BY <1>8, <2>1, <2>2
<1>10. GroupAggregateValid(report)
  <2>1. PICK n \in Nat : n = Len(results) /\ DOMAIN results = 1 .. n
    OBVIOUS
  <2>2. details = [i \in 1 .. n |-> RunDetail(results[i])]
    BY <2>1 DEF Each
  <2>3. \A i \in 1 .. n : details[i].run_id = results[i].run_id
    <3>1. \A r : RunDetail(r).run_id = r.run_id
      BY DEF RunDetail
    <3> HIDE DEF details
    <3> QED BY <2>2, <3>1
  <2>4. details \in Seq(Details(R))
    BY DetailsAreMeasured
  <2> HIDE DEF report, details
  <2>5. Len(details) = n
    BY <2>2, <2>4
  <2>6. PICK o : Puts(details, n, o, report.runs)
    BY <1>6, <2>4, <2>5, ReorderedBy
  <2>7. o \in [1 .. n -> 1 .. n] /\ IsInjective(o) /\ report.runs = [i \in 1 .. n |-> details[o[i]]]
    BY <2>6 DEF Puts
  <2>8. \A i, j \in 1 .. n : o[i] = o[j] => i = j
    BY <2>7 DEF IsInjective
  <2>9. \A i, j \in 1 .. n : results[i].run_id = results[j].run_id => i = j
    BY <1>8, <2>1
  <2>10. \A i, j \in DOMAIN report.runs : i # j => report.runs[i].run_id # report.runs[j].run_id
    <3> DEFINE runs == report.runs
    <3>1. DOMAIN runs = 1 .. n /\ \A i \in 1 .. n : o[i] \in 1 .. n /\ runs[i] = details[o[i]]
      BY <2>7
    <3> HIDE DEF runs
    <3>2. ASSUME NEW i \in 1 .. n, NEW j \in 1 .. n, runs[i].run_id = runs[j].run_id PROVE i = j
      <4>1. results[o[i]].run_id = runs[i].run_id /\ results[o[j]].run_id = runs[j].run_id
        BY <2>3, <3>1
      <4>2. o[i] = o[j]
        BY <2>9, <3>1, <3>2, <4>1
      <4> QED BY <2>8, <4>2
    <3>3. \A i, j \in DOMAIN runs : i # j => runs[i].run_id # runs[j].run_id
      BY <3>1, <3>2
    <3> QED BY <3>3 DEF runs
  <2> QED BY <1>6, <2>10 DEF GroupAggregateValid
<1>11. /\ summary.successes = all.successes /\ summary.verification_failures = all.verification_failures
       /\ summary.violations = all.violations
  <2> HIDE DEF all
  <2> QED BY <1>4 DEF Shared
<1>12. \A i \in DOMAIN results : RunResultValid(results[i])
  BY <1>1 DEF Accepts, Belongs
<1>13. summary.successes = Len(results) <=> \A i \in DOMAIN results : results[i].success
  <2>1. all.successes = Len(results) <=> \A i \in DOMAIN results : results[i].success
    BY SuccessesAreGathered
  <2> HIDE DEF all
  <2> QED BY <1>11, <2>1
<1>14. summary.successes = Len(results) =>
         summary.verification_failures = 0 /\ summary.violations = 0
  <2>1. (\A i \in DOMAIN results : results[i].success /\ RunResultValid(results[i])) =>
          all.verification_failures = 0 /\ all.violations = 0
    BY SuccessesAreGathered
  <2> HIDE DEF all
  <2> QED BY <1>11, <1>12, <1>13, <2>1
<1>15. ExitForRun(results) = 0 <=> summary.successes = Len(results)
  BY <1>13 DEF ExitForRun
<1>16. report.lines.min <= report.lines.max /\ report.duration.spread >= 0
  <2>1. Images(LinesOf(R), results) \in Seq(Nat) /\ Images(DurationOf(R), results) \in Seq(Nat)
    <3>1. LinesOf(R) \in [R -> Nat] /\ DurationOf(R) \in [R -> Nat]
      BY ResultsAreMeasured DEF Measured
    <3>2. results \in Reordered(results)
      <4>1. PICK n \in Nat : n = Len(results) /\ DOMAIN results = 1 .. n
        OBVIOUS
      <4> DEFINE o == [i \in 1 .. n |-> i]
      <4>2. o \in [1 .. n -> 1 .. n] /\ IsInjective(o)
        BY DEF IsInjective
      <4>3. results = [i \in 1 .. n |-> results[o[i]]]
        BY <4>1
      <4> HIDE DEF o
      <4>4. Puts(results, n, o, results)
        BY <4>2, <4>3 DEF Puts
      <4> QED BY <4>1, <4>4, IsReordered
    <3> QED BY <3>1, <3>2, EachReordered
  <2>2. all.lines = FromValues(Images(LinesOf(R), results))
        /\ all.duration = FromValues(Images(DurationOf(R), results))
    BY DEF Gathered
  <2>3. all.lines.min <= all.lines.max /\ all.duration.spread >= 0
    <3>1. \A v \in Seq(Nat) : FromValues(v).min <= FromValues(v).max /\ FromValues(v).spread >= 0
      BY ValuesAreStats
    <3> HIDE DEF all
    <3> QED BY <2>1, <2>2, <3>1
  <2>4. report["lines"] = all["lines"] /\ report["duration"] = all["duration"]
    <3> HIDE DEF report, all
    <3> QED BY <1>6 DEF Aggregated
  <2> HIDE DEF report, all
  <2> QED BY <2>3, <2>4
<1> HIDE DEF report
<1> QED BY <1>5, <1>7, <1>9, <1>10, <1>14, <1>15, <1>16

-----------------------------------------------------------------------------
(* Directories of definitions.                                            *)

(* A directory: names in two parts, and what lies under each.             *)
IsDirectory(directory) ==
  /\ directory = [name \in DOMAIN directory |-> directory[name]]
  /\ \A name \in DOMAIN directory : name = <<name[1], name[2]>>

(* What is read of a directory when V are the documents that fit.         *)
YamlIn(directory) == {name \in DOMAIN directory : name[2] \in {"yaml", "yml"}}
FilesIn(directory) == {name \in YamlIn(directory) : directory[name].kind = "file"}
DocsIn(directory) == {directory[name].doc : name \in FilesIn(directory)}

Reads(directory, V) ==
  /\ \A name \in YamlIn(directory) : directory[name].kind # "link"
  /\ \A name \in FilesIn(directory) : directory[name].doc \in V /\ directory[name].doc.id = name[1]
  /\ \A one, two \in FilesIn(directory) : directory[one].doc.id = directory[two].doc.id => one = two

FileName(id) == <<id, "yaml">>
OtherName(id) == <<id, "yml">>

(* A directory and a document more.                                       *)
AddedTo(before, doc) ==
  [n \in DOMAIN before \cup {FileName(doc.id)} |->
     IF n = FileName(doc.id) THEN [kind |-> "file", doc |-> doc] ELSE before[n]]

IsAdded(before, doc, name, other, after) ==
  /\ IsDirectory(before)
  /\ name = FileName(doc.id) /\ other = OtherName(doc.id) /\ name \notin DOMAIN before
  /\ after = AddedTo(before, doc)

IsLarger(before, doc, name, after) ==
  /\ DOMAIN after = DOMAIN before \cup {name}
  /\ after[name].kind = "file" /\ after[name].doc = doc
  /\ \A n \in DOMAIN before : after[n] = before[n] /\ n # name
  /\ YamlIn(after) = YamlIn(before) \cup {name}
  /\ FilesIn(after) = FilesIn(before) \cup {name}
  /\ DocsIn(after) = DocsIn(before) \cup {doc}
  /\ Restrict(after, DOMAIN before) = before

(* What lies in a directory to which a document was added.                *)
LEMMA AddedFacts ==
  ASSUME NEW before, NEW doc, NEW name, NEW other, NEW after, IsAdded(before, doc, name, other, after)
  PROVE  IsLarger(before, doc, name, after)
PROOF
<1>1. DOMAIN after = DOMAIN before \cup {name}
  BY DEF AddedTo, IsAdded
<1>2. after[name] = [kind |-> "file", doc |-> doc]
  BY DEF AddedTo, IsAdded
<1>3. \A n \in DOMAIN before : after[n] = before[n] /\ n # name
  BY DEF AddedTo, IsAdded
<1>4. after[name].kind = "file" /\ after[name].doc = doc
  BY <1>2
<1>5. name[2] = "yaml"
  BY DEF FileName, IsAdded
<1>6. YamlIn(after) = YamlIn(before) \cup {name}
  BY <1>1, <1>5 DEF YamlIn
<1>7. FilesIn(after) = FilesIn(before) \cup {name}
  <2>1. \A n \in YamlIn(before) : n \in DOMAIN before
    BY DEF YamlIn
  <2> QED BY <1>3, <1>4, <1>6, <2>1 DEF FilesIn
<1>8. DocsIn(after) = DocsIn(before) \cup {doc}
  <2>1. \A n \in FilesIn(before) : n \in DOMAIN before
    BY DEF FilesIn, YamlIn
  <2>2. \A n \in FilesIn(before) : after[n].doc = before[n].doc
    BY <1>3, <2>1
  <2>3. DocsIn(after) = {after[n].doc : n \in FilesIn(before)} \cup {after[name].doc}
    BY <1>7 DEF DocsIn
  <2>4. {after[n].doc : n \in FilesIn(before)} = {before[n].doc : n \in FilesIn(before)}
    BY <2>2
  <2> QED BY <1>4, <2>3, <2>4 DEF DocsIn
<1>9. Restrict(after, DOMAIN before) = before
  <2>1. Restrict(after, DOMAIN before) = [n \in DOMAIN before |-> before[n]]
    BY <1>3 DEF Restrict
  <2> QED BY <2>1 DEF IsDirectory, IsAdded
<1> QED BY <1>1, <1>3, <1>4, <1>6, <1>7, <1>8, <1>9 DEF IsLarger

(* Whether it can be read: it could be before, and the document does not  *)
(* lie there under the other extension.                                   *)
LEMMA AddedReads ==
  ASSUME NEW before, NEW doc, NEW name, NEW other, NEW after, IsAdded(before, doc, name, other, after),
         NEW V, doc \in V
  PROVE  /\ Reads(before, V) =>
              (Reads(after, V) <=> ~(other \in DOMAIN before /\ before[other].kind = "file"))
         /\ Reads(after, V) => \A d \in DocsIn(after) \ {doc} : d.id # doc.id
PROOF
<1>1. /\ after[name].kind = "file" /\ after[name].doc = doc
      /\ \A n \in DOMAIN before : after[n] = before[n] /\ n # name
      /\ YamlIn(after) = YamlIn(before) \cup {name}
      /\ FilesIn(after) = FilesIn(before) \cup {name}
      /\ DocsIn(after) = DocsIn(before) \cup {doc}
  <2>1. IsLarger(before, doc, name, after)
    BY AddedFacts
  <2> QED BY <2>1 DEF IsLarger
<1>2. name[1] = doc.id /\ name[2] = "yaml" /\ other[1] = doc.id /\ other[2] = "yml"
  BY DEF FileName, OtherName, IsAdded
<1>3. \A n \in FilesIn(before) : n \in DOMAIN before /\ n \in YamlIn(before) /\ n[2] \in {"yaml", "yml"}
  BY DEF FilesIn, YamlIn
<1>4. \A n \in FilesIn(before) : n[1] = doc.id => n = other
  <2> SUFFICES ASSUME NEW n \in FilesIn(before), n[1] = doc.id PROVE n = other
    OBVIOUS
  <2>1. n = <<doc.id, n[2]>> /\ n # name
    BY <1>1, <1>3 DEF IsDirectory, IsAdded
  <2> QED BY <1>3, <2>1 DEF FileName, OtherName, IsAdded
<1>5. other \in DOMAIN before /\ before[other].kind = "file" <=> other \in FilesIn(before)
  BY <1>2 DEF FilesIn, YamlIn
<1>6. ASSUME Reads(before, V), other \notin FilesIn(before) PROVE Reads(after, V)
  <2>1. \A n \in YamlIn(after) : after[n].kind # "link"
    <3>1. \A n \in YamlIn(before) : n \in DOMAIN before
      BY DEF YamlIn
    <3> QED BY <1>1, <1>6, <3>1 DEF Reads
  <2>2. \A n \in FilesIn(after) : after[n].doc \in V /\ after[n].doc.id = n[1]
    <3> QED BY <1>1, <1>2, <1>3, <1>6 DEF Reads
  <2>3. \A one, two \in FilesIn(after) : after[one].doc.id = after[two].doc.id => one = two
    <3>1. \A n \in FilesIn(before) : after[n].doc.id = before[n].doc.id /\ before[n].doc.id = n[1] /\ n[1] # doc.id
      <4> QED BY <1>1, <1>3, <1>4, <1>6 DEF Reads
    <3>2. \A one, two \in FilesIn(before) : before[one].doc.id = before[two].doc.id => one = two
      BY <1>6 DEF Reads
    <3> QED BY <1>1, <3>1, <3>2
  <2> QED BY <2>1, <2>2, <2>3 DEF Reads
<1>7. ASSUME Reads(before, V), other \in FilesIn(before) PROVE ~Reads(after, V)
  <2>1. before[other].doc.id = other[1] /\ after[other] = before[other] /\ other # name
    <3> QED BY <1>1, <1>3, <1>7 DEF Reads
  <2>2. after[other].doc.id = after[name].doc.id
    <3> QED BY <1>1, <1>2, <2>1
  <2> QED BY <1>1, <1>7, <2>1, <2>2 DEF Reads
<1>8. ASSUME Reads(after, V), NEW d \in DocsIn(after) \ {doc} PROVE d.id # doc.id
  <2>1. PICK n \in FilesIn(before) : d = before[n].doc
    <3> QED BY <1>1, <1>8 DEF DocsIn
  <2>2. n # name /\ after[n].doc = d
    <3> QED BY <1>1, <1>3, <2>1
  <2> QED BY <1>1, <1>8, <2>2 DEF Reads
<1> QED BY <1>5, <1>6, <1>7, <1>8

(* How a directory of tasks is read, and one of suites.                   *)
LEMMA TasksAreRead ==
  ASSUME NEW directory, NEW V, \A d \in DocsIn(directory) : d \in V <=> TaskValid(d)
  PROVE  LoadTasks(directory).ok = Reads(directory, V) /\ LoadTasks(directory).docs = DocsIn(directory)
PROOF
<1>1. LoadTasks(directory).docs = DocsIn(directory)
  BY DEF LoadTasks, LoadAll, DocsIn, FilesIn, YamlIn
<1>2. \A name \in FilesIn(directory) : directory[name].doc \in V <=> TaskValid(directory[name].doc)
  BY DEF DocsIn
<1>3. LoadTasks(directory).ok =
        (/\ \A name \in YamlIn(directory) : directory[name].kind # "link"
         /\ \A name \in FilesIn(directory) : TaskValid(directory[name].doc) /\ directory[name].doc.id = name[1]
         /\ \A one, two \in FilesIn(directory) : directory[one].doc.id = directory[two].doc.id => one = two)
  BY DEF LoadTasks, LoadAll, FilesIn, YamlIn
<1> QED BY <1>1, <1>2, <1>3, Zenon DEF Reads

(* The same for suites.                                                   *)
LEMMA SuitesAreRead ==
  ASSUME NEW directory, NEW V, \A d \in DocsIn(directory) : d \in V <=> SuiteValid(d)
  PROVE  LoadSuites(directory).ok = Reads(directory, V) /\ LoadSuites(directory).docs = DocsIn(directory)
PROOF
<1>1. LoadSuites(directory).docs = DocsIn(directory)
  BY DEF LoadSuites, LoadAll, DocsIn, FilesIn, YamlIn
<1>2. \A name \in FilesIn(directory) : directory[name].doc \in V <=> SuiteValid(directory[name].doc)
  BY DEF DocsIn
<1>3. LoadSuites(directory).ok =
        (/\ \A name \in YamlIn(directory) : directory[name].kind # "link"
         /\ \A name \in FilesIn(directory) : SuiteValid(directory[name].doc) /\ directory[name].doc.id = name[1]
         /\ \A one, two \in FilesIn(directory) : directory[one].doc.id = directory[two].doc.id => one = two)
  BY DEF LoadSuites, LoadAll, FilesIn, YamlIn
<1> QED BY <1>1, <1>2, <1>3, Zenon DEF Reads

(* Adding a task keeps a directory of tasks readable.                     *)
LEMMA SavedTaskReads ==
  ASSUME NEW before, IsDirectory(before), NEW doc
  PROVE  LET after == SaveNew(before, doc, TaskValid) IN
         /\ AddingKeepsReadable(before, after, doc.id, LoadTasks, TaskValid)
         /\ after # before => TaskValid(doc) /\ after[FileName(doc.id)].doc = doc
PROOF
<1> DEFINE after == SaveNew(before, doc, TaskValid)
           name == FileName(doc.id)
           other == OtherName(doc.id)
           Added == TaskValid(doc) /\ name \notin DOMAIN before
<1>1. after = IF Added THEN AddedTo(before, doc) ELSE before
  BY DEF SaveNew, AddedTo, FileName
<1> HIDE DEF after
<1>2. CASE ~Added
  <2>1. after = before
    BY <1>1, <1>2
  <2>2. Restrict(after, DOMAIN before) = before
    BY <2>1 DEF Restrict, IsDirectory
  <2> QED BY <2>1, <2>2, Zenon DEF AddingKeepsReadable, after
<1>3. CASE Added
  <2> DEFINE V == {d \in DocsIn(before) \cup {doc} : TaskValid(d)}
  <2>1. after = AddedTo(before, doc) /\ doc \in V /\ name \notin DOMAIN before /\ TaskValid(doc)
    BY <1>1, <1>3
  <2>0. IsAdded(before, doc, name, other, after)
    BY <2>1 DEF IsAdded
  <2>2. /\ DOMAIN after = DOMAIN before \cup {name}
        /\ after[name].kind = "file" /\ after[name].doc = doc
        /\ DocsIn(after) = DocsIn(before) \cup {doc}
        /\ Restrict(after, DOMAIN before) = before
    <3>1. IsLarger(before, doc, name, after)
      BY <2>0, AddedFacts
    <3> QED BY <3>1 DEF IsLarger
  <2>3. /\ Reads(before, V) => (Reads(after, V) <=> ~(other \in DOMAIN before /\ before[other].kind = "file"))
        /\ Reads(after, V) => \A d \in DocsIn(after) \ {doc} : d.id # doc.id
    <3> HIDE DEF V, name, other
    <3> QED BY <2>0, <2>1, AddedReads
  <2>4. LoadTasks(before).ok = Reads(before, V) /\ LoadTasks(before).docs = DocsIn(before)
    <3>1. \A d \in DocsIn(before) : d \in V <=> TaskValid(d)
      OBVIOUS
    <3> HIDE DEF V
    <3> QED BY <3>1, TasksAreRead
  <2>5. LoadTasks(after).ok = Reads(after, V) /\ LoadTasks(after).docs = DocsIn(after)
    <3>1. \A d \in DocsIn(after) : d \in V <=> TaskValid(d)
      BY <2>2
    <3> HIDE DEF V
    <3> QED BY <3>1, TasksAreRead
  <2>6. LoadNamed(after, doc.id, TaskValid) = <<after[name].doc>>
    <3> HIDE DEF name
    <3> QED BY <2>1, <2>2, Zenon DEF LoadNamed, name, FileName
  <2> HIDE DEF V
  <2>7. AddingKeepsReadable(before, after, doc.id, LoadTasks, TaskValid)
    <3>1. DOMAIN after \ DOMAIN before \subseteq {name}
      BY <2>2
    <3> QED BY <2>2, <2>3, <2>4, <2>5, <2>6, <3>1, Zenon DEF AddingKeepsReadable, FileName, OtherName
  <2> QED BY <2>1, <2>2, <2>7 DEF after
<1> QED BY <1>2, <1>3

(* Adding a suite keeps a directory of suites readable.                   *)
LEMMA SavedSuiteReads ==
  ASSUME NEW before, IsDirectory(before), NEW doc
  PROVE  LET after == SaveNew(before, doc, SuiteValid) IN
         AddingKeepsReadable(before, after, doc.id, LoadSuites, SuiteValid)
PROOF
<1> DEFINE after == SaveNew(before, doc, SuiteValid)
           name == FileName(doc.id)
           other == OtherName(doc.id)
           Added == SuiteValid(doc) /\ name \notin DOMAIN before
<1>1. after = IF Added THEN AddedTo(before, doc) ELSE before
  BY DEF SaveNew, AddedTo, FileName
<1> HIDE DEF after
<1>2. CASE ~Added
  <2>1. after = before
    BY <1>1, <1>2
  <2>2. Restrict(after, DOMAIN before) = before
    BY <2>1 DEF Restrict, IsDirectory
  <2> QED BY <2>1, <2>2, Zenon DEF AddingKeepsReadable, after
<1>3. CASE Added
  <2> DEFINE V == {d \in DocsIn(before) \cup {doc} : SuiteValid(d)}
  <2>1. after = AddedTo(before, doc) /\ doc \in V /\ name \notin DOMAIN before /\ SuiteValid(doc)
    BY <1>1, <1>3
  <2>0. IsAdded(before, doc, name, other, after)
    BY <2>1 DEF IsAdded
  <2>2. /\ DOMAIN after = DOMAIN before \cup {name}
        /\ after[name].kind = "file" /\ after[name].doc = doc
        /\ DocsIn(after) = DocsIn(before) \cup {doc}
        /\ Restrict(after, DOMAIN before) = before
    <3>1. IsLarger(before, doc, name, after)
      BY <2>0, AddedFacts
    <3> QED BY <3>1 DEF IsLarger
  <2>3. /\ Reads(before, V) => (Reads(after, V) <=> ~(other \in DOMAIN before /\ before[other].kind = "file"))
        /\ Reads(after, V) => \A d \in DocsIn(after) \ {doc} : d.id # doc.id
    <3> HIDE DEF V, name, other
    <3> QED BY <2>0, <2>1, AddedReads
  <2>4. LoadSuites(before).ok = Reads(before, V) /\ LoadSuites(before).docs = DocsIn(before)
    <3>1. \A d \in DocsIn(before) : d \in V <=> SuiteValid(d)
      OBVIOUS
    <3> HIDE DEF V
    <3> QED BY <3>1, SuitesAreRead
  <2>5. LoadSuites(after).ok = Reads(after, V) /\ LoadSuites(after).docs = DocsIn(after)
    <3>1. \A d \in DocsIn(after) : d \in V <=> SuiteValid(d)
      BY <2>2
    <3> HIDE DEF V
    <3> QED BY <3>1, SuitesAreRead
  <2>6. LoadNamed(after, doc.id, SuiteValid) = <<after[name].doc>>
    <3> HIDE DEF name
    <3> QED BY <2>1, <2>2, Zenon DEF LoadNamed, name, FileName
  <2> HIDE DEF V
  <2>7. AddingKeepsReadable(before, after, doc.id, LoadSuites, SuiteValid)
    <3>1. DOMAIN after \ DOMAIN before \subseteq {name}
      BY <2>2
    <3> QED BY <2>2, <2>3, <2>4, <2>5, <2>6, <3>1, Zenon DEF AddingKeepsReadable, FileName, OtherName
  <2> QED BY <2>7 DEF after
<1> QED BY <1>2, <1>3

(* A command as the user gives it: a program and its arguments, or a line. *)
CommandsOf(B) ==
  {command \in [form : {"structured", "line"}, words : Seq(B), balanced : BOOLEAN, blank : BOOLEAN] :
     command.form = "structured" => command.words # <<>>}

(* A command that is valid can be written into a record and run.          *)
LEMMA ValidCommandsRun ==
  ASSUME NEW B, NEW command \in CommandsOf(B), CommandValid(command)
  PROVE  /\ OutcomeValid(Exited(AuditString(command), 0))
         /\ OutcomeValid(NotStarted(AuditString(command), "not found"))
         /\ ToArgv(command) \notin {<<>>, << <<>> >>}
PROOF
<1>1. command.form \in {"structured", "line"} /\ (command.form = "structured" => command.words # <<>>)
  BY DEF CommandsOf
<1>2. \A i \in DOMAIN command.words : command.words[i] \notin WithNul
  <2>1. CASE command.form = "structured"
    <3>1. \A i \in DOMAIN command.words : CommandPieceValid(command.words[i], i > 1)
      BY <2>1 DEF CommandValid
    <3> QED BY <3>1 DEF CommandPieceValid
  <2>2. CASE command.form # "structured"
    BY <2>2 DEF CommandValid
  <2> QED BY <2>1, <2>2
<1>3. ~(command.form = "line" /\ command.blank)
  BY DEF CommandValid
<1>4. AuditString(command) = "command"
  BY <1>2, <1>3, Zenon DEF AuditString
<1>5. Usable("command") /\ NotBlank("not found")
  BY DEF Usable, NotBlank, Blank, WithNul
<1> DEFINE none == <<>>
<1>6. Exited("command", 0).command = "command" /\ Exited("command", 0).exit_code = <<0>>
      /\ Exited("command", 0).timed_out = FALSE /\ Exited("command", 0).error = none
  BY DEF Exited, Outcome
<1>7. NotStarted("command", "not found").command = "command" /\ NotStarted("command", "not found").success = FALSE
      /\ NotStarted("command", "not found").timed_out = FALSE
      /\ NotStarted("command", "not found").error = <<"not found">>
  BY DEF NotStarted, Outcome
<1>8. DOMAIN none = {} /\ \A i \in DOMAIN <<"not found">> : <<"not found">>[i] = "not found"
  <2>1. \A text : \A i \in DOMAIN <<text>> : <<text>>[i] = text
    OBVIOUS
  <2>2. DOMAIN none = {}
    OBVIOUS
  <2> QED BY <2>1, <2>2
<1> HIDE DEF none
<1>9. OutcomeValid(Exited("command", 0))
  BY <1>5, <1>6, <1>8, Zenon DEF OutcomeValid, Present, none
<1>10. OutcomeValid(NotStarted("command", "not found"))
  BY <1>5, <1>7, <1>8, Zenon DEF OutcomeValid, Present
<1>11. ToArgv(command) \notin {<<>>, << <<>> >>}
  <2>1. ToArgv(command) # <<>>
    BY <1>1 DEF CommandValid, ToArgv
  <2>2. command.words # <<>> /\ ToArgv(command) = <<command.words>>
    BY <1>1, <2>1 DEF ToArgv
  <2>3. <<command.words>> # << <<>> >>
    BY <2>2
  <2> QED BY <2>1, <2>2, <2>3
<1> QED BY <1>4, <1>9, <1>10, <1>11

(* No member is there twice.                                              *)
HeldOnce(list) == \A i, j \in DOMAIN list : list[i] = list[j] => i = j

(* The members of a list to which others are added are those of both.     *)
MembersAdded(left, right) == ToSet(left \o right) = ToSet(AppendUnique(left, right))

(* They are when the list holds each of its own once.                     *)
LEMMA AddedMembers ==
  ASSUME NEW B, NEW left \in Seq(B), NEW right \in Seq(B), HeldOnce(left)
  PROVE  MembersAdded(left, right)
PROOF
<1>1. Deduplicate(left) = left
  BY DeduplicateLeaves DEF HeldOnce
<1>2. AppendUnique(left, right) = Merge(left, right)
  BY <1>1, AddingMerges
<1>3. ToSet(Merge(left, right)) = ToSet(left) \cup ToSet(right)
  <2>1. ListsAreMerged(left, right)
    BY ListsMerge
  <2> QED BY <2>1 DEF ListsAreMerged
<1>4. ToSet(left \o right) = ToSet(left) \cup ToSet(right)
  <2>1. /\ left \o right \in Seq(B) /\ Len(left \o right) = Len(left) + Len(right)
        /\ \A i \in 1 .. Len(left) : (left \o right)[i] = left[i]
        /\ \A i \in 1 .. Len(right) : (left \o right)[Len(left) + i] = right[i]
    BY JoinFacts
  <2>2. \A i \in 1 .. Len(left) + Len(right) :
          i \in 1 .. Len(left) \/ (i - Len(left) \in 1 .. Len(right) /\ i = Len(left) + (i - Len(left)))
    OBVIOUS
  <2>3. \A i \in 1 .. Len(left) : i \in 1 .. Len(left) + Len(right)
    OBVIOUS
  <2>4. \A i \in 1 .. Len(right) : Len(left) + i \in 1 .. Len(left) + Len(right)
    OBVIOUS
  <2>5. ASSUME NEW v PROVE v \in ToSet(left \o right) <=> v \in ToSet(left) \cup ToSet(right)
    <3>1. v \in ToSet(left \o right) <=> \E i \in 1 .. Len(left) + Len(right) : (left \o right)[i] = v
      <4> DEFINE both == left \o right
      <4>1. both \in Seq(B) /\ Len(both) = Len(left) + Len(right)
        BY <2>1
      <4> HIDE DEF both
      <4>2. v \in ToSet(both) <=> \E i \in DOMAIN both : both[i] = v
        BY <4>1, ListsOf
      <4>3. DOMAIN both = 1 .. Len(left) + Len(right)
        BY <4>1
      <4> QED BY <4>2, <4>3 DEF both
    <3>2. v \in ToSet(left) <=> \E i \in 1 .. Len(left) : left[i] = v
      BY ListsOf
    <3>3. v \in ToSet(right) <=> \E i \in 1 .. Len(right) : right[i] = v
      BY ListsOf
    <3> HIDE DEF ToSet
    <3> QED BY <2>1, <2>2, <2>3, <2>4, <3>1, <3>2, <3>3
  <2> QED BY <2>5
<1> QED BY <1>2, <1>3, <1>4 DEF MembersAdded

(* What the project's own rules hold is held once.                        *)
LEMMA DefaultsAreDistinct ==
  /\ HeldOnce(DefaultRules.commands) /\ HeldOnce(DefaultRules.paths)
  /\ \A B : "git push" \in B /\ "cargo publish" \in B => DefaultRules.commands \in Seq(B)
  /\ \A B : <<".git">> \in B /\ <<".env">> \in B => DefaultRules.paths \in Seq(B)
PROOF
<1>1. DefaultRules.commands = <<"git push", "cargo publish">> /\ DefaultRules.paths = << <<".git">>, <<".env">> >>
  BY DEF DefaultRules
<1>2. "git push" # "cargo publish" /\ <<".git">> # <<".env">>
  OBVIOUS
<1>3. ASSUME NEW x, NEW y, x # y
      PROVE  /\ \A i, j \in DOMAIN <<x, y>> : <<x, y>>[i] = <<x, y>>[j] => i = j
             /\ \A B : x \in B /\ y \in B => <<x, y>> \in Seq(B)
  BY <1>3
<1> DEFINE a == "git push"
           b == "cargo publish"
           c == <<".git">>
           d == <<".env">>
<1>4. DefaultRules.commands = <<a, b>> /\ DefaultRules.paths = <<c, d>> /\ a # b /\ c # d
  BY <1>1, <1>2
<1> HIDE DEF a, b, c, d
<1>5. /\ \A i, j \in DOMAIN <<a, b>> : <<a, b>>[i] = <<a, b>>[j] => i = j
      /\ \A B : a \in B /\ b \in B => <<a, b>> \in Seq(B)
  BY <1>3, <1>4
<1>6. /\ \A i, j \in DOMAIN <<c, d>> : <<c, d>>[i] = <<c, d>>[j] => i = j
      /\ \A B : c \in B /\ d \in B => <<c, d>> \in Seq(B)
  BY <1>3, <1>4
<1>7. /\ \A i, j \in DOMAIN DefaultRules.commands : DefaultRules.commands[i] = DefaultRules.commands[j] => i = j
      /\ \A i, j \in DOMAIN DefaultRules.paths : DefaultRules.paths[i] = DefaultRules.paths[j] => i = j
      /\ \A B : a \in B /\ b \in B => DefaultRules.commands \in Seq(B)
      /\ \A B : c \in B /\ d \in B => DefaultRules.paths \in Seq(B)
  BY <1>4, <1>5, <1>6, Zenon
<1> QED BY <1>7 DEF a, b, c, d, HeldOnce

(* What a user asks for with task add.                                    *)
Asked(B, C, arguments) ==
  /\ arguments.commands \in Seq(B) /\ arguments.paths \in Seq(C)
  /\ arguments.setup \in Seq(CommandsOf(B)) /\ arguments.verify \in Seq(CommandsOf(B))

(* The task that is made of it.                                           *)
AskedTask(arguments, defaults) ==
  [id     |-> arguments.id,
   prompt |-> arguments.prompt,
   setup  |-> arguments.setup,
   verify |-> arguments.verify,
   limits |-> [limit \in Limits |-> IF arguments.limits[limit] = <<>> THEN defaults[limit]
                                    ELSE arguments.limits[limit][1]],
   forbidden |-> [commands |-> AppendUnique(DefaultRules.commands, arguments.commands),
                  paths    |-> AppendUnique(DefaultRules.paths, arguments.paths)]]

(* Every directory of tasks, whatever lies in it, and every task that is   *)
(* asked for: a task is added under its own name or not at all, what was   *)
(* there stays and can still be read, its rules are those given and the    *)
(* project's, every command of it can be recorded and run, and each limit  *)
(* is the one given or the project's (cli/commands.rs, core/task.rs).      *)
THEOREM AddedTasksLoad ==
  ASSUME NEW before, IsDirectory(before), NEW B, NEW C, NEW arguments, Asked(B, C, arguments), NEW defaults
  PROVE  TaskIsAdded(before, arguments, defaults)
PROOF
<1> DEFINE made  == AskedTask(arguments, defaults)
           after == TaskAdd(before, arguments, defaults)
           name  == <<arguments.id, "yaml">>
<1>1. after = SaveNew(before, made, TaskValid)
  BY Zenon DEF TaskAdd, AskedTask
<1>2. /\ made.id = arguments.id /\ made.setup = arguments.setup /\ made.verify = arguments.verify
      /\ made.limits = [limit \in Limits |-> IF arguments.limits[limit] = <<>> THEN defaults[limit]
                                             ELSE arguments.limits[limit][1]]
      /\ made.forbidden.commands = AppendUnique(DefaultRules.commands, arguments.commands)
      /\ made.forbidden.paths = AppendUnique(DefaultRules.paths, arguments.paths)
  BY DEF AskedTask
<1> HIDE DEF made, after
<1>3. /\ AddingKeepsReadable(before, after, arguments.id, LoadTasks, TaskValid)
      /\ after # before => TaskValid(made) /\ after[name].doc = made
  <2>1. /\ AddingKeepsReadable(before, SaveNew(before, made, TaskValid), made.id, LoadTasks, TaskValid)
        /\ SaveNew(before, made, TaskValid) # before =>
             TaskValid(made) /\ SaveNew(before, made, TaskValid)[FileName(made.id)].doc = made
    BY SavedTaskReads
  <2> QED BY <1>1, <1>2, <2>1, Zenon DEF FileName
<1>4. ASSUME after # before
      PROVE  LET task == after[name].doc IN
             /\ ToSet(DefaultRules.commands \o arguments.commands) = ToSet(task.forbidden.commands)
             /\ ToSet(DefaultRules.paths \o arguments.paths) = ToSet(task.forbidden.paths)
             /\ \A command \in ToSet(task.setup) \cup ToSet(task.verify) :
                  /\ OutcomeValid(Exited(AuditString(command), 0))
                  /\ OutcomeValid(NotStarted(AuditString(command), "not found"))
                  /\ ToArgv(command) \notin {<<>>, << <<>> >>}
             /\ \A limit \in Limits :
                  task.limits[limit] = IF arguments.limits[limit] = <<>> THEN defaults[limit]
                                       ELSE arguments.limits[limit][1]
  <2>1. TaskValid(made) /\ after[name].doc = made
    BY <1>3, <1>4
  <2>2. ToSet(DefaultRules.commands \o arguments.commands) = ToSet(made.forbidden.commands)
    <3> DEFINE S == B \cup {"git push", "cargo publish"}
    <3>1. DefaultRules.commands \in Seq(S)
      BY DefaultsAreDistinct
    <3>2. arguments.commands \in Seq(S)
      <4>1. arguments.commands \in Seq(B) /\ B \subseteq S
        BY DEF Asked
      <4> HIDE DEF S
      <4> QED BY <4>1
    <3> HIDE DEF S
    <3>3. MembersAdded(DefaultRules.commands, arguments.commands)
      BY <3>1, <3>2, DefaultsAreDistinct, AddedMembers
    <3> QED BY <1>2, <3>3 DEF MembersAdded
  <2>3. ToSet(DefaultRules.paths \o arguments.paths) = ToSet(made.forbidden.paths)
    <3> DEFINE S == C \cup {<<".git">>, <<".env">>}
    <3>1. DefaultRules.paths \in Seq(S)
      BY DefaultsAreDistinct
    <3>2. arguments.paths \in Seq(S)
      <4>1. arguments.paths \in Seq(C) /\ C \subseteq S
        BY DEF Asked
      <4> HIDE DEF S
      <4> QED BY <4>1
    <3> HIDE DEF S
    <3>3. MembersAdded(DefaultRules.paths, arguments.paths)
      BY <3>1, <3>2, DefaultsAreDistinct, AddedMembers
    <3> QED BY <1>2, <3>3 DEF MembersAdded
  <2>4. ASSUME NEW command \in ToSet(made.setup) \cup ToSet(made.verify)
        PROVE  command \in CommandsOf(B) /\ CommandValid(command)
    <3>1. CommandsValid(made.setup) /\ CommandsValid(made.verify)
      BY <2>1 DEF TaskValid
    <3>2. made.setup \in Seq(CommandsOf(B)) /\ made.verify \in Seq(CommandsOf(B))
      BY <1>2 DEF Asked
    <3> QED BY <2>4, <3>1, <3>2 DEF CommandsValid, ToSet
  <2>5. \A command \in ToSet(made.setup) \cup ToSet(made.verify) :
             /\ OutcomeValid(Exited(AuditString(command), 0))
             /\ OutcomeValid(NotStarted(AuditString(command), "not found"))
             /\ ToArgv(command) \notin {<<>>, << <<>> >>}
    BY <2>4, ValidCommandsRun, Zenon
  <2>6. \A limit \in Limits : made.limits[limit] = IF arguments.limits[limit] = <<>> THEN defaults[limit]
                                                  ELSE arguments.limits[limit][1]
    BY <1>2
  <2> QED BY <2>1, <2>2, <2>3, <2>5, <2>6, Zenon
<1> QED BY <1>3, <1>4, Zenon DEF TaskIsAdded, after

(* The tasks a suite names, when they are there.                          *)
LEMMA TasksOfSuite ==
  ASSUME NEW tasks, NEW B, NEW suite, suite.tasks \in Seq(B), LoadSuiteTasks(tasks, suite) # <<>>
  PROVE  TasksFit(LoadSuiteTasks(tasks, suite)[1], suite)
PROOF
<1> DEFINE loaded == Each(suite.tasks, LAMBDA id : LoadNamed(tasks, id, TaskValid))
           n == Len(suite.tasks)
<1>1. n \in Nat /\ DOMAIN suite.tasks = 1 .. n
  OBVIOUS
<1>2. DOMAIN loaded = 1 .. n /\ \A i \in 1 .. n : loaded[i] = LoadNamed(tasks, suite.tasks[i], TaskValid)
  BY <1>1 DEF Each
<1>3. LoadSuiteTasks(tasks, suite) =
        IF \E i \in DOMAIN loaded : loaded[i] = <<>> THEN <<>> ELSE <<Each(loaded, LAMBDA one : one[1])>>
  BY Zenon DEF LoadSuiteTasks
<1> HIDE DEF loaded, n
<1>4. (\A i \in 1 .. n : loaded[i] # <<>>) /\ LoadSuiteTasks(tasks, suite) = <<[i \in 1 .. n |-> loaded[i][1]]>>
  BY <1>2, <1>3 DEF Each
<1> DEFINE list == [i \in 1 .. n |-> loaded[i][1]]
<1>5. LoadSuiteTasks(tasks, suite)[1] = list
  BY <1>4
<1>6. \A i \in 1 .. n : TaskValid(list[i]) /\ list[i].id = suite.tasks[i]
  <2> SUFFICES ASSUME NEW i \in 1 .. n PROVE TaskValid(list[i]) /\ list[i].id = suite.tasks[i]
    OBVIOUS
  <2> DEFINE id == suite.tasks[i]
             doc == tasks[<<id, "yaml">>].doc
  <2>1. LoadNamed(tasks, id, TaskValid) = <<doc>> /\ TaskValid(doc) /\ doc.id = id
    <3>1. LoadNamed(tasks, id, TaskValid) # <<>>
      BY <1>2, <1>4
    <3> QED BY <3>1, Zenon DEF LoadNamed
  <2>2. list[i] = doc
    <3> HIDE DEF doc
    <3> QED BY <1>2, <2>1
  <2> QED BY <2>1, <2>2
<1>7. Each(list, LAMBDA task : task.id) = suite.tasks
  <2>1. Each(list, LAMBDA task : task.id) = [i \in 1 .. n |-> suite.tasks[i]]
    BY <1>6 DEF Each
  <2> QED BY <1>1, <2>1
<1>8. DOMAIN list = 1 .. n
  OBVIOUS
<1> HIDE DEF list
<1> QED BY <1>5, <1>6, <1>7, <1>8 DEF TasksFit

(* Every directory of suites and of tasks, and every suite: it is added    *)
(* under its own name or not at all, what was there stays and can still be *)
(* read, and every task it names is there, valid, in its order             *)
(* (cli/suite.rs, core/suite.rs).                                          *)
THEOREM AddedSuitesLoad ==
  ASSUME NEW suites, IsDirectory(suites), NEW tasks, NEW B, NEW suite, suite.tasks \in Seq(B)
  PROVE  SuiteIsAdded(suites, tasks, suite)
PROOF
<1> DEFINE after  == SuiteAdd(suites, tasks, suite)
           loaded == LoadSuiteTasks(tasks, suite)
<1>1. CASE SuiteValid(suite) /\ loaded # <<>>
  <2>1. after = SaveNew(suites, suite, SuiteValid)
    BY <1>1 DEF SuiteAdd
  <2>2. AddingKeepsReadable(suites, SaveNew(suites, suite, SuiteValid), suite.id, LoadSuites, SuiteValid)
    BY SavedSuiteReads
  <2>3. TasksFit(loaded[1], suite)
    BY <1>1, TasksOfSuite
  <2> HIDE DEF loaded, after
  <2> QED BY <1>1, <2>1, <2>2, <2>3, Zenon DEF SuiteIsAdded, loaded, after
<1>2. CASE ~(SuiteValid(suite) /\ loaded # <<>>)
  <2>1. after = suites
    BY <1>2 DEF SuiteAdd
  <2>2. Restrict(after, DOMAIN suites) = suites
    BY <2>1 DEF Restrict, IsDirectory
  <2>3. AddingKeepsReadable(suites, after, suite.id, LoadSuites, SuiteValid)
    <3> HIDE DEF after
    <3> QED BY <2>1, <2>2, Zenon DEF AddingKeepsReadable
  <2> HIDE DEF loaded, after
  <2> QED BY <2>1, <2>3, Zenon DEF SuiteIsAdded, loaded, after
<1> QED BY <1>1, <1>2

-----------------------------------------------------------------------------
(* Errors: how long a text is, where it is cut, what is kept of it.       *)

(* How much a character counts.                                           *)
WidthOn(B) == [c \in B |-> IF c \in Wide THEN 2 ELSE 1]

(* The length of a text grows by the width of a character more.           *)
LEMMA BytesGrow ==
  ASSUME NEW B, NEW s \in Seq(B), NEW b \in B
  PROVE  Bytes(s) \in Nat /\ Bytes(Append(s, b)) = Bytes(s) + (IF b \in Wide THEN 2 ELSE 1)
PROOF
<1>1. ASSUME NEW t \in Seq(B) PROVE Bytes(t) = SumOver(WidthOn(B), t)
  <2>1. \A i \in DOMAIN t : t[i] \in B
    OBVIOUS
  <2>2. [i \in DOMAIN t |-> IF t[i] \in Wide THEN 2 ELSE 1] = [i \in DOMAIN t |-> WidthOn(B)[t[i]]]
    BY <2>1 DEF WidthOn
  <2> QED BY <2>2 DEF Bytes, Each, SumOver
<1>2. WidthOn(B) \in [B -> Nat] /\ WidthOn(B)[b] = IF b \in Wide THEN 2 ELSE 1
  BY DEF WidthOn
<1>3. Append(s, b) \in Seq(B)
  OBVIOUS
<1>4. SumOver(WidthOn(B), s) \in Nat /\ SumOver(WidthOn(B), Append(s, b)) = SumOver(WidthOn(B), s) + WidthOn(B)[b]
  BY <1>2, SumGrows
<1> QED BY <1>1, <1>2, <1>3, <1>4

(* An empty text has no length.                                           *)
LEMMA BytesOfNothing == Bytes(<<>>) = 0
PROOF
<1>1. [i \in DOMAIN <<>> |-> IF <<>>[i] \in Wide THEN 2 ELSE 1] = <<>>
  OBVIOUS
<1> QED BY <1>1, TotalOfNothing DEF Bytes, Each

(* Every text has a length.                                               *)
LEMMA BytesAreNatural ==
  ASSUME NEW B, NEW s \in Seq(B)
  PROVE  Bytes(s) \in Nat
PROOF
<1> DEFINE T == {t \in Seq(B) : Bytes(t) \in Nat}
<1>1. <<>> \in T
  BY BytesOfNothing
<1>2. ASSUME NEW t \in Seq(B), NEW b \in B PROVE Append(t, b) \in T
  <2>1. Append(t, b) \in Seq(B)
    OBVIOUS
  <2>2. Bytes(t) \in Nat /\ Bytes(Append(t, b)) = Bytes(t) + (IF b \in Wide THEN 2 ELSE 1)
    BY BytesGrow
  <2> QED BY <2>1, <2>2
<1>3. Seq(B) \subseteq T
  <2> HIDE DEF T
  <2> QED BY <1>1, <1>2, SequenceInduction
<1> QED BY <1>3

(* An error is cut where as much of it as fits is left.                   *)
LEMMA ErrorIsCut ==
  ASSUME NEW B, NEW text \in Seq(B)
  PROVE  LET cut == BoundedError(text)
         IN  /\ cut \in Seq(B) /\ IsPrefix(cut, text) /\ Bytes(cut) <= MaxErrorBytes
             /\ cut # text => Bytes(SubSeq(text, 1, Len(cut) + 1)) > MaxErrorBytes
PROOF
<1> DEFINE size(n) == Bytes(SubSeq(text, 1, n))
           fits == {n \in 0 .. Len(text) : size(n) <= MaxErrorBytes}
           Last0(n) == n \in fits /\ \A m \in fits : m <= n
           end == CHOOSE n : Last0(n)
<1>1. PICK len \in Nat : len = Len(text)
  OBVIOUS
<1>2. \A n \in 0 .. len : SubSeq(text, 1, n) \in Seq(B) /\ Len(SubSeq(text, 1, n)) = n
  BY <1>1
<1>3. ASSUME NEW n \in 0 .. len PROVE size(n) \in Nat
  BY <1>2, BytesAreNatural
<1>4. MaxErrorBytes \in Nat
  BY DefinitionBounds
<1>5. 0 \in fits
  <2>1. SubSeq(text, 1, 0) = <<>>
    OBVIOUS
  <2>2. size(0) = 0
    BY <2>1, BytesOfNothing
  <2> QED BY <2>2, <1>1, <1>4
<1>6. end \in fits /\ \A m \in fits : m <= end
  <2>1. fits \in SUBSET (0 .. len) /\ fits # {}
    BY <1>1, <1>5
  <2> HIDE DEF fits
  <2>2. Last0(Max(fits))
    BY <2>1, MaxOfNumbers
  <2> HIDE DEF Last0
  <2>3. Last0(end)
    BY <2>2
  <2> QED BY <2>3 DEF Last0
<1>7. BoundedError(text) = SubSeq(text, 1, end)
  BY DEF BoundedError
<1> HIDE DEF end
<1>8. end \in 0 .. len /\ size(end) <= MaxErrorBytes
  BY <1>1, <1>6
<1>9. ASSUME end # len PROVE size(end + 1) > MaxErrorBytes
  <2>1. end + 1 \in 0 .. len /\ end + 1 > end
    BY <1>8, <1>9
  <2>2. end + 1 \notin fits
    <3> HIDE DEF fits
    <3> QED BY <1>6, <1>8, <2>1
  <2>3. ~(size(end + 1) <= MaxErrorBytes)
    <3> HIDE DEF size
    <3> QED BY <1>1, <2>1, <2>2
  <2>4. size(end + 1) \in Nat
    BY <1>3, <2>1
  <2> HIDE DEF size
  <2> QED BY <2>3, <2>4, <1>4
<1> DEFINE cut == SubSeq(text, 1, end)
<1>10. cut \in Seq(B) /\ Len(cut) = end
  BY <1>2, <1>8
<1>11. IsPrefix(cut, text)
  <2>1. SubSeq(cut, 1, Len(cut)) = cut
    <3> HIDE DEF cut
    <3> QED BY <1>10
  <2>2. SubSeq(text, 1, Len(cut)) = cut
    BY <1>10
  <2> QED BY <1>1, <1>8, <1>10, <2>1, <2>2 DEF IsPrefix
<1>12. end = len => cut = text
  BY <1>1
<1> QED BY <1>7, <1>8, <1>9, <1>10, <1>11, <1>12

(* How a character is kept.                                               *)
Space == " "

Taken(kept, c) ==
  IF c \notin Blanks THEN Append(kept, c)
  ELSE IF kept = <<>> \/ Last(kept) = Space THEN kept ELSE Append(kept, Space)

TakeStep(B) == [p \in Seq(B) \X B |-> Taken(p[1], p[2])]

(* It leaves a text.                                                      *)
LEMMA TakesClosed ==
  ASSUME NEW B, Space \in B
  PROVE  /\ \A x \in Seq(B), y \in B : Taken(x, y) \in Seq(B) /\ TakeStep(B)[<<x, y>>] = Taken(x, y)
         /\ TakeStep(B) \in [Seq(B) \X B -> Seq(B)] /\ <<>> \in Seq(B)
PROOF
<1>1. ASSUME NEW x \in Seq(B), NEW y \in B PROVE Taken(x, y) \in Seq(B)
  BY DEF Taken
<1>2. <<>> \in Seq(B)
  OBVIOUS
<1> QED BY <1>1, <1>2 DEF TakeStep

(* A text is squeezed one character after the other.                      *)
LEMMA SqueezeSteps ==
  ASSUME NEW B, Space \in B, NEW seq \in Seq(B)
  PROVE  Stepped(Seq(B), TakeStep(B), <<>>, seq, Squeeze(seq))
PROOF
<1> DEFINE A == Seq(B)
           op == TakeStep(B)
           none == <<>>
           P(h) == h = [s \in SUBSET DOMAIN seq |->
                          IF s = {} THEN none ELSE Taken(h[s \ {Max(s)}], seq[Max(s)])]
           g == CHOOSE h : P(h)
<1>1. none \in A /\ op \in [A \X B -> A] /\ \A x \in A, y \in B : op[<<x, y>>] = Taken(x, y)
  BY TakesClosed
<1>2. seq \in Seq(B)
  OBVIOUS
<1>3. P(g)
  <2>1. PICK f \in [SUBSET DOMAIN seq -> A] : Folds(f, op, none, seq)
    <3> HIDE DEF op, P, A, none
    <3> QED BY <1>1, <1>2, FoldDefined
  <2>2. ASSUME NEW s \in SUBSET DOMAIN seq, s # {}
        PROVE  f[s \ {Max(s)}] \in A /\ seq[Max(s)] \in B
    <3> HIDE DEF op, P, A
    <3> QED BY <1>2, <2>2, NextOfFold
  <2>3. P(f)
    <3> HIDE DEF op, A, none
    <3> QED BY <2>1, <2>2, <1>1 DEF Folds
  <2> HIDE DEF P
  <2> QED BY <2>3
<1>4. Squeeze(seq) = g[DOMAIN seq]
  BY DEF Squeeze, FoldLeft, MapThenFoldSet, Taken, Space
<1> HIDE DEF g
<1>5. g[{}] = none
  <2> HIDE DEF op, none
  <2> QED BY <1>3
<1>6. \A s \in SUBSET DOMAIN seq :
         s # {} /\ g[s \ {Max(s)}] \in A /\ seq[Max(s)] \in B => g[s] = op[<<g[s \ {Max(s)}], seq[Max(s)]>>]
  <2> HIDE DEF op, A, none
  <2> QED BY <1>3, <1>1, ZenonT(60)
<1>7. \E st \in [0 .. Len(seq) -> A] : Steps(st, op, none, seq, g[DOMAIN seq])
  <2> HIDE DEF op, P, A, none
  <2> QED BY <1>1, <1>2, <1>5, <1>6, FoldPrefixes, ZenonT(60)
<1> HIDE DEF P
<1> QED BY <1>4, <1>7 DEF Stepped

(* Nothing, and one character more.                                       *)
LEMMA SqueezeGrows ==
  ASSUME NEW B, Space \in B, NEW seq \in Seq(B), NEW b \in B
  PROVE  /\ Squeeze(<<>>) = <<>> /\ Squeeze(seq) \in Seq(B)
         /\ Squeeze(Append(seq, b)) = Taken(Squeeze(seq), b)
PROOF
<1> DEFINE none == <<>>
<1>1. none \in Seq(B) /\ Append(seq, b) \in Seq(B)
  OBVIOUS
<1>2. /\ Stepped(Seq(B), TakeStep(B), none, seq, Squeeze(seq))
      /\ Stepped(Seq(B), TakeStep(B), none, Append(seq, b), Squeeze(Append(seq, b)))
      /\ Stepped(Seq(B), TakeStep(B), none, <<>>, Squeeze(<<>>))
  BY <1>1, SqueezeSteps
<1>3. TakeStep(B) \in [Seq(B) \X B -> Seq(B)] /\ \A x \in Seq(B), y \in B : TakeStep(B)[<<x, y>>] = Taken(x, y)
  BY TakesClosed
<1> HIDE DEF none
<1>4. Grows(Seq(B), B, TakeStep(B), none, seq, b, Squeeze(seq), Squeeze(Append(seq, b)))
  BY <1>1, <1>2, <1>3 DEF Grows
<1>5. Squeeze(seq) \in Seq(B) /\ Squeeze(Append(seq, b)) = TakeStep(B)[<<Squeeze(seq), b>>]
  BY <1>4, StepsGrow
<1>6. Squeeze(<<>>) = none
  BY <1>2, StepsStart
<1> QED BY <1>3, <1>5, <1>6 DEF none

(* The kinds of characters differ.                                        *)
LEMMA SpaceIsBlank == Space \in Blanks /\ Space \notin Control /\ Space \notin Wide /\ Blanks = Control \cup {Space}
PROOF
<1>1. Space \in Blanks /\ Blanks = Control \cup {Space}
  BY DEF Space, Blanks
<1>2. Space \notin Control
  BY DEF Space, Control
<1>3. Space \notin Wide
  BY DEF Space, Wide
<1> QED BY <1>1, <1>2, <1>3

(* A text in which a blank is a space between two other characters, or    *)
(* stands last.                                                           *)
Tidy(text) ==
  /\ \A i \in 1 .. Len(text) : text[i] \in Blanks => text[i] = Space
  /\ Len(text) > 0 => text[1] # Space
  /\ \A i \in 1 .. Len(text) - 1 : text[i] = Space => text[i + 1] # Space

(* It stays tidy.                                                         *)
LEMMA TakenIsTidy ==
  ASSUME NEW B, Space \in B, NEW kept \in Seq(B), Tidy(kept), NEW c \in B
  PROVE  Tidy(Taken(kept, c))
PROOF
<1> DEFINE n == Len(kept)
<1>1. n \in Nat /\ kept \in Seq(B)
  OBVIOUS
<1>2. ASSUME NEW d \in B, d \in Blanks => d = Space, d = Space => n > 0 /\ kept[n] # Space
      PROVE  Tidy(Append(kept, d))
  <2> DEFINE more == Append(kept, d)
  <2>1. Len(more) = n + 1 /\ more[n + 1] = d /\ \A i \in 1 .. n : more[i] = kept[i]
    BY <1>1
  <2> HIDE DEF more, n
  <2>2. \A i \in 1 .. n + 1 : i \in 1 .. n \/ i = n + 1
    BY <1>1
  <2>3. \A i \in 1 .. Len(more) : more[i] \in Blanks => more[i] = Space
    BY <1>2, <2>1, <2>2 DEF Tidy, n
  <2>4. more[1] # Space
    <3>1. CASE n = 0
      <4>1. d # Space
        BY <1>2, <3>1
      <4> QED BY <2>1, <3>1, <4>1
    <3>2. CASE n > 0
      <4>1. 1 \in 1 .. n /\ kept[1] # Space
        BY <1>1, <3>2 DEF Tidy, n
      <4> QED BY <2>1, <4>1
    <3> QED BY <1>1, <3>1, <3>2
  <2>5. ASSUME NEW i \in 1 .. Len(more) - 1, more[i] = Space PROVE more[i + 1] # Space
    <3>1. i \in 1 .. n
      BY <1>1, <2>1
    <3>2. CASE i = n
      <4>1. kept[n] = Space
        BY <2>1, <2>5, <3>1, <3>2
      <4>2. d # Space
        BY <1>2, <4>1
      <4> QED BY <2>1, <3>2, <4>2
    <3>3. CASE i # n
      <4>1. i \in 1 .. n - 1 /\ i + 1 \in 1 .. n
        BY <1>1, <3>1, <3>3
      <4> QED BY <2>1, <2>5, <3>1, <4>1 DEF Tidy, n
    <3> QED BY <3>2, <3>3
  <2> QED BY <2>1, <2>3, <2>4, <2>5 DEF Tidy, more
<1>3. CASE c \notin Blanks
  <2>1. c # Space
    BY <1>3, SpaceIsBlank
  <2> QED BY <1>2, <1>3, <2>1 DEF Taken
<1>4. CASE c \in Blanks /\ (kept = <<>> \/ Last(kept) = Space)
  BY <1>4 DEF Taken
<1>5. CASE c \in Blanks /\ ~(kept = <<>> \/ Last(kept) = Space)
  <2>1. n > 0 /\ kept[n] # Space
    BY <1>1, <1>5 DEF Last
  <2>2. Tidy(Append(kept, Space))
    BY <1>2, <2>1
  <2> QED BY <1>5, <2>2 DEF Taken
<1> QED BY <1>3, <1>4, <1>5

(* What is squeezed of a text: it is tidy, no longer than the text, and   *)
(* the same but for blanks.                                               *)
Squeezed(B, text) ==
  /\ Squeeze(text) \in Seq(B) /\ Tidy(Squeeze(text))
  /\ Bytes(Squeeze(text)) <= Bytes(text)
  /\ Without(Squeeze(text), {Space}) = Without(text, Blanks)
  /\ Squeeze(text) = <<>> <=> \A i \in 1 .. Len(text) : text[i] \in Blanks

(* It is so for one character more.                                       *)
LEMMA TextIsSqueezedMore ==
  ASSUME NEW B, Space \in B, NEW text \in Seq(B), NEW c \in B, Squeezed(B, text)
  PROVE  Squeezed(B, Append(text, c))
PROOF
<1> DEFINE W == Squeeze(text)
           more == Append(text, c)
           V == Squeeze(more)
           none == <<>>
<1>1. W \in Seq(B) /\ V = Taken(W, c) /\ Tidy(W) /\ Bytes(W) <= Bytes(text)
      /\ Without(W, {Space}) = Without(text, Blanks)
      /\ (W = none <=> \A i \in 1 .. Len(text) : text[i] \in Blanks)
  BY SqueezeGrows DEF Squeezed
<1>2. more \in Seq(B) /\ Len(more) = Len(text) + 1 /\ more[Len(text) + 1] = c
      /\ \A i \in 1 .. Len(text) : more[i] = text[i]
  OBVIOUS
<1>3. Without(more, Blanks) = IF c \in Blanks THEN Without(text, Blanks) ELSE Append(Without(text, Blanks), c)
  BY PartsGrow
<1>4. Bytes(text) \in Nat /\ Bytes(more) = Bytes(text) + (IF c \in Wide THEN 2 ELSE 1)
  BY BytesGrow
<1>5. Bytes(W) \in Nat
  BY <1>1, BytesAreNatural
<1>6. (\A i \in 1 .. Len(more) : more[i] \in Blanks) <=>
        (\A i \in 1 .. Len(text) : text[i] \in Blanks) /\ c \in Blanks
  BY <1>2
<1>7. ASSUME NEW d \in B
      PROVE  /\ Bytes(Append(W, d)) = Bytes(W) + (IF d \in Wide THEN 2 ELSE 1)
             /\ Without(Append(W, d), {Space}) =
                  IF d \in {Space} THEN Without(W, {Space}) ELSE Append(Without(W, {Space}), d)
             /\ Append(W, d) \in Seq(B) /\ Append(W, d) # none
  <2> HIDE DEF W
  <2>1. Bytes(Append(W, d)) = Bytes(W) + (IF d \in Wide THEN 2 ELSE 1)
    BY <1>1, BytesGrow
  <2>2. Without(Append(W, d), {Space}) =
                  IF d \in {Space} THEN Without(W, {Space}) ELSE Append(Without(W, {Space}), d)
    <3> DEFINE S == {Space}
    <3> HIDE DEF S
    <3>1. Without(Append(W, d), S) = IF d \in S THEN Without(W, S) ELSE Append(Without(W, S), d)
      BY <1>1, PartsGrow
    <3> QED BY <3>1 DEF S
  <2>3. Append(W, d) \in Seq(B) /\ Append(W, d) # none
    BY <1>1
  <2> QED BY <2>1, <2>2, <2>3, Zenon
<1>8. Tidy(V)
  <2> HIDE DEF W, V
  <2> QED BY <1>1, TakenIsTidy
<1> HIDE DEF W, V, more
<1>9. CASE c \notin Blanks
  <2>1. V = Append(W, c)
    BY <1>1, <1>9 DEF Taken
  <2>2. c # Space
    BY <1>9, SpaceIsBlank
  <2>3. V \in Seq(B) /\ V # none
    BY <1>7, <2>1
  <2>4. Bytes(V) <= Bytes(more)
    BY <1>1, <1>4, <1>5, <1>7, <2>1
  <2>5. Without(V, {Space}) = Without(more, Blanks)
    BY <1>1, <1>3, <1>7, <1>9, <2>1, <2>2
  <2> QED BY <1>6, <1>8, <1>9, <2>3, <2>4, <2>5 DEF Squeezed, V, more
<1>10. CASE c \in Blanks /\ (W = <<>> \/ Last(W) = Space)
  <2>1. V = W
    BY <1>1, <1>10 DEF Taken
  <2>2. Bytes(V) <= Bytes(more)
    BY <1>1, <1>4, <1>5, <2>1
  <2> QED BY <1>1, <1>3, <1>6, <1>8, <1>10, <2>1, <2>2 DEF Squeezed, V, more
<1>11. CASE c \in Blanks /\ ~(W = <<>> \/ Last(W) = Space)
  <2>1. V = Append(W, Space)
    BY <1>1, <1>11 DEF Taken
  <2>2. V \in Seq(B) /\ V # none
    BY <1>7, <2>1
  <2>3. Bytes(V) <= Bytes(more)
    <3>1. Bytes(V) = Bytes(W) + 1
      BY <1>7, <2>1, SpaceIsBlank
    <3> QED BY <1>1, <1>4, <1>5, <3>1
  <2>4. Without(V, {Space}) = Without(more, Blanks)
    <3>1. Without(V, {Space}) = Without(W, {Space})
      BY <1>7, <2>1
    <3> QED BY <1>1, <1>3, <1>11, <3>1
  <2>5. ~\A i \in 1 .. Len(more) : more[i] \in Blanks
    BY <1>1, <1>6, <1>11
  <2> QED BY <1>8, <2>2, <2>3, <2>4, <2>5 DEF Squeezed, V, more
<1> QED BY <1>9, <1>10, <1>11

(* So for every text.                                                     *)
LEMMA TextIsSqueezed ==
  ASSUME NEW B, Space \in B, NEW text \in Seq(B)
  PROVE  Squeezed(B, text)
PROOF
<1> DEFINE T == {t \in Seq(B) : Squeezed(B, t)}
<1>1. <<>> \in T
  <2> DEFINE none == <<>>
  <2>1. none \in Seq(B) /\ Len(none) = 0
    OBVIOUS
  <2>2. Squeeze(none) = none
    BY <2>1, SqueezeGrows
  <2>3. Without(none, {Space}) = none /\ Without(none, Blanks) = none
    BY NoParts
  <2>4. Bytes(none) <= Bytes(none)
    BY BytesOfNothing
  <2>5. Tidy(none)
    <3> HIDE DEF none
    <3> QED BY <2>1 DEF Tidy
  <2>7. \A i \in 1 .. Len(none) : none[i] \in Blanks
    <3> HIDE DEF none
    <3> QED BY <2>1
  <2> HIDE DEF none
  <2>6. Squeezed(B, none)
    BY <2>1, <2>2, <2>3, <2>4, <2>5, <2>7, Zenon DEF Squeezed, none
  <2> QED BY <2>1, <2>6 DEF none
<1>2. ASSUME NEW t \in Seq(B), NEW b \in B, t \in T PROVE Append(t, b) \in T
  <2>1. Append(t, b) \in Seq(B)
    OBVIOUS
  <2> QED BY <1>2, <2>1, TextIsSqueezedMore
<1>3. Seq(B) \subseteq T
  <2> HIDE DEF T
  <2> QED BY <1>1, <1>2, SequenceInduction
<1> QED BY <1>3

(* A tidy text is left as it is.                                          *)
LEMMA TidyIsLeft ==
  ASSUME NEW B, Space \in B, NEW text \in Seq(B), Tidy(text)
  PROVE  Squeeze(text) = text
PROOF
<1> DEFINE T == {t \in Seq(B) : Tidy(t) => Squeeze(t) = t}
<1>1. <<>> \in T
  <2> DEFINE none == <<>>
  <2>1. none \in Seq(B)
    OBVIOUS
  <2>2. Squeeze(none) = none
    BY <2>1, SqueezeGrows
  <2> QED BY <2>1, <2>2
<1>2. ASSUME NEW t \in Seq(B), NEW b \in B, t \in T PROVE Append(t, b) \in T
  <2> DEFINE n == Len(t)
             more == Append(t, b)
  <2>1. more \in Seq(B) /\ n \in Nat /\ Len(more) = n + 1 /\ more[n + 1] = b /\ \A i \in 1 .. n : more[i] = t[i]
    OBVIOUS
  <2>2. Squeeze(more) = Taken(Squeeze(t), b)
    BY SqueezeGrows
  <2>3. SUFFICES ASSUME Tidy(more) PROVE Squeeze(more) = more
    BY <2>1
  <2> HIDE DEF more
  <2>4. Tidy(t)
    <3>1. \A i \in 1 .. n : i \in 1 .. n + 1 /\ (n > 0 => 1 \in 1 .. n)
      BY <2>1
    <3>2. \A i \in 1 .. n - 1 : i \in 1 .. n /\ i + 1 \in 1 .. n /\ i \in 1 .. n + 1 - 1
      BY <2>1
    <3>3. \A i \in 1 .. n : t[i] \in Blanks => t[i] = Space
      BY <2>1, <2>3, <3>1 DEF Tidy
    <3>4. n > 0 => t[1] # Space
      BY <2>1, <2>3, <3>1 DEF Tidy
    <3>5. \A i \in 1 .. n - 1 : t[i] = Space => t[i + 1] # Space
      BY <2>1, <2>3, <3>2 DEF Tidy
    <3> QED BY <3>3, <3>4, <3>5 DEF Tidy
  <2>5. Squeeze(t) = t
    BY <1>2, <2>4
  <2>6. CASE b \notin Blanks
    BY <2>2, <2>5, <2>6 DEF Taken, more
  <2>7. CASE b \in Blanks
    <3>1. b = Space
      <4>1. n + 1 \in 1 .. Len(more)
        BY <2>1
      <4> QED BY <2>1, <2>3, <2>7, <4>1 DEF Tidy
    <3>2. t # <<>>
      <4> SUFFICES ASSUME t = <<>> PROVE FALSE
        OBVIOUS
      <4>1. n = 0
        OBVIOUS
      <4> HIDE DEF n
      <4>2. Len(more) > 0 /\ more[1] = Space
        BY <2>1, <3>1, <4>1
      <4> QED BY <2>3, <4>2 DEF Tidy
    <3>3. Last(t) # Space
      <4> SUFFICES ASSUME t[n] = Space PROVE FALSE
        BY DEF Last
      <4>1. n \in 1 .. n /\ n \in 1 .. Len(more) - 1
        BY <2>1, <3>2
      <4>2. more[n] = Space /\ more[n + 1] = Space
        BY <2>1, <3>1, <4>1
      <4> QED BY <2>3, <4>1, <4>2 DEF Tidy
    <3> QED BY <2>2, <2>5, <2>7, <3>1, <3>2, <3>3 DEF Taken, more
  <2> QED BY <2>6, <2>7
<1>3. Seq(B) \subseteq T
  <2> HIDE DEF T
  <2> QED BY <1>1, <1>2, SequenceInduction
<1> QED BY <1>3

(* A text without its last blank.                                         *)
LEMMA CollapseIs ==
  ASSUME NEW B, Space \in B, NEW text \in Seq(B)
  PROVE  LET W == Squeeze(text)
             C == Collapse(text)
         IN  /\ C \in Seq(B) /\ Tidy(C) /\ Bytes(C) <= Bytes(text)
             /\ Without(C, {Space}) = Without(text, Blanks)
             /\ C = <<>> <=> \A i \in 1 .. Len(text) : text[i] \in Blanks
             /\ Len(C) > 0 => C[Len(C)] # Space
PROOF
<1> DEFINE W == Squeeze(text)
           C == Collapse(text)
           n == Len(W)
<1>1. /\ W \in Seq(B) /\ Tidy(W)
      /\ Bytes(W) <= Bytes(text)
      /\ Without(W, {Space}) = Without(text, Blanks)
      /\ W = <<>> <=> \A i \in 1 .. Len(text) : text[i] \in Blanks
  BY TextIsSqueezed DEF Squeezed
<1>2. C = IF W # <<>> /\ Last(W) = Space THEN Front(W) ELSE W
  BY Zenon DEF Collapse, Space
<1> HIDE DEF C, W
<1>3. n \in Nat
  BY <1>1
<1>4. CASE ~(W # <<>> /\ Last(W) = Space)
  <2>1. C = W
    BY <1>2, <1>4
  <2>2. Len(C) > 0 => C[Len(C)] # Space
    BY <1>1, <1>4, <2>1 DEF Last
  <2> QED BY <1>1, <2>1, <2>2 DEF C
<1>5. CASE W # <<>> /\ Last(W) = Space
  <2>1. C = Front(W)
    BY <1>2, <1>5
  <2>2. n > 0 /\ W[n] = Space
    BY <1>1, <1>5 DEF Last
  <2>3. n > 1
    <3>1. n # 1
      BY <1>1, <2>2 DEF Tidy
    <3> HIDE DEF n
    <3> QED BY <1>3, <2>2, <3>1
  <2>4. C = SubSeq(W, 1, n - 1)
    BY <2>1 DEF Front
  <2>5. C \in Seq(B) /\ Len(C) = n - 1 /\ \A i \in 1 .. n - 1 : C[i] = W[i]
    <3>1. n - 1 \in 0 .. Len(W)
      BY <1>3, <2>3
    <3> DEFINE k == n - 1
    <3> HIDE DEF k, n
    <3>2. k \in 0 .. Len(W)
      BY <3>1 DEF k
    <3>3. SubSeq(W, 1, k) \in Seq(B) /\ Len(SubSeq(W, 1, k)) = k
          /\ \A i \in 1 .. k : SubSeq(W, 1, k)[i] = W[i]
      BY <1>1, <3>2
    <3> QED BY <2>4, <3>3 DEF k
  <2>6. W = Append(C, Space)
    <3>1. Len(Append(C, Space)) = n /\ Append(C, Space) \in Seq(B)
      BY <1>3, <2>5
    <3>2. \A i \in 1 .. n : Append(C, Space)[i] = W[i]
      BY <1>3, <2>2, <2>5
    <3> HIDE DEF n
    <3> QED BY <1>1, <3>1, <3>2, SameSequence DEF n
  <2>7. Bytes(C) <= Bytes(text)
    <3>1. Bytes(C) \in Nat /\ Bytes(W) = Bytes(C) + 1
      BY <2>5, <2>6, BytesGrow, SpaceIsBlank
    <3>2. Bytes(text) \in Nat
      BY BytesAreNatural
    <3> QED BY <1>1, <3>1, <3>2
  <2>8. Without(C, {Space}) = Without(text, Blanks)
    <3> DEFINE S == {Space}
    <3>1. Space \in S
      OBVIOUS
    <3> HIDE DEF S
    <3>2. Without(Append(C, Space), S) = Without(C, S)
      BY <2>5, <3>1, PartsGrow
    <3> QED BY <1>1, <2>6, <3>2 DEF S
  <2>9. Tidy(C)
    <3>1. \A i \in 1 .. n - 1 : i \in 1 .. n
      BY <1>3
    <3>2. \A i \in 1 .. n - 1 - 1 : i \in 1 .. n - 1 /\ i + 1 \in 1 .. n - 1
      BY <1>3
    <3>3. 1 \in 1 .. n - 1
      BY <1>3, <2>3
    <3> HIDE DEF n
    <3>4. \A i \in 1 .. n - 1 : C[i] \in Blanks => C[i] = Space
      BY <1>1, <2>5, <3>1 DEF Tidy, n
    <3>5. C[1] # Space
      BY <1>1, <2>2, <2>5, <3>3 DEF Tidy, n
    <3>6. \A i \in 1 .. n - 1 - 1 : C[i] = Space => C[i + 1] # Space
      BY <1>1, <2>5, <3>2 DEF Tidy, n
    <3> QED BY <2>5, <3>4, <3>5, <3>6 DEF Tidy
  <2>10. C # <<>>
    BY <1>3, <2>3, <2>5
  <2>11. C[Len(C)] # Space
    <3> SUFFICES ASSUME C[Len(C)] = Space PROVE FALSE
      OBVIOUS
    <3>1. n - 1 \in 1 .. n - 1 /\ n - 1 + 1 = n
      BY <1>3, <2>3
    <3>2. W[n - 1] = Space /\ W[n - 1 + 1] = Space
      BY <2>2, <2>5, <3>1
    <3> HIDE DEF n
    <3> QED BY <1>1, <3>1, <3>2 DEF Tidy, n
  <2> QED BY <1>1, <1>5, <2>5, <2>7, <2>8, <2>9, <2>10, <2>11 DEF C
<1> QED BY <1>4, <1>5

(* What is kept of a text that is not too long.                           *)
LEMMA SanitizedIs ==
  ASSUME NEW B, Space \in B, NEW text \in Seq(B), Bytes(text) <= MaxErrorBytes
  PROVE  LET C == Collapse(text) IN
         /\ C # <<>> => StoredErrorValid(C)
         /\ SanitizeError(text) = IF C # <<>> THEN <<C>> ELSE <<>>
PROOF
<1> DEFINE C == Collapse(text)
<1>1. C \in Seq(B) /\ Tidy(C) /\ Bytes(C) <= Bytes(text)
  BY CollapseIs
<1>2. Bytes(C) \in Nat /\ Bytes(text) \in Nat /\ MaxErrorBytes \in Nat
  BY <1>1, BytesAreNatural, DefinitionBounds
<1> HIDE DEF C
<1>3. ASSUME C # <<>> PROVE StoredErrorValid(C)
  <2>1. 1 \in DOMAIN C /\ C[1] # Space
    BY <1>1, <1>3 DEF Tidy
  <2>2. Bytes(C) <= MaxErrorBytes
    BY <1>1, <1>2
  <2>3. ToSet(C) \cap Control = {}
    <3> SUFFICES ASSUME NEW i \in DOMAIN C, C[i] \in Control PROVE FALSE
      BY DEF ToSet
    <3>1. i \in 1 .. Len(C) /\ C[i] \in Blanks
      BY <1>1, SpaceIsBlank
    <3>2. C[i] = Space
      BY <1>1, <3>1 DEF Tidy
    <3> QED BY <3>2, SpaceIsBlank
  <2> QED BY <2>1, <2>2, <2>3, Zenon DEF StoredErrorValid, Space
<1>4. ASSUME C = <<>> PROVE ~StoredErrorValid(C)
  <2>1. DOMAIN C = {}
    BY <1>4
  <2> QED BY <2>1, Zenon DEF StoredErrorValid
<1>5. SanitizeError(text) = IF C # <<>> THEN <<C>> ELSE <<>>
  BY <1>3, <1>4, Zenon DEF SanitizeError, C
<1> QED BY <1>3, <1>5 DEF C

(* Every error text: it is cut where as much of it as fits is left, what   *)
(* is kept with a cell is valid, is what was cut but for blanks, is        *)
(* nothing only when there was nothing but blanks, and is kept as it is    *)
(* when it is read again (runner/suite.rs, core/suite.rs).                 *)
THEOREM ErrorsAreKept ==
  ASSUME NEW B, NEW text \in Seq(B)
  PROVE  ErrorsAreStorable(text)
PROOF
<1> DEFINE A == B \cup {Space}
           cut == BoundedError(text)
           stored == SanitizeError(cut)
           C == Collapse(cut)
<1>1. Space \in A /\ text \in Seq(A)
  <2>1. B \subseteq A
    OBVIOUS
  <2>2. text \in Seq(A)
    <3> HIDE DEF A
    <3> QED BY <2>1
  <2> QED BY <2>2
<1> HIDE DEF A
<1>2. /\ cut \in Seq(A) /\ IsPrefix(cut, text) /\ Bytes(cut) <= MaxErrorBytes
      /\ cut # text => Bytes(SubSeq(text, 1, Len(cut) + 1)) > MaxErrorBytes
  BY <1>1, ErrorIsCut
<1> HIDE DEF cut
<1>3. /\ C \in Seq(A) /\ Tidy(C) /\ Bytes(C) <= Bytes(cut)
      /\ Without(C, {Space}) = Without(cut, Blanks)
      /\ C = <<>> <=> \A i \in 1 .. Len(cut) : cut[i] \in Blanks
      /\ Len(C) > 0 => C[Len(C)] # Space
  BY <1>1, <1>2, CollapseIs
<1>4. /\ C # <<>> => StoredErrorValid(C)
      /\ stored = IF C # <<>> THEN <<C>> ELSE <<>>
  BY <1>1, <1>2, SanitizedIs
<1> HIDE DEF C
<1>5. C = <<>> <=> ToSet(cut) \subseteq Blanks
  <2>1. ToSet(cut) \subseteq Blanks <=> \A i \in 1 .. Len(cut) : cut[i] \in Blanks
    BY <1>2, ListsOf
  <2> QED BY <1>3, <2>1
<1>6. Bytes(C) <= MaxErrorBytes
  <2>1. Bytes(C) \in Nat /\ Bytes(cut) \in Nat /\ MaxErrorBytes \in Nat
    BY <1>2, <1>3, BytesAreNatural, DefinitionBounds
  <2> QED BY <1>2, <1>3, <2>1
<1>7. ASSUME C # <<>> PROVE SanitizeError(C) = <<C>>
  <2>1. Squeeze(C) = C
    BY <1>1, <1>3, TidyIsLeft
  <2>2. Last(C) # Space
    BY <1>3, <1>7 DEF Last
  <2>3. Collapse(C) = C
    BY <2>1, <2>2, Zenon DEF Collapse, Space
  <2>4. SanitizeError(C) = IF Collapse(C) # <<>> THEN <<Collapse(C)>> ELSE <<>>
    BY <1>1, <1>3, <1>6, SanitizedIs
  <2> QED BY <1>7, <2>3, <2>4
<1>8. stored = <<>> <=> C = <<>>
  BY <1>4
<1>9. ASSUME NEW i \in DOMAIN stored
      PROVE  /\ StoredErrorValid(stored[i])
             /\ SanitizeError(stored[i]) = stored
             /\ Without(stored[i], {" "}) = Without(cut, Blanks)
  <2>1. C # <<>> /\ stored = <<C>> /\ stored[i] = C
    <3>1. C # <<>>
      <4> SUFFICES ASSUME C = <<>> PROVE FALSE
        OBVIOUS
      <4>1. DOMAIN stored = {}
        BY <1>4
      <4> QED BY <1>9, <4>1
    <3> QED BY <1>4, <1>9, <3>1
  <2> QED BY <1>3, <1>4, <1>7, <2>1, Zenon DEF Space
<1> HIDE DEF stored
<1> QED BY <1>2, <1>5, <1>8, <1>9, Zenon DEF ErrorsAreStorable, cut, stored

-----------------------------------------------------------------------------
(* The inputs of the run that are about definitions.                      *)
DefinitionTopics == {"task", "definition", "plan", "config", "error"}

(* Inputs of these topics are the samples of their kind.                  *)
LEMMA DefinitionInputs ==
  ASSUME NEW s \in Inputs
  PROVE  /\ s.topic = "task" => s \in TaskSamples
         /\ s.topic = "definition" => s \in SuiteDefinitionSamples
         /\ s.topic = "plan" => s \in PlanSamples
         /\ s.topic = "config" => s \in ConfigSamples
         /\ s.topic = "error" => s \in ErrorSamples
PROOF
<1>1. \A x \in PathSamples : x.topic = "paths"
  <2>1. \A T, P : \A x \in [topic : {"paths"}, tree : T, path : P] : x.topic = "paths"
    OBVIOUS
  <2> QED BY <2>1, Zenon DEF PathSamples
<1>2. \A x \in CommandSamples \cup RulePathSamples \cup EventSamples \cup ListSamples : x.topic \notin DefinitionTopics
  BY DEF CommandSamples, RulePathSamples, EventSamples, ListSamples, DefinitionTopics
<1>3. \A x \in PolicySamples \cup TemplateSamples \cup ProcessSamples \cup GroupSamples \cup ComparisonSamples :
        x.topic \notin DefinitionTopics
  BY DEF PolicySamples, TemplateSamples, ProcessSamples, GroupSamples, ComparisonSamples, DefinitionTopics
<1>4. \A x \in SuiteSamples \cup RevisionSamples \cup BattleSamples : x.topic \notin DefinitionTopics
  BY DEF SuiteSamples, RevisionSamples, BattleSamples, DefinitionTopics
<1>5. \A x \in FieldSamples : x.topic \notin DefinitionTopics
  <2>1. \A F : \A x \in [topic : {"numstat"}, fields : F] : x.topic = "numstat"
    OBVIOUS
  <2>2. \A x \in FieldSamples : x.topic = "numstat"
    BY <2>1, Zenon DEF FieldSamples
  <2> QED BY <2>2 DEF DefinitionTopics
<1>6. \A x \in {NoSample} : x.topic \notin DefinitionTopics
  BY DEF NoSample, DefinitionTopics
<1>7. \A x \in TaskSamples : x.topic = "task"
  BY DEF TaskSamples
<1>8. \A x \in SuiteDefinitionSamples : x.topic = "definition"
  BY DEF SuiteDefinitionSamples
<1>9. \A x \in PlanSamples : x.topic = "plan"
  BY DEF PlanSamples
<1>10. \A x \in ConfigSamples : x.topic = "config"
  <2>1. \A P, I, A, E : \A x \in [topic : {"config"}, paths : P, id : I, agent : A, environment : E] : x.topic = "config"
    OBVIOUS
  <2> QED BY <2>1, Zenon DEF ConfigSamples
<1>11. \A x \in ErrorSamples : x.topic = "error"
  BY DEF ErrorSamples
<1>12. \/ s \in PathSamples \/ s.topic \notin DefinitionTopics
       \/ s \in TaskSamples \/ s \in SuiteDefinitionSamples \/ s \in PlanSamples
       \/ s \in ConfigSamples \/ s \in ErrorSamples
  BY <1>2, <1>3, <1>4, <1>5, <1>6 DEF Inputs
<1>13. {"task", "definition", "plan", "config", "error"} \subseteq DefinitionTopics /\ "paths" \notin DefinitionTopics
  BY DEF DefinitionTopics
<1> QED BY <1>1, <1>7, <1>8, <1>9, <1>10, <1>11, <1>12, <1>13

(* A directory with one entry, as the samples have it.                    *)
LoneEntry(a, b, entry) == [n \in {<<a, b>>} |-> entry]

(* That is a directory.                                                   *)
LEMMA OneFile ==
  ASSUME NEW a, NEW b, NEW entry
  PROVE  IsDirectory(LoneEntry(a, b, entry))
PROOF
<1> DEFINE d == LoneEntry(a, b, entry)
<1>1. DOMAIN d = {<<a, b>>} /\ d = [n \in DOMAIN d |-> d[n]]
  BY DEF LoneEntry
<1>2. \A n \in {<<a, b>>} : n = <<n[1], n[2]>>
  OBVIOUS
<1> QED BY <1>1, <1>2 DEF IsDirectory

(* So is an empty one.                                                   *)
LEMMA NoFile == IsDirectory(<<>>)
PROOF
<1> DEFINE d == <<>>
<1>1. DOMAIN d = {} /\ d = [n \in DOMAIN d |-> d[n]]
  OBVIOUS
<1> HIDE DEF d
<1>2. IsDirectory(d)
  BY <1>1 DEF IsDirectory
<1> QED BY <1>2 DEF d

(* A directory with a task or a suite in it, or none.                     *)
LEMMA SomeDirectories ==
  ASSUME NEW neighbour \in Neighbours
  PROVE  /\ IsDirectory(DirectoryWith(neighbour, TaskNamed))
         /\ IsDirectory(DirectoryWith(neighbour, SuiteNamed))
PROOF
<1>3. \A a, b, e : IsDirectory(LoneEntry(a, b, e))
  BY OneFile
<1>1. IsDirectory(DirectoryWith(neighbour, TaskNamed))
  <2>1. CASE neighbour = "none"
    <3>1. DirectoryWith(neighbour, TaskNamed) = <<>>
      BY <2>1 DEF DirectoryWith
    <3> QED BY <3>1, NoFile, Zenon
  <2>2. CASE neighbour = "other"
    <3>1. DirectoryWith(neighbour, TaskNamed)
          = LoneEntry(<<"com">>, "yml", [kind |-> "file", doc |-> TaskNamed(<<"com">>)])
      BY <2>2 DEF DirectoryWith, LoneEntry
    <3> QED BY <1>3, <3>1, Zenon
  <2>3. CASE neighbour = "same"
    <3>1. DirectoryWith(neighbour, TaskNamed)
          = LoneEntry(<<"a">>, "yaml", [kind |-> "file", doc |-> TaskNamed(<<"a">>)])
      BY <2>3 DEF DirectoryWith, LoneEntry
    <3> QED BY <1>3, <3>1, Zenon
  <2>4. CASE neighbour = "yml"
    <3>1. DirectoryWith(neighbour, TaskNamed)
          = LoneEntry(<<"a">>, "yml", [kind |-> "file", doc |-> TaskNamed(<<"a">>)])
      BY <2>4 DEF DirectoryWith, LoneEntry
    <3> QED BY <1>3, <3>1, Zenon
  <2>5. CASE neighbour = "link"
    <3>1. DirectoryWith(neighbour, TaskNamed)
          = LoneEntry(<<"b">>, "yaml", [kind |-> "link", doc |-> TaskNamed(<<"b">>)])
      BY <2>5 DEF DirectoryWith, LoneEntry
    <3> QED BY <1>3, <3>1, Zenon
  <2>6. CASE neighbour = "broken"
    <3>1. DirectoryWith(neighbour, TaskNamed)
          = LoneEntry(<<"con">>, "yaml", [kind |-> "file", doc |-> TaskNamed(<<"con">>)])
      BY <2>6 DEF DirectoryWith, LoneEntry
    <3> QED BY <1>3, <3>1, Zenon
  <2>7. CASE neighbour = "misnamed"
    <3>1. DirectoryWith(neighbour, TaskNamed)
          = LoneEntry(<<"com">>, "yaml", [kind |-> "file", doc |-> TaskNamed(<<"a">>)])
      BY <2>7 DEF DirectoryWith, LoneEntry
    <3> QED BY <1>3, <3>1, Zenon
  <2>8. CASE neighbour = "text"
    <3>1. DirectoryWith(neighbour, TaskNamed)
          = LoneEntry(<<"com">>, "txt", [kind |-> "file", doc |-> TaskNamed(<<"con">>)])
      BY <2>8 DEF DirectoryWith, LoneEntry
    <3> QED BY <1>3, <3>1, Zenon
  <2>9. CASE neighbour = "folder"
    <3>1. DirectoryWith(neighbour, TaskNamed)
          = LoneEntry(<<"com">>, "yaml", [kind |-> "dir", doc |-> TaskNamed(<<"com">>)])
      BY <2>9 DEF DirectoryWith, LoneEntry
    <3> QED BY <1>3, <3>1, Zenon
  <2> QED BY <2>1, <2>2, <2>3, <2>4, <2>5, <2>6, <2>7, <2>8, <2>9 DEF Neighbours
<1>2. IsDirectory(DirectoryWith(neighbour, SuiteNamed))
  <2>1. CASE neighbour = "none"
    <3>1. DirectoryWith(neighbour, SuiteNamed) = <<>>
      BY <2>1 DEF DirectoryWith
    <3> QED BY <3>1, NoFile, Zenon
  <2>2. CASE neighbour = "other"
    <3>1. DirectoryWith(neighbour, SuiteNamed)
          = LoneEntry(<<"com">>, "yml", [kind |-> "file", doc |-> SuiteNamed(<<"com">>)])
      BY <2>2 DEF DirectoryWith, LoneEntry
    <3> QED BY <1>3, <3>1, Zenon
  <2>3. CASE neighbour = "same"
    <3>1. DirectoryWith(neighbour, SuiteNamed)
          = LoneEntry(<<"a">>, "yaml", [kind |-> "file", doc |-> SuiteNamed(<<"a">>)])
      BY <2>3 DEF DirectoryWith, LoneEntry
    <3> QED BY <1>3, <3>1, Zenon
  <2>4. CASE neighbour = "yml"
    <3>1. DirectoryWith(neighbour, SuiteNamed)
          = LoneEntry(<<"a">>, "yml", [kind |-> "file", doc |-> SuiteNamed(<<"a">>)])
      BY <2>4 DEF DirectoryWith, LoneEntry
    <3> QED BY <1>3, <3>1, Zenon
  <2>5. CASE neighbour = "link"
    <3>1. DirectoryWith(neighbour, SuiteNamed)
          = LoneEntry(<<"b">>, "yaml", [kind |-> "link", doc |-> SuiteNamed(<<"b">>)])
      BY <2>5 DEF DirectoryWith, LoneEntry
    <3> QED BY <1>3, <3>1, Zenon
  <2>6. CASE neighbour = "broken"
    <3>1. DirectoryWith(neighbour, SuiteNamed)
          = LoneEntry(<<"con">>, "yaml", [kind |-> "file", doc |-> SuiteNamed(<<"con">>)])
      BY <2>6 DEF DirectoryWith, LoneEntry
    <3> QED BY <1>3, <3>1, Zenon
  <2>7. CASE neighbour = "misnamed"
    <3>1. DirectoryWith(neighbour, SuiteNamed)
          = LoneEntry(<<"com">>, "yaml", [kind |-> "file", doc |-> SuiteNamed(<<"a">>)])
      BY <2>7 DEF DirectoryWith, LoneEntry
    <3> QED BY <1>3, <3>1, Zenon
  <2>8. CASE neighbour = "text"
    <3>1. DirectoryWith(neighbour, SuiteNamed)
          = LoneEntry(<<"com">>, "txt", [kind |-> "file", doc |-> SuiteNamed(<<"con">>)])
      BY <2>8 DEF DirectoryWith, LoneEntry
    <3> QED BY <1>3, <3>1, Zenon
  <2>9. CASE neighbour = "folder"
    <3>1. DirectoryWith(neighbour, SuiteNamed)
          = LoneEntry(<<"com">>, "yaml", [kind |-> "dir", doc |-> SuiteNamed(<<"com">>)])
      BY <2>9 DEF DirectoryWith, LoneEntry
    <3> QED BY <1>3, <3>1, Zenon
  <2> QED BY <2>1, <2>2, <2>3, <2>4, <2>5, <2>6, <2>7, <2>8, <2>9 DEF Neighbours
<1> QED BY <1>1, <1>2

(* The words of the sample commands and rules.                            *)
SampleWords == {"git", "", "nul", "rm", "git push", " "}

(* The commands of the samples are what a user gives.                     *)
LEMMA SomeCommandsAreGiven == SomeCommands \subseteq CommandsOf(SampleWords)
PROOF
<1>0. \A S : \A r \in [form : {"line"}, words : Seq(S), balanced : BOOLEAN, blank : BOOLEAN] :
        [r EXCEPT !.blank = TRUE] \in CommandsOf(S) /\ [r EXCEPT !.balanced = FALSE] \in CommandsOf(S)
  BY DEF CommandsOf
<1>1. "git" \in SampleWords /\ "" \in SampleWords /\ "nul" \in SampleWords
  BY Zenon DEF SampleWords
<1>2. ASSUME NEW S, NEW x \in S PROVE Structured(<<x>>) \in CommandsOf(S) /\ Typed(<<x>>) \in CommandsOf(S)
  BY DEF Structured, Typed, CommandsOf
<1>3. ASSUME NEW S, NEW x \in S, NEW y \in S PROVE Structured(<<x, y>>) \in CommandsOf(S)
  BY DEF Structured, CommandsOf
<1>4. ASSUME NEW S PROVE [Typed(<<>>) EXCEPT !.blank = TRUE] \in CommandsOf(S)
  <2>1. Typed(<<>>) \in [form : {"line"}, words : Seq(S), balanced : BOOLEAN, blank : BOOLEAN]
    BY DEF Typed
  <2> QED BY <1>0, <2>1
<1>5. ASSUME NEW S, NEW x \in S PROVE [Typed(<<x>>) EXCEPT !.balanced = FALSE] \in CommandsOf(S)
  <2>1. Typed(<<x>>) \in [form : {"line"}, words : Seq(S), balanced : BOOLEAN, blank : BOOLEAN]
    BY DEF Typed
  <2> QED BY <1>0, <2>1
<1>6. /\ Structured(<<"git", "">>) \in CommandsOf(SampleWords) /\ Structured(<<"">>) \in CommandsOf(SampleWords)
      /\ Structured(<<"git", "nul">>) \in CommandsOf(SampleWords)
  BY <1>1, <1>2, <1>3, Zenon
<1>7. /\ Typed(<<"git">>) \in CommandsOf(SampleWords) /\ Typed(<<"nul">>) \in CommandsOf(SampleWords)
      /\ [Typed(<<>>) EXCEPT !.blank = TRUE] \in CommandsOf(SampleWords)
      /\ [Typed(<<"git">>) EXCEPT !.balanced = FALSE] \in CommandsOf(SampleWords)
  BY <1>1, <1>2, <1>4, <1>5, Zenon
<1> QED BY <1>6, <1>7, Zenon DEF SomeCommands

(* Adding a task.                                                         *)
LEMMA TasksOfRun ==
  ASSUME NEW given \in TaskSamples
  PROVE  TasksAreAdded(given)
PROOF
<1>1. /\ given.neighbour \in Neighbours /\ given.verify \in SeqOf(SomeCommands, 1)
      /\ given.commands \in {<<>>, <<"rm", "git push">>, <<" ">>}
      /\ given.paths \in {<< <<"..", "x">> >>, << <<".env">>, <<"d">> >>}
  BY DEF TaskSamples
<1> DEFINE C == {<<"..", "x">>, <<".env">>, <<"d">>}
           arguments ==
             [id |-> given.id, prompt |-> "do it", setup |-> given.verify, verify |-> given.verify,
              limits |-> [limit \in Limits |-> IF limit = "max_diff_lines" THEN given.limit ELSE <<>>],
              commands |-> given.commands, paths |-> given.paths]
<1>2. given.commands \in Seq(SampleWords) /\ given.paths \in Seq(C)
  <2>2. <<>> \in Seq(SampleWords) /\ <<"rm", "git push">> \in Seq(SampleWords) /\ <<" ">> \in Seq(SampleWords)
    <3>1. "rm" \in SampleWords /\ "git push" \in SampleWords /\ " " \in SampleWords
      BY Zenon DEF SampleWords
    <3>2. \A S : \A x, y \in S : <<>> \in Seq(S) /\ <<x, y>> \in Seq(S) /\ <<x>> \in Seq(S)
      OBVIOUS
    <3> QED BY <3>1, <3>2, Zenon
  <2>3. << <<"..", "x">> >> \in Seq(C) /\ << <<".env">>, <<"d">> >> \in Seq(C)
    <3> DEFINE p == <<"..", "x">>
               q == <<".env">>
               r == <<"d">>
    <3>1. p \in C /\ q \in C /\ r \in C
      OBVIOUS
    <3> HIDE DEF p, q, r, C
    <3>2. <<p>> \in Seq(C) /\ <<q, r>> \in Seq(C)
      BY <3>1
    <3> QED BY <3>2 DEF p, q, r
  <2> HIDE DEF C
  <2> QED BY <1>1, <2>2, <2>3, Zenon
<1>3. given.verify \in Seq(CommandsOf(SampleWords))
  <2>1. given.verify \in Seq(SomeCommands)
    BY <1>1, BoundedSequences
  <2> QED BY <2>1, SomeCommandsAreGiven, SeqMonotonic
<1>4. Asked(SampleWords, C, arguments)
  <2>1. /\ arguments.commands = given.commands /\ arguments.paths = given.paths
        /\ arguments.setup = given.verify /\ arguments.verify = given.verify
    OBVIOUS
  <2> HIDE DEF C, arguments
  <2> QED BY <1>2, <1>3, <2>1 DEF Asked
<1>5. IsDirectory(DirectoryWith(given.neighbour, TaskNamed))
  BY <1>1, SomeDirectories
<1>6. TaskIsAdded(DirectoryWith(given.neighbour, TaskNamed), arguments, [limit \in Limits |-> 3])
  <2> HIDE DEF C, arguments
  <2> QED BY <1>4, <1>5, AddedTasksLoad
<1> QED BY <1>6, Zenon DEF TasksAreAdded

(* Adding a suite.                                                        *)
LEMMA SuitesOfRun ==
  ASSUME NEW given \in SuiteDefinitionSamples
  PROVE  SuitesAreAdded(given)
PROOF
<1> DEFINE ids == {<<"a">>, <<"com">>, <<"con">>}
<1>1. given.neighbour \in Neighbours /\ given.tasks \in SeqOf(ids, 3)
  BY DEF SuiteDefinitionSamples
<1> DEFINE suite == [id |-> given.id, description |-> given.description, tasks |-> given.tasks]
<1> HIDE DEF ids
<1>2. suite.tasks \in Seq(ids)
  BY <1>1, BoundedSequences
<1>3. IsDirectory(DirectoryWith(given.neighbour, SuiteNamed))
  BY <1>1, SomeDirectories
<1> HIDE DEF suite
<1>4. \A tasks : SuiteIsAdded(DirectoryWith(given.neighbour, SuiteNamed), tasks, suite)
  BY <1>2, <1>3, AddedSuitesLoad
<1> QED BY <1>4, Zenon DEF SuitesAreAdded, suite

(* Making a plan.                                                         *)
LEMMA PlansOfRun ==
  ASSUME NEW given \in PlanSamples
  PROVE  PlansAreRecordable(given)
PROOF
<1> DEFINE ids == {<<"a">>, <<"com">>, <<"a", "1">>}
           names == {<<"codex">>, <<"a">>, <<"Com">>}
<1>1. /\ given.tasks \in SeqOf(ids, 3) /\ given.agents \in SeqOf(names, 3)
      /\ given.repeat \in 0 .. MaxRepeat + 1
  BY DEF PlanSamples
<1> DEFINE suite == [id |-> <<"a">>, description |-> <<>>, tasks |-> given.tasks]
           order == IF given.swapped THEN Reverse(given.tasks) ELSE given.tasks
           tasks == Each(order, TaskNamed)
           T == {TaskNamed(id) : id \in ids}
<1> HIDE DEF ids, names
<1>2. given.tasks \in Seq(ids) /\ given.agents \in Seq(names)
  BY <1>1, BoundedSequences
<1>3. given.repeat \in Nat
  BY <1>1, DefinitionBounds
<1>4. order \in Seq(ids)
  BY <1>2 DEF Reverse
<1>5. tasks \in Seq(T)
  <2> HIDE DEF order
  <2> QED BY <1>4 DEF Each
<1>6. suite.tasks \in Seq(ids)
  BY <1>2
<1> HIDE DEF suite, tasks, order, T
<1>7. PlanIsRecordable(suite, tasks, given.agents, given.repeat)
  BY <1>2, <1>3, <1>5, <1>6, PlansAreKept
<1> QED BY <1>7, Zenon DEF PlansAreRecordable, suite, tasks, order

(* Storing an error.                                                      *)
LEMMA ErrorsOfRun ==
  ASSUME NEW given \in ErrorSamples
  PROVE  ErrorsAreStorable(given.text)
PROOF
<1> DEFINE B == {"x", "e'", " ", "\n"}
<1>1. given.text \in SeqOf(B, MaxErrorBytes + 2)
  BY Zenon DEF ErrorSamples, Texts
<1> HIDE DEF B
<1>2. MaxErrorBytes + 2 \in Nat
  BY DefinitionBounds
<1>3. given.text \in Seq(B)
  BY <1>1, <1>2, BoundedSequences
<1> QED BY <1>3, ErrorsAreKept

(* What the paths and commands of the configurations are made of.         *)
ConfigParts == {"s", "t", "u", "v", "..", "", "r", "tool", "bin", ".", "c:d"}

(* The paths and the agents of the configurations.                        *)
LEMMA PartsOfConfigs ==
  /\ \A config \in ConfigSamples :
       /\ config.paths \in Seq(Seq(ConfigParts)) /\ config.paths # <<>>
       /\ config.agent.command \in Seq(ConfigParts) /\ config.agent.timeout \in Optional(Nat)
  /\ <<"r">> \in Seq(ConfigParts) /\ ~Contains(<<"r">>, "..")
PROOF
<1>1. /\ "s" \in ConfigParts /\ "t" \in ConfigParts /\ "u" \in ConfigParts /\ "v" \in ConfigParts
      /\ ".." \in ConfigParts /\ "" \in ConfigParts /\ "r" \in ConfigParts /\ "tool" \in ConfigParts
      /\ "bin" \in ConfigParts /\ "." \in ConfigParts /\ "c:d" \in ConfigParts
  BY Zenon DEF ConfigParts
<1>2. \A S : \A x, y, z \in S : <<x>> \in Seq(S) /\ <<x, y>> \in Seq(S) /\ <<x, y, z>> \in Seq(S)
  OBVIOUS
<1>3. \A S : \A x, y, z \in S : <<x, y>> # <<>> /\ <<x, y, z>> # <<>>
  OBVIOUS
<1>4. /\ <<"s">> \in Seq(ConfigParts) /\ <<"s", "t">> \in Seq(ConfigParts) /\ <<"t">> \in Seq(ConfigParts)
      /\ <<"s", "..", "t">> \in Seq(ConfigParts) /\ <<"..">> \in Seq(ConfigParts) /\ <<"..", "t">> \in Seq(ConfigParts)
      /\ <<"s", "u", "v">> \in Seq(ConfigParts) /\ <<"", "s">> \in Seq(ConfigParts)
      /\ <<"", "s", "t">> \in Seq(ConfigParts) /\ <<"r">> \in Seq(ConfigParts)
  BY <1>1, <1>2, Zenon
<1>5. /\ <<"tool">> \in Seq(ConfigParts) /\ <<"">> \in Seq(ConfigParts) /\ <<"..", "tool">> \in Seq(ConfigParts)
      /\ <<"bin", "tool">> \in Seq(ConfigParts) /\ <<".", "tool">> \in Seq(ConfigParts)
      /\ <<"", "bin", "tool">> \in Seq(ConfigParts) /\ <<"c:d", "tool">> \in Seq(ConfigParts)
  BY <1>1, <1>2, Zenon
<1> DEFINE P == {<< <<"s">>, <<"s", "t">> >>, << <<"s">>, <<"s">> >>, << <<"s">>, <<"t">> >>,
                << <<"s">>, <<"s", "..", "t">> >>, << <<"..">>, <<"..", "t">> >>,
                << <<"s">>, <<"s", "t">>, <<"s", "u", "v">> >>, << <<"", "s">>, <<"", "s", "t">> >>}
           K == {<<"tool">>, <<"">>, <<"..", "tool">>, <<"bin", "tool">>, <<".", "tool">>,
              <<"", "bin", "tool">>, <<"c:d", "tool">>}
           U == {<<>>, <<0>>, <<2>>}
<1> DEFINE Z == {paths \in Seq(Seq(ConfigParts)) : paths # <<>>}
<1>6. \A paths \in P : paths \in Z
  <2>1. \A x, y, z \in Seq(ConfigParts) : <<x, y>> \in Z /\ <<x, y, z>> \in Z
    <3>1. \A x, y, z \in Seq(ConfigParts) : <<x, y>> \in Seq(Seq(ConfigParts)) /\ <<x, y, z>> \in Seq(Seq(ConfigParts))
      BY <1>2
    <3> QED BY <1>3, <3>1, Zenon
  <2> HIDE DEF Z
  <2>2. /\ << <<"s">>, <<"s", "t">> >> \in Z /\ << <<"s">>, <<"s">> >> \in Z /\ << <<"s">>, <<"t">> >> \in Z
        /\ << <<"s">>, <<"s", "..", "t">> >> \in Z /\ << <<"..">>, <<"..", "t">> >> \in Z
        /\ << <<"s">>, <<"s", "t">>, <<"s", "u", "v">> >> \in Z /\ << <<"", "s">>, <<"", "s", "t">> >> \in Z
    BY <1>4, <2>1, Zenon
  <2> QED BY <2>2, Zenon
<1>7. \A command \in K : command \in Seq(ConfigParts)
  BY <1>5, Zenon
<1>8. \A timeout \in U : timeout \in Optional(Nat)
  <2>1. <<>> \in Optional(Nat) /\ \A n \in Nat : <<n>> \in Optional(Nat)
    <3> DEFINE none == <<>>
    <3>1. none \in Seq(Nat) /\ Len(none) <= 1
      OBVIOUS
    <3>2. \A n \in Nat : <<n>> \in Seq(Nat) /\ Len(<<n>>) <= 1
      OBVIOUS
    <3> HIDE DEF none
    <3>3. none \in Optional(Nat) /\ \A n \in Nat : <<n>> \in Optional(Nat)
      BY <3>1, <3>2, Zenon DEF Optional
    <3> QED BY <3>3 DEF none
  <2>2. 0 \in Nat /\ 2 \in Nat
    OBVIOUS
  <2> QED BY <2>1, <2>2, Zenon
<1>9. ASSUME NEW config \in ConfigSamples
      PROVE  config.paths \in P /\ config.agent.command \in K /\ config.agent.timeout \in U
  <2>2. SomeAgents = [command : K, timeout : U, args : {<<>>, << <<"{", "prompt", "}">> >>, << <<"{", "x", "}">> >>}]
    BY Zenon DEF SomeAgents
  <2>3. [command |-> <<"tool">>, timeout |-> <<>>, args |-> <<>>] \in SomeAgents
    <3>1. <<"tool">> \in K /\ <<>> \in U
      BY Zenon
    <3>2. \A G, g : g \in G =>
            [command |-> <<"tool">>, timeout |-> <<>>, args |-> g] \in [command : K, timeout : U, args : G]
      <4> HIDE DEF K, U
      <4> QED BY <3>1
    <3>3. <<>> \in {<<>>, << <<"{", "prompt", "}">> >>, << <<"{", "x", "}">> >>}
      BY Zenon
    <3> HIDE DEF K, U
    <3> QED BY <2>2, <3>2, <3>3, Zenon
  <2>4. PICK I, H, E : /\ config \in [topic : {"config"}, paths : P, id : I, agent : H, environment : E]
                       /\ \A h \in H : h \in SomeAgents
    <3> DEFINE few == {<<>>, << <<"a", "1">>, <<"_">> >>, << <<"1">> >>, << <<"a">>, <<"a">> >>}
               ids == {<<"a">>, <<"claude">>, <<"Com">>, <<"a", "a", "a", "a">>}
               lone == {[command |-> <<"tool">>, timeout |-> <<>>, args |-> <<>>]}
    <3>1. \/ config \in [topic : {"config"}, paths : P, id : ids, agent : SomeAgents, environment : {<<>>}]
          \/ config \in [topic : {"config"}, paths : P, id : {<<"a">>}, agent : lone, environment : few]
      BY Zenon DEF ConfigSamples
    <3>2. \A h \in lone : h \in SomeAgents
      BY <2>3, Zenon
    <3> HIDE DEF P, few, ids, lone
    <3> QED BY <3>1, <3>2, Zenon
  <2>5. \A PP, I2, HH, E2 :
          \A x \in [topic : {"config"}, paths : PP, id : I2, agent : HH, environment : E2] : x.paths \in PP /\ x.agent \in HH
    OBVIOUS
  <2> HIDE DEF P, K, U
  <2>6. config.paths \in P /\ config.agent \in SomeAgents
    BY <2>4, <2>5, Zenon
  <2> QED BY <2>2, <2>6
<1>10. ~Contains(<<"r">>, "..")
  BY DEF Contains
<1> HIDE DEF P, K, U
<1> QED BY <1>4, <1>6, <1>7, <1>8, <1>9, <1>10, Zenon

(* Using a configuration.                                                 *)
LEMMA ConfigsOfRun ==
  ASSUME NEW given \in ConfigSamples
  PROVE  ConfigsAreUsable(given)
PROOF
<1> DEFINE config == [paths    |-> given.paths,
                      defaults |-> [limits |-> [limit \in Limits |-> 1], environment |-> given.environment],
                      security |-> DefaultRules,
                      agents   |-> [id \in {given.id} |-> given.agent]]
           registry == RegistryOf(config)
           Works  == /\ DirectoriesAreApart(<<"r">>, given.paths)
                     /\ AgentsAreKept(config)
                     /\ \A first, second \in registry.ids : SelectionRuns(registry, <<first, second>>)
                     /\ \A limit \in 1 .. 3 : TimeoutIsLowered(limit, given.agent)
<1>1. /\ config.paths = given.paths /\ DOMAIN config.agents = {given.id}
      /\ config.agents[given.id] = given.agent
  OBVIOUS
<1> HIDE DEF config
<1>2. /\ given.paths \in Seq(Seq(ConfigParts)) /\ given.paths # <<>>
      /\ given.agent.command \in Seq(ConfigParts) /\ given.agent.timeout \in Optional(Nat)
      /\ <<"r">> \in Seq(ConfigParts) /\ ~Contains(<<"r">>, "..")
  BY PartsOfConfigs, Zenon
<1>3. Configured(ConfigParts, config)
  <2>1. IsFiniteSet({given.id})
    BY FS_Singleton
  <2> QED BY <1>1, <1>2, <2>1 DEF Configured
<1>4. ASSUME ConfigValid(config) PROVE Works
  <2>1. /\ \A r \in Seq(ConfigParts) : ~Contains(r, "..") => DirectoriesAreApart(r, config.paths)
        /\ AgentsAreKept(config)
        /\ \A L : \A list \in Seq(L) : SelectionRuns(RegistryOf(config), list)
        /\ \A id \in DOMAIN config.agents, limit \in Nat \ {0} : TimeoutIsLowered(limit, config.agents[id])
    BY <1>3, <1>4, ConfigurationsWork
  <2>2. DirectoriesAreApart(<<"r">>, given.paths)
    BY <1>1, <1>2, <2>1, Zenon
  <2>3. ASSUME NEW first \in registry.ids, NEW second \in registry.ids
        PROVE  SelectionRuns(registry, <<first, second>>)
    <3>1. \A S : \A x, y \in S : <<x, y>> \in Seq(S)
      OBVIOUS
    <3>2. <<first, second>> \in Seq(registry.ids)
      BY <3>1, Zenon
    <3> QED BY <2>1, <3>2, Zenon
  <2>4. \A limit \in 1 .. 3 : TimeoutIsLowered(limit, given.agent)
    <3>1. \A limit \in 1 .. 3 : limit \in Nat \ {0}
      OBVIOUS
    <3>2. given.id \in DOMAIN config.agents
      BY <1>1
    <3>3. \A limit \in Nat \ {0} : TimeoutIsLowered(limit, config.agents[given.id])
      BY <2>1, <3>2, Zenon
    <3> QED BY <1>1, <3>1, <3>3, Zenon
  <2> QED BY <2>1, <2>2, <2>3, <2>4, Zenon
<1> QED BY <1>4, Zenon DEF ConfigsAreUsable, config

(* What one command of the run accepts the next one can use: the           *)
(* invariant of the run (core/task.rs, core/suite.rs, core/config.rs,      *)
(* cli/commands.rs, cli/suite.rs, runner/suite.rs, runner/registry.rs).    *)
THEOREM DefinitionsStay == Spec => []DefinitionsLoad
PROOF
<1>1. ASSUME sample \in Inputs PROVE DefinitionsLoad
  <2>1. /\ sample.topic = "task" => TasksAreAdded(sample)
        /\ sample.topic = "definition" => SuitesAreAdded(sample)
        /\ sample.topic = "plan" => PlansAreRecordable(sample)
        /\ sample.topic = "config" => ConfigsAreUsable(sample)
        /\ sample.topic = "error" => ErrorsAreStorable(sample.text)
    BY <1>1, DefinitionInputs, TasksOfRun, SuitesOfRun, PlansOfRun, ConfigsOfRun, ErrorsOfRun,
       Zenon
  <2> QED BY <2>1 DEF DefinitionsLoad, DefinitionsAreSound
<1> QED BY <1>1, InputsOnly, PTL

-----------------------------------------------------------------------------
(* Records that are made: outcomes, commits and battles.                  *)

(* Whatever a process leaves, killed at its deadline with no exit code or  *)
(* ended with any or none, each outcome that is made of it is a valid      *)
(* record, and one is a success only when the process exited with 0        *)
(* (core/result.rs, runner/orchestration.rs).                              *)
THEOREM OutcomesAreKept ==
  ASSUME NEW process, process.timed_out \in BOOLEAN, process.exit_code \in Optional(Int),
         process.timed_out => process.exit_code = <<>>
  PROVE  OutcomesAreRecordable(process)
PROOF
<1> DEFINE none == <<>>
           exit == process.exit_code
           late == process.timed_out
           Good(outcome) == /\ OutcomeValid(outcome)
                            /\ outcome.success => exit = <<0>> /\ outcome.error = none
<1>1. /\ Usable("c") /\ NotBlank("command timed out") /\ NotBlank("agent timed out")
      /\ NotBlank("no such file")
  BY DEF Usable, NotBlank, Blank, WithNul
<1>2. DOMAIN none = {} /\ (\A text : \A i \in DOMAIN <<text>> : <<text>>[i] = text) /\ <<0>> # none
  OBVIOUS
<1>3. \A i \in DOMAIN exit : exit = <<exit[i]>>
  BY DEF Optional
<1>4. late \in BOOLEAN /\ (late => exit = none)
  OBVIOUS
<1> HIDE DEF none, exit, late
<1>5. Present(none, NotBlank) /\ \A text : NotBlank(text) => Present(<<text>>, NotBlank)
  BY <1>2, Zenon DEF Present
<1>6. ASSUME NEW success \in BOOLEAN, NEW code, NEW timedOut \in BOOLEAN, NEW error,
             success => code = << 0 >> /\ ~timedOut /\ error = none /\ exit = << 0 >>,
             timedOut => code = none, Present(error, NotBlank)
      PROVE  Good(Outcome("c", success, code, timedOut, error))
  <2> DEFINE made == Outcome("c", success, code, timedOut, error)
  <2>1. /\ made.command = "c" /\ made.success = success /\ made.exit_code = code
        /\ made.timed_out = timedOut /\ made.error = error
    BY DEF Outcome
  <2> HIDE DEF made
  <2>2. Good(made)
    BY <1>1, <1>6, <2>1 DEF OutcomeValid, none
  <2> QED BY <2>2 DEF made
<1> DEFINE success == ~late /\ exit = <<0>>
<1>7. ASSUME NEW text, NotBlank(text)
      PROVE  Good(Outcome("c", success, exit, late, IF late THEN <<text>> ELSE none))
  <2> DEFINE error == IF late THEN <<text>> ELSE none
  <2>1. Present(error, NotBlank)
    <3>1. CASE late
      BY <1>5, <1>7, <3>1
    <3>2. CASE ~late
      BY <1>5, <3>2
    <3> QED BY <3>1, <3>2
  <2>2. success => ~late /\ error = none /\ exit = <<0>>
    OBVIOUS
  <2>3. success \in BOOLEAN
    OBVIOUS
  <2> HIDE DEF error, success, Good
  <2>4. Good(Outcome("c", success, exit, late, error))
    BY <1>4, <1>6, <2>1, <2>2, <2>3
  <2> QED BY <2>4 DEF error
<1>8. Good(ProcessCommandOutcome("c", process)) /\ Good(AgentCommandOutcome("c", process))
  <2>1. /\ Good(Outcome("c", success, exit, late, IF late THEN <<"command timed out">> ELSE none))
        /\ Good(Outcome("c", success, exit, late, IF late THEN <<"agent timed out">> ELSE none))
    <3> HIDE DEF Good, success
    <3> QED BY <1>1, <1>7
  <2> HIDE DEF Good
  <2> QED BY <2>1, Zenon DEF ProcessCommandOutcome, AgentCommandOutcome, ProcessSuccess, exit, late, none
<1>9. Good(NotStarted("c", "no such file"))
  <2> HIDE DEF Good
  <2> QED BY <1>1, <1>5, <1>6 DEF NotStarted, none
<1>10. Good(TimedOut("c"))
  <2> HIDE DEF Good
  <2> QED BY <1>1, <1>5, <1>6 DEF TimedOut, none
<1>11. ASSUME NEW i \in DOMAIN exit PROVE Good(Exited("c", exit[i]))
  <2>1. exit[i] = 0 => <<exit[i]>> = <<0>> /\ exit = <<0>>
    BY <1>3
  <2>2. (exit[i] = 0) \in BOOLEAN
    OBVIOUS
  <2> DEFINE code == exit[i]
             zero == code = 0
  <2>3. zero \in BOOLEAN /\ (zero => <<code>> = <<0>> /\ exit = <<0>>)
    BY <2>1
  <2> HIDE DEF Good, code, zero
  <2>4. Good(Outcome("c", zero, <<code>>, FALSE, none))
    BY <1>5, <1>6, <2>3
  <2> QED BY <2>4, Zenon DEF Exited, code, zero, none
<1> HIDE DEF Good
<1>12. \A outcome \in {ProcessCommandOutcome("c", process), AgentCommandOutcome("c", process),
                       NotStarted("c", "no such file"), TimedOut("c")}
                      \cup {Exited("c", exit[i]) : i \in DOMAIN exit} : Good(outcome)
  BY <1>8, <1>9, <1>10, <1>11
<1> QED BY <1>12, Zenon DEF OutcomesAreRecordable, Good, exit, none

(* What ends a line.                                                      *)
LineEnds == {"\n", "\r"}

(* Where the text before them ends.                                       *)
TextEnd(text) == Max({i \in DOMAIN text : text[i] \notin LineEnds} \cup {0})

(* The text is cut there.                                                 *)
LEMMA TrimmedIs ==
  ASSUME NEW C, NEW text \in Seq(C)
  PROVE  /\ TrimLineEnding(text) = SubSeq(text, 1, TextEnd(text)) /\ TextEnd(text) \in 0 .. Len(text)
         /\ TextEnd(text) > 0 => text[TextEnd(text)] \notin LineEnds
         /\ \A i \in 1 .. Len(text) : i > TextEnd(text) => text[i] \in LineEnds
PROOF
<1> DEFINE kept == {i \in DOMAIN text : text[i] \notin LineEnds}
           all == kept \cup {0}
<1>1. PICK n \in Nat : n = Len(text) /\ DOMAIN text = 1 .. n
  OBVIOUS
<1>2. all \in SUBSET (0 .. n) /\ all # {}
  BY <1>1
<1>3. Max(all) \in all /\ \A y \in all : y <= Max(all)
  <2> HIDE DEF all
  <2> QED BY <1>1, <1>2, MaxOfNumbers
<1>4. TextEnd(text) = Max(all)
  BY DEF TextEnd
<1>5. TrimLineEnding(text) = SubSeq(text, 1, TextEnd(text))
  BY Zenon DEF TrimLineEnding, TextEnd, LineEnds
<1>6. \A i \in 1 .. n : i \in all \/ text[i] \in LineEnds
  BY <1>1
<1>7. Max(all) \in 0 .. n /\ (Max(all) > 0 => Max(all) \in kept)
  BY <1>2, <1>3
<1>8. \A i \in kept : text[i] \notin LineEnds
  OBVIOUS
<1> HIDE DEF all, kept
<1>9. \A i \in 1 .. n : i > Max(all) => text[i] \in LineEnds
  BY <1>3, <1>6, <1>7
<1> QED BY <1>1, <1>4, <1>5, <1>7, <1>8, <1>9

(* A text is what is kept of it and line endings.                         *)
LEMMA TrimmedJoins ==
  ASSUME NEW C, NEW text \in Seq(C)
  PROVE  /\ TrimLineEnding(text) \in Seq(C)
         /\ \E ending \in Seq(LineEnds) : text = TrimLineEnding(text) \o ending
PROOF
<1>1. PICK n \in Nat : n = Len(text) /\ DOMAIN text = 1 .. n
  OBVIOUS
<1>2. PICK k \in 0 .. n : /\ TrimLineEnding(text) = SubSeq(text, 1, k)
                          /\ \A i \in 1 .. n : i > k => text[i] \in LineEnds
  BY <1>1, TrimmedIs
<1> DEFINE commit == SubSeq(text, 1, k)
           ending == [i \in 1 .. n - k |-> text[k + i]]
<1>3. commit \in Seq(C) /\ Len(commit) = k /\ \A i \in 1 .. k : commit[i] = text[i]
  BY <1>1
<1>4. ending \in Seq(LineEnds) /\ Len(ending) = n - k /\ \A i \in 1 .. n - k : ending[i] = text[k + i]
  <2>1. \A i \in 1 .. n - k : k + i \in 1 .. n /\ k + i > k
    BY <1>1
  <2>2. \A i \in 1 .. n - k : text[k + i] \in LineEnds
    BY <1>2, <2>1
  <2>3. n - k \in Nat
    BY <1>1
  <2> QED BY <2>2, <2>3
<1>5. text = commit \o ending
  <2> HIDE DEF commit, ending
  <2> DEFINE D == C \cup LineEnds
  <2>1. commit \in Seq(D) /\ ending \in Seq(D) /\ text \in Seq(D)
    BY <1>3, <1>4, SeqMonotonic
  <2> HIDE DEF D
  <2> DEFINE whole == commit \o ending
  <2>2. /\ whole \in Seq(D) /\ Len(whole) = n
        /\ \A i \in 1 .. k : whole[i] = commit[i]
        /\ \A i \in 1 .. n - k : whole[k + i] = ending[i]
    <3>1. /\ whole \in Seq(D) /\ Len(whole) = Len(commit) + Len(ending)
          /\ \A i \in 1 .. Len(commit) : whole[i] = commit[i]
          /\ \A i \in 1 .. Len(ending) : whole[Len(commit) + i] = ending[i]
      BY <2>1, JoinFacts
    <3> HIDE DEF whole
    <3> QED BY <1>1, <1>3, <1>4, <3>1
  <2> HIDE DEF whole
  <2>3. \A i \in 1 .. n : whole[i] = text[i]
    <3> TAKE i \in 1 .. n
    <3>1. CASE i <= k
      BY <1>3, <2>2, <3>1
    <3>2. CASE i > k
      <4>1. i - k \in 1 .. n - k /\ k + (i - k) = i
        BY <1>1, <3>2
      <4>2. whole[k + (i - k)] = ending[i - k] /\ ending[i - k] = text[k + (i - k)]
        BY <1>4, <2>2, <4>1
      <4> QED BY <4>1, <4>2
    <3> QED BY <1>1, <3>1, <3>2
  <2>4. whole = text
    BY <1>1, <2>1, <2>2, <2>3, SameSequence
  <2> QED BY <2>4 DEF whole
<1> HIDE DEF commit, ending
<1>6. TrimLineEnding(text) = commit
  BY <1>2 DEF commit
<1> QED BY <1>3, <1>4, <1>5, <1>6

(* Whatever line endings follow, the same is kept.                        *)
LEMMA TrimmedSame ==
  ASSUME NEW C, NEW text \in Seq(C), NEW ending \in Seq(LineEnds),
         text # <<>> => text[Len(text)] \notin LineEnds
  PROVE  TrimLineEnding(text \o ending) = text
PROOF
<1>1. PICK n \in Nat : n = Len(text) /\ DOMAIN text = 1 .. n
  OBVIOUS
<1>2. PICK m \in Nat : m = Len(ending) /\ DOMAIN ending = 1 .. m
  OBVIOUS
<1> DEFINE whole == text \o ending
           D == C \cup LineEnds
<1>3. whole \in Seq(D) /\ Len(whole) = n + m
  <2>1. text \in Seq(D) /\ ending \in Seq(D)
    BY SeqMonotonic
  <2> QED BY <1>1, <1>2, <2>1
<1>4. /\ \A i \in 1 .. n : whole[i] = text[i]
      /\ \A i \in n + 1 .. n + m : whole[i] \in LineEnds
  <2>1. \A i \in 1 .. n : whole[i] = text[i]
    BY <1>1, <1>2
  <2>2. ASSUME NEW i \in n + 1 .. n + m PROVE whole[i] \in LineEnds
    <3>1. i - n \in 1 .. m /\ whole[i] = ending[i - n]
      BY <1>1, <1>2
    <3> QED BY <1>2, <3>1
  <2> QED BY <2>1, <2>2
<1> HIDE DEF whole, D
<1>5. PICK k \in 0 .. n + m : /\ TrimLineEnding(whole) = SubSeq(whole, 1, k)
                              /\ k > 0 => whole[k] \notin LineEnds
                              /\ \A i \in 1 .. n + m : i > k => whole[i] \in LineEnds
  BY <1>3, TrimmedIs
<1>6. k = n
  <2>1. ~ k > n
    BY <1>1, <1>2, <1>4, <1>5
  <2>2. ~ n > k
    <3> SUFFICES ASSUME n > k PROVE FALSE
      OBVIOUS
    <3>1. n \in 1 .. n + m /\ n > 0 /\ n \in 1 .. n
      BY <1>1, <1>2, <1>5
    <3>2. whole[n] \in LineEnds /\ whole[n] = text[n]
      BY <1>4, <1>5, <3>1
    <3>3. text # <<>>
      BY <1>1, <3>1
    <3> QED BY <1>1, <3>2, <3>3
  <2> QED BY <1>1, <1>2, <1>5, <2>1, <2>2
<1>7. SubSeq(whole, 1, n) = text
  <2>1. SubSeq(whole, 1, n) \in Seq(D) /\ Len(SubSeq(whole, 1, n)) = n
    BY <1>1, <1>2, <1>3
  <2>2. \A i \in 1 .. n : SubSeq(whole, 1, n)[i] = text[i]
    BY <1>1, <1>2, <1>3, <1>4
  <2>3. text \in Seq(D)
    BY SeqMonotonic DEF D
  <2> QED BY <1>1, <2>1, <2>2, <2>3
<1> QED BY <1>5, <1>6, <1>7 DEF whole

(* What Git answered is taken as a commit when it is an object ID and      *)
(* nothing but line endings behind it, whatever endings: the commit is a   *)
(* valid identity with any fingerprint that is one, no part of an answer   *)
(* is cut off but line endings, and every object ID is taken as it stands  *)
(* (git/lib.rs, resolve_commit; core/result.rs).                           *)
THEOREM CommitsAreWhole ==
  ASSUME NEW C, NEW output \in Seq(C), NEW revision, NEW succeeds \in BOOLEAN,
         HexDigits \cap LineEnds = {}
  PROVE  LET commit == TrimLineEnding(output)
             asked  == succeeds /\ revision # <<>> /\ revision[1] # "-"
             Answer(text) == ResolveCommit(revision, succeeds, text)
         IN  /\ Answer(output) = "ok" =>
                  /\ asked
                  /\ \A digest : Len(digest) = DigestLength /\ Hex(digest) =>
                       IdentityValid([repository_commit |-> commit, task_fingerprint |-> digest])
             /\ \E ending \in Seq(LineEnds) : output = commit \o ending
             /\ \A ending \in Seq(LineEnds) : Answer(commit \o ending) = Answer(output)
             /\ asked /\ Len(output) \in OidLengths /\ Hex(output) =>
                  Answer(output) = "ok" /\ commit = output
PROOF
<1> DEFINE commit == TrimLineEnding(output)
           asked  == succeeds /\ revision # <<>> /\ revision[1] # "-"
           Answer(text) == ResolveCommit(revision, succeeds, text)
<1>1. commit \in Seq(C) /\ \E ending \in Seq(LineEnds) : output = commit \o ending
  BY TrimmedJoins
<1>2. commit # <<>> => commit[Len(commit)] \notin LineEnds
  <2>1. PICK k \in 0 .. Len(output) : commit = SubSeq(output, 1, k) /\ (k > 0 => output[k] \notin LineEnds)
    BY TrimmedIs
  <2>2. Len(commit) = k /\ \A i \in 1 .. k : commit[i] = output[i]
    BY <2>1
  <2> HIDE DEF commit
  <2>3. commit # <<>> => k > 0 /\ k \in 1 .. k
    BY <1>1, <2>1, <2>2
  <2> QED BY <2>1, <2>2, <2>3
<1>3. \A text : Answer(text) = IF ~asked THEN "InvalidRevision"
                               ELSE IF Len(TrimLineEnding(text)) \in OidLengths /\ Hex(TrimLineEnding(text))
                                    THEN "ok" ELSE "Parse"
  BY Zenon DEF ResolveCommit, Hex
<1>4. \A ending \in Seq(LineEnds) : TrimLineEnding(commit \o ending) = commit
  <2> HIDE DEF commit
  <2> QED BY <1>1, <1>2, TrimmedSame
<1>5. \A ending \in Seq(LineEnds) : Answer(commit \o ending) = Answer(output)
  <2> HIDE DEF asked, Answer
  <2> QED BY <1>3, <1>4, Zenon
<1>6. ASSUME Answer(output) = "ok"
      PROVE  /\ asked
             /\ \A digest : Len(digest) = DigestLength /\ Hex(digest) =>
                  IdentityValid([repository_commit |-> commit, task_fingerprint |-> digest])
  <2>1. asked /\ Len(commit) \in OidLengths /\ Hex(commit)
    <3> HIDE DEF asked, Answer
    <3> QED BY <1>3, <1>6
  <2> HIDE DEF asked, commit
  <2> QED BY <2>1 DEF IdentityValid
<1>7. ASSUME asked, Len(output) \in OidLengths, Hex(output) PROVE Answer(output) = "ok" /\ commit = output
  <2>1. output # <<>> => output[Len(output)] \notin LineEnds
    BY <1>7 DEF Hex
  <2> DEFINE none == <<>>
  <2>2. none \in Seq(LineEnds) /\ output \o none = output
    <3>1. none \in Seq(LineEnds) /\ none \in Seq(C) /\ Len(none) = 0
      OBVIOUS
    <3> HIDE DEF none
    <3>2. /\ output \o none \in Seq(C) /\ Len(output \o none) = Len(output)
          /\ \A i \in 1 .. Len(output) : (output \o none)[i] = output[i]
      BY <3>1
    <3> QED BY <3>1, <3>2
  <2> HIDE DEF none
  <2>3. TrimLineEnding(output) = output
    <3>1. TrimLineEnding(output \o none) = output
      BY <2>1, <2>2, TrimmedSame
    <3> QED BY <2>2, <3>1
  <2> HIDE DEF asked, Answer
  <2> QED BY <1>3, <1>7, <2>3
<1> HIDE DEF commit, asked, Answer
<1>8. /\ Answer(output) = "ok" =>
           /\ asked
           /\ \A digest : Len(digest) = DigestLength /\ Hex(digest) =>
                IdentityValid([repository_commit |-> commit, task_fingerprint |-> digest])
      /\ asked /\ Len(output) \in OidLengths /\ Hex(output) =>
           Answer(output) = "ok" /\ commit = output
  BY <1>6, <1>7
<1> QED BY <1>1, <1>5, <1>8, Zenon DEF commit, asked, Answer

(* What run_group answered for an agent: an error that says something, or  *)
(* the results it ran.                                                    *)
Answered(execution) == execution.error = <<>> \/ \E text : NotBlank(text) /\ execution.error = <<text>>

(* An agent of a battle won its place without a fault.                    *)
RanClean(execution, base) ==
  /\ execution.error = <<>> /\ execution.commit = base
  /\ \A j \in DOMAIN execution.results : execution.results[j].success

(* What an entry says of an agent.                                        *)
EntrySays(entry, id, execution, base) ==
  /\ entry.agent_id = id /\ Present(entry.error, NotBlank)
  /\ entry.error = <<>> <=> RanClean(execution, base)

(* The entry of one agent.                                                *)
LEMMA EntryOfBattle ==
  ASSUME NEW id, NEW execution, NEW base, Answered(execution)
  PROVE  EntrySays(BattleEntry(id, execution, base), id, execution, base)
PROOF
<1> DEFINE entry == BattleEntry(id, execution, base)
           none == <<>>
           moved == <<"base commit changed during battle">>
           failed == <<"one or more runs failed">>
           lost == \E i \in DOMAIN execution.results : ~execution.results[i].success
           fault == IF execution.commit # base THEN moved ELSE IF lost THEN failed ELSE none
<1>1. NotBlank("base commit changed during battle") /\ NotBlank("one or more runs failed")
  BY DEF NotBlank, Blank
<1>2. DOMAIN none = {} /\ (\A text : <<text>> # none /\ \A i \in DOMAIN <<text>> : <<text>>[i] = text)
  OBVIOUS
<1>3. /\ entry.agent_id = id
      /\ entry.error = IF execution.error # none THEN execution.error ELSE fault
  BY DEF BattleEntry
<1> HIDE DEF none, entry
<1>4. Present(none, NotBlank) /\ \A text : NotBlank(text) => Present(<<text>>, NotBlank)
  BY <1>2, Zenon DEF Present
<1>5. Present(moved, NotBlank) /\ Present(failed, NotBlank) /\ moved # none /\ failed # none
  BY <1>1, <1>2, <1>4, Zenon
<1> HIDE DEF moved, failed
<1>6. execution.error = none \/ (execution.error # none /\ Present(execution.error, NotBlank))
  BY <1>2, <1>4, Zenon DEF Answered, none
<1>7. Present(entry.error, NotBlank)
  <2>1. Present(fault, NotBlank)
    BY <1>4, <1>5
  <2> HIDE DEF fault
  <2> QED BY <1>3, <1>6, <2>1
<1>8. fault = none <=> execution.commit = base /\ ~lost
  BY <1>5
<1>9. entry.error = none <=> execution.error = none /\ execution.commit = base /\ ~lost
  <2> HIDE DEF fault, lost
  <2> QED BY <1>3, <1>8
<1>10. entry.error = none <=> RanClean(execution, base)
  BY <1>9, Zenon DEF RanClean, none
<1>11. EntrySays(entry, id, execution, base)
  BY <1>3, <1>7, <1>10, Zenon DEF EntrySays, none
<1>12. EntrySays(BattleEntry(id, execution, base), id, execution, base)
  BY <1>11, Zenon DEF entry
<1> QED BY <1>12

(* A battle, whatever its agents' groups came to, can be recorded exactly  *)
(* when it could start, and it exits with 0 exactly when every agent ran   *)
(* its group to the end, on the base commit, with every run a success: a   *)
(* group that moved off the base or was aborted never passes for a clean   *)
(* one (cli/commands.rs, battle_command; core/result.rs).                  *)
THEOREM BattlesAreKept ==
  ASSUME NEW A, NEW agents \in Seq(A), NEW known, ToSet(agents) \subseteq known,
         \A id \in known : AgentValid(id),
         NEW executions, \A i \in DOMAIN agents : Answered(executions[i]),
         NEW version, NotBlank(version), NEW repeat \in Nat \ {0},
         NEW base, Len(base) \in OidLengths, Hex(base)
  PROVE  LET battle ==
               [patcharena_version |-> version, repeat |-> repeat, base_commit |-> base,
                agents |-> [i \in DOMAIN agents |-> BattleEntry(agents[i], executions[i], base)]]
         IN  /\ BattleValid(battle) <=> BattleStarts(agents, known)
             /\ ExitForBattle(battle) = 0 <=> \A i \in DOMAIN agents : RanClean(executions[i], base)
PROOF
<1> DEFINE entries == [i \in DOMAIN agents |-> BattleEntry(agents[i], executions[i], base)]
           battle == [patcharena_version |-> version, repeat |-> repeat, base_commit |-> base,
                      agents |-> entries]
<1>1. PICK n \in Nat : n = Len(agents) /\ DOMAIN agents = 1 .. n
  OBVIOUS
<1>2. DOMAIN entries = 1 .. n /\ \A i \in 1 .. n : entries[i] = BattleEntry(agents[i], executions[i], base)
  BY <1>1
<1>3. /\ battle.patcharena_version = version /\ battle.repeat = repeat /\ battle.base_commit = base
      /\ battle.agents = entries
  OBVIOUS
<1>4. entries = <<>> <=> agents = <<>>
  <2>1. entries = <<>> <=> n = 0
    BY <1>1, <1>2
  <2> QED BY <1>1, <2>1
<1> HIDE DEF entries, battle
<1>5. \A i \in 1 .. n : /\ entries[i].agent_id = agents[i] /\ Present(entries[i].error, NotBlank)
                        /\ entries[i].error = <<>> <=> RanClean(executions[i], base)
  <2> TAKE i \in 1 .. n
  <2>1. EntrySays(BattleEntry(agents[i], executions[i], base), agents[i], executions[i], base)
    BY <1>1, EntryOfBattle
  <2>2. EntrySays(entries[i], agents[i], executions[i], base)
    BY <1>2, <2>1
  <2> QED BY <2>2, Zenon DEF EntrySays
<1>6. \A i \in 1 .. n : AgentValid(agents[i])
  <2>1. \A i \in 1 .. n : agents[i] \in known
    BY <1>1, ListsOf
  <2> QED BY <2>1
<1>7. BattleValid(battle) <=>
        agents # <<>> /\ \A i \in 1 .. n : \A j \in 1 .. i - 1 : agents[j] # agents[i]
  <2>1. \A i \in 1 .. n : \A j \in 1 .. i - 1 : j \in 1 .. n
    BY <1>1
  <2>2. \A i \in 1 .. n : \A j \in 1 .. i - 1 :
          entries[j].agent_id # entries[i].agent_id <=> agents[j] # agents[i]
    BY <1>5, <2>1
  <2>3. NotBlank(version) /\ repeat > 0 /\ Len(base) \in OidLengths /\ Hex(base)
    OBVIOUS
  <2> QED BY <1>2, <1>3, <1>4, <1>5, <1>6, <2>2, <2>3 DEF BattleValid
<1>8. (\A i \in 1 .. n : \A j \in 1 .. i - 1 : agents[j] # agents[i]) <=> Distinct(agents)
  <2>1. Distinct(agents) <=> \A i, j \in 1 .. n : agents[i] = agents[j] => i = j
    BY <1>1, DistinctIs
  <2>2. ASSUME \A i \in 1 .. n : \A j \in 1 .. i - 1 : agents[j] # agents[i], NEW i \in 1 .. n, NEW j \in 1 .. n,
               agents[i] = agents[j]
        PROVE  i = j
    <3>1. ~ j < i /\ ~ i < j
      BY <1>1, <2>2
    <3> QED BY <1>1, <3>1
  <2>3. ASSUME \A i, j \in 1 .. n : agents[i] = agents[j] => i = j, NEW i \in 1 .. n, NEW j \in 1 .. i - 1
        PROVE  agents[j] # agents[i]
    <3>1. j \in 1 .. n /\ j # i
      BY <1>1
    <3> QED BY <2>3, <3>1
  <2> QED BY <2>1, <2>2, <2>3
<1>9. BattleStarts(agents, known) <=> agents # <<>> /\ Distinct(agents)
  BY DEF BattleStarts, Distinct
<1>10. ExitForBattle(battle) = 0 <=> \A i \in 1 .. n : RanClean(executions[i], base)
  BY <1>2, <1>3, <1>5 DEF ExitForBattle
<1> QED BY <1>1, <1>7, <1>8, <1>9, <1>10, Zenon DEF battle, entries

-----------------------------------------------------------------------------
(* Suite reports: what a group's report says, how the cells of an agent    *)
(* are counted, and what the exit code tells.                             *)

(* A report of a group whose results core accepted.                       *)
ReportOfRuns(R, report) ==
  \E group : \E results \in Seq(R) :
    /\ RunsDiffer(group) /\ Summarize(group, results).ok
    /\ report = GroupReport(group, results)

(* What is counted in it.                                                 *)
RunsCounted(report) ==
  /\ report.run_count \in Nat /\ report.successes \in 0 .. report.run_count
  /\ report.successes = report.run_count <=> \A r \in DOMAIN report.runs : report.runs[r].success
  /\ report.successes = report.run_count => report.verification_failures = 0 /\ report.violations = 0

(* A group's report counts its runs, and tells whether all have passed.   *)
LEMMA GroupsAreCounted ==
  ASSUME NEW R, NEW O, NEW V, ResultSet(R, O, V), NEW report, ReportOfRuns(R, report)
  PROVE  RunsCounted(report)
PROOF
<1>1. PICK group : \E results \in Seq(R) :
        Summarize(group, results).ok /\ report = GroupReport(group, results)
  BY DEF ReportOfRuns
<1> PICK results \in Seq(R) : Summarize(group, results).ok /\ report = GroupReport(group, results)
  BY <1>1
<1>2. Accepts(group, results)
  <2>1. ~Accepts(group, results) => Summarize(group, results) = NotASummary
    BY SummarizeIs
  <2> QED BY <2>1 DEF NotASummary
<1>3. \A i \in DOMAIN results : RunResultValid(results[i])
  BY <1>2 DEF Accepts, Belongs
<1> DEFINE details == Each(results, RunDetail)
           all == Gathered(R, results)
           passed == \A i \in DOMAIN results : results[i].success
<1>4. report.runs \in Reordered(details) /\ \A field \in Aggregated : report[field] = all[field]
  <2>1. LET r == GroupReport(group, results)
        IN  /\ r.runs \in Reordered(details)
            /\ \A field \in Aggregated : r[field] = Gathered(R, results)[field]
            /\ \A field \in DOMAIN Aggregates(r.runs) : r[field] = Aggregates(r.runs)[field]
    BY ReportIsGathered
  <2> QED BY <2>1
<1>5. /\ all.successes = Len(results) <=> passed
      /\ passed => all.verification_failures = 0 /\ all.violations = 0
  BY <1>3, SuccessesAreGathered
<1>6. all.run_count = Len(results) /\ all.successes \in 0 .. Len(results)
  <2> DEFINE bits == Images(SuccessOf(R), results)
  <2>1. bits \in Seq({0, 1}) /\ Len(bits) = Len(results)
    <3>1. SuccessOf(R) \in [R -> {0, 1}]
      BY DEF SuccessOf
    <3> QED BY <3>1 DEF Images
  <2>2. Total(bits) \in 0 .. Len(bits)
    <3> HIDE DEF bits
    <3>1. Total(bits) \in Nat /\ Total(bits) <= Len(bits)
      BY <2>1, BitsAreCounted
    <3>2. Len(bits) \in Nat
      BY <2>1
    <3> QED BY <3>1, <3>2
  <2>3. all.run_count = Len(results) /\ all.successes = Total(bits)
    BY DEF Gathered
  <2> HIDE DEF all, bits
  <2> QED BY <2>1, <2>2, <2>3
<1>7. /\ report.run_count = all.run_count /\ report.successes = all.successes
      /\ report.verification_failures = all.verification_failures /\ report.violations = all.violations
  <2>1. {"run_count", "successes", "verification_failures", "violations"} \subseteq Aggregated
    BY DEF Aggregated
  <2> HIDE DEF all
  <2>2. /\ report["run_count"] = all["run_count"] /\ report["successes"] = all["successes"]
        /\ report["verification_failures"] = all["verification_failures"]
        /\ report["violations"] = all["violations"]
    BY <1>4, <2>1
  <2> QED BY <2>2
<1>8. passed <=> \A r \in DOMAIN report.runs : report.runs[r].success
  <2>1. PICK n \in Nat : n = Len(results) /\ DOMAIN results = 1 .. n
    OBVIOUS
  <2>2. details = [i \in 1 .. n |-> RunDetail(results[i])] /\ DOMAIN details = 1 .. n
    BY <2>1 DEF Each
  <2>3. \A i \in 1 .. n : details[i].success = results[i].success
    <3>1. \A r : RunDetail(r).success = r.success
      BY DEF RunDetail
    <3> QED BY <2>2, <3>1
  <2> HIDE DEF details
  <2>4. PICK order \in Orders(details) : report.runs = [i \in DOMAIN details |-> details[order[i]]]
    BY <1>4 DEF Reordered
  <2>5. order \in [1 .. n -> 1 .. n] /\ \A i \in 1 .. n : \E k \in 1 .. n : order[k] = i
    <3>1. order \in [1 .. n -> 1 .. n] /\ IsInjective(order)
      BY <2>2, <2>4 DEF Orders
    <3> QED BY <3>1, OrdersAreOnto
  <2>6. DOMAIN report.runs = 1 .. n /\ \A k \in 1 .. n : report.runs[k] = details[order[k]]
    BY <2>2, <2>4
  <2>7. \A k \in 1 .. n : order[k] \in 1 .. n /\ report.runs[k].success = results[order[k]].success
    BY <2>3, <2>5, <2>6
  <2>8. ASSUME passed PROVE \A r \in DOMAIN report.runs : report.runs[r].success
    BY <2>1, <2>6, <2>7, <2>8
  <2>9. ASSUME \A r \in DOMAIN report.runs : report.runs[r].success PROVE passed
    <3> SUFFICES ASSUME NEW i \in 1 .. n PROVE results[i].success
      BY <2>1
    <3>1. PICK k \in 1 .. n : order[k] = i
      BY <2>5
    <3>2. report.runs[k].success = results[order[k]].success
      BY <2>7
    <3>3. report.runs[k].success
      BY <2>6, <2>9
    <3> QED BY <3>1, <3>2, <3>3
  <2> QED BY <2>8, <2>9
<1> HIDE DEF all, passed
<1> QED BY <1>5, <1>6, <1>7, <1>8 DEF RunsCounted

(* What is left out is told by the elements there are.                    *)
LEMMA WithoutSame ==
  ASSUME NEW B, NEW D, NEW E, \A b \in B : b \in D <=> b \in E, NEW seq \in Seq(B)
  PROVE  Without(seq, D) = Without(seq, E)
PROOF
<1> DEFINE T == {s \in Seq(B) : Without(s, D) = Without(s, E)}
<1>1. <<>> \in T
  <2> DEFINE nil == <<>>
  <2>1. nil \in Seq(B) /\ Without(nil, D) = nil /\ Without(nil, E) = nil
    BY NoParts
  <2> HIDE DEF nil
  <2> QED BY <2>1 DEF nil
<1>2. ASSUME NEW s \in Seq(B), NEW b \in B, s \in T PROVE Append(s, b) \in T
  <2>1. Append(s, b) \in Seq(B)
    OBVIOUS
  <2>2. Without(Append(s, b), D) = IF b \in D THEN Without(s, D) ELSE Append(Without(s, D), b)
    BY PartsGrow
  <2>3. Without(Append(s, b), E) = IF b \in E THEN Without(s, E) ELSE Append(Without(s, E), b)
    BY PartsGrow
  <2> QED BY <1>2, <2>1, <2>2, <2>3
<1>3. Seq(B) \subseteq T
  <2> HIDE DEF T
  <2>1. <<>> \in T /\ \A s \in Seq(B), b \in B : s \in T => Append(s, b) \in T
    BY <1>1, <1>2
  <2> QED BY <2>1, SequenceInduction
<1> QED BY <1>3

(* As many are left as there are places of what is not left out.          *)
LEMMA LeftAreCounted ==
  ASSUME NEW B, NEW D, NEW seq \in Seq(B)
  PROVE  Len(Without(seq, D)) = Cardinality({i \in DOMAIN seq : seq[i] \notin D})
PROOF
<1> DEFINE Left(s) == {i \in DOMAIN s : s[i] \notin D}
           T == {s \in Seq(B) : IsFiniteSet(Left(s)) /\ Len(Without(s, D)) = Cardinality(Left(s))}
<1>1. <<>> \in T
  <2> DEFINE nil == <<>>
  <2>1. nil \in Seq(B) /\ Without(nil, D) = nil /\ Len(nil) = 0
    BY NoParts
  <2>2. Left(nil) = {}
    OBVIOUS
  <2>3. IsFiniteSet({}) /\ Cardinality({}) = 0
    BY FS_EmptySet
  <2> HIDE DEF nil, Left
  <2>4. nil \in T
    BY <2>1, <2>2, <2>3
  <2> QED BY <2>4 DEF nil
<1>2. ASSUME NEW s \in Seq(B), NEW b \in B, s \in T PROVE Append(s, b) \in T
  <2> DEFINE more == Append(s, b)
             kept == Without(s, D)
  <2>1. PICK n \in Nat : n = Len(s) /\ DOMAIN s = 1 .. n
    OBVIOUS
  <2>2. more \in Seq(B) /\ DOMAIN more = 1 .. n + 1 /\ more[n + 1] = b
        /\ \A i \in 1 .. n : more[i] = s[i]
    BY <2>1
  <2>3. Without(more, D) = (IF b \in D THEN kept ELSE Append(kept, b)) /\ kept \in Seq(B)
    BY PartsGrow
  <2>4. n + 1 \notin 1 .. n /\ 1 .. n + 1 = (1 .. n) \cup {n + 1}
    OBVIOUS
  <2> HIDE DEF more
  <2>5. Left(more) = (IF b \in D THEN Left(s) ELSE Left(s) \cup {n + 1}) /\ n + 1 \notin Left(s)
    BY <2>1, <2>2, <2>4
  <2>6. IsFiniteSet(Left(s)) /\ Len(kept) = Cardinality(Left(s))
    BY <1>2
  <2> HIDE DEF Left, kept
  <2>7. IsFiniteSet(Left(more)) /\ Len(Without(more, D)) = Cardinality(Left(more))
    <3>1. CASE b \in D
      BY <2>3, <2>5, <2>6, <3>1
    <3>2. CASE b \notin D
      <4>1. IsFiniteSet(Left(s) \cup {n + 1}) /\ Cardinality(Left(s) \cup {n + 1}) = Cardinality(Left(s)) + 1
        BY <2>5, <2>6, FS_AddElement
      <4>2. Len(Append(kept, b)) = Len(kept) + 1
        BY <2>3
      <4> QED BY <2>3, <2>5, <2>6, <3>2, <4>1, <4>2
    <3> QED BY <3>1, <3>2
  <2> QED BY <2>2, <2>7 DEF more
<1>3. Seq(B) \subseteq T
  <2> HIDE DEF T
  <2>1. <<>> \in T /\ \A s \in Seq(B), b \in B : s \in T => Append(s, b) \in T
    BY <1>1, <1>2
  <2> QED BY <2>1, SequenceInduction
<1> QED BY <1>3

(* What is one of three is counted once: in numbers,                      *)
CountsOn(k, f, g, l, x, y, z) ==
  k + f + g = l /\ z + x + y = 1 => (k + z) + (f + x) + (g + y) = l + 1

(* always.                                                                *)
LEMMA OneOfThree == \A k, f, g, l, x, y, z \in Nat : CountsOn(k, f, g, l, x, y, z)
PROOF BY DEF CountsOn

(* F and G count one of what is in D.                                     *)
CountIn(B, D, F, G) ==
  /\ F \in [B -> Nat] /\ G \in [B -> Nat]
  /\ \A b \in B : F[b] + G[b] = IF b \in D THEN 1 ELSE 0

(* What they count is what is left out.                                   *)
LEMMA RestIsCounted ==
  ASSUME NEW B, NEW D, NEW F, NEW G, CountIn(B, D, F, G), NEW seq \in Seq(B)
  PROVE  /\ SumOver(F, seq) \in Nat /\ SumOver(G, seq) \in Nat
         /\ Len(Without(seq, D)) + SumOver(F, seq) + SumOver(G, seq) = Len(seq)
PROOF
<1> USE DEF CountIn
<1> DEFINE T == {s \in Seq(B) : /\ SumOver(F, s) \in Nat /\ SumOver(G, s) \in Nat
                                /\ Len(Without(s, D)) + SumOver(F, s) + SumOver(G, s) = Len(s)}
<1>1. <<>> \in T
  <2> DEFINE nil == <<>>
  <2>1. nil \in Seq(B) /\ Without(nil, D) = nil /\ Len(nil) = 0
    BY NoParts
  <2>2. SumOver(F, nil) = 0 /\ SumOver(G, nil) = 0
    BY SumOfNothing
  <2> HIDE DEF nil
  <2>3. nil \in T
    BY <2>1, <2>2
  <2> QED BY <2>3 DEF nil
<1>2. ASSUME NEW s \in Seq(B), NEW b \in B, s \in T PROVE Append(s, b) \in T
  <2> DEFINE more == Append(s, b)
             kept == Without(s, D)
             f == SumOver(F, s)
             g == SumOver(G, s)
  <2>1. more \in Seq(B) /\ Len(more) = Len(s) + 1 /\ Len(s) \in Nat
    OBVIOUS
  <2>2. Without(more, D) = (IF b \in D THEN kept ELSE Append(kept, b)) /\ kept \in Seq(B)
    BY PartsGrow
  <2>3. f \in Nat /\ SumOver(F, more) = f + F[b]
    BY SumGrows, ZenonT(60)
  <2>4. g \in Nat /\ SumOver(G, more) = g + G[b]
    BY SumGrows, ZenonT(60)
  <2>5. Len(kept) + f + g = Len(s)
    BY <1>2
  <2>6. F[b] \in Nat /\ G[b] \in Nat /\ F[b] + G[b] = IF b \in D THEN 1 ELSE 0
    OBVIOUS
  <2> HIDE DEF more, kept, f, g
  <2>7. Len(Without(more, D)) = Len(kept) + (IF b \in D THEN 0 ELSE 1) /\ Len(kept) \in Nat
    BY <2>2
  <2>8. SumOver(F, more) \in Nat /\ SumOver(G, more) \in Nat
    BY <2>3, <2>4, <2>6
  <2>9. Len(Without(more, D)) + SumOver(F, more) + SumOver(G, more) = Len(more)
    <3> PICK k \in Nat, l \in Nat : k = Len(kept) /\ l = Len(s)
      BY <2>1, <2>7
    <3> PICK x \in Nat, y \in Nat : x = F[b] /\ y = G[b]
      BY <2>6
    <3>1. k + f + g = l /\ f \in Nat /\ g \in Nat
      BY <2>3, <2>4, <2>5
    <3>2. SumOver(F, more) = f + x /\ SumOver(G, more) = g + y
      BY <2>3, <2>4
    <3>3. Len(more) = l + 1
      BY <2>1
    <3>4. PICK z \in Nat : Len(Without(more, D)) = k + z /\ z + x + y = 1
      <4>1. CASE b \in D
        <5>1. Len(Without(more, D)) = k + 0 /\ x + y = 1
          BY <2>6, <2>7, <4>1
        <5> QED BY <5>1
      <4>2. CASE b \notin D
        <5>1. Len(Without(more, D)) = k + 1 /\ x + y = 0
          BY <2>6, <2>7, <4>2
        <5>2. 1 + x + y = 1
          BY <5>1
        <5> QED BY <5>1, <5>2
      <4> QED BY <4>1, <4>2
    <3>5. (k + z) + (f + x) + (g + y) = l + 1
      <4>1. CountsOn(k, f, g, l, x, y, z)
        BY <3>1, OneOfThree
      <4> QED BY <3>1, <3>4, <4>1 DEF CountsOn
    <3> QED BY <3>2, <3>3, <3>4, <3>5
  <2> QED BY <2>1, <2>8, <2>9 DEF more
<1>3. Seq(B) \subseteq T
  <2> HIDE DEF T
  <2>1. <<>> \in T /\ \A s \in Seq(B), b \in B : s \in T => Append(s, b) \in T
    BY <1>1, <1>2
  <2> QED BY <2>1, SequenceInduction
<1> QED BY <1>3

(* One number more to add up.                                             *)
LEMMA OneTimeMore ==
  \A n, m \in Nat : (n + 1) * m = n * m + m /\ 0 * m = 0 /\ n * m \in Nat
PROOF OBVIOUS

(* G counts the same number for every entry, and F no more than that.     *)
TimesIn(B, n, F, G) ==
  n \in Nat /\ F \in [B -> Nat] /\ G \in [B -> Nat] /\ \A b \in B : F[b] <= n /\ G[b] = n

(* The sum over F is a number, at most the one over G: so many times n.   *)
TimesOver(seq, n, F, G) ==
  SumOver(F, seq) \in Nat /\ SumOver(F, seq) <= SumOver(G, seq) /\ SumOver(G, seq) = Len(seq) * n

(* Sums of the same number, and of numbers not above it.                  *)
LEMMA TimesAreCounted ==
  ASSUME NEW B, NEW n, NEW F, NEW G, TimesIn(B, n, F, G), NEW seq \in Seq(B)
  PROVE  TimesOver(seq, n, F, G)
PROOF
<1>0. /\ n \in Nat /\ F \in [B -> Nat] /\ G \in [B -> Nat]
      /\ \A b \in B : F[b] <= n /\ G[b] = n
  BY DEF TimesIn
<1> DEFINE T == {s \in Seq(B) : /\ SumOver(F, s) \in Nat /\ SumOver(F, s) <= SumOver(G, s)
                                /\ SumOver(G, s) = Len(s) * n}
<1>1. <<>> \in T
  <2> DEFINE nil == <<>>
  <2>1. nil \in Seq(B) /\ Len(nil) = 0
    OBVIOUS
  <2>2. SumOver(F, nil) = 0 /\ SumOver(G, nil) = 0
    BY SumOfNothing
  <2> HIDE DEF nil
  <2>3. nil \in T
    BY <1>0, <2>1, <2>2, OneTimeMore
  <2> QED BY <2>3 DEF nil
<1>2. ASSUME NEW s \in Seq(B), NEW b \in B, s \in T PROVE Append(s, b) \in T
  <2> DEFINE more == Append(s, b)
             f == SumOver(F, s)
             g == SumOver(G, s)
  <2>1. PICK k \in Nat : k = Len(s)
    OBVIOUS
  <2>2. more \in Seq(B) /\ Len(more) = k + 1
    BY <2>1
  <2>3. f \in Nat /\ SumOver(F, more) = f + F[b]
    BY <1>0, SumGrows
  <2>4. g \in Nat /\ SumOver(G, more) = g + G[b]
    BY <1>0, SumGrows
  <2>5. f <= g /\ g = k * n
    BY <1>2, <2>1
  <2>6. F[b] \in Nat /\ F[b] <= n /\ G[b] = n
    BY <1>0
  <2>7. n \in Nat /\ (k + 1) * n = k * n + n
    BY <1>0, <2>1, OneTimeMore
  <2> HIDE DEF more, f, g
  <2>8. SumOver(F, more) \in Nat /\ SumOver(F, more) <= SumOver(G, more)
        /\ SumOver(G, more) = Len(more) * n
    BY <2>2, <2>3, <2>4, <2>5, <2>6, <2>7
  <2> QED BY <2>2, <2>8 DEF more
<1>3. Seq(B) \subseteq T
  <2> HIDE DEF T
  <2>1. <<>> \in T /\ \A s \in Seq(B), b \in B : s \in T => Append(s, b) \in T
    BY <1>1, <1>2
  <2> QED BY <2>1, SequenceInduction
<1> QED BY <1>3 DEF TimesOver

(* Rates are pairs of numbers.                                            *)
Rate == Nat \X Nat

RateStep == [p \in Rate \X Rate |-> AddRates(p[1], p[2])]

(* Adding rates gives a rate.                                             *)
LEMMA RateStepsClosed ==
  /\ <<0, 1>> \in Rate
  /\ RateStep \in [Rate \X Rate -> Rate]
  /\ \A x, y \in Rate : RateStep[<<x, y>>] = AddRates(x, y)
PROOF
<1>1. \A x, y \in Rate : AddRates(x, y) \in Rate
  <2>1. \A a, b, c, d \in Nat : a * d + c * b \in Nat /\ b * d \in Nat
    OBVIOUS
  <2> QED BY <2>1 DEF AddRates, Rate
<1>2. \A p \in Rate \X Rate : p[1] \in Rate /\ p[2] \in Rate
  OBVIOUS
<1>3. RateStep \in [Rate \X Rate -> Rate]
  BY <1>1, <1>2 DEF RateStep
<1>4. \A x, y \in Rate : RateStep[<<x, y>>] = AddRates(x, y)
  BY DEF RateStep
<1> QED BY <1>3, <1>4 DEF Rate

(* The rates of a list, added up.                                         *)
RateSum(rates) == FoldLeft(AddRates, <<0, 1>>, rates)

(* Rates are added one after the other.                                   *)
LEMMA RateSteps ==
  ASSUME NEW seq \in Seq(Rate)
  PROVE  Stepped(Rate, RateStep, <<0, 1>>, seq, RateSum(seq))
PROOF
<1> DEFINE none == <<0, 1>>
           op == RateStep
           P(h) == h = [s \in SUBSET DOMAIN seq |->
                          IF s = {} THEN none ELSE AddRates(h[s \ {Max(s)}], seq[Max(s)])]
           g == CHOOSE h : P(h)
<1>1. none \in Rate /\ op \in [Rate \X Rate -> Rate]
      /\ \A x \in Rate, y \in Rate : op[<<x, y>>] = AddRates(x, y)
  BY RateStepsClosed
<1>2. P(g)
  <2>1. PICK f \in [SUBSET DOMAIN seq -> Rate] : Folds(f, op, none, seq)
    <3> HIDE DEF op, P, none
    <3> QED BY <1>1, FoldDefined
  <2>2. ASSUME NEW s \in SUBSET DOMAIN seq, s # {}
        PROVE  f[s \ {Max(s)}] \in Rate /\ seq[Max(s)] \in Rate
    <3> HIDE DEF op, P, none
    <3> QED BY <2>2, NextOfFold
  <2>3. P(f)
    <3> HIDE DEF op, none
    <3> QED BY <2>1, <2>2, <1>1 DEF Folds
  <2> HIDE DEF P
  <2> QED BY <2>3
<1>3. RateSum(seq) = g[DOMAIN seq]
  BY DEF RateSum, FoldLeft, MapThenFoldSet
<1> HIDE DEF g
<1>4. g[{}] = none
  <2> HIDE DEF op, none
  <2> QED BY <1>2
<1>5. \A s \in SUBSET DOMAIN seq :
         s # {} /\ g[s \ {Max(s)}] \in Rate /\ seq[Max(s)] \in Rate => g[s] = op[<<g[s \ {Max(s)}], seq[Max(s)]>>]
  <2> HIDE DEF op, none
  <2> QED BY <1>2, <1>1, ZenonT(60)
<1>6. \E st \in [0 .. Len(seq) -> Rate] : Steps(st, op, none, seq, g[DOMAIN seq])
  <2> HIDE DEF op, P, none
  <2> QED BY <1>1, <1>4, <1>5, FoldPrefixes, ZenonT(60)
<1> HIDE DEF P
<1> QED BY <1>3, <1>6 DEF Stepped

(* The sum of no rate, and of one rate more.                              *)
LEMMA RatesGrow ==
  ASSUME NEW s \in Seq(Rate), NEW p \in Rate
  PROVE  RateSum(s) \in Rate /\ RateSum(Append(s, p)) = AddRates(RateSum(s), p)
PROOF
<1> DEFINE op == RateStep
           base == <<0, 1>>
           more == Append(s, p)
           was == RateSum(s)
           is == RateSum(more)
<1>1. more \in Seq(Rate)
  OBVIOUS
<1>2. base \in Rate /\ op \in [Rate \X Rate -> Rate]
  BY RateStepsClosed
<1>3. Stepped(Rate, op, base, s, was)
  BY RateSteps
<1>4. Stepped(Rate, op, base, more, is)
  <2> HIDE DEF more
  <2> QED BY <1>1, RateSteps
<1>5. was \in Rate /\ is = op[<<was, p>>]
  <2>1. Grows(Rate, Rate, op, base, s, p, was, is)
    <3> HIDE DEF op, base, was, is
    <3> QED BY <1>2, <1>3, <1>4 DEF Grows
  <2> HIDE DEF op, base, was, is, more
  <2> QED BY <2>1, StepsGrow
<1>6. op[<<was, p>>] = AddRates(was, p)
  <2> HIDE DEF was
  <2> QED BY <1>5, RateStepsClosed
<1> QED BY <1>5, <1>6

(* The sum of no rate.                                                    *)
LEMMA RatesOfNothing == RateSum(<<>>) = <<0, 1>>
PROOF
<1> DEFINE nil == <<>>
           was == RateSum(nil)
           op == RateStep
           base == <<0, 1>>
<1>1. nil \in Seq(Rate) /\ nil = <<>>
  OBVIOUS
<1> HIDE DEF nil
<1>2. Stepped(Rate, op, base, nil, was)
  BY <1>1, RateSteps
<1>3. was = base
  <2>1. Stepped(Rate, op, base, <<>>, was)
    <3> HIDE DEF was, op, base
    <3> QED BY <1>1, <1>2
  <2> HIDE DEF op, base, was
  <2> QED BY <2>1, StepsStart
<1> QED BY <1>1, <1>3

(* The first number of a rate of n.                                       *)
FirstOf(n) == [p \in Nat \X {n} |-> p[1]]

(* How the sum of rates goes on, in numbers:                              *)
MeansOn(a, b, x, t, n) ==
  b > 0 /\ a * n = b * t => b * n > 0 /\ (a * n + x * b) * n = (b * n) * (t + x)

(* always.                                                                *)
LEMMA RateArithmetic ==
  ASSUME NEW a \in Nat, NEW b \in Nat, NEW x \in Nat, NEW t \in Nat, NEW n \in Nat \ {0}
  PROVE  MeansOn(a, b, x, t, n)
PROOF
<1> SUFFICES ASSUME b > 0, a * n = b * t
             PROVE  b * n > 0 /\ (a * n + x * b) * n = (b * n) * (t + x)
  BY DEF MeansOn
<1>1. b * n > 0
  OBVIOUS
<1>2. (b * t + x * b) * n = (b * n) * (t + x)
  OBVIOUS
<1> QED BY <1>1, <1>2

(* Rates of n runs each add up to their successes of n.                   *)
LEMMA RatesAreMeans ==
  ASSUME NEW n \in Nat \ {0}, NEW rates \in Seq(Nat \X {n})
  PROVE  /\ RateSum(rates) \in Rate /\ RateSum(rates)[2] > 0
         /\ RateSum(rates)[1] * n = RateSum(rates)[2] * SumOver(FirstOf(n), rates)
         /\ SumOver(FirstOf(n), rates) \in Nat
PROOF
<1> DEFINE P == Nat \X {n}
           F == FirstOf(n)
           Mean(s) == /\ RateSum(s) \in Rate /\ RateSum(s)[2] > 0
                      /\ RateSum(s)[1] * n = RateSum(s)[2] * SumOver(F, s)
                      /\ SumOver(F, s) \in Nat
           T == {s \in Seq(P) : Mean(s)}
<1>1. <<>> \in T
  <2> DEFINE nil == <<>>
  <2>1. nil \in Seq(P)
    OBVIOUS
  <2>2. RateSum(nil) = <<0, 1>>
    BY RatesOfNothing
  <2>3. SumOver(F, nil) = 0
    BY SumOfNothing
  <2>4. <<0, 1>> \in Rate /\ <<0, 1>>[1] = 0 /\ <<0, 1>>[2] = 1 /\ 0 * n = 0 /\ 1 * 0 = 0
    BY DEF Rate
  <2>5. RateSum(nil) \in Rate /\ RateSum(nil)[1] = 0 /\ RateSum(nil)[2] = 1
    BY <2>2, <2>4
  <2> HIDE DEF nil, F, P
  <2>6. Mean(nil)
    BY <2>3, <2>4, <2>5
  <2>7. nil \in T
    BY <2>1, <2>6
  <2> QED BY <2>7 DEF nil
<1>2. ASSUME NEW s \in Seq(P), NEW p \in P, s \in T PROVE Append(s, p) \in T
  <2> DEFINE more == Append(s, p)
             sum == RateSum(s)
  <2>1. more \in Seq(P)
    OBVIOUS
  <2>2. F \in [P -> Nat] /\ F[p] = p[1] /\ p[1] \in Nat /\ p[2] = n
    BY DEF FirstOf
  <2>3. p \in Rate /\ s \in Seq(Rate)
    <3>1. P \subseteq Rate
      BY DEF Rate
    <3> HIDE DEF P
    <3> QED BY <3>1
  <2> HIDE DEF F, P
  <2>4. SumOver(F, s) \in Nat /\ SumOver(F, more) = SumOver(F, s) + F[p]
    BY <2>2, SumGrows
  <2>5. sum \in Rate /\ RateSum(more) = AddRates(sum, p)
    BY <2>3, RatesGrow
  <2>6. PICK a \in Nat, b \in Nat : sum = <<a, b>>
    <3> HIDE DEF sum
    <3> QED BY <2>5 DEF Rate
  <2>7. PICK t \in Nat : t = SumOver(F, s)
    BY <2>4
  <2>8. b > 0 /\ a * n = b * t
    <3>1. sum[2] > 0 /\ sum[1] * n = sum[2] * SumOver(F, s)
      BY <1>2
    <3>2. sum[1] = a /\ sum[2] = b
      BY <2>6
    <3> HIDE DEF sum
    <3> QED BY <2>7, <3>1, <3>2
  <2> PICK x \in Nat : x = p[1]
    BY <2>2
  <2>9. RateSum(more) = <<a * n + x * b, b * n>>
    <3> HIDE DEF sum, more
    <3> QED BY <2>2, <2>5, <2>6 DEF AddRates
  <2>10. b * n > 0 /\ (a * n + x * b) * n = (b * n) * (t + x)
    <3> HIDE DEF sum, more
    <3>1. MeansOn(a, b, x, t, n)
      BY RateArithmetic
    <3> QED BY <2>8, <3>1 DEF MeansOn
  <2> HIDE DEF more, sum
  <2>11. RateSum(more)[1] = a * n + x * b /\ RateSum(more)[2] = b * n
    BY <2>9
  <2>12. a * n + x * b \in Nat /\ b * n \in Nat
    <3>1. \A k, l \in Nat : k * l \in Nat
      OBVIOUS
    <3>2. a * n \in Nat /\ x * b \in Nat /\ b * n \in Nat
      BY <3>1
    <3> QED BY <3>2
  <2>13. RateSum(more) \in Rate
    BY <2>9, <2>12 DEF Rate
  <2>14. SumOver(F, more) = t + x /\ t + x \in Nat
    BY <2>2, <2>4, <2>7
  <2>15. Mean(more)
    BY <2>10, <2>11, <2>13, <2>14
  <2> QED BY <2>1, <2>15 DEF more
<1>3. Seq(P) \subseteq T
  <2> HIDE DEF T, P
  <2>1. <<>> \in T /\ \A s \in Seq(P), p \in P : s \in T => Append(s, p) \in T
    BY <1>1, <1>2
  <2> QED BY <2>1, SequenceInduction
<1> QED BY <1>3

(* What is counted of an agent's cells, of n runs each.                   *)
AgentCounted(agent, summary, cells, n) ==
  LET rate == summary.macro_success_rate
  IN  /\ summary.completed + summary.errors + summary.pending =
           Cardinality({i \in DOMAIN cells : cells[i].agent_id = agent})
      /\ summary.total_runs = summary.completed * n
      /\ summary.successful_runs <= summary.total_runs
      /\ rate = <<>> <=> summary.completed = 0
      /\ summary.completed > 0 =>
           rate[1][2] > 0 /\ rate[1][1] * summary.total_runs = rate[1][2] * summary.successful_runs

(* The cells of a report's matrix: each of n runs.                        *)
MatrixCells(C, n) ==
  \A c \in C : /\ c.status \in {"completed", "error", "pending"}
               /\ c.requested_runs = n /\ c.successful_runs \in 0 .. n

(* What counts failed and pending cells, and the runs of cells.           *)
ErrorOf(C)   == [c \in C |-> IF c.status = "error" THEN 1 ELSE 0]

PendingOf(C) == [c \in C |-> IF c.status = "pending" THEN 1 ELSE 0]

RunsOf(C)    == [c \in C |-> c.requested_runs]

PassesOf(C)  == [c \in C |-> c.successful_runs]

(* The cells that are not an agent's, and those not completed.            *)
Foreign(C, agent) == {c \in C : c.agent_id # agent}

Unfinished(C)     == {c \in C : c.status # "completed"}

(* The rates of cells.                                                    *)
RatesOf(cells) == Each(cells, LAMBDA c : <<c.successful_runs, c.requested_runs>>)

(* The summary of an agent, told of two lists.                            *)
SummaryOf(C, summary, own, done) ==
  /\ summary.completed = Len(done)
  /\ summary.errors = SumOver(ErrorOf(C), own) /\ summary.pending = SumOver(PendingOf(C), own)
  /\ summary.successful_runs = SumOver(PassesOf(C), done)
  /\ summary.total_runs = SumOver(RunsOf(C), done)
  /\ summary.macro_success_rate =
       IF done = <<>> THEN <<>>
       ELSE << <<RateSum(RatesOf(done))[1], RateSum(RatesOf(done))[2] * Len(done)>> >>

(* They are the agent's cells and the completed ones of them.             *)
LEMMA SummaryIs ==
  ASSUME NEW C, NEW cells \in Seq(C), NEW agent
  PROVE  LET own  == Without(cells, Foreign(C, agent))
             done == Without(own, Unfinished(C))
         IN  own \in Seq(C) /\ done \in Seq(C) /\ SummaryOf(C, SummarizeAgent(agent, cells), own, done)
PROOF
<1> DEFINE own    == Without(cells, Foreign(C, agent))
           done   == Without(own, Unfinished(C))
           there  == Without(cells, {c \in ToSet(cells) : c.agent_id # agent})
           finished == Without(there, {c \in ToSet(there) : c.status # "completed"})
           summary == SummarizeAgent(agent, cells)
           Errored(list)  == Count(list, LAMBDA c : c.status = "error")
           Pending(list) == Count(list, LAMBDA c : c.status = "pending")
           Passes(list)  == Total(Each(list, LAMBDA c : c.successful_runs))
           Runs(list)    == Total(Each(list, LAMBDA c : c.requested_runs))
<1>1. \A s \in Seq(C) : s \in Seq(ToSet(s)) /\ ToSet(s) \subseteq C
  BY DEF ToSet
<1>2. own \in Seq(C)
  BY PartsGrow, WithoutKeeps
<1>3. done \in Seq(C)
  <2>1. Without(own, Unfinished(C)) \in Seq(C \ Unfinished(C))
    <3> HIDE DEF own
    <3> QED BY <1>2, WithoutKeeps
  <2>2. C \ Unfinished(C) \subseteq C
    OBVIOUS
  <2> HIDE DEF own
  <2> QED BY <2>1, <2>2
<1>4. there = own
  <2> DEFINE B == ToSet(cells)
             D == {c \in ToSet(cells) : c.agent_id # agent}
             E == Foreign(C, agent)
  <2>1. \A b \in B : b \in D <=> b \in E
    BY <1>1 DEF Foreign
  <2>2. cells \in Seq(B)
    BY <1>1
  <2> HIDE DEF B, D, E
  <2>3. Without(cells, D) = Without(cells, E)
    BY <2>1, <2>2, WithoutSame
  <2> QED BY <2>3 DEF D, E
<1>5. finished = done
  <2> DEFINE B == ToSet(there)
             D == {c \in ToSet(there) : c.status # "completed"}
             E == Unfinished(C)
  <2>1. there \in Seq(C)
    BY <1>2, <1>4
  <2> HIDE DEF there, own
  <2>2. \A b \in B : b \in D <=> b \in E
    BY <1>1, <2>1 DEF Unfinished
  <2>3. there \in Seq(B)
    BY <1>1, <2>1
  <2> HIDE DEF B, D, E
  <2>4. Without(there, D) = Without(there, E)
    BY <2>2, <2>3, WithoutSame
  <2> QED BY <1>4, <2>4 DEF D, E
<1>6. /\ summary.completed = Len(finished)
      /\ summary.errors = Errored(there)
      /\ summary.pending = Pending(there)
      /\ summary.successful_runs = Passes(finished)
      /\ summary.total_runs = Runs(finished)
      /\ summary.macro_success_rate =
           IF finished = <<>> THEN <<>>
           ELSE << <<RateSum(RatesOf(finished))[1], RateSum(RatesOf(finished))[2] * Len(finished)>> >>
  BY DEF SummarizeAgent, RateSum, RatesOf
<1> HIDE DEF there, finished, summary, own, done
<1>7. /\ Errored(own) = SumOver(ErrorOf(C), own)
      /\ Pending(own) = SumOver(PendingOf(C), own)
  <2>1. \A i \in DOMAIN own : own[i] \in C
    BY <1>2
  <2>2. [i \in DOMAIN own |-> IF own[i].status = "error" THEN 1 ELSE 0] =
          [i \in DOMAIN own |-> ErrorOf(C)[own[i]]]
    BY <2>1 DEF ErrorOf
  <2>3. [i \in DOMAIN own |-> IF own[i].status = "pending" THEN 1 ELSE 0] =
          [i \in DOMAIN own |-> PendingOf(C)[own[i]]]
    BY <2>1 DEF PendingOf
  <2> QED BY <2>2, <2>3, Zenon DEF Count, Each, SumOver
<1>8. /\ Passes(done) = SumOver(PassesOf(C), done)
      /\ Runs(done) = SumOver(RunsOf(C), done)
  <2>1. \A i \in DOMAIN done : done[i] \in C
    BY <1>3
  <2>2. [i \in DOMAIN done |-> done[i].successful_runs] = [i \in DOMAIN done |-> PassesOf(C)[done[i]]]
    BY <2>1 DEF PassesOf
  <2>3. [i \in DOMAIN done |-> done[i].requested_runs] = [i \in DOMAIN done |-> RunsOf(C)[done[i]]]
    BY <2>1 DEF RunsOf
  <2> QED BY <2>2, <2>3, Zenon DEF Each, SumOver
<1> HIDE DEF Errored, Pending, Passes, Runs
<1>9. SummaryOf(C, summary, own, done)
  BY <1>4, <1>5, <1>6, <1>7, <1>8 DEF SummaryOf
<1> QED BY <1>2, <1>3, <1>9 DEF summary, own, done

(* A mean over k more, in numbers:                                        *)
MeanOf(p, q, k, t, n) ==
  q > 0 /\ p * n = q * t /\ k > 0 => q * k > 0 /\ p * (k * n) = (q * k) * t

(* always.                                                                *)
LEMMA MeanArithmetic ==
  ASSUME NEW p \in Nat, NEW q \in Nat, NEW k \in Nat, NEW t \in Nat, NEW n \in Nat \ {0}
  PROVE  MeanOf(p, q, k, t, n)
PROOF
<1> SUFFICES ASSUME q > 0, p * n = q * t, k > 0
             PROVE  q * k > 0 /\ p * (k * n) = (q * k) * t
  BY DEF MeanOf
<1>1. q * k > 0
  OBVIOUS
<1>2. p * (k * n) = k * (p * n) /\ (q * k) * t = k * (q * t)
  OBVIOUS
<1> QED BY <1>1, <1>2

(* An agent's summary counts its cells and their runs.                    *)
LEMMA AgentsAreCounted ==
  ASSUME NEW C, NEW n \in Nat \ {0}, MatrixCells(C, n), NEW cells \in Seq(C), NEW agent
  PROVE  AgentCounted(agent, SummarizeAgent(agent, cells), cells, n)
PROOF
<1> DEFINE own    == Without(cells, Foreign(C, agent))
           done   == Without(own, Unfinished(C))
           summary == SummarizeAgent(agent, cells)
<1>1. own \in Seq(C) /\ done \in Seq(C) /\ SummaryOf(C, summary, own, done)
  BY SummaryIs
<1>2. Len(own) = Cardinality({i \in DOMAIN cells : cells[i].agent_id = agent})
  <2>1. Len(own) = Cardinality({i \in DOMAIN cells : cells[i] \notin Foreign(C, agent)})
    BY LeftAreCounted
  <2>2. {i \in DOMAIN cells : cells[i] \notin Foreign(C, agent)} =
          {i \in DOMAIN cells : cells[i].agent_id = agent}
    <3>1. \A i \in DOMAIN cells : cells[i] \in C
      OBVIOUS
    <3> QED BY <3>1 DEF Foreign
  <2> HIDE DEF own
  <2> QED BY <2>1, <2>2
<1>3. ErrorOf(C) \in [C -> Nat] /\ PendingOf(C) \in [C -> Nat]
      /\ \A c \in C : ErrorOf(C)[c] + PendingOf(C)[c] = IF c \in Unfinished(C) THEN 1 ELSE 0
  <2>1. ErrorOf(C) \in [C -> Nat] /\ PendingOf(C) \in [C -> Nat]
    BY DEF ErrorOf, PendingOf
  <2>2. ASSUME NEW c \in C
        PROVE  ErrorOf(C)[c] + PendingOf(C)[c] = IF c \in Unfinished(C) THEN 1 ELSE 0
    <3>1. ErrorOf(C)[c] = (IF c.status = "error" THEN 1 ELSE 0)
          /\ PendingOf(C)[c] = (IF c.status = "pending" THEN 1 ELSE 0)
      BY DEF ErrorOf, PendingOf
    <3>2. c.status \in {"completed", "error", "pending"}
      BY DEF MatrixCells
    <3>3. c \in Unfinished(C) <=> c.status # "completed"
      BY DEF Unfinished
    <3> QED BY <3>1, <3>2, <3>3
  <2> QED BY <2>1, <2>2
<1> HIDE DEF own
<1>4. /\ SumOver(ErrorOf(C), own) \in Nat /\ SumOver(PendingOf(C), own) \in Nat
      /\ Len(done) + SumOver(ErrorOf(C), own) + SumOver(PendingOf(C), own) = Len(own)
  <2> DEFINE F == ErrorOf(C)
             G == PendingOf(C)
             D == Unfinished(C)
  <2>1. CountIn(C, D, F, G)
    BY <1>3 DEF CountIn
  <2>2. own \in Seq(C)
    BY <1>1
  <2> HIDE DEF F, G, D
  <2>3. SumOver(F, own) \in Nat /\ SumOver(G, own) \in Nat
        /\ Len(Without(own, D)) + SumOver(F, own) + SumOver(G, own) = Len(own)
    BY <2>1, <2>2, RestIsCounted
  <2> QED BY <2>3 DEF F, G, D
<1> HIDE DEF done
<1>5. /\ SumOver(PassesOf(C), done) \in Nat
      /\ SumOver(PassesOf(C), done) <= SumOver(RunsOf(C), done)
      /\ SumOver(RunsOf(C), done) = Len(done) * n
  <2>1. PassesOf(C) \in [C -> Nat] /\ RunsOf(C) \in [C -> Nat]
        /\ \A c \in C : PassesOf(C)[c] <= n /\ RunsOf(C)[c] = n
    BY DEF PassesOf, RunsOf, MatrixCells
  <2> DEFINE F == PassesOf(C)
             G == RunsOf(C)
  <2>2. TimesIn(C, n, F, G) /\ done \in Seq(C)
    BY <1>1, <2>1 DEF TimesIn
  <2> HIDE DEF F, G
  <2>3. TimesOver(done, n, F, G)
    BY <2>2, TimesAreCounted
  <2> QED BY <2>3 DEF F, G, TimesOver
<1> DEFINE rates == RatesOf(done)
<1>6. rates \in Seq(Nat \X {n}) /\ SumOver(FirstOf(n), rates) = SumOver(PassesOf(C), done)
  <2>1. \A i \in DOMAIN done : done[i] \in C
    BY <1>1
  <2>2. rates = [i \in DOMAIN done |-> <<done[i].successful_runs, done[i].requested_runs>>]
    BY DEF RatesOf, Each
  <2>3. \A i \in DOMAIN done : <<done[i].successful_runs, done[i].requested_runs>> \in Nat \X {n}
    BY <2>1 DEF MatrixCells
  <2>4. PICK k \in Nat : k = Len(done) /\ DOMAIN done = 1 .. k
    BY <1>1
  <2> HIDE DEF rates
  <2>5. DOMAIN rates = DOMAIN done /\ rates \in Seq(Nat \X {n})
    BY <2>2, <2>3, <2>4
  <2>6. \A i \in DOMAIN done : FirstOf(n)[rates[i]] = PassesOf(C)[done[i]]
    <3> SUFFICES ASSUME NEW i \in DOMAIN done PROVE FirstOf(n)[rates[i]] = PassesOf(C)[done[i]]
      OBVIOUS
    <3>1. rates[i] = <<done[i].successful_runs, done[i].requested_runs>> /\ rates[i] \in Nat \X {n}
      BY <2>2, <2>3
    <3>2. FirstOf(n)[rates[i]] = done[i].successful_runs
      BY <3>1 DEF FirstOf
    <3>3. PassesOf(C)[done[i]] = done[i].successful_runs
      BY <2>1 DEF PassesOf
    <3> QED BY <3>2, <3>3
  <2>7. [i \in DOMAIN rates |-> FirstOf(n)[rates[i]]] = [i \in DOMAIN done |-> PassesOf(C)[done[i]]]
    BY <2>5, <2>6
  <2> QED BY <2>5, <2>7, Zenon DEF SumOver
<1> HIDE DEF rates
<1>7. /\ RateSum(rates) \in Rate /\ RateSum(rates)[2] > 0
      /\ RateSum(rates)[1] * n = RateSum(rates)[2] * SumOver(PassesOf(C), done)
  BY <1>6, RatesAreMeans
<1> PICK p \in Nat, q \in Nat : RateSum(rates) = <<p, q>>
  BY <1>7 DEF Rate
<1> PICK k \in Nat, t \in Nat : k = Len(done) /\ t = SumOver(PassesOf(C), done)
  BY <1>1, <1>5
<1>8. q > 0 /\ p * n = q * t
  BY <1>7
<1>9. /\ summary.completed = k
      /\ summary.errors = SumOver(ErrorOf(C), own) /\ summary.pending = SumOver(PendingOf(C), own)
      /\ summary.successful_runs = t /\ summary.total_runs = k * n
      /\ summary.macro_success_rate = IF done = <<>> THEN <<>> ELSE << <<p, q * k>> >>
  BY <1>1, <1>5 DEF SummaryOf, rates
<1>10. k = 0 <=> done = <<>>
  BY <1>1
<1> DEFINE rate == summary.macro_success_rate
<1>11. rate = <<>> <=> k = 0
  <2>1. << <<p, q * k>> >> # <<>>
    OBVIOUS
  <2> HIDE DEF summary
  <2> QED BY <1>9, <1>10, <2>1
<1>12. ASSUME k > 0 PROVE rate[1][2] > 0 /\ rate[1][1] * (k * n) = rate[1][2] * t
  <2>1. rate = << <<p, q * k>> >>
    BY <1>9, <1>10, <1>12
  <2>2. rate[1][1] = p /\ rate[1][2] = q * k
    <3> HIDE DEF rate
    <3> QED BY <2>1
  <2>3. MeanOf(p, q, k, t, n)
    BY MeanArithmetic
  <2> HIDE DEF rate
  <2> QED BY <1>8, <1>12, <2>2, <2>3 DEF MeanOf
<1>13. summary.completed + summary.errors + summary.pending =
         Cardinality({i \in DOMAIN cells : cells[i].agent_id = agent})
  <2> HIDE DEF summary
  <2> QED BY <1>2, <1>4, <1>9
<1>14. t <= k * n
  BY <1>5
<1> HIDE DEF summary
<1>15. AgentCounted(agent, summary, cells, n)
  <2>1. summary.total_runs = summary.completed * n /\ summary.successful_runs <= summary.total_runs
    BY <1>9, <1>14
  <2>2. summary.macro_success_rate = <<>> <=> summary.completed = 0
    BY <1>9, <1>11
  <2>3. summary.completed > 0 =>
          /\ summary.macro_success_rate[1][2] > 0
          /\ summary.macro_success_rate[1][1] * summary.total_runs =
               summary.macro_success_rate[1][2] * summary.successful_runs
    BY <1>9, <1>12
  <2> QED BY <1>13, <2>1, <2>2, <2>3 DEF AgentCounted
<1> QED BY <1>15 DEF summary

(* The least of some numbers is one of them.                              *)
LEMMA MinIsIn ==
  ASSUME NEW s \in SUBSET Nat, s # {}
  PROVE  Min(s) \in s
PROOF
<1>1. \E k \in s : \A j \in s : k <= j
  BY LeastNumber
<1> QED BY <1>1 DEF Min

(* The place of the group that a cell names.                              *)
TakenFrom(groups, cell) ==
  SelectInSeq(Each(groups, LAMBDA g : g.group_id), LAMBDA id : <<id>> = cell.group_id)

(* It has that identifier.                                                *)
LEMMA TakenIsNamed ==
  ASSUME NEW G, NEW groups \in Seq(G), NEW cell, TakenFrom(groups, cell) # 0
  PROVE  /\ TakenFrom(groups, cell) \in DOMAIN groups
         /\ <<groups[TakenFrom(groups, cell)].group_id>> = cell.group_id
PROOF
<1> DEFINE ids == Each(groups, LAMBDA g : g.group_id)
           I   == {i \in 1 .. Len(ids) : <<ids[i]>> = cell.group_id}
<1>1. TakenFrom(groups, cell) = IF I # {} THEN Min(I) ELSE 0
  BY DEF TakenFrom, SelectInSeq
<1>2. ids = [i \in DOMAIN groups |-> groups[i].group_id]
  BY DEF Each
<1>3. PICK n \in Nat : n = Len(groups) /\ DOMAIN groups = 1 .. n
  OBVIOUS
<1>4. Len(ids) = n
  <2> HIDE DEF ids
  <2>1. ids \in Seq({groups[i].group_id : i \in 1 .. n}) /\ DOMAIN ids = 1 .. n
    BY <1>2, <1>3
  <2> QED BY <1>3, <2>1
<1>5. I \in SUBSET Nat /\ \A i \in I : i \in 1 .. n /\ <<ids[i]>> = cell.group_id
  <2> HIDE DEF ids
  <2> QED BY <1>4
<1> HIDE DEF I
<1>6. I # {} /\ Min(I) \in I
  <2>1. I # {}
    BY <1>1
  <2> QED BY <1>5, <2>1, MinIsIn
<1>7. TakenFrom(groups, cell) = Min(I)
  BY <1>1, <1>6
<1>8. Min(I) \in 1 .. n /\ <<ids[Min(I)]>> = cell.group_id
  BY <1>5, <1>6
<1> HIDE DEF ids
<1> QED BY <1>2, <1>3, <1>7, <1>8

(* No two groups have the same identifier.                                *)
GroupsDiffer(groups) ==
  \A k, l \in DOMAIN groups : groups[k].group_id = groups[l].group_id => k = l

(* What a report's cell is made of.                                       *)
CellMade(execution, groups, cell, made) ==
  IF cell.status = "completed"
  THEN \E k \in DOMAIN groups :
         /\ <<groups[k].group_id>> = cell.group_id
         /\ groups[k].agent = cell.agent_id /\ groups[k].run_count = execution.repeat
         /\ made = CompletedMatrixCell(groups[k])
  ELSE made = EmptyMatrixCell(cell, execution.repeat)

(* A report's cells are made of those of its execution.                   *)
ReportMade(execution, groups, report) ==
  /\ GroupsDiffer(groups) /\ report.status = execution.status
  /\ report.cells = [i \in DOMAIN execution.cells |-> report.cells[i]]
  /\ \A i \in DOMAIN execution.cells :
       CellMade(execution, groups, execution.cells[i], report.cells[i])
  /\ DOMAIN report.agents = DOMAIN execution.agents
  /\ \A a \in DOMAIN execution.agents :
       report.agents[a] = SummarizeAgent(execution.agents[a], report.cells)

(* They are, in every report that is made.                                *)
LEMMA ReportsAreMade ==
  ASSUME NEW G, NEW groups \in Seq(G), NEW execution, SuiteReportOf(execution, groups).ok
  PROVE  ReportMade(execution, groups, SuiteReportOf(execution, groups))
PROOF
<1> DEFINE report == SuiteReportOf(execution, groups)
           ids == Each(groups, LAMBDA g : g.group_id)
           PlanTask(cell) == execution.tasks[SelectInSeq(execution.tasks,
                                               LAMBDA t : t.task_id = cell.task_id)]
           completed == {i \in DOMAIN execution.cells : execution.cells[i].status = "completed"}
           MatrixCell(cell) ==
             IF cell.status = "completed" THEN CompletedMatrixCell(groups[TakenFrom(groups, cell)])
             ELSE EmptyMatrixCell(cell, execution.repeat)
           cells == Each(execution.cells, MatrixCell)
           valid ==
             /\ Cardinality(ToSet(ids)) = Len(ids)
             /\ \A i \in completed :
                  LET cell == execution.cells[i] IN
                  /\ TakenFrom(groups, cell) # 0
                  /\ CellGroupValid(groups[TakenFrom(groups, cell)], PlanTask(cell), cell.agent_id, execution)
             /\ ToSet(ids) = {execution.cells[i].group_id[1] : i \in completed}
           made ==
             [ok |-> TRUE, status |-> execution.status, cells |-> cells,
              agents |-> Each(execution.agents, LAMBDA a : SummarizeAgent(a, cells))]
<1>1. report = IF valid THEN made ELSE [ok |-> FALSE]
  BY DEF SuiteReportOf, TakenFrom
<1>2. valid /\ report = made
  <2>1. [ok |-> FALSE].ok = FALSE
    OBVIOUS
  <2>2. report.ok
    OBVIOUS
  <2> HIDE DEF valid, made, report
  <2> QED BY <1>1, <2>1, <2>2
<1>3. /\ report.status = execution.status /\ report.cells = cells
      /\ report.agents = [a \in DOMAIN execution.agents |-> SummarizeAgent(execution.agents[a], cells)]
  <2>1. /\ made.status = execution.status /\ made.cells = cells
        /\ made.agents = Each(execution.agents, LAMBDA a : SummarizeAgent(a, cells))
    <3> HIDE DEF cells
    <3> QED OBVIOUS
  <2> HIDE DEF cells, made, report
  <2> QED BY <1>2, <2>1 DEF Each
<1>4. GroupsDiffer(groups)
  <2>1. PICK n \in Nat : n = Len(groups) /\ DOMAIN groups = 1 .. n
    OBVIOUS
  <2>2. ids = [i \in 1 .. n |-> groups[i].group_id]
    BY <2>1 DEF Each
  <2>3. Cardinality(ToSet(ids)) = Len(ids)
    BY <1>2
  <2> HIDE DEF ids
  <2>4. ids \in Seq({groups[i].group_id : i \in 1 .. n}) /\ DOMAIN ids = 1 .. n
    BY <2>2
  <2>5. \A i, j \in DOMAIN ids : ids[i] = ids[j] => i = j
    BY <2>3, <2>4, IdsAreDistinct
  <2> QED BY <2>1, <2>2, <2>4, <2>5 DEF GroupsDiffer
<1>5. cells = [i \in DOMAIN execution.cells |-> MatrixCell(execution.cells[i])]
  BY DEF Each
<1>6. ASSUME NEW i \in DOMAIN execution.cells
      PROVE  CellMade(execution, groups, execution.cells[i], cells[i])
  <2> DEFINE cell == execution.cells[i]
             k == TakenFrom(groups, cell)
  <2>1. cells[i] = MatrixCell(cell)
    <3> HIDE DEF MatrixCell, cells
    <3> QED BY <1>5
  <2>2. CASE cell.status = "completed"
    <3>1. i \in completed
      BY <2>2
    <3>2. k # 0 /\ CellGroupValid(groups[k], PlanTask(cell), cell.agent_id, execution)
      <4> HIDE DEF completed, PlanTask
      <4> QED BY <1>2, <3>1
    <3>3. k \in DOMAIN groups /\ <<groups[k].group_id>> = cell.group_id
      <4> HIDE DEF cell
      <4> QED BY <3>2, TakenIsNamed
    <3>4. groups[k].agent = cell.agent_id /\ groups[k].run_count = execution.repeat
      <4> HIDE DEF k, cell, PlanTask
      <4> QED BY <3>2 DEF CellGroupValid
    <3>5. cells[i] = CompletedMatrixCell(groups[k])
      <4> HIDE DEF cells
      <4> QED BY <2>1, <2>2
    <3> HIDE DEF k, cells
    <3> QED BY <2>2, <3>3, <3>4, <3>5 DEF CellMade
  <2>3. CASE cell.status # "completed"
    <3>1. cells[i] = EmptyMatrixCell(cell, execution.repeat)
      <4> HIDE DEF cells
      <4> QED BY <2>1, <2>3
    <3> HIDE DEF cells
    <3> QED BY <2>3, <3>1 DEF CellMade
  <2> QED BY <2>2, <2>3
<1>7. cells = [i \in DOMAIN execution.cells |-> cells[i]]
  <2> HIDE DEF MatrixCell
  <2> QED BY <1>5
<1> HIDE DEF cells, report
<1>8. ReportMade(execution, groups, report)
  BY <1>3, <1>4, <1>6, <1>7, ZenonT(60) DEF ReportMade
<1> QED BY <1>8 DEF report

(* The suite: cells that are completed, failed or pending, of as many runs*)
(* as are repeated.                                                       *)
SuiteGiven(X, A, execution) ==
  /\ execution.cells \in Seq(X) /\ execution.agents \in Seq(A) /\ execution.repeat \in Nat \ {0}
  /\ \A i \in DOMAIN execution.cells : execution.cells[i].status \in {"completed", "error", "pending"}

(* What a made cell counts.                                               *)
LEMMA MadeCells ==
  ASSUME NEW G, \A g \in G : RunsCounted(g), NEW groups \in Seq(G), GroupsDiffer(groups),
         NEW execution, execution.repeat \in Nat \ {0}, NEW cell,
         cell.status \in {"completed", "error", "pending"},
         NEW made, CellMade(execution, groups, cell, made)
  PROVE  /\ made.agent_id = cell.agent_id /\ made.status = cell.status
         /\ made.requested_runs = execution.repeat /\ made.successful_runs \in 0 .. execution.repeat
         /\ cell.status = "completed" =>
              (/\ made.successful_runs = made.requested_runs
               /\ made.verification_failures = 0 /\ made.violations = 0) <=>
                \A g \in ToSet(groups) : <<g.group_id>> = cell.group_id =>
                   \A r \in DOMAIN g.runs : g.runs[r].success
PROOF
<1>1. CASE cell.status # "completed"
  <2>1. made = EmptyMatrixCell(cell, execution.repeat)
    BY <1>1 DEF CellMade
  <2> QED BY <1>1, <2>1 DEF EmptyMatrixCell
<1>2. CASE cell.status = "completed"
  <2>1. PICK k \in DOMAIN groups :
          /\ <<groups[k].group_id>> = cell.group_id
          /\ groups[k].agent = cell.agent_id /\ groups[k].run_count = execution.repeat
          /\ made = CompletedMatrixCell(groups[k])
    BY <1>2 DEF CellMade
  <2>2. /\ made.agent_id = groups[k].agent /\ made.status = "completed"
        /\ made.successful_runs = groups[k].successes /\ made.requested_runs = groups[k].run_count
        /\ made.verification_failures = groups[k].verification_failures
        /\ made.violations = groups[k].violations
    BY <2>1 DEF CompletedMatrixCell
  <2>3. RunsCounted(groups[k])
    OBVIOUS
  <2> DEFINE WentWell(g) == \A r \in DOMAIN g.runs : g.runs[r].success
  <2>4. (\A g \in ToSet(groups) : <<g.group_id>> = cell.group_id => WentWell(g)) <=> WentWell(groups[k])
    <3> HIDE DEF WentWell
    <3>1. groups[k] \in ToSet(groups)
      BY DEF ToSet
    <3>2. ASSUME NEW g \in ToSet(groups), <<g.group_id>> = cell.group_id PROVE g = groups[k]
      <4>1. PICK l \in DOMAIN groups : g = groups[l]
        BY DEF ToSet
      <4>2. groups[l].group_id = groups[k].group_id
        BY <2>1, <3>2, <4>1
      <4>3. l = k
        BY <4>2 DEF GroupsDiffer
      <4> QED BY <4>1, <4>3
    <3> QED BY <2>1, <3>1, <3>2
  <2>5. /\ groups[k].successes \in 0 .. execution.repeat
        /\ groups[k].successes = execution.repeat <=> WentWell(groups[k])
        /\ groups[k].successes = execution.repeat =>
             groups[k].verification_failures = 0 /\ groups[k].violations = 0
    BY <2>1, <2>3 DEF RunsCounted
  <2> HIDE DEF WentWell
  <2>6. (/\ made.successful_runs = made.requested_runs
         /\ made.verification_failures = 0 /\ made.violations = 0) <=> WentWell(groups[k])
    BY <2>1, <2>2, <2>5
  <2>7. (/\ made.successful_runs = made.requested_runs
         /\ made.verification_failures = 0 /\ made.violations = 0) <=>
          \A g \in ToSet(groups) : <<g.group_id>> = cell.group_id => WentWell(g)
    BY <2>4, <2>6
  <2>8. made.agent_id = cell.agent_id /\ made.status = cell.status
        /\ made.requested_runs = execution.repeat /\ made.successful_runs \in 0 .. execution.repeat
    BY <1>2, <2>1, <2>2, <2>5
  <2> QED BY <1>2, <2>7, <2>8 DEF WentWell
<1> QED BY <1>1, <1>2

(* A suite's report, whenever one is made of groups whose results core    *)
(* accepted, counts every cell of every agent once and every run of the   *)
(* completed ones, its rate is the mean of theirs, and the command exits  *)
(* with 0 exactly when every cell is completed and every run of the groups*)
(* they name succeeded (report/suite.rs, main.rs).                        *)
THEOREM SuiteReportsAreCounted ==
  ASSUME NEW R, NEW O, NEW V, ResultSet(R, O, V),
         NEW G, \A g \in G : ReportOfRuns(R, g), NEW groups \in Seq(G),
         NEW X, NEW A, NEW execution, SuiteGiven(X, A, execution),
         SuiteReportOf(execution, groups).ok
  PROVE  SuiteIsCounted(execution, groups, SuiteReportOf(execution, groups))
PROOF
<1> DEFINE report == SuiteReportOf(execution, groups)
           cells  == execution.cells
           n      == execution.repeat
           C      == {report.cells[i] : i \in DOMAIN cells}
           Own(a) == {i \in DOMAIN cells : cells[i].agent_id = execution.agents[a]}
           Passes(cell) ==
             \A g \in ToSet(groups) : <<g.group_id>> = cell.group_id =>
                \A r \in DOMAIN g.runs : g.runs[r].success
<1>1. \A g \in G : RunsCounted(g)
  BY GroupsAreCounted
<1>2. ReportMade(execution, groups, report)
  BY ReportsAreMade
<1> HIDE DEF report
<1>3. n \in Nat \ {0} /\ \A i \in DOMAIN cells : cells[i].status \in {"completed", "error", "pending"}
  BY DEF SuiteGiven
<1>4. ASSUME NEW i \in DOMAIN cells
      PROVE  LET made == report.cells[i] IN
             /\ made.agent_id = cells[i].agent_id /\ made.status = cells[i].status
             /\ made.requested_runs = n /\ made.successful_runs \in 0 .. n
             /\ cells[i].status = "completed" =>
                  (/\ made.successful_runs = made.requested_runs
                   /\ made.verification_failures = 0 /\ made.violations = 0) <=> Passes(cells[i])
  <2> DEFINE made == report.cells[i]
             cell == cells[i]
  <2>1. CellMade(execution, groups, cell, made) /\ GroupsDiffer(groups)
    BY <1>2 DEF ReportMade
  <2>2. cell.status \in {"completed", "error", "pending"}
    BY <1>3
  <2> HIDE DEF made, cell
  <2>3. /\ made.agent_id = cell.agent_id /\ made.status = cell.status
        /\ made.requested_runs = n /\ made.successful_runs \in 0 .. n
        /\ cell.status = "completed" =>
             (/\ made.successful_runs = made.requested_runs
              /\ made.verification_failures = 0 /\ made.violations = 0) <=> Passes(cell)
    BY <1>1, <1>3, <2>1, <2>2, MadeCells
  <2> HIDE DEF Passes
  <2> QED BY <2>3 DEF made, cell
<1> HIDE DEF Passes
<1>5. MatrixCells(C, n)
  BY <1>3, <1>4 DEF MatrixCells
<1>6. PICK m \in Nat : m = Len(cells) /\ DOMAIN cells = 1 .. m
  BY DEF SuiteGiven
<1>7. DOMAIN report.cells = DOMAIN cells
  BY <1>2 DEF ReportMade
<1>8. report.cells \in Seq(C)
  <2>1. report.cells = [i \in 1 .. m |-> report.cells[i]]
    BY <1>2, <1>6, <1>7 DEF ReportMade
  <2>2. \A i \in 1 .. m : report.cells[i] \in C
    BY <1>6
  <2> HIDE DEF C
  <2> QED BY <2>1, <2>2
<1>9. ASSUME NEW a \in DOMAIN execution.agents
      PROVE  AgentCounted(execution.agents[a], report.agents[a], cells, n)
  <2> DEFINE agent == execution.agents[a]
  <2>1. report.agents[a] = SummarizeAgent(agent, report.cells)
    BY <1>2 DEF ReportMade
  <2>2. AgentCounted(agent, SummarizeAgent(agent, report.cells), report.cells, n)
    <3> HIDE DEF agent, C
    <3> QED BY <1>3, <1>5, <1>8, AgentsAreCounted
  <2>3. {i \in DOMAIN report.cells : report.cells[i].agent_id = agent} =
          {i \in DOMAIN cells : cells[i].agent_id = agent}
    BY <1>4, <1>7
  <2> HIDE DEF agent, C, cells
  <2> QED BY <2>1, <2>2, <2>3 DEF AgentCounted, agent
<1>10. ExitForReport(report) = 0 <=>
         /\ execution.status = "completed" /\ cells # <<>>
         /\ \A i \in DOMAIN cells : cells[i].status = "completed" /\ Passes(cells[i])
  <2>1. ExitForReport(report) = 0 <=> AllBenchmarksSucceeded(report)
    BY DEF ExitForReport
  <2>2. report.status = execution.status
    BY <1>2 DEF ReportMade
  <2>3. report.cells # <<>> <=> cells # <<>>
    <3>1. report.cells # <<>> <=> m # 0
      BY <1>6, <1>7, <1>8
    <3>2. cells # <<>> <=> m # 0
      BY <1>6 DEF SuiteGiven
    <3> QED BY <3>1, <3>2
  <2>4. ASSUME NEW i \in DOMAIN cells
        PROVE  LET cell == report.cells[i] IN
               (/\ cell.status = "completed"
                /\ cell.successful_runs = cell.requested_runs /\ cell.requested_runs > 0
                /\ cell.verification_failures = 0 /\ cell.violations = 0)
               <=> cells[i].status = "completed" /\ Passes(cells[i])
    <3> DEFINE made == report.cells[i]
    <3>1. /\ made.status = cells[i].status /\ made.requested_runs = n
          /\ cells[i].status = "completed" =>
               (/\ made.successful_runs = made.requested_runs
                /\ made.verification_failures = 0 /\ made.violations = 0) <=> Passes(cells[i])
      BY <1>4
    <3>2. n > 0
      BY <1>3
    <3> HIDE DEF made
    <3>3. (/\ made.status = "completed"
           /\ made.successful_runs = made.requested_runs /\ made.requested_runs > 0
           /\ made.verification_failures = 0 /\ made.violations = 0)
          <=> cells[i].status = "completed" /\ Passes(cells[i])
      BY <3>1, <3>2
    <3> QED BY <3>3 DEF made
  <2>5. AllBenchmarksSucceeded(report) <=>
          /\ report.status = "completed" /\ report.cells # <<>>
          /\ \A i \in DOMAIN cells : cells[i].status = "completed" /\ Passes(cells[i])
    <3> HIDE DEF cells
    <3> QED BY <1>7, <2>4 DEF AllBenchmarksSucceeded
  <2> QED BY <2>1, <2>2, <2>3, <2>5
<1>11. ASSUME NEW a \in DOMAIN execution.agents
       PROVE  LET agent == report.agents[a]
                  rate  == agent.macro_success_rate
              IN  /\ agent.completed + agent.errors + agent.pending = Cardinality(Own(a))
                  /\ agent.total_runs = agent.completed * n
                  /\ agent.successful_runs <= agent.total_runs
                  /\ rate = <<>> <=> agent.completed = 0
                  /\ agent.completed > 0 =>
                       rate[1][2] > 0 /\ rate[1][1] * agent.total_runs = rate[1][2] * agent.successful_runs
  BY <1>9 DEF AgentCounted
<1>12. SuiteIsCounted(execution, groups, report)
  BY <1>10, <1>11, Zenon DEF SuiteIsCounted, Passes
<1> QED BY <1>12 DEF report


-----------------------------------------------------------------------------
(* Commands inside the quotes of a shell's command.                       *)

(* The texts that words stand for.                                        *)
QuotedTexts == {Text(word) : word \in DOMAIN Base}

(* Whether a command is forbidden, once it is known which texts are.      *)
Judge(known, command, forbidden) ==
  IF ~command.balanced \/ ~forbidden.balanced
  THEN forbidden.words \in SubSeqs(command.words)
  ELSE /\ forbidden.words # <<>>
       /\ \/ InvocationMatches(command.words, forbidden.words)
          \/ ShellPayloadMatches(command.words, LAMBDA text : known[text])

(* Its own part, and the texts it hands to a shell.                       *)
IsInvoked(command, forbidden) ==
  IF ~command.balanced \/ ~forbidden.balanced
  THEN forbidden.words \in SubSeqs(command.words)
  ELSE forbidden.words # <<>> /\ InvocationMatches(command.words, forbidden.words)

Payloads(words) ==
  {Text(words[i + 1]) : i \in {i \in 1 .. Len(words) - 1 :
     words # <<>> /\ Base[words[1]] \in Shells /\ words[i] \in CommandFlags}}

HandedOn(command, forbidden) ==
  IF command.balanced /\ forbidden.balanced /\ forbidden.words # <<>> THEN Payloads(command.words) ELSE {}

LEMMA JudgedByParts ==
  ASSUME NEW known, NEW command, NEW forbidden
  PROVE  Judge(known, command, forbidden)
           <=> IsInvoked(command, forbidden) \/ \E text \in HandedOn(command, forbidden) : known[text]
PROOF
<1> DEFINE words == command.words
           Shell == ShellPayloadMatches(words, LAMBDA text : known[text])
           Handed == \E text \in Payloads(words) : known[text]
<1>1. Shell <=> Handed
  <2>1. ASSUME Shell PROVE Handed
    <3>1. /\ words # <<>> /\ Base[words[1]] \in Shells
          /\ \E i \in 1 .. Len(words) - 1 : words[i] \in CommandFlags /\ known[Text(words[i + 1])]
      BY <2>1 DEF ShellPayloadMatches
    <3>2. PICK i \in 1 .. Len(words) - 1 : words[i] \in CommandFlags /\ known[Text(words[i + 1])]
      BY <3>1
    <3>3. Text(words[i + 1]) \in Payloads(words)
      BY <3>1, <3>2, Zenon DEF Payloads
    <3> QED BY <3>2, <3>3
  <2>2. ASSUME Handed PROVE Shell
    <3>1. PICK text \in Payloads(words) : known[text]
      BY <2>2
    <3>2. PICK i \in 1 .. Len(words) - 1 :
            /\ words # <<>> /\ Base[words[1]] \in Shells /\ words[i] \in CommandFlags
            /\ text = Text(words[i + 1])
      BY <3>1, Zenon DEF Payloads
    <3>3. known[Text(words[i + 1])]
      BY <3>1, <3>2, Zenon
    <3> HIDE DEF words
    <3> QED BY <3>2, <3>3, Zenon DEF ShellPayloadMatches
  <2> QED BY <2>1, <2>2
<1>2. Judge(known, command, forbidden) <=>
        IF ~command.balanced \/ ~forbidden.balanced
        THEN forbidden.words \in SubSeqs(words)
        ELSE forbidden.words # <<>> /\ (InvocationMatches(words, forbidden.words) \/ Shell)
  BY Zenon DEF Judge
<1> HIDE DEF Shell
<1>3. HandedOn(command, forbidden) =
        IF command.balanced /\ forbidden.balanced /\ forbidden.words # <<>> THEN Payloads(words) ELSE {}
  BY Zenon DEF HandedOn
<1>4. IsInvoked(command, forbidden) <=>
        IF ~command.balanced \/ ~forbidden.balanced
        THEN forbidden.words \in SubSeqs(words)
        ELSE forbidden.words # <<>> /\ InvocationMatches(words, forbidden.words)
  BY Zenon DEF IsInvoked
<1> HIDE DEF words
<1>5. CASE command.balanced /\ forbidden.balanced /\ forbidden.words # <<>>
  <2>1. HandedOn(command, forbidden) = Payloads(words)
    BY <1>3, <1>5, Zenon
  <2>2. (\E text \in HandedOn(command, forbidden) : known[text]) <=> Handed
    BY <2>1, Zenon
  <2> HIDE DEF Handed
  <2> QED BY <1>1, <1>2, <1>4, <1>5, <2>2, Zenon
<1>6. CASE ~(command.balanced /\ forbidden.balanced /\ forbidden.words # <<>>)
  <2>1. HandedOn(command, forbidden) = {}
    BY <1>3, <1>6, Zenon
  <2>2. ~\E text \in HandedOn(command, forbidden) : known[text]
    BY <2>1
  <2> HIDE DEF Handed
  <2> QED BY <1>2, <1>4, <1>6, <2>2, Zenon
<1> QED BY <1>5, <1>6

(* f judges every command of a set.                                       *)
Judges(f, commands, forbidden) ==
  f = [command \in commands |-> Judge(f, command, forbidden)]

LEMMA JudgedOnceEach ==
  ASSUME NEW f, NEW commands, NEW forbidden, Judges(f, commands, forbidden)
  PROVE  \A command \in commands :
           f[command] <=> IsInvoked(command, forbidden) \/ \E text \in HandedOn(command, forbidden) : f[text]
PROOF
<1> TAKE command \in commands
<1>1. f = [c \in commands |-> Judge(f, c, forbidden)]
  BY Zenon DEF Judges
<1>2. f[command] = Judge(f, command, forbidden)
  <2> DEFINE g == [c \in commands |-> Judge(f, c, forbidden)]
  <2>1. g[command] = Judge(f, command, forbidden)
    BY Zenon
  <2> HIDE DEF g
  <2>2. f = g
    BY <1>1 DEF g
  <2> QED BY <2>1, <2>2, Zenon
<1>3. Judge(f, command, forbidden)
        <=> IsInvoked(command, forbidden) \/ \E text \in HandedOn(command, forbidden) : f[text]
  BY JudgedByParts
<1> QED BY <1>2, <1>3, Zenon

(* There is a judgement: the least set of commands that holds the invoked *)
(* ones and those that hand on one of its texts.                          *)
LEMMA JudgementExists ==
  ASSUME NEW commands, NEW forbidden,
         \A command \in commands : HandedOn(command, forbidden) \subseteq commands
  PROVE  \E f : Judges(f, commands, forbidden)
PROOF
<1> DEFINE Closed(X) ==
             \A c \in commands : IsInvoked(c, forbidden) \/ (\E t \in HandedOn(c, forbidden) : t \in X) => c \in X
           M == {c \in commands : \A X \in SUBSET commands : Closed(X) => c \in X}
           f == [c \in commands |-> c \in M]
<1>1. ASSUME NEW c \in commands,
             IsInvoked(c, forbidden) \/ \E t \in HandedOn(c, forbidden) : t \in M
      PROVE  c \in M
  <2> SUFFICES ASSUME NEW X \in SUBSET commands, Closed(X) PROVE c \in X
    OBVIOUS
  <2>1. IsInvoked(c, forbidden) \/ \E t \in HandedOn(c, forbidden) : t \in X
    BY <1>1
  <2> QED BY <2>1
<1>2. Closed(M)
  BY <1>1
<1>3. ASSUME NEW c \in M
      PROVE  IsInvoked(c, forbidden) \/ \E t \in HandedOn(c, forbidden) : t \in M
  <2> SUFFICES ASSUME ~(IsInvoked(c, forbidden) \/ \E t \in HandedOn(c, forbidden) : t \in M)
               PROVE  FALSE
    OBVIOUS
  <2> DEFINE X == M \ {c}
  <2>1. Closed(X)
    <3> SUFFICES ASSUME NEW d \in commands,
                        IsInvoked(d, forbidden) \/ \E t \in HandedOn(d, forbidden) : t \in X
                 PROVE  d \in X
      OBVIOUS
    <3>1. IsInvoked(d, forbidden) \/ \E t \in HandedOn(d, forbidden) : t \in M
      OBVIOUS
    <3>2. d \in M
      BY <3>1, <1>1
    <3>3. d # c
      <4> HIDE DEF M
      <4> QED BY <3>1
    <3> QED BY <3>2, <3>3
  <2>2. X \in SUBSET commands
    OBVIOUS
  <2>3. c \in X
    <3> HIDE DEF X, Closed
    <3> QED BY <2>1, <2>2
  <2> QED BY <2>3
<1> HIDE DEF M
<1>4. \A c \in commands :
        (c \in M) = (IsInvoked(c, forbidden) \/ \E t \in HandedOn(c, forbidden) : t \in M)
  BY <1>1, <1>3
<1>5. \A c \in commands : Judge(f, c, forbidden) <=> c \in M
  <2> TAKE c \in commands
  <2>1. Judge(f, c, forbidden) <=> IsInvoked(c, forbidden) \/ \E t \in HandedOn(c, forbidden) : f[t]
    <3> HIDE DEF f
    <3> QED BY JudgedByParts
  <2>2. \A t \in HandedOn(c, forbidden) : f[t] <=> t \in M
    OBVIOUS
  <2> HIDE DEF f
  <2> QED BY <1>4, <2>1, <2>2
<1>6. \A c \in commands : (c \in M) = Judge(f, c, forbidden)
  <2> TAKE c \in commands
  <2>1. Judge(f, c, forbidden) \in BOOLEAN
    <3> DEFINE A == forbidden.words \in SubSeqs(c.words)
               I == InvocationMatches(c.words, forbidden.words)
               S == ShellPayloadMatches(c.words, LAMBDA text : f[text])
               B == forbidden.words # <<>> /\ (I \/ S)
    <3>1. Judge(f, c, forbidden) = IF ~c.balanced \/ ~forbidden.balanced THEN A ELSE B
      BY Zenon DEF Judge
    <3>2. A \in BOOLEAN
      OBVIOUS
    <3>3. B \in BOOLEAN
      <4> HIDE DEF I, S
      <4> QED OBVIOUS
    <3> HIDE DEF A, B
    <3> QED BY <3>1, <3>2, <3>3, Zenon
  <2>2. Judge(f, c, forbidden) <=> c \in M
    BY <1>5
  <2> HIDE DEF f
  <2> QED BY <2>1, <2>2
<1>7. [c \in commands |-> c \in M] = [c \in commands |-> Judge(f, c, forbidden)]
  <2> HIDE DEF f
  <2> QED BY <1>6
<1> HIDE DEF f
<1>8. Judges(f, commands, forbidden)
  BY <1>7, Zenon DEF Judges, f
<1> QED BY <1>8

(* Quotes end: words are read whole, and what a quoted command holds is   *)
(* quoted less deeply than the command is.                                *)
QuotesEnd(depth) ==
  /\ depth \in [QuotedTexts -> Nat]
  /\ \A text \in QuotedTexts : text.words \in Seq(DOMAIN Base)
  /\ \A text \in QuotedTexts : \A inner \in Payloads(text.words) : depth[inner] < depth[text]

(* What is handed on is a text.                                           *)
LEMMA PayloadsAreTexts ==
  ASSUME NEW words \in Seq(DOMAIN Base)
  PROVE  Payloads(words) \subseteq QuotedTexts
PROOF
<1> SUFFICES ASSUME NEW text \in Payloads(words) PROVE text \in QuotedTexts
  OBVIOUS
<1>1. PICK i \in 1 .. Len(words) - 1 : text = Text(words[i + 1])
  BY Zenon DEF Payloads
<1>2. i + 1 \in 1 .. Len(words)
  BY <1>1
<1>3. words[i + 1] \in DOMAIN Base
  BY <1>2
<1> QED BY <1>1, <1>3, Zenon DEF QuotedTexts

LEMMA HandedAreTexts ==
  ASSUME NEW command, command.words \in Seq(DOMAIN Base), NEW forbidden
  PROVE  HandedOn(command, forbidden) \subseteq QuotedTexts
PROOF
<1> QED BY PayloadsAreTexts DEF HandedOn

(* Whatever else is judged, a text is judged alike.                       *)
LEMMA OneJudgement ==
  ASSUME NEW depth, QuotesEnd(depth), NEW forbidden,
         NEW C, QuotedTexts \subseteq C, NEW f, Judges(f, C, forbidden),
         NEW D, QuotedTexts \subseteq D, NEW g, Judges(g, D, forbidden)
  PROVE  \A text \in QuotedTexts : f[text] <=> g[text]
PROOF
<1> DEFINE N == {n \in Nat : \A text \in QuotedTexts : depth[text] < n => (f[text] <=> g[text])}
<1>1. 0 \in N
  BY DEF QuotesEnd
<1>2. ASSUME NEW n \in Nat, n \in N PROVE n + 1 \in N
  <2> SUFFICES ASSUME NEW text \in QuotedTexts, depth[text] < n + 1 PROVE f[text] <=> g[text]
    OBVIOUS
  <2>1. /\ f[text] <=> IsInvoked(text, forbidden) \/ \E t \in HandedOn(text, forbidden) : f[t]
        /\ g[text] <=> IsInvoked(text, forbidden) \/ \E t \in HandedOn(text, forbidden) : g[t]
    <3>1. f[text] <=> IsInvoked(text, forbidden) \/ \E t \in HandedOn(text, forbidden) : f[t]
      BY JudgedOnceEach
    <3>2. g[text] <=> IsInvoked(text, forbidden) \/ \E t \in HandedOn(text, forbidden) : g[t]
      BY JudgedOnceEach
    <3> QED BY <3>1, <3>2
  <2>2. ASSUME NEW t \in HandedOn(text, forbidden) PROVE f[t] <=> g[t]
    <3>1. t \in Payloads(text.words)
      BY DEF HandedOn
    <3>2. depth[t] < depth[text] /\ text.words \in Seq(DOMAIN Base)
      BY <3>1 DEF QuotesEnd
    <3>3. t \in QuotedTexts
      BY <3>1, <3>2, PayloadsAreTexts
    <3>4. depth[t] \in Nat /\ depth[text] \in Nat
      BY <3>3 DEF QuotesEnd
    <3>5. depth[t] < n
      BY <3>2, <3>4
    <3> QED BY <1>2, <3>3, <3>5
  <2> QED BY <2>1, <2>2
<1>3. Nat \subseteq N
  <2> HIDE DEF N
  <2> QED BY <1>1, <1>2, Induction
<1> TAKE text \in QuotedTexts
<1>4. depth[text] + 1 \in Nat /\ depth[text] < depth[text] + 1
  BY DEF QuotesEnd
<1> QED BY <1>3, <1>4

(* The judgement of the program, for every command.                       *)
Judgement(command, forbidden) ==
  CHOOSE f : f = [c \in {command} \cup QuotedTexts |-> Judge(f, c, forbidden)]

LEMMA IsJudgement ==
  ASSUME NEW depth, QuotesEnd(depth), NEW command, command.words \in Seq(DOMAIN Base), NEW forbidden
  PROVE  /\ Judges(Judgement(command, forbidden), {command} \cup QuotedTexts, forbidden)
         /\ CommandContainsForbidden(command, forbidden) = Judgement(command, forbidden)[command]
PROOF
<1> DEFINE C == {command} \cup QuotedTexts
<1>1. \A c \in C : HandedOn(c, forbidden) \subseteq C
  <2> SUFFICES ASSUME NEW c \in C PROVE HandedOn(c, forbidden) \subseteq QuotedTexts
    OBVIOUS
  <2>1. c.words \in Seq(DOMAIN Base)
    BY DEF QuotesEnd
  <2> QED BY <2>1, HandedAreTexts
<1>2. \E f : Judges(f, C, forbidden)
  <2> HIDE DEF C
  <2> QED BY <1>1, JudgementExists
<1>3. Judges(Judgement(command, forbidden), C, forbidden)
  BY <1>2, Zenon DEF Judges, Judgement
<1>4. CommandContainsForbidden(command, forbidden) = Judgement(command, forbidden)[command]
  BY Zenon DEF CommandContainsForbidden, Judgement, Judge, QuotedTexts
<1> QED BY <1>3, <1>4

LEMMA TextsAreJudgedAlike ==
  ASSUME NEW depth, QuotesEnd(depth), NEW forbidden,
         NEW command, command.words \in Seq(DOMAIN Base),
         NEW text \in QuotedTexts
  PROVE  Judgement(command, forbidden)[text] <=> CommandContainsForbidden(text, forbidden)
PROOF
<1> DEFINE f == Judgement(command, forbidden)
           g == Judgement(text, forbidden)
<1>1. text.words \in Seq(DOMAIN Base)
  BY DEF QuotesEnd
<1>2. Judges(f, {command} \cup QuotedTexts, forbidden)
  BY IsJudgement
<1>3. Judges(g, {text} \cup QuotedTexts, forbidden)
      /\ CommandContainsForbidden(text, forbidden) = g[text]
  BY <1>1, IsJudgement
<1> HIDE DEF f, g
<1>4. f[text] <=> g[text]
  <2>1. QuotedTexts \subseteq {command} \cup QuotedTexts /\ QuotedTexts \subseteq {text} \cup QuotedTexts
    OBVIOUS
  <2> QED BY <1>2, <1>3, <2>1, OneJudgement
<1> QED BY <1>3, <1>4, Zenon DEF f

(* A command line that begins with a shell is judged by what it hands to  *)
(* it, whatever the number of shells: a command contains a forbidden one  *)
(* exactly when it invokes it or, a shell being its first word, hands on  *)
(* a text that contains it; and a word more never hides one.  So for      *)
(* every command line whose quotes end (audit.rs,                         *)
(* command_contains_forbidden and shell_payload_matches).                 *)
THEOREM ShellsHideNothing ==
  ASSUME NEW depth, QuotesEnd(depth), NEW words \in Seq(DOMAIN Base), NEW word \in DOMAIN Base,
         NEW needle \in Seq(DOMAIN Base), needle # <<>>
  PROVE  LET Command(w) == [words |-> w, balanced |-> TRUE]
             Contained(w) == CommandContainsForbidden(Command(w), Command(needle))
         IN  /\ Contained(words) <=>
                  \/ InvocationMatches(words, needle)
                  \/ \E text \in Payloads(words) : CommandContainsForbidden(text, Command(needle))
             /\ Contained(words) => Contained(Append(words, word))
PROOF
<1> DEFINE Command(w) == [words |-> w, balanced |-> TRUE]
           forbidden == Command(needle)
<1>1. ASSUME NEW w \in Seq(DOMAIN Base)
      PROVE  CommandContainsForbidden(Command(w), forbidden) <=>
               \/ InvocationMatches(w, needle)
               \/ \E text \in Payloads(w) : CommandContainsForbidden(text, forbidden)
  <2> DEFINE c == Command(w)
             f == Judgement(c, forbidden)
  <2>1. c.words = w /\ c.balanced /\ forbidden.words = needle /\ forbidden.balanced
    OBVIOUS
  <2> HIDE DEF c, forbidden
  <2>2. c.words \in Seq(DOMAIN Base)
    BY <2>1
  <2>3. /\ Judges(f, {c} \cup QuotedTexts, forbidden)
        /\ CommandContainsForbidden(c, forbidden) = f[c]
    BY <2>2, IsJudgement
  <2>4. HandedOn(c, forbidden) = Payloads(w)
    BY <2>1, Zenon DEF HandedOn
  <2>5. IsInvoked(c, forbidden) <=> InvocationMatches(w, needle)
    BY <2>1, Zenon DEF IsInvoked
  <2> HIDE DEF f
  <2>6. f[c] <=> IsInvoked(c, forbidden) \/ \E text \in HandedOn(c, forbidden) : f[text]
    <3>1. \A d \in {c} \cup QuotedTexts :
            f[d] <=> IsInvoked(d, forbidden) \/ \E text \in HandedOn(d, forbidden) : f[text]
      BY <2>3, JudgedOnceEach
    <3> QED BY <3>1
  <2>7. \A text \in Payloads(w) : f[text] <=> CommandContainsForbidden(text, forbidden)
    <3> TAKE text \in Payloads(w)
    <3>1. text \in QuotedTexts
      BY PayloadsAreTexts
    <3> QED BY <2>2, <3>1, TextsAreJudgedAlike DEF f
  <2>8. CommandContainsForbidden(c, forbidden) <=>
          IsInvoked(c, forbidden) \/ \E text \in Payloads(w) : f[text]
    BY <2>3, <2>4, <2>6, Zenon
  <2>9. CommandContainsForbidden(c, forbidden) <=>
          \/ InvocationMatches(w, needle)
          \/ \E text \in Payloads(w) : CommandContainsForbidden(text, forbidden)
    BY <2>5, <2>7, <2>8, Zenon
  <2> QED BY <2>9 DEF c
<1> DEFINE more == Append(words, word)
<1>2. more \in Seq(DOMAIN Base)
  OBVIOUS
<1>3. InvocationMatches(words, needle) => InvocationMatches(more, needle)
  <2>1. <<>> \in Seq(DOMAIN Base)
    OBVIOUS
  <2>2. WordHidesNothing(words, word, needle)
    BY <2>1, NothingHidesInvocations
  <2> QED BY <2>2, Zenon DEF WordHidesNothing, more
<1>4. Payloads(words) \subseteq Payloads(more)
  <2> SUFFICES ASSUME NEW text \in Payloads(words) PROVE text \in Payloads(more)
    OBVIOUS
  <2>1. PICK i \in 1 .. Len(words) - 1 :
          /\ words # <<>> /\ Base[words[1]] \in Shells /\ words[i] \in CommandFlags
          /\ text = Text(words[i + 1])
    BY Zenon DEF Payloads
  <2>2. i \in 1 .. Len(more) - 1 /\ more[i] = words[i] /\ more[i + 1] = words[i + 1] /\ more[1] = words[1]
        /\ more # <<>>
    BY <2>1
  <2> HIDE DEF more
  <2>3. Base[more[1]] \in Shells /\ more[i] \in CommandFlags /\ text = Text(more[i + 1])
    BY <2>1, <2>2, Zenon
  <2> QED BY <2>2, <2>3, Zenon DEF Payloads
<1> HIDE DEF forbidden, more
<1>5. CommandContainsForbidden(Command(words), forbidden) => CommandContainsForbidden(Command(more), forbidden)
  <2>1. CommandContainsForbidden(Command(more), forbidden) <=>
               \/ InvocationMatches(more, needle)
               \/ \E text \in Payloads(more) : CommandContainsForbidden(text, forbidden)
    BY <1>1, <1>2
  <2>2. CommandContainsForbidden(Command(words), forbidden) <=>
               \/ InvocationMatches(words, needle)
               \/ \E text \in Payloads(words) : CommandContainsForbidden(text, forbidden)
    BY <1>1
  <2> HIDE DEF Command
  <2> QED BY <1>3, <1>4, <2>1, <2>2
<1> QED BY <1>1, <1>5 DEF forbidden, more

=============
