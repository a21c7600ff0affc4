------------------------- MODULE CodeListing_proofs -------------------------
(***************************************************************************)
(* Proofs about the layout of code, for every code, every alphabet and     *)
(* every setting of the environment: that the buffer of _formatCode holds, *)
(* that its loops, and those that print its result, come to an end, that   *)
(* no text is lost on the way, how deep lines are indented, and that the   *)
(* formatted code can be read back from what is printed.                   *)
(*                                                                         *)
(* IInv is about types and the buffer.  FormatInv says what the loops that *)
(* format have done so far, WrittenSoFar what the loop that prints has.    *)
(***************************************************************************)
EXTENDS CodeListing, FiniteSetTheorems, SequenceTheorems, TLAPS

(***************************************************************************)
(* In mode "original" nothing is asked for line by line: each character    *)
(* that is left has two bytes left, its own and that of a line end.        *)
(***************************************************************************)
TwiceIsEnough ==
  pc = "format" /\ Mode = "original" =>
    cap = 2 * Len(raw) + 2 /\ Len(out) + 2 * Len(rest) <= 2 * Len(raw)

IInv == TypeOK /\ OutFits /\ TwiceIsEnough

-----------------------------------------------------------------------------

\* Where a loop stops: all before is in kept, and what stands there is not.
LEMMA SpanStops ==
  ASSUME NEW s \in Seq(Chars), NEW kept
  PROVE  /\ Span(s, kept) \in 0..Len(s)
         /\ Span(s, kept) < Len(s) => s[Span(s, kept) + 1] \notin kept
         /\ \A i \in 1..Span(s, kept) : s[i] \in kept
<1> DEFINE P == {i \in DOMAIN s : \A j \in 1..i : s[j] \in kept}
           n == Span(s, kept)
<1>1. Len(s) \in Nat /\ DOMAIN s = 1..Len(s)
  BY LenProperties
<1>2. IsFiniteSet(1..Len(s)) /\ Cardinality(1..Len(s)) = Len(s)
  BY <1>1, FS_Interval
<1>3. IsFiniteSet(P) /\ n \in Nat /\ n <= Len(s)
  <2>1. P \in SUBSET (1..Len(s))
    BY <1>1
  <2>2. IsFiniteSet(P) /\ Cardinality(P) <= Cardinality(1..Len(s))
    BY <1>2, <2>1, FS_Subset
  <2>3. Cardinality(P) \in Nat
    BY <2>2, FS_CardinalityType
  <2> QED BY <1>2, <2>2, <2>3, Zenon DEF Span
<1>4. P = 1..n
  <2>1. ASSUME NEW i \in P PROVE i \in 1..n
    <3>1. i \in Nat /\ i > 0 /\ (1..i) \in SUBSET P
      BY <1>1
    <3>2. Cardinality(1..i) = i
      BY <3>1, FS_Interval
    <3>3. Cardinality(1..i) <= Cardinality(P)
      BY <1>3, <3>1, FS_Subset, Zenon
    <3>4. n = Cardinality(P)
      BY DEF Span
    <3> HIDE DEF n, P
    <3> QED BY <1>3, <3>1, <3>2, <3>3, <3>4
  <2>2. IsFiniteSet(1..n) /\ Cardinality(1..n) = n
    <3> HIDE DEF n
    <3> QED BY <1>3, FS_Interval
  <2>3. P \in SUBSET (1..n) /\ Cardinality(P) = n
    BY <2>1 DEF Span
  <2> HIDE DEF n, P
  <2> QED BY <2>2, <2>3, FS_Subset, Zenon
<1>5. ASSUME n < Len(s) PROVE s[n + 1] \notin kept
  <2>1. n + 1 \notin P
    <3> HIDE DEF n, P
    <3> QED BY <1>3, <1>4
  <2>2. n + 1 \in DOMAIN s
    <3> HIDE DEF n
    <3> QED BY <1>1, <1>3, <1>5
  <2>3. PICK j \in 1..(n + 1) : s[j] \notin kept
    BY <2>1, <2>2
  <2>4. j \notin 1..n
    BY <1>4, <2>3
  <2> HIDE DEF n, P
  <2> QED BY <1>3, <2>3, <2>4
<1>6. n \in 0..Len(s)
  <2> HIDE DEF n
  <2> QED BY <1>1, <1>3
<1>7. ASSUME NEW i \in 1..n PROVE s[i] \in kept
  <2>1. i \in P
    <3> HIDE DEF n, P
    <3> QED BY <1>4
  <2>2. i \in 1..i
    <3> HIDE DEF n
    <3> QED BY <1>3
  <2> QED BY <2>1, <2>2
<1> QED BY <1>5, <1>6, <1>7

LEMMA DropType ==
  ASSUME NEW s \in Seq(Chars), NEW n \in 0..Len(s)
  PROVE  /\ Drop(s, n) \in Seq(Chars) /\ Len(Drop(s, n)) = Len(s) - n
         /\ SubSeq(s, 1, n) \in Seq(Chars) /\ Len(SubSeq(s, 1, n)) = n
         /\ n < Len(s) => Head(Drop(s, n)) = s[n + 1]
<1>1. Len(s) \in Nat /\ \A i \in 1..Len(s) : s[i] \in Chars
  BY LenProperties, ElementOfSeq
<1>2. Drop(s, n) \in Seq(Chars) /\ Len(Drop(s, n)) = Len(s) - n
  <2>1. \A i \in (n + 1)..Len(s) : s[i] \in Chars
    BY <1>1
  <2>2. /\ SubSeq(s, n + 1, Len(s)) \in Seq(Chars)
        /\ Len(SubSeq(s, n + 1, Len(s))) =
             IF n + 1 <= Len(s) THEN Len(s) - (n + 1) + 1 ELSE 0
    BY <1>1, <2>1, SubSeqProperties
  <2> QED BY <1>1, <2>2 DEF Drop
<1>3. SubSeq(s, 1, n) \in Seq(Chars) /\ Len(SubSeq(s, 1, n)) = n
  <2>1. \A i \in 1..n : s[i] \in Chars
    BY <1>1
  <2>2. /\ SubSeq(s, 1, n) \in Seq(Chars)
        /\ Len(SubSeq(s, 1, n)) = IF 1 <= n THEN n - 1 + 1 ELSE 0
    BY <1>1, <2>1, SubSeqProperties
  <2> QED BY <1>1, <2>2
<1>4. ASSUME n < Len(s) PROVE Head(Drop(s, n)) = s[n + 1]
  BY <1>1, <1>4, HeadTailOfSubSeq DEF Drop
<1> QED BY <1>2, <1>3, <1>4

\* A character is stepped over if it is the one looked for.
LEMMA DropIfType ==
  ASSUME NEW s \in Seq(Chars), NEW c
  PROVE  /\ DropIf(s, c) \in Seq(Chars)
         /\ Len(DropIf(s, c)) \in Nat /\ Len(DropIf(s, c)) <= Len(s)
         /\ DropIf(s, c) = s \/ Len(DropIf(s, c)) = Len(s) - 1
         /\ s # <<>> /\ Head(s) = c => Len(DropIf(s, c)) = Len(s) - 1
<1>1. Len(s) \in Nat
  BY LenProperties
<1>2. CASE s # <<>> /\ Head(s) = c
  <2>1. Tail(s) \in Seq(Chars) /\ Len(Tail(s)) = Len(s) - 1
    BY <1>2, HeadTailProperties
  <2>2. Len(Tail(s)) \in Nat
    BY <2>1, LenProperties
  <2>3. DropIf(s, c) = Tail(s)
    BY <1>2 DEF DropIf
  <2>4. Len(Tail(s)) <= Len(s)
    BY <1>1, <2>1
  <2> QED BY <2>1, <2>2, <2>3, <2>4, Zenon
<1>3. CASE ~(s # <<>> /\ Head(s) = c)
  <2>1. DropIf(s, c) = s
    BY <1>3 DEF DropIf
  <2>2. Len(s) <= Len(s)
    BY <1>1
  <2> QED BY <1>1, <1>3, <2>1, <2>2, Zenon
<1> QED BY <1>2, <1>3

\* The end of a line, however it is written, is stepped over.
LEMMA SkipLineEndType ==
  ASSUME NEW s \in Seq(Chars)
  PROVE  /\ SkipLineEnd(s) \in Seq(Chars)
         /\ Len(SkipLineEnd(s)) \in Nat /\ Len(SkipLineEnd(s)) <= Len(s)
         /\ s # <<>> /\ Head(s) \in LineEnd => Len(SkipLineEnd(s)) <= Len(s) - 1
<1> DEFINE d == DropIf(s, "\r")
<1>1. /\ d \in Seq(Chars) /\ Len(d) \in Nat /\ Len(d) <= Len(s)
      /\ d = s \/ Len(d) = Len(s) - 1
      /\ s # <<>> /\ Head(s) = "\r" => Len(d) = Len(s) - 1
  BY DropIfType
<1>2. /\ DropIf(d, "\n") \in Seq(Chars)
      /\ Len(DropIf(d, "\n")) \in Nat /\ Len(DropIf(d, "\n")) <= Len(d)
      /\ d # <<>> /\ Head(d) = "\n" => Len(DropIf(d, "\n")) = Len(d) - 1
  BY <1>1, DropIfType
<1>3. SkipLineEnd(s) = DropIf(d, "\n")
  BY DEF SkipLineEnd
<1>4. Len(s) \in Nat
  BY LenProperties
<1>5. ASSUME s # <<>>, Head(s) \in LineEnd PROVE Len(DropIf(d, "\n")) <= Len(s) - 1
  <2>1. CASE Len(d) = Len(s) - 1
    BY <1>1, <1>2, <1>4, <2>1
  <2>2. CASE d = s /\ Len(d) # Len(s) - 1
    <3>1. Head(s) = "\n"
      BY <1>1, <1>5, <2>2 DEF LineEnd
    <3> QED BY <1>2, <1>4, <1>5, <2>2, <3>1
  <2> QED BY <1>1, <2>1, <2>2
<1> HIDE DEF d
<1> QED BY <1>1, <1>2, <1>3, <1>4, <1>5

LEMMA OneChar ==
  ASSUME NEW c \in Chars
  PROVE  <<c>> \in Seq(Chars) /\ Len(<<c>>) = 1
OBVIOUS

LEMMA ContentType ==
  ASSUME NEW s \in Seq(Chars)
  PROVE  /\ Content(Chopped(s)) \in Seq(Chars)
         /\ Len(Content(Chopped(s))) \in Nat /\ Len(Content(Chopped(s))) <= Len(s)
<1> DEFINE line == Chopped(s)
<1>1. Len(s) \in Nat
  BY LenProperties
<1>2. line \in Seq(Chars) /\ Len(line) \in Nat /\ Len(line) <= Len(s)
  <2>1. CASE s # <<>> /\ Last(s) = "\r"
    <3>1. line = SubSeq(s, 1, Len(s) - 1)
      BY <2>1 DEF Chopped, Front
    <3>2. Len(s) - 1 \in 0..Len(s)
      BY <1>1, <2>1, EmptySeq
    <3> HIDE DEF line
    <3> QED BY <1>1, <3>1, <3>2, DropType
  <2>2. CASE ~(s # <<>> /\ Last(s) = "\r")
    <3>1. line = s
      BY <2>2 DEF Chopped
    <3> HIDE DEF line
    <3> QED BY <1>1, <3>1
  <2> QED BY <2>1, <2>2
<1> HIDE DEF line
<1>3. Span(line, Blank) \in 0..Len(line)
  BY <1>2, SpanStops
<1>4. /\ Drop(line, Span(line, Blank)) \in Seq(Chars)
      /\ Len(Drop(line, Span(line, Blank))) = Len(line) - Span(line, Blank)
  BY <1>2, <1>3, DropType
<1>5. Content(line) \in Seq(Chars) /\ Len(Content(line)) \in Nat /\ Len(Content(line)) <= Len(s)
  BY <1>1, <1>2, <1>3, <1>4 DEF Content
<1> QED BY <1>5 DEF line

LEMMA CountType ==
  ASSUME NEW s \in Seq(Chars), NEW c
  PROVE  Count(s, c) \in Nat
<1>1. DOMAIN s = 1..Len(s) /\ Len(s) \in Nat
  BY LenProperties
<1>2. {i \in DOMAIN s : s[i] = c} \in SUBSET (1..Len(s))
  BY <1>1
<1>3. IsFiniteSet(1..Len(s))
  BY <1>1, FS_Interval
<1>4. IsFiniteSet({i \in DOMAIN s : s[i] = c})
  BY <1>2, <1>3, FS_Subset, Zenon
<1> QED BY <1>4, FS_CardinalityType DEF Count

LEMMA LevelAfterType ==
  ASSUME NEW s \in Seq(Chars), NEW indent \in Nat
  PROVE  LevelAfter(indent, s) \in Nat
<1>1. Count(s, "{") \in Nat /\ Count(s, "}") \in Nat
  BY CountType
<1>2. \A a, b \in Nat :
        (IF indent + a - b < 0 THEN 0 ELSE indent + a - b) \in Nat
  OBVIOUS
<1>3. LevelAfter(indent, s) =
        IF indent + Count(s, "{") - Count(s, "}") < 0 THEN 0
        ELSE indent + Count(s, "{") - Count(s, "}")
  BY Zenon DEF LevelAfter
<1> QED BY <1>1, <1>2, <1>3, Zenon

LEMMA SettingType ==
  ASSUME env \in Settings
  PROVE  /\ Double \in {1, 2}
         /\ IndentSize \in Nat \ {0}
<1>1. Double \in {1, 2}
  BY DEF Double
<1>2. env.size \in Int \cup {NULL}
  BY SettingsAssumption DEF Setting
<1>3. IndentSize \in Nat \ {0}
  <2>1. CASE env.size = NULL
    BY <2>1 DEF IndentSize, GetStringOrDefault
  <2>2. CASE env.size # NULL
    BY <1>2, <2>2 DEF IndentSize, GetStringOrDefault
  <2> QED BY <2>1, <2>2
<1> QED BY <1>1, <1>3

LEMMA UnitsType ==
  ASSUME env \in Settings, NEW indent \in Nat
  PROVE  Units(indent) \in Nat
<1>1. IndentSize \in Nat
  BY SettingType
<1>2. indent * IndentSize \in Nat
  <2>1. \A a, b \in Nat : a * b \in Nat
    OBVIOUS
  <2> QED BY <1>1, <2>1
<1> QED BY <1>2 DEF Units

\* A turn of a loop over lines takes the line and what ends it: one character at least.
LEMMA LineTaken ==
  ASSUME NEW s \in Seq(Chars), s # <<>>
  PROVE  LET n == Span(s, Chars \ {"\n"})
             left == DropIf(Drop(s, n), "\n")
         IN  n \in 0..Len(s) /\ left \in Seq(Chars) /\ Len(left) < Len(s)
<1> DEFINE n == Span(s, Chars \ {"\n"})
           d == Drop(s, n)
           left == DropIf(d, "\n")
<1>1. n \in 0..Len(s) /\ (n < Len(s) => s[n + 1] \notin Chars \ {"\n"})
  BY SpanStops
<1>2. Len(s) \in Nat \ {0}
  BY EmptySeq
<1> HIDE DEF n
<1>3. d \in Seq(Chars) /\ Len(d) = Len(s) - n /\ (n < Len(s) => Head(d) = s[n + 1])
  BY <1>1, DropType
<1> HIDE DEF d
<1>4. /\ left \in Seq(Chars) /\ Len(left) \in Nat /\ Len(left) <= Len(d)
      /\ d # <<>> /\ Head(d) = "\n" => Len(left) = Len(d) - 1
  BY <1>3, DropIfType
<1>5. CASE n = Len(s)
  <2> HIDE DEF left
  <2>1. Len(left) < Len(s)
    BY <1>1, <1>2, <1>3, <1>4, <1>5
  <2> QED BY <1>1, <1>4, <2>1 DEF n, d, left
<1>6. CASE n < Len(s)
  <2>1. s[n + 1] = "\n"
    <3>1. n + 1 \in 1..Len(s)
      BY <1>1, <1>2, <1>6
    <3>2. s[n + 1] \in Chars
      BY <3>1, ElementOfSeq
    <3> QED BY <1>1, <1>6, <3>2
  <2>2. d # <<>>
    BY <1>1, <1>2, <1>3, <1>6, EmptySeq
  <2> HIDE DEF left
  <2>3. Len(left) < Len(s)
    BY <1>1, <1>2, <1>3, <1>4, <1>6, <2>1, <2>2
  <2> QED BY <1>1, <1>4, <2>3 DEF n, d, left
<1> QED BY <1>1, <1>2, <1>5, <1>6

\* The same for the lines of mode "original", with the two bytes for each character.
LEMMA RawLineTaken ==
  ASSUME NEW s \in Seq(Chars), s # <<>>
  PROVE  LET n == Span(s, Chars \ LineEnd)
             left == SkipLineEnd(Drop(s, n))
         IN  /\ n \in 0..Len(s) /\ left \in Seq(Chars) /\ Len(left) < Len(s)
             /\ n + 1 + 2 * Len(left) <= 2 * Len(s)
<1> DEFINE n == Span(s, Chars \ LineEnd)
           d == Drop(s, n)
           left == SkipLineEnd(d)
<1>1. n \in 0..Len(s) /\ (n < Len(s) => s[n + 1] \notin Chars \ LineEnd)
  BY SpanStops
<1>2. Len(s) \in Nat \ {0}
  BY EmptySeq
<1> HIDE DEF n
<1>3. d \in Seq(Chars) /\ Len(d) = Len(s) - n /\ (n < Len(s) => Head(d) = s[n + 1])
  BY <1>1, DropType
<1> HIDE DEF d
<1>4. /\ left \in Seq(Chars) /\ Len(left) \in Nat /\ Len(left) <= Len(d)
      /\ d # <<>> /\ Head(d) \in LineEnd => Len(left) <= Len(d) - 1
  BY <1>3, SkipLineEndType
<1>5. Len(left) < Len(s) /\ n + 1 + 2 * Len(left) <= 2 * Len(s)
  <2>1. CASE n = Len(s)
    <3> HIDE DEF left
    <3> QED BY <1>1, <1>2, <1>3, <1>4, <2>1
  <2>2. CASE n < Len(s)
    <3>1. s[n + 1] \in LineEnd
      <4>1. n + 1 \in 1..Len(s)
        BY <1>1, <1>2, <2>2
      <4>2. s[n + 1] \in Chars
        BY <4>1, ElementOfSeq
      <4> QED BY <1>1, <2>2, <4>2
    <3>2. d # <<>>
      BY <1>1, <1>2, <1>3, <2>2, EmptySeq
    <3> HIDE DEF left
    <3> QED BY <1>1, <1>2, <1>3, <1>4, <2>2, <3>1, <3>2
  <2> QED BY <1>1, <1>2, <2>1, <2>2
<1> QED BY <1>1, <1>4, <1>5 DEF n, d, left

LEMMA CopiesType ==
  ASSUME NEW S, NEW k \in Nat, NEW e \in [1..k -> S]
  PROVE  [i \in 1..k |-> e[i]] \in Seq(S) /\ Len([i \in 1..k |-> e[i]]) = k
OBVIOUS

-----------------------------------------------------------------------------

LEMMA InitInv == Init => IInv
<1> SUFFICES ASSUME Init PROVE IInv
  OBVIOUS
<1>1. raw \in Seq(Chars) /\ Len(raw) \in Nat
  BY CodesAssumption, LenProperties DEF Init
<1>2. out = <<>> /\ out \in Seq(Chars) /\ Len(out) = 0 /\ shown \in Seq(Pieces)
  BY EmptySeq DEF Init
<1>3. Double \in {1, 2}
  BY SettingType DEF Init
<1>4. cap \in Nat /\ cap > 0
  <2>1. CASE Mode = "original"
    BY <1>1, <2>1 DEF Init
  <2>2. CASE Mode # "original"
    <3>1. cap = Len(raw) * (1 + Double) + 256
      BY <2>2 DEF Init
    <3>2. CASE Double = 1
      BY <1>1, <3>1, <3>2
    <3>3. CASE Double = 2
      BY <1>1, <3>1, <3>3
    <3> QED BY <1>3, <3>2, <3>3
  <2> QED BY <2>1, <2>2
<1>5. TypeOK
  BY <1>1, <1>2, <1>4 DEF Init, TypeOK
<1>6. OutFits
  BY <1>2, <1>4 DEF OutFits
<1>7. TwiceIsEnough
  <2>1. rest = raw /\ (Mode = "original" => cap = 2 * Len(raw) + 2)
    BY DEF Init
  <2>2. Len(out) + 2 * Len(rest) <= 2 * Len(raw)
    BY <1>1, <1>2, <2>1
  <2> QED BY <2>1, <2>2 DEF TwiceIsEnough
<1> QED BY <1>5, <1>6, <1>7 DEF IInv

LEMMA OriginalLineInv == IInv /\ OriginalLine => IInv' /\ Len(rest') < Len(rest)
<1> SUFFICES ASSUME IInv, OriginalLine PROVE IInv' /\ Len(rest') < Len(rest)
  OBVIOUS
<1> DEFINE n == Span(rest, Chars \ LineEnd)
           copied == SubSeq(rest, 1, n)
<1>1. TypeOK /\ OutFits /\ TwiceIsEnough
  BY DEF IInv
<1>2. n \in 0..Len(rest) /\ rest' \in Seq(Chars) /\ Len(rest') < Len(rest)
      /\ n + 1 + 2 * Len(rest') <= 2 * Len(rest)
  <2>1. rest \in Seq(Chars) /\ rest # <<>> /\ rest' = SkipLineEnd(Drop(rest, n))
    BY <1>1 DEF TypeOK, OriginalLine
  <2> QED BY <2>1, RawLineTaken
<1>3. copied \in Seq(Chars) /\ Len(copied) = n
  <2> HIDE DEF n
  <2> QED BY <1>1, <1>2, DropType DEF TypeOK
<1>4. <<"\n">> \in Seq(Chars) /\ Len(<<"\n">>) = 1
  BY CharsAssumption, OneChar DEF LineEnd
<1>5. out' = (out \o copied) \o <<"\n">>
  BY DEF OriginalLine
<1> HIDE DEF copied
<1>6. out' \in Seq(Chars) /\ Len(out') = Len(out) + n + 1
  <2>1. out \o copied \in Seq(Chars) /\ Len(out \o copied) = Len(out) + Len(copied)
    BY <1>1, <1>3, ConcatProperties DEF TypeOK
  <2>2. out' \in Seq(Chars) /\ Len(out') = Len(out \o copied) + Len(<<"\n">>)
    BY <1>4, <1>5, <2>1, ConcatProperties
  <2> QED BY <1>3, <1>4, <2>1, <2>2
<1>7. pc = "format" /\ Mode = "original" /\ UNCHANGED <<raw, env, pc, cap, level, shown>>
  BY DEF OriginalLine
<1>8. TypeOK'
  BY <1>1, <1>2, <1>6, <1>7 DEF TypeOK
<1>9. cap = 2 * Len(raw) + 2 /\ Len(out') + 2 * Len(rest') <= 2 * Len(raw)
  <2>1. Len(out) \in Nat /\ Len(rest) \in Nat /\ Len(rest') \in Nat /\ Len(raw) \in Nat
    BY <1>1, <1>2, CodesAssumption, LenProperties DEF TypeOK
  <2>2. cap = 2 * Len(raw) + 2 /\ Len(out) + 2 * Len(rest) <= 2 * Len(raw)
    BY <1>1, <1>7 DEF TwiceIsEnough
  <2> HIDE DEF n
  <2> QED BY <1>2, <1>6, <2>1, <2>2
<1>10. OutFits'
  <2>1. Len(out') \in Nat /\ Len(rest') \in Nat /\ Len(raw) \in Nat
    BY <1>1, <1>2, <1>6, CodesAssumption, LenProperties DEF TypeOK
  <2>2. Len(out') < cap
    BY <1>9, <2>1
  <2> QED BY <1>7, <2>2 DEF OutFits
<1>11. TwiceIsEnough'
  BY <1>7, <1>9 DEF TwiceIsEnough
<1> QED BY <1>2, <1>8, <1>10, <1>11 DEF IInv

LEMMA FormatLineInv == IInv /\ FormatLine => IInv' /\ Len(rest') < Len(rest)
<1> SUFFICES ASSUME IInv, FormatLine PROVE IInv' /\ Len(rest') < Len(rest)
  OBVIOUS
<1> DEFINE n == Span(rest, Chars \ {"\n"})
           line == SubSeq(rest, 1, n)
           content == Content(Chopped(line))
           auto == Mode = "auto"
           closes == content # <<>> /\ Head(content) = "}" /\ level > 0 /\ auto
           indent == IF closes THEN level - 1 ELSE level
           margin == [i \in 1..Units(indent) |-> IF Tabs THEN "\t" ELSE " "]
           ends == [i \in 1..Double |-> "\n"]
<1>1. TypeOK /\ OutFits
  BY DEF IInv
<1>2. /\ cap' = IF Need(n, indent) >= cap THEN Need(n, indent) + 256 ELSE cap
      /\ out' = ((out \o margin) \o content) \o ends
      /\ level' = IF auto THEN LevelAfter(indent, content) ELSE indent
      /\ rest' = DropIf(Drop(rest, n), "\n")
  BY DEF FormatLine
<1>3. pc = "format" /\ Mode # "original" /\ rest # <<>> /\ UNCHANGED <<raw, env, pc, shown>>
  BY DEF FormatLine
<1>4. n \in 0..Len(rest) /\ rest' \in Seq(Chars) /\ Len(rest') < Len(rest)
  <2>1. rest \in Seq(Chars)
    BY <1>1 DEF TypeOK
  <2> QED BY <1>2, <1>3, <2>1, LineTaken
<1> HIDE DEF n
<1>5. content \in Seq(Chars) /\ Len(content) \in Nat /\ Len(content) <= n
  <2>1. line \in Seq(Chars) /\ Len(line) = n
    BY <1>1, <1>4, DropType DEF TypeOK
  <2> HIDE DEF line
  <2> QED BY <2>1, ContentType
<1> HIDE DEF content
<1>6. indent \in Nat
  <2>1. level \in Nat
    BY <1>1 DEF TypeOK
  <2>2. CASE closes
    <3>1. indent = level - 1 /\ level > 0
      BY <2>2
    <3> HIDE DEF indent
    <3> QED BY <2>1, <3>1
  <2>3. CASE ~closes
    BY <2>1, <2>3
  <2> QED BY <2>2, <2>3
<1> HIDE DEF indent, auto
<1>7. Double \in {1, 2} /\ Units(indent) \in Nat
  BY <1>1, <1>6, SettingType, UnitsType DEF TypeOK
<1>8. margin \in Seq(Chars) /\ Len(margin) = Units(indent)
  <2>1. \A i \in 1..Units(indent) : (IF Tabs THEN "\t" ELSE " ") \in Chars
    BY CharsAssumption DEF Blank
  <2>2. margin \in [1..Units(indent) -> Chars]
    BY <2>1
  <2>3. margin = [i \in 1..Units(indent) |-> margin[i]]
    OBVIOUS
  <2> HIDE DEF margin
  <2> QED BY <1>7, <2>2, <2>3, CopiesType
<1>9. ends \in Seq(Chars) /\ Len(ends) = Double
  <2>1. "\n" \in Chars
    BY CharsAssumption DEF LineEnd
  <2>2. ends \in [1..Double -> Chars] /\ ends = [i \in 1..Double |-> ends[i]] /\ Double \in Nat
    BY <1>7, <2>1
  <2> HIDE DEF ends
  <2> QED BY <2>2, CopiesType
<1> HIDE DEF margin, ends
<1>10. out' \in Seq(Chars) /\ Len(out') = Len(out) + Units(indent) + Len(content) + Double
  <2>1. out \o margin \in Seq(Chars) /\ Len(out \o margin) = Len(out) + Units(indent)
    BY <1>1, <1>8, ConcatProperties DEF TypeOK
  <2>2. /\ (out \o margin) \o content \in Seq(Chars)
        /\ Len((out \o margin) \o content) = Len(out \o margin) + Len(content)
    BY <1>5, <2>1, ConcatProperties
  <2>3. /\ ((out \o margin) \o content) \o ends \in Seq(Chars)
        /\ Len(((out \o margin) \o content) \o ends) =
             Len((out \o margin) \o content) + Double
    BY <1>9, <2>2, ConcatProperties
  <2> QED BY <1>2, <2>1, <2>2, <2>3, Zenon
<1>11. Len(out) \in Nat /\ Len(rest) \in Nat /\ cap \in Nat
  BY <1>1, LenProperties DEF TypeOK
<1>12. Need(n, indent) \in Nat /\ Len(out') < Need(n, indent)
  <2>1. Need(n, indent) = Len(out) + (n + 1) * Double + 16 + Units(indent) + 8
    BY Zenon DEF Need
  <2>2. CASE Double = 1
    BY <1>4, <1>5, <1>7, <1>10, <1>11, <2>1, <2>2
  <2>3. CASE Double = 2
    BY <1>4, <1>5, <1>7, <1>10, <1>11, <2>1, <2>3
  <2> QED BY <1>7, <2>2, <2>3
<1>13. Len(out') < cap' /\ cap' \in Nat
  <2>1. Len(out') \in Nat
    BY <1>5, <1>7, <1>10, <1>11
  <2> QED BY <1>2, <1>11, <1>12, <2>1
<1>14. level' \in Nat
  BY <1>2, <1>5, <1>6, LevelAfterType
<1>15. TypeOK'
  BY <1>1, <1>3, <1>4, <1>10, <1>13, <1>14 DEF TypeOK
<1>16. TwiceIsEnough'
  BY <1>3 DEF TwiceIsEnough, Mode
<1> QED BY <1>4, <1>13, <1>15, <1>16 DEF IInv, OutFits

LEMMA BreakType ==
  ASSUME NEW first \in BOOLEAN, NEW left
  PROVE  Break(first, left) \in Seq(Pieces)
<1>1. "\n" \in Pieces /\ Cut \in Pieces
  BY DEF Pieces
<1>2. ASSUME NEW a \in Pieces, NEW b \in Pieces PROVE <<a>> \in Seq(Pieces) /\ <<a, b>> \in Seq(Pieces)
  OBVIOUS
<1> QED BY <1>1, <1>2, Zenon DEF Break

LEMMA WriteLineInv == IInv /\ WriteLine => IInv' /\ Len(rest') < Len(rest)
<1> SUFFICES ASSUME IInv, WriteLine PROVE IInv' /\ Len(rest') < Len(rest)
  OBVIOUS
<1> DEFINE n == Span(rest, Chars \ {"\n"})
           left == DropIf(Drop(rest, n), "\n")
           line == [i \in 1..n |-> Piece(rest[i])]
           end == IF n < Len(rest) THEN Break(n = 0 /\ rest = out, left) ELSE <<>>
<1>1. TypeOK /\ OutFits
  BY DEF IInv
<1>2. shown' = (shown \o line) \o end /\ rest' = left
  BY DEF WriteLine
<1>3. pc = "write" /\ rest # <<>> /\ UNCHANGED <<raw, env, pc, out, cap, level>>
  BY DEF WriteLine
<1>4. n \in 0..Len(rest) /\ rest' \in Seq(Chars) /\ Len(rest') < Len(rest)
  BY <1>1, <1>2, <1>3, LineTaken DEF TypeOK
<1> HIDE DEF n, left
<1>5. line \in Seq(Pieces)
  <2>1. Len(rest) \in Nat /\ n \in Nat /\ \A i \in 1..n : rest[i] \in Chars
    BY <1>1, <1>4, LenProperties, ElementOfSeq DEF TypeOK
  <2>2. \A i \in 1..n : Piece(rest[i]) \in Pieces
    BY <2>1, Zenon DEF Pieces
  <2>3. line \in [1..n -> Pieces] /\ line = [i \in 1..n |-> line[i]]
    BY <2>2
  <2> HIDE DEF line
  <2> QED BY <2>1, <2>3, CopiesType
<1>6. end \in Seq(Pieces)
  BY BreakType, EmptySeq, Zenon
<1> HIDE DEF line, end
<1>7. shown' \in Seq(Pieces)
  BY <1>1, <1>2, <1>5, <1>6, ConcatProperties DEF TypeOK
<1>8. TypeOK'
  BY <1>1, <1>3, <1>4, <1>7 DEF TypeOK
<1>9. OutFits'
  BY <1>1, <1>3 DEF OutFits
<1>10. TwiceIsEnough'
  BY <1>3 DEF TwiceIsEnough
<1> QED BY <1>4, <1>8, <1>9, <1>10 DEF IInv

LEMMA EndsInv ==
  /\ IInv /\ FormatEnd => IInv' /\ pc' # pc
  /\ IInv /\ WriteEnd => IInv' /\ pc' # pc
<1>1. ASSUME IInv, FormatEnd PROVE IInv' /\ pc' # pc
  BY <1>1 DEF IInv, TypeOK, OutFits, TwiceIsEnough, FormatEnd
<1>2. ASSUME IInv, WriteEnd PROVE IInv' /\ pc' # pc
  BY <1>2 DEF IInv, TypeOK, OutFits, TwiceIsEnough, WriteEnd
<1> QED BY <1>1, <1>2

LEMMA StutterInv == IInv /\ UNCHANGED vars => IInv'
BY DEF IInv, TypeOK, OutFits, TwiceIsEnough, Mode, vars

LEMMA Invariance == Spec => []IInv
<1>1. IInv /\ [Next]_vars => IInv'
  BY OriginalLineInv, FormatLineInv, WriteLineInv, EndsInv, StutterInv, Zenon DEF Next
<1> QED BY <1>1, InitInv, PTL DEF Spec

(***************************************************************************)
(* CodeListing.TypeOK: characters stay characters, the level and the size  *)
(* of the buffer never fall below zero.                                    *)
(***************************************************************************)
THEOREM TypeCorrect == Spec => []TypeOK
<1>1. IInv => TypeOK
  BY DEF IInv
<1> QED BY <1>1, Invariance, PTL

(***************************************************************************)
(* CodeListing.OutFits: neither the copy of mode "original", which is      *)
(* sized once, nor the formatting, which grows its buffer line by line,    *)
(* writes past its end (_formatCode, Generator.c:168 and 205-206).         *)
(***************************************************************************)
THEOREM BufferHolds == Spec => []OutFits
<1>1. IInv => OutFits
  BY DEF IInv
<1> QED BY <1>1, Invariance, PTL

(***************************************************************************)
(* CodeListing.LoopsAdvance: no turn of a loop leaves as much to read as   *)
(* it found, whatever ends the lines (Generator.c:170-178, 188-231 and     *)
(* 287-320).                                                               *)
(***************************************************************************)
THEOREM Advance == Spec => LoopsAdvance
<1>1. IInv /\ [Next]_vars => [pc' = pc => Len(rest') < Len(rest)]_vars
  BY OriginalLineInv, FormatLineInv, WriteLineInv, EndsInv, Zenon DEF Next
<1> QED BY <1>1, Invariance, PTL DEF Spec, LoopsAdvance

-----------------------------------------------------------------------------

\* Concatenation: what can be seen of two texts put together.

\* A set of positions moved on.
Beyond(d, Q) == {d + j : j \in Q}

LEMMA Shifted ==
  ASSUME NEW Q \in SUBSET Int, IsFiniteSet(Q), NEW d \in Int,
         NEW T, T = Beyond(d, Q)
  PROVE  IsFiniteSet(T) /\ Cardinality(T) = Cardinality(Q)
<1> DEFINE f == [j \in Q |-> d + j]
<1>1. f \in Bijection(Q, T)
  <2>1. f \in [Q -> T]
    BY DEF Beyond
  <2>2. \A a, b \in Q : d + a = d + b => a = b
    OBVIOUS
  <2>3. \A a, b \in Q : f[a] = f[b] => a = b
    BY <2>2
  <2>4. \A e \in T : \E a \in Q : f[a] = e
    BY DEF Beyond
  <2> HIDE DEF f
  <2>5. f \in Injection(Q, T)
    BY <2>1, <2>3, Zenon DEF Injection, IsInjective
  <2>6. f \in Surjection(Q, T)
    BY <2>1, <2>4, Zenon DEF Surjection
  <2> QED BY <2>5, <2>6, Zenon DEF Bijection
<1>2. ExistsBijection(Q, T)
  BY <1>1 DEF ExistsBijection
<1> QED BY <1>2, FS_Bijection

\* The elements of s, then those of x.
LEMMA Concat ==
  ASSUME NEW S, NEW s \in Seq(S), NEW x \in Seq(S), NEW u, u = s \o x,
         NEW n, n = Len(s), NEW m, m = Len(x)
  PROVE  /\ u \in Seq(S) /\ n \in Nat /\ m \in Nat /\ Len(u) = n + m
         /\ DOMAIN s = 1..n /\ DOMAIN x = 1..m /\ DOMAIN u = 1..(n + m)
         /\ \A k \in 1..n : u[k] = s[k]
         /\ \A j \in 1..m : u[n + j] = x[j]
<1>1. /\ u \in Seq(S) /\ Len(u) = n + m
      /\ \A k \in 1..(n + m) : u[k] = IF k <= n THEN s[k] ELSE x[k - n]
  BY ConcatProperties
<1>2. n \in Nat /\ m \in Nat /\ DOMAIN s = 1..n /\ DOMAIN x = 1..m /\ DOMAIN u = 1..(n + m)
  BY <1>1, LenProperties
<1>3. \A k \in 1..n : u[k] = s[k]
  <2>1. \A k \in 1..n : k \in 1..(n + m) /\ k <= n
    BY <1>2
  <2> QED BY <1>1, <2>1
<1>4. \A j \in 1..m : u[n + j] = x[j]
  <2>1. \A j \in 1..m : n + j \in 1..(n + m) /\ ~(n + j <= n) /\ (n + j) - n = j
    BY <1>2
  <2> QED BY <1>1, <2>1
<1> QED BY <1>1, <1>2, <1>3, <1>4

(***************************************************************************)
(* Positions in a concatenation: those of the first part, and those of the *)
(* second shifted by its length.                                           *)
(***************************************************************************)
LEMMA ConcatCount ==
  \A n, m \in Nat : \A P \in SUBSET (1..n), Q \in SUBSET (1..m) :
    Cardinality(P \cup Beyond(n, Q)) = Cardinality(P) + Cardinality(Q)
<1> SUFFICES ASSUME NEW n \in Nat, NEW m \in Nat,
                    NEW P \in SUBSET (1..n), NEW Q \in SUBSET (1..m)
             PROVE  Cardinality(P \cup Beyond(n, Q)) = Cardinality(P) + Cardinality(Q)
  OBVIOUS
<1> DEFINE T == Beyond(n, Q)
<1>1. IsFiniteSet(P) /\ IsFiniteSet(Q) /\ Q \in SUBSET Int
  <2>1. IsFiniteSet(1..n) /\ IsFiniteSet(1..m)
    BY FS_Interval
  <2>2. IsFiniteSet(P) /\ IsFiniteSet(Q)
    BY <2>1, FS_Subset, Zenon
  <2>3. Q \in SUBSET Int
    OBVIOUS
  <2> QED BY <2>2, <2>3
<1>2. IsFiniteSet(T) /\ Cardinality(T) = Cardinality(Q)
  BY <1>1, Shifted, n \in Int, Zenon
<1>3. P \cap T = {}
  BY DEF Beyond
<1> HIDE DEF T
<1>4. /\ IsFiniteSet(P \cup T)
      /\ Cardinality(P \cup T) = Cardinality(P) + Cardinality(T) - Cardinality(P \cap T)
  BY <1>1, <1>2, FS_Union
<1>5. Cardinality(P \cap T) = 0 /\ Cardinality(P) \in Nat /\ Cardinality(Q) \in Nat
  BY <1>1, <1>3, FS_EmptySet, FS_CardinalityType
<1> QED BY <1>2, <1>4, <1>5 DEF T

LEMMA UpToGrows ==
  ASSUME NEW P \in SUBSET Int, IsFiniteSet(P), NEW k \in Int, NEW l \in Int, k <= l
  PROVE  /\ UpTo(P, k) \in Nat /\ UpTo(P, l) \in Nat /\ UpTo(P, k) <= UpTo(P, l)
         /\ k < l /\ l \in P => UpTo(P, k) < UpTo(P, l)
<1> DEFINE A == {i \in P : i <= k}
           B == {i \in P : i <= l}
<1>1. A \in SUBSET B /\ B \in SUBSET P /\ (k < l => l \notin A)
  <2>1. \A i \in P : i <= k => i <= l
    OBVIOUS
  <2>2. k < l => ~(l <= k)
    OBVIOUS
  <2> QED BY <2>1, <2>2
<1>2. l \in P => l \in B
  OBVIOUS
<1>3. UpTo(P, k) = Cardinality(A) /\ UpTo(P, l) = Cardinality(B)
  BY DEF UpTo
<1> HIDE DEF A, B
<1>4. IsFiniteSet(B)
  BY <1>1, FS_Subset
<1>5. IsFiniteSet(A) /\ Cardinality(A) <= Cardinality(B) /\ (Cardinality(B) = Cardinality(A) => B = A)
  BY <1>1, <1>4, FS_Subset
<1>6. Cardinality(A) \in Nat /\ Cardinality(B) \in Nat
  BY <1>4, <1>5, FS_CardinalityType
<1>7. k < l /\ l \in P => Cardinality(A) # Cardinality(B)
  BY <1>1, <1>2, <1>5
<1> QED BY <1>3, <1>5, <1>6, <1>7

\* Up to n the positions R are those of P, and after it those of Q moved on by n.
Placed(R, P, Q, n, m) ==
  /\ \A k \in 0..n : UpTo(R, k) = UpTo(P, k)
  /\ \A j \in 0..m : UpTo(R, n + j) = UpTo(P, n) + UpTo(Q, j)

LEMMA ConcatUpTo ==
  \A n, m \in Nat : \A P \in SUBSET (1..n), Q \in SUBSET (1..m) :
    Placed(P \cup Beyond(n, Q), P, Q, n, m)
<1> SUFFICES ASSUME NEW n \in Nat, NEW m \in Nat,
                    NEW P \in SUBSET (1..n), NEW Q \in SUBSET (1..m),
                    NEW R, R = P \cup Beyond(n, Q)
             PROVE  Placed(R, P, Q, n, m)
  OBVIOUS
<1>1. ASSUME NEW k \in 0..n PROVE UpTo(R, k) = UpTo(P, k)
  <2>1. {i \in R : i <= k} = {i \in P : i <= k}
    BY DEF Beyond
  <2> QED BY <2>1 DEF UpTo
<1>2. ASSUME NEW j \in 0..m PROVE UpTo(R, n + j) = UpTo(P, n) + UpTo(Q, j)
  <2> DEFINE A == {i \in P : i <= n}
             B == {i \in Q : i <= j}
             C == {i \in R : i <= n + j}
  <2>1. A \in SUBSET (1..n) /\ B \in SUBSET (1..m)
    OBVIOUS
  <2>2. C = A \cup Beyond(n, B)
    <3>1. \A i \in P : i <= n /\ i <= n + j
      OBVIOUS
    <3>2. \A i \in Q : n + i <= n + j <=> i <= j
      OBVIOUS
    <3> QED BY <3>1, <3>2 DEF Beyond
  <2>3. UpTo(R, n + j) = Cardinality(C) /\ UpTo(P, n) = Cardinality(A) /\ UpTo(Q, j) = Cardinality(B)
    BY DEF UpTo
  <2> HIDE DEF A, B, C
  <2>4. Cardinality(C) = Cardinality(A) + Cardinality(B)
    BY <2>1, <2>2, ConcatCount, Zenon
  <2> QED BY <2>3, <2>4
<1> QED BY <1>1, <1>2 DEF Placed

-----------------------------------------------------------------------------

\* The positions of a text are finitely many numbers.
LEMMA VisibleType ==
  ASSUME NEW s \in Seq(Chars)
  PROVE  IsFiniteSet(Visible(s)) /\ Visible(s) \in SUBSET Int /\ Visible(s) \in SUBSET (1..Len(s))
<1>1. Len(s) \in Nat /\ DOMAIN s = 1..Len(s)
  BY LenProperties
<1>2. IsFiniteSet(1..Len(s)) /\ Visible(s) \in SUBSET (1..Len(s))
  BY <1>1, FS_Interval DEF Visible
<1> QED BY <1>2, FS_Subset

\* What can be seen of u is what can be seen of s, then that of x; n and m are their lengths.
Joined(s, x, u, n, m) ==
  /\ \A k \in 0..n : Seen(u, k) = Seen(s, k)
  /\ \A j \in 0..m : Seen(u, n + j) = Seen(s, n) + Seen(x, j)
  /\ \A k \in Visible(u) : k \in Visible(s) \/ \E j \in Visible(x) : j \in 1..m /\ k = n + j

LEMMA VisibleConcat ==
  ASSUME NEW s \in Seq(Chars), NEW x \in Seq(Chars), NEW u, u = s \o x, NEW n, n = Len(s),
         NEW m, m = Len(x)
  PROVE  Joined(s, x, u, n, m)
<1>1. /\ n \in Nat /\ m \in Nat /\ Len(u) = n + m
      /\ DOMAIN s = 1..n /\ DOMAIN x = 1..m /\ DOMAIN u = 1..(n + m)
      /\ \A k \in 1..n : u[k] = s[k]
      /\ \A j \in 1..m : u[n + j] = x[j]
  BY Concat
<1>2. Visible(s) \in SUBSET (1..n) /\ Visible(x) \in SUBSET (1..m)
  BY <1>1 DEF Visible
<1>3. ASSUME NEW k \in Visible(u)
      PROVE  k \in Visible(s) \/ \E j \in Visible(x) : j \in 1..m /\ k = n + j
  <2>1. k \in 1..(n + m) /\ u[k] \notin Blank \cup LineEnd
    BY <1>1 DEF Visible
  <2>2. CASE k \in 1..n
    BY <1>1, <2>1, <2>2 DEF Visible
  <2>3. CASE k \notin 1..n
    <3>1. k - n \in 1..m /\ k = n + (k - n)
      BY <1>1, <2>1, <2>3
    <3>2. x[k - n] \notin Blank \cup LineEnd
      BY <1>1, <2>1, <3>1
    <3> QED BY <1>1, <3>1, <3>2 DEF Visible
  <2> QED BY <2>2, <2>3
<1>4. \A k \in Visible(s) : k \in Visible(u)
  <2>1. \A k \in 1..n : k \in 1..(n + m)
    BY <1>1
  <2> QED BY <1>1, <2>1 DEF Visible
<1>5. \A j \in Visible(x) : n + j \in Visible(u)
  <2>1. \A j \in 1..m : n + j \in 1..(n + m)
    BY <1>1
  <2> QED BY <1>1, <2>1 DEF Visible
<1>6. Visible(u) = Visible(s) \cup Beyond(n, Visible(x))
  BY <1>3, <1>4, <1>5 DEF Beyond
<1>7. Placed(Visible(u), Visible(s), Visible(x), n, m)
  BY <1>1, <1>2, <1>6, ConcatUpTo, Zenon
<1> QED BY <1>3, <1>7 DEF Joined, Placed, Seen

LEMMA SeenGrows ==
  ASSUME NEW s \in Seq(Chars), NEW k \in Int, NEW l \in Int, k <= l
  PROVE  /\ Seen(s, k) \in Nat /\ Seen(s, l) \in Nat /\ Seen(s, k) <= Seen(s, l)
         /\ k < l /\ l \in Visible(s) => Seen(s, k) < Seen(s, l)
<1>1. IsFiniteSet(Visible(s)) /\ Visible(s) \in SUBSET Int
  BY VisibleType
<1> QED BY <1>1, UpToGrows DEF Seen

LEMMA TextTurned ==
  ASSUME NEW s, NEW t, SameText(s, t)
  PROVE  SameText(t, s)
BY DEF SameText

\* What cannot be seen may be added.
LEMMA TextBlank ==
  ASSUME NEW s \in Seq(Chars), NEW t \in Seq(Chars), SameText(s, t),
         NEW x \in Seq(Chars), \A j \in 1..Len(x) : x[j] \in Blank \cup LineEnd
  PROVE  SameText(s \o x, t)
<1> SUFFICES ASSUME NEW u, u = s \o x, NEW n, n = Len(s), NEW m, m = Len(x)
             PROVE  SameText(u, t)
  OBVIOUS
<1>1. n \in Nat /\ m \in Nat /\ Len(u) = n + m /\ DOMAIN x = 1..m /\ DOMAIN s = 1..n
  BY Concat
<1>2. Visible(x) = {} /\ Visible(s) \subseteq 1..n
  BY <1>1 DEF Visible
<1>3. /\ \A k \in 0..n : Seen(u, k) = Seen(s, k)
      /\ \A j \in 0..m : Seen(u, n + j) = Seen(s, n) + Seen(x, j)
      /\ \A k \in Visible(u) : k \in Visible(s) \/ \E j \in Visible(x) : k = n + j
  <2>1. Joined(s, x, u, n, m)
    BY VisibleConcat
  <2> QED BY <2>1 DEF Joined
<1>4. Seen(x, m) = 0 /\ Seen(s, n) \in Nat
  <2>1. {i \in Visible(x) : i <= m} = {}
    BY <1>2
  <2>2. Seen(x, m) = 0
    BY <2>1, FS_EmptySet DEF Seen, UpTo
  <2>3. n \in Int /\ n <= n
    BY <1>1
  <2> QED BY <2>2, <2>3, SeenGrows
<1>5. Seen(u, Len(u)) = Seen(s, n)
  <2>1. m \in 0..m
    BY <1>1
  <2> QED BY <1>1, <1>3, <1>4, <2>1
<1>6. ASSUME NEW k \in Visible(u), NEW l \in Visible(t), Seen(u, k) = Seen(t, l)
      PROVE  u[k] = t[l]
  <2>1. k \in Visible(s) /\ k \in 1..n /\ k \in 0..n
    BY <1>1, <1>2, <1>3
  <2>2. u[k] = s[k]
    BY <2>1, Concat
  <2>3. Seen(s, k) = Seen(t, l)
    BY <1>3, <1>6, <2>1
  <2> QED BY <2>1, <2>2, <2>3 DEF SameText
<1> QED BY <1>5, <1>6 DEF SameText

\* The same may be added to both.
LEMMA TextBoth ==
  ASSUME NEW s \in Seq(Chars), NEW t \in Seq(Chars), SameText(s, t), NEW x \in Seq(Chars)
  PROVE  SameText(s \o x, t \o x)
<1> SUFFICES ASSUME NEW u, u = s \o x, NEW v, v = t \o x, NEW n, n = Len(s), NEW h, h = Len(t),
                    NEW m, m = Len(x)
             PROVE  SameText(u, v)
  OBVIOUS
<1>1. /\ n \in Nat /\ m \in Nat /\ Len(u) = n + m /\ DOMAIN s = 1..n /\ DOMAIN x = 1..m
      /\ \A k \in 1..n : u[k] = s[k]
      /\ \A j \in 1..m : u[n + j] = x[j]
  BY Concat
<1>2. /\ h \in Nat /\ Len(v) = h + m /\ DOMAIN t = 1..h
      /\ \A k \in 1..h : v[k] = t[k]
      /\ \A j \in 1..m : v[h + j] = x[j]
  BY Concat
<1>3. Visible(s) \subseteq 1..n /\ Visible(t) \subseteq 1..h /\ Visible(x) \subseteq 1..m
  BY <1>1, <1>2 DEF Visible
<1>4. /\ \A k \in 0..n : Seen(u, k) = Seen(s, k)
      /\ \A j \in 0..m : Seen(u, n + j) = Seen(s, n) + Seen(x, j)
      /\ \A k \in Visible(u) : k \in Visible(s) \/ \E j \in Visible(x) : j \in 1..m /\ k = n + j
  <2>1. Joined(s, x, u, n, m)
    BY VisibleConcat
  <2> QED BY <2>1 DEF Joined
<1>5. /\ \A k \in 0..h : Seen(v, k) = Seen(t, k)
      /\ \A j \in 0..m : Seen(v, h + j) = Seen(t, h) + Seen(x, j)
      /\ \A k \in Visible(v) : k \in Visible(t) \/ \E j \in Visible(x) : j \in 1..m /\ k = h + j
  <2>1. Joined(t, x, v, h, m)
    BY VisibleConcat
  <2> QED BY <2>1 DEF Joined
<1>6. Seen(s, n) = Seen(t, h) /\ Seen(s, n) \in Nat
  <2>1. n \in Int /\ n <= n
    BY <1>1
  <2> QED BY <2>1, SeenGrows DEF SameText
<1>7. Seen(u, Len(u)) = Seen(v, Len(v))
  <2>1. m \in 0..m
    BY <1>1
  <2> QED BY <1>1, <1>2, <1>4, <1>5, <1>6, <2>1
<1>8. \A j \in Visible(x) : j \in 0..m /\ Seen(x, j) \in Nat /\ Seen(x, j) > 0
  <2> SUFFICES ASSUME NEW j \in Visible(x) PROVE j \in 0..m /\ Seen(x, j) \in Nat /\ Seen(x, j) > 0
    OBVIOUS
  <2>1. j \in 1..m /\ 0 < j
    BY <1>1, <1>3
  <2>2. Seen(x, 0) \in Nat /\ Seen(x, j) \in Nat /\ Seen(x, 0) < Seen(x, j)
    BY <2>1, SeenGrows
  <2> QED BY <1>1, <2>1, <2>2
<1>9. ASSUME NEW k \in Visible(u), NEW l \in Visible(v), Seen(u, k) = Seen(v, l)
      PROVE  u[k] = v[l]
  <2>1. ASSUME NEW i \in Visible(s)
        PROVE  i \in 1..n /\ Seen(u, i) = Seen(s, i) /\ Seen(s, i) \in Nat /\ Seen(s, i) <= Seen(s, n)
    <3>1. i \in 1..n /\ i \in 0..n /\ i <= n /\ i \in Int /\ n \in Int
      BY <1>1, <1>3
    <3> QED BY <1>4, <3>1, SeenGrows
  <2>2. ASSUME NEW i \in Visible(t)
        PROVE  i \in 1..h /\ Seen(v, i) = Seen(t, i) /\ Seen(t, i) \in Nat /\ Seen(t, i) <= Seen(t, h)
    <3>1. i \in 1..h /\ i \in 0..h /\ i <= h /\ i \in Int /\ h \in Int
      BY <1>2, <1>3
    <3> QED BY <1>5, <3>1, SeenGrows
  <2>3. CASE k \in Visible(s) /\ l \in Visible(t)
    <3>1. Seen(s, k) = Seen(t, l)
      BY <1>9, <2>1, <2>2, <2>3
    <3>2. s[k] = t[l]
      BY <2>3, <3>1 DEF SameText
    <3> QED BY <1>1, <1>2, <2>1, <2>2, <2>3, <3>2
  <2>4. CASE k \in Visible(s) /\ \E j \in Visible(x) : l = h + j
    <3>1. PICK j \in Visible(x) : l = h + j
      BY <2>4
    <3>2. Seen(v, l) = Seen(t, h) + Seen(x, j) /\ Seen(x, j) \in Nat /\ Seen(x, j) > 0
      BY <1>5, <1>8, <3>1
    <3>3. Seen(u, k) \in Nat /\ Seen(u, k) <= Seen(s, n)
      BY <2>1, <2>4
    <3> QED BY <1>6, <1>9, <3>2, <3>3
  <2>5. CASE l \in Visible(t) /\ \E j \in Visible(x) : k = n + j
    <3>1. PICK j \in Visible(x) : k = n + j
      BY <2>5
    <3>2. Seen(u, k) = Seen(s, n) + Seen(x, j) /\ Seen(x, j) \in Nat /\ Seen(x, j) > 0
      BY <1>4, <1>8, <3>1
    <3>3. Seen(v, l) \in Nat /\ Seen(v, l) <= Seen(t, h)
      BY <2>2, <2>5
    <3> QED BY <1>6, <1>9, <3>2, <3>3
  <2>6. ASSUME NEW i \in Visible(x), k = n + i, NEW j \in Visible(x), l = h + j
        PROVE  u[k] = v[l]
    <3>1. Seen(u, k) = Seen(s, n) + Seen(x, i) /\ Seen(v, l) = Seen(s, n) + Seen(x, j)
      BY <1>4, <1>5, <1>6, <1>8, <2>6
    <3>2. Seen(x, i) = Seen(x, j)
      <4>1. Seen(x, i) \in Nat /\ Seen(x, j) \in Nat
        BY <1>8
      <4>2. Seen(s, n) + Seen(x, i) = Seen(s, n) + Seen(x, j)
        BY <1>9, <3>1
      <4> QED BY <1>6, <4>1, <4>2
    <3>3. i \in 1..m /\ j \in 1..m
      BY <1>3
    <3>4. i = j
      <4>1. i \in Int /\ j \in Int
        BY <1>1, <3>3
      <4>2. CASE i < j
        <5>1. Seen(x, i) < Seen(x, j) /\ Seen(x, i) \in Nat
          BY <4>1, <4>2, SeenGrows
        <5> QED BY <3>2, <5>1
      <4>3. CASE j < i
        <5>1. Seen(x, j) < Seen(x, i) /\ Seen(x, i) \in Nat
          BY <4>1, <4>3, SeenGrows
        <5> QED BY <3>2, <5>1
      <4> QED BY <4>1, <4>2, <4>3
    <3> QED BY <1>1, <1>2, <2>6, <3>3, <3>4
  <2> QED BY <1>4, <1>5, <2>3, <2>4, <2>5, <2>6
<1> QED BY <1>7, <1>9 DEF SameText

LEMMA CountConcat ==
  ASSUME NEW s \in Seq(Chars), NEW x \in Seq(Chars), NEW c
  PROVE  Count(s \o x, c) = Count(s, c) + Count(x, c)
<1> SUFFICES ASSUME NEW u, u = s \o x, NEW n, n = Len(s), NEW m, m = Len(x)
             PROVE  Count(u, c) = Count(s, c) + Count(x, c)
  OBVIOUS
<1> DEFINE P == {i \in DOMAIN s : s[i] = c}
           Q == {i \in DOMAIN x : x[i] = c}
           R == {i \in DOMAIN u : u[i] = c}
<1>1. /\ n \in Nat /\ m \in Nat
      /\ DOMAIN s = 1..n /\ DOMAIN x = 1..m /\ DOMAIN u = 1..(n + m)
      /\ \A k \in 1..n : u[k] = s[k]
      /\ \A j \in 1..m : u[n + j] = x[j]
  BY Concat
<1>2. P \in SUBSET (1..n) /\ Q \in SUBSET (1..m)
  BY <1>1
<1>3. R = P \cup Beyond(n, Q)
  <2>1. ASSUME NEW k \in R PROVE k \in P \cup Beyond(n, Q)
    <3>1. CASE k \in 1..n
      BY <1>1, <3>1
    <3>2. CASE k \notin 1..n
      <4>1. k - n \in 1..m /\ k = n + (k - n)
        BY <1>1, <3>2
      <4>2. k - n \in Q
        BY <1>1, <4>1
      <4> QED BY <4>1, <4>2 DEF Beyond
    <3> QED BY <3>1, <3>2
  <2>2. ASSUME NEW k \in P PROVE k \in R
    BY <1>1
  <2>3. ASSUME NEW j \in Q PROVE n + j \in R
    <3>1. j \in 1..m /\ n + j \in 1..(n + m)
      BY <1>1
    <3> QED BY <1>1, <3>1
  <2> QED BY <2>1, <2>2, <2>3 DEF Beyond
<1>4. Count(u, c) = Cardinality(R) /\ Count(s, c) = Cardinality(P) /\ Count(x, c) = Cardinality(Q)
  BY DEF Count
<1> HIDE DEF P, Q, R
<1>5. n \in Nat /\ m \in Nat
  BY <1>1
<1>6. Cardinality(R) = Cardinality(P) + Cardinality(Q)
  <2>1. \A A \in SUBSET (1..n), B \in SUBSET (1..m) :
          Cardinality(A \cup Beyond(n, B)) = Cardinality(A) + Cardinality(B)
    BY <1>5, ConcatCount, Zenon
  <2>2. Cardinality(P \cup Beyond(n, Q)) = Cardinality(P) + Cardinality(Q)
    BY <1>2, <2>1, Zenon
  <2> QED BY <1>3, <2>2, Zenon
<1> QED BY <1>4, <1>6

LEMMA CountNone ==
  ASSUME NEW s \in Seq(Chars), NEW c, \A i \in 1..Len(s) : s[i] # c
  PROVE  Count(s, c) = 0
<1>1. {i \in DOMAIN s : s[i] = c} = {}
  BY LenProperties
<1> QED BY <1>1, FS_EmptySet DEF Count

\* A text falls into two where one likes.
LEMMA Split ==
  ASSUME NEW S, NEW s \in Seq(S), NEW n \in 0..Len(s)
  PROVE  /\ SubSeq(s, 1, n) \in Seq(S) /\ SubSeq(s, n + 1, Len(s)) \in Seq(S)
         /\ s = SubSeq(s, 1, n) \o SubSeq(s, n + 1, Len(s))
         /\ Len(SubSeq(s, 1, n)) = n /\ Len(SubSeq(s, n + 1, Len(s))) = Len(s) - n
         /\ \A i \in 1..n : SubSeq(s, 1, n)[i] = s[i]
         /\ \A i \in 1..(Len(s) - n) : SubSeq(s, n + 1, Len(s))[i] = s[n + i]
<1>1. Len(s) \in Nat /\ \A i \in 1..Len(s) : s[i] \in S
  BY LenProperties, ElementOfSeq
<1>2. /\ SubSeq(s, 1, n) \in Seq(S) /\ Len(SubSeq(s, 1, n)) = n
      /\ \A i \in 1..n : SubSeq(s, 1, n)[i] = s[i]
  <2>1. \A i \in 1..n : s[i] \in S
    BY <1>1
  <2>2. /\ SubSeq(s, 1, n) \in Seq(S)
        /\ Len(SubSeq(s, 1, n)) = IF 1 <= n THEN n - 1 + 1 ELSE 0
        /\ \A i \in 1..(n - 1 + 1) : SubSeq(s, 1, n)[i] = s[1 + i - 1]
    BY <1>1, <2>1, SubSeqProperties
  <2> QED BY <1>1, <2>2
<1>3. /\ SubSeq(s, n + 1, Len(s)) \in Seq(S) /\ Len(SubSeq(s, n + 1, Len(s))) = Len(s) - n
      /\ \A i \in 1..(Len(s) - n) : SubSeq(s, n + 1, Len(s))[i] = s[n + i]
  <2>1. \A i \in (n + 1)..Len(s) : s[i] \in S
    BY <1>1
  <2>2. /\ SubSeq(s, n + 1, Len(s)) \in Seq(S)
        /\ Len(SubSeq(s, n + 1, Len(s))) = IF n + 1 <= Len(s) THEN Len(s) - (n + 1) + 1 ELSE 0
        /\ \A i \in 1..(Len(s) - (n + 1) + 1) : SubSeq(s, n + 1, Len(s))[i] = s[(n + 1) + i - 1]
    BY <1>1, <2>1, SubSeqProperties
  <2> QED BY <1>1, <2>2
<1>4. s = SubSeq(s, 1, n) \o SubSeq(s, n + 1, Len(s))
  <2>1. 1 \in 1..(Len(s) + 1) /\ n \in (1 - 1)..Len(s) /\ Len(s) \in n..Len(s)
    BY <1>1
  <2>2. SubSeq(s, 1, n) \o SubSeq(s, n + 1, Len(s)) = SubSeq(s, 1, Len(s))
    BY <2>1, ConcatAdjacentSubSeq
  <2> QED BY <2>2, SubSeqFull
<1> QED BY <1>2, <1>3, <1>4

\* What has been read of r, when t is left, and b of it is read now.
LEMMA Reading ==
  ASSUME NEW c \in Seq(Chars), NEW b \in Seq(Chars), NEW t \in Seq(Chars),
         NEW left \in Seq(Chars), NEW r, r = c \o t, t = b \o left
  PROVE  /\ c \o b \in Seq(Chars) /\ Len(c \o b) = Len(c) + Len(b)
         /\ r = (c \o b) \o left
         /\ SubSeq(r, 1, Len(r) - Len(left)) = c \o b
<1> SUFFICES ASSUME NEW u, u = c \o b
             PROVE  /\ u \in Seq(Chars) /\ Len(u) = Len(c) + Len(b)
                    /\ r = u \o left /\ SubSeq(r, 1, Len(r) - Len(left)) = u
  OBVIOUS
<1>1. u \in Seq(Chars) /\ Len(u) = Len(c) + Len(b)
  BY ConcatProperties
<1>2. r = u \o left
  BY ConcatAssociative
<1>3. /\ r \in Seq(Chars) /\ Len(u) \in Nat /\ Len(left) \in Nat /\ Len(r) = Len(u) + Len(left)
      /\ \A k \in 1..Len(u) : r[k] = u[k]
  BY <1>1, <1>2, Concat
<1>4. Len(r) - Len(left) = Len(u) /\ Len(u) \in 0..Len(r)
  BY <1>3
<1> SUFFICES ASSUME NEW v, v = SubSeq(r, 1, Len(u)) PROVE v = u
  BY <1>1, <1>2, <1>4
<1>5. v \in Seq(Chars) /\ Len(v) = Len(u) /\ \A i \in 1..Len(u) : v[i] = r[i]
  BY <1>3, <1>4, Split
<1>6. \A i \in 1..Len(v) : v[i] = u[i]
  BY <1>3, <1>5
<1> QED BY <1>1, <1>5, <1>6, SeqEqual

\* A character that is stepped over stood first.
LEMMA DropIfSplits ==
  ASSUME NEW s \in Seq(Chars), NEW c
  PROVE  /\ DropIf(s, c) \in Seq(Chars)
         /\ \/ s # <<>> /\ Head(s) = c /\ c \in Chars /\ s = <<c>> \o DropIf(s, c)
            \/ (s = <<>> \/ Head(s) # c) /\ DropIf(s, c) = s
<1>1. CASE s # <<>> /\ Head(s) = c
  <2>1. DropIf(s, c) = Tail(s) /\ Tail(s) \in Seq(Chars) /\ c \in Chars
    BY <1>1, HeadTailProperties DEF DropIf
  <2>2. Tail(s) = SubSeq(s, 2, Len(s))
    BY <1>1, TailIsSubSeq
  <2>3. Len(s) \in Nat \ {0}
    BY <1>1, EmptySeq
  <2>4. s = SubSeq(s, 1, Len(s)) /\ s[1] = c
    BY <1>1, SubSeqFull
  <2>5. 1 \in 1..Len(s) /\ Len(s) \in 1..Len(s) /\ 1 + 1 = 2
    BY <2>3
  <2>6. SubSeq(s, 1, Len(s)) = <<s[1]>> \o SubSeq(s, 1 + 1, Len(s))
    BY <2>5, SubSeqRecursiveFirst
  <2>7. s = <<c>> \o DropIf(s, c)
    BY <2>1, <2>2, <2>4, <2>5, <2>6
  <2> QED BY <1>1, <2>1, <2>7
<1>2. CASE ~(s # <<>> /\ Head(s) = c)
  BY <1>2 DEF DropIf
<1> QED BY <1>1, <1>2

-----------------------------------------------------------------------------

\* Where a turn of a loop cuts what is left to read.

(***************************************************************************)
(* What a turn of the loop over lines reads: a line, what ended it, if     *)
(* anything did, and the rest.                                             *)
(***************************************************************************)
LineOf(s, n, left, e) ==
  /\ n \in 0..Len(s) /\ SubSeq(s, 1, n) \in Seq(Chars) /\ Len(SubSeq(s, 1, n)) = n
  /\ e \in Seq(Chars) /\ left \in Seq(Chars)
  /\ s = (SubSeq(s, 1, n) \o e) \o left

LEMMA LineSplits ==
  ASSUME NEW s \in Seq(Chars), NEW n, n = Span(s, Chars \ {"\n"}),
         NEW left, left = DropIf(Drop(s, n), "\n")
  PROVE  \E e \in {<<>>, <<"\n">>} : LineOf(s, n, left, e) /\ (e = <<>> => left = <<>>)
<1> DEFINE d == Drop(s, n)
           b == SubSeq(s, 1, n)
<1>1. n \in 0..Len(s) /\ (n < Len(s) => s[n + 1] \notin Chars \ {"\n"})
  BY SpanStops
<1>2. Len(s) \in Nat /\ n \in Nat
  BY <1>1, LenProperties
<1>3. /\ b \in Seq(Chars) /\ Len(b) = n /\ d \in Seq(Chars) /\ s = b \o d /\ Len(d) = Len(s) - n
  BY <1>1, Split DEF Drop
<1>4. n < Len(s) => Head(d) = "\n"
  <2>1. ASSUME n < Len(s) PROVE s[n + 1] \in Chars
    <3>1. n + 1 \in 1..Len(s)
      BY <1>2, <2>1
    <3> QED BY <3>1, ElementOfSeq
  <2>2. n < Len(s) => s[n + 1] = "\n"
    BY <1>1, <2>1
  <2> QED BY <1>1, <2>2, DropType
<1>5. n = Len(s) => d = <<>>
  BY <1>2, <1>3, EmptySeq
<1>6. /\ left \in Seq(Chars)
      /\ \/ d # <<>> /\ Head(d) = "\n" /\ "\n" \in Chars /\ d = <<"\n">> \o left
         \/ (d = <<>> \/ Head(d) # "\n") /\ left = d
  BY <1>3, DropIfSplits
<1>7. <<>> \in Seq(Chars) /\ <<"\n">> \in Seq(Chars)
  BY CharsAssumption, OneChar DEF LineEnd
<1>8. CASE d # <<>> /\ Head(d) = "\n" /\ d = <<"\n">> \o left
  <2> HIDE DEF b, d
  <2>1. (b \o <<"\n">>) \o left = b \o (<<"\n">> \o left)
    BY <1>3, <1>6, <1>7, ConcatAssociative
  <2>2. LineOf(s, n, left, <<"\n">>)
    BY <1>1, <1>3, <1>6, <1>7, <1>8, <2>1 DEF LineOf, b
  <2> QED BY <2>2
<1>9. CASE (d = <<>> \/ Head(d) # "\n") /\ left = d
  <2>1. left = <<>>
    BY <1>1, <1>2, <1>4, <1>5, <1>9
  <2> HIDE DEF b, d
  <2>2. b \o <<>> = b /\ (b \o <<>>) \o left = b \o left
    BY <1>3, ConcatEmptySeq
  <2>3. LineOf(s, n, left, <<>>)
    BY <1>1, <1>3, <1>6, <1>7, <1>9, <2>2 DEF LineOf, b
  <2> QED BY <2>1, <2>3
<1> QED BY <1>6, <1>8, <1>9

\* What ends a line in mode "original", and nothing at the end of the code.
Ends == {<<>>, <<"\n">>, <<"\r">>, <<"\r">> \o <<"\n">>}

(***************************************************************************)
(* The same in mode "original": a carriage return that ends a line takes   *)
(* the "\n" after it along.                                                *)
(***************************************************************************)
RawLineOf(s, n, left, e) ==
  /\ LineOf(s, n, left, e)
  /\ e = <<>> => left = <<>>
  /\ e = <<"\r">> /\ left # <<>> => Head(left) # "\n"

LEMMA RawLineSplits ==
  ASSUME NEW s \in Seq(Chars), NEW n, n = Span(s, Chars \ LineEnd),
         NEW left, left = SkipLineEnd(Drop(s, n))
  PROVE  \E e \in Ends : RawLineOf(s, n, left, e)
<1> SUFFICES \E e \in {<<>>, <<"\n">>, <<"\r">>, <<"\r">> \o <<"\n">>} :
               /\ LineOf(s, n, left, e)
               /\ e = <<>> => left = <<>>
               /\ e = <<"\r">> /\ left # <<>> => Head(left) # "\n"
  BY Zenon DEF Ends, RawLineOf
<1> DEFINE d == Drop(s, n)
           m == DropIf(d, "\r")
           b == SubSeq(s, 1, n)
<1>1. n \in 0..Len(s) /\ (n < Len(s) => s[n + 1] \notin Chars \ LineEnd)
  BY SpanStops
<1>2. Len(s) \in Nat /\ n \in Nat
  BY <1>1, LenProperties
<1>3. /\ b \in Seq(Chars) /\ Len(b) = n /\ d \in Seq(Chars) /\ s = b \o d /\ Len(d) = Len(s) - n
  BY <1>1, Split DEF Drop
<1>4. n < Len(s) => Head(d) \in LineEnd
  <2>1. ASSUME n < Len(s) PROVE s[n + 1] \in Chars
    <3>1. n + 1 \in 1..Len(s)
      BY <1>2, <2>1
    <3> QED BY <3>1, ElementOfSeq
  <2>2. n < Len(s) => s[n + 1] \in LineEnd
    BY <1>1, <2>1
  <2> QED BY <1>1, <2>2, DropType
<1>5. n = Len(s) => d = <<>>
  BY <1>2, <1>3, EmptySeq
<1>6. /\ m \in Seq(Chars)
      /\ \/ d # <<>> /\ Head(d) = "\r" /\ "\r" \in Chars /\ d = <<"\r">> \o m
         \/ (d = <<>> \/ Head(d) # "\r") /\ m = d
  BY <1>3, DropIfSplits
<1>7. /\ left \in Seq(Chars)
      /\ \/ m # <<>> /\ Head(m) = "\n" /\ "\n" \in Chars /\ m = <<"\n">> \o left
         \/ (m = <<>> \/ Head(m) # "\n") /\ left = m
  BY <1>6, DropIfSplits DEF SkipLineEnd
<1>8. <<>> \in Seq(Chars) /\ <<"\n">> \in Seq(Chars) /\ <<"\r">> \in Seq(Chars) /\ <<"\r">> \o <<"\n">> \in Seq(Chars)
  <2>1. "\n" \in Chars /\ "\r" \in Chars
    BY CharsAssumption DEF LineEnd
  <2> QED BY <2>1
<1>9. ASSUME NEW e \in Seq(Chars), d = e \o left
      PROVE  LineOf(s, n, left, e)
  <2>1. (b \o e) \o left = b \o (e \o left)
    <3>1. b \in Seq(Chars) /\ left \in Seq(Chars)
      BY <1>3, <1>7
    <3> HIDE DEF b
    <3> QED BY <3>1, <1>9, ConcatAssociative
  <2> HIDE DEF d, m
  <2> QED BY <1>1, <1>3, <1>7, <1>9, <2>1 DEF LineOf, b
<1> HIDE DEF b, d, m
<1>10. CASE d # <<>> /\ Head(d) = "\r" /\ d = <<"\r">> \o m
  <2>1. CASE m # <<>> /\ Head(m) = "\n" /\ m = <<"\n">> \o left
    <3>1. d = (<<"\r">> \o <<"\n">>) \o left
      BY <1>7, <1>8, <1>10, <2>1, ConcatAssociative
    <3>2. LineOf(s, n, left, <<"\r">> \o <<"\n">>)
      BY <1>8, <1>9, <3>1
    <3>3. Len(<<"\r">> \o <<"\n">>) = 2 /\ Len(<<>>) = 0 /\ Len(<<"\r">>) = 1
      OBVIOUS
    <3>4. <<"\r">> \o <<"\n">> # <<>> /\ <<"\r">> \o <<"\n">> # <<"\r">>
      <4> SUFFICES ASSUME NEW e, Len(e) = 2 PROVE e # <<>> /\ e # <<"\r">>
        BY <3>3, Zenon
      <4> QED BY <3>3
    <3> QED BY <3>2, <3>4, Zenon
  <2>2. CASE (m = <<>> \/ Head(m) # "\n") /\ left = m
    <3>1. LineOf(s, n, left, <<"\r">>)
      BY <1>8, <1>9, <1>10, <2>2
    <3> QED BY <2>2, <3>1
  <2> QED BY <1>7, <2>1, <2>2
<1>11. CASE (d = <<>> \/ Head(d) # "\r") /\ m = d
  <2>1. CASE m # <<>> /\ Head(m) = "\n" /\ m = <<"\n">> \o left
    <3>1. LineOf(s, n, left, <<"\n">>)
      BY <1>8, <1>9, <1>11, <2>1
    <3>2. <<"\n">> # <<>> /\ <<"\n">> # <<"\r">>
      <4>1. <<"\n">>[1] # <<"\r">>[1]
        OBVIOUS
      <4> QED BY <4>1
    <3> QED BY <3>1, <3>2
  <2>2. CASE (m = <<>> \/ Head(m) # "\n") /\ left = m
    <3>1. left = <<>> /\ d = <<>>
      BY <1>1, <1>2, <1>4, <1>5, <1>11, <2>2 DEF LineEnd
    <3>2. d = <<>> \o left
      BY <3>1, <1>8, ConcatEmptySeq
    <3>3. LineOf(s, n, left, <<>>)
      BY <1>8, <1>9, <3>2
    <3>4. <<>> # <<"\r">>
      OBVIOUS
    <3> QED BY <3>1, <3>3, <3>4
  <2> QED BY <1>7, <2>1, <2>2
<1> QED BY <1>6, <1>10, <1>11

(***************************************************************************)
(* A line is its content between blanks and, perhaps, a carriage return.   *)
(***************************************************************************)
LEMMA ContentSplits ==
  ASSUME NEW s \in Seq(Chars), NEW c, c = Content(Chopped(s))
  PROVE  \E a, z \in Seq(Chars) :
           /\ c \in Seq(Chars) /\ s = (a \o c) \o z
           /\ \A i \in 1..Len(a) : a[i] \in Blank
           /\ \A i \in 1..Len(z) : z[i] \in LineEnd
<1>1. <<>> \in Seq(Chars) /\ <<"\r">> \in Seq(Chars) /\ Len(s) \in Nat
  BY CharsAssumption, OneChar, LenProperties DEF LineEnd
<1>2. PICK z \in {<<>>, <<"\r">>} :
        Chopped(s) \in Seq(Chars) /\ s = Chopped(s) \o z
  <2>1. CASE s # <<>> /\ Last(s) = "\r"
    <3>1. Len(s) - 1 \in 0..Len(s) /\ Len(s) \in 1..Len(s) /\ Len(s) - 1 + 1 = Len(s)
      BY <1>1, <2>1, EmptySeq
    <3>2. /\ SubSeq(s, 1, Len(s) - 1) \in Seq(Chars)
          /\ s = SubSeq(s, 1, Len(s) - 1) \o SubSeq(s, Len(s), Len(s))
          /\ Len(SubSeq(s, Len(s), Len(s))) = 1 /\ SubSeq(s, Len(s), Len(s)) \in Seq(Chars)
          /\ SubSeq(s, Len(s), Len(s))[1] = s[Len(s)]
      <4> SUFFICES ASSUME NEW h, h = Len(s) - 1, NEW l, l = Len(s)
                   PROVE  /\ SubSeq(s, 1, h) \in Seq(Chars)
                          /\ s = SubSeq(s, 1, h) \o SubSeq(s, l, l)
                          /\ Len(SubSeq(s, l, l)) = 1 /\ SubSeq(s, l, l) \in Seq(Chars)
                          /\ SubSeq(s, l, l)[1] = s[l]
        OBVIOUS
      <4>1. h \in 0..Len(s) /\ h + 1 = Len(s) /\ Len(s) - h = 1
        BY <1>1, <3>1
      <4>2. /\ SubSeq(s, 1, h) \in Seq(Chars) /\ SubSeq(s, h + 1, Len(s)) \in Seq(Chars)
            /\ s = SubSeq(s, 1, h) \o SubSeq(s, h + 1, Len(s))
            /\ Len(SubSeq(s, h + 1, Len(s))) = Len(s) - h
            /\ \A i \in 1..(Len(s) - h) : SubSeq(s, h + 1, Len(s))[i] = s[h + i]
        BY <4>1, Split
      <4> QED BY <4>1, <4>2
    <3>3. s[Len(s)] = "\r"
      BY <2>1 DEF Last
    <3>4. SubSeq(s, Len(s), Len(s)) = <<"\r">>
      <4> SUFFICES ASSUME NEW e \in Seq(Chars), Len(e) = 1, e[1] = "\r" PROVE e = <<"\r">>
        BY <3>2, <3>3
      <4> QED OBVIOUS
    <3>5. Chopped(s) = SubSeq(s, 1, Len(s) - 1)
      BY <2>1 DEF Chopped, Front
    <3> QED BY <3>2, <3>4, <3>5
  <2>2. CASE ~(s # <<>> /\ Last(s) = "\r")
    <3>1. Chopped(s) = s /\ s \o <<>> = s
      BY <2>2, ConcatEmptySeq DEF Chopped
    <3> QED BY <3>1
  <2> QED BY <2>1, <2>2
<1> DEFINE line == Chopped(s)
           n == Span(line, Blank)
<1>3. n \in 0..Len(line) /\ \A i \in 1..n : line[i] \in Blank
  BY <1>2, SpanStops
<1> HIDE DEF line, n
<1>4. /\ SubSeq(line, 1, n) \in Seq(Chars) /\ c \in Seq(Chars) /\ line = SubSeq(line, 1, n) \o c
      /\ Len(SubSeq(line, 1, n)) = n /\ \A i \in 1..n : SubSeq(line, 1, n)[i] = line[i]
  <2>1. line \in Seq(Chars)
    BY <1>2 DEF line
  <2>2. c = SubSeq(line, n + 1, Len(line))
    BY DEF Content, Drop, line, n
  <2> QED BY <1>3, <2>1, <2>2, Split
<1>5. \A i \in 1..Len(z) : z[i] \in LineEnd
  BY DEF LineEnd
<1>6. z \in Seq(Chars)
  BY <1>1
<1>7. s = (SubSeq(line, 1, n) \o c) \o z
  BY <1>2, <1>4 DEF line
<1> QED BY <1>3, <1>4, <1>5, <1>6, <1>7

-----------------------------------------------------------------------------

\* A turn of the loop that formats, and the text it reads and writes.

\* What is left is what has not been read.
ReadSoFar == pc = "format" => Consumed \in Seq(Chars) /\ raw = Consumed \o rest

\* A turn of the loop begins where a line does.
AtLineStart ==
  pc = "format" /\ Mode # "original" /\ rest # <<>> =>
    Consumed = <<>> \/ raw[Len(Consumed)] = "\n"

LEMMA Assoc == \A a, b, c \in Seq(Chars) : (a \o b) \o c = a \o (b \o c)
BY ConcatAssociative

Regrouped(c, a, k, z, e) == (((c \o a) \o k) \o z) \o e = c \o (((a \o k) \o z) \o e)

LEMMA Regroup ==
  ASSUME NEW c \in Seq(Chars), NEW a \in Seq(Chars), NEW k \in Seq(Chars),
         NEW z \in Seq(Chars), NEW e \in Seq(Chars)
  PROVE  Regrouped(c, a, k, z, e)
<1> DEFINE ak == a \o k
           akz == ak \o z
<1>1. ak \in Seq(Chars) /\ akz \in Seq(Chars)
  BY ConcatProperties
<1>2. (c \o a) \o k = c \o ak
  BY Assoc, Zenon
<1> HIDE DEF ak
<1>3. (c \o ak) \o z = c \o akz
  BY <1>1, Assoc, Zenon
<1> HIDE DEF akz
<1>4. (c \o akz) \o e = c \o (akz \o e)
  BY <1>1, Assoc, Zenon
<1> QED BY <1>2, <1>3, <1>4, Zenon DEF ak, akz, Regrouped

\* Blanks, the content and blanks are written for blanks, the content and blanks.
LEMMA TextOfLine ==
  ASSUME NEW t \in Seq(Chars), NEW c \in Seq(Chars), SameText(t, c),
         NEW margin \in Seq(Chars), \A i \in 1..Len(margin) : margin[i] \in Blank,
         NEW a \in Seq(Chars), \A i \in 1..Len(a) : a[i] \in Blank,
         NEW k \in Seq(Chars),
         NEW z \in Seq(Chars), \A i \in 1..Len(z) : z[i] \in LineEnd,
         NEW e \in Seq(Chars), \A i \in 1..Len(e) : e[i] \in LineEnd,
         NEW ends \in Seq(Chars), \A i \in 1..Len(ends) : ends[i] \in LineEnd
  PROVE  SameText(((t \o margin) \o k) \o ends, (((c \o a) \o k) \o z) \o e)
<1>1. SameText(t \o margin, c)
  BY TextBlank
<1>2. t \o margin \in Seq(Chars) /\ c \o a \in Seq(Chars)
  BY ConcatProperties
<1>3. SameText(c \o a, t \o margin)
  BY <1>1, <1>2, TextTurned, TextBlank
<1>4. SameText((c \o a) \o k, (t \o margin) \o k)
  BY <1>2, <1>3, TextBoth
<1>5. (t \o margin) \o k \in Seq(Chars) /\ (c \o a) \o k \in Seq(Chars)
  BY <1>2, ConcatProperties
<1>6. SameText(((c \o a) \o k) \o z, (t \o margin) \o k) /\ ((c \o a) \o k) \o z \in Seq(Chars)
  BY <1>4, <1>5, TextBlank, ConcatProperties
<1>7. /\ SameText((((c \o a) \o k) \o z) \o e, (t \o margin) \o k)
      /\ (((c \o a) \o k) \o z) \o e \in Seq(Chars)
  BY <1>5, <1>6, TextBlank, ConcatProperties
<1>8. SameText(((t \o margin) \o k) \o ends, (((c \o a) \o k) \o z) \o e)
  <2>1. SameText((t \o margin) \o k, (((c \o a) \o k) \o z) \o e)
    BY <1>7, TextTurned
  <2> QED BY <1>5, <1>7, <2>1, TextBlank
<1> QED BY <1>8

\* Only the content k of a line has braces: w is c with the line added.
BracesAdd(c, k, w, x) == Count(w, x) = Count(c, x) + Count(k, x)

LEMMA BracesOfLine ==
  ASSUME NEW c \in Seq(Chars), NEW x, x \notin Blank \cup LineEnd,
         NEW a \in Seq(Chars), \A i \in 1..Len(a) : a[i] \in Blank,
         NEW k \in Seq(Chars),
         NEW z \in Seq(Chars), \A i \in 1..Len(z) : z[i] \in LineEnd,
         NEW e \in Seq(Chars), \A i \in 1..Len(e) : e[i] \in LineEnd
  PROVE  BracesAdd(c, k, c \o (((a \o k) \o z) \o e), x)
<1>1. a \o k \in Seq(Chars) /\ (a \o k) \o z \in Seq(Chars) /\ ((a \o k) \o z) \o e \in Seq(Chars)
  BY ConcatProperties
<1>2. Count(a, x) = 0 /\ Count(z, x) = 0 /\ Count(e, x) = 0
  BY CountNone
<1>3. /\ Count(c \o (((a \o k) \o z) \o e), x) = Count(c, x) + Count(((a \o k) \o z) \o e, x)
      /\ Count(((a \o k) \o z) \o e, x) = Count((a \o k) \o z, x) + Count(e, x)
      /\ Count((a \o k) \o z, x) = Count(a \o k, x) + Count(z, x)
      /\ Count(a \o k, x) = Count(a, x) + Count(k, x)
  <2>1. \A s, t \in Seq(Chars) : Count(s \o t, x) = Count(s, x) + Count(t, x)
    BY CountConcat
  <2> QED BY <1>1, <2>1, Zenon
<1>4. Count(c, x) \in Nat /\ Count(k, x) \in Nat
  BY CountType
<1> QED BY <1>2, <1>3, <1>4 DEF BracesAdd

\* A turn of a loop reads the text b.
LEMMA ReadsOn ==
  ASSUME ReadSoFar, pc = "format", NEW b \in Seq(Chars), NEW left \in Seq(Chars),
         rest = b \o left, rest' = left, raw' = raw, rest \in Seq(Chars)
  PROVE  /\ Consumed' = Consumed \o b /\ Consumed' \in Seq(Chars)
         /\ raw = Consumed' \o left
<1> SUFFICES ASSUME NEW c, c = Consumed, NEW r, r = raw, NEW t, t = rest
             PROVE  /\ SubSeq(r, 1, Len(r) - Len(left)) = c \o b /\ c \o b \in Seq(Chars)
                    /\ r = (c \o b) \o left
  BY DEF Consumed
<1>1. c \in Seq(Chars) /\ r = c \o t /\ t = b \o left /\ t \in Seq(Chars)
  BY DEF ReadSoFar
<1> QED BY <1>1, Reading

Opens(s) == Count(s, "{")
Closings(s) == Count(s, "}")

\* The content of a line begins with a brace that closes one.
Closes(k) == k # <<>> /\ Head(k) = "}" /\ level > 0 /\ Mode = "auto"
Indent(k) == IF Closes(k) THEN level - 1 ELSE level

(***************************************************************************)
(* What a turn of the loop over lines reads and writes: the line is blanks *)
(* a, its content k, a carriage return or none z, and its end e.           *)
(***************************************************************************)
Turn(a, k, z, e, margin, ends) ==
  /\ \A i \in 1..Len(a) : a[i] \in Blank
  /\ \A i \in 1..Len(z) : z[i] \in LineEnd
  /\ \A i \in 1..Len(e) : e[i] \in LineEnd
  /\ \A i \in 1..Len(margin) : margin[i] \in Blank
  /\ \A i \in 1..Len(ends) : ends[i] \in LineEnd
  /\ rest = (((a \o k) \o z) \o e) \o rest'
  /\ out' = ((out \o margin) \o k) \o ends
  /\ (e = <<"\n">> \/ (e = <<>> /\ rest' = <<>>))
  /\ level' = IF Mode = "auto" THEN LevelAfter(Indent(k), k) ELSE Indent(k)
  /\ Indent(k) \in Nat

LEMMA TurnTaken ==
  ASSUME IInv, FormatLine
  PROVE  \E a, k, z, e, margin, ends \in Seq(Chars) : Turn(a, k, z, e, margin, ends)
<1> DEFINE n == Span(rest, Chars \ {"\n"})
           line == SubSeq(rest, 1, n)
           k == Content(Chopped(line))
           margin == [i \in 1..Units(Indent(k)) |-> IF Tabs THEN "\t" ELSE " "]
           ends == [i \in 1..Double |-> "\n"]
<1>1. rest \in Seq(Chars) /\ level \in Nat /\ env \in Settings
  BY DEF IInv, TypeOK
<1>2. /\ out' = ((out \o margin) \o k) \o ends
      /\ level' = IF Mode = "auto" THEN LevelAfter(Indent(k), k) ELSE Indent(k)
      /\ rest' = DropIf(Drop(rest, n), "\n")
  BY Zenon DEF FormatLine, Closes, Indent
<1> HIDE DEF n
<1>3. PICK e \in {<<>>, <<"\n">>} : LineOf(rest, n, rest', e) /\ (e = <<>> => rest' = <<>>)
  <2>1. n = Span(rest, Chars \ {"\n"})
    BY DEF n
  <2> QED BY <1>1, <1>2, <2>1, LineSplits
<1> HIDE DEF line, k
<1>4. PICK a \in Seq(Chars), z \in Seq(Chars) :
        /\ k \in Seq(Chars) /\ line = (a \o k) \o z
        /\ \A i \in 1..Len(a) : a[i] \in Blank
        /\ \A i \in 1..Len(z) : z[i] \in LineEnd
  <2>1. line \in Seq(Chars) /\ k = Content(Chopped(line))
    BY <1>3 DEF LineOf, line, k
  <2> QED BY <2>1, ContentSplits
<1>5. e \in Seq(Chars) /\ rest = (((a \o k) \o z) \o e) \o rest' /\ \A i \in 1..Len(e) : e[i] \in LineEnd
  <2>1. e \in Seq(Chars) /\ rest = (line \o e) \o rest'
    BY <1>3 DEF LineOf, line
  <2>2. \A i \in 1..Len(e) : e[i] \in LineEnd
    BY <1>3 DEF LineEnd
  <2> QED BY <1>4, <2>1, <2>2, Zenon
<1>6. Indent(k) \in Nat
  <2>1. Closes(k) => level > 0
    BY Zenon DEF Closes
  <2> QED BY <1>1, <2>1 DEF Indent
<1>7. margin \in Seq(Chars) /\ \A i \in 1..Len(margin) : margin[i] \in Blank
  <2>1. (IF Tabs THEN "\t" ELSE " ") \in Blank
    BY Zenon DEF Blank
  <2>2. \A c : c \in Blank => c \in Chars
    BY CharsAssumption
  <2>3. Units(Indent(k)) \in Nat
    BY <1>1, <1>6, UnitsType
  <2> SUFFICES ASSUME NEW c \in Blank, NEW m \in Nat
               PROVE  /\ [i \in 1..m |-> c] \in Seq(Chars)
                      /\ \A i \in 1..Len([j \in 1..m |-> c]) : [j \in 1..m |-> c][i] \in Blank
    BY <2>1, <2>3
  <2> QED BY <2>2
<1>8. ends \in Seq(Chars) /\ \A i \in 1..Len(ends) : ends[i] \in LineEnd
  <2>1. "\n" \in LineEnd /\ "\n" \in Chars /\ Double \in Nat
    BY <1>1, CharsAssumption, SettingType DEF LineEnd
  <2> QED BY <2>1
<1> HIDE DEF margin, ends
<1>9. Turn(a, k, z, e, margin, ends)
  BY <1>2, <1>3, <1>4, <1>5, <1>6, <1>7, <1>8 DEF Turn
<1> QED BY <1>4, <1>5, <1>7, <1>8, <1>9


\* The turn of a loop reads the text b.
Reads(b) ==
  /\ Consumed \in Seq(Chars) /\ Consumed' = Consumed \o b /\ Consumed' \in Seq(Chars)
  /\ raw = Consumed' \o rest'

\* What can be seen of the code read is what can be seen of the code written.
LEMMA TurnText ==
  ASSUME IInv, FormatLine, ReadSoFar, SameText(out, Consumed),
         NEW a \in Seq(Chars), NEW k \in Seq(Chars), NEW z \in Seq(Chars), NEW e \in Seq(Chars),
         NEW margin \in Seq(Chars), NEW ends \in Seq(Chars), Turn(a, k, z, e, margin, ends)
  PROVE  Reads(((a \o k) \o z) \o e) /\ SameText(out', Consumed')
<1>1. /\ pc = "format" /\ raw' = raw /\ rest \in Seq(Chars) /\ rest' \in Seq(Chars)
      /\ out \in Seq(Chars) /\ Consumed \in Seq(Chars)
  <2>1. TypeOK /\ TypeOK'
    BY FormatLineInv DEF IInv
  <2>2. pc = "format" /\ raw' = raw
    BY Zenon DEF FormatLine
  <2> QED BY <2>1, <2>2 DEF TypeOK, ReadSoFar
<1>2. ((a \o k) \o z) \o e \in Seq(Chars)
  BY ConcatProperties
<1>3. rest = (((a \o k) \o z) \o e) \o rest'
  BY DEF Turn
<1>4. /\ Consumed' = Consumed \o (((a \o k) \o z) \o e)
      /\ Consumed' \in Seq(Chars) /\ raw = Consumed' \o rest'
  <2> DEFINE b == ((a \o k) \o z) \o e
  <2>1. b \in Seq(Chars) /\ rest = b \o rest'
    BY <1>2, <1>3
  <2> HIDE DEF b
  <2>2. Consumed' = Consumed \o b /\ Consumed' \in Seq(Chars) /\ raw = Consumed' \o rest'
    BY <1>1, <2>1, ReadsOn
  <2> QED BY <2>2 DEF b
<1>5. Regrouped(Consumed, a, k, z, e)
  BY <1>1, Regroup
<1>6. SameText(out', Consumed')
  <2> SUFFICES ASSUME NEW t, t = out, NEW c, c = Consumed, NEW u, u = ((t \o margin) \o k) \o ends
               PROVE  SameText(u, c \o (((a \o k) \o z) \o e))
    BY <1>4 DEF Turn
  <2>1. SameText(u, (((c \o a) \o k) \o z) \o e)
    BY <1>1, TextOfLine DEF Turn
  <2>2. (((c \o a) \o k) \o z) \o e = c \o (((a \o k) \o z) \o e)
    BY <1>5, Zenon DEF Regrouped
  <2> QED BY <2>1, <2>2, Zenon
<1> QED BY <1>1, <1>4, <1>6 DEF Reads

-----------------------------------------------------------------------------

\* Where the first character of a content stands.

Appended(s, x, u, n, m) ==
  /\ u \in Seq(Chars) /\ n \in Nat /\ m \in Nat /\ Len(u) = n + m /\ DOMAIN u = 1..(n + m)
  /\ \A k \in 1..n : u[k] = s[k]
  /\ \A j \in 1..m : u[n + j] = x[j]

LEMMA ConcatParts ==
  ASSUME NEW s \in Seq(Chars), NEW x \in Seq(Chars)
  PROVE  Appended(s, x, s \o x, Len(s), Len(x))
<1> SUFFICES ASSUME NEW u, u = s \o x, NEW n, n = Len(s), NEW m, m = Len(x)
             PROVE  Appended(s, x, u, n, m)
  OBVIOUS
<1> QED BY Concat DEF Appended

\* The content k of a line stands behind what has been read and the blanks a.
Stands(c, a, k, w, r, i) ==
  /\ i \in DOMAIN w /\ r[i] = Head(k) /\ i - 1 \in Nat /\ Len(c) \in 0..(i - 1)
  /\ \A j \in (Len(c) + 1)..(i - 1) : j - Len(c) \in 1..Len(a) /\ r[j] = a[j - Len(c)]

LEMMA ContentStands ==
  ASSUME NEW c \in Seq(Chars), NEW a \in Seq(Chars), NEW k \in Seq(Chars), NEW z \in Seq(Chars),
         NEW e \in Seq(Chars), NEW left \in Seq(Chars), k # <<>>,
         NEW w, w = c \o (((a \o k) \o z) \o e), NEW r, r = w \o left,
         NEW i, i = Len(c) + Len(a) + 1
  PROVE  Stands(c, a, k, w, r, i)
<1> DEFINE p == a \o k
           q == p \o z
           b == q \o e
           n == Len(c)
           m == Len(a)
<1>1. n \in Nat /\ m \in Nat /\ Len(k) \in Nat /\ Len(k) >= 1 /\ Head(k) = k[1]
  <2>1. Len(k) \in Nat /\ Len(k) # 0 /\ n \in Nat /\ m \in Nat
    BY EmptySeq, LenProperties
  <2> HIDE DEF n, m
  <2>2. Len(k) >= 1
    BY <2>1
  <2> QED BY <2>1, <2>2
<1> HIDE DEF n, m
<1>2. /\ p \in Seq(Chars) /\ Len(p) = m + Len(k) /\ p[m + 1] = Head(k)
      /\ \A j \in 1..m : p[j] = a[j]
  <2>1. 1 \in 1..Len(k)
    BY <1>1
  <2>2. Appended(a, k, p, m, Len(k))
    BY ConcatParts DEF m
  <2> HIDE DEF p
  <2> QED BY <1>1, <2>1, <2>2 DEF Appended
<1> HIDE DEF p
<1>3. /\ q \in Seq(Chars) /\ Len(z) \in Nat /\ Len(q) = m + Len(k) + Len(z)
      /\ \A j \in 1..(m + 1) : q[j] = p[j]
  <2>1. \A j \in 1..(m + 1) : j \in 1..(m + Len(k))
    BY <1>1
  <2>2. Appended(p, z, q, Len(p), Len(z))
    BY <1>2, ConcatParts
  <2> HIDE DEF q
  <2> QED BY <1>2, <2>1, <2>2 DEF Appended
<1> HIDE DEF q
<1>4. /\ b \in Seq(Chars) /\ Len(e) \in Nat /\ Len(b) = m + Len(k) + Len(z) + Len(e)
      /\ \A j \in 1..(m + 1) : b[j] = q[j]
  <2>1. \A j \in 1..(m + 1) : j \in 1..(m + Len(k) + Len(z))
    BY <1>1, <1>3
  <2>2. Appended(q, e, b, Len(q), Len(e))
    BY <1>3, ConcatParts
  <2> HIDE DEF b
  <2> QED BY <1>3, <2>1, <2>2 DEF Appended
<1>5. w = c \o b
  BY DEF p, q
<1> HIDE DEF b
<1>6. /\ w \in Seq(Chars) /\ Len(w) = n + (m + Len(k) + Len(z) + Len(e))
      /\ DOMAIN w = 1..Len(w)
      /\ \A j \in 1..(m + 1) : w[n + j] = b[j]
  <2>1. \A j \in 1..(m + 1) : j \in 1..(m + Len(k) + Len(z) + Len(e))
    BY <1>1, <1>3, <1>4
  <2>2. /\ w \in Seq(Chars) /\ Len(w) = n + Len(b) /\ DOMAIN w = 1..(n + Len(b))
        /\ \A j \in 1..Len(b) : w[n + j] = b[j]
    <3>1. Appended(c, b, c \o b, n, Len(b))
      BY <1>4, ConcatParts DEF n
    <3> QED BY <1>5, <3>1 DEF Appended
  <2> QED BY <1>4, <2>1, <2>2
<1>7. \A j \in 1..(m + 1) : n + j \in 1..Len(w) /\ r[n + j] = w[n + j]
  <2>1. \A j \in 1..(m + 1) : n + j \in 1..Len(w)
    BY <1>1, <1>3, <1>4, <1>6
  <2>2. Appended(w, left, w \o left, Len(w), Len(left))
    BY <1>6, ConcatParts
  <2> QED BY <2>1, <2>2 DEF Appended
<1>8. \A j \in 1..(m + 1) : r[n + j] = p[j]
  BY <1>3, <1>4, <1>6, <1>7
<1>9. i = n + (m + 1) /\ m + 1 \in 1..(m + 1) /\ i - 1 \in Nat /\ n \in 0..(i - 1)
  BY <1>1 DEF n, m
<1>10. i \in DOMAIN w /\ r[i] = Head(k)
  BY <1>2, <1>6, <1>7, <1>8, <1>9
<1>11. ASSUME NEW j \in (n + 1)..(i - 1) PROVE j - n \in 1..m /\ r[j] = a[j - n]
  <2>1. j - n \in 1..m /\ j - n \in 1..(m + 1) /\ n + (j - n) = j
    BY <1>1, <1>9
  <2> QED BY <1>2, <1>8, <2>1
<1> QED BY <1>9, <1>10, <1>11 DEF Stands, n, m

LEMMA LastStands ==
  ASSUME NEW c \in Seq(Chars), NEW x \in Seq(Chars), NEW h \in Chars, NEW left \in Seq(Chars),
         NEW w, w = c \o (x \o <<h>>), NEW r, r = w \o left
  PROVE  w \in Seq(Chars) /\ r[Len(w)] = h
<1> DEFINE b == x \o <<h>>
<1>1. /\ b \in Seq(Chars) /\ Len(x) \in Nat /\ Len(b) = Len(x) + 1 /\ b[Len(x) + 1] = h
  <2>1. <<h>> \in Seq(Chars) /\ Len(<<h>>) = 1 /\ <<h>>[1] = h /\ 1 \in 1..1
    OBVIOUS
  <2> QED BY <2>1, Concat
<1> HIDE DEF b
<1>2. /\ w \in Seq(Chars) /\ Len(c) \in Nat /\ Len(w) = Len(c) + (Len(x) + 1)
      /\ w[Len(c) + (Len(x) + 1)] = h
  <2>1. w = c \o b /\ Len(x) + 1 \in 1..(Len(x) + 1)
    BY <1>1 DEF b
  <2> QED BY <1>1, <2>1, Concat
<1>3. r[Len(w)] = w[Len(w)]
  <2>1. Len(w) \in 1..Len(w)
    BY <1>1, <1>2
  <2> QED BY <1>2, <2>1, Concat
<1> QED BY <1>2, <1>3

LEMMA TurnStart ==
  ASSUME IInv, FormatLine, ReadSoFar, SameText(out, Consumed),
         NEW a \in Seq(Chars), NEW k \in Seq(Chars), NEW z \in Seq(Chars), NEW e \in Seq(Chars),
         NEW margin \in Seq(Chars), NEW ends \in Seq(Chars), Turn(a, k, z, e, margin, ends)
  PROVE  AtLineStart'
<1>1. /\ Consumed \in Seq(Chars) /\ Consumed' = Consumed \o (((a \o k) \o z) \o e)
      /\ raw = Consumed' \o rest'
  <2>1. Reads(((a \o k) \o z) \o e)
    BY TurnText
  <2> QED BY <2>1 DEF Reads
<1>2. TypeOK' /\ raw' = raw /\ "\n" \in Chars
  <2>1. TypeOK'
    BY FormatLineInv DEF IInv
  <2>2. raw' = raw
    BY Zenon DEF FormatLine
  <2>3. "\n" \in Chars
    BY CharsAssumption DEF LineEnd
  <2> QED BY <2>1, <2>2, <2>3
<1>3. rest' # <<>> => e = <<"\n">>
  BY DEF Turn
<1>4. ASSUME rest' # <<>> PROVE raw'[Len(Consumed')] = "\n"
  <2> SUFFICES ASSUME NEW c, c = Consumed, NEW w, w = Consumed', NEW r, r = raw,
                      NEW left, left = rest'
               PROVE  r[Len(w)] = "\n"
    BY <1>2
  <2>1. (a \o k) \o z \in Seq(Chars) /\ left \in Seq(Chars)
    BY <1>2, ConcatProperties DEF TypeOK
  <2>2. w = c \o (((a \o k) \o z) \o <<"\n">>) /\ r = w \o left /\ c \in Seq(Chars)
    BY <1>1, <1>3, <1>4
  <2> QED BY <1>2, <2>1, <2>2, LastStands
<1> QED BY <1>4 DEF AtLineStart

-----------------------------------------------------------------------------

\* The level and the braces.

\* The code read so far opens at least as many braces as it closes.
LEMMA NeverNegative ==
  ASSUME Balanced, NEW w \in Seq(Chars), NEW left \in Seq(Chars), raw = w \o left
  PROVE  Closings(w) \in Nat /\ Opens(w) \in Nat /\ Closings(w) <= Opens(w)
<1>1. Closings(w) \in Nat /\ Opens(w) \in Nat
  BY CountType, Zenon DEF Closings, Opens
<1>2. Len(w) \in Nat
  BY LenProperties
<1>3. CASE Len(w) = 0
  <2>1. \A c : Count(w, c) = 0
    <3> SUFFICES ASSUME NEW c PROVE Count(w, c) = 0
      OBVIOUS
    <3>1. \A i \in 1..Len(w) : w[i] # c
      BY <1>3
    <3> QED BY <3>1, CountNone
  <2>2. Closings(w) = 0 /\ Opens(w) = 0
    BY <2>1, Zenon DEF Closings, Opens
  <2> QED BY <2>2
<1>4. CASE Len(w) # 0
  <2>1. Len(w) \in DOMAIN raw /\ SubSeq(raw, 1, Len(w)) = w
    <3> SUFFICES ASSUME NEW r, r = raw, NEW n, n = Len(w), NEW v, v = SubSeq(r, 1, n)
                 PROVE  n \in DOMAIN r /\ v = w
      OBVIOUS
    <3>1. Appended(w, left, r, n, Len(left))
      BY ConcatParts
    <3>2. /\ r \in Seq(Chars) /\ n \in Nat /\ Len(left) \in Nat /\ Len(r) = n + Len(left)
          /\ DOMAIN r = 1..Len(r) /\ \A i \in 1..n : r[i] = w[i]
      BY <3>1 DEF Appended
    <3>3. n \in 0..Len(r) /\ n \in 1..Len(r)
      BY <1>4, <3>2
    <3>4. v \in Seq(Chars) /\ Len(v) = n /\ \A i \in 1..n : v[i] = r[i]
      BY <3>2, <3>3, Split
    <3>5. v = w
      BY <3>2, <3>4, SeqEqual
    <3> QED BY <3>2, <3>3, <3>5
  <2>2. Count(w, "}") <= Count(w, "{")
    BY <2>1, Zenon DEF Balanced
  <2> QED BY <1>1, <2>2, Zenon DEF Closings, Opens
<1> QED BY <1>3, <1>4

LEMMA DepthIs == Depth = Opens(Consumed) - Closings(Consumed)
BY Zenon DEF Depth, Opens, Closings

LEMMA LevelIs ==
  ASSUME NEW k \in Seq(Chars), NEW indent \in Nat
  PROVE  /\ Opens(k) \in Nat /\ Closings(k) \in Nat
         /\ indent + Opens(k) - Closings(k) < 0 => LevelAfter(indent, k) = 0
         /\ indent + Opens(k) - Closings(k) >= 0 =>
              LevelAfter(indent, k) = indent + Opens(k) - Closings(k)
<1>1. Opens(k) \in Nat /\ Closings(k) \in Nat
  BY CountType, Zenon DEF Closings, Opens
<1>2. LevelAfter(indent, k) = IF indent + Opens(k) - Closings(k) < 0 THEN 0
                              ELSE indent + Opens(k) - Closings(k)
  BY Zenon DEF LevelAfter, Opens, Closings
<1> QED BY <1>1, <1>2

\* From the level l, and o and s braces opened and closed, to the level g.
Moves(l, i, o, s, u, v, g) ==
  /\ i <= l => g <= (u + o) - (v + s)
  /\ i = l /\ l = u - v => g = (u + o) - (v + s)

LEMMA LevelArithmetic ==
  ASSUME NEW l \in Nat, NEW i \in Nat, NEW o \in Nat, NEW s \in Nat,
         NEW u \in Nat, NEW v \in Nat, NEW g,
         l <= u - v, v + s <= u + o,
         i + o - s < 0 => g = 0, i + o - s >= 0 => g = i + o - s
  PROVE  Moves(l, i, o, s, u, v, g)
BY DEF Moves

\* No line read so far begins with a closing brace.
NoneLeads(s) == \A i \in DOMAIN s : raw[i] = "}" => ~Leads(i)

(***************************************************************************)
(* A turn keeps the level at the depth, or under it.                       *)
(***************************************************************************)
LEMMA TurnLevel ==
  ASSUME IInv, FormatLine, ReadSoFar, SameText(out, Consumed), AtLineStart, IndentFollowsBraces,
         NEW a \in Seq(Chars), NEW k \in Seq(Chars), NEW z \in Seq(Chars), NEW e \in Seq(Chars),
         NEW margin \in Seq(Chars), NEW ends \in Seq(Chars), Turn(a, k, z, e, margin, ends),
         Mode = "auto", Balanced
  PROVE  level' <= Depth' /\ (NoneLeads(Consumed') => level' = Depth')
<1> SUFFICES ASSUME NEW c, c = Consumed, NEW w, w = Consumed', NEW left, left = rest',
                    NEW d, d = Depth, NEW dd, dd = Depth', NEW ll, ll = level'
             PROVE  ll <= dd /\ (NoneLeads(w) => ll = dd)
  OBVIOUS
<1>1. /\ c \in Seq(Chars) /\ w = c \o (((a \o k) \o z) \o e) /\ w \in Seq(Chars)
      /\ raw = w \o left /\ left \in Seq(Chars)
  <2>1. Reads(((a \o k) \o z) \o e)
    BY TurnText
  <2>2. TypeOK'
    BY FormatLineInv DEF IInv
  <2> QED BY <2>1, <2>2 DEF Reads, TypeOK
<1>2. level \in Nat /\ Indent(k) \in Nat /\ ll = LevelAfter(Indent(k), k)
  BY DEF IInv, TypeOK, Turn
<1>3. /\ d = Opens(c) - Closings(c) /\ dd = Opens(w) - Closings(w)
      /\ Opens(w) \in Nat /\ Closings(w) \in Nat /\ Closings(w) <= Opens(w)
  <2>1. Depth' = Opens(Consumed') - Closings(Consumed')
    BY Zenon DEF Depth, Opens, Closings, Count
  <2>2. /\ Opens(w) \in Nat /\ Closings(w) \in Nat /\ Closings(w) <= Opens(w)
    BY <1>1, NeverNegative
  <2> QED BY <2>1, <2>2, DepthIs
<1>4. /\ Opens(w) = Opens(c) + Opens(k) /\ Closings(w) = Closings(c) + Closings(k)
      /\ Opens(c) \in Nat /\ Closings(c) \in Nat
  <2>1. ASSUME NEW x, x \notin Blank \cup LineEnd PROVE Count(w, x) = Count(c, x) + Count(k, x)
    <3>1. BracesAdd(c, k, c \o (((a \o k) \o z) \o e), x)
      <4>1. /\ \A i \in 1..Len(a) : a[i] \in Blank
            /\ \A i \in 1..Len(z) : z[i] \in LineEnd
            /\ \A i \in 1..Len(e) : e[i] \in LineEnd
        BY DEF Turn
      <4> QED BY <1>1, <2>1, <4>1, BracesOfLine
    <3> QED BY <1>1, <3>1 DEF BracesAdd
  <2>2. "{" \notin Blank \cup LineEnd /\ "}" \notin Blank \cup LineEnd
    BY Zenon DEF Blank, LineEnd
  <2>3. Opens(w) = Opens(c) + Opens(k) /\ Closings(w) = Closings(c) + Closings(k)
    BY <2>1, <2>2, Zenon DEF Opens, Closings
  <2>4. Opens(c) \in Nat /\ Closings(c) \in Nat
    BY <1>1, CountType, Zenon DEF Opens, Closings
  <2> QED BY <2>3, <2>4
<1>5. /\ Opens(k) \in Nat /\ Closings(k) \in Nat
      /\ Indent(k) + Opens(k) - Closings(k) < 0 => ll = 0
      /\ Indent(k) + Opens(k) - Closings(k) >= 0 => ll = Indent(k) + Opens(k) - Closings(k)
  BY <1>2, LevelIs
<1>6. level <= d /\ (NoneLeads(c) => level = d)
  <2>1. pc = "format"
    BY Zenon DEF FormatLine
  <2> QED BY <2>1, Zenon DEF IndentFollowsBraces, NoneLeads
<1>7. NoneLeads(w) => NoneLeads(c)
  <2>1. Appended(c, ((a \o k) \o z) \o e, w, Len(c), Len(((a \o k) \o z) \o e))
    <3>1. ((a \o k) \o z) \o e \in Seq(Chars)
      BY ConcatProperties
    <3> QED BY <1>1, <3>1, ConcatParts
  <2>2. DOMAIN c \subseteq DOMAIN w
    <3>1. DOMAIN c = 1..Len(c)
      BY <1>1, LenProperties
    <3> QED BY <2>1, <3>1 DEF Appended
  <2> QED BY <2>2, Zenon DEF NoneLeads
<1>8. Moves(level, Indent(k), Opens(k), Closings(k), Opens(c), Closings(c), ll)
  BY <1>2, <1>3, <1>4, <1>5, <1>6, LevelArithmetic
<1>9. CASE Closes(k)
  <2>1. Indent(k) = level - 1
    BY <1>9 DEF Indent
  <2>2. ~NoneLeads(w)
    <3> DEFINE i == Len(c) + Len(a) + 1
    <3>1. k # <<>> /\ Head(k) = "}"
      BY <1>9, Zenon DEF Closes
    <3>2. /\ i \in DOMAIN w /\ raw[i] = Head(k) /\ i - 1 \in Nat /\ Len(c) \in 0..(i - 1)
          /\ \A j \in (Len(c) + 1)..(i - 1) : j - Len(c) \in 1..Len(a) /\ raw[j] = a[j - Len(c)]
      <4> HIDE DEF i
      <4>1. i = Len(c) + Len(a) + 1
        BY DEF i
      <4>2. Stands(c, a, k, w, raw, i)
        BY <1>1, <3>1, <4>1, ContentStands
      <4> QED BY <4>2 DEF Stands
    <3>3. Len(c) = 0 \/ raw[Len(c)] = "\n"
      <4>1. rest # <<>> /\ pc = "format"
        BY Zenon DEF FormatLine
      <4>2. Mode # "original"
        OBVIOUS
      <4>3. c = <<>> => Len(c) = 0
        OBVIOUS
      <4> QED BY <4>1, <4>2, <4>3 DEF AtLineStart
    <3>4. \A j \in (Len(c) + 1)..(i - 1) : raw[j] \in Blank
      BY <3>2 DEF Turn
    <3> HIDE DEF i
    <3>5. Leads(i)
      BY <3>2, <3>3, <3>4 DEF Leads
    <3> QED BY <3>1, <3>2, <3>5, Zenon DEF NoneLeads
  <2>3. level - 1 <= level
    BY <1>2
  <2> QED BY <1>3, <1>4, <1>8, <2>1, <2>2, <2>3 DEF Moves
<1>10. CASE ~Closes(k)
  <2>1. Indent(k) = level
    BY <1>10 DEF Indent
  <2>2. level <= level
    BY <1>2
  <2> QED BY <1>3, <1>4, <1>6, <1>7, <1>8, <2>1, <2>2 DEF Moves
<1> QED BY <1>9, <1>10

-----------------------------------------------------------------------------

\* Mode "original": the lines that are kept.

LEMMA EndsAre ==
  ASSUME NEW e \in Ends
  PROVE  /\ e \in Seq(Chars) /\ Len(e) \in 0..2 /\ (e # <<>> => Len(e) >= 1)
         /\ \A i \in 1..Len(e) : e[i] \in LineEnd
         /\ Len(e) = 2 => e[1] = "\r" /\ e[2] = "\n"
         /\ e # <<>> /\ e[Len(e)] = "\r" => e = <<"\r">>
<1>1. "\n" \in Chars /\ "\r" \in Chars /\ "\n" \in LineEnd /\ "\r" \in LineEnd
  BY CharsAssumption DEF LineEnd
<1>2. CASE e = <<>>
  BY <1>2
<1>3. CASE e = <<"\n">>
  BY <1>1, <1>3
<1>4. CASE e = <<"\r">>
  BY <1>1, <1>4
<1>5. CASE e = <<"\r">> \o <<"\n">>
  <2>1. <<"\r">> \in Seq(Chars) /\ <<"\n">> \in Seq(Chars) /\ Len(<<"\r">>) = 1 /\ Len(<<"\n">>) = 1
        /\ <<"\r">>[1] = "\r" /\ <<"\n">>[1] = "\n"
    BY <1>1
  <2>2. Appended(<<"\r">>, <<"\n">>, e, 1, 1)
    BY <1>5, <2>1, ConcatParts
  <2>3. /\ e \in Seq(Chars) /\ Len(e) = 1 + 1
        /\ \A j \in 1..1 : e[j] = <<"\r">>[j] /\ e[1 + j] = <<"\n">>[j]
    BY <2>2 DEF Appended
  <2>4. e[1] = "\r" /\ e[2] = "\n" /\ Len(e) = 2
    BY <2>1, <2>3
  <2>5. \A i \in 1..2 : i = 1 \/ i = 2
    OBVIOUS
  <2> QED BY <1>1, <2>3, <2>4, <2>5
<1> QED BY <1>2, <1>3, <1>4, <1>5 DEF Ends

LEMMA KeptType ==
  ASSUME NEW s \in Seq(Chars)
  PROVE  /\ Kept(s) \in SUBSET (1..Len(s)) /\ IsFiniteSet(Kept(s)) /\ Kept(s) \in SUBSET Int
         /\ UpTo(Kept(s), Len(s)) = Cardinality(Kept(s)) /\ Cardinality(Kept(s)) \in Nat
         /\ \A k \in Kept(s) : UpTo(Kept(s), k) \in 1..Cardinality(Kept(s))
<1> SUFFICES ASSUME NEW n, n = Len(s), NEW P, P = Kept(s)
             PROVE  /\ P \in SUBSET (1..n) /\ IsFiniteSet(P) /\ P \in SUBSET Int
                    /\ UpTo(P, n) = Cardinality(P) /\ Cardinality(P) \in Nat
                    /\ \A k \in P : UpTo(P, k) \in 1..Cardinality(P)
  OBVIOUS
<1>1. n \in Nat /\ DOMAIN s = 1..n
  BY LenProperties
<1>2. P \in SUBSET (1..n) /\ P \in SUBSET Int
  BY <1>1 DEF Kept
<1>3. IsFiniteSet(P) /\ Cardinality(P) \in Nat
  <2>1. IsFiniteSet(1..n)
    BY <1>1, FS_Interval
  <2> QED BY <1>2, <2>1, FS_Subset, FS_CardinalityType
<1>4. UpTo(P, n) = Cardinality(P)
  <2>1. {i \in P : i <= n} = P
    BY <1>2
  <2> QED BY <2>1 DEF UpTo
<1>5. ASSUME NEW k \in P PROVE UpTo(P, k) \in 1..Cardinality(P)
  <2>1. k \in 1..n /\ 0 < k /\ k <= n /\ k \in Int /\ n \in Int /\ 0 <= k
    BY <1>1, <1>2
  <2>2. UpTo(P, 0) \in Nat /\ UpTo(P, k) \in Nat /\ UpTo(P, 0) < UpTo(P, k)
    BY <1>2, <1>3, <2>1, UpToGrows
  <2>3. UpTo(P, k) <= UpTo(P, n)
    BY <1>2, <1>3, <2>1, UpToGrows
  <2> QED BY <1>3, <1>4, <2>2, <2>3
<1> QED BY <1>2, <1>3, <1>4, <1>5

\* All of a line is kept, and one character of what ends it.
LEMMA KeptOfLine ==
  ASSUME NEW b \in Seq(Chars), \A i \in 1..Len(b) : b[i] \notin LineEnd, NEW e \in Ends,
         NEW x, x = b \o e
  PROVE  Kept(x) = 1..(Len(b) + (IF e = <<>> THEN 0 ELSE 1))
<1> SUFFICES ASSUME NEW m, m = Len(b), NEW h, h = Len(e)
             PROVE  Kept(x) = 1..(m + (IF e = <<>> THEN 0 ELSE 1))
  OBVIOUS
<1>1. /\ e \in Seq(Chars) /\ h \in 0..2 /\ (e # <<>> => h >= 1) /\ (e = <<>> => h = 0)
      /\ \A i \in 1..h : e[i] \in LineEnd
      /\ h = 2 => e[1] = "\r" /\ e[2] = "\n"
  BY EndsAre
<1>2. Appended(b, e, x, m, h)
  BY <1>1, ConcatParts
<1>3. /\ m \in Nat /\ h \in Nat /\ DOMAIN x = 1..(m + h)
      /\ \A i \in 1..m : x[i] = b[i]
      /\ \A j \in 1..h : x[m + j] = e[j]
  BY <1>2 DEF Appended
<1>4. \A i \in 1..m : x[i] # "\n" /\ x[i] # "\r"
  <2>1. \A c : c \notin LineEnd => c # "\n" /\ c # "\r"
    BY DEF LineEnd
  <2> QED BY <1>3, <2>1
<1>5. \A i \in 1..(m + h) : i \in 1..m \/ i = m + 1 \/ (h = 2 /\ i = m + 2)
  <2>1. h = 0 \/ h = 1 \/ h = 2
    BY <1>1, <1>3
  <2>2. CASE h = 0
    BY <1>3, <2>2
  <2>3. CASE h = 1
    BY <1>3, <2>3
  <2>4. CASE h = 2
    BY <1>3, <2>4
  <2> QED BY <2>1, <2>2, <2>3, <2>4
<1>6. ASSUME NEW i \in 1..m PROVE i \in Kept(x)
  <2>1. i \in 1..(m + h)
    BY <1>3
  <2> QED BY <1>3, <1>4, <2>1 DEF Kept
<1>7. m + 1 \in Kept(x) <=> h # 0
  <2>1. CASE h = 0
    <3>1. m + 1 \notin 1..(m + h)
      BY <1>3, <2>1
    <3> QED BY <1>3, <2>1, <3>1 DEF Kept
  <2>2. CASE h # 0
    <3>1. m + 1 \in 1..(m + h) /\ (m + 1) - 1 = m /\ (m + 1 > 1 => m \in 1..m)
      BY <1>3, <2>2
    <3> QED BY <1>3, <1>4, <2>2, <3>1 DEF Kept
  <2> QED BY <2>1, <2>2
<1>8. h = 2 => m + 2 \notin Kept(x)
  <2>1. ASSUME h = 2 PROVE x[m + 2] = "\n" /\ x[(m + 2) - 1] = "\r" /\ m + 2 > 1
    <3>1. 1 \in 1..h /\ 2 \in 1..h /\ (m + 2) - 1 = m + 1 /\ m + 2 > 1
      BY <1>3, <2>1
    <3> QED BY <1>1, <1>3, <2>1, <3>1
  <2> QED BY <2>1 DEF Kept
<1>9. Kept(x) \subseteq 1..(m + h)
  BY <1>3 DEF Kept
<1>10. CASE e = <<>>
  <2>1. h = 0 /\ \A i \in 1..(m + h) : i \in 1..m
    BY <1>1, <1>3, <1>10
  <2>2. Kept(x) = 1..m
    BY <1>6, <1>9, <2>1
  <2> QED BY <1>3, <1>10, <2>2
<1>11. CASE e # <<>>
  <2>1. h # 0
    BY <1>1, <1>11
  <2>2. \A i : i \in 1..(m + 1) <=> i \in 1..m \/ i = m + 1
    BY <1>3
  <2>3. \A i : i \in Kept(x) <=> i \in 1..m \/ i = m + 1
    BY <1>5, <1>6, <1>7, <1>8, <1>9, <2>1
  <2>4. Kept(x) = 1..(m + 1)
    BY <2>2, <2>3
  <2> QED BY <1>11, <2>4
<1> QED BY <1>10, <1>11


\* Nothing is taken for the second half of a line end that stands before.
Seam(s, x) == s # <<>> /\ x # <<>> => ~(Last(s) = "\r" /\ Head(x) = "\n")

KeptJoined(s, x, u, n) == Kept(u) = Kept(s) \cup Beyond(n, Kept(x))

LEMMA KeptConcat ==
  ASSUME NEW s \in Seq(Chars), NEW x \in Seq(Chars), Seam(s, x)
  PROVE  KeptJoined(s, x, s \o x, Len(s))
<1> SUFFICES ASSUME NEW u, u = s \o x, NEW n, n = Len(s), NEW m, m = Len(x)
             PROVE  Kept(u) = Kept(s) \cup Beyond(n, Kept(x))
  BY DEF KeptJoined
<1>1. Appended(s, x, u, n, m)
  BY ConcatParts
<1>2. /\ n \in Nat /\ m \in Nat /\ DOMAIN u = 1..(n + m) /\ DOMAIN s = 1..n /\ DOMAIN x = 1..m
      /\ \A k \in 1..n : u[k] = s[k]
      /\ \A j \in 1..m : u[n + j] = x[j]
  BY <1>1, LenProperties DEF Appended
<1>3. ASSUME NEW k \in 1..n PROVE k \in Kept(u) <=> k \in Kept(s)
  <2>1. k \in 1..(n + m) /\ (k > 1 => k - 1 \in 1..n)
    BY <1>2
  <2> QED BY <1>2, <2>1 DEF Kept
<1>4. ASSUME NEW j \in 1..m PROVE n + j \in Kept(u) <=> j \in Kept(x)
  <2>1. n + j \in 1..(n + m)
    BY <1>2
  <2>2. CASE j > 1
    <3>1. j - 1 \in 1..m /\ n + (j - 1) = (n + j) - 1 /\ n + j > 1
      BY <1>2, <2>2
    <3> QED BY <1>2, <2>1, <2>2, <3>1 DEF Kept
  <2>3. CASE j = 1
    <3>1. j \in Kept(x)
      BY <1>2, <2>3 DEF Kept
    <3>2. ~(n + j > 1 /\ u[n + j] = "\n" /\ u[(n + j) - 1] = "\r")
      <4>1. CASE n = 0
        BY <2>3, <4>1
      <4>2. CASE n # 0
        <5>1. n \in 1..n /\ (n + j) - 1 = n /\ s # <<>> /\ x # <<>> /\ Last(s) = s[n] /\ Head(x) = x[1]
          BY <1>2, <2>3, <4>2 DEF Last
        <5> QED BY <1>2, <2>3, <5>1 DEF Seam
      <4> QED BY <4>1, <4>2
    <3> QED BY <1>2, <2>1, <3>1, <3>2 DEF Kept
  <2> QED BY <1>2, <2>2, <2>3
<1>5. \A k \in 1..(n + m) : k \in 1..n \/ (k - n \in 1..m /\ k = n + (k - n))
  BY <1>2
<1>6. Kept(u) \subseteq 1..(n + m) /\ Kept(s) \subseteq 1..n /\ Kept(x) \subseteq 1..m
  BY <1>2 DEF Kept
<1>7. ASSUME NEW k \in Kept(u) PROVE k \in Kept(s) \cup Beyond(n, Kept(x))
  <2>1. CASE k \in 1..n
    BY <1>3, <2>1
  <2>2. CASE k \notin 1..n
    <3>1. k - n \in 1..m /\ k = n + (k - n)
      BY <1>5, <1>6, <2>2
    <3>2. k - n \in Kept(x)
      BY <1>4, <3>1
    <3> QED BY <3>1, <3>2 DEF Beyond
  <2> QED BY <2>1, <2>2
<1>8. \A k \in Kept(s) : k \in Kept(u)
  BY <1>3, <1>6
<1>9. \A j \in Kept(x) : n + j \in Kept(u)
  BY <1>4, <1>6
<1> QED BY <1>7, <1>8, <1>9 DEF Beyond

LEMMA UpToInterval ==
  ASSUME NEW q \in Nat, NEW j \in 0..q
  PROVE  UpTo(1..q, j) = j
<1>1. {i \in 1..q : i <= j} = 1..j
  OBVIOUS
<1>2. Cardinality(1..j) = j
  BY FS_Interval
<1> QED BY <1>1, <1>2 DEF UpTo

\* All of the positions 1..q are added to P, moved on by n.
Counted(R, P, n, q) ==
  /\ Cardinality(R) = Cardinality(P) + q
  /\ \A k \in 0..n : UpTo(R, k) = UpTo(P, k)
  /\ \A j \in 1..q : UpTo(R, n + j) = UpTo(P, n) + j

LEMMA IntervalAdded ==
  ASSUME NEW n \in Nat, NEW q \in Nat, NEW P \in SUBSET (1..n)
  PROVE  Counted(P \cup Beyond(n, 1..q), P, n, q)
<1> SUFFICES ASSUME NEW R, R = P \cup Beyond(n, 1..q) PROVE Counted(R, P, n, q)
  OBVIOUS
<1>1. Cardinality(R) = Cardinality(P) + Cardinality(1..q)
  BY 1..q \in SUBSET (1..q), ConcatCount, Zenon
<1>2. Placed(R, P, 1..q, n, q)
  BY 1..q \in SUBSET (1..q), ConcatUpTo, Zenon
<1>3. Cardinality(1..q) = q
  BY FS_Interval
<1>4. ASSUME NEW j \in 1..q PROVE UpTo(R, n + j) = UpTo(P, n) + j
  <2>1. j \in 0..q
    OBVIOUS
  <2>2. UpTo(1..q, j) = j
    BY <2>1, UpToInterval
  <2> QED BY <1>2, <2>1, <2>2 DEF Placed
<1> QED BY <1>1, <1>2, <1>3, <1>4 DEF Counted, Placed

\* The code ends with a line that nothing ends.
Open(s) == s # <<>> /\ Last(s) \notin LineEnd

LEMMA LastOf ==
  ASSUME NEW s \in Seq(Chars), NEW x \in Seq(Chars), NEW u, u = s \o x, x # <<>>
  PROVE  u \in Seq(Chars) /\ u # <<>> /\ Last(u) = Last(x)
<1>1. Appended(s, x, u, Len(s), Len(x))
  BY ConcatParts
<1>2. Len(x) \in Nat /\ Len(x) # 0
  BY EmptySeq, LenProperties
<1>3. Len(x) \in 1..Len(x)
  BY <1>2
<1>4. u \in Seq(Chars) /\ Len(u) = Len(s) + Len(x) /\ u[Len(s) + Len(x)] = x[Len(x)] /\ Len(s) \in Nat
  BY <1>1, <1>3 DEF Appended
<1>5. Len(u) # 0
  BY <1>2, <1>4
<1> QED BY <1>4, <1>5 DEF Last

Grown(u, v, e) ==
  SameLines(u, v) /\ (Open(u) <=> e = <<>>) /\ (e # <<>> => Last(u) = Last(e))

\* A line with its end is added to the code, and the line with "\n" to what is written.
LEMMA LinesGrow ==
  ASSUME NEW s \in Seq(Chars), NEW t \in Seq(Chars), SameLines(s, t), ~Open(s),
         NEW b \in Seq(Chars), \A i \in 1..Len(b) : b[i] \notin LineEnd, NEW e \in Ends,
         NEW x, x = b \o e, x # <<>>, Seam(s, x),
         NEW u, u = s \o x, NEW v, v = (t \o b) \o <<"\n">>
  PROVE  Grown(u, v, e)
<1> SUFFICES ASSUME NEW n, n = Len(s), NEW h, h = Len(t), NEW m, m = Len(b),
                    NEW q, q = m + (IF e = <<>> THEN 0 ELSE 1),
                    NEW P, P = Kept(s), NEW R, R = Kept(u)
             PROVE  SameLines(u, v) /\ (Open(u) <=> e = <<>>) /\ (e # <<>> => Last(u) = Last(e))
  BY DEF Grown
<1>1. "\n" \in Chars /\ "\n" \in LineEnd
  BY CharsAssumption DEF LineEnd
<1>2. /\ e \in Seq(Chars) /\ Len(e) \in Nat /\ \A i \in 1..Len(e) : e[i] \in LineEnd
      /\ e # <<>> => Len(e) >= 1
  BY EndsAre
<1>3. Appended(b, e, x, m, Len(e)) /\ x \in Seq(Chars)
  <2>1. Appended(b, e, x, m, Len(e))
    BY <1>2, ConcatParts
  <2> QED BY <2>1 DEF Appended
<1>4. m \in Nat /\ q \in Nat /\ q <= Len(x) /\ m <= q /\ q <= m + 1 /\ Len(x) \in Nat
      /\ (e = <<>> => q = m) /\ (e # <<>> => q = m + 1)
  <2>1. m \in Nat /\ Len(x) = m + Len(e)
    BY <1>3 DEF Appended
  <2>2. CASE e = <<>>
    BY <1>2, <2>1, <2>2
  <2>3. CASE e # <<>>
    BY <1>2, <2>1, <2>3
  <2> QED BY <2>2, <2>3
<1>5. Kept(x) = 1..q
  BY KeptOfLine
<1>6. R = P \cup Beyond(n, 1..q)
  <2>1. KeptJoined(s, x, s \o x, Len(s))
    BY <1>3, KeptConcat
  <2> QED BY <1>5, <2>1, Zenon DEF KeptJoined
<1>7. /\ Appended(s, x, u, n, Len(x)) /\ n \in Nat /\ u \in Seq(Chars)
      /\ \A k \in 1..n : u[k] = s[k]
      /\ \A j \in 1..q : u[n + j] = x[j]
  <2>1. Appended(s, x, u, n, Len(x))
    BY <1>3, ConcatParts
  <2>2. \A j \in 1..q : j \in 1..Len(x)
    BY <1>4
  <2> QED BY <2>1, <2>2 DEF Appended
<1>8. /\ P \in SUBSET (1..n) /\ UpTo(P, n) = Cardinality(P) /\ Cardinality(P) \in Nat
      /\ \A k \in P : UpTo(P, k) \in 1..Cardinality(P)
  BY KeptType
<1>9. h = Cardinality(P) /\ \A k \in P : t[UpTo(P, k)] = IF s[k] \in LineEnd THEN "\n" ELSE s[k]
  BY <1>8 DEF SameLines, Open
<1>10. /\ v \in Seq(Chars) /\ Len(v) = h + m + 1 /\ h \in Nat /\ v[h + m + 1] = "\n"
       /\ \A k \in 1..h : v[k] = t[k]
       /\ \A j \in 1..m : v[h + j] = b[j]
  <2> DEFINE w == t \o b
  <2>1. Appended(t, b, w, h, m)
    BY ConcatParts
  <2> HIDE DEF w
  <2>2. /\ w \in Seq(Chars) /\ Len(w) = h + m /\ h \in Nat
        /\ \A k \in 1..h : w[k] = t[k]
        /\ \A j \in 1..m : w[h + j] = b[j]
    BY <2>1 DEF Appended
  <2>3. <<"\n">> \in Seq(Chars) /\ Len(<<"\n">>) = 1 /\ <<"\n">>[1] = "\n" /\ 1 \in 1..1
    BY <1>1
  <2>4. Appended(w, <<"\n">>, v, h + m, 1)
    BY <2>2, <2>3, ConcatParts DEF w
  <2>5. /\ v \in Seq(Chars) /\ Len(v) = (h + m) + 1 /\ v[(h + m) + 1] = "\n"
        /\ \A k \in 1..(h + m) : v[k] = w[k]
    BY <2>3, <2>4 DEF Appended
  <2>6. /\ \A k \in 1..h : k \in 1..(h + m)
        /\ \A j \in 1..m : h + j \in 1..(h + m)
    BY <1>4, <2>2
  <2> QED BY <2>2, <2>5, <2>6
<1>11. Counted(R, P, n, q)
  BY <1>4, <1>6, <1>7, <1>8, IntervalAdded
<1>12. ASSUME NEW k \in P PROVE v[UpTo(R, k)] = IF u[k] \in LineEnd THEN "\n" ELSE u[k]
  <2>1. k \in 1..n /\ k \in 0..n
    BY <1>7, <1>8
  <2>2. UpTo(R, k) = UpTo(P, k) /\ UpTo(P, k) \in 1..h
    BY <1>8, <1>9, <1>11, <2>1 DEF Counted
  <2>3. t[UpTo(P, k)] = IF s[k] \in LineEnd THEN "\n" ELSE s[k]
    BY <1>9
  <2>4. u[k] = s[k]
    BY <1>7, <2>1
  <2>5. v[UpTo(P, k)] = t[UpTo(P, k)]
    BY <1>10, <2>2
  <2> QED BY <2>2, <2>3, <2>4, <2>5
<1>13. ASSUME NEW j \in 1..q PROVE v[UpTo(R, n + j)] = IF u[n + j] \in LineEnd THEN "\n" ELSE u[n + j]
  <2>1. UpTo(R, n + j) = h + j
    BY <1>8, <1>9, <1>11 DEF Counted
  <2>2. CASE j \in 1..m
    <3>1. u[n + j] = b[j] /\ b[j] \notin LineEnd
      BY <1>3, <1>7, <2>2 DEF Appended
    <3> QED BY <1>10, <2>1, <2>2, <3>1
  <2>3. CASE j \notin 1..m
    <3>1. j = m + 1 /\ e # <<>>
      BY <1>4, <2>3
    <3>2. 1 \in 1..Len(e)
      BY <1>2, <3>1
    <3>3. u[n + j] = e[1] /\ e[1] \in LineEnd
      BY <1>2, <1>3, <1>7, <3>1, <3>2 DEF Appended
    <3>4. h + j = h + m + 1
      BY <1>4, <1>10, <3>1
    <3> QED BY <1>10, <2>1, <3>3, <3>4
  <2> QED BY <2>2, <2>3
<1>14. \A k \in R : v[UpTo(R, k)] = IF u[k] \in LineEnd THEN "\n" ELSE u[k]
  BY <1>6, <1>12, <1>13 DEF Beyond
<1>15. u # <<>> /\ Last(u) = Last(x)
  BY <1>3, LastOf
<1>16. CASE e = <<>>
  <2>1. x = b /\ m # 0
    <3>1. b \o <<>> = b
      BY ConcatEmptySeq
    <3>2. x = b
      BY <1>16, <3>1
    <3> QED BY <3>2, EmptySeq
  <2>2. m \in 1..Len(b)
    BY <1>4, <2>1
  <2>3. Last(u) \notin LineEnd
    BY <1>15, <2>1, <2>2 DEF Last
  <2>4. Len(v) = Cardinality(R) + 1
    BY <1>4, <1>9, <1>10, <1>11, <1>16 DEF Counted
  <2>5. Last(v) = "\n"
    BY <1>10 DEF Last
  <2> QED BY <1>7, <1>14, <1>15, <1>16, <2>3, <2>4, <2>5 DEF SameLines, Open
<1>17. CASE e # <<>>
  <2>1. Last(x) = Last(e)
    BY <1>2, <1>17, LastOf
  <2>2. Last(e) \in LineEnd
    <3>1. Len(e) \in 1..Len(e)
      BY <1>2, <1>17
    <3> QED BY <1>2, <3>1 DEF Last
  <2>3. Len(v) = Cardinality(R) + 0
    BY <1>4, <1>9, <1>10, <1>11, <1>17 DEF Counted
  <2> QED BY <1>7, <1>14, <1>15, <1>17, <2>1, <2>2, <2>3 DEF SameLines, Open
<1> QED BY <1>16, <1>17

(***************************************************************************)
(* In mode "original" the lines read so far are the lines written so far,  *)
(* and the next turn begins behind the whole end of a line.                *)
(***************************************************************************)
LinesSoFar ==
  pc = "format" /\ Mode = "original" =>
    /\ SameLines(Consumed, out)
    /\ rest # <<>> => ~Open(Consumed) /\ Seam(Consumed, rest)

\* What a turn of mode "original" reads and writes: the line b and its end e.
RawTurn(b, e) ==
  /\ \A i \in 1..Len(b) : b[i] \notin LineEnd
  /\ rest = (b \o e) \o rest'
  /\ out' = (out \o b) \o <<"\n">>
  /\ e = <<>> => rest' = <<>>
  /\ e = <<"\r">> /\ rest' # <<>> => Head(rest') # "\n"
  /\ b \o e # <<>>

LEMMA RawTurnTaken ==
  ASSUME IInv, OriginalLine
  PROVE  \E b \in Seq(Chars), e \in Ends : RawTurn(b, e)
<1> DEFINE n == Span(rest, Chars \ LineEnd)
           b == SubSeq(rest, 1, n)
<1>1. rest \in Seq(Chars) /\ rest' \in Seq(Chars) /\ Len(rest') < Len(rest)
  BY OriginalLineInv DEF IInv, TypeOK
<1>2. out' = (out \o b) \o <<"\n">> /\ rest' = SkipLineEnd(Drop(rest, n))
  BY DEF OriginalLine
<1>3. n \in 0..Len(rest) /\ \A i \in 1..n : rest[i] \in Chars \ LineEnd
  BY <1>1, SpanStops
<1>4. \A i \in 1..Len(b) : b[i] \notin LineEnd
  <2> HIDE DEF n
  <2>1. Len(b) = n /\ \A i \in 1..n : b[i] = rest[i]
    BY <1>1, <1>3, Split
  <2> QED BY <1>3, <2>1
<1> HIDE DEF n
<1>5. PICK e \in Ends : RawLineOf(rest, n, rest', e)
  <2>1. n = Span(rest, Chars \ LineEnd)
    BY DEF n
  <2> QED BY <1>1, <1>2, <2>1, RawLineSplits
<1>6. b \in Seq(Chars) /\ e \in Seq(Chars) /\ rest = (b \o e) \o rest'
  BY <1>5 DEF RawLineOf, LineOf
<1> HIDE DEF b
<1>7. b \o e # <<>>
  <2> SUFFICES ASSUME b \o e = <<>> PROVE FALSE
    OBVIOUS
  <2>1. rest = rest'
    BY <1>1, <1>6, ConcatEmptySeq
  <2>2. Len(rest) \in Nat
    BY <1>1, LenProperties
  <2> QED BY <1>1, <2>1, <2>2
<1>8. RawTurn(b, e)
  BY <1>2, <1>4, <1>5, <1>6, <1>7 DEF RawTurn, RawLineOf
<1> QED BY <1>6, <1>8

LEMMA HeadOf ==
  ASSUME NEW x \in Seq(Chars), NEW left \in Seq(Chars), NEW u, u = x \o left, x # <<>>
  PROVE  u # <<>> /\ Head(u) = Head(x)
<1>1. Appended(x, left, u, Len(x), Len(left))
  BY ConcatParts
<1>2. Len(x) \in Nat /\ Len(x) # 0
  BY EmptySeq, LenProperties
<1>3. 1 \in 1..Len(x)
  BY <1>2
<1>4. u \in Seq(Chars) /\ Len(u) = Len(x) + Len(left) /\ u[1] = x[1] /\ Len(left) \in Nat
  BY <1>1, <1>3 DEF Appended
<1>5. Len(u) # 0
  BY <1>2, <1>4
<1> QED BY <1>4, <1>5

LEMMA RawTurnKeeps ==
  ASSUME IInv, OriginalLine, ReadSoFar, LinesSoFar, SameText(out, Consumed),
         NEW b \in Seq(Chars), NEW e \in Ends, RawTurn(b, e)
  PROVE  Reads(b \o e) /\ SameText(out', Consumed') /\ LinesSoFar'
<1>1. /\ pc = "format" /\ Mode = "original" /\ raw' = raw /\ rest # <<>>
      /\ rest \in Seq(Chars) /\ rest' \in Seq(Chars)
      /\ out \in Seq(Chars) /\ Consumed \in Seq(Chars)
  <2>1. TypeOK /\ TypeOK'
    BY OriginalLineInv DEF IInv
  <2>2. pc = "format" /\ Mode = "original" /\ raw' = raw /\ rest # <<>>
    BY DEF OriginalLine
  <2> QED BY <2>1, <2>2 DEF TypeOK, ReadSoFar
<1>2. /\ e \in Seq(Chars) /\ \A i \in 1..Len(e) : e[i] \in LineEnd
      /\ e # <<>> => Len(e) >= 1
      /\ e # <<>> /\ e[Len(e)] = "\r" => e = <<"\r">>
  BY EndsAre
<1>3. b \o e \in Seq(Chars)
  BY <1>2, ConcatProperties
<1>4. Reads(b \o e)
  <2> DEFINE x == b \o e
  <2>1. x \in Seq(Chars) /\ rest = x \o rest'
    BY <1>3 DEF RawTurn
  <2> HIDE DEF x
  <2>2. Consumed' = Consumed \o x /\ Consumed' \in Seq(Chars) /\ raw = Consumed' \o rest'
    BY <1>1, <2>1, ReadsOn
  <2> QED BY <1>1, <2>2 DEF Reads, x
<1> SUFFICES ASSUME NEW t, t = out, NEW c, c = Consumed, NEW x, x = b \o e,
                    NEW u, u = Consumed', NEW v, v = out', NEW left, left = rest'
             PROVE  /\ SameText(v, u)
                    /\ SameLines(u, v) /\ (left # <<>> => ~Open(u) /\ Seam(u, left))
  BY <1>4 DEF LinesSoFar
<1>5. u = c \o x /\ v = (t \o b) \o <<"\n">>
  BY <1>4 DEF Reads, RawTurn
<1>6. SameText(v, u)
  <2>1. SameText(t \o b, c \o b) /\ t \o b \in Seq(Chars) /\ c \o b \in Seq(Chars)
    BY <1>1, TextBoth, ConcatProperties
  <2>2. /\ <<"\n">> \in Seq(Chars) /\ \A i \in 1..Len(<<"\n">>) : <<"\n">>[i] \in Blank \cup LineEnd
    BY CharsAssumption DEF LineEnd
  <2>3. SameText(v, c \o b) /\ v \in Seq(Chars)
    <3>1. SameText((t \o b) \o <<"\n">>, c \o b) /\ (t \o b) \o <<"\n">> \in Seq(Chars)
      BY <2>1, <2>2, TextBlank, ConcatProperties
    <3> QED BY <1>5, <3>1
  <2>4. SameText((c \o b) \o e, v)
    <3>1. SameText(c \o b, v)
      BY <2>3, TextTurned
    <3> QED BY <1>2, <2>1, <2>3, <3>1, TextBlank
  <2>5. (c \o b) \o e = u
    <3>1. c \in Seq(Chars)
      BY <1>1
    <3>2. (c \o b) \o e = c \o (b \o e)
      BY <1>2, <3>1, Assoc, Zenon
    <3> QED BY <1>5, <3>2
  <2> QED BY <2>4, <2>5, TextTurned
<1>7. /\ SameLines(c, t) /\ ~Open(c) /\ Seam(c, x) /\ x # <<>>
  <2>1. SameLines(c, t) /\ ~Open(c) /\ Seam(c, rest)
    BY <1>1 DEF LinesSoFar
  <2>2. x # <<>> /\ rest = x \o left
    BY DEF RawTurn
  <2>3. Head(rest) = Head(x)
    BY <1>1, <1>3, <2>2, HeadOf
  <2> QED BY <1>1, <2>1, <2>2, <2>3 DEF Seam
<1>8. /\ SameLines(u, v) /\ (Open(u) <=> e = <<>>) /\ (e # <<>> => Last(u) = Last(e))
  <2>1. \A i \in 1..Len(b) : b[i] \notin LineEnd
    BY DEF RawTurn
  <2>2. Grown(u, v, e)
    BY <1>1, <1>7, <1>5, <2>1, LinesGrow
  <2> QED BY <2>2 DEF Grown
<1>9. ASSUME left # <<>> PROVE ~Open(u) /\ Seam(u, left)
  <2>1. e # <<>> /\ (e = <<"\r">> => Head(left) # "\n")
    BY <1>9 DEF RawTurn
  <2>2. Last(u) = "\r" => e = <<"\r">>
    BY <1>2, <1>8, <2>1 DEF Last
  <2> QED BY <1>8, <2>1, <2>2 DEF Seam
<1> QED BY <1>6, <1>8, <1>9

-----------------------------------------------------------------------------

\* What the loops that format preserve.

FormatInv == ReadSoFar /\ AtLineStart /\ LinesSoFar /\ NothingLost /\ IndentFollowsBraces

LEMMA InitFormat == Init => FormatInv
<1> SUFFICES ASSUME Init PROVE FormatInv
  OBVIOUS
<1>1. raw \in Seq(Chars) /\ rest = raw /\ out = <<>> /\ level = 0 /\ pc = "format" /\ Len(raw) \in Nat
  BY CodesAssumption, LenProperties, Zenon DEF Init
<1>2. Consumed = <<>>
  <2>1. Len(raw) - Len(rest) = 0 /\ 0 \in 0..Len(raw)
    BY <1>1
  <2>2. SubSeq(raw, 1, 0) \in Seq(Chars) /\ Len(SubSeq(raw, 1, 0)) = 0
    BY <1>1, <2>1, Split
  <2> QED BY <2>1, <2>2, EmptySeq DEF Consumed
<1>3. ReadSoFar
  <2>1. <<>> \in Seq(Chars) /\ <<>> \o raw = raw
    BY <1>1, ConcatEmptySeq
  <2> QED BY <1>1, <1>2, <2>1 DEF ReadSoFar
<1>4. AtLineStart
  BY <1>2 DEF AtLineStart
<1>5. Visible(<<>>) = {} /\ Kept(<<>>) = {} /\ Len(<<>>) = 0
  BY DEF Visible, Kept
<1>6. SameText(out, Consumed)
  <2>1. SameText(<<>>, <<>>)
    BY <1>5 DEF SameText
  <2> QED BY <1>1, <1>2, <2>1
<1>7. SameLines(Consumed, out) /\ ~Open(Consumed) /\ Seam(Consumed, rest)
  <2>1. Cardinality({}) = 0
    BY FS_EmptySet
  <2>2. SameLines(<<>>, <<>>)
    BY <1>5, <2>1 DEF SameLines
  <2> QED BY <1>1, <1>2, <2>2 DEF Open, Seam
<1>8. IndentFollowsBraces
  <2>1. \A c : Count(<<>>, c) = 0
    <3>1. \A c : {i \in DOMAIN <<>> : <<>>[i] = c} = {}
      OBVIOUS
    <3> QED BY <3>1, FS_EmptySet DEF Count
  <2>2. Depth = 0 - 0
    <3>1. Opens(<<>>) = 0 /\ Closings(<<>>) = 0
      BY <2>1, Zenon DEF Opens, Closings
    <3> QED BY <1>2, <3>1, DepthIs
  <2>3. level <= Depth /\ level = Depth
    BY <1>1, <2>2
  <2> QED BY <2>3, Zenon DEF IndentFollowsBraces
<1> QED BY <1>1, <1>3, <1>4, <1>6, <1>7, <1>8 DEF FormatInv, LinesSoFar, NothingLost

LEMMA OriginalLineFormat == IInv /\ FormatInv /\ OriginalLine => FormatInv'
<1> SUFFICES ASSUME IInv, FormatInv, OriginalLine PROVE FormatInv'
  OBVIOUS
<1>1. ReadSoFar /\ LinesSoFar /\ NothingLost
  BY DEF FormatInv
<1>2. /\ pc = "format" /\ Mode = "original" /\ pc' = pc /\ raw' = raw /\ env' = env
  BY DEF OriginalLine
<1>3. SameText(out, Consumed)
  BY <1>1, <1>2 DEF NothingLost
<1>4. PICK b \in Seq(Chars), e \in Ends : RawTurn(b, e)
  BY RawTurnTaken
<1>5. Reads(b \o e) /\ SameText(out', Consumed') /\ LinesSoFar'
  BY <1>1, <1>3, <1>4, RawTurnKeeps
<1>6. Mode' = "original"
  BY <1>2 DEF Mode
<1>7. ReadSoFar'
  BY <1>2, <1>5 DEF ReadSoFar, Reads
<1>8. AtLineStart' /\ IndentFollowsBraces'
  <2>1. AtLineStart'
    BY <1>6 DEF AtLineStart
  <2>2. IndentFollowsBraces'
    BY <1>6, Zenon DEF IndentFollowsBraces
  <2> QED BY <2>1, <2>2
<1>9. NothingLost'
  BY <1>2, <1>5 DEF NothingLost
<1> QED BY <1>5, <1>7, <1>8, <1>9 DEF FormatInv

LEMMA FormatLineFormat == IInv /\ FormatInv /\ FormatLine => FormatInv'
<1> SUFFICES ASSUME IInv, FormatInv, FormatLine PROVE FormatInv'
  OBVIOUS
<1>1. ReadSoFar /\ AtLineStart /\ NothingLost /\ IndentFollowsBraces
  BY DEF FormatInv
<1>2. /\ pc = "format" /\ Mode # "original" /\ pc' = pc /\ raw' = raw /\ env' = env
  BY Zenon DEF FormatLine
<1>3. SameText(out, Consumed)
  BY <1>1, <1>2 DEF NothingLost
<1>4. PICK a \in Seq(Chars), k \in Seq(Chars), z \in Seq(Chars), e \in Seq(Chars),
           margin \in Seq(Chars), ends \in Seq(Chars) : Turn(a, k, z, e, margin, ends)
  BY TurnTaken
<1>5. Reads(((a \o k) \o z) \o e) /\ SameText(out', Consumed') /\ AtLineStart'
  BY <1>1, <1>3, <1>4, TurnText, TurnStart
<1>6. Mode' = Mode
  BY <1>2 DEF Mode
<1>7. ReadSoFar'
  BY <1>2, <1>5 DEF ReadSoFar, Reads
<1>8. LinesSoFar'
  BY <1>2, <1>6 DEF LinesSoFar
<1>9. NothingLost'
  BY <1>2, <1>5, <1>6 DEF NothingLost
<1>10. IndentFollowsBraces'
  <2>1. Balanced' => Balanced
    BY <1>2, Zenon DEF Balanced
  <2>2. \A i \in DOMAIN Consumed' : Leads(i)' <=> Leads(i)
    BY <1>2 DEF Leads
  <2>3. (\A i \in DOMAIN Consumed' : raw'[i] = "}" => ~Leads(i)') => NoneLeads(Consumed')
    BY <1>2, <2>2, Zenon DEF NoneLeads
  <2>4. Mode = "auto" /\ Balanced => level' <= Depth' /\ (NoneLeads(Consumed') => level' = Depth')
    BY <1>1, <1>3, <1>4, TurnLevel
  <2> QED BY <1>6, <2>1, <2>3, <2>4, Zenon DEF IndentFollowsBraces
<1> QED BY <1>5, <1>7, <1>8, <1>9, <1>10 DEF FormatInv

LEMMA EndsFormat ==
  /\ IInv /\ FormatInv /\ FormatEnd => FormatInv'
  /\ FormatInv /\ (WriteLine \/ WriteEnd) => FormatInv'
  /\ FormatInv /\ UNCHANGED vars => FormatInv'
<1>1. ASSUME IInv, FormatInv, FormatEnd PROVE FormatInv'
  <2>1. /\ pc = "format" /\ rest = <<>> /\ pc' = "write" /\ raw' = raw /\ out' = out /\ env' = env
    BY <1>1 DEF FormatEnd
  <2>2. Consumed \in Seq(Chars) /\ raw = Consumed \o rest /\ NothingLost /\ LinesSoFar
    BY <1>1, <2>1 DEF FormatInv, ReadSoFar
  <2>3. Consumed = raw
    BY <2>1, <2>2, ConcatEmptySeq
  <2>4. SameText(out, raw) /\ (Mode = "original" => SameLines(raw, out))
    BY <2>1, <2>2, <2>3 DEF NothingLost, LinesSoFar
  <2>5. Mode' = Mode
    BY <2>1 DEF Mode
  <2>6. NothingLost'
    BY <2>1, <2>4, <2>5 DEF NothingLost
  <2>7. IndentFollowsBraces'
    BY <2>1, Zenon DEF IndentFollowsBraces
  <2> QED BY <2>1, <2>6, <2>7 DEF FormatInv, ReadSoFar, AtLineStart, LinesSoFar
<1>2. ASSUME FormatInv, WriteLine \/ WriteEnd PROVE FormatInv'
  <2>1. /\ pc = "write" /\ pc' # "format" /\ raw' = raw /\ out' = out /\ env' = env
    BY <1>2, Zenon DEF WriteLine, WriteEnd
  <2>2. Mode' = Mode
    BY <2>1 DEF Mode
  <2>3. NothingLost'
    BY <1>2, <2>1, <2>2 DEF FormatInv, NothingLost
  <2>4. IndentFollowsBraces'
    BY <2>1, Zenon DEF IndentFollowsBraces
  <2> QED BY <2>1, <2>3, <2>4 DEF FormatInv, ReadSoFar, AtLineStart, LinesSoFar
<1>3. ASSUME FormatInv, UNCHANGED vars PROVE FormatInv'
  <2>1. /\ raw' = raw /\ env' = env /\ pc' = pc /\ rest' = rest /\ out' = out /\ level' = level
    BY <1>3 DEF vars
  <2>2. Consumed' = Consumed /\ Mode' = Mode
    BY <2>1 DEF Consumed, Mode
  <2>3. ReadSoFar' /\ AtLineStart' /\ LinesSoFar' /\ NothingLost'
    BY <1>3, <2>1, <2>2 DEF FormatInv, ReadSoFar, AtLineStart, LinesSoFar, NothingLost
  <2>4. IndentFollowsBraces'
    BY <1>3, <2>1, <2>2, Zenon DEF FormatInv, IndentFollowsBraces, Balanced, Depth, Leads
  <2> QED BY <2>3, <2>4 DEF FormatInv
<1> QED BY <1>1, <1>2, <1>3

LEMMA FormatInvariance == Spec => []FormatInv
<1>1. IInv /\ FormatInv /\ [Next]_vars => FormatInv'
  BY OriginalLineFormat, FormatLineFormat, EndsFormat, Zenon DEF Next
<1> QED BY <1>1, InitFormat, Invariance, PTL DEF Spec

-----------------------------------------------------------------------------

\* Reading the printed pieces back.

(***************************************************************************)
(* The pieces printed so far read as what has been read of the formatted   *)
(* code; what is left is the rest of it.                                   *)
(***************************************************************************)
WrittenSoFar ==
  /\ pc = "format" => shown = <<>>
  /\ pc = "done" => rest = <<>>
  /\ pc # "format" =>
       /\ Len(rest) <= Len(out)
       /\ \A i \in 1..Len(rest) : rest[i] = out[(Len(out) - Len(rest)) + i]
       /\ ReadsAs(shown, out, Len(out) - Len(rest))

\* What is printed for a character is no line break, and stands for it.
LEMMA PieceIs ==
  ASSUME NEW c \in Chars
  PROVE  Piece(c) # Cut /\ Unpiece(Piece(c)) = c
<1>1. c # "\\{" /\ c # "\\}" /\ c # "\\qquad " /\ c # "\\\\"
  BY PiecesAssumption, Zenon
<1>2. CASE c = "{"
  BY <1>2, Zenon DEF Piece, Unpiece, Cut
<1>3. CASE c = "}"
  BY <1>3, Zenon DEF Piece, Unpiece, Cut
<1>4. CASE c = "\t"
  BY <1>4, Zenon DEF Piece, Unpiece, Cut
<1>5. CASE c # "{" /\ c # "}" /\ c # "\t"
  <2>1. Piece(c) = c
    BY <1>5, Zenon DEF Piece
  <2>2. Unpiece(c) = c
    BY <1>1, Zenon DEF Unpiece
  <2> QED BY <1>1, <2>1, <2>2, Zenon DEF Cut
<1> QED BY <1>2, <1>3, <1>4, <1>5, Zenon

LEMMA BreakIs == "\n" # Cut /\ Unpiece("\n") = "\n"
<1>1. "\n" # Cut
  BY Zenon DEF Cut
<1>2. Unpiece("\n") = "\n"
  BY Zenon DEF Unpiece
<1> QED BY <1>1, <1>2

LEMMA CutsType ==
  ASSUME NEW S, NEW s \in Seq(S), NEW l, l = Len(s)
  PROVE  /\ l \in Nat /\ DOMAIN s = 1..l /\ Cuts(s) \in SUBSET (1..l)
         /\ IsFiniteSet(Cuts(s)) /\ Cardinality(Cuts(s)) \in Nat
<1>1. l \in Nat /\ DOMAIN s = 1..l
  BY LenProperties
<1>2. Cuts(s) \in SUBSET (1..l)
  BY <1>1 DEF Cuts
<1>3. IsFiniteSet(1..l)
  BY <1>1, FS_Interval
<1> QED BY <1>1, <1>2, <1>3, FS_Subset, FS_CardinalityType

\* Pieces that stand for the characters to come are added.
LEMMA ReadsMore ==
  ASSUME NEW s \in Seq(Pieces), NEW t, NEW n, ReadsAs(s, t, n),
         NEW x \in Seq(Pieces), NEW m, m = Len(x),
         \A j \in 1..m : x[j] # Cut /\ Unpiece(x[j]) = t[n + j]
  PROVE  ReadsAs(s \o x, t, n + m)
<1> SUFFICES ASSUME NEW u, u = s \o x, NEW l, l = Len(s), NEW C, C = Cuts(s)
             PROVE  ReadsAs(u, t, n + m)
  OBVIOUS
<1>1. /\ l \in Nat /\ m \in Nat /\ Len(u) = l + m /\ DOMAIN s = 1..l /\ DOMAIN u = 1..(l + m)
      /\ \A k \in 1..l : u[k] = s[k]
      /\ \A j \in 1..m : u[l + j] = x[j]
  BY Concat
<1>2. C \in SUBSET (1..l) /\ Cardinality(C) \in Nat
  BY CutsType
<1>3. /\ n = l - Cardinality(C)
      /\ \A k \in DOMAIN s \ C : Unpiece(s[k]) = t[k - UpTo(C, k)]
  BY DEF ReadsAs
<1>4. \A k \in 1..(l + m) : k \in 1..l \/ (k - l \in 1..m /\ k = l + (k - l))
  BY <1>1
<1>5. Cuts(u) = C
  <2>1. ASSUME NEW k \in Cuts(u) PROVE k \in C
    <3>1. k \in 1..(l + m) /\ u[k] = Cut
      BY <1>1 DEF Cuts
    <3>2. k \in 1..l
      BY <1>1, <1>4, <3>1
    <3> QED BY <1>1, <3>1, <3>2 DEF Cuts
  <2>2. ASSUME NEW k \in C PROVE k \in Cuts(u)
    <3>1. k \in 1..l /\ k \in 1..(l + m) /\ s[k] = Cut
      BY <1>1, <1>2 DEF Cuts
    <3> QED BY <1>1, <3>1 DEF Cuts
  <2> QED BY <2>1, <2>2
<1>6. ASSUME NEW k \in 1..(l + m), k \notin C PROVE Unpiece(u[k]) = t[k - UpTo(C, k)]
  <2>1. CASE k \in 1..l
    BY <1>1, <1>3, <1>6, <2>1
  <2>2. CASE k \notin 1..l
    <3>1. PICK j \in 1..m : k = l + j
      BY <1>4, <2>2
    <3>2. {i \in C : i <= k} = C
      BY <1>1, <1>2, <3>1
    <3>3. UpTo(C, k) = Cardinality(C)
      BY <3>2 DEF UpTo
    <3>4. k - UpTo(C, k) = n + j
      BY <1>1, <1>2, <1>3, <3>1, <3>3
    <3> QED BY <1>1, <3>1, <3>4
  <2> QED BY <2>1, <2>2
<1>7. Len(u) - Cardinality(C) = n + m
  <2>1. PICK c \in Nat : c = Cardinality(C)
    BY <1>2
  <2>2. n = l - c
    BY <1>3, <2>1
  <2>3. l \in Nat /\ m \in Nat /\ Len(u) = l + m
    BY <1>1
  <2>4. (l + m) - c = (l - c) + m
    BY <2>1, <2>3
  <2> QED BY <2>1, <2>2, <2>3, <2>4
<1> QED BY <1>1, <1>5, <1>6, <1>7 DEF ReadsAs

\* What LaTeX needs to break a line stands for nothing.
LEMMA ReadsCut ==
  ASSUME NEW s \in Seq(Pieces), NEW t, NEW n, ReadsAs(s, t, n)
  PROVE  ReadsAs(s \o <<Cut>>, t, n)
<1> SUFFICES ASSUME NEW x, x = <<Cut>>, NEW u, u = s \o x, NEW l, l = Len(s), NEW C, C = Cuts(s)
             PROVE  ReadsAs(u, t, n)
  OBVIOUS
<1>1. x \in Seq(Pieces) /\ Len(x) = 1 /\ x[1] = Cut
  <2>1. Cut \in Pieces
    BY DEF Pieces
  <2> QED BY <2>1
<1>2. /\ l \in Nat /\ Len(u) = l + 1 /\ DOMAIN s = 1..l /\ DOMAIN u = 1..(l + 1)
      /\ \A k \in 1..l : u[k] = s[k]
      /\ u[l + 1] = Cut
  <2>1. 1 \in 1..1
    OBVIOUS
  <2> QED BY <1>1, <2>1, Concat
<1>3. C \in SUBSET (1..l) /\ Cardinality(C) \in Nat /\ IsFiniteSet(C)
  BY CutsType
<1>4. /\ n = l - Cardinality(C)
      /\ \A k \in DOMAIN s \ C : Unpiece(s[k]) = t[k - UpTo(C, k)]
  BY DEF ReadsAs
<1>5. \A k \in 1..(l + 1) : k \in 1..l \/ k = l + 1
  BY <1>2
<1>6. \A k \in 1..l : k \in 1..(l + 1) /\ k # l + 1
  BY <1>2
<1>7. l + 1 \in 1..(l + 1)
  BY <1>2
<1>8. Cuts(u) = C \cup {l + 1}
  BY <1>2, <1>5, <1>6, <1>7 DEF Cuts
<1>9. Cardinality(Cuts(u)) = Cardinality(C) + 1
  <2>1. l + 1 \notin C
    BY <1>3, <1>6
  <2> QED BY <1>3, <1>8, <2>1, FS_AddElement
<1>10. ASSUME NEW k \in 1..(l + 1), k \notin Cuts(u) PROVE Unpiece(u[k]) = t[k - UpTo(Cuts(u), k)]
  <2>1. k \in 1..l /\ k \notin C
    BY <1>5, <1>8, <1>10
  <2>2. {i \in Cuts(u) : i <= k} = {i \in C : i <= k}
    <3>1. ~(l + 1 <= k)
      BY <1>2, <2>1
    <3> QED BY <1>8, <3>1
  <2>3. UpTo(Cuts(u), k) = UpTo(C, k)
    BY <2>2 DEF UpTo
  <2> QED BY <1>2, <1>4, <2>1, <2>3
<1>11. Len(u) - Cardinality(Cuts(u)) = n
  BY <1>2, <1>3, <1>4, <1>9
<1> QED BY <1>2, <1>10, <1>11 DEF ReadsAs

\* A line is written as the pieces of its characters, its end as a break.
LEMMA BreakReads ==
  ASSUME NEW s \in Seq(Pieces), NEW t, NEW n \in Int, ReadsAs(s, t, n), t[n + 1] = "\n",
         NEW first \in BOOLEAN, NEW left
  PROVE  ReadsAs(s \o Break(first, left), t, n + 1)
<1> DEFINE x == <<"\n">>
<1>1. x \in Seq(Pieces) /\ Len(x) = 1 /\ x[1] = "\n" /\ <<Cut>> \in Seq(Pieces)
  <2>1. "\n" \in Pieces /\ Cut \in Pieces
    BY DEF Pieces
  <2> QED BY <2>1
<1>2. \A j \in 1..1 : x[j] # Cut /\ Unpiece(x[j]) = t[n + j]
  <2>1. \A j \in 1..1 : j = 1
    OBVIOUS
  <2> HIDE DEF x
  <2> QED BY <1>1, <2>1, BreakIs
<1>3. Break(first, left) = x \/ Break(first, left) = <<Cut>> \o x
  <2>1. <<Cut, "\n">> = <<Cut>> \o <<"\n">>
    OBVIOUS
  <2> QED BY <2>1 DEF Break
<1> HIDE DEF x
<1>4. ReadsAs(s \o x, t, n + 1)
  BY <1>1, <1>2, ReadsMore
<1>5. ReadsAs((s \o <<Cut>>) \o x, t, n + 1)
  <2>1. ReadsAs(s \o <<Cut>>, t, n) /\ s \o <<Cut>> \in Seq(Pieces)
    BY <1>1, ReadsCut, ConcatProperties
  <2> QED BY <1>1, <1>2, <2>1, ReadsMore
<1>6. (s \o <<Cut>>) \o x = s \o (<<Cut>> \o x)
  BY <1>1, ConcatAssociative
<1> QED BY <1>3, <1>4, <1>5, <1>6

\* After a line, either all is read or its end is too.
LineAt(s, n, left) ==
  \/ n = Len(s) /\ left = <<>>
  \/ /\ n < Len(s) /\ s[n + 1] = "\n" /\ Len(left) = Len(s) - (n + 1)
     /\ \A i \in 1..Len(left) : left[i] = s[(n + 1) + i]

LEMMA LineAtStart ==
  ASSUME NEW s \in Seq(Chars), NEW n, n = Span(s, Chars \ {"\n"}),
         NEW left, left = DropIf(Drop(s, n), "\n")
  PROVE  n \in 0..Len(s) /\ left \in Seq(Chars) /\ LineAt(s, n, left)
<1>1. PICK e \in {<<>>, <<"\n">>} : LineOf(s, n, left, e) /\ (e = <<>> => left = <<>>)
  BY LineSplits
<1>2. SUFFICES ASSUME NEW l, l = Len(s), NEW b, b = SubSeq(s, 1, n), NEW k, k = Len(left)
               PROVE  n \in 0..l /\ left \in Seq(Chars) /\ LineAt(s, n, left)
  OBVIOUS
<1>3. /\ n \in 0..l /\ b \in Seq(Chars) /\ Len(b) = n /\ e \in Seq(Chars) /\ left \in Seq(Chars)
      /\ s = (b \o e) \o left /\ l \in Nat /\ k \in Nat
  BY <1>1, <1>2, LenProperties DEF LineOf
<1>4. CASE e = <<>>
  <2>1. left = <<>> /\ b \o e = b /\ b \o left = b
    BY <1>1, <1>3, <1>4, ConcatEmptySeq
  <2>2. s = b
    BY <1>3, <2>1
  <2> QED BY <1>2, <1>3, <2>1, <2>2 DEF LineAt
<1>5. CASE e = <<"\n">>
  <2>1. Len(e) = 1 /\ e[1] = "\n" /\ 1 \in 1..1
    BY <1>5
  <2> DEFINE w == b \o e
  <2>2. w \in Seq(Chars) /\ Len(w) = n + 1 /\ w[n + 1] = "\n"
    <3>1. Appended(b, e, w, n, 1)
      BY <1>3, <2>1, ConcatParts
    <3> HIDE DEF w
    <3> QED BY <2>1, <3>1 DEF Appended
  <2> HIDE DEF w
  <2>3. Appended(w, left, s, n + 1, k)
    <3>1. Appended(w, left, w \o left, Len(w), Len(left))
      BY <1>3, <2>2, ConcatParts
    <3> QED BY <1>2, <1>3, <2>2, <3>1 DEF w
  <2>4. l = (n + 1) + k /\ s[n + 1] = "\n" /\ \A i \in 1..k : s[(n + 1) + i] = left[i]
    <3>1. n + 1 \in 1..(n + 1)
      BY <1>3
    <3> QED BY <1>2, <2>2, <2>3, <3>1 DEF Appended
  <2>5. n < l /\ k = l - (n + 1)
    <3>1. l \in Nat /\ k \in Nat /\ n \in 0..l /\ l = (n + 1) + k
      BY <1>3, <2>4, Zenon
    <3> QED BY <3>1
  <2> QED BY <1>2, <1>3, <2>4, <2>5, Zenon DEF LineAt
<1> QED BY <1>1, <1>4, <1>5

LEMMA WriteLineWritten == IInv /\ WrittenSoFar /\ WriteLine => WrittenSoFar'
<1> SUFFICES ASSUME IInv, WrittenSoFar, WriteLine PROVE WrittenSoFar'
  OBVIOUS
<1> DEFINE n == Span(rest, Chars \ {"\n"})
           left == DropIf(Drop(rest, n), "\n")
           line == [i \in 1..n |-> Piece(rest[i])]
           first == n = 0 /\ rest = out
<1>1. /\ shown' = (shown \o line) \o (IF n < Len(rest) THEN Break(first, left) ELSE <<>>)
      /\ rest' = left /\ pc = "write" /\ pc' = pc /\ out' = out
  BY DEF WriteLine
<1>2. rest \in Seq(Chars) /\ out \in Seq(Chars) /\ shown \in Seq(Pieces)
  BY DEF IInv, TypeOK
<1>3. n \in 0..Len(rest) /\ left \in Seq(Chars) /\ LineAt(rest, n, left)
  BY <1>2, LineAtStart
<1>4. first \in BOOLEAN
  OBVIOUS
<1> HIDE DEF n, left, first
<1>5. /\ line \in Seq(Pieces) /\ Len(line) = n
      /\ \A i \in 1..n : rest[i] \in Chars /\ line[i] = Piece(rest[i])
  <2>1. Len(rest) \in Nat /\ n \in Nat /\ \A i \in 1..n : rest[i] \in Chars
    BY <1>2, <1>3, LenProperties, ElementOfSeq
  <2>2. \A i \in 1..n : Piece(rest[i]) \in Pieces
    BY <2>1, Zenon DEF Pieces
  <2>3. /\ line \in [1..n -> Pieces] /\ line = [i \in 1..n |-> line[i]]
        /\ \A i \in 1..n : line[i] = Piece(rest[i])
    BY <2>2
  <2> HIDE DEF line
  <2>4. line \in Seq(Pieces) /\ Len(line) = n
    BY <2>1, <2>3, CopiesType
  <2> QED BY <2>1, <2>3, <2>4
<1> HIDE DEF line
<1>6. SUFFICES ASSUME NEW l, l = Len(out), NEW r, r = Len(rest), NEW q, q = Len(left)
               PROVE  WrittenSoFar'
  OBVIOUS
<1>7. l \in Nat /\ r \in Nat /\ q \in Nat /\ n \in 0..r
  BY <1>2, <1>3, <1>6, LenProperties
<1>8. r <= l /\ (\A i \in 1..r : rest[i] = out[(l - r) + i]) /\ ReadsAs(shown, out, l - r)
  BY <1>1, <1>6 DEF WrittenSoFar
<1>9. ReadsAs(shown \o line, out, (l - r) + n) /\ shown \o line \in Seq(Pieces)
  <2>1. ASSUME NEW j \in 1..n PROVE line[j] # Cut /\ Unpiece(line[j]) = out[(l - r) + j]
    <3>1. j \in 1..r
      BY <1>7
    <3>2. rest[j] \in Chars /\ line[j] = Piece(rest[j])
      BY <1>5
    <3>3. Piece(rest[j]) # Cut /\ Unpiece(Piece(rest[j])) = rest[j]
      BY <3>2, PieceIs
    <3> QED BY <1>8, <3>1, <3>2, <3>3
  <2> QED BY <1>2, <1>5, <1>8, <2>1, ReadsMore, ConcatProperties
<1>10. CASE n = r /\ left = <<>>
  <2>1. shown' = (shown \o line) \o <<>> /\ rest' = <<>>
    <3>1. ~(n < r)
      BY <1>7, <1>10
    <3> QED BY <1>1, <1>6, <1>10, <3>1, Zenon
  <2>2. shown' = shown \o line
    BY <1>9, <2>1, ConcatEmptySeq
  <2>3. Len(rest') = 0 /\ (l - r) + n = l - 0
    BY <1>7, <1>10, <2>1
  <2>4. ReadsAs(shown', out, l - 0)
    BY <1>9, <2>2, <2>3
  <2> QED BY <1>1, <1>6, <1>7, <2>3, <2>4 DEF WrittenSoFar
<1>11. CASE n < r /\ LineAt(rest, n, left) /\ ~(n = r /\ left = <<>>)
  <2>1. /\ n < r /\ rest[n + 1] = "\n" /\ q = r - (n + 1)
        /\ \A i \in 1..q : left[i] = rest[(n + 1) + i]
    BY <1>6, <1>11 DEF LineAt
  <2>2. n + 1 \in 1..r /\ (l - r) + (n + 1) = ((l - r) + n) + 1 /\ (l - r) + n \in Int
    BY <1>7, <2>1
  <2>3. out[((l - r) + n) + 1] = "\n"
    BY <1>8, <2>1, <2>2
  <2>4. ReadsAs((shown \o line) \o Break(first, left), out, ((l - r) + n) + 1)
    BY <1>4, <1>9, <2>2, <2>3, BreakReads
  <2>5. shown' = (shown \o line) \o Break(first, left)
    BY <1>1, <1>6, <2>1
  <2>6. ((l - r) + n) + 1 = l - q /\ q <= l
    BY <1>7, <1>8, <2>1
  <2>7. ReadsAs(shown', out, l - q)
    BY <2>4, <2>5, <2>6
  <2>8. ASSUME NEW i \in 1..q PROVE left[i] = out[(l - q) + i]
    <3>1. (n + 1) + i \in 1..r /\ (l - r) + ((n + 1) + i) = (l - q) + i
      BY <1>7, <2>1
    <3> QED BY <1>8, <2>1, <3>1
  <2> QED BY <1>1, <1>6, <2>6, <2>7, <2>8 DEF WrittenSoFar
<1> QED BY <1>3, <1>6, <1>7, <1>10, <1>11 DEF LineAt

LEMMA InitWritten == Init => WrittenSoFar
BY DEF Init, WrittenSoFar

LEMMA OthersWritten ==
  /\ WrittenSoFar /\ (OriginalLine \/ FormatLine) => WrittenSoFar'
  /\ IInv /\ WrittenSoFar /\ FormatEnd => WrittenSoFar'
  /\ WrittenSoFar /\ WriteEnd => WrittenSoFar'
  /\ WrittenSoFar /\ UNCHANGED vars => WrittenSoFar'
<1>1. ASSUME WrittenSoFar, OriginalLine \/ FormatLine PROVE WrittenSoFar'
  <2>1. pc = "format" /\ pc' = pc /\ shown' = shown
    BY <1>1, Zenon DEF OriginalLine, FormatLine
  <2> QED BY <1>1, <2>1 DEF WrittenSoFar
<1>2. ASSUME IInv, WrittenSoFar, FormatEnd PROVE WrittenSoFar'
  <2>1. /\ pc = "format" /\ pc' = "write" /\ rest' = out /\ out' = out /\ shown' = shown
        /\ Len(out) \in Nat
    BY <1>2, LenProperties DEF FormatEnd, IInv, TypeOK
  <2>2. shown = <<>>
    BY <1>2, <2>1 DEF WrittenSoFar
  <2>3. Len(out) - Len(out) = 0 /\ \A i \in 1..Len(out) : 0 + i = i
    BY <2>1
  <2>4. ReadsAs(<<>>, out, 0)
    <3>1. Cuts(<<>>) = {} /\ Len(<<>>) = 0 /\ DOMAIN <<>> = {}
      BY DEF Cuts
    <3>2. Cardinality({}) = 0
      BY FS_EmptySet
    <3>3. Len(<<>>) - Cardinality(Cuts(<<>>)) = 0
      <4>1. Len(<<>>) = 0 /\ Cardinality(Cuts(<<>>)) = 0
        BY <3>1, <3>2, Zenon
      <4> QED BY <4>1
    <3>4. DOMAIN <<>> \ Cuts(<<>>) = {}
      BY <3>1
    <3> QED BY <3>3, <3>4, Zenon DEF ReadsAs
  <2> QED BY <2>1, <2>2, <2>3, <2>4 DEF WrittenSoFar
<1>3. ASSUME WrittenSoFar, WriteEnd PROVE WrittenSoFar'
  BY <1>3 DEF WrittenSoFar, WriteEnd
<1>4. ASSUME WrittenSoFar, UNCHANGED vars PROVE WrittenSoFar'
  BY <1>4 DEF WrittenSoFar, vars
<1> QED BY <1>1, <1>2, <1>3, <1>4

LEMMA WrittenInvariance == Spec => []WrittenSoFar
<1>1. IInv /\ WrittenSoFar /\ [Next]_vars => WrittenSoFar'
  BY WriteLineWritten, OthersWritten, Zenon DEF Next
<1> QED BY <1>1, InitWritten, Invariance, PTL DEF Spec

-----------------------------------------------------------------------------

(***************************************************************************)
(* CodeListing.NothingLost: whatever the setting, formatting loses,        *)
(* doubles and moves nothing that can be seen, and mode "original" keeps   *)
(* the lines too (_formatCode, Generator.c:157-233).                       *)
(***************************************************************************)
THEOREM TextIsKept == Spec => []NothingLost
<1>1. FormatInv => NothingLost
  BY DEF FormatInv
<1> QED BY <1>1, FormatInvariance, PTL

(***************************************************************************)
(* CodeListing.IndentFollowsBraces: in mode "auto" a line is never         *)
(* indented deeper than braces are open, and exactly so deep until a line  *)
(* begins with a closing brace (Generator.c:200 and 218-226).              *)
(***************************************************************************)
THEOREM LevelFollows == Spec => []IndentFollowsBraces
<1>1. FormatInv => IndentFollowsBraces
  BY DEF FormatInv
<1> QED BY <1>1, FormatInvariance, PTL

(***************************************************************************)
(* CodeListing.ListingReadsBack: the formatted code can be read back from  *)
(* what is printed of it (_genLatexSlide, Generator.c:286-320).            *)
(***************************************************************************)
THEOREM ReadsBack == Spec => []ListingReadsBack
<1>1. IInv /\ WrittenSoFar => ListingReadsBack
  <2> SUFFICES ASSUME IInv, WrittenSoFar, pc = "done"
               PROVE  ReadsAs(shown, out, Len(out))
    BY DEF ListingReadsBack
  <2>1. rest = <<>> /\ ReadsAs(shown, out, Len(out) - Len(rest)) /\ Len(out) \in Nat
    BY LenProperties DEF IInv, TypeOK, WrittenSoFar
  <2>2. Len(out) - Len(rest) = Len(out)
    BY <2>1
  <2> QED BY <2>1, <2>2
<1> QED BY <1>1, Invariance, WrittenInvariance, PTL

=============================================================================
