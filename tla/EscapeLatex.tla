---------------------------- MODULE EscapeLatex ----------------------------
(***************************************************************************)
(* _escapeLatex (Generator.c): a title or subtitle is copied character by  *)
(* character into a buffer of fixed size, with a backslash before some.    *)
(***************************************************************************)
EXTENDS SequencesExt, Integers

CONSTANTS
  Chars,      \* the characters
  Titles,     \* the texts to escape
  Size         \* the size of the buffer: 1024 in the code

Backslash == "\\"

ASSUME CharsAssumption == Backslash \in Chars
ASSUME TitlesAssumption == Titles \subseteq Seq(Chars)
ASSUME SizeAssumption == Size \in Nat /\ Size > 2

VARIABLES
  src, i,     \* the text and the characters of it that have been read
  dst         \* what has been written, j characters; its NUL when the loop has ended

vars == <<src, i, dst>>

Init == src \in Titles /\ i = 0 /\ dst = <<>>

\* Deviation: the size is compared with what has been written.
RoomForOne == Len(dst) < Size

Room == Len(dst) + 2 < Size

\* The characters that get a backslash.
Marked == {"_", "%"}

\* What is written for a character.  (Deviation: "%" is copied as it is.)
EscapedLess(c) == IF c = "_" THEN <<Backslash, c>> ELSE <<c>>
Escaped(c) == IF c \in Marked THEN <<Backslash, c>> ELSE <<c>>

Step ==
  /\ i < Len(src) /\ Room
  /\ dst' = dst \o Escaped(src[i + 1])
  /\ i' = i + 1
  /\ UNCHANGED src

Next == Step

Spec == Init /\ [][Next]_vars

Finished == i = Len(src) \/ ~Room

-----------------------------------------------------------------------------

TypeOK == src \in Titles /\ i \in 0..Len(src) /\ dst \in Seq(Chars)

(***************************************************************************)
(* The loop reads inside the title and writes inside the buffer, the NUL   *)
(* that ends the text included (_escapeLatex, Generator.c:39-42).          *)
(***************************************************************************)
InBounds == i \in 0..Len(src) /\ Len(dst) < Size

\* The backslashes of a text that make the next character harmless: the odd ones of a row.
Row(s, k) == {j \in 1..k : \A h \in j..k : s[h] = Backslash}
Quoting(s) == {k \in DOMAIN s : Cardinality(Row(s, k)) % 2 = 1}

\* The positions at which LaTeX takes a character for something else.
Harmful(s, specials) == {k \in DOMAIN s : s[k] \in specials /\ k - 1 \notin Quoting(s)}

\* What the report says is escaped (Informe TPE_TLA.pdf, section 3.2.2); the code does
\* not ask for the dollar sign.
Dollar == "$"
Special == {"_", "%", Dollar}

\* The dollar signs are bare and nothing else is, nor is a backslash cut off from its own.
DollarsBare ==
  /\ Harmful(dst, Special) = {k \in DOMAIN dst : dst[k] = Dollar}
  /\ Len(dst) \notin Quoting(dst)

\* The characters of s up to the k-th, backslashes aside.
Plain(s, k) == Cardinality({j \in 1..k : s[j] # Backslash})

\* What is written is the beginning of the title.
TitleKept ==
  /\ Plain(dst, Len(dst)) = i
  /\ \A k \in DOMAIN dst : dst[k] # Backslash => dst[k] = src[Plain(dst, k)]

(***************************************************************************)
(* Of a title without backslashes of its own, exactly the dollar signs     *)
(* reach LaTeX bare.  The report says of _, % and $ that they are escaped: *)
(* the code does so for the first two, and their backslashes are not cut   *)
(* off where the buffer ends, but never for the third.  What is written is *)
(* the beginning of the title, and the buffer forces off what is missing:  *)
(* any title is whole when twice its length fits (_escapeLatex,            *)
(* Generator.c:38-43).                                                     *)
(***************************************************************************)
OnlyDollarsBare ==
  /\ Backslash \notin ToSet(src) => DollarsBare /\ TitleKept
  /\ Finished /\ 2 * Len(src) < Size => i = Len(src)

=============================================================================
