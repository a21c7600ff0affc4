------------------------------ MODULE LabelText ------------------------------
(***************************************************************************)
(* How the generator makes a LaTeX label out of a title: _sanitizeLabel,   *)
(* and the numbered variants the suffix loop of _buildLabelMap prints into *)
(* its buffer (Generator.c).  A string is a sequence of characters; the    *)
(* word "slide" counts as one.                                             *)
(***************************************************************************)
EXTENDS SequencesExt

CONSTANTS
  Alnum,    \* the characters isalnum knows
  Lower,    \* tolower on them
  NULL,     \* the null pointer
  Room      \* the characters the suffix loop's buffer holds, its NUL not counted

ASSUME LowerAssumption == Lower \in [Alnum -> Alnum]
ASSUME RoomAssumption == Room \in Nat

\* The digits "%d" prints.
Decimal[n \in Nat] ==
  (IF n < 10 THEN <<>> ELSE Decimal[n \div 10]) \o
  <<<<"0", "1", "2", "3", "4", "5", "6", "7", "8", "9">>[(n % 10) + 1]>>

\* One character of the loop.  prevDash is what out already shows: it ends in a dash.
Cleaned(out, c) ==
  CASE c \in Alnum -> Append(out, Lower[c])
    [] c = "\""    -> out
    [] OTHER       -> IF out # <<>> /\ Last(out) = "-" THEN out ELSE Append(out, "-")

SanitizeLabel(raw, index) ==
  LET out == IF raw = NULL THEN <<>> ELSE FoldLeft(Cleaned, <<>>, raw)
  IN  IF out = <<>> THEN <<"slide">> \o Decimal[index]
      ELSE IF Last(out) = "-" THEN Front(out) ELSE out

\* snprintf("%s-%d"): what does not fit is cut off.
Candidate(base, suffix) ==
  LET text == base \o <<"-">> \o Decimal[suffix]
  IN  SubSeq(text, 1, IF Len(text) < Room THEN Len(text) ELSE Room)

=============================================================================
