---------------------------- MODULE CodeListing ----------------------------
(***************************************************************************)
(* How a code block reaches the LaTeX document (Generator.c): _formatCode  *)
(* lays its lines out anew in a buffer it sizes itself, as the environment *)
(* asks, and _genLatexSlide writes the result between \begin{verbatim} and *)
(* \end{verbatim}, with other text for braces, tabs and line ends.         *)
(*                                                                         *)
(* A code is a sequence of characters; rest is what the loops have not     *)
(* come to yet.  No line of the loops is longer than int can count.        *)
(***************************************************************************)
EXTENDS SequencesExt, Integers

CONSTANTS
  Chars,      \* the characters of a code
  Codes,      \* the contents of code blocks
  Values,     \* what a variable of the environment may be set to
  Settings,   \* CODE_INDENT_MODE, _STYLE and _SIZE and CODE_DOUBLE_SPACE
  NULL        \* a variable that is not set

\* The size is the number atoi makes of it.
Setting == [mode : Values \cup {NULL}, style : Values \cup {NULL}, size : Int \cup {NULL},
            doubleSpace : Values \cup {NULL}]

Blank == {" ", "\t"}
LineEnd == {"\n", "\r"}

ASSUME CharsAssumption == Blank \cup LineEnd \subseteq Chars
ASSUME CodesAssumption == Codes \subseteq Seq(Chars)
ASSUME SettingsAssumption == Settings \subseteq Setting
ASSUME NullAssumption == NULL \notin Values \cup Int
\* What is printed for a brace, a tab or the end of a line is more than a character.
ASSUME PiecesAssumption == Chars \cap {"\\{", "\\}", "\\qquad ", "\\\\"} = {}

VARIABLES
  raw, env,   \* the code and the setting
  pc,         \* "format", "write" or "done"
  rest,       \* what is left to read: of raw, then of out
  out, cap,   \* the formatted code without its NUL, and the bytes allocated for it
  level,      \* the indentation of the next line
  shown       \* what has been printed of it, a piece at a time

vars == <<raw, env, pc, rest, out, cap, level, shown>>

\* How many characters a loop steps over that goes on while they are in kept.
Span(s, kept) == Cardinality({i \in DOMAIN s : \A j \in 1..i : s[j] \in kept})
Drop(s, n) == SubSeq(s, n + 1, Len(s))
DropIf(s, c) == IF s # <<>> /\ Head(s) = c THEN Tail(s) ELSE s

GetStringOrDefault(value, default) == IF value = NULL THEN default ELSE value
Mode == GetStringOrDefault(env.mode, "original")
IndentSize == LET size == GetStringOrDefault(env.size, 4) IN IF size <= 0 THEN 4 ELSE size
Double == IF GetStringOrDefault(env.doubleSpace, "false") = "true" THEN 2 ELSE 1
Tabs == GetStringOrDefault(env.style, "spaces") = "tabs"
Count(s, c) == Cardinality({i \in DOMAIN s : s[i] = c})

Init ==
  /\ raw \in Codes /\ env \in Settings
  /\ pc = "format"
  /\ rest = raw
  /\ out = <<>>
  /\ cap = IF Mode = "original" THEN 2 * Len(raw) + 2
           ELSE Len(raw) * (1 + Double) + 256
  /\ level = 0
  /\ shown = <<>>

\* Deviations: a carriage return is not stepped over; it is looked for after "\n".
KeepReturn(s) == DropIf(s, "\n")
SkipSwapped(s) == DropIf(DropIf(s, "\n"), "\r")

\* "\r\n", "\n" or "\r"
SkipLineEnd(s) == DropIf(DropIf(s, "\r"), "\n")

OriginalLine ==
  /\ pc = "format" /\ Mode = "original" /\ rest # <<>>
  /\ LET n == Span(rest, Chars \ LineEnd)
     IN  /\ out' = out \o SubSeq(rest, 1, n) \o <<"\n">>
         /\ rest' = SkipLineEnd(Drop(rest, n))
  /\ UNCHANGED <<raw, env, pc, cap, level, shown>>

\* A line without the carriage return before its end.
Chopped(line) == IF line # <<>> /\ Last(line) = "\r" THEN Front(line) ELSE line

Content(line) == Drop(line, Span(line, Blank))

Units(indent) == IF Tabs THEN indent ELSE indent * IndentSize

\* Deviation: the buffer is not sized for the indentation.
NeedUnindented(length, indent) == Len(out) + (length + 1) * Double + 24

Need(length, indent) == Len(out) + (length + 1) * Double + 16 + Units(indent) + 8

\* Deviations: the level may fall below zero; only the first closing brace counts.
LevelSigned(indent, content) == indent + Count(content, "{") - Count(content, "}")
LevelClosedOnce(indent, content) ==
  LET net == indent + Count(content, "{") - (IF Count(content, "}") > 0 THEN 1 ELSE 0)
  IN  IF net < 0 THEN 0 ELSE net

LevelAfter(indent, content) ==
  LET net == indent + Count(content, "{") - Count(content, "}") IN IF net < 0 THEN 0 ELSE net

FormatLine ==
  /\ pc = "format" /\ Mode # "original" /\ rest # <<>>
  /\ LET n == Span(rest, Chars \ {"\n"})
         content == Content(Chopped(SubSeq(rest, 1, n)))
         auto == Mode = "auto"
         closes == content # <<>> /\ Head(content) = "}" /\ level > 0 /\ auto
         indent == IF closes THEN level - 1 ELSE level
     IN  /\ cap' = IF Need(n, indent) >= cap THEN Need(n, indent) + 256 ELSE cap
         /\ out' = out \o [i \in 1..Units(indent) |-> IF Tabs THEN "\t" ELSE " "] \o content
                       \o [i \in 1..Double |-> "\n"]
         /\ level' = IF auto THEN LevelAfter(indent, content) ELSE indent
         /\ rest' = DropIf(Drop(rest, n), "\n")
  /\ UNCHANGED <<raw, env, pc, shown>>

FormatEnd ==
  /\ pc = "format" /\ rest = <<>>
  /\ pc' = "write"
  /\ rest' = out
  /\ UNCHANGED <<raw, env, out, cap, level, shown>>

\* What is printed for a character in a line.
Piece(c) ==
  CASE c = "{" -> "\\{" [] c = "}" -> "\\}" [] c = "\t" -> "\\qquad " [] OTHER -> c

Cut == "\\\\"    \* what ends a line in LaTeX

Pieces == {Piece(c) : c \in Chars} \cup {"\n", Cut}

\* Deviation: a line that another follows is ended by \\ alone.
BreakOnly(first, left) ==
  IF first \/ \A i \in DOMAIN left : left[i] \in Blank \cup LineEnd
  THEN <<"\n">> ELSE <<Cut>>

\* What is printed for the end of a line, with what is left after it.
Break(first, left) ==
  IF first \/ \A i \in DOMAIN left : left[i] \in Blank \cup LineEnd
  THEN <<"\n">> ELSE <<Cut, "\n">>

WriteLine ==
  /\ pc = "write" /\ rest # <<>>
  /\ LET n == Span(rest, Chars \ {"\n"})
         left == DropIf(Drop(rest, n), "\n")
     IN  /\ shown' = shown \o [i \in 1..n |-> Piece(rest[i])] \o
                     IF n < Len(rest) THEN Break(n = 0 /\ rest = out, left) ELSE <<>>
         /\ rest' = left
  /\ UNCHANGED <<raw, env, pc, out, cap, level>>

WriteEnd ==
  /\ pc = "write" /\ rest = <<>>
  /\ pc' = "done"
  /\ UNCHANGED <<raw, env, rest, out, cap, level, shown>>

Next == OriginalLine \/ FormatLine \/ FormatEnd \/ WriteLine \/ WriteEnd

Spec == Init /\ [][Next]_vars

-----------------------------------------------------------------------------

TypeOK ==
  /\ raw \in Codes /\ env \in Settings
  /\ pc \in {"format", "write", "done"}
  /\ rest \in Seq(Chars) /\ out \in Seq(Chars) /\ shown \in Seq(Pieces)
  /\ cap \in Nat /\ level \in Nat

(***************************************************************************)
(* Neither strcat nor the loop that indents writes past the buffer, the    *)
(* NUL included: twice the code is enough when lines are copied, and what  *)
(* a line may need otherwise is asked for before it is written             *)
(* (_formatCode, Generator.c:168 and 205-206).                             *)
(***************************************************************************)
OutFits == Len(out) < cap

Consumed == SubSeq(raw, 1, Len(raw) - Len(rest))

\* How many of the positions P are not after k.
UpTo(P, k) == Cardinality({i \in P : i <= k})

\* Where a text can be seen, and how much of it up to position k.
Visible(s) == {i \in DOMAIN s : s[i] \notin Blank \cup LineEnd}
Seen(s, k) == UpTo(Visible(s), k)

\* The same can be seen of two texts, in the same order.
SameText(s, t) ==
  /\ Seen(s, Len(s)) = Seen(t, Len(t))
  /\ \A k \in Visible(s), l \in Visible(t) : Seen(s, k) = Seen(t, l) => s[k] = t[l]

\* The characters of s that are left when "\r\n" becomes one.
Kept(s) == {i \in DOMAIN s : ~(i > 1 /\ s[i] = "\n" /\ s[i - 1] = "\r")}

\* The lines of t are those of s, each ended by "\n", the last one included.
SameLines(s, t) ==
  LET open == s # <<>> /\ Last(s) \notin LineEnd
  IN  /\ Len(t) = Cardinality(Kept(s)) + (IF open THEN 1 ELSE 0)
      /\ \A k \in Kept(s) : t[UpTo(Kept(s), k)] = IF s[k] \in LineEnd THEN "\n" ELSE s[k]
      /\ open => Last(t) = "\n"

(***************************************************************************)
(* Whatever the setting, formatting loses, doubles and moves nothing that  *)
(* can be seen; in mode "original" it keeps the lines and their            *)
(* indentation too, and makes one of the three ways to end a line          *)
(* (_formatCode, Generator.c:157-233).                                     *)
(***************************************************************************)
NothingLost ==
  /\ SameText(out, IF pc = "format" THEN Consumed ELSE raw)
  /\ Mode = "original" /\ pc # "format" => SameLines(raw, out)

Depth == Count(Consumed, "{") - Count(Consumed, "}")
Balanced ==
  \A k \in DOMAIN raw : Count(SubSeq(raw, 1, k), "}") <= Count(SubSeq(raw, 1, k), "{")

\* Position i holds the first character of its line that is not blank.
Leads(i) ==
  \E j \in 0..(i - 1) :
    (j = 0 \/ raw[j] = "\n") /\ \A k \in (j + 1)..(i - 1) : raw[k] \in Blank

(***************************************************************************)
(* In mode "auto", for a code that closes no brace it has not opened, a    *)
(* line is never indented deeper than braces are open, and exactly so      *)
(* deep until a line begins with a closing brace: that one counts twice,   *)
(* and the lines after it stand too far left (Generator.c:200 and 218-226).*)
(***************************************************************************)
IndentFollowsBraces ==
  Mode = "auto" /\ pc = "format" /\ Balanced =>
    /\ level <= Depth
    /\ (\A i \in DOMAIN Consumed : raw[i] = "}" => ~Leads(i)) => level = Depth

\* What a piece stands for.
Unpiece(p) ==
  CASE p = "\\{" -> "{" [] p = "\\}" -> "}" [] p = "\\qquad " -> "\t" [] OTHER -> p

Cuts(s) == {k \in DOMAIN s : s[k] = Cut}

\* Without what LaTeX needs to break lines, the pieces s stand for n characters of t.
ReadsAs(s, t, n) ==
  /\ Len(s) - Cardinality(Cuts(s)) = n
  /\ \A k \in DOMAIN s \ Cuts(s) :
       Unpiece(s[k]) = t[k - UpTo(Cuts(s), k)]

(***************************************************************************)
(* The formatted code can be read back from the pieces printed for it: the *)
(* loop skips none and prints none twice (_genLatexSlide,                  *)
(* Generator.c:286-320).  Byte by byte it could not: a tab and a \qquad in *)
(* the code print alike.                                                   *)
(***************************************************************************)
ListingReadsBack == pc = "done" => ReadsAs(shown, out, Len(out))

(***************************************************************************)
(* Each turn of a loop takes a character at least, so that every code is   *)
(* formatted and written to its end (Generator.c:170-178, 188-231 and      *)
(* 287-320).                                                               *)
(***************************************************************************)
LoopsAdvance == [][pc' = pc => Len(rest') < Len(rest)]_vars

=============================================================================
