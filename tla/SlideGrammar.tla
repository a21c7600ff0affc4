---------------------------- MODULE SlideGrammar ----------------------------
(***************************************************************************)
(* The grammar of SlideLang and the LR automaton Bison builds from it.     *)
(*                                                                         *)
(* Rules lists the productions of BisonGrammar.y in the order in which     *)
(* Bison numbers them, after its own rule "$accept: program YYEOF".  The   *)
(* semantic action of a production is described by three facts about $$:   *)
(*   op      what $$ becomes (a node of that kind, a longer list, ...),    *)
(*   uses    the positions $i the action stores in $$, in the order of the *)
(*           fields of the value it builds,                                *)
(*   allocs  how many blocks of memory the action allocates.               *)
(* The value of a token that carries no string is the token itself, which  *)
(* is how the three productions of blockType tell their constants apart.   *)
(* Everything in this module is a constant: TLC computes it once.          *)
(***************************************************************************)
EXTENDS Naturals, Sequences, FiniteSets

(***************************************************************************)
(* The tokens the scanner can push.  OPEN_COMMENT, CLOSE_COMMENT, IGNORED  *)
(* and UNKNOWN are declared in the grammar too, but no production uses     *)
(* them and no lexeme action pushes them.                                  *)
(***************************************************************************)
Valued == {"STRING", "TEXT_CONTENT", "CODE_CONTENT"}
ItemStart == {"MINUS", "NUMBERED_LIST", "AT_IMG", "AT_CODE", "AT_NOTE",
              "AT_BLOCK", "AT_LINK"}
BlockType == {"NORMAL", "ALERT", "EXAMPLE"}
Labels == Valued \cup ItemStart \cup BlockType \cup
          {"HASH", "DOUBLE_HASH", "TRIPLE_MINUS", "AT_END", "AT_ID", "TIPO_EQUALS"}
EOF == "YYEOF"
Terminals == Labels \cup {EOF}

Rule(lhs, rhs, op, uses, allocs) ==
  [lhs |-> lhs, rhs |-> rhs, op |-> op, uses |-> uses, allocs |-> allocs]

Null(lhs)          == Rule(lhs, <<>>, "null", <<>>, 0)
Move(lhs, rhs)     == Rule(lhs, rhs, "move", <<1>>, 0)
Node(kind, lhs, rhs, uses) == Rule(lhs, rhs, kind, uses, 1)
Item(kind)         == Rule("slideItem", <<kind>>, "item", <<1>>, 1)
Enum(label)        == Rule("blockType", <<label>>, "move", <<1>>, 0)
Extras(op, rhs, uses) == Rule("slideExtras", rhs, op, uses, 0)

\* A list production.  (The right-recursive form is the deviation a check uses.)
RightRecursive(list, element) == Rule(list, <<element, list>>, "append", <<2, 1>>, 0)
Extend(list, element) == Rule(list, <<list, element>>, "append", <<1, 2>>, 0)

\* A slide with a title.  (The deviation asks it for at least one item.)
Titled(items) == Rule("slideWithTitle", <<"HASH", "STRING", "slideExtras", items>>,
                      "slide", <<2, 3, 4>>, 1)
NeverEmpty == Titled("nonEmptySlideItems")
SlideWithTitle == Titled("slideItems")

StructureRules == <<
  Rule("$accept", <<"program", EOF>>, "accept", <<>>, 0),
  Rule("program", <<"slides">>, "program", <<1>>, 1),
  Rule("slides", <<"optionalSeparator", "slide">>, "list", <<2>>, 1),
  Extend("slides", "slide"),
  Rule("slides", <<"slides", "TRIPLE_MINUS", "slide">>, "append", <<1, 3>>, 0),
  Null("optionalSeparator"),
  Rule("optionalSeparator", <<"TRIPLE_MINUS">>, "null", <<>>, 0),
  Move("slide", <<"slideWithTitle">>),
  Move("slide", <<"slideWithoutTitle">>),
  SlideWithTitle,
  Rule("slideWithoutTitle", <<"nonEmptySlideItems">>, "untitled", <<1>>, 1),
  Extras("noExtras", <<>>, <<>>),
  Extras("subtitle", <<"DOUBLE_HASH", "STRING">>, <<2>>),
  Extras("id", <<"AT_ID", "STRING">>, <<2>>),
  Extras("both", <<"DOUBLE_HASH", "STRING", "AT_ID", "STRING">>, <<2, 4>>),
  Rule("slideItems", <<>>, "list", <<>>, 1),
  Extend("slideItems", "slideItem"),
  Rule("nonEmptySlideItems", <<"slideItem">>, "list", <<1>>, 1),
  Extend("nonEmptySlideItems", "slideItem") >>

ItemRules == <<
  Item("text"), Item("image"), Item("codeBlock"), Item("note"), Item("block"),
  Item("link"),
  Node("bullet", "text", <<"MINUS", "TEXT_CONTENT">>, <<2>>),
  Node("numbered", "text", <<"NUMBERED_LIST", "TEXT_CONTENT">>, <<2>>),
  Node("image", "image", <<"AT_IMG", "STRING", "STRING", "imageLegend">>,
       <<2, 3, 4>>),
  Null("imageLegend"),
  Move("imageLegend", <<"STRING">>),
  Node("code", "codeBlock", <<"AT_CODE", "CODE_CONTENT", "AT_END">>, <<2>>),
  Node("note", "note", <<"AT_NOTE", "STRING">>, <<2>>),
  Node("link", "link", <<"AT_LINK", "STRING", "linkUrl">>, <<3, 2>>),
  Null("linkUrl"),
  Move("linkUrl", <<"STRING">>),
  Node("block", "block", <<"AT_BLOCK", "TIPO_EQUALS", "blockType", "blockTitle",
                           "TEXT_CONTENT", "AT_END">>, <<3, 4, 5>>),
  Null("blockTitle"),
  Move("blockTitle", <<"STRING">>),
  Enum("NORMAL"), Enum("ALERT"), Enum("EXAMPLE") >>

Rules == StructureRules \o ItemRules

NonTerminals == {Rules[r].lhs : r \in DOMAIN Rules}
Symbols == Terminals \cup NonTerminals

(***************************************************************************)
(* The symbols whose values Bison destroys when it discards them: the      *)
(* %destructor directives.  "program" has none, on purpose.                *)
(***************************************************************************)
Destructible ==
  Valued \cup {"text", "image", "codeBlock", "note", "block", "link", "slideItem",
               "slideItems", "nonEmptySlideItems", "slide", "slideWithTitle",
               "slideWithoutTitle", "slides", "imageLegend", "linkUrl",
               "blockTitle", "slideExtras"}

\* Two deviations the checks use: one directive too many, and one forgotten.
RootToo == Destructible \cup {"program"}
ExtrasForgotten == Destructible \ {"slideExtras"}
HasDestructor == Destructible

(***************************************************************************)
(* The LR(0) automaton.  An item <<r, d>> is rule r with d symbols of its  *)
(* right-hand side read.  A parser state is its kernel; the closure adds   *)
(* the productions that may begin next.                                    *)
(***************************************************************************)
Start == {<<1, 0>>}
Items == {<<r, d>> : r \in DOMAIN Rules, d \in 0..6}
AtEnd(item) == item[2] = Len(Rules[item[1]].rhs)
After(item) == Rules[item[1]].rhs[item[2] + 1]

Closure[I \in SUBSET Items] ==
  LET wanted == {After(i) : i \in {j \in I : ~AtEnd(j)}}
      J == I \cup {<<r, 0>> : r \in {s \in DOMAIN Rules : Rules[s].lhs \in wanted}}
  IN  IF J = I THEN I ELSE Closure[J]

KernelAfter(I, X) ==
  {<<i[1], i[2] + 1>> : i \in {j \in I : ~AtEnd(j) /\ After(j) = X}}

Reachable[S \in SUBSET SUBSET Items] ==
  LET next == UNION {LET I == Closure[K]
                     IN  {KernelAfter(I, After(i)) : i \in {j \in I : ~AtEnd(j)}}
                     : K \in S}
  IN  IF next \subseteq S THEN S ELSE Reachable[S \cup next]

States == Reachable[{Start}]
Closed == [K \in States |-> Closure[K]]

\* What each state can do: read a symbol, or complete a rule.
Reads == [K \in States |-> {After(i) : i \in {j \in Closed[K] : ~AtEnd(j)}}]
Completes == [K \in States |-> {i[1] : i \in {j \in Closed[K] : AtEnd(j)}}]
Goto == [K \in States |-> [X \in Reads[K] |-> KernelAfter(Closed[K], X)]]

\* The symbol every entry into state K has just put on the stack.
AccessingSymbol(K) ==
  LET i == CHOOSE j \in K : TRUE IN Rules[i[1]].rhs[i[2]]

(***************************************************************************)
(* No state completes two rules.  Hence Bison's tables need no lookahead   *)
(* to choose a reduction: reducing is the default of every state that      *)
(* completes a rule, and a shift/reduce conflict is settled by shifting.   *)
(***************************************************************************)
Deterministic == \A K \in States : Cardinality(Completes[K]) <= 1

=============================================================================
