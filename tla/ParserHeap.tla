----------------------------- MODULE ParserHeap -----------------------------
(***************************************************************************)
(* The push parser with the values on its stack: the blocks of memory each *)
(* value owns, the tree it stands for, and what the semantic actions of    *)
(* BisonActions.c and the destructors of AbstractSyntaxTree.c do to both.  *)
(*                                                                         *)
(* A block of memory is a number, given out in order by the allocator; a   *)
(* string is named by the position of its token among the tokens shifted.  *)
(***************************************************************************)
EXTENDS PushParser, SlideDocument

CONSTANT MaxTokens      \* bounds the tokens shifted in one parse

ASSUME MaxTokensAssumption == MaxTokens \in Nat

VARIABLES
  cells,      \* the blocks each stack entry owns (its yyvsp value points to them)
  vals,       \* the value of each stack entry
  lookCells,  \* the blocks the token in hand owns
  brk,        \* blocks given out so far: 1..brk
  freed,      \* blocks returned
  ast,        \* compilerState->abstractSyntaxtTree: <<>> while NULL, else <<tree>>
  astCells,   \* the blocks the program owns
  read        \* the tokens shifted, in order (names the strings)

heapVars == <<cells, vals, lookCells, brk, freed, ast, astCells, read>>
vars == <<parserVars, heapVars>>

HeapInit ==
  /\ Init
  /\ cells = <<{}>>
  /\ vals = <<0>>
  /\ lookCells = {}
  /\ brk = 0
  /\ freed = {}
  /\ ast = <<>>
  /\ astCells = {}
  /\ read = <<>>

\* n fresh blocks.  (Deviation: one more than the allocator accounts for.)
FreshOffByOne(n) == (brk + 1)..(brk + n + 1)
Fresh(n) == (brk + 1)..(brk + n)

\* The lexeme action of a valued token copies the lexeme before it pushes it.
HeapPush(t) ==
  /\ Push(t)
  /\ t = EOF \/ Len(read) < MaxTokens
  /\ lookCells' = IF t \in Valued THEN Fresh(1) ELSE {}
  /\ brk' = IF t \in Valued THEN brk + 1 ELSE brk
  /\ UNCHANGED <<cells, vals, freed, ast, astCells, read>>

HeapShift ==
  /\ Shift
  /\ read' = Append(read, look)
  /\ cells' = Append(cells, lookCells)
  /\ vals' = Append(vals, Len(read) + 1)
  /\ lookCells' = {}
  /\ UNCHANGED <<brk, freed, ast, astCells>>

(***************************************************************************)
(* The semantic action of rule r on the values of its right-hand side.     *)
(***************************************************************************)
Base(r) == Len(stack) - Len(Rules[r].rhs)
Val(r, i) == vals[Base(r) + i]
Owned(r, i) == cells[Base(r) + i]

\* LinkSemanticAction called with the same pointer twice: there is no url.
OneString(r) == Rules[r].op = "link" /\ Val(r, 3) = 0

\* It copies the string twice and frees the original.
Released(r) == IF OneString(r) THEN Owned(r, 2) ELSE {}
Allocated(r) == IF OneString(r) THEN 3 ELSE Rules[r].allocs

\* SlideListSemanticAction, SlideItemListSemanticAction.  (Deviation: at the front.)
Prepended(list, element) == <<element>> \o list
Appended(list, element) == Append(list, element)

ValueOf(r) ==
  LET rule == Rules[r]
      args == [j \in DOMAIN rule.uses |-> Val(r, rule.uses[j])]
      extras(subtitle, id) == [subtitle |-> subtitle, id |-> id]
      slide(title, e, items) ==
        [title |-> title, subtitle |-> e.subtitle, id |-> e.id, items |-> items]
  IN  CASE rule.op = "null"     -> 0
        [] rule.op \in {"move", "program"} -> args[1]
        [] rule.op = "list"     -> args
        [] rule.op = "append"   -> Appended(args[1], args[2])
        [] rule.op = "item"     -> [type |-> rule.rhs[1], node |-> args[1]]
        [] rule.op = "noExtras" -> extras(0, 0)
        [] rule.op = "subtitle" -> extras(args[1], 0)
        [] rule.op = "id"       -> extras(0, args[1])
        [] rule.op = "both"     -> extras(args[1], args[2])
        [] rule.op = "slide"    -> slide(args[1], args[2], args[3])
        [] rule.op = "untitled" -> slide(0, extras(0, 0), args[1])
        [] rule.op = "link" /\ OneString(r) ->
             [kind |-> "link", args |-> <<args[2], args[2]>>]
        [] OTHER                -> [kind |-> rule.op, args |-> args]

CellsOf(r) ==
  ((UNION {Owned(r, Rules[r].uses[j]) : j \in DOMAIN Rules[r].uses}) \ Released(r))
    \cup Fresh(Allocated(r))

\* The action that stores $$ in the compiler state.  (Deviation: every list too.)
StoresEveryList(r) == Rules[r].lhs \in {"program", "slides"}
StoresProgram(r) == Rules[r].op = "program"

HeapReduce(r) ==
  /\ Reduce(r)
  /\ cells' = Append(SubSeq(cells, 1, Base(r)), CellsOf(r))
  /\ vals' = Append(SubSeq(vals, 1, Base(r)), ValueOf(r))
  /\ brk' = brk + Allocated(r)
  /\ freed' = freed \cup Released(r)
  /\ IF StoresProgram(r)
     THEN ast' = <<ValueOf(r)>> /\ astCells' = CellsOf(r)
     ELSE UNCHANGED <<ast, astCells>>
  /\ UNCHANGED <<lookCells, read>>

HeapPause == Pause /\ UNCHANGED heapVars

(***************************************************************************)
(* The end of yypush_parse, accepting or not: the destructors run for the  *)
(* token in hand and for every entry left on the stack.                    *)
(***************************************************************************)
\* (Deviation: the program is destroyed as well.)
DestroyedAll ==
  (UNION {cells[i] : i \in 2..Len(stack)})
  \cup (IF look \in HasDestructor THEN lookCells ELSE {})
Destroyed ==
  (UNION {cells[i] : i \in {k \in 2..Len(stack) :
                              AccessingSymbol(stack[k]) \in HasDestructor}})
  \cup (IF look \in HasDestructor THEN lookCells ELSE {})

Cleanup ==
  /\ freed' = freed \cup Destroyed
  /\ cells' = <<{}>> /\ vals' = <<0>> /\ lookCells' = {}
  /\ UNCHANGED <<brk, ast, astCells, read>>

HeapSyntaxError == SyntaxError /\ Cleanup
HeapAccept == Accept /\ Cleanup

HeapStep ==
  \/ HeapShift \/ (\E r \in DOMAIN Rules : HeapReduce(r))
  \/ HeapPause \/ HeapSyntaxError \/ HeapAccept

HeapNext == (\E t \in Offered : HeapPush(t)) \/ HeapStep

HeapSpec == HeapInit /\ [][HeapNext]_vars /\ WF_vars(HeapStep)

-----------------------------------------------------------------------------

HeapTypeOK ==
  /\ TypeOK
  /\ Len(cells) = Len(stack) /\ Len(vals) = Len(stack)
  /\ brk \in Nat
  /\ \A i \in DOMAIN cells : cells[i] \subseteq 1..brk
  /\ lookCells \subseteq 1..brk /\ freed \subseteq 1..brk /\ astCells \subseteq 1..brk
  /\ read \in Seq(Labels) /\ Len(read) <= MaxTokens

\* The entries whose blocks the parser answers for; "program" is handed over.
Answerable == {i \in 2..Len(stack) : AccessingSymbol(stack[i]) \in HasDestructor}
InParser == (UNION {cells[i] : i \in 2..Len(stack)}) \cup lookCells

(***************************************************************************)
(* No block has two owners: neither two values on the stack, nor a value   *)
(* and the token in hand, nor the parser and the program it has handed to  *)
(* main.  Whatever the destructors and destroyProgram free, they free once *)
(* (BisonGrammar.y:55-72, LinkSemanticAction, destroyProgram).             *)
(***************************************************************************)
SoleOwner ==
  /\ \A i, j \in Answerable : i # j => cells[i] \cap cells[j] = {}
  /\ \A i \in Answerable : cells[i] \cap (lookCells \cup astCells) = {}
  /\ lookCells \cap astCells = {}

(***************************************************************************)
(* Nothing the parser or the program still points to has been freed, in    *)
(* particular not by the one action that frees its argument, a link with   *)
(* one string, nor by the clean-up after a syntax error that comes after   *)
(* the program was reduced.                                                *)
(***************************************************************************)
NoDangling == (InParser \cup astCells) \cap freed = {}

(***************************************************************************)
(* No block is lost: each one given out is freed, or some value, the token *)
(* in hand or the program owns it, on every path through the actions and   *)
(* the error recovery.                                                     *)
(***************************************************************************)
NoLeak == 1..brk = freed \cup InParser \cup astCells

(***************************************************************************)
(* Whenever main finds a program, even after a rejected one, it is the     *)
(* presentation the tokens denote: slides and items in order, each string  *)
(* in its field, items with the slide they belong to (ProgramSemanticAction*)
(* and the list actions, BisonActions.c:148-249).                          *)
(***************************************************************************)
AstIsDocument == ast # <<>> => ast = <<Document(read)>>

=============================================================================
