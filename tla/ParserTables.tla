---------------------------- MODULE ParserTables ----------------------------
(***************************************************************************)
(* What the proofs know of the grammar, of the automaton computed from it  *)
(* and of its semantic actions.  The grammar is one constant, so each of   *)
(* these facts is a finite computation, which TLC makes; the theorems that *)
(* cite them hold for every set of tokens and every bound.                 *)
(***************************************************************************)
EXTENDS ParserHeap

\* The state that has read a whole program.
Whole == Goto[Start]["program"]

(***************************************************************************)
(* A state is its kernel and the productions that may begin next, each     *)
(* with a way on for its left-hand side; only the initial state waits for  *)
(* a program, and only what follows it takes the end of the input.         *)
(***************************************************************************)
ASSUME AutomatonAssumption ==
  /\ Start \in States /\ "program" \in Reads[Start]
  /\ \A K \in States :
       /\ K \subseteq Closed[K] /\ Closed[K] \subseteq Items
       /\ \A i \in Closed[K] \ K : i[2] = 0
       /\ \A i \in Closed[K] : i[2] = 0 /\ i[1] # 1 => Rules[i[1]].lhs \in Reads[K]
       /\ \A X \in Reads[K] : X # "none" /\ Goto[K][X] \in States
       /\ "program" \in Reads[K] => K = Start
       /\ EOF \in Reads[K] => K = Whole
  /\ Reads[Whole] = {EOF} /\ Completes[Whole] = {}

\* The states n - 1 moves from the initial one.
StatesAt[n \in Nat] ==
  IF n <= 1 THEN {Start} ELSE UNION {{Goto[K][X] : X \in Reads[K]} : K \in StatesAt[n - 1]}

\* No way through the automaton is longer than the stack may be.
ASSUME DepthAssumption ==
  /\ StatesAt[1] = {Start} /\ StatesAt[MaxStack + 1] = {}
  /\ \A n \in 1..MaxStack : \A K \in StatesAt[n] :
       \A X \in Reads[K] : Goto[K][X] \in StatesAt[n + 1]

(***************************************************************************)
(* The productions and their actions.  An action keeps every destructible  *)
(* value of its right-hand side; what it builds has a destructor, is the   *)
(* program, or owns nothing.                                               *)
(***************************************************************************)
ASSUME ActionsAssumption ==
  /\ Valued \subseteq HasDestructor /\ "program" \notin HasDestructor
  /\ Rules[1].rhs[2] = EOF /\ Len(Rules[1].rhs) = 2
  /\ \A r \in DOMAIN Rules :
       LET rule == Rules[r]
           used == {rule.uses[j] : j \in DOMAIN rule.uses}
       IN  /\ rule.rhs \in Seq(Symbols) /\ Len(rule.rhs) <= 6
           /\ rule.lhs \notin Terminals /\ rule.allocs \in Nat
           /\ used \subseteq DOMAIN rule.rhs
           /\ \A k \in DOMAIN rule.rhs :
                /\ r # 1 => rule.rhs[k] # "program"
                /\ rule.rhs[k] \in HasDestructor => k \in used
           /\ rule.op = "link" => 2 \in used
           /\ rule.op = "program" <=> rule.lhs = "program"
           /\ rule.lhs \notin HasDestructor \cup {"program"} =>
                /\ rule.allocs = 0 /\ rule.op # "link"
                /\ \A k \in used : rule.rhs[k] \notin HasDestructor

\* State K stands after @code and before @end; it waits for the text of an item.
InsideCode(K) == \E item \in K : Rules[item[1]].lhs = "codeBlock" /\ item[2] \in {1, 2}
TextDue(K) == "TEXT_CONTENT" \in Reads[K] /\ Completes[K] = {}

(***************************************************************************)
(* A code block begins with the token that begins code for the scanner and *)
(* goes on with code; after the mark of a list comes its text.             *)
(***************************************************************************)
ASSUME ContextAssumption ==
  /\ ~InsideCode(Start)
  /\ \A K \in States :
       /\ InsideCode(K) => Completes[K] = {}
       /\ \A X \in Reads[K] :
            /\ InsideCode(Goto[K][X]) <=> X \in {"AT_CODE", "CODE_CONTENT"}
            /\ X \in {"MINUS", "NUMBERED_LIST"} => TextDue(Goto[K][X])

\* The state that has read slides and may read more.
List == Goto[Start]["slides"]

NodeKinds == {"text", "image", "codeBlock", "note", "block", "link"}

\* What begins with an item, and what a slide ends.
ItemLike == ItemStart \cup NodeKinds \cup {"slideItem", "nonEmptySlideItems", "slideWithoutTitle"}
AfterSlide == {"slideWithTitle", "slideWithoutTitle", "slide", "slides"}

(***************************************************************************)
(* The slides and the separator before them begin the input; an untitled   *)
(* slide stands after other slides or after a separator; a slide that ends *)
(* could have gone on with an item.                                        *)
(***************************************************************************)
ASSUME PlacesAssumption ==
  /\ "slides" \in Reads[Start]
  /\ \A K \in States :
       /\ Reads[K] \cap {"slides", "optionalSeparator"} # {} => K = Start
       /\ "slideWithoutTitle" \in Reads[K] =>
            \/ K = List
            \/ K # Start /\ AccessingSymbol(K) \in {"optionalSeparator", "TRIPLE_MINUS"}
       /\ \A r \in Completes[K] :
            Rules[r].lhs \in AfterSlide =>
              /\ Rules[r].rhs # <<>>
              /\ ItemStart \subseteq Reads[K] \/ AccessingSymbol(K) \in AfterSlide
  /\ \A r \in DOMAIN Rules :
       Rules[r].lhs \in ItemLike => Rules[r].rhs # <<>> /\ Rules[r].rhs[1] \in ItemLike

=============================================================================
