----------------------------- MODULE PushParser -----------------------------
(***************************************************************************)
(* The push parser Bison generates from BisonGrammar.y, as control: a      *)
(* stack of automaton states and the token in hand.  pushToken hands it    *)
(* one token and returns a CompilationStatus; between two calls the parser *)
(* keeps its stack.  What the values on the stack own is in ParserHeap.    *)
(*                                                                         *)
(* The generated skeleton is not in the repository: the actions follow     *)
(* from the grammar, its %define directives (push, no lookahead            *)
(* correction) and the way Frontend.c calls yypush_parse.                  *)
(***************************************************************************)
EXTENDS SlideGrammar, SequencesExt

CONSTANT Offered    \* the tokens the environment may push, EOF among them

ASSUME OfferedAssumption == Offered \subseteq Terminals

\* So the default reduction of a state, if it has one, is a single rule.
ASSUME DeterminismAssumption == Deterministic

VARIABLES
  stack,    \* automaton states, the initial one at the bottom
  look,     \* the token pushed and not yet shifted, or "none"
  run       \* "more": returned IN_PROGRESS; "busy": inside yypush_parse;
            \* "accepted" / "aborted": returned SUCCEEDED / FAILED

parserVars == <<stack, look, run>>

Top == Last(stack)

Init ==
  /\ stack = <<Start>>
  /\ look = "none"
  /\ run = "more"

\* The rule to reduce by in state K, if any.
Reduction(K) == Completes[K]

\* A state that shifts no token reduces at once; any other state looks at the
\* token first, and reduces when it cannot shift it: even for an erroneous token.
MustLook(K) == Reads[K] \cap Terminals # {}

\* Deviation: ignored lexemes are pushed like any token.
PushIgnored(t) ==
  /\ run = "more"
  /\ look' \in {t, "IGNORED"}
  /\ run' = "busy"
  /\ UNCHANGED stack

\* pushToken: one call of yypush_parse begins.
Push(t) ==
  /\ run = "more"
  /\ look' = t
  /\ run' = "busy"
  /\ UNCHANGED stack

Shift ==
  /\ run = "busy"
  /\ look \in Reads[Top] /\ look # EOF
  /\ stack' = Append(stack, Goto[Top][look])
  /\ look' = "none"
  /\ UNCHANGED run

Reduce(r) ==
  /\ run = "busy"
  /\ r \in Reduction(Top)
  /\ IF look = "none" THEN ~MustLook(Top) ELSE look \notin Reads[Top]
  /\ LET below == SubSeq(stack, 1, Len(stack) - Len(Rules[r].rhs))
     IN  stack' = Append(below, Goto[Last(below)][Rules[r].lhs])
  /\ UNCHANGED <<look, run>>

\* Deviation: no return while the parser can still wait.
NeverPause ==
  /\ run = "busy"
  /\ look # "none" /\ MustLook(Top) /\ look \in Reads[Top] /\ run' = "more"
  /\ UNCHANGED <<stack, look>>

\* The state needs a token and none is left: return YYPUSH_MORE.
Pause ==
  /\ run = "busy"
  /\ look = "none" /\ MustLook(Top)
  /\ run' = "more"
  /\ UNCHANGED <<stack, look>>

\* No error production exists, so recovery empties the stack and aborts.
SyntaxError ==
  /\ run = "busy"
  /\ look # "none" /\ look \notin Reads[Top]
  /\ Reduction(Top) = {}
  /\ run' = "aborted"
  /\ stack' = <<Start>>
  /\ look' = "none"

\* Shifting the end of the input is accepting; the stack is cleaned up.
Accept ==
  /\ run = "busy"
  /\ look = EOF /\ EOF \in Reads[Top]
  /\ run' = "accepted"
  /\ stack' = <<Start>>
  /\ look' = "none"

Step == Shift \/ (\E r \in DOMAIN Rules : Reduce(r)) \/ Pause \/ SyntaxError \/ Accept

Next == (\E t \in Offered : Push(t)) \/ Step

\* yypush_parse runs to its return; nothing forces another token to come.
Spec == Init /\ [][Next]_parserVars /\ WF_parserVars(Step)

-----------------------------------------------------------------------------

TypeOK ==
  /\ stack \in Seq(States) /\ stack # <<>>
  /\ look \in Offered \cup {"none"}
  /\ run \in {"more", "busy", "accepted", "aborted"}

\* The most states on the stack, the initial one among them.
MaxStack == 13

(***************************************************************************)
(* The stack stays shallow on input of any length: the lists of the        *)
(* grammar are left-recursive, so the parser never nears YYMAXDEPTH and    *)
(* yypush_parse never returns OUT_OF_MEMORY.                               *)
(***************************************************************************)
StackBounded == Len(stack) <= MaxStack

=============================================================================
