-------------------------- MODULE ParserRefinement --------------------------
(***************************************************************************)
(* The push parser with a history variable, the phrase it is reading, and  *)
(* the statement that it implements SlideLanguage: the LR automaton, its   *)
(* default reductions and its conflicts settled by shifting recognise      *)
(* exactly the presentations, token by token and for input of any length.  *)
(***************************************************************************)
EXTENDS PushParser

VARIABLE phrase

Language ==
  INSTANCE SlideLanguage WITH
    Tokens  <- Offered,
    pending <- look,
    verdict <- IF run = "accepted" THEN "accepted"
               ELSE IF run = "aborted" THEN "rejected" ELSE "open"

historyVars == <<stack, look, run, phrase>>

HInit == Init /\ phrase = <<>>

HNext ==
  \/ Shift /\ phrase' = Language!Advance(look)
  \/ /\ \/ \E t \in Offered : Push(t)
        \/ \E r \in DOMAIN Rules : Reduce(r)
        \/ Pause \/ SyntaxError \/ Accept
     /\ UNCHANGED phrase

HSpec == HInit /\ [][HNext]_historyVars /\ WF_historyVars(Step /\ HNext)

-----------------------------------------------------------------------------

(***************************************************************************)
(* The parser accepts a token, the end of the input included, exactly when *)
(* the language lets it come next, and answers every push (pushToken,      *)
(* Frontend.c:170; the productions of BisonGrammar.y).                     *)
(***************************************************************************)
ImplementsLanguage == Language!Spec

(***************************************************************************)
(* Every call of pushToken returns.                                        *)
(***************************************************************************)
EveryPushReturns == run = "busy" ~> run # "busy"

=============================================================================
