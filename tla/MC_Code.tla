------------------------------- MODULE MC_Code -------------------------------
EXTENDS Compiler

AllTokens == Terminals

\* One slide with one code block: any code that does not hold @end itself.
CodeKinds == {"CHAR", "NL", "STRING", "HASH", "OPEN", "AT_IMG"}
Inputs_Code ==
  {<<"HASH", "STRING", "AT_CODE">> \o code \o <<"AT_END">> :
     code \in BoundedSeq(CodeKinds, 3) \ {<<>>}}

(***************************************************************************)
(* What the report says of a code block: everything between @code and @end *)
(* is taken literally, special characters and directives included.  A      *)
(* slide with such a block is then a presentation.                         *)
(***************************************************************************)
CodeIsLiteral == phase = "exit" => run = "accepted"

=============================================================================
