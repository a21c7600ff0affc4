----------------------------- MODULE MC_Compiler -----------------------------
EXTENDS Compiler, ParserTables

CONSTANT MaxSuffix

AllTokens == Terminals

\* The fragments inputs are made of; each stands for its kind.
Kinds == {"HASH", "STRING", "TRIPLE_MINUS", "MINUS", "AT_CODE", "AT_END", "AT_LINK",
          "TEXT", "NL", "OPEN", "CLOSE", "AT", "AT_E", "CHAR"}

\* Where an input may stand when anything at all may follow.
Beginnings ==
  {<<>>, <<"HASH", "STRING">>, <<"HASH", "STRING", "AT_CODE">>,
   <<"MINUS", "CHAR", "NL">>,
   <<"HASH", "STRING", "AT_LINK", "STRING">>,
   <<"HASH", "STRING", "AT_CODE", "CHAR">>}

AllInputs == {b \o s : b \in Beginnings, s \in BoundedSeq(Kinds, MaxSuffix)}

=============================================================================
