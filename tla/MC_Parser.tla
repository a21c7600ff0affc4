------------------------------ MODULE MC_Parser ------------------------------
EXTENDS ParserRefinement

\* Every token the scanner can push, and the end of the input.
AllTokens == Terminals

=============================================================================
