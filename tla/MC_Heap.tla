------------------------------- MODULE MC_Heap -------------------------------
EXTENDS ParserHeap

AllTokens == Terminals

=============================================================================
