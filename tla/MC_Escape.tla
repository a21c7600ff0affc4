---------------------------- MODULE MC_Escape ----------------------------
EXTENDS EscapeLatex

SomeChars == {"a", "_", "%", "$", "\\"}
SomeTitles == UNION {[1..n -> SomeChars] : n \in 0..5}

=============================================================================
