----------------------------- MODULE MC_Scanner -----------------------------
EXTENDS Scanner

CONSTANT MaxFragments

\* One fragment of each kind the start conditions tell apart: keywords that
\* change the condition and keywords that do not, directives, and the rest.
Kinds == {"STRING", "NUMBERED_LIST", "AT_IMG", "AT_CODE", "AT_END", "TEXT", "NL",
          "OPEN", "CLOSE", "AT", "AT_E", "CHAR"}

AllInputs == BoundedSeq(Kinds, MaxFragments)

=============================================================================
