---------------------------- MODULE MC_Listing ----------------------------
EXTENDS CodeListing

SomeChars == {"x", "{", "}", " ", "\t", "\n", "\r"}
SomeValues == {"auto", "flat", "spaces", "tabs", "true", "false"}

Set(mode, style, size, doubleSpace) ==
  [mode |-> mode, style |-> style, size |-> size, doubleSpace |-> doubleSpace]

\* Nothing set; and a size of 300, which outgrows the 256 spare bytes with one brace.
SomeSettings ==
  {Set(NULL, NULL, NULL, NULL), Set("auto", NULL, 0, NULL),
   Set("auto", "spaces", 300, "true"), Set("auto", "tabs", 2, "true"),
   Set("flat", "spaces", 2, "false")}

\* Every text of up to three characters, and three lines that open and close braces.
Short == UNION {[1..n -> SomeChars] : n \in 0..3}
Lines == {<<"{">>, <<" ", "}">>, <<"}", "{">>, <<"x", "}", "}">>, <<"{", "{", "\r">>,
          <<"x">>, <<"}">>}
InLines == {a \o <<"\n">> \o b \o <<"\n">> \o c : a \in Lines, b \in Lines, c \in Lines}

SomeCodes == Short \cup InLines

=============================================================================
