------------------------------- MODULE Scanner -------------------------------
(***************************************************************************)
(* The lexical analyzer: the start conditions and rules of FlexPatterns.l, *)
(* the lexeme actions of FlexActions.c and the stack of start conditions   *)
(* behind enterLexicalAnalyzerContext and leaveLexicalAnalyzerContext.     *)
(*                                                                         *)
(* The input is a sequence of fragments.  A keyword fragment is the text   *)
(* of the token of that name, "STRING" a quoted string, "TEXT" a word that *)
(* begins with a capital, "NL" a line break, "OPEN" and "CLOSE" the marks  *)
(* of a comment, and "CHAR" any other character.  "AT_E" is @e or @en that *)
(* does not go on to @end, "AT" an @ with neither a directive nor an e     *)
(* behind it.  Strings and words hold no line break, mark, quote or @.     *)
(* A rule consumes the longest text it matches, as flex does: where a      *)
(* lexeme ends inside a fragment, a "CHAR" stands for what is left of it.  *)
(*                                                                         *)
(* A lexeme action that has a token pushes it and returns the parser's     *)
(* status; Answer is that return.                                          *)
(***************************************************************************)
EXTENDS Naturals, Sequences, SequencesExt

Directives == {"AT_IMG", "AT_CODE", "AT_END", "AT_NOTE", "AT_BLOCK", "AT_LINK", "AT_ID"}
ListMarks == {"MINUS", "NUMBERED_LIST"}
Keywords == Directives \cup ListMarks \cup
            {"HASH", "DOUBLE_HASH", "TRIPLE_MINUS", "TIPO_EQUALS", "NORMAL", "ALERT",
             "EXAMPLE", "STRING"}
PlainAts == {"AT", "AT_E"}
Fragments == Keywords \cup PlainAts \cup {"TEXT", "NL", "OPEN", "CLOSE", "CHAR"}
EOF == "YYEOF"

CONSTANT Inputs     \* the inputs: sequences of fragments

ASSUME InputsAssumption == Inputs \subseteq Seq(Fragments)

VARIABLES
  rest,       \* the fragments not yet consumed
  sc,         \* YYSTATE, the start condition
  scStack,    \* the conditions yy_push_state has saved
  token,      \* the label of the token being pushed, or "none"
  sent,       \* the labels pushed so far (history)
  status      \* what executeSyntacticAnalysis sees: the last CompilationStatus

scanVars == <<rest, sc, scStack, token, sent, status>>

Conditions == {"INITIAL", "MULTILINE_COMMENT", "CODE_BLOCK", "TEXT_LINE"}

\* createLexicalAnalyzer enters context 0 on top of the one yylex_init starts in.
ScanInit ==
  /\ rest \in Inputs
  /\ sc = "INITIAL"
  /\ scStack = <<"INITIAL">>
  /\ token = "none"
  /\ sent = <<>>
  /\ status = "IN_PROGRESS"

\* The loop of executeSyntacticAnalysis calls yylex while this holds.
Scanning == status = "IN_PROGRESS" /\ token = "none"

\* A rule of condition c matches at the head of the input.
At(c, heads) == Scanning /\ sc = c /\ rest # <<>> /\ Head(rest) \in heads

\* BEGIN(c), then a lexeme action pushes a token and leaves r to be read.
Emit(label, c, r) ==
  /\ token' = label
  /\ sent' = Append(sent, label)
  /\ sc' = c
  /\ rest' = r
  /\ UNCHANGED <<scStack, status>>

\* The lexeme is the text before the first fragment of the given set.
EmitUpTo(label, c, heads) ==
  \E stop \in 1..(Len(rest) + 1) :
    /\ \A k \in 1..(stop - 1) : rest[k] \notin heads
    /\ stop <= Len(rest) => rest[stop] \in heads
    /\ Emit(label, c, SubSeq(rest, stop, Len(rest)))

\* Deviation: the lexeme is given back (yyless).
IgnoreInPlace(c, r) ==
  /\ sc' = c
  /\ UNCHANGED <<rest, scStack, token, sent, status>>

\* A lexeme action returns IN_PROGRESS without a token.
Ignore(c, r) ==
  /\ sc' = c
  /\ rest' = r
  /\ UNCHANGED <<scStack, token, sent, status>>

Begins(keyword) ==
  IF keyword \in ListMarks THEN "TEXT_LINE"
  ELSE IF keyword = "AT_CODE" THEN "CODE_BLOCK" ELSE "INITIAL"

Keyword == At("INITIAL", Keywords) /\ Emit(Head(rest), Begins(Head(rest)), Tail(rest))

\* A capitalised word takes the rest of its line with it.
CapitalisedLine == At("INITIAL", {"TEXT"}) /\ EmitUpTo("TEXT_CONTENT", "INITIAL", {"NL"})

Blank == At("INITIAL", {"NL"}) /\ Ignore("INITIAL", Tail(rest))

\* Deviation: the text is read and the condition stays.
TextLineStays ==
  /\ At("TEXT_LINE", Fragments \ {"NL"})
  /\ EmitUpTo("TEXT_CONTENT", "TEXT_LINE", {"NL"})

TextLine ==
  /\ At("TEXT_LINE", Fragments \ {"NL"})
  /\ EmitUpTo("TEXT_CONTENT", "INITIAL", {"NL"})

EmptyTextLine == At("TEXT_LINE", {"NL"}) /\ Ignore("INITIAL", Tail(rest))

\* Deviation: @end is sent and the code goes on.
CodeEndStays == At("CODE_BLOCK", {"AT_END"}) /\ Emit("AT_END", "CODE_BLOCK", Tail(rest))

CodeEnd == At("CODE_BLOCK", {"AT_END"}) /\ Emit("AT_END", "INITIAL", Tail(rest))

\* [^@]+
CodeRun ==
  /\ At("CODE_BLOCK", Fragments \ (Directives \cup PlainAts))
  /\ EmitUpTo("CODE_CONTENT", "CODE_BLOCK", Directives \cup PlainAts)

\* What is left when a lexeme takes one character of what follows it.
Bitten(r) == IF Head(r) \in {"AT", "CHAR", "NL"} THEN Tail(r) ELSE <<"CHAR">> \o Tail(r)

\* "@"[^e], "@e"[^n] and "@en"[^d]: each takes the character that tells it from @end,
\* be it the @ of an @end.
CodeAt ==
  \/ /\ At("CODE_BLOCK", Directives \ {"AT_END"})
     /\ Emit("CODE_CONTENT", "CODE_BLOCK", <<"CHAR">> \o Tail(rest))
  \/ /\ At("CODE_BLOCK", PlainAts) /\ Tail(rest) # <<>>
     /\ Emit("CODE_CONTENT", "CODE_BLOCK", Bitten(Tail(rest)))

\* No rule matches at the very end: flex's default rule copies the @ to stdout, and
\* an e behind it is read again.
CodeEcho ==
  /\ At("CODE_BLOCK", PlainAts) /\ Tail(rest) = <<>>
  /\ Ignore("CODE_BLOCK", IF Head(rest) = "AT_E" THEN <<"CHAR">> ELSE <<>>)

EnterComment ==
  /\ At("INITIAL", {"OPEN"})
  /\ scStack' = Append(scStack, sc)
  /\ sc' = "MULTILINE_COMMENT"
  /\ rest' = Tail(rest)
  /\ UNCHANGED <<token, sent, status>>

\* The star of an opening mark and the slash of the next one close the comment too.
ClosesComment ==
  \/ At("MULTILINE_COMMENT", {"CLOSE"})
  \/ At("MULTILINE_COMMENT", {"OPEN"}) /\ Len(rest) > 1 /\ rest[2] = "OPEN"

\* Deviation: BEGIN(INITIAL) where the stack should be popped.
LeaveByBegin ==
  /\ ClosesComment
  /\ sc' = "INITIAL"
  /\ rest' = IF Head(rest) = "CLOSE" THEN Tail(rest) ELSE <<"CHAR">> \o Tail(Tail(rest))
  /\ UNCHANGED <<scStack, token, sent, status>>

LeaveComment ==
  /\ ClosesComment
  /\ sc' = Last(scStack)
  /\ scStack' = Front(scStack)
  /\ rest' = IF Head(rest) = "CLOSE" THEN Tail(rest) ELSE <<"CHAR">> \o Tail(Tail(rest))
  /\ UNCHANGED <<token, sent, status>>

CommentBody ==
  /\ At("MULTILINE_COMMENT", Fragments) /\ ~ClosesComment
  /\ Ignore("MULTILINE_COMMENT", Tail(rest))

\* The end of the input is a token of its own, in every start condition.
EndOfInput ==
  /\ Scanning /\ rest = <<>>
  /\ Emit(EOF, sc, <<>>)

\* A lexical error pushes nothing: the parser never learns of it.
Unknown ==
  /\ At("INITIAL", PlainAts \cup {"CLOSE", "CHAR"})
  /\ status' = "FAILED"
  /\ UNCHANGED <<rest, sc, scStack, token, sent>>

Scan ==
  \/ Keyword \/ CapitalisedLine \/ Blank \/ TextLine \/ EmptyTextLine
  \/ CodeEnd \/ CodeRun \/ CodeAt \/ CodeEcho
  \/ EnterComment \/ LeaveComment \/ CommentBody
  \/ EndOfInput \/ Unknown

\* Deviations: the context is not looked at; any context at all is an error; the
\* context is returned as the status.
Overrule(s, failed, with) ==
  /\ token # "none"
  /\ token' = "none"
  /\ status' = IF failed THEN with ELSE s
  /\ UNCHANGED <<rest, sc, scStack, sent>>
AnswerUnchecked(s) == Overrule(s, FALSE, "FAILED")
AnswerOffByOne(s) == Overrule(s, token = EOF, "FAILED")
AnswerContext(s) == Overrule(s, token = EOF /\ sc # "INITIAL", sc)

\* pushToken returns s.  Only the end of the input looks at the context afterwards.
Answer(s) == Overrule(s, token = EOF /\ sc # "INITIAL", "FAILED")

\* A parser returns IN_PROGRESS or FAILED, but a final status for the end of the input.
Answers == IF token = EOF THEN {"SUCCEEDED", "FAILED"} ELSE {"IN_PROGRESS", "FAILED"}

ScanNext == Scan \/ \E s \in Answers : Answer(s)

ScanSpec == ScanInit /\ [][ScanNext]_scanVars /\ WF_scanVars(ScanNext)

-----------------------------------------------------------------------------

\* The labels of the tokens the lexeme actions push.
Pushed == Keywords \cup {"TEXT_CONTENT", "CODE_CONTENT", EOF}

ScanTypeOK ==
  /\ rest \in Seq(Fragments)
  /\ sc \in Conditions
  /\ scStack \in Seq(Conditions)
  /\ token \in Pushed \cup {"none"}
  /\ sent \in Seq(Pushed)
  /\ status \in {"IN_PROGRESS", "SUCCEEDED", "FAILED"}

(***************************************************************************)
(* Two mechanisms move the start condition, BEGIN in the rules and the     *)
(* stack behind the comment marks, and they never disagree: a comment is   *)
(* the only thing on the stack, it opens only outside code and text lines, *)
(* so leaving it pops the stack into INITIAL and never underflows it       *)
(* (flexEnterContext, flexLeaveContext, FlexPatterns.l:73-93).             *)
(***************************************************************************)
ContextDiscipline ==
  scStack = IF sc = "MULTILINE_COMMENT" THEN <<"INITIAL", "INITIAL">> ELSE <<"INITIAL">>

InCode == {"AT_CODE", "CODE_CONTENT"}

(***************************************************************************)
(* Between @code and the @end that closes it only code is sent, whatever   *)
(* directives, marks and quotes the code holds; and code is sent nowhere   *)
(* else (FlexPatterns.l:88-93).                                            *)
(***************************************************************************)
CodeIsBracketed ==
  \A i \in 1..(Len(sent) - 1) :
    /\ sent[i] \in InCode => sent[i + 1] \in {"CODE_CONTENT", "AT_END", EOF}
    /\ sent[i + 1] = "CODE_CONTENT" => sent[i] \in InCode

(***************************************************************************)
(* An input is only accepted once its end has been sent, as the last token *)
(* and once, with no code block cut short and no comment left open         *)
(* (EOFLexemeAction, FlexActions.c:204-218).                               *)
(***************************************************************************)
AcceptedIsComplete ==
  status = "SUCCEEDED" =>
    LET n == Len(sent)
    IN  /\ n > 0 /\ sent[n] = EOF
        /\ \A i \in 1..(n - 1) : sent[i] # EOF
        /\ n > 1 => sent[n - 1] \notin InCode
        /\ scStack = <<"INITIAL">>

(***************************************************************************)
(* Every input is consumed and answered: the loop of                       *)
(* executeSyntacticAnalysis (Frontend.c:149-155) ends.                     *)
(***************************************************************************)
ScanningEnds == <>(status # "IN_PROGRESS")

=============================================================================
