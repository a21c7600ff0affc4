--------------------------- MODULE Scanner_proofs ---------------------------
(***************************************************************************)
(* The safety of the scanner, for every set of inputs and every answer of  *)
(* the parser to every token.                                              *)
(*                                                                         *)
(* CodeIsBracketed speaks of neighbouring tokens and the scanner remembers *)
(* none: what it has instead is its start condition.  The strengthening is *)
(* CodeInStep, which ties the condition to the last label sent before the  *)
(* end of the input.  AcceptedIsComplete then needs that the end is sent   *)
(* last and only then answered with a success.                             *)
(***************************************************************************)
EXTENDS Scanner, SequenceTheorems, TLAPS

AtTheEnd == sent # <<>> /\ sent[Len(sent)] = EOF

\* How many labels have been sent before the end of the input.
Before == IF AtTheEnd THEN Len(sent) - 1 ELSE Len(sent)

CodeInStep == sc = "CODE_BLOCK" <=> Before > 0 /\ sent[Before] \in InCode

\* The token in hand is the last one sent, and nothing else has happened since.
TokenInHand ==
  token # "none" => sent # <<>> /\ sent[Len(sent)] = token /\ status = "IN_PROGRESS"

EndIsLast ==
  /\ \A i \in 1..(Len(sent) - 1) : sent[i] # EOF
  /\ AtTheEnd => token = EOF \/ status # "IN_PROGRESS"

SuccessAtTheEnd == status = "SUCCEEDED" => AtTheEnd /\ sc = "INITIAL"

IInv ==
  /\ ScanTypeOK /\ ContextDiscipline /\ CodeIsBracketed
  /\ CodeInStep /\ TokenInHand /\ EndIsLast /\ SuccessAtTheEnd

-----------------------------------------------------------------------------

LEMMA InitInv == ScanInit => IInv
<1> SUFFICES ASSUME ScanInit PROVE IInv
  OBVIOUS
<1> USE DEF ScanInit
<1>1. ScanTypeOK
  BY InputsAssumption DEF ScanTypeOK, Conditions
<1>2. Len(sent) = 0 /\ ~AtTheEnd /\ Before = 0
  BY EmptySeq DEF AtTheEnd, Before
<1>3. ContextDiscipline /\ CodeInStep /\ TokenInHand /\ SuccessAtTheEnd
  BY <1>2 DEF ContextDiscipline, CodeInStep, TokenInHand, SuccessAtTheEnd
<1>4. CodeIsBracketed /\ EndIsLast
  BY <1>2 DEF CodeIsBracketed, EndIsLast
<1> QED
  BY <1>1, <1>3, <1>4 DEF IInv

(***************************************************************************)
(* A rule that sends a label keeps the invariant if it enters a comment    *)
(* never, moves into code exactly with a label of code, and sends from     *)
(* code only what may follow there.                                        *)
(***************************************************************************)
LEMMA EmitInv ==
  ASSUME IInv, Scanning,
         NEW label \in Pushed, NEW c \in Conditions, NEW r \in Seq(Fragments),
         Emit(label, c, r),
         c = "MULTILINE_COMMENT" <=> sc = "MULTILINE_COMMENT",
         IF label = EOF THEN c = sc ELSE c = "CODE_BLOCK" <=> label \in InCode,
         sc = "CODE_BLOCK" => label \in {"CODE_CONTENT", "AT_END", EOF},
         label = "CODE_CONTENT" => sc = "CODE_BLOCK"
  PROVE  IInv'
<1> DEFINE n == Len(sent)
<1>1. /\ sent \in Seq(Pushed) /\ n \in Nat
      /\ sent' \in Seq(Pushed) /\ Len(sent') = n + 1
      /\ sent'[n + 1] = label
      /\ \A i \in 1..n : sent'[i] = sent[i]
      /\ sent' # <<>> /\ token' = label /\ sc' = c /\ rest' = r
      /\ scStack' = scStack /\ status' = status
  BY AppendProperties, LenProperties, EmptySeq DEF IInv, ScanTypeOK, Emit
<1>2. status = "IN_PROGRESS" /\ token = "none"
  BY DEF Scanning
<1>3. ~AtTheEnd /\ Before = n
  BY <1>2 DEF IInv, EndIsLast, Before, EOF
<1>4. sc = "CODE_BLOCK" <=> n > 0 /\ sent[n] \in InCode
  BY <1>3 DEF IInv, CodeInStep
<1>5. ScanTypeOK'
  BY <1>1 DEF IInv, ScanTypeOK
<1>6. ContextDiscipline'
  BY <1>1 DEF IInv, ContextDiscipline
<1>7. CodeIsBracketed'
  <2> SUFFICES ASSUME NEW i \in 1..n
               PROVE  /\ sent'[i] \in InCode => sent'[i + 1] \in {"CODE_CONTENT", "AT_END", EOF}
                      /\ sent'[i + 1] = "CODE_CONTENT" => sent'[i] \in InCode
    BY <1>1 DEF CodeIsBracketed
  <2>1. CASE i = n
    BY <2>1, <1>1, <1>4
  <2>2. CASE i \in 1..(n - 1)
    BY <2>2, <1>1 DEF IInv, CodeIsBracketed
  <2> QED
    BY <2>1, <2>2, <1>1
<1>8. AtTheEnd' <=> label = EOF
  BY <1>1 DEF AtTheEnd
<1>9. CodeInStep'
  <2>1. CASE label = EOF
    <3>1. Before' = n /\ c = sc
      BY <2>1, <1>1, <1>8 DEF Before
    <3>2. n > 0 => sent'[n] = sent[n]
      BY <1>1
    <3> QED
      BY <3>1, <3>2, <1>1, <1>4 DEF CodeInStep
  <2>2. CASE label # EOF
    <3>1. Before' = n + 1
      BY <2>2, <1>1, <1>8 DEF Before
    <3> QED
      BY <2>2, <3>1, <1>1 DEF CodeInStep
  <2> QED
    BY <2>1, <2>2
<1>10. TokenInHand'
  BY <1>1, <1>2 DEF TokenInHand
<1>11. EndIsLast'
  <2>1. \A i \in 1..n : sent[i] # EOF
    BY <1>1, <1>3, EmptySeq DEF IInv, EndIsLast, AtTheEnd
  <2>2. \A i \in 1..n : sent'[i] # EOF
    BY <2>1, <1>1
  <2> QED
    BY <2>2, <1>1, <1>8 DEF EndIsLast
<1>12. SuccessAtTheEnd'
  BY <1>1, <1>2 DEF SuccessAtTheEnd
<1> QED
  BY <1>5, <1>6, <1>7, <1>9, <1>10, <1>11, <1>12 DEF IInv

(***************************************************************************)
(* A step that sends nothing keeps it if it stays in or out of code.       *)
(***************************************************************************)
LEMMA SilentInv ==
  ASSUME IInv, Scanning, UNCHANGED <<token, sent, status>>,
         rest' \in Seq(Fragments), sc' \in Conditions, scStack' \in Seq(Conditions),
         ContextDiscipline',
         sc' = "CODE_BLOCK" <=> sc = "CODE_BLOCK"
  PROVE  IInv'
<1> USE DEF IInv
<1>1. ScanTypeOK'
  BY DEF ScanTypeOK
<1>2. CodeIsBracketed' /\ TokenInHand'
  BY DEF CodeIsBracketed, TokenInHand
<1>3. AtTheEnd' = AtTheEnd /\ Before' = Before
  BY DEF AtTheEnd, Before
<1>4. CodeInStep'
  BY <1>3 DEF CodeInStep
<1>5. EndIsLast'
  BY <1>3 DEF EndIsLast
<1>6. SuccessAtTheEnd'
  BY DEF SuccessAtTheEnd, Scanning
<1> QED
  BY <1>1, <1>2, <1>4, <1>5, <1>6

\* What is left of the input is an input again.
LEMMA RestTyped ==
  ASSUME ScanTypeOK, rest # <<>>
  PROVE  /\ Head(rest) \in Fragments /\ Tail(rest) \in Seq(Fragments)
         /\ Len(Tail(rest)) = Len(rest) - 1 /\ Len(rest) \in Nat
         /\ <<"CHAR">> \o Tail(rest) \in Seq(Fragments)
         /\ \A stop \in 1..(Len(rest) + 1) : SubSeq(rest, stop, Len(rest)) \in Seq(Fragments)
<1>1. rest \in Seq(Fragments) /\ Len(rest) \in Nat
  BY LenProperties DEF ScanTypeOK
<1>2. /\ Head(rest) \in Fragments /\ Tail(rest) \in Seq(Fragments)
      /\ Len(Tail(rest)) = Len(rest) - 1
  BY <1>1, HeadTailProperties
<1>3. <<"CHAR">> \in Seq(Fragments)
  BY DEF Fragments
<1>4. <<"CHAR">> \o Tail(rest) \in Seq(Fragments)
  BY <1>2, <1>3, ConcatProperties
<1>5. ASSUME NEW stop \in 1..(Len(rest) + 1)
      PROVE  SubSeq(rest, stop, Len(rest)) \in Seq(Fragments)
  <2>1. \A i \in stop..Len(rest) : rest[i] \in Fragments
    BY <1>1, ElementOfSeq
  <2> QED
    BY <2>1, <1>1, SubSeqProperties
<1> QED
  BY <1>1, <1>2, <1>4, <1>5

LEMMA BittenTyped ==
  ASSUME NEW r \in Seq(Fragments), r # <<>>
  PROVE  Bitten(r) \in Seq(Fragments)
<1>1. Tail(r) \in Seq(Fragments)
  BY HeadTailProperties
<1>2. <<"CHAR">> \o Tail(r) \in Seq(Fragments)
  BY <1>1, ConcatProperties DEF Fragments
<1> QED
  BY <1>1, <1>2 DEF Bitten

\* A lexeme that runs up to a mark is one case of Emit.
LEMMA EmitUpToInv ==
  ASSUME IInv, Scanning, rest # <<>>,
         NEW label \in Pushed \ {EOF}, NEW c \in Conditions, NEW heads,
         EmitUpTo(label, c, heads),
         c # "MULTILINE_COMMENT", sc # "MULTILINE_COMMENT",
         c = "CODE_BLOCK" <=> label \in InCode,
         sc = "CODE_BLOCK" => label \in {"CODE_CONTENT", "AT_END"},
         label = "CODE_CONTENT" => sc = "CODE_BLOCK"
  PROVE  IInv'
<1>1. PICK stop \in 1..(Len(rest) + 1) : Emit(label, c, SubSeq(rest, stop, Len(rest)))
  BY DEF EmitUpTo
<1>2. SubSeq(rest, stop, Len(rest)) \in Seq(Fragments)
  BY RestTyped DEF IInv
<1> QED
  BY <1>1, <1>2, EmitInv

-----------------------------------------------------------------------------

LEMMA KeywordInv == IInv /\ Keyword => IInv'
<1> SUFFICES ASSUME IInv, Keyword PROVE IInv'
  OBVIOUS
<1>1. /\ Scanning /\ sc = "INITIAL" /\ rest # <<>> /\ Head(rest) \in Keywords
      /\ Emit(Head(rest), Begins(Head(rest)), Tail(rest))
  BY DEF Keyword, At
<1>2. Tail(rest) \in Seq(Fragments)
  BY <1>1, RestTyped DEF IInv
<1>3. /\ Begins(Head(rest)) \in Conditions \ {"MULTILINE_COMMENT"}
      /\ Begins(Head(rest)) = "CODE_BLOCK" <=> Head(rest) = "AT_CODE"
  BY DEF Begins, Conditions, ListMarks
<1>4. /\ Head(rest) \in Pushed /\ Head(rest) # EOF /\ Head(rest) # "CODE_CONTENT"
      /\ Head(rest) \in InCode <=> Head(rest) = "AT_CODE"
  BY <1>1 DEF Pushed, Keywords, Directives, ListMarks, EOF, InCode
<1> QED
  BY <1>1, <1>2, <1>3, <1>4, EmitInv

LEMMA TextInv == IInv /\ (CapitalisedLine \/ TextLine) => IInv'
<1> SUFFICES ASSUME IInv, CapitalisedLine \/ TextLine PROVE IInv'
  OBVIOUS
<1>1. /\ Scanning /\ sc \in {"INITIAL", "TEXT_LINE"} /\ rest # <<>>
      /\ EmitUpTo("TEXT_CONTENT", "INITIAL", {"NL"})
  BY DEF CapitalisedLine, TextLine, At
<1>2. /\ "TEXT_CONTENT" \in Pushed \ {EOF} /\ "TEXT_CONTENT" \notin InCode
      /\ "INITIAL" \in Conditions
  BY DEF Pushed, EOF, InCode, Conditions
<1> QED
  BY <1>1, <1>2, EmitUpToInv

LEMMA CodeInv == IInv /\ (CodeEnd \/ CodeRun \/ CodeAt) => IInv'
<1> SUFFICES ASSUME IInv, CodeEnd \/ CodeRun \/ CodeAt PROVE IInv'
  OBVIOUS
<1>1. Scanning /\ sc = "CODE_BLOCK" /\ rest # <<>>
  BY DEF CodeEnd, CodeRun, CodeAt, At
<1>2. /\ {"AT_END", "CODE_CONTENT"} \subseteq Pushed \ {EOF}
      /\ "CODE_CONTENT" \in InCode /\ "AT_END" \notin InCode
      /\ {"INITIAL", "CODE_BLOCK"} \subseteq Conditions
  BY DEF Pushed, Keywords, Directives, EOF, InCode, Conditions
<1>3. CASE CodeEnd
  <2>1. Emit("AT_END", "INITIAL", Tail(rest)) /\ Tail(rest) \in Seq(Fragments)
    BY <1>1, <1>3, RestTyped DEF CodeEnd, IInv
  <2> QED
    BY <2>1, <1>1, <1>2, EmitInv
<1>4. CASE CodeRun
  <2>1. EmitUpTo("CODE_CONTENT", "CODE_BLOCK", Directives \cup PlainAts)
    BY <1>4 DEF CodeRun
  <2> QED
    BY <2>1, <1>1, <1>2, EmitUpToInv
<1>5. CASE CodeAt
  <2>1. PICK r \in Seq(Fragments) : Emit("CODE_CONTENT", "CODE_BLOCK", r)
    <3>1. CASE Emit("CODE_CONTENT", "CODE_BLOCK", <<"CHAR">> \o Tail(rest))
      BY <3>1, <1>1, RestTyped DEF IInv
    <3>2. CASE Tail(rest) # <<>> /\ Emit("CODE_CONTENT", "CODE_BLOCK", Bitten(Tail(rest)))
      BY <3>2, <1>1, RestTyped, BittenTyped DEF IInv
    <3> QED
      BY <1>5, <3>1, <3>2 DEF CodeAt
  <2> QED
    BY <2>1, <1>1, <1>2, EmitInv
<1> QED
  BY <1>3, <1>4, <1>5

LEMMA EndInv == IInv /\ EndOfInput => IInv'
<1> SUFFICES ASSUME IInv, EndOfInput PROVE IInv'
  OBVIOUS
<1>1. Scanning /\ Emit(EOF, sc, <<>>)
  BY DEF EndOfInput
<1>2. EOF \in Pushed /\ EOF # "CODE_CONTENT" /\ sc \in Conditions /\ <<>> \in Seq(Fragments)
  BY DEF Pushed, EOF, IInv, ScanTypeOK
<1> QED
  BY <1>1, <1>2, EmitInv

-----------------------------------------------------------------------------

LEMMA IgnoredInv == IInv /\ (Blank \/ EmptyTextLine \/ CodeEcho \/ CommentBody) => IInv'
<1> SUFFICES ASSUME IInv, Blank \/ EmptyTextLine \/ CodeEcho \/ CommentBody PROVE IInv'
  OBVIOUS
<1>1. /\ Scanning /\ rest # <<>> /\ UNCHANGED <<scStack, token, sent, status>>
      /\ rest' \in {Tail(rest), <<>>, <<"CHAR">>}
      /\ \/ sc' = "INITIAL" /\ sc \in {"INITIAL", "TEXT_LINE"}
         \/ sc' = sc /\ sc \in {"CODE_BLOCK", "MULTILINE_COMMENT"}
  BY DEF Blank, EmptyTextLine, CodeEcho, CommentBody, At, Ignore
<1>2. rest' \in Seq(Fragments)
  <2>1. <<"CHAR">> \in Seq(Fragments)
    BY DEF Fragments
  <2> QED
    BY <1>1, <2>1, RestTyped, EmptySeq DEF IInv
<1>3. sc' \in Conditions /\ scStack' \in Seq(Conditions)
  BY <1>1 DEF IInv, ScanTypeOK, Conditions
<1>4. ContextDiscipline'
  BY <1>1 DEF IInv, ContextDiscipline
<1> QED
  BY <1>1, <1>2, <1>3, <1>4, SilentInv

\* Pushing on and popping from a stack of conditions of length one and two.
LEMMA Stacks ==
  ASSUME NEW c \in Conditions
  PROVE  /\ <<c>> \in Seq(Conditions) /\ <<c, c>> \in Seq(Conditions)
         /\ Append(<<c>>, c) = <<c, c>>
         /\ SubSeq(<<c, c>>, 1, 1) = <<c>>
<1>1. /\ <<c>> \in Seq(Conditions) /\ Len(<<c>>) = 1 /\ <<c>>[1] = c
      /\ <<c, c>> \in Seq(Conditions) /\ Len(<<c, c>>) = 2
      /\ \A i \in 1..2 : <<c, c>>[i] = c
  OBVIOUS
<1>2. Append(<<c>>, c) = <<c, c>>
  <2> DEFINE s == Append(<<c>>, c)
  <2>1. s \in Seq(Conditions) /\ Len(s) = 2 /\ s[1] = c /\ s[2] = c
    BY <1>1, AppendProperties
  <2>2. \A i \in 1..2 : s[i] = <<c, c>>[i]
    BY <2>1, <1>1
  <2> HIDE DEF s
  <2>3. s = <<c, c>>
    BY <2>1, <2>2, <1>1, SeqEqual
  <2> QED
    BY <2>3 DEF s
<1>3. SubSeq(<<c, c>>, 1, 1) = <<c>>
  <2> DEFINE s == SubSeq(<<c, c>>, 1, 1)
  <2>1. s \in Seq(Conditions) /\ Len(s) = 1 /\ s[1] = c
    BY <1>1, SubSeqProperties
  <2>2. \A i \in 1..1 : s[i] = <<c>>[i]
    BY <2>1, <1>1
  <2> HIDE DEF s
  <2>3. s = <<c>>
    BY <2>1, <2>2, <1>1, SeqEqual
  <2> QED
    BY <2>3 DEF s
<1> QED
  BY <1>1, <1>2, <1>3

LEMMA EnterInv == IInv /\ EnterComment => IInv'
<1> SUFFICES ASSUME IInv, EnterComment PROVE IInv'
  OBVIOUS
<1>1. /\ Scanning /\ rest # <<>> /\ sc = "INITIAL" /\ sc' = "MULTILINE_COMMENT"
      /\ scStack' = Append(scStack, sc) /\ rest' = Tail(rest)
      /\ UNCHANGED <<token, sent, status>>
  BY DEF EnterComment, At
<1>2. scStack = <<"INITIAL">>
  BY <1>1 DEF IInv, ContextDiscipline
<1>3. scStack' = <<"INITIAL", "INITIAL">> /\ scStack' \in Seq(Conditions)
  <2>1. "INITIAL" \in Conditions
    BY DEF Conditions
  <2> QED
    BY <2>1, <1>1, <1>2, Stacks
<1>4. ContextDiscipline'
  BY <1>1, <1>3 DEF ContextDiscipline
<1>5. rest' \in Seq(Fragments)
  BY <1>1, RestTyped DEF IInv
<1>6. sc' \in Conditions /\ scStack' \in Seq(Conditions)
  BY <1>1, <1>3 DEF Conditions
<1> QED
  BY <1>1, <1>4, <1>5, <1>6, SilentInv

LEMMA LeaveInv == IInv /\ LeaveComment => IInv'
<1> SUFFICES ASSUME IInv, LeaveComment PROVE IInv'
  OBVIOUS
<1>1. /\ Scanning /\ rest # <<>> /\ sc = "MULTILINE_COMMENT"
      /\ sc' = Last(scStack) /\ scStack' = Front(scStack)
      /\ UNCHANGED <<token, sent, status>>
      /\ Head(rest) # "CLOSE" => Len(rest) > 1
  BY DEF LeaveComment, ClosesComment, At
<1>2. scStack = <<"INITIAL", "INITIAL">>
  BY <1>1 DEF IInv, ContextDiscipline
<1>3. Last(scStack) = "INITIAL"
  BY <1>2 DEF Last
<1>4. Front(scStack) = <<"INITIAL">> /\ Front(scStack) \in Seq(Conditions)
  <2>1. Front(scStack) = SubSeq(<<"INITIAL", "INITIAL">>, 1, 1)
    BY <1>2 DEF Front
  <2>2. "INITIAL" \in Conditions
    BY DEF Conditions
  <2> QED
    BY <2>1, <2>2, Stacks
<1>5. ContextDiscipline'
  BY <1>1, <1>3, <1>4 DEF ContextDiscipline
<1>6. rest' \in Seq(Fragments)
  <2>1. rest' = IF Head(rest) = "CLOSE" THEN Tail(rest) ELSE <<"CHAR">> \o Tail(Tail(rest))
    BY DEF LeaveComment
  <2>2. Tail(rest) \in Seq(Fragments) /\ Len(Tail(rest)) = Len(rest) - 1 /\ Len(rest) \in Nat
    BY <1>1, RestTyped DEF IInv
  <2>3. CASE Head(rest) # "CLOSE"
    <3>1. Tail(rest) # <<>>
      BY <2>2, <2>3, <1>1, EmptySeq
    <3>2. Tail(Tail(rest)) \in Seq(Fragments)
      BY <3>1, <2>2, HeadTailProperties
    <3>3. <<"CHAR">> \in Seq(Fragments)
      BY DEF Fragments
    <3> QED
      BY <2>1, <2>3, <3>2, <3>3, ConcatProperties
  <2> QED
    BY <2>1, <2>2, <2>3
<1>7. sc' \in Conditions /\ scStack' \in Seq(Conditions)
  BY <1>1, <1>3, <1>4 DEF Conditions
<1> QED
  BY <1>1, <1>3, <1>5, <1>6, <1>7, SilentInv

-----------------------------------------------------------------------------

LEMMA UnknownInv == IInv /\ Unknown => IInv'
<1> SUFFICES ASSUME IInv, Unknown PROVE IInv'
  OBVIOUS
<1>1. status' = "FAILED" /\ token = "none" /\ UNCHANGED <<rest, sc, scStack, token, sent>>
  BY DEF Unknown, At, Scanning
<1>2. AtTheEnd' = AtTheEnd /\ Before' = Before
  BY <1>1 DEF AtTheEnd, Before
<1>3. ScanTypeOK' /\ ContextDiscipline' /\ CodeIsBracketed'
  BY <1>1 DEF IInv, ScanTypeOK, ContextDiscipline, CodeIsBracketed
<1>4. CodeInStep' /\ TokenInHand' /\ EndIsLast' /\ SuccessAtTheEnd'
  BY <1>1, <1>2 DEF IInv, CodeInStep, TokenInHand, EndIsLast, SuccessAtTheEnd
<1> QED
  BY <1>3, <1>4 DEF IInv

\* The end of the input is the one token a success may answer.
LEMMA AnswerInv == ASSUME NEW s \in Answers, IInv, Answer(s) PROVE IInv'
<1>1. /\ token # "none" /\ token' = "none" /\ UNCHANGED <<rest, sc, scStack, sent>>
      /\ status' = IF token = EOF /\ sc # "INITIAL" THEN "FAILED" ELSE s
  BY DEF Answer, Overrule
<1>2. /\ status' \in {"IN_PROGRESS", "SUCCEEDED", "FAILED"}
      /\ status' = "SUCCEEDED" => token = EOF /\ sc = "INITIAL"
      /\ token = EOF => status' # "IN_PROGRESS"
  BY <1>1 DEF Answers
<1>3. sent # <<>> /\ sent[Len(sent)] = token
  BY <1>1 DEF IInv, TokenInHand
<1>4. AtTheEnd' = AtTheEnd /\ Before' = Before /\ (AtTheEnd <=> token = EOF)
  BY <1>1, <1>3 DEF AtTheEnd, Before
<1>5. ScanTypeOK' /\ ContextDiscipline' /\ CodeIsBracketed'
  BY <1>1, <1>2 DEF IInv, ScanTypeOK, ContextDiscipline, CodeIsBracketed
<1>6. CodeInStep' /\ TokenInHand' /\ EndIsLast' /\ SuccessAtTheEnd'
  BY <1>1, <1>2, <1>4 DEF IInv, CodeInStep, TokenInHand, EndIsLast, SuccessAtTheEnd
<1> QED
  BY <1>5, <1>6 DEF IInv

LEMMA StutterInv == IInv /\ UNCHANGED scanVars => IInv'
  BY DEF IInv, scanVars, ScanTypeOK, ContextDiscipline, CodeIsBracketed, CodeInStep,
         TokenInHand, EndIsLast, SuccessAtTheEnd, AtTheEnd, Before

LEMMA StepInv == IInv /\ [ScanNext]_scanVars => IInv'
<1> SUFFICES ASSUME IInv, [ScanNext]_scanVars PROVE IInv'
  OBVIOUS
<1>1. CASE Scan
  BY <1>1, KeywordInv, TextInv, CodeInv, EndInv, IgnoredInv, EnterInv, LeaveInv,
     UnknownInv DEF Scan
<1>2. CASE \E s \in Answers : Answer(s)
  BY <1>2, AnswerInv
<1>3. CASE UNCHANGED scanVars
  BY <1>3, StutterInv
<1> QED
  BY <1>1, <1>2, <1>3 DEF ScanNext

-----------------------------------------------------------------------------

(***************************************************************************)
(* What one rule of the scanner does, for whoever composes it: it sends    *)
(* nothing and stays in or out of code, or it sends one label, and the     *)
(* condition it moves to tells that label (the end of the input moves to   *)
(* none).                                                                  *)
(***************************************************************************)
Silent ==
  /\ token' = "none" /\ sent' = sent /\ status' \in {"IN_PROGRESS", "FAILED"}
  /\ sc' = "CODE_BLOCK" <=> sc = "CODE_BLOCK"
  /\ sc' = "TEXT_LINE" => sc = "TEXT_LINE"

Sends ==
  /\ token' \in Pushed /\ sent' = Append(sent, token') /\ status' = status
  /\ IF token' = EOF THEN sc' = sc
     ELSE /\ sc' = "CODE_BLOCK" <=> token' \in InCode
          /\ sc' = "TEXT_LINE" => token' \in ListMarks

LEMMA ScanIsSilentOrSends ==
  ASSUME IInv, Scan
  PROVE  Scanning /\ (Silent \/ Sends)
<1>1. Scanning
  BY DEF Scan, Keyword, CapitalisedLine, Blank, TextLine, EmptyTextLine, CodeEnd, CodeRun,
         CodeAt, CodeEcho, EnterComment, LeaveComment, ClosesComment, CommentBody,
         EndOfInput, Unknown, At
<1> USE DEF Scanning
<1>2. CASE Keyword
  BY <1>2 DEF Keyword, At, Emit, Begins, Sends, Pushed, Keywords, Directives, ListMarks,
              InCode, EOF
<1>3. CASE CapitalisedLine \/ TextLine \/ CodeEnd \/ CodeRun \/ CodeAt
  <2>1. \/ \E r : Emit("TEXT_CONTENT", "INITIAL", r)
        \/ \E r : Emit("AT_END", "INITIAL", r)
        \/ \E r : Emit("CODE_CONTENT", "CODE_BLOCK", r)
    BY <1>3 DEF CapitalisedLine, TextLine, CodeEnd, CodeRun, CodeAt, EmitUpTo
  <2> QED
    BY <1>1, <2>1 DEF Emit, Sends, Pushed, Keywords, Directives, InCode, EOF
<1>4. CASE EndOfInput
  BY <1>4 DEF EndOfInput, Emit, Sends, Pushed
<1>5. CASE Blank \/ EmptyTextLine \/ CodeEcho \/ CommentBody
  BY <1>1, <1>5 DEF Blank, EmptyTextLine, CodeEcho, CommentBody, At, Ignore, Silent
<1>6. CASE EnterComment \/ Unknown
  BY <1>1, <1>6 DEF EnterComment, Unknown, At, Silent
<1>7. CASE LeaveComment
  <2>1. sc = "MULTILINE_COMMENT" /\ sc' = Last(scStack) /\ UNCHANGED <<token, sent, status>>
    BY <1>7 DEF LeaveComment, ClosesComment, At
  <2>2. scStack = <<"INITIAL", "INITIAL">>
    BY <2>1 DEF IInv, ContextDiscipline
  <2>3. Last(scStack) = "INITIAL"
    BY <2>2 DEF Last
  <2> QED
    BY <1>1, <2>1, <2>3 DEF Silent
<1> QED
  BY <1>1, <1>2, <1>3, <1>4, <1>5, <1>6, <1>7 DEF Scan

-----------------------------------------------------------------------------

(***************************************************************************)
(* The strengthened invariant holds of every behaviour of the scanner.     *)
(***************************************************************************)
THEOREM Invariance == ScanSpec => []IInv
<1> QED
  BY InitInv, StepInv, PTL DEF ScanSpec

(***************************************************************************)
(* Whatever the input, the variables keep their types: in particular what  *)
(* is left after a lexeme that ends inside a fragment is an input again.   *)
(***************************************************************************)
THEOREM TypeCorrect == ScanSpec => []ScanTypeOK
<1>1. IInv => ScanTypeOK
  BY DEF IInv
<1> QED
  BY <1>1, Invariance, PTL

(***************************************************************************)
(* BEGIN and the stack of start conditions never disagree: leaving a       *)
(* comment never underflows the stack (FlexPatterns.l:73-93,               *)
(* FlexExport.h:13-24).                                                    *)
(***************************************************************************)
THEOREM ContextsAgree == ScanSpec => []ContextDiscipline
<1>1. IInv => ContextDiscipline
  BY DEF IInv
<1> QED
  BY <1>1, Invariance, PTL

(***************************************************************************)
(* Between @code and its @end only code is sent, and code nowhere else     *)
(* (FlexPatterns.l:88-93).                                                 *)
(***************************************************************************)
THEOREM CodeBracketed == ScanSpec => []CodeIsBracketed
<1>1. IInv => CodeIsBracketed
  BY DEF IInv
<1> QED
  BY <1>1, Invariance, PTL

(***************************************************************************)
(* Success is only ever the answer to the end of a complete input          *)
(* (EOFLexemeAction, FlexActions.c:204-218).                               *)
(***************************************************************************)
THEOREM AcceptanceComplete == ScanSpec => []AcceptedIsComplete
<1>1. IInv => AcceptedIsComplete
  <2> SUFFICES ASSUME IInv, status = "SUCCEEDED" PROVE AcceptedIsComplete
    BY DEF AcceptedIsComplete
  <2> DEFINE n == Len(sent)
  <2>1. sent # <<>> /\ sent[n] = EOF /\ sc = "INITIAL" /\ AtTheEnd
    BY DEF IInv, SuccessAtTheEnd, AtTheEnd
  <2>2. n \in Nat /\ n > 0
    BY <2>1, EmptySeq, LenProperties DEF IInv, ScanTypeOK
  <2>3. \A i \in 1..(n - 1) : sent[i] # EOF
    BY DEF IInv, EndIsLast
  <2>4. n > 1 => sent[n - 1] \notin InCode
    BY <2>1, <2>2 DEF IInv, CodeInStep, Before
  <2>5. scStack = <<"INITIAL">>
    BY <2>1 DEF IInv, ContextDiscipline
  <2> QED
    BY <2>1, <2>2, <2>3, <2>4, <2>5 DEF AcceptedIsComplete
<1> QED
  BY <1>1, Invariance, PTL

=============================================================================
