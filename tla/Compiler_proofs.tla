--------------------------- MODULE Compiler_proofs ---------------------------
(***************************************************************************)
(* Proofs about the compiler as a whole: the scanner, the parser with its  *)
(* memory and main, for every set of inputs.                               *)
(*                                                                         *)
(* Each component keeps its own invariant (SP!IInv of Scanner_proofs, and  *)
(* ParserInv, HeapInv and DocumentInv of ParserHeap_proofs): each joint    *)
(* step is a step or a stutter of it.  What is proved here is what ties    *)
(* them: whose turn it is (Coupled), that the start condition and the      *)
(* stack remember the same place (InContext), what the parser has read of  *)
(* what the scanner sent (NothingSkipped), and where main stands           *)
(* (MainInStep).                                                           *)
(***************************************************************************)
EXTENDS Compiler, ParserHeap_proofs

SP == INSTANCE Scanner_proofs

Working == {"syntax", "semantics", "generate", "destroy"}
Phases == Working \cup {"shutdown", "exit", "crashed"}

Coupled ==
  /\ token # "none" => phase = "syntax" /\ status = "IN_PROGRESS"
  /\ phase # "syntax" => status # "IN_PROGRESS"
  /\ run = "busy" => token # "none" /\ look \in {"none", token} /\ (token = EOF => look = EOF)
  /\ run = "more" => token # EOF
  /\ run = "accepted" => token \in {EOF, "none"}
  /\ run \in {"accepted", "aborted"} => token # "none" \/ status # "IN_PROGRESS"
  /\ status = "SUCCEEDED" => run = "accepted"

\* What an ended parse leaves behind.
Ended ==
  /\ run \in {"accepted", "aborted"} => stack = <<Start>>
  /\ run = "accepted" => sc \in {"INITIAL", "MULTILINE_COMMENT"} /\ ast # <<>>
  /\ run = "accepted" /\ status = "FAILED" => sc = "MULTILINE_COMMENT"

\* The place in the input, by the token in hand or by the stack.
InContext ==
  phase = "syntax" /\ run \in {"more", "busy"} =>
    IF look \in {"none", EOF}
    THEN /\ sc = "CODE_BLOCK" <=> InsideCode(Top)
         /\ sc = "TEXT_LINE" => TextDue(Top)
    ELSE /\ sc = "CODE_BLOCK" <=> look \in SP!InCode
         /\ sc = "TEXT_LINE" => look \in SP!ListMarks

NothingSkipped ==
  /\ phase = "syntax" /\ run \in {"more", "busy"} =>
       sent = IF look = "none" THEN read ELSE Append(read, look)
  /\ run = "accepted" => sent = Append(read, EOF)

MainInStep ==
  /\ phase \in Phases
  /\ phase = "syntax" => exitStatus = "IN_PROGRESS"
  /\ phase \in {"semantics", "generate"} => exitStatus = "SUCCEEDED" /\ status = "SUCCEEDED"
  /\ phase \in {"syntax", "semantics", "generate"} => ~output
  /\ phase \in {"destroy", "shutdown", "exit"} => (exitStatus = "SUCCEEDED" <=> output)

Freed == phase \in {"shutdown", "exit"} /\ run # "more" => freed = 1..brk

Parts == phase \in Working => ParserInv /\ HeapInv /\ DocumentInv

Glue == Coupled /\ Ended /\ InContext /\ NothingSkipped /\ MainInStep /\ Freed

CompilerInv == SP!IInv /\ Parts /\ Glue

-----------------------------------------------------------------------------

LEMMA SameScanner ==
  /\ S!ScanInit => SP!ScanInit
  /\ S!Scan => SP!Scan
  /\ \A s : S!Answer(s) => SP!Answer(s)
  /\ EOF = SP!EOF
<1>1. S!ScanInit => SP!ScanInit
  BY DEF S!ScanInit, SP!ScanInit
<1>2. \A s : S!Answer(s) => SP!Answer(s)
  BY DEF S!Answer, SP!Answer, S!Overrule, SP!Overrule, S!EOF, SP!EOF
<1>3. S!Scan => SP!Scan
  <2> USE DEF S!At, SP!At, S!Scanning, SP!Scanning
  <2>1. S!Keyword => SP!Keyword
    BY DEF S!Keyword, SP!Keyword, S!Keywords, SP!Keywords, S!Directives, SP!Directives,
           S!ListMarks, SP!ListMarks, S!Emit, SP!Emit, S!Begins, SP!Begins
  <2>2. S!CapitalisedLine => SP!CapitalisedLine
    BY DEF S!CapitalisedLine, SP!CapitalisedLine, S!EmitUpTo, SP!EmitUpTo, S!Emit, SP!Emit
  <2>3. S!Blank => SP!Blank
    BY DEF S!Blank, SP!Blank, S!Ignore, SP!Ignore
  <2>4. S!TextLine => SP!TextLine
    BY DEF S!TextLine, SP!TextLine, S!EmitUpTo, SP!EmitUpTo, S!Emit, SP!Emit, S!Fragments,
           SP!Fragments, S!Keywords, SP!Keywords, S!Directives, SP!Directives, S!ListMarks,
           SP!ListMarks, S!PlainAts, SP!PlainAts
  <2>5. S!EmptyTextLine => SP!EmptyTextLine
    BY DEF S!EmptyTextLine, SP!EmptyTextLine, S!Ignore, SP!Ignore
  <2>6. S!CodeEnd => SP!CodeEnd
    BY DEF S!CodeEnd, SP!CodeEnd, S!Emit, SP!Emit
  <2>7. S!CodeRun => SP!CodeRun
    BY DEF S!CodeRun, SP!CodeRun, S!EmitUpTo, SP!EmitUpTo, S!Emit, SP!Emit, S!Fragments,
           SP!Fragments, S!Keywords, SP!Keywords, S!Directives, SP!Directives, S!ListMarks,
           SP!ListMarks, S!PlainAts, SP!PlainAts
  <2>8. S!CodeAt => SP!CodeAt
    BY DEF S!CodeAt, SP!CodeAt, S!Emit, SP!Emit, S!Directives, SP!Directives, S!Bitten,
           SP!Bitten, S!PlainAts, SP!PlainAts
  <2>9. S!CodeEcho => SP!CodeEcho
    BY DEF S!CodeEcho, SP!CodeEcho, S!Ignore, SP!Ignore, S!PlainAts, SP!PlainAts
  <2>10. S!EnterComment => SP!EnterComment
    BY DEF S!EnterComment, SP!EnterComment
  <2>11. S!LeaveComment => SP!LeaveComment
    BY DEF S!LeaveComment, SP!LeaveComment, S!ClosesComment, SP!ClosesComment, S!Last,
           SP!Last, S!Front, SP!Front
  <2>12. S!CommentBody => SP!CommentBody
    BY DEF S!CommentBody, SP!CommentBody, S!ClosesComment, SP!ClosesComment, S!Ignore,
           SP!Ignore, S!Fragments, SP!Fragments, S!Keywords, SP!Keywords, S!Directives,
           SP!Directives, S!ListMarks, SP!ListMarks, S!PlainAts, SP!PlainAts
  <2>13. S!EndOfInput => SP!EndOfInput
    BY DEF S!EndOfInput, SP!EndOfInput, S!Emit, SP!Emit, S!EOF, SP!EOF
  <2>14. S!Unknown => SP!Unknown
    BY DEF S!Unknown, SP!Unknown, S!PlainAts, SP!PlainAts
  <2> QED
    BY <2>1, <2>2, <2>3, <2>4, <2>5, <2>6, <2>7, <2>8, <2>9, <2>10, <2>11, <2>12, <2>13,
       <2>14 DEF S!Scan, SP!Scan
<1> QED
  BY <1>1, <1>2, <1>3 DEF EOF, SP!EOF

LEMMA SameInputs == Inputs \subseteq Seq(SP!Fragments)
  BY InputsAssumption DEF S!Fragments, SP!Fragments, S!Keywords, SP!Keywords, S!Directives,
     SP!Directives, S!ListMarks, SP!ListMarks, S!PlainAts, SP!PlainAts

Runs == {"more", "busy", "accepted", "aborted"}

LEMMA Typed ==
  ASSUME CompilerInv
  PROVE  /\ phase \in Working => run \in Runs
         /\ phase \in Working /\ run # "busy" => look = "none"
         /\ phase \in Working => TypeOK /\ ParserInv /\ HeapInv /\ DocumentInv
BY DEF CompilerInv, Parts, ParserInv, TypeOK, Runs, IdleEmptyHanded

\* A return of the parser is an answer the scanner knows.
LEMMA ReturnAnswers ==
  ASSUME CompilerInv, Return
  PROVE  StatusOf(run) \in SP!Answers /\ SP!Answer(StatusOf(run))
<1>1. token # "none" /\ SP!Answer(StatusOf(run))
  BY SameScanner DEF Return, SP!Answer, SP!Overrule
<1>2. StatusOf(run) \in SP!Answers
  <2>1. run \in Runs \ {"busy"}
    BY Typed DEF Return, Working
  <2> QED
    BY <1>1, <2>1, SameScanner DEF CompilerInv, Glue, Coupled, StatusOf, SP!Answers, Runs
<1> QED
  BY <1>1, <1>2

LEMMA ScannerMoves ==
  ASSUME CompilerInv, [CompilerNext]_allVars
  PROVE  [SP!ScanNext]_scanVars
<1>1. CASE Lex
  BY <1>1, SameScanner DEF Lex, SP!ScanNext
<1>2. CASE Return
  BY <1>2, ReturnAnswers DEF Return, SP!ScanNext
<1>3. CASE Parse \/ EndSyntax \/ Analyze \/ Generate \/ Crash \/ DestroyProgram \/ Shutdown
  BY <1>3 DEF Parse, EndSyntax, Analyze, Generate, Crash, DestroyProgram, Destroy, Shutdown
<1> QED
  BY <1>1, <1>2, <1>3 DEF CompilerNext, allVars

LEMMA ScannerInvInit == CompilerInit => SP!IInv
  BY SameInputs, SameScanner, SP!InitInv DEF CompilerInit

LEMMA ScannerInvStep ==
  ASSUME CompilerInv, [CompilerNext]_allVars
  PROVE  SP!IInv'
  BY SameInputs, ScannerMoves, SP!StepInv DEF CompilerInv, scanVars, SP!scanVars

-----------------------------------------------------------------------------

(***************************************************************************)
(* Up to the destruction of the program each step is one of the parser's   *)
(* or leaves it alone, so what holds of the parser holds here.             *)
(***************************************************************************)
LEMMA ParserMoves ==
  ASSUME SP!IInv', [CompilerNext]_allVars, phase' \in Working
  PROVE  phase \in Working /\ [HeapNext]_vars
<1>1. CASE Lex
  <2>1. token' \in SP!Pushed \cup {"none"}
    BY DEF SP!IInv, SP!ScanTypeOK
  <2>2. SP!Pushed \subseteq Offered
    BY PushedAssumption DEF S!Pushed, SP!Pushed, S!Keywords, SP!Keywords, S!Directives,
       SP!Directives, S!ListMarks, SP!ListMarks, S!EOF, SP!EOF
  <2> QED
    BY <1>1, <2>1, <2>2 DEF Lex, HeapNext, Working
<1>2. CASE Parse
  BY <1>2 DEF Parse, HeapNext, Working
<1>3. CASE Return \/ EndSyntax \/ Analyze \/ Generate \/ Crash
  BY <1>3 DEF Return, EndSyntax, Analyze, Generate, Crash, Working
<1>4. CASE DestroyProgram \/ Shutdown
  BY <1>4 DEF DestroyProgram, Destroy, Shutdown, Working
<1>5. CASE UNCHANGED allVars
  BY <1>5 DEF allVars, mainVars
<1> QED
  BY <1>1, <1>2, <1>3, <1>4, <1>5 DEF CompilerNext

LEMMA PartsStep ==
  ASSUME CompilerInv, SP!IInv', [CompilerNext]_allVars
  PROVE  Parts'
<1> SUFFICES ASSUME phase' \in Working PROVE ParserInv' /\ HeapInv' /\ DocumentInv'
  BY DEF Parts
<1>1. ParserInv /\ HeapInv /\ DocumentInv /\ [HeapNext]_vars
  BY ParserMoves, Typed
<1>2. ParserInv'
  BY <1>1, HeapStepsAreSteps, StepParserInv
<1> QED
  BY <1>1, <1>2, StepHeapInv, StepDocumentInv

-----------------------------------------------------------------------------

(***************************************************************************)
(* A rule of the scanner finds the parser waiting; the label it sends, if  *)
(* any, becomes the token in hand.                                         *)
(***************************************************************************)
LEMMA LexGlue ==
  ASSUME CompilerInv, SP!IInv', Lex
  PROVE  Glue'
<1>1. /\ phase = "syntax" /\ UNCHANGED mainVars /\ SP!Scan
      /\ IF token' = "none" THEN UNCHANGED vars ELSE HeapPush(token')
  BY SameScanner DEF Lex
<1>2. /\ token = "none" /\ status = "IN_PROGRESS"
      /\ SP!Silent \/ SP!Sends
  BY <1>1, SameInputs, SP!ScanIsSilentOrSends DEF CompilerInv, SP!Scanning
<1>3. run = "more" /\ look = "none"
  BY <1>1, <1>2, Typed DEF CompilerInv, Glue, Coupled, Working, Runs
<1>4. "none" \notin SP!Pushed
  BY DEF SP!Pushed, SP!Keywords, SP!Directives, SP!ListMarks, SP!EOF
<1>5. /\ phase' = phase /\ exitStatus' = exitStatus /\ output' = output
      /\ stack' = stack /\ read' = read
  BY <1>1 DEF vars, parserVars, heapVars, mainVars, HeapPush, Push
<1>6. CASE SP!Silent
  <2>1. UNCHANGED vars
    BY <1>1, <1>6 DEF SP!Silent
  <2> QED
    BY <1>1, <1>2, <1>3, <1>5, <1>6, <2>1
       DEF CompilerInv, Glue, Coupled, Ended, InContext, NothingSkipped, MainInStep, Freed,
           SP!Silent, vars, parserVars, heapVars, Top
<1>7. CASE SP!Sends
  <2>1. HeapPush(token') /\ token' # "none"
    BY <1>1, <1>4, <1>7 DEF SP!Sends
  <2>2. look' = token' /\ run' = "busy"
    BY <2>1 DEF HeapPush, Push
  <2>3. status' = "IN_PROGRESS" /\ sent' = Append(sent, token')
    BY <1>2, <1>7 DEF SP!Sends
  <2>4. Coupled' /\ Ended'
    BY <1>1, <1>5, <2>1, <2>2, <2>3 DEF Coupled, Ended
  <2>5. InContext'
    <3>1. Top' = Top
      BY <1>5 DEF Top
    <3> QED
      BY <1>1, <1>3, <1>7, <2>1, <2>2, <3>1, SameScanner
         DEF CompilerInv, Glue, InContext, SP!Sends
  <2>6. NothingSkipped'
    BY <1>1, <1>3, <1>5, <2>1, <2>2, <2>3 DEF CompilerInv, Glue, NothingSkipped
  <2>7. MainInStep' /\ Freed'
    BY <1>1, <1>5 DEF CompilerInv, Glue, MainInStep, Freed, Phases
  <2> QED
    BY <2>4, <2>5, <2>6, <2>7 DEF Glue
<1> QED
  BY <1>2, <1>6, <1>7

\* What the parser returns is the answer to the token in hand.
LEMMA ReturnGlue ==
  ASSUME CompilerInv, Return
  PROVE  Glue'
<1>1. /\ phase = "syntax" /\ run \in {"more", "accepted", "aborted"}
      /\ UNCHANGED <<vars, mainVars>> /\ SP!Answer(StatusOf(run))
  BY ReturnAnswers, Typed DEF Return, Working, Runs
<1>2. /\ token # "none" /\ token' = "none" /\ sc' = sc /\ sent' = sent
      /\ status' = IF token = EOF /\ sc # "INITIAL" THEN "FAILED" ELSE StatusOf(run)
  BY <1>1, SameScanner DEF SP!Answer, SP!Overrule
<1>3. /\ run' = run /\ look' = look /\ stack' = stack /\ ast' = ast /\ read' = read
      /\ phase' = phase /\ exitStatus' = exitStatus /\ output' = output
  BY <1>1 DEF vars, parserVars, heapVars, mainVars
<1>4. Coupled'
  BY <1>1, <1>2, <1>3, NoneIsNoToken DEF CompilerInv, Glue, Coupled, StatusOf
<1>5. Ended'
  BY <1>1, <1>2, <1>3 DEF CompilerInv, Glue, Ended, StatusOf
<1>6. InContext' /\ NothingSkipped'
  BY <1>2, <1>3 DEF CompilerInv, Glue, InContext, NothingSkipped, Top
<1>7. MainInStep' /\ Freed'
  BY <1>1, <1>3 DEF CompilerInv, Glue, MainInStep, Freed
<1> QED
  BY <1>4, <1>5, <1>6, <1>7 DEF Glue

(***************************************************************************)
(* A step of the parser moves the place in the input from the token in     *)
(* hand to the stack, and a reduction never moves it: what can be reduced  *)
(* is neither inside code nor before a text that is due.                   *)
(***************************************************************************)
LEMMA PlaceKept ==
  ASSUME CompilerInv, Parse, run' # "aborted"
  PROVE  InContext' /\ (HeapAccept => sc \in {"INITIAL", "MULTILINE_COMMENT"})
<1>1. /\ phase = "syntax" /\ HeapStep /\ run = "busy"
      /\ phase' = phase /\ sc' = sc /\ InContext
      /\ TypeOK /\ Path /\ Top \in States
  BY Typed, TopIsLast
     DEF Parse, HeapStep, HeapShift, HeapReduce, HeapPause, HeapSyntaxError, HeapAccept,
         Shift, Reduce, Pause, SyntaxError, Accept, Working, scanVars, mainVars,
         CompilerInv, Glue, ParserInv
<1>2. CASE HeapShift
  <2>1. /\ look \in Reads[Top] \ {"none", EOF} /\ Top \in States
        /\ look' = "none" /\ run' = run /\ stack' = Append(stack, Goto[Top][look])
    BY <1>1, <1>2, AutomatonAssumption DEF HeapShift, Shift
  <2>2. Top' = Goto[Top][look]
    <3>1. Goto[Top][look] \in States
      BY <2>1, AutomatonAssumption
    <3> QED
      BY <2>1, <3>1, <1>1, AppendProperties DEF Top, Last, TypeOK
  <2>3. /\ InsideCode(Top') <=> look \in SP!InCode
        /\ look \in SP!ListMarks => TextDue(Top')
    BY <2>1, <2>2, ContextAssumption DEF SP!InCode, SP!ListMarks
  <2> QED
    BY <1>1, <2>1, <2>3 DEF InContext, HeapAccept, Accept
<1>3. ASSUME NEW r \in DOMAIN Rules, HeapReduce(r) PROVE InContext' /\ ~HeapAccept
  <2>1. Reduce(r) /\ look' = look /\ run' = run
    BY <1>3 DEF HeapReduce, Reduce
  <2>2. /\ r \in Completes[Top] /\ Base(r) \in 1..Len(stack)
        /\ Rules[r].lhs \in Reads[stack[Base(r)]] \ {EOF}
        /\ MoveFrom(Base(r), Rules[r].lhs)
    BY <1>1, <2>1, ReduceMoves
  <2>3. ~InsideCode(Top) /\ ~TextDue(Top)
    BY <1>1, <2>2, ContextAssumption DEF TextDue
  <2>4. ~InsideCode(Top')
    <3>1. stack[Base(r)] \in States
      BY <1>1, <2>2, TopIsLast
    <3>2. Top' = Goto[stack[Base(r)]][Rules[r].lhs]
      BY <1>1, <2>2, <3>1, CutAndAppend, AutomatonAssumption DEF Top, Last, TypeOK, MoveFrom
    <3>3. Rules[r].lhs \notin {"AT_CODE", "CODE_CONTENT"}
      BY ActionsAssumption DEF Terminals, Labels, Valued, ItemStart
    <3> QED
      BY <2>2, <3>1, <3>2, <3>3, ContextAssumption
  <2> QED
    BY <1>1, <2>1, <2>3, <2>4 DEF InContext, HeapAccept, Accept
<1>4. CASE HeapPause
  BY <1>1, <1>4 DEF HeapPause, Pause, InContext, Top, HeapAccept, Accept
<1>5. CASE HeapAccept
  <2>1. look = EOF /\ EOF \in Reads[Top] /\ run' = "accepted"
    BY <1>5 DEF HeapAccept, Accept
  <2>2. Top = Whole
    BY <1>1, <2>1, AutomatonAssumption
  <2>3. ~InsideCode(Top)
    BY <2>2, AutomatonAssumption, ContextAssumption DEF Whole
  <2>4. ~TextDue(Top)
    BY <2>2, AutomatonAssumption DEF TextDue, EOF
  <2>5. sc \in {"INITIAL", "MULTILINE_COMMENT"}
    <3>1. sc \in SP!Conditions
      BY DEF CompilerInv, SP!IInv, SP!ScanTypeOK
    <3> QED
      BY <1>1, <2>1, <2>3, <2>4, <3>1 DEF InContext, SP!Conditions
  <2> QED
    BY <2>1, <2>5 DEF InContext
<1> QED
  BY <1>1, <1>2, <1>3, <1>4, <1>5 DEF HeapStep, HeapSyntaxError, SyntaxError

LEMMA ParseGlue ==
  ASSUME CompilerInv, Parse
  PROVE  Glue'
<1>1. /\ phase = "syntax" /\ HeapStep /\ run = "busy"
      /\ token # "none" /\ status = "IN_PROGRESS" /\ look \in {"none", token}
      /\ token = EOF => look = EOF
      /\ UNCHANGED <<sc, token, sent, status, phase, exitStatus, output>>
  BY DEF Parse, HeapStep, HeapShift, HeapReduce, HeapPause, HeapSyntaxError, HeapAccept,
         Shift, Reduce, Pause, SyntaxError, Accept, scanVars, mainVars, CompilerInv, Glue,
         Coupled
<1>2. NothingSkipped /\ (look = "none" \/ sent = Append(read, look))
      /\ (look = "none" => sent = read)
  BY <1>1 DEF CompilerInv, Glue, NothingSkipped
<1>3. MainInStep' /\ Freed'
  BY <1>1 DEF CompilerInv, Glue, MainInStep, Freed
<1>4. EOF # "none"
  BY NoneIsNoToken
<1>5. CASE HeapShift
  <2>1. /\ look # EOF /\ look # "none" /\ look' = "none" /\ run' = "busy"
        /\ read' = Append(read, look)
    <3>1. look \in Reads[Top] /\ Top \in States
      BY <1>1, <1>5, Typed, TopIsLast DEF HeapShift, Shift, Working
    <3> QED
      BY <1>1, <1>5, <3>1, AutomatonAssumption DEF HeapShift, Shift
  <2> QED
    BY <1>1, <1>2, <1>3, <2>1, PlaceKept DEF Glue, Coupled, Ended, NothingSkipped
<1>6. CASE \E r \in DOMAIN Rules : HeapReduce(r)
  <2>1. look' = look /\ run' = "busy" /\ read' = read
    BY <1>1, <1>6 DEF HeapReduce, Reduce
  <2> QED
    BY <1>1, <1>2, <1>3, <2>1, PlaceKept DEF Glue, Coupled, Ended, NothingSkipped
<1>7. CASE HeapPause
  <2>1. look = "none" /\ look' = "none" /\ run' = "more" /\ read' = read
    BY <1>7 DEF HeapPause, Pause, heapVars
  <2> QED
    BY <1>1, <1>2, <1>3, <1>4, <2>1, PlaceKept DEF Glue, Coupled, Ended, NothingSkipped
<1>8. CASE HeapSyntaxError
  <2>1. run' = "aborted" /\ stack' = <<Start>>
    BY <1>8 DEF HeapSyntaxError, SyntaxError
  <2> QED
    BY <1>1, <1>3, <2>1 DEF Glue, Coupled, Ended, InContext, NothingSkipped
<1>9. CASE HeapAccept
  <2>1. /\ look = EOF /\ EOF \in Reads[Top] /\ run' = "accepted" /\ stack' = <<Start>>
        /\ ast' = ast /\ read' = read
    BY <1>9 DEF HeapAccept, Accept, Cleanup
  <2>2. ast # <<>>
    <3>1. TypeOK /\ Path /\ Handed
      BY <1>1, Typed DEF ParserInv, HeapInv, Working
    <3>2. Len(stack) \in 2..Len(stack) /\ Sym(Len(stack)) = "program"
      BY <2>1, <3>1, TopIsLast, AutomatonAssumption, WholeIsProgram
    <3> QED
      BY <3>1, <3>2 DEF Handed
  <2> QED
    BY <1>1, <1>2, <1>3, <1>4, <1>9, <2>1, <2>2, PlaceKept
       DEF Glue, Coupled, Ended, NothingSkipped
<1> QED
  BY <1>1, <1>5, <1>6, <1>7, <1>8, <1>9 DEF HeapStep

(***************************************************************************)
(* What main does after the loop; by the time it destroys the program the  *)
(* parser owns nothing, unless it still waits for a token.                 *)
(***************************************************************************)
LEMMA DestroyGlue ==
  ASSUME CompilerInv, DestroyProgram
  PROVE  Glue'
<1>1. /\ phase = "destroy" /\ phase' = "shutdown" /\ freed' = freed \cup astCells
      /\ UNCHANGED <<stack, look, run, ast, read, brk>>
      /\ UNCHANGED <<sc, token, sent, status, exitStatus, output>>
  BY DEF DestroyProgram, Destroy, parserVars, scanVars
<1>2. token = "none" /\ run # "busy" /\ look = "none"
  BY <1>1, Typed DEF CompilerInv, Glue, Coupled, Working
<1>3. run # "more" => freed' = 1..brk
  <2> SUFFICES ASSUME run # "more" PROVE freed' = 1..brk
    OBVIOUS
  <2>1. stack = <<Start>>
    BY <1>1, <1>2, Typed DEF CompilerInv, Glue, Ended, Working, Runs
  <2>2. ParserInv /\ HeapInv
    BY <1>1, Typed DEF Working
  <2>3. lookCells = {}
    BY <1>2, <2>2, HeapFacts
  <2>4. InParser = {}
    BY <2>1, <2>3 DEF InParser
  <2> QED
    BY <1>1, <2>2, <2>4 DEF HeapInv, NoLeak
<1>4. Coupled' /\ Ended' /\ InContext' /\ NothingSkipped'
  BY <1>1, <1>2 DEF CompilerInv, Glue, Coupled, Ended, InContext, NothingSkipped
<1>5. MainInStep' /\ Freed'
  BY <1>1, <1>3 DEF CompilerInv, Glue, MainInStep, Freed, Phases, Working
<1> QED
  BY <1>4, <1>5 DEF Glue

LEMMA MainGlue ==
  ASSUME CompilerInv,
         EndSyntax \/ Analyze \/ Generate \/ Crash \/ Shutdown \/ UNCHANGED allVars
  PROVE  Glue'
<1>1. UNCHANGED <<look, run, ast, read, brk, freed>>
      /\ UNCHANGED <<sc, token, sent, status>>
      /\ (phase' = "syntax" => phase = "syntax" /\ stack' = stack)
      /\ stack' \in {stack, <<Start>>}
  BY DEF EndSyntax, Analyze, Generate, Crash, Shutdown, allVars, vars, parserVars, heapVars,
         scanVars, mainVars
<1>2. Coupled'
  BY <1>1 DEF CompilerInv, Glue, Coupled, EndSyntax, Analyze, Generate, Crash,
              Shutdown, allVars, mainVars
<1>3. Ended' /\ NothingSkipped'
  BY <1>1 DEF CompilerInv, Glue, Ended, NothingSkipped
<1>4. InContext'
  BY <1>1 DEF CompilerInv, Glue, InContext, Top
<1>5. MainInStep' /\ Freed'
  BY <1>1 DEF CompilerInv, Glue, MainInStep, Freed, Phases, Working, EndSyntax, Analyze,
              Generate, Crash, Shutdown, allVars, mainVars
<1> QED
  BY <1>2, <1>3, <1>4, <1>5 DEF Glue

-----------------------------------------------------------------------------

LEMMA InitCompilerInv == CompilerInit => CompilerInv
<1> SUFFICES ASSUME CompilerInit PROVE CompilerInv
  OBVIOUS
<1>1. SP!IInv
  BY ScannerInvInit
<1>2. ParserInv /\ HeapInv /\ DocumentInv
  BY InitParserInv, InitHeapInv, InitDocumentInv DEF CompilerInit, HeapInit
<1>3. /\ stack = <<Start>> /\ look = "none" /\ run = "more" /\ read = <<>>
      /\ sc = "INITIAL" /\ token = "none" /\ sent = <<>> /\ status = "IN_PROGRESS"
      /\ phase = "syntax" /\ exitStatus = "IN_PROGRESS" /\ ~output
  BY SameScanner DEF CompilerInit, HeapInit, Init, SP!ScanInit
<1>4. ~InsideCode(Top)
  BY <1>3, ContextAssumption DEF Top, Last
<1>5. Coupled /\ Ended /\ InContext /\ NothingSkipped /\ MainInStep /\ Freed
  BY <1>3, <1>4, NoneIsNoToken
     DEF Coupled, Ended, InContext, NothingSkipped, MainInStep, Freed, Phases, Working
<1> QED
  BY <1>1, <1>2, <1>5 DEF CompilerInv, Parts, Glue

LEMMA StepCompilerInv == CompilerInv /\ [CompilerNext]_allVars => CompilerInv'
<1> SUFFICES ASSUME CompilerInv, [CompilerNext]_allVars PROVE CompilerInv'
  OBVIOUS
<1>1. SP!IInv'
  BY ScannerInvStep
<1>2. Parts'
  BY <1>1, PartsStep
<1>3. Glue'
  BY <1>1, LexGlue, ParseGlue, ReturnGlue, DestroyGlue, MainGlue DEF CompilerNext
<1> QED
  BY <1>1, <1>2, <1>3 DEF CompilerInv

LEMMA CompilerInvariant == CompilerSpec => []CompilerInv
<1> QED
  BY InitCompilerInv, StepCompilerInv, PTL DEF CompilerSpec

-----------------------------------------------------------------------------

(***************************************************************************)
(* The start condition of the scanner and the stack of the parser agree    *)
(* between any two tokens of any input (BEGIN in FlexPatterns.l against    *)
(* the productions of codeBlock and text in BisonGrammar.y).               *)
(***************************************************************************)
THEOREM ScannerInStep == CompilerSpec => []InStep
<1>1. CompilerInv => InStep
  <2> SUFFICES ASSUME CompilerInv, Between PROVE InStep
    BY DEF InStep
  <2>1. look = "none"
    BY Typed DEF Between, Working
  <2>2. (sc = "CODE_BLOCK" <=> InsideCode(Top)) /\ (sc = "TEXT_LINE" => TextDue(Top))
    BY <2>1 DEF CompilerInv, Glue, InContext, Between
  <2> QED
    BY <2>2 DEF InStep, InsideCode, ReadingCode, TextDue
<1> QED
  BY <1>1, CompilerInvariant, PTL

(***************************************************************************)
(* Only an unclosed comment makes the syntactic phase fail after the       *)
(* parser has accepted, and then main has a program to destroy             *)
(* (EOFLexemeAction, FlexActions.c:204-218).                               *)
(***************************************************************************)
THEOREM OnlyACommentOverrules == CompilerSpec => []OverruledOnlyByComment
<1>1. CompilerInv => OverruledOnlyByComment
  BY DEF CompilerInv, Glue, Ended, OverruledOnlyByComment
<1> QED
  BY <1>1, CompilerInvariant, PTL

(***************************************************************************)
(* At exit every block has been freed, whatever the input, unless the      *)
(* scanner stopped while the parser was waiting (main, EntryPoint.c).      *)
(***************************************************************************)
THEOREM LeaksOnlyAfterLexicalError == CompilerSpec => []LeakOnlyAfterLexicalError
<1>1. CompilerInv => LeakOnlyAfterLexicalError
  BY DEF CompilerInv, Glue, Freed, LeakOnlyAfterLexicalError
<1> QED
  BY <1>1, CompilerInvariant, PTL

(***************************************************************************)
(* The exit status is a success exactly when the generator has run         *)
(* (compilationStatus in main, EntryPoint.c).                              *)
(***************************************************************************)
THEOREM ExitIsTruthful == CompilerSpec => []ExitTellsTheTruth
<1>1. CompilerInv => ExitTellsTheTruth
  BY DEF CompilerInv, Glue, MainInStep, ExitTellsTheTruth
<1> QED
  BY <1>1, CompilerInvariant, PTL

(***************************************************************************)
(* When main analyzes and generates, the program is the document of every  *)
(* token the scanner sent but the end of the input, which it has sent, and *)
(* no block of the program has been freed (main, EntryPoint.c).            *)
(***************************************************************************)
THEOREM GeneratesWholeInput == CompilerSpec => []GeneratesDocument
<1>1. CompilerInv => GeneratesDocument
  <2> SUFFICES ASSUME CompilerInv, phase \in {"semantics", "generate"}
               PROVE  GeneratesDocument
    BY DEF GeneratesDocument
  <2>1. run = "accepted"
    BY DEF CompilerInv, Glue, MainInStep, Coupled
  <2>2. ast # <<>> /\ sent = Append(read, EOF)
    BY <2>1 DEF CompilerInv, Glue, Ended, NothingSkipped, Coupled, MainInStep
  <2>3. HeapTypeOK /\ NoDangling /\ DocumentInv
    BY Typed DEF Working, HeapInv, HeapTyped
  <2>4. ast = <<Document(read)>>
    BY <2>2, <2>3 DEF DocumentInv, Built
  <2>5. Append(read, EOF) = read \o <<EOF>>
    <3>1. read \in Seq(Terminals)
      BY <2>3, NoneIsNoToken DEF HeapTypeOK
    <3> QED
      BY <3>1, NoneIsNoToken, AppendIsConcat
  <2> QED
    BY <2>2, <2>3, <2>4, <2>5 DEF GeneratesDocument, NoDangling
<1> QED
  BY <1>1, CompilerInvariant, PTL

(***************************************************************************)
(* Composed with the parser, the scanner behaves as its own specification  *)
(* says: what yypush_parse answers to a token is what that specification   *)
(* lets any parser answer, success for the end of the input only.  So what *)
(* is proved of the scanner alone holds in the compiler.                   *)
(***************************************************************************)
THEOREM ParserAnswersAsAssumed == CompilerSpec => S!ScanInit /\ [][S!ScanNext]_scanVars
<1>1. CompilerInit => S!ScanInit
  BY DEF CompilerInit
<1>2. CompilerInv /\ [CompilerNext]_allVars => [S!ScanNext]_scanVars
  <2> SUFFICES ASSUME CompilerInv, [CompilerNext]_allVars PROVE [S!ScanNext]_scanVars
    OBVIOUS
  <2>1. CASE Lex
    BY <2>1 DEF Lex, S!ScanNext
  <2>2. CASE Return
    <3>1. StatusOf(run) \in S!Answers
      BY <2>2, ReturnAnswers DEF SP!Answers, S!Answers, SP!EOF, S!EOF
    <3> QED
      BY <2>2, <3>1 DEF Return, S!ScanNext
  <2>3. CASE Parse \/ EndSyntax \/ Analyze \/ Generate \/ Crash \/ DestroyProgram \/ Shutdown
    BY <2>3 DEF Parse, EndSyntax, Analyze, Generate, Crash, DestroyProgram, Destroy, Shutdown
  <2> QED
    BY <2>1, <2>2, <2>3 DEF CompilerNext, allVars
<1> QED
  BY <1>1, <1>2, CompilerInvariant, PTL DEF CompilerSpec

=============================================================================
