------------------------------ MODULE Compiler ------------------------------
(***************************************************************************)
(* The compiler as main runs it (EntryPoint.c): the scanner pushes tokens  *)
(* into the parser until one of them returns a final status; an accepted   *)
(* program goes through the semantic analysis and, if that accepts too,    *)
(* through the generator; then the program, the modules and the lexical    *)
(* analyzer are destroyed and the status is returned to the shell.         *)
(*                                                                         *)
(* Scanner and ParserHeap are composed by joint steps: a lexeme action     *)
(* that has a token calls the parser, and the parser's return is the       *)
(* scanner's status.  What becomes of the program behind the parser is     *)
(* left open here (SemanticAnalyzer, Generator and Backend model it): the  *)
(* verdict of the analysis, whether a search of analysis or generator ends *)
(* the process, and whether the generator ever returns.                    *)
(***************************************************************************)
EXTENDS ParserHeap

CONSTANT Inputs

VARIABLES
  rest, sc, scStack, token, sent, status,     \* the scanner's
  phase,        \* where main stands
  exitStatus,   \* compilationStatus, as main will return it
  output        \* whether executeGenerator has run

S == INSTANCE Scanner

ASSUME InputsAssumption == Inputs \subseteq Seq(S!Fragments)

\* Every label a lexeme action pushes is a token the parser takes.
ASSUME PushedAssumption == S!Pushed \subseteq Offered

scanVars == <<rest, sc, scStack, token, sent, status>>
mainVars == <<phase, exitStatus, output>>
allVars == <<vars, scanVars, mainVars>>

CompilerInit ==
  /\ HeapInit
  /\ S!ScanInit
  /\ phase = "syntax"
  /\ exitStatus = "IN_PROGRESS"
  /\ output = FALSE

\* One rule of the scanner; if its action has a token, pushToken begins.
Lex ==
  /\ phase = "syntax"
  /\ S!Scan
  /\ IF token' = "none" THEN UNCHANGED vars ELSE HeapPush(token')
  /\ UNCHANGED mainVars

Parse ==
  /\ phase = "syntax"
  /\ HeapStep
  /\ UNCHANGED <<scanVars, mainVars>>

\* (Deviation: an aborted parse goes on.)
AbortGoesOn(r) == IF r = "accepted" THEN "SUCCEEDED" ELSE "IN_PROGRESS"
StatusOf(r) == CASE r = "more"     -> "IN_PROGRESS"
                 [] r = "accepted" -> "SUCCEEDED"
                 [] r = "aborted"  -> "FAILED"

\* yypush_parse returns to the lexeme action, and that to the loop.
Return ==
  /\ phase = "syntax"
  /\ run # "busy"
  /\ S!Answer(StatusOf(run))
  /\ UNCHANGED <<vars, mainVars>>

EndSyntax ==
  /\ phase = "syntax" /\ token = "none" /\ status # "IN_PROGRESS"
  /\ exitStatus' = status
  /\ phase' = IF status = "SUCCEEDED" THEN "semantics" ELSE "destroy"
  /\ UNCHANGED <<vars, scanVars, output>>

\* Deviation: the rejection of the semantic analysis is only logged.
RejectSilently ==
  /\ phase = "semantics"
  /\ phase' \in {"generate", "destroy"}
  /\ UNCHANGED <<vars, scanVars, exitStatus, output>>

Analyze ==
  /\ phase = "semantics"
  /\ \/ ast # <<>> /\ phase' = "generate" /\ UNCHANGED exitStatus
     \/ phase' = "destroy" /\ exitStatus' = "FAILED"
  /\ UNCHANGED <<vars, scanVars, output>>

Generate ==
  /\ phase = "generate"
  /\ output' = TRUE
  /\ phase' = "destroy"
  /\ UNCHANGED <<vars, scanVars, exitStatus>>

\* _findId or _findLabel gives strcmp a NULL: the process ends there and then.
Crash ==
  /\ phase \in {"semantics", "generate"}
  /\ phase' = "crashed"
  /\ UNCHANGED <<vars, scanVars, exitStatus, output>>

Destroy(condition) ==
  /\ phase = "destroy"
  /\ IF condition THEN freed' = freed \cup astCells /\ astCells' = {}
     ELSE UNCHANGED <<freed, astCells>>
  /\ phase' = "shutdown"
  /\ UNCHANGED <<parserVars, cells, vals, lookCells, brk, ast, read, scanVars,
                 exitStatus, output>>

\* Deviation: only an accepted program is destroyed.
DestroyIfAccepted == Destroy(exitStatus = "SUCCEEDED")

\* destroyProgram(program), on every path, and NULL when no program was reduced.
DestroyProgram == Destroy(TRUE)

\* destroyLexicalAnalyzer: yypstate_delete drops the stack and runs no destructor.
Shutdown ==
  /\ phase = "shutdown"
  /\ stack' = <<Start>> /\ cells' = <<{}>> /\ vals' = <<0>>
  /\ phase' = "exit"
  /\ UNCHANGED <<look, run, lookCells, brk, freed, ast, astCells, read, scanVars,
                 exitStatus, output>>

CompilerNext ==
  \/ Lex \/ Parse \/ Return \/ EndSyntax
  \/ Analyze \/ Generate \/ Crash \/ DestroyProgram \/ Shutdown

\* One process that only computes: it takes its next step.  The generator alone may
\* go on for ever: its suffix loop does when all the labels it can print are taken.
CompilerSpec ==
  CompilerInit /\ [][CompilerNext]_allVars /\ WF_allVars(phase # "generate" /\ CompilerNext)

-----------------------------------------------------------------------------

\* The parser waits for a token and the scanner is about to read one.
Between == phase = "syntax" /\ run = "more" /\ token = "none" /\ status = "IN_PROGRESS"

\* The parser stands inside a code block: after @code, before @end.
ReadingCode == \E item \in Top : Rules[item[1]].lhs = "codeBlock" /\ item[2] \in {1, 2}

(***************************************************************************)
(* The start condition and the parser's stack are two memories of where    *)
(* the input stands, kept by different code, and they agree between any    *)
(* two tokens: the scanner is in code exactly when the parser is in a code *)
(* block, and reads a text line only when a text is due.                   *)
(***************************************************************************)
InStep ==
  Between =>
    /\ sc = "CODE_BLOCK" <=> ReadingCode
    /\ sc = "TEXT_LINE" => "TEXT_CONTENT" \in Reads[Top]

(***************************************************************************)
(* The parser and the status of the syntactic phase disagree in one case   *)
(* only: a complete presentation followed by a comment that is never       *)
(* closed, which EOFLexemeAction (FlexActions.c:210-214) fails after the   *)
(* parser has accepted.                                                    *)
(***************************************************************************)
OverruledOnlyByComment ==
  status = "FAILED" /\ run = "accepted" => sc = "MULTILINE_COMMENT" /\ ast # <<>>

(***************************************************************************)
(* Memory is lost only when a lexical error stops the scanner while the    *)
(* parser waits with values on its stack (UnknownLexemeAction pushes       *)
(* nothing, destroyLexicalAnalyzer runs no destructor).  On every other    *)
(* path, rejected ones included, each block has been freed at exit.        *)
(***************************************************************************)
LeakOnlyAfterLexicalError ==
  phase = "exit" /\ freed # 1..brk => run = "more"

(***************************************************************************)
(* What main gives the generator is the whole input, read to its end, and  *)
(* nothing of it has been freed.                                           *)
(***************************************************************************)
GeneratesDocument ==
  phase \in {"semantics", "generate"} =>
    /\ ast = <<Document(read)>> /\ read \o <<EOF>> = sent
    /\ astCells \cap freed = {}

(***************************************************************************)
(* The shell sees success exactly when the presentation was written.       *)
(***************************************************************************)
ExitTellsTheTruth == phase = "exit" => (exitStatus = "SUCCEEDED" <=> output)

(***************************************************************************)
(* Whatever the input, main returns or the process ends in strcmp, unless  *)
(* executeGenerator is called and never returns: scanner, parser and main  *)
(* hold nothing up (Frontend.c:149-155, EntryPoint.c:29-51).  When the     *)
(* generator returns is the subject of Backend.RejectedOrWritten.          *)
(***************************************************************************)
Exits == []<>(phase # "generate") => <>(phase \in {"exit", "crashed"})

(***************************************************************************)
(* What the comment in the grammar says of the destructors: they run when  *)
(* the parsing ends (BisonGrammar.y:47-51).  Then no value the parser held *)
(* could outlive it.                                                       *)
(***************************************************************************)
DestructorsRunAtTheEnd == phase = "exit" => freed = 1..brk

=============================================================================
