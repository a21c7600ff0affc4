# SlideLang: a verification project

SlideLang is a compiler, written in C with Flex and Bison, that reads a plain-text
presentation from standard input and writes LaTeX Beamer. This directory holds TLA+
models of the program under `src/`, the TLC configurations that check them and the
proofs TLAPS checks.

## 1. The system

| Component | Source (`src/src/main/c/`) | State | Operations |
| --- | --- | --- | --- |
| Lexical analyzer | `frontend/lexical-analysis/FlexPatterns.l`, `FlexActions.c`, `FlexExport.h` | start condition, stack of start conditions, input left | one rule per call of `yylex`; a lexeme action may push a token |
| Push parser | `frontend/syntactic-analysis/BisonGrammar.y`, `frontend/Frontend.c` | stack of states and values | `pushToken` |
| Semantic actions, destructors | `BisonActions.c`, `AbstractSyntaxTree.c` | the tree under construction, `CompilerState.abstractSyntaxtTree` | one action per production, one `destroy…` per node |
| Semantic analyzer | `backend/domain-specific/SemanticAnalyzer.c` | tables of ids, titles, link targets; `semanticErrors` | `executeSemanticAnalysis` |
| Generator | `backend/code-generation/Generator.c` | labels and the map from names to labels, list counter, text buffers | `executeGenerator`: `_buildLabelMap`, `_genLatexSlide`, `_formatCode`, `_escapeLatex` |
| Driver | `EntryPoint.c` | the phase, the exit status | `main` |
| Support | `support/` | none that others depend on | logging, concatenation, reads of the environment |

**How they interact.** `main` calls `executeSyntacticAnalysis`, which calls `yylex` while
the status is `IN_PROGRESS`. Each rule of the scanner runs a lexeme action; most create a
token and call `pushToken`, that is `yypush_parse`, *inside* the action, and the parser's
return value becomes the status of the loop. The productions build the tree on the
parser's value stack and the last one stores it in the compiler state. An accepted program
goes to the semantic analyzer and then to the generator; then `main` destroys the program,
the modules and the lexical analyzer, on every path.

**What is hard here.** There is one thread, but two machines, scanner and parser, that run
interleaved by calls and keep separate memories of where the input stands. The parser
reduces by default, before it looks whether the next token is legal. A syntax error can
come at any depth, and from then on the right destructors must run; a lexical error is
never told to the parser. One action frees its argument. The grammar has conflicts. The
semantic analyzer goes on after a failed `realloc`, and after a failed `strdup` with a table
that holds NULL. The analyzer and the generator walk the same slides with tables of their
own and must agree on what a link leads to. The generator leaves NULL among the labels and
then searches them with `strcmp`; it tells labels apart by numbers in a buffer that cuts;
it sizes the buffer for code line by line; the number of a list item depends on every item
before. Every loop has to end. `PROJECT.json` lists these as hazards, each at its line and
with the properties that guard it, or a note that says why none does.

| Component | What makes it correct |
| --- | --- |
| Lexical analyzer | conditions and stack agree; code is bracketed; every input is consumed |
| Push parser | accepts exactly the presentations; bounded stack; every push returns |
| Semantic actions | each block has one owner, none is lost, freed twice or used after; the tree is what the tokens denote |
| Driver | exit status and output agree; everything is freed |
| Semantic analyzer | accepts exactly the programs whose links resolve and whose ids are unique |
| Generator | labels are unique, links lead to the slide the analysis found, frames show the slides, lists nest, nothing of the code is lost, buffers hold |
| Analyzer and generator | what the first accepts the second can write |

## 2. The modules

```
SlideGrammar ── PushParser ── ParserRefinement ··(implements)·· SlideLanguage
      │             │
SlideDocument ── ParserHeap ── Compiler ──(INSTANCE)── Scanner
                    │              │                      │
              ParserTables         │                      │
                    │              │                      │
            ParserHeap_proofs ─ Compiler_proofs ─ Scanner_proofs

LabelText ── LabelMap ── Generator ── Backend ──(INSTANCE)── SemanticAnalyzer
                 │           :           │                          │
                 │         Deck          │                          │
                 │                       │                          │
          LabelMap_proofs ──────── Backend_proofs ── SemanticAnalyzer_proofs

CodeListing ── CodeListing_proofs        EscapeLatex ── EscapeLatex_proofs
```

| Module | Models |
| --- | --- |
| `SlideGrammar` | The productions, each with what its action stores, takes over and allocates; the `%destructor` set; the LR(0) automaton Bison derives, computed once by TLC. No state completes two rules, so Bison's default reductions need no lookahead sets (`Deterministic`, assumed and evaluated on each run of the parser). |
| `PushParser` | `yypush_parse` as control: `Push` is the call, `Shift`, `Reduce`, `Pause` (YYPUSH_MORE), `SyntaxError` (no `error` production: the stack is emptied, YYABORT) and `Accept` its steps. |
| `SlideLanguage` | The abstract specification: which tokens may come next, phrase by phrase, without productions. |
| `ParserRefinement` | `PushParser` with the phrase as a history variable and the statement that it implements `SlideLanguage`. |
| `SlideDocument` | The tree a token sequence denotes, read off the positions of its tokens: the reference for the semantic actions. |
| `ParserHeap` | `PushParser` with values: the memory each stack entry owns and the tree it stands for; what the semantic actions, the destructors and the copying lexeme actions do to both. |
| `ParserTables` | What the proofs need to know of the grammar and of the automaton computed from it, as assumptions TLC evaluates. |
| `Scanner` | Rules and start conditions over an input of fragments, the lexeme actions, `yy_push_state`/`yy_pop_state`. The parser's answer is a free choice among the statuses it can return. |
| `Compiler` | `main`: the scanner and the parser by joint steps (a lexeme action calls the parser, the parser's return is the scanner's status), then semantic verdict, generation, destruction, exit. Whether analysis or generator ends the process in `strcmp` (`Crash`), and whether the generator returns, is a free choice here. |
| `SemanticAnalyzer` | Both passes, one step per slide, item and target. Adding a string to a table may come to three things (`Outcomes`): it is stored, the `realloc` is denied, or the `strdup` is and the entry is NULL. A search that comes to a NULL ends the process (`CompareNull`). |
| `LabelText` | `_sanitizeLabel` and the numbered variants `snprintf` cuts to the buffer, on sequences of characters. |
| `LabelMap` | `_collectLinkTargets` (item by item), `_buildLabelMap` (one step per slide, one per number tried), `_findLabel` with the NULLs it may meet, `_resolveLabel`. |
| `Generator` | `executeGenerator`: the label map, then `_genLatexSlide` with its inner loop for lists, the numbers that go on from one list to the next, links and frames. |
| `Deck` | The abstract specification of the generator: one page per slide with its items in order, their numbers, and the slide each link leads to. Labels, lists and maps do not occur in it. |
| `Backend` | `main` between the parser and the exit: the analysis judges, and what it accepts is generated; both work on the same program with tables of their own. |
| `CodeListing` | `_formatCode` in its three ways (mode "original", "auto", any other), with the settings it reads from the environment and the size of its buffer, then the loop that prints the result in a `verbatim`. |
| `EscapeLatex` | `_escapeLatex`, character by character into a buffer of fixed size. |
| `*_proofs` | Theorems, see section 5. |
| `MC_*` | The instances TLC checks. |

`PROJECT.json` maps every definition to the lines it models. Definitions introduced by a
comment "Deviation" are not part of the model: each is a plausible bug, used to confirm
that a property notices it.

What an abstraction stands for:

* *Memory.* In the parser a value is the set of blocks reachable from it. Outside the
  analyzer `calloc`, `malloc`, `realloc` and `strdup` succeed (hardly any is checked). In
  the run `backend` the analyzer's reallocs may fail and its strdups do not. A `Token` and its lexeme are created and
  destroyed in one lexeme action and are left out; the string it hands over is not.
* *Strings.* In the parser a string is the position of its token, and 0 is NULL; in the
  analyzer it is one of a set of names. In the generator, where labels are made out of
  titles, it is a sequence of characters, `"slide"` counting as one.
* *LaTeX.* What the slide writer prints is a list of events per frame (a label, a list
  opened or closed, a counter set, an item named by its place, a link); `ReadFrame` reads
  them the way LaTeX does. The preamble and the text of items are left out.
* *Suffixes.* `MaxSuffix` stops the counter of the suffix loop. Where the buffer can hold the
  numbers the instances need, the loop ends before; where it cuts them off, all numbers print
  alike, and to stay at `MaxSuffix` is to go on for ever, as the code does.
* *Input.* A fragment is the text of one token, or a line break, a comment mark, an `@` or
  another character. Flex's longest match is modelled where start conditions make it cut a
  fragment in two (`Bitten`, `ClosesComment`); `@e` and `@en` are a kind of fragment of their own (`AT_E`), since in
  code their rules take one character more. Words and strings hold no line break,
  quote, mark or `@` themselves; keywords inside a capitalised line or a text line are
  swallowed by it, as in the code.
* *Generated code.* The skeletons of Flex and Bison are not in the repository: what the
  model says of them follows from the grammar, the `%define`s and the calls in `Frontend.c`,
  and is marked external in `PROJECT.json`.

## 3. The runs

| Run | Question | Instance and why it is enough |
| --- | --- | --- |
| `parser` | Is the language right, does the parser answer, how deep is its stack? | All 20 tokens, input of any length. The stack is bounded (13, which `StackBounded` checks), so the state space is finite and needs no bound. |
| `heap` | Is memory and tree right on every token sequence, legal or not? | Up to 9 tokens: the longest phrase (a block with a title, 6 tokens) after and before others, a header with all extras and two items, three slides, errors at each point. |
| `scanner` | Do condition and stack agree, is all input consumed, whatever the parser answers? | Every sequence of up to 5 of the 12 kinds of fragments the conditions tell apart: code opened, interrupted and closed; comments opened in every place; the input ended in every condition. |
| `compiler` | Do the two memories agree, does main tell the truth, what is freed? | Six beginnings (nothing, a title, open code, code with content, a link, a list) followed by any three of 14 kinds. |
| `semantics` | Is the verdict the program's due, with and without memory, and does the analysis end? | One slide with two items of any kind, two slides with a link each, three of which the last has one; two names; each `realloc` and each `strdup` free to fail. Duplicates, forward, backward and dangling links all occur, and a NULL in each table. |
| `labels` | Are labels unique, are links resolved, when does the search meet a NULL? | Two or three slides, linked or not in every way, with names that become alike when sanitized, lower-cased or cut to the buffer of four, with one that looks like a numbered variant, and with marks only. Numbers up to 3 are needed, `MaxSuffix` is 4. |
| `backend` | Does the generator show what the presentation says, and does it write all the analysis accepts? | One slide of up to four items of every kind and two of up to two (all ways to open, close and interrupt a list); one and two slides with links, broken ones included, and names that sanitizing makes alike; reallocs of the analysis failing or not. |
| `listing` | Does the code get through the formatter and the printer, within its buffer? | Every code of up to three of seven characters and 343 of three lines that open and close braces, under five settings: none set, default size, an indentation of 300 that outgrows the 256 spare bytes, tabs, and a mode that is neither of the two. |
| `escape` | Does escaping stay in its buffer, and which special characters reach LaTeX bare? | Every title of up to five of five characters and a buffer of seven, so that titles fit, just fit and are cut. |
| `code_literal` | Does a code block take anything literally? | *Violated*: see findings. |
| `destructors` | Do the destructors always run? | *Violated*: see findings. |
| `crash` | Is the document always closed once the analysis has accepted? | *Violated*: see findings. |

`CHECK_DEADLOCK FALSE` appears where the program ends: the parser after its verdict, the
analysis and the generator's loops after their return, `main` after exit.

What the properties say, beyond types:

* `ImplementsLanguage`: the automaton with its default reductions and the conflicts settled
  by shifting implements `SlideLanguage` step by step, liveness included.
* `SoleOwner`, `NoDangling`, `NoLeak`: the ownership discipline of actions and destructors.
  `AstIsDocument`: the tree in the compiler state is `Document(tokens read)`
  from the moment it is set, a rejected input included.
* `ContextDiscipline`, `CodeIsBracketed`, `AcceptedIsComplete`: the scanner alone.
* `InStep`: the start condition is CODE_BLOCK exactly when the parser stands in a code block,
  between any two tokens. `OverruledOnlyByComment`: the one case where the parser accepts and
  the syntactic phase fails. `LeakOnlyAfterLexicalError`: the one path on which memory is lost.
  `GeneratesDocument`, `ExitTellsTheTruth`: what reaches the generator and the shell.
* `AcceptedLinksResolve`, `VerdictIsExact`: the semantic analysis against a reading of the
  program as a whole. Lost entries make it stricter about links, never laxer (a lost id may
  let a repeated one pass). `AnalysisEnds`: with a
  verdict, or in `strcmp` once a `strdup` has failed.
* `LabelsUnique`, `LinksLeadToFirst`: no two frames share a label, and a link leads to the
  first slide that bears its target, as id or as title. `CrashesUnlessTargetsFirst`: exactly
  which presentations make the search meet a NULL.
* `ImplementsDeck`: what LaTeX reads in the frames is what the presentation says, however
  labels and lists are managed. `AcceptedLinksHaveLabels`, `RejectedOrWritten`: analyzer and
  generator agree, and every program comes to one of two ends, where targets come first and
  names are short enough.
* `OutFits`, `NothingLost`, `ListingReadsBack`, `LoopsAdvance`: the code block from the tree to
  the page. `IndentFollowsBraces`: what the indentation is, and from where on it is less than
  the braces ask for.
* `Exits`: the composed loop ends, unless the generator is called and does not return; when it
  does is the subject of `RejectedOrWritten`.
* `InBounds`: the title buffer. `OnlyDollarsBare`: measured by the characters the report lists,
  `_`, `%` and `$`, exactly the dollar signs of a title reach LaTeX bare, and what is written is
  the beginning of the title. It speaks of titles without backslashes of their own: the code
  copies a backslash as it is, so `\_` in a title becomes `\\_`, a line break and a bare
  underscore.

**Findings.** (1) The report promises that a code block is taken literally; each `@` in it
ends a lexeme, the parser takes one `CODE_CONTENT` only, and the program is rejected.
(2) The grammar's comment says the destructors run when parsing ends; after a lexical error
they do not, and what is on the stack leaks until the process exits.
(3) The report says the generator processes each slide and closes the document; when a
slide that a link leads to stands behind one that no link leads to, `_findLabel` passes a
NULL to `strcmp` (`Generator.c:75`) and the process ends without a document.
(4) The report says that `_escapeLatex` escapes `_`, `%` and `$`; the code leaves `$` alone
(`Generator.c:40`). The run `escape` passes: its property `OnlyDollarsBare` says exactly this.

Met while modelling, with no run of their own:

* `Generator.c:70`: a title of marks only, `"?"`, has the empty string for its label, because
  the fallback is decided before the dash at the end is taken off.
* `Generator.c:129`: when linked slides share a label of 254 characters or more, the suffix loop
  tries one and the same text for ever, for the third of them, or for the second when the
  label has exactly 255 (`ShortNames` excludes this from `RejectedOrWritten`, and `Exits`
  supposes that the generator returns).
* `Generator.c:300`: the pieces written for braces, tabs and line ends in a code block
  (`\{`, `\qquad`, `\\`) stand inside a `verbatim`, where LaTeX shows them letter by letter.
* `Generator.c:200` and `218`: a line that begins with a closing brace lowers the level twice.
* `Generator.c:218`: a `CODE_INDENT_MODE` other than "original" and "auto" removes all
  indentation.

## 4. Fairness

The compiler is one sequential process. Weak fairness of the whole next-state relation (of
`Step` in the parser, which runs to its return but cannot make a token arrive) says only
that it keeps computing. Standard input is a finite file: `rest` is a finite sequence.
`Compiler` makes one exception: it assumes no fairness of `Generate`, since the generator may go
on for ever (the suffix loop at `Generator.c:129`), and `Exits` says what follows if it does not.
`SemanticAnalyzer`, `LabelMap`, `Generator` and `Backend` take weak fairness of their whole
next-state relation for the same reason; `CodeListing` and `EscapeLatex` need none, since
`LoopsAdvance` is a property of steps. `Deck` has none: which presentations are written to
their end is the question of `RejectedOrWritten`, under fairness of `Backend`.

## 5. The proofs

`SemanticAnalyzer_proofs` holds, for every set of names, every set of programs and every
pattern of failing reallocs and strdups:

* `TypeCorrect`: `Spec => []TypeOK`;
* `LinksResolve`: `Spec => []AcceptedLinksResolve`;
* `Exactness`: `Spec => []VerdictIsExact`;
* `CrashOnlyWithoutMemory`: `Spec => []CrashesOnlyBlank`, strcmp meets a NULL only after a
  strdup has failed.

`VerdictIsExact` speaks of the end of the analysis, so by itself no step preserves it. The
inductive invariant `IInv` adds what the loops have established so far: every entry of a
table comes from a slide already visited; while no realloc has failed, every title, id and
target visited is in its table, by name or behind a NULL (`Kept`); no error has been counted
only if all that was visited is sound, and one only if something is not; targets before
`target` have been looked up. That a NULL cannot change a verdict comes from `Search`: a
search that ends, ends before it. `Invariance` proves `IInv` by one lemma per action, and the
theorems follow from it at the end. Assumptions: `NullAssumption`, `ProgramsAssumption`,
`OutcomesAssumption` of the module, which TLC evaluates on the run.

`Scanner_proofs` holds, for every set of inputs, of any length, and every answer the parser
may give to every token:

* `TypeCorrect`: `ScanSpec => []ScanTypeOK`;
* `ContextsAgree`: `ScanSpec => []ContextDiscipline`;
* `CodeBracketed`: `ScanSpec => []CodeIsBracketed`;
* `AcceptanceComplete`: `ScanSpec => []AcceptedIsComplete`.

`CodeIsBracketed` speaks of neighbouring tokens and the scanner remembers none of them; all
it has is its start condition. So `IInv` adds `CodeInStep` (the condition is CODE_BLOCK
exactly when the last label sent before the end is `@code` or a piece of code),
`TokenInHand`, `EndIsLast` and `SuccessAtTheEnd`. Two lemmas carry the induction: `EmitInv`,
what a rule that sends a label must respect, and `SilentInv`, the same for a rule that sends
none; each rule of the scanner is then one application of one of them. The assumption is
`InputsAssumption`.

`LabelMap_proofs` holds, for every presentation, every alphabet, every `Room` and every
`MaxSuffix` above 2:

* `TypeCorrect`: `LabelSpec => []LabelTypeOK`;
* `UniqueLabels`: `LabelSpec => []LabelsUnique`;
* `LabelsWhereNeeded`: `LabelSpec => []LabelledWhenNeeded`, exactly the slides some link leads
  to have a label;
* `CrashExactly`: `LabelSpec => []CrashesUnlessTargetsFirst`;
* `FirstBearer`: `LabelSpec => []LinksLeadToFirst`.

`IInv` adds to types and uniqueness: `TargetsRight` (the targets are those of the items
visited), `Filled` (each slide before `slide` has its place, a label or NULL), `LabelledSo`
(NULL exactly where no link leads) and `MapRight` (for each target, the first hit in the map
has the label of the first slide behind it that bears the name). A label is stored only
after a search that found it absent, and such a search has met no NULL: uniqueness and
`CrashExactly` come from the same two facts. How labels are made does not matter to the
proofs beyond `LabelsAssumption`: that none is the null pointer.

`CodeListing_proofs` holds, for every code and every setting:

* `TypeCorrect`: `Spec => []TypeOK`, the level never below zero included;
* `BufferHolds`: `Spec => []OutFits`;
* `Advance`: `Spec => LoopsAdvance`;
* `TextIsKept`, `LevelFollows`, `ReadsBack`: `Spec` keeps `NothingLost`, `IndentFollowsBraces` and
  `ListingReadsBack`.

For mode "original", whose buffer is sized once, `TwiceIsEnough` relates what is written to
what is left to read; otherwise each line is fitted by what `Need` asks for. `Span`, a
cardinality, is bounded and located by `SpanStops` and the lemmas around it.

What becomes of the text is stated by comparing two texts position by position, so that no
recursive reading of them is needed, and a loop only has to add its line to both. `FormatInv`
says so for the loops that format: the code is what has been read followed by what is left
(`ReadSoFar`), a turn begins where a line does (`AtLineStart`), in mode "original" the lines
read are the lines written and no "\r\n" has been cut in two (`LinesSoFar`); with these,
`NothingLost` and `IndentFollowsBraces` are inductive. A turn of either loop is described once,
as the parts it reads and the parts it writes (`Turn`, `RawTurn`); what can be seen, the braces
and the lines of a text put together of such parts follow from the lemmas on concatenation
(`VisibleConcat`, `CountConcat`, `KeptConcat`), all of which rest on `ConcatCount`, how many
positions of a kind a concatenation has. That the level follows the braces needs one fact more:
the first brace of a line closes exactly when the line leads with it (`ContentStands`).
`WrittenSoFar` says of the loop that prints that the pieces printed read as the part of the
formatted code that is not left. Assumptions: those on characters, codes and settings, and
`PiecesAssumption`, that what is printed for a brace, a tab or the end of a line is no single
character.

`ParserHeap_proofs` holds, for every set of tokens and input of every length:

* `TypeCorrect`: `Spec => []TypeOK`, so a reduction never pops more than the stack holds and
  the state below always has a way on; `BoundedStack`: `Spec => []StackBounded`, so the
  parser never answers OUT_OF_MEMORY;
* `HeapTypeCorrect`, `OneOwner`, `NothingDangles`, `NothingLeaks`: `HeapSpec` keeps
  `HeapTypeOK`, `SoleOwner`, `NoDangling` and `NoLeak`;
* `TreeIsDocument`: `HeapSpec => []AstIsDocument`, the tree the semantic actions build is what
  `SlideDocument` reads off the positions of the tokens, for token sequences of any length.

The stack as such says little; `ParserInv` adds that it is a path through the automaton
(`Path`), that a state stands at a depth it can be reached in (`Shallow`), and that no token is
in hand between two pushes. From `Path` follows `Handle`: the entries a completed production is
about to pop carry the symbols of its right-hand side, by at most six steps backwards.
`HeapInv` describes the memory entry by entry: what each owns is apart from what the others
own, and what is given out is freed or owned. Each semantic action then moves blocks from one
owner to another. The grammar is one constant, so what the proofs use of it (the automaton is
closed under its moves, no path is longer than the stack may be, every action keeps the
destructible values of its right-hand side, the states inside a code block) are finite facts
about closed terms: `AutomatonAssumption`, `DepthAssumption`, `ActionsAssumption`,
`ContextAssumption` and `PlacesAssumption` of `ParserTables`, which TLC evaluates on the run
`compiler`. Besides, `OfferedAssumption` of `PushParser`.

`TreeIsDocument` compares the tree with a reading of the whole token sequence, and the induction
over its length is in the steps of the parser. `DocumentInv` says

* `Meaning`: there are marks in the tokens, one per entry of the stack, such that entry `i` holds
  what its symbol makes of the tokens between mark `i - 1` and mark `i`. What that is, `Denotes`
  says for each symbol: an item, items in order, the extras of a header, a slide, slides. It is
  asked for every sequence that begins with the tokens shifted so far, since `SlideDocument` looks
  at the token after a phrase to see where the phrase ends;
* `ItemsInPlace` and `SlideOver`: no item follows the slides directly, and a slide is reduced only
  when the token in hand begins no item. Without them a slide could end too early and its last
  items become a slide of their own, for the grammar is ambiguous there and the parser settles
  it by shifting. That it does is read off the automaton (`PlacesAssumption`);
* `Built`: a program, once stored, is the document of the tokens, and no token is shifted after.

`HandleMeans` is `Meaning` for the entries a production pops; `StructureMeans` and
`ItemRulesMean` show for each production that its left-hand side then holds what it has to
(`ResultMeans`), from a lemma per kind of phrase (`TextMeans`, ..., `BlockMeans`, `TitledMeans`,
`MoreItems`, `MoreSlides`). `DocumentIs` says that slides that reach from the first token to the
last are the document: each slide and each item ends where the next begins. `Ordered` and
`EndOf` of `SlideDocument` choose; `OrderedIs` and `EndOfIs` say what they choose.

`Compiler_proofs` holds, for every set of inputs, of any length:

* `ScannerInStep`, `OnlyACommentOverrules`, `LeaksOnlyAfterLexicalError`, `ExitIsTruthful`: the
  properties of the run, as theorems of `CompilerSpec`;
* `GeneratesWholeInput`: `CompilerSpec => []GeneratesDocument`, what `main` analyzes and generates
  is the document of all the tokens the scanner sent, and none of it has been freed;
* `ParserAnswersAsAssumed`: the steps of the composition are steps of the scanner alone, which is
  modelled with an arbitrary answer of the parser.

`CompilerInv` is the scanner's invariant, the parser's and the heap's while `main` still
works with them (each joint step is a step or a stutter of each), and `Glue`: whose turn it is
(`Coupled`), that start condition and stack, or the token in hand, stand for the same place
(`InContext`), that the parser has read what the scanner has sent (`NothingSkipped`), and where
`main` stands. `InContext` is what makes `InStep` inductive: between the push and the pause the
parser has reduced, and only the token in hand still tells where the scanner is. Assumptions:
`InputsAssumption` and `PushedAssumption` (the tokens the scanner sends are among those the
parser is offered), besides those of the parts.

`Backend_proofs` holds, for every presentation, every outcome of the analyzer's allocations
(failed strdups included, which the run leaves out), every alphabet and `Room`:

* `GeneratorTypeCorrect`: `BackendSpec => []TypeOK`;
* `LinksHaveLabels`: `BackendSpec => []AcceptedLinksHaveLabels`;
* `FramesAreTheDeck`: `BackendSpec => ImplementsDeck`, the refinement of `Deck`.

The analysis keeps the invariant of `SemanticAnalyzer_proofs` and the label map that of
`LabelMap_proofs`; both modules are used as they stand. When the map is complete, what it has
established is kept as `Resolved`, which no longer speaks of the loops that built it; joined
with an accepted verdict it gives `LinksHaveLabels`. For the refinement the invariant says of
the frame being written which list is open and that its end is not printed yet (`Shape`), that
its first `item - 1` entries, read by LaTeX, are those `Deck` has in their places (`Body`), and
that `numbered` is the number LaTeX will have given the last item of an open numbered list
(`Framed`); and that the frames before it are read as `Deck`'s pages (`Paged`). Every step of
the writer appends one event or two, and the events before are read as before: the lemmas
`LatestEnd`, `WithinEnd`, `NestedAppend`, `EntriesAppend`, `ShownItem`, `SeenKept` and `BodyMore`
say so for any sequence of events. Initial states map to `DeckInit`; `EndFrame` maps to
`WritePage`, all other steps to stutters (`DeckStep`).

`EscapeLatex_proofs` holds `TypeCorrect`, `BufferHolds` (`Spec => []InBounds`) and
`DollarsAloneAreBare` (`Spec => []OnlyDollarsBare`) for every title and every `Size` above 2. For
the last, the invariant pairs the backslashes written with the characters they protect
(`Paired`): a backslash before each underscore and percent sign, and before nothing else.

Every invariant and every property of steps that a passing run checks is thereby a theorem.
Model-checked only: liveness (`EveryPushReturns`, `ScanningEnds`, `Exits`, `AnalysisEnds`,
`RejectedOrWritten`), which the prover does not reach, and `ImplementsLanguage`, which states
liveness too. The run `parser` is exhaustive for the latter: it offers all tokens, and stack and
phrase are bounded, so TLC visits all they can be on inputs of any length.

## 6. Not modelled

* Input buffers other than standard input: no code creates one.
* Loggers and string helpers: they format what is printed and keep no state.
* In the generator, the text of items, the preamble and the freeing of the map; failures of
  its allocations.
* The text of lexemes; keywords of the language inside a text.
* The width of `int` in indentation and loop counters: see the hazard at `Generator.c:208`.
* Build files and scripts.

## 7. The plan

Done: grammar and parser, memory, scanner, their composition; the semantic analyzer, the
generator with its labels, slides and code, and their composition; proofs about each of
these, the refinement of `Deck` among them.

1. The safety part of `ImplementsLanguage` as a theorem, from `Path` and a finite set of facts
   about the automaton: which phrases a state may follow, and which tokens a state will shift
   once its default reductions are made.
