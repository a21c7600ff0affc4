-------------------------- MODULE SemanticAnalyzer --------------------------
(***************************************************************************)
(* The semantic analysis (SemanticAnalyzer.c): one pass over the slides    *)
(* collects titles, identifiers and link targets, a second pass over the   *)
(* targets looks each one up.  The three tables grow by a realloc and a    *)
(* strdup per entry.  When the realloc fails the analysis goes on without  *)
(* the entry; when the strdup fails it goes on with an entry that is NULL, *)
(* and strcmp does not accept a NULL: in the build of the repository, with *)
(* AddressSanitizer, the process ends there ("crashed").                   *)
(*                                                                         *)
(* A program is the list of slides the parser leaves: a slide without a    *)
(* title has no id either.  Of an item only its type and the string the    *)
(* analysis looks at are kept: the caption of an image, the target of a    *)
(* link.                                                                   *)
(***************************************************************************)
EXTENDS Naturals, Sequences, FiniteSets

CONSTANTS
  Names,        \* the strings titles, ids and targets are taken from
  NULL,         \* the null pointer
  Programs,     \* the programs to analyze
  Outcomes      \* what adding a string may come to: it is "stored", realloc is
                \* "denied", or strdup is, and the entry is "blank"

Item == [type : {"link", "image", "other"}, text : Names \cup {NULL}]
Slide == [title : Names \cup {NULL}, id : Names \cup {NULL}, items : Seq(Item)]

ASSUME NullAssumption == NULL \notin Names
ASSUME ProgramsAssumption == Programs \subseteq Seq(Slide)
ASSUME OutcomesAssumption == Outcomes \subseteq {"stored", "denied", "blank"}

VARIABLES
  program,                  \* the slides
  pc,                       \* "slides", "items", "targets", "done" or "crashed"
  slide, item, target,      \* where the three loops stand
  ids, titles, targets,     \* slideIds, slideTitles, pendingLinkTargets
  errors,                   \* compilerState->semanticErrors
  denied, blank,            \* whether some realloc, some strdup has failed (history)
  verdict                   \* the CompilationStatus returned

vars == <<program, pc, slide, item, target, ids, titles, targets, errors, denied, blank,
          verdict>>

Init ==
  /\ program \in Programs
  /\ pc = "slides"
  /\ slide = 1 /\ item = 1 /\ target = 1
  /\ ids = <<>> /\ titles = <<>> /\ targets = <<>>
  /\ errors = 0
  /\ denied = FALSE /\ blank = FALSE
  /\ verdict = "IN_PROGRESS"

(***************************************************************************)
(* _findId: strcmp with each entry until one is equal.  Neither Found nor  *)
(* Absent: it was given a NULL.                                            *)
(***************************************************************************)
Found(table, name) ==
  \E k \in DOMAIN table :
    table[k] = name /\ name # NULL /\ \A j \in 1..(k - 1) : table[j] # NULL
Absent(table, name) == \A k \in DOMAIN table : name # NULL /\ table[k] \notin {NULL, name}

\* An entry more, when there is something to add and the memory for it.
\* (Deviation: NULL is added like any string.)
GrownByNull(table, name, outcome) ==
  IF outcome = "denied" THEN table
  ELSE Append(table, IF outcome = "blank" THEN NULL ELSE name)
Grown(table, name, outcome) ==
  IF name = NULL \/ outcome = "denied" THEN table
  ELSE Append(table, IF outcome = "blank" THEN NULL ELSE name)

\* The title, then _checkAndAddId: a duplicate is an error and is not added again.
VisitSlide ==
  /\ pc = "slides" /\ slide <= Len(program)
  /\ LET s == program[slide]
         duplicated == s.id # NULL /\ Found(ids, s.id)
         newId == IF duplicated THEN NULL ELSE s.id
     IN \E forTitle, forId \in Outcomes :
          /\ s.id = NULL \/ Found(ids, s.id) \/ Absent(ids, s.id)
          /\ titles' = Grown(titles, s.title, forTitle)
          /\ ids' = Grown(ids, newId, forId)
          /\ errors' = IF duplicated THEN errors + 1 ELSE errors
          /\ denied' = (\/ denied
                        \/ s.title # NULL /\ forTitle = "denied"
                        \/ newId # NULL /\ forId = "denied")
          /\ blank' = (\/ blank
                       \/ s.title # NULL /\ forTitle = "blank"
                       \/ newId # NULL /\ forId = "blank")
  /\ pc' = "items"
  /\ item' = 1
  /\ UNCHANGED <<program, slide, target, targets, verdict>>

\* _validateSlideItems, one item: an image needs a caption, a link a target.
VisitItem ==
  /\ pc = "items" /\ item <= Len(program[slide].items)
  /\ LET i == program[slide].items[item]
         missing == i.type \in {"image", "link"} /\ i.text = NULL
         linked == i.type = "link" /\ i.text # NULL
     IN \E outcome \in Outcomes :
          /\ targets' = IF linked THEN Grown(targets, i.text, outcome) ELSE targets
          /\ errors' = IF missing \/ (linked /\ outcome = "denied") THEN errors + 1 ELSE errors
          /\ denied' = (denied \/ (linked /\ outcome = "denied"))
          /\ blank' = (blank \/ (linked /\ outcome = "blank"))
  /\ item' = item + 1
  /\ UNCHANGED <<program, pc, slide, target, ids, titles, verdict>>

NextSlide ==
  /\ pc = "items" /\ item > Len(program[slide].items)
  /\ slide' = slide + 1
  /\ pc' = "slides"
  /\ UNCHANGED <<program, item, target, ids, titles, targets, errors, denied, blank,
                 verdict>>

\* Deviation: the loop waits for one slide more than there is.
EndSlidesLate ==
  /\ pc = "slides" /\ slide > Len(program) + 1
  /\ pc' = "targets"
  /\ UNCHANGED <<program, slide, item, target, ids, titles, targets, errors, denied, blank,
                 verdict>>

EndSlides ==
  /\ pc = "slides" /\ slide > Len(program)
  /\ pc' = "targets"
  /\ UNCHANGED <<program, slide, item, target, ids, titles, targets, errors, denied, blank,
                 verdict>>

Known(name) == Found(ids, name) \/ (Absent(ids, name) /\ Found(titles, name))
Unknown(name) == Absent(ids, name) /\ Absent(titles, name)

\* Deviation: only the ids are looked up.
CheckIdsOnly ==
  /\ pc = "targets" /\ target <= Len(targets)
  /\ Found(ids, targets[target]) \/ Absent(ids, targets[target])
  /\ errors' = IF Found(ids, targets[target]) THEN errors ELSE errors + 1
  /\ target' = target + 1
  /\ UNCHANGED <<program, pc, slide, item, ids, titles, targets, denied, blank, verdict>>

\* _validateLinkTargets, one target.
CheckTarget ==
  /\ pc = "targets" /\ target <= Len(targets)
  /\ Known(targets[target]) \/ Unknown(targets[target])
  /\ errors' = IF Known(targets[target]) THEN errors ELSE errors + 1
  /\ target' = target + 1
  /\ UNCHANGED <<program, pc, slide, item, ids, titles, targets, denied, blank, verdict>>

\* strcmp is called with an entry whose strdup failed.
CompareNull ==
  /\ \/ /\ pc = "slides" /\ slide <= Len(program) /\ program[slide].id # NULL
        /\ ~Found(ids, program[slide].id) /\ ~Absent(ids, program[slide].id)
     \/ /\ pc = "targets" /\ target <= Len(targets)
        /\ ~Known(targets[target]) /\ ~Unknown(targets[target])
  /\ pc' = "crashed"
  /\ UNCHANGED <<program, slide, item, target, ids, titles, targets, errors, denied, blank,
                 verdict>>

\* Deviation: the last target is not waited for.
FinishEarly ==
  /\ pc = "targets" /\ target >= Len(targets)
  /\ verdict' = IF errors > 0 THEN "FAILED" ELSE "SUCCEEDED"
  /\ pc' = "done"
  /\ UNCHANGED <<program, slide, item, target, ids, titles, targets, errors, denied, blank>>

Finish ==
  /\ pc = "targets" /\ target > Len(targets)
  /\ verdict' = IF errors > 0 THEN "FAILED" ELSE "SUCCEEDED"
  /\ pc' = "done"
  /\ UNCHANGED <<program, slide, item, target, ids, titles, targets, errors, denied, blank>>

Next ==
  \/ VisitSlide \/ VisitItem \/ NextSlide \/ EndSlides
  \/ CheckTarget \/ Finish \/ CompareNull

\* A sequential function: it takes its next step.
Spec == Init /\ [][Next]_vars /\ WF_vars(Next)

-----------------------------------------------------------------------------

\* Whether a table holds an entry.
Holds(table, entry) == \E k \in DOMAIN table : table[k] = entry

TypeOK ==
  /\ program \in Seq(Slide)
  /\ pc \in {"slides", "items", "targets", "done", "crashed"}
  /\ slide \in Nat \ {0} /\ item \in Nat \ {0} /\ target \in Nat \ {0}
  /\ pc = "items" => slide <= Len(program)
  /\ \A table \in {ids, titles, targets} :
       table \in Seq(Names \cup {NULL}) /\ (Holds(table, NULL) => blank)
  /\ errors \in Nat
  /\ denied \in BOOLEAN /\ blank \in BOOLEAN
  /\ verdict \in {"IN_PROGRESS", "SUCCEEDED", "FAILED"}

(***************************************************************************)
(* What a program must be, read off the program.                           *)
(***************************************************************************)
Named(name) == \E s \in DOMAIN program : name # NULL /\ name \in {program[s].id, program[s].title}
Bad(s, i) ==
  LET it == program[s].items[i]
  IN  \/ it.type = "image" /\ it.text = NULL
      \/ it.type = "link" /\ ~Named(it.text)
Repeats(s) == program[s].id # NULL /\ \E r \in 1..(s - 1) : program[r].id = program[s].id

ItemsSound == \A s \in DOMAIN program : \A i \in DOMAIN program[s].items : ~Bad(s, i)
IdsUnique == \A s \in DOMAIN program : ~Repeats(s)

(***************************************************************************)
(* A program that is accepted has a slide for every link and a caption for *)
(* every image, even when memory ran out on the way: an entry that could   *)
(* not be stored makes the analysis stricter about links, never laxer      *)
(* (SemanticAnalyzer.c:38-39, 74-82, 93-100).                              *)
(***************************************************************************)
AcceptedLinksResolve == verdict = "SUCCEEDED" => ItemsSound

(***************************************************************************)
(* While each realloc succeeds a verdict is exact: accepted if and only if *)
(* every item is sound and no id is used twice, wherever the slides and    *)
(* the links to them stand.  A strdup that fails may end the process, but  *)
(* a table with a NULL in it never leads to another verdict                *)
(* (executeSemanticAnalysis, SemanticAnalyzer.c:102-146).                  *)
(***************************************************************************)
VerdictIsExact ==
  pc = "done" /\ ~denied => (verdict = "SUCCEEDED" <=> ItemsSound /\ IdsUnique)

\* strcmp meets a NULL only after a strdup has failed.
CrashesOnlyBlank == pc = "crashed" => blank

(***************************************************************************)
(* The analysis ends, and with a verdict unless a strdup has failed: the   *)
(* loops of _findId never read an entry that was not filled                *)
(* (SemanticAnalyzer.c:24-29, 102-146).                                    *)
(***************************************************************************)
AnalysisEnds == <>(pc = "done" \/ (pc = "crashed" /\ blank))

=============================================================================
