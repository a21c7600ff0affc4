------------------------------ MODULE Backend ------------------------------
(***************************************************************************)
(* The back end as main runs it (EntryPoint.c:31-43): the semantic         *)
(* analysis judges the program, and only one it accepts is given to the    *)
(* generator.  The two walk the same slides with tables of their own and   *)
(* agree on nothing but the names: what the analysis has seen in its       *)
(* tables the generator looks up in its map.                               *)
(***************************************************************************)
EXTENDS Generator

CONSTANT Outcomes   \* what adding a string to a table of the analysis may come to

ASSUME OutcomesAssumption == Outcomes \subseteq {"stored", "denied", "blank"}

VARIABLES
  at,                           \* where the analysis stands
  slideAt, itemAt, targetAt,    \* its loops
  ids, titles, pending,         \* its tables
  errors, denied, blank, verdict

analysisVars == <<at, slideAt, itemAt, targetAt, ids, titles, pending, errors, denied, blank,
                  verdict>>

\* A program as the analysis looks at it.
View(p) ==
  [s \in DOMAIN p |->
    [title |-> p[s].title, id |-> p[s].id,
     items |-> [i \in DOMAIN p[s].items |->
       LET it == p[s].items[i]
       IN  [type |-> IF it.kind \in {"link", "image"} THEN it.kind ELSE "other",
            text |-> it.text]]]]

A == INSTANCE SemanticAnalyzer WITH
       Names <- Texts, Programs <- {View(p) : p \in Programs}, program <- View(program),
       pc <- at, slide <- slideAt, item <- itemAt, target <- targetAt, targets <- pending

BackendInit == Init /\ A!Init

Analyze == UNCHANGED vars /\ A!Next

\* Deviation: the generator is called whatever the analysis says.
GenerateAnyway == at = "done" /\ Next /\ UNCHANGED analysisVars

Generate == verdict = "SUCCEEDED" /\ Next /\ UNCHANGED analysisVars

BackendNext == Analyze \/ Generate

\* One process that only computes: it takes its next step.
BackendSpec == BackendInit /\ [][BackendNext]_<<vars, analysisVars>>
                           /\ WF_<<vars, analysisVars>>(BackendNext)

-----------------------------------------------------------------------------

(***************************************************************************)
(* No link is written with its bare target for want of a label, and none   *)
(* leads to a frame without one: what the analysis let through the         *)
(* generator finds, whichever reallocs of the analysis failed on the way   *)
(* (_validateLinkTargets, SemanticAnalyzer.c:93-100; _resolveLabel and the *)
(* fallback beside it, Generator.c:146-150 and 348-349).                   *)
(***************************************************************************)
AcceptedLinksHaveLabels ==
  pc \in {"write", "items", "done"} =>
    \A s \in DOMAIN program : \A i \in DOMAIN program[s].items :
      LET it == program[s].items[i]
      IN  it.kind = "link" => /\ ResolveLabel(it.text) # NULL
                              /\ Contains(slideLabels, ResolveLabel(it.text))

(***************************************************************************)
(* A program is rejected or written to its end (EntryPoint.c:31-43), if    *)
(* the slides that links lead to come first and have labels that the       *)
(* suffix loop can tell apart in its buffer.                               *)
(***************************************************************************)
RejectedOrWritten == TargetsFirst /\ ShortNames ~> verdict = "FAILED" \/ pc = "done"

(***************************************************************************)
(* What the report says of the generator: the whole process writes the     *)
(* header, processes each slide and closes the document (Informe           *)
(* TPE_TLA.pdf, section 3.2.2), for every program the analysis accepts.    *)
(***************************************************************************)
DocumentCompleted == verdict = "SUCCEEDED" ~> pc = "done"

=============================================================================
