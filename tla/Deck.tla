-------------------------------- MODULE Deck --------------------------------
(***************************************************************************)
(* What the generator promises of a presentation: one frame for each       *)
(* slide, in order, each with its items in order; numbered items counted   *)
(* through the slide, whatever stands between them; links that lead to the *)
(* first slide that bears their target.  How lists are opened and closed,  *)
(* what labels look like and how they are looked up is not said here.      *)
(***************************************************************************)
EXTENDS FiniteSetsExt, Sequences, Integers

CONSTANT NULL

VARIABLES
  program,    \* the slides
  pages       \* what a reader of the LaTeX sees, frame by frame

deckVars == <<program, pages>>

Bears(s, name) == name \in {program[s].id, program[s].title}
FirstBearer(name) ==
  LET bearers == {s \in DOMAIN program : Bears(s, name)}
  IN  IF bearers = {} THEN 0 ELSE Min(bearers)

\* Whether some link leads to slide s.
Reached(s) ==
  \E r \in DOMAIN program : \E i \in DOMAIN program[r].items :
    LET it == program[r].items[i] IN it.kind = "link" /\ it.text # NULL /\ Bears(s, it.text)

\* An item as it is seen: its place in the slide, its number in a numbered list,
\* the slide it leads to.
Seen(s, i) ==
  LET items == program[s].items
      kind == items[i].kind
  IN  [place  |-> i,
       mark   |-> IF kind \in {"bullet", "numbered", "link"} THEN kind ELSE "plain",
       number |-> IF kind = "numbered"
                  THEN Cardinality({j \in 1..i : items[j].kind = "numbered"}) ELSE 0,
       leads  |-> IF kind = "link" THEN FirstBearer(items[i].text) ELSE 0]

Page(s) ==
  [anchor |-> IF Reached(s) THEN s ELSE 0,
   body   |-> [i \in DOMAIN program[s].items |-> Seen(s, i)]]

DeckInit == pages = <<>>

WritePage ==
  /\ Len(pages) < Len(program)
  /\ pages' = Append(pages, Page(Len(pages) + 1))
  /\ UNCHANGED program

\* It may stop: which presentations are written to the end is another question.
DeckSpec == DeckInit /\ [][WritePage]_deckVars

=============================================================================
