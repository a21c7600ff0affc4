---------------------------- MODULE MC_Semantics ----------------------------
EXTENDS SemanticAnalyzer, SequencesExt

\* Programs as the grammar lets them be: captions and targets are never null,
\* and a slide without a title has items and no id.
Links == {[type |-> "link", text |-> n] : n \in Names}
Images == {[type |-> "image", text |-> CHOOSE n \in Names : TRUE]}

Slides(kinds, maxItems) ==
  LET lists == BoundedSeq(kinds, maxItems)
  IN  [title : Names, id : Names \cup {NULL}, items : lists] \cup
      [title : {NULL}, id : {NULL}, items : lists \ {<<>>}]

\* One slide with images and links, two with a link each, or three of which the
\* last alone has one.
SomePrograms ==
  [1..1 -> Slides(Links \cup Images, 2)] \cup [1..2 -> Slides(Links, 1)] \cup
  {plain \o last : plain \in [1..2 -> Slides({}, 0)], last \in [1..1 -> Slides(Links, 1)]}

=============================================================================
