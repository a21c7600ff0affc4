----------------------------- MODULE MC_Backend -----------------------------
EXTENDS Backend

Letters == {"a", "A"}
ToLower == [c \in Letters |-> "a"]

Short == <<"a">>
Alike == <<"A">>
Long  == <<"a", "a", "a", "a">>
Names == {Short, Alike}
SomeTexts == {Short, Alike, Long}

It(kind, text) == [kind |-> kind, text |-> text]
To(name) == It("link", name)
Entitled(title, id, items) == [title |-> title, id |-> id, items |-> items]

\* A slide of up to four items of every kind, and two of up to two: for the lists.
Contents(n) ==
  BoundedSeq({It("bullet", NULL), It("numbered", NULL), It("other", NULL), To(Short)}, n)
Listing ==
  {<<Entitled(Short, Short, c)>> : c \in Contents(4)} \cup
  {<<Entitled(NULL, NULL, c), Entitled(Short, NULL, d)>> : c \in Contents(2), d \in Contents(2)}

\* Slides with names that sanitizing makes alike, and links to them, broken ones
\* included; some are to be rejected.
Slides(contents) ==
  {s \in [title : Names \cup {NULL}, id : Names \cup {NULL}, items : contents] :
     s.title = NULL => s.id = NULL /\ s.items # <<>>}
Linking ==
  [1..1 -> Slides(BoundedSeq({To(n) : n \in Names} \cup {It("image", Short), It("image", NULL)}, 2))] \cup
  [1..2 -> Slides(BoundedSeq({To(n) : n \in Names}, 1))]

\* Links to two slides, from the first of them.
LinkedTwice ==
  {<<Entitled(x, y, <<To(Alike), It("numbered", NULL), To(x)>>),
     Entitled(Alike, NULL, <<To(x), It("numbered", NULL)>>)>> :
     x \in Names, y \in Names \cup {NULL}}

SomePrograms == Listing \cup Linking \cup LinkedTwice

\* The first slide is nobody's target, the second one is.
TargetBehind == {<<Entitled(Short, NULL, <<To(Alike)>>), Entitled(Alike, NULL, <<>>)>>}

=============================================================================
