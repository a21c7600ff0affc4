------------------------------ MODULE MC_Labels ------------------------------
EXTENDS LabelMap

Letters == {"a", "A", "b", "2"}
ToLower == [c \in Letters |-> IF c = "A" THEN "a" ELSE c]

\* Alike once sanitized: "a", "A", "a?"; nothing left: "?"; a label the suffix
\* loop makes too: "a-2"; too long for the buffer: "abbb", "Abbb".
InOrder == <<<<"a">>, <<"A">>, <<"a", "?">>, <<"?">>, <<"a", "-", "2">>,
             <<"a", "b", "b", "b">>, <<"A", "b", "b", "b">>>>
SomeTexts == ToSet(InOrder)

\* n slides with names out of the given ones, and links on the first slide to any of
\* the names they bear: ids differ and targets exist, as the analysis has made sure.
Titled(n, names) ==
  {p \in [1..n -> [title : names, id : names \cup {NULL}, items : {<<>>}] \cup
                  {[title |-> NULL, id |-> NULL, items |-> <<>>]}] :
    \A r, s \in 1..n : r # s /\ p[r].id # NULL => p[r].id # p[s].id}
Borne(p) == UNION {{p[s].title, p[s].id} : s \in DOMAIN p}
Links(names) ==
  LET listed == SelectSeq(InOrder, LAMBDA n : n \in names)
  IN  [k \in DOMAIN listed |-> [kind |-> "link", text |-> listed[k]]]
Presentations(n, names) ==
  {[p EXCEPT ![1].items = Links(Borne(p) \cap links)] :
    p \in Titled(n, names), links \in SUBSET names}

SomePrograms ==
  Presentations(3, {<<"a">>, <<"A">>, <<"a", "-", "2">>}) \cup
  Presentations(2, {<<"a">>, <<"a", "?">>, <<"?">>}) \cup
  Presentations(3, {<<"a", "b", "b", "b">>, <<"A", "b", "b", "b">>})

=============================================================================
