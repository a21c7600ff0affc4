---------------------------- MODULE SlideDocument ----------------------------
(***************************************************************************)
(* The presentation a token sequence denotes, read off the sequence        *)
(* without parsing it: every phrase begins with a token of its own, a      *)
(* header opens a slide, and an item opens one only at the beginning of    *)
(* the input or right after a separator.  The strings of a presentation    *)
(* are named by their positions in the sequence; 0 stands for NULL.        *)
(***************************************************************************)
EXTENDS SlideGrammar

PhraseStart == ItemStart \cup {"HASH", "TRIPLE_MINUS"}

OpensSlide(read, i) ==
  \/ read[i] = "HASH"
  \/ read[i] \in ItemStart /\ (i = 1 \/ read[i - 1] = "TRIPLE_MINUS")

PhraseStarts(read) == {k \in DOMAIN read : read[k] \in PhraseStart}
SlideStarts(read) == {k \in DOMAIN read : OpensSlide(read, k)}

\* A set of positions in order.
Ordered(S) ==
  [i \in 1..Cardinality(S) |-> CHOOSE k \in S : Cardinality({j \in S : j <= k}) = i]

\* Where the part of the input that begins at i ends: before the next start.
EndOf(read, i, starts) ==
  CHOOSE j \in i..Len(read) :
    /\ \A k \in (i + 1)..j : k \notin starts
    /\ j = Len(read) \/ j + 1 \in starts

\* The item whose phrase is i..j.
ItemIn(read, i, j) ==
  LET texts == Ordered({k \in i..j : read[k] \in Valued})
      item(type, kind, args) == [type |-> type, node |-> [kind |-> kind, args |-> args]]
  IN  CASE read[i] = "MINUS"         -> item("text", "bullet", texts)
        [] read[i] = "NUMBERED_LIST" -> item("text", "numbered", texts)
        [] read[i] = "AT_IMG"  -> item("image", "image",
                                       IF Len(texts) = 3 THEN texts ELSE Append(texts, 0))
        [] read[i] = "AT_CODE" -> item("codeBlock", "code", texts)
        [] read[i] = "AT_NOTE" -> item("note", "note", texts)
        [] read[i] = "AT_LINK" -> item("link", "link", <<texts[Len(texts)], texts[1]>>)
        [] read[i] = "AT_BLOCK" -> item("block", "block",
                                        IF Len(texts) = 2 THEN <<i + 2, texts[1], texts[2]>>
                                        ELSE <<i + 2, 0, texts[1]>>)

\* The string that follows the given token in the header i..j, or 0.
Labelled(read, i, j, token) ==
  LET at == {k \in i..j : read[k] = token}
  IN  IF at = {} THEN 0 ELSE Ordered(at)[1] + 1

SlideAt(read, i) ==
  LET phraseEnd(k) == EndOf(read, k, PhraseStarts(read))
      items == Ordered({k \in i..EndOf(read, i, SlideStarts(read)) : read[k] \in ItemStart})
  IN  [title    |-> Labelled(read, i, phraseEnd(i), "HASH"),
       subtitle |-> Labelled(read, i, phraseEnd(i), "DOUBLE_HASH"),
       id       |-> Labelled(read, i, phraseEnd(i), "AT_ID"),
       items    |-> [k \in DOMAIN items |-> ItemIn(read, items[k], phraseEnd(items[k]))]]

Document(read) ==
  LET starts == Ordered(SlideStarts(read))
  IN  [k \in DOMAIN starts |-> SlideAt(read, starts[k])]

=============================================================================
