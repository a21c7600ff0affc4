------------------------------ MODULE Generator ------------------------------
(***************************************************************************)
(* The LaTeX generator (executeGenerator, Generator.c): the label map is   *)
(* built first, then the slides are written one by one (_genLatexSlide).   *)
(* What is printed is kept as a list of events a frame; the preamble and   *)
(* the text of items are left out, an item is named by its place.          *)
(***************************************************************************)
EXTENDS LabelMap

VARIABLES
  list,       \* the type of the list being written, or "none"
  numbered,   \* numberedCount
  out         \* the frames printed, each a sequence of events

writerVars == <<list, numbered, out>>
vars == <<labelVars, writerVars>>

Init ==
  /\ LabelInit
  /\ list = "none"
  /\ numbered = 0
  /\ out = <<>>

BuildLabelMap == LabelNext /\ UNCHANGED writerVars

Event(what, arg) == <<[what |-> what, arg |-> arg]>>

\* More events in the frame being written.
Emit(events) == out' = [out EXCEPT ![Len(out)] = @ \o events]

\* Deviation: numberedCount is not set to zero for a new slide.
BeginFrameCounting ==
  /\ pc = "write" /\ slide <= Len(program)
  /\ out' = Append(out, IF slideLabels[slide] = NULL THEN <<>>
                        ELSE Event("label", slideLabels[slide]))
  /\ item' = 1
  /\ pc' = "items"
  /\ UNCHANGED <<program, slide, targets, slideLabels, map, base, suffix, list, numbered>>

BeginFrame ==
  /\ pc = "write" /\ slide <= Len(program)
  /\ out' = Append(out, IF slideLabels[slide] = NULL THEN <<>>
                        ELSE Event("label", slideLabels[slide]))
  /\ item' = 1 /\ numbered' = 0
  /\ pc' = "items"
  /\ UNCHANGED <<program, slide, targets, slideLabels, map, base, suffix, list>>

Listed == {"bullet", "numbered"}

\* A text in a list opens it; a numbered list goes on counting where the last one stopped.
BeginList ==
  /\ pc = "items" /\ list = "none" /\ item <= Len(Items)
  /\ Items[item].kind \in Listed
  /\ list' = Items[item].kind
  /\ Emit(Event("begin", list') \o
           (IF list' = "numbered" /\ numbered > 0 THEN Event("setcounter", numbered) ELSE <<>>))
  /\ UNCHANGED <<labelVars, numbered>>

Continues == item <= Len(Items) /\ Items[item].kind = list

ListItem ==
  /\ pc = "items" /\ list # "none"
  /\ Continues
  /\ Emit(Event("item", item))
  /\ numbered' = IF list = "numbered" THEN numbered + 1 ELSE numbered
  /\ item' = item + 1
  /\ UNCHANGED <<program, pc, slide, targets, slideLabels, map, base, suffix, list>>

\* Deviation: a list goes on as long as texts come.
EndListAtText ==
  /\ pc = "items" /\ list # "none"
  /\ ~(item <= Len(Items) /\ Items[item].kind \in Listed)
  /\ Emit(Event("end", list))
  /\ list' = "none"
  /\ UNCHANGED <<labelVars, numbered>>

EndList ==
  /\ pc = "items" /\ list # "none"
  /\ ~Continues
  /\ Emit(Event("end", list))
  /\ list' = "none"
  /\ UNCHANGED <<labelVars, numbered>>

\* The link's target is printed as it stands when no label is found.
WriteItem ==
  /\ pc = "items" /\ list = "none" /\ item <= Len(Items)
  /\ LET it == Items[item]
         resolved == ResolveLabel(it.text)
         to == IF resolved # NULL THEN resolved ELSE it.text
     IN  /\ it.kind \notin Listed
         /\ Emit(Event("plain", item) \o
                  (IF it.kind = "link" /\ it.text # NULL THEN Event("hyperlink", to) ELSE <<>>))
  /\ item' = item + 1
  /\ UNCHANGED <<program, pc, slide, targets, slideLabels, map, base, suffix, list, numbered>>

EndFrame ==
  /\ pc = "items" /\ list = "none" /\ item > Len(Items)
  /\ Emit(Event("end", "frame"))
  /\ slide' = slide + 1
  /\ pc' = "write"
  /\ UNCHANGED <<program, item, targets, slideLabels, map, base, suffix, list, numbered>>

EndDocument ==
  /\ pc = "write" /\ slide > Len(program)
  /\ pc' = "done"
  /\ UNCHANGED <<program, slide, item, targets, slideLabels, map, base, suffix, writerVars>>

Next ==
  \/ BuildLabelMap
  \/ BeginFrame \/ BeginList \/ ListItem \/ EndList \/ WriteItem \/ EndFrame
  \/ EndDocument

\* A sequential function: it takes its next step.
Spec == Init /\ [][Next]_vars /\ WF_vars(Next)

-----------------------------------------------------------------------------

TypeOK ==
  /\ pc \in {"collect", "label", "suffix", "write", "items", "done", "crashed"}
  /\ list \in Listed \cup {"none"} /\ (list # "none" => pc = "items")
  /\ numbered \in Nat /\ numbered < item
  /\ Len(out) = CASE pc = "items" -> slide
                  [] pc \in {"write", "done"} -> slide - 1
                  [] OTHER -> 0

(***************************************************************************)
(* How LaTeX reads the events of a frame: \begin{enumerate} starts to      *)
(* count, \setcounter moves the count, \item raises it.  Environments do   *)
(* not overlap, and nothing but items stands in a list.                    *)
(***************************************************************************)
Latest(f, k, what) == Max({0} \cup {j \in 1..(k - 1) : f[j].what \in what})
Within(f, k) ==
  LET j == Latest(f, k, {"begin", "end"})
  IN  IF j = 0 \/ f[j].what = "end" THEN "none" ELSE f[j].arg

\* What may stand there: lists in no list, items in one, a count set in a numbered one.
Fits(event, in) ==
  /\ event.what \in {"begin", "plain", "hyperlink"} => in = "none"
  /\ event.what = "item" => in \in Listed
  /\ event.what = "setcounter" => in = "numbered"
  /\ event.what = "end" => event.arg = IF in = "none" THEN "frame" ELSE in
Nested(f) == \A k \in DOMAIN f : Fits(f[k], Within(f, k))

NumberShown(f, k) ==
  LET from == Latest(f, k, {"begin", "setcounter"})
  IN  (IF f[from].what = "setcounter" THEN f[from].arg ELSE 0) +
      Cardinality({j \in from..k : f[j].what = "item"})

\* The slide whose label it is.
Carrier(label) == Max({0} \cup {s \in DOMAIN slideLabels : slideLabels[s] = label})

SeenAt(f, k) ==
  LET links == k < Len(f) /\ f[k + 1].what = "hyperlink"
      in == Within(f, k)
  IN  [place  |-> f[k].arg,
       mark   |-> IF in # "none" THEN in ELSE IF links THEN "link" ELSE "plain",
       number |-> IF in = "numbered" THEN NumberShown(f, k) ELSE 0,
       leads  |-> IF links THEN Carrier(f[k + 1].arg) ELSE 0]

\* What stands in a frame, and the i-th of it.
Entries(f) == {k \in DOMAIN f : f[k].what \in {"item", "plain"}}
Rank(f, k) == Cardinality({j \in Entries(f) : j <= k})
Entry(f, i) == CHOOSE k \in Entries(f) : Rank(f, k) = i

ReadFrame(f) ==
  IF ~Nested(f) THEN NULL
  ELSE [anchor |-> IF f[1].what = "label" THEN Carrier(f[1].arg) ELSE 0,
        body   |-> [i \in 1..Cardinality(Entries(f)) |-> SeenAt(f, Entry(f, i))]]

\* The frames LaTeX has seen to the end: the last one may be under way.
Closed(f) == f # <<>> /\ f[Len(f)] = Event("end", "frame")[1]
Finished == IF out # <<>> /\ ~Closed(out[Len(out)]) THEN Len(out) - 1 ELSE Len(out)
PagesRead == [k \in 1..Finished |-> ReadFrame(out[k])]

D == INSTANCE Deck WITH pages <- PagesRead

(***************************************************************************)
(* The generator implements Deck: what LaTeX reads in the frames is, slide *)
(* by slide, what the presentation says: nothing lost, doubled or out of   *)
(* order, lists nested and of one kind, numbers that go on across other    *)
(* items, links that lead to the slide analysis found for them.            *)
(***************************************************************************)
ImplementsDeck == D!DeckSpec

\* The suffix buffer holds each label a link needs with any number up to the slides'.
ShortNames ==
  \A s \in DOMAIN program :
    IsTarget(s) => Len(BaseLabel(s)) + 1 + Len(Decimal[Len(program)]) <= Room

=============================================================================
