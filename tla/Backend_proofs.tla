--------------------------- MODULE Backend_proofs ---------------------------
(***************************************************************************)
(* Proofs about the back end: the analysis and the generator, for every    *)
(* set of presentations and every pattern of failing reallocs.             *)
(*                                                                         *)
(* Each keeps the invariant it has alone (AP!IInv, and IInv of             *)
(* LabelMap_proofs while the label map is built: Judged, Mapping).         *)
(* Resolved is what the writer relies on when the map is complete: it      *)
(* outlives the loops of LabelMap, which IInv speaks about.                *)
(*                                                                         *)
(* Of the frame being written Shape says what may follow (the list open,   *)
(* no end of a frame yet), Body that its first item - 1 entries are what   *)
(* Deck has in their places, Framed that numbered is the number LaTeX will *)
(* have given the last item.  Paged says that the frames before it are     *)
(* Deck's pages.  Every step of the writer appends one event or two, so    *)
(* the lemmas say what an Append keeps of a frame, and what it adds.       *)
(***************************************************************************)
EXTENDS Backend, LabelMap_proofs, FiniteSetTheorems, WellFoundedInduction

AP == INSTANCE SemanticAnalyzer_proofs WITH
        Names <- Texts, Programs <- {View(p) : p \in Programs}, program <- View(program),
        pc <- at, slide <- slideAt, item <- itemAt, target <- targetAt, targets <- pending

\* The links lead to the first slide that bears their target, and just those have labels.
Resolved ==
  /\ program \in Programs
  /\ DOMAIN slideLabels = DOMAIN program
  /\ LabelsUnique
  /\ \A s \in DOMAIN program : slideLabels[s] # NULL <=> IsTarget(s)
  /\ \A name \in Texts : Linked(name) /\ Bearers(name) # {} =>
       \E s \in Bearers(name) :
         /\ \A r \in Bearers(name) : s <= r
         /\ ResolveLabel(name) = slideLabels[s]
         /\ slideLabels[s] # NULL

-----------------------------------------------------------------------------

(***************************************************************************)
(* Sequences of any values: what an Append does to one.                    *)
(***************************************************************************)
Row(f) == Len(f) \in Nat /\ f = [k \in 1..Len(f) |-> f[k]]

LEMMA RowAppend ==
  ASSUME NEW f, Row(f), NEW e
  PROVE  /\ Row(Append(f, e)) /\ Append(f, e) # <<>>
         /\ Len(f) \in Nat /\ DOMAIN f = 1..Len(f)
         /\ Len(Append(f, e)) = Len(f) + 1
         /\ DOMAIN Append(f, e) = 1..(Len(f) + 1)
         /\ \A k \in 1..Len(f) : Append(f, e)[k] = f[k]
         /\ Append(f, e)[Len(f) + 1] = e
<1> DEFINE S == {f[k] : k \in 1..Len(f)} \cup {e}
<1>1. Len(f) \in Nat /\ f \in [1..Len(f) -> S]
  <2>1. \A k \in 1..Len(f) : f[k] \in S
    OBVIOUS
  <2> HIDE DEF S
  <2> QED BY <2>1 DEF Row
<1>2. e \in S
  OBVIOUS
<1> HIDE DEF S
<1>3. f \in Seq(S)
  BY <1>1, SeqDef
<1>4. /\ Append(f, e) \in Seq(S) /\ Len(Append(f, e)) = Len(f) + 1 /\ Append(f, e) # <<>>
      /\ \A k \in 1..Len(f) : Append(f, e)[k] = f[k]
      /\ Append(f, e)[Len(f) + 1] = e
  BY <1>2, <1>3, AppendProperties
<1>5. DOMAIN Append(f, e) = 1..(Len(f) + 1) /\ Append(f, e) \in [1..(Len(f) + 1) -> S]
  BY <1>4, LenProperties
<1>6. DOMAIN f = 1..Len(f)
  BY <1>1
<1>7. Row(Append(f, e))
  <2> DEFINE g == Append(f, e)
             m == Len(f) + 1
  <2>1. g \in [1..m -> S] /\ Len(g) = m /\ m \in Nat
    BY <1>1, <1>4, <1>5
  <2> HIDE DEF g, m
  <2>2. Row(g)
    BY <2>1 DEF Row
  <2> QED BY <2>2 DEF g
<1> QED BY <1>1, <1>4, <1>5, <1>6, <1>7

(***************************************************************************)
(* A set of numbers up to a bound has a greatest element.                  *)
(***************************************************************************)
LEMMA MaxIs ==
  ASSUME NEW S \in SUBSET Int, NEW x \in S, \A y \in S : y <= x
  PROVE  Max(S) = x
<1> DEFINE isMax(m) == m \in S /\ \A y \in S : m >= y
<1>1. Max(S) = CHOOSE m : isMax(m)
  BY DEF Max
<1>2. isMax(Max(S))
  <2> HIDE DEF isMax
  <2>1. isMax(x)
    BY DEF isMax
  <2> QED BY <1>1, <2>1
<1>3. Max(S) <= x /\ x <= Max(S) /\ Max(S) \in Int
  BY <1>2
<1> QED BY <1>3

LEMMA MaxOf ==
  ASSUME NEW n \in Nat, NEW S \in SUBSET (0..n), S # {}
  PROVE  Max(S) \in S /\ \A x \in S : x <= Max(S)
<1> DEFINE T == {n - x : x \in S}
           R == {ss \in Nat \X Nat : ss[1] < ss[2]}
<1>1. T \subseteq Nat /\ T # {}
  <2>1. \A x \in S : x \in 0..n
    OBVIOUS
  <2>2. \A x \in S : n - x \in Nat
    BY <2>1
  <2> QED BY <2>2
<1>2. PICK y \in T : \A z \in T : ~(<<z, y>> \in R)
  <2>1. IsWellFoundedOn(R, Nat)
    BY NatLessThanWellFounded DEF OpToRel
  <2> HIDE DEF T, R
  <2> QED BY <1>1, <2>1, WFMin
<1>3. PICK x \in S : y = n - x
  OBVIOUS
<1>4. \A w \in S : w <= x
  <2> SUFFICES ASSUME NEW w \in S PROVE w <= x
    OBVIOUS
  <2>1. n - w \in T /\ n - w \in Nat /\ y \in Nat
    BY <1>1
  <2>2. ~(n - w < y)
    BY <1>2, <2>1
  <2> QED BY <1>3, <2>2
<1>5. Max(S) = x
  BY <1>4, MaxIs
<1> QED BY <1>4, <1>5

\* The last of the events before the k-th that are of a kind, or 0.
LEMMA LatestIs ==
  ASSUME NEW f, NEW k \in Nat \ {0}, NEW what
  PROVE  /\ Latest(f, k, what) \in 0..(k - 1)
         /\ Latest(f, k, what) # 0 => f[Latest(f, k, what)].what \in what
         /\ \A j \in 1..(k - 1) : f[j].what \in what => j <= Latest(f, k, what)
<1> DEFINE S == {0} \cup {j \in 1..(k - 1) : f[j].what \in what}
<1>1. S \in SUBSET (0..(k - 1)) /\ S # {} /\ k - 1 \in Nat
  OBVIOUS
<1>2. Max(S) \in S /\ \A x \in S : x <= Max(S)
  <2> HIDE DEF S
  <2> QED BY <1>1, MaxOf
<1>3. Latest(f, k, what) = Max(S)
  BY DEF Latest
<1> QED BY <1>1, <1>2, <1>3

LEMMA LatestKept ==
  ASSUME NEW f, Row(f), NEW e, NEW k \in 1..(Len(f) + 1), NEW what
  PROVE  Latest(Append(f, e), k, what) = Latest(f, k, what)
<1>1. \A j \in 1..(k - 1) : Append(f, e)[j] = f[j]
  BY RowAppend
<1>2. {j \in 1..(k - 1) : Append(f, e)[j].what \in what} = {j \in 1..(k - 1) : f[j].what \in what}
  BY <1>1
<1> QED BY <1>2 DEF Latest

LEMMA LatestEnd ==
  ASSUME NEW f, Row(f), NEW e, NEW what
  PROVE  Latest(Append(f, e), Len(f) + 2, what) =
           IF e.what \in what THEN Len(f) + 1 ELSE Latest(f, Len(f) + 1, what)
<1> DEFINE g == Append(f, e)
           S == {0} \cup {j \in 1..(Len(f) + 1) : g[j].what \in what}
<1>1. /\ Len(f) \in Nat /\ \A k \in 1..Len(f) : g[k] = f[k]
      /\ g[Len(f) + 1] = e
  BY RowAppend
<1>2. Latest(g, Len(f) + 2, what) = Max(S)
  <2> HIDE DEF g
  <2>1. Len(f) + 2 - 1 = Len(f) + 1
    BY <1>1
  <2>2. Latest(g, Len(f) + 2, what) =
          Max({0} \cup {j \in 1..(Len(f) + 2 - 1) : g[j].what \in what})
    BY DEF Latest
  <2> QED BY <2>1, <2>2
<1>3. CASE e.what \in what
  <2>1. Len(f) + 1 \in S /\ \A y \in S : y <= Len(f) + 1
    BY <1>1, <1>3
  <2>2. S \in SUBSET Int
    OBVIOUS
  <2> HIDE DEF S
  <2> QED BY <1>2, <1>3, <2>1, <2>2, MaxIs
<1>4. CASE e.what \notin what
  <2> DEFINE R == {0} \cup {j \in 1..(Len(f) + 1 - 1) : f[j].what \in what}
  <2>1. Latest(f, Len(f) + 1, what) = Max(R)
    BY DEF Latest
  <2>2. S = R
    <3> HIDE DEF g
    <3>1. \A j \in 1..(Len(f) + 1) :
            g[j].what \in what <=> j \in 1..(Len(f) + 1 - 1) /\ f[j].what \in what
      BY <1>1, <1>4
    <3> QED BY <1>1, <3>1
  <2> HIDE DEF S, R, g
  <2>3. Latest(g, Len(f) + 2, what) = Latest(f, Len(f) + 1, what)
    BY <1>2, <2>1, <2>2
  <2> QED BY <1>4, <2>3 DEF g
<1> QED BY <1>3, <1>4

\* The environment at the end of the events so far.
EndsIn(f) == Within(f, Len(f) + 1)

LEMMA WithinKept ==
  ASSUME NEW f, Row(f), NEW e, NEW k \in 1..(Len(f) + 1)
  PROVE  Within(Append(f, e), k) = Within(f, k)
<1> DEFINE j == Latest(f, k, {"begin", "end"})
<1>1. Latest(Append(f, e), k, {"begin", "end"}) = j
  BY LatestKept
<1>2. j \in 0..(k - 1) /\ k \in Nat \ {0} /\ Len(f) \in Nat
  <2>1. k \in Nat \ {0} /\ Len(f) \in Nat
    BY DEF Row
  <2> QED BY <2>1, LatestIs
<1> HIDE DEF j
<1>3. j # 0 => Append(f, e)[j] = f[j]
  BY <1>2, RowAppend
<1>4. Within(f, k) = IF j = 0 \/ f[j].what = "end" THEN "none" ELSE f[j].arg
  BY DEF Within, j
<1>5. Within(Append(f, e), k) =
        IF j = 0 \/ Append(f, e)[j].what = "end" THEN "none" ELSE Append(f, e)[j].arg
  BY <1>1 DEF Within
<1>6. CASE j = 0
  BY <1>4, <1>5, <1>6
<1>7. CASE j # 0
  <2>1. Append(f, e)[j] = f[j]
    BY <1>3, <1>7
  <2> DEFINE old == f[j]
  <2> HIDE DEF old
  <2>2. Within(Append(f, e), k) = IF old.what = "end" THEN "none" ELSE old.arg
    BY <1>5, <1>7, <2>1 DEF old
  <2>3. Within(f, k) = IF old.what = "end" THEN "none" ELSE old.arg
    BY <1>4, <1>7 DEF old
  <2> QED BY <2>2, <2>3
<1> QED BY <1>6, <1>7

LEMMA WithinEnd ==
  ASSUME NEW f, Row(f), NEW e
  PROVE  EndsIn(Append(f, e)) = CASE e.what = "begin" -> e.arg
                                  [] e.what = "end" -> "none"
                                  [] OTHER -> EndsIn(f)
<1> DEFINE g == Append(f, e)
           j == Latest(f, Len(f) + 1, {"begin", "end"})
           l == Latest(g, Len(f) + 2, {"begin", "end"})
<1>1. Len(g) = Len(f) + 1 /\ Len(f) \in Nat /\ g[Len(f) + 1] = e
  BY RowAppend
<1>2. l = IF e.what \in {"begin", "end"} THEN Len(f) + 1 ELSE j
  BY LatestEnd
<1>3. EndsIn(g) = IF l = 0 \/ g[l].what = "end" THEN "none" ELSE g[l].arg
  <2>1. EndsIn(g) = Within(g, Len(f) + 2)
    BY <1>1 DEF EndsIn
  <2> QED BY <2>1 DEF Within
<1>4. EndsIn(f) = IF j = 0 \/ f[j].what = "end" THEN "none" ELSE f[j].arg
  BY DEF EndsIn, Within
<1>5. j \in 0..Len(f)
  <2>1. j \in 0..(Len(f) + 1 - 1)
    BY <1>1, LatestIs
  <2> QED BY <1>1, <2>1
<1> HIDE DEF j, l
<1>6. j # 0 => g[j] = f[j]
  BY <1>5, RowAppend
<1> HIDE DEF g
<1>7. CASE e.what \in {"begin", "end"}
  <2>1. l = Len(f) + 1 /\ l # 0 /\ g[l] = e
    BY <1>1, <1>2, <1>7
  <2>2. EndsIn(g) = IF e.what = "end" THEN "none" ELSE e.arg
    BY <1>3, <2>1
  <2> QED BY <1>7, <2>2 DEF g
<1>8. CASE e.what \notin {"begin", "end"}
  <2>1. l = j
    BY <1>2, <1>8
  <2>2. EndsIn(g) = EndsIn(f)
    <3>1. CASE j = 0
      BY <1>3, <1>4, <2>1, <3>1
    <3>2. CASE j # 0
      <4>1. g[j] = f[j]
        BY <1>6, <3>2
      <4>2. EndsIn(g) = IF f[j].what = "end" THEN "none" ELSE f[j].arg
        BY <1>3, <2>1, <3>2, <4>1
      <4> QED BY <1>4, <3>2, <4>2
    <3> QED BY <3>1, <3>2
  <2> QED BY <1>8, <2>2 DEF g
<1> QED BY <1>7, <1>8

LEMMA NestedAppend ==
  ASSUME NEW f, Row(f), NEW e, Nested(f), Fits(e, EndsIn(f))
  PROVE  Nested(Append(f, e))
<1> SUFFICES ASSUME NEW k \in DOMAIN Append(f, e)
             PROVE  Fits(Append(f, e)[k], Within(Append(f, e), k))
  BY DEF Nested
<1>1. k \in 1..(Len(f) + 1) /\ Len(f) \in Nat /\ DOMAIN f = 1..Len(f)
  BY RowAppend
<1>2. Within(Append(f, e), k) = Within(f, k)
  BY <1>1, WithinKept
<1>3. CASE k \in 1..Len(f)
  BY <1>1, <1>2, <1>3, RowAppend DEF Nested
<1>4. CASE k = Len(f) + 1
  BY <1>2, <1>4, RowAppend DEF EndsIn
<1> QED BY <1>1, <1>3, <1>4

LEMMA EntriesAppend ==
  ASSUME NEW f, Row(f), NEW e
  PROVE  /\ Cardinality(Entries(f)) \in Nat
         /\ e.what \notin {"item", "plain"} => Entries(Append(f, e)) = Entries(f)
         /\ e.what \in {"item", "plain"} =>
              /\ Entries(Append(f, e)) = Entries(f) \cup {Len(f) + 1}
              /\ Cardinality(Entries(Append(f, e))) = Cardinality(Entries(f)) + 1
              /\ Rank(Append(f, e), Len(f) + 1) = Cardinality(Entries(f)) + 1
         /\ \A k \in 1..Len(f) : Rank(Append(f, e), k) = Rank(f, k)
<1> DEFINE g == Append(f, e)
           n == Len(f)
<1>1. /\ n \in Nat /\ DOMAIN f = 1..n /\ DOMAIN g = 1..(n + 1)
      /\ \A k \in 1..n : g[k] = f[k]
      /\ g[n + 1] = e
  BY RowAppend
<1>2. IsFiniteSet(Entries(f)) /\ Cardinality(Entries(f)) \in Nat /\ n + 1 \notin Entries(f)
  <2>1. Entries(f) \in SUBSET (1..n)
    BY <1>1 DEF Entries
  <2>2. IsFiniteSet(1..n)
    BY <1>1, FS_Interval
  <2>3. IsFiniteSet(Entries(f))
    BY <2>1, <2>2, FS_Subset
  <2> QED BY <1>1, <2>1, <2>3, FS_CardinalityType
<1> HIDE DEF g, n
<1>3. \A k \in 1..(n + 1) :
        k \in Entries(g) <=> k \in Entries(f) \/ (k = n + 1 /\ e.what \in {"item", "plain"})
  BY <1>1 DEF Entries
<1>4. Entries(g) \subseteq 1..(n + 1) /\ Entries(f) \subseteq 1..n
  BY <1>1 DEF Entries
<1>5. ASSUME e.what \notin {"item", "plain"} PROVE Entries(g) = Entries(f)
  <2>1. \A k : k \in Entries(g) => k \in Entries(f)
    BY <1>3, <1>4, <1>5
  <2>2. \A k : k \in Entries(f) => k \in Entries(g)
    BY <1>1, <1>3, <1>4
  <2> QED BY <2>1, <2>2
<1>6. ASSUME e.what \in {"item", "plain"} PROVE Entries(g) = Entries(f) \cup {n + 1}
  <2>1. \A k : k \in Entries(g) => k \in Entries(f) \cup {n + 1}
    BY <1>3, <1>4
  <2>2. \A k : k \in Entries(f) \cup {n + 1} => k \in Entries(g)
    BY <1>1, <1>3, <1>4, <1>6
  <2> QED BY <2>1, <2>2
<1>7. \A k \in 1..n : Rank(g, k) = Rank(f, k)
  <2> SUFFICES ASSUME NEW k \in 1..n PROVE Rank(g, k) = Rank(f, k)
    OBVIOUS
  <2>1. {j \in Entries(g) : j <= k} = {j \in Entries(f) : j <= k}
    BY <1>1, <1>3, <1>4
  <2> QED BY <2>1 DEF Rank
<1>8. ASSUME e.what \in {"item", "plain"}
      PROVE  /\ Cardinality(Entries(g)) = Cardinality(Entries(f)) + 1
             /\ Rank(g, n + 1) = Cardinality(Entries(f)) + 1
  <2>1. Cardinality(Entries(f) \cup {n + 1}) = Cardinality(Entries(f)) + 1
    BY <1>2, FS_AddElement
  <2>2. {j \in Entries(g) : j <= n + 1} = Entries(g)
    BY <1>1, <1>4
  <2> QED BY <1>6, <1>8, <2>1, <2>2 DEF Rank
<1> QED BY <1>2, <1>5, <1>6, <1>7, <1>8 DEF g, n

(***************************************************************************)
(* The number \item shows: where counting starts, and how it goes on.      *)
(***************************************************************************)
LEMMA Begun ==
  ASSUME NEW f, NEW k \in Nat \ {0}, Within(f, k) # "none"
  PROVE  Latest(f, k, {"begin", "setcounter"}) # 0
<1> DEFINE j == Latest(f, k, {"begin", "end"})
           from == Latest(f, k, {"begin", "setcounter"})
<1>1. j # 0 /\ f[j].what # "end"
  BY DEF Within
<1>2. /\ j \in 0..(k - 1)
      /\ j # 0 => f[j].what \in {"begin", "end"}
  BY LatestIs
<1>3. \A l \in 1..(k - 1) : f[l].what \in {"begin", "setcounter"} => l <= from
  BY LatestIs
<1> HIDE DEF j, from
<1>4. j \in 1..(k - 1) /\ f[j].what \in {"begin", "setcounter"}
  BY <1>1, <1>2
<1>5. j <= from
  BY <1>3, <1>4
<1> QED BY <1>4, <1>5 DEF from

LEMMA NumberKept ==
  ASSUME NEW f, Row(f), NEW e, NEW k \in 1..Len(f), Within(f, k) # "none"
  PROVE  NumberShown(Append(f, e), k) = NumberShown(f, k)
<1> DEFINE g == Append(f, e)
           from == Latest(f, k, {"begin", "setcounter"})
<1>1. Latest(g, k, {"begin", "setcounter"}) = from
  <2>1. k \in 1..(Len(f) + 1)
    BY RowAppend
  <2> QED BY <2>1, LatestKept
<1>2. from \in 1..(k - 1) /\ from \in 1..Len(f)
  <2>1. k \in Nat \ {0} /\ Len(f) \in Nat
    BY RowAppend
  <2>2. from # 0 /\ from \in 0..(k - 1)
    BY <2>1, Begun, LatestIs
  <2> HIDE DEF from
  <2> QED BY <2>1, <2>2
<1>3. \A j \in 1..Len(f) : g[j] = f[j]
  BY RowAppend
<1>4. Len(f) \in Nat
  BY RowAppend
<1> HIDE DEF g, from
<1>5. {j \in from..k : g[j].what = "item"} = {j \in from..k : f[j].what = "item"}
  BY <1>2, <1>3, <1>4
<1>6. g[from] = f[from]
  BY <1>2, <1>3
<1> DEFINE start(h) == IF h.what = "setcounter" THEN h.arg ELSE 0
           count(h) == Cardinality({j \in from..k : h[j].what = "item"})
<1>7. NumberShown(g, k) = start(g[from]) + count(g)
  BY <1>1 DEF NumberShown
<1>8. NumberShown(f, k) = start(f[from]) + count(f)
  BY DEF NumberShown, from
<1>9. count(g) = count(f) /\ start(g[from]) = start(f[from])
  BY <1>5, <1>6
<1> HIDE DEF start, count
<1>10. NumberShown(g, k) = NumberShown(f, k)
  BY <1>7, <1>8, <1>9
<1> QED BY <1>10 DEF g

\* The number shown last in the list that is open, and what an event makes of it.
Shown(f) ==
  LET from == Latest(f, Len(f) + 1, {"begin", "setcounter"})
  IN  (IF f[from].what = "setcounter" THEN f[from].arg ELSE 0) +
      Cardinality({j \in from..Len(f) : f[j].what = "item"})

LEMMA ShownTyped ==
  ASSUME NEW f, Row(f), EndsIn(f) # "none",
         \A k \in DOMAIN f : f[k].what = "setcounter" => f[k].arg \in Nat
  PROVE  Shown(f) \in Nat
<1> DEFINE from == Latest(f, Len(f) + 1, {"begin", "setcounter"})
<1>1. Len(f) \in Nat /\ DOMAIN f = 1..Len(f) /\ Len(f) + 1 \in Nat \ {0} /\ Len(f) + 1 - 1 = Len(f)
  BY RowAppend
<1>2. from # 0
  BY <1>1, Begun DEF EndsIn
<1>3. from \in 0..Len(f)
  BY <1>1, LatestIs
<1> DEFINE start == IF f[from].what = "setcounter" THEN f[from].arg ELSE 0
           items == {j \in from..Len(f) : f[j].what = "item"}
<1>4. Shown(f) = start + Cardinality(items)
  BY DEF Shown
<1> HIDE DEF from
<1>5. start \in Nat
  BY <1>1, <1>2, <1>3
<1>6. Cardinality(items) \in Nat
  <2>1. IsFiniteSet(from..Len(f))
    BY <1>1, <1>3, FS_Interval
  <2>2. items \in SUBSET (from..Len(f))
    OBVIOUS
  <2> HIDE DEF items
  <2> QED BY <2>1, <2>2, FS_Subset, FS_CardinalityType
<1> HIDE DEF start, items
<1> QED BY <1>4, <1>5, <1>6

LEMMA ShownItem ==
  ASSUME NEW f, Row(f), EndsIn(f) # "none", NEW e, e.what = "item",
         \A k \in DOMAIN f : f[k].what = "setcounter" => f[k].arg \in Nat
  PROVE  /\ NumberShown(Append(f, e), Len(f) + 1) = Shown(f) + 1
         /\ Shown(Append(f, e)) = Shown(f) + 1
<1> DEFINE g == Append(f, e)
           n == Len(f)
           from == Latest(f, n + 1, {"begin", "setcounter"})
<1>1. /\ n \in Nat /\ DOMAIN f = 1..n /\ n + 1 \in Nat \ {0} /\ n + 1 - 1 = n
      /\ Len(g) = n + 1
      /\ \A j \in 1..n : g[j] = f[j]
      /\ g[n + 1] = e
  BY RowAppend
<1>2. from \in 1..n
  <2>1. from # 0
    BY <1>1, Begun DEF EndsIn
  <2>2. from \in 0..n
    BY <1>1, LatestIs
  <2> HIDE DEF from
  <2> QED BY <1>1, <2>1, <2>2
<1>3. Latest(g, n + 1, {"begin", "setcounter"}) = from
  BY <1>1, LatestKept
<1>4. Latest(g, n + 2, {"begin", "setcounter"}) = from
  BY LatestEnd
<1> DEFINE start(h) == IF h.what = "setcounter" THEN h.arg ELSE 0
           items(h, k) == {j \in from..k : h[j].what = "item"}
<1>5. Shown(f) = start(f[from]) + Cardinality(items(f, n))
  BY DEF Shown
<1>6. NumberShown(g, n + 1) = start(g[from]) + Cardinality(items(g, n + 1))
  BY <1>3 DEF NumberShown
<1>7. Shown(g) = start(g[from]) + Cardinality(items(g, n + 1))
  <2>1. Len(g) + 1 = n + 2
    BY <1>1
  <2> QED BY <1>1, <1>4, <2>1 DEF Shown
<1> HIDE DEF g, from, n
<1>8. items(g, n + 1) = items(f, n) \cup {n + 1}
  <2>1. \A j \in from..(n + 1) :
          g[j].what = "item" <=> j = n + 1 \/ (j \in from..n /\ f[j].what = "item")
    BY <1>1, <1>2
  <2> QED BY <1>1, <1>2, <2>1
<1>9. /\ Cardinality(items(f, n)) \in Nat
      /\ Cardinality(items(g, n + 1)) = Cardinality(items(f, n)) + 1
  <2>1. IsFiniteSet(from..n)
    <3>1. from \in Int /\ n \in Int
      BY <1>1, <1>2
    <3> QED BY <3>1, FS_Interval
  <2>2. items(f, n) \in SUBSET (from..n) /\ n + 1 \notin items(f, n)
    BY <1>1
  <2> HIDE DEF items
  <2>3. IsFiniteSet(items(f, n))
    BY <2>1, <2>2, FS_Subset
  <2> QED BY <1>8, <2>2, <2>3, FS_CardinalityType, FS_AddElement
<1>10. start(g[from]) = start(f[from]) /\ start(f[from]) \in Nat
  BY <1>1, <1>2
<1> HIDE DEF start, items
<1>11. start(f[from]) + (Cardinality(items(f, n)) + 1) = Shown(f) + 1
  BY <1>5, <1>9, <1>10
<1>12. NumberShown(g, n + 1) = Shown(f) + 1 /\ Shown(g) = Shown(f) + 1
  BY <1>6, <1>7, <1>9, <1>10, <1>11
<1> QED BY <1>12 DEF g, n

LEMMA ShownStart ==
  ASSUME NEW f, Row(f), NEW e, e.what = "begin" \/ (e.what = "setcounter" /\ e.arg \in Nat)
  PROVE  Shown(Append(f, e)) = IF e.what = "begin" THEN 0 ELSE e.arg
<1> DEFINE g == Append(f, e)
           n == Len(f)
<1>1. n \in Nat /\ Len(g) = n + 1 /\ g[n + 1] = e /\ Len(g) + 1 = n + 2
  BY RowAppend
<1>2. Latest(g, n + 2, {"begin", "setcounter"}) = n + 1
  BY LatestEnd
<1> DEFINE items == {j \in (n + 1)..(n + 1) : g[j].what = "item"}
<1>3. Shown(g) = (IF g[n + 1].what = "setcounter" THEN g[n + 1].arg ELSE 0) + Cardinality(items)
  BY <1>1, <1>2 DEF Shown
<1> HIDE DEF g, n
<1>4. items = {}
  BY <1>1
<1>5. Cardinality(items) = 0
  BY <1>4, FS_EmptySet
<1> HIDE DEF items
<1>6. Shown(g) = (IF e.what = "setcounter" THEN e.arg ELSE 0) + 0
  BY <1>1, <1>3, <1>5
<1>7. Shown(g) = IF e.what = "begin" THEN 0 ELSE e.arg
  BY <1>6
<1> QED BY <1>7 DEF g

\* What is seen of an entry does not change, once it cannot become a link.
LEMMA SeenKept ==
  ASSUME NEW f, Row(f), NEW e, NEW k \in 1..Len(f), e.what # "hyperlink" \/ k < Len(f)
  PROVE  SeenAt(Append(f, e), k) = SeenAt(f, k)
<1> DEFINE g == Append(f, e)
           linked(h) == k < Len(h) /\ h[k + 1].what = "hyperlink"
<1>1. /\ Len(f) \in Nat /\ Len(g) = Len(f) + 1 /\ g[Len(f) + 1] = e
      /\ \A j \in 1..Len(f) : g[j] = f[j]
  BY RowAppend
<1>2. Within(g, k) = Within(f, k)
  <2>1. k \in 1..(Len(f) + 1)
    BY <1>1
  <2> QED BY <2>1, WithinKept
<1>3. Within(f, k) = "numbered" => NumberShown(g, k) = NumberShown(f, k)
  BY NumberKept
<1> HIDE DEF g
<1>4. g[k] = f[k] /\ (linked(g) <=> linked(f)) /\ (linked(f) => g[k + 1] = f[k + 1])
  <2>1. CASE k < Len(f)
    <3>1. k + 1 \in 1..Len(f) /\ k < Len(g)
      BY <1>1, <2>1
    <3> QED BY <1>1, <2>1, <3>1
  <2>2. CASE k = Len(f)
    BY <1>1, <2>2
  <2> QED BY <1>1, <2>1, <2>2
<1> DEFINE seen(h, shown) ==
             [place  |-> h[k].arg,
              mark   |-> IF Within(h, k) # "none" THEN Within(h, k)
                         ELSE IF linked(h) THEN "link" ELSE "plain",
              number |-> IF Within(h, k) = "numbered" THEN shown ELSE 0,
              leads  |-> IF linked(h) THEN Carrier(h[k + 1].arg) ELSE 0]
<1>5. SeenAt(g, k) = seen(g, NumberShown(g, k)) /\ SeenAt(f, k) = seen(f, NumberShown(f, k))
  BY DEF SeenAt
<1>6. seen(g, NumberShown(g, k)) = seen(f, NumberShown(f, k))
  <2> HIDE DEF linked
  <2> QED BY <1>2, <1>3, <1>4
<1> HIDE DEF seen
<1>7. SeenAt(g, k) = SeenAt(f, k)
  BY <1>5, <1>6
<1> QED BY <1>7 DEF g

(***************************************************************************)
(* A frame while it is written: it is laid out well and its label stands   *)
(* first (Shape), and its n entries are the first n items of the slide, as *)
(* Deck says they are seen (Body).                                         *)
(***************************************************************************)
Shape(f, s, l) ==
  /\ Row(f)
  /\ Nested(f) /\ EndsIn(f) = l
  /\ \A k \in DOMAIN f : f[k].what = "setcounter" => f[k].arg \in Nat
  /\ \A k \in DOMAIN f : f[k].what = "end" => f[k].arg # "frame"
  /\ IF slideLabels[s] = NULL THEN Len(f) > 0 => f[1].what # "label"
     ELSE Len(f) > 0 /\ f[1] = [what |-> "label", arg |-> slideLabels[s]]

Body(f, s, n) ==
  /\ Cardinality(Entries(f)) = n
  /\ \A i \in 1..n : \E k \in Entries(f) : Rank(f, k) = i
  /\ \A k \in Entries(f) : Rank(f, k) \in 1..n /\ SeenAt(f, k) = D!Seen(s, Rank(f, k))

Frame(f, s, n, l) == Shape(f, s, l) /\ Body(f, s, n)

LEMMA LabelledAppend ==
  ASSUME NEW s, NEW f, Row(f), NEW e, e.what # "label",
         IF slideLabels[s] = NULL THEN Len(f) > 0 => f[1].what # "label"
         ELSE Len(f) > 0 /\ f[1] = [what |-> "label", arg |-> slideLabels[s]]
  PROVE  IF slideLabels[s] = NULL
         THEN Len(Append(f, e)) > 0 => Append(f, e)[1].what # "label"
         ELSE Len(Append(f, e)) > 0
              /\ Append(f, e)[1] = [what |-> "label", arg |-> slideLabels[s]]
<1>1. /\ Len(f) \in Nat /\ Len(Append(f, e)) = Len(f) + 1
      /\ Len(f) = 0 => Append(f, e)[1] = e
      /\ Len(f) > 0 => Append(f, e)[1] = f[1]
  BY RowAppend
<1>2. CASE slideLabels[s] = NULL
  <2>1. CASE Len(f) = 0
    BY <1>1, <1>2, <2>1
  <2>2. CASE Len(f) > 0
    BY <1>1, <1>2, <2>2
  <2> QED BY <1>1, <2>1, <2>2
<1>3. CASE slideLabels[s] # NULL
  BY <1>1, <1>3
<1> QED BY <1>2, <1>3

LEMMA ShapeAppend ==
  ASSUME NEW s, NEW l, NEW f, Shape(f, s, l), NEW e, Fits(e, l),
         e.what # "label",
         e.what = "setcounter" => e.arg \in Nat,
         e.what = "end" => e.arg # "frame"
  PROVE  Shape(Append(f, e), s, CASE e.what = "begin" -> e.arg
                                  [] e.what = "end" -> "none"
                                  [] OTHER -> l)
<1> DEFINE g == Append(f, e)
<1>1. Row(f) /\ Nested(f) /\ EndsIn(f) = l
  BY DEF Shape
<1>2. Row(g) /\ Nested(g)
  BY <1>1, RowAppend, NestedAppend
<1>3. EndsIn(g) = CASE e.what = "begin" -> e.arg [] e.what = "end" -> "none" [] OTHER -> l
  BY <1>1, WithinEnd
<1>4. \A k \in DOMAIN g : (k \in DOMAIN f /\ g[k] = f[k]) \/ g[k] = e
  BY <1>1, RowAppend
<1>5. /\ \A k \in DOMAIN g : g[k].what = "setcounter" => g[k].arg \in Nat
      /\ \A k \in DOMAIN g : g[k].what = "end" => g[k].arg # "frame"
  BY <1>4 DEF Shape
<1>6. IF slideLabels[s] = NULL THEN Len(g) > 0 => g[1].what # "label"
      ELSE Len(g) > 0 /\ g[1] = [what |-> "label", arg |-> slideLabels[s]]
  BY <1>1, LabelledAppend DEF Shape
<1> HIDE DEF g
<1>7. Shape(g, s, EndsIn(g))
  BY <1>2, <1>5, <1>6 DEF Shape
<1> QED BY <1>3, <1>7 DEF g

LEMMA BodyKept ==
  ASSUME NEW s, NEW n, NEW f, Row(f), Body(f, s, n), NEW e,
         e.what \notin {"item", "plain", "hyperlink"}
  PROVE  Body(Append(f, e), s, n)
<1> DEFINE g == Append(f, e)
<1>1. Entries(g) = Entries(f)
  BY EntriesAppend
<1>2. \A k \in Entries(f) : k \in 1..Len(f)
  BY RowAppend DEF Entries
<1>3. \A k \in Entries(f) : Rank(g, k) = Rank(f, k)
  BY <1>2, EntriesAppend
<1>4. \A k \in Entries(f) : SeenAt(g, k) = SeenAt(f, k)
  BY <1>2, SeenKept
<1> HIDE DEF g
<1>5. Body(g, s, n)
  BY <1>1, <1>3, <1>4 DEF Body
<1> QED BY <1>5 DEF g

LEMMA BodyMore ==
  ASSUME NEW s, NEW n \in Nat, NEW f, Body(f, s, n), NEW h, NEW m,
         Entries(h) = Entries(f) \cup {m},
         Cardinality(Entries(h)) = n + 1,
         \A k \in Entries(f) : Rank(h, k) = Rank(f, k) /\ SeenAt(h, k) = SeenAt(f, k),
         Rank(h, m) = n + 1,
         SeenAt(h, m) = D!Seen(s, n + 1)
  PROVE  Body(h, s, n + 1)
<1>1. ASSUME NEW i \in 1..(n + 1) PROVE \E k \in Entries(h) : Rank(h, k) = i
  <2>1. CASE i \in 1..n
    <3>1. PICK k \in Entries(f) : Rank(f, k) = i
      BY <2>1 DEF Body
    <3> QED BY <3>1
  <2>2. CASE i = n + 1
    BY <2>2
  <2> QED BY <2>1, <2>2
<1>2. ASSUME NEW k \in Entries(h)
      PROVE  Rank(h, k) \in 1..(n + 1) /\ SeenAt(h, k) = D!Seen(s, Rank(h, k))
  <2>1. CASE k \in Entries(f)
    <3>1. Rank(f, k) \in 1..n /\ SeenAt(f, k) = D!Seen(s, Rank(f, k))
      BY <2>1 DEF Body
    <3>2. Rank(h, k) = Rank(f, k) /\ SeenAt(h, k) = SeenAt(f, k)
      BY <2>1
    <3> QED BY <3>1, <3>2
  <2>2. CASE k = m
    BY <2>2
  <2> QED BY <2>1, <2>2
<1> QED BY <1>1, <1>2 DEF Body

\* An entry that no hyperlink follows.
LEMMA BodyEntry ==
  ASSUME NEW s, NEW n \in Nat, NEW f, Row(f), Body(f, s, n), NEW e, e.what \in {"item", "plain"},
         SeenAt(Append(f, e), Len(f) + 1) = D!Seen(s, n + 1)
  PROVE  Body(Append(f, e), s, n + 1)
<1> DEFINE g == Append(f, e)
<1>1. /\ Entries(g) = Entries(f) \cup {Len(f) + 1}
      /\ Cardinality(Entries(g)) = n + 1
      /\ Rank(g, Len(f) + 1) = n + 1
  BY EntriesAppend DEF Body
<1>2. \A k \in Entries(f) : k \in 1..Len(f)
  BY RowAppend DEF Entries
<1>3. \A k \in Entries(f) : Rank(g, k) = Rank(f, k)
  BY <1>2, EntriesAppend
<1>4. \A k \in Entries(f) : SeenAt(g, k) = SeenAt(f, k)
  BY <1>2, SeenKept
<1> DEFINE m == Len(f) + 1
<1>5. SeenAt(g, m) = D!Seen(s, n + 1)
  OBVIOUS
<1>6. Entries(g) = Entries(f) \cup {m} /\ Rank(g, m) = n + 1
  BY <1>1
<1> HIDE DEF g, m
<1>7. Body(g, s, n + 1)
  BY <1>1, <1>3, <1>4, <1>5, <1>6, BodyMore
<1> QED BY <1>7 DEF g

\* An entry with the hyperlink behind it.
LEMMA BodyLink ==
  ASSUME NEW s, NEW n \in Nat, NEW f, Row(f), Body(f, s, n),
         NEW e, e.what = "plain", NEW a, a.what = "hyperlink",
         SeenAt(Append(Append(f, e), a), Len(f) + 1) = D!Seen(s, n + 1)
  PROVE  Body(Append(Append(f, e), a), s, n + 1)
<1> DEFINE g == Append(f, e)
           h == Append(g, a)
           m == Len(f) + 1
<1>1. /\ Entries(g) = Entries(f) \cup {m}
      /\ Cardinality(Entries(g)) = n + 1
      /\ Rank(g, m) = n + 1
  BY EntriesAppend DEF Body
<1>2. Row(g) /\ Len(g) = m /\ Len(f) \in Nat /\ m = Len(f) + 1
  BY RowAppend
<1>3. \A k \in Entries(f) : k \in 1..Len(f)
  BY RowAppend DEF Entries
<1>4. \A k \in Entries(f) : Rank(g, k) = Rank(f, k) /\ SeenAt(g, k) = SeenAt(f, k)
  <2>1. \A k \in Entries(f) : Rank(g, k) = Rank(f, k)
    BY <1>3, EntriesAppend
  <2>2. \A k \in Entries(f) : SeenAt(g, k) = SeenAt(f, k)
    BY <1>3, SeenKept
  <2> QED BY <2>1, <2>2
<1>5. SeenAt(h, m) = D!Seen(s, n + 1)
  OBVIOUS
<1> HIDE DEF g, m
<1>6. Entries(h) = Entries(g)
  BY <1>2, EntriesAppend
<1>7. \A k \in 1..m : Rank(h, k) = Rank(g, k)
  BY <1>2, EntriesAppend
<1>8. \A k \in Entries(f) : SeenAt(h, k) = SeenAt(g, k)
  <2>1. \A k \in Entries(f) : k \in 1..Len(g) /\ k < Len(g)
    BY <1>2, <1>3
  <2> QED BY <1>2, <2>1, SeenKept
<1> HIDE DEF h
<1>9. \A k \in Entries(f) : Rank(h, k) = Rank(f, k) /\ SeenAt(h, k) = SeenAt(f, k)
  <2>1. \A k \in Entries(f) : k \in 1..m
    BY <1>2, <1>3
  <2> QED BY <1>4, <1>7, <1>8, <2>1
<1>10. Rank(h, m) = n + 1
  BY <1>1, <1>2, <1>7
<1>11. Entries(h) = Entries(f) \cup {m} /\ Cardinality(Entries(h)) = n + 1
  BY <1>1, <1>6
<1>12. Body(h, s, n + 1)
  BY <1>5, <1>9, <1>10, <1>11, BodyMore
<1> QED BY <1>12 DEF h, g

-----------------------------------------------------------------------------

LEMMA ItemsTyped ==
  ASSUME program \in Programs, NEW s \in DOMAIN program
  PROVE  /\ DOMAIN program = 1..Len(program) /\ Len(program) \in Nat
         /\ DOMAIN program[s].items = 1..Len(program[s].items)
         /\ Len(program[s].items) \in Nat
         /\ \A i \in DOMAIN program[s].items : program[s].items[i] \in Item
BY ProgramType, LenProperties, ElementOfSeq

(***************************************************************************)
(* Labels: the slide a label leads to is the one that has it.              *)
(***************************************************************************)
LEMMA CarrierIs ==
  ASSUME Resolved, NEW b \in DOMAIN program, slideLabels[b] # NULL
  PROVE  Carrier(slideLabels[b]) = b
<1> DEFINE S == {s \in DOMAIN slideLabels : slideLabels[s] = slideLabels[b]}
<1>1. DOMAIN slideLabels = DOMAIN program /\ DOMAIN program = 1..Len(program)
      /\ Len(program) \in Nat
  BY ItemsTyped DEF Resolved
<1>2. S = {b}
  BY <1>1 DEF Resolved, LabelsUnique
<1>3. Carrier(slideLabels[b]) = Max({0} \cup S)
  BY DEF Carrier
<1> HIDE DEF S
<1>4. b \in {0} \cup S /\ \A y \in {0} \cup S : y <= b
  BY <1>1, <1>2
<1>5. {0} \cup S \in SUBSET Int
  BY <1>1, <1>2
<1>6. Max({0} \cup S) = b
  BY <1>4, <1>5, MaxIs
<1> QED BY <1>3, <1>6

LEMMA DeckMin ==
  ASSUME NEW S \in SUBSET Int, NEW x \in S, \A y \in S : x <= y
  PROVE  D!Min(S) = x
<1> DEFINE isMin(m) == m \in S /\ \A y \in S : m <= y
<1>1. D!Min(S) = CHOOSE m : isMin(m)
  BY DEF D!Min
<1>2. isMin(D!Min(S))
  <2> HIDE DEF isMin
  <2>1. isMin(x)
    BY DEF isMin
  <2> QED BY <1>1, <2>1
<1>3. D!Min(S) <= x /\ x <= D!Min(S) /\ D!Min(S) \in Int
  BY <1>2
<1> QED BY <1>3

\* A link leads where Deck says it does.
LEMMA LinkLeads ==
  ASSUME Resolved, NEW name \in Texts, Linked(name), Bearers(name) # {}
  PROVE  /\ ResolveLabel(name) # NULL
         /\ \E b \in DOMAIN slideLabels : ResolveLabel(name) = slideLabels[b]
         /\ Carrier(ResolveLabel(name)) = D!FirstBearer(name)
<1>1. PICK b \in Bearers(name) :
        /\ \A r \in Bearers(name) : b <= r
        /\ ResolveLabel(name) = slideLabels[b]
        /\ slideLabels[b] # NULL
  BY DEF Resolved
<1>2. b \in DOMAIN program /\ DOMAIN program = DOMAIN slideLabels
  BY DEF Bearers, Resolved
<1>3. Carrier(ResolveLabel(name)) = b
  BY <1>1, <1>2, CarrierIs
<1>4. D!FirstBearer(name) = b
  <2>1. Bearers(name) \in SUBSET Int
    BY ItemsTyped DEF Bearers, Resolved
  <2>2. D!Min(Bearers(name)) = b
    BY <1>1, <2>1, DeckMin
  <2>3. {s \in DOMAIN program : D!Bears(s, name)} = Bearers(name)
    BY DEF D!Bears, Bearers
  <2> QED BY <2>2, <2>3 DEF D!FirstBearer
<1> QED BY <1>1, <1>2, <1>3, <1>4

\* Deck's slides that some link reaches are the targets of the generator.
LEMMA ReachedIsTarget ==
  ASSUME program \in Programs, NEW s \in DOMAIN program
  PROVE  D!Reached(s) <=> IsTarget(s)
<1>1. ASSUME NEW r \in DOMAIN program, NEW i \in DOMAIN program[r].items
      PROVE  LET it == program[r].items[i]
             IN  it \in Item /\ it.text \in Texts \cup {NULL}
                 /\ (it.kind = "link" => it = [kind |-> "link", text |-> it.text])
  BY ItemsTyped DEF Item
<1>2. ASSUME D!Reached(s) PROVE IsTarget(s)
  <2>1. PICK r \in DOMAIN program : \E i \in DOMAIN program[r].items :
          LET it == program[r].items[i]
          IN  it.kind = "link" /\ it.text # NULL /\ D!Bears(s, it.text)
    BY <1>2 DEF D!Reached
  <2>2. PICK i \in DOMAIN program[r].items :
          LET it == program[r].items[i]
          IN  it.kind = "link" /\ it.text # NULL /\ D!Bears(s, it.text)
    BY <2>1
  <2> QED BY <1>1, <2>2 DEF IsTarget, Linked, Bearers, D!Bears
<1>3. ASSUME IsTarget(s) PROVE D!Reached(s)
  <2>1. PICK name \in Texts : Linked(name) /\ s \in Bearers(name)
    BY <1>3 DEF IsTarget
  <2>2. PICK r \in DOMAIN program : \E i \in DOMAIN program[r].items :
          program[r].items[i] = [kind |-> "link", text |-> name]
    BY <2>1 DEF Linked
  <2> QED BY <2>1, <2>2, NullAssumption DEF Bearers, D!Reached, D!Bears
<1> QED BY <1>2, <1>3

-----------------------------------------------------------------------------

(***************************************************************************)
(* What each event of the writer makes of the frame.                       *)
(***************************************************************************)
CountedTo(s, n) == Cardinality({j \in 1..n : program[s].items[j].kind = "numbered"})

LEMMA CountedNext ==
  ASSUME NEW s, NEW n \in Nat
  PROVE  /\ CountedTo(s, n) \in Nat
         /\ CountedTo(s, 0) = 0
         /\ CountedTo(s, n + 1) = IF program[s].items[n + 1].kind = "numbered"
                                  THEN CountedTo(s, n) + 1 ELSE CountedTo(s, n)
<1> DEFINE S(m) == {j \in 1..m : program[s].items[j].kind = "numbered"}
<1>1. IsFiniteSet(S(n)) /\ n + 1 \notin S(n)
  <2>1. S(n) \in SUBSET (1..n) /\ n + 1 \notin S(n)
    OBVIOUS
  <2>2. IsFiniteSet(1..n)
    BY FS_Interval
  <2> HIDE DEF S
  <2> QED BY <2>1, <2>2, FS_Subset
<1>2. S(n + 1) = IF program[s].items[n + 1].kind = "numbered" THEN S(n) \cup {n + 1} ELSE S(n)
  <2>1. \A j \in 1..(n + 1) : j \in 1..n \/ j = n + 1
    OBVIOUS
  <2>2. CASE program[s].items[n + 1].kind = "numbered"
    BY <2>1, <2>2
  <2>3. CASE program[s].items[n + 1].kind # "numbered"
    BY <2>1, <2>3
  <2> QED BY <2>2, <2>3
<1>3. S(0) = {}
  OBVIOUS
<1>4. CountedTo(s, n) = Cardinality(S(n)) /\ CountedTo(s, 0) = Cardinality(S(0))
      /\ CountedTo(s, n + 1) = Cardinality(S(n + 1))
  BY DEF CountedTo
<1> HIDE DEF S
<1>5. Cardinality(S(n)) \in Nat /\ Cardinality(S(n) \cup {n + 1}) = Cardinality(S(n)) + 1
  BY <1>1, FS_CardinalityType, FS_AddElement
<1>6. CountedTo(s, n + 1) = IF program[s].items[n + 1].kind = "numbered"
                            THEN CountedTo(s, n) + 1 ELSE CountedTo(s, n)
  <2>1. CASE program[s].items[n + 1].kind = "numbered"
    BY <1>2, <1>4, <1>5, <2>1
  <2>2. CASE program[s].items[n + 1].kind # "numbered"
    BY <1>2, <1>4, <1>5, <2>2
  <2> QED BY <2>1, <2>2
<1> QED BY <1>3, <1>4, <1>5, <1>6, FS_EmptySet

LEMMA DeckSeen ==
  ASSUME NEW s, NEW i
  PROVE  LET it == program[s].items[i]
         IN  D!Seen(s, i) =
               [place |-> i,
                mark |-> IF it.kind \in {"bullet", "numbered", "link"} THEN it.kind ELSE "plain",
                number |-> IF it.kind = "numbered" THEN CountedTo(s, i) ELSE 0,
                leads |-> IF it.kind = "link" THEN D!FirstBearer(it.text) ELSE 0]
BY DEF D!Seen, CountedTo, D!Cardinality, Cardinality

\* \begin, \setcounter and \end of a list.
LEMMA FrameList ==
  ASSUME NEW s, NEW n, NEW l, NEW f, Frame(f, s, n, l),
         NEW e, e.what \in {"begin", "setcounter", "end"}, Fits(e, l),
         e.what = "setcounter" => e.arg \in Nat,
         e.what = "end" => e.arg # "frame"
  PROVE  Frame(Append(f, e), s, n, CASE e.what = "begin" -> e.arg
                                     [] e.what = "end" -> "none"
                                     [] OTHER -> l)
<1>1. Row(f) /\ Shape(f, s, l) /\ Body(f, s, n)
  BY DEF Frame, Shape
<1>2. Body(Append(f, e), s, n)
  BY <1>1, BodyKept
<1>3. Shape(Append(f, e), s, CASE e.what = "begin" -> e.arg
                               [] e.what = "end" -> "none"
                               [] OTHER -> l)
  <2>1. e.what # "label"
    OBVIOUS
  <2> QED BY <1>1, <2>1, ShapeAppend
<1> QED BY <1>2, <1>3 DEF Frame

LEMMA FrameItem ==
  ASSUME NEW s, NEW n \in Nat, NEW l \in Listed, NEW f, Frame(f, s, n, l),
         program[s].items[n + 1].kind = l,
         l = "numbered" => Shown(f) = CountedTo(s, n),
         NEW e, e = [what |-> "item", arg |-> n + 1]
  PROVE  /\ Frame(Append(f, e), s, n + 1, l)
         /\ l = "numbered" => Shown(Append(f, e)) = CountedTo(s, n + 1)
<1> DEFINE g == Append(f, e)
           m == Len(f) + 1
<1>1. Row(f) /\ Shape(f, s, l) /\ Body(f, s, n) /\ EndsIn(f) = l /\ l # "none"
      /\ \A k \in DOMAIN f : f[k].what = "setcounter" => f[k].arg \in Nat
  BY DEF Frame, Shape, Listed
<1>2. Shape(g, s, l)
  <2>1. Shape(g, s, CASE e.what = "begin" -> e.arg [] e.what = "end" -> "none" [] OTHER -> l)
    <3>1. Fits(e, l) /\ e.what = "item"
      BY DEF Fits
    <3> QED BY <1>1, <3>1, ShapeAppend
  <2> QED BY <2>1
<1>3. g[m] = e /\ Len(g) = m /\ m \in Nat
  BY <1>1, RowAppend
<1>4. Within(g, m) = l
  <2>1. m \in 1..(Len(f) + 1)
    BY <1>1, RowAppend
  <2> QED BY <1>1, <2>1, WithinKept DEF EndsIn
<1>5. NumberShown(g, m) = Shown(f) + 1 /\ Shown(g) = Shown(f) + 1
  BY <1>1, ShownItem
<1>6. l = "numbered" => NumberShown(g, m) = CountedTo(s, n + 1) /\ Shown(g) = CountedTo(s, n + 1)
  BY <1>5, CountedNext
<1> HIDE DEF g, m
<1>7. SeenAt(g, m) = [place |-> n + 1, mark |-> l,
                      number |-> IF l = "numbered" THEN CountedTo(s, n + 1) ELSE 0,
                      leads |-> 0]
  <2>1. ~(m < Len(g))
    BY <1>3
  <2>2. l = "numbered" => NumberShown(g, m) = CountedTo(s, n + 1)
    BY <1>6
  <2> QED BY <1>1, <1>3, <1>4, <2>1, <2>2 DEF SeenAt
<1>8. D!Seen(s, n + 1) = [place |-> n + 1, mark |-> l,
                          number |-> IF l = "numbered" THEN CountedTo(s, n + 1) ELSE 0,
                          leads |-> 0]
  <2>1. l \in {"bullet", "numbered"} /\ l # "link"
    BY DEF Listed
  <2> QED BY <2>1, DeckSeen
<1>9. SeenAt(g, m) = D!Seen(s, n + 1)
  BY <1>7, <1>8
<1>10. Body(g, s, n + 1)
  BY <1>1, <1>9, BodyEntry DEF g, m
<1> QED BY <1>2, <1>6, <1>10 DEF Frame, g

LEMMA FramePlain ==
  ASSUME NEW s, NEW n \in Nat, NEW f, Frame(f, s, n, "none"),
         program[s].items[n + 1].kind \notin Listed \cup {"link"},
         NEW e, e = [what |-> "plain", arg |-> n + 1]
  PROVE  Frame(Append(f, e), s, n + 1, "none")
<1> DEFINE g == Append(f, e)
           m == Len(f) + 1
<1>1. Row(f) /\ Shape(f, s, "none") /\ Body(f, s, n) /\ EndsIn(f) = "none"
  BY DEF Frame, Shape
<1>2. Shape(g, s, "none")
  <2>1. Shape(g, s, CASE e.what = "begin" -> e.arg [] e.what = "end" -> "none" [] OTHER -> "none")
    <3>1. Fits(e, "none") /\ e.what = "plain"
      BY DEF Fits
    <3> QED BY <1>1, <3>1, ShapeAppend
  <2> QED BY <2>1
<1>3. g[m] = e /\ Len(g) = m /\ m \in Nat
  BY <1>1, RowAppend
<1>4. Within(g, m) = "none"
  <2>1. m \in 1..(Len(f) + 1)
    BY <1>1, RowAppend
  <2> QED BY <1>1, <2>1, WithinKept DEF EndsIn
<1> HIDE DEF g, m
<1>5. SeenAt(g, m) = [place |-> n + 1, mark |-> "plain", number |-> 0, leads |-> 0]
  BY <1>3, <1>4 DEF SeenAt
<1>6. D!Seen(s, n + 1) = [place |-> n + 1, mark |-> "plain", number |-> 0, leads |-> 0]
  BY DeckSeen DEF Listed
<1>7. Body(g, s, n + 1)
  BY <1>1, <1>5, <1>6, BodyEntry DEF g, m
<1> QED BY <1>2, <1>7 DEF Frame, g

LEMMA FrameLink ==
  ASSUME NEW s, NEW n \in Nat, NEW f, Frame(f, s, n, "none"), NEW label,
         program[s].items[n + 1].kind = "link",
         Carrier(label) = D!FirstBearer(program[s].items[n + 1].text),
         NEW e, e = [what |-> "plain", arg |-> n + 1],
         NEW a, a = [what |-> "hyperlink", arg |-> label]
  PROVE  Frame(Append(Append(f, e), a), s, n + 1, "none")
<1> DEFINE g == Append(f, e)
           h == Append(g, a)
           m == Len(f) + 1
<1>1. Row(f) /\ Shape(f, s, "none") /\ Body(f, s, n) /\ EndsIn(f) = "none"
  BY DEF Frame, Shape
<1>2. Shape(g, s, "none")
  <2>1. Shape(g, s, CASE e.what = "begin" -> e.arg [] e.what = "end" -> "none" [] OTHER -> "none")
    <3>1. Fits(e, "none") /\ e.what = "plain"
      BY DEF Fits
    <3> QED BY <1>1, <3>1, ShapeAppend
  <2> QED BY <2>1
<1>3. Shape(h, s, "none")
  <2>1. Shape(h, s, CASE a.what = "begin" -> a.arg [] a.what = "end" -> "none" [] OTHER -> "none")
    <3>1. Fits(a, "none") /\ a.what = "hyperlink"
      BY DEF Fits
    <3> HIDE DEF g
    <3> QED BY <1>2, <3>1, ShapeAppend
  <2> QED BY <2>1
<1>4. Row(g) /\ g[m] = e /\ Len(g) = m /\ m \in Nat /\ m \in 1..(Len(f) + 1)
  BY <1>1, RowAppend
<1>5. Within(g, m) = "none"
  BY <1>1, <1>4, WithinKept DEF EndsIn
<1> HIDE DEF g, m
<1>6. h[m] = e /\ Len(h) = m + 1 /\ h[m + 1] = a /\ m \in 1..(Len(g) + 1)
  <2>1. m \in 1..Len(g) /\ m \in 1..(Len(g) + 1)
    BY <1>4 DEF m
  <2> QED BY <1>4, <2>1, RowAppend
<1>7. Within(h, m) = "none"
  BY <1>4, <1>5, <1>6, WithinKept
<1> HIDE DEF h
<1>8. SeenAt(h, m) = [place |-> n + 1, mark |-> "link", number |-> 0, leads |-> Carrier(label)]
  <2>1. m < Len(h) /\ h[m + 1].what = "hyperlink" /\ h[m + 1].arg = label /\ h[m].arg = n + 1
    BY <1>4, <1>6
  <2> QED BY <1>7, <2>1 DEF SeenAt
<1>9. D!Seen(s, n + 1) = [place |-> n + 1, mark |-> "link", number |-> 0, leads |-> Carrier(label)]
  BY DeckSeen
<1>10. Body(h, s, n + 1)
  <2>1. SeenAt(h, m) = D!Seen(s, n + 1)
    BY <1>8, <1>9
  <2> QED BY <1>1, <2>1, BodyLink DEF h, g, m
<1> QED BY <1>3, <1>10 DEF Frame, h, g

(***************************************************************************)
(* A frame that is closed reads as the page Deck shows.                    *)
(***************************************************************************)
LEMMA FrameEnd ==
  ASSUME Resolved, NEW s \in DOMAIN program, NEW f,
         Frame(f, s, Len(program[s].items), "none"),
         NEW e, e = [what |-> "end", arg |-> "frame"]
  PROVE  Row(Append(f, e)) /\ Closed(Append(f, e)) /\ ReadFrame(Append(f, e)) = D!Page(s)
<1> DEFINE g == Append(f, e)
           n == Len(program[s].items)
<1>1. Row(f) /\ Shape(f, s, "none") /\ Body(f, s, n) /\ EndsIn(f) = "none" /\ Nested(f)
  BY DEF Frame, Shape
<1>2. Row(g) /\ Len(g) = Len(f) + 1 /\ Len(f) \in Nat /\ g[Len(f) + 1] = e /\ g # <<>>
  BY <1>1, RowAppend
<1>3. Closed(g)
  BY <1>2 DEF Closed, Event
<1>4. Nested(g)
  <2>1. Fits(e, "none")
    BY DEF Fits
  <2> QED BY <1>1, <2>1, NestedAppend
<1>5. Body(g, s, n)
  <2>1. e.what \notin {"item", "plain", "hyperlink"}
    OBVIOUS
  <2> QED BY <1>1, <2>1, BodyKept
<1>6. IF slideLabels[s] = NULL THEN Len(g) > 0 => g[1].what # "label"
      ELSE Len(g) > 0 /\ g[1] = [what |-> "label", arg |-> slideLabels[s]]
  <2>1. e.what # "label"
    OBVIOUS
  <2> QED BY <1>1, <2>1, LabelledAppend DEF Shape
<1> HIDE DEF g, n
<1>7. (IF g[1].what = "label" THEN Carrier(g[1].arg) ELSE 0) = IF D!Reached(s) THEN s ELSE 0
  <2>1. D!Reached(s) <=> slideLabels[s] # NULL
    BY ReachedIsTarget DEF Resolved
  <2>2. CASE slideLabels[s] = NULL
    BY <1>2, <1>6, <2>1, <2>2
  <2>3. CASE slideLabels[s] # NULL
    <3>1. Carrier(slideLabels[s]) = s
      BY <2>3, CarrierIs
    <3> QED BY <1>6, <2>1, <2>3, <3>1
  <2> QED BY <2>2, <2>3
<1>8. /\ Cardinality(Entries(g)) = n
      /\ \A i \in 1..n : SeenAt(g, Entry(g, i)) = D!Seen(s, i)
  <2>1. Cardinality(Entries(g)) = n
    BY <1>5 DEF Body
  <2>2. ASSUME NEW i \in 1..n PROVE SeenAt(g, Entry(g, i)) = D!Seen(s, i)
    <3>1. \E k \in Entries(g) : Rank(g, k) = i
      BY <1>5 DEF Body
    <3>2. Entry(g, i) \in Entries(g) /\ Rank(g, Entry(g, i)) = i
      BY <3>1 DEF Entry
    <3> QED BY <1>5, <3>2 DEF Body
  <2> QED BY <2>1, <2>2
<1>9. DOMAIN program[s].items = 1..n
  BY ItemsTyped DEF Resolved, n
<1>10. [i \in 1..Cardinality(Entries(g)) |-> SeenAt(g, Entry(g, i))] =
       [i \in DOMAIN program[s].items |-> D!Seen(s, i)]
  BY <1>8, <1>9
<1> DEFINE anchor == IF g[1].what = "label" THEN Carrier(g[1].arg) ELSE 0
           body == [i \in 1..Cardinality(Entries(g)) |-> SeenAt(g, Entry(g, i))]
<1>11. ReadFrame(g) = [anchor |-> anchor, body |-> body]
  BY <1>4 DEF ReadFrame
<1>12. D!Page(s) = [anchor |-> anchor, body |-> body]
  BY <1>7, <1>10 DEF D!Page
<1> HIDE DEF anchor, body
<1>13. ReadFrame(g) = D!Page(s)
  BY <1>11, <1>12
<1> QED BY <1>2, <1>3, <1>13 DEF g

-----------------------------------------------------------------------------

Writing == pc \in {"write", "items", "done"}

\* While the map is built nothing is written.
Mapping == ~Writing => IInv /\ list = "none" /\ numbered = 0 /\ out = <<>>

\* Where the writer stands.
Placed ==
  Writing =>
    /\ Resolved
    /\ slide \in 1..(Len(program) + 1) /\ item \in Nat \ {0}
    /\ pc = "items" => slide <= Len(program) /\ item <= Len(Items) + 1
    /\ list # "none" => pc = "items"
    /\ list \in Listed \cup {"none"}
    /\ numbered \in Nat /\ numbered < item
    /\ Row(out)
    /\ Len(out) = IF pc = "items" THEN slide ELSE slide - 1

Judged == AP!IInv /\ (pc # "collect" => verdict = "SUCCEEDED")

\* The frame being written, and the numbers LaTeX gives its items.
Framed ==
  pc = "items" =>
    /\ Frame(out[slide], slide, item - 1, list)
    /\ numbered = CountedTo(slide, item - 1)
    /\ list = "numbered" => Shown(out[slide]) = numbered

\* The frames written before.
Paged ==
  Writing => \A k \in 1..(slide - 1) : Closed(out[k]) /\ ReadFrame(out[k]) = D!Page(k)

Written == Mapping /\ Placed /\ Framed /\ Paged

BackendInv == Judged /\ Written

LEMMA SameAnalysis == (A!Init => AP!Init) /\ (A!Next => AP!Next)
<1> USE DEF A!Found, AP!Found, A!Absent, AP!Absent, A!Grown, AP!Grown
<1>1. A!Init => AP!Init
  BY DEF A!Init, AP!Init
<1>2. A!VisitSlide => AP!VisitSlide
  BY DEF A!VisitSlide, AP!VisitSlide
<1>3. A!VisitItem => AP!VisitItem
  BY DEF A!VisitItem, AP!VisitItem
<1>4. A!NextSlide => AP!NextSlide
  BY DEF A!NextSlide, AP!NextSlide
<1>5. A!EndSlides => AP!EndSlides
  BY DEF A!EndSlides, AP!EndSlides
<1>6. A!CheckTarget => AP!CheckTarget
  BY DEF A!CheckTarget, AP!CheckTarget, A!Known, AP!Known, A!Unknown, AP!Unknown
<1>7. A!Finish => AP!Finish
  BY DEF A!Finish, AP!Finish
<1>8. A!CompareNull => AP!CompareNull
  BY DEF A!CompareNull, AP!CompareNull, A!Known, AP!Known, A!Unknown, AP!Unknown
<1> QED
  BY <1>1, <1>2, <1>3, <1>4, <1>5, <1>6, <1>7, <1>8 DEF A!Next, AP!Next

\* What the analysis sees of a presentation is a program as it knows them.
LEMMA SamePrograms == {View(p) : p \in Programs} \subseteq Seq(AP!Slide)
<1> SUFFICES ASSUME NEW p \in Programs PROVE View(p) \in Seq(AP!Slide)
  OBVIOUS
<1>1. p \in Seq(Slide) /\ DOMAIN p = 1..Len(p) /\ Len(p) \in Nat
  BY ProgramsAssumption, LenProperties
<1>2. ASSUME NEW s \in 1..Len(p) PROVE View(p)[s] \in AP!Slide
  <2>1. p[s] \in Slide
    BY <1>1, ElementOfSeq
  <2>2. /\ p[s].items \in Seq(Item) /\ DOMAIN p[s].items = 1..Len(p[s].items)
        /\ Len(p[s].items) \in Nat
        /\ p[s].title \in Texts \cup {NULL} /\ p[s].id \in Texts \cup {NULL}
    BY <2>1, LenProperties DEF Slide
  <2> DEFINE seen == [i \in DOMAIN p[s].items |->
                       LET it == p[s].items[i]
                       IN  [type |-> IF it.kind \in {"link", "image"} THEN it.kind ELSE "other",
                            text |-> it.text]]
  <2>3. ASSUME NEW i \in 1..Len(p[s].items) PROVE seen[i] \in AP!Item
    <3>1. p[s].items[i] \in Item
      BY <2>2, ElementOfSeq
    <3> QED BY <2>2, <3>1 DEF Item, AP!Item
  <2>4. seen \in Seq(AP!Item)
    <3>1. seen = [i \in 1..Len(p[s].items) |-> seen[i]]
      BY <2>2
    <3> HIDE DEF seen
    <3>2. seen \in [1..Len(p[s].items) -> AP!Item]
      BY <2>3, <3>1
    <3> QED BY <2>2, <3>2, SeqDef
  <2>5. View(p)[s] = [title |-> p[s].title, id |-> p[s].id, items |-> seen]
    BY <1>1 DEF View
  <2> HIDE DEF seen
  <2> QED BY <2>2, <2>4, <2>5 DEF AP!Slide
<1>3. View(p) = [s \in 1..Len(p) |-> View(p)[s]]
  BY <1>1 DEF View
<1>4. View(p) \in [1..Len(p) -> AP!Slide]
  <2> DEFINE v == View(p)
  <2>1. v = [s \in 1..Len(p) |-> v[s]] /\ \A s \in 1..Len(p) : v[s] \in AP!Slide
    BY <1>2, <1>3
  <2> HIDE DEF v
  <2>2. v \in [1..Len(p) -> AP!Slide]
    BY <2>1
  <2> QED BY <2>2 DEF v
<1> QED BY <1>1, <1>4, SeqDef

LEMMA AnalysisInit == BackendInit => AP!IInv
BY SameAnalysis, SamePrograms, AP!InitInv, NullAssumption, OutcomesAssumption DEF BackendInit

LEMMA AnalysisStep == AP!IInv /\ [BackendNext]_<<vars, analysisVars>> => AP!IInv'
<1> SUFFICES ASSUME AP!IInv, [BackendNext]_<<vars, analysisVars>> PROVE AP!IInv'
  OBVIOUS
<1>1. [AP!Next]_(AP!vars)
  <2>1. CASE Analyze
    BY <2>1, SameAnalysis DEF Analyze
  <2>2. CASE Generate
    <3>1. program' = program
      BY <2>2
         DEF Generate, Next, BuildLabelMap, LabelNext, CollectItem, CollectNext, CollectEnd, Skip,
             Name, Collide, NameApart, NextSuffix, CompareNull, LabelEnd, BeginFrame, BeginList,
             ListItem, EndList, WriteItem, EndFrame, EndDocument, labelVars
    <3> QED BY <2>2, <3>1 DEF Generate, analysisVars, AP!vars
  <2>3. CASE UNCHANGED <<vars, analysisVars>>
    BY <2>3 DEF vars, labelVars, analysisVars, AP!vars
  <2> QED BY <2>1, <2>2, <2>3 DEF BackendNext
<1> QED
  BY <1>1, SamePrograms, AP!StepInv, NullAssumption, OutcomesAssumption

LEMMA ProgramKept == [BackendNext]_<<vars, analysisVars>> => program' = program
BY DEF BackendNext, Analyze, Generate, vars, Next, BuildLabelMap, LabelNext, CollectItem,
       CollectNext, CollectEnd, Skip, Name, Collide, NameApart, NextSuffix, CompareNull, LabelEnd,
       BeginFrame, BeginList, ListItem, EndList, WriteItem, EndFrame, EndDocument, labelVars

LEMMA JudgedStep ==
  Judged /\ [BackendNext]_<<vars, analysisVars>> => Judged'
<1> SUFFICES ASSUME Judged, [BackendNext]_<<vars, analysisVars>> PROVE Judged'
  OBVIOUS
<1>1. AP!IInv'
  BY AnalysisStep DEF Judged
<1>2. pc' # "collect" => verdict' = "SUCCEEDED"
  <2>1. CASE Analyze
    <3>1. CASE verdict = "SUCCEEDED"
      <4>1. at = "done"
        BY <3>1 DEF Judged, AP!IInv, AP!Progress
      <4>2. ~AP!Next
        BY <4>1 DEF AP!Next, AP!VisitSlide, AP!VisitItem, AP!NextSlide, AP!EndSlides,
                    AP!CheckTarget, AP!Finish, AP!CompareNull
      <4> QED BY <2>1, <4>2, SameAnalysis DEF Analyze
    <3>2. CASE verdict # "SUCCEEDED"
      BY <2>1, <3>2 DEF Analyze, Judged, vars, labelVars
    <3> QED BY <3>1, <3>2
  <2>2. CASE Generate
    BY <2>2 DEF Generate, analysisVars
  <2>3. CASE UNCHANGED <<vars, analysisVars>>
    BY <2>3 DEF Judged, vars, labelVars, analysisVars
  <2> QED BY <2>1, <2>2, <2>3 DEF BackendNext
<1> QED BY <1>1, <1>2 DEF Judged

\* Resolved speaks of the presentation, the labels and the map only.
LEMMA ResolvedKept ==
  ASSUME Resolved, UNCHANGED <<program, slideLabels, map>>
  PROVE  Resolved'
<1>1. \A name : Bearers(name)' = Bearers(name) /\ (Linked(name)' <=> Linked(name))
  BY DEF Bearers, Linked
<1>2. \A name : ResolveLabel(name)' = ResolveLabel(name)
  BY DEF ResolveLabel
<1>3. \A s : IsTarget(s)' <=> IsTarget(s)
  BY <1>1 DEF IsTarget
<1>4. LabelsUnique'
  BY DEF Resolved, LabelsUnique
<1> QED BY <1>1, <1>2, <1>3, <1>4 DEF Resolved

\* What the finished map holds.
LEMMA ResolvedWhenComplete == IInv /\ pc = "write" => Resolved
<1> SUFFICES ASSUME IInv, pc = "write" PROVE Resolved
  OBVIOUS
<1>1. DOMAIN slideLabels = DOMAIN program
      /\ \A s \in DOMAIN program : slideLabels[s] # NULL <=> IsTarget(s)
  BY WhenComplete DEF IInv, LabelledSo
<1> QED BY <1>1, FirstBearerFound DEF IInv, Resolved

\* What the analysis accepts has a slide for every link.
LEMMA AcceptedBorne ==
  ASSUME Judged, pc # "collect", program \in Programs,
         NEW s \in DOMAIN program, NEW i \in DOMAIN program[s].items,
         program[s].items[i].kind = "link"
  PROVE  LET name == program[s].items[i].text
         IN  name \in Texts /\ Linked(name) /\ Bearers(name) # {}
<1> DEFINE it == program[s].items[i]
<1>1. AP!ItemsSound
  BY SamePrograms, AP!AcceptedSound, NullAssumption, OutcomesAssumption
     DEF Judged, AP!AcceptedLinksResolve
<1>2. it \in Item /\ it.text \in Texts \cup {NULL}
  BY ItemsTyped DEF Item
<1>3. /\ View(program)[s].items[i].type = "link" /\ View(program)[s].items[i].text = it.text
      /\ DOMAIN View(program) = DOMAIN program
      /\ DOMAIN View(program)[s].items = DOMAIN program[s].items
      /\ \A r \in DOMAIN program : /\ View(program)[r].title = program[r].title
                                   /\ View(program)[r].id = program[r].id
  BY DEF View
<1>4. AP!Named(it.text)
  BY <1>1, <1>3 DEF AP!ItemsSound, AP!Bad
<1>5. PICK r \in DOMAIN program : it.text # NULL /\ it.text \in {program[r].id, program[r].title}
  BY <1>3, <1>4 DEF AP!Named
<1>6. it = [kind |-> "link", text |-> it.text]
  BY <1>2 DEF Item
<1> QED BY <1>2, <1>5, <1>6 DEF Linked, Bearers

\* Building the map: nothing is written, and in the end the writer can start.
LEMMA MappingStep ==
  ASSUME Written, BuildLabelMap
  PROVE  Written'
<1>1. ~Writing
  <2>1. pc \in {"collect", "label", "suffix"}
    BY DEF BuildLabelMap, LabelNext, CollectItem, CollectNext, CollectEnd, Skip, Name, Collide,
           NameApart, NextSuffix, CompareNull, LabelEnd
  <2> QED BY <2>1 DEF Writing
<1>2. IInv' /\ list' = "none" /\ numbered' = 0 /\ out' = <<>> /\ program' = program
  BY <1>1, NextInv
     DEF Written, Mapping, BuildLabelMap, writerVars, LabelNext, CollectItem, CollectNext,
         CollectEnd, Skip, Name, Collide, NameApart, NextSuffix, CompareNull, LabelEnd
<1>3. ASSUME Writing' PROVE pc' = "write" /\ slide' = 1
  BY <1>1, <1>3 DEF Writing, BuildLabelMap, LabelNext, CollectItem, CollectNext, CollectEnd, Skip,
     Name, Collide, NameApart, NextSuffix, CompareNull, LabelEnd
<1>4. ASSUME Writing' PROVE Resolved'
  <2>1. (IInv /\ pc = "write" => Resolved)'
    BY ResolvedWhenComplete, PTL
  <2> QED BY <1>2, <1>3, <1>4, <2>1
<1>5. Len(program') \in Nat /\ item' \in Nat \ {0}
  <2>1. program' \in Seq(Slide) /\ item' \in Nat \ {0}
    BY <1>2 DEF IInv, LabelTypeOK
  <2> QED BY <2>1, LenProperties
<1>6. Row(out') /\ Len(out') = 0
  BY <1>2 DEF Row
<1>7. Mapping' /\ Placed'
  BY <1>2, <1>3, <1>4, <1>5, <1>6 DEF Mapping, Placed, Writing
<1>8. Framed' /\ Paged'
  BY <1>3 DEF Framed, Paged, Writing
<1> QED BY <1>7, <1>8 DEF Written

-----------------------------------------------------------------------------

(***************************************************************************)
(* The steps of the writer.                                                *)
(***************************************************************************)
LEMMA OneMore ==
  ASSUME NEW f, Row(f), NEW e
  PROVE  f \o <<e>> = Append(f, e)
<1> DEFINE S == {f[k] : k \in 1..Len(f)} \cup {e}
           n == Len(f)
<1>1. f \in Seq(S) /\ <<e>> \in Seq(S) /\ e \in S /\ n \in Nat
  <2>1. \A k \in 1..n : f[k] \in S
    OBVIOUS
  <2>2. e \in S
    OBVIOUS
  <2> HIDE DEF S
  <2>3. n \in Nat /\ f \in [1..n -> S]
    BY <2>1 DEF Row
  <2> QED BY <2>2, <2>3, SeqDef
<1> HIDE DEF S
<1>2. /\ f \o <<e>> \in Seq(S) /\ Len(f \o <<e>>) = n + 1
      /\ \A i \in 1..(n + 1) : (f \o <<e>>)[i] = IF i <= n THEN f[i] ELSE <<e>>[i - n]
  <2>1. Len(<<e>>) = 1
    OBVIOUS
  <2> QED BY <1>1, <2>1, ConcatProperties
<1>3. /\ Append(f, e) \in Seq(S) /\ Len(Append(f, e)) = n + 1
      /\ \A i \in 1..n : Append(f, e)[i] = f[i]
      /\ Append(f, e)[n + 1] = e
  BY <1>1, AppendProperties
<1>4. \A i \in 1..(n + 1) : (f \o <<e>>)[i] = Append(f, e)[i]
  <2>1. (f \o <<e>>)[n + 1] = e
    <3>1. (f \o <<e>>)[n + 1] = <<e>>[n + 1 - n] /\ n + 1 - n = 1
      BY <1>1, <1>2
    <3> QED BY <3>1
  <2>2. \A i \in 1..n : (f \o <<e>>)[i] = f[i]
    BY <1>1, <1>2
  <2> QED BY <1>1, <1>3, <2>1, <2>2
<1> DEFINE a == f \o <<e>>
           b == Append(f, e)
<1>5. a \in [1..(n + 1) -> S] /\ b \in [1..(n + 1) -> S] /\ \A i \in 1..(n + 1) : a[i] = b[i]
  BY <1>2, <1>3, <1>4, LenProperties
<1> HIDE DEF a, b
<1>6. a = b
  BY <1>5
<1> QED BY <1>6 DEF a, b

LEMMA Pairs ==
  ASSUME NEW e, NEW a
  PROVE  <<e>> \o <<>> = <<e>> /\ <<e>> \o <<a>> = <<e, a>>
<1>1. Row(<<e>>) /\ Append(<<e>>, a) = <<e, a>>
  <2>1. Row(<<>>) /\ Append(<<>>, e) = <<e>>
    BY DEF Row
  <2>2. Row(<<e>>)
    <3>1. Row(Append(<<>>, e))
      BY <2>1, RowAppend
    <3> QED BY <2>1, <3>1
  <2> DEFINE x == Append(<<e>>, a)
             y == <<e, a>>
  <2>3. <<e>> \in Seq({e, a}) /\ y \in Seq({e, a}) /\ Len(<<e>>) = 1 /\ Len(y) = 2
        /\ <<e>>[1] = e /\ y[1] = e /\ y[2] = a
    OBVIOUS
  <2>4. x \in Seq({e, a}) /\ Len(x) = 2 /\ x[1] = e /\ x[2] = a
    <3>1. x \in Seq({e, a}) /\ Len(x) = 1 + 1 /\ (\A i \in 1..1 : x[i] = <<e>>[i]) /\ x[1 + 1] = a
      BY <2>3, AppendProperties
    <3> QED BY <2>3, <3>1
  <2>5. x \in [1..2 -> {e, a}] /\ y \in [1..2 -> {e, a}]
    BY <2>3, <2>4, LenProperties
  <2> HIDE DEF x, y
  <2>6. \A i \in 1..2 : x[i] = y[i]
    BY <2>3, <2>4
  <2>7. x = y
    BY <2>5, <2>6
  <2> QED BY <2>2, <2>7 DEF x, y
<1>2. <<e>> \o <<a>> = <<e, a>>
  BY <1>1, OneMore
<1>3. <<e>> \o <<>> = <<e>>
  <2> DEFINE x == <<e>> \o <<>>
             y == <<e>>
  <2>1. y \in Seq({e}) /\ <<>> \in Seq({e}) /\ Len(y) = 1 /\ Len(<<>>) = 0
    OBVIOUS
  <2>2. x \in Seq({e}) /\ Len(x) = 1 + 0
    BY <2>1, ConcatProperties
  <2>3. x \in [1..1 -> {e}] /\ y \in [1..1 -> {e}]
    BY <2>1, <2>2, LenProperties
  <2> HIDE DEF x, y
  <2>4. x = y
    BY <2>3
  <2> QED BY <2>4 DEF x, y
<1> QED BY <1>2, <1>3

LEMMA TwoMore ==
  ASSUME NEW f, Row(f), NEW e, NEW a
  PROVE  f \o <<e, a>> = Append(Append(f, e), a)
<1>1. f \o <<e>> = Append(f, e)
  BY OneMore
<1>2. Append(f, e) \o <<a>> = Append(Append(f, e), a)
  BY RowAppend, OneMore
<1>3. (f \o <<e>>) \o <<a>> = f \o <<e, a>>
  <2> DEFINE S == {f[k] : k \in 1..Len(f)} \cup {e, a}
  <2>1. f \in Seq(S) /\ e \in S /\ a \in S
    <3>1. \A k \in 1..Len(f) : f[k] \in S
      OBVIOUS
    <3>2. e \in S /\ a \in S
      OBVIOUS
    <3> HIDE DEF S
    <3>3. Len(f) \in Nat /\ f \in [1..Len(f) -> S]
      BY <3>1 DEF Row
    <3> QED BY <3>2, <3>3, SeqDef
  <2> HIDE DEF S
  <2> DEFINE n == Len(f)
             x == (f \o <<e>>) \o <<a>>
             y == f \o <<e, a>>
  <2>2. /\ <<e>> \in Seq(S) /\ <<a>> \in Seq(S) /\ <<e, a>> \in Seq(S) /\ n \in Nat
        /\ Len(<<e>>) = 1 /\ Len(<<a>>) = 1 /\ Len(<<e, a>>) = 2
        /\ <<e>>[1] = e /\ <<a>>[1] = a /\ <<e, a>>[1] = e /\ <<e, a>>[2] = a
    BY <2>1
  <2>3. /\ f \o <<e>> \in Seq(S) /\ Len(f \o <<e>>) = n + 1
        /\ \A i \in 1..(n + 1) : (f \o <<e>>)[i] = IF i <= n THEN f[i] ELSE <<e>>[i - n]
    BY <2>1, <2>2, ConcatProperties
  <2>4. /\ x \in Seq(S) /\ Len(x) = n + 2
        /\ \A i \in 1..(n + 2) : x[i] = IF i <= n + 1 THEN (f \o <<e>>)[i] ELSE <<a>>[i - (n + 1)]
    <3> DEFINE fe == f \o <<e>>
    <3>1. x = fe \o <<a>> /\ fe \in Seq(S) /\ Len(fe) = n + 1
      BY <2>3
    <3> HIDE DEF fe, x, n
    <3>2. /\ x \in Seq(S) /\ Len(x) = n + 1 + 1
          /\ \A i \in 1..(n + 1 + 1) : x[i] = IF i <= n + 1 THEN fe[i] ELSE <<a>>[i - (n + 1)]
      BY <2>2, <3>1, ConcatProperties
    <3>3. n + 1 + 1 = n + 2
      BY <2>2
    <3> QED BY <3>2, <3>3 DEF fe
  <2>5. /\ y \in Seq(S) /\ Len(y) = n + 2
        /\ \A i \in 1..(n + 2) : y[i] = IF i <= n THEN f[i] ELSE <<e, a>>[i - n]
    BY <2>1, <2>2, ConcatProperties
  <2> HIDE DEF x, y, n
  <2>6. \A i \in 1..(n + 2) : x[i] = y[i]
    <3> SUFFICES ASSUME NEW i \in 1..(n + 2) PROVE x[i] = y[i]
      OBVIOUS
    <3>1. CASE i \in 1..n
      BY <2>2, <2>3, <2>4, <2>5, <3>1
    <3>2. CASE i = n + 1
      <4>1. i - n = 1 /\ i \in 1..(n + 1) /\ ~(i <= n) /\ i <= n + 1
        BY <2>2, <3>2
      <4> QED BY <2>2, <2>3, <2>4, <2>5, <4>1
    <3>3. CASE i = n + 2
      <4>1. i - n = 2 /\ i - (n + 1) = 1 /\ ~(i <= n) /\ ~(i <= n + 1)
        BY <2>2, <3>3
      <4> QED BY <2>2, <2>4, <2>5, <4>1
    <3> QED BY <2>2, <3>1, <3>2, <3>3
  <2>7. x \in [1..(n + 2) -> S] /\ y \in [1..(n + 2) -> S]
    BY <2>4, <2>5, LenProperties
  <2>8. x = y
    BY <2>2, <2>6, <2>7
  <2> QED BY <2>8 DEF x, y
<1> QED BY <1>1, <1>2, <1>3

LEMMA RowFilled ==
  ASSUME NEW f, Row(f), f # <<>>
  PROVE  Len(f) \in DOMAIN f
<1>1. Len(f) \in Nat /\ DOMAIN f = 1..Len(f)
  BY DEF Row
<1>2. Len(f) # 0
  BY DEF Row
<1> QED BY <1>1, <1>2

\* The frame on which nothing stands yet, and the one with a label.
LEMMA FrameBegun ==
  ASSUME NEW s, NEW f,
         f = IF slideLabels[s] = NULL THEN <<>> ELSE Event("label", slideLabels[s])
  PROVE  Frame(f, s, 0, "none")
<1> DEFINE e == [what |-> "label", arg |-> slideLabels[s]]
<1>1. Row(<<>>) /\ Len(<<>>) = 0 /\ DOMAIN <<>> = {}
  BY DEF Row
<1>2. EndsIn(<<>>) = "none"
  <2>1. Latest(<<>>, Len(<<>>) + 1, {"begin", "end"}) \in 0..(0 + 1 - 1)
    BY <1>1, LatestIs
  <2>2. Latest(<<>>, Len(<<>>) + 1, {"begin", "end"}) = 0
    BY <2>1
  <2> QED BY <2>2 DEF EndsIn, Within
<1>3. Entries(<<>>) = {} /\ Cardinality(Entries(<<>>)) = 0
  BY <1>1, FS_EmptySet DEF Entries
<1>4. CASE slideLabels[s] = NULL
  <2>1. f = <<>>
    BY <1>4
  <2>2. Shape(f, s, "none")
    BY <1>1, <1>2, <1>4, <2>1 DEF Shape, Nested
  <2>3. Body(f, s, 0)
    BY <1>3, <2>1 DEF Body
  <2> QED BY <2>2, <2>3 DEF Frame
<1>5. CASE slideLabels[s] # NULL
  <2>1. f = Append(<<>>, e)
    BY <1>5 DEF Event
  <2>2. Row(f) /\ Len(f) = 1 /\ DOMAIN f = 1..1 /\ f[1] = e
    <3>1. /\ Row(Append(<<>>, e)) /\ Len(Append(<<>>, e)) = Len(<<>>) + 1
          /\ DOMAIN Append(<<>>, e) = 1..(Len(<<>>) + 1)
          /\ Append(<<>>, e)[Len(<<>>) + 1] = e
      BY <1>1, RowAppend
    <3> QED BY <1>1, <2>1, <3>1
  <2>3. Nested(f)
    <3>1. Nested(<<>>) /\ Fits(e, "none")
      BY <1>1 DEF Nested, Fits
    <3> QED BY <1>1, <1>2, <2>1, <3>1, NestedAppend
  <2>4. EndsIn(f) = "none"
    <3>1. EndsIn(f) = CASE e.what = "begin" -> e.arg [] e.what = "end" -> "none"
                        [] OTHER -> EndsIn(<<>>)
      BY <1>1, <2>1, WithinEnd
    <3> QED BY <1>2, <3>1
  <2>5. Shape(f, s, "none")
    BY <1>5, <2>2, <2>3, <2>4 DEF Shape
  <2>6. Entries(f) = {}
    BY <2>2 DEF Entries
  <2>7. Body(f, s, 0)
    <3>1. Cardinality(Entries(f)) = 0
      BY <2>6, FS_EmptySet
    <3> QED BY <2>6, <3>1 DEF Body
  <2> QED BY <2>5, <2>7 DEF Frame
<1> QED BY <1>4, <1>5

(***************************************************************************)
(* What is said of a frame depends on the presentation and the labels only.*)
(***************************************************************************)
LEMMA FrameStays ==
  ASSUME UNCHANGED <<program, slideLabels>>, NEW f, NEW s, NEW n, NEW l
  PROVE  /\ Frame(f, s, n, l)' <=> Frame(f, s, n, l)
         /\ CountedTo(s, n)' = CountedTo(s, n)
         /\ ReadFrame(f)' = ReadFrame(f)
         /\ D!Page(s)' = D!Page(s)
<1>1. \A k : SeenAt(f, k)' = SeenAt(f, k)
  BY DEF SeenAt, Carrier
<1>2. \A i : D!Seen(s, i)' = D!Seen(s, i)
  BY DEF D!Seen, D!FirstBearer, D!Bears
<1>3. Body(f, s, n)' <=> Body(f, s, n)
  BY <1>1, <1>2 DEF Body
<1>4. Shape(f, s, l)' <=> Shape(f, s, l)
  BY DEF Shape
<1>5. ReadFrame(f)' = ReadFrame(f)
  BY <1>1 DEF ReadFrame, Carrier
<1>6. D!Page(s)' = D!Page(s)
  BY <1>2 DEF D!Page, D!Reached, D!Bears
<1>7. CountedTo(s, n)' = CountedTo(s, n)
  BY DEF CountedTo
<1> QED BY <1>3, <1>4, <1>5, <1>6, <1>7 DEF Frame

LEMMA PagedStays ==
  ASSUME Paged, Writing, UNCHANGED <<program, slideLabels, slide, out>>
  PROVE  Paged'
<1>1. ASSUME NEW k \in 1..(slide - 1)
      PROVE  Closed(out'[k]) /\ ReadFrame(out[k])' = D!Page(k)'
  <2>1. PICK f : f = out[k]
    OBVIOUS
  <2>2. Closed(f) /\ ReadFrame(f) = D!Page(k)
    BY <2>1 DEF Paged
  <2>3. ReadFrame(f)' = D!Page(k)'
    BY <2>2, FrameStays
  <2> QED BY <2>1, <2>2, <2>3
<1> QED BY <1>1 DEF Paged

LEMMA LastReplaced ==
  ASSUME Row(out), Len(out) \in Nat \ {0}, NEW g, out' = [out EXCEPT ![Len(out)] = g]
  PROVE  /\ Row(out') /\ Len(out') = Len(out)
         /\ out'[Len(out)] = g
         /\ \A k \in 1..(Len(out) - 1) : out'[k] = out[k]
<1> DEFINE n == Len(out)
           o == [k \in 1..n |-> IF k = n THEN g ELSE out[k]]
<1>1. out' = o
  BY DEF Row
<1>2. n \in Nat \ {0} /\ n = Len(out)
  OBVIOUS
<1>3. o = [k \in 1..n |-> o[k]] /\ \A k \in 1..n : o[k] = IF k = n THEN g ELSE out[k]
  OBVIOUS
<1> HIDE DEF n, o
<1>4. Len(o) = n
  BY <1>2, <1>3
<1>5. Row(o)
  BY <1>2, <1>3, <1>4 DEF Row
<1>6. o[n] = g /\ \A k \in 1..(n - 1) : o[k] = out[k]
  BY <1>2, <1>3
<1> QED BY <1>1, <1>2, <1>4, <1>5, <1>6

(***************************************************************************)
(* An emit within the frame: all that is to be shown of a step of the      *)
(* writer is what it makes of the frame and of the counters.               *)
(***************************************************************************)
LEMMA EmitStep ==
  ASSUME Written, pc = "items", pc' = "items",
         UNCHANGED <<program, slide, slideLabels, map>>,
         NEW g, out' = [out EXCEPT ![Len(out)] = g],
         NEW i, i = item', i \in Nat \ {0}, i <= Len(Items) + 1,
         NEW l, l = list', l \in Listed \cup {"none"},
         NEW c, c = numbered', c \in Nat, c < i,
         Frame(g, slide, i - 1, l),
         c = CountedTo(slide, i - 1),
         l = "numbered" => Shown(g) = c
  PROVE  Written'
<1>1. /\ Resolved /\ slide \in 1..Len(program) /\ Len(program) \in Nat
      /\ Row(out) /\ Len(out) = slide
  BY ItemsTyped DEF Written, Placed, Writing, Resolved
<1>2. /\ Row(out') /\ Len(out') = slide
      /\ out'[slide] = g
      /\ \A k \in 1..(slide - 1) : out'[k] = out[k]
  <2>1. Len(out) \in Nat \ {0} /\ Row(out)
    BY <1>1
  <2>2. /\ Row(out') /\ Len(out') = Len(out) /\ out'[Len(out)] = g
        /\ \A k \in 1..(Len(out) - 1) : out'[k] = out[k]
    BY <2>1, LastReplaced
  <2> QED BY <1>1, <2>2
<1>3. Mapping'
  BY DEF Mapping, Writing
<1>4. Resolved'
  BY <1>1, ResolvedKept
<1>5. Items' = Items
  BY DEF Items
<1>6. Placed'
  BY <1>1, <1>2, <1>4, <1>5 DEF Placed, Writing
<1>7. PICK s : s = slide
  OBVIOUS
<1>8. Framed'
  <2>1. Frame(g, s, i - 1, l)' /\ CountedTo(s, i - 1)' = c
    BY <1>7, FrameStays
  <2>2. Shown(g) = Shown(g)'
    OBVIOUS
  <2> QED BY <1>2, <1>7, <2>1 DEF Framed
<1>9. Paged'
  <2>1. ASSUME NEW k \in 1..(slide - 1)
        PROVE  Closed(out'[k]) /\ (ReadFrame(out[k]))' = D!Page(k)'
    <3>1. PICK f : f = out[k]
      OBVIOUS
    <3>2. out'[k] = f /\ Closed(f) /\ ReadFrame(f) = D!Page(k)
      BY <1>2, <3>1 DEF Written, Paged, Writing
    <3>3. ReadFrame(f)' = D!Page(k)'
      BY <3>2, FrameStays
    <3> QED BY <3>2, <3>3
  <2> QED BY <2>1 DEF Paged
<1> QED BY <1>3, <1>6, <1>8, <1>9 DEF Written

\* What the steps within a frame start from.
LEMMA InFrame ==
  ASSUME Written, pc = "items"
  PROVE  /\ Resolved /\ slide \in DOMAIN program /\ Items = program[slide].items
         /\ DOMAIN Items = 1..Len(Items) /\ Len(Items) \in Nat
         /\ item \in Nat \ {0} /\ item <= Len(Items) + 1
         /\ numbered \in Nat /\ numbered < item
         /\ list \in Listed \cup {"none"}
         /\ Row(out) /\ Len(out) = slide /\ slide \in Nat \ {0}
         /\ Frame(out[slide], slide, item - 1, list) /\ Row(out[slide])
         /\ numbered = CountedTo(slide, item - 1)
         /\ list = "numbered" => Shown(out[slide]) = numbered
<1>1. Resolved /\ slide \in 1..Len(program) /\ program \in Programs
  BY ItemsTyped DEF Written, Placed, Writing, Resolved
<1>2. /\ slide \in DOMAIN program /\ slide \in Nat \ {0}
      /\ DOMAIN Items = 1..Len(Items) /\ Len(Items) \in Nat
  <2>1. DOMAIN program = 1..Len(program) /\ Len(program) \in Nat
    BY <1>1, ProgramType, LenProperties
  <2> QED BY <1>1, <2>1, ItemsTyped DEF Items
<1>3. Row(out[slide])
  BY DEF Written, Framed, Frame, Shape
<1> QED BY <1>1, <1>2, <1>3 DEF Written, Placed, Writing, Framed, Items

LEMMA BeginListStep == Written /\ BeginList => Written'
<1> SUFFICES ASSUME Written, BeginList PROVE Written'
  OBVIOUS
<1> DEFINE f == out[slide]
           kind == Items[item].kind
           b == [what |-> "begin", arg |-> kind]
           c == [what |-> "setcounter", arg |-> numbered]
           g == IF kind = "numbered" /\ numbered > 0 THEN Append(Append(f, b), c) ELSE Append(f, b)
<1>1. pc = "items" /\ list = "none" /\ kind \in Listed /\ item <= Len(Items)
  BY DEF BeginList
<1>2. Frame(f, slide, item - 1, "none") /\ Row(f) /\ numbered \in Nat
  BY <1>1, InFrame
<1>3. Frame(Append(f, b), slide, item - 1, kind)
  <2>1. b.what = "begin" /\ b.arg = kind /\ Fits(b, "none")
    BY DEF Fits
  <2> HIDE DEF b, f
  <2> QED BY <1>2, <2>1, FrameList
<1>4. ASSUME kind = "numbered" PROVE Frame(Append(Append(f, b), c), slide, item - 1, kind)
  <2>1. c.what = "setcounter" /\ c.arg \in Nat /\ Fits(c, kind)
    BY <1>2, <1>4 DEF Fits
  <2> DEFINE h == Append(f, b)
  <2> HIDE DEF b, c, h
  <2> QED BY <1>3, <2>1, FrameList DEF h
<1>5. Frame(g, slide, item - 1, kind)
  BY <1>3, <1>4
<1>6. kind = "numbered" => Shown(g) = numbered
  <2>1. Row(Append(f, b)) /\ Shown(Append(f, b)) = 0
    BY <1>2, RowAppend, ShownStart
  <2>2. ASSUME kind = "numbered", numbered > 0 PROVE Shown(g) = numbered
    <3> DEFINE h == Append(f, b)
    <3>1. g = Append(h, c) /\ c.what = "setcounter" /\ c.arg = numbered /\ Row(h)
      BY <2>1, <2>2
    <3> HIDE DEF g, h, c
    <3> QED BY <1>2, <3>1, ShownStart
  <2>3. ASSUME ~(numbered > 0) PROVE Shown(g) = numbered
    BY <1>2, <2>1, <2>3
  <2> QED BY <2>2, <2>3
<1>7. out' = [out EXCEPT ![Len(out)] = g]
  <2>1. f \o <<b>> = Append(f, b) /\ f \o <<b, c>> = Append(Append(f, b), c)
    BY <1>2, OneMore, TwoMore
  <2>2. list' = kind /\ out' = [out EXCEPT ![Len(out)] = @ \o (<<b>> \o
            (IF kind = "numbered" /\ numbered > 0 THEN <<c>> ELSE <<>>))]
    BY DEF BeginList, Emit, Event
  <2>3. <<b>> \o <<c>> = <<b, c>> /\ <<b>> \o <<>> = <<b>>
    BY Pairs
  <2>4. out[Len(out)] = f
    BY <1>1, InFrame
  <2> HIDE DEF f, b, c, kind
  <2>5. CASE kind = "numbered" /\ numbered > 0
    BY <2>1, <2>2, <2>3, <2>4, <2>5
  <2>6. CASE ~(kind = "numbered" /\ numbered > 0)
    BY <2>1, <2>2, <2>3, <2>4, <2>6
  <2> QED BY <2>5, <2>6
<1>8. /\ item' = item /\ list' = kind /\ numbered' = numbered /\ pc' = "items"
      /\ UNCHANGED <<program, slide, slideLabels, map>>
  BY <1>1 DEF BeginList, labelVars
<1> HIDE DEF f, kind, g, b, c
<1>9. /\ item' \in Nat \ {0} /\ item' <= Len(Items) + 1 /\ list' \in Listed \cup {"none"}
      /\ numbered' \in Nat /\ numbered' < item'
      /\ numbered' = CountedTo(slide, item' - 1)
  BY <1>1, <1>8, InFrame
<1>10. Frame(g, slide, item' - 1, list') /\ (list' = "numbered" => Shown(g) = numbered')
  BY <1>5, <1>6, <1>8
<1>11. pc = "items" /\ pc' = "items" /\ UNCHANGED <<program, slide, slideLabels, map>>
  BY <1>1, <1>8
<1>12. PICK h : h = g
  OBVIOUS
<1>13. /\ out' = [out EXCEPT ![Len(out)] = h]
       /\ Frame(h, slide, item' - 1, list')
       /\ list' = "numbered" => Shown(h) = numbered'
  BY <1>7, <1>10, <1>12
<1>14. \A i, l, k :
         /\ i = item' /\ i \in Nat \ {0} /\ i <= Len(Items) + 1
         /\ l = list' /\ l \in Listed \cup {"none"}
         /\ k = numbered' /\ k \in Nat /\ k < i
         /\ Frame(h, slide, i - 1, l)
         /\ k = CountedTo(slide, i - 1)
         /\ l = "numbered" => Shown(h) = k
         => Written'
  BY <1>11, <1>13, EmitStep
<1> QED BY <1>9, <1>13, <1>14

LEMMA ListItemStep == Written /\ ListItem => Written'
<1> SUFFICES ASSUME Written, ListItem PROVE Written'
  OBVIOUS
<1> DEFINE f == out[slide]
           e == [what |-> "item", arg |-> item]
           g == Append(f, e)
           n == item - 1
<1>1. /\ pc = "items" /\ list # "none" /\ item <= Len(Items) /\ Items[item].kind = list
      /\ item' = item + 1 /\ list' = list /\ pc' = "items"
      /\ numbered' = IF list = "numbered" THEN numbered + 1 ELSE numbered
      /\ UNCHANGED <<program, slide, slideLabels, map>>
  BY DEF ListItem, Continues
<1>2. /\ Frame(f, slide, n, list) /\ Row(f) /\ list \in Listed /\ n \in Nat /\ n + 1 = item
      /\ item \in Nat /\ numbered \in Nat /\ numbered < item
      /\ numbered = CountedTo(slide, n) /\ Items = program[slide].items
      /\ list = "numbered" => Shown(f) = numbered
  BY <1>1, InFrame
<1>3. /\ Frame(g, slide, n + 1, list)
      /\ list = "numbered" => Shown(g) = CountedTo(slide, n + 1)
  <2>1. program[slide].items[n + 1].kind = list
    BY <1>1, <1>2
  <2>2. list = "numbered" => Shown(f) = CountedTo(slide, n)
    BY <1>2
  <2>3. e = [what |-> "item", arg |-> n + 1]
    BY <1>2
  <2> HIDE DEF f, e, n
  <2> QED BY <1>2, <2>1, <2>2, <2>3, FrameItem
<1>4. numbered' = CountedTo(slide, n + 1)
  <2>1. program[slide].items[n + 1].kind = list
    BY <1>1, <1>2
  <2> HIDE DEF n
  <2> QED BY <1>1, <1>2, <2>1, CountedNext
<1>5. out' = [out EXCEPT ![Len(out)] = g]
  <2>1. out' = [out EXCEPT ![Len(out)] = @ \o <<e>>]
    BY DEF ListItem, Emit, Event
  <2>2. out[Len(out)] = f /\ f \o <<e>> = g
    BY <1>1, <1>2, InFrame, OneMore
  <2> HIDE DEF e, f, g
  <2> QED BY <2>1, <2>2
<1> HIDE DEF f, g
<1>6. /\ item' \in Nat \ {0} /\ item' <= Len(Items) + 1 /\ list' \in Listed \cup {"none"}
      /\ numbered' \in Nat /\ numbered' < item'
  BY <1>1, <1>2, InFrame
<1>7. item' - 1 = n + 1
  BY <1>1, <1>2
<1>8. /\ Frame(g, slide, item' - 1, list') /\ numbered' = CountedTo(slide, item' - 1)
      /\ list' = "numbered" => Shown(g) = numbered'
  BY <1>1, <1>3, <1>4, <1>7
<1> QED BY <1>1, <1>5, <1>6, <1>8, EmitStep

LEMMA EndListStep == Written /\ EndList => Written'
<1> SUFFICES ASSUME Written, EndList PROVE Written'
  OBVIOUS
<1> DEFINE f == out[slide]
           e == [what |-> "end", arg |-> list]
           g == Append(f, e)
<1>1. /\ pc = "items" /\ list # "none" /\ item' = item /\ list' = "none" /\ pc' = "items"
      /\ numbered' = numbered
      /\ UNCHANGED <<program, slide, slideLabels, map>>
  BY DEF EndList, labelVars
<1>2. Frame(f, slide, item - 1, list) /\ Row(f) /\ list \in Listed
  BY <1>1, InFrame
<1>3. Frame(g, slide, item - 1, "none")
  <2>1. e.what = "end" /\ Fits(e, list) /\ e.arg # "frame"
    BY <1>1, <1>2 DEF Fits, Listed
  <2> HIDE DEF e, f
  <2> QED BY <1>2, <2>1, FrameList
<1>4. out' = [out EXCEPT ![Len(out)] = g]
  <2>1. out' = [out EXCEPT ![Len(out)] = @ \o <<e>>]
    BY DEF EndList, Emit, Event
  <2>2. out[Len(out)] = f /\ f \o <<e>> = g
    BY <1>1, <1>2, InFrame, OneMore
  <2> HIDE DEF e, f, g
  <2> QED BY <2>1, <2>2
<1> HIDE DEF f, g
<1>5. /\ item' \in Nat \ {0} /\ item' <= Len(Items) + 1 /\ list' \in Listed \cup {"none"}
      /\ numbered' \in Nat /\ numbered' < item'
      /\ numbered' = CountedTo(slide, item' - 1)
  BY <1>1, InFrame
<1>6. Frame(g, slide, item' - 1, list') /\ (list' = "numbered" => Shown(g) = numbered')
  BY <1>1, <1>3
<1> QED BY <1>1, <1>4, <1>5, <1>6, EmitStep

\* An accepted presentation has no link without a target.
LEMMA WriteItemStep == Judged /\ Written /\ WriteItem => Written'
<1> SUFFICES ASSUME Judged, Written, WriteItem PROVE Written'
  OBVIOUS
<1> DEFINE f == out[slide]
           it == Items[item]
           label == ResolveLabel(it.text)
           n == item - 1
           e == [what |-> "plain", arg |-> item]
           a == [what |-> "hyperlink", arg |-> label]
           g == IF it.kind = "link" THEN Append(Append(f, e), a) ELSE Append(f, e)
<1>1. /\ pc = "items" /\ list = "none" /\ item <= Len(Items) /\ it.kind \notin Listed
      /\ item' = item + 1 /\ list' = list /\ pc' = "items" /\ numbered' = numbered
      /\ UNCHANGED <<program, slide, slideLabels, map>>
  BY DEF WriteItem
<1>2. /\ Frame(f, slide, n, "none") /\ Row(f) /\ n \in Nat /\ n + 1 = item
      /\ item \in Nat /\ numbered \in Nat /\ numbered < item
      /\ numbered = CountedTo(slide, n) /\ Items = program[slide].items
      /\ item \in DOMAIN program[slide].items /\ slide \in DOMAIN program /\ Resolved
  BY <1>1, InFrame
<1>3. ASSUME it.kind = "link"
      PROVE  it.text # NULL /\ label # NULL /\ Carrier(label) = D!FirstBearer(it.text)
  <2>1. program \in Programs
    BY <1>2 DEF Resolved
  <2>2. it.text \in Texts /\ Linked(it.text) /\ Bearers(it.text) # {}
    BY <1>1, <1>2, <1>3, <2>1, AcceptedBorne
  <2> QED BY <1>2, <2>2, LinkLeads, NullAssumption
<1>4. Frame(g, slide, n + 1, "none")
  <2>1. CASE it.kind = "link"
    <3>1. /\ program[slide].items[n + 1].kind = "link"
          /\ Carrier(label) = D!FirstBearer(program[slide].items[n + 1].text)
      BY <1>2, <1>3, <2>1
    <3>2. e = [what |-> "plain", arg |-> n + 1] /\ a = [what |-> "hyperlink", arg |-> label]
      BY <1>2
    <3>3. g = Append(Append(f, e), a)
      BY <2>1
    <3> HIDE DEF f, e, a, n, g, label
    <3> QED BY <1>2, <3>1, <3>2, <3>3, FrameLink
  <2>2. CASE it.kind # "link"
    <3>1. program[slide].items[n + 1].kind \notin Listed \cup {"link"}
      BY <1>1, <1>2, <2>2
    <3>2. e = [what |-> "plain", arg |-> n + 1]
      BY <1>2
    <3>3. g = Append(f, e)
      BY <2>2
    <3> HIDE DEF f, e, n, g
    <3> QED BY <1>2, <3>1, <3>2, <3>3, FramePlain
  <2> QED BY <2>1, <2>2
<1>5. numbered' = CountedTo(slide, n + 1)
  <2>1. program[slide].items[n + 1].kind # "numbered"
    BY <1>1, <1>2 DEF Listed
  <2> HIDE DEF n
  <2> QED BY <1>1, <1>2, <2>1, CountedNext
<1>6. out' = [out EXCEPT ![Len(out)] = g]
  <2>1. out' = [out EXCEPT ![Len(out)] = @ \o (<<e>> \o
                 (IF it.kind = "link" /\ it.text # NULL
                  THEN <<[what |-> "hyperlink",
                          arg |-> IF label # NULL THEN label ELSE it.text]>> ELSE <<>>))]
    BY DEF WriteItem, Emit, Event
  <2>2. out[Len(out)] = f
    BY <1>1, InFrame
  <2>3. f \o <<e>> = Append(f, e) /\ f \o <<e, a>> = Append(Append(f, e), a)
    BY <1>2, OneMore, TwoMore
  <2>4. <<e>> \o <<a>> = <<e, a>> /\ <<e>> \o <<>> = <<e>>
    BY Pairs
  <2>5. CASE it.kind = "link"
    <3>1. [what |-> "hyperlink", arg |-> IF label # NULL THEN label ELSE it.text] = a
      BY <1>3, <2>5
    <3>2. out' = [out EXCEPT ![Len(out)] = @ \o (<<e>> \o <<a>>)]
      BY <1>3, <2>1, <2>5, <3>1
    <3>3. g = Append(Append(f, e), a)
      BY <2>5
    <3> HIDE DEF f, e, a, g
    <3> QED BY <2>2, <2>3, <2>4, <3>2, <3>3
  <2>6. CASE it.kind # "link"
    <3>1. out' = [out EXCEPT ![Len(out)] = @ \o (<<e>> \o <<>>)]
      BY <2>1, <2>6
    <3>2. g = Append(f, e)
      BY <2>6
    <3> HIDE DEF f, e, g
    <3> QED BY <2>2, <2>3, <2>4, <3>1, <3>2
  <2> QED BY <2>5, <2>6
<1> HIDE DEF f, g, it
<1>7. /\ item' \in Nat \ {0} /\ item' <= Len(Items) + 1 /\ list' \in Listed \cup {"none"}
      /\ numbered' \in Nat /\ numbered' < item'
  BY <1>1, <1>2, InFrame
<1>8. item' - 1 = n + 1
  BY <1>1, <1>2
<1>9. /\ Frame(g, slide, item' - 1, list') /\ numbered' = CountedTo(slide, item' - 1)
      /\ list' = "numbered" => Shown(g) = numbered'
  BY <1>1, <1>4, <1>5, <1>8
<1> QED BY <1>1, <1>6, <1>7, <1>9, EmitStep

LEMMA BeginFrameStep == Written /\ BeginFrame => Written'
<1> SUFFICES ASSUME Written, BeginFrame PROVE Written'
  OBVIOUS
<1>1. PICK f, s : /\ f = IF slideLabels[slide] = NULL THEN <<>>
                         ELSE Event("label", slideLabels[slide])
                  /\ s = slide
  OBVIOUS
<1>2. /\ pc = "write" /\ slide <= Len(program)
      /\ out' = Append(out, f) /\ item' = 1 /\ numbered' = 0 /\ pc' = "items"
      /\ UNCHANGED <<program, slide, slideLabels, map, list>>
  BY <1>1 DEF BeginFrame
<1>3. /\ Resolved /\ slide \in 1..(Len(program) + 1) /\ list = "none"
      /\ Row(out) /\ Len(out) = slide - 1
  BY <1>2 DEF Written, Placed, Writing
<1>4. /\ slide \in DOMAIN program /\ slide \in Nat \ {0} /\ Len(program) \in Nat
      /\ Items = program[slide].items /\ Len(Items) \in Nat
  <2>1. DOMAIN program = 1..Len(program) /\ Len(program) \in Nat
    BY <1>3, ProgramType, LenProperties DEF Resolved
  <2>2. slide \in DOMAIN program
    BY <1>2, <1>3, <2>1
  <2> QED BY <1>3, <2>1, <2>2, ItemsTyped DEF Items, Resolved
<1>5. Resolved' /\ Items' = Items
  BY <1>2, <1>3, ResolvedKept DEF Items
<1>6. /\ Row(out') /\ Len(out') = slide /\ out'[slide] = f
      /\ \A k \in 1..(slide - 1) : out'[k] = out[k]
  <2>1. slide - 1 + 1 = slide
    BY <1>4
  <2> QED BY <1>2, <1>3, <2>1, RowAppend
<1>7. Mapping'
  BY <1>2 DEF Mapping, Writing
<1>8. Placed'
  BY <1>2, <1>3, <1>4, <1>5, <1>6 DEF Placed, Writing
<1>9. Framed'
  <2>1. Frame(f, s, 0, "none") /\ CountedTo(s, 0) = 0
    BY <1>1, FrameBegun, CountedNext
  <2>2. Frame(f, s, 0, "none")' /\ CountedTo(s, 0)' = 0
    BY <1>2, <2>1, FrameStays
  <2> QED BY <1>1, <1>2, <1>3, <1>6, <2>2 DEF Framed
<1>10. Paged'
  <2>1. ASSUME NEW k \in 1..(slide - 1)
        PROVE  Closed(out'[k]) /\ (ReadFrame(out[k]))' = D!Page(k)'
    <3>1. PICK g : g = out[k]
      OBVIOUS
    <3>2. out'[k] = g /\ Closed(g) /\ ReadFrame(g) = D!Page(k)
      BY <1>2, <1>6, <3>1 DEF Written, Paged, Writing
    <3>3. ReadFrame(g)' = D!Page(k)'
      BY <1>2, <3>2, FrameStays
    <3> QED BY <1>6, <3>1, <3>2, <3>3
  <2> QED BY <1>2, <2>1 DEF Paged
<1> QED BY <1>7, <1>8, <1>9, <1>10 DEF Written

LEMMA EndFrameStep == Written /\ EndFrame => Written'
<1> SUFFICES ASSUME Written, EndFrame PROVE Written'
  OBVIOUS
<1> DEFINE e == [what |-> "end", arg |-> "frame"]
<1>1. PICK f, s : f = out[slide] /\ s = slide
  OBVIOUS
<1>2. /\ pc = "items" /\ list = "none" /\ item > Len(Items)
      /\ slide' = slide + 1 /\ pc' = "write"
      /\ UNCHANGED <<program, item, slideLabels, map, list, numbered>>
      /\ out' = [out EXCEPT ![Len(out)] = @ \o <<e>>]
  BY DEF EndFrame, Emit, Event
<1>3. /\ Resolved /\ slide \in DOMAIN program /\ slide \in Nat \ {0}
      /\ Items = program[slide].items /\ Len(Items) \in Nat
      /\ item \in Nat \ {0} /\ numbered \in Nat /\ numbered < item
      /\ Row(out) /\ Len(out) = slide
      /\ Frame(f, s, item - 1, "none") /\ Row(f)
      /\ item - 1 = Len(program[s].items)
  BY <1>1, <1>2, InFrame
<1>4. slide \in 1..Len(program) /\ Len(program) \in Nat
  BY <1>3, ItemsTyped DEF Resolved
<1>5. PICK g : g = Append(f, e)
  OBVIOUS
<1>6. Row(g) /\ Closed(g) /\ ReadFrame(g) = D!Page(s)
  <2>1. Frame(f, s, Len(program[s].items), "none")
    BY <1>3
  <2> QED BY <1>1, <1>3, <1>5, <2>1, FrameEnd
<1>7. out' = [out EXCEPT ![Len(out)] = g]
  <2>1. f \o <<e>> = g /\ out[Len(out)] = f
    BY <1>1, <1>3, <1>5, OneMore
  <2> HIDE DEF e
  <2> QED BY <1>2, <2>1
<1> HIDE DEF e
<1>8. /\ Row(out') /\ Len(out') = slide
      /\ out'[slide] = g
      /\ \A k \in 1..(slide - 1) : out'[k] = out[k]
  BY <1>3, <1>7, LastReplaced
<1>9. Mapping' /\ Framed'
  BY <1>2 DEF Mapping, Writing, Framed
<1>10. Resolved'
  BY <1>2, <1>3, ResolvedKept
<1>11. Placed'
  BY <1>2, <1>3, <1>4, <1>8, <1>10 DEF Placed, Writing
<1>12. Paged'
  <2>1. ASSUME NEW k \in 1..slide
        PROVE  Closed(out'[k]) /\ ReadFrame(out[k])' = D!Page(k)'
    <3>1. PICK h : h = out'[k]
      OBVIOUS
    <3>2. Closed(h) /\ ReadFrame(h) = D!Page(k)
      <4>1. CASE k = slide
        BY <1>1, <1>6, <1>8, <3>1, <4>1
      <4>2. CASE k # slide
        <5>1. k \in 1..(slide - 1)
          BY <1>3, <4>2
        <5>2. Closed(out[k]) /\ ReadFrame(out[k]) = D!Page(k)
          BY <1>2, <5>1 DEF Written, Paged, Writing
        <5> QED BY <1>8, <3>1, <5>1, <5>2
      <4> QED BY <4>1, <4>2
    <3>3. ReadFrame(h)' = D!Page(k)'
      BY <1>2, <3>2, FrameStays
    <3> QED BY <3>1, <3>2, <3>3
  <2>2. slide' - 1 = slide
    BY <1>2, <1>3
  <2> QED BY <1>2, <2>1, <2>2 DEF Paged
<1> QED BY <1>9, <1>11, <1>12 DEF Written

LEMMA EndDocumentStep == Written /\ EndDocument => Written'
<1> SUFFICES ASSUME Written, EndDocument PROVE Written'
  OBVIOUS
<1>1. /\ pc = "write" /\ pc' = "done"
      /\ UNCHANGED <<program, slide, item, slideLabels, map, list, numbered, out>>
  BY DEF EndDocument, writerVars
<1>2. Writing /\ Writing' /\ Resolved'
  BY <1>1, ResolvedKept DEF Written, Placed, Writing
<1>3. Mapping' /\ Placed' /\ Framed'
  BY <1>1, <1>2 DEF Written, Placed, Mapping, Framed
<1>4. Paged'
  BY <1>1, <1>2, PagedStays DEF Written
<1> QED BY <1>3, <1>4 DEF Written

\* A step of the analysis.
LEMMA WrittenStays == Written /\ UNCHANGED vars => Written'
<1> SUFFICES ASSUME Written, UNCHANGED vars PROVE Written'
  OBVIOUS
<1>1. /\ UNCHANGED <<program, pc, slide, item, targets, slideLabels, map, base, suffix>>
      /\ UNCHANGED <<list, numbered, out>>
  BY DEF vars, labelVars, writerVars
<1>2. Writing' = Writing /\ Items' = Items
  BY <1>1 DEF Writing, Items
<1>3. IInv => IInv'
  <2>1. UNCHANGED labelVars
    BY <1>1 DEF labelVars
  <2> QED BY <2>1, NextInv
<1>4. Mapping'
  BY <1>1, <1>2, <1>3 DEF Written, Mapping
<1>5. Resolved => Resolved'
  BY <1>1, ResolvedKept
<1>6. Placed'
  BY <1>1, <1>2, <1>5 DEF Written, Placed
<1>7. Framed'
  <2>1. PICK f, s, n, l : f = out[slide] /\ s = slide /\ n = item - 1 /\ l = list
    OBVIOUS
  <2>2. ASSUME pc = "items"
        PROVE  /\ Frame(f, s, n, l)' /\ numbered = CountedTo(s, n)'
               /\ list = "numbered" => Shown(f) = numbered
    BY <1>1, <2>1, <2>2, FrameStays DEF Written, Framed
  <2>3. Shown(f) = Shown(f)'
    OBVIOUS
  <2> QED BY <1>1, <2>1, <2>2, <2>3 DEF Framed
<1>8. Paged'
  <2>1. CASE Writing
    BY <1>1, <2>1, PagedStays DEF Written
  <2>2. CASE ~Writing
    BY <1>2, <2>2 DEF Paged
  <2> QED BY <2>1, <2>2
<1> QED BY <1>4, <1>6, <1>7, <1>8 DEF Written

LEMMA WrittenStep ==
  BackendInv /\ [BackendNext]_<<vars, analysisVars>> => Written'
<1> SUFFICES ASSUME BackendInv, [BackendNext]_<<vars, analysisVars>> PROVE Written'
  OBVIOUS
<1>1. CASE UNCHANGED vars
  BY <1>1, WrittenStays DEF BackendInv
<1>2. CASE Next
  BY <1>2, MappingStep, BeginFrameStep, BeginListStep, ListItemStep, EndListStep, WriteItemStep,
     EndFrameStep, EndDocumentStep DEF Next, BackendInv
<1> QED BY <1>1, <1>2 DEF BackendNext, Analyze, Generate

LEMMA BackendInitInv == BackendInit => BackendInv
<1> SUFFICES ASSUME BackendInit PROVE BackendInv
  OBVIOUS
<1>1. LabelInit /\ pc = "collect" /\ list = "none" /\ numbered = 0 /\ out = <<>>
  BY DEF BackendInit, Init, LabelInit
<1>2. Judged
  BY <1>1, AnalysisInit DEF Judged
<1>3. Written
  BY <1>1, InitInv DEF Written, Mapping, Placed, Framed, Paged, Writing
<1> QED BY <1>2, <1>3 DEF BackendInv

(***************************************************************************)
(* BackendInv holds of the back end whatever it does.                      *)
(***************************************************************************)
LEMMA BackendInvariance == BackendSpec => []BackendInv
<1>1. BackendInv /\ [BackendNext]_<<vars, analysisVars>> => BackendInv'
  BY JudgedStep, WrittenStep DEF BackendInv
<1> QED BY <1>1, BackendInitInv, PTL DEF BackendSpec

(***************************************************************************)
(* The places of the writer, its counter of items and the frames it has    *)
(* opened agree (_genLatexSlide, Generator.c:235-356).                     *)
(***************************************************************************)
THEOREM GeneratorTypeCorrect == BackendSpec => []TypeOK
<1>1. BackendInv => TypeOK
  <2> SUFFICES ASSUME Written PROVE TypeOK
    BY DEF BackendInv
  <2>1. CASE Writing
    BY <2>1 DEF Written, Placed, Writing, TypeOK
  <2>2. CASE ~Writing
    <3>1. /\ pc \in {"collect", "label", "suffix", "crashed"} /\ item \in Nat \ {0}
          /\ list = "none" /\ numbered = 0 /\ Len(out) = 0
      BY <2>2 DEF Written, Mapping, Writing, IInv, LabelTypeOK
    <3> QED BY <3>1 DEF TypeOK
  <2> QED BY <2>1, <2>2
<1> QED BY <1>1, BackendInvariance, PTL

(***************************************************************************)
(* Whatever reallocs of the analysis fail, each link of a program that it  *)
(* accepts (_validateLinkTargets, SemanticAnalyzer.c:93-100) has a label   *)
(* in the map of the generator, and a frame bears it (_resolveLabel,       *)
(* Generator.c:146-150): the fallback to the bare target at                *)
(* Generator.c:348-349 is never taken.                                     *)
(***************************************************************************)
THEOREM LinksHaveLabels == BackendSpec => []AcceptedLinksHaveLabels
<1>1. BackendInv => AcceptedLinksHaveLabels
  <2> SUFFICES ASSUME BackendInv, Writing,
                      NEW s \in DOMAIN program, NEW i \in DOMAIN program[s].items,
                      program[s].items[i].kind = "link"
               PROVE  LET it == program[s].items[i]
                      IN  /\ ResolveLabel(it.text) # NULL
                          /\ Contains(slideLabels, ResolveLabel(it.text))
    BY DEF AcceptedLinksHaveLabels, Writing
  <2>1. Judged /\ Resolved /\ program \in Programs /\ pc # "collect"
    BY DEF BackendInv, Written, Placed, Writing, Resolved
  <2>2. PICK name : name = program[s].items[i].text
    OBVIOUS
  <2>3. name \in Texts /\ Linked(name) /\ Bearers(name) # {}
    BY <2>1, <2>2, AcceptedBorne
  <2>4. /\ ResolveLabel(name) # NULL
        /\ \E b \in DOMAIN slideLabels : ResolveLabel(name) = slideLabels[b]
    BY <2>1, <2>3, LinkLeads
  <2> QED BY <2>2, <2>4 DEF Contains
<1> QED BY <1>1, BackendInvariance, PTL

-----------------------------------------------------------------------------

(***************************************************************************)
(* The generator implements Deck: the steps of the label map and of a      *)
(* frame under way are stutters, the \end{frame} writes the page.         *)
(***************************************************************************)
Pages == IF Writing THEN slide - 1 ELSE 0

LEMMA PagesAre == Written => /\ Pages \in Nat
                             /\ PagesRead = [k \in 1..Pages |-> D!Page(k)]
<1> SUFFICES ASSUME Written
             PROVE  Pages \in Nat /\ PagesRead = [k \in 1..Pages |-> D!Page(k)]
  OBVIOUS
<1>1. Pages \in Nat /\ Finished = Pages
  <2>1. CASE ~Writing
    BY <2>1 DEF Written, Mapping, Finished, Pages
  <2>2. CASE pc = "items"
    <3>1. Row(out) /\ Len(out) = slide /\ slide \in Nat \ {0} /\ Shape(out[slide], slide, list)
      BY <2>2, InFrame DEF Frame
    <3>2. PICK f : f = out[slide]
      OBVIOUS
    <3>3. ~Closed(f)
      <4> SUFFICES ASSUME Closed(f) PROVE FALSE
        OBVIOUS
      <4>1. Row(f) /\ f # <<>>
        BY <3>1, <3>2 DEF Shape, Closed
      <4>2. Len(f) \in DOMAIN f
        BY <4>1, RowFilled
      <4>3. f[Len(f)].what = "end" /\ f[Len(f)].arg = "frame"
        BY DEF Closed, Event
      <4> QED BY <3>1, <3>2, <4>2, <4>3 DEF Shape
    <3>4. out # <<>>
      BY <3>1
    <3> QED BY <2>2, <3>1, <3>2, <3>3, <3>4 DEF Finished, Pages, Writing
  <2>3. CASE Writing /\ pc # "items"
    <3>1. Row(out) /\ Len(out) = slide - 1 /\ slide \in Nat \ {0}
      <4>1. Resolved /\ slide \in 1..(Len(program) + 1) /\ Row(out) /\ Len(out) = slide - 1
        BY <2>3 DEF Written, Placed
      <4>2. Len(program) \in Nat
        BY <4>1, ProgramType, LenProperties DEF Resolved
      <4> QED BY <4>1, <4>2
    <3>2. ASSUME out # <<>> PROVE Closed(out[Len(out)])
      <4>1. Len(out) \in DOMAIN out /\ DOMAIN out = 1..Len(out)
        BY <3>1, <3>2, RowFilled DEF Row
      <4>2. Len(out) \in 1..(slide - 1)
        BY <3>1, <4>1
      <4> QED BY <2>3, <4>2 DEF Written, Paged
    <3> QED BY <2>3, <3>1, <3>2 DEF Finished, Pages
  <2> QED BY <2>1, <2>2, <2>3
<1>2. \A k \in 1..Pages : ReadFrame(out[k]) = D!Page(k)
  BY DEF Written, Paged, Pages
<1> QED BY <1>1, <1>2 DEF PagesRead

\* A step writes no page, or the next one.
LEMMA DeckStep ==
  ASSUME Written, Written', [BackendNext]_<<vars, analysisVars>>
  PROVE  [D!WritePage]_(D!deckVars)
<1>1. program' = program
  BY ProgramKept
<1>2. Pages \in Nat /\ PagesRead = [k \in 1..Pages |-> D!Page(k)]
  BY PagesAre
<1>3. Pages' \in Nat /\ PagesRead' = [k \in 1..Pages' |-> D!Page(k)']
  <2>1. (Written => /\ Pages \in Nat
                    /\ PagesRead = [k \in 1..Pages |-> D!Page(k)])'
    BY PagesAre, PTL
  <2> QED BY <2>1
<1>4. \A k : D!Page(k)' = D!Page(k)
  BY <1>1 DEF D!Page, D!Reached, D!Seen, D!FirstBearer, D!Bears
<1>5. PagesRead' = [k \in 1..Pages' |-> D!Page(k)]
  BY <1>3, <1>4
<1>6. CASE Pages' = Pages
  BY <1>1, <1>2, <1>5, <1>6 DEF D!deckVars
<1>7. CASE EndFrame
  <2>1. Pages' = Pages + 1 /\ Pages < Len(program)
    <3>1. slide \in 1..Len(program) /\ Len(program) \in Nat
      BY <1>7, InFrame, ItemsTyped DEF EndFrame, Resolved
    <3> QED BY <1>7, <3>1 DEF EndFrame, Pages, Writing
  <2>2. PICK n, f, g : n = Pages /\ f = PagesRead /\ g = PagesRead'
    OBVIOUS
  <2>3. /\ n \in Nat /\ f = [k \in 1..n |-> D!Page(k)]
        /\ g = [k \in 1..(n + 1) |-> D!Page(k)]
    BY <1>2, <1>5, <2>1, <2>2
  <2>4. Len(f) = n /\ g = Append(f, D!Page(n + 1))
    BY <2>3
  <2> QED BY <1>1, <2>1, <2>2, <2>4 DEF D!WritePage
<1>8. Pages' = Pages \/ EndFrame
  <2>1. CASE UNCHANGED vars
    BY <2>1 DEF vars, labelVars, Pages, Writing
  <2>2. CASE Next
    <3>1. CASE BuildLabelMap
      BY <3>1 DEF Pages, Writing, BuildLabelMap, LabelNext, CollectItem, CollectNext, CollectEnd,
         Skip, Name, Collide, NameApart, NextSuffix, CompareNull, LabelEnd
    <3>2. CASE ~BuildLabelMap /\ ~EndFrame
      BY <2>2, <3>2 DEF Next, Pages, Writing, BeginFrame, BeginList, ListItem, EndList, WriteItem,
         EndDocument, labelVars
    <3> QED BY <3>1, <3>2
  <2> QED BY <2>1, <2>2 DEF BackendNext, Analyze, Generate
<1> QED BY <1>6, <1>7, <1>8

(***************************************************************************)
(* What LaTeX reads in the frames the generator prints (_genLatexSlide,    *)
(* Generator.c:235-356) is the presentation, slide by slide: each item in  *)
(* its place, lists of one kind, the numbers the counter of the slide      *)
(* gives, links that lead to the first slide that bears their target.      *)
(***************************************************************************)
THEOREM FramesAreTheDeck == BackendSpec => ImplementsDeck
<1>1. BackendInit => D!DeckInit
  <2> SUFFICES ASSUME BackendInit PROVE PagesRead = <<>>
    BY DEF D!DeckInit
  <2>1. out = <<>>
    BY DEF BackendInit, Init
  <2> QED BY <2>1 DEF PagesRead, Finished
<1>2. BackendInv /\ BackendInv' /\ [BackendNext]_<<vars, analysisVars>>
        => [D!WritePage]_(D!deckVars)
  BY DeckStep DEF BackendInv
<1> QED BY <1>1, <1>2, BackendInvariance, PTL DEF BackendSpec, ImplementsDeck, D!DeckSpec

=============================================================================
