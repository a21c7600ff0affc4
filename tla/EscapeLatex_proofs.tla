------------------------- MODULE EscapeLatex_proofs -------------------------
(***************************************************************************)
(* The bound of the title buffer and what is written to it, for every text *)
(* and every buffer size.                                                  *)
(***************************************************************************)
EXTENDS EscapeLatex, SequenceTheorems, FiniteSetTheorems, TLAPS

LEMMA EscapedType ==
  ASSUME NEW c \in Chars
  PROVE  Escaped(c) \in Seq(Chars) /\ Len(Escaped(c)) \in {1, 2}
<1>1. ASSUME NEW a \in Chars PROVE <<a, c>> \in Seq(Chars) /\ Len(<<a, c>>) = 2
  OBVIOUS
<1>2. <<c>> \in Seq(Chars) /\ Len(<<c>>) = 1
  OBVIOUS
<1>3. CASE c \in Marked
  BY <1>1, <1>3, CharsAssumption DEF Escaped
<1>4. CASE c \notin Marked
  BY <1>2, <1>4, Zenon DEF Escaped
<1> QED BY <1>3, <1>4

(***************************************************************************)
(* EscapeLatex.TypeOK: what is written is text, what is read stands in it. *)
(***************************************************************************)
THEOREM TypeCorrect == Spec => []TypeOK
<1>1. Init => TypeOK
  BY TitlesAssumption DEF Init, TypeOK
<1>2. TypeOK /\ [Next]_vars => TypeOK'
  <2> SUFFICES ASSUME TypeOK, [Next]_vars PROVE TypeOK'
    OBVIOUS
  <2>1. src \in Seq(Chars)
    BY TitlesAssumption DEF TypeOK
  <2>2. CASE Step
    <3>1. src[i + 1] \in Chars
      BY <2>1, <2>2, ElementOfSeq DEF Step, TypeOK
    <3>2. dst' \in Seq(Chars)
      BY <2>2, <3>1, EscapedType, ConcatProperties DEF Step, TypeOK
    <3>3. src' = src /\ i' \in 0..Len(src)
      BY <2>1, <2>2, LenProperties DEF Step, TypeOK
    <3> QED BY <3>2, <3>3 DEF TypeOK
  <2>3. CASE UNCHANGED vars
    BY <2>3 DEF vars, TypeOK
  <2> QED BY <2>2, <2>3 DEF Next
<1> QED BY <1>1, <1>2, PTL DEF Spec

(***************************************************************************)
(* EscapeLatex.InBounds: whatever the text and however long, _escapeLatex  *)
(* writes inside its buffer.  A step adds two characters at most and is    *)
(* taken with room for two and the NUL; nothing else is needed than types. *)
(***************************************************************************)
THEOREM BufferHolds == Spec => []InBounds
<1>1. Init => InBounds
  BY SizeAssumption, TitlesAssumption DEF Init, InBounds
<1>2. TypeOK /\ TypeOK' /\ InBounds /\ [Next]_vars => InBounds'
  <2> SUFFICES ASSUME TypeOK, TypeOK', InBounds, [Next]_vars PROVE InBounds'
    OBVIOUS
  <2>1. CASE Step
    <3>1. src[i + 1] \in Chars
      BY <2>1, TitlesAssumption, ElementOfSeq DEF Step, TypeOK
    <3>2. Len(dst') = Len(dst) + Len(Escaped(src[i + 1]))
      BY <2>1, <3>1, EscapedType, ConcatProperties DEF Step, TypeOK
    <3>3. Len(dst) \in Nat
      BY LenProperties DEF TypeOK
    <3>4. Len(Escaped(src[i + 1])) \in {1, 2}
      BY <3>1, EscapedType
    <3>5. Len(dst) + 2 < Size
      BY <2>1 DEF Step, Room
    <3>6. \A a \in Nat, b \in {1, 2} : a + 2 < Size => a + b < Size
      BY SizeAssumption
    <3>7. Len(dst) + Len(Escaped(src[i + 1])) < Size
      BY <3>3, <3>4, <3>5, <3>6
    <3>8. (i \in 0..Len(src))'
      BY DEF TypeOK
    <3> QED BY <3>2, <3>7, <3>8, Zenon DEF InBounds
  <2>2. CASE UNCHANGED vars
    BY <2>2 DEF vars, InBounds
  <2> QED BY <2>1, <2>2 DEF Next
<1> QED BY <1>1, <1>2, TypeCorrect, PTL DEF Spec

-----------------------------------------------------------------------------

(***************************************************************************)
(* A text without backslashes, escaped: each one written stands before an  *)
(* underscore or a percent sign, and each of these has one.                *)
(***************************************************************************)
Paired(d) ==
  \A k \in 1..Len(d) :
    /\ d[k] \in Marked => k > 1 /\ d[k - 1] = Backslash
    /\ d[k] = Backslash => k < Len(d) /\ d[k + 1] \in Marked

\* Marked is what the report lists, but for the dollar sign.
LEMMA DollarUnmarked ==
  /\ Dollar \in Special /\ Dollar \notin Marked /\ Backslash \notin Marked
  /\ \A c \in Special : c = Dollar \/ c \in Marked
  BY Zenon DEF Dollar, Special, Marked, Backslash

\* No character of the title takes more than two.
AtMostTwice == Len(dst) <= 2 * i

ShownInv ==
  /\ AtMostTwice
  /\ Backslash \notin ToSet(src) => Paired(dst) /\ TitleKept

LEMMA PairedIsQuoted ==
  ASSUME TypeOK, Paired(dst)
  PROVE  DollarsBare
<1>1. Len(dst) \in Nat /\ DOMAIN dst = 1..Len(dst)
  BY LenProperties DEF TypeOK
<1>2. ASSUME NEW k \in 1..Len(dst), dst[k] \in Marked
      PROVE  k - 1 \in Quoting(dst)
  <2>1. k > 1 /\ dst[k - 1] = Backslash /\ k - 1 \in 1..Len(dst)
    <3>1. k > 1 /\ dst[k - 1] = Backslash
      BY <1>2, Zenon DEF Paired
    <3> QED BY <1>1, <3>1
  <2>2. ASSUME NEW j \in Row(dst, k - 1) PROVE j = k - 1
    <3> SUFFICES ASSUME j < k - 1 PROVE FALSE
      BY <1>1, <2>1 DEF Row
    <3>1. k - 2 \in 1..Len(dst) /\ k - 2 \in j..(k - 1) /\ k - 2 + 1 = k - 1
      BY <1>1, <2>1 DEF Row
    <3>2. dst[k - 2] = Backslash
      BY <3>1 DEF Row
    <3>3. dst[k - 1] \in Marked
      BY <3>1, <3>2 DEF Paired
    <3> QED BY <2>1, <3>3, DollarUnmarked
  <2>3. k - 1 \in Row(dst, k - 1)
    BY <1>1, <2>1 DEF Row
  <2>4. Row(dst, k - 1) = {k - 1}
    BY <2>2, <2>3
  <2>5. Cardinality(Row(dst, k - 1)) = 1
    BY <2>4, FS_Singleton
  <2>6. 1 % 2 = 1
    OBVIOUS
  <2> QED BY <1>1, <2>1, <2>5, <2>6 DEF Quoting
<1>3. ASSUME NEW k \in 1..Len(dst), dst[k] = Dollar
      PROVE  k - 1 \notin Quoting(dst)
  <2> SUFFICES ASSUME k - 1 \in 1..Len(dst), k - 1 \in Quoting(dst) PROVE FALSE
    BY <1>1 DEF Quoting
  <2>1. dst[k - 1] # Backslash
    <3>1. dst[k - 1] = Backslash => dst[(k - 1) + 1] \in Marked
      BY Zenon DEF Paired
    <3>2. (k - 1) + 1 = k
      OBVIOUS
    <3> QED BY <1>3, <3>1, <3>2, DollarUnmarked
  <2>2. Row(dst, k - 1) = {}
    BY <1>1, <2>1 DEF Row
  <2>3. Cardinality(Row(dst, k - 1)) = 0 /\ 0 % 2 = 0
    BY <2>2, FS_EmptySet
  <2> QED BY <2>3 DEF Quoting
<1>4. Harmful(dst, Special) = {k \in DOMAIN dst : dst[k] = Dollar}
  BY <1>1, <1>2, <1>3, DollarUnmarked DEF Harmful
<1>5. Len(dst) \notin Quoting(dst)
  <2> SUFFICES ASSUME Len(dst) \in 1..Len(dst), Len(dst) \in Quoting(dst) PROVE FALSE
    BY <1>1 DEF Quoting
  <2>1. dst[Len(dst)] # Backslash
    <3>1. dst[Len(dst)] = Backslash => Len(dst) < Len(dst)
      BY Zenon DEF Paired
    <3> QED BY <1>1, <3>1
  <2>2. Row(dst, Len(dst)) = {}
    BY <1>1, <2>1 DEF Row
  <2>3. Cardinality(Row(dst, Len(dst))) = 0 /\ 0 % 2 = 0
    BY <2>2, FS_EmptySet
  <2> QED BY <2>3 DEF Quoting
<1> QED BY <1>4, <1>5 DEF DollarsBare

\* The count of a set of numbers, one further.
LEMMA PlainNext ==
  ASSUME NEW t, NEW k \in Nat
  PROVE  /\ Plain(t, k) \in Nat
         /\ Plain(t, k + 1) = IF t[k + 1] # Backslash THEN Plain(t, k) + 1 ELSE Plain(t, k)
<1> DEFINE P(h) == {j \in 1..h : t[j] # Backslash}
<1>1. IsFiniteSet(1..k) /\ P(k) \in SUBSET (1..k) /\ k + 1 \notin P(k)
  BY FS_Interval
<1>2. IsFiniteSet(P(k))
  BY <1>1, FS_Subset
<1>3. P(k + 1) = IF t[k + 1] # Backslash THEN P(k) \cup {k + 1} ELSE P(k)
  <2>1. \A j : j \in 1..(k + 1) <=> j \in 1..k \/ j = k + 1
    OBVIOUS
  <2> QED BY <2>1
<1>4. \A h : Plain(t, h) = Cardinality(P(h))
  BY DEF Plain
<1> HIDE DEF P
<1>5. Cardinality(P(k)) \in Nat
  BY <1>2, FS_CardinalityType
<1>6. Cardinality(P(k) \cup {k + 1}) = Cardinality(P(k)) + 1
  BY <1>1, <1>2, FS_AddElement
<1>7. Plain(t, k) = Cardinality(P(k)) /\ Plain(t, k + 1) = Cardinality(P(k + 1))
  BY <1>4
<1>8. CASE t[k + 1] # Backslash
  <2>1. P(k + 1) = P(k) \cup {k + 1}
    BY <1>3, <1>8
  <2> QED BY <1>5, <1>6, <1>7, <1>8, <2>1
<1>9. CASE t[k + 1] = Backslash
  <2>1. P(k + 1) = P(k)
    BY <1>3, <1>9
  <2> QED BY <1>5, <1>7, <1>9, <2>1
<1> QED BY <1>8, <1>9

\* t is d with a character c more, which comes last.
Longer(d, c, t) ==
  /\ Plain(t, Len(t)) = Plain(d, Len(d)) + 1
  /\ \A k \in 1..Len(t) :
       \/ k \in 1..Len(d) /\ t[k] = d[k] /\ Plain(t, k) = Plain(d, k)
       \/ t[k] = Backslash
       \/ t[k] = c /\ k = Len(t)

(***************************************************************************)
(* One character more: the pairs stay pairs, and what is added is the      *)
(* character, behind a backslash of its own if it needs one.               *)
(***************************************************************************)
LEMMA OneMore ==
  ASSUME NEW d \in Seq(Chars), NEW c \in Chars, c # Backslash, NEW t, t = d \o Escaped(c),
         Paired(d)
  PROVE  Paired(t) /\ Longer(d, c, t)
<1> SUFFICES ASSUME NEW n, n = Len(d), NEW m, m = Len(t), NEW e, e = Escaped(c)
             PROVE  /\ Paired(t)
                    /\ Plain(t, m) = Plain(d, n) + 1
                    /\ \A k \in 1..m :
                         \/ k \in 1..n /\ t[k] = d[k] /\ Plain(t, k) = Plain(d, k)
                         \/ t[k] = Backslash
                         \/ t[k] = c /\ k = m
  BY DEF Longer
<1>1. n \in Nat /\ e \in Seq(Chars)
  BY EscapedType, LenProperties
<1>2. m = n + Len(e) /\ \A k \in 1..(n + Len(e)) : t[k] = IF k <= n THEN d[k] ELSE e[k - n]
  BY <1>1, ConcatProperties
<1>3. Len(e) \in Nat /\ \A j \in 1..Len(e) : t[n + j] = e[j]
  <2> SUFFICES ASSUME NEW j \in 1..Len(e) PROVE t[n + j] = e[j]
    BY <1>1, LenProperties
  <2>1. n + j \in 1..(n + Len(e)) /\ ~(n + j <= n) /\ (n + j) - n = j
    BY <1>1, LenProperties
  <2> QED BY <1>2, <2>1
<1>4. /\ m \in Nat /\ m > n /\ m <= n + 2 /\ t[m] = c
      /\ \A k \in 1..n : t[k] = d[k]
      /\ \A k \in 1..m : k \in 1..n \/ k = m \/ k = n + 1
      /\ m = n + 2 \/ m = n + 1
      /\ m = n + 2 => t[n + 1] = Backslash /\ c \in Marked
      /\ m = n + 1 => c \notin Marked
  <2>1. CASE c \in Marked
    <3>1. e = <<Backslash, c>>
      BY <2>1, Zenon DEF Escaped
    <3>2. Len(e) = 2 /\ e[1] = Backslash /\ e[2] = c
      BY <3>1
    <3>3. m = n + 2 /\ t[n + 1] = Backslash /\ t[n + 2] = c /\ \A k \in 1..n : t[k] = d[k]
      <4>1. 1 \in 1..Len(e) /\ 2 \in 1..Len(e)
        BY <3>2
      <4>2. t[n + 1] = Backslash /\ t[n + 2] = c
        BY <1>3, <3>2, <4>1
      <4>3. m = n + 2
        BY <1>2, <3>2
      <4>4. \A k \in 1..n : k \in 1..(n + Len(e)) /\ k <= n
        BY <1>1, <1>3
      <4>5. \A k \in 1..n : t[k] = d[k]
        BY <1>2, <4>4
      <4> QED BY <4>2, <4>3, <4>5
    <3> QED BY <1>1, <2>1, <3>3
  <2>2. CASE c \notin Marked
    <3>1. e = <<c>>
      BY <2>2, Zenon DEF Escaped
    <3>2. Len(e) = 1 /\ e[1] = c
      BY <3>1
    <3>3. m = n + 1 /\ t[n + 1] = c /\ \A k \in 1..n : t[k] = d[k]
      <4>1. 1 \in 1..Len(e)
        BY <3>2
      <4>2. t[n + 1] = c
        BY <1>3, <3>2, <4>1
      <4>3. m = n + 1
        BY <1>2, <3>2
      <4>4. \A k \in 1..n : k \in 1..(n + Len(e)) /\ k <= n
        BY <1>1, <1>3
      <4>5. \A k \in 1..n : t[k] = d[k]
        BY <1>2, <4>4
      <4> QED BY <4>2, <4>3, <4>5
    <3> QED BY <1>1, <2>2, <3>3
  <2> QED BY <2>1, <2>2
<1>5. Paired(t)
  <2>1. ASSUME NEW k \in 1..n
        PROVE  /\ t[k] \in Marked => k > 1 /\ t[k - 1] = Backslash
               /\ t[k] = Backslash => k < m /\ t[k + 1] \in Marked
    <3>1. /\ d[k] \in Marked => k > 1 /\ d[k - 1] = Backslash
          /\ d[k] = Backslash => k < n /\ d[k + 1] \in Marked
      BY Zenon DEF Paired
    <3>2. k > 1 => t[k - 1] = d[k - 1]
      BY <1>1, <1>4
    <3>3. k < n => t[k + 1] = d[k + 1] /\ k < m
      BY <1>1, <1>4
    <3>4. t[k] = d[k]
      BY <1>4
    <3> QED BY <3>1, <3>2, <3>3, <3>4
  <2>2. ASSUME NEW k \in {n + 1, m}
        PROVE  /\ t[k] \in Marked => k > 1 /\ t[k - 1] = Backslash
               /\ t[k] = Backslash => k < m /\ t[k + 1] \in Marked
    <3>1. Backslash \notin Marked
      BY Zenon DEF Backslash, Marked
    <3>2. CASE m = n + 1
      BY <1>1, <1>4, <3>2
    <3>3. CASE m = n + 2 /\ k = n + 1
      <4>1. k < m /\ k + 1 = m /\ k = n + 1
        BY <1>1, <3>3
      <4>2. t[k] = Backslash /\ k < m /\ t[k + 1] \in Marked
        BY <1>4, <3>3, <4>1
      <4> QED BY <3>1, <4>2
    <3>4. CASE m = n + 2 /\ k = m
      <4>1. k > 1 /\ k - 1 = n + 1
        BY <1>1, <3>4
      <4>2. t[k] = c /\ k > 1 /\ t[k - 1] = Backslash
        BY <1>4, <3>4, <4>1
      <4> QED BY <4>2
    <3> QED BY <1>4, <3>2, <3>3, <3>4
  <2> QED BY <1>4, <2>1, <2>2 DEF Paired
<1>6. \A k \in 0..n : Plain(t, k) = Plain(d, k)
  <2> SUFFICES ASSUME NEW k \in 0..n PROVE Plain(t, k) = Plain(d, k)
    OBVIOUS
  <2>1. \A j \in 1..k : t[j] = d[j]
    BY <1>1, <1>4
  <2>2. {j \in 1..k : t[j] # Backslash} = {j \in 1..k : d[j] # Backslash}
    BY <2>1
  <2> QED BY <2>2 DEF Plain
<1>7. Plain(t, m) = Plain(d, n) + 1
  <2>1. n \in 0..n /\ Plain(d, n) \in Nat
    BY <1>1, PlainNext
  <2>2. Plain(t, n) = Plain(d, n) /\ Plain(d, n) \in Nat
    BY <1>6, <2>1
  <2>3. Plain(t, n + 1) = IF t[n + 1] # Backslash THEN Plain(t, n) + 1 ELSE Plain(t, n)
    BY <1>1, PlainNext
  <2>4. CASE m = n + 1
    BY <1>4, <2>2, <2>4, <2>3
  <2>5. CASE m = n + 2
    <3>1. Plain(t, n + 1) = Plain(d, n)
      BY <1>4, <2>2, <2>5, <2>3
    <3>2. n + 1 \in Nat /\ (n + 1) + 1 = m
      BY <1>1, <2>5
    <3>3. Plain(t, (n + 1) + 1) =
            IF t[(n + 1) + 1] # Backslash THEN Plain(t, n + 1) + 1 ELSE Plain(t, n + 1)
      BY <3>2, PlainNext
    <3>4. Plain(t, (n + 1) + 1) = Plain(t, n + 1) + 1
      BY <1>4, <3>2, <3>3
    <3> QED BY <3>1, <3>2, <3>4
  <2> QED BY <1>4, <2>4, <2>5
<1>8. \A k \in 1..n : k \in 0..n
  BY <1>1
<1>9. \A k \in 1..m : \/ k \in 1..n /\ t[k] = d[k] /\ Plain(t, k) = Plain(d, k)
                      \/ t[k] = Backslash
                      \/ t[k] = c /\ k = m
  BY <1>4, <1>6, <1>8
<1> QED BY <1>5, <1>7, <1>9

LEMMA ShownStep ==
  ASSUME TypeOK, ShownInv, Step
  PROVE  ShownInv'
<1> SUFFICES ASSUME NEW c, c = src[i + 1]
             PROVE  ShownInv'
  OBVIOUS
<1>1. /\ Len(src) \in Nat /\ i \in Nat /\ i + 1 \in 1..Len(src) /\ c \in Chars
      /\ dst \in Seq(Chars) /\ Len(dst) \in Nat /\ DOMAIN dst = 1..Len(dst)
  BY TitlesAssumption, LenProperties, ElementOfSeq DEF TypeOK, Step
<1>2. dst' = dst \o Escaped(c) /\ i' = i + 1 /\ src' = src
  BY DEF Step
<1>3. dst' \in Seq(Chars) /\ Len(dst') \in Nat /\ DOMAIN dst' = 1..Len(dst')
      /\ Len(dst') <= Len(dst) + 2
  <2> SUFFICES ASSUME NEW e, e = Escaped(c), NEW t, t = dst'
               PROVE  t \in Seq(Chars) /\ Len(t) \in Nat /\ DOMAIN t = 1..Len(t)
                      /\ Len(t) <= Len(dst) + 2
    OBVIOUS
  <2>1. e \in Seq(Chars) /\ Len(e) \in {1, 2}
    BY <1>1, EscapedType
  <2>2. t = dst \o e
    BY <1>2
  <2>3. t \in Seq(Chars) /\ Len(t) = Len(dst) + Len(e)
    BY <1>1, <2>1, <2>2, ConcatProperties
  <2>4. Len(t) \in Nat /\ DOMAIN t = 1..Len(t)
    BY <2>3, LenProperties
  <2>5. \A a \in Nat, b \in {1, 2} : a + b <= a + 2
    OBVIOUS
  <2>6. Len(t) <= Len(dst) + 2
    BY <1>1, <2>1, <2>3, <2>5, Zenon
  <2> QED BY <2>3, <2>4, <2>6
<1>4. AtMostTwice'
  <2>1. Len(dst) <= 2 * i
    BY DEF ShownInv, AtMostTwice
  <2>2. Len(dst') <= 2 * (i + 1)
    BY <1>1, <1>3, <2>1
  <2> QED BY <1>2, <2>2 DEF AtMostTwice
<1>5. ASSUME Backslash \notin ToSet(src) PROVE Paired(dst)' /\ TitleKept'
  <2>1. c \in ToSet(src)
    BY <1>1 DEF ToSet
  <2>2. Paired(dst) /\ TitleKept /\ c # Backslash
    BY <1>5, <2>1 DEF ShownInv
  <2>3. /\ Paired(dst')
        /\ Plain(dst', Len(dst')) = Plain(dst, Len(dst)) + 1
        /\ \A k \in 1..Len(dst') :
             \/ k \in 1..Len(dst) /\ dst'[k] = dst[k] /\ Plain(dst', k) = Plain(dst, k)
             \/ dst'[k] = Backslash
             \/ dst'[k] = c /\ k = Len(dst')
    <3>1. Paired(dst') /\ Longer(dst, c, dst')
      BY <1>1, <1>2, <2>2, OneMore, Zenon
    <3> QED BY <3>1 DEF Longer
  <2>4. /\ Plain(dst, Len(dst)) = i
        /\ \A k \in 1..Len(dst) : dst[k] # Backslash => dst[k] = src[Plain(dst, k)]
    BY <1>1, <2>2 DEF TitleKept
  <2>5. Plain(dst', Len(dst')) = i + 1
    BY <2>3, <2>4
  <2>6. \A k \in 1..Len(dst') : dst'[k] # Backslash => dst'[k] = src[Plain(dst', k)]
    BY <2>3, <2>4, <2>5
  <2> QED BY <1>2, <1>3, <2>3, <2>5, <2>6 DEF TitleKept
<1> QED BY <1>2, <1>4, <1>5 DEF ShownInv

(***************************************************************************)
(* EscapeLatex.OnlyDollarsBare: for every title without backslashes and a  *)
(* buffer of any size, underscores and percent signs reach LaTeX escaped,  *)
(* dollar signs bare, and nothing is lost but what the buffer cuts off.    *)
(* The invariant that carries it is the pairing of the backslashes with    *)
(* the characters they protect (_escapeLatex, Generator.c:38-43).          *)
(***************************************************************************)
THEOREM DollarsAloneAreBare == Spec => []OnlyDollarsBare
<1>1. Init => ShownInv
  <2> SUFFICES ASSUME Init PROVE ShownInv
    OBVIOUS
  <2>1. dst = <<>> /\ i = 0 /\ Len(dst) = 0 /\ DOMAIN dst = {}
    BY DEF Init
  <2>2. Plain(dst, 0) = 0
    <3>1. {j \in 1..0 : dst[j] # Backslash} = {}
      OBVIOUS
    <3> QED BY <3>1, FS_EmptySet DEF Plain
  <2>3. TitleKept
    BY <2>1, <2>2 DEF TitleKept
  <2>4. Paired(dst) /\ AtMostTwice
    BY <2>1 DEF Paired, AtMostTwice
  <2> QED BY <2>3, <2>4 DEF ShownInv
<1>2. TypeOK /\ ShownInv /\ [Next]_vars => ShownInv'
  <2> SUFFICES ASSUME TypeOK, ShownInv, [Next]_vars PROVE ShownInv'
    OBVIOUS
  <2>1. CASE Step
    BY <2>1, ShownStep
  <2>2. CASE UNCHANGED vars
    BY <2>2 DEF vars, ShownInv, AtMostTwice, TitleKept
  <2> QED BY <2>1, <2>2 DEF Next
<1>3. TypeOK /\ ShownInv => OnlyDollarsBare
  <2> SUFFICES ASSUME TypeOK, ShownInv PROVE OnlyDollarsBare
    OBVIOUS
  <2>1. Backslash \notin ToSet(src) => DollarsBare /\ TitleKept
    BY PairedIsQuoted DEF ShownInv
  <2>2. Finished /\ 2 * Len(src) < Size => i = Len(src)
    <3> SUFFICES ASSUME ~Room, 2 * Len(src) < Size PROVE i = Len(src)
      BY DEF Finished
    <3>1. Len(src) \in Nat /\ i \in 0..Len(src) /\ Len(dst) \in Nat /\ Size \in Nat
      BY TitlesAssumption, SizeAssumption, LenProperties DEF TypeOK
    <3>2. Len(dst) <= 2 * i /\ ~(Len(dst) + 2 < Size)
      BY DEF ShownInv, AtMostTwice, Room
    <3> QED BY <3>1, <3>2
  <2> QED BY <2>1, <2>2 DEF OnlyDollarsBare
<1> QED BY <1>1, <1>2, <1>3, TypeCorrect, PTL DEF Spec

=============================================================================
