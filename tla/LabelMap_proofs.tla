-------------------------- MODULE LabelMap_proofs --------------------------
(***************************************************************************)
(* Proofs about the label map, for every presentation, every way to make   *)
(* labels of titles and every size of the suffix buffer.                   *)
(*                                                                         *)
(* What _collectLinkTargets has found is said by TargetsRight; LabelledSo  *)
(* says which of the slides behind have a label, MapRight that the first   *)
(* key that matches a target belongs to the first slide that bears it.     *)
(***************************************************************************)
EXTENDS LabelMap, SequenceTheorems, TLAPS

\* The item has been looked at.
ItemSeen(r, i) == pc # "collect" \/ r < slide \/ (r = slide /\ i < item)

LinkTo(name) == [kind |-> "link", text |-> name]

TargetsRight ==
  \A name \in Texts :
    Contains(targets, name) <=>
      \E r \in DOMAIN program : \E i \in DOMAIN program[r].items :
        ItemSeen(r, i) /\ program[r].items[i] = LinkTo(name)

AnyLabel ==
  {NULL} \cup {BaseLabel(s) : s \in DOMAIN program} \cup
  {Candidate(BaseLabel(s), n) : s \in DOMAIN program, n \in 2..MaxSuffix}

\* Where the slides with a place in slideLabels end.
Filled ==
  /\ slideLabels \in Seq(AnyLabel)
  /\ map \in Seq([key : Texts, label : AnyLabel])
  /\ pc = "collect" => slideLabels = <<>> /\ map = <<>>
  /\ pc = "write" => Len(slideLabels) = Len(program)
  /\ Len(slideLabels) <= Len(program)
  /\ pc = "suffix" => Needed(slide) /\ base = BaseLabel(slide) /\ suffix \in 2..MaxSuffix

LabelledSo ==
  \A s \in DOMAIN slideLabels :
    /\ slideLabels[s] # NULL <=> Needed(s)
    /\ Needed(s) => \A r \in 1..s : Needed(r)

Behind(name) == {s \in DOMAIN slideLabels : name \in {program[s].id, program[s].title}}
Hits(name) == {k \in DOMAIN map : map[k].key = name}

FirstHit(name, k, s) ==
  /\ \A l \in Hits(name) : k <= l
  /\ \A r \in Behind(name) : s <= r
  /\ map[k].label = slideLabels[s]

MapRight ==
  \A name \in Texts : Contains(targets, name) =>
    \/ Hits(name) = {} /\ Behind(name) = {}
    \/ \E k \in Hits(name) : \E s \in Behind(name) : FirstHit(name, k, s)

IInv ==
  /\ program \in Programs
  /\ LabelTypeOK
  /\ TargetsRight
  /\ Filled
  /\ LabelledSo
  /\ LabelsUnique
  /\ MapRight
  /\ pc = "crashed" => ~TargetsFirst

-----------------------------------------------------------------------------

LEMMA ProgramType ==
  ASSUME program \in Programs
  PROVE  /\ program \in Seq(Slide)
         /\ \A s \in DOMAIN program :
              /\ program[s] \in Slide
              /\ program[s].items \in Seq(Item)
              /\ program[s].id \in Texts \cup {NULL} /\ program[s].title \in Texts \cup {NULL}
<1>1. program \in Seq(Slide)
  BY ProgramsAssumption
<1>2. ASSUME NEW s \in DOMAIN program PROVE program[s] \in Slide
  BY <1>1, ElementOfSeq, LenProperties
<1> QED BY <1>1, <1>2 DEF Slide

\* The base label and its numbered variants are labels, and none is NULL.
LEMMA BaseLabelType ==
  ASSUME program \in Programs, NEW s \in DOMAIN program
  PROVE  /\ BaseLabel(s) \in AnyLabel \ {NULL}
         /\ \A n \in 2..MaxSuffix : Candidate(BaseLabel(s), n) \in AnyLabel \ {NULL}
BY LabelsAssumption DEF AnyLabel, BaseLabel

\* Once all targets are collected, a slide is needed when some link leads to it.
LEMMA NeededIsTarget ==
  ASSUME program \in Programs, LabelTypeOK, TargetsRight, pc # "collect",
         NEW s \in DOMAIN program
  PROVE  Needed(s) <=> IsTarget(s)
<1>1. \A name \in Texts : Contains(targets, name) <=> Linked(name)
  BY DEF TargetsRight, ItemSeen, Linked, LinkTo
<1>2. Needed(s) <=> \E name \in Texts : Contains(targets, name) /\ s \in Bearers(name)
  <2>1. targets \in Seq(Texts)
    BY DEF LabelTypeOK
  <2>2. \A k \in DOMAIN targets : targets[k] \in Texts
    BY <2>1, ElementOfSeq, LenProperties
  <2>3. DOMAIN targets = 1..Len(targets)
    BY <2>1, LenProperties
  <2> QED BY <2>2, <2>3 DEF Needed, Contains, Bearers
<1> QED BY <1>1, <1>2 DEF IsTarget

LEMMA InitInv == LabelInit => IInv
<1> SUFFICES ASSUME LabelInit PROVE IInv
  OBVIOUS
<1>1. program \in Programs /\ program \in Seq(Slide)
  BY ProgramType DEF LabelInit
<1>2. LabelTypeOK
  BY <1>1, MaxSuffixAssumption DEF LabelInit, LabelTypeOK
<1>3. TargetsRight
  <2>1. \A name : ~Contains(targets, name)
    BY DEF LabelInit, Contains
  <2>2. \A r \in DOMAIN program : \A i \in DOMAIN program[r].items : ~ItemSeen(r, i)
    BY <1>1, ProgramType, LenProperties DEF LabelInit, ItemSeen
  <2> QED BY <2>1, <2>2 DEF TargetsRight
<1>4. Filled
  BY <1>1, LenProperties DEF LabelInit, Filled
<1>5. LabelledSo /\ LabelsUnique
  BY DEF LabelInit, LabelledSo, LabelsUnique
<1>6. MapRight
  BY DEF LabelInit, MapRight, Hits, Behind
<1> QED BY <1>1, <1>2, <1>3, <1>4, <1>5, <1>6 DEF IInv, LabelInit

(***************************************************************************)
(* The steps that leave the labels and the map alone.                      *)
(***************************************************************************)
LEMMA CollectInv ==
  ASSUME IInv, program' = program, pc = "collect", pc' \in {"collect", "label"},
         UNCHANGED <<slideLabels, map>>, LabelTypeOK', TargetsRight'
  PROVE  IInv'
<1>1. slideLabels = <<>> /\ map = <<>>
  BY DEF IInv, Filled
<1>2. Filled'
  BY <1>1, ProgramType, LenProperties DEF IInv, Filled, AnyLabel, BaseLabel
<1>3. LabelledSo' /\ LabelsUnique'
  BY <1>1 DEF LabelledSo, LabelsUnique
<1>4. MapRight'
  BY <1>1 DEF MapRight, Hits, Behind
<1> QED BY <1>2, <1>3, <1>4 DEF IInv

LEMMA CollectItemInv == IInv /\ CollectItem => IInv'
<1> SUFFICES ASSUME IInv, CollectItem PROVE IInv'
  OBVIOUS
<1>1. program \in Seq(Slide) /\ slide \in DOMAIN program
  BY ProgramType, LenProperties DEF IInv, LabelTypeOK, CollectItem
<1>2. Items \in Seq(Item) /\ item \in DOMAIN Items
  BY <1>1, ProgramType, LenProperties DEF IInv, LabelTypeOK, CollectItem, Items
<1>3. Items[item] \in Item
  BY <1>2, ElementOfSeq, LenProperties
<1> DEFINE found(name) == Items[item] = LinkTo(name)
<1>4. \A name \in Texts : found(name) <=> Items[item].kind = "link" /\ Items[item].text = name
  BY <1>3 DEF Item, LinkTo
<1>5. targets' \in Seq(Texts)
      /\ \A name \in Texts : Contains(targets', name) <=> Contains(targets, name) \/ found(name)
  <2>1. targets \in Seq(Texts)
    BY DEF IInv, LabelTypeOK
  <2>2. CASE Items[item].kind = "link" /\ Items[item].text # NULL
             /\ ~Contains(targets, Items[item].text)
    <3>1. targets' = Append(targets, Items[item].text) /\ Items[item].text \in Texts
      BY <1>3, <2>2 DEF CollectItem, Item
    <3> QED BY <1>4, <2>1, <2>2, <3>1, AppendProperties DEF Contains
  <2>3. CASE ~(Items[item].kind = "link" /\ Items[item].text # NULL
               /\ ~Contains(targets, Items[item].text))
    BY <1>4, <2>1, <2>3, NullAssumption DEF CollectItem
  <2> QED BY <2>2, <2>3
<1>6. LabelTypeOK'
  BY <1>5 DEF IInv, LabelTypeOK, CollectItem
<1>7. TargetsRight'
  <2>1. \A r \in DOMAIN program : \A i \in DOMAIN program[r].items :
          ItemSeen(r, i)' <=> ItemSeen(r, i) \/ (r = slide /\ i = item)
    BY <1>1, ProgramType, LenProperties DEF IInv, LabelTypeOK, CollectItem, ItemSeen
  <2>2. \A name \in Texts : found(name) <=> program[slide].items[item] = LinkTo(name)
    BY DEF Items
  <2> QED BY <1>1, <1>2, <1>5, <2>1, <2>2 DEF IInv, TargetsRight, CollectItem, Items
<1> QED BY <1>6, <1>7, CollectInv DEF CollectItem

LEMMA CollectNextInv == IInv /\ CollectNext => IInv'
<1> SUFFICES ASSUME IInv, CollectNext PROVE IInv'
  OBVIOUS
<1>1. LabelTypeOK'
  BY DEF IInv, LabelTypeOK, CollectNext
<1>2. \A r \in DOMAIN program : \A i \in DOMAIN program[r].items :
        ItemSeen(r, i)' <=> ItemSeen(r, i)
  BY ProgramType, LenProperties DEF IInv, LabelTypeOK, CollectNext, ItemSeen, Items
<1>3. TargetsRight'
  BY <1>2 DEF IInv, TargetsRight, CollectNext
<1> QED BY <1>1, <1>3, CollectInv DEF CollectNext

LEMMA CollectEndInv == IInv /\ CollectEnd => IInv'
<1> SUFFICES ASSUME IInv, CollectEnd PROVE IInv'
  OBVIOUS
<1>1. LabelTypeOK'
  BY DEF IInv, LabelTypeOK, CollectEnd, Filled
<1>2. \A r \in DOMAIN program : \A i \in DOMAIN program[r].items :
        ItemSeen(r, i)' <=> ItemSeen(r, i)
  BY ProgramType, LenProperties DEF IInv, LabelTypeOK, CollectEnd, ItemSeen
<1>3. TargetsRight'
  BY <1>2 DEF IInv, TargetsRight, CollectEnd
<1> QED BY <1>1, <1>3, CollectInv DEF CollectEnd

(***************************************************************************)
(* The steps that give a slide its place.                                  *)
(***************************************************************************)
LEMMA KeysOfSlide ==
  ASSUME program \in Programs, NEW s \in DOMAIN program
  PROVE  /\ Keys(s) \in Seq(Texts) /\ Len(Keys(s)) <= 2
         /\ \A name \in Texts :
              (\E j \in DOMAIN Keys(s) : Keys(s)[j] = name)
                <=> name \in {program[s].id, program[s].title}
<1> DEFINE id == program[s].id
           title == program[s].title
<1>1. id \in Texts \cup {NULL} /\ title \in Texts \cup {NULL}
  BY ProgramType
<1>2. CASE id = NULL /\ title = NULL
  <2>1. Keys(s) = <<>>
    BY <1>2 DEF Keys, Key
  <2> QED BY <1>2, <2>1, NullAssumption
<1>3. CASE id # NULL /\ title = NULL
  <2>1. Keys(s) = <<id>>
    BY <1>3, <1>1 DEF Keys, Key
  <2> QED BY <1>1, <1>3, <2>1, NullAssumption
<1>4. CASE id = NULL /\ title # NULL
  <2>1. Keys(s) = <<title>>
    BY <1>4, <1>1 DEF Keys, Key
  <2> QED BY <1>1, <1>4, <2>1, NullAssumption
<1>5. CASE id # NULL /\ title # NULL
  <2>1. Keys(s) = <<id>> \o <<title>>
    BY <1>5 DEF Keys, Key
  <2>2. /\ <<id>> \in Seq(Texts) /\ Len(<<id>>) = 1 /\ <<id>>[1] = id
        /\ <<title>> \in Seq(Texts) /\ Len(<<title>>) = 1 /\ <<title>>[1] = title
    BY <1>1, <1>5
  <2>3. Keys(s) \in Seq(Texts) /\ Len(Keys(s)) = 2
    BY <2>1, <2>2, ConcatProperties
  <2>4. Keys(s)[1] = id /\ Keys(s)[2] = title
    BY <2>1, <2>2, ConcatProperties
  <2>5. DOMAIN Keys(s) = {1, 2}
    BY <2>3, LenProperties
  <2> QED BY <2>3, <2>4, <2>5
<1> QED BY <1>2, <1>3, <1>4, <1>5

LEMMA StoreInv ==
  ASSUME IInv, pc \in {"label", "suffix"}, slide \in DOMAIN program, Needed(slide),
         NEW label \in AnyLabel \ {NULL}, Absent(label), Store(label),
         UNCHANGED <<program, item, targets>>, pc' = "label"
  PROVE  IInv'
<1>1. /\ program \in Seq(Slide) /\ DOMAIN program = 1..Len(program) /\ Len(program) \in Nat
      /\ slide \in 1..Len(program)
  BY ProgramType, LenProperties DEF IInv
<1>2. /\ slideLabels \in Seq(AnyLabel) /\ Len(slideLabels) = slide - 1
      /\ DOMAIN slideLabels = 1..(slide - 1)
  BY LenProperties DEF IInv, LabelTypeOK, Filled
<1>3. /\ slideLabels' \in Seq(AnyLabel) /\ Len(slideLabels') = slide
      /\ DOMAIN slideLabels' = 1..slide
      /\ \A s \in 1..(slide - 1) : slideLabels'[s] = slideLabels[s]
      /\ slideLabels'[slide] = label
  BY <1>1, <1>2, AppendProperties, LenProperties DEF Store
<1>4. \A s \in DOMAIN program : Needed(s)' <=> Needed(s)
  BY DEF Needed
<1>5. AnyLabel' = AnyLabel
  BY DEF AnyLabel, BaseLabel
<1> DEFINE keys == Keys(slide)
           new == [k \in DOMAIN keys |-> [key |-> keys[k], label |-> label]]
           Entries == [key : Texts, label : AnyLabel]
<1>6. /\ keys \in Seq(Texts) /\ DOMAIN keys = 1..Len(keys) /\ Len(keys) \in Nat
      /\ \A k \in DOMAIN keys : keys[k] \in Texts
  BY <1>1, KeysOfSlide, LenProperties, ElementOfSeq DEF IInv
<1>7. new \in Seq(Entries) /\ Len(new) = Len(keys)
  BY <1>6
<1>8. map \in Seq(Entries) /\ DOMAIN map = 1..Len(map) /\ Len(map) \in Nat
  BY LenProperties DEF IInv, Filled
<1>9. map' = map \o new
  BY DEF Store
<1>10. /\ map' \in Seq(Entries) /\ DOMAIN map' = 1..(Len(map) + Len(keys))
       /\ \A k \in 1..Len(map) : map'[k] = map[k]
       /\ \A k \in 1..Len(keys) : map'[Len(map) + k] = [key |-> keys[k], label |-> label]
  <2> HIDE DEF new, Entries
  <2>1. map' \in Seq(Entries) /\ Len(map') = Len(map) + Len(keys)
    BY <1>7, <1>8, <1>9, ConcatProperties
  <2>2. /\ \A k \in 1..Len(map) : map'[k] = map[k]
        /\ \A k \in 1..Len(keys) : map'[Len(map) + k] = new[k]
    BY <1>6, <1>7, <1>8, <1>9, ConcatProperties
  <2> QED BY <1>6, <2>1, <2>2, LenProperties DEF new
<1>11. LabelTypeOK'
  <2>1. \A k \in DOMAIN map' : map'[k] \in Entries
    <3> HIDE DEF Entries
    <3> QED BY <1>10, ElementOfSeq, LenProperties
  <2>2. \A k \in DOMAIN map' : map'[k].key \in Texts
    BY <2>1
  <2>3. slide' = slide + 1 /\ suffix' = 0
    BY DEF Store
  <2>4. Len(slideLabels') = slide' - 1 /\ slide' \in Nat \ {0}
    BY <1>1, <1>3, <2>3
  <2> HIDE DEF Entries
  <2> QED BY <2>2, <2>3, <2>4, MaxSuffixAssumption DEF IInv, LabelTypeOK
<1>12. TargetsRight'
  BY DEF IInv, TargetsRight, ItemSeen
<1>13. Filled'
  BY <1>1, <1>3, <1>5, <1>10 DEF IInv, Filled, Store
<1>14. LabelledSo'
  <2>1. \A r \in 1..(slide - 1) : Needed(r)
    BY <1>2 DEF Absent, IInv, LabelledSo
  <2> QED BY <1>1, <1>2, <1>3, <1>4, <2>1 DEF IInv, LabelledSo
<1>15. LabelsUnique'
  BY <1>1, <1>2, <1>3 DEF IInv, LabelsUnique, Absent
<1>16. MapRight'
  <2> SUFFICES ASSUME NEW name \in Texts, Contains(targets, name)
               PROVE  \/ Hits(name)' = {} /\ Behind(name)' = {}
                      \/ \E k \in Hits(name)' : \E s \in Behind(name)' : FirstHit(name, k, s)'
    BY DEF MapRight
  <2> DEFINE borne == \E j \in 1..Len(keys) : keys[j] = name
             hits == Hits(name)
             more == Hits(name)'
             behind == Behind(name)
  <2>1. borne <=> name \in {program[slide].id, program[slide].title}
    BY <1>1, <1>6, KeysOfSlide DEF IInv
  <2>2. /\ \A s \in Behind(name)' : s \in behind \/ (s = slide /\ borne)
        /\ \A s \in behind : s \in Behind(name)' /\ s \in 1..(slide - 1)
        /\ borne => slide \in Behind(name)'
    BY <1>1, <1>2, <1>3, <2>1 DEF Behind
  <2>3. /\ hits = {k \in 1..Len(map) : map[k].key = name}
        /\ more = {k \in 1..(Len(map) + Len(keys)) : map'[k].key = name}
    BY <1>8, <1>10 DEF Hits
  <2>4. Len(keys) \in {0, 1, 2}
    BY <1>1, <1>6, KeysOfSlide DEF IInv
  <2> HIDE DEF keys, hits, more
  <2>5. /\ \A k \in hits : k \in more /\ map'[k] = map[k]
        /\ \A k \in more : k \in hits \/ (k > Len(map) /\ borne)
        /\ hits = {} /\ borne =>
             \E k \in more : map'[k].label = label /\ \A l \in more : k <= l
    <3>1. /\ \A k \in 1..Len(map) : map'[k] = map[k]
          /\ \A j \in 1..Len(keys) : map'[Len(map) + j] = [key |-> keys[j], label |-> label]
      BY <1>10 DEF keys
    <3> DEFINE n == Len(map)
               len == Len(keys)
               grown == map'
    <3>2. n \in Nat
      BY <1>8
    <3>3. /\ \A k \in 1..n : grown[k] = map[k]
          /\ \A j \in 1..len : grown[n + j] = [key |-> keys[j], label |-> label]
          /\ hits = {k \in 1..n : map[k].key = name}
          /\ more = {k \in 1..(n + len) : grown[k].key = name}
          /\ len \in {0, 1, 2}
      BY <2>3, <2>4, <3>1
    <3>4. SUFFICES
            /\ \A k \in hits : k \in more /\ grown[k] = map[k]
            /\ \A k \in more : k \in hits \/ (k > n /\ \E j \in 1..len : keys[j] = name)
            /\ hits = {} /\ (\E j \in 1..len : keys[j] = name) =>
                 \E k \in more : grown[k].label = label /\ \A l \in more : k <= l
      OBVIOUS
    <3> HIDE DEF n, len, grown
    <3> USE <3>2, <3>3
    <3>5. \A k \in hits : k \in more /\ grown[k] = map[k]
      OBVIOUS
    <3>6. ASSUME NEW j \in 1..len
          PROVE  /\ n + j \in 1..(n + len) /\ grown[n + j].key = keys[j]
                 /\ grown[n + j].label = label
      <4>1. n + j \in 1..(n + len)
        OBVIOUS
      <4>2. grown[n + j] = [key |-> keys[j], label |-> label]
        OBVIOUS
      <4> QED BY <4>1, <4>2
    <3>7. ASSUME NEW k \in more
          PROVE  k \in hits \/ \E j \in 1..len : k = n + j /\ keys[j] = name
      <4>1. CASE k <= n
        BY <4>1
      <4>2. CASE ~(k <= n)
        <5>1. k - n \in 1..len /\ k = n + (k - n)
          BY <4>2
        <5>2. keys[k - n] = name
          BY <3>6, <5>1
        <5> QED BY <5>1, <5>2
      <4> QED BY <4>1, <4>2
    <3>8. ASSUME hits = {}, NEW j \in 1..len, keys[j] = name
          PROVE  \E k \in more : grown[k].label = label /\ \A l \in more : k <= l
      <4>1. CASE keys[1] = name
        <5>1. n + 1 \in more /\ grown[n + 1].label = label
          BY <3>6, <3>8, <4>1
        <5>2. \A l \in more : n + 1 <= l
          BY <3>7, <3>8
        <5> QED BY <5>1, <5>2
      <4>2. CASE keys[1] # name
        <5>1. len = 2 /\ j = 2
          BY <3>8, <4>2
        <5>2. n + 2 \in more /\ grown[n + 2].label = label
          BY <3>6, <3>8, <5>1
        <5>3. \A l \in more : n + 2 <= l
          BY <3>7, <3>8, <4>2, <5>1
        <5> QED BY <5>2, <5>3
      <4> QED BY <4>1, <4>2
    <3>9. \A k \in more : k \in hits \/ (k > n /\ \E j \in 1..len : keys[j] = name)
      BY <3>7
    <3> QED BY <3>5, <3>8, <3>9
  <2> HIDE DEF borne, behind
  <2>6. CASE hits = {} /\ behind = {} /\ ~borne
    <3>1. Behind(name)' = {} /\ more = {}
      BY <2>2, <2>5, <2>6
    <3> QED BY <3>1 DEF more
  <2>7. CASE hits = {} /\ behind = {} /\ borne
    <3>1. PICK k \in more : map'[k].label = label /\ \A l \in more : k <= l
      BY <2>5, <2>7
    <3>2. PICK s : s = slide
      OBVIOUS
    <3>3. s \in Behind(name)' /\ \A r \in Behind(name)' : s <= r
      BY <1>1, <2>2, <2>7, <3>2
    <3>4. map'[k].label = slideLabels'[s]
      BY <1>3, <3>1, <3>2
    <3>5. FirstHit(name, k, s)'
      BY <3>1, <3>3, <3>4 DEF FirstHit, more
    <3> QED BY <3>1, <3>3, <3>5 DEF more
  <2>8. ASSUME NEW k \in hits, NEW s \in behind, FirstHit(name, k, s)
        PROVE  \E k2 \in Hits(name)' : \E s2 \in Behind(name)' : FirstHit(name, k2, s2)'
    <3>1. k \in more /\ s \in Behind(name)' /\ s \in 1..(slide - 1) /\ map'[k] = map[k]
      BY <2>2, <2>5
    <3>2. k \in 1..Len(map)
      BY <2>3
    <3>3. \A l \in more : k <= l
      <4>1. \A l \in hits : k <= l
        BY <2>8 DEF FirstHit, hits
      <4>2. \A l \in more : l \in hits \/ l > Len(map)
        BY <2>5
      <4>3. \A l \in more : l \in Nat
        BY <1>8, <2>3, <2>4
      <4> QED BY <1>8, <3>2, <4>1, <4>2, <4>3
    <3>4. \A r \in Behind(name)' : s <= r
      BY <1>1, <2>2, <2>8, <3>1 DEF FirstHit, behind
    <3>5. map'[k].label = slideLabels'[s]
      BY <1>3, <2>8, <3>1 DEF FirstHit
    <3>6. FirstHit(name, k, s)'
      BY <3>3, <3>4, <3>5 DEF FirstHit, more
    <3> QED BY <3>1, <3>6 DEF more
  <2> QED BY <2>6, <2>7, <2>8 DEF IInv, MapRight, hits, behind
<1> QED BY <1>11, <1>12, <1>13, <1>14, <1>15, <1>16 DEF IInv

LEMMA SkipInv == IInv /\ Skip => IInv'
<1> SUFFICES ASSUME IInv, Skip PROVE IInv'
  OBVIOUS
<1>1. /\ program \in Seq(Slide) /\ DOMAIN program = 1..Len(program) /\ Len(program) \in Nat
      /\ slide \in 1..Len(program)
  BY ProgramType, LenProperties DEF IInv, LabelTypeOK, Skip
<1>2. /\ slideLabels \in Seq(AnyLabel) /\ Len(slideLabels) = slide - 1
      /\ DOMAIN slideLabels = 1..(slide - 1)
  BY LenProperties DEF IInv, LabelTypeOK, Filled, Skip
<1>3. NULL \in AnyLabel
  BY DEF AnyLabel
<1>4. /\ slideLabels' \in Seq(AnyLabel) /\ Len(slideLabels') = slide
      /\ DOMAIN slideLabels' = 1..slide
      /\ \A s \in 1..(slide - 1) : slideLabels'[s] = slideLabels[s]
      /\ slideLabels'[slide] = NULL
  BY <1>1, <1>2, <1>3, AppendProperties, LenProperties DEF Skip
<1>5. \A s : Needed(s)' <=> Needed(s)
  BY DEF Needed, Skip
<1>6. LabelTypeOK'
  BY <1>1, <1>4 DEF IInv, LabelTypeOK, Skip
<1>7. TargetsRight'
  BY DEF IInv, TargetsRight, ItemSeen, Skip
<1>8. AnyLabel' = AnyLabel
  BY DEF AnyLabel, BaseLabel, Skip
<1>9. Filled'
  BY <1>1, <1>4, <1>8 DEF IInv, Filled, Skip
<1>10. LabelledSo'
  BY <1>1, <1>2, <1>4, <1>5 DEF IInv, LabelledSo, Skip
<1>11. LabelsUnique'
  BY <1>1, <1>2, <1>4 DEF IInv, LabelsUnique
<1>12. MapRight'
  <2> SUFFICES ASSUME NEW name \in Texts, Contains(targets, name)
               PROVE  \/ Hits(name)' = {} /\ Behind(name)' = {}
                      \/ \E k \in Hits(name)' : \E s \in Behind(name)' : FirstHit(name, k, s)'
    BY DEF MapRight, Skip
  <2>1. name \notin {program[slide].id, program[slide].title}
    <3>1. targets \in Seq(Texts)
      BY DEF IInv, LabelTypeOK
    <3>2. PICK k \in DOMAIN targets : targets[k] = name
      BY <3>1, LenProperties DEF Contains
    <3> QED BY <3>2 DEF Skip, Needed
  <2>2. Behind(name)' = Behind(name)
    BY <1>1, <1>2, <1>4, <2>1 DEF Behind, Skip
  <2>3. Hits(name)' = Hits(name) /\ map' = map
    BY DEF Hits, Skip
  <2>4. \A s \in Behind(name) : slideLabels'[s] = slideLabels[s]
    BY <1>2, <1>4 DEF Behind
  <2>5. ASSUME NEW k \in Hits(name), NEW s \in Behind(name), FirstHit(name, k, s)
        PROVE  FirstHit(name, k, s)'
    BY <2>2, <2>3, <2>4, <2>5 DEF FirstHit
  <2> QED BY <2>2, <2>3, <2>5 DEF IInv, MapRight
<1> QED BY <1>6, <1>7, <1>9, <1>10, <1>11, <1>12 DEF IInv, Skip

LEMMA NameInv == IInv /\ Name => IInv'
<1> SUFFICES ASSUME IInv, Name PROVE IInv'
  OBVIOUS
<1>1. slide \in DOMAIN program
  BY ProgramType, LenProperties DEF IInv, LabelTypeOK, Name
<1>2. BaseLabel(slide) \in AnyLabel \ {NULL}
  BY <1>1, BaseLabelType DEF IInv
<1>3. pc' = "label"
  BY DEF Name
<1> QED BY <1>1, <1>2, <1>3, StoreInv DEF Name

LEMMA NameApartInv == IInv /\ NameApart => IInv'
<1> SUFFICES ASSUME IInv, NameApart PROVE IInv'
  OBVIOUS
<1>1. slide \in DOMAIN program
  BY ProgramType, LenProperties DEF IInv, LabelTypeOK, NameApart
<1>2. Needed(slide) /\ base = BaseLabel(slide) /\ suffix \in 2..MaxSuffix
  BY DEF IInv, Filled, NameApart
<1>3. Candidate(base, suffix) \in AnyLabel \ {NULL}
  BY <1>1, <1>2, BaseLabelType DEF IInv
<1> QED BY <1>1, <1>2, <1>3, StoreInv DEF NameApart

(***************************************************************************)
(* The steps that leave the labels and the map alone once all targets are  *)
(* collected.                                                              *)
(***************************************************************************)
LEMMA KeepInv ==
  ASSUME IInv, UNCHANGED <<program, targets, slideLabels, map>>, pc # "collect",
         pc' # "collect", LabelTypeOK', Filled', pc' = "crashed" => ~TargetsFirst
  PROVE  IInv'
<1>1. TargetsRight'
  BY DEF IInv, TargetsRight, ItemSeen
<1>2. LabelledSo' /\ LabelsUnique'
  BY DEF IInv, LabelledSo, LabelsUnique, Needed
<1>3. MapRight'
  BY DEF IInv, MapRight, Hits, Behind, FirstHit
<1>4. TargetsFirst' <=> TargetsFirst
  BY DEF TargetsFirst, IsTarget, Linked, Bearers
<1> QED BY <1>1, <1>2, <1>3, <1>4 DEF IInv

LEMMA CollideInv == IInv /\ Collide => IInv'
<1> SUFFICES ASSUME IInv, Collide PROVE IInv'
  OBVIOUS
<1>1. LabelTypeOK'
  BY MaxSuffixAssumption DEF IInv, LabelTypeOK, Collide
<1>2. Filled'
  BY MaxSuffixAssumption DEF IInv, Filled, Collide, AnyLabel, BaseLabel, Needed
<1> QED BY <1>1, <1>2, KeepInv DEF Collide

LEMMA NextSuffixInv == IInv /\ NextSuffix => IInv'
<1> SUFFICES ASSUME IInv, NextSuffix PROVE IInv'
  OBVIOUS
<1>1. suffix' \in 2..MaxSuffix
  BY MaxSuffixAssumption DEF IInv, Filled, NextSuffix
<1>2. LabelTypeOK'
  BY <1>1 DEF IInv, LabelTypeOK, NextSuffix
<1>3. Filled'
  BY <1>1 DEF IInv, Filled, NextSuffix, AnyLabel, BaseLabel, Needed
<1> QED BY <1>2, <1>3, KeepInv DEF NextSuffix

LEMMA LabelEndInv == IInv /\ LabelEnd => IInv'
<1> SUFFICES ASSUME IInv, LabelEnd PROVE IInv'
  OBVIOUS
<1>1. LabelTypeOK'
  BY DEF IInv, LabelTypeOK, LabelEnd
<1>2. Len(slideLabels) = Len(program)
  BY ProgramType, LenProperties DEF IInv, LabelTypeOK, Filled, LabelEnd
<1>3. Filled'
  BY <1>2 DEF IInv, Filled, LabelEnd, AnyLabel, BaseLabel
<1> QED BY <1>1, <1>3, KeepInv DEF LabelEnd

\* A comparison meets a NULL when a slide behind has no label, and no link leads to it.
LEMMA CompareNullInv == IInv /\ CompareNull => IInv'
<1> SUFFICES ASSUME IInv, CompareNull PROVE IInv'
  OBVIOUS
<1>1. /\ pc \in {"label", "suffix"} /\ Needed(slide) /\ slide \in DOMAIN program
  BY ProgramType, LenProperties DEF IInv, LabelTypeOK, Filled, CompareNull
<1>2. PICK r \in DOMAIN slideLabels : slideLabels[r] = NULL
  <2>1. PICK label : ~Found(label) /\ ~Absent(label)
    BY DEF CompareNull
  <2>2. PICK i \in DOMAIN slideLabels : slideLabels[i] \in {NULL, label}
    BY <2>1 DEF Absent
  <2>3. slideLabels \in Seq(AnyLabel)
    BY DEF IInv, Filled
  <2>4. \A j \in 1..(i - 1) : j \in DOMAIN slideLabels
    BY <2>3, LenProperties
  <2> QED BY <2>1, <2>2, <2>4 DEF Found
<1>3. /\ r < slide /\ r \in DOMAIN program
  BY <1>1, <1>2, ProgramType, LenProperties DEF IInv, LabelTypeOK, Filled
<1>4. ~Needed(r)
  BY <1>2 DEF IInv, LabelledSo
<1>5. ~TargetsFirst
  BY <1>1, <1>3, <1>4, NeededIsTarget DEF IInv, TargetsFirst
<1>6. LabelTypeOK'
  BY DEF IInv, LabelTypeOK, CompareNull
<1>7. Filled'
  BY DEF IInv, Filled, CompareNull, AnyLabel, BaseLabel
<1> QED BY <1>1, <1>5, <1>6, <1>7, KeepInv DEF CompareNull

LEMMA NextInv == IInv /\ [LabelNext]_labelVars => IInv'
<1> SUFFICES ASSUME IInv, [LabelNext]_labelVars PROVE IInv'
  OBVIOUS
<1>1. CASE CollectItem
  BY <1>1, CollectItemInv
<1>2. CASE CollectNext
  BY <1>2, CollectNextInv
<1>3. CASE CollectEnd
  BY <1>3, CollectEndInv
<1>4. CASE Skip
  BY <1>4, SkipInv
<1>5. CASE Name
  BY <1>5, NameInv
<1>6. CASE Collide
  BY <1>6, CollideInv
<1>7. CASE NameApart
  BY <1>7, NameApartInv
<1>8. CASE NextSuffix
  BY <1>8, NextSuffixInv
<1>9. CASE CompareNull
  BY <1>9, CompareNullInv
<1>10. CASE LabelEnd
  BY <1>10, LabelEndInv
<1>11. CASE UNCHANGED labelVars
  <2>1. program' = program /\ LabelTypeOK' /\ TargetsRight'
    BY <1>11 DEF IInv, labelVars, LabelTypeOK, TargetsRight, ItemSeen
  <2>2. Filled' /\ LabelledSo' /\ LabelsUnique'
    BY <1>11 DEF IInv, labelVars, Filled, LabelledSo, LabelsUnique, AnyLabel, BaseLabel, Needed
  <2>3. MapRight'
    BY <1>11 DEF IInv, labelVars, MapRight, Hits, Behind, FirstHit
  <2>4. TargetsFirst' <=> TargetsFirst
    BY <1>11 DEF labelVars, TargetsFirst, IsTarget, Linked, Bearers
  <2> QED BY <1>11, <2>1, <2>2, <2>3, <2>4 DEF IInv, labelVars
<1> QED BY <1>1, <1>2, <1>3, <1>4, <1>5, <1>6, <1>7, <1>8, <1>9, <1>10, <1>11 DEF LabelNext

LEMMA Invariance == LabelSpec => []IInv
BY InitInv, NextInv, PTL DEF LabelSpec

-----------------------------------------------------------------------------

(***************************************************************************)
(* The label map keeps its shape in every run (_buildLabelMap,             *)
(* Generator.c:98-144).                                                    *)
(***************************************************************************)
THEOREM TypeCorrect == LabelSpec => []LabelTypeOK
<1>1. IInv => LabelTypeOK
  BY DEF IInv
<1> QED BY <1>1, Invariance, PTL

(***************************************************************************)
(* No two slides share a label, for every presentation and every way to    *)
(* sanitize, number and cut labels (Generator.c:127-132).                  *)
(***************************************************************************)
THEOREM UniqueLabels == LabelSpec => []LabelsUnique
<1>1. IInv => LabelsUnique
  BY DEF IInv
<1> QED BY <1>1, Invariance, PTL

\* Once the map is complete every slide has its place, and its label when needed.
LEMMA WhenComplete ==
  ASSUME IInv, pc = "write"
  PROVE  /\ DOMAIN slideLabels = DOMAIN program /\ DOMAIN program = 1..Len(program)
         /\ Len(program) \in Nat
         /\ \A s \in DOMAIN program : Needed(s) <=> IsTarget(s)
BY ProgramType, LenProperties, NeededIsTarget DEF IInv, Filled

(***************************************************************************)
(* Exactly the slides that some link leads to get a label                  *)
(* (Generator.c:108-118), for every presentation.                          *)
(***************************************************************************)
THEOREM LabelsWhereNeeded == LabelSpec => []LabelledWhenNeeded
<1>1. IInv => LabelledWhenNeeded
  BY WhenComplete DEF IInv, LabelledSo, LabelledWhenNeeded
<1> QED BY <1>1, Invariance, PTL

(***************************************************************************)
(* strcmp meets a NULL only where a slide that no link leads to stands     *)
(* before one that some link leads to, and the map is completed only where *)
(* none does (_findLabel, Generator.c:73-79).                              *)
(***************************************************************************)
THEOREM CrashExactly == LabelSpec => []CrashesUnlessTargetsFirst
<1>1. IInv /\ pc = "write" => TargetsFirst
  <2> SUFFICES ASSUME IInv, pc = "write",
                      NEW r \in DOMAIN program, NEW s \in DOMAIN program, r < s, IsTarget(s)
               PROVE  IsTarget(r)
    BY DEF TargetsFirst
  <2>1. r \in 1..s
    BY WhenComplete
  <2> QED BY <2>1, WhenComplete DEF IInv, LabelledSo
<1>2. IInv => CrashesUnlessTargetsFirst
  BY <1>1 DEF IInv, CrashesUnlessTargetsFirst
<1> QED BY <1>2, Invariance, PTL

LEMMA MinIs ==
  ASSUME NEW S \in SUBSET Int, NEW x \in S, \A y \in S : x <= y
  PROVE  Min(S) = x
<1> DEFINE isMin(m) == m \in S /\ \A y \in S : m <= y
<1>1. Min(S) = CHOOSE m : isMin(m)
  BY DEF Min
<1>2. isMin(Min(S))
  <2> HIDE DEF isMin
  <2>1. isMin(x)
    BY DEF isMin
  <2> QED BY <1>1, <2>1
<1>3. Min(S) <= x /\ x <= Min(S) /\ Min(S) \in Int
  BY <1>2
<1> QED BY <1>3

\* A link whose target some slide bears is resolved to the first of them.
LEMMA FirstBearerFound ==
  ASSUME IInv, pc = "write", NEW name \in Texts, Linked(name), Bearers(name) # {}
  PROVE  \E s \in Bearers(name) :
           /\ \A r \in Bearers(name) : s <= r
           /\ ResolveLabel(name) = slideLabels[s]
           /\ slideLabels[s] # NULL
<1>1. Contains(targets, name)
  BY DEF IInv, TargetsRight, ItemSeen, Linked, LinkTo
<1>2. Behind(name) = Bearers(name)
  BY WhenComplete DEF Behind, Bearers
<1>3. PICK k \in Hits(name), s \in Bearers(name) : FirstHit(name, k, s)
  BY <1>1, <1>2 DEF IInv, MapRight
<1>4. Min(Hits(name)) = k
  <2>1. Hits(name) \in SUBSET Int
    BY LenProperties DEF Hits, IInv, Filled
  <2> QED BY <1>3, <2>1, MinIs DEF FirstHit
<1>5. ResolveLabel(name) = slideLabels[s]
  BY <1>3, <1>4 DEF ResolveLabel, Hits, FirstHit
<1>6. slideLabels[s] # NULL
  <2>1. s \in DOMAIN program /\ IsTarget(s)
    BY <1>3 DEF Bearers, IsTarget
  <2> QED BY <2>1, WhenComplete DEF IInv, LabelledSo
<1> QED BY <1>2, <1>3, <1>5, <1>6 DEF FirstHit

(***************************************************************************)
(* Every link whose target some slide bears is resolved, to the first      *)
(* slide that bears it (_resolveLabel, Generator.c:146-150), for every     *)
(* presentation.                                                           *)
(***************************************************************************)
THEOREM FirstBearer == LabelSpec => []LinksLeadToFirst
<1>1. IInv => LinksLeadToFirst
  <2> SUFFICES ASSUME IInv, pc = "write", NEW name \in Texts, Linked(name), Bearers(name) # {}
               PROVE  /\ ResolveLabel(name) # NULL
                      /\ ResolveLabel(name) = slideLabels[Min(Bearers(name))]
    BY DEF LinksLeadToFirst
  <2>1. PICK s \in Bearers(name) :
          /\ \A r \in Bearers(name) : s <= r
          /\ ResolveLabel(name) = slideLabels[s]
          /\ slideLabels[s] # NULL
    BY FirstBearerFound
  <2>2. Min(Bearers(name)) = s
    <3>1. Bearers(name) \in SUBSET Int
      BY WhenComplete DEF Bearers
    <3> QED BY <2>1, <3>1, MinIs
  <2> QED BY <2>1, <2>2
<1> QED BY <1>1, Invariance, PTL

=============================================================================
