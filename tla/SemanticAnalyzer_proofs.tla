----------------------- MODULE SemanticAnalyzer_proofs -----------------------
(***************************************************************************)
(* Proofs about the semantic analysis, for every set of programs and every *)
(* pattern of failing reallocs and strdups.                                *)
(*                                                                         *)
(* The tables are described by what they hold, never by index, except the  *)
(* targets, which the last loop walks.  Sound says that what a table holds *)
(* comes from the slides visited; Complete, that while no realloc fails it *)
(* has kept all of it, by name or as a NULL; Judged and Justified tie the  *)
(* error count to the program from both sides.                             *)
(***************************************************************************)
EXTENDS SemanticAnalyzer, SequenceTheorems, TLAPS

\* The slides whose title and id have been looked at, the items looked at.
HeaderSeen(s) == s < slide \/ (s = slide /\ pc = "items")
ItemSeen(s, i) == s < slide \/ (s = slide /\ pc = "items" /\ i < item)

\* A name is in a table, or may be behind a NULL of it.
Kept(table, name) == Holds(table, name) \/ Holds(table, NULL)

Sound ==
  /\ \A n \in Names : Holds(ids, n) =>
       \E s \in DOMAIN program : HeaderSeen(s) /\ program[s].id = n
  /\ \A n \in Names : Holds(titles, n) => \E s \in DOMAIN program : program[s].title = n
  /\ \A n \in Names \cup {NULL} : Holds(targets, n) =>
       \E s \in DOMAIN program : \E i \in DOMAIN program[s].items :
         /\ program[s].items[i].type = "link"
         /\ program[s].items[i].text \in IF n = NULL THEN Names ELSE {n}

Complete ==
  ~denied => \A s \in DOMAIN program : HeaderSeen(s) =>
               /\ program[s].title # NULL => Kept(titles, program[s].title)
               /\ program[s].id # NULL => Kept(ids, program[s].id)

\* No error so far: the items seen have their strings and their links are noted,
\* the targets checked have a slide, and no id was met twice.
Judged ==
  errors = 0 =>
    /\ \A s \in DOMAIN program : \A i \in DOMAIN program[s].items : ItemSeen(s, i) =>
         LET it == program[s].items[i]
         IN  /\ it.type = "image" => it.text # NULL
             /\ it.type = "link" => it.text # NULL /\ Kept(targets, it.text)
    /\ \A k \in DOMAIN targets : k < target => Named(targets[k])
    /\ ~denied => \A s \in DOMAIN program : HeaderSeen(s) => ~Repeats(s)

\* An error while no realloc fails has its reason in the program.
Justified == errors > 0 /\ ~denied => ~(ItemsSound /\ IdsUnique)

Progress ==
  /\ pc \in {"slides", "items"} => target = 1
  /\ pc \in {"targets", "done"} => slide > Len(program)
  /\ pc = "done" => target > Len(targets)
  /\ pc = "crashed" => blank
  /\ verdict = IF pc # "done" THEN "IN_PROGRESS"
               ELSE IF errors > 0 THEN "FAILED" ELSE "SUCCEEDED"

IInv == TypeOK /\ Sound /\ Complete /\ Judged /\ Justified /\ Progress

-----------------------------------------------------------------------------

(***************************************************************************)
(* What growing a table does: it stays a table, keeps its entries and      *)
(* holds one more, the name or a NULL in its place, if there was one to    *)
(* add and the table could be made larger.                                 *)
(***************************************************************************)
LEMMA GrownTable ==
  ASSUME NEW table \in Seq(Names \cup {NULL}), NEW name \in Names \cup {NULL},
         NEW outcome \in {"stored", "denied", "blank"}
  PROVE  /\ Grown(table, name, outcome) \in Seq(Names \cup {NULL})
         /\ \A n : Holds(Grown(table, name, outcome), n) <=>
                    \/ Holds(table, n)
                    \/ n = name /\ name # NULL /\ outcome = "stored"
                    \/ n = NULL /\ name # NULL /\ outcome = "blank"
         /\ \A k \in DOMAIN Grown(table, name, outcome) :
              \/ k \in DOMAIN table /\ Grown(table, name, outcome)[k] = table[k]
              \/ k = Len(table) + 1
<1> DEFINE entry == IF outcome = "blank" THEN NULL ELSE name
<1>1. CASE name # NULL /\ outcome # "denied"
  <2>1. Grown(table, name, outcome) = Append(table, entry) /\ entry \in Names \cup {NULL}
    BY <1>1 DEF Grown
  <2>2. entry = IF outcome = "blank" THEN NULL ELSE name
    OBVIOUS
  <2> HIDE DEF entry
  <2>3. Append(table, entry) \in Seq(Names \cup {NULL})
    BY <2>1
  <2>4. \A n : Holds(Append(table, entry), n) <=> Holds(table, n) \/ n = entry
    <3>1. /\ DOMAIN table = 1..Len(table) /\ Len(table) \in Nat
          /\ DOMAIN Append(table, entry) = 1..(Len(table) + 1)
          /\ \A i \in 1..Len(table) : Append(table, entry)[i] = table[i]
          /\ Append(table, entry)[Len(table) + 1] = entry
      BY <2>1, AppendProperties, LenProperties
    <3> QED
      BY <3>1 DEF Holds
  <2>5. \A k \in DOMAIN Append(table, entry) :
          (k \in DOMAIN table /\ Append(table, entry)[k] = table[k]) \/ k = Len(table) + 1
    BY <2>1
  <2> QED
    BY <1>1, <2>1, <2>2, <2>3, <2>4, <2>5
<1>2. CASE name = NULL \/ outcome = "denied"
  BY <1>2 DEF Grown
<1> QED
  BY <1>1, <1>2

(***************************************************************************)
(* _findId on a table without a NULL finds a name or finds it absent, and  *)
(* what it says of the table is so whatever the table holds.               *)
(***************************************************************************)
LEMMA Search ==
  ASSUME NEW table \in Seq(Names \cup {NULL}), NEW name
  PROVE  /\ Found(table, name) => Holds(table, name) /\ name # NULL
         /\ name # NULL => (Absent(table, name) <=> ~Kept(table, name))
         /\ Absent(table, NULL) => \A n : ~Holds(table, n)
         /\ name # NULL /\ ~Holds(table, NULL) => Found(table, name) \/ Absent(table, name)
<1>1. \A k \in DOMAIN table : 1..(k - 1) \subseteq DOMAIN table
  OBVIOUS
<1> QED
  BY <1>1 DEF Found, Absent, Kept, Holds

(***************************************************************************)
(* The slides of a program and their items are what ProgramsAssumption     *)
(* says.                                                                   *)
(***************************************************************************)
LEMMA ProgramParts ==
  ASSUME TypeOK
  PROVE  \A s \in DOMAIN program :
           /\ s \in Nat \ {0} /\ s <= Len(program)
           /\ program[s].title \in Names \cup {NULL}
           /\ program[s].id \in Names \cup {NULL}
           /\ program[s].items \in Seq(Item)
           /\ \A i \in DOMAIN program[s].items :
                /\ i \in Nat \ {0} /\ i <= Len(program[s].items)
                /\ program[s].items[i] \in Item
                /\ program[s].items[i].text \in Names \cup {NULL}
<1> TAKE s \in DOMAIN program
<1>1. s \in Nat \ {0} /\ s <= Len(program) /\ program[s] \in Slide
  BY DEF TypeOK
<1>2. program[s].items \in Seq(Item)
  BY <1>1 DEF Slide
<1>3. \A i \in DOMAIN program[s].items :
        /\ i \in Nat \ {0} /\ i <= Len(program[s].items)
        /\ program[s].items[i] \in Item
  BY <1>2
<1>4. \A i \in DOMAIN program[s].items : program[s].items[i].text \in Names \cup {NULL}
  BY <1>3 DEF Item
<1> QED
  BY <1>1, <1>2, <1>3, <1>4 DEF Slide

\* The tables, one by one.
LEMMA Tables ==
  TypeOK <=>
    /\ program \in Seq(Slide)
    /\ pc \in {"slides", "items", "targets", "done", "crashed"}
    /\ slide \in Nat \ {0} /\ item \in Nat \ {0} /\ target \in Nat \ {0}
    /\ pc = "items" => slide <= Len(program)
    /\ ids \in Seq(Names \cup {NULL}) /\ (Holds(ids, NULL) => blank)
    /\ titles \in Seq(Names \cup {NULL}) /\ (Holds(titles, NULL) => blank)
    /\ targets \in Seq(Names \cup {NULL}) /\ (Holds(targets, NULL) => blank)
    /\ errors \in Nat
    /\ denied \in BOOLEAN /\ blank \in BOOLEAN
    /\ verdict \in {"IN_PROGRESS", "SUCCEEDED", "FAILED"}
BY DEF TypeOK

LEMMA InitInv == Init => IInv
<1> SUFFICES ASSUME Init PROVE IInv
  OBVIOUS
<1>1. program \in Seq(Slide)
  BY ProgramsAssumption DEF Init
<1>2. TypeOK
  <2>0. ids = <<>> /\ titles = <<>> /\ targets = <<>> /\ \A n : ~Holds(<<>>, n)
    BY DEF Init, Holds
  <2>1. <<>> \in Seq(Names \cup {NULL})
    OBVIOUS
  <2>2. /\ pc = "slides" /\ slide = 1 /\ item = 1 /\ target = 1 /\ errors = 0
        /\ denied \in BOOLEAN /\ blank \in BOOLEAN /\ verdict = "IN_PROGRESS"
    BY DEF Init
  <2> QED
    BY <1>1, <2>0, <2>1, <2>2, Tables
<1>3. Sound
  BY DEF Init, Sound, Holds
<1>4. Complete
  BY <1>1 DEF Init, Complete, HeaderSeen
<1>5. Judged
  BY <1>1 DEF Init, Judged, HeaderSeen, ItemSeen
<1>6. Justified /\ Progress
  BY DEF Init, Justified, Progress
<1> QED
  BY <1>2, <1>3, <1>4, <1>5, <1>6 DEF IInv

LEMMA VisitSlideType == TypeOK /\ VisitSlide => TypeOK'
<1> SUFFICES ASSUME TypeOK, VisitSlide PROVE TypeOK'
  OBVIOUS
<1> DEFINE s == program[slide]
           title == s.title
           duplicated == s.id # NULL /\ Found(ids, s.id)
           newId == IF duplicated THEN NULL ELSE s.id
<1>1. title \in Names \cup {NULL} /\ newId \in Names \cup {NULL}
  BY ProgramParts, Tables DEF VisitSlide
<1>2. PICK forTitle \in {"stored", "denied", "blank"}, forId \in {"stored", "denied", "blank"} :
        /\ titles' = Grown(titles, title, forTitle)
        /\ ids' = Grown(ids, newId, forId)
        /\ blank' = (\/ blank
                     \/ title # NULL /\ forTitle = "blank"
                     \/ newId # NULL /\ forId = "blank")
  BY OutcomesAssumption DEF VisitSlide
<1>3. ids \in Seq(Names \cup {NULL}) /\ titles \in Seq(Names \cup {NULL}) /\ blank \in BOOLEAN
      /\ (Holds(ids, NULL) => blank) /\ (Holds(titles, NULL) => blank)
  BY Tables
<1>4. /\ titles' \in Seq(Names \cup {NULL}) /\ (Holds(titles', NULL) => blank')
      /\ ids' \in Seq(Names \cup {NULL}) /\ (Holds(ids', NULL) => blank')
      /\ blank' \in BOOLEAN /\ (blank => blank')
  <2> HIDE DEF title, newId
  <2>1. titles' \in Seq(Names \cup {NULL}) /\ (Holds(titles', NULL) => blank')
    BY <1>1, <1>2, <1>3, GrownTable
  <2>2. ids' \in Seq(Names \cup {NULL}) /\ (Holds(ids', NULL) => blank')
    BY <1>1, <1>2, <1>3, GrownTable
  <2> QED
    BY <1>2, <1>3, <2>1, <2>2
<1>5. errors' \in Nat /\ denied' \in BOOLEAN
  BY Tables DEF VisitSlide
<1>6. pc' = "items" /\ item' = 1 /\ slide <= Len(program)
      /\ UNCHANGED <<program, slide, target, targets, verdict>>
  BY DEF VisitSlide
<1>7. (Holds(targets, NULL) => blank) /\ targets' = targets
  BY <1>6, Tables
<1> QED
  BY <1>4, <1>5, <1>6, <1>7 DEF TypeOK, Holds

LEMMA VisitItemType == TypeOK /\ VisitItem => TypeOK'
<1> SUFFICES ASSUME TypeOK, VisitItem PROVE TypeOK'
  OBVIOUS
<1> DEFINE text == program[slide].items[item].text
           linked == program[slide].items[item].type = "link" /\ text # NULL
<1>1. text \in Names \cup {NULL}
  BY ProgramParts, Tables DEF VisitItem
<1>2. PICK outcome \in {"stored", "denied", "blank"} :
        /\ targets' = IF linked THEN Grown(targets, text, outcome) ELSE targets
        /\ blank' = (blank \/ (linked /\ outcome = "blank"))
  BY OutcomesAssumption DEF VisitItem
<1>3. targets \in Seq(Names \cup {NULL}) /\ (Holds(targets, NULL) => blank) /\ blank \in BOOLEAN
  BY Tables
<1>4. /\ targets' \in Seq(Names \cup {NULL}) /\ (Holds(targets', NULL) => blank')
      /\ blank' \in BOOLEAN /\ (blank => blank')
  <2>1. CASE linked
    <3>1. targets' = Grown(targets, text, outcome) /\ blank' = (blank \/ outcome = "blank")
      BY <1>2, <2>1
    <3> HIDE DEF text
    <3> QED
      BY <1>1, <1>3, <3>1, GrownTable
  <2>2. CASE ~linked
    <3>1. targets' = targets /\ blank' = blank
      BY <1>2, <1>3, <2>2
    <3> QED
      BY <1>3, <3>1
  <2> QED
    BY <2>1, <2>2
<1>5. errors' \in Nat /\ denied' \in BOOLEAN
  BY Tables DEF VisitItem
<1>6. UNCHANGED <<program, pc, slide, target, ids, titles, verdict>> /\ item' = item + 1
  BY DEF VisitItem
<1>7. (Holds(ids, NULL) => blank) /\ (Holds(titles, NULL) => blank)
  BY Tables
<1> QED
  BY <1>4, <1>5, <1>6, <1>7 DEF TypeOK, Holds

LEMMA TypeStep == TypeOK /\ [Next]_vars => TypeOK'
<1> SUFFICES ASSUME TypeOK, [Next]_vars PROVE TypeOK'
  OBVIOUS
<1>1. CASE VisitSlide
  BY <1>1, VisitSlideType
<1>2. CASE VisitItem
  BY <1>2, VisitItemType
<1>3. CASE NextSlide
  BY <1>3 DEF NextSlide, TypeOK, Holds
<1>4. CASE EndSlides
  BY <1>4 DEF EndSlides, TypeOK, Holds
<1>5. CASE CheckTarget
  BY <1>5 DEF CheckTarget, TypeOK, Holds
<1>6. CASE Finish
  BY <1>6 DEF Finish, TypeOK, Holds
<1>7. CASE CompareNull
  BY <1>7 DEF CompareNull, TypeOK, Holds
<1>8. CASE UNCHANGED vars
  BY <1>8 DEF vars, TypeOK, Holds
<1> QED
  BY <1>1, <1>2, <1>3, <1>4, <1>5, <1>6, <1>7, <1>8 DEF Next

(***************************************************************************)
(* One lemma per action: each keeps the invariant, given that it keeps the *)
(* types.                                                                  *)
(***************************************************************************)
LEMMA VisitSlideInv == IInv /\ TypeOK' /\ VisitSlide => IInv'
<1> SUFFICES ASSUME IInv, TypeOK', VisitSlide PROVE IInv'
  OBVIOUS
<1> DEFINE s == program[slide]
           duplicated == s.id # NULL /\ Found(ids, s.id)
           newId == IF duplicated THEN NULL ELSE s.id
<1>1. TypeOK /\ slide \in DOMAIN program /\ pc = "slides" /\ pc' = "items" /\ item' = 1
  BY DEF IInv, TypeOK, VisitSlide
<1>2. PICK forTitle \in {"stored", "denied", "blank"}, forId \in {"stored", "denied", "blank"} :
        /\ titles' = Grown(titles, s.title, forTitle)
        /\ ids' = Grown(ids, newId, forId)
        /\ denied' = (\/ denied
                      \/ s.title # NULL /\ forTitle = "denied"
                      \/ newId # NULL /\ forId = "denied")
  BY OutcomesAssumption DEF VisitSlide
<1>3. errors' = IF duplicated THEN errors + 1 ELSE errors
  BY DEF VisitSlide
<1>4. s.title \in Names \cup {NULL} /\ s.id \in Names \cup {NULL}
      /\ newId \in Names \cup {NULL}
  BY <1>1, ProgramParts
<1>0. titles \in Seq(Names \cup {NULL}) /\ ids \in Seq(Names \cup {NULL})
  BY <1>1, Tables
<1>5. \A n : Holds(titles', n) <=>
             \/ Holds(titles, n)
             \/ n = s.title /\ s.title # NULL /\ forTitle = "stored"
             \/ n = NULL /\ s.title # NULL /\ forTitle = "blank"
  <2> DEFINE title == s.title
  <2>1. titles' = Grown(titles, title, forTitle) /\ title \in Names \cup {NULL}
    BY <1>2, <1>4
  <2>2. \A n : Holds(titles', n) <=>
               \/ Holds(titles, n)
               \/ n = title /\ title # NULL /\ forTitle = "stored"
               \/ n = NULL /\ title # NULL /\ forTitle = "blank"
    <3> HIDE DEF title
    <3> QED BY <1>0, <2>1, GrownTable
  <2> QED
    BY <2>2
<1>6. \A n : Holds(ids', n) <=>
             \/ Holds(ids, n)
             \/ n = newId /\ newId # NULL /\ forId = "stored"
             \/ n = NULL /\ newId # NULL /\ forId = "blank"
  <2>1. ids' = Grown(ids, newId, forId) /\ newId \in Names \cup {NULL}
    BY <1>2, <1>4
  <2> HIDE DEF newId
  <2> QED BY <1>0, <2>1, GrownTable
<1>7. UNCHANGED <<program, slide, target, targets, verdict>>
  BY DEF VisitSlide
<1>8. \A r : HeaderSeen(r)' <=> HeaderSeen(r) \/ r = slide
  BY <1>1, <1>7 DEF HeaderSeen
<1>9. \A r \in DOMAIN program : ~HeaderSeen(r) \/ r < slide
  BY <1>1 DEF HeaderSeen
<1>10. duplicated => Repeats(slide)
  <2> SUFFICES ASSUME duplicated PROVE Repeats(slide)
    OBVIOUS
  <2>1. s.id \in Names /\ Holds(ids, s.id)
    BY <1>0, <1>4, Search
  <2>2. PICK r \in DOMAIN program : HeaderSeen(r) /\ program[r].id = s.id
    BY <2>1 DEF IInv, Sound
  <2>3. r \in 1..(slide - 1)
    BY <1>1, <1>9, <2>2, ProgramParts DEF TypeOK
  <2> QED
    BY <2>2, <2>3 DEF Repeats
<1>11. Sound'
  <2>1. ASSUME NEW n \in Names, Holds(ids', n)
        PROVE  \E r \in DOMAIN program : HeaderSeen(r)' /\ program[r].id = n
    BY <1>1, <1>6, <1>8, <2>1, NullAssumption DEF IInv, Sound
  <2>2. ASSUME NEW n \in Names, Holds(titles', n)
        PROVE  \E r \in DOMAIN program : program[r].title = n
    BY <1>1, <1>5, <2>2, NullAssumption DEF IInv, Sound
  <2>3. \A n : Holds(targets, n)' <=> Holds(targets, n)
    BY <1>7 DEF Holds
  <2> QED
    BY <1>7, <2>1, <2>2, <2>3 DEF IInv, Sound, Holds
<1>12. Complete'
  <2> SUFFICES ASSUME ~denied', NEW r \in DOMAIN program, HeaderSeen(r)'
               PROVE  /\ program[r].title # NULL => Kept(titles', program[r].title)
                      /\ program[r].id # NULL => Kept(ids', program[r].id)
    BY <1>7 DEF Complete, Kept, Holds
  <2>1. ~denied
    BY <1>2
  <2>2. CASE r = slide
    <3>1. s.title # NULL => Kept(titles', s.title)
      BY <1>2, <1>5 DEF Kept
    <3>2. ASSUME duplicated PROVE Kept(ids', s.id)
      BY <1>0, <1>6, <3>2, Search DEF Kept
    <3>3. ASSUME ~duplicated, s.id # NULL PROVE Kept(ids', s.id)
      BY <1>2, <1>6, <3>3 DEF Kept
    <3> QED
      BY <2>2, <3>1, <3>2, <3>3
  <2>3. CASE HeaderSeen(r)
    BY <1>5, <1>6, <2>1, <2>3 DEF IInv, Complete, Kept
  <2> QED
    BY <1>8, <2>2, <2>3
<1>13. Judged'
  <2> SUFFICES ASSUME errors' = 0 PROVE Judged'
    BY DEF Judged
  <2>1. errors = 0 /\ ~duplicated
    BY <1>1, <1>3 DEF TypeOK
  <2>2. \A r \in DOMAIN program : \A i \in DOMAIN program[r].items :
          ItemSeen(r, i)' => ItemSeen(r, i)
    BY <1>1, <1>7, ProgramParts DEF ItemSeen
  <2>3. ASSUME ~denied', NEW r \in DOMAIN program, HeaderSeen(r)' PROVE ~Repeats(r)
    <3>1. ~denied
      BY <1>2, <2>3
    <3>2. CASE HeaderSeen(r)
      BY <2>1, <3>1, <3>2 DEF IInv, Judged
    <3>3. CASE r = slide
      <4> SUFFICES ASSUME Repeats(slide) PROVE FALSE
        BY <3>3
      <4>1. PICK q \in 1..(slide - 1) : program[q].id = s.id /\ s.id # NULL
        BY DEF Repeats
      <4>2. q \in DOMAIN program /\ HeaderSeen(q)
        BY <1>1, <4>1 DEF TypeOK, HeaderSeen
      <4>3. Kept(ids, s.id)
        BY <3>1, <4>1, <4>2 DEF IInv, Complete
      <4>4. Absent(ids, s.id)
        BY <2>1, <4>1 DEF VisitSlide
      <4> QED
        BY <1>0, <4>1, <4>3, <4>4, Search
    <3> QED
      BY <1>8, <2>3, <3>2, <3>3
  <2>4. \A r \in DOMAIN program : Repeats(r)' <=> Repeats(r)
    BY <1>7 DEF Repeats
  <2>5. \A n : Holds(targets, n)' <=> Holds(targets, n)
    BY <1>7 DEF Holds
  <2>6. \A n : Named(n)' <=> Named(n)
    BY <1>7 DEF Named
  <2> QED
    BY <1>7, <2>1, <2>2, <2>3, <2>4, <2>5, <2>6 DEF IInv, Judged, Kept, Holds
<1>14. Justified'
  <2> SUFFICES ASSUME errors' > 0, ~denied' PROVE ~(ItemsSound /\ IdsUnique)
    BY <1>7 DEF Justified, ItemsSound, IdsUnique, Bad, Named, Repeats
  <2>1. CASE duplicated
    BY <1>1, <1>10, <2>1 DEF IdsUnique
  <2>2. CASE ~duplicated
    BY <1>2, <1>3, <2>2 DEF IInv, Justified
  <2> QED
    BY <2>1, <2>2
<1>15. Progress'
  BY <1>1, <1>7 DEF IInv, Progress
<1> QED
  BY <1>11, <1>12, <1>13, <1>14, <1>15 DEF IInv

LEMMA VisitItemInv == IInv /\ TypeOK' /\ VisitItem => IInv'
<1> SUFFICES ASSUME IInv, TypeOK', VisitItem PROVE IInv'
  OBVIOUS
<1> DEFINE it == program[slide].items[item]
           text == it.text
           missing == it.type \in {"image", "link"} /\ text = NULL
           linked == it.type = "link" /\ text # NULL
<1>1. /\ TypeOK /\ slide \in DOMAIN program /\ pc = "items"
      /\ item \in DOMAIN program[slide].items /\ item' = item + 1
      /\ UNCHANGED <<program, pc, slide, target, ids, titles, verdict>>
  <2>1. TypeOK /\ pc = "items" /\ slide \in DOMAIN program
    BY DEF IInv, TypeOK, VisitItem
  <2>2. program[slide].items \in Seq(Item)
    BY <2>1, ProgramParts
  <2>3. item \in 1..Len(program[slide].items)
    BY <2>1, <2>2 DEF VisitItem, TypeOK
  <2> QED
    BY <2>1, <2>2, <2>3 DEF VisitItem
<1>2. PICK outcome \in {"stored", "denied", "blank"} :
        /\ targets' = IF linked THEN Grown(targets, text, outcome) ELSE targets
        /\ errors' = IF missing \/ (linked /\ outcome = "denied") THEN errors + 1 ELSE errors
        /\ denied' = (denied \/ (linked /\ outcome = "denied"))
  BY OutcomesAssumption DEF VisitItem
<1>3. it \in Item /\ text \in Names \cup {NULL}
  BY <1>1, ProgramParts
<1>4. targets \in Seq(Names \cup {NULL}) /\ errors \in Nat
  BY <1>1, Tables
<1>5. /\ \A n : Holds(targets', n) <=> \/ Holds(targets, n)
                                       \/ n = text /\ linked /\ outcome = "stored"
                                       \/ n = NULL /\ linked /\ outcome = "blank"
      /\ \A k \in DOMAIN targets' : (k \in DOMAIN targets /\ targets'[k] = targets[k])
                                   \/ k = Len(targets) + 1
  <2>1. CASE linked
    <3>1. targets' = Grown(targets, text, outcome) /\ text # NULL
      BY <1>2, <2>1
    <3>2. text \in Names \cup {NULL}
      BY <1>3
    <3>3. /\ \A n : Holds(targets', n) <=> \/ Holds(targets, n)
                                           \/ n = text /\ outcome = "stored"
                                           \/ n = NULL /\ outcome = "blank"
          /\ \A k \in DOMAIN targets' : (k \in DOMAIN targets /\ targets'[k] = targets[k])
                                       \/ k = Len(targets) + 1
      <4> HIDE DEF text
      <4>1. \A n : Holds(targets', n) <=> \/ Holds(targets, n)
                                          \/ n = text /\ outcome = "stored"
                                          \/ n = NULL /\ outcome = "blank"
        BY <1>4, <3>1, <3>2, GrownTable
      <4>2. \A k \in DOMAIN targets' : (k \in DOMAIN targets /\ targets'[k] = targets[k])
                                       \/ k = Len(targets) + 1
        BY <1>4, <3>1, <3>2, GrownTable
      <4> QED
        BY <4>1, <4>2
    <3> QED
      BY <2>1, <3>3
  <2>2. CASE ~linked
    BY <1>2, <2>2
  <2> QED
    BY <2>1, <2>2
<1>6. \A r : HeaderSeen(r)' <=> HeaderSeen(r)
  BY <1>1 DEF HeaderSeen
<1>7. \A n : (Holds(ids, n)' <=> Holds(ids, n)) /\ (Holds(titles, n)' <=> Holds(titles, n))
  BY <1>1 DEF Holds
<1>8. \A n : Named(n)' <=> Named(n)
  BY <1>1 DEF Named
<1>9. \A r : Repeats(r)' <=> Repeats(r)
  BY <1>1 DEF Repeats
<1>10. Sound'
  <2>1. ASSUME NEW n \in Names \cup {NULL}, Holds(targets', n)
        PROVE  \E r \in DOMAIN program : \E i \in DOMAIN program[r].items :
                 /\ program[r].items[i].type = "link"
                 /\ program[r].items[i].text \in IF n = NULL THEN Names ELSE {n}
    <3>1. CASE Holds(targets, n)
      BY <3>1 DEF IInv, Sound
    <3>2. CASE n \in {text, NULL} /\ linked
      <4>1. it.type = "link" /\ text \in IF n = NULL THEN Names ELSE {n}
        BY <1>3, <3>2, NullAssumption
      <4> QED
        BY <1>1, <4>1
    <3> QED
      BY <1>5, <2>1, <3>1, <3>2
  <2>2. \A n : Holds(targets', n) <=> Holds(targets, n)'
    BY DEF Holds
  <2> QED
    BY <1>1, <1>6, <1>7, <2>1, <2>2 DEF IInv, Sound
<1>11. Complete'
  BY <1>1, <1>2, <1>6, <1>7 DEF IInv, Complete, Kept
<1>12. Judged'
  <2> SUFFICES ASSUME errors' = 0 PROVE Judged'
    BY DEF Judged
  <2>1. errors = 0 /\ ~missing /\ (linked => outcome # "denied")
    BY <1>2, <1>4
  <2>2. ASSUME NEW r \in DOMAIN program, NEW i \in DOMAIN program[r].items, ItemSeen(r, i)'
        PROVE  LET jt == program[r].items[i]
               IN  /\ jt.type = "image" => jt.text # NULL
                   /\ jt.type = "link" => jt.text # NULL /\ Kept(targets', jt.text)
    <3>1. ItemSeen(r, i) \/ (r = slide /\ i = item)
      BY <1>1, <2>2, ProgramParts DEF ItemSeen, TypeOK
    <3>2. CASE ItemSeen(r, i)
      BY <1>5, <2>1, <3>2 DEF IInv, Judged, Kept
    <3>3. CASE r = slide /\ i = item
      BY <1>5, <2>1, <3>3 DEF Kept
    <3> QED
      BY <3>1, <3>2, <3>3
  <2>3. ASSUME NEW k \in DOMAIN targets', k < target PROVE Named(targets'[k])
    <3>1. target = 1 /\ k \in Nat \ {0}
      BY <1>1, <2>3 DEF IInv, Progress, TypeOK
    <3> QED
      BY <2>3, <3>1
  <2>4. ~denied' => \A r \in DOMAIN program : HeaderSeen(r) => ~Repeats(r)
    BY <1>2, <2>1 DEF IInv, Judged
  <2>5. \A n : Kept(targets', n) <=> Kept(targets, n)'
    BY DEF Kept, Holds
  <2> QED
    BY <1>1, <1>6, <1>8, <1>9, <2>2, <2>3, <2>4, <2>5 DEF Judged
<1>13. Justified'
  <2> SUFFICES ASSUME errors' > 0, ~denied' PROVE ~(ItemsSound /\ IdsUnique)
    BY <1>1 DEF Justified, ItemsSound, IdsUnique, Bad, Named, Repeats
  <2>1. CASE missing
    <3>1. Bad(slide, item)
      BY <2>1 DEF Bad, Named
    <3> QED
      BY <1>1, <3>1 DEF ItemsSound
  <2>2. CASE ~missing
    BY <1>2, <2>2 DEF IInv, Justified
  <2> QED
    BY <2>1, <2>2
<1>14. Progress'
  <2>1. verdict = "IN_PROGRESS" /\ target = 1
    BY <1>1 DEF IInv, Progress
  <2> QED
    BY <1>1, <2>1 DEF Progress
<1> QED
  BY <1>10, <1>11, <1>12, <1>13, <1>14 DEF IInv

(***************************************************************************)
(* strcmp is given a NULL only where a table holds one, and that takes a   *)
(* strdup that failed.                                                     *)
(***************************************************************************)
LEMMA NullFromMemory == TypeOK /\ CompareNull => blank
<1> SUFFICES ASSUME TypeOK, CompareNull PROVE blank
  OBVIOUS
<1> DEFINE id == program[slide].id
           name == targets[target]
<1>1. /\ ids \in Seq(Names \cup {NULL}) /\ (Holds(ids, NULL) => blank)
      /\ titles \in Seq(Names \cup {NULL}) /\ (Holds(titles, NULL) => blank)
      /\ targets \in Seq(Names \cup {NULL}) /\ (Holds(targets, NULL) => blank)
  BY Tables
<1>2. CASE id # NULL /\ ~Found(ids, id) /\ ~Absent(ids, id)
  BY <1>1, <1>2, Search
<1>3. CASE target <= Len(targets) /\ ~Known(name) /\ ~Unknown(name)
  <2>1. target \in DOMAIN targets
    BY <1>1, <1>3, Tables
  <2>2. CASE name = NULL
    BY <1>1, <2>1, <2>2 DEF Holds
  <2>3. CASE name # NULL
    <3>1. Holds(ids, NULL) \/ Holds(titles, NULL)
      BY <1>1, <1>3, <2>3, Search DEF Known, Unknown
    <3> QED
      BY <1>1, <3>1
  <2> QED
    BY <2>2, <2>3
<1> QED
  BY <1>2, <1>3 DEF CompareNull

\* The steps that leave the tables, the errors and the slides alone.
LEMMA LoopStepInv ==
  ASSUME IInv, TypeOK', NextSlide \/ EndSlides \/ Finish \/ CompareNull
  PROVE  IInv'
<1>1. TypeOK /\ UNCHANGED <<program, ids, titles, targets, errors, denied, blank, target>>
  BY DEF IInv, NextSlide, EndSlides, Finish, CompareNull
<1>2. \A n : /\ Holds(ids, n)' <=> Holds(ids, n)
             /\ Holds(titles, n)' <=> Holds(titles, n)
             /\ Holds(targets, n)' <=> Holds(targets, n)
             /\ Named(n)' <=> Named(n)
  BY <1>1 DEF Holds, Named
<1>3. \A r \in DOMAIN program : HeaderSeen(r)' <=> HeaderSeen(r)
  <2>1. CASE NextSlide
    BY <1>1, <2>1, ProgramParts DEF HeaderSeen, NextSlide, TypeOK
  <2>2. CASE EndSlides \/ Finish \/ CompareNull
    BY <2>2 DEF HeaderSeen, EndSlides, Finish, CompareNull
  <2> QED
    BY <2>1, <2>2
<1>4. \A r \in DOMAIN program : \A i \in DOMAIN program[r].items :
        ItemSeen(r, i)' => ItemSeen(r, i)
  <2>1. CASE NextSlide
    BY <1>1, <2>1, ProgramParts DEF ItemSeen, NextSlide, TypeOK
  <2>2. CASE EndSlides \/ Finish \/ CompareNull
    BY <2>2 DEF ItemSeen, EndSlides, Finish, CompareNull
  <2> QED
    BY <2>1, <2>2
<1>5. \A r : Repeats(r)' <=> Repeats(r)
  BY <1>1 DEF Repeats
<1>6. Sound' /\ Complete'
  BY <1>1, <1>2, <1>3 DEF IInv, Sound, Complete, Kept
<1>7. Judged'
  BY <1>1, <1>2, <1>3, <1>4, <1>5 DEF IInv, Judged, Kept
<1>8. Justified'
  BY <1>1 DEF IInv, Justified, ItemsSound, IdsUnique, Bad, Named, Repeats
<1>9. Progress'
  <2>1. CASE NextSlide \/ EndSlides \/ Finish
    BY <1>1, <2>1 DEF IInv, Progress, NextSlide, EndSlides, Finish, TypeOK
  <2>2. CASE CompareNull
    <3>1. blank' /\ pc' = "crashed" /\ pc # "done" /\ verdict' = verdict
      BY <1>1, <2>2, NullFromMemory DEF CompareNull
    <3> QED
      BY <3>1 DEF IInv, Progress
  <2> QED
    BY <2>1, <2>2
<1> QED
  BY <1>6, <1>7, <1>8, <1>9 DEF IInv

LEMMA CheckTargetInv == IInv /\ TypeOK' /\ CheckTarget => IInv'
<1> SUFFICES ASSUME IInv, TypeOK', CheckTarget PROVE IInv'
  OBVIOUS
<1> DEFINE name == targets[target]
           found == Known(name)
<1>1. /\ TypeOK /\ target \in DOMAIN targets /\ target' = target + 1
      /\ UNCHANGED <<program, pc, slide, item, ids, titles, targets, denied, blank, verdict>>
      /\ errors' = IF found THEN errors ELSE errors + 1
      /\ errors \in Nat /\ target \in Nat /\ name \in Names \cup {NULL}
      /\ pc = "targets" /\ (found \/ Unknown(name))
  BY Tables DEF IInv, CheckTarget
<1>0. ids \in Seq(Names \cup {NULL}) /\ titles \in Seq(Names \cup {NULL})
  BY <1>1, Tables
<1>2. \A n : /\ Holds(ids, n)' <=> Holds(ids, n)
             /\ Holds(titles, n)' <=> Holds(titles, n)
             /\ Holds(targets, n)' <=> Holds(targets, n)
             /\ Named(n)' <=> Named(n)
             /\ Repeats(n)' <=> Repeats(n)
  BY <1>1 DEF Holds, Named, Repeats
<1>3. \A r : HeaderSeen(r)' <=> HeaderSeen(r)
  BY <1>1 DEF HeaderSeen
<1>4. \A r, i : ItemSeen(r, i)' <=> ItemSeen(r, i)
  BY <1>1 DEF ItemSeen
<1>5. Sound' /\ Complete'
  BY <1>1, <1>2, <1>3 DEF IInv, Sound, Complete, Kept
<1>6. found => Named(name)
  <2>1. found => name \in Names /\ (Holds(ids, name) \/ Holds(titles, name))
    BY <1>0, <1>1, Search DEF Known
  <2> QED
    BY <2>1, NullAssumption DEF IInv, Sound, Named
<1>7. Judged'
  <2> SUFFICES ASSUME errors' = 0 PROVE Judged'
    BY DEF Judged
  <2>1. errors = 0 /\ Named(name)
    BY <1>1, <1>6
  <2>2. \A k \in DOMAIN targets : k < target' => Named(targets[k])
    BY <1>1, <2>1 DEF IInv, Judged, TypeOK
  <2> QED
    BY <1>1, <1>2, <1>3, <1>4, <2>1, <2>2 DEF IInv, Judged, Kept
<1>8. Justified'
  <2> SUFFICES ASSUME errors' > 0, ~denied PROVE ~(ItemsSound /\ IdsUnique)
    BY <1>1 DEF Justified, ItemsSound, IdsUnique, Bad, Named, Repeats
  <2>1. CASE found
    BY <1>1, <2>1 DEF IInv, Justified
  <2>2. CASE ~found
    <3>1. Holds(targets, name)
      BY <1>1 DEF Holds
    <3>2. PICK r \in DOMAIN program : \E i \in DOMAIN program[r].items :
            /\ program[r].items[i].type = "link"
            /\ program[r].items[i].text \in IF name = NULL THEN Names ELSE {name}
      BY <1>1, <3>1 DEF IInv, Sound
    <3>3. PICK i \in DOMAIN program[r].items :
            /\ program[r].items[i].type = "link"
            /\ program[r].items[i].text \in IF name = NULL THEN Names ELSE {name}
      BY <3>2
    <3> DEFINE text == program[r].items[i].text
    <3>4. text # NULL /\ (name = NULL \/ text = name)
      BY <1>1, <3>3, NullAssumption
    <3>5. ~Named(text)
      <4> SUFFICES ASSUME Named(text) PROVE FALSE
        OBVIOUS
      <4>1. PICK q \in DOMAIN program : text \in {program[q].id, program[q].title}
        BY DEF Named
      <4>2. HeaderSeen(q)
        BY <1>1, <4>1, ProgramParts DEF IInv, Progress, HeaderSeen, TypeOK
      <4>3. Kept(ids, text) \/ Kept(titles, text)
        BY <1>1, <3>4, <4>1, <4>2 DEF IInv, Complete
      <4>4. Absent(ids, name) /\ Absent(titles, name)
        BY <1>1, <2>2 DEF Unknown
      <4>5. CASE name = NULL
        BY <1>0, <4>3, <4>4, <4>5, Search DEF Kept
      <4>6. CASE name # NULL
        BY <1>0, <3>4, <4>3, <4>4, <4>6, Search
      <4> QED
        BY <4>5, <4>6
    <3>6. Bad(r, i)
      BY <3>3, <3>5 DEF Bad
    <3> QED
      BY <3>3, <3>6 DEF ItemsSound
  <2> QED
    BY <2>1, <2>2
<1>9. Progress'
  BY <1>1 DEF IInv, Progress
<1> QED
  BY <1>5, <1>7, <1>8, <1>9 DEF IInv

LEMMA StutterInv == IInv /\ UNCHANGED vars => IInv'
<1> SUFFICES ASSUME IInv, UNCHANGED vars PROVE IInv'
  OBVIOUS
<1>1. TypeOK'
  BY DEF IInv, vars, TypeOK, Holds
<1>2. Sound'
  BY DEF IInv, vars, Sound, HeaderSeen, Holds
<1>3. Complete'
  BY DEF IInv, vars, Complete, HeaderSeen, Kept, Holds
<1>4. Judged'
  BY DEF IInv, vars, Judged, HeaderSeen, ItemSeen, Kept, Holds, Named, Repeats
<1>5. Justified' /\ Progress'
  BY DEF IInv, vars, Justified, Progress, ItemsSound, IdsUnique, Bad, Named, Repeats
<1> QED
  BY <1>1, <1>2, <1>3, <1>4, <1>5 DEF IInv

LEMMA StepInv == IInv /\ [Next]_vars => IInv'
<1> SUFFICES ASSUME IInv, [Next]_vars PROVE IInv'
  OBVIOUS
<1>1. TypeOK'
  BY TypeStep DEF IInv
<1> QED
  BY <1>1, VisitSlideInv, VisitItemInv, LoopStepInv, CheckTargetInv, StutterInv DEF Next

(***************************************************************************)
(* The invariant holds in every behaviour of the analysis, for all         *)
(* programs and all failures of realloc and strdup.                        *)
(***************************************************************************)
THEOREM Invariance == Spec => []IInv
BY InitInv, StepInv, PTL DEF Spec

(***************************************************************************)
(* Every variable keeps its type (executeSemanticAnalysis,                 *)
(* SemanticAnalyzer.c:102-146).                                            *)
(***************************************************************************)
THEOREM TypeCorrect == Spec => []TypeOK
BY Invariance, PTL DEF IInv

\* A place of a slide or an item has been seen once the targets are checked.
LEMMA AllSeen ==
  ASSUME IInv, pc = "done"
  PROVE  \A s \in DOMAIN program :
           /\ HeaderSeen(s)
           /\ \A i \in DOMAIN program[s].items : ItemSeen(s, i)
BY ProgramParts DEF IInv, Progress, HeaderSeen, ItemSeen, TypeOK

LEMMA NoErrorNoFlaw ==
  ASSUME IInv, pc = "done", errors = 0
  PROVE  ItemsSound /\ (~denied => IdsUnique)
<1>1. ASSUME NEW s \in DOMAIN program, NEW i \in DOMAIN program[s].items, Bad(s, i)
      PROVE  FALSE
  <2> DEFINE it == program[s].items[i]
  <2>1. /\ it.type = "image" => it.text # NULL
        /\ it.type = "link" => it.text # NULL /\ Kept(targets, it.text)
    BY AllSeen DEF IInv, Judged
  <2>2. it.type = "link" /\ ~Named(it.text)
    BY <1>1, <2>1 DEF Bad
  <2>3. PICK k \in DOMAIN targets : targets[k] \in {it.text, NULL}
    BY <2>1, <2>2 DEF Kept, Holds
  <2>4. k < target
    BY <2>3 DEF IInv, Progress, TypeOK
  <2>5. Named(targets[k])
    BY <2>3, <2>4 DEF IInv, Judged
  <2> QED
    BY <2>2, <2>3, <2>5 DEF Named
<1>2. ~denied => IdsUnique
  BY AllSeen DEF IInv, Judged, IdsUnique
<1> QED
  BY <1>1, <1>2 DEF ItemsSound

LEMMA AcceptedSound == IInv => AcceptedLinksResolve
<1> SUFFICES ASSUME IInv, verdict = "SUCCEEDED" PROVE ItemsSound
  BY DEF AcceptedLinksResolve
<1>1. pc = "done" /\ errors = 0
  BY DEF IInv, Progress, TypeOK
<1> QED
  BY <1>1, NoErrorNoFlaw

(***************************************************************************)
(* An accepted program has a slide for every link, whatever memory the     *)
(* analysis was refused (_validateLinkTargets, SemanticAnalyzer.c:93-100,  *)
(* and the unchecked registrations on lines 38 and 120).                   *)
(***************************************************************************)
THEOREM LinksResolve == Spec => []AcceptedLinksResolve
BY Invariance, AcceptedSound, PTL

(***************************************************************************)
(* While no realloc fails a verdict is the one the program deserves, for   *)
(* programs of any size, whichever strdups fail.                           *)
(***************************************************************************)
THEOREM Exactness == Spec => []VerdictIsExact
<1>1. IInv => VerdictIsExact
  <2> SUFFICES ASSUME IInv, pc = "done", ~denied
               PROVE  verdict = "SUCCEEDED" <=> ItemsSound /\ IdsUnique
    BY DEF VerdictIsExact
  <2>1. errors \in Nat /\ (verdict = "SUCCEEDED" <=> errors = 0)
    BY DEF IInv, Progress, TypeOK
  <2>2. CASE errors = 0
    BY <2>1, <2>2, NoErrorNoFlaw
  <2>3. CASE errors > 0
    BY <2>1, <2>3 DEF IInv, Justified
  <2> QED
    BY <2>1, <2>2, <2>3
<1> QED
  BY Invariance, <1>1, PTL

(***************************************************************************)
(* The process ends in strcmp only after a strdup has failed: no slide, no *)
(* id and no target of a presentation brings a NULL there by itself        *)
(* (_findId, SemanticAnalyzer.c:24-29, and the guards on lines 32, 64, 118 *)
(* and 125).                                                               *)
(***************************************************************************)
THEOREM CrashOnlyWithoutMemory == Spec => []CrashesOnlyBlank
<1>1. IInv => CrashesOnlyBlank
  BY DEF IInv, Progress, CrashesOnlyBlank
<1> QED
  BY Invariance, <1>1, PTL

=============================================================================
