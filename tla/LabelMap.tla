------------------------------ MODULE LabelMap ------------------------------
(***************************************************************************)
(* The labels of the generated presentation (Generator.c): which slides    *)
(* some link needs, the label each of them gets, and the map from ids and  *)
(* titles to labels that links are resolved with.                          *)
(*                                                                         *)
(* slideLabels is the part of the calloc'ed array that has been filled in: *)
(* a slide no link needs keeps its NULL there.  strcmp does not accept a   *)
(* NULL: in the build of the repository, with AddressSanitizer, the        *)
(* process ends there ("crashed").                                         *)
(***************************************************************************)
EXTENDS LabelText

CONSTANTS
  Texts,        \* the strings titles, ids, captions and targets are taken from
  Programs,     \* the presentations to generate
  MaxSuffix     \* bounds the suffix counter: it stays there

Kinds == {"bullet", "numbered", "image", "link", "other"}
Item == [kind : Kinds, text : Texts \cup {NULL}]
Slide == [title : Texts \cup {NULL}, id : Texts \cup {NULL}, items : Seq(Item)]

\* The label of a slide before it is told apart from others: its id as it stands.
LabelOf(s, index) == IF s.id # NULL THEN s.id ELSE SanitizeLabel(s.title, index)

ASSUME NullAssumption == NULL \notin Texts
ASSUME ProgramsAssumption == Programs \subseteq Seq(Slide)
ASSUME MaxSuffixAssumption == MaxSuffix \in Nat /\ MaxSuffix > 2

\* strdup and calloc succeed: no label that is made is the null pointer.
ASSUME LabelsAssumption ==
  \A p \in Programs : \A s \in DOMAIN p :
    /\ LabelOf(p[s], s) # NULL
    /\ \A n \in 2..MaxSuffix : Candidate(LabelOf(p[s], s), n) # NULL

VARIABLES
  program,        \* the slides
  pc,             \* "collect", "label", "suffix", "write" or "crashed"
  slide, item,    \* where the loops stand
  targets,        \* what links point to, each string once
  slideLabels,    \* the labels given so far, slide by slide
  map,            \* keys and labels, two arrays that grow together
  base, suffix    \* the label taken already and the number to tell it apart by

labelVars == <<program, pc, slide, item, targets, slideLabels, map, base, suffix>>

LabelInit ==
  /\ program \in Programs
  /\ pc = "collect"
  /\ slide = 1 /\ item = 1
  /\ targets = <<>> /\ slideLabels = <<>> /\ map = <<>>
  /\ base = NULL /\ suffix = 0

Items == program[slide].items

CollectItem ==
  /\ pc = "collect" /\ slide <= Len(program) /\ item <= Len(Items)
  /\ LET it == Items[item]
         isNew == it.kind = "link" /\ it.text # NULL /\ ~Contains(targets, it.text)
     IN  targets' = IF isNew THEN Append(targets, it.text) ELSE targets
  /\ item' = item + 1
  /\ UNCHANGED <<program, pc, slide, slideLabels, map, base, suffix>>

CollectNext ==
  /\ pc = "collect" /\ slide <= Len(program) /\ item > Len(Items)
  /\ slide' = slide + 1 /\ item' = 1
  /\ UNCHANGED <<program, pc, targets, slideLabels, map, base, suffix>>

CollectEnd ==
  /\ pc = "collect" /\ slide > Len(program)
  /\ pc' = "label"
  /\ slide' = 1
  /\ UNCHANGED <<program, item, targets, slideLabels, map, base, suffix>>

Needed(s) == \E k \in DOMAIN targets : targets[k] \in {program[s].id, program[s].title}

BaseLabel(s) == LabelOf(program[s], s)

(***************************************************************************)
(* _findLabel over the labels of the slides before: strcmp with each until *)
(* one is equal.  Neither Found nor Absent: it met a NULL.                 *)
(***************************************************************************)
Found(label) ==
  \E i \in DOMAIN slideLabels :
    slideLabels[i] = label /\ \A j \in 1..(i - 1) : slideLabels[j] # NULL

\* (Deviation: the last label is not compared with.)
AbsentButLast(label) ==
  \A i \in DOMAIN slideLabels : i < Len(slideLabels) => slideLabels[i] \notin {NULL, label}
Absent(label) == \A i \in DOMAIN slideLabels : slideLabels[i] \notin {NULL, label}

\* The keys of a slide: its id, then its title.
Key(name) == IF name = NULL THEN <<>> ELSE <<name>>
Keys(s) == Key(program[s].id) \o Key(program[s].title)

\* Deviation: the map remembers the label before it was told apart.
StoreBase(label) ==
  /\ slideLabels' = Append(slideLabels, label)
  /\ map' = map \o [k \in DOMAIN Keys(slide) |->
                      [key |-> Keys(slide)[k], label |-> BaseLabel(slide)]]
  /\ slide' = slide + 1
  /\ base' = NULL /\ suffix' = 0

Store(label) ==
  /\ slideLabels' = Append(slideLabels, label)
  /\ map' = map \o [k \in DOMAIN Keys(slide) |-> [key |-> Keys(slide)[k], label |-> label]]
  /\ slide' = slide + 1
  /\ base' = NULL /\ suffix' = 0

\* Deviations: a slide without a label gets an empty one; it gets no place at all.
SkipWith(filled) ==
  /\ pc = "label" /\ slide <= Len(program)
  /\ ~Needed(slide)
  /\ slideLabels' = slideLabels \o filled
  /\ slide' = slide + 1
  /\ UNCHANGED <<program, pc, item, targets, map, base, suffix>>
SkipEmpty == SkipWith(<<<<>>>>)
SkipNoPlace == SkipWith(<<>>)

Skip ==
  /\ pc = "label" /\ slide <= Len(program)
  /\ ~Needed(slide)
  /\ slideLabels' = Append(slideLabels, NULL)
  /\ slide' = slide + 1
  /\ UNCHANGED <<program, pc, item, targets, map, base, suffix>>

Name ==
  /\ pc = "label" /\ slide <= Len(program)
  /\ Needed(slide) /\ Absent(BaseLabel(slide))
  /\ Store(BaseLabel(slide))
  /\ UNCHANGED <<program, pc, item, targets>>

Collide ==
  /\ pc = "label" /\ slide <= Len(program)
  /\ Needed(slide) /\ Found(BaseLabel(slide))
  /\ base' = BaseLabel(slide) /\ suffix' = 2
  /\ pc' = "suffix"
  /\ UNCHANGED <<program, slide, item, targets, slideLabels, map>>

NameApart ==
  /\ pc = "suffix"
  /\ Absent(Candidate(base, suffix))
  /\ Store(Candidate(base, suffix))
  /\ pc' = "label"
  /\ UNCHANGED <<program, item, targets>>

NextSuffix ==
  /\ pc = "suffix"
  /\ Found(Candidate(base, suffix))
  /\ suffix' = IF suffix < MaxSuffix THEN suffix + 1 ELSE suffix
  /\ UNCHANGED <<program, pc, slide, item, targets, slideLabels, map, base>>

\* strcmp is called with the label of a slide that has none.
CompareNull ==
  /\ \/ pc = "label" /\ slide <= Len(program) /\ Needed(slide)
        /\ ~Found(BaseLabel(slide)) /\ ~Absent(BaseLabel(slide))
     \/ pc = "suffix"
        /\ ~Found(Candidate(base, suffix)) /\ ~Absent(Candidate(base, suffix))
  /\ pc' = "crashed"
  /\ UNCHANGED <<program, slide, item, targets, slideLabels, map, base, suffix>>

LabelEnd ==
  /\ pc = "label" /\ slide > Len(program)
  /\ pc' = "write"
  /\ slide' = 1
  /\ UNCHANGED <<program, item, targets, slideLabels, map, base, suffix>>

LabelNext ==
  \/ CollectItem \/ CollectNext \/ CollectEnd
  \/ Skip \/ Name \/ Collide \/ NameApart \/ NextSuffix \/ CompareNull \/ LabelEnd

\* A sequential function: it takes its next step.
LabelSpec == LabelInit /\ [][LabelNext]_labelVars /\ WF_labelVars(LabelNext)

\* Deviation: the last key that matches wins.
ResolveLast(target) ==
  LET hits == {k \in DOMAIN map : map[k].key = target}
  IN  IF hits = {} THEN NULL ELSE map[Max(hits)].label

\* _resolveLabel: the label of the first key that matches.
ResolveLabel(target) ==
  LET hits == {k \in DOMAIN map : map[k].key = target}
  IN  IF hits = {} THEN NULL ELSE map[Min(hits)].label

-----------------------------------------------------------------------------

LabelTypeOK ==
  /\ program \in Seq(Slide)
  /\ pc \in {"collect", "label", "suffix", "write", "crashed"}
  /\ slide \in Nat \ {0} /\ item \in Nat \ {0} /\ suffix \in 0..MaxSuffix
  /\ targets \in Seq(Texts)
  /\ pc \in {"label", "suffix"} => Len(slideLabels) = slide - 1
  /\ pc = "suffix" => slide <= Len(program)
  /\ \A k \in DOMAIN map : map[k].key \in Texts

\* The slides that bear a name as id or title, and whether links need them.
Bearers(name) == {s \in DOMAIN program : name \in {program[s].id, program[s].title}}
Linked(name) ==
  \E s \in DOMAIN program : \E i \in DOMAIN program[s].items :
    program[s].items[i] = [kind |-> "link", text |-> name]
IsTarget(s) == \E name \in Texts : Linked(name) /\ s \in Bearers(name)

(***************************************************************************)
(* No two slides get the same label, whatever their titles and ids, and    *)
(* however sanitizing, lower-casing and cutting make them alike: a link    *)
(* leads to one frame only (_buildLabelMap, Generator.c:127-132).          *)
(***************************************************************************)
LabelsUnique ==
  \A i, j \in DOMAIN slideLabels :
    i # j /\ slideLabels[i] # NULL => slideLabels[i] # slideLabels[j]

(***************************************************************************)
(* Once the map is complete each link whose target some slide bears is     *)
(* resolved, and to the first slide that bears it: ids take no precedence  *)
(* over the titles of slides before (Generator.c:133-140, 146-150).        *)
(***************************************************************************)
LinksLeadToFirst ==
  pc = "write" =>
    \A name \in Texts :
      Linked(name) /\ Bearers(name) # {} =>
        /\ ResolveLabel(name) # NULL
        /\ ResolveLabel(name) = slideLabels[Min(Bearers(name))]

(***************************************************************************)
(* Exactly the slides some link leads to have a label                      *)
(* (_collectLinkTargets and the needed flag, Generator.c:108-118).         *)
(***************************************************************************)
LabelledWhenNeeded ==
  pc = "write" => \A s \in DOMAIN program : slideLabels[s] # NULL <=> IsTarget(s)

\* No slide a link leads to stands behind one that no link leads to.
TargetsFirst == \A r, s \in DOMAIN program : r < s /\ IsTarget(s) => IsTarget(r)

(***************************************************************************)
(* The search for a free label meets a NULL exactly in the presentations   *)
(* in which a slide that no link leads to stands before one that some link *)
(* leads to (_findLabel, Generator.c:75): there the process ends, in all   *)
(* others it never does.                                                   *)
(***************************************************************************)
CrashesUnlessTargetsFirst ==
  /\ pc = "crashed" => ~TargetsFirst
  /\ pc = "write" => TargetsFirst

=============================================================================
