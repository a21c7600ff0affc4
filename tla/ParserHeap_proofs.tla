-------------------------- MODULE ParserHeap_proofs --------------------------
(***************************************************************************)
(* The safety of the parser and of the memory behind its stack, for every  *)
(* set of tokens and input of every length.                                *)
(*                                                                         *)
(* The stack is a path through the automaton (Path): so the entries under  *)
(* a reduction carry the symbols of its right-hand side, and there are     *)
(* enough of them (Handle).  With the ownership of the blocks described    *)
(* entry by entry (Apart, Placed, Handed), each action then moves blocks   *)
(* from one owner to another, and that is all the theorems of the memory   *)
(* need.                                                                   *)
(*                                                                         *)
(* The tree is the document (TreeIsDocument) because each entry of the     *)
(* stack stands for a part of the input, the parts in order and without    *)
(* gaps, and holds what its symbol makes of that part (Denotes, Meaning).  *)
(* A reduction puts the parts of its handle together; that what it gets is *)
(* what SlideDocument reads off the tokens is a lemma per production.      *)
(***************************************************************************)
EXTENDS ParserTables, FiniteSetTheorems, SequenceTheorems, TLAPS

Sym(i) == AccessingSymbol(stack[i])

Path ==
  /\ stack[1] = Start
  /\ \A i \in 2..Len(stack) :
       \E X \in Reads[stack[i - 1]] \ {EOF} : stack[i] = Goto[stack[i - 1]][X]

Shallow == \A i \in 1..Len(stack) : stack[i] \in StatesAt[i]

IdleEmptyHanded == run # "busy" => look = "none"

ParserInv == TypeOK /\ Path /\ Shallow /\ IdleEmptyHanded

\* An item before its last move, and the symbol of that move.
Back(i) == <<i[1], i[2] - 1>>
JustRead(i) == Rules[i[1]].rhs[i[2]]

-----------------------------------------------------------------------------

LEMMA NoneIsNoToken ==
  /\ "none" \notin Terminals /\ EOF \in Terminals /\ EOF \notin Labels
  /\ Terminals = Labels \cup {EOF} /\ Valued \subseteq Labels
  /\ "program" \notin Terminals
BY DEF Terminals, Labels, Valued, ItemStart, BlockType, EOF

(***************************************************************************)
(* What a move leads to: every item of the new kernel has just read the    *)
(* symbol of the move.                                                     *)
(***************************************************************************)
LEMMA GotoItems ==
  ASSUME NEW K \in States, NEW X \in Reads[K]
  PROVE  /\ Goto[K][X] \in States /\ Goto[K][X] # {}
         /\ \A i \in Goto[K][X] : i[2] # 0 /\ JustRead(i) = X /\ Back(i) \in Closed[K]
<1>1. Goto[K][X] = KernelAfter(Closed[K], X)
  BY DEF Goto
<1>2. PICK j \in Closed[K] : ~AtEnd(j) /\ After(j) = X
  BY DEF Reads
<1>3. Goto[K][X] \in States /\ Closed[K] \subseteq Items
  BY AutomatonAssumption
<1>4. Goto[K][X] # {}
  BY <1>1, <1>2 DEF KernelAfter
<1>5. ASSUME NEW i \in Goto[K][X]
      PROVE  i[2] # 0 /\ JustRead(i) = X /\ Back(i) \in Closed[K]
  <2>1. PICK k \in Closed[K] : ~AtEnd(k) /\ After(k) = X /\ i = <<k[1], k[2] + 1>>
    BY <1>1 DEF KernelAfter
  <2>2. PICK r \in DOMAIN Rules, d \in 0..6 : k = <<r, d>>
    BY <1>3 DEF Items
  <2>3. i[1] = r /\ i[2] = d + 1 /\ Back(i) = k
    BY <2>1, <2>2 DEF Back
  <2> QED
    BY <2>1, <2>2, <2>3 DEF After, JustRead
<1> QED
  BY <1>3, <1>4, <1>5

LEMMA GotoSymbol ==
  ASSUME NEW K \in States, NEW X \in Reads[K]
  PROVE  AccessingSymbol(Goto[K][X]) = X /\ Goto[K][X] # Start
<1> DEFINE G == Goto[K][X]
           c == CHOOSE j \in G : TRUE
<1>1. G # {} /\ \A i \in G : i[2] # 0 /\ JustRead(i) = X
  BY GotoItems
<1>2. AccessingSymbol(G) = X
  <2>1. AccessingSymbol(G) = JustRead(c)
    BY DEF AccessingSymbol, JustRead
  <2>2. c \in G
    BY <1>1
  <2> QED
    BY <1>1, <2>1, <2>2
<1>3. G # Start
  BY <1>1 DEF Start
<1> QED
  BY <1>2, <1>3

(***************************************************************************)
(* One step down the stack: an entry got where it is by reading its symbol.*)
(***************************************************************************)
LEMMA Below ==
  ASSUME TypeOK, Path, NEW p \in 2..Len(stack)
  PROVE  /\ stack[p - 1] \in States /\ Sym(p) \in Reads[stack[p - 1]] \ {EOF}
         /\ stack[p] = Goto[stack[p - 1]][Sym(p)]
         /\ stack[p] \in States /\ stack[p] # Start
<1>1. stack[p - 1] \in States
  BY ElementOfSeq DEF TypeOK
<1>2. PICK X \in Reads[stack[p - 1]] \ {EOF} : stack[p] = Goto[stack[p - 1]][X]
  BY DEF Path
<1>3. Sym(p) = X /\ stack[p] # Start
  BY <1>1, <1>2, GotoSymbol DEF Sym
<1> QED
  BY <1>1, <1>2, <1>3, GotoItems

LEMMA ItemBelow ==
  ASSUME TypeOK, Path, NEW p \in 1..Len(stack), NEW i \in Closed[stack[p]], i[2] # 0
  PROVE  p > 1 /\ JustRead(i) = Sym(p) /\ Sym(p) # EOF /\ Back(i) \in Closed[stack[p - 1]]
<1>1. stack[p] \in States
  BY ElementOfSeq DEF TypeOK
<1>2. i \in stack[p]
  BY <1>1, AutomatonAssumption
<1>3. p > 1
  BY <1>2 DEF Path, Start
<1>4. p \in 2..Len(stack)
  BY <1>3, LenProperties DEF TypeOK
<1>5. Sym(p) \in Reads[stack[p - 1]] \ {EOF} /\ stack[p] = Goto[stack[p - 1]][Sym(p)]
      /\ stack[p - 1] \in States
  BY <1>4, Below
<1>6. \A j \in stack[p] : JustRead(j) = Sym(p) /\ Back(j) \in Closed[stack[p - 1]]
  BY <1>5, GotoItems
<1> QED
  BY <1>2, <1>3, <1>5, <1>6

(***************************************************************************)
(* The handle: when the top completes a rule, its right-hand side is on    *)
(* the stack, above an entry, and the state below it reads the left-hand   *)
(* side.  Productions have six symbols at most, hence the six steps down.  *)
(***************************************************************************)
LEMMA Handle ==
  ASSUME TypeOK, Path, NEW r \in Completes[Top]
  PROVE  /\ r \in DOMAIN Rules /\ r # 1 /\ Len(Rules[r].rhs) \in 0..6
         /\ Base(r) \in 1..Len(stack) /\ Base(r) + Len(Rules[r].rhs) = Len(stack)
         /\ \A k \in 1..Len(Rules[r].rhs) : Sym(Base(r) + k) = Rules[r].rhs[k]
         /\ Rules[r].lhs \in Reads[stack[Base(r)]]
<1> DEFINE n == Len(Rules[r].rhs)
           L == Len(stack)
           Down(k) == /\ L - k \in 1..L /\ <<r, n - k>> \in Closed[stack[L - k]]
                      /\ \A j \in 1..k : Sym(L - k + j) = Rules[r].rhs[n - k + j]
<1>1. L \in Nat /\ L > 0 /\ Top = stack[L] /\ Top \in States
  BY LenProperties, EmptySeq, ElementOfSeq DEF TypeOK, Top, Last
<1>2. PICK i \in Closed[Top] : AtEnd(i) /\ i[1] = r
  BY <1>1 DEF Completes
<1>3. i \in Items
  BY <1>1, AutomatonAssumption
<1>4. r \in DOMAIN Rules /\ i = <<r, n>> /\ n \in 0..6
  <2>1. PICK s \in DOMAIN Rules, d \in 0..6 : i = <<s, d>>
    BY <1>3 DEF Items
  <2>2. s = r /\ d = n
    BY <1>2, <2>1 DEF AtEnd
  <2> QED
    BY <2>1, <2>2
<1>5. Down(0)
  BY <1>1, <1>2, <1>4
<1>6. ASSUME NEW k \in 0..5, Down(k), k < n
      PROVE  Down(k + 1)
  <2> DEFINE it == <<r, n - k>>
             p == L - k
  <2>1. it \in Closed[stack[p]] /\ it[2] # 0 /\ p \in 1..L
    BY <1>4, <1>6
  <2>2. /\ p > 1 /\ Rules[r].rhs[n - k] = Sym(p)
        /\ <<r, n - k - 1>> \in Closed[stack[p - 1]]
    <3>1. p > 1 /\ JustRead(it) = Sym(p) /\ Back(it) \in Closed[stack[p - 1]]
      BY <2>1, ItemBelow
    <3> QED
      BY <3>1, <1>4 DEF JustRead, Back
  <2>3. L - (k + 1) = p - 1 /\ n - (k + 1) = n - k - 1
    BY <1>1, <1>4
  <2>4. ASSUME NEW j \in 1..(k + 1)
        PROVE  Sym(L - (k + 1) + j) = Rules[r].rhs[n - (k + 1) + j]
    <3>1. CASE j = 1
      <4>1. L - (k + 1) + j = p /\ n - (k + 1) + j = n - k
        BY <3>1, <1>1, <1>4
      <4> QED
        BY <4>1, <2>2
    <3>2. CASE j > 1
      <4>1. j - 1 \in 1..k /\ L - (k + 1) + j = L - k + (j - 1)
            /\ n - (k + 1) + j = n - k + (j - 1)
        BY <3>2, <1>1, <1>4
      <4>2. Sym(L - k + (j - 1)) = Rules[r].rhs[n - k + (j - 1)]
        BY <4>1, <1>6
      <4> QED
        BY <4>1, <4>2
    <3> QED
      BY <3>1, <3>2
  <2> QED
    BY <1>1, <2>1, <2>2, <2>3, <2>4
<1>7. Down(n)
  <2> HIDE DEF Down, n
  <2>1. n > 0 => Down(1)
    BY <1>4, <1>5, <1>6
  <2>2. n > 1 => Down(2)
    BY <1>4, <2>1, <1>6
  <2>3. n > 2 => Down(3)
    BY <1>4, <2>2, <1>6
  <2>4. n > 3 => Down(4)
    BY <1>4, <2>3, <1>6
  <2>5. n > 4 => Down(5)
    BY <1>4, <2>4, <1>6
  <2>6. n > 5 => Down(6)
    BY <1>4, <2>5, <1>6
  <2>7. \A k \in 0..6 : k <= n => Down(k)
    <3> SUFFICES ASSUME NEW k \in 0..6, k <= n PROVE Down(k)
      OBVIOUS
    <3>1. k = 0 \/ k = 1 \/ k = 2 \/ k = 3 \/ k = 4 \/ k = 5 \/ k = 6
      OBVIOUS
    <3> QED
      BY <1>4, <1>5, <2>1, <2>2, <2>3, <2>4, <2>5, <2>6, <3>1
  <2>8. n \in 0..6 /\ n <= n
    BY <1>4
  <2> QED
    BY <2>7, <2>8
<1>8. Base(r) = L - n /\ Base(r) \in 1..L /\ Base(r) + n = L
  BY <1>1, <1>4, <1>7 DEF Base
<1>9. \A k \in 1..n : Sym(Base(r) + k) = Rules[r].rhs[k]
  <2> SUFFICES ASSUME NEW k \in 1..n PROVE Sym(Base(r) + k) = Rules[r].rhs[k]
    OBVIOUS
  <2>1. L - n + k = Base(r) + k /\ n - n + k = k
    BY <1>1, <1>4, <1>8
  <2>2. Sym(L - n + k) = Rules[r].rhs[n - n + k]
    BY <1>7
  <2>3. Sym(L - n + k) = Sym(Base(r) + k)
    BY <2>1
  <2>4. Rules[r].rhs[n - n + k] = Rules[r].rhs[k]
    BY <2>1
  <2> QED
    BY <2>2, <2>3, <2>4
<1>10. r # 1
  <2> SUFFICES ASSUME r = 1 PROVE FALSE
    OBVIOUS
  <2>1. n = 2 /\ Rules[r].rhs[2] = EOF
    BY ActionsAssumption
  <2>2. i \in Closed[stack[L]] /\ i[2] # 0 /\ L \in 1..Len(stack)
    BY <1>1, <1>2, <1>4, <2>1
  <2>3. Sym(L) # EOF
    BY <2>2, ItemBelow
  <2> QED
    BY <1>8, <1>9, <2>1, <2>3
<1>11. Rules[r].lhs \in Reads[stack[Base(r)]]
  <2>1. <<r, 0>> \in Closed[stack[Base(r)]] /\ stack[Base(r)] \in States
    BY <1>4, <1>7, <1>8, ElementOfSeq DEF TypeOK
  <2> QED
    BY <1>10, <2>1, AutomatonAssumption
<1> QED
  BY <1>4, <1>8, <1>9, <1>10, <1>11

(***************************************************************************)
(* What both a shift and a reduction do to a sequence: cut it and append.  *)
(***************************************************************************)
LEMMA CutAndAppend ==
  ASSUME NEW S, NEW seq \in Seq(S), NEW p \in 1..Len(seq), NEW e \in S,
         NEW t, t = Append(SubSeq(seq, 1, p), e)
  PROVE  /\ t \in Seq(S) /\ Len(t) = p + 1 /\ t[p + 1] = e
         /\ \A i \in 1..p : t[i] = seq[i]
<1>1. Len(seq) \in Nat /\ \A i \in 1..p : seq[i] \in S
  BY LenProperties, ElementOfSeq
<1>2. /\ SubSeq(seq, 1, p) \in Seq(S) /\ Len(SubSeq(seq, 1, p)) = p
      /\ \A i \in 1..p : SubSeq(seq, 1, p)[i] = seq[i]
  <2>1. \A i \in 1..p : SubSeq(seq, 1, p)[i] = seq[1 + i - 1]
    BY <1>1, SubSeqProperties
  <2> QED
    BY <1>1, <2>1, SubSeqProperties
<1> QED
  BY <1>1, <1>2, AppendProperties

LEMMA TopIsLast ==
  ASSUME TypeOK
  PROVE  /\ Len(stack) \in Nat \ {0} /\ Top = stack[Len(stack)] /\ Top \in States
         /\ \A i \in 1..Len(stack) : stack[i] \in States
BY LenProperties, EmptySeq, ElementOfSeq DEF TypeOK, Top, Last

LEMMA ShallowIsBounded == TypeOK /\ Shallow => StackBounded
<1> SUFFICES ASSUME TypeOK, Shallow, Len(stack) > MaxStack PROVE FALSE
  BY TopIsLast DEF StackBounded, MaxStack
<1>1. MaxStack + 1 \in 1..Len(stack)
  BY TopIsLast DEF MaxStack
<1>2. stack[MaxStack + 1] \in StatesAt[MaxStack + 1]
  BY <1>1 DEF Shallow
<1> QED
  BY <1>2, DepthAssumption

\* One move from entry p, which becomes the last but one.
MoveFrom(p, X) == stack' = Append(SubSeq(stack, 1, p), Goto[stack[p]][X])

LEMMA MoveKeepsPath ==
  ASSUME TypeOK, Path, Shallow,
         NEW p \in 1..Len(stack), NEW X \in Reads[stack[p]] \ {EOF}, MoveFrom(p, X)
  PROVE  /\ stack' \in Seq(States) /\ stack' # <<>> /\ Path' /\ Shallow'
         /\ Len(stack') = p + 1
         /\ \A i \in 1..p : stack'[i] = stack[i] /\ Sym(i)' = Sym(i)
         /\ stack'[p + 1] = Goto[stack[p]][X] /\ Sym(p + 1)' = X
<1> DEFINE K == Goto[stack[p]][X]
<1>1. stack[p] \in States /\ K \in States /\ Len(stack) \in Nat
  BY TopIsLast, GotoItems
<1>2. /\ stack' \in Seq(States) /\ Len(stack') = p + 1 /\ stack'[p + 1] = K
      /\ \A i \in 1..p : stack'[i] = stack[i]
  BY <1>1, CutAndAppend DEF TypeOK, MoveFrom
<1>3. stack' # <<>>
  BY <1>1, <1>2, EmptySeq
<1>4. Path'
  <2>1. stack'[1] = Start
    BY <1>2 DEF Path
  <2>2. ASSUME NEW i \in 2..(p + 1)
        PROVE  \E Y \in Reads[stack'[i - 1]] \ {EOF} : stack'[i] = Goto[stack'[i - 1]][Y]
    <3>1. CASE i = p + 1
      BY <3>1, <1>1, <1>2
    <3>2. CASE i \in 2..p
      <4>1. stack'[i] = stack[i] /\ stack'[i - 1] = stack[i - 1] /\ i \in 2..Len(stack)
        BY <3>2, <1>1, <1>2
      <4> QED
        BY <4>1 DEF Path
    <3> QED
      BY <3>1, <3>2, <1>1
  <2> QED
    BY <1>2, <2>1, <2>2 DEF Path
<1>5. Shallow'
  <2>1. p \in 1..MaxStack
    BY <1>1, ShallowIsBounded DEF StackBounded, MaxStack
  <2>2. K \in StatesAt[p + 1]
    BY <2>1, DepthAssumption DEF Shallow
  <2> QED
    BY <1>1, <1>2, <2>2 DEF Shallow
<1>6. Sym(p + 1)' = X /\ \A i \in 1..p : Sym(i)' = Sym(i)
  BY <1>1, <1>2, GotoSymbol DEF Sym
<1> QED
  BY <1>2, <1>3, <1>4, <1>5, <1>6

-----------------------------------------------------------------------------

\* A reduction in terms of a move.
LEMMA ReduceMoves ==
  ASSUME TypeOK, Path, NEW r \in DOMAIN Rules, Reduce(r)
  PROVE  /\ r \in Completes[Top] /\ Base(r) \in 1..Len(stack)
         /\ Rules[r].lhs \in Reads[stack[Base(r)]] \ {EOF}
         /\ MoveFrom(Base(r), Rules[r].lhs)
<1> DEFINE n == Len(Rules[r].rhs)
           below == SubSeq(stack, 1, Len(stack) - n)
<1>1. r \in Completes[Top]
  BY DEF Reduce, Reduction
<1>2. Base(r) \in 1..Len(stack) /\ Rules[r].lhs \in Reads[stack[Base(r)]]
  BY <1>1, Handle
<1>3. Rules[r].lhs # EOF
  BY ActionsAssumption, NoneIsNoToken
<1>4. Len(below) = Base(r) /\ Last(below) = stack[Base(r)]
  <2>1. Len(stack) - n = Base(r) /\ Base(r) \in Int /\ Base(r) >= 1
    BY <1>2, TopIsLast DEF Base
  <2>2. /\ Len(SubSeq(stack, 1, Base(r))) = Base(r)
        /\ SubSeq(stack, 1, Base(r))[Base(r)] = stack[1 + Base(r) - 1]
    BY <1>2, <2>1, TopIsLast, SubSeqProperties
  <2> QED
    BY <2>1, <2>2 DEF Last
<1>5. MoveFrom(Base(r), Rules[r].lhs)
  BY <1>4 DEF Reduce, MoveFrom, Base
<1> QED
  BY <1>1, <1>2, <1>3, <1>5

LEMMA ShiftMoves ==
  ASSUME TypeOK, Shift
  PROVE  /\ look \in Reads[stack[Len(stack)]] \ {EOF} /\ look \in Labels
         /\ MoveFrom(Len(stack), look)
<1>1. look \in Reads[Top] \ {EOF} /\ stack' = Append(stack, Goto[Top][look])
  BY DEF Shift
<1>2. SubSeq(stack, 1, Len(stack)) = stack
  BY SubSeqFull DEF TypeOK
<1>3. look \in Labels
  <2>1. look # "none" /\ look # EOF
    BY <1>1, TopIsLast, AutomatonAssumption
  <2> QED
    BY <2>1, OfferedAssumption, NoneIsNoToken DEF TypeOK
<1> QED
  BY <1>1, <1>2, <1>3, TopIsLast DEF MoveFrom

LEMMA InitParserInv == Init => ParserInv
<1> SUFFICES ASSUME Init PROVE ParserInv
  OBVIOUS
<1> USE DEF Init
<1>1. stack \in Seq(States) /\ Len(stack) = 1 /\ stack[1] = Start /\ stack # <<>>
  BY AutomatonAssumption
<1>2. Path /\ Shallow
  BY <1>1, DepthAssumption DEF Path, Shallow
<1> QED
  BY <1>1, <1>2 DEF ParserInv, TypeOK, IdleEmptyHanded

(***************************************************************************)
(* The end of a parse leaves the initial stack.                            *)
(***************************************************************************)
LEMMA EndKeepsParserInv ==
  ASSUME ParserInv, stack' = <<Start>>, look' = "none", run' \in {"accepted", "aborted"}
  PROVE  ParserInv'
<1>1. stack' \in Seq(States) /\ Len(stack') = 1 /\ stack'[1] = Start /\ stack' # <<>>
  BY AutomatonAssumption
<1>2. Path' /\ Shallow'
  BY <1>1, DepthAssumption DEF Path, Shallow
<1> QED
  BY <1>1, <1>2 DEF ParserInv, TypeOK, IdleEmptyHanded

LEMMA StepParserInv == ParserInv /\ [Next]_parserVars => ParserInv'
<1> SUFFICES ASSUME ParserInv, [Next]_parserVars PROVE ParserInv'
  OBVIOUS
<1> USE DEF ParserInv
<1>1. ASSUME NEW t \in Offered, Push(t) PROVE ParserInv'
  BY <1>1 DEF Push, TypeOK, Path, Shallow, IdleEmptyHanded
<1>2. CASE Shift
  <2>1. /\ stack' \in Seq(States) /\ stack' # <<>> /\ Path' /\ Shallow'
    <3>1. Len(stack) \in 1..Len(stack)
      BY TopIsLast
    <3> QED
      BY <1>2, <3>1, ShiftMoves, MoveKeepsPath
  <2> QED
    BY <1>2, <2>1 DEF Shift, TypeOK, IdleEmptyHanded
<1>3. ASSUME NEW r \in DOMAIN Rules, Reduce(r) PROVE ParserInv'
  <2>1. /\ stack' \in Seq(States) /\ stack' # <<>> /\ Path' /\ Shallow'
    BY <1>3, ReduceMoves, MoveKeepsPath
  <2> QED
    BY <1>3, <2>1 DEF Reduce, TypeOK, IdleEmptyHanded
<1>4. CASE Pause
  BY <1>4 DEF Pause, TypeOK, Path, Shallow, IdleEmptyHanded
<1>5. CASE SyntaxError
  BY <1>5, EndKeepsParserInv DEF SyntaxError
<1>6. CASE Accept
  BY <1>6, EndKeepsParserInv DEF Accept
<1>7. CASE UNCHANGED parserVars
  BY <1>7 DEF parserVars, TypeOK, Path, Shallow, IdleEmptyHanded
<1> QED
  BY <1>1, <1>2, <1>3, <1>4, <1>5, <1>6, <1>7 DEF Next, Step

LEMMA ParserInvariant == Init /\ [][Next]_parserVars => []ParserInv
<1> QED
  BY InitParserInv, StepParserInv, PTL

(***************************************************************************)
(* The stack holds states of the automaton, whatever tokens come: a        *)
(* reduction never takes more entries than there are, and the state below  *)
(* has a way on for what it produces (the pops and yypgoto of the skeleton)*)
(***************************************************************************)
THEOREM TypeCorrect == Spec => []TypeOK
<1>1. ParserInv => TypeOK
  BY DEF ParserInv
<1> QED
  BY <1>1, ParserInvariant, PTL DEF Spec

(***************************************************************************)
(* The stack stays below its bound on input of any length, over any tokens:*)
(* the parser never returns OUT_OF_MEMORY (YYMAXDEPTH).                    *)
(***************************************************************************)
THEOREM BoundedStack == Spec => []StackBounded
<1>1. ParserInv => StackBounded
  BY ShallowIsBounded DEF ParserInv
<1> QED
  BY <1>1, ParserInvariant, PTL DEF Spec

-----------------------------------------------------------------------------

\* The blocks of different owners are different.
Apart ==
  /\ \A i, j \in 1..Len(stack) : i # j => cells[i] \cap cells[j] = {}
  /\ \A i \in 1..Len(stack) : cells[i] \cap lookCells = {}
  /\ \A i \in 2..Len(stack) : Sym(i) # "program" => cells[i] \cap astCells = {}
  /\ lookCells \cap astCells = {}

\* Blocks are where a destructor finds them, or handed over.
Placed ==
  /\ cells[1] = {}
  /\ \A i \in 2..Len(stack) : cells[i] # {} => Sym(i) \in HasDestructor \cup {"program"}
  /\ lookCells # {} => look \in Valued

\* The program is main's from the moment it is reduced, and not before.
Handed ==
  /\ \A i \in 2..Len(stack) : Sym(i) = "program" => cells[i] \subseteq astCells /\ ast # <<>>
  /\ run \in {"more", "busy"} /\ Top # Whole => astCells = {}
  /\ run = "accepted" => ast # <<>>

RoomToShift == look \in Labels => Len(read) < MaxTokens

HeapTyped ==
  /\ HeapTypeOK
  /\ cells \in Seq(SUBSET Nat) /\ vals \in Seq({vals[i] : i \in DOMAIN vals})

HeapInv == HeapTyped /\ Apart /\ Placed /\ Handed /\ RoomToShift /\ NoDangling /\ NoLeak

LEMMA SelfTyped ==
  ASSUME NEW S, NEW t \in Seq(S)
  PROVE  t \in Seq({t[i] : i \in DOMAIN t})
<1> SUFFICES ASSUME NEW T, T = {t[i] : i \in DOMAIN t} PROVE t \in Seq(T)
  OBVIOUS
<1>1. Len(t) \in Nat /\ t \in [1..Len(t) -> T]
  BY LenProperties
<1>2. Seq(T) = UNION {[1..n -> T] : n \in Nat}
  BY SeqDef
<1> QED
  BY <1>1, <1>2

LEMMA ProgramOnTop ==
  ASSUME TypeOK, Path, NEW i \in 2..Len(stack), Sym(i) = "program"
  PROVE  i = Len(stack) /\ Top = Whole
<1>1. stack[i] = Whole
  <2>1. "program" \in Reads[stack[i - 1]] /\ stack[i - 1] \in States
        /\ stack[i] = Goto[stack[i - 1]]["program"]
    BY Below
  <2>2. stack[i - 1] = Start
    BY <2>1, AutomatonAssumption
  <2> QED
    BY <2>1, <2>2 DEF Whole
<1>2. i = Len(stack)
  <2> SUFFICES ASSUME i # Len(stack) PROVE FALSE
    OBVIOUS
  <2>1. i + 1 \in 2..Len(stack) /\ i + 1 - 1 = i
    BY TopIsLast
  <2>2. Sym(i + 1) \in Reads[stack[i + 1 - 1]] \ {EOF}
    BY <2>1, Below
  <2> QED
    BY <1>1, <2>1, <2>2, AutomatonAssumption
<1> QED
  BY <1>1, <1>2, TopIsLast

LEMMA WholeIsProgram ==
  ASSUME TypeOK, Path, Top = Whole
  PROVE  Len(stack) \in 2..Len(stack) /\ Sym(Len(stack)) = "program"
<1>1. Top = stack[Len(stack)] /\ Len(stack) \in Nat \ {0}
  BY TopIsLast
<1>2. Sym(Len(stack)) = "program" /\ Top # Start
  <2>1. Start \in States /\ "program" \in Reads[Start]
    BY AutomatonAssumption
  <2>2. AccessingSymbol(Whole) = "program" /\ Whole # Start
    BY <2>1, GotoSymbol DEF Whole
  <2>3. Sym(Len(stack)) = AccessingSymbol(Whole)
    BY <1>1 DEF Sym
  <2> QED
    BY <2>2, <2>3
<1>3. Len(stack) # 1
  BY <1>1, <1>2 DEF Path
<1> QED
  BY <1>1, <1>2, <1>3

LEMMA TopBelowWhole ==
  ASSUME TypeOK, Path, Top # Whole
  PROVE  \A i \in 2..Len(stack) : Sym(i) # "program"
BY ProgramOnTop

LEMMA HeapFacts ==
  ASSUME ParserInv, HeapInv
  PROVE  /\ TypeOK /\ Path /\ Shallow
         /\ Len(stack) \in Nat \ {0} /\ Len(cells) = Len(stack) /\ Len(vals) = Len(stack)
         /\ brk \in Nat /\ DOMAIN cells = 1..Len(stack)
         /\ \A i \in 1..Len(stack) : cells[i] \subseteq 1..brk
         /\ lookCells \subseteq 1..brk /\ freed \subseteq 1..brk /\ astCells \subseteq 1..brk
         /\ (look = "none" => lookCells = {})
BY TopIsLast, LenProperties, NoneIsNoToken
   DEF ParserInv, HeapInv, HeapTyped, HeapTypeOK, Placed

-----------------------------------------------------------------------------

LEMMA InitHeapInv == HeapInit => HeapInv
<1> SUFFICES ASSUME HeapInit PROVE HeapInv
  OBVIOUS
<1> USE DEF HeapInit, Init
<1>1. /\ Len(stack) = 1 /\ Len(cells) = 1 /\ Len(vals) = 1 /\ cells[1] = {}
      /\ DOMAIN cells = {1}
  OBVIOUS
<1>2. TypeOK
  BY InitParserInv DEF ParserInv
<1>3. HeapTypeOK
  BY <1>1, <1>2, MaxTokensAssumption, EmptySeq DEF HeapTypeOK
<1>4. cells \in Seq(SUBSET Nat) /\ vals \in Seq(Nat)
  OBVIOUS
<1>5. HeapTyped
  BY <1>3, <1>4, SelfTyped DEF HeapTyped
<1>6. Apart /\ Placed
  BY <1>1 DEF Apart, Placed
<1>7. Handed /\ RoomToShift
  BY <1>1, NoneIsNoToken DEF Handed, RoomToShift
<1>8. NoDangling /\ NoLeak
  BY <1>1 DEF NoDangling, NoLeak, InParser
<1> QED
  BY <1>5, <1>6, <1>7, <1>8 DEF HeapInv

(***************************************************************************)
(* The lexeme action copies a lexeme: a fresh block for the token in hand. *)
(***************************************************************************)
LEMMA PushInv ==
  ASSUME ParserInv, HeapInv, ParserInv', NEW t \in Offered, HeapPush(t)
  PROVE  HeapInv'
<1>1. /\ run = "more" /\ run' = "busy" /\ look' = t /\ stack' = stack /\ look = "none"
      /\ t = EOF \/ Len(read) < MaxTokens
      /\ cells' = cells /\ vals' = vals /\ freed' = freed /\ ast' = ast
      /\ astCells' = astCells /\ read' = read
  BY DEF HeapPush, Push, ParserInv, IdleEmptyHanded
<1>2. /\ brk \in Nat /\ lookCells = {} /\ freed \subseteq 1..brk /\ astCells \subseteq 1..brk
      /\ \A i \in 1..Len(stack) : cells[i] \subseteq 1..brk
      /\ Len(stack) \in Nat \ {0} /\ DOMAIN cells = 1..Len(stack)
  BY <1>1, HeapFacts
<1>3. \/ t \in Valued /\ lookCells' = {brk + 1} /\ brk' = brk + 1
      \/ t \notin Valued /\ lookCells' = {} /\ brk' = brk
  <2>1. Fresh(1) = {brk + 1}
    BY <1>2 DEF Fresh
  <2> QED
    BY <2>1 DEF HeapPush
<1>4. lookCells' \cap (1..brk) = {} /\ 1..brk' = (1..brk) \cup lookCells'
  BY <1>2, <1>3
<1>5. HeapTyped'
  <2>1. \A i \in DOMAIN cells' : cells'[i] \subseteq 1..brk'
    BY <1>1, <1>2, <1>4
  <2>2. brk' \in Nat /\ lookCells' \subseteq 1..brk' /\ freed' \subseteq 1..brk'
        /\ astCells' \subseteq 1..brk'
    BY <1>1, <1>2, <1>3, <1>4
  <2> QED
    BY <1>1, <2>1, <2>2 DEF HeapInv, HeapTyped, HeapTypeOK, ParserInv
<1>6. Apart'
  <2>1. \A i \in 1..Len(stack) : cells[i] \cap lookCells' = {}
    BY <1>2, <1>4
  <2>2. lookCells' \cap astCells = {}
    BY <1>2, <1>4
  <2> QED
    BY <1>1, <2>1, <2>2 DEF HeapInv, Apart, Sym
<1>7. Placed'
  BY <1>1, <1>3 DEF HeapInv, Placed, Sym
<1>8. Handed'
  BY <1>1 DEF HeapInv, Handed, Sym, Top
<1>9. RoomToShift'
  BY <1>1, NoneIsNoToken DEF RoomToShift
<1>10. InParser' = InParser \cup lookCells'
  <2>1. \A b : b \in InParser' <=> (\E i \in 2..Len(stack) : b \in cells[i]) \/ b \in lookCells'
    BY <1>1 DEF InParser
  <2>2. \A b : b \in InParser <=> \E i \in 2..Len(stack) : b \in cells[i]
    BY <1>2 DEF InParser
  <2> QED
    BY <2>1, <2>2
<1>11. NoDangling' /\ NoLeak'
  BY <1>1, <1>2, <1>4, <1>10 DEF HeapInv, NoDangling, NoLeak
<1> QED
  BY <1>5, <1>6, <1>7, <1>8, <1>9, <1>11 DEF HeapInv

LEMMA PauseInv ==
  ASSUME HeapInv, HeapPause
  PROVE  HeapInv'
<1>1. stack' = stack /\ look' = look /\ run = "busy" /\ run' = "more" /\ UNCHANGED heapVars
  BY DEF HeapPause, Pause
<1>2. HeapTyped'
  BY <1>1 DEF HeapInv, HeapTyped, HeapTypeOK, heapVars, TypeOK
<1>3. Apart' /\ Placed' /\ RoomToShift'
  BY <1>1 DEF HeapInv, Apart, Placed, RoomToShift, heapVars, Sym
<1>4. Handed'
  BY <1>1 DEF HeapInv, Handed, heapVars, Sym, Top
<1>5. NoDangling' /\ NoLeak'
  BY <1>1 DEF HeapInv, NoDangling, NoLeak, InParser, heapVars
<1> QED
  BY <1>2, <1>3, <1>4, <1>5 DEF HeapInv

(***************************************************************************)
(* The destructors free what the stack and the token in hand still own,    *)
(* except the program, which main owns by then.                            *)
(***************************************************************************)
LEMMA EndInv ==
  ASSUME ParserInv, HeapInv, ParserInv', HeapSyntaxError \/ HeapAccept
  PROVE  HeapInv'
<1>1. /\ run = "busy" /\ stack' = <<Start>> /\ look' = "none"
      /\ cells' = <<{}>> /\ vals' = <<0>> /\ lookCells' = {}
      /\ freed' = freed \cup Destroyed
      /\ brk' = brk /\ ast' = ast /\ astCells' = astCells /\ read' = read
      /\ \/ run' = "aborted"
         \/ run' = "accepted" /\ EOF \in Reads[Top]
  BY DEF HeapSyntaxError, HeapAccept, SyntaxError, Accept, Cleanup
<1>2. /\ Len(stack') = 1 /\ Len(cells') = 1 /\ Len(vals') = 1 /\ cells'[1] = {}
      /\ DOMAIN cells' = {1}
  BY <1>1
<1>3. /\ \A i \in 2..Len(stack) : Sym(i) \in HasDestructor => cells[i] \subseteq Destroyed
      /\ lookCells \subseteq Destroyed
      /\ Destroyed \subseteq InParser
  <2>1. \A i \in 2..Len(stack) : Sym(i) \in HasDestructor => cells[i] \subseteq Destroyed
    BY DEF Destroyed, Sym
  <2>2. lookCells \subseteq Destroyed
    <3>1. lookCells = {} \/ look \in HasDestructor
      BY ActionsAssumption DEF HeapInv, Placed
    <3>2. look \in HasDestructor => lookCells \subseteq Destroyed
      BY DEF Destroyed
    <3> QED
      BY <3>1, <3>2
  <2>3. Destroyed \subseteq InParser
    BY DEF Destroyed, InParser
  <2> QED
    BY <2>1, <2>2, <2>3
<1>4. Destroyed \cap astCells = {}
  <2>1. \A i \in 2..Len(stack) : Sym(i) \in HasDestructor => cells[i] \cap astCells = {}
    BY ActionsAssumption DEF HeapInv, Apart
  <2>2. lookCells \cap astCells = {}
    BY DEF HeapInv, Apart
  <2>3. \A b \in Destroyed :
          (\E i \in 2..Len(stack) : Sym(i) \in HasDestructor /\ b \in cells[i]) \/ b \in lookCells
    BY DEF Destroyed, Sym
  <2> QED
    BY <2>1, <2>2, <2>3
<1>5. InParser \subseteq Destroyed \cup astCells
  <2>1. ASSUME NEW i \in 2..Len(stack) PROVE cells[i] \subseteq Destroyed \cup astCells
    <3>1. cells[i] = {} \/ Sym(i) \in HasDestructor \/ Sym(i) = "program"
      BY DEF HeapInv, Placed
    <3> QED
      BY <1>3, <3>1 DEF HeapInv, Handed
  <2>2. \A b \in InParser : (\E i \in 2..Len(stack) : b \in cells[i]) \/ b \in lookCells
    BY DEF InParser
  <2> QED
    BY <1>3, <2>1, <2>2
<1>6. InParser' = {}
  BY <1>1, <1>2 DEF InParser
<1>7. NoLeak'
  BY <1>1, <1>3, <1>5, <1>6 DEF HeapInv, NoLeak
<1>8. NoDangling'
  BY <1>1, <1>4, <1>6 DEF HeapInv, NoDangling
<1>9. HeapTyped'
  <2>1. freed' \subseteq 1..brk'
    BY <1>1, <1>7 DEF NoLeak
  <2>2. HeapTypeOK'
    BY <1>1, <1>2, <2>1 DEF HeapInv, HeapTyped, HeapTypeOK, ParserInv
  <2>3. cells' \in Seq(SUBSET Nat) /\ vals' \in Seq(Nat)
    BY <1>1
  <2> QED
    BY <2>2, <2>3, SelfTyped DEF HeapTyped
<1>10. Apart' /\ Placed'
  BY <1>1, <1>2 DEF Apart, Placed
<1>11. Handed'
  <2>1. EOF \in Reads[Top] => ast # <<>>
    <3> SUFFICES ASSUME EOF \in Reads[Top] PROVE ast # <<>>
      OBVIOUS
    <3>1. TypeOK /\ Path /\ Top = Whole
      BY TopIsLast, AutomatonAssumption DEF ParserInv
    <3> QED
      BY <3>1, WholeIsProgram DEF HeapInv, Handed
  <2> QED
    BY <1>1, <1>2, <2>1 DEF Handed
<1>12. RoomToShift'
  BY <1>1, NoneIsNoToken DEF RoomToShift
<1> QED
  BY <1>7, <1>8, <1>9, <1>10, <1>11, <1>12 DEF HeapInv

\* An entry is added while the program is not reduced yet, so main owns nothing.
LEMMA BeforeTheProgram ==
  ASSUME ParserInv, HeapInv, run = "busy", Top # Whole
  PROVE  astCells = {} /\ \A i \in 2..Len(stack) : Sym(i) # "program"
BY TopBelowWhole DEF ParserInv, HeapInv, Handed

(***************************************************************************)
(* A shift hands the blocks of the token in hand to the new entry.         *)
(***************************************************************************)
LEMMA ShiftInv ==
  ASSUME ParserInv, HeapInv, ParserInv', HeapShift
  PROVE  HeapInv'
<1> PICK L \in Nat \ {0} : L = Len(stack)
  BY HeapFacts
<1>1. /\ run = "busy" /\ run' = "busy" /\ look' = "none" /\ lookCells' = {}
      /\ read' = Append(read, look)
      /\ cells' = Append(cells, lookCells) /\ vals' = Append(vals, Len(read) + 1)
      /\ brk' = brk /\ freed' = freed /\ ast' = ast /\ astCells' = astCells
  BY DEF HeapShift, Shift
<1>2. /\ TypeOK /\ Path /\ Shallow /\ L = Len(stack)
      /\ brk \in Nat /\ Len(cells) = L /\ Len(vals) = L /\ DOMAIN cells = 1..L
      /\ lookCells \subseteq 1..brk /\ freed \subseteq 1..brk /\ astCells \subseteq 1..brk
      /\ \A i \in 1..L : cells[i] \subseteq 1..brk
  BY HeapFacts
<1>3. look \in Reads[Top] \ {EOF} /\ look \in Labels /\ MoveFrom(L, look)
  BY <1>2, ShiftMoves, TopIsLast DEF HeapShift
<1>4. /\ Len(stack') = L + 1 /\ Sym(L + 1)' = look
      /\ \A i \in 1..L : Sym(i)' = Sym(i)
  <2>1. L \in 1..L /\ look \in Reads[stack[L]] \ {EOF}
    BY <1>2, <1>3, TopIsLast
  <2> QED
    BY <1>2, <1>3, <2>1, MoveKeepsPath
<1>5. astCells = {} /\ \A i \in 2..L : Sym(i) # "program"
  <2>1. Top # Whole
    BY <1>3, AutomatonAssumption
  <2> QED
    BY <1>1, <2>1, BeforeTheProgram
<1>6. look # "program" /\ (lookCells # {} => look \in HasDestructor)
  BY <1>3, NoneIsNoToken, ActionsAssumption DEF HeapInv, Placed
<1>7. /\ cells' \in Seq(SUBSET Nat) /\ Len(cells') = L + 1 /\ DOMAIN cells' = 1..(L + 1)
      /\ cells'[L + 1] = lookCells /\ \A i \in 1..L : cells'[i] = cells[i]
  <2>1. cells \in Seq(SUBSET Nat) /\ lookCells \in SUBSET Nat
    BY <1>2 DEF HeapInv, HeapTyped
  <2> QED
    BY <1>1, <1>2, <2>1, AppendProperties, LenProperties
<1>8. HeapTyped'
  <2>1. read' \in Seq(Labels) /\ Len(read') <= MaxTokens
    <3>1. read \in Seq(Labels) /\ Len(read) \in Nat /\ Len(read) < MaxTokens
      BY <1>3, LenProperties DEF HeapInv, HeapTyped, HeapTypeOK, RoomToShift
    <3> QED
      BY <1>1, <1>3, <3>1, AppendProperties, MaxTokensAssumption
  <2>2. \E T : vals' \in Seq(T) /\ Len(vals') = L + 1
    <3> DEFINE V == {vals[i] : i \in DOMAIN vals}
    <3>1. vals \in Seq(V \cup {Len(read) + 1})
      BY SeqMonotonic DEF HeapInv, HeapTyped
    <3> HIDE DEF V
    <3> QED
      BY <1>1, <1>2, <3>1, AppendProperties
  <2>3. \A i \in DOMAIN cells' : cells'[i] \subseteq 1..brk'
    <3>1. \A i \in 1..(L + 1) : i \in 1..L \/ i = L + 1
      OBVIOUS
    <3> QED
      BY <1>1, <1>2, <1>7, <3>1
  <2>4. TypeOK' /\ Len(cells') = Len(stack') /\ Len(vals') = Len(stack')
    BY <1>4, <1>7, <2>2 DEF ParserInv
  <2>5. /\ brk' \in Nat /\ lookCells' \subseteq 1..brk' /\ freed' \subseteq 1..brk'
        /\ astCells' \subseteq 1..brk'
    BY <1>1, <1>2
  <2>6. HeapTypeOK'
    BY <2>1, <2>3, <2>4, <2>5 DEF HeapTypeOK
  <2> QED
    BY <1>7, <2>2, <2>6, SelfTyped DEF HeapTyped
<1>9. Apart'
  <2>1. ASSUME NEW i \in 1..(L + 1), NEW j \in 1..(L + 1), i # j
        PROVE  cells'[i] \cap cells'[j] = {}
    <3>1. CASE i \in 1..L /\ j \in 1..L
      BY <2>1, <3>1, <1>7 DEF HeapInv, Apart
    <3>2. CASE i = L + 1 /\ j \in 1..L
      BY <3>2, <1>7 DEF HeapInv, Apart
    <3>3. CASE i \in 1..L /\ j = L + 1
      BY <3>3, <1>7 DEF HeapInv, Apart
    <3> QED
      BY <2>1, <3>1, <3>2, <3>3, <1>2
  <2> QED
    BY <1>1, <1>4, <1>5, <2>1 DEF Apart
<1>10. Placed'
  <2>1. cells'[1] = {}
    BY <1>2, <1>7 DEF HeapInv, Placed
  <2>2. ASSUME NEW i \in 2..(L + 1), cells'[i] # {}
        PROVE  Sym(i)' \in HasDestructor \cup {"program"}
    <3>1. CASE i = L + 1
      BY <2>2, <3>1, <1>4, <1>6, <1>7
    <3>2. CASE i \in 2..L
      <4>1. i \in 1..L /\ cells[i] # {}
        BY <2>2, <3>2, <1>7
      <4> QED
        BY <3>2, <4>1, <1>4 DEF HeapInv, Placed
    <3> QED
      BY <3>1, <3>2, <1>2
  <2> QED
    BY <1>1, <1>4, <2>1, <2>2 DEF Placed
<1>11. Handed' /\ RoomToShift'
  <2>1. ASSUME NEW i \in 2..(L + 1) PROVE Sym(i)' # "program"
    <3>1. CASE i = L + 1
      BY <3>1, <1>4, <1>6
    <3>2. CASE i \in 2..L
      <4>1. i \in 1..L
        BY <3>2
      <4> QED
        BY <3>2, <4>1, <1>4, <1>5
    <3> QED
      BY <3>1, <3>2, <1>2
  <2> QED
    BY <1>1, <1>4, <1>5, <2>1, NoneIsNoToken DEF Handed, RoomToShift
<1>12. InParser' = InParser
  <2>1. \A b : b \in InParser' <=> \E i \in 2..(L + 1) : b \in cells'[i]
    BY <1>1, <1>4 DEF InParser
  <2>2. \A b : b \in InParser <=> (\E i \in 2..L : b \in cells[i]) \/ b \in lookCells
    BY DEF InParser
  <2>3. /\ \A i \in 2..L : i \in 2..(L + 1) /\ cells'[i] = cells[i]
        /\ L + 1 \in 2..(L + 1)
        /\ \A i \in 2..(L + 1) : i = L + 1 \/ i \in 2..L
    BY <1>2, <1>7
  <2> QED
    BY <1>7, <2>1, <2>2, <2>3
<1>13. NoDangling' /\ NoLeak'
  BY <1>1, <1>12 DEF HeapInv, NoDangling, NoLeak
<1> QED
  BY <1>8, <1>9, <1>10, <1>11, <1>13 DEF HeapInv

(***************************************************************************)
(* What a reduction does to the blocks: it keeps those of its right-hand   *)
(* side except the string a link frees, and adds fresh ones.               *)
(***************************************************************************)
LEMMA ReduceMovesBlocks ==
  ASSUME ParserInv, HeapInv, NEW r \in DOMAIN Rules, Reduce(r),
         NEW H, H = UNION {cells[i] : i \in (Base(r) + 1)..Len(stack)}
  PROVE  /\ Allocated(r) \in Nat /\ Released(r) \subseteq H
         /\ CellsOf(r) = (H \ Released(r)) \cup ((brk + 1)..(brk + Allocated(r)))
         /\ Rules[r].lhs \notin HasDestructor \cup {"program"} => CellsOf(r) = {}
<1> DEFINE B == Base(r)
           L == Len(stack)
           rule == Rules[r]
           n == Len(rule.rhs)
           used == {rule.uses[j] : j \in DOMAIN rule.uses}
<1>1. /\ r # 1 /\ n \in 0..6 /\ B \in 1..L /\ B + n = L
      /\ \A k \in 1..n : Sym(B + k) = rule.rhs[k]
  BY ReduceMoves, Handle DEF ParserInv
<1>2. /\ used \subseteq 1..n /\ rule.allocs \in Nat
      /\ \A k \in 1..n : /\ rule.rhs[k] # "program"
                         /\ rule.rhs[k] \in HasDestructor => k \in used
      /\ rule.op = "link" => 2 \in used
      /\ rule.lhs \notin HasDestructor \cup {"program"} =>
           /\ rule.allocs = 0 /\ rule.op # "link"
           /\ \A k \in used : rule.rhs[k] \notin HasDestructor
  <2>1. DOMAIN rule.rhs = 1..n
    BY ActionsAssumption, LenProperties
  <2> QED
    BY <1>1, <2>1, ActionsAssumption
<1>3. L \in Nat \ {0} /\ B \in Nat /\ brk \in Nat
  BY <1>1, HeapFacts
<1> HIDE DEF B, L, n, used, rule
<1>4. \A k \in 1..n : B + k \in 2..L /\ B + k \in (B + 1)..L
  BY <1>1, <1>3
<1>5. \A k \in 1..n : cells[B + k] # {} => rule.rhs[k] \in HasDestructor
  BY <1>1, <1>2, <1>4 DEF HeapInv, Placed, L
<1>6. \A b : b \in H <=> \E k \in 1..n : b \in cells[B + k]
  <2>1. \A b : b \in H <=> \E i \in (B + 1)..L : b \in cells[i]
    BY DEF B, L
  <2>2. \A i \in (B + 1)..L : i - B \in 1..n /\ B + (i - B) = i
    BY <1>1, <1>3
  <2> QED
    BY <1>4, <2>1, <2>2
<1>7. UNION {Owned(r, rule.uses[j]) : j \in DOMAIN rule.uses} = H
  <2>1. \A b : b \in UNION {Owned(r, rule.uses[j]) : j \in DOMAIN rule.uses}
                 <=> \E k \in used : b \in cells[B + k]
    BY DEF used, Owned, B
  <2> QED
    BY <1>2, <1>5, <1>6, <2>1
<1>8. Allocated(r) \in Nat
  BY <1>2 DEF Allocated, rule
<1>9. Released(r) \subseteq H
  <2>1. CASE OneString(r)
    <3>1. 2 \in 1..n /\ Released(r) = cells[B + 2]
      BY <2>1, <1>2 DEF OneString, Released, Owned, B, rule
    <3> QED
      BY <3>1, <1>6
  <2>2. CASE ~OneString(r)
    BY <2>2 DEF Released
  <2> QED
    BY <2>1, <2>2
<1>10. CellsOf(r) = (H \ Released(r)) \cup ((brk + 1)..(brk + Allocated(r)))
  BY <1>7 DEF CellsOf, Fresh, rule
<1>11. rule.lhs \notin HasDestructor \cup {"program"} => CellsOf(r) = {}
  <2> SUFFICES ASSUME rule.lhs \notin HasDestructor \cup {"program"} PROVE CellsOf(r) = {}
    OBVIOUS
  <2>1. Allocated(r) = 0
    BY <1>2 DEF Allocated, OneString, rule
  <2>2. H = {}
    BY <1>2, <1>5, <1>6
  <2>3. (brk + 1)..(brk + 0) = {}
    BY <1>3
  <2> QED
    BY <1>10, <2>1, <2>2, <2>3
<1> QED
  BY <1>8, <1>9, <1>10, <1>11 DEF rule

(***************************************************************************)
(* A reduction: the blocks of the right-hand side become those of the new  *)
(* entry, or are freed; with the program they become main's.               *)
(***************************************************************************)
LEMMA ReduceInv ==
  ASSUME ParserInv, HeapInv, ParserInv', NEW r \in DOMAIN Rules, HeapReduce(r)
  PROVE  HeapInv'
<1> SUFFICES ASSUME NEW B, B = Base(r), NEW L, L = Len(stack),
                    NEW H, H = UNION {cells[i] : i \in (Base(r) + 1)..Len(stack)},
                    NEW C, C = CellsOf(r), NEW R, R = Released(r),
                    NEW m, m = Allocated(r), NEW lhs, lhs = Rules[r].lhs
             PROVE  HeapInv'
  OBVIOUS
<1>1. /\ run = "busy" /\ run' = "busy" /\ look' = look /\ lookCells' = lookCells
      /\ read' = read /\ cells' = Append(SubSeq(cells, 1, B), C)
      /\ vals' = Append(SubSeq(vals, 1, B), ValueOf(r))
      /\ brk' = brk + m /\ freed' = freed \cup R
      /\ IF lhs = "program" THEN ast' = <<ValueOf(r)>> /\ astCells' = C
         ELSE ast' = ast /\ astCells' = astCells
  BY ActionsAssumption DEF HeapReduce, Reduce, StoresProgram
<1>2. /\ TypeOK /\ Path /\ Shallow /\ L \in Nat \ {0}
      /\ brk \in Nat /\ Len(cells) = L /\ Len(vals) = L /\ DOMAIN cells = 1..L
      /\ lookCells \subseteq 1..brk /\ freed \subseteq 1..brk
      /\ \A i \in 1..L : cells[i] \subseteq 1..brk
  BY HeapFacts
<1>3. /\ B \in 1..L /\ Len(stack') = B + 1 /\ Sym(B + 1)' = lhs
      /\ \A i \in 1..B : Sym(i)' = Sym(i)
  BY <1>2, ReduceMoves, MoveKeepsPath DEF HeapReduce
<1>4. astCells = {} /\ \A i \in 2..L : Sym(i) # "program"
  <2>1. Top # Whole
    BY <1>2, ReduceMoves, AutomatonAssumption DEF HeapReduce
  <2> QED
    BY <1>1, <2>1, BeforeTheProgram
<1>5. /\ m \in Nat /\ R \subseteq H /\ C = (H \ R) \cup ((brk + 1)..(brk + m))
      /\ lhs \notin HasDestructor \cup {"program"} => C = {}
  <2>1. Reduce(r)
    BY DEF HeapReduce
  <2>2. /\ Allocated(r) \in Nat /\ Released(r) \subseteq H
        /\ CellsOf(r) = (H \ Released(r)) \cup ((brk + 1)..(brk + Allocated(r)))
        /\ Rules[r].lhs \notin HasDestructor \cup {"program"} => CellsOf(r) = {}
    BY <2>1, ReduceMovesBlocks
  <2> QED
    BY <2>2
<1>6. \A b : b \in H <=> \E i \in (B + 1)..L : b \in cells[i]
  OBVIOUS
<1>7. /\ H \subseteq 1..brk /\ H \cap lookCells = {}
      /\ \A i \in 1..B : cells[i] \cap H = {}
  <2>1. \A i \in (B + 1)..L : i \in 1..L /\ \A j \in 1..B : i # j /\ j \in 1..L
    BY <1>2, <1>3
  <2> QED
    BY <1>2, <1>6, <2>1 DEF HeapInv, Apart
<1>8. /\ C \cap lookCells = {} /\ \A i \in 1..B : cells[i] \cap C = {}
      /\ C \in SUBSET Nat /\ C \subseteq 1..(brk + m) /\ 1..brk \subseteq 1..(brk + m)
      /\ 1..(brk + m) = (1..brk) \cup ((brk + 1)..(brk + m))
  <2>1. ((brk + 1)..(brk + m)) \cap (1..brk) = {}
    BY <1>2, <1>5
  <2>2. /\ 1..(brk + m) = (1..brk) \cup ((brk + 1)..(brk + m))
        /\ 1..(brk + m) \subseteq Nat
    BY <1>2, <1>5
  <2>3. \A i \in 1..B : cells[i] \subseteq 1..brk
    BY <1>2, <1>3
  <2> QED
    BY <1>2, <1>5, <1>7, <2>1, <2>2, <2>3
<1>9. /\ cells' \in Seq(SUBSET Nat) /\ Len(cells') = B + 1 /\ DOMAIN cells' = 1..(B + 1)
      /\ cells'[B + 1] = C /\ \A i \in 1..B : cells'[i] = cells[i]
  <2>1. cells \in Seq(SUBSET Nat)
    BY DEF HeapInv, HeapTyped
  <2> QED
    BY <1>1, <1>2, <1>3, <1>8, <2>1, CutAndAppend, LenProperties
<1>10. /\ \A i \in 1..(B + 1) : i \in 1..B \/ i = B + 1
       /\ \A i \in 2..(B + 1) : (i \in 2..B /\ i \in 1..B /\ i \in 2..L) \/ i = B + 1
       /\ B + 1 \in 2..(B + 1) /\ \A i \in 2..B : i \in 2..(B + 1)
  BY <1>2, <1>3
<1>11. HeapTyped'
  <2>1. \E T : vals' \in Seq(T) /\ Len(vals') = B + 1
    <3> SUFFICES ASSUME NEW V, V = {vals[i] : i \in DOMAIN vals}, NEW v, v = ValueOf(r)
                 PROVE  \E T : vals' \in Seq(T) /\ Len(vals') = B + 1
      OBVIOUS
    <3>1. vals \in Seq(V \cup {v})
      BY SeqMonotonic DEF HeapInv, HeapTyped
    <3>2. vals' \in Seq(V \cup {v}) /\ Len(vals') = B + 1
      <4>1. vals' = Append(SubSeq(vals, 1, B), v) /\ B \in 1..Len(vals)
        BY <1>1, <1>2, <1>3
      <4> QED
        BY <3>1, <4>1, CutAndAppend
    <3> QED
      BY <3>2
  <2>2. \A i \in DOMAIN cells' : cells'[i] \subseteq 1..brk'
    BY <1>1, <1>2, <1>3, <1>8, <1>9, <1>10
  <2>3. TypeOK' /\ Len(cells') = Len(stack') /\ Len(vals') = Len(stack')
    BY <1>3, <1>9, <2>1 DEF ParserInv
  <2>4. brk' \in Nat /\ lookCells' \subseteq 1..brk' /\ freed' \subseteq 1..brk'
    <3>1. brk' \in Nat /\ lookCells' \subseteq 1..brk'
      BY <1>1, <1>2, <1>5, <1>8
    <3>2. freed \cup R \subseteq 1..(brk + m)
      BY <1>2, <1>5, <1>7, <1>8
    <3> QED
      BY <3>1, <3>2, <1>1
  <2>5. astCells' \subseteq 1..brk'
    BY <1>1, <1>4, <1>8
  <2>6. HeapTypeOK'
    BY <1>1, <2>2, <2>3, <2>4, <2>5 DEF HeapTypeOK, HeapInv, HeapTyped
  <2> QED
    BY <1>9, <2>1, <2>6, SelfTyped DEF HeapTyped
<1>12. Apart'
  <2>1. ASSUME NEW i \in 1..(B + 1), NEW j \in 1..(B + 1), i # j
        PROVE  cells'[i] \cap cells'[j] = {}
    <3>1. CASE i \in 1..B /\ j \in 1..B
      <4>1. i \in 1..L /\ j \in 1..L
        BY <3>1, <1>2, <1>3
      <4> QED
        BY <2>1, <3>1, <4>1, <1>9 DEF HeapInv, Apart
    <3>2. CASE i = B + 1 \/ j = B + 1
      BY <2>1, <3>2, <1>8, <1>9, <1>10
    <3> QED
      BY <3>1, <3>2, <1>10
  <2>2. ASSUME NEW i \in 1..(B + 1) PROVE cells'[i] \cap lookCells' = {}
    <3>1. \A j \in 1..B : j \in 1..L
      BY <1>2, <1>3
    <3> QED
      BY <3>1, <1>1, <1>8, <1>9, <1>10 DEF HeapInv, Apart
  <2>3. ASSUME NEW i \in 2..(B + 1), Sym(i)' # "program"
        PROVE  cells'[i] \cap astCells' = {}
    BY <2>3, <1>1, <1>3, <1>4, <1>8, <1>9, <1>10
  <2>4. lookCells' \cap astCells' = {}
    BY <1>1, <1>4, <1>8
  <2> QED
    BY <1>3, <2>1, <2>2, <2>3, <2>4 DEF Apart
<1>13. Placed'
  <2>1. cells'[1] = {}
    BY <1>2, <1>3, <1>9 DEF HeapInv, Placed
  <2>2. ASSUME NEW i \in 2..(B + 1), cells'[i] # {}
        PROVE  Sym(i)' \in HasDestructor \cup {"program"}
    <3>1. CASE i = B + 1
      BY <2>2, <3>1, <1>3, <1>5, <1>9
    <3>2. CASE i \in 1..B /\ i \in 2..L
      BY <2>2, <3>2, <1>3, <1>9 DEF HeapInv, Placed
    <3> QED
      BY <3>1, <3>2, <1>10
  <2> QED
    BY <1>1, <1>3, <2>1, <2>2 DEF HeapInv, Placed
<1>14. Handed'
  <2>1. ASSUME NEW i \in 2..(B + 1), Sym(i)' = "program"
        PROVE  i = B + 1 /\ lhs = "program"
    BY <2>1, <1>3, <1>4, <1>10
  <2>2. lhs = "program" => Top' = Whole
    <3> SUFFICES ASSUME lhs = "program" PROVE Top' = Whole
      OBVIOUS
    <3>1. Reduce(r)
      BY DEF HeapReduce
    <3>2. "program" \in Reads[stack[B]] /\ MoveFrom(B, "program")
      BY <3>1, <1>2, ReduceMoves
    <3>3. stack[B] = Start /\ stack'[B + 1] = Goto[stack[B]]["program"]
      BY <3>2, <1>2, <1>3, TopIsLast, AutomatonAssumption, MoveKeepsPath, NoneIsNoToken
    <3> QED
      BY <3>3, <1>3 DEF Top, Last, Whole
  <2>3. lhs = "program" => ast' # <<>> /\ astCells' = C
    <3>1. lhs = "program" => ast' = <<ValueOf(r)>> /\ astCells' = C
      BY <1>1
    <3>2. \A v : <<v>> # <<>>
      OBVIOUS
    <3> QED
      BY <3>1, <3>2
  <2>4. Top' # Whole => astCells' = {}
    BY <1>1, <1>4, <2>2
  <2>5. ASSUME NEW i \in 2..(B + 1), Sym(i)' = "program"
        PROVE  cells'[i] \subseteq astCells' /\ ast' # <<>>
    <3>1. i = B + 1 /\ lhs = "program"
      BY <2>1, <2>5
    <3> QED
      BY <3>1, <2>3, <1>9
  <2> QED
    BY <1>1, <1>3, <2>4, <2>5 DEF Handed
<1>15. RoomToShift'
  BY <1>1 DEF HeapInv, RoomToShift
<1>16. NoDangling' /\ NoLeak'
  <2>1. \A b : b \in InParser' <=> (\E i \in 2..B : b \in cells[i]) \/ b \in C \/ b \in lookCells
    <3>1. \A b : b \in InParser' <=>
                   (\E i \in 2..(B + 1) : b \in cells'[i]) \/ b \in lookCells
      BY <1>1, <1>3 DEF InParser
    <3> QED
      BY <3>1, <1>9, <1>10
  <2>2. \A b : b \in InParser <=> (\E i \in 2..B : b \in cells[i]) \/ b \in H \/ b \in lookCells
    <3>1. \A b : b \in InParser <=> (\E i \in 2..L : b \in cells[i]) \/ b \in lookCells
      BY DEF InParser
    <3>2. \A i \in 2..L : i \in 2..B \/ i \in (B + 1)..L
      BY <1>2, <1>3
    <3>3. /\ \A i \in 2..B : i \in 2..L
          /\ \A i \in (B + 1)..L : i \in 2..L
      BY <1>2, <1>3
    <3> QED
      BY <3>1, <3>2, <3>3, <1>6
  <2>3. \A b \in H : b \notin freed
    BY <2>2 DEF HeapInv, NoDangling
  <2>4. \A i \in 2..B : cells[i] \cap R = {}
    BY <1>5, <1>7, <1>10
  <2>5. NoDangling'
    <3>1. ASSUME NEW b \in C PROVE b \notin freed \cup R
      <4>1. CASE b \in (brk + 1)..(brk + m)
        BY <4>1, <1>2, <1>5, <1>7
      <4>2. CASE b \in H \ R
        BY <4>2, <2>3
      <4> QED
        BY <4>1, <4>2, <1>5
    <3>2. ASSUME NEW b \in InParser' PROVE b \notin freed \cup R
      <4>1. CASE \E i \in 2..B : b \in cells[i]
        BY <4>1, <2>2, <2>4 DEF HeapInv, NoDangling
      <4>2. CASE b \in lookCells
        BY <4>2, <1>5, <1>7, <2>2 DEF HeapInv, NoDangling
      <4> QED
        BY <3>1, <4>1, <4>2, <2>1
    <3>3. astCells' \subseteq C
      BY <1>1, <1>4
    <3> QED
      BY <3>1, <3>2, <3>3, <1>1 DEF NoDangling
  <2>6. NoLeak'
    <3>1. freed \cup InParser = 1..brk
      BY <1>4 DEF HeapInv, NoLeak
    <3>2. freed' \cup InParser' = 1..(brk + m)
      <4>1. \A b : b \in freed \cup InParser \/ b \in (brk + 1)..(brk + m)
                     <=> b \in freed' \cup InParser'
        BY <1>1, <1>5, <2>1, <2>2
      <4> QED
        BY <3>1, <4>1, <1>8
    <3>3. astCells' \subseteq InParser'
      BY <1>1, <1>4, <2>1
    <3> QED
      BY <3>2, <3>3, <1>1 DEF NoLeak
  <2> QED
    BY <2>5, <2>6
<1> QED
  BY <1>11, <1>12, <1>13, <1>14, <1>15, <1>16 DEF HeapInv

-----------------------------------------------------------------------------

LEMMA HeapStepsAreSteps == [HeapNext]_vars => [Next]_parserVars
<1> SUFFICES ASSUME [HeapNext]_vars PROVE [Next]_parserVars
  OBVIOUS
<1>1. CASE UNCHANGED vars
  BY <1>1 DEF vars
<1>2. CASE \E t \in Offered : HeapPush(t)
  BY <1>2 DEF HeapPush, Next
<1>3. CASE HeapStep
  BY <1>3 DEF HeapStep, HeapShift, HeapReduce, HeapPause, HeapSyntaxError, HeapAccept,
              Next, Step
<1> QED
  BY <1>1, <1>2, <1>3 DEF HeapNext

LEMMA StepHeapInv == ParserInv /\ HeapInv /\ ParserInv' /\ [HeapNext]_vars => HeapInv'
<1> SUFFICES ASSUME ParserInv, HeapInv, ParserInv', [HeapNext]_vars PROVE HeapInv'
  OBVIOUS
<1>1. CASE UNCHANGED vars
  <2>1. HeapTyped'
    BY <1>1 DEF HeapInv, HeapTyped, HeapTypeOK, vars, heapVars, parserVars, TypeOK
  <2>2. Apart' /\ Placed' /\ RoomToShift'
    BY <1>1 DEF HeapInv, Apart, Placed, RoomToShift, vars, heapVars, parserVars, Sym
  <2>3. Handed'
    BY <1>1 DEF HeapInv, Handed, vars, heapVars, parserVars, Sym, Top
  <2>4. NoDangling' /\ NoLeak'
    BY <1>1 DEF HeapInv, NoDangling, NoLeak, InParser, vars, heapVars, parserVars
  <2> QED
    BY <2>1, <2>2, <2>3, <2>4 DEF HeapInv
<1>2. CASE \E t \in Offered : HeapPush(t)
  BY <1>2, PushInv
<1>3. CASE HeapShift
  BY <1>3, ShiftInv
<1>4. CASE \E r \in DOMAIN Rules : HeapReduce(r)
  BY <1>4, ReduceInv
<1>5. CASE HeapPause
  BY <1>5, PauseInv
<1>6. CASE HeapSyntaxError \/ HeapAccept
  BY <1>6, EndInv
<1> QED
  BY <1>1, <1>2, <1>3, <1>4, <1>5, <1>6 DEF HeapNext, HeapStep

LEMMA HeapInvariant == HeapSpec => [](ParserInv /\ HeapInv)
<1>1. HeapInit => ParserInv /\ HeapInv
  BY InitParserInv, InitHeapInv DEF HeapInit
<1>2. ParserInv /\ HeapInv /\ [HeapNext]_vars => (ParserInv /\ HeapInv)'
  BY HeapStepsAreSteps, StepParserInv, StepHeapInv
<1> QED
  BY <1>1, <1>2, PTL DEF HeapSpec

(***************************************************************************)
(* Every block an entry, the token in hand or the program points to was    *)
(* given out; there is one value for each state on the stack.              *)
(***************************************************************************)
THEOREM HeapTypeCorrect == HeapSpec => []HeapTypeOK
<1>1. ParserInv /\ HeapInv => HeapTypeOK
  BY DEF HeapInv, HeapTyped
<1> QED
  BY <1>1, HeapInvariant, PTL

(***************************************************************************)
(* No block is freed twice: no two owners share one, on any input          *)
(* (the destructors, BisonGrammar.y:55-72, and destroyProgram).            *)
(***************************************************************************)
THEOREM OneOwner == HeapSpec => []SoleOwner
<1>1. ParserInv /\ HeapInv => SoleOwner
  <2> SUFFICES ASSUME ParserInv, HeapInv PROVE SoleOwner
    OBVIOUS
  <2>1. \A i \in Answerable : i \in 2..Len(stack) /\ i \in 1..Len(stack) /\ Sym(i) # "program"
    BY ActionsAssumption, HeapFacts DEF Answerable, Sym
  <2> QED
    BY <2>1 DEF HeapInv, Apart, SoleOwner
<1> QED
  BY <1>1, HeapInvariant, PTL

(***************************************************************************)
(* Nothing in use has been freed, neither by the link action nor by the    *)
(* destructors, however the parse ends (LinkSemanticAction, the            *)
(* %destructor directives).                                                *)
(***************************************************************************)
THEOREM NothingDangles == HeapSpec => []NoDangling
<1>1. ParserInv /\ HeapInv => NoDangling
  BY DEF HeapInv
<1> QED
  BY <1>1, HeapInvariant, PTL

(***************************************************************************)
(* Every block given out is freed or still has an owner: what an action    *)
(* does not keep it frees, what the parser drops is destroyed, and what    *)
(* has no destructor is main's (ProgramSemanticAction, destroyProgram).    *)
(***************************************************************************)
THEOREM NothingLeaks == HeapSpec => []NoLeak
<1>1. ParserInv /\ HeapInv => NoLeak
  BY DEF HeapInv
<1> QED
  BY <1>1, HeapInvariant, PTL

-----------------------------------------------------------------------------

(***************************************************************************)
(* Positions in order, and the ends of the parts of the input.             *)
(***************************************************************************)
Rising(b, n) == \A k, l \in 1..n : k < l => b[k] < b[l]

\* A set given by its elements in order.
LEMMA OrderedIs ==
  ASSUME NEW n \in Nat, NEW b, \A k \in 1..n : b[k] \in Int, Rising(b, n),
         NEW S, S = {b[k] : k \in 1..n}
  PROVE  Ordered(S) = [k \in 1..n |-> b[k]]
<1> DEFINE Upto(i) == {b[k] : k \in 1..i}
<1>1. ASSUME NEW i \in 0..n PROVE Cardinality(Upto(i)) = i
  <2> DEFINE f == [k \in 1..i |-> b[k]]
             T == Upto(i)
  <2>1. f \in [1..i -> T]
    OBVIOUS
  <2>2. \A k, l \in 1..i : f[k] = f[l] => k = l
    <3> SUFFICES ASSUME NEW k \in 1..i, NEW l \in 1..i, f[k] = f[l] PROVE k = l
      OBVIOUS
    <3>1. k \in 1..n /\ l \in 1..n
      OBVIOUS
    <3>2. b[k] = b[l] /\ b[k] \in Int
      BY <3>1
    <3>3. ~(k < l) /\ ~(l < k)
      BY <3>1, <3>2 DEF Rising
    <3> QED BY <3>3
  <2>3. \A e \in T : \E k \in 1..i : f[k] = e
    OBVIOUS
  <2> HIDE DEF f, T
  <2>4. f \in Injection(1..i, T)
    BY <2>1, <2>2, Zenon DEF Injection, IsInjective
  <2>5. f \in Surjection(1..i, T)
    BY <2>1, <2>3, Zenon DEF Surjection
  <2>6. ExistsBijection(1..i, T)
    BY <2>4, <2>5, Zenon DEF Bijection, ExistsBijection
  <2>7. IsFiniteSet(1..i) /\ Cardinality(1..i) = i
    BY FS_Interval
  <2>8. Cardinality(T) = Cardinality(1..i)
    BY <2>6, <2>7, FS_Bijection
  <2> QED BY <2>7, <2>8 DEF T
<1>2. Cardinality(S) = n
  <2>1. S = Upto(n) /\ n \in 0..n
    OBVIOUS
  <2> HIDE DEF Upto
  <2> QED BY <1>1, <2>1
<1>3. ASSUME NEW i \in 1..n PROVE {j \in S : j <= b[i]} = Upto(i)
  <2>1. ASSUME NEW k \in 1..n PROVE b[k] <= b[i] <=> k \in 1..i
    BY DEF Rising
  <2> QED BY <2>1
<1>4. ASSUME NEW i \in 1..n PROVE Cardinality({j \in S : j <= b[i]}) = i
  <2>1. i \in 0..n
    OBVIOUS
  <2> HIDE DEF Upto
  <2> QED BY <1>1, <1>3, <2>1
<1>5. ASSUME NEW i \in 1..n
      PROVE  (CHOOSE k \in S : Cardinality({j \in S : j <= k}) = i) = b[i]
  <2>1. b[i] \in S
    OBVIOUS
  <2>2. ASSUME NEW k \in S, Cardinality({j \in S : j <= k}) = i PROVE k = b[i]
    <3>1. PICK l \in 1..n : k = b[l]
      OBVIOUS
    <3> QED BY <1>4, <2>2, <3>1
  <2> QED BY <1>4, <2>1, <2>2
<1> QED BY <1>2, <1>5 DEF Ordered

\* The end of a part of the input, given where it is.
LEMMA EndOfIs ==
  ASSUME NEW t \in Seq(Labels), NEW i \in Nat, NEW S, NEW j \in i..Len(t),
         \A k \in (i + 1)..j : k \notin S, j = Len(t) \/ j + 1 \in S
  PROVE  EndOf(t, i, S) = j
<1>1. Len(t) \in Nat
  BY LenProperties
<1>2. ASSUME NEW e \in i..Len(t), \A k \in (i + 1)..e : k \notin S, e = Len(t) \/ e + 1 \in S
      PROVE  e = j
  <2>1. ~(e < j)
    <3> SUFFICES ASSUME e < j PROVE FALSE
      OBVIOUS
    <3>1. e + 1 \in (i + 1)..j /\ e # Len(t)
      BY <1>1
    <3> QED BY <1>2, <3>1
  <2>2. ~(j < e)
    <3> SUFFICES ASSUME j < e PROVE FALSE
      OBVIOUS
    <3>1. j + 1 \in (i + 1)..e /\ j # Len(t)
      BY <1>1
    <3> QED BY <1>2, <3>1
  <2> QED BY <1>1, <2>1, <2>2
<1> QED BY <1>2, Zenon DEF EndOf

\* One position, two, three in order.
LEMMA OrderedOne ==
  ASSUME NEW a \in Int
  PROVE  Ordered({a}) = <<a>>
<1> DEFINE b == <<a>>
<1>1. /\ \A k \in 1..1 : b[k] \in Int /\ b[k] = a
      /\ Rising(b, 1) /\ {b[k] : k \in 1..1} = {a}
      /\ [k \in 1..1 |-> b[k]] = <<a>>
  <2>1. \A k \in 1..1 : k = 1
    OBVIOUS
  <2> QED BY <2>1 DEF Rising
<1> HIDE DEF b
<1> QED BY <1>1, OrderedIs

LEMMA OrderedTwo ==
  ASSUME NEW a \in Int, NEW c \in Int, a < c
  PROVE  Ordered({a, c}) = <<a, c>>
<1> DEFINE b == <<a, c>>
<1>1. /\ \A k \in 1..2 : b[k] \in Int
      /\ Rising(b, 2) /\ {b[k] : k \in 1..2} = {a, c}
      /\ [k \in 1..2 |-> b[k]] = <<a, c>>
  <2>1. \A k \in 1..2 : k = 1 \/ k = 2
    OBVIOUS
  <2>2. 1 \in 1..2 /\ 2 \in 1..2
    OBVIOUS
  <2> QED BY <2>1, <2>2 DEF Rising
<1> HIDE DEF b
<1> QED BY <1>1, OrderedIs

LEMMA OrderedThree ==
  ASSUME NEW a \in Int, NEW c \in Int, NEW d \in Int, a < c, c < d
  PROVE  Ordered({a, c, d}) = <<a, c, d>>
<1> DEFINE b == <<a, c, d>>
<1>1. /\ \A k \in 1..3 : b[k] \in Int
      /\ Rising(b, 3) /\ {b[k] : k \in 1..3} = {a, c, d}
      /\ [k \in 1..3 |-> b[k]] = <<a, c, d>>
  <2>1. \A k \in 1..3 : k = 1 \/ k = 2 \/ k = 3
    OBVIOUS
  <2>2. 1 \in 1..3 /\ 2 \in 1..3 /\ 3 \in 1..3
    OBVIOUS
  <2> QED BY <2>1, <2>2 DEF Rising
<1> HIDE DEF b
<1> QED BY <1>1, OrderedIs

-----------------------------------------------------------------------------

(***************************************************************************)
(* What a part of the input denotes, read as SlideDocument reads it but    *)
(* for one part at a time.                                                 *)
(***************************************************************************)
Optional == {"imageLegend", "linkUrl", "blockTitle"}
ItemLists == {"slideItems", "nonEmptySlideItems"}
HeaderMarks == {"DOUBLE_HASH", "AT_ID"}

(***************************************************************************)
(* What the part i..j of the tokens t denotes: an item, the items b cuts   *)
(* it into, the extras of a header, a slide with a header or without.      *)
(***************************************************************************)
ItemOf(t, i, j, v) ==
  /\ i <= j /\ t[i] \in ItemStart
  /\ \A k \in (i + 1)..j : t[k] \notin PhraseStart \cup HeaderMarks
  /\ v = ItemIn(t, i, j)

ItemsAt(t, i, j, n, b, v) ==
  /\ \A k \in 1..(n + 1) : b[k] \in Nat
  /\ b[1] = i /\ b[n + 1] = j + 1 /\ Rising(b, n + 1)
  /\ {p \in i..j : t[p] \in PhraseStart} = {b[k] : k \in 1..n}
  /\ \A k \in 1..n : t[b[k]] \in ItemStart
  /\ \A p \in i..j : t[p] \notin HeaderMarks
  /\ v = [k \in 1..n |-> ItemIn(t, b[k], b[k + 1] - 1)]

ItemsOf(t, i, j, v) == \E n \in Nat : \E b : ItemsAt(t, i, j, n, b, v)

ExtrasOf(t, i, j, v) ==
  /\ \A p \in i..j : t[p] \notin PhraseStart
  /\ v = [subtitle |-> Labelled(t, i, j, "DOUBLE_HASH"), id |-> Labelled(t, i, j, "AT_ID")]

\* The header ends at h.
TitledAt(t, i, j, h, v) ==
  /\ t[i] = "HASH" /\ h \in (i + 1)..j
  /\ \A p \in (i + 1)..h : t[p] \notin PhraseStart
  /\ ItemsOf(t, h + 1, j, v.items)
  /\ v = [title |-> i + 1, subtitle |-> Labelled(t, i, h, "DOUBLE_HASH"),
          id |-> Labelled(t, i, h, "AT_ID"), items |-> v.items]

TitledOf(t, i, j, v) == \E h \in Nat : TitledAt(t, i, j, h, v)

UntitledOf(t, i, j, v) ==
  /\ i <= j /\ OpensSlide(t, i)
  /\ ItemsOf(t, i, j, v.items)
  /\ v = [title |-> 0, subtitle |-> 0, id |-> 0, items |-> v.items]

SlideOf(t, i, j, v) == TitledOf(t, i, j, v) \/ UntitledOf(t, i, j, v)

(***************************************************************************)
(* The slides v end at j: slide k stands from c[k] to e[k], a separator    *)
(* after it or not.                                                        *)
(***************************************************************************)
SlidesAt(t, j, m, c, e, v) ==
  /\ \A k \in 1..m : c[k] \in 1..j /\ e[k] \in 1..j /\ SlideOf(t, c[k], e[k], v[k])
  /\ e[m] = j /\ Rising(c, m)
  /\ \A k \in 1..(m - 1) :
       \/ c[k + 1] = e[k] + 1
       \/ c[k + 1] = e[k] + 2 /\ t[e[k] + 1] = "TRIPLE_MINUS"
  /\ {p \in 1..j : OpensSlide(t, p)} = {c[k] : k \in 1..m}
  /\ v = [k \in 1..m |-> v[k]]

SlidesOf(t, j, v) == \E m \in Nat \ {0} : \E c, e : SlidesAt(t, j, m, c, e, v)

\* The symbol X stands for the part i..j of the tokens, and v is its value.
Denotes(t, X, i, j, v) ==
  /\ i \in Nat \ {0} /\ j \in Nat /\ i <= j + 1
  /\ X \in Labels => i = j /\ t[j] = X /\ v = j
  /\ X = "optionalSeparator" => i = j + 1 \/ (i = j /\ t[j] = "TRIPLE_MINUS")
  /\ X \in Optional => (i = j + 1 /\ v = 0) \/ (i = j /\ t[j] = "STRING" /\ v = j)
  /\ X = "blockType" => i = j /\ t[j] \in BlockType /\ v = j
  /\ X \in NodeKinds => ItemOf(t, i, j, [type |-> X, node |-> v])
  /\ X = "slideItem" => ItemOf(t, i, j, v)
  /\ X \in ItemLists => ItemsOf(t, i, j, v)
  /\ X = "nonEmptySlideItems" => i <= j
  /\ X = "slideExtras" => ExtrasOf(t, i, j, v)
  /\ X = "slideWithTitle" => TitledOf(t, i, j, v)
  /\ X = "slideWithoutTitle" => UntitledOf(t, i, j, v)
  /\ X = "slide" => SlideOf(t, i, j, v)
  /\ X \in {"slides", "program"} => i = 1 /\ SlidesOf(t, j, v)

-----------------------------------------------------------------------------

\* What the strings in i..j make of an item, by the token it begins with.
ItemSays(t, i, j, type, kind, args) ==
  ItemIn(t, i, j) = [type |-> type, node |-> [kind |-> kind, args |-> args]]

\* The type and the node of an item, by what its strings make of it.
LEMMA ItemIs ==
  ASSUME NEW t, NEW i, NEW j, NEW s, Ordered({k \in i..j : t[k] \in Valued}) = s
  PROVE  /\ t[i] = "MINUS" => ItemSays(t, i, j, "text", "bullet", s)
         /\ t[i] = "NUMBERED_LIST" => ItemSays(t, i, j, "text", "numbered", s)
         /\ t[i] = "AT_IMG" => ItemSays(t, i, j, "image", "image",
                                       IF Len(s) = 3 THEN s ELSE Append(s, 0))
         /\ t[i] = "AT_CODE" => ItemSays(t, i, j, "codeBlock", "code", s)
         /\ t[i] = "AT_NOTE" => ItemSays(t, i, j, "note", "note", s)
         /\ t[i] = "AT_LINK" => ItemSays(t, i, j, "link", "link", <<s[Len(s)], s[1]>>)
         /\ t[i] = "AT_BLOCK" => ItemSays(t, i, j, "block", "block",
                                         IF Len(s) = 2 THEN <<i + 2, s[1], s[2]>>
                                         ELSE <<i + 2, 0, s[1]>>)
BY DEF ItemIn, ItemSays

\* The tokens that go on with an item.
GoesOn == Labels \ (PhraseStart \cup HeaderMarks)

\* A node whose phrase begins at i, when nothing after i begins another.
LEMMA NodeMeans ==
  ASSUME NEW t, NEW X \in NodeKinds, NEW i \in Nat \ {0}, NEW j \in Nat, NEW kind, NEW args,
         i <= j, t[i] \in ItemStart, \A k \in (i + 1)..j : t[k] \in GoesOn,
         ItemSays(t, i, j, X, kind, args)
  PROVE  Denotes(t, X, i, j, [kind |-> kind, args |-> args])
<1>1. ItemOf(t, i, j, [type |-> X, node |-> [kind |-> kind, args |-> args]])
  BY DEF ItemOf, ItemSays, GoesOn
<1>2. /\ X \notin Labels /\ X \notin Optional /\ X \notin ItemLists
      /\ X \notin {"optionalSeparator", "blockType", "slideItem", "nonEmptySlideItems", "slideExtras",
                   "slideWithTitle", "slideWithoutTitle", "slide", "slides", "program"}
  BY DEF NodeKinds, Labels, Valued, ItemStart, BlockType, Optional, ItemLists
<1> QED BY <1>1, <1>2 DEF Denotes

\* A token stands for itself: one place, and the value is that place.
LEMMA TokenAt ==
  ASSUME NEW t, NEW X \in Labels, NEW i, NEW j, NEW v, Denotes(t, X, i, j, v)
  PROVE  i \in Nat \ {0} /\ j = i /\ t[j] = X /\ v = j
BY DEF Denotes

\* An optional string is one text or nothing.
LEMMA OptionalAt ==
  ASSUME NEW t, NEW X \in Optional, NEW i, NEW j, NEW v, Denotes(t, X, i, j, v)
  PROVE  j \in Nat /\ ((i = j + 1 /\ v = 0) \/ (i = j /\ t[j] = "STRING" /\ v = j))
BY DEF Denotes

\* What begins a phrase, marks a header or carries a value, among the tokens.
LEMMA TokenKinds ==
  /\ {"STRING", "TEXT_CONTENT", "CODE_CONTENT", "AT_END", "TIPO_EQUALS"} \cup BlockType \subseteq GoesOn
  /\ GoesOn \subseteq Labels /\ ItemStart \subseteq Labels
  /\ {"STRING", "TEXT_CONTENT", "CODE_CONTENT"} \subseteq Valued
  /\ ({"AT_END", "TIPO_EQUALS"} \cup ItemStart \cup BlockType) \cap Valued = {}
  /\ {"MINUS", "NUMBERED_LIST", "AT_IMG", "AT_CODE", "AT_NOTE", "AT_LINK", "AT_BLOCK"} \subseteq ItemStart
BY DEF GoesOn, Labels, Valued, ItemStart, BlockType, PhraseStart, HeaderMarks

\* Append, element by element.
LEMMA AppendIs ==
  ASSUME NEW S, NEW q \in Seq(S), NEW c \in S, NEW u \in Seq(S), Len(u) = Len(q) + 1,
         \A i \in 1..Len(q) : u[i] = q[i], u[Len(q) + 1] = c
  PROVE  Append(q, c) = u
<1>1. /\ Append(q, c) \in Seq(S) /\ Len(Append(q, c)) = Len(q) + 1
      /\ \A i \in 1..Len(q) : Append(q, c)[i] = q[i]
      /\ Append(q, c)[Len(q) + 1] = c
  BY AppendProperties
<1>2. \A i \in 1..Len(u) : Append(q, c)[i] = u[i]
  <2>1. \A i \in 1..Len(u) : i \in 1..Len(q) \/ i = Len(q) + 1
    BY LenProperties
  <2> QED BY <1>1, <2>1
<1> QED BY <1>1, <1>2, SeqEqual

LEMMA AppendTwo ==
  ASSUME NEW a, NEW b, NEW c
  PROVE  Append(<<a, b>>, c) = <<a, b, c>>
<1> DEFINE C == {a, b, c}
           s == <<a, b>>
           u == <<a, b, c>>
<1>1. s \in Seq(C) /\ u \in Seq(C) /\ c \in C /\ Len(s) = 2 /\ Len(u) = 3 /\ u[1] = s[1] /\ u[2] = s[2] /\ u[3] = c
  OBVIOUS
<1> HIDE DEF s, u, C
<1>3. \A i \in 1..Len(s) : u[i] = s[i]
  <2>1. \A i \in 1..Len(s) : i = 1 \/ i = 2
    BY <1>1
  <2> QED BY <1>1, <2>1
<1>4. Len(u) = Len(s) + 1 /\ u[Len(s) + 1] = c
  BY <1>1
<1>5. Append(s, c) = u
  BY <1>1, <1>3, <1>4, AppendIs
<1> QED BY <1>5 DEF u, s

-----------------------------------------------------------------------------

(***************************************************************************)
(* The items.                                                              *)
(***************************************************************************)
\* The productions of the items, each from what its symbols denote.
LEMMA TextMeans ==
  ASSUME NEW t, NEW i, NEW p1, NEW p2,
         NEW v1, NEW v2,
         NEW first, NEW kind, (first = "MINUS" /\ kind = "bullet") \/ (first = "NUMBERED_LIST" /\ kind = "numbered"),
         Denotes(t, first, i, p1, v1),
         Denotes(t, "TEXT_CONTENT", p1 + 1, p2, v2)
  PROVE  Denotes(t, "text", i, p2, [kind |-> kind, args |-> <<v2>>])
<1>1. i \in Nat \ {0} /\ p1 = i /\ t[i] = first
  BY TokenKinds, TokenAt
<1>2. p2 = p1 + 1 /\ t[p2] = "TEXT_CONTENT" /\ v2 = p2
  BY TokenKinds, TokenAt
<1>3. \A k \in i..p2 : k = i \/ k = p2
  BY <1>1, <1>2
<1>4. Ordered({k \in i..p2 : t[k] \in Valued}) = <<p2>>
  <2>1. {k \in i..p2 : t[k] \in Valued} = {p2}
    BY <1>1, <1>2, <1>3, TokenKinds
  <2> QED BY <1>1, <1>2, <2>1, OrderedOne
<1>5. ItemSays(t, i, p2, "text", kind, <<p2>>)
  BY <1>1, <1>4, ItemIs
<1>6. /\ "text" \in NodeKinds /\ p2 \in Nat /\ i <= p2 /\ t[i] \in ItemStart
     /\ \A k \in (i + 1)..p2 : t[k] \in GoesOn
  <2>1. \A k \in (i + 1)..p2 : k \in i..p2 /\ k # i
    BY <1>1, <1>2
  <2> QED BY <1>1, <1>2, <1>3, <2>1, TokenKinds DEF NodeKinds
<1>7. <<p2>> = <<v2>>
  BY <1>1, <1>2
<1> QED BY <1>1, <1>5, <1>6, <1>7, NodeMeans

LEMMA CodeMeans ==
  ASSUME NEW t, NEW i, NEW p1, NEW p2, NEW p3,
         NEW v1, NEW v2, NEW v3,
         Denotes(t, "AT_CODE", i, p1, v1),
         Denotes(t, "CODE_CONTENT", p1 + 1, p2, v2),
         Denotes(t, "AT_END", p2 + 1, p3, v3)
  PROVE  Denotes(t, "codeBlock", i, p3, [kind |-> "code", args |-> <<v2>>])
<1>1. i \in Nat \ {0} /\ p1 = i /\ t[i] = "AT_CODE"
  BY TokenKinds, TokenAt
<1>2. p2 = p1 + 1 /\ t[p2] = "CODE_CONTENT" /\ v2 = p2
  BY TokenKinds, TokenAt
<1>3. p3 = p2 + 1 /\ t[p3] = "AT_END"
  BY TokenKinds, TokenAt
<1>4. \A k \in i..p3 : k = i \/ k = p2 \/ k = p3
  BY <1>1, <1>2, <1>3
<1>5. Ordered({k \in i..p3 : t[k] \in Valued}) = <<p2>>
  <2>1. {k \in i..p3 : t[k] \in Valued} = {p2}
    BY <1>1, <1>2, <1>3, <1>4, TokenKinds
  <2> QED BY <1>1, <1>2, <1>3, <2>1, OrderedOne
<1>6. ItemSays(t, i, p3, "codeBlock", "code", <<p2>>)
  BY <1>1, <1>5, ItemIs
<1>7. /\ "codeBlock" \in NodeKinds /\ p3 \in Nat /\ i <= p3 /\ t[i] \in ItemStart
     /\ \A k \in (i + 1)..p3 : t[k] \in GoesOn
  <2>1. \A k \in (i + 1)..p3 : k \in i..p3 /\ k # i
    BY <1>1, <1>2, <1>3
  <2> QED BY <1>1, <1>2, <1>3, <1>4, <2>1, TokenKinds DEF NodeKinds
<1>8. <<p2>> = <<v2>>
  BY <1>1, <1>2, <1>3
<1> QED BY <1>1, <1>6, <1>7, <1>8, NodeMeans

LEMMA NoteMeans ==
  ASSUME NEW t, NEW i, NEW p1, NEW p2,
         NEW v1, NEW v2,
         Denotes(t, "AT_NOTE", i, p1, v1),
         Denotes(t, "STRING", p1 + 1, p2, v2)
  PROVE  Denotes(t, "note", i, p2, [kind |-> "note", args |-> <<v2>>])
<1>1. i \in Nat \ {0} /\ p1 = i /\ t[i] = "AT_NOTE"
  BY TokenKinds, TokenAt
<1>2. p2 = p1 + 1 /\ t[p2] = "STRING" /\ v2 = p2
  BY TokenKinds, TokenAt
<1>3. \A k \in i..p2 : k = i \/ k = p2
  BY <1>1, <1>2
<1>4. Ordered({k \in i..p2 : t[k] \in Valued}) = <<p2>>
  <2>1. {k \in i..p2 : t[k] \in Valued} = {p2}
    BY <1>1, <1>2, <1>3, TokenKinds
  <2> QED BY <1>1, <1>2, <2>1, OrderedOne
<1>5. ItemSays(t, i, p2, "note", "note", <<p2>>)
  BY <1>1, <1>4, ItemIs
<1>6. /\ "note" \in NodeKinds /\ p2 \in Nat /\ i <= p2 /\ t[i] \in ItemStart
     /\ \A k \in (i + 1)..p2 : t[k] \in GoesOn
  <2>1. \A k \in (i + 1)..p2 : k \in i..p2 /\ k # i
    BY <1>1, <1>2
  <2> QED BY <1>1, <1>2, <1>3, <2>1, TokenKinds DEF NodeKinds
<1>7. <<p2>> = <<v2>>
  BY <1>1, <1>2
<1> QED BY <1>1, <1>5, <1>6, <1>7, NodeMeans

LEMMA ImageMeans ==
  ASSUME NEW t, NEW i, NEW p1, NEW p2, NEW p3, NEW p4,
         NEW v1, NEW v2, NEW v3, NEW v4,
         Denotes(t, "AT_IMG", i, p1, v1),
         Denotes(t, "STRING", p1 + 1, p2, v2),
         Denotes(t, "STRING", p2 + 1, p3, v3),
         Denotes(t, "imageLegend", p3 + 1, p4, v4)
  PROVE  Denotes(t, "image", i, p4, [kind |-> "image", args |-> <<v2, v3, v4>>])
<1>1. i \in Nat \ {0} /\ p1 = i /\ t[i] = "AT_IMG"
  BY TokenKinds, TokenAt
<1>2. p2 = p1 + 1 /\ t[p2] = "STRING" /\ v2 = p2
  BY TokenKinds, TokenAt
<1>3. p3 = p2 + 1 /\ t[p3] = "STRING" /\ v3 = p3
  BY TokenKinds, TokenAt
<1>4. p4 \in Nat /\ ((p3 + 1 = p4 + 1 /\ v4 = 0) \/ (p3 + 1 = p4 /\ t[p4] = "STRING" /\ v4 = p4))
  <2>1. "imageLegend" \in Optional
    BY DEF Optional
  <2> QED BY <2>1, OptionalAt
<1>5. CASE p4 = p3 /\ v4 = 0
  <2>1. \A k \in i..p4 : k = i \/ k = p2 \/ k = p3
    BY <1>1, <1>2, <1>3, <1>5
  <2>2. Ordered({k \in i..p4 : t[k] \in Valued}) = <<p2, p3>>
    <3>1. {k \in i..p4 : t[k] \in Valued} = {p2, p3}
      BY <1>1, <1>2, <1>3, <1>5, <2>1, TokenKinds
    <3>2. p2 \in Int /\ p3 \in Int /\ p2 < p3
      BY <1>1, <1>2, <1>3, <1>5
    <3> QED BY <3>1, <3>2, OrderedTwo
  <2>3. ItemSays(t, i, p4, "image", "image", <<p2, p3, 0>>)
    <3> DEFINE s == <<p2, p3>>
    <3>1. Len(s) = 2 /\ Append(s, 0) = <<p2, p3, 0>>
      BY AppendTwo
    <3> HIDE DEF s
    <3>2. ItemSays(t, i, p4, "image", "image",
                   IF Len(s) = 3 THEN s ELSE Append(s, 0))
      BY <1>1, <2>2, ItemIs DEF s
    <3>3. (IF Len(s) = 3 THEN s ELSE Append(s, 0)) = <<p2, p3, 0>>
      BY <3>1
    <3> QED BY <3>2, <3>3
  <2>4. /\ "image" \in NodeKinds /\ p4 \in Nat /\ i <= p4 /\ t[i] \in ItemStart
       /\ \A k \in (i + 1)..p4 : t[k] \in GoesOn
    <3>1. \A k \in (i + 1)..p4 : k \in i..p4 /\ k # i
      BY <1>1, <1>2, <1>3, <1>5
    <3> QED BY <1>1, <1>2, <1>3, <1>5, <2>1, <3>1, TokenKinds DEF NodeKinds
  <2>5. <<p2, p3, 0>> = <<v2, v3, v4>>
    BY <1>1, <1>2, <1>3, <1>5
  <2> QED BY <1>1, <2>3, <2>4, <2>5, NodeMeans
<1>6. CASE p4 = p3 + 1 /\ t[p4] = "STRING" /\ v4 = p4
  <2>1. \A k \in i..p4 : k = i \/ k = p2 \/ k = p3 \/ k = p4
    BY <1>1, <1>2, <1>3, <1>6
  <2>2. Ordered({k \in i..p4 : t[k] \in Valued}) = <<p2, p3, p4>>
    <3>1. {k \in i..p4 : t[k] \in Valued} = {p2, p3, p4}
      BY <1>1, <1>2, <1>3, <1>6, <2>1, TokenKinds
    <3>2. p2 \in Int /\ p3 \in Int /\ p4 \in Int /\ p2 < p3 /\ p3 < p4
      BY <1>1, <1>2, <1>3, <1>6
    <3> QED BY <3>1, <3>2, OrderedThree
  <2>3. ItemSays(t, i, p4, "image", "image", <<p2, p3, p4>>)
    <3> DEFINE s == <<p2, p3, p4>>
    <3>1. Len(s) = 3
      OBVIOUS
    <3> HIDE DEF s
    <3>2. ItemSays(t, i, p4, "image", "image",
                   IF Len(s) = 3 THEN s ELSE Append(s, 0))
      BY <1>1, <2>2, ItemIs DEF s
    <3> QED BY <3>1, <3>2 DEF s
  <2>4. /\ "image" \in NodeKinds /\ p4 \in Nat /\ i <= p4 /\ t[i] \in ItemStart
       /\ \A k \in (i + 1)..p4 : t[k] \in GoesOn
    <3>1. \A k \in (i + 1)..p4 : k \in i..p4 /\ k # i
      BY <1>1, <1>2, <1>3, <1>6
    <3> QED BY <1>1, <1>2, <1>3, <1>6, <2>1, <3>1, TokenKinds DEF NodeKinds
  <2>5. <<p2, p3, p4>> = <<v2, v3, v4>>
    BY <1>1, <1>2, <1>3, <1>6
  <2> QED BY <1>1, <2>3, <2>4, <2>5, NodeMeans
<1>7. p3 \in Nat
  BY <1>1, <1>2, <1>3
<1> QED BY <1>4, <1>5, <1>6, <1>7

LEMMA LinkMeans ==
  ASSUME NEW t, NEW i, NEW p1, NEW p2, NEW p3,
         NEW v1, NEW v2, NEW v3,
         Denotes(t, "AT_LINK", i, p1, v1),
         Denotes(t, "STRING", p1 + 1, p2, v2),
         Denotes(t, "linkUrl", p2 + 1, p3, v3)
  PROVE  Denotes(t, "link", i, p3, [kind |-> "link", args |-> (IF v3 = 0 THEN <<v2, v2>> ELSE <<v3, v2>>)])
<1>1. i \in Nat \ {0} /\ p1 = i /\ t[i] = "AT_LINK"
  BY TokenKinds, TokenAt
<1>2. p2 = p1 + 1 /\ t[p2] = "STRING" /\ v2 = p2
  BY TokenKinds, TokenAt
<1>3. p3 \in Nat /\ ((p2 + 1 = p3 + 1 /\ v3 = 0) \/ (p2 + 1 = p3 /\ t[p3] = "STRING" /\ v3 = p3))
  <2>1. "linkUrl" \in Optional
    BY DEF Optional
  <2> QED BY <2>1, OptionalAt
<1>4. CASE p3 = p2 /\ v3 = 0
  <2>1. \A k \in i..p3 : k = i \/ k = p2
    BY <1>1, <1>2, <1>4
  <2>2. Ordered({k \in i..p3 : t[k] \in Valued}) = <<p2>>
    <3>1. {k \in i..p3 : t[k] \in Valued} = {p2}
      BY <1>1, <1>2, <1>4, <2>1, TokenKinds
    <3> QED BY <1>1, <1>2, <1>4, <3>1, OrderedOne
  <2>3. ItemSays(t, i, p3, "link", "link", <<p2, p2>>)
    <3> DEFINE s == <<p2>>
    <3>1. Len(s) = 1 /\ s[1] = p2
      OBVIOUS
    <3> HIDE DEF s
    <3>2. ItemSays(t, i, p3, "link", "link",
                   <<s[Len(s)], s[1]>>)
      BY <1>1, <2>2, ItemIs DEF s
    <3> QED BY <3>1, <3>2
  <2>4. /\ "link" \in NodeKinds /\ p3 \in Nat /\ i <= p3 /\ t[i] \in ItemStart
       /\ \A k \in (i + 1)..p3 : t[k] \in GoesOn
    <3>1. \A k \in (i + 1)..p3 : k \in i..p3 /\ k # i
      BY <1>1, <1>2, <1>4
    <3> QED BY <1>1, <1>2, <1>4, <2>1, <3>1, TokenKinds DEF NodeKinds
  <2>5. <<p2, p2>> = (IF v3 = 0 THEN <<v2, v2>> ELSE <<v3, v2>>)
    BY <1>1, <1>2, <1>4
  <2> QED BY <1>1, <2>3, <2>4, <2>5, NodeMeans
<1>5. CASE p3 = p2 + 1 /\ t[p3] = "STRING" /\ v3 = p3
  <2>1. \A k \in i..p3 : k = i \/ k = p2 \/ k = p3
    BY <1>1, <1>2, <1>5
  <2>2. Ordered({k \in i..p3 : t[k] \in Valued}) = <<p2, p3>>
    <3>1. {k \in i..p3 : t[k] \in Valued} = {p2, p3}
      BY <1>1, <1>2, <1>5, <2>1, TokenKinds
    <3>2. p2 \in Int /\ p3 \in Int /\ p2 < p3
      BY <1>1, <1>2, <1>5
    <3> QED BY <3>1, <3>2, OrderedTwo
  <2>3. ItemSays(t, i, p3, "link", "link", <<p3, p2>>)
    <3> DEFINE s == <<p2, p3>>
    <3>1. Len(s) = 2 /\ s[1] = p2 /\ s[2] = p3
      OBVIOUS
    <3> HIDE DEF s
    <3>2. ItemSays(t, i, p3, "link", "link",
                   <<s[Len(s)], s[1]>>)
      BY <1>1, <2>2, ItemIs DEF s
    <3> QED BY <3>1, <3>2
  <2>4. /\ "link" \in NodeKinds /\ p3 \in Nat /\ i <= p3 /\ t[i] \in ItemStart
       /\ \A k \in (i + 1)..p3 : t[k] \in GoesOn
    <3>1. \A k \in (i + 1)..p3 : k \in i..p3 /\ k # i
      BY <1>1, <1>2, <1>5
    <3> QED BY <1>1, <1>2, <1>5, <2>1, <3>1, TokenKinds DEF NodeKinds
  <2>5. <<p3, p2>> = (IF v3 = 0 THEN <<v2, v2>> ELSE <<v3, v2>>)
    BY <1>1, <1>2, <1>5
  <2> QED BY <1>1, <2>3, <2>4, <2>5, NodeMeans
<1>6. p2 \in Nat
  BY <1>1, <1>2
<1> QED BY <1>3, <1>4, <1>5, <1>6

LEMMA BlockMeans ==
  ASSUME NEW t, NEW i, NEW p1, NEW p2, NEW p3, NEW p4, NEW p5, NEW p6,
         NEW v1, NEW v2, NEW v3, NEW v4, NEW v5, NEW v6,
         Denotes(t, "AT_BLOCK", i, p1, v1),
         Denotes(t, "TIPO_EQUALS", p1 + 1, p2, v2),
         Denotes(t, "blockType", p2 + 1, p3, v3),
         Denotes(t, "blockTitle", p3 + 1, p4, v4),
         Denotes(t, "TEXT_CONTENT", p4 + 1, p5, v5),
         Denotes(t, "AT_END", p5 + 1, p6, v6)
  PROVE  Denotes(t, "block", i, p6, [kind |-> "block", args |-> <<v3, v4, v5>>])
<1>1. i \in Nat \ {0} /\ p1 = i /\ t[i] = "AT_BLOCK"
  BY TokenKinds, TokenAt
<1>2. p2 = p1 + 1 /\ t[p2] = "TIPO_EQUALS"
  BY TokenKinds, TokenAt
<1>3. p3 = p2 + 1 /\ t[p3] \in BlockType /\ v3 = p3
  BY DEF Denotes
<1>4. p4 \in Nat /\ ((p3 + 1 = p4 + 1 /\ v4 = 0) \/ (p3 + 1 = p4 /\ t[p4] = "STRING" /\ v4 = p4))
  <2>1. "blockTitle" \in Optional
    BY DEF Optional
  <2> QED BY <2>1, OptionalAt
<1>5. CASE p4 = p3 /\ v4 = 0
  <2>1. p5 = p4 + 1 /\ t[p5] = "TEXT_CONTENT" /\ v5 = p5
    BY TokenKinds, TokenAt
  <2>2. p6 = p5 + 1 /\ t[p6] = "AT_END"
    BY TokenKinds, TokenAt
  <2>3. \A k \in i..p6 : k = i \/ k = p2 \/ k = p3 \/ k = p5 \/ k = p6
    BY <1>1, <1>2, <1>3, <1>5, <2>1, <2>2
  <2>4. Ordered({k \in i..p6 : t[k] \in Valued}) = <<p5>>
    <3>1. {k \in i..p6 : t[k] \in Valued} = {p5}
      BY <1>1, <1>2, <1>3, <1>5, <2>1, <2>2, <2>3, TokenKinds
    <3> QED BY <1>1, <1>2, <1>3, <1>5, <2>1, <2>2, <3>1, OrderedOne
  <2>5. ItemSays(t, i, p6, "block", "block", <<p3, 0, p5>>)
    <3> DEFINE s == <<p5>>
    <3>1. Len(s) = 1 /\ s[1] = p5
      OBVIOUS
    <3> HIDE DEF s
    <3>2. ItemSays(t, i, p6, "block", "block",
                   IF Len(s) = 2 THEN <<i + 2, s[1], s[2]>>
                         ELSE <<i + 2, 0, s[1]>>)
      BY <1>1, <2>4, ItemIs DEF s
    <3>3. i + 2 = p3
      BY <1>1, <1>2, <1>3, <1>5, <2>1, <2>2
    <3> QED BY <3>1, <3>2, <3>3
  <2>6. /\ "block" \in NodeKinds /\ p6 \in Nat /\ i <= p6 /\ t[i] \in ItemStart
       /\ \A k \in (i + 1)..p6 : t[k] \in GoesOn
    <3>1. \A k \in (i + 1)..p6 : k \in i..p6 /\ k # i
      BY <1>1, <1>2, <1>3, <1>5, <2>1, <2>2
    <3> QED BY <1>1, <1>2, <1>3, <1>5, <2>1, <2>2, <2>3, <3>1, TokenKinds DEF NodeKinds
  <2>7. <<p3, 0, p5>> = <<v3, v4, v5>>
    BY <1>1, <1>2, <1>3, <1>5, <2>1, <2>2
  <2> QED BY <1>1, <2>5, <2>6, <2>7, NodeMeans
<1>6. CASE p4 = p3 + 1 /\ t[p4] = "STRING" /\ v4 = p4
  <2>1. p5 = p4 + 1 /\ t[p5] = "TEXT_CONTENT" /\ v5 = p5
    BY TokenKinds, TokenAt
  <2>2. p6 = p5 + 1 /\ t[p6] = "AT_END"
    BY TokenKinds, TokenAt
  <2>3. \A k \in i..p6 : k = i \/ k = p2 \/ k = p3 \/ k = p4 \/ k = p5 \/ k = p6
    BY <1>1, <1>2, <1>3, <1>6, <2>1, <2>2
  <2>4. Ordered({k \in i..p6 : t[k] \in Valued}) = <<p4, p5>>
    <3>1. {k \in i..p6 : t[k] \in Valued} = {p4, p5}
      BY <1>1, <1>2, <1>3, <1>6, <2>1, <2>2, <2>3, TokenKinds
    <3>2. p4 \in Int /\ p5 \in Int /\ p4 < p5
      BY <1>1, <1>2, <1>3, <1>6, <2>1, <2>2
    <3> QED BY <3>1, <3>2, OrderedTwo
  <2>5. ItemSays(t, i, p6, "block", "block", <<p3, p4, p5>>)
    <3> DEFINE s == <<p4, p5>>
    <3>1. Len(s) = 2 /\ s[1] = p4 /\ s[2] = p5
      OBVIOUS
    <3> HIDE DEF s
    <3>2. ItemSays(t, i, p6, "block", "block",
                   IF Len(s) = 2 THEN <<i + 2, s[1], s[2]>>
                         ELSE <<i + 2, 0, s[1]>>)
      BY <1>1, <2>4, ItemIs DEF s
    <3>3. i + 2 = p3
      BY <1>1, <1>2, <1>3, <1>6, <2>1, <2>2
    <3> QED BY <3>1, <3>2, <3>3
  <2>6. /\ "block" \in NodeKinds /\ p6 \in Nat /\ i <= p6 /\ t[i] \in ItemStart
       /\ \A k \in (i + 1)..p6 : t[k] \in GoesOn
    <3>1. \A k \in (i + 1)..p6 : k \in i..p6 /\ k # i
      BY <1>1, <1>2, <1>3, <1>6, <2>1, <2>2
    <3> QED BY <1>1, <1>2, <1>3, <1>6, <2>1, <2>2, <2>3, <3>1, TokenKinds DEF NodeKinds
  <2>7. <<p3, p4, p5>> = <<v3, v4, v5>>
    BY <1>1, <1>2, <1>3, <1>6, <2>1, <2>2
  <2> QED BY <1>1, <2>5, <2>6, <2>7, NodeMeans
<1>7. p3 \in Nat
  BY <1>1, <1>2, <1>3
<1> QED BY <1>4, <1>5, <1>6, <1>7

\* The nonterminals are no tokens, and each is what its name says.
LEMMA Kinds ==
  /\ "slideItem" \notin Labels /\ "optionalSeparator" \notin Labels /\ "blockType" \notin Labels
  /\ "slideItems" \notin Labels /\ "nonEmptySlideItems" \notin Labels /\ "slideExtras" \notin Labels
  /\ "slideWithTitle" \notin Labels /\ "slideWithoutTitle" \notin Labels /\ "slide" \notin Labels
  /\ "slides" \notin Labels /\ "program" \notin Labels
  /\ Optional \cap Labels = {} /\ NodeKinds \cap Labels = {}
BY DEF Labels, Valued, ItemStart, BlockType, Optional, NodeKinds

\* A slideItem is an item of any kind.
LEMMA ItemMeans ==
  ASSUME NEW t, NEW X \in NodeKinds, NEW i, NEW j, NEW v, Denotes(t, X, i, j, v)
  PROVE  Denotes(t, "slideItem", i, j, [type |-> X, node |-> v])
<1>1. i \in Nat \ {0} /\ j \in Nat /\ i <= j + 1 /\ ItemOf(t, i, j, [type |-> X, node |-> v])
  BY DEF Denotes
<1> QED BY <1>1, Kinds DEF Denotes, Optional, NodeKinds, ItemLists

\* Empty right-hand sides, and strings for an optional symbol.
LEMMA NothingMeans ==
  ASSUME NEW t, NEW X \in Optional \cup {"optionalSeparator"}, NEW j \in Nat
  PROVE  Denotes(t, X, j + 1, j, 0)
BY Kinds DEF Denotes, Optional, NodeKinds, ItemLists

LEMMA StringMeans ==
  ASSUME NEW t, NEW X \in Optional, NEW i, NEW j, NEW v, Denotes(t, "STRING", i, j, v)
  PROVE  Denotes(t, X, i, j, v)
<1>1. i \in Nat \ {0} /\ j = i /\ t[j] = "STRING" /\ v = j
  BY TokenKinds, TokenAt
<1> QED BY <1>1, Kinds DEF Denotes, Optional, NodeKinds, ItemLists

\* A separator or none.
LEMMA SeparatorMeans ==
  ASSUME NEW t, NEW i, NEW j, NEW v, Denotes(t, "TRIPLE_MINUS", i, j, v)
  PROVE  Denotes(t, "optionalSeparator", i, j, 0)
<1>1. i \in Nat \ {0} /\ j = i /\ t[j] = "TRIPLE_MINUS"
  BY TokenAt DEF Labels
<1> QED BY <1>1, Kinds DEF Denotes, Optional, NodeKinds, ItemLists

\* The type of a block is one token.
LEMMA TypeMeans ==
  ASSUME NEW t, NEW X \in BlockType, NEW i, NEW j, NEW v, Denotes(t, X, i, j, v)
  PROVE  Denotes(t, "blockType", i, j, v)
<1>1. i \in Nat \ {0} /\ j = i /\ t[j] = X /\ v = j
  BY TokenAt DEF Labels
<1> QED BY <1>1, Kinds DEF Denotes, Optional, NodeKinds, ItemLists

-----------------------------------------------------------------------------
(***************************************************************************)
(* The extras of a header.                                                 *)
(***************************************************************************)
LEMMA LabelledIs ==
  ASSUME NEW t, NEW i, NEW j, NEW token, NEW p \in Int, {k \in i..j : t[k] = token} = {p}
  PROVE  Labelled(t, i, j, token) = p + 1
<1>1. Ordered({k \in i..j : t[k] = token}) = <<p>>
  BY OrderedOne
<1>2. {p} # {} /\ <<p>>[1] = p
  OBVIOUS
<1> QED BY <1>1, <1>2 DEF Labelled

LEMMA LabelledNot ==
  ASSUME NEW t, NEW i, NEW j, NEW token, {k \in i..j : t[k] = token} = {}
  PROVE  Labelled(t, i, j, token) = 0
BY DEF Labelled

\* What Denotes says of the extras, of a header.
LEMMA ExtrasDenote ==
  ASSUME NEW t, NEW i \in Nat \ {0}, NEW j \in Nat, i <= j + 1, NEW a, NEW b,
         \A p \in i..j : t[p] \notin PhraseStart,
         Labelled(t, i, j, "DOUBLE_HASH") = a, Labelled(t, i, j, "AT_ID") = b
  PROVE  Denotes(t, "slideExtras", i, j, [subtitle |-> a, id |-> b])
BY Kinds DEF Denotes, ExtrasOf, Optional, NodeKinds, ItemLists

\* The marks of a header begin no phrase and carry no value.
LEMMA HeaderKinds ==
  /\ {"DOUBLE_HASH", "AT_ID", "STRING", "HASH", "TRIPLE_MINUS"} \subseteq Labels
  /\ {"DOUBLE_HASH", "AT_ID", "STRING"} \cap PhraseStart = {}
  /\ {"HASH", "TRIPLE_MINUS"} \subseteq PhraseStart /\ ItemStart \subseteq PhraseStart
  /\ {"HASH", "TRIPLE_MINUS"} \cap ItemStart = {}
BY DEF Labels, Valued, ItemStart, BlockType, PhraseStart

\* The productions of slideExtras.
LEMMA NoExtrasMeans ==
  ASSUME NEW t, NEW j \in Nat
  PROVE  Denotes(t, "slideExtras", j + 1, j, [subtitle |-> 0, id |-> 0])
<1>1. (j + 1)..j = {}
  OBVIOUS
<1>2. Labelled(t, j + 1, j, "DOUBLE_HASH") = 0 /\ Labelled(t, j + 1, j, "AT_ID") = 0
  BY <1>1, LabelledNot
<1>3. j + 1 \in Nat \ {0} /\ j + 1 <= j + 1 /\ \A p \in (j + 1)..j : t[p] \notin PhraseStart
  BY <1>1
<1> QED BY <1>2, <1>3, ExtrasDenote

LEMMA SubtitleMeans ==
  ASSUME NEW t, NEW i, NEW p1, NEW p2, NEW v1, NEW v2,
         Denotes(t, "DOUBLE_HASH", i, p1, v1), Denotes(t, "STRING", p1 + 1, p2, v2)
  PROVE  Denotes(t, "slideExtras", i, p2, [subtitle |-> v2, id |-> 0])
<1>1. i \in Nat \ {0} /\ p1 = i /\ t[i] = "DOUBLE_HASH"
  BY HeaderKinds, TokenAt
<1>2. p2 = p1 + 1 /\ t[p2] = "STRING" /\ v2 = p2
  BY HeaderKinds, TokenAt
<1>3. \A k \in i..p2 : k = i \/ k = p2
  BY <1>1, <1>2
<1>4. {k \in i..p2 : t[k] = "DOUBLE_HASH"} = {i} /\ {k \in i..p2 : t[k] = "AT_ID"} = {}
  BY <1>1, <1>2, <1>3
<1>5. Labelled(t, i, p2, "DOUBLE_HASH") = v2 /\ Labelled(t, i, p2, "AT_ID") = 0
  BY <1>1, <1>2, <1>4, LabelledIs, LabelledNot
<1>6. p2 \in Nat /\ i <= p2 + 1 /\ \A k \in i..p2 : t[k] \notin PhraseStart
  BY <1>1, <1>2, <1>3, HeaderKinds
<1> QED BY <1>1, <1>5, <1>6, ExtrasDenote

LEMMA IdMeans ==
  ASSUME NEW t, NEW i, NEW p1, NEW p2, NEW v1, NEW v2,
         Denotes(t, "AT_ID", i, p1, v1), Denotes(t, "STRING", p1 + 1, p2, v2)
  PROVE  Denotes(t, "slideExtras", i, p2, [subtitle |-> 0, id |-> v2])
<1>1. i \in Nat \ {0} /\ p1 = i /\ t[i] = "AT_ID"
  BY HeaderKinds, TokenAt
<1>2. p2 = p1 + 1 /\ t[p2] = "STRING" /\ v2 = p2
  BY HeaderKinds, TokenAt
<1>3. \A k \in i..p2 : k = i \/ k = p2
  BY <1>1, <1>2
<1>4. {k \in i..p2 : t[k] = "AT_ID"} = {i} /\ {k \in i..p2 : t[k] = "DOUBLE_HASH"} = {}
  BY <1>1, <1>2, <1>3
<1>5. Labelled(t, i, p2, "AT_ID") = v2 /\ Labelled(t, i, p2, "DOUBLE_HASH") = 0
  BY <1>1, <1>2, <1>4, LabelledIs, LabelledNot
<1>6. p2 \in Nat /\ i <= p2 + 1 /\ \A k \in i..p2 : t[k] \notin PhraseStart
  BY <1>1, <1>2, <1>3, HeaderKinds
<1> QED BY <1>1, <1>5, <1>6, ExtrasDenote

LEMMA BothMeans ==
  ASSUME NEW t, NEW i, NEW p1, NEW p2, NEW p3, NEW p4, NEW v1, NEW v2, NEW v3, NEW v4,
         Denotes(t, "DOUBLE_HASH", i, p1, v1), Denotes(t, "STRING", p1 + 1, p2, v2),
         Denotes(t, "AT_ID", p2 + 1, p3, v3), Denotes(t, "STRING", p3 + 1, p4, v4)
  PROVE  Denotes(t, "slideExtras", i, p4, [subtitle |-> v2, id |-> v4])
<1>1. i \in Nat \ {0} /\ p1 = i /\ t[i] = "DOUBLE_HASH"
  BY HeaderKinds, TokenAt
<1>2. p2 = p1 + 1 /\ t[p2] = "STRING" /\ v2 = p2
  BY HeaderKinds, TokenAt
<1>3. p3 = p2 + 1 /\ t[p3] = "AT_ID"
  BY HeaderKinds, TokenAt
<1>4. p4 = p3 + 1 /\ t[p4] = "STRING" /\ v4 = p4
  BY HeaderKinds, TokenAt
<1>5. \A k \in i..p4 : k = i \/ k = p2 \/ k = p3 \/ k = p4
  BY <1>1, <1>2, <1>3, <1>4
<1>6. {k \in i..p4 : t[k] = "DOUBLE_HASH"} = {i} /\ {k \in i..p4 : t[k] = "AT_ID"} = {p3}
  BY <1>1, <1>2, <1>3, <1>4, <1>5
<1>7. Labelled(t, i, p4, "DOUBLE_HASH") = v2 /\ Labelled(t, i, p4, "AT_ID") = v4
  <2>1. i \in Int /\ p3 \in Int
    BY <1>1, <1>2, <1>3
  <2>2. Labelled(t, i, p4, "DOUBLE_HASH") = i + 1 /\ Labelled(t, i, p4, "AT_ID") = p3 + 1
    BY <2>1, <1>6, LabelledIs
  <2> QED BY <2>2, <1>1, <1>2, <1>4
<1>8. p4 \in Nat /\ i <= p4 + 1 /\ \A k \in i..p4 : t[k] \notin PhraseStart
  BY <1>1, <1>2, <1>3, <1>4, <1>5, HeaderKinds
<1> QED BY <1>1, <1>7, <1>8, ExtrasDenote

\* Append to a function given place by place.
LEMMA AppendFcn ==
  ASSUME NEW n \in Nat, NEW f, NEW e
  PROVE  Append([k \in 1..n |-> f[k]], e) = [k \in 1..(n + 1) |-> IF k = n + 1 THEN e ELSE f[k]]
<1> DEFINE S == {f[k] : k \in 1..n} \cup {e}
           q == [k \in 1..n |-> f[k]]
           u == [k \in 1..(n + 1) |-> IF k = n + 1 THEN e ELSE f[k]]
<1>1. q \in [1..n -> S] /\ u \in [1..(n + 1) -> S] /\ e \in S
  OBVIOUS
<1>2. q \in Seq(S) /\ u \in Seq(S) /\ Len(q) = n /\ Len(u) = n + 1
  BY <1>1
<1>3. (\A i \in 1..Len(q) : u[i] = q[i]) /\ u[n + 1] = e
  BY <1>2
<1> HIDE DEF S, q, u
<1>4. Len(u) = Len(q) + 1 /\ u[Len(q) + 1] = e
  BY <1>2, <1>3
<1>5. Append(q, e) = u
  BY <1>1, <1>2, <1>3, <1>4, AppendIs
<1> QED BY <1>5 DEF q, u

-----------------------------------------------------------------------------
(***************************************************************************)
(* The lists of items.                                                     *)
(***************************************************************************)
LEMMA ListDenotes ==
  ASSUME NEW t, NEW X \in ItemLists, NEW i \in Nat \ {0}, NEW j \in Nat, i <= j + 1,
         NEW v, ItemsOf(t, i, j, v), X = "nonEmptySlideItems" => i <= j
  PROVE  Denotes(t, X, i, j, v)
BY Kinds DEF Denotes, Optional, NodeKinds, ItemLists

\* The productions of the lists: none, one more, one.
LEMMA NoItemsMean ==
  ASSUME NEW t, NEW j \in Nat
  PROVE  Denotes(t, "slideItems", j + 1, j, <<>>)
<1> DEFINE b == <<j + 1>>
<1>1. (j + 1)..j = {} /\ 1..0 = {}
  OBVIOUS
<1>2. \A k \in 1..(0 + 1) : k = 1
  OBVIOUS
<1>3. b[1] = j + 1
  OBVIOUS
<1> HIDE DEF b
<1>4. Rising(b, 0 + 1) /\ b[0 + 1] = j + 1 /\ \A k \in 1..(0 + 1) : b[k] \in Nat
  BY <1>2, <1>3 DEF Rising
<1>5. <<>> = [k \in 1..0 |-> ItemIn(t, b[k], b[k + 1] - 1)]
  BY <1>1
<1>6. {p \in (j + 1)..j : t[p] \in PhraseStart} = {b[k] : k \in 1..0}
  BY <1>1
<1>7. ItemsAt(t, j + 1, j, 0, b, <<>>)
  BY <1>1, <1>3, <1>4, <1>5, <1>6 DEF ItemsAt
<1>8. ItemsOf(t, j + 1, j, <<>>)
  BY <1>7 DEF ItemsOf
<1> QED BY <1>8, ListDenotes DEF ItemLists

LEMMA MoreItems ==
  ASSUME NEW t, NEW i \in Nat \ {0}, NEW p1 \in Nat, NEW p2 \in Nat, i <= p1 + 1,
         NEW v1, NEW v2, ItemsOf(t, i, p1, v1), ItemOf(t, p1 + 1, p2, v2)
  PROVE  ItemsOf(t, i, p2, Append(v1, v2)) /\ p1 < p2
<1> PICK n \in Nat : \E b : ItemsAt(t, i, p1, n, b, v1)
  BY DEF ItemsOf
<1>1. PICK b : ItemsAt(t, i, p1, n, b, v1)
  OBVIOUS
<1>2. /\ p1 + 1 <= p2 /\ t[p1 + 1] \in ItemStart
      /\ \A k \in (p1 + 2)..p2 : t[k] \notin PhraseStart \cup HeaderMarks
      /\ v2 = ItemIn(t, p1 + 1, p2)
  <2>1. p1 + 1 + 1 = p1 + 2
    OBVIOUS
  <2> QED BY <2>1 DEF ItemOf
<1> DEFINE c == [k \in 1..(n + 2) |-> IF k = n + 2 THEN p2 + 1 ELSE b[k]]
<1>3. /\ \A k \in 1..(n + 1) : b[k] \in Nat /\ c[k] = b[k] /\ b[k] <= p1 + 1
      /\ c[n + 2] = p2 + 1 /\ b[1] = i /\ b[n + 1] = p1 + 1
  <2>1. /\ \A k \in 1..(n + 1) : b[k] \in Nat
        /\ b[1] = i /\ b[n + 1] = p1 + 1 /\ Rising(b, n + 1)
    BY <1>1 DEF ItemsAt
  <2>2. \A k \in 1..(n + 1) : k = n + 1 \/ (k < n + 1 /\ n + 1 \in 1..(n + 1))
    OBVIOUS
  <2>3. \A k \in 1..(n + 1) : b[k] <= p1 + 1
    BY <2>1, <2>2 DEF Rising
  <2> QED BY <2>1, <2>3
<1> HIDE DEF c
<1>4. Rising(c, n + 2)
  <2> SUFFICES ASSUME NEW k \in 1..(n + 2), NEW l \in 1..(n + 2), k < l PROVE c[k] < c[l]
    BY DEF Rising
  <2>1. k \in 1..(n + 1)
    OBVIOUS
  <2>2. CASE l = n + 2
    BY <1>2, <1>3, <2>1, <2>2
  <2>3. CASE l \in 1..(n + 1)
    BY <1>1, <1>3, <2>1, <2>3 DEF ItemsAt, Rising
  <2> QED BY <2>2, <2>3
<1>5. {p \in i..p2 : t[p] \in PhraseStart} = {c[k] : k \in 1..(n + 1)}
  <2>1. {p \in i..p1 : t[p] \in PhraseStart} = {b[k] : k \in 1..n}
    BY <1>1 DEF ItemsAt
  <2>2. {p \in i..p2 : t[p] \in PhraseStart} = {p \in i..p1 : t[p] \in PhraseStart} \cup {p1 + 1}
    <3>1. \A p \in i..p2 : p \in i..p1 \/ p = p1 + 1 \/ p \in (p1 + 2)..p2
      OBVIOUS
    <3>2. p1 + 1 \in i..p2 /\ t[p1 + 1] \in PhraseStart /\ \A p \in i..p1 : p \in i..p2
      BY <1>2, HeaderKinds
    <3> QED BY <1>2, <3>1, <3>2
  <2>3. {c[k] : k \in 1..(n + 1)} = {b[k] : k \in 1..n} \cup {p1 + 1}
    <3>1. \A k \in 1..(n + 1) : k \in 1..n \/ k = n + 1
      OBVIOUS
    <3>2. n + 1 \in 1..(n + 1) /\ \A k \in 1..n : k \in 1..(n + 1)
      OBVIOUS
    <3> QED BY <1>3, <3>1, <3>2
  <2> QED BY <2>1, <2>2, <2>3
<1>6. \A k \in 1..(n + 1) : t[c[k]] \in ItemStart
  <2>1. \A k \in 1..(n + 1) : k \in 1..n \/ k = n + 1
    OBVIOUS
  <2> QED BY <1>1, <1>2, <1>3, <2>1 DEF ItemsAt
<1>7. \A p \in i..p2 : t[p] \notin HeaderMarks
  <2>1. \A p \in i..p2 : p \in i..p1 \/ p = p1 + 1 \/ p \in (p1 + 2)..p2
    OBVIOUS
  <2>2. ItemStart \cap HeaderMarks = {}
    BY DEF ItemStart, HeaderMarks
  <2> QED BY <1>1, <1>2, <2>1, <2>2 DEF ItemsAt
<1>8. Append(v1, v2) = [k \in 1..(n + 1) |-> ItemIn(t, c[k], c[k + 1] - 1)]
  <2> DEFINE f == [k \in 1..n |-> ItemIn(t, b[k], b[k + 1] - 1)]
             A(k) == IF k = n + 1 THEN v2 ELSE f[k]
             B(k) == ItemIn(t, c[k], c[k + 1] - 1)
  <2>1. v1 = f /\ f = [k \in 1..n |-> f[k]]
    BY <1>1 DEF ItemsAt
  <2>2. ASSUME NEW k \in 1..(n + 1) PROVE A(k) = B(k)
    <3>1. CASE k = n + 1
      <4>1. c[k] = p1 + 1 /\ c[k + 1] - 1 = p2
        BY <1>3, <3>1
      <4> QED BY <1>2, <3>1, <4>1
    <3>2. CASE k # n + 1
      <4>1. k \in 1..n /\ k \in 1..(n + 1) /\ k + 1 \in 1..(n + 1)
        BY <3>2
      <4>2. c[k] = b[k] /\ c[k + 1] = b[k + 1]
        BY <1>3, <4>1
      <4> QED BY <3>2, <4>1, <4>2
    <3> QED BY <3>1, <3>2
  <2> HIDE DEF f, B
  <2>3. Append([k \in 1..n |-> f[k]], v2) = [k \in 1..(n + 1) |-> A(k)]
    BY AppendFcn
  <2> HIDE DEF A
  <2>4. [k \in 1..(n + 1) |-> A(k)] = [k \in 1..(n + 1) |-> B(k)]
    BY <2>2, Zenon
  <2>5. Append(v1, v2) = [k \in 1..(n + 1) |-> B(k)]
    BY <2>1, <2>3, <2>4, Zenon
  <2> QED BY <2>5, Zenon DEF B
<1>9. ItemsAt(t, i, p2, n + 1, c, Append(v1, v2))
  <2>1. n + 1 + 1 = n + 2 /\ c[1] = i /\ \A k \in 1..(n + 2) : c[k] \in Nat
    <3>1. 1 \in 1..(n + 1) /\ \A k \in 1..(n + 2) : k \in 1..(n + 1) \/ k = n + 2
      OBVIOUS
    <3> QED BY <1>3, <3>1
  <2> QED BY <1>3, <1>4, <1>5, <1>6, <1>7, <1>8, <2>1, Zenon DEF ItemsAt
<1>10. n + 1 \in Nat /\ p1 < p2
  BY <1>2
<1> QED BY <1>9, <1>10, Zenon DEF ItemsOf

\* What Denotes says of an item, and of the items of a slide.
LEMMA ItemDenotes ==
  ASSUME NEW t, NEW i, NEW j, NEW v, Denotes(t, "slideItem", i, j, v)
  PROVE  i \in Nat \ {0} /\ j \in Nat /\ i <= j + 1 /\ ItemOf(t, i, j, v)
BY DEF Denotes

LEMMA ItemsDenote ==
  ASSUME NEW t, NEW X \in ItemLists, NEW i, NEW j, NEW v, Denotes(t, X, i, j, v)
  PROVE  /\ i \in Nat \ {0} /\ j \in Nat /\ i <= j + 1 /\ ItemsOf(t, i, j, v)
         /\ X = "nonEmptySlideItems" => i <= j
BY DEF Denotes

\* Appending an item to a list.
LEMMA AppendMeans ==
  ASSUME NEW t, NEW X \in ItemLists, NEW i, NEW p1, NEW p2, NEW v1, NEW v2,
         Denotes(t, X, i, p1, v1), Denotes(t, "slideItem", p1 + 1, p2, v2)
  PROVE  Denotes(t, X, i, p2, Append(v1, v2))
<1>1. i \in Nat \ {0} /\ p1 \in Nat /\ i <= p1 + 1 /\ ItemsOf(t, i, p1, v1)
  BY ItemsDenote
<1>2. p2 \in Nat /\ ItemOf(t, p1 + 1, p2, v2)
  BY ItemDenotes
<1>3. ItemsOf(t, i, p2, Append(v1, v2)) /\ p1 < p2
  BY <1>1, <1>2, MoreItems
<1>4. i <= p2
  BY <1>1, <1>2, <1>3
<1>5. i <= p2 + 1
  BY <1>1, <1>2, <1>4
<1> QED BY <1>1, <1>2, <1>3, <1>4, <1>5, ListDenotes

LEMMA OneItemMeans ==
  ASSUME NEW t, NEW i, NEW p1, NEW v1, Denotes(t, "slideItem", i, p1, v1)
  PROVE  Denotes(t, "nonEmptySlideItems", i, p1, <<v1>>)
<1>1. i \in Nat \ {0} /\ p1 \in Nat /\ ItemOf(t, i, p1, v1)
  BY ItemDenotes
<1>2. PICK j \in Nat : i = j + 1
  BY <1>1
<1>3. ItemsOf(t, j + 1, j, <<>>)
  BY NoItemsMean, ItemsDenote DEF ItemLists
<1>4. j + 1 <= j + 1 /\ j + 1 \in Nat \ {0}
  BY <1>2
<1>5. ItemsOf(t, j + 1, p1, Append(<<>>, v1)) /\ j < p1
  BY <1>1, <1>2, <1>3, <1>4, MoreItems
<1>6. Append(<<>>, v1) = <<v1>>
  OBVIOUS
<1>7. i <= p1 /\ i <= p1 + 1
  BY <1>1, <1>2, <1>5
<1> QED BY <1>1, <1>2, <1>5, <1>6, <1>7, ListDenotes DEF ItemLists

(***************************************************************************)
(* The slides.  A slide is opened by its first token, and by no other.     *)
(***************************************************************************)
LEMMA OpensOnce ==
  ASSUME NEW t, NEW i \in Nat \ {0}, NEW j \in Nat, NEW v, SlideOf(t, i, j, v)
  PROVE  i <= j /\ \A p \in i..j : OpensSlide(t, p) <=> p = i
<1>1. CASE TitledOf(t, i, j, v)
  <2>1. PICK h \in Nat : TitledAt(t, i, j, h, v)
    BY <1>1 DEF TitledOf
  <2>2. /\ t[i] = "HASH" /\ h \in (i + 1)..j
        /\ \A p \in (i + 1)..h : t[p] \notin PhraseStart
        /\ ItemsOf(t, h + 1, j, v.items)
    BY <2>1 DEF TitledAt
  <2> PICK n \in Nat : \E b : ItemsAt(t, h + 1, j, n, b, v.items)
    BY <2>2 DEF ItemsOf
  <2>3. PICK b : ItemsAt(t, h + 1, j, n, b, v.items)
    OBVIOUS
  <2>4. \A p \in (h + 1)..j : t[p] \in PhraseStart => t[p] \in ItemStart
    <3>1. {p \in (h + 1)..j : t[p] \in PhraseStart} = {b[k] : k \in 1..n}
          /\ \A k \in 1..n : t[b[k]] \in ItemStart
      BY <2>3 DEF ItemsAt
    <3> QED BY <3>1
  <2>5. ASSUME NEW p \in (i + 1)..j PROVE ~OpensSlide(t, p)
    <3>1. p \in (i + 1)..h \/ p \in (h + 1)..j
      BY <2>2
    <3>2. p # 1 /\ (p \in (h + 1)..j => p - 1 \in (i + 1)..h \/ p - 1 \in (h + 1)..j)
      BY <2>2
    <3>3. CASE p \in (i + 1)..h
      BY <2>2, <3>3, HeaderKinds DEF OpensSlide
    <3>4. CASE p \in (h + 1)..j
      <4>1. t[p - 1] # "TRIPLE_MINUS"
        BY <2>2, <2>4, <3>2, <3>4, HeaderKinds
      <4>2. t[p] # "HASH"
        BY <2>4, <3>4, HeaderKinds
      <4> QED BY <3>2, <4>1, <4>2 DEF OpensSlide
    <3> QED BY <3>1, <3>3, <3>4
  <2>6. OpensSlide(t, i)
    BY <2>2 DEF OpensSlide
  <2>7. i <= j /\ \A p \in i..j : p = i \/ p \in (i + 1)..j
    BY <2>2
  <2> QED BY <2>5, <2>6, <2>7
<1>2. CASE UntitledOf(t, i, j, v)
  <2>1. i <= j /\ OpensSlide(t, i) /\ ItemsOf(t, i, j, v.items)
    BY <1>2 DEF UntitledOf
  <2> PICK n \in Nat : \E b : ItemsAt(t, i, j, n, b, v.items)
    BY <2>1 DEF ItemsOf
  <2>2. PICK b : ItemsAt(t, i, j, n, b, v.items)
    OBVIOUS
  <2>3. \A p \in i..j : t[p] \in PhraseStart => t[p] \in ItemStart
    <3>1. {p \in i..j : t[p] \in PhraseStart} = {b[k] : k \in 1..n}
          /\ \A k \in 1..n : t[b[k]] \in ItemStart
      BY <2>2 DEF ItemsAt
    <3> QED BY <3>1
  <2>4. ASSUME NEW p \in (i + 1)..j PROVE ~OpensSlide(t, p)
    <3>1. p \in i..j /\ p - 1 \in i..j /\ p # 1
      OBVIOUS
    <3>2. t[p - 1] # "TRIPLE_MINUS" /\ t[p] # "HASH"
      BY <2>3, <3>1, HeaderKinds
    <3> QED BY <3>1, <3>2 DEF OpensSlide
  <2>5. \A p \in i..j : p = i \/ p \in (i + 1)..j
    BY <2>1
  <2> QED BY <2>1, <2>4, <2>5
<1> QED BY <1>1, <1>2 DEF SlideOf

\* The productions of the slides.
LEMMA TitledMeans ==
  ASSUME NEW t, NEW i, NEW p1, NEW p2, NEW p3, NEW p4, NEW v1, NEW v2, NEW e, NEW v4,
         Denotes(t, "HASH", i, p1, v1), Denotes(t, "STRING", p1 + 1, p2, v2),
         Denotes(t, "slideExtras", p2 + 1, p3, e), Denotes(t, "slideItems", p3 + 1, p4, v4)
  PROVE  Denotes(t, "slideWithTitle", i, p4,
                 [title |-> v2, subtitle |-> e.subtitle, id |-> e.id, items |-> v4])
<1> DEFINE v == [title |-> v2, subtitle |-> e.subtitle, id |-> e.id, items |-> v4]
<1>1. i \in Nat \ {0} /\ p1 = i /\ t[i] = "HASH"
  BY HeaderKinds, TokenAt
<1>2. p2 = p1 + 1 /\ t[p2] = "STRING" /\ v2 = p2
  BY HeaderKinds, TokenAt
<1>3. p3 \in Nat /\ p2 + 1 <= p3 + 1 /\ ExtrasOf(t, p2 + 1, p3, e)
  BY DEF Denotes
<1>4. p4 \in Nat /\ p3 + 1 <= p4 + 1 /\ ItemsOf(t, p3 + 1, p4, v4)
  BY ItemsDenote DEF ItemLists
<1>5. \A p \in i..p3 : p = i \/ p = p2 \/ p \in (p2 + 1)..p3
  BY <1>1, <1>2
<1>6. ASSUME NEW m \in HeaderMarks
      PROVE  Labelled(t, i, p3, m) = Labelled(t, p2 + 1, p3, m)
  <2>1. m # "HASH" /\ m # "STRING"
    BY DEF HeaderMarks
  <2>2. \A p \in (p2 + 1)..p3 : p \in i..p3
    BY <1>1, <1>2
  <2>3. {p \in i..p3 : t[p] = m} = {p \in (p2 + 1)..p3 : t[p] = m}
    BY <1>1, <1>2, <1>5, <2>1, <2>2
  <2> QED BY <2>3 DEF Labelled
<1>7. /\ v.title = i + 1 /\ v.subtitle = Labelled(t, i, p3, "DOUBLE_HASH")
      /\ v.id = Labelled(t, i, p3, "AT_ID") /\ v.items = v4
  <2>1. e.subtitle = Labelled(t, p2 + 1, p3, "DOUBLE_HASH") /\ e.id = Labelled(t, p2 + 1, p3, "AT_ID")
    BY <1>3 DEF ExtrasOf
  <2>2. "DOUBLE_HASH" \in HeaderMarks /\ "AT_ID" \in HeaderMarks
    BY DEF HeaderMarks
  <2>3. v.subtitle = e.subtitle /\ v.id = e.id /\ v.title = v2 /\ v.items = v4
    OBVIOUS
  <2>4. v2 = i + 1
    BY <1>1, <1>2
  <2> QED BY <1>6, <2>1, <2>2, <2>3, <2>4
<1>8. p3 \in (i + 1)..p4 /\ \A p \in (i + 1)..p3 : t[p] \notin PhraseStart
  <2>1. p3 \in (i + 1)..p4 /\ \A p \in (i + 1)..p3 : p = p2 \/ p \in (p2 + 1)..p3
    BY <1>1, <1>2, <1>3, <1>4
  <2> QED BY <1>2, <1>3, <2>1, HeaderKinds DEF ExtrasOf
<1>9. v = [title |-> v.title, subtitle |-> v.subtitle, id |-> v.id, items |-> v.items]
  OBVIOUS
<1> HIDE DEF v
<1>10. TitledAt(t, i, p4, p3, v)
  BY <1>1, <1>4, <1>7, <1>8, <1>9 DEF TitledAt
<1>11. TitledOf(t, i, p4, v)
  BY <1>3, <1>10 DEF TitledOf
<1>12. i \in Nat \ {0} /\ p4 \in Nat /\ i <= p4 + 1
  BY <1>1, <1>4, <1>8
<1>13. Denotes(t, "slideWithTitle", i, p4, v)
  BY <1>11, <1>12, Kinds DEF Denotes, Optional, NodeKinds, ItemLists
<1> QED BY <1>13 DEF v

LEMMA UntitledMeans ==
  ASSUME NEW t, NEW i, NEW p1, NEW v1,
         Denotes(t, "nonEmptySlideItems", i, p1, v1), i = 1 \/ t[i - 1] = "TRIPLE_MINUS"
  PROVE  Denotes(t, "slideWithoutTitle", i, p1,
                 [title |-> 0, subtitle |-> 0, id |-> 0, items |-> v1])
<1> DEFINE v == [title |-> 0, subtitle |-> 0, id |-> 0, items |-> v1]
<1>1. i \in Nat \ {0} /\ p1 \in Nat /\ i <= p1 /\ i <= p1 + 1 /\ ItemsOf(t, i, p1, v1)
  BY ItemsDenote DEF ItemLists
<1>2. OpensSlide(t, i)
  <2> PICK n \in Nat : \E b : ItemsAt(t, i, p1, n, b, v1)
    BY <1>1 DEF ItemsOf
  <2>1. PICK b : ItemsAt(t, i, p1, n, b, v1)
    OBVIOUS
  <2>2. b[1] = i /\ b[n + 1] = p1 + 1 /\ \A k \in 1..n : t[b[k]] \in ItemStart
    BY <2>1 DEF ItemsAt
  <2>3. n # 0
    BY <1>1, <2>2
  <2>4. 1 \in 1..n
    BY <2>3
  <2> QED BY <2>2, <2>4 DEF OpensSlide
<1>3. v.items = v1
  OBVIOUS
<1>4. UntitledOf(t, i, p1, v)
  BY <1>1, <1>2, <1>3 DEF UntitledOf
<1> HIDE DEF v
<1>5. Denotes(t, "slideWithoutTitle", i, p1, v)
  BY <1>1, <1>4, Kinds DEF Denotes, Optional, NodeKinds, ItemLists
<1> QED BY <1>5 DEF v

LEMMA SlideMeans ==
  ASSUME NEW t, NEW X \in {"slideWithTitle", "slideWithoutTitle"}, NEW i, NEW j, NEW v,
         Denotes(t, X, i, j, v)
  PROVE  Denotes(t, "slide", i, j, v)
<1>1. i \in Nat \ {0} /\ j \in Nat /\ i <= j + 1 /\ SlideOf(t, i, j, v)
  BY DEF Denotes, SlideOf
<1> QED BY <1>1, Kinds DEF Denotes, Optional, NodeKinds, ItemLists

\* What Denotes says of a slide, and of slides.
LEMMA SlideDenotes ==
  ASSUME NEW t, NEW i, NEW j, NEW v, Denotes(t, "slide", i, j, v)
  PROVE  i \in Nat \ {0} /\ j \in Nat /\ SlideOf(t, i, j, v)
BY DEF Denotes

LEMMA SlidesDenote ==
  ASSUME NEW t, NEW X \in {"slides", "program"}, NEW i, NEW j, NEW v, Denotes(t, X, i, j, v)
  PROVE  i = 1 /\ j \in Nat /\ SlidesOf(t, j, v)
BY DEF Denotes

LEMMA SlidesDenoted ==
  ASSUME NEW t, NEW X \in {"slides", "program"}, NEW j \in Nat, NEW v, SlidesOf(t, j, v)
  PROVE  Denotes(t, X, 1, j, v)
<1>1. 1 \in Nat \ {0} /\ 1 <= j + 1
  OBVIOUS
<1> QED BY <1>1, Kinds DEF Denotes, Optional, NodeKinds, ItemLists

\* The first slide, one more, one more after a separator.
LEMMA FirstSlideMeans ==
  ASSUME NEW t, NEW p1, NEW p2, NEW v1, NEW v2,
         Denotes(t, "optionalSeparator", 1, p1, v1), Denotes(t, "slide", p1 + 1, p2, v2)
  PROVE  Denotes(t, "slides", 1, p2, <<v2>>)
<1> DEFINE c == <<p1 + 1>>
           e == <<p2>>
           v == <<v2>>
<1>1. p1 = 0 \/ (p1 = 1 /\ t[p1] = "TRIPLE_MINUS")
  BY DEF Denotes
<1>2. p1 + 1 \in Nat \ {0} /\ p2 \in Nat /\ SlideOf(t, p1 + 1, p2, v2)
  BY SlideDenotes
<1>3. p1 + 1 <= p2 /\ \A p \in (p1 + 1)..p2 : OpensSlide(t, p) <=> p = p1 + 1
  BY <1>2, OpensOnce
<1>4. c[1] = p1 + 1 /\ e[1] = p2 /\ v[1] = v2 /\ v = [k \in 1..1 |-> v[k]]
  OBVIOUS
<1> HIDE DEF c, e, v
<1>5. {p \in 1..p2 : OpensSlide(t, p)} = {c[k] : k \in 1..1}
  <2>1. \A p \in 1..p2 : p \in (p1 + 1)..p2 \/ (p = p1 /\ p1 = 1)
    BY <1>1
  <2>2. p1 + 1 \in 1..p2 /\ p1 + 1 \in (p1 + 1)..p2
    BY <1>1, <1>2, <1>3
  <2>3. p1 = 1 => ~OpensSlide(t, p1)
    BY <1>1, HeaderKinds DEF OpensSlide
  <2>4. {c[k] : k \in 1..1} = {p1 + 1}
    BY <1>4
  <2> QED BY <1>3, <2>1, <2>2, <2>3, <2>4
<1>6. SlidesAt(t, p2, 1, c, e, v)
  <2>1. \A k \in 1..1 : k = 1
    OBVIOUS
  <2>2. 1..(1 - 1) = {}
    OBVIOUS
  <2>3. p1 + 1 \in 1..p2 /\ p2 \in 1..p2
    BY <1>1, <1>2, <1>3
  <2> QED BY <1>2, <1>4, <1>5, <2>1, <2>2, <2>3 DEF SlidesAt, Rising
<1>7. SlidesOf(t, p2, v)
  BY <1>6 DEF SlidesOf
<1>8. Denotes(t, "slides", 1, p2, v)
  BY <1>2, <1>7, SlidesDenoted
<1> QED BY <1>8 DEF v

LEMMA MoreSlides ==
  ASSUME NEW t, NEW p1 \in Nat, NEW s \in Nat, NEW p2 \in Nat, NEW v1, NEW v2,
         SlidesOf(t, p1, v1), SlideOf(t, s, p2, v2),
         s = p1 + 1 \/ (s = p1 + 2 /\ t[p1 + 1] = "TRIPLE_MINUS")
  PROVE  SlidesOf(t, p2, Append(v1, v2))
<1> PICK m \in Nat \ {0} : \E c, e : SlidesAt(t, p1, m, c, e, v1)
  BY DEF SlidesOf
<1>1. PICK c, e : SlidesAt(t, p1, m, c, e, v1)
  OBVIOUS
<1>2. s \in Nat \ {0} /\ s <= p2 /\ \A p \in s..p2 : OpensSlide(t, p) <=> p = s
  BY OpensOnce
<1> DEFINE d == [k \in 1..(m + 1) |-> IF k = m + 1 THEN s ELSE c[k]]
           f == [k \in 1..(m + 1) |-> IF k = m + 1 THEN p2 ELSE e[k]]
           v == [k \in 1..(m + 1) |-> IF k = m + 1 THEN v2 ELSE v1[k]]
<1>3. /\ d[m + 1] = s /\ f[m + 1] = p2 /\ v[m + 1] = v2
      /\ \A k \in 1..m : d[k] = c[k] /\ f[k] = e[k] /\ v[k] = v1[k]
      /\ v = [k \in 1..(m + 1) |-> v[k]]
  OBVIOUS
<1>4. Append(v1, v2) = v
  <2>1. v1 = [k \in 1..m |-> v1[k]]
    BY <1>1 DEF SlidesAt
  <2>2. Append([k \in 1..m |-> v1[k]], v2) = v
    BY AppendFcn
  <2> HIDE DEF v
  <2> QED BY <2>1, <2>2, Zenon
<1> HIDE DEF d, f, v
<1>5. \A k \in 1..(m + 1) : k \in 1..m \/ k = m + 1
  OBVIOUS
<1>6. \A k \in 1..m : c[k] \in 1..p1 /\ e[k] \in 1..p1 /\ SlideOf(t, c[k], e[k], v1[k])
  BY <1>1 DEF SlidesAt
<1>7. ASSUME NEW k \in 1..(m + 1)
      PROVE  d[k] \in 1..p2 /\ f[k] \in 1..p2 /\ SlideOf(t, d[k], f[k], v[k])
  <2>1. CASE k = m + 1
    BY <1>2, <1>3, <2>1
  <2>2. CASE k \in 1..m
    <3>1. c[k] \in 1..p1 /\ e[k] \in 1..p1 /\ SlideOf(t, c[k], e[k], v1[k])
      BY <1>6, <2>2
    <3>2. \A x \in 1..p1 : x \in 1..p2
      BY <1>2
    <3> QED BY <1>3, <2>2, <3>1, <3>2
  <2> QED BY <1>5, <2>1, <2>2
<1>8. Rising(d, m + 1)
  <2> SUFFICES ASSUME NEW k \in 1..(m + 1), NEW l \in 1..(m + 1), k < l PROVE d[k] < d[l]
    BY DEF Rising
  <2>1. k \in 1..m
    OBVIOUS
  <2>2. CASE l = m + 1
    <3>1. c[k] \in 1..p1 /\ d[k] = c[k] /\ d[l] = s /\ p1 < s
      <4>1. c[k] \in 1..p1 /\ d[k] = c[k]
        BY <1>3, <1>6, <2>1
      <4>2. d[l] = s
        BY <1>3, <2>2
      <4>3. p1 < s
        OBVIOUS
      <4> QED BY <4>1, <4>2, <4>3
    <3> QED BY <3>1
  <2>3. CASE l \in 1..m
    <3>1. Rising(c, m)
      BY <1>1 DEF SlidesAt
    <3> QED BY <1>3, <2>1, <2>3, <3>1 DEF Rising
  <2> QED BY <1>5, <2>2, <2>3
<1>9. ASSUME NEW k \in 1..m
      PROVE  d[k + 1] = f[k] + 1 \/ (d[k + 1] = f[k] + 2 /\ t[f[k] + 1] = "TRIPLE_MINUS")
  <2>1. CASE k = m
    <3>1. f[k] = p1 /\ d[k + 1] = s
      BY <1>1, <1>3, <2>1 DEF SlidesAt
    <3> QED BY <3>1
  <2>2. CASE k # m
    <3>1. k \in 1..(m - 1) /\ k + 1 \in 1..m
      BY <2>2
    <3>2. d[k + 1] = c[k + 1] /\ f[k] = e[k]
      BY <1>3, <3>1
    <3>3. c[k + 1] = e[k] + 1 \/ (c[k + 1] = e[k] + 2 /\ t[e[k] + 1] = "TRIPLE_MINUS")
      BY <1>1, <3>1, Zenon DEF SlidesAt
    <3> QED BY <3>2, <3>3
  <2> QED BY <2>1, <2>2
<1>10. {p \in 1..p2 : OpensSlide(t, p)} = {d[k] : k \in 1..(m + 1)}
  <2>1. {p \in 1..p1 : OpensSlide(t, p)} = {c[k] : k \in 1..m}
    BY <1>1 DEF SlidesAt
  <2>2. {d[k] : k \in 1..(m + 1)} = {c[k] : k \in 1..m} \cup {s}
    <3>1. m + 1 \in 1..(m + 1) /\ \A k \in 1..m : k \in 1..(m + 1)
      OBVIOUS
    <3> QED BY <1>3, <1>5, <3>1
  <2>3. {p \in 1..p2 : OpensSlide(t, p)} = {p \in 1..p1 : OpensSlide(t, p)} \cup {s}
    <3>1. \A p \in 1..p2 : p \in 1..p1 \/ p \in s..p2 \/ (p = p1 + 1 /\ s = p1 + 2)
      BY <1>2
    <3>2. s = p1 + 2 => ~OpensSlide(t, p1 + 1)
      <4>1. s = p1 + 2 => t[p1 + 1] = "TRIPLE_MINUS"
        OBVIOUS
      <4> QED BY <4>1, HeaderKinds DEF OpensSlide
    <3>3. s \in 1..p2 /\ s \in s..p2 /\ \A p \in 1..p1 : p \in 1..p2
      BY <1>2
    <3> QED BY <1>2, <3>1, <3>2, <3>3
  <2> QED BY <2>1, <2>2, <2>3
<1>11. SlidesAt(t, p2, m + 1, d, f, v)
  <2>1. \A k \in 1..(m + 1 - 1) :
          d[k + 1] = f[k] + 1 \/ (d[k + 1] = f[k] + 2 /\ t[f[k] + 1] = "TRIPLE_MINUS")
    <3>1. m + 1 - 1 = m
      OBVIOUS
    <3> QED BY <1>9, <3>1
  <2>2. \A k \in 1..(m + 1) : d[k] \in 1..p2 /\ f[k] \in 1..p2 /\ SlideOf(t, d[k], f[k], v[k])
    BY <1>7
  <2> QED BY <1>3, <1>8, <1>10, <2>1, <2>2 DEF SlidesAt
<1>12. m + 1 \in Nat \ {0}
  OBVIOUS
<1> QED BY <1>4, <1>11, <1>12, Zenon DEF SlidesOf

LEMMA NextSlideMeans ==
  ASSUME NEW t, NEW i, NEW p1, NEW p2, NEW v1, NEW v2,
         Denotes(t, "slides", i, p1, v1), Denotes(t, "slide", p1 + 1, p2, v2)
  PROVE  Denotes(t, "slides", i, p2, Append(v1, v2))
<1>1. i = 1 /\ p1 \in Nat /\ SlidesOf(t, p1, v1)
  BY SlidesDenote
<1>2. p1 + 1 \in Nat /\ p2 \in Nat /\ SlideOf(t, p1 + 1, p2, v2)
  BY SlideDenotes
<1>3. SlidesOf(t, p2, Append(v1, v2))
  BY <1>1, <1>2, MoreSlides
<1> QED BY <1>1, <1>2, <1>3, SlidesDenoted

LEMMA SeparatedSlideMeans ==
  ASSUME NEW t, NEW i, NEW p1, NEW p2, NEW p3, NEW v1, NEW v2, NEW v3,
         Denotes(t, "slides", i, p1, v1), Denotes(t, "TRIPLE_MINUS", p1 + 1, p2, v2),
         Denotes(t, "slide", p2 + 1, p3, v3)
  PROVE  Denotes(t, "slides", i, p3, Append(v1, v3))
<1>1. i = 1 /\ p1 \in Nat /\ SlidesOf(t, p1, v1)
  BY SlidesDenote
<1>2. p2 = p1 + 1 /\ t[p2] = "TRIPLE_MINUS"
  BY HeaderKinds, TokenAt
<1>3. p2 + 1 \in Nat /\ p3 \in Nat /\ SlideOf(t, p2 + 1, p3, v3)
  BY SlideDenotes
<1>4. p2 + 1 = p1 + 2 /\ t[p1 + 1] = "TRIPLE_MINUS"
  BY <1>1, <1>2
<1>5. SlidesOf(t, p3, Append(v1, v3))
  BY <1>1, <1>3, <1>4, MoreSlides
<1> QED BY <1>1, <1>3, <1>5, SlidesDenoted

LEMMA ProgramMeans ==
  ASSUME NEW t, NEW i, NEW p1, NEW v1, Denotes(t, "slides", i, p1, v1)
  PROVE  Denotes(t, "program", i, p1, v1)
<1>1. i = 1 /\ p1 \in Nat /\ SlidesOf(t, p1, v1)
  BY SlidesDenote
<1> QED BY <1>1, SlidesDenoted

(***************************************************************************)
(* What the slides of the whole input denote is its document.              *)
(***************************************************************************)
\* A part of the input ends at j: what follows, if anything, begins a phrase.
EndsAt(t, j) == j = Len(t) \/ (j + 1 \in 1..Len(t) /\ t[j + 1] \in PhraseStart)

\* The places of the input.
LEMMA DomainOf ==
  ASSUME NEW t \in Seq(Labels)
  PROVE  DOMAIN t = 1..Len(t) /\ Len(t) \in Nat
BY LenProperties

\* The phrase that begins at i ends at j.
LEMMA PhraseEnds ==
  ASSUME NEW t \in Seq(Labels), NEW i \in Nat \ {0}, NEW j \in i..Len(t),
         \A p \in (i + 1)..j : t[p] \notin PhraseStart, EndsAt(t, j)
  PROVE  EndOf(t, i, PhraseStarts(t)) = j
<1>1. \A p \in (i + 1)..j : p \notin PhraseStarts(t)
  BY DEF PhraseStarts
<1>2. j = Len(t) \/ j + 1 \in PhraseStarts(t)
  BY DomainOf DEF EndsAt, PhraseStarts
<1>3. i \in Nat
  OBVIOUS
<1> QED BY <1>1, <1>2, <1>3, EndOfIs

\* The items of a part of the input that ends at j.
LEMMA ItemsOrdered ==
  ASSUME NEW t, NEW i, NEW j, NEW n \in Nat, NEW b, NEW v, ItemsAt(t, i, j, n, b, v)
  PROVE  Ordered({p \in i..j : t[p] \in ItemStart}) = [k \in 1..n |-> b[k]]
<1>1. \A k \in 1..n : b[k] \in Int /\ t[b[k]] \in ItemStart
  <2>1. \A k \in 1..n : k \in 1..(n + 1)
    OBVIOUS
  <2> QED BY <2>1 DEF ItemsAt
<1>2. Rising(b, n)
  <2>1. \A k \in 1..n : k \in 1..(n + 1)
    OBVIOUS
  <2> QED BY <2>1 DEF ItemsAt, Rising
<1>3. {p \in i..j : t[p] \in ItemStart} = {b[k] : k \in 1..n}
  <2>1. {p \in i..j : t[p] \in PhraseStart} = {b[k] : k \in 1..n}
    BY DEF ItemsAt
  <2> QED BY <2>1, <1>1, HeaderKinds
<1> QED BY <1>1, <1>2, <1>3, OrderedIs

\* The items of a part end one before the next, the last with the part.
LEMMA ItemsEnd ==
  ASSUME NEW t \in Seq(Labels), NEW i \in Nat \ {0}, NEW j \in 0..Len(t), i <= j + 1,
         NEW n \in Nat, NEW b, NEW v, ItemsAt(t, i, j, n, b, v), EndsAt(t, j),
         NEW k \in 1..n
  PROVE  EndOf(t, b[k], PhraseStarts(t)) = b[k + 1] - 1
<1>1. k \in 1..(n + 1) /\ k + 1 \in 1..(n + 1) /\ n + 1 \in 1..(n + 1) /\ 1 \in 1..(n + 1)
  OBVIOUS
<1>2. /\ b[1] = i /\ b[n + 1] = j + 1 /\ Rising(b, n + 1)
      /\ \A l \in 1..(n + 1) : b[l] \in Nat
      /\ {p \in i..j : t[p] \in PhraseStart} = {b[l] : l \in 1..n}
  BY DEF ItemsAt
<1>3. \A l \in 1..(n + 1) : i <= b[l] /\ b[l] <= j + 1
  <2> SUFFICES ASSUME NEW l \in 1..(n + 1) PROVE i <= b[l] /\ b[l] <= j + 1
    OBVIOUS
  <2>1. (l = 1 \/ 1 < l) /\ (l = n + 1 \/ l < n + 1)
    OBVIOUS
  <2>2. b[l] \in Nat /\ (l = 1 \/ b[1] < b[l]) /\ (l = n + 1 \/ b[l] < b[n + 1])
    BY <1>1, <1>2, <2>1 DEF Rising
  <2>3. j + 1 \in Nat
    BY DomainOf
  <2> QED BY <1>2, <2>2, <2>3
<1>4. b[k] < b[k + 1]
  BY <1>1, <1>2 DEF Rising
<1>5. ASSUME NEW p \in (b[k] + 1)..(b[k + 1] - 1) PROVE t[p] \notin PhraseStart
  <2>1. p \in i..j
    BY <1>1, <1>2, <1>3
  <2>2. ASSUME NEW l \in 1..n, p = b[l] PROVE FALSE
    <3>1. b[k] < b[l] /\ b[l] < b[k + 1]
      BY <1>1, <1>2, <2>2
    <3>2. l \in 1..(n + 1)
      OBVIOUS
    <3>3. ~(l < k) /\ l # k
      BY <1>1, <1>2, <3>1, <3>2 DEF Rising
    <3>4. ~(k + 1 < l) /\ l # k + 1
      BY <1>1, <1>2, <3>1, <3>2 DEF Rising
    <3> QED BY <3>3, <3>4
  <2> QED BY <1>2, <2>1, <2>2
<1>6. EndsAt(t, b[k + 1] - 1)
  <2>1. CASE k = n
    <3>1. b[k + 1] - 1 = j
      BY <1>2, <2>1
    <3> QED BY <3>1
  <2>2. CASE k # n
    <3>1. k + 1 \in 1..n /\ b[k + 1] - 1 + 1 = b[k + 1] /\ b[k + 1] \in 1..Len(t)
      <4>1. k + 1 \in 1..n /\ k + 1 < n + 1
        BY <2>2
      <4>2. i <= b[k + 1] /\ b[k + 1] < j + 1 /\ b[k + 1] \in Nat
        BY <1>1, <1>2, <1>3, <4>1 DEF Rising
      <4> QED BY <4>1, <4>2, DomainOf
    <3>2. t[b[k + 1]] \in PhraseStart
      BY <1>2, <3>1
    <3> QED BY <3>1, <3>2 DEF EndsAt
  <2> QED BY <2>1, <2>2
<1>7. b[k] \in Nat \ {0} /\ b[k + 1] - 1 \in b[k]..Len(t)
  BY <1>1, <1>2, <1>3, <1>4, DomainOf
<1> QED BY <1>5, <1>6, <1>7, PhraseEnds

\* The items at the positions s, each up to the end of its phrase.
ItemsFrom(t, s) == [k \in DOMAIN s |-> ItemIn(t, s[k], EndOf(t, s[k], PhraseStarts(t)))]

\* The items of the slide i..j, among the phrases up to the next slide's.
LEMMA ItemsAre ==
  ASSUME NEW t \in Seq(Labels), NEW i \in Nat \ {0}, NEW g \in Nat, NEW j \in 0..Len(t), NEW last \in Nat,
         i <= g, g <= j + 1, \A p \in i..(g - 1) : t[p] \notin ItemStart,
         j <= last, \A p \in (j + 1)..last : t[p] \notin ItemStart,
         NEW v, ItemsOf(t, g, j, v), EndsAt(t, j),
         NEW s, s = Ordered({p \in i..last : t[p] \in ItemStart})
  PROVE  ItemsFrom(t, s) = v
<1> PICK n \in Nat : \E b : ItemsAt(t, g, j, n, b, v)
  BY DEF ItemsOf
<1>1. PICK b : ItemsAt(t, g, j, n, b, v)
  OBVIOUS
<1>2. {p \in i..last : t[p] \in ItemStart} = {p \in g..j : t[p] \in ItemStart}
  <2>1. \A p \in i..last : p \in i..(g - 1) \/ p \in g..j \/ p \in (j + 1)..last
    OBVIOUS
  <2>2. \A p \in g..j : p \in i..last
    OBVIOUS
  <2> QED BY <2>1, <2>2
<1>3. s = [k \in 1..n |-> b[k]]
  BY <1>1, <1>2, ItemsOrdered
<1>4. DOMAIN s = 1..n /\ \A k \in 1..n : s[k] = b[k]
  BY <1>3
<1>5. \A k \in 1..n : EndOf(t, b[k], PhraseStarts(t)) = b[k + 1] - 1
  <2>1. g \in Nat \ {0}
    OBVIOUS
  <2> QED BY <1>1, <2>1, ItemsEnd
<1>6. v = [k \in 1..n |-> ItemIn(t, b[k], b[k + 1] - 1)]
  BY <1>1 DEF ItemsAt
<1>7. \A k \in 1..n : ItemIn(t, s[k], EndOf(t, s[k], PhraseStarts(t))) = ItemIn(t, b[k], b[k + 1] - 1)
  BY <1>4, <1>5
<1> QED BY <1>4, <1>6, <1>7, Zenon DEF ItemsFrom

\* A slide with a header, and what its header says.
LEMMA HasHeader ==
  ASSUME NEW t, NEW i \in Nat \ {0}, NEW h \in Nat, i < h, t[i] = "HASH",
         \A p \in (i + 1)..h : t[p] \notin PhraseStart
  PROVE  Labelled(t, i, h, "HASH") = i + 1
<1>1. {k \in i..h : t[k] = "HASH"} = {i}
  <2>1. \A p \in i..h : p = i \/ p \in (i + 1)..h
    OBVIOUS
  <2>2. i \in i..h
    OBVIOUS
  <2> QED BY <2>1, <2>2, HeaderKinds
<1> QED BY <1>1, LabelledIs

(***************************************************************************)
(* The slide i..j, when the next begins after last.                        *)
(***************************************************************************)
LEMMA SlideIs ==
  ASSUME NEW t \in Seq(Labels), NEW i \in Nat \ {0}, NEW j \in 1..Len(t), NEW last \in Nat,
         j <= last, \A p \in (j + 1)..last : t[p] \notin ItemStart,
         EndOf(t, i, SlideStarts(t)) = last, EndsAt(t, j),
         NEW v, SlideOf(t, i, j, v)
  PROVE  SlideAt(t, i) = v
<1>0. PICK s : s = Ordered({p \in i..last : t[p] \in ItemStart})
  OBVIOUS
<1> DEFINE e == EndOf(t, i, PhraseStarts(t))
           own == ItemsFrom(t, s)
<1>1. SlideAt(t, i) = [title |-> Labelled(t, i, e, "HASH"),
                       subtitle |-> Labelled(t, i, e, "DOUBLE_HASH"),
                       id |-> Labelled(t, i, e, "AT_ID"), items |-> own]
  BY <1>0 DEF SlideAt, ItemsFrom
<1> HIDE DEF e, own
<1>2. Len(t) \in Nat
  BY DomainOf
<1>3. CASE TitledOf(t, i, j, v)
  <2>1. PICK h \in Nat : TitledAt(t, i, j, h, v)
    BY <1>3 DEF TitledOf
  <2>2. /\ t[i] = "HASH" /\ h \in (i + 1)..j
        /\ \A p \in (i + 1)..h : t[p] \notin PhraseStart
        /\ ItemsOf(t, h + 1, j, v.items)
        /\ v = [title |-> i + 1, subtitle |-> Labelled(t, i, h, "DOUBLE_HASH"),
                id |-> Labelled(t, i, h, "AT_ID"), items |-> v.items]
    BY <2>1, Zenon DEF TitledAt
  <2>3. EndsAt(t, h)
    <3> PICK n \in Nat : \E b : ItemsAt(t, h + 1, j, n, b, v.items)
      BY <2>2 DEF ItemsOf
    <3>1. PICK b : ItemsAt(t, h + 1, j, n, b, v.items)
      OBVIOUS
    <3>2. b[1] = h + 1 /\ b[n + 1] = j + 1 /\ \A k \in 1..n : t[b[k]] \in ItemStart
      BY <3>1 DEF ItemsAt
    <3>3. CASE n = 0
      <4>1. h = j
        BY <2>2, <3>2, <3>3
      <4> QED BY <4>1
    <3>4. CASE n # 0
      <4>1. 1 \in 1..n /\ b[1] \in Nat
        BY <3>2, <3>4
      <4>2. t[h + 1] \in PhraseStart
        BY <3>2, <4>1, HeaderKinds
      <4>3. h + 1 <= j + 1
        BY <2>2
      <4>4. h # j
        <5> SUFFICES ASSUME h = j PROVE FALSE
          OBVIOUS
        <5>1. 1 \in 1..(n + 1) /\ n + 1 \in 1..(n + 1) /\ 1 < n + 1 /\ Rising(b, n + 1)
          BY <3>1, <3>4 DEF ItemsAt
        <5>2. b[1] < b[n + 1] /\ b[1] = b[n + 1]
          BY <3>2, <5>1 DEF Rising
        <5> QED BY <3>2, <4>1, <5>2
      <4> QED BY <1>2, <2>2, <4>2, <4>4 DEF EndsAt
    <3> QED BY <3>3, <3>4
  <2>4. e = h
    <3>1. h \in i..Len(t)
      BY <1>2, <2>2
    <3> QED BY <2>2, <2>3, <3>1, PhraseEnds DEF e
  <2>5. own = v.items
    <3>1. h + 1 \in Nat /\ i <= h + 1 /\ h + 1 <= j + 1 /\ j \in 0..Len(t)
      BY <2>2
    <3>2. \A p \in i..(h + 1 - 1) : t[p] \notin ItemStart
      <4>1. \A p \in i..(h + 1 - 1) : p = i \/ p \in (i + 1)..h
        BY <2>2
      <4> QED BY <2>2, <4>1, HeaderKinds
    <3> QED BY <1>0, <2>2, <3>1, <3>2, ItemsAre DEF own
  <2>6. Labelled(t, i, h, "HASH") = i + 1
    <3>1. i < h
      BY <2>2
    <3> QED BY <2>2, <3>1, HasHeader
  <2> QED BY <1>1, <2>2, <2>4, <2>5, <2>6, Zenon
<1>4. CASE UntitledOf(t, i, j, v)
  <2>1. /\ i <= j /\ OpensSlide(t, i) /\ ItemsOf(t, i, j, v.items)
        /\ v = [title |-> 0, subtitle |-> 0, id |-> 0, items |-> v.items]
    BY <1>4, Zenon DEF UntitledOf
  <2> PICK n \in Nat : \E b : ItemsAt(t, i, j, n, b, v.items)
    BY <2>1 DEF ItemsOf
  <2>2. PICK b : ItemsAt(t, i, j, n, b, v.items)
    OBVIOUS
  <2>3. /\ b[1] = i /\ b[n + 1] = j + 1 /\ Rising(b, n + 1)
        /\ \A k \in 1..(n + 1) : b[k] \in Nat
        /\ \A k \in 1..n : t[b[k]] \in ItemStart
        /\ \A p \in i..j : t[p] \notin HeaderMarks
        /\ {p \in i..j : t[p] \in PhraseStart} = {b[k] : k \in 1..n}
    BY <2>2 DEF ItemsAt
  <2>4. n # 0
    BY <2>1, <2>3
  <2>5. 1 \in 1..n /\ 1 \in 1..(n + 1) /\ 2 \in 1..(n + 1) /\ n + 1 \in 1..(n + 1) /\ 1 + 1 = 2
    BY <2>4
  <2>6. e = b[2] - 1
    <3>1. j \in 0..Len(t) /\ i <= j + 1
      BY <2>1
    <3> QED BY <2>2, <2>3, <2>5, <3>1, ItemsEnd DEF e
  <2>7. b[2] \in Nat /\ b[2] <= j + 1
    <3>1. b[2] \in Nat
      BY <2>3, <2>5
    <3>2. CASE n = 1
      <4>1. n + 1 = 2
        BY <3>2
      <4> QED BY <2>3, <3>1, <4>1
    <3>3. CASE n # 1
      <4>1. 2 < n + 1
        BY <2>4, <3>3
      <4>2. b[2] < b[n + 1]
        BY <2>3, <2>5, <4>1 DEF Rising
      <4> QED BY <2>3, <3>1, <4>2
    <3> QED BY <3>1, <3>2, <3>3
  <2>8. \A p \in i..e : t[p] # "HASH" /\ t[p] # "DOUBLE_HASH" /\ t[p] # "AT_ID"
    <3>1. \A p \in i..e : p \in i..j
      BY <2>6, <2>7
    <3>2. \A p \in i..j : t[p] \in PhraseStart => t[p] \in ItemStart
      BY <2>3
    <3> QED BY <2>3, <3>1, <3>2, HeaderKinds DEF HeaderMarks
  <2>9. /\ Labelled(t, i, e, "HASH") = 0 /\ Labelled(t, i, e, "DOUBLE_HASH") = 0
        /\ Labelled(t, i, e, "AT_ID") = 0
    <3>1. /\ {p \in i..e : t[p] = "HASH"} = {} /\ {p \in i..e : t[p] = "DOUBLE_HASH"} = {}
          /\ {p \in i..e : t[p] = "AT_ID"} = {}
      BY <2>8
    <3> QED BY <3>1, LabelledNot
  <2>10. own = v.items
    <3>1. PICK g \in Nat : g = i
      OBVIOUS
    <3>2. i <= g /\ g <= j + 1 /\ j \in 0..Len(t) /\ ItemsOf(t, g, j, v.items)
      BY <2>1, <3>1
    <3>3. \A p \in i..(g - 1) : t[p] \notin ItemStart
      BY <3>1
    <3> QED BY <1>0, <3>2, <3>3, ItemsAre DEF own
  <2> QED BY <1>1, <2>1, <2>9, <2>10, Zenon
<1> QED BY <1>3, <1>4 DEF SlideOf

\* What slides denotes from the beginning to the end of the input is its
\* document.
LEMMA DocumentIs ==
  ASSUME NEW t \in Seq(Labels), NEW v, SlidesOf(t, Len(t), v)
  PROVE  v = Document(t)
<1> DEFINE L == Len(t)
<1> PICK m \in Nat \ {0} : \E c, e : SlidesAt(t, L, m, c, e, v)
  BY DEF SlidesOf
<1>1. PICK c, e : SlidesAt(t, L, m, c, e, v)
  OBVIOUS
<1>2. /\ \A k \in 1..m : c[k] \in 1..L /\ e[k] \in 1..L /\ SlideOf(t, c[k], e[k], v[k])
      /\ e[m] = L /\ Rising(c, m)
      /\ \A k \in 1..(m - 1) :
           \/ c[k + 1] = e[k] + 1
           \/ c[k + 1] = e[k] + 2 /\ t[e[k] + 1] = "TRIPLE_MINUS"
      /\ {p \in 1..L : OpensSlide(t, p)} = {c[k] : k \in 1..m}
  BY <1>1 DEF SlidesAt
<1>3. v = [k \in 1..m |-> v[k]]
  BY <1>1, Zenon DEF SlidesAt
<1>4. DOMAIN t = 1..L /\ L \in Nat
  BY DomainOf
<1> HIDE DEF L
<1>5. SlideStarts(t) = {c[k] : k \in 1..m}
  BY <1>2, <1>4 DEF SlideStarts
<1>6. Ordered(SlideStarts(t)) = [k \in 1..m |-> c[k]]
  <2>1. \A k \in 1..m : c[k] \in Int
    BY <1>2, <1>4
  <2> QED BY <1>2, <1>5, <2>1, OrderedIs
<1>7. ASSUME NEW k \in 1..m PROVE SlideAt(t, c[k]) = v[k]
  <2>1. c[k] \in Nat \ {0} /\ e[k] \in 1..L /\ SlideOf(t, c[k], e[k], v[k])
    BY <1>2, <1>4
  <2>2. c[k] <= e[k] /\ \A p \in c[k]..e[k] : OpensSlide(t, p) <=> p = c[k]
    <3>1. e[k] \in Nat
      BY <1>4, <2>1
    <3> QED BY <2>1, <3>1, OpensOnce
  <2>3. ASSUME NEW last \in e[k]..L, \A p \in (e[k] + 1)..last : t[p] = "TRIPLE_MINUS",
               last = L \/ last + 1 \in SlideStarts(t), EndsAt(t, e[k])
        PROVE  SlideAt(t, c[k]) = v[k]
    <3>1. \A p \in (c[k] + 1)..last : p \notin SlideStarts(t)
      <4> SUFFICES ASSUME NEW p \in (c[k] + 1)..last PROVE ~OpensSlide(t, p)
        BY DEF SlideStarts
      <4>1. p \in c[k]..e[k] \/ p \in (e[k] + 1)..last
        BY <2>1, <2>2
      <4>2. p # c[k]
        BY <2>1
      <4> QED BY <2>2, <2>3, <4>1, <4>2, HeaderKinds DEF OpensSlide
    <3>2. last \in c[k]..Len(t) /\ c[k] \in Nat
      BY <1>4, <2>1, <2>2 DEF L
    <3>3. EndOf(t, c[k], SlideStarts(t)) = last
      BY <2>3, <3>1, <3>2, EndOfIs DEF L
    <3>4. last \in Nat /\ e[k] <= last /\ e[k] \in 1..Len(t)
      BY <1>4, <2>1 DEF L
    <3>5. \A p \in (e[k] + 1)..last : t[p] \notin ItemStart
      BY <2>3, HeaderKinds
    <3> QED BY <2>1, <2>3, <3>3, <3>4, <3>5, SlideIs
  <2>4. CASE k = m
    <3>1. e[k] = L /\ L \in e[k]..L /\ EndsAt(t, e[k])
      BY <1>2, <1>4, <2>4 DEF EndsAt, L
    <3>2. \A p \in (e[k] + 1)..L : t[p] = "TRIPLE_MINUS"
      BY <3>1, <1>4
    <3> QED BY <2>3, <3>1, <3>2
  <2>5. CASE k # m
    <3>1. k \in 1..(m - 1) /\ k + 1 \in 1..m
      BY <2>5
    <3>2. c[k + 1] \in SlideStarts(t) /\ c[k + 1] \in 1..L /\ OpensSlide(t, c[k + 1])
      BY <1>2, <1>5, <3>1 DEF SlideStarts
    <3>3. CASE c[k + 1] = e[k] + 1
      <4>1. e[k] \in e[k]..L /\ \A p \in (e[k] + 1)..e[k] : t[p] = "TRIPLE_MINUS"
        BY <1>4, <2>1
      <4>2. e[k] + 1 \in 1..Len(t) /\ t[e[k] + 1] \in PhraseStart
        BY <3>2, <3>3, HeaderKinds DEF OpensSlide, L
      <4> QED BY <2>3, <3>2, <3>3, <4>1, <4>2 DEF EndsAt
    <3>4. CASE c[k + 1] = e[k] + 2 /\ t[e[k] + 1] = "TRIPLE_MINUS"
      <4>1. e[k] + 1 \in e[k]..L /\ e[k] + 1 \in 1..L /\ e[k] + 1 + 1 = c[k + 1]
        BY <1>4, <2>1, <3>2, <3>4
      <4>2. \A p \in (e[k] + 1)..(e[k] + 1) : t[p] = "TRIPLE_MINUS"
        BY <1>4, <2>1, <3>4
      <4>3. EndsAt(t, e[k])
        BY <3>4, <4>1, HeaderKinds DEF EndsAt, L
      <4> QED BY <2>3, <3>2, <4>1, <4>2, <4>3
    <3>5. \/ c[k + 1] = e[k] + 1
          \/ c[k + 1] = e[k] + 2 /\ t[e[k] + 1] = "TRIPLE_MINUS"
      BY <1>2, <3>1
    <3> QED BY <3>3, <3>4, <3>5
  <2> QED BY <2>4, <2>5
<1>8. Document(t) = [k \in 1..m |-> SlideAt(t, c[k])]
  <2> DEFINE starts == [k \in 1..m |-> c[k]]
  <2>1. DOMAIN starts = 1..m /\ \A k \in 1..m : starts[k] = c[k]
    OBVIOUS
  <2>2. Document(t) = [k \in DOMAIN starts |-> SlideAt(t, starts[k])]
    BY <1>6 DEF Document
  <2> HIDE DEF starts
  <2> QED BY <2>1, <2>2
<1> QED BY <1>3, <1>7, <1>8

-----------------------------------------------------------------------------

(***************************************************************************)
(* The productions and the values their actions build.                     *)
(***************************************************************************)
\* Two lists of productions, one after the other.
LEMMA Concatenated ==
  ASSUME NEW n \in Nat, NEW m \in Nat, NEW a, NEW b,
         a = [r \in 1..n |-> a[r]], b = [r \in 1..m |-> b[r]]
  PROVE  /\ DOMAIN (a \o b) = 1..(n + m) /\ \A r \in 1..n : (a \o b)[r] = a[r]
         /\ \A r \in 1..m : (a \o b)[n + r] = b[r]
<1>1. PICK S : S = {a[r] : r \in 1..n} \cup {b[r] : r \in 1..m}
  OBVIOUS
<1>2. a \in [1..n -> S] /\ b \in [1..m -> S]
  BY <1>1
<1>3. a \in Seq(S) /\ b \in Seq(S) /\ Len(a) = n /\ Len(b) = m
  BY <1>2
<1>4. /\ Len(a \o b) = Len(a) + Len(b) /\ a \o b \in Seq(S)
      /\ \A i \in 1..(Len(a) + Len(b)) : (a \o b)[i] = IF i <= Len(a) THEN a[i] ELSE b[i - Len(a)]
  BY <1>3, ConcatProperties
<1>5. \A r \in 1..n : r \in 1..(n + m) /\ r <= n
  OBVIOUS
<1>6. \A r \in 1..m : n + r \in 1..(n + m) /\ ~(n + r <= n) /\ n + r - n = r
  OBVIOUS
<1> QED BY <1>3, <1>4, <1>5, <1>6, LenProperties

\* The productions by their numbers.
LEMMA RulesAre ==
  /\ DOMAIN Rules = 1..41
  /\ \A r \in 1..19 : Rules[r] = StructureRules[r]
  /\ \A r \in 1..22 : Rules[19 + r] = ItemRules[r]
<1>1. /\ StructureRules = [r \in 1..19 |-> StructureRules[r]] /\ Len(StructureRules) = 19
      /\ ItemRules = [r \in 1..22 |-> ItemRules[r]] /\ Len(ItemRules) = 22
  BY DEF StructureRules, ItemRules
<1>2. PICK a : a = StructureRules
  OBVIOUS
<1>3. PICK b : b = ItemRules
  OBVIOUS
<1>4. /\ a = [r \in 1..19 |-> a[r]] /\ Len(a) = 19 /\ 19 \in Nat
      /\ b = [r \in 1..22 |-> b[r]] /\ Len(b) = 22 /\ 22 \in Nat
  BY <1>1, <1>2, <1>3
<1>5. /\ DOMAIN (a \o b) = 1..(19 + 22) /\ \A r \in 1..19 : (a \o b)[r] = a[r]
      /\ \A r \in 1..22 : (a \o b)[19 + r] = b[r]
  BY <1>4, Concatenated
<1>6. Rules = a \o b /\ 19 + 22 = 41
  BY <1>2, <1>3 DEF Rules
<1> QED BY <1>2, <1>3, <1>5, <1>6

\* The value a production builds, by its action.
LEMMA ValueIs ==
  ASSUME NEW r, NEW lhs, NEW rhs, NEW op, NEW uses, NEW allocs,
         Rules[r] = Rule(lhs, rhs, op, uses, allocs),
         NEW args, args = [j \in DOMAIN uses |-> Val(r, uses[j])]
  PROVE  /\ op = "null" => ValueOf(r) = 0
         /\ op \in {"move", "program"} => ValueOf(r) = args[1]
         /\ op = "list" => ValueOf(r) = args
         /\ op = "append" => ValueOf(r) = Append(args[1], args[2])
         /\ op = "item" => ValueOf(r) = [type |-> rhs[1], node |-> args[1]]
         /\ op = "noExtras" => ValueOf(r) = [subtitle |-> 0, id |-> 0]
         /\ op = "subtitle" => ValueOf(r) = [subtitle |-> args[1], id |-> 0]
         /\ op = "id" => ValueOf(r) = [subtitle |-> 0, id |-> args[1]]
         /\ op = "both" => ValueOf(r) = [subtitle |-> args[1], id |-> args[2]]
         /\ op = "slide" => ValueOf(r) = [title |-> args[1], subtitle |-> args[2].subtitle,
                                          id |-> args[2].id, items |-> args[3]]
         /\ op = "untitled" => ValueOf(r) = [title |-> 0, subtitle |-> 0, id |-> 0, items |-> args[1]]
         /\ op = "link" => ValueOf(r) = [kind |-> "link", args |-> IF Val(r, 3) = 0 THEN <<args[2], args[2]>> ELSE args]
         /\ op \in {"bullet", "numbered", "image", "code", "note", "block"} =>
              ValueOf(r) = [kind |-> op, args |-> args]
<1>1. /\ Rules[r].lhs = lhs /\ Rules[r].rhs = rhs /\ Rules[r].op = op /\ Rules[r].uses = uses
  BY DEF Rule
<1> QED BY <1>1 DEF ValueOf, OneString, Appended

\* The arguments an action takes from the handle.
LEMMA OneArgument ==
  ASSUME NEW r, NEW a
  PROVE  [j \in DOMAIN <<a>> |-> Val(r, <<a>>[j])] = <<Val(r, a)>>
OBVIOUS
LEMMA TwoArguments ==
  ASSUME NEW r, NEW a, NEW b
  PROVE  [j \in DOMAIN <<a, b>> |-> Val(r, <<a, b>>[j])] = <<Val(r, a), Val(r, b)>>
OBVIOUS
LEMMA ThreeArguments ==
  ASSUME NEW r, NEW a, NEW b, NEW c
  PROVE  [j \in DOMAIN <<a, b, c>> |-> Val(r, <<a, b, c>>[j])] = <<Val(r, a), Val(r, b), Val(r, c)>>
OBVIOUS
LEMMA NoArguments ==
  ASSUME NEW r
  PROVE  [j \in DOMAIN <<>> |-> Val(r, <<>>[j])] = <<>>
OBVIOUS

(***************************************************************************)
(* The tokens p[0] + 1 .. p[n] under a handle of n symbols: what each of   *)
(* the symbols denotes, and what the left-hand side then does.             *)
(***************************************************************************)
HandleMeans(t, r, p) ==
  /\ p[0] \in Nat
  /\ \A k \in 1..Len(Rules[r].rhs) :
       Denotes(t, Rules[r].rhs[k], p[k - 1] + 1, p[k], Val(r, k))

ResultMeans(t, r, p) ==
  Denotes(t, Rules[r].lhs, p[0] + 1, p[Len(Rules[r].rhs)], ValueOf(r))

\* The first slides begin the input, an untitled slide that or what follows a separator.
Placing(t, r, p) ==
  /\ Rules[r].lhs = "slides" => p[0] = 0 \/ Rules[r].rhs[1] = "slides"
  /\ Rules[r].lhs = "slideWithoutTitle" => p[0] = 0 \/ t[p[0]] = "TRIPLE_MINUS"

\* What is to be shown of a production, given its left-hand side.
LEMMA ResultIs ==
  ASSUME NEW t, NEW r, NEW p, NEW lhs, NEW rhs, NEW op, NEW uses, NEW allocs, NEW n, NEW v,
         Rules[r] = Rule(lhs, rhs, op, uses, allocs), Len(rhs) = n, ValueOf(r) = v,
         Denotes(t, lhs, p[0] + 1, p[n], v)
  PROVE  ResultMeans(t, r, p)
BY DEF ResultMeans, Rule
\* What the symbols of a handle of one to six symbols denote.
LEMMA HandleOne ==
  ASSUME NEW t, NEW r, NEW p, NEW lhs, NEW a, NEW op, NEW uses, NEW allocs,
         Rules[r] = Rule(lhs, <<a>>, op, uses, allocs), HandleMeans(t, r, p)
  PROVE  Denotes(t, a, p[0] + 1, p[1], Val(r, 1))
<1>1. Len(<<a>>) = 1 /\ <<a>>[1] = a
  OBVIOUS
<1> DEFINE rhs == <<a>>
<1> HIDE DEF rhs
<1>2. Len(rhs) = 1 /\ Rules[r].rhs = rhs
  BY <1>1 DEF rhs, Rule
<1>3. rhs[1] = a
  BY <1>1 DEF rhs
<1>4. ASSUME NEW k \in 1..1, NEW l, l = k - 1
      PROVE  Denotes(t, rhs[k], p[l] + 1, p[k], Val(r, k))
  BY <1>2, <1>4 DEF HandleMeans
<1>5. 1 \in 1..1 /\ 0 = 1 - 1
  OBVIOUS
<1> QED BY <1>3, <1>4, <1>5

LEMMA HandleTwo ==
  ASSUME NEW t, NEW r, NEW p, NEW lhs, NEW a, NEW b, NEW op, NEW uses, NEW allocs,
         Rules[r] = Rule(lhs, <<a, b>>, op, uses, allocs), HandleMeans(t, r, p)
  PROVE  /\ Denotes(t, a, p[0] + 1, p[1], Val(r, 1))
         /\ Denotes(t, b, p[1] + 1, p[2], Val(r, 2))
<1>1. Len(<<a, b>>) = 2 /\ <<a, b>>[1] = a /\ <<a, b>>[2] = b
  OBVIOUS
<1> DEFINE rhs == <<a, b>>
<1> HIDE DEF rhs
<1>2. Len(rhs) = 2 /\ Rules[r].rhs = rhs
  BY <1>1 DEF rhs, Rule
<1>3. rhs[1] = a /\ rhs[2] = b
  BY <1>1 DEF rhs
<1>4. ASSUME NEW k \in 1..2, NEW l, l = k - 1
      PROVE  Denotes(t, rhs[k], p[l] + 1, p[k], Val(r, k))
  BY <1>2, <1>4 DEF HandleMeans
<1>5. 1 \in 1..2 /\ 0 = 1 - 1 /\ 2 \in 1..2 /\ 1 = 2 - 1
  OBVIOUS
<1> QED BY <1>3, <1>4, <1>5

LEMMA HandleThree ==
  ASSUME NEW t, NEW r, NEW p, NEW lhs, NEW a, NEW b, NEW c, NEW op, NEW uses, NEW allocs,
         Rules[r] = Rule(lhs, <<a, b, c>>, op, uses, allocs), HandleMeans(t, r, p)
  PROVE  /\ Denotes(t, a, p[0] + 1, p[1], Val(r, 1))
         /\ Denotes(t, b, p[1] + 1, p[2], Val(r, 2))
         /\ Denotes(t, c, p[2] + 1, p[3], Val(r, 3))
<1>1. Len(<<a, b, c>>) = 3 /\ <<a, b, c>>[1] = a /\ <<a, b, c>>[2] = b /\ <<a, b, c>>[3] = c
  OBVIOUS
<1> DEFINE rhs == <<a, b, c>>
<1> HIDE DEF rhs
<1>2. Len(rhs) = 3 /\ Rules[r].rhs = rhs
  BY <1>1 DEF rhs, Rule
<1>3. rhs[1] = a /\ rhs[2] = b /\ rhs[3] = c
  BY <1>1 DEF rhs
<1>4. ASSUME NEW k \in 1..3, NEW l, l = k - 1
      PROVE  Denotes(t, rhs[k], p[l] + 1, p[k], Val(r, k))
  BY <1>2, <1>4 DEF HandleMeans
<1>5. 1 \in 1..3 /\ 0 = 1 - 1 /\ 2 \in 1..3 /\ 1 = 2 - 1 /\ 3 \in 1..3 /\ 2 = 3 - 1
  OBVIOUS
<1> QED BY <1>3, <1>4, <1>5

LEMMA HandleFour ==
  ASSUME NEW t, NEW r, NEW p, NEW lhs, NEW a, NEW b, NEW c, NEW d, NEW op, NEW uses, NEW allocs,
         Rules[r] = Rule(lhs, <<a, b, c, d>>, op, uses, allocs), HandleMeans(t, r, p)
  PROVE  /\ Denotes(t, a, p[0] + 1, p[1], Val(r, 1))
         /\ Denotes(t, b, p[1] + 1, p[2], Val(r, 2))
         /\ Denotes(t, c, p[2] + 1, p[3], Val(r, 3))
         /\ Denotes(t, d, p[3] + 1, p[4], Val(r, 4))
<1>1. Len(<<a, b, c, d>>) = 4 /\ <<a, b, c, d>>[1] = a /\ <<a, b, c, d>>[2] = b /\ <<a, b, c, d>>[3] = c /\ <<a, b, c, d>>[4] = d
  OBVIOUS
<1> DEFINE rhs == <<a, b, c, d>>
<1> HIDE DEF rhs
<1>2. Len(rhs) = 4 /\ Rules[r].rhs = rhs
  BY <1>1 DEF rhs, Rule
<1>3. rhs[1] = a /\ rhs[2] = b /\ rhs[3] = c /\ rhs[4] = d
  BY <1>1 DEF rhs
<1>4. ASSUME NEW k \in 1..4, NEW l, l = k - 1
      PROVE  Denotes(t, rhs[k], p[l] + 1, p[k], Val(r, k))
  BY <1>2, <1>4 DEF HandleMeans
<1>5. 1 \in 1..4 /\ 0 = 1 - 1 /\ 2 \in 1..4 /\ 1 = 2 - 1 /\ 3 \in 1..4 /\ 2 = 3 - 1 /\ 4 \in 1..4 /\ 3 = 4 - 1
  OBVIOUS
<1> QED BY <1>3, <1>4, <1>5

LEMMA HandleSix ==
  ASSUME NEW t, NEW r, NEW p, NEW lhs, NEW a, NEW b, NEW c, NEW d, NEW e, NEW f, NEW op, NEW uses, NEW allocs,
         Rules[r] = Rule(lhs, <<a, b, c, d, e, f>>, op, uses, allocs), HandleMeans(t, r, p)
  PROVE  /\ Denotes(t, a, p[0] + 1, p[1], Val(r, 1))
         /\ Denotes(t, b, p[1] + 1, p[2], Val(r, 2))
         /\ Denotes(t, c, p[2] + 1, p[3], Val(r, 3))
         /\ Denotes(t, d, p[3] + 1, p[4], Val(r, 4))
         /\ Denotes(t, e, p[4] + 1, p[5], Val(r, 5))
         /\ Denotes(t, f, p[5] + 1, p[6], Val(r, 6))
<1>1. Len(<<a, b, c, d, e, f>>) = 6 /\ <<a, b, c, d, e, f>>[1] = a /\ <<a, b, c, d, e, f>>[2] = b /\ <<a, b, c, d, e, f>>[3] = c /\ <<a, b, c, d, e, f>>[4] = d /\ <<a, b, c, d, e, f>>[5] = e /\ <<a, b, c, d, e, f>>[6] = f
  OBVIOUS
<1> DEFINE rhs == <<a, b, c, d, e, f>>
<1> HIDE DEF rhs
<1>2. Len(rhs) = 6 /\ Rules[r].rhs = rhs
  BY <1>1 DEF rhs, Rule
<1>3. rhs[1] = a /\ rhs[2] = b /\ rhs[3] = c /\ rhs[4] = d /\ rhs[5] = e /\ rhs[6] = f
  BY <1>1 DEF rhs
<1>4. ASSUME NEW k \in 1..6, NEW l, l = k - 1
      PROVE  Denotes(t, rhs[k], p[l] + 1, p[k], Val(r, k))
  BY <1>2, <1>4 DEF HandleMeans
<1>5. 1 \in 1..6 /\ 0 = 1 - 1 /\ 2 \in 1..6 /\ 1 = 2 - 1 /\ 3 \in 1..6 /\ 2 = 3 - 1 /\ 4 \in 1..6 /\ 3 = 4 - 1 /\ 5 \in 1..6 /\ 4 = 5 - 1 /\ 6 \in 1..6 /\ 5 = 6 - 1
  OBVIOUS
<1> QED BY <1>3, <1>4, <1>5

\* The actions that only give NULL or an empty list.
LEMMA NullIs ==
  ASSUME NEW r, NEW lhs, NEW rhs, NEW op, NEW uses, NEW allocs,
         Rules[r] = Rule(lhs, rhs, op, uses, allocs)
  PROVE  /\ op = "null" => ValueOf(r) = 0
         /\ op = "noExtras" => ValueOf(r) = [subtitle |-> 0, id |-> 0]
<1>1. Rules[r].op = op
  BY DEF Rule
<1> QED BY <1>1 DEF ValueOf

LEMMA EmptyListIs ==
  ASSUME NEW r, NEW lhs, NEW rhs, NEW allocs, Rules[r] = Rule(lhs, rhs, "list", <<>>, allocs)
  PROVE  ValueOf(r) = <<>>
<1>1. [j \in DOMAIN <<>> |-> Val(r, <<>>[j])] = <<>>
  BY NoArguments
<1>2. Rules[r].op = "list" /\ Rules[r].uses = <<>>
  BY DEF Rule
<1> QED BY <1>1, <1>2 DEF ValueOf

-----------------------------------------------------------------------------

(***************************************************************************)
(* Each production gives its left-hand side what that has to denote.       *)
(***************************************************************************)
\* Productions 2 to 19: the program, its slides, their headers and lists.
LEMMA StructureMeans ==
  ASSUME NEW t, NEW p, NEW r \in 2..19, HandleMeans(t, r, p), Placing(t, r, p)
  PROVE  ResultMeans(t, r, p)
<1>2. CASE r = 2
  <2>1. Rules[r] = Rule("program", <<"slides">>, "program", <<1>>, 1)
    BY <1>2, RulesAre DEF StructureRules
  <2>2. Denotes(t, "slides", p[0] + 1, p[1], Val(r, 1))
    BY <2>1, HandleOne
  <2>3. ValueOf(r) = Val(r, 1)
    <3>1. [j \in DOMAIN <<1>> |-> Val(r, <<1>>[j])] = <<Val(r, 1)>>
      BY OneArgument
    <3>2. <<Val(r, 1)>>[1] = Val(r, 1)
      OBVIOUS
    <3> QED BY <2>1, <3>1, <3>2, ValueIs
  <2>4. Denotes(t, "program", p[0] + 1, p[1], Val(r, 1))
    BY <2>2, ProgramMeans
  <2>5. Len(<<"slides">>) = 1
    OBVIOUS
  <2> QED BY <2>1, <2>3, <2>4, <2>5, ResultIs
<1>3. CASE r = 3
  <2>1. Rules[r] = Rule("slides", <<"optionalSeparator", "slide">>, "list", <<2>>, 1)
    BY <1>3, RulesAre DEF StructureRules
  <2>2. /\ Denotes(t, "optionalSeparator", p[0] + 1, p[1], Val(r, 1))
        /\ Denotes(t, "slide", p[1] + 1, p[2], Val(r, 2))
    BY <2>1, HandleTwo
  <2>3. ValueOf(r) = <<Val(r, 2)>>
    <3>1. [j \in DOMAIN <<2>> |-> Val(r, <<2>>[j])] = <<Val(r, 2)>>
      BY OneArgument
    <3> QED BY <2>1, <3>1, ValueIs
  <2>4. Denotes(t, "slides", p[0] + 1, p[2], <<Val(r, 2)>>)
    <3>1. p[0] + 1 = 1
      <4>1. Rules[r].lhs = "slides" /\ Rules[r].rhs[1] # "slides"
        BY <2>1 DEF Rule
      <4>2. p[0] = 0
        BY <4>1 DEF Placing
      <4> QED BY <4>2
    <3> QED BY <2>2, <3>1, FirstSlideMeans
  <2>5. Len(<<"optionalSeparator", "slide">>) = 2
    OBVIOUS
  <2> QED BY <2>1, <2>3, <2>4, <2>5, ResultIs
<1>4. CASE r = 4
  <2>1. Rules[r] = Rule("slides", <<"slides", "slide">>, "append", <<1, 2>>, 0)
    BY <1>4, RulesAre DEF StructureRules, Extend
  <2>2. /\ Denotes(t, "slides", p[0] + 1, p[1], Val(r, 1))
        /\ Denotes(t, "slide", p[1] + 1, p[2], Val(r, 2))
    BY <2>1, HandleTwo
  <2>3. ValueOf(r) = Append(Val(r, 1), Val(r, 2))
    <3>1. [j \in DOMAIN <<1, 2>> |-> Val(r, <<1, 2>>[j])] = <<Val(r, 1), Val(r, 2)>>
      BY TwoArguments
    <3>2. <<Val(r, 1), Val(r, 2)>>[1] = Val(r, 1) /\ <<Val(r, 1), Val(r, 2)>>[2] = Val(r, 2)
      OBVIOUS
    <3> QED BY <2>1, <3>1, <3>2, ValueIs
  <2>4. Denotes(t, "slides", p[0] + 1, p[2], Append(Val(r, 1), Val(r, 2)))
    BY <2>2, NextSlideMeans
  <2>5. Len(<<"slides", "slide">>) = 2
    OBVIOUS
  <2> QED BY <2>1, <2>3, <2>4, <2>5, ResultIs
<1>5. CASE r = 5
  <2>1. Rules[r] = Rule("slides", <<"slides", "TRIPLE_MINUS", "slide">>, "append", <<1, 3>>, 0)
    BY <1>5, RulesAre DEF StructureRules
  <2>2. /\ Denotes(t, "slides", p[0] + 1, p[1], Val(r, 1))
        /\ Denotes(t, "TRIPLE_MINUS", p[1] + 1, p[2], Val(r, 2))
        /\ Denotes(t, "slide", p[2] + 1, p[3], Val(r, 3))
    BY <2>1, HandleThree
  <2>3. ValueOf(r) = Append(Val(r, 1), Val(r, 3))
    <3>1. [j \in DOMAIN <<1, 3>> |-> Val(r, <<1, 3>>[j])] = <<Val(r, 1), Val(r, 3)>>
      BY TwoArguments
    <3>2. <<Val(r, 1), Val(r, 3)>>[1] = Val(r, 1) /\ <<Val(r, 1), Val(r, 3)>>[2] = Val(r, 3)
      OBVIOUS
    <3> QED BY <2>1, <3>1, <3>2, ValueIs
  <2>4. Denotes(t, "slides", p[0] + 1, p[3], Append(Val(r, 1), Val(r, 3)))
    BY <2>2, SeparatedSlideMeans
  <2>5. Len(<<"slides", "TRIPLE_MINUS", "slide">>) = 3
    OBVIOUS
  <2> QED BY <2>1, <2>3, <2>4, <2>5, ResultIs
<1>6. CASE r = 6
  <2>1. Rules[r] = Rule("optionalSeparator", <<>>, "null", <<>>, 0)
    BY <1>6, RulesAre DEF StructureRules, Null
  <2>2. p[0] \in Nat
    BY DEF HandleMeans
  <2>3. ValueOf(r) = 0
    BY <2>1, NullIs
  <2>4. Denotes(t, "optionalSeparator", p[0] + 1, p[0], 0)
    BY <2>2, NothingMeans DEF Optional
  <2>5. Len(<<>>) = 0
    OBVIOUS
  <2> QED BY <2>1, <2>3, <2>4, <2>5, ResultIs
<1>7. CASE r = 7
  <2>1. Rules[r] = Rule("optionalSeparator", <<"TRIPLE_MINUS">>, "null", <<>>, 0)
    BY <1>7, RulesAre DEF StructureRules
  <2>2. Denotes(t, "TRIPLE_MINUS", p[0] + 1, p[1], Val(r, 1))
    BY <2>1, HandleOne
  <2>3. ValueOf(r) = 0
    BY <2>1, NullIs
  <2>4. Denotes(t, "optionalSeparator", p[0] + 1, p[1], 0)
    BY <2>2, SeparatorMeans
  <2>5. Len(<<"TRIPLE_MINUS">>) = 1
    OBVIOUS
  <2> QED BY <2>1, <2>3, <2>4, <2>5, ResultIs
<1>8. CASE r = 8
  <2>1. Rules[r] = Rule("slide", <<"slideWithTitle">>, "move", <<1>>, 0)
    BY <1>8, RulesAre DEF StructureRules, Move
  <2>2. Denotes(t, "slideWithTitle", p[0] + 1, p[1], Val(r, 1))
    BY <2>1, HandleOne
  <2>3. ValueOf(r) = Val(r, 1)
    <3>1. [j \in DOMAIN <<1>> |-> Val(r, <<1>>[j])] = <<Val(r, 1)>>
      BY OneArgument
    <3>2. <<Val(r, 1)>>[1] = Val(r, 1)
      OBVIOUS
    <3> QED BY <2>1, <3>1, <3>2, ValueIs
  <2>4. Denotes(t, "slide", p[0] + 1, p[1], Val(r, 1))
    BY <2>2, SlideMeans
  <2>5. Len(<<"slideWithTitle">>) = 1
    OBVIOUS
  <2> QED BY <2>1, <2>3, <2>4, <2>5, ResultIs
<1>9. CASE r = 9
  <2>1. Rules[r] = Rule("slide", <<"slideWithoutTitle">>, "move", <<1>>, 0)
    BY <1>9, RulesAre DEF StructureRules, Move
  <2>2. Denotes(t, "slideWithoutTitle", p[0] + 1, p[1], Val(r, 1))
    BY <2>1, HandleOne
  <2>3. ValueOf(r) = Val(r, 1)
    <3>1. [j \in DOMAIN <<1>> |-> Val(r, <<1>>[j])] = <<Val(r, 1)>>
      BY OneArgument
    <3>2. <<Val(r, 1)>>[1] = Val(r, 1)
      OBVIOUS
    <3> QED BY <2>1, <3>1, <3>2, ValueIs
  <2>4. Denotes(t, "slide", p[0] + 1, p[1], Val(r, 1))
    BY <2>2, SlideMeans
  <2>5. Len(<<"slideWithoutTitle">>) = 1
    OBVIOUS
  <2> QED BY <2>1, <2>3, <2>4, <2>5, ResultIs
<1>10. CASE r = 10
  <2>1. Rules[r] = Rule("slideWithTitle", <<"HASH", "STRING", "slideExtras", "slideItems">>, "slide", <<2, 3, 4>>, 1)
    BY <1>10, RulesAre DEF StructureRules, SlideWithTitle, Titled
  <2>2. /\ Denotes(t, "HASH", p[0] + 1, p[1], Val(r, 1))
        /\ Denotes(t, "STRING", p[1] + 1, p[2], Val(r, 2))
        /\ Denotes(t, "slideExtras", p[2] + 1, p[3], Val(r, 3))
        /\ Denotes(t, "slideItems", p[3] + 1, p[4], Val(r, 4))
    BY <2>1, HandleFour
  <2>3. ValueOf(r) = [title |-> Val(r, 2), subtitle |-> Val(r, 3).subtitle, id |-> Val(r, 3).id, items |-> Val(r, 4)]
    <3>1. [j \in DOMAIN <<2, 3, 4>> |-> Val(r, <<2, 3, 4>>[j])] = <<Val(r, 2), Val(r, 3), Val(r, 4)>>
      BY ThreeArguments
    <3>2. <<Val(r, 2), Val(r, 3), Val(r, 4)>>[1] = Val(r, 2) /\ <<Val(r, 2), Val(r, 3), Val(r, 4)>>[2] = Val(r, 3) /\ <<Val(r, 2), Val(r, 3), Val(r, 4)>>[3] = Val(r, 4)
      OBVIOUS
    <3> QED BY <2>1, <3>1, <3>2, ValueIs
  <2>4. Denotes(t, "slideWithTitle", p[0] + 1, p[4], [title |-> Val(r, 2), subtitle |-> Val(r, 3).subtitle, id |-> Val(r, 3).id, items |-> Val(r, 4)])
    BY <2>2, TitledMeans
  <2>5. Len(<<"HASH", "STRING", "slideExtras", "slideItems">>) = 4
    OBVIOUS
  <2> QED BY <2>1, <2>3, <2>4, <2>5, ResultIs
<1>11. CASE r = 11
  <2>1. Rules[r] = Rule("slideWithoutTitle", <<"nonEmptySlideItems">>, "untitled", <<1>>, 1)
    BY <1>11, RulesAre DEF StructureRules
  <2>2. Denotes(t, "nonEmptySlideItems", p[0] + 1, p[1], Val(r, 1))
    BY <2>1, HandleOne
  <2>3. ValueOf(r) = [title |-> 0, subtitle |-> 0, id |-> 0, items |-> Val(r, 1)]
    <3>1. [j \in DOMAIN <<1>> |-> Val(r, <<1>>[j])] = <<Val(r, 1)>>
      BY OneArgument
    <3>2. <<Val(r, 1)>>[1] = Val(r, 1)
      OBVIOUS
    <3> QED BY <2>1, <3>1, <3>2, ValueIs
  <2>4. Denotes(t, "slideWithoutTitle", p[0] + 1, p[1], [title |-> 0, subtitle |-> 0, id |-> 0, items |-> Val(r, 1)])
    <3>1. p[0] = 0 \/ t[p[0]] = "TRIPLE_MINUS"
      <4>1. Rules[r].lhs = "slideWithoutTitle"
        BY <2>1 DEF Rule
      <4> QED BY <4>1 DEF Placing
    <3>2. PICK i : i = p[0] + 1
      OBVIOUS
    <3>3. i = 1 \/ t[i - 1] = "TRIPLE_MINUS"
      <4>1. p[0] \in Nat
        BY DEF HandleMeans
      <4>2. p[0] = 0 => i = 1
        BY <3>2
      <4>3. i - 1 = p[0]
        BY <3>2, <4>1
      <4> QED BY <3>1, <4>2, <4>3
    <3>4. Denotes(t, "nonEmptySlideItems", i, p[1], Val(r, 1))
      BY <2>2, <3>2
    <3> QED BY <3>2, <3>3, <3>4, UntitledMeans
  <2>5. Len(<<"nonEmptySlideItems">>) = 1
    OBVIOUS
  <2> QED BY <2>1, <2>3, <2>4, <2>5, ResultIs
<1>12. CASE r = 12
  <2>1. Rules[r] = Rule("slideExtras", <<>>, "noExtras", <<>>, 0)
    BY <1>12, RulesAre DEF StructureRules, Extras
  <2>2. p[0] \in Nat
    BY DEF HandleMeans
  <2>3. ValueOf(r) = [subtitle |-> 0, id |-> 0]
    BY <2>1, NullIs
  <2>4. Denotes(t, "slideExtras", p[0] + 1, p[0], [subtitle |-> 0, id |-> 0])
    BY <2>2, NoExtrasMeans
  <2>5. Len(<<>>) = 0
    OBVIOUS
  <2> QED BY <2>1, <2>3, <2>4, <2>5, ResultIs
<1>13. CASE r = 13
  <2>1. Rules[r] = Rule("slideExtras", <<"DOUBLE_HASH", "STRING">>, "subtitle", <<2>>, 0)
    BY <1>13, RulesAre DEF StructureRules, Extras
  <2>2. /\ Denotes(t, "DOUBLE_HASH", p[0] + 1, p[1], Val(r, 1))
        /\ Denotes(t, "STRING", p[1] + 1, p[2], Val(r, 2))
    BY <2>1, HandleTwo
  <2>3. ValueOf(r) = [subtitle |-> Val(r, 2), id |-> 0]
    <3>1. [j \in DOMAIN <<2>> |-> Val(r, <<2>>[j])] = <<Val(r, 2)>>
      BY OneArgument
    <3>2. <<Val(r, 2)>>[1] = Val(r, 2)
      OBVIOUS
    <3> QED BY <2>1, <3>1, <3>2, ValueIs
  <2>4. Denotes(t, "slideExtras", p[0] + 1, p[2], [subtitle |-> Val(r, 2), id |-> 0])
    BY <2>2, SubtitleMeans
  <2>5. Len(<<"DOUBLE_HASH", "STRING">>) = 2
    OBVIOUS
  <2> QED BY <2>1, <2>3, <2>4, <2>5, ResultIs
<1>14. CASE r = 14
  <2>1. Rules[r] = Rule("slideExtras", <<"AT_ID", "STRING">>, "id", <<2>>, 0)
    BY <1>14, RulesAre DEF StructureRules, Extras
  <2>2. /\ Denotes(t, "AT_ID", p[0] + 1, p[1], Val(r, 1))
        /\ Denotes(t, "STRING", p[1] + 1, p[2], Val(r, 2))
    BY <2>1, HandleTwo
  <2>3. ValueOf(r) = [subtitle |-> 0, id |-> Val(r, 2)]
    <3>1. [j \in DOMAIN <<2>> |-> Val(r, <<2>>[j])] = <<Val(r, 2)>>
      BY OneArgument
    <3>2. <<Val(r, 2)>>[1] = Val(r, 2)
      OBVIOUS
    <3> QED BY <2>1, <3>1, <3>2, ValueIs
  <2>4. Denotes(t, "slideExtras", p[0] + 1, p[2], [subtitle |-> 0, id |-> Val(r, 2)])
    BY <2>2, IdMeans
  <2>5. Len(<<"AT_ID", "STRING">>) = 2
    OBVIOUS
  <2> QED BY <2>1, <2>3, <2>4, <2>5, ResultIs
<1>15. CASE r = 15
  <2>1. Rules[r] = Rule("slideExtras", <<"DOUBLE_HASH", "STRING", "AT_ID", "STRING">>, "both", <<2, 4>>, 0)
    BY <1>15, RulesAre DEF StructureRules, Extras
  <2>2. /\ Denotes(t, "DOUBLE_HASH", p[0] + 1, p[1], Val(r, 1))
        /\ Denotes(t, "STRING", p[1] + 1, p[2], Val(r, 2))
        /\ Denotes(t, "AT_ID", p[2] + 1, p[3], Val(r, 3))
        /\ Denotes(t, "STRING", p[3] + 1, p[4], Val(r, 4))
    BY <2>1, HandleFour
  <2>3. ValueOf(r) = [subtitle |-> Val(r, 2), id |-> Val(r, 4)]
    <3>1. [j \in DOMAIN <<2, 4>> |-> Val(r, <<2, 4>>[j])] = <<Val(r, 2), Val(r, 4)>>
      BY TwoArguments
    <3>2. <<Val(r, 2), Val(r, 4)>>[1] = Val(r, 2) /\ <<Val(r, 2), Val(r, 4)>>[2] = Val(r, 4)
      OBVIOUS
    <3> QED BY <2>1, <3>1, <3>2, ValueIs
  <2>4. Denotes(t, "slideExtras", p[0] + 1, p[4], [subtitle |-> Val(r, 2), id |-> Val(r, 4)])
    BY <2>2, BothMeans
  <2>5. Len(<<"DOUBLE_HASH", "STRING", "AT_ID", "STRING">>) = 4
    OBVIOUS
  <2> QED BY <2>1, <2>3, <2>4, <2>5, ResultIs
<1>16. CASE r = 16
  <2>1. Rules[r] = Rule("slideItems", <<>>, "list", <<>>, 1)
    BY <1>16, RulesAre DEF StructureRules
  <2>2. p[0] \in Nat
    BY DEF HandleMeans
  <2>3. ValueOf(r) = <<>>
    BY <2>1, EmptyListIs
  <2>4. Denotes(t, "slideItems", p[0] + 1, p[0], <<>>)
    BY <2>2, NoItemsMean
  <2>5. Len(<<>>) = 0
    OBVIOUS
  <2> QED BY <2>1, <2>3, <2>4, <2>5, ResultIs
<1>17. CASE r = 17
  <2>1. Rules[r] = Rule("slideItems", <<"slideItems", "slideItem">>, "append", <<1, 2>>, 0)
    BY <1>17, RulesAre DEF StructureRules, Extend
  <2>2. /\ Denotes(t, "slideItems", p[0] + 1, p[1], Val(r, 1))
        /\ Denotes(t, "slideItem", p[1] + 1, p[2], Val(r, 2))
    BY <2>1, HandleTwo
  <2>3. ValueOf(r) = Append(Val(r, 1), Val(r, 2))
    <3>1. [j \in DOMAIN <<1, 2>> |-> Val(r, <<1, 2>>[j])] = <<Val(r, 1), Val(r, 2)>>
      BY TwoArguments
    <3>2. <<Val(r, 1), Val(r, 2)>>[1] = Val(r, 1) /\ <<Val(r, 1), Val(r, 2)>>[2] = Val(r, 2)
      OBVIOUS
    <3> QED BY <2>1, <3>1, <3>2, ValueIs
  <2>4. Denotes(t, "slideItems", p[0] + 1, p[2], Append(Val(r, 1), Val(r, 2)))
    BY <2>2, AppendMeans DEF ItemLists
  <2>5. Len(<<"slideItems", "slideItem">>) = 2
    OBVIOUS
  <2> QED BY <2>1, <2>3, <2>4, <2>5, ResultIs
<1>18. CASE r = 18
  <2>1. Rules[r] = Rule("nonEmptySlideItems", <<"slideItem">>, "list", <<1>>, 1)
    BY <1>18, RulesAre DEF StructureRules
  <2>2. Denotes(t, "slideItem", p[0] + 1, p[1], Val(r, 1))
    BY <2>1, HandleOne
  <2>3. ValueOf(r) = <<Val(r, 1)>>
    <3>1. [j \in DOMAIN <<1>> |-> Val(r, <<1>>[j])] = <<Val(r, 1)>>
      BY OneArgument
    <3> QED BY <2>1, <3>1, ValueIs
  <2>4. Denotes(t, "nonEmptySlideItems", p[0] + 1, p[1], <<Val(r, 1)>>)
    BY <2>2, OneItemMeans
  <2>5. Len(<<"slideItem">>) = 1
    OBVIOUS
  <2> QED BY <2>1, <2>3, <2>4, <2>5, ResultIs
<1>19. CASE r = 19
  <2>1. Rules[r] = Rule("nonEmptySlideItems", <<"nonEmptySlideItems", "slideItem">>, "append", <<1, 2>>, 0)
    BY <1>19, RulesAre DEF StructureRules, Extend
  <2>2. /\ Denotes(t, "nonEmptySlideItems", p[0] + 1, p[1], Val(r, 1))
        /\ Denotes(t, "slideItem", p[1] + 1, p[2], Val(r, 2))
    BY <2>1, HandleTwo
  <2>3. ValueOf(r) = Append(Val(r, 1), Val(r, 2))
    <3>1. [j \in DOMAIN <<1, 2>> |-> Val(r, <<1, 2>>[j])] = <<Val(r, 1), Val(r, 2)>>
      BY TwoArguments
    <3>2. <<Val(r, 1), Val(r, 2)>>[1] = Val(r, 1) /\ <<Val(r, 1), Val(r, 2)>>[2] = Val(r, 2)
      OBVIOUS
    <3> QED BY <2>1, <3>1, <3>2, ValueIs
  <2>4. Denotes(t, "nonEmptySlideItems", p[0] + 1, p[2], Append(Val(r, 1), Val(r, 2)))
    BY <2>2, AppendMeans DEF ItemLists
  <2>5. Len(<<"nonEmptySlideItems", "slideItem">>) = 2
    OBVIOUS
  <2> QED BY <2>1, <2>3, <2>4, <2>5, ResultIs
<1>20. r = 2 \/ r = 3 \/ r = 4 \/ r = 5 \/ r = 6 \/ r = 7 \/ r = 8 \/ r = 9 \/ r = 10 \/ r = 11 \/ r = 12 \/ r = 13 \/ r = 14 \/ r = 15 \/ r = 16 \/ r = 17 \/ r = 18 \/ r = 19
  OBVIOUS
<1> QED BY <1>2, <1>3, <1>4, <1>5, <1>6, <1>7, <1>8, <1>9, <1>10, <1>11, <1>12, <1>13, <1>14, <1>15, <1>16, <1>17, <1>18, <1>19, <1>20

\* Productions 20 to 41: the items.
LEMMA ItemRulesMean ==
  ASSUME NEW t, NEW p, NEW r \in 20..41, HandleMeans(t, r, p)
  PROVE  ResultMeans(t, r, p)
<1>20. CASE r = 20
  <2>1. Rules[r] = Rule("slideItem", <<"text">>, "item", <<1>>, 1)
    <3>1. r = 19 + 1 /\ 1 \in 1..22
      BY <1>20
    <3> QED BY <3>1, RulesAre DEF ItemRules, Item
  <2>2. Denotes(t, "text", p[0] + 1, p[1], Val(r, 1))
    BY <2>1, HandleOne
  <2>3. ValueOf(r) = [type |-> "text", node |-> Val(r, 1)]
    <3>1. [j \in DOMAIN <<1>> |-> Val(r, <<1>>[j])] = <<Val(r, 1)>>
      BY OneArgument
    <3>2. <<Val(r, 1)>>[1] = Val(r, 1) /\ <<"text">>[1] = "text"
      OBVIOUS
    <3> QED BY <2>1, <3>1, <3>2, ValueIs
  <2>4. Denotes(t, "slideItem", p[0] + 1, p[1], [type |-> "text", node |-> Val(r, 1)])
    BY <2>2, ItemMeans DEF NodeKinds
  <2>5. Len(<<"text">>) = 1
    OBVIOUS
  <2> QED BY <2>1, <2>3, <2>4, <2>5, ResultIs
<1>21. CASE r = 21
  <2>1. Rules[r] = Rule("slideItem", <<"image">>, "item", <<1>>, 1)
    <3>1. r = 19 + 2 /\ 2 \in 1..22
      BY <1>21
    <3> QED BY <3>1, RulesAre DEF ItemRules, Item
  <2>2. Denotes(t, "image", p[0] + 1, p[1], Val(r, 1))
    BY <2>1, HandleOne
  <2>3. ValueOf(r) = [type |-> "image", node |-> Val(r, 1)]
    <3>1. [j \in DOMAIN <<1>> |-> Val(r, <<1>>[j])] = <<Val(r, 1)>>
      BY OneArgument
    <3>2. <<Val(r, 1)>>[1] = Val(r, 1) /\ <<"image">>[1] = "image"
      OBVIOUS
    <3> QED BY <2>1, <3>1, <3>2, ValueIs
  <2>4. Denotes(t, "slideItem", p[0] + 1, p[1], [type |-> "image", node |-> Val(r, 1)])
    BY <2>2, ItemMeans DEF NodeKinds
  <2>5. Len(<<"image">>) = 1
    OBVIOUS
  <2> QED BY <2>1, <2>3, <2>4, <2>5, ResultIs
<1>22. CASE r = 22
  <2>1. Rules[r] = Rule("slideItem", <<"codeBlock">>, "item", <<1>>, 1)
    <3>1. r = 19 + 3 /\ 3 \in 1..22
      BY <1>22
    <3> QED BY <3>1, RulesAre DEF ItemRules, Item
  <2>2. Denotes(t, "codeBlock", p[0] + 1, p[1], Val(r, 1))
    BY <2>1, HandleOne
  <2>3. ValueOf(r) = [type |-> "codeBlock", node |-> Val(r, 1)]
    <3>1. [j \in DOMAIN <<1>> |-> Val(r, <<1>>[j])] = <<Val(r, 1)>>
      BY OneArgument
    <3>2. <<Val(r, 1)>>[1] = Val(r, 1) /\ <<"codeBlock">>[1] = "codeBlock"
      OBVIOUS
    <3> QED BY <2>1, <3>1, <3>2, ValueIs
  <2>4. Denotes(t, "slideItem", p[0] + 1, p[1], [type |-> "codeBlock", node |-> Val(r, 1)])
    BY <2>2, ItemMeans DEF NodeKinds
  <2>5. Len(<<"codeBlock">>) = 1
    OBVIOUS
  <2> QED BY <2>1, <2>3, <2>4, <2>5, ResultIs
<1>23. CASE r = 23
  <2>1. Rules[r] = Rule("slideItem", <<"note">>, "item", <<1>>, 1)
    <3>1. r = 19 + 4 /\ 4 \in 1..22
      BY <1>23
    <3> QED BY <3>1, RulesAre DEF ItemRules, Item
  <2>2. Denotes(t, "note", p[0] + 1, p[1], Val(r, 1))
    BY <2>1, HandleOne
  <2>3. ValueOf(r) = [type |-> "note", node |-> Val(r, 1)]
    <3>1. [j \in DOMAIN <<1>> |-> Val(r, <<1>>[j])] = <<Val(r, 1)>>
      BY OneArgument
    <3>2. <<Val(r, 1)>>[1] = Val(r, 1) /\ <<"note">>[1] = "note"
      OBVIOUS
    <3> QED BY <2>1, <3>1, <3>2, ValueIs
  <2>4. Denotes(t, "slideItem", p[0] + 1, p[1], [type |-> "note", node |-> Val(r, 1)])
    BY <2>2, ItemMeans DEF NodeKinds
  <2>5. Len(<<"note">>) = 1
    OBVIOUS
  <2> QED BY <2>1, <2>3, <2>4, <2>5, ResultIs
<1>24. CASE r = 24
  <2>1. Rules[r] = Rule("slideItem", <<"block">>, "item", <<1>>, 1)
    <3>1. r = 19 + 5 /\ 5 \in 1..22
      BY <1>24
    <3> QED BY <3>1, RulesAre DEF ItemRules, Item
  <2>2. Denotes(t, "block", p[0] + 1, p[1], Val(r, 1))
    BY <2>1, HandleOne
  <2>3. ValueOf(r) = [type |-> "block", node |-> Val(r, 1)]
    <3>1. [j \in DOMAIN <<1>> |-> Val(r, <<1>>[j])] = <<Val(r, 1)>>
      BY OneArgument
    <3>2. <<Val(r, 1)>>[1] = Val(r, 1) /\ <<"block">>[1] = "block"
      OBVIOUS
    <3> QED BY <2>1, <3>1, <3>2, ValueIs
  <2>4. Denotes(t, "slideItem", p[0] + 1, p[1], [type |-> "block", node |-> Val(r, 1)])
    BY <2>2, ItemMeans DEF NodeKinds
  <2>5. Len(<<"block">>) = 1
    OBVIOUS
  <2> QED BY <2>1, <2>3, <2>4, <2>5, ResultIs
<1>25. CASE r = 25
  <2>1. Rules[r] = Rule("slideItem", <<"link">>, "item", <<1>>, 1)
    <3>1. r = 19 + 6 /\ 6 \in 1..22
      BY <1>25
    <3> QED BY <3>1, RulesAre DEF ItemRules, Item
  <2>2. Denotes(t, "link", p[0] + 1, p[1], Val(r, 1))
    BY <2>1, HandleOne
  <2>3. ValueOf(r) = [type |-> "link", node |-> Val(r, 1)]
    <3>1. [j \in DOMAIN <<1>> |-> Val(r, <<1>>[j])] = <<Val(r, 1)>>
      BY OneArgument
    <3>2. <<Val(r, 1)>>[1] = Val(r, 1) /\ <<"link">>[1] = "link"
      OBVIOUS
    <3> QED BY <2>1, <3>1, <3>2, ValueIs
  <2>4. Denotes(t, "slideItem", p[0] + 1, p[1], [type |-> "link", node |-> Val(r, 1)])
    BY <2>2, ItemMeans DEF NodeKinds
  <2>5. Len(<<"link">>) = 1
    OBVIOUS
  <2> QED BY <2>1, <2>3, <2>4, <2>5, ResultIs
<1>26. CASE r = 26
  <2>1. Rules[r] = Rule("text", <<"MINUS", "TEXT_CONTENT">>, "bullet", <<2>>, 1)
    <3>1. r = 19 + 7 /\ 7 \in 1..22
      BY <1>26
    <3> QED BY <3>1, RulesAre DEF ItemRules, Node
  <2>2. /\ Denotes(t, "MINUS", p[0] + 1, p[1], Val(r, 1))
        /\ Denotes(t, "TEXT_CONTENT", p[1] + 1, p[2], Val(r, 2))
    BY <2>1, HandleTwo
  <2>3. ValueOf(r) = [kind |-> "bullet", args |-> <<Val(r, 2)>>]
    <3>1. [j \in DOMAIN <<2>> |-> Val(r, <<2>>[j])] = <<Val(r, 2)>>
      BY OneArgument
    <3> QED BY <2>1, <3>1, ValueIs
  <2>4. Denotes(t, "text", p[0] + 1, p[2], [kind |-> "bullet", args |-> <<Val(r, 2)>>])
    BY <2>2, TextMeans
  <2>5. Len(<<"MINUS", "TEXT_CONTENT">>) = 2
    OBVIOUS
  <2> QED BY <2>1, <2>3, <2>4, <2>5, ResultIs
<1>27. CASE r = 27
  <2>1. Rules[r] = Rule("text", <<"NUMBERED_LIST", "TEXT_CONTENT">>, "numbered", <<2>>, 1)
    <3>1. r = 19 + 8 /\ 8 \in 1..22
      BY <1>27
    <3> QED BY <3>1, RulesAre DEF ItemRules, Node
  <2>2. /\ Denotes(t, "NUMBERED_LIST", p[0] + 1, p[1], Val(r, 1))
        /\ Denotes(t, "TEXT_CONTENT", p[1] + 1, p[2], Val(r, 2))
    BY <2>1, HandleTwo
  <2>3. ValueOf(r) = [kind |-> "numbered", args |-> <<Val(r, 2)>>]
    <3>1. [j \in DOMAIN <<2>> |-> Val(r, <<2>>[j])] = <<Val(r, 2)>>
      BY OneArgument
    <3> QED BY <2>1, <3>1, ValueIs
  <2>4. Denotes(t, "text", p[0] + 1, p[2], [kind |-> "numbered", args |-> <<Val(r, 2)>>])
    BY <2>2, TextMeans
  <2>5. Len(<<"NUMBERED_LIST", "TEXT_CONTENT">>) = 2
    OBVIOUS
  <2> QED BY <2>1, <2>3, <2>4, <2>5, ResultIs
<1>28. CASE r = 28
  <2>1. Rules[r] = Rule("image", <<"AT_IMG", "STRING", "STRING", "imageLegend">>, "image", <<2, 3, 4>>, 1)
    <3>1. r = 19 + 9 /\ 9 \in 1..22
      BY <1>28
    <3> QED BY <3>1, RulesAre DEF ItemRules, Node
  <2>2. /\ Denotes(t, "AT_IMG", p[0] + 1, p[1], Val(r, 1))
        /\ Denotes(t, "STRING", p[1] + 1, p[2], Val(r, 2))
        /\ Denotes(t, "STRING", p[2] + 1, p[3], Val(r, 3))
        /\ Denotes(t, "imageLegend", p[3] + 1, p[4], Val(r, 4))
    BY <2>1, HandleFour
  <2>3. ValueOf(r) = [kind |-> "image", args |-> <<Val(r, 2), Val(r, 3), Val(r, 4)>>]
    <3>1. [j \in DOMAIN <<2, 3, 4>> |-> Val(r, <<2, 3, 4>>[j])] = <<Val(r, 2), Val(r, 3), Val(r, 4)>>
      BY ThreeArguments
    <3> QED BY <2>1, <3>1, ValueIs
  <2>4. Denotes(t, "image", p[0] + 1, p[4], [kind |-> "image", args |-> <<Val(r, 2), Val(r, 3), Val(r, 4)>>])
    BY <2>2, ImageMeans
  <2>5. Len(<<"AT_IMG", "STRING", "STRING", "imageLegend">>) = 4
    OBVIOUS
  <2> QED BY <2>1, <2>3, <2>4, <2>5, ResultIs
<1>29. CASE r = 29
  <2>1. Rules[r] = Rule("imageLegend", <<>>, "null", <<>>, 0)
    <3>1. r = 19 + 10 /\ 10 \in 1..22
      BY <1>29
    <3> QED BY <3>1, RulesAre DEF ItemRules, Null
  <2>2. p[0] \in Nat
    BY DEF HandleMeans
  <2>3. ValueOf(r) = 0
    BY <2>1, NullIs
  <2>4. Denotes(t, "imageLegend", p[0] + 1, p[0], 0)
    BY <2>2, NothingMeans DEF Optional
  <2>5. Len(<<>>) = 0
    OBVIOUS
  <2> QED BY <2>1, <2>3, <2>4, <2>5, ResultIs
<1>30. CASE r = 30
  <2>1. Rules[r] = Rule("imageLegend", <<"STRING">>, "move", <<1>>, 0)
    <3>1. r = 19 + 11 /\ 11 \in 1..22
      BY <1>30
    <3> QED BY <3>1, RulesAre DEF ItemRules, Move
  <2>2. Denotes(t, "STRING", p[0] + 1, p[1], Val(r, 1))
    BY <2>1, HandleOne
  <2>3. ValueOf(r) = Val(r, 1)
    <3>1. [j \in DOMAIN <<1>> |-> Val(r, <<1>>[j])] = <<Val(r, 1)>>
      BY OneArgument
    <3>2. <<Val(r, 1)>>[1] = Val(r, 1)
      OBVIOUS
    <3> QED BY <2>1, <3>1, <3>2, ValueIs
  <2>4. Denotes(t, "imageLegend", p[0] + 1, p[1], Val(r, 1))
    BY <2>2, StringMeans DEF Optional
  <2>5. Len(<<"STRING">>) = 1
    OBVIOUS
  <2> QED BY <2>1, <2>3, <2>4, <2>5, ResultIs
<1>31. CASE r = 31
  <2>1. Rules[r] = Rule("codeBlock", <<"AT_CODE", "CODE_CONTENT", "AT_END">>, "code", <<2>>, 1)
    <3>1. r = 19 + 12 /\ 12 \in 1..22
      BY <1>31
    <3> QED BY <3>1, RulesAre DEF ItemRules, Node
  <2>2. /\ Denotes(t, "AT_CODE", p[0] + 1, p[1], Val(r, 1))
        /\ Denotes(t, "CODE_CONTENT", p[1] + 1, p[2], Val(r, 2))
        /\ Denotes(t, "AT_END", p[2] + 1, p[3], Val(r, 3))
    BY <2>1, HandleThree
  <2>3. ValueOf(r) = [kind |-> "code", args |-> <<Val(r, 2)>>]
    <3>1. [j \in DOMAIN <<2>> |-> Val(r, <<2>>[j])] = <<Val(r, 2)>>
      BY OneArgument
    <3> QED BY <2>1, <3>1, ValueIs
  <2>4. Denotes(t, "codeBlock", p[0] + 1, p[3], [kind |-> "code", args |-> <<Val(r, 2)>>])
    BY <2>2, CodeMeans
  <2>5. Len(<<"AT_CODE", "CODE_CONTENT", "AT_END">>) = 3
    OBVIOUS
  <2> QED BY <2>1, <2>3, <2>4, <2>5, ResultIs
<1>32. CASE r = 32
  <2>1. Rules[r] = Rule("note", <<"AT_NOTE", "STRING">>, "note", <<2>>, 1)
    <3>1. r = 19 + 13 /\ 13 \in 1..22
      BY <1>32
    <3> QED BY <3>1, RulesAre DEF ItemRules, Node
  <2>2. /\ Denotes(t, "AT_NOTE", p[0] + 1, p[1], Val(r, 1))
        /\ Denotes(t, "STRING", p[1] + 1, p[2], Val(r, 2))
    BY <2>1, HandleTwo
  <2>3. ValueOf(r) = [kind |-> "note", args |-> <<Val(r, 2)>>]
    <3>1. [j \in DOMAIN <<2>> |-> Val(r, <<2>>[j])] = <<Val(r, 2)>>
      BY OneArgument
    <3> QED BY <2>1, <3>1, ValueIs
  <2>4. Denotes(t, "note", p[0] + 1, p[2], [kind |-> "note", args |-> <<Val(r, 2)>>])
    BY <2>2, NoteMeans
  <2>5. Len(<<"AT_NOTE", "STRING">>) = 2
    OBVIOUS
  <2> QED BY <2>1, <2>3, <2>4, <2>5, ResultIs
<1>33. CASE r = 33
  <2>1. Rules[r] = Rule("link", <<"AT_LINK", "STRING", "linkUrl">>, "link", <<3, 2>>, 1)
    <3>1. r = 19 + 14 /\ 14 \in 1..22
      BY <1>33
    <3> QED BY <3>1, RulesAre DEF ItemRules, Node
  <2>2. /\ Denotes(t, "AT_LINK", p[0] + 1, p[1], Val(r, 1))
        /\ Denotes(t, "STRING", p[1] + 1, p[2], Val(r, 2))
        /\ Denotes(t, "linkUrl", p[2] + 1, p[3], Val(r, 3))
    BY <2>1, HandleThree
  <2>3. ValueOf(r) = [kind |-> "link", args |-> (IF Val(r, 3) = 0 THEN <<Val(r, 2), Val(r, 2)>> ELSE <<Val(r, 3), Val(r, 2)>>)]
    <3>1. [j \in DOMAIN <<3, 2>> |-> Val(r, <<3, 2>>[j])] = <<Val(r, 3), Val(r, 2)>>
      BY TwoArguments
    <3>2. <<Val(r, 3), Val(r, 2)>>[1] = Val(r, 3) /\ <<Val(r, 3), Val(r, 2)>>[2] = Val(r, 2)
      OBVIOUS
    <3> QED BY <2>1, <3>1, <3>2, ValueIs
  <2>4. Denotes(t, "link", p[0] + 1, p[3], [kind |-> "link", args |-> (IF Val(r, 3) = 0 THEN <<Val(r, 2), Val(r, 2)>> ELSE <<Val(r, 3), Val(r, 2)>>)])
    BY <2>2, LinkMeans
  <2>5. Len(<<"AT_LINK", "STRING", "linkUrl">>) = 3
    OBVIOUS
  <2> QED BY <2>1, <2>3, <2>4, <2>5, ResultIs
<1>34. CASE r = 34
  <2>1. Rules[r] = Rule("linkUrl", <<>>, "null", <<>>, 0)
    <3>1. r = 19 + 15 /\ 15 \in 1..22
      BY <1>34
    <3> QED BY <3>1, RulesAre DEF ItemRules, Null
  <2>2. p[0] \in Nat
    BY DEF HandleMeans
  <2>3. ValueOf(r) = 0
    BY <2>1, NullIs
  <2>4. Denotes(t, "linkUrl", p[0] + 1, p[0], 0)
    BY <2>2, NothingMeans DEF Optional
  <2>5. Len(<<>>) = 0
    OBVIOUS
  <2> QED BY <2>1, <2>3, <2>4, <2>5, ResultIs
<1>35. CASE r = 35
  <2>1. Rules[r] = Rule("linkUrl", <<"STRING">>, "move", <<1>>, 0)
    <3>1. r = 19 + 16 /\ 16 \in 1..22
      BY <1>35
    <3> QED BY <3>1, RulesAre DEF ItemRules, Move
  <2>2. Denotes(t, "STRING", p[0] + 1, p[1], Val(r, 1))
    BY <2>1, HandleOne
  <2>3. ValueOf(r) = Val(r, 1)
    <3>1. [j \in DOMAIN <<1>> |-> Val(r, <<1>>[j])] = <<Val(r, 1)>>
      BY OneArgument
    <3>2. <<Val(r, 1)>>[1] = Val(r, 1)
      OBVIOUS
    <3> QED BY <2>1, <3>1, <3>2, ValueIs
  <2>4. Denotes(t, "linkUrl", p[0] + 1, p[1], Val(r, 1))
    BY <2>2, StringMeans DEF Optional
  <2>5. Len(<<"STRING">>) = 1
    OBVIOUS
  <2> QED BY <2>1, <2>3, <2>4, <2>5, ResultIs
<1>36. CASE r = 36
  <2>1. Rules[r] = Rule("block", <<"AT_BLOCK", "TIPO_EQUALS", "blockType", "blockTitle", "TEXT_CONTENT", "AT_END">>, "block", <<3, 4, 5>>, 1)
    <3>1. r = 19 + 17 /\ 17 \in 1..22
      BY <1>36
    <3> QED BY <3>1, RulesAre DEF ItemRules, Node
  <2>2. /\ Denotes(t, "AT_BLOCK", p[0] + 1, p[1], Val(r, 1))
        /\ Denotes(t, "TIPO_EQUALS", p[1] + 1, p[2], Val(r, 2))
        /\ Denotes(t, "blockType", p[2] + 1, p[3], Val(r, 3))
        /\ Denotes(t, "blockTitle", p[3] + 1, p[4], Val(r, 4))
        /\ Denotes(t, "TEXT_CONTENT", p[4] + 1, p[5], Val(r, 5))
        /\ Denotes(t, "AT_END", p[5] + 1, p[6], Val(r, 6))
    BY <2>1, HandleSix
  <2>3. ValueOf(r) = [kind |-> "block", args |-> <<Val(r, 3), Val(r, 4), Val(r, 5)>>]
    <3>1. [j \in DOMAIN <<3, 4, 5>> |-> Val(r, <<3, 4, 5>>[j])] = <<Val(r, 3), Val(r, 4), Val(r, 5)>>
      BY ThreeArguments
    <3> QED BY <2>1, <3>1, ValueIs
  <2>4. Denotes(t, "block", p[0] + 1, p[6], [kind |-> "block", args |-> <<Val(r, 3), Val(r, 4), Val(r, 5)>>])
    BY <2>2, BlockMeans
  <2>5. Len(<<"AT_BLOCK", "TIPO_EQUALS", "blockType", "blockTitle", "TEXT_CONTENT", "AT_END">>) = 6
    OBVIOUS
  <2> QED BY <2>1, <2>3, <2>4, <2>5, ResultIs
<1>37. CASE r = 37
  <2>1. Rules[r] = Rule("blockTitle", <<>>, "null", <<>>, 0)
    <3>1. r = 19 + 18 /\ 18 \in 1..22
      BY <1>37
    <3> QED BY <3>1, RulesAre DEF ItemRules, Null
  <2>2. p[0] \in Nat
    BY DEF HandleMeans
  <2>3. ValueOf(r) = 0
    BY <2>1, NullIs
  <2>4. Denotes(t, "blockTitle", p[0] + 1, p[0], 0)
    BY <2>2, NothingMeans DEF Optional
  <2>5. Len(<<>>) = 0
    OBVIOUS
  <2> QED BY <2>1, <2>3, <2>4, <2>5, ResultIs
<1>38. CASE r = 38
  <2>1. Rules[r] = Rule("blockTitle", <<"STRING">>, "move", <<1>>, 0)
    <3>1. r = 19 + 19 /\ 19 \in 1..22
      BY <1>38
    <3> QED BY <3>1, RulesAre DEF ItemRules, Move
  <2>2. Denotes(t, "STRING", p[0] + 1, p[1], Val(r, 1))
    BY <2>1, HandleOne
  <2>3. ValueOf(r) = Val(r, 1)
    <3>1. [j \in DOMAIN <<1>> |-> Val(r, <<1>>[j])] = <<Val(r, 1)>>
      BY OneArgument
    <3>2. <<Val(r, 1)>>[1] = Val(r, 1)
      OBVIOUS
    <3> QED BY <2>1, <3>1, <3>2, ValueIs
  <2>4. Denotes(t, "blockTitle", p[0] + 1, p[1], Val(r, 1))
    BY <2>2, StringMeans DEF Optional
  <2>5. Len(<<"STRING">>) = 1
    OBVIOUS
  <2> QED BY <2>1, <2>3, <2>4, <2>5, ResultIs
<1>39. CASE r = 39
  <2>1. Rules[r] = Rule("blockType", <<"NORMAL">>, "move", <<1>>, 0)
    <3>1. r = 19 + 20 /\ 20 \in 1..22
      BY <1>39
    <3> QED BY <3>1, RulesAre DEF ItemRules, Enum
  <2>2. Denotes(t, "NORMAL", p[0] + 1, p[1], Val(r, 1))
    BY <2>1, HandleOne
  <2>3. ValueOf(r) = Val(r, 1)
    <3>1. [j \in DOMAIN <<1>> |-> Val(r, <<1>>[j])] = <<Val(r, 1)>>
      BY OneArgument
    <3>2. <<Val(r, 1)>>[1] = Val(r, 1)
      OBVIOUS
    <3> QED BY <2>1, <3>1, <3>2, ValueIs
  <2>4. Denotes(t, "blockType", p[0] + 1, p[1], Val(r, 1))
    BY <2>2, TypeMeans DEF BlockType
  <2>5. Len(<<"NORMAL">>) = 1
    OBVIOUS
  <2> QED BY <2>1, <2>3, <2>4, <2>5, ResultIs
<1>40. CASE r = 40
  <2>1. Rules[r] = Rule("blockType", <<"ALERT">>, "move", <<1>>, 0)
    <3>1. r = 19 + 21 /\ 21 \in 1..22
      BY <1>40
    <3> QED BY <3>1, RulesAre DEF ItemRules, Enum
  <2>2. Denotes(t, "ALERT", p[0] + 1, p[1], Val(r, 1))
    BY <2>1, HandleOne
  <2>3. ValueOf(r) = Val(r, 1)
    <3>1. [j \in DOMAIN <<1>> |-> Val(r, <<1>>[j])] = <<Val(r, 1)>>
      BY OneArgument
    <3>2. <<Val(r, 1)>>[1] = Val(r, 1)
      OBVIOUS
    <3> QED BY <2>1, <3>1, <3>2, ValueIs
  <2>4. Denotes(t, "blockType", p[0] + 1, p[1], Val(r, 1))
    BY <2>2, TypeMeans DEF BlockType
  <2>5. Len(<<"ALERT">>) = 1
    OBVIOUS
  <2> QED BY <2>1, <2>3, <2>4, <2>5, ResultIs
<1>41. CASE r = 41
  <2>1. Rules[r] = Rule("blockType", <<"EXAMPLE">>, "move", <<1>>, 0)
    <3>1. r = 19 + 22 /\ 22 \in 1..22
      BY <1>41
    <3> QED BY <3>1, RulesAre DEF ItemRules, Enum
  <2>2. Denotes(t, "EXAMPLE", p[0] + 1, p[1], Val(r, 1))
    BY <2>1, HandleOne
  <2>3. ValueOf(r) = Val(r, 1)
    <3>1. [j \in DOMAIN <<1>> |-> Val(r, <<1>>[j])] = <<Val(r, 1)>>
      BY OneArgument
    <3>2. <<Val(r, 1)>>[1] = Val(r, 1)
      OBVIOUS
    <3> QED BY <2>1, <3>1, <3>2, ValueIs
  <2>4. Denotes(t, "blockType", p[0] + 1, p[1], Val(r, 1))
    BY <2>2, TypeMeans DEF BlockType
  <2>5. Len(<<"EXAMPLE">>) = 1
    OBVIOUS
  <2> QED BY <2>1, <2>3, <2>4, <2>5, ResultIs
<1>42. r = 20 \/ r = 21 \/ r = 22 \/ r = 23 \/ r = 24 \/ r = 25 \/ r = 26 \/ r = 27 \/ r = 28 \/ r = 29 \/ r = 30 \/ r = 31 \/ r = 32 \/ r = 33 \/ r = 34 \/ r = 35 \/ r = 36 \/ r = 37 \/ r = 38 \/ r = 39 \/ r = 40 \/ r = 41
  OBVIOUS
<1> QED BY <1>20, <1>21, <1>22, <1>23, <1>24, <1>25, <1>26, <1>27, <1>28, <1>29, <1>30, <1>31, <1>32, <1>33, <1>34, <1>35, <1>36, <1>37, <1>38, <1>39, <1>40, <1>41, <1>42

-----------------------------------------------------------------------------

(***************************************************************************)
(* What the stack stands for.                                              *)
(***************************************************************************)
\* A sequence of tokens that begins with those shifted.
Continues(t) ==
  /\ t \in Seq(Labels) /\ Len(read) <= Len(t)
  /\ \A k \in 1..Len(read) : t[k] = read[k]

\* Entry i of the stack stands for the tokens after at[i - 1] up to at[i].
Mapped(at, t) ==
  /\ at[1] = 0 /\ at[Len(stack)] = Len(read)
  /\ \A i \in 2..Len(stack) : Denotes(t, Sym(i), at[i - 1] + 1, at[i], vals[i])

MappedOn(at) == \A t : Continues(t) => Mapped(at, t)
Meaning == run \in {"more", "busy"} => \E at : MappedOn(at)

\* No item begins right after the slides: it would have gone on with the last one.
ItemsInPlace == \A i \in 2..Len(stack) : Sym(i) \in ItemLike => stack[i - 1] # List
SlideOver ==
  Len(stack) > 1 /\ Sym(Len(stack)) \in AfterSlide => look \notin ItemStart \cup {"none"}

Built == ast # <<>> => ast = <<Document(read)>> /\ (run \in {"more", "busy"} => Top = Whole)

DocumentInv == Meaning /\ ItemsInPlace /\ SlideOver /\ Built

\* What the parser has shifted are tokens.
LEMMA ReadTyped ==
  ASSUME HeapInv
  PROVE  read \in Seq(Labels) /\ Len(read) \in Nat /\ Continues(read)
BY LenProperties DEF HeapInv, HeapTyped, HeapTypeOK, Continues

\* The initial stack stands for nothing.
LEMMA InitDocumentInv == HeapInit => DocumentInv
<1> SUFFICES ASSUME HeapInit PROVE DocumentInv
  OBVIOUS
<1>1. Len(stack) = 1 /\ read = <<>> /\ Len(read) = 0 /\ ast = <<>> /\ 2..Len(stack) = {}
  BY DEF HeapInit, Init
<1>2. Meaning
  <2> DEFINE at == <<0>>
  <2>1. at[1] = 0
    OBVIOUS
  <2> HIDE DEF at
  <2>2. MappedOn(at)
    BY <1>1, <2>1 DEF MappedOn, Mapped
  <2> QED BY <2>2 DEF Meaning
<1>3. ItemsInPlace /\ SlideOver /\ Built
  BY <1>1 DEF ItemsInPlace, SlideOver, Built
<1> QED BY <1>2, <1>3 DEF DocumentInv

\* A token offered is not shifted yet; a pause changes no entry; an end drops
\* them all.
LEMMA PushDocument ==
  ASSUME ParserInv, HeapInv, DocumentInv, NEW t \in Offered, HeapPush(t)
  PROVE  DocumentInv'
<1>1. /\ run = "more" /\ run' = "busy" /\ stack' = stack /\ vals' = vals /\ read' = read
      /\ ast' = ast /\ look = "none"
  BY DEF HeapPush, Push, ParserInv, IdleEmptyHanded
<1>2. Meaning'
  BY <1>1 DEF DocumentInv, Meaning, MappedOn, Mapped, Continues, Sym
<1>3. ItemsInPlace' /\ SlideOver'
  BY <1>1 DEF DocumentInv, ItemsInPlace, SlideOver, Sym
<1>4. Built'
  BY <1>1 DEF DocumentInv, Built, Top
<1> QED BY <1>2, <1>3, <1>4 DEF DocumentInv

LEMMA PauseDocument ==
  ASSUME DocumentInv, HeapPause \/ UNCHANGED vars
  PROVE  DocumentInv'
<1>1. /\ stack' = stack /\ vals' = vals /\ read' = read /\ ast' = ast /\ look' = look
      /\ run' = run \/ (run = "busy" /\ run' = "more")
  BY DEF HeapPause, Pause, heapVars, vars, parserVars
<1>2. Meaning'
  BY <1>1 DEF DocumentInv, Meaning, MappedOn, Mapped, Continues, Sym
<1>3. ItemsInPlace' /\ SlideOver'
  BY <1>1 DEF DocumentInv, ItemsInPlace, SlideOver, Sym
<1>4. Built'
  BY <1>1 DEF DocumentInv, Built, Top
<1> QED BY <1>2, <1>3, <1>4 DEF DocumentInv

LEMMA EndDocument ==
  ASSUME DocumentInv, HeapSyntaxError \/ HeapAccept
  PROVE  DocumentInv'
<1>1. /\ stack' = <<Start>> /\ read' = read /\ ast' = ast /\ run' \in {"aborted", "accepted"}
  BY DEF HeapSyntaxError, HeapAccept, SyntaxError, Accept, Cleanup
<1>2. Len(stack') = 1 /\ 2..Len(stack') = {} /\ run' \notin {"more", "busy"}
  BY <1>1
<1>3. Meaning' /\ ItemsInPlace' /\ SlideOver' /\ Built'
  BY <1>1, <1>2 DEF DocumentInv, Meaning, ItemsInPlace, SlideOver, Built
<1> QED BY <1>3 DEF DocumentInv

\* The state that has read slides was entered by slides.
LEMMA ListIsSlides ==
  AccessingSymbol(List) = "slides" /\ List # Start /\ "slides" \in AfterSlide
BY AutomatonAssumption, PlacesAssumption, GotoSymbol DEF List, AfterSlide

\* No token is like a slide.
LEMMA SlidesAreNoTokens ==
  Labels \cap AfterSlide = {} /\ Labels \cap ItemLike = ItemStart
BY DEF Labels, Valued, ItemStart, BlockType, AfterSlide, ItemLike, NodeKinds

\* A shifted token stands for itself.
LEMMA ShiftDocument ==
  ASSUME ParserInv, HeapInv, DocumentInv, HeapShift
  PROVE  DocumentInv'
<1> PICK L \in Nat \ {0} : L = Len(stack)
  BY HeapFacts
<1> PICK N \in Nat : N = Len(read)
  BY ReadTyped
<1>1. /\ run = "busy" /\ run' = "busy" /\ look' = "none" /\ ast' = ast
      /\ read' = Append(read, look) /\ vals' = Append(vals, N + 1)
  BY DEF HeapShift, Shift
<1>2. TypeOK /\ Path /\ Shallow /\ Len(vals) = L /\ read \in Seq(Labels)
  BY HeapFacts, ReadTyped
<1>3. look \in Reads[Top] \ {EOF} /\ look \in Labels /\ MoveFrom(L, look) /\ Top = stack[L]
  BY <1>2, ShiftMoves, TopIsLast DEF HeapShift
<1>4. /\ Len(stack') = L + 1 /\ Sym(L + 1)' = look
      /\ \A i \in 1..L : stack'[i] = stack[i] /\ Sym(i)' = Sym(i)
  <2>1. L \in 1..Len(stack) /\ look \in Reads[stack[L]] \ {EOF}
    BY <1>3
  <2> QED BY <1>2, <1>3, <2>1, MoveKeepsPath
<1>5. Len(read') = N + 1 /\ read'[N + 1] = look /\ \A k \in 1..N : read'[k] = read[k]
  BY <1>1, <1>2, <1>3, AppendProperties
<1>6. /\ vals'[L + 1] = N + 1 /\ \A i \in 1..L : vals'[i] = vals[i]
  <2> PICK S : S = {vals[i] : i \in DOMAIN vals} \cup {N + 1}
    OBVIOUS
  <2>1. vals \in Seq(S) /\ N + 1 \in S
    BY DEF HeapInv, HeapTyped
  <2> QED BY <1>1, <1>2, <2>1, AppendProperties
<1>7. \A t : Continues(t)' => Continues(t) /\ t[N + 1] = look
  <2> SUFFICES ASSUME NEW t, Continues(t)' PROVE Continues(t) /\ t[N + 1] = look
    OBVIOUS
  <2>1. t \in Seq(Labels) /\ N + 1 <= Len(t) /\ \A k \in 1..(N + 1) : t[k] = read'[k]
    BY <1>5 DEF Continues
  <2>2. Len(t) \in Nat /\ \A k \in 1..N : k \in 1..(N + 1)
    BY <2>1, LenProperties
  <2> QED BY <1>5, <2>1, <2>2 DEF Continues
<1>8. Meaning'
  <2>1. PICK at : MappedOn(at)
    BY <1>1 DEF DocumentInv, Meaning
  <2> DEFINE next == [i \in 1..(L + 1) |-> IF i = L + 1 THEN N + 1 ELSE at[i]]
  <2>2. next[L + 1] = N + 1 /\ \A i \in 1..L : next[i] = at[i]
    OBVIOUS
  <2> HIDE DEF next
  <2>3. ASSUME NEW t, Continues(t)' PROVE Mapped(next, t)'
    <3>1. Continues(t) /\ t[N + 1] = look
      BY <1>7, <2>3
    <3>2. /\ at[1] = 0 /\ at[L] = N
          /\ \A i \in 2..L : Denotes(t, Sym(i), at[i - 1] + 1, at[i], vals[i])
      BY <2>1, <3>1 DEF MappedOn, Mapped
    <3>3. ASSUME NEW i \in 2..L
          PROVE  Denotes(t, Sym(i)', next[i - 1] + 1, next[i], vals'[i])
      <4>1. i \in 1..L /\ i - 1 \in 1..L
        OBVIOUS
      <4> QED BY <1>4, <1>6, <2>2, <3>2, <4>1
    <3>4. Denotes(t, look, next[L] + 1, next[L + 1], vals'[L + 1])
      <4>1. next[L] + 1 = N + 1 /\ next[L + 1] = N + 1 /\ vals'[L + 1] = N + 1
        BY <1>6, <2>2, <3>2
      <4>2. Denotes(t, look, N + 1, N + 1, N + 1)
        <5>1. N + 1 \in Nat \ {0} /\ N + 1 <= N + 1 + 1
          OBVIOUS
        <5> QED BY <1>3, <3>1, <5>1, Kinds DEF Denotes, Optional, NodeKinds, ItemLists
      <4> QED BY <4>1, <4>2
    <3>5. next[1] = 0
      BY <2>2, <3>2
    <3>6. ASSUME NEW i \in 2..(L + 1)
          PROVE  Denotes(t, Sym(i)', next[i - 1] + 1, next[i], vals'[i])
      <4>1. CASE i = L + 1
        <5>1. i - 1 = L /\ Sym(i)' = look
          BY <1>4, <4>1
        <5> QED BY <3>4, <4>1, <5>1
      <4>2. CASE i # L + 1
        <5>1. i \in 2..L
          BY <4>2
        <5> QED BY <3>3, <5>1
      <4> QED BY <4>1, <4>2
    <3> QED BY <1>4, <1>5, <2>2, <3>5, <3>6 DEF Mapped
  <2>4. MappedOn(next)'
    BY <2>3 DEF MappedOn
  <2> QED BY <2>4 DEF Meaning
<1>9. ItemsInPlace'
  <2> SUFFICES ASSUME NEW i \in 2..(L + 1), Sym(i)' \in ItemLike PROVE stack'[i - 1] # List
    BY <1>4 DEF ItemsInPlace
  <2>1. CASE i = L + 1
    <3>1. look \in ItemStart /\ stack'[i - 1] = Top
      BY <1>3, <1>4, <2>1, SlidesAreNoTokens
    <3>2. Top # List
      <4> SUFFICES ASSUME Top = List PROVE FALSE
        BY <3>1
      <4>1. Sym(L) \in AfterSlide
        BY <1>3, ListIsSlides DEF Sym
      <4>2. L # 1
        BY <1>2, <1>3, ListIsSlides DEF Path
      <4>3. Len(stack) > 1 /\ Sym(Len(stack)) \in AfterSlide
        BY <4>1, <4>2
      <4> QED BY <3>1, <4>3 DEF DocumentInv, SlideOver
    <3> QED BY <3>1, <3>2
  <2>2. CASE i # L + 1
    <3>1. i \in 2..Len(stack) /\ i \in 1..L /\ i - 1 \in 1..L
      BY <2>2
    <3> QED BY <1>4, <3>1 DEF DocumentInv, ItemsInPlace
  <2> QED BY <2>1, <2>2
<1>10. SlideOver'
  BY <1>3, <1>4, SlidesAreNoTokens DEF SlideOver
<1>11. Built'
  <2>1. Top # Whole
    BY <1>3, AutomatonAssumption
  <2> QED BY <1>1, <2>1 DEF DocumentInv, Built
<1> QED BY <1>8, <1>9, <1>10, <1>11 DEF DocumentInv

\* Where the automaton reads slides, and where an untitled one.
LEMMA SlidesAtStart ==
  ASSUME TypeOK, Path, NEW i \in 1..Len(stack),
         Reads[stack[i]] \cap {"slides", "optionalSeparator"} # {} \/ "program" \in Reads[stack[i]]
  PROVE  i = 1
<1>1. stack[i] \in States
  BY TopIsLast
<1>2. stack[i] = Start
  BY <1>1, PlacesAssumption, AutomatonAssumption
<1>3. ~(i \in 2..Len(stack))
  BY <1>2, Below
<1> QED BY <1>3, TopIsLast

\* What an entry of the stack stands for, as a hypothesis on one reading.
EntriesMean(at, t) ==
  /\ at[1] = 0
  /\ \A i \in 2..Len(stack) : Denotes(t, Sym(i), at[i - 1] + 1, at[i], vals[i])

\* The marks between the entries are places in the input.
LEMMA MarkIsNat ==
  ASSUME NEW at, NEW t, EntriesMean(at, t), NEW i \in 1..Len(stack), Len(stack) \in Nat
  PROVE  at[i] \in Nat
<1>1. CASE i = 1
  BY <1>1 DEF EntriesMean
<1>2. CASE i # 1
  <2>1. i \in 2..Len(stack)
    BY <1>2
  <2>2. Denotes(t, Sym(i), at[i - 1] + 1, at[i], vals[i])
    BY <2>1 DEF EntriesMean
  <2> QED BY <2>2 DEF Denotes
<1> QED BY <1>1, <1>2

\* A reduction to slides happens at the beginning, one to an untitled slide
\* there or after a separator.
LEMMA ReducePlaced ==
  ASSUME ParserInv, HeapInv, ItemsInPlace, NEW r \in Completes[Top],
         NEW at, NEW t, EntriesMean(at, t),
         NEW p, p[0] = at[Base(r)]
  PROVE  Placing(t, r, p)
<1> DEFINE B == Base(r)
<1>1. TypeOK /\ Path /\ Len(stack) \in Nat \ {0}
  BY HeapFacts
<1>2. /\ r \in DOMAIN Rules /\ B \in 1..Len(stack) /\ B + Len(Rules[r].rhs) = Len(stack)
      /\ \A k \in 1..Len(Rules[r].rhs) : Sym(B + k) = Rules[r].rhs[k]
      /\ Rules[r].lhs \in Reads[stack[B]] /\ Len(Rules[r].rhs) \in 0..6
  BY <1>1, Handle
<1> HIDE DEF B
<1>3. Rules[r].lhs = "slides" => p[0] = 0
  <2> SUFFICES ASSUME Rules[r].lhs = "slides" PROVE p[0] = 0
    OBVIOUS
  <2>1. B = 1
    BY <1>1, <1>2, SlidesAtStart
  <2> QED BY <2>1 DEF EntriesMean, B
<1>4. Rules[r].lhs = "slideWithoutTitle" => p[0] = 0 \/ t[p[0]] = "TRIPLE_MINUS"
  <2> SUFFICES ASSUME Rules[r].lhs = "slideWithoutTitle"
               PROVE  p[0] = 0 \/ t[p[0]] = "TRIPLE_MINUS"
    OBVIOUS
  <2>1. Rules[r].rhs # <<>> /\ Rules[r].rhs[1] \in ItemLike /\ Rules[r].rhs \in Seq(Symbols)
    BY <1>2, PlacesAssumption, ActionsAssumption DEF ItemLike
  <2>2. 1 \in 1..Len(Rules[r].rhs)
    BY <2>1, EmptySeq, LenProperties
  <2>3. B + 1 \in 2..Len(stack) /\ B + 1 - 1 = B
    BY <1>2, <2>2
  <2>4. stack[B] # List
    <3>1. Sym(B + 1) \in ItemLike
      BY <1>2, <2>1, <2>2
    <3>2. PICK m : m = B + 1
      OBVIOUS
    <3>3. m \in 2..Len(stack) /\ Sym(m) \in ItemLike /\ m - 1 = B
      BY <1>2, <2>3, <3>1, <3>2
    <3>4. stack[m - 1] # List
      BY <3>3 DEF ItemsInPlace
    <3> QED BY <3>3, <3>4
  <2>5. stack[B] # Start /\ Sym(B) \in {"optionalSeparator", "TRIPLE_MINUS"}
    <3>1. stack[B] \in States /\ "slideWithoutTitle" \in Reads[stack[B]]
      BY <1>1, <1>2, TopIsLast
    <3> QED BY <2>4, <3>1, PlacesAssumption DEF Sym
  <2>6. B \in 2..Len(stack)
    <3>1. B # 1
      BY <1>1, <2>5 DEF Path
    <3> QED BY <1>2, <3>1
  <2>7. Denotes(t, Sym(B), at[B - 1] + 1, at[B], vals[B])
    BY <2>6 DEF EntriesMean
  <2>8. CASE Sym(B) = "TRIPLE_MINUS"
    <3>1. t[at[B]] = "TRIPLE_MINUS"
      BY <2>7, <2>8, HeaderKinds, TokenAt
    <3> QED BY <3>1 DEF B
  <2>9. CASE Sym(B) = "optionalSeparator"
    <3>1. "optionalSeparator" \in Reads[stack[B - 1]] /\ B - 1 \in 1..Len(stack)
      BY <1>1, <2>6, <2>9, Below
    <3>2. B - 1 = 1
      BY <1>1, <3>1, SlidesAtStart
    <3>3. at[B - 1] = 0
      BY <3>2 DEF EntriesMean
    <3>4. at[B] \in Nat /\ (at[B - 1] + 1 = at[B] + 1 \/ t[at[B]] = "TRIPLE_MINUS")
      BY <2>7, <2>9 DEF Denotes
    <3>5. at[B] = 0 \/ t[at[B]] = "TRIPLE_MINUS"
      BY <3>3, <3>4
    <3> QED BY <3>5 DEF B
  <2> QED BY <2>5, <2>8, <2>9
<1> QED BY <1>3, <1>4 DEF Placing

\* The production reduced has the meaning its left-hand side asks for.
LEMMA ReduceMeans ==
  ASSUME ParserInv, HeapInv, ItemsInPlace, NEW r \in Completes[Top],
         NEW at, NEW t, EntriesMean(at, t)
  PROVE  Denotes(t, Rules[r].lhs, at[Base(r)] + 1, at[Len(stack)], ValueOf(r))
<1> PICK B : B = Base(r)
  OBVIOUS
<1> PICK n : n = Len(Rules[r].rhs)
  OBVIOUS
<1>1. TypeOK /\ Path /\ Len(stack) \in Nat \ {0}
  BY HeapFacts
<1>2. /\ r \in DOMAIN Rules /\ r # 1 /\ B \in 1..Len(stack) /\ B + n = Len(stack) /\ n \in 0..6
      /\ \A k \in 1..n : Sym(B + k) = Rules[r].rhs[k]
  BY <1>1, Handle
<1> DEFINE p == [k \in 0..n |-> at[B + k]]
<1>3. p[0] = at[B] /\ p[n] = at[Len(stack)]
  BY <1>2
<1>4. ASSUME NEW k \in 1..n, NEW m, m = B + k
      PROVE  p[k] = at[m] /\ p[k - 1] = at[m - 1]
  <2>1. p[k] = at[m]
    BY <1>2, <1>4
  <2>2. PICK j : j = k - 1
    OBVIOUS
  <2>3. j \in 0..n /\ B + j = m - 1
    BY <1>2, <1>4, <2>2
  <2>4. p[j] = at[B + j]
    BY <2>3
  <2> QED BY <2>1, <2>2, <2>3, <2>4, Zenon
<1> HIDE DEF p
<1>5. HandleMeans(t, r, p)
  <2>1. p[0] \in Nat
    BY <1>1, <1>2, <1>3, MarkIsNat
  <2>2. ASSUME NEW k \in 1..n
        PROVE  Denotes(t, Rules[r].rhs[k], p[k - 1] + 1, p[k], Val(r, k))
    <3>1. PICK m : m = B + k
      OBVIOUS
    <3>2. m \in 2..Len(stack)
      BY <1>2, <3>1
    <3>3. Denotes(t, Sym(m), at[m - 1] + 1, at[m], vals[m])
      BY <3>2 DEF EntriesMean
    <3>4. Val(r, k) = vals[m]
      BY <3>1 DEF Val
    <3>5. Sym(m) = Rules[r].rhs[k]
      BY <1>2, <3>1, Zenon
    <3>6. p[k] = at[m] /\ p[k - 1] = at[m - 1]
      BY <1>4, <3>1
    <3> QED BY <3>3, <3>4, <3>5, <3>6
  <2> QED BY <2>1, <2>2 DEF HandleMeans
<1>6. Placing(t, r, p)
  BY <1>3, ReducePlaced
<1>7. r \in 2..19 \/ r \in 20..41
  BY <1>2, RulesAre
<1>8. ResultMeans(t, r, p)
  BY <1>5, <1>6, <1>7, StructureMeans, ItemRulesMean
<1> QED BY <1>3, <1>8 DEF ResultMeans

\* A reduction: the marks of the handle but the last are dropped.
LEMMA ReduceDocument ==
  ASSUME ParserInv, HeapInv, DocumentInv, NEW r \in DOMAIN Rules, HeapReduce(r)
  PROVE  DocumentInv'
<1> PICK L \in Nat \ {0} : L = Len(stack)
  BY HeapFacts
<1>1. TypeOK /\ Path /\ Shallow /\ Len(vals) = L
  BY HeapFacts
<1>2. Reduce(r) /\ run = "busy" /\ run' = "busy" /\ look' = look /\ read' = read
  BY DEF HeapReduce, Reduce
<1> PICK B : B = Base(r)
  OBVIOUS
<1>3. r \in Completes[Top] /\ B \in 1..L
      /\ Rules[r].lhs \in Reads[stack[B]] \ {EOF} /\ MoveFrom(B, Rules[r].lhs)
  BY <1>1, <1>2, ReduceMoves
<1>4. /\ Len(stack') = B + 1 /\ Sym(B + 1)' = Rules[r].lhs
      /\ stack'[B + 1] = Goto[stack[B]][Rules[r].lhs] /\ stack' \in Seq(States)
      /\ \A i \in 1..B : stack'[i] = stack[i] /\ Sym(i)' = Sym(i)
  BY <1>1, <1>3, MoveKeepsPath
<1>5. vals'[B + 1] = ValueOf(r) /\ \A i \in 1..B : vals'[i] = vals[i]
  <2> PICK e : e = ValueOf(r)
    OBVIOUS
  <2> PICK S : S = {vals[i] : i \in DOMAIN vals} \cup {e}
    OBVIOUS
  <2>1. vals \in Seq(S) /\ e \in S
    BY DEF HeapInv, HeapTyped
  <2>2. vals' = Append(SubSeq(vals, 1, B), e) /\ B \in 1..Len(vals)
    BY <1>1, <1>3 DEF HeapReduce
  <2> QED BY <2>1, <2>2, CutAndAppend
<1>6. /\ B + Len(Rules[r].rhs) = L /\ Len(Rules[r].rhs) \in 0..6
      /\ \A k \in 1..Len(Rules[r].rhs) : Sym(B + k) = Rules[r].rhs[k]
  BY <1>1, <1>3, Handle
<1>7. Meaning'
  <2>1. PICK at : MappedOn(at)
    BY <1>2 DEF DocumentInv, Meaning
  <2> DEFINE next == [i \in 1..(B + 1) |-> IF i = B + 1 THEN at[L] ELSE at[i]]
  <2>2. next[B + 1] = at[L] /\ \A i \in 1..B : next[i] = at[i]
    BY <1>3
  <2> HIDE DEF next
  <2>3. ASSUME NEW t, Continues(t)' PROVE Mapped(next, t)'
    <3>1. Continues(t)
      BY <1>2, <2>3 DEF Continues
    <3>2. at[L] = Len(read) /\ EntriesMean(at, t)
      BY <2>1, <3>1 DEF MappedOn, Mapped, EntriesMean
    <3>3. Denotes(t, Rules[r].lhs, at[B] + 1, at[L], ValueOf(r))
      BY <1>3, <3>2, ReduceMeans DEF DocumentInv
    <3>4. ASSUME NEW i \in 2..(B + 1)
          PROVE  Denotes(t, Sym(i)', next[i - 1] + 1, next[i], vals'[i])
      <4>1. CASE i = B + 1
        <5>1. i - 1 = B /\ B \in 1..B
          BY <1>3, <4>1
        <5> QED BY <1>4, <1>5, <2>2, <3>3, <4>1, <5>1
      <4>2. CASE i # B + 1
        <5>1. i \in 2..Len(stack) /\ i \in 1..B /\ i - 1 \in 1..B
          BY <1>3, <4>2
        <5>2. Denotes(t, Sym(i), at[i - 1] + 1, at[i], vals[i])
          BY <3>2, <5>1 DEF EntriesMean
        <5> QED BY <1>4, <1>5, <2>2, <5>1, <5>2
      <4> QED BY <4>1, <4>2
    <3>5. next[1] = 0
      <4>1. 1 \in 1..B
        BY <1>3
      <4> QED BY <2>2, <3>2, <4>1 DEF EntriesMean
    <3> QED BY <1>2, <1>4, <2>2, <3>2, <3>4, <3>5 DEF Mapped
  <2>4. MappedOn(next)'
    BY <2>3 DEF MappedOn
  <2> QED BY <2>4 DEF Meaning
<1>8. ItemsInPlace'
  <2> SUFFICES ASSUME NEW i \in 2..(B + 1), Sym(i)' \in ItemLike PROVE stack'[i - 1] # List
    BY <1>4 DEF ItemsInPlace
  <2>1. CASE i = B + 1
    <3>1. i - 1 = B /\ stack'[i - 1] = stack[B] /\ Rules[r].lhs \in ItemLike
      BY <1>3, <1>4, <2>1
    <3>2. Rules[r].rhs # <<>> /\ Rules[r].rhs[1] \in ItemLike /\ Rules[r].rhs \in Seq(Symbols)
      BY <3>1, PlacesAssumption, ActionsAssumption
    <3>3. 1 \in 1..Len(Rules[r].rhs)
      BY <3>2, EmptySeq, LenProperties
    <3>4. B + 1 \in 2..Len(stack) /\ Sym(B + 1) \in ItemLike
      BY <1>3, <1>6, <3>2, <3>3
    <3>5. PICK m : m = B + 1
      OBVIOUS
    <3>6. m \in 2..Len(stack) /\ Sym(m) \in ItemLike /\ m - 1 = B
      BY <1>3, <3>4, <3>5
    <3>7. stack[m - 1] # List
      BY <3>6 DEF DocumentInv, ItemsInPlace
    <3> QED BY <3>1, <3>6, <3>7
  <2>2. CASE i # B + 1
    <3>1. i \in 2..Len(stack) /\ i \in 1..B /\ i - 1 \in 1..B
      BY <1>3, <2>2
    <3> QED BY <1>4, <3>1 DEF DocumentInv, ItemsInPlace
  <2> QED BY <2>1, <2>2
<1>9. SlideOver'
  <2> SUFFICES ASSUME Rules[r].lhs \in AfterSlide PROVE look \notin ItemStart \cup {"none"}
    BY <1>2, <1>4 DEF SlideOver
  <2>1. /\ Rules[r].rhs # <<>> /\ Rules[r].rhs \in Seq(Symbols)
        /\ ItemStart \subseteq Reads[Top] \/ AccessingSymbol(Top) \in AfterSlide
    BY <1>1, <1>3, TopIsLast, PlacesAssumption, ActionsAssumption
  <2>2. CASE ItemStart \subseteq Reads[Top]
    <3>1. IF look = "none" THEN ~MustLook(Top) ELSE look \notin Reads[Top]
      BY <1>2 DEF Reduce
    <3>2. MustLook(Top)
      BY <2>2, TokenKinds, NoneIsNoToken DEF MustLook
    <3> QED BY <2>2, <3>1, <3>2
  <2>3. CASE AccessingSymbol(Top) \in AfterSlide
    <3>1. Len(stack) > 1
      <4>1. Len(Rules[r].rhs) # 0
        BY <2>1, EmptySeq
      <4> QED BY <1>3, <1>6, <4>1
    <3>2. Sym(Len(stack)) \in AfterSlide
      BY <1>1, <2>3, TopIsLast DEF Sym
    <3> QED BY <3>1, <3>2 DEF DocumentInv, SlideOver
  <2> QED BY <2>1, <2>2, <2>3
<1>10. Built'
  <2>1. Top # Whole
    BY <1>3, AutomatonAssumption
  <2>2. ast = <<>>
    BY <1>2, <2>1 DEF DocumentInv, Built
  <2>3. CASE StoresProgram(r)
    <3>1. Rules[r].lhs = "program" /\ ast' = <<ValueOf(r)>>
      BY <2>3, ActionsAssumption DEF StoresProgram, HeapReduce
    <3>2. B = 1 /\ stack[B] = Start
      <4>1. B = 1
        BY <1>1, <1>3, <3>1, SlidesAtStart
      <4> QED BY <1>1, <4>1 DEF Path
    <3>3. Top' = Whole
      <4>1. stack'[B + 1] = Whole
        BY <1>4, <3>1, <3>2 DEF Whole
      <4>2. Top' = stack'[Len(stack')]
        BY DEF Top, Last
      <4> QED BY <1>4, <4>1, <4>2
    <3>4. ValueOf(r) = Document(read)
      <4>1. PICK at : MappedOn(at)
        BY <1>2 DEF DocumentInv, Meaning
      <4>2. Continues(read) /\ read \in Seq(Labels)
        BY ReadTyped
      <4>3. at[L] = Len(read) /\ EntriesMean(at, read)
        BY <4>1, <4>2 DEF MappedOn, Mapped, EntriesMean
      <4>4. Denotes(read, "program", at[B] + 1, Len(read), ValueOf(r))
        BY <1>3, <3>1, <4>3, ReduceMeans DEF DocumentInv
      <4>5. SlidesOf(read, Len(read), ValueOf(r))
        BY <4>4, SlidesDenote
      <4> QED BY <4>2, <4>5, DocumentIs
    <3> QED BY <1>2, <3>1, <3>3, <3>4 DEF Built
  <2>4. CASE ~StoresProgram(r)
    <3>1. ast' = ast
      BY <2>4 DEF HeapReduce
    <3> QED BY <2>2, <3>1 DEF Built
  <2> QED BY <2>3, <2>4
<1> QED BY <1>7, <1>8, <1>9, <1>10 DEF DocumentInv

\* Every step keeps what the entries stand for.
LEMMA StepDocumentInv ==
  ParserInv /\ HeapInv /\ DocumentInv /\ [HeapNext]_vars => DocumentInv'
<1> SUFFICES ASSUME ParserInv, HeapInv, DocumentInv, [HeapNext]_vars PROVE DocumentInv'
  OBVIOUS
<1>1. CASE HeapPause \/ UNCHANGED vars
  BY <1>1, PauseDocument
<1>2. CASE \E t \in Offered : HeapPush(t)
  BY <1>2, PushDocument
<1>3. CASE HeapShift
  BY <1>3, ShiftDocument
<1>4. CASE \E r \in DOMAIN Rules : HeapReduce(r)
  BY <1>4, ReduceDocument
<1>5. CASE HeapSyntaxError \/ HeapAccept
  BY <1>5, EndDocument
<1> QED
  BY <1>1, <1>2, <1>3, <1>4, <1>5 DEF HeapNext, HeapStep

(***************************************************************************)
(* The tree is the presentation the tokens denote, whatever the tokens and *)
(* however many: main never finds another, even after an input that was    *)
(* rejected (ProgramSemanticAction and the actions of the lists and slides,*)
(* BisonActions.c).                                                        *)
(***************************************************************************)
THEOREM TreeIsDocument == HeapSpec => []AstIsDocument
<1>1. HeapInit => DocumentInv
  BY InitDocumentInv
<1>2. DocumentInv => AstIsDocument
  BY DEF DocumentInv, Built, AstIsDocument
<1> QED
  BY <1>1, <1>2, StepDocumentInv, HeapInvariant, PTL DEF HeapSpec

=============================================================================
