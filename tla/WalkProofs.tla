----------------------------- MODULE WalkProofs -----------------------------
(***************************************************************************)
(* Theorems about the walk of an IP over a board of any size.              *)
(***************************************************************************)
EXTENDS Walk, GridProofs

USE DEF SW, SE, W, E, NW, NE

\* The IP of a program that is not empty stays on its board, whatever the
\* program's size and however its branches are decided.
THEOREM WalkStaysOnBoard == Spec => []TypeOK
<1>1. Init => TypeOK
  <2> SUFFICES ASSUME Init PROVE TypeOK
    OBVIOUS
  <2>1. IsBoard(program)
    BY SourcesAreTexts, TextsMakeBoards DEF Init
  <2>2. <<0, 0>> \in Board(program.side)
    BY <2>1, MakesBoard DEF IsBoard
  <2>3. GridStart \in GridIPs(program)
    BY <2>2 DEF GridStart, GridIPs, Directions
  <2>4. QED  BY <2>1, <2>3 DEF Init, TypeOK, IsBoard
<1>2. TypeOK /\ [Next]_vars => TypeOK'
  <2> SUFFICES ASSUME TypeOK, [Next]_vars PROVE TypeOK'
    OBVIOUS
  <2>1. CASE Next
    <3>1. IsBoard(program) /\ program' = program
      BY <2>1 DEF TypeOK, IsBoard, Next
    <3>2. ip' \in GridIPs(program)
      BY <2>1, <3>1, AdvanceWalks DEF Next, Advance, TypeOK
    <3>3. QED  BY <3>1, <3>2 DEF TypeOK
  <2>2. CASE UNCHANGED vars
    BY <2>2 DEF vars, TypeOK
  <2>3. QED  BY <2>1, <2>2
<1>3. QED  BY <1>1, <1>2, PTL DEF Spec

-----------------------------------------------------------------------------
(* The walker's step is the step of the edge rule.                         *)

\* The wraps with % side in program_walker::advance, next to the edges.
LEMMA Around ==
  ASSUME NEW n \in Nat \ {0}, NEW x \in 0 .. n - 1
  PROVE  /\ (x + 1) % n = IF x + 1 = n THEN 0 ELSE x + 1
         /\ (x - 1) % n = IF x = 0 THEN n - 1 ELSE x - 1
<1>1. CASE x + 1 = n
  BY <1>1
<1>2. \A y \in 0 .. n - 1 : y % n = y
  OBVIOUS
<1>3. CASE x + 1 # n
  BY <1>2, <1>3
<1>4. (0 - 1) % n = n - 1
  OBVIOUS
<1>5. QED
  BY <1>1, <1>2, <1>3, <1>4

\* The first cell of a row or diagonal, for a heading.
LineStart(d, line, n) ==
  CASE d \in {SW, W}  -> <<line, line>>
    [] d = NE         -> <<n - 1, line>>
    [] d \in {E, SE}  -> <<line, 0>>
    [] d = NW         -> <<n - 1, n - 1 - line>>

\* Where each line of the edge rule starts: the one cell of the line without a
\* cell behind it, in coordinates.
LEMMA StartsThere ==
  ASSUME NEW n \in Nat \ {0}, NEW d \in Directions, NEW line \in 0 .. n - 1
  PROVE  StartOfLine(d, line, n) = LineStart(d, line, n)
<1> DEFINE Starts(p) == LineOf(d, p) = line /\ Minus(p, Unit(d)) \notin Board(n)
<1>1. ASSUME NEW r \in 0 .. n - 1, NEW c \in 0 .. n - 1, c <= r
      PROVE  Starts(<<r, c>>) <=> <<r, c>> = LineStart(d, line, n)
  <2>1. \A a, b \in Int :
          <<a, b>> \in Board(n) <=> a \in 0 .. n - 1 /\ b \in 0 .. n - 1 /\ b <= a
    BY DEF Board, OnBoard
  <2>2. CASE d = SW
    <3>1. Minus(<<r, c>>, Unit(d)) = <<r - 1, c>>
      BY <2>2 DEF Minus, Unit
    <3>2. LineOf(d, <<r, c>>) = c
      BY <2>2 DEF LineOf
    <3>3. LineStart(d, line, n) = <<line, line>>
      BY <2>2 DEF LineStart
    <3>4. Starts(<<r, c>>) <=> c = line /\ <<r - 1, c>> \notin Board(n)
      BY <3>1, <3>2
    <3>5. QED  BY <1>1, <2>1, <3>3, <3>4
  <2>3. CASE d = W
    BY <1>1, <2>1, <2>3 DEF LineOf, Minus, Unit, LineStart
  <2>4. CASE d = NE
    BY <1>1, <2>1, <2>4 DEF LineOf, Minus, Unit, LineStart
  <2>5. CASE d = E
    BY <1>1, <2>1, <2>5 DEF LineOf, Minus, Unit, LineStart
  <2>6. CASE d = SE
    <3>1. Minus(<<r, c>>, Unit(d)) = <<r - 1, c - 1>>
      BY <2>6 DEF Minus, Unit
    <3>2. LineOf(d, <<r, c>>) = r - c
      BY <2>6 DEF LineOf
    <3>3. LineStart(d, line, n) = <<line, 0>>
      BY <2>6 DEF LineStart
    <3>4. Starts(<<r, c>>) <=> r - c = line /\ <<r - 1, c - 1>> \notin Board(n)
      BY <3>1, <3>2
    <3>5. QED  BY <1>1, <2>1, <3>3, <3>4
  <2>7. CASE d = NW
    BY <1>1, <2>1, <2>7 DEF LineOf, Minus, Unit, LineStart
  <2>8. QED
    BY <2>2, <2>3, <2>4, <2>5, <2>6, <2>7 DEF Directions
<1>2. LineStart(d, line, n) \in Board(n)
  BY DEF LineStart, Board, OnBoard, Directions
<1> HIDE DEF Starts
<1>3. ASSUME NEW p \in Board(n)
      PROVE  Starts(p) <=> p = LineStart(d, line, n)
  <2>1. p = <<p[1], p[2]>> /\ p[1] \in 0 .. n - 1 /\ p[2] \in 0 .. n - 1 /\ p[2] <= p[1]
    BY OnTheBoard
  <2>2. QED  BY <1>1, <2>1
<1>4. LineStart(d, line, n) = CHOOSE p \in Board(n) : Starts(p)
  BY <1>2, <1>3
<1>5. QED
  BY <1>4 DEF StartOfLine, Starts

\* On a board of any size, program_walker::advance is the step of the edge rule.
LEMMA StepIsRule ==
  ASSUME NEW n \in Nat \ {0}, NEW coords \in Board(n), NEW d \in Directions
  PROVE  StepFrom(coords, d, n) = RuleStep(d, coords, n)
<1> DEFINE r == coords[1]
           c == coords[2]
           ahead == Plus(coords, Unit(d))
           left == LeftOf(d, LineOf(d, coords), n)
<1>1. coords = <<r, c>> /\ r \in 0 .. n - 1 /\ c \in 0 .. n - 1 /\ c <= r
  BY OnTheBoard
<1>2. StepFrom(coords, d, n) =
        CASE d = SW -> StepSW(r, c, n) [] d = W -> StepW(r, c, n)
          [] d = NW -> StepNW(r, c, n) [] d = NE -> StepNE(r, c, n)
          [] d = E  -> StepE(r, c, n)  [] d = SE -> StepSE(r, c, n)
  BY DEF StepFrom
<1>3. RuleStep(d, coords, n) =
        IF ahead \in Board(n) THEN ahead ELSE StartOfLine(d, left, n)
  BY DEF RuleStep
<1>4. ahead = <<r + Unit(d)[1], c + Unit(d)[2]>>
  BY DEF Plus
<1>5. LineOf(d, coords) =
        CASE d \in {SW, NE} -> c [] d \in {E, W} -> r [] d \in {NW, SE} -> r - c
  BY DEF LineOf
<1>6. LineOf(d, coords) \in 0 .. n - 1
  BY <1>1, <1>5 DEF Directions
<1> HIDE DEF r, c, ahead
<1>7. left = IF d \in {SW, W, NW}
             THEN IF LineOf(d, coords) + 1 = n THEN 0 ELSE LineOf(d, coords) + 1
             ELSE IF LineOf(d, coords) = 0 THEN n - 1 ELSE LineOf(d, coords) - 1
  BY <1>6, Around DEF LeftOf
<1>8. left \in 0 .. n - 1
  BY <1>6, <1>7
<1>9. StartOfLine(d, left, n) = LineStart(d, left, n)
  BY <1>8, StartsThere
<1> HIDE DEF left
<1>10. \A a, b \in Int :
         <<a, b>> \in Board(n) <=> a \in 0 .. n - 1 /\ b \in 0 .. n - 1 /\ b <= a
  BY DEF Board, OnBoard
<1>11. CASE d = SW
  <2>1. StepSW(r, c, n) = IF r + 1 = n THEN <<left, left>> ELSE <<r + 1, c>>
    <3>1. (c + 1) % n = IF c + 1 = n THEN 0 ELSE c + 1
      BY <1>1, Around
    <3>2. left = IF c + 1 = n THEN 0 ELSE c + 1
      BY <1>5, <1>7, <1>11
    <3>3. QED  BY <3>1, <3>2 DEF StepSW
  <2>2. QED
    BY <1>1, <1>2, <1>3, <1>4, <1>9, <1>10, <1>11, <2>1 DEF Unit, LineStart
<1>12. CASE d = W
  BY <1>1, <1>2, <1>3, <1>4, <1>5, <1>7, <1>9, <1>10, <1>12
     DEF StepW, Unit, LineStart
<1>13. CASE d = NE
  BY <1>1, <1>2, <1>3, <1>4, <1>5, <1>7, <1>9, <1>10, <1>13
     DEF StepNE, Unit, LineStart
<1>14. CASE d = E
  BY <1>1, <1>2, <1>3, <1>4, <1>5, <1>7, <1>9, <1>10, <1>14
     DEF StepE, Unit, LineStart
<1>15. CASE d = SE
  BY <1>1, <1>2, <1>3, <1>4, <1>5, <1>7, <1>9, <1>10, <1>15
     DEF StepSE, Unit, LineStart
<1>16. CASE d = NW
  <2>1. StepFrom(coords, d, n) = StepNW(r, c, n)
    BY <1>2, <1>16
  <2>2. ahead = <<r - 1, c - 1>>
    BY <1>1, <1>4, <1>16 DEF Unit
  <2>3. left = IF r - c + 1 = n THEN 0 ELSE r - c + 1
    BY <1>5, <1>7, <1>16
  <2>4. StartOfLine(d, left, n) = <<n - 1, n - 1 - left>>
    BY <1>9, <1>16 DEF LineStart
  <2>5. ahead \in Board(n) <=> c # 0
    BY <1>1, <1>10, <2>2
  <2>6. QED  BY <1>1, <1>3, <2>1, <2>2, <2>3, <2>4, <2>5 DEF StepNW
<1>17. QED
  BY <1>11, <1>12, <1>13, <1>14, <1>15, <1>16 DEF Directions

\* Wherever an IP can get, on a board of any size, it steps as README.md says.
THEOREM WalkStepsByTheRule == Spec => []StepsByTheRule
<1>1. TypeOK => StepsByTheRule
  <2> SUFFICES ASSUME TypeOK PROVE StepsByTheRule
    OBVIOUS
  <2>1. program.side \in Nat \ {0} /\ ip.coords \in Board(program.side)
    BY IPs DEF TypeOK
  <2>2. QED  BY <2>1, StepIsRule DEF StepsByTheRule
<1>2. QED  BY <1>1, WalkStaysOnBoard, PTL

-----------------------------------------------------------------------------
(* A step can be taken back.                                               *)

\* The six cases of program_walker::advance are three pairs of inverses.
LEMMA StepGoesBack ==
  ASSUME NEW n \in Nat \ {0}, NEW r \in 0 .. n - 1, NEW c \in 0 .. n - 1, c <= r
  PROVE  /\ LET p == StepSW(r, c, n) IN StepNE(p[1], p[2], n) = <<r, c>>
         /\ LET p == StepNE(r, c, n) IN StepSW(p[1], p[2], n) = <<r, c>>
         /\ LET p == StepW(r, c, n)  IN StepE(p[1], p[2], n) = <<r, c>>
         /\ LET p == StepE(r, c, n)  IN StepW(p[1], p[2], n) = <<r, c>>
         /\ LET p == StepNW(r, c, n) IN StepSE(p[1], p[2], n) = <<r, c>>
         /\ LET p == StepSE(r, c, n) IN StepNW(p[1], p[2], n) = <<r, c>>
<1>1. LET p == StepSW(r, c, n) IN StepNE(p[1], p[2], n) = <<r, c>>
  <2>1. (c + 1) % n = IF c + 1 = n THEN 0 ELSE c + 1
    BY Around
  <2>2. CASE r + 1 = n /\ c + 1 = n
    BY <2>1, <2>2 DEF StepSW, StepNE
  <2>3. CASE r + 1 = n /\ c + 1 # n
    BY <2>1, <2>3 DEF StepSW, StepNE
  <2>4. CASE r + 1 # n
    BY <2>4 DEF StepSW, StepNE
  <2>5. QED  BY <2>2, <2>3, <2>4
<1>2. LET p == StepNE(r, c, n) IN StepSW(p[1], p[2], n) = <<r, c>>
  <2>1. CASE c = r /\ c = 0
    <3>1. StepNE(r, c, n) = <<n - 1, n - 1>>
      BY <2>1 DEF StepNE
    <3>2. n % n = 0
      OBVIOUS
    <3>3. QED  BY <2>1, <3>1, <3>2 DEF StepSW
  <2>2. CASE c = r /\ c # 0
    <3>1. StepNE(r, c, n) = <<n - 1, c - 1>>
      BY <2>2 DEF StepNE
    <3>2. c % n = c
      OBVIOUS
    <3>3. QED  BY <2>2, <3>1, <3>2 DEF StepSW
  <2>3. CASE c # r
    BY <2>3 DEF StepNE, StepSW
  <2>4. QED  BY <2>1, <2>2, <2>3
<1>3. LET p == StepW(r, c, n) IN StepE(p[1], p[2], n) = <<r, c>>
  BY DEF StepW, StepE
<1>4. LET p == StepE(r, c, n) IN StepW(p[1], p[2], n) = <<r, c>>
  BY DEF StepW, StepE
<1>5. LET p == StepNW(r, c, n) IN StepSE(p[1], p[2], n) = <<r, c>>
  BY DEF StepNW, StepSE
<1>6. LET p == StepSE(r, c, n) IN StepNW(p[1], p[2], n) = <<r, c>>
  BY DEF StepNW, StepSE
<1>7. QED
  BY <1>1, <1>2, <1>3, <1>4, <1>5, <1>6

\* Any step of an IP, on a board of any size, is undone by turning round and
\* stepping again.
THEOREM WalkCanBeRetraced == Spec => []StepsRetrace
<1>1. TypeOK => StepsRetrace
  <2> SUFFICES ASSUME TypeOK, NEW d \in Directions
               PROVE  StepFrom(StepFrom(ip.coords, d, program.side), Opposite(d),
                               program.side) = ip.coords
    BY DEF StepsRetrace
  <2> DEFINE n == program.side
             r == ip.coords[1]
             c == ip.coords[2]
  <2>1. n \in Nat \ {0} /\ ip.coords \in Board(n)
    BY IPs DEF TypeOK
  <2>2. ip.coords = <<r, c>> /\ r \in 0 .. n - 1 /\ c \in 0 .. n - 1 /\ c <= r
    BY <2>1, OnTheBoard
  <2> HIDE DEF n, r, c
  <2>3. /\ LET p == StepSW(r, c, n) IN StepNE(p[1], p[2], n) = <<r, c>>
        /\ LET p == StepNE(r, c, n) IN StepSW(p[1], p[2], n) = <<r, c>>
        /\ LET p == StepW(r, c, n)  IN StepE(p[1], p[2], n) = <<r, c>>
        /\ LET p == StepE(r, c, n)  IN StepW(p[1], p[2], n) = <<r, c>>
        /\ LET p == StepNW(r, c, n) IN StepSE(p[1], p[2], n) = <<r, c>>
        /\ LET p == StepSE(r, c, n) IN StepNW(p[1], p[2], n) = <<r, c>>
    BY <2>1, <2>2, StepGoesBack
  <2>4. StepFrom(StepFrom(ip.coords, d, n), Opposite(d), n) = ip.coords
    BY <2>2, <2>3 DEF StepFrom, Opposite, Directions
  <2>5. QED  BY <2>4 DEF n
<1>2. QED  BY <1>1, WalkStaysOnBoard, PTL

-----------------------------------------------------------------------------
(* Mirrors and branches turn an IP as the tables say.                      *)

\* Every opcode heads one column of the tables.
LEMMA EntryOf ==
  ASSUME NEW k \in 1 .. 10, NEW d, NEW goLeft
  PROVE  TableHeading(Columns[k], d, goLeft) =
           IF IsBranch(Columns[k], d)
           THEN Row(d)[k][IF goLeft THEN 1 ELSE 2] ELSE Row(d)[k]
<1> DEFINE op == Columns[k]
           column == CHOOSE j \in DOMAIN Columns : Columns[j] = op
<1>1. column = k
  BY DEF Columns
<1>2. TableHeading(op, d, goLeft) =
        IF IsBranch(op, d) THEN Row(d)[column][IF goLeft THEN 1 ELSE 2]
                           ELSE Row(d)[column]
  BY DEF TableHeading
<1> HIDE DEF op, column
<1>3. TableHeading(op, d, goLeft) =
        IF IsBranch(op, d) THEN Row(d)[k][IF goLeft THEN 1 ELSE 2] ELSE Row(d)[k]
  BY <1>1, <1>2
<1>4. QED
  BY <1>3 DEF op

\* The heading after the holder's advance is the one that reflect or branch
\* returns: the steps that follow keep it.
LEMMA AdvanceTurns ==
  ASSUME NEW p, NEW x, NEW goLeft, DOMAIN x = {"coords", "dir"}
  PROVE  LET op == CellAt(p, x.coords)
         IN /\ op \in Mirrors => GridAdvance(p, x, goLeft).dir = Reflect(x.dir, op)
            /\ op \in Branches =>
                 GridAdvance(p, x, goLeft).dir = Branch(x.dir, op, goLeft)
  BY DEF GridAdvance, Step, Mirrors, Branches, ThreadOps

\* What a mirror does, from its pairs of headings.
LEMMA ReflectIs ==
  ASSUME NEW d \in Directions, NEW mirror, NEW e \in Directions,
         e = d => \A pair \in Swaps(mirror) : d \notin pair,
         e # d => {d, e} \in Swaps(mirror),
         \A o \in Directions : o # d /\ {d, o} \in Swaps(mirror) => o = e
  PROVE  Reflect(d, mirror) = e
<1>1. CASE e = d
  BY <1>1 DEF Reflect
<1>2. CASE e # d
  <2>1. \E pair \in Swaps(mirror) : d \in pair
    BY <1>2
  <2>2. (CHOOSE o \in Directions : o # d /\ {d, o} \in Swaps(mirror)) = e
    BY <1>2
  <2>3. QED  BY <2>1, <2>2 DEF Reflect
<1>3. QED  BY <1>1, <1>2

\* program_walker::reflect is the README's table of mirrors, row by row.
LEMMA ReflectsByTheTable ==
  ASSUME NEW d \in Directions, NEW op \in Mirrors, NEW goLeft \in BOOLEAN
  PROVE  Reflect(d, op) = TableHeading(op, d, goLeft)
<1>1. ~IsBranch(op, d)
  BY DEF IsBranch, Mirrors, Branches, ThreadOps
<1>2. CASE op = "MIR_NS"
  <2>1. Columns[7] = op
    BY <1>2 DEF Columns
  <2>2. TableHeading(op, d, goLeft) =
          IF IsBranch(op, d) THEN Row(d)[7][IF goLeft THEN 1 ELSE 2] ELSE Row(d)[7]
    BY <2>1, EntryOf
  <2>3. TableHeading(op, d, goLeft) = Row(d)[7]
    BY <1>1, <2>2
  <2>4. /\ Row(d)[7] \in Directions
        /\ Row(d)[7] = d => \A pair \in Swaps(op) : d \notin pair
        /\ Row(d)[7] # d => {d, Row(d)[7]} \in Swaps(op)
        /\ \A o \in Directions : o # d /\ {d, o} \in Swaps(op) => o = Row(d)[7]
    BY <1>2 DEF Swaps, Row, Directions
  <2>5. QED  BY <2>3, <2>4, ReflectIs
<1>3. CASE op = "MIR_EW"
  <2>1. Columns[8] = op
    BY <1>3 DEF Columns
  <2>2. TableHeading(op, d, goLeft) =
          IF IsBranch(op, d) THEN Row(d)[8][IF goLeft THEN 1 ELSE 2] ELSE Row(d)[8]
    BY <2>1, EntryOf
  <2>3. TableHeading(op, d, goLeft) = Row(d)[8]
    BY <1>1, <2>2
  <2>4. /\ Row(d)[8] \in Directions
        /\ Row(d)[8] = d => \A pair \in Swaps(op) : d \notin pair
        /\ Row(d)[8] # d => {d, Row(d)[8]} \in Swaps(op)
        /\ \A o \in Directions : o # d /\ {d, o} \in Swaps(op) => o = Row(d)[8]
    BY <1>3 DEF Swaps, Row, Directions
  <2>5. QED  BY <2>3, <2>4, ReflectIs
<1>4. CASE op = "MIR_NESW"
  <2>1. Columns[9] = op
    BY <1>4 DEF Columns
  <2>2. TableHeading(op, d, goLeft) =
          IF IsBranch(op, d) THEN Row(d)[9][IF goLeft THEN 1 ELSE 2] ELSE Row(d)[9]
    BY <2>1, EntryOf
  <2>3. TableHeading(op, d, goLeft) = Row(d)[9]
    BY <1>1, <2>2
  <2>4. /\ Row(d)[9] \in Directions
        /\ Row(d)[9] = d => \A pair \in Swaps(op) : d \notin pair
        /\ Row(d)[9] # d => {d, Row(d)[9]} \in Swaps(op)
        /\ \A o \in Directions : o # d /\ {d, o} \in Swaps(op) => o = Row(d)[9]
    BY <1>4 DEF Swaps, Row, Directions
  <2>5. QED  BY <2>3, <2>4, ReflectIs
<1>5. CASE op = "MIR_NWSE"
  <2>1. Columns[10] = op
    BY <1>5 DEF Columns
  <2>2. TableHeading(op, d, goLeft) =
          IF IsBranch(op, d) THEN Row(d)[10][IF goLeft THEN 1 ELSE 2] ELSE Row(d)[10]
    BY <2>1, EntryOf
  <2>3. TableHeading(op, d, goLeft) = Row(d)[10]
    BY <1>1, <2>2
  <2>4. /\ Row(d)[10] \in Directions
        /\ Row(d)[10] = d => \A pair \in Swaps(op) : d \notin pair
        /\ Row(d)[10] # d => {d, Row(d)[10]} \in Swaps(op)
        /\ \A o \in Directions : o # d /\ {d, o} \in Swaps(op) => o = Row(d)[10]
    BY <1>5 DEF Swaps, Row, Directions
  <2>5. QED  BY <2>3, <2>4, ReflectIs
<1>6. QED
  BY <1>2, <1>3, <1>4, <1>5 DEF Mirrors

\* program_walker::branch is the README's table of branches, row by row.
LEMMA BranchesByTheTable ==
  ASSUME NEW d \in Directions, NEW op \in Branches, NEW goLeft \in BOOLEAN
  PROVE  Branch(d, op, goLeft) = TableHeading(op, d, goLeft)
<1>1. IsBranch(op, d) <=> d = ForkOf(op).from
  BY DEF IsBranch
<1>2. op \notin ThreadOps
  BY DEF Branches, ThreadOps
<1>3. CASE op = "BNG_NE"
  <2>1. Columns[1] = op
    BY <1>3 DEF Columns
  <2>2. TableHeading(op, d, goLeft) =
          IF IsBranch(op, d) THEN Row(d)[1][IF goLeft THEN 1 ELSE 2] ELSE Row(d)[1]
    BY <2>1, EntryOf
  <2>3. QED  BY <1>1, <1>2, <1>3, <2>2 DEF Branch, ForkOf, Fork, Opposite, Row, Directions
<1>4. CASE op = "BNG_E"
  <2>1. Columns[2] = op
    BY <1>4 DEF Columns
  <2>2. TableHeading(op, d, goLeft) =
          IF IsBranch(op, d) THEN Row(d)[2][IF goLeft THEN 1 ELSE 2] ELSE Row(d)[2]
    BY <2>1, EntryOf
  <2>3. QED  BY <1>1, <1>2, <1>4, <2>2 DEF Branch, ForkOf, Fork, Opposite, Row, Directions
<1>5. CASE op = "BNG_SE"
  <2>1. Columns[3] = op
    BY <1>5 DEF Columns
  <2>2. TableHeading(op, d, goLeft) =
          IF IsBranch(op, d) THEN Row(d)[3][IF goLeft THEN 1 ELSE 2] ELSE Row(d)[3]
    BY <2>1, EntryOf
  <2>3. QED  BY <1>1, <1>2, <1>5, <2>2 DEF Branch, ForkOf, Fork, Opposite, Row, Directions
<1>6. CASE op = "BNG_SW"
  <2>1. Columns[4] = op
    BY <1>6 DEF Columns
  <2>2. TableHeading(op, d, goLeft) =
          IF IsBranch(op, d) THEN Row(d)[4][IF goLeft THEN 1 ELSE 2] ELSE Row(d)[4]
    BY <2>1, EntryOf
  <2>3. QED  BY <1>1, <1>2, <1>6, <2>2 DEF Branch, ForkOf, Fork, Opposite, Row, Directions
<1>7. CASE op = "BNG_W"
  <2>1. Columns[5] = op
    BY <1>7 DEF Columns
  <2>2. TableHeading(op, d, goLeft) =
          IF IsBranch(op, d) THEN Row(d)[5][IF goLeft THEN 1 ELSE 2] ELSE Row(d)[5]
    BY <2>1, EntryOf
  <2>3. QED  BY <1>1, <1>2, <1>7, <2>2 DEF Branch, ForkOf, Fork, Opposite, Row, Directions
<1>8. CASE op = "BNG_NW"
  <2>1. Columns[6] = op
    BY <1>8 DEF Columns
  <2>2. TableHeading(op, d, goLeft) =
          IF IsBranch(op, d) THEN Row(d)[6][IF goLeft THEN 1 ELSE 2] ELSE Row(d)[6]
    BY <2>1, EntryOf
  <2>3. QED  BY <1>1, <1>2, <1>8, <2>2 DEF Branch, ForkOf, Fork, Opposite, Row, Directions
<1>9. QED
  BY <1>3, <1>4, <1>5, <1>6, <1>7, <1>8 DEF Branches

\* On a board of any size, mirrors and branches turn an IP as the tables of
\* README.md say.
THEOREM WalkFollowsTheTables == Spec => []HeadingsFollowTheTables
<1>1. TypeOK => HeadingsFollowTheTables
  <2> DEFINE op == CellAt(program, ip.coords)
  <2> SUFFICES ASSUME TypeOK, op \in Branches \cup Mirrors, NEW goLeft \in BOOLEAN
               PROVE  GridAdvance(program, ip, goLeft).dir = TableHeading(op, ip.dir, goLeft)
    BY DEF HeadingsFollowTheTables
  <2>1. ip.dir \in Directions /\ DOMAIN ip = {"coords", "dir"}
    BY IPs DEF TypeOK, GridIPs
  <2>2. CASE op \in Mirrors
    BY <2>1, <2>2, AdvanceTurns, ReflectsByTheTable
  <2>3. CASE op \in Branches
    BY <2>1, <2>3, AdvanceTurns, BranchesByTheTable
  <2>4. QED  BY <2>2, <2>3
<1>2. QED  BY <1>1, WalkStaysOnBoard, PTL
=============================================================================
