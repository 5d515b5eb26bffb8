----------------------------- MODULE GridProofs -----------------------------
(***************************************************************************)
(* Lemmas about the grid, for boards of every size, and the two theorems   *)
(* that make it a program holder; and what the other proofs need of folds  *)
(* and of induction.                                                       *)
(***************************************************************************)
EXTENDS ProgramWalker, SequencesExt, SequenceTheorems, FiniteSetTheorems, WellFoundedInduction, TLAPS

USE DEF SW, SE, W, E, NW, NE

\* The rows and columns of a board.
LEMMA OnTheBoard ==
  ASSUME NEW n \in Nat \ {0}, NEW coords \in Board(n)
  PROVE  /\ coords = <<coords[1], coords[2]>>
         /\ coords[1] \in 0 .. n - 1 /\ coords[2] \in 0 .. n - 1
         /\ coords[2] <= coords[1]
  BY DEF Board, OnBoard

\* The coordinates of a cell, row and column from 0, are on the board (program::at).
LEMMA MakesBoard ==
  ASSUME NEW n \in Nat \ {0}, NEW r \in 0 .. n - 1, NEW c \in 0 .. n - 1, c <= r
  PROVE  <<r, c>> \in Board(n)
  BY DEF Board, OnBoard

\* program_walker::advance keeps an IP on the board, whatever its size.
LEMMA StepStays ==
  ASSUME NEW n \in Nat \ {0}, NEW coords \in Board(n), NEW d \in Directions
  PROVE  StepFrom(coords, d, n) \in Board(n)
<1> DEFINE r == coords[1]
           c == coords[2]
<1>1. r \in 0 .. n - 1 /\ c \in 0 .. n - 1 /\ c <= r
  BY OnTheBoard
<1>2. StepFrom(coords, d, n) =
        CASE d = SW -> StepSW(r, c, n) [] d = W -> StepW(r, c, n)
          [] d = NW -> StepNW(r, c, n) [] d = NE -> StepNE(r, c, n)
          [] d = E  -> StepE(r, c, n)  [] d = SE -> StepSE(r, c, n)
  BY DEF StepFrom
<1> HIDE DEF r, c
<1>3. StepSW(r, c, n) \in Board(n)
  <2>1. CASE r + 1 = n
    <3>1. (c + 1) % n \in 0 .. n - 1
      BY <1>1
    <3>2. QED  BY <2>1, <3>1, MakesBoard DEF StepSW
  <2>2. CASE r + 1 # n
    <3>1. r + 1 \in 0 .. n - 1 /\ c <= r + 1
      BY <1>1, <2>2
    <3>2. QED  BY <1>1, <2>2, <3>1, MakesBoard DEF StepSW
  <2>3. QED  BY <2>1, <2>2
<1>4. StepW(r, c, n) \in Board(n)
  BY <1>1 DEF StepW, Board, OnBoard
<1>5. StepNW(r, c, n) \in Board(n)
  BY <1>1 DEF StepNW, Board, OnBoard
<1>6. StepNE(r, c, n) \in Board(n)
  BY <1>1 DEF StepNE, Board, OnBoard
<1>7. StepE(r, c, n) \in Board(n)
  BY <1>1 DEF StepE, Board, OnBoard
<1>8. StepSE(r, c, n) \in Board(n)
  BY <1>1 DEF StepSE, Board, OnBoard
<1>9. QED
  BY <1>2, <1>3, <1>4, <1>5, <1>6, <1>7, <1>8 DEF Directions

-----------------------------------------------------------------------------
(* The board that a text makes.                                            *)

\* A set of natural numbers has a least element.  (The initial segments that
\* end in its elements are finite sets, which are well-founded by inclusion.)
LEMMA LeastNumber ==
  ASSUME NEW S, S \subseteq Nat, S # {}
  PROVE  \E n \in S : \A m \in S : n <= m
<1> DEFINE R == StrictSubsetOrdering(Nat)
           T == { 0 .. n : n \in S }
<1>1. IsWellFoundedOn(R, FiniteSubsetsOf(Nat))
  BY FS_StrictSubsetOrderingWellFounded
<1>2. T \subseteq FiniteSubsetsOf(Nat) /\ T # {}
  <2>1. ASSUME NEW n \in S  PROVE 0 .. n \in FiniteSubsetsOf(Nat)
    <3>1. 0 \in Int /\ n \in Int
      OBVIOUS
    <3>2. IsFiniteSet(0 .. n)
      BY <3>1, FS_Interval
    <3>3. QED  BY <3>2 DEF FiniteSubsetsOf
  <2>2. QED  BY <2>1
<1> HIDE DEF R, T
<1>3. PICK x \in T : \A y \in T : ~ (<<y, x>> \in R)
  BY <1>1, <1>2, WFMin
<1>4. PICK n \in S : x = 0 .. n
  BY DEF T
<1>5. ASSUME NEW m \in S, m < n  PROVE FALSE
  <2>1. 0 .. m \in T
    BY DEF T
  <2>2. 0 .. m \subseteq 0 .. n /\ n \in 0 .. n /\ n \notin 0 .. m
    BY <1>5
  <2>3. <<0 .. m, 0 .. n>> \in R
    BY <2>2 DEF R, StrictSubsetOrdering
  <2>4. QED  BY <1>3, <1>4, <2>1, <2>3
<1>6. QED
  BY <1>5

\* program::program finds a side: the smallest triangle that holds the text.
LEMMA SideExists ==
  ASSUME NEW length \in Nat
  PROVE  \E n \in 0 .. length :
           /\ Triangular(n) >= length
           /\ \A m \in 0 .. n - 1 : Triangular(m) < length
<1> DEFINE S == { n \in 0 .. length : Triangular(n) >= length }
<1>1. length * (length + 1) >= 2 * length
  <2>1. CASE length = 0
    BY <2>1
  <2>2. CASE length >= 1
    <3>1. length + 1 >= 2
      BY <2>2
    <3>2. QED  BY <3>1
  <2>3. QED  BY <2>1, <2>2
<1>2. \A n \in Nat : n * (n + 1) \in Nat
  OBVIOUS
<1>3. ASSUME NEW a \in Nat, a >= 2 * length  PROVE a \div 2 >= length
  BY <1>3
<1>4. Triangular(length) >= length
  BY <1>1, <1>2, <1>3 DEF Triangular
<1>5. length \in S
  BY <1>4
<1>6. S \subseteq Nat /\ S # {}
  BY <1>5
<1>7. \A n \in Nat : Triangular(n) \in Nat
  BY <1>2 DEF Triangular
<1> HIDE DEF S
<1>8. PICK n \in S : \A m \in S : n <= m
  BY <1>6, LeastNumber
<1>9. n \in 0 .. length /\ Triangular(n) >= length
  BY DEF S
<1>10. ASSUME NEW m \in 0 .. n - 1  PROVE Triangular(m) < length
  <2>1. m \in 0 .. length /\ m < n /\ m \in Nat
    BY <1>9
  <2>2. m \notin S
    BY <1>8, <1>9, <2>1
  <2>3. ~ (Triangular(m) >= length)
    BY <2>1, <2>2 DEF S
  <2>4. QED  BY <1>7, <2>1, <2>3
<1>11. QED
  BY <1>9, <1>10

\* The cells of a program that is not empty fill a triangle.
IsBoard(p) == /\ p.side \in Nat \ {0}
              /\ DOMAIN p.code = 1 .. Triangular(p.side)

\* A program made from a text has a cell for every place of its board, so that
\* program::at never reads past the end of the text.
LEMMA TextsMakeBoards ==
  ASSUME NEW source, Stripped(source) \in Seq(STRING), MakeProgram(source).side # 0
  PROVE  IsBoard(MakeProgram(source))
<1> DEFINE code == Stripped(source)
           Fits(n) == /\ Triangular(n) >= Len(code)
                      /\ \A m \in 0 .. n - 1 : Triangular(m) < Len(code)
           side == CHOOSE n \in 0 .. Len(code) : Fits(n)
<1>1. Len(code) \in Nat
  OBVIOUS
<1>2. \E n \in 0 .. Len(code) : Fits(n)
  BY <1>1, SideExists
<1>3. side \in 0 .. Len(code)
  BY <1>2
<1>4. /\ MakeProgram(source).side = side
      /\ DOMAIN MakeProgram(source).code = 1 .. Triangular(side)
  BY DEF MakeProgram
<1>5. QED
  BY <1>1, <1>3, <1>4 DEF IsBoard

\* Every place of a board has a cell of its own (program::at).
LEMMA CellIsThere ==
  ASSUME NEW n \in Nat \ {0}, NEW coords \in Board(n)
  PROVE  Triangular(coords[1]) + coords[2] + 1 \in 1 .. Triangular(n)
<1> DEFINE r == coords[1]
           c == coords[2]
<1>1. r \in 0 .. n - 1 /\ c \in 0 .. n - 1 /\ c <= r
  BY OnTheBoard
<1> HIDE DEF r, c
<1>2. (r + 1) * (r + 2) <= n * (n + 1)
  <2>1. r + 1 \in Nat /\ r + 2 \in Nat /\ r + 1 <= n /\ r + 2 <= n + 1
    BY <1>1
  <2>2. (r + 1) * (r + 2) <= n * (r + 2)
    BY <2>1
  <2>3. n * (r + 2) <= n * (n + 1)
    BY <2>1
  <2> QED  BY <2>1, <2>2, <2>3
<1>3. (r + 1) * (r + 2) = r * (r + 1) + 2 * (r + 1)
  BY <1>1
<1>4. \A a, b, m \in Nat : a + 2 * b <= m => /\ a \div 2 \in Nat /\ m \div 2 \in Nat
                                           /\ a \div 2 + b <= m \div 2
  OBVIOUS
<1>5. /\ Triangular(r) \in Nat /\ Triangular(n) \in Nat
      /\ Triangular(r) + (r + 1) <= Triangular(n)
  <2>1. r * (r + 1) \in Nat /\ r + 1 \in Nat /\ n * (n + 1) \in Nat
    BY <1>1
  <2>2. r * (r + 1) + 2 * (r + 1) <= n * (n + 1)
    BY <1>2, <1>3
  <2> QED  BY <1>4, <2>1, <2>2 DEF Triangular
<1>6. Triangular(r) + c + 1 \in 1 .. Triangular(n)
  BY <1>1, <1>5
<1> QED  BY <1>6 DEF r, c

\* The cells of a board are those of its text, and NOPs.
LEMMA CellsOfText ==
  ASSUME NEW S, "NOP" \in S, NEW source, Stripped(source) \in Seq(S),
         MakeProgram(source).side \in Nat \ {0},
         NEW coords \in Board(MakeProgram(source).side)
  PROVE  CellAt(MakeProgram(source), coords) \in S
<1> DEFINE p == MakeProgram(source)
           code == Stripped(source)
           k == Triangular(coords[1]) + coords[2] + 1
<1>1. k \in 1 .. Triangular(p.side)
  BY CellIsThere
<1>2. \A i \in 1 .. Triangular(p.side) :
        p.code[i] = IF i <= Len(code) THEN code[i] ELSE "NOP"
  BY DEF MakeProgram
<1>3. Triangular(p.side) \in Int
  BY DEF Triangular
<1>4. Len(code) \in Nat /\ \A i \in 1 .. Len(code) : code[i] \in S
  BY ElementOfSeq, LenProperties
<1> HIDE DEF p, code, k
<1>5. p.code[k] \in S
  BY <1>1, <1>2, <1>3, <1>4
<1> QED  BY <1>5 DEF CellAt, p, k

-----------------------------------------------------------------------------
(* The walker's step keeps the IP on the board.                            *)

\* An IP of the grid is a place on the board with one of the six headings
\* (struct instruction_pointer).
LEMMA IPs ==
  ASSUME NEW p, NEW x
  PROVE  x \in GridIPs(p) <=>
           /\ x = [coords |-> x.coords, dir |-> x.dir]
           /\ x.coords \in Board(p.side) /\ x.dir \in Directions
  BY DEF GridIPs

\* program_walker::reflect turns each of the six headings into one of them.
LEMMA ReflectTurns ==
  ASSUME NEW d \in Directions, NEW mirror \in Mirrors
  PROVE  Reflect(d, mirror) \in Directions
<1>1. SUFFICES ASSUME \E pair \in Swaps(mirror) : d \in pair
      PROVE \E other \in Directions : other # d /\ {d, other} \in Swaps(mirror)
  BY DEF Reflect
<1>2. CASE mirror = "MIR_EW"
  BY <1>1, <1>2 DEF Swaps, Directions
<1>3. CASE mirror = "MIR_NS"
  BY <1>1, <1>3 DEF Swaps, Directions
<1>4. CASE mirror = "MIR_NESW"
  BY <1>1, <1>4 DEF Swaps, Directions
<1>5. CASE mirror = "MIR_NWSE"
  BY <1>1, <1>5 DEF Swaps, Directions
<1>6. QED
  BY <1>2, <1>3, <1>4, <1>5 DEF Mirrors

\* program_walker::branch turns each of the six headings into one of them,
\* whatever the top of the stack is.
LEMMA BranchTurns ==
  ASSUME NEW d \in Directions, NEW op \in Branches \cup ThreadOps,
         NEW goLeft \in BOOLEAN
  PROVE  Branch(d, op, goLeft) \in Directions
<1>1. /\ ForkOf(op).left \in Directions /\ ForkOf(op).right \in Directions
      /\ ForkOf(op).out \in Directions
  BY DEF ForkOf, Fork, Directions, Branches, ThreadOps
<1>2. Opposite(d) \in Directions
  BY DEF Opposite, Directions
<1>3. QED
  BY <1>1, <1>2 DEF Branch

\* A step of program_walker::advance leads from an IP of the board to another.
LEMMA StepWalks ==
  ASSUME NEW p, IsBoard(p), NEW x \in GridIPs(p)
  PROVE  Step(x, p.side) \in GridIPs(p)
  BY StepStays, IPs DEF Step, IsBoard

\* A turn on the spot, as a split or a join makes, leads to an IP of the board.
LEMMA TurnWalks ==
  ASSUME NEW p, IsBoard(p), NEW x \in GridIPs(p), NEW d \in Directions
  PROVE  [x EXCEPT !.dir = d] \in GridIPs(p)
  BY DEF GridIPs

\* The holder's advance (turn, then step, twice over a skip or an argument)
\* leads from an IP of the board to another.
LEMMA AdvanceWalks ==
  ASSUME NEW p, IsBoard(p), NEW x \in GridIPs(p), NEW goLeft \in BOOLEAN
  PROVE  GridAdvance(p, x, goLeft) \in GridIPs(p)
<1> DEFINE op == CellAt(p, x.coords)
<1>1. x.dir \in Directions
  BY IPs
<1>2. CASE op \in Mirrors
  <2>1. [x EXCEPT !.dir = Reflect(@, op)] \in GridIPs(p)
    BY <1>1, <1>2, ReflectTurns, TurnWalks
  <2>2. QED  BY <1>2, <2>1, StepWalks DEF GridAdvance
<1>3. CASE op \notin Mirrors /\ op \in Branches \cup ThreadOps
  <2>1. [x EXCEPT !.dir = Branch(@, op, goLeft)] \in GridIPs(p)
    BY <1>1, <1>3, BranchTurns, TurnWalks
  <2>2. QED  BY <1>3, <2>1, StepWalks DEF GridAdvance
<1>4. CASE op \notin Mirrors \cup Branches \cup ThreadOps
  BY <1>4, StepWalks DEF GridAdvance
<1>5. QED
  BY <1>2, <1>3, <1>4

-----------------------------------------------------------------------------
(* The walker as the program holder of the interpreter: it satisfies the   *)
(* assumptions HolderStaysInside and HolderCanFork of Interpreter.         *)

\* The operations that depend on the heading are negative numbers, which no
\* source text spells (instruction.hh).
Spelled(p) == \A coords \in Board(p.side) : CellAt(p, coords) \notin {"TSP", "TJN"}

\* Only an IP that heads due east or due west meets the point of a thread
\* operation, and only one that heads for its arms waits at it.
LEMMA ThreadHeadings ==
  ASSUME NEW p, IsBoard(p), Spelled(p), NEW x \in GridIPs(p)
  PROVE  LET op == CellAt(p, x.coords)
         IN /\ GridAt(p, x) = "TSP" => op \in ThreadOps /\ x.dir \in {E, W}
            /\ GridAt(p, x) = "TJN" => \/ op = "THR_E" /\ x.dir \in {NE, SE}
                                       \/ op = "THR_W" /\ x.dir \in {NW, SW}
<1> DEFINE op == CellAt(p, x.coords)
<1>1. op \notin {"TSP", "TJN"}
  BY IPs DEF Spelled
<1>2. op \in ThreadOps /\ IsBranch(op, x.dir) => x.dir \in {E, W}
  BY DEF ThreadOps, IsBranch, ForkOf, Fork
<1>3. DirectedOp(op, x.dir) # "TSP"
  BY <1>1 DEF DirectedOp
<1>4. DirectedOp(op, x.dir) = "TJN" => \/ op = "THR_E" /\ x.dir \in {NE, SE}
                                       \/ op = "THR_W" /\ x.dir \in {NW, SW}
  BY <1>1 DEF DirectedOp
<1> HIDE DEF op
<1>5. GridAt(p, x) = IF IsBranch(op, x.dir)
                     THEN IF op \in ThreadOps THEN "TSP" ELSE "BNG"
                     ELSE IF op = "SKP" THEN "SKP" ELSE DirectedOp(op, x.dir)
  BY DEF GridAt, op
<1>6. GridAt(p, x) = "TSP" => op \in ThreadOps /\ x.dir \in {E, W}
  BY <1>2, <1>3, <1>5
<1>7. GridAt(p, x) = "TJN" => DirectedOp(op, x.dir) = "TJN"
  BY <1>5
<1>8. QED
  BY <1>4, <1>6, <1>7 DEF op

\* Ticking, splitting and joining keep a thread on the board: for the grid,
\* HolderStaysInside is a theorem.
THEOREM GridStaysInside ==
  ASSUME NEW p, IsBoard(p), Spelled(p)
  PROVE  /\ GridStart \in GridIPs(p)
         /\ \A x \in GridIPs(p) :
              /\ \A goLeft \in BOOLEAN : GridAdvance(p, x, goLeft) \in GridIPs(p)
              /\ GridAt(p, x) = "TSP" => GridSplit(p, x) \in GridIPs(p) \X GridIPs(p)
              /\ GridAt(p, x) = "TJN" => GridJoin(p, x) \in GridIPs(p)
<1>1. GridStart \in GridIPs(p)
  BY MakesBoard DEF GridStart, GridIPs, Directions, IsBoard
<1>2. ASSUME NEW x \in GridIPs(p), NEW d \in Directions
      PROVE  GridAdvance(p, [x EXCEPT !.dir = d], FALSE) \in GridIPs(p)
  BY <1>2, TurnWalks, AdvanceWalks
<1>3. ASSUME NEW x \in GridIPs(p)
      PROVE  /\ GridSplit(p, x) \in GridIPs(p) \X GridIPs(p)
             /\ GridJoin(p, x) \in GridIPs(p)
  BY <1>2 DEF GridSplit, GridJoin, Directions
<1>4. QED
  BY <1>1, <1>3, AdvanceWalks

\* The unreachable()s and the assert of split_thread and join_threads cannot be
\* reached on a grid: HolderCanFork is a theorem.
THEOREM GridCanFork ==
  ASSUME NEW p, IsBoard(p), Spelled(p), NEW x \in GridIPs(p)
  PROVE  /\ GridAt(p, x) = "TSP" => GridCanSplit(x)
         /\ \A y \in GridIPs(p) :
              /\ GridAt(p, x) = "TJN" /\ GridAt(p, y) = "TJN"
              /\ GridCoords(x) = GridCoords(y)
              => GridCanJoin(x, y)
<1>1. GridAt(p, x) = "TSP" => GridCanSplit(x)
  BY ThreadHeadings DEF GridCanSplit
<1>2. ASSUME NEW y \in GridIPs(p), GridAt(p, x) = "TJN", GridAt(p, y) = "TJN",
             GridCoords(x) = GridCoords(y)
      PROVE  GridCanJoin(x, y)
  <2>1. x.coords = y.coords
    BY <1>2 DEF GridCoords
  <2>2. \/ x.dir \in {NE, SE} /\ y.dir \in {NE, SE}
        \/ x.dir \in {NW, SW} /\ y.dir \in {NW, SW}
    BY <1>2, <2>1, ThreadHeadings
  <2>3. x.dir % 4 = y.dir % 4 /\ x.dir \in {NE, SE, NW, SW}
    BY <2>2
  <2>4. QED  BY <2>3 DEF GridCanJoin
<1>3. QED
  BY <1>1, <1>2

-----------------------------------------------------------------------------
(* Folds over sequences.                                                   *)

\* Induction over the natural numbers, for a particular set.
LEMMA SetInduction ==
  ASSUME NEW B, 0 \in B, \A n \in Nat : n \in B => n + 1 \in B
  PROVE  \A n \in Nat : n \in B
<1> SUFFICES ASSUME NEW m \in Nat, m \notin B PROVE FALSE
  OBVIOUS
<1>1. PICK n \in Nat \ B : \A k \in Nat \ B : n <= k
  BY LeastNumber
<1>2. n # 0 /\ n - 1 \in Nat /\ ~(n <= n - 1) /\ (n - 1) + 1 = n
  BY <1>1
<1>3. n - 1 \in B
  BY <1>1, <1>2
<1> QED  BY <1>1, <1>2, <1>3

\* The first n of a sequence of sequences s, joined: joined[i] is made of i of them.
Joins(S, s, n, joined) ==
  /\ joined \in [0 .. n -> Seq(S)] /\ joined[0] = << >>
  /\ \A i \in 1 .. n : joined[i] = joined[i - 1] \o s[i]

\* Where each of them stands, and that there is nothing else.
Stand(s, n, joined) ==
  /\ \A i \in 0 .. n : Len(joined[i]) <= Len(joined[n])
  /\ \A i \in 1 .. n : /\ Len(joined[i]) = Len(joined[i - 1]) + Len(s[i])
                       /\ \A m \in 1 .. Len(s[i]) : joined[n][Len(joined[i - 1]) + m] = s[i][m]
  /\ \A p \in 1 .. Len(joined[n]) : \E i \in 1 .. n : \E m \in 1 .. Len(s[i]) :
       p = Len(joined[i - 1]) + m

\* Joining one more.
LEMMA OneMoreJoined ==
  ASSUME NEW S, NEW n \in Nat, NEW s, \A i \in 1 .. n + 1 : s[i] \in Seq(S),
         NEW g, Joins(S, s, n, g), Stand(s, n, g)
  PROVE  \E h : Joins(S, s, n + 1, h) /\ Stand(s, n + 1, h)
<1> DEFINE h == [i \in 0 .. n + 1 |-> IF i = n + 1 THEN g[n] \o s[n + 1] ELSE g[i]]
           a == Len(g[n])
           b == Len(s[n + 1])
<1>1. /\ g[n] \in Seq(S) /\ a \in Nat /\ s[n + 1] \in Seq(S) /\ b \in Nat
      /\ n + 1 \in 0 .. n + 1 /\ n + 1 \in 1 .. n + 1 /\ n \in 0 .. n + 1 /\ n # n + 1
      /\ 0 # n + 1 /\ (n + 1) - 1 = n
  BY LenProperties DEF Joins
<1>2. /\ g[n] \o s[n + 1] \in Seq(S)
      /\ Len(g[n] \o s[n + 1]) = a + b
      /\ \A i \in 1 .. a + b : (g[n] \o s[n + 1])[i] =
           IF i <= a THEN g[n][i] ELSE s[n + 1][i - a]
  BY <1>1, ConcatProperties
<1>3. /\ h[n + 1] = g[n] \o s[n + 1] /\ Len(h[n + 1]) = a + b
      /\ \A i \in 0 .. n : h[i] = g[i]
      /\ h \in [0 .. n + 1 -> Seq(S)]
  BY <1>1, <1>2 DEF Joins
<1> HIDE DEF h, a, b
<1>4. \A i \in 1 .. n + 1 : i = n + 1 \/ (i \in 1 .. n /\ i \in 0 .. n /\ i - 1 \in 0 .. n)
  BY <1>1
<1>5. Joins(S, s, n + 1, h)
  <2>1. h[0] = << >>
    BY <1>3 DEF Joins
  <2>2. ASSUME NEW i \in 1 .. n + 1 PROVE h[i] = h[i - 1] \o s[i]
    <3>1. CASE i = n + 1
      <4>1. i - 1 = n /\ n \in 0 .. n
        BY <1>1, <3>1
      <4> QED  BY <1>3, <3>1, <4>1
    <3>2. CASE i \in 1 .. n
      <4>1. h[i] = g[i] /\ h[i - 1] = g[i - 1]
        BY <1>3, <3>2
      <4> QED  BY <3>2, <4>1 DEF Joins
    <3> QED  BY <1>4, <3>1, <3>2
  <2> QED  BY <1>3, <2>1, <2>2 DEF Joins
<1>6. \A i \in 0 .. n : Len(g[i]) \in Nat /\ Len(g[i]) <= a
  BY LenProperties DEF Joins, Stand, a
<1>7. \A i \in 0 .. n + 1 : Len(h[i]) <= Len(h[n + 1])
  <2> SUFFICES ASSUME NEW i \in 0 .. n + 1 PROVE Len(h[i]) <= a + b
    BY <1>3
  <2>1. CASE i = n + 1
    <3>1. Len(h[i]) = a + b
      BY <1>3, <2>1
    <3> QED  BY <1>1, <3>1
  <2>2. CASE i \in 0 .. n
    <3>1. Len(h[i]) \in Nat /\ Len(h[i]) <= a
      BY <1>3, <1>6, <2>2
    <3> QED  BY <1>1, <3>1
  <2>3. i = n + 1 \/ i \in 0 .. n
    OBVIOUS
  <2> QED  BY <2>1, <2>2, <2>3
<1>8. ASSUME NEW i \in 1 .. n + 1
      PROVE  /\ Len(h[i]) = Len(h[i - 1]) + Len(s[i])
             /\ \A m \in 1 .. Len(s[i]) : h[n + 1][Len(h[i - 1]) + m] = s[i][m]
  <2>1. CASE i = n + 1
    <3>1. h[i - 1] = g[n] /\ s[i] = s[n + 1]
      BY <1>1, <1>3, <2>1
    <3>2. ASSUME NEW m \in 1 .. b PROVE (g[n] \o s[n + 1])[a + m] = s[n + 1][m]
      <4>1. a + m \in 1 .. a + b /\ ~(a + m <= a) /\ (a + m) - a = m
        BY <1>1
      <4> QED  BY <1>2, <4>1
    <3> QED  BY <1>3, <2>1, <3>1, <3>2 DEF a, b
  <2>2. CASE i \in 1 .. n
    <3>1. h[i] = g[i] /\ h[i - 1] = g[i - 1] /\ i - 1 \in 0 .. n
      BY <1>3, <2>2
    <3>2. Len(g[i]) = Len(g[i - 1]) + Len(s[i])
          /\ \A m \in 1 .. Len(s[i]) : g[n][Len(g[i - 1]) + m] = s[i][m]
      BY <2>2 DEF Stand
    <3>3. ASSUME NEW m \in 1 .. Len(s[i]) PROVE h[n + 1][Len(h[i - 1]) + m] = s[i][m]
      <4>1. Len(g[i - 1]) \in Nat /\ Len(s[i]) \in Nat /\ Len(g[i]) <= a
        BY <1>6, <2>2, <3>1, LenProperties
      <4>2. a \in Nat /\ b \in Nat /\ Len(g[i - 1]) + Len(s[i]) <= a
        BY <1>1, <3>2, <4>1
      <4>3. Len(g[i - 1]) + m \in 1 .. a + b /\ Len(g[i - 1]) + m <= a
        <5>1. PICK u, v : u = Len(g[i - 1]) /\ v = Len(s[i])
          OBVIOUS
        <5>2. u \in Nat /\ v \in Nat /\ u + v <= a /\ m \in 1 .. v
          BY <4>1, <4>2, <5>1
        <5>3. u + m \in 1 .. a + b /\ u + m <= a
          BY <4>2, <5>2
        <5> QED  BY <5>1, <5>3
      <4> QED  BY <1>2, <1>3, <3>1, <3>2, <4>3
    <3> QED  BY <3>1, <3>2, <3>3
  <2> QED  BY <1>4, <2>1, <2>2
<1>9. ASSUME NEW p \in 1 .. Len(h[n + 1])
      PROVE  \E i \in 1 .. n + 1 : \E m \in 1 .. Len(s[i]) : p = Len(h[i - 1]) + m
  <2>1. CASE p \in 1 .. a
    <3>1. PICK i \in 1 .. n : \E m \in 1 .. Len(s[i]) : p = Len(g[i - 1]) + m
      BY <2>1 DEF Stand, a
    <3>2. i \in 1 .. n + 1 /\ h[i - 1] = g[i - 1]
      BY <1>3
    <3> QED  BY <3>1, <3>2
  <2>2. CASE p \notin 1 .. a
    <3>1. p - a \in 1 .. b /\ p = a + (p - a)
      BY <1>1, <1>3, <2>2
    <3>2. h[(n + 1) - 1] = g[n]
      BY <1>1, <1>3
    <3> QED  BY <1>1, <3>1, <3>2 DEF a, b
  <2> QED  BY <2>1, <2>2
<1>10. Stand(s, n + 1, h)
  BY <1>7, <1>8, <1>9 DEF Stand
<1> QED  BY <1>5, <1>10

\* A sequence of sequences can be joined.
LEMMA AllJoined ==
  ASSUME NEW S, NEW n \in Nat, NEW s, \A i \in 1 .. n : s[i] \in Seq(S)
  PROVE  \E g : Joins(S, s, n, g) /\ Stand(s, n, g)
<1> DEFINE B == { k \in Nat : k <= n => \E g : Joins(S, s, k, g) /\ Stand(s, k, g) }
<1>1. 0 \in B
  <2> DEFINE g == [i \in 0 .. 0 |-> << >>]
  <2>1. g \in [0 .. 0 -> Seq(S)] /\ g[0] = << >> /\ Len(g[0]) = 0 /\ 1 .. 0 = {} /\ 0 .. 0 = {0}
    BY EmptySeq
  <2> HIDE DEF g
  <2>2. Joins(S, s, 0, g) /\ Stand(s, 0, g)
    BY <2>1 DEF Joins, Stand
  <2> QED  BY <2>2
<1>2. ASSUME NEW k \in Nat, k \in B PROVE k + 1 \in B
  <2> SUFFICES ASSUME k + 1 <= n PROVE \E g : Joins(S, s, k + 1, g) /\ Stand(s, k + 1, g)
    OBVIOUS
  <2>1. k <= n /\ \A i \in 1 .. k + 1 : i \in 1 .. n
    OBVIOUS
  <2> QED  BY <1>2, <2>1, OneMoreJoined
<1> HIDE DEF B
<1>3. n \in B
  BY <1>1, <1>2, SetInduction
<1> QED  BY <1>3 DEF B

\* What FlattenSeq yields is the last of the joins.
LEMMA FlattenJoins ==
  ASSUME NEW S, NEW s, NEW n \in Nat, n = Len(s), s \in Seq(Seq(S)), NEW g, Joins(S, s, n, g)
  PROVE  FlattenSeq(s) = g[n]
<1>1. \A i \in 1 .. n : s[i] \in Seq(S)
  OBVIOUS
<1>2. CASE n = 0
  <2>1. s = << >>
    BY <1>2, EmptySeq
  <2> QED  BY <1>2, <2>1 DEF FlattenSeq, Joins
<1>3. CASE n # 0
  <2> DEFINE Built(x) == x = [i \in 1 .. n |-> IF i = 1 THEN s[i] ELSE x[i - 1] \o s[i]]
             f == CHOOSE x : Built(x)
  <2>1. FlattenSeq(s) = f[n]
    BY <1>3 DEF FlattenSeq
  <2>2. Built([i \in 1 .. n |-> g[i]])
    <3> DEFINE x == [i \in 1 .. n |-> g[i]]
    <3>1. ASSUME NEW i \in 1 .. n PROVE g[i] = IF i = 1 THEN s[i] ELSE x[i - 1] \o s[i]
      <4>1. g[i] = g[i - 1] \o s[i]
        BY DEF Joins
      <4>2. CASE i = 1
        <5>1. s[i] \in Seq(S) /\ g[i - 1] = << >>
          BY <1>1, <4>2 DEF Joins
        <5>2. << >> \o s[i] = s[i]
          BY <5>1, ConcatEmptySeq
        <5> QED  BY <4>1, <4>2, <5>1, <5>2
      <4>3. CASE i # 1
        <5>1. i - 1 \in 1 .. n
          BY <4>3
        <5> QED  BY <4>1, <4>3, <5>1
      <4> QED  BY <4>2, <4>3
    <3> QED  BY <3>1
  <2>3. Built(f)
    BY <2>2
  <2> HIDE DEF f
  <2> DEFINE B == { k \in Nat : k \in 1 .. n => f[k] = g[k] }
  <2>4. 0 \in B
    OBVIOUS
  <2>5. ASSUME NEW k \in Nat, k \in B PROVE k + 1 \in B
    <3> SUFFICES ASSUME k + 1 \in 1 .. n PROVE f[k + 1] = g[k + 1]
      OBVIOUS
    <3>1. g[k + 1] = g[k] \o s[k + 1]
      <4>1. (k + 1) - 1 = k
        OBVIOUS
      <4> QED  BY <4>1 DEF Joins
    <3>2. f[k + 1] = IF k + 1 = 1 THEN s[k + 1] ELSE f[k] \o s[k + 1]
      <4>1. (k + 1) - 1 = k
        OBVIOUS
      <4> QED  BY <2>3, <4>1
    <3>3. CASE k = 0
      <4>1. k + 1 = 1 /\ g[k] = << >> /\ s[k + 1] \in Seq(S)
        BY <1>1, <3>3 DEF Joins
      <4>2. << >> \o s[k + 1] = s[k + 1]
        BY <4>1, ConcatEmptySeq
      <4> QED  BY <3>1, <3>2, <4>1, <4>2
    <3>4. CASE k # 0
      <4>1. k \in 1 .. n /\ k + 1 # 1
        BY <3>4
      <4>2. f[k] = g[k]
        BY <2>5, <4>1
      <4> QED  BY <3>1, <3>2, <4>1, <4>2
    <3> QED  BY <3>3, <3>4
  <2> HIDE DEF B
  <2>6. n \in B
    BY <2>4, <2>5, SetInduction
  <2> QED  BY <1>3, <2>1, <2>6 DEF B
<1> QED  BY <1>2, <1>3

\* A sequence of sequences s, joined: where each stands.
Holds(S, s, whole, at) ==
  /\ at \in [0 .. Len(s) -> Nat] /\ at[0] = 0
  /\ whole \in Seq(S) /\ at[Len(s)] = Len(whole)
  /\ \A i \in 0 .. Len(s) : at[i] <= Len(whole)
  /\ \A i \in 1 .. Len(s) : /\ at[i] = at[i - 1] + Len(s[i])
                            /\ \A m \in 1 .. Len(s[i]) : whole[at[i - 1] + m] = s[i][m]
  /\ \A p \in 1 .. Len(whole) : \E i \in 1 .. Len(s) : \E m \in 1 .. Len(s[i]) : p = at[i - 1] + m

LEMMA Flattened ==
  ASSUME NEW S, NEW s \in Seq(Seq(S))
  PROVE  \E at : Holds(S, s, FlattenSeq(s), at)
<1> DEFINE n == Len(s)
<1>1. n \in Nat /\ \A i \in 1 .. n : s[i] \in Seq(S)
  BY LenProperties
<1>2. PICK g : Joins(S, s, n, g) /\ Stand(s, n, g)
  BY <1>1, AllJoined
<1>3. FlattenSeq(s) = g[n]
  BY <1>1, <1>2, FlattenJoins
<1> DEFINE at == [i \in 0 .. n |-> Len(g[i])]
<1>4. /\ at \in [0 .. n -> Nat] /\ at[0] = 0 /\ at[n] = Len(g[n]) /\ g[n] \in Seq(S)
      /\ \A i \in 0 .. n : at[i] = Len(g[i])
      /\ \A i \in 1 .. n : i \in 0 .. n /\ i - 1 \in 0 .. n
  BY <1>1, <1>2, LenProperties, EmptySeq DEF Joins
<1> HIDE DEF at, n
<1>5. Holds(S, s, g[n], at)
  <2>1. \A i \in 0 .. n : at[i] <= Len(g[n])
    BY <1>2, <1>4 DEF Stand
  <2>2. \A i \in 1 .. n : /\ at[i] = at[i - 1] + Len(s[i])
                          /\ \A m \in 1 .. Len(s[i]) : g[n][at[i - 1] + m] = s[i][m]
    BY <1>2, <1>4 DEF Stand
  <2>3. \A p \in 1 .. Len(g[n]) : \E i \in 1 .. n : \E m \in 1 .. Len(s[i]) : p = at[i - 1] + m
    <3> SUFFICES ASSUME NEW p \in 1 .. Len(g[n])
                 PROVE  \E i \in 1 .. n : \E m \in 1 .. Len(s[i]) : p = at[i - 1] + m
      OBVIOUS
    <3>1. PICK i \in 1 .. n : \E m \in 1 .. Len(s[i]) : p = Len(g[i - 1]) + m
      BY <1>2 DEF Stand
    <3> QED  BY <1>4, <3>1
  <2> QED  BY <1>4, <2>1, <2>2, <2>3 DEF Holds, n
<1> QED  BY <1>3, <1>5

\* A sequence of sequences, joined, is a sequence; one more is joined at its end.
LEMMA FlattenSeqIs ==
  ASSUME NEW S, NEW s \in Seq(Seq(S))
  PROVE  FlattenSeq(s) \in Seq(S)
<1>1. PICK at : Holds(S, s, FlattenSeq(s), at)
  BY Flattened
<1> QED  BY <1>1 DEF Holds

LEMMA FlattenNone == FlattenSeq(<< >>) = << >>
BY DEF FlattenSeq

LEMMA FlattenAppend ==
  ASSUME NEW S, NEW s \in Seq(Seq(S)), NEW x \in Seq(S)
  PROVE  FlattenSeq(Append(s, x)) = FlattenSeq(s) \o x
<1> DEFINE t == Append(s, x)
<1>1. PICK n \in Nat : n = Len(s)
  BY LenProperties
<1>2. /\ t \in Seq(Seq(S)) /\ Len(t) = n + 1 /\ t[n + 1] = x
      /\ \A i \in 1 .. n : t[i] = s[i]
  BY <1>1, AppendProperties
<1> HIDE DEF t
<1>3. \A i \in 1 .. n + 1 : t[i] \in Seq(S)
  BY <1>2
<1>4. PICK g : Joins(S, t, n + 1, g)
  <2>1. n + 1 \in Nat
    OBVIOUS
  <2>2. \E g : Joins(S, t, n + 1, g) /\ Stand(t, n + 1, g)
    BY <1>3, <2>1, AllJoined
  <2> QED  BY <2>2
<1>5. FlattenSeq(t) = g[n + 1]
  BY <1>2, <1>4, FlattenJoins
<1> DEFINE h == [i \in 0 .. n |-> g[i]]
<1>6. Joins(S, s, n, h)
  <2>1. h \in [0 .. n -> Seq(S)] /\ h[0] = << >>
    BY <1>4 DEF Joins
  <2>2. ASSUME NEW i \in 1 .. n PROVE h[i] = h[i - 1] \o s[i]
    <3>1. i \in 1 .. n + 1 /\ i \in 0 .. n /\ i - 1 \in 0 .. n
      OBVIOUS
    <3> QED  BY <1>2, <1>4, <3>1 DEF Joins
  <2> HIDE DEF h
  <2> QED  BY <2>1, <2>2 DEF Joins
<1>7. FlattenSeq(s) = h[n]
  BY <1>1, <1>6, FlattenJoins
<1>8. g[n + 1] = g[n] \o x
  <2>1. n + 1 \in 1 .. n + 1 /\ (n + 1) - 1 = n
    OBVIOUS
  <2> QED  BY <1>2, <1>4, <2>1 DEF Joins
<1> QED  BY <1>5, <1>7, <1>8 DEF t

\* Induction over the sequences on a set, which get longer at their end.
LEMMA AppendInduction ==
  ASSUME NEW S, NEW B, << >> \in B,
         \A s \in Seq(S), x \in S : s \in B => Append(s, x) \in B
  PROVE  Seq(S) \subseteq B
<1> DEFINE N == { n \in Nat : \A s \in Seq(S) : Len(s) = n => s \in B }
<1>1. 0 \in N
  BY EmptySeq
<1>2. ASSUME NEW n \in Nat, n \in N PROVE n + 1 \in N
  <2> SUFFICES ASSUME NEW s \in Seq(S), Len(s) = n + 1 PROVE s \in B
    OBVIOUS
  <2>1. s # << >>
    BY EmptySeq
  <2>2. /\ Front(s) \in Seq(S) /\ Len(Front(s)) = n
        /\ s = Append(Front(s), Last(s)) /\ Last(s) \in S
    <3>1. Front(s) = SubSeq(s, 1, n) /\ Last(s) = s[n + 1]
      BY DEF Front, Last
    <3>2. /\ SubSeq(s, 1, n) \in Seq(S) /\ Len(SubSeq(s, 1, n)) = n
          /\ \A k \in 1 .. n : SubSeq(s, 1, n)[k] = s[k]
      BY SubSeqProperties
    <3>3. s[n + 1] \in S
      OBVIOUS
    <3>4. s = Append(SubSeq(s, 1, n), s[n + 1])
      <4> DEFINE a == Append(SubSeq(s, 1, n), s[n + 1])
      <4>1. /\ a \in Seq(S) /\ Len(a) = n + 1 /\ a[n + 1] = s[n + 1]
            /\ \A k \in 1 .. n : a[k] = s[k]
        BY <3>2, <3>3, AppendProperties
      <4> HIDE DEF a
      <4>2. \A k \in 1 .. n + 1 : a[k] = s[k]
        BY <4>1
      <4>3. a = s
        BY <4>1, <4>2, SeqEqual
      <4> QED  BY <4>3 DEF a
    <3> QED  BY <3>1, <3>2, <3>3, <3>4
  <2> QED  BY <1>2, <2>2
<1> HIDE DEF N
<1>3. \A n \in Nat : n \in N
  BY <1>1, <1>2, SetInduction
<1> QED  BY <1>3, LenProperties DEF N

\* It is the same how three are put together.
Regroups(s, t, u) == (s \o t) \o u = s \o (t \o u)

LEMMA Regroup ==
  ASSUME NEW S, NEW s \in Seq(S), NEW t \in Seq(S), NEW u \in Seq(S)
  PROVE  Regroups(s, t, u)
BY ConcatAssociative DEF Regroups

\* What is joined in two parts is joined.
LEMMA FlattenConcat ==
  ASSUME NEW S, NEW s \in Seq(Seq(S)), NEW t \in Seq(Seq(S))
  PROVE  FlattenSeq(s \o t) = FlattenSeq(s) \o FlattenSeq(t)
<1> DEFINE B == { u \in Seq(Seq(S)) : FlattenSeq(s \o u) = FlattenSeq(s) \o FlattenSeq(u) }
<1>1. << >> \in B
  <2>1. s \o << >> = s /\ FlattenSeq(s) \o << >> = FlattenSeq(s)
    BY FlattenSeqIs, ConcatEmptySeq
  <2> QED  BY <2>1, FlattenNone, EmptySeq
<1>2. ASSUME NEW u \in Seq(Seq(S)), NEW x \in Seq(S), u \in B PROVE Append(u, x) \in B
  <2>1. s \o Append(u, x) = Append(s \o u, x) /\ s \o u \in Seq(Seq(S))
    <3>1. PICK w : w = <<x>>
      OBVIOUS
    <3>2. w \in Seq(Seq(S)) /\ s \o u \in Seq(Seq(S))
      BY <3>1, ConcatProperties
    <3>3. Append(u, x) = u \o w /\ Append(s \o u, x) = (s \o u) \o w
      BY <3>1, <3>2, AppendIsConcat
    <3>4. Regroups(s, u, w)
      BY <3>2, Regroup
    <3> QED  BY <3>2, <3>3, <3>4 DEF Regroups
  <2>2. FlattenSeq(s \o Append(u, x)) = (FlattenSeq(s) \o FlattenSeq(u)) \o x
    BY <1>2, <2>1, FlattenAppend
  <2>3. FlattenSeq(Append(u, x)) = FlattenSeq(u) \o x
    BY FlattenAppend
  <2>4. (FlattenSeq(s) \o FlattenSeq(u)) \o x = FlattenSeq(s) \o (FlattenSeq(u) \o x)
    <3>1. FlattenSeq(s) \in Seq(S) /\ FlattenSeq(u) \in Seq(S)
      BY FlattenSeqIs
    <3>2. Regroups(FlattenSeq(s), FlattenSeq(u), x)
      BY <3>1, Regroup
    <3> QED  BY <3>2 DEF Regroups
  <2>5. Append(u, x) \in Seq(Seq(S))
    OBVIOUS
  <2> QED  BY <2>2, <2>3, <2>4, <2>5
<1> HIDE DEF B
<1>3. t \in B
  BY <1>1, <1>2, AppendInduction
<1> QED  BY <1>3 DEF B

-----------------------------------------------------------------------------
(* Places in a sequence.                                                   *)

\* The least of a set of numbers.
LEMMA MinIs ==
  ASSUME NEW S, NEW p \in S, S \subseteq Int, \A m \in S : p <= m
  PROVE  Min(S) = p
<1>1. Min(S) \in S /\ \A y \in S : Min(S) <= y
  BY DEF Min
<1>2. PICK m : m = Min(S)
  OBVIOUS
<1>3. m \in Int /\ p \in Int /\ m <= p /\ p <= m
  BY <1>1, <1>2
<1> QED  BY <1>2, <1>3

\* What stands where in two sequences, one behind the other.
Abut(S, s, t) ==
  /\ s \o t \in Seq(S) /\ Len(s \o t) = Len(s) + Len(t)
  /\ \A k \in 1 .. Len(s) : (s \o t)[k] = s[k]
  /\ \A k \in 1 .. Len(t) : (s \o t)[Len(s) + k] = t[k]

LEMMA BothStand ==
  ASSUME NEW S, NEW s \in Seq(S), NEW t \in Seq(S)
  PROVE  Abut(S, s, t)
<1>1. PICK m \in Nat, n \in Nat : m = Len(s) /\ n = Len(t)
  BY LenProperties
<1>2. /\ s \o t \in Seq(S) /\ Len(s \o t) = m + n
      /\ \A i \in 1 .. m + n : (s \o t)[i] = IF i <= m THEN s[i] ELSE t[i - m]
  BY <1>1, ConcatProperties
<1>3. ASSUME NEW k \in 1 .. m PROVE (s \o t)[k] = s[k]
  <2>1. k \in 1 .. m + n /\ k <= m
    OBVIOUS
  <2> QED  BY <1>2, <2>1
<1>4. ASSUME NEW k \in 1 .. n PROVE (s \o t)[m + k] = t[k]
  <2>1. m + k \in 1 .. m + n /\ ~(m + k <= m) /\ (m + k) - m = k
    OBVIOUS
  <2> QED  BY <1>2, <2>1
<1> QED  BY <1>1, <1>2, <1>3, <1>4 DEF Abut

\* A piece of a sequence, element by element.
LEMMA PieceIs ==
  ASSUME NEW S, NEW s \in Seq(S), NEW i \in Nat \ {0}, NEW j \in Nat, j <= Len(s), i <= j + 1,
         NEW u \in Seq(S), NEW m \in Nat, m = Len(u), i + m = j + 1,
         \A k \in 1 .. m : u[k] = s[i + k - 1]
  PROVE  SubSeq(s, i, j) = u
<1>1. PICK v : v = SubSeq(s, i, j)
  OBVIOUS
<1>2. \A k \in i .. j : s[k] \in S
  OBVIOUS
<1>3. /\ v \in Seq(S) /\ Len(v) = IF i <= j THEN j - i + 1 ELSE 0
      /\ \A k \in 1 .. j - i + 1 : v[k] = s[i + k - 1]
  BY <1>1, <1>2, SubSeqProperties
<1>4. Len(v) = m /\ j - i + 1 = m
  BY <1>3
<1>5. \A k \in 1 .. m : v[k] = u[k]
  BY <1>3, <1>4
<1>6. v = u
  BY <1>3, <1>4, <1>5, SeqEqual
<1> QED  BY <1>1, <1>6
=============================================================================
