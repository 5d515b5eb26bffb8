--------------------------- MODULE ProgramWalker ---------------------------
(***************************************************************************)
(* The grid, and how an instruction pointer (IP) moves over it: class      *)
(* program, class program_walker, and the constructor of instruction that  *)
(* gives a cell its direction-sensitive meaning.  Everything here is an    *)
(* operator on values; the state machines that walk are in Walk (one IP)   *)
(* and Interpreter (a vector of threads).                                  *)
(*                                                                         *)
(* A cell is the name of its opcode ("PSC" for '"', "NOP" for '.'); the    *)
(* spellings of opcode.hh are never compared, only the names are.          *)
(***************************************************************************)
EXTENDS Integers, Sequences

-----------------------------------------------------------------------------
(* Directions: the bit field { north, neither north nor south, east }.     *)

SW == 0   \* 0b000
SE == 1   \* 0b001
W  == 2   \* 0b010
E  == 3   \* 0b011
NW == 4   \* 0b100
NE == 5   \* 0b101

Directions == {SW, SE, W, E, NW, NE}

\* The heading turned by 180 degrees, as the code's tables spell it out
\* heading by heading: all three bits flip.
Opposite(d) == 5 - d

-----------------------------------------------------------------------------
(* Opcodes.                                                                *)

Mirrors       == {"MIR_EW", "MIR_NS", "MIR_NESW", "MIR_NWSE"}
Branches      == {"BNG_NW", "BNG_NE", "BNG_E", "BNG_SE", "BNG_SW", "BNG_W"}
ThreadOps     == {"THR_E", "THR_W"}
WithArgument  == {"PSI", "PSC"}

-----------------------------------------------------------------------------
(* The program: a triangle of side_length rows, row r holding r + 1 cells, *)
(* stored row by row.                                                      *)

Triangular(n) == (n * (n + 1)) \div 2

\* The source without spaces and newlines.
Stripped(source) == SelectSeq(source, LAMBDA ch : ch \notin {" ", "\n"})

\* program::program: find the smallest triangle that holds the stripped source,
\* and fill it up with NOPs.
MakeProgram(source) ==
  LET code == Stripped(source)
      side == CHOOSE n \in 0 .. Len(code) :
                /\ Triangular(n) >= Len(code)
                /\ \A m \in 0 .. n - 1 : Triangular(m) < Len(code)
  IN [side |-> side,
      code |-> [k \in 1 .. Triangular(side) |->
                  IF k <= Len(code) THEN code[k] ELSE "NOP"]]

\* program::at
CellAt(program, coords) == program.code[Triangular(coords[1]) + coords[2] + 1]

\* What program::at asserts of its arguments.
OnBoard(coords, side) == coords[1] < side /\ coords[2] <= coords[1]

\* The coordinates <<row, column>> of a board, and the IPs on it.
Board(side) == { coords \in (0 .. side - 1) \X (0 .. side - 1) :
                   OnBoard(coords, side) }

GridIPs(program) == [coords : Board(program.side), dir : Directions]

\* A value-initialised instruction_pointer: the north corner, southwest.
GridStart == [coords |-> <<0, 0>>, dir |-> SW]

-----------------------------------------------------------------------------
(* One step of the IP: program_walker::advance(ip, program_size).          *)

\* Mutant: the wrap from the bottom row forgets the modulus.
StepSWUnwrapped(r, c, n) == IF r + 1 = n THEN <<c + 1, c + 1>> ELSE <<r + 1, c>>

\* Mutant: ... or comes back on the same diagonal.
StepSWInPlace(r, c, n) == IF r + 1 = n THEN <<c, c>> ELSE <<r + 1, c>>

StepSW(r, c, n) == IF r + 1 = n THEN <<(c + 1) % n, (c + 1) % n>>
                                ELSE <<r + 1, c>>

StepW(r, c, n)  == IF c # 0 THEN <<r, c - 1>>
                   ELSE IF r + 1 = n THEN <<0, 0>> ELSE <<r + 1, r + 1>>

\* Mutant: leaving by the southwest corner is no special case.
StepNWUncornered(r, c, n) == IF c # 0 THEN <<r - 1, c - 1>>
                             ELSE <<n - 1, n - r - 1>>

StepNW(r, c, n) == IF c # 0 THEN <<r - 1, c - 1>>
                   ELSE IF r = n - 1 THEN <<n - 1, n - 1>>
                                     ELSE <<n - 1, n - r - 2>>

StepNE(r, c, n) == IF r = 0 \/ c >= r
                   THEN <<n - 1, IF c = 0 THEN n - 1 ELSE c - 1>>
                   ELSE <<r - 1, c>>

\* Mutant: leaving the first row eastwards ends at the first row.
StepEClamped(r, c, n) == IF c + 1 <= r THEN <<r, c + 1>>
                         ELSE <<IF r = 0 THEN 0 ELSE r - 1, 0>>

StepE(r, c, n)  == IF c + 1 <= r THEN <<r, c + 1>>
                   ELSE <<IF r = 0 THEN n - 1 ELSE r - 1, 0>>

\* Mutant: leaving southeastwards comes back one row too low.
StepSEOneShort(r, c, n) == IF r + 1 # n THEN <<r + 1, c + 1>>
                           ELSE <<IF c + 1 < n THEN n - c - 1 ELSE n - 1, 0>>

StepSE(r, c, n) == IF r + 1 # n THEN <<r + 1, c + 1>>
                   ELSE <<IF c + 1 < n THEN n - c - 2 ELSE n - 1, 0>>

StepFrom(coords, d, n) ==
  LET r == coords[1]
      c == coords[2]
  IN CASE d = SW -> StepSW(r, c, n) [] d = W -> StepW(r, c, n)
       [] d = NW -> StepNW(r, c, n) [] d = NE -> StepNE(r, c, n)
       [] d = E  -> StepE(r, c, n)  [] d = SE -> StepSE(r, c, n)

Step(ip, n) == [coords |-> StepFrom(ip.coords, ip.dir, n), dir |-> ip.dir]

-----------------------------------------------------------------------------
(* Mirrors and branches.                                                   *)

\* program_walker::reflect: each mirror swaps headings pairwise and lets the
\* others through.
Swaps(mirror) ==
  CASE mirror = "MIR_EW"   -> {{SW, NW}, {NE, SE}}
    [] mirror = "MIR_NS"   -> {{SW, SE}, {NW, NE}, {W, E}}
    [] mirror = "MIR_NESW" -> {{W, SE}, {E, NW}}
    [] mirror = "MIR_NWSE" -> {{W, NE}, {E, SW}}

Reflect(d, mirror) ==
  IF \E pair \in Swaps(mirror) : d \in pair
  THEN CHOOSE other \in Directions : other # d /\ {d, other} \in Swaps(mirror)
  ELSE d

\* program_walker::branch: an IP heading "from" meets the point of the
\* opcode and leaves left or right; the two "arms" are gathered into "out".
Fork(from, left, right, arms, out) ==
  [from |-> from, left |-> left, right |-> right, arms |-> arms, out |-> out]

ForkOf(op) ==
  CASE op \in {"BNG_E", "THR_E"} -> Fork(W, SW, NW, {NE, SE}, E)
    [] op \in {"BNG_W", "THR_W"} -> Fork(E, NE, SE, {NW, SW}, W)
    [] op = "BNG_NE"             -> Fork(SW, SE, W, {NW, E}, NE)
    [] op = "BNG_SW"             -> Fork(NE, NW, E, {SE, W}, SW)
    [] op = "BNG_NW"             -> Fork(SE, E, SW, {NE, W}, NW)
    [] op = "BNG_SE"             -> Fork(NW, W, NE, {SW, E}, SE)

\* Mutant: left and right are swapped.
BranchSwapped(d, op, goLeft) ==
  LET fork == ForkOf(op)
  IN IF d = fork.from THEN IF goLeft THEN fork.right ELSE fork.left
     ELSE IF d \in fork.arms THEN fork.out
     ELSE IF op \in ThreadOps THEN d
     ELSE Opposite(d)

Branch(d, op, goLeft) ==
  LET fork == ForkOf(op)
  IN IF d = fork.from THEN IF goLeft THEN fork.left ELSE fork.right
     ELSE IF d \in fork.arms THEN fork.out
     ELSE IF op \in ThreadOps THEN d
     ELSE Opposite(d)

\* is_branch
IsBranch(op, d) == op \in Branches \cup ThreadOps /\ d = ForkOf(op).from

-----------------------------------------------------------------------------
(* The walker as the program holder of the interpreter.                    *)

\* instruction::instruction(ip, program): the operation of a cell that is not
\* a branch point for this heading.
DirectedOp(op, d) ==
  CASE op = "THR_E" -> IF d = E THEN "TKL"
                       ELSE IF d \in {NE, SE} THEN "TJN" ELSE "NOP"
    [] op = "THR_W" -> IF d = W THEN "TKL"
                       ELSE IF d \in {NW, SW} THEN "TJN" ELSE "NOP"
    [] op \in Branches \cup Mirrors \cup {"SKP"} -> "NOP"
    [] OTHER -> op

\* program_walker::at: unlike the constructor above it lets SKP through, so
\* that the thread can idle on it.
GridAt(program, ip) ==
  LET op == CellAt(program, ip.coords)
  IN IF IsBranch(op, ip.dir) THEN IF op \in ThreadOps THEN "TSP" ELSE "BNG"
     ELSE IF op = "SKP" THEN "SKP"
     ELSE DirectedOp(op, ip.dir)

\* program_walker::advance(ip, go_left)
GridAdvance(program, ip, goLeft) ==
  LET op == CellAt(program, ip.coords)
      n  == program.side
  IN IF op \in Mirrors
     THEN Step([ip EXCEPT !.dir = Reflect(@, op)], n)
     ELSE IF op \in Branches \cup ThreadOps
     THEN Step([ip EXCEPT !.dir = Branch(@, op, goLeft)], n)
     ELSE IF op \in WithArgument \cup {"SKP"}
     THEN Step(Step(ip, n), n)
     ELSE Step(ip, n)

\* program_walker::get_coords
GridCoords(ip) == ip.coords

\* interpreter<program_walker>::split_thread: the two headings that replace a
\* split thread, in the order in which the threads are created.  Any other
\* heading is unreachable().
GridCanSplit(ip) == ip.dir \in {E, W}

GridSplit(program, ip) ==
  LET heading == IF ip.dir = E THEN <<NE, SE>> ELSE <<NW, SW>>
      born(d) == GridAdvance(program, [ip EXCEPT !.dir = d], FALSE)
  IN <<born(heading[1]), born(heading[2])>>

\* interpreter<program_walker>::join_threads: the low two bits of the headings
\* are asserted equal, and due east or due west is unreachable().
GridCanJoin(first, second) ==
  /\ first.dir % 4 = second.dir % 4
  /\ first.dir \in {NE, SE, NW, SW}

GridJoin(program, first) ==
  LET heading == IF first.dir \in {NE, SE} THEN E ELSE W
  IN GridAdvance(program, [first EXCEPT !.dir = heading], FALSE)
=============================================================================
