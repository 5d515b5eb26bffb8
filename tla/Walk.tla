-------------------------------- MODULE Walk --------------------------------
(***************************************************************************)
(* One instruction pointer walking over a grid: what the interpreter does  *)
(* with a program that never splits, joins, kills or exits.  The top of    *)
(* the stack is abstracted to the outcome of the branch it decides.        *)
(***************************************************************************)
EXTENDS ProgramWalker

CONSTANT Sources   \* the program texts to walk over, sequences of cells

ASSUME SourcesAreTexts == \A source \in Sources : Stripped(source) \in Seq(STRING)

VARIABLES program, ip

vars == <<program, ip>>

TypeOK == /\ program.side \in Nat \ {0}
          /\ DOMAIN program.code = 1 .. Triangular(program.side)
          /\ ip \in GridIPs(program)

\* An empty program is refused (execute in main.cpp).
Init == /\ program \in { MakeProgram(source) : source \in Sources }
        /\ program.side # 0
        /\ ip = GridStart

Advance == \E goLeft \in BOOLEAN : ip' = GridAdvance(program, ip, goLeft)

Next == Advance /\ UNCHANGED program

\* The loop of interpreter::run never leaves a runnable thread behind.
Fairness == WF_vars(Next)

Spec == Init /\ [][Next]_vars /\ Fairness

-----------------------------------------------------------------------------
(* The rule for the edges, in the words of README.md ("Program layout"):   *)
(* when the IP runs off the edge of the board, it starts again on the row  *)
(* or diagonal one spot to its left.                                       *)

Unit(d) == CASE d = SW -> <<1, 0>>  [] d = NE -> <<-1, 0>>
             [] d = SE -> <<1, 1>>  [] d = NW -> <<-1, -1>>
             [] d = E  -> <<0, 1>>  [] d = W  -> <<0, -1>>

Plus(p, q)  == <<p[1] + q[1], p[2] + q[2]>>
Minus(p, q) == <<p[1] - q[1], p[2] - q[2]>>

\* The row or diagonal that an IP with heading d at these coordinates is on,
\* and the one to its left.
LineOf(d, coords) == CASE d \in {SW, NE} -> coords[2]
                       [] d \in {E, W}   -> coords[1]
                       [] d \in {NW, SE} -> coords[1] - coords[2]

LeftOf(d, line, n) == IF d \in {SW, W, NW} THEN (line + 1) % n
                                           ELSE (line - 1) % n

StartOfLine(d, line, n) ==
  CHOOSE p \in Board(n) : LineOf(d, p) = line /\ Minus(p, Unit(d)) \notin Board(n)

RuleStep(d, coords, n) ==
  LET ahead == Plus(coords, Unit(d))
  IN IF ahead \in Board(n) THEN ahead
     ELSE StartOfLine(d, LeftOf(d, LineOf(d, coords), n), n)

\* Wherever the walk is and whichever way it is turned there, one step of
\* program_walker::advance is the README's step.
StepsByTheRule ==
  \A d \in Directions :
    StepFrom(ip.coords, d, program.side) = RuleStep(d, ip.coords, program.side)

\* An IP that turns round after a step steps back to where it came from, also
\* over an edge: advance is one to one, and no two ways lead into a cell.
StepsRetrace ==
  \A d \in Directions :
    StepFrom(StepFrom(ip.coords, d, program.side), Opposite(d), program.side)
      = ip.coords

-----------------------------------------------------------------------------
(* The tables of README.md ("Control flow splits" and "Mirrors"), row by   *)
(* row: heading before, heading after; <<x, y>> is its "x/y", the left and *)
(* the right way out.                                                      *)

Columns == <<"BNG_NE", "BNG_E", "BNG_SE", "BNG_SW", "BNG_W", "BNG_NW",
             "MIR_NS", "MIR_EW", "MIR_NESW", "MIR_NWSE">>

Row(d) ==
  CASE d = NE -> <<SW, E, SW, <<NW, E>>, SW, NW,       NW, SE, NE, W>>
    [] d = E  -> <<NE, W, SE, W, <<NE, SE>>, W,        W, E, NW, SW>>
    [] d = SE -> <<NW, E, NW, SW, NW, <<E, SW>>,       SW, NE, W, SE>>
    [] d = SW -> <<<<SE, W>>, NE, SE, NE, W, NE,       SE, NW, SW, E>>
    [] d = W  -> <<E, <<SW, NW>>, E, SW, E, NW,        E, W, SE, NE>>
    [] d = NW -> <<NE, SE, <<W, NE>>, SE, W, SE,       NE, SW, E, NW>>

TableHeading(op, d, goLeft) ==
  LET column == CHOOSE k \in DOMAIN Columns : Columns[k] = op
      entry  == Row(d)[column]
  IN IF IsBranch(op, d) THEN entry[IF goLeft THEN 1 ELSE 2] ELSE entry

\* On a mirror or a branch the IP leaves with the heading of the tables, and
\* on a branch point it goes left exactly when the stack's top is negative.
HeadingsFollowTheTables ==
  LET op == CellAt(program, ip.coords)
  IN op \in Branches \cup Mirrors =>
       \A goLeft \in BOOLEAN :
         GridAdvance(program, ip, goLeft).dir = TableHeading(op, ip.dir, goLeft)

-----------------------------------------------------------------------------
(* Global shape of a walk.                                                 *)

Uses(cells) == \A k \in DOMAIN program.code : program.code[k] \in cells

\* Steps and reflections can be retraced, so a board of mirrors cannot trap
\* the IP: it comes back to the north corner heading southwest, again and
\* again.
MirrorsLeadHome == Uses(Mirrors \cup {"NOP"}) => []<>(ip = GridStart)

\* On an empty board of any size the IP visits every cell, forever
\* (README.md, "Program layout": it hits the cells in this order ...).
ToursTheBoard ==
  \A n \in 1 .. 4 : \A coords \in Board(n) :
    program.side = n /\ Uses({"NOP"}) => []<>(ip.coords = coords)
=============================================================================
