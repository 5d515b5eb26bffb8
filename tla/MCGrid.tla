------------------------------- MODULE MCGrid -------------------------------
(***************************************************************************)
(* interpreter<program_walker>: the interpreter over small grids.          *)
(***************************************************************************)
EXTENDS Interpreter, ProgramWalker

\* Boards of side 3.  The four cells in the middle create, merge, end and turn
\* threads in every combination; the first cell decides which way the first
\* thread sets out, the last one is hit when threads leave by the east corner.
Middle == {"THR_W", "THR_E", "MIR_NWSE", "NOP"}

SmallBoards ==
  { <<first, a, b, c, d, last>> :
      first \in {"MIR_NWSE", "NOP"}, a, b, c, d \in Middle,
      last \in {"THR_E", "EXT", "SKP"} }

GridPrograms == { MakeProgram(source) : source \in SmallBoards }
=============================================================================
