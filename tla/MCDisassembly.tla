---------------------------- MODULE MCDisassembly ----------------------------
(***************************************************************************)
(* Small boards for Disassembly.                                           *)
(***************************************************************************)
EXTENDS Disassembly

Middle == {"THR_W", "THR_E", "BNG_W", "MIR_NWSE", "PSC"}

\* Boards of side 3 that split, branch, turn and push in the middle.
PlainBoards ==
  { <<first, a, b, c, d, last>> :
      first \in {"MIR_NWSE", "BNG_NE"}, a, b, c, d \in Middle, last \in {"EXT", "SKP"} }

\* More boards with thread operations, left by the east corner.
EastBoards ==
  { <<first, a, b, c, d, "THR_E">> :
      first \in {"MIR_NWSE", "BNG_NE"}, a, b, c, d \in Middle \ {"PSC"} }

AllBoards == PlainBoards \cup EastBoards

\* Boards of side 2 that push the integer of any of these cells.
PushingBoards == { <<a, b, c>> : a, b, c \in {"PSI", "DUP", "NOP", "EXT"} }
=============================================================================
