------------------------------- MODULE MCWalk -------------------------------
(***************************************************************************)
(* Small boards for Walk.                                                  *)
(***************************************************************************)
EXTENDS Walk

CONSTANT MaxCells   \* bound on the length of the source text

Texts(cells, lengths) == UNION { [1 .. k -> cells] : k \in lengths }

\* Every board of mirrors with up to MaxCells cells (the rest of the triangle
\* is padding), empty boards up to side 4, a text with white space, and one
\* that has nothing else.
MirrorMazes == Texts(Mirrors \cup {"NOP"}, 1 .. MaxCells)
                 \cup { <<" ", "MIR_EW", "\n", "MIR_NWSE", " ", "NOP">>, <<"\n">> }
                 \cup { [k \in 1 .. m |-> "NOP"] : m \in 1 .. 10 }

\* Branches among mirrors, skips and plain cells.
BranchBoards == Texts(Branches \cup {"NOP", "SKP", "MIR_NS", "MIR_NESW"},
                      1 .. MaxCells - 1)

Boards == MirrorMazes \cup BranchBoards
=============================================================================
