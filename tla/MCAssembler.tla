---------------------------- MODULE MCAssembler ----------------------------
(***************************************************************************)
(* Short texts for Assembler.                                              *)
(***************************************************************************)
EXTENDS Assembler

Plain(label, name, argument) ==
  Written(label, IF name = << >> THEN << >> ELSE <<" ">>, name, argument, << >>)

\* Three-line texts with two labels, which may stand on any line, with or without
\* an instruction, on two lines or on none.
Heads  == { << >>, <<"a">>, <<"b">> }
Bodies == { << <<"NOP">>, << >> >>, << <<"EXT">>, << >> >>, << <<"JMP">>, <<"a">> >>,
            << <<"BNG">>, <<"b">> >>, << << >>, << >> >> }

Shapes == { Plain(head, body[1], body[2]) : head \in Heads, body \in Bodies }

\* Lines with everything that may stand around an instruction, and with
\* instructions that are none.
Instructions ==
  { << << >>, << >> >>, << <<"EXT">>, << >> >>, << <<"EXT">>, <<"c">> >>, << <<"TSP">>, <<"c">> >>,
    << <<"JMP">>, << >> >>, << <<"PSC">>, <<"'", "c", "'">> >>, << <<"PSC">>, <<"'", ";", "'">> >>,
    << <<"PSC">>, <<"c">> >>, << <<"PSC">>, << >> >>, << <<"PSI">>, <<"#9">> >>, << <<"PSI">>, <<"0xff">> >>,
    << <<"PSC">>, <<"'", "c", "'", ";", "c">> >>, << <<"JMP">>, <<"c", ":", " ", "'", ";">> >>,
    << <<"c">>, << >> >>, << <<"EXT", "c">>, << >> >>, << <<"NOP", "'", ";">>, << >> >> }

Comments == { << >>, <<" ">>, <<";">>, <<";", "c">>, <<" ", ";">>, <<" ", ";", ":", "c", ";">>,
              <<" ", ";", "'", ";", "EXT">> }

Labels == { << >>, <<"c">>, <<"EXT">>, <<";">>, <<"c", "'", ";">> }
Gaps   == { << >>, <<" ">>, <<":">>, <<":", " ">>, <<" ", ":">>, <<":", ":">> }

\* A blank or a colon behind the label, or both; a semicolon behind a quotation mark
\* touches the argument as a comment would.
Spellings == { Written(l, g, i[1], i[2], c) :
                 l \in Labels, g \in Gaps, i \in Instructions, c \in Comments }

Lines == { w \in Spellings : WellWritten(w) }

\* A line, and an end for it; the end alone carries the label "c" in some.
Endings == { Plain(<< >>, <<"EXT">>, << >>), Plain(<<"c">>, << >>, << >>),
             Plain(<<"c">>, <<"TKL">>, << >>) }

\* Lines of colons, and lines of comments.
Colons == { <<Plain(<< >>, <<"EXT">>, << >>), w>> : w \in { v \in Lines : v.label = << >> } }

SomeTexts == { <<s, t, u>> : s, t, u \in Shapes } \cup { <<s, t>> : s \in Lines, t \in Endings }
               \cup Colons

-----------------------------------------------------------------------------
(* The division of a line into its parts.                                  *)

Cut(line, i, j, k, m) ==
  Written(SubSeq(line, 1, i), SubSeq(line, i + 1, j), SubSeq(line, j + 1, k),
          SubSeq(line, k + 2, m), SubSeq(line, m + 1, Len(line)))

Divisions(line) ==
  { w \in { Cut(line, i, j, k, m) : i, j, k, m \in 0 .. Len(line) } :
      WellWritten(w) /\ Characters(w) = line }

ShortLines == UNION { [1 .. n -> {" ", ":", ";", "'", "c"}] : n \in 0 .. 5 }

\* One mark stands for all that is white in a place, so no two are neighbours.
ASSUME EachLineIsWritten ==
  \A line \in ShortLines :
    (\A k \in 2 .. Len(line) : {line[k - 1], line[k]} # {" "})
      => Cardinality(Divisions(line)) = 1
=============================================================================
