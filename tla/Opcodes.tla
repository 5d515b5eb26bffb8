------------------------------ MODULE Opcodes ------------------------------
(***************************************************************************)
(* The opcodes that work on a stack, by the way they reach into it.  A      *)
(* stack is a sequence, its top is the last element.                        *)
(***************************************************************************)
EXTENDS Naturals, Sequences, SequencesExt

Binary    == {"ADD", "SUB", "MUL", "DIV", "UDV", "MOD", "AND", "IOR", "XOR"}
Unary     == {"INC", "DEC", "NOT", "EXP"}
Printing  == {"PTC", "PTI", "PTU"}
Pushes    == {"PSC", "PSI", "GTC", "GTI", "RND", "GTM", "GDT"}
Protected == Unary \cup Printing \cup {"POP", "DUP"}   \* EMPTY_PROTECT
Pairs     == Binary \cup {"SWP", "DP2"}                \* SIZE_CHECK(.., 2)
Opcodes   == Protected \cup Pairs \cup {"IDX", "BNG"}

\* How many values an opcode reads at least.
Needs(op) == IF op \in Pairs THEN 2 ELSE 1

Below(s, n) == SubSeq(s, 1, Len(s) - n)
Second(s)   == s[Len(s) - 1]
=============================================================================
