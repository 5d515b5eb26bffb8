----------------------------- MODULE MCAssembly -----------------------------
(***************************************************************************)
(* interpreter<assembly_scanner>: the interpreter over short assembly      *)
(* programs.                                                               *)
(***************************************************************************)
EXTENDS Interpreter, AssemblyScanner

Labels == << <<"a">>, <<"b">>, <<"c">>, <<"d">> >>

\* Four labelled lines that start by spawning a thread and end in an exit or a
\* jump; every label stands before an instruction.
Spawns  == { Line(<< >>, "TSP", <<l>>) : l \in {"b", "c", "d"} }
Jumps   == { Line(<< >>, "JMP", <<l>>) : l \in {"a", "b", "c"} }
Between == Spawns \cup { Line(<< >>, name, << >>) : name \in {"TJN", "TKL"} }
             \cup { Line(<< >>, "PSC", <<"'", "c", "'">>), Line(<< >>, "JMP", <<"b">>),
                    Line(<< >>, "BNG", <<"a">>) }
Ends    == Jumps \cup { Line(<< >>, "TKL", << >>) }

Labelled(lines) == [k \in DOMAIN lines |-> [lines[k] EXCEPT !.label = Labels[k]]]

Texts(spawns) == { Labelled(<<s, x, y, e>>) :
                     s \in spawns, x \in Between, y \in Between, e \in Ends }

Assembled(texts) == { Assemble(text).instructions : text \in texts } \ {<< >>}

AssemblyPrograms == Assembled(Texts(Spawns))

\* Those whose first line splits into a thread at "b" and one that skips it.
SkippingPrograms == Assembled(Texts({ Line(<< >>, "TSP", <<"c">>) }))
=============================================================================
