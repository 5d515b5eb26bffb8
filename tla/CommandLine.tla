---------------------------- MODULE CommandLine ----------------------------
(***************************************************************************)
(* The command line (input.cpp, input.hh): what an argument means, and     *)
(* which flags go together.                                                *)
(*                                                                         *)
(* An argument is "--name", a cluster "-abc" of letters, or a word that    *)
(* begins with no dash.                                                    *)
(***************************************************************************)
EXTENDS Sequences, SequencesExt

Long(name)    == [kind |-> "long", name |-> name]
Short(letters) == [kind |-> "short", letters |-> letters]
Word(name)    == [kind |-> "word", name |-> name]

Arguments == [kind : {"long", "word"}, name : STRING]
               \cup [kind : {"short"}, letters : Seq(STRING)]

Dashes == Long("")       \* "--"
Dash   == Short(<< >>)   \* "-"
Asks   == {Long("help"), Long("version")}

IsDashed(arg) == arg.kind # "word"

-----------------------------------------------------------------------------
(* The table FLAGS: name, letter and the flag that they set.               *)

Flag(name, letter, field) == [name |-> name, letter |-> letter, field |-> field]

FLAGS == { Flag("null", "z", "null_terminated"),
           Flag("debug", "d", "debug"),
           Flag("ascii", "a", "assume_ascii"),
           Flag("expand", "e", "expand"),
           Flag("compile", "c", "compile"),
           Flag("warnings", "w", "warnings"),
           Flag("pipekill", "f", "pipekill"),
           Flag("assembly", "A", "assembly"),
           Flag("hide-nops", "n", "hide_nops"),
           Flag("show-stack", "s", "show_stack"),
           Flag("disassemble", "D", "disassemble") }

Fields  == { t.field : t \in FLAGS }
Letters == { t.letter : t \in FLAGS }

Named(arg) == { t \in FLAGS : \/ arg.kind = "long" /\ t.name = arg.name
                              \/ arg.kind = "short" /\ t.letter \in ToSet(arg.letters) }

\* Mutant: only the first letter of a cluster is looked up.
KnownByTheFirst(arg) == Named(arg) # {}

\* set_flag finds what it looks for.
Known(arg) == /\ Named(arg) # {}
              /\ arg.kind = "short" => ToSet(arg.letters) \subseteq Letters

SetBy(arg) == { t.field : t \in Named(arg) }

\* Mutant: assembly is not counted among them.
RunningSources == {"debug", "warnings", "pipekill"}

\* The flags of a program that is run.
Running == {"debug", "warnings", "pipekill", "assembly"}

\* flags::is_valid
IsValid(f) ==
  /\ "show_stack" \in f => "debug" \in f
  /\ "disassemble" \in f => f \cap Running = {}
  /\ "hide_nops" \in f => "disassemble" \in f
  /\ "expand" \in f => f \cap (Running \cup {"disassemble"}) = {}
  /\ "compile" \in f => f \cap (Running \cup {"disassemble", "expand"}) = {}
  /\ "assume_ascii" \in f => f \cap {"expand", "disassemble"} = {}
=============================================================================
