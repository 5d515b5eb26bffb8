-------------------------- MODULE AssemblyScanner --------------------------
(***************************************************************************)
(* assembly_scanner: the two-pass assembler behind the -A flag, and the    *)
(* list of instructions as a program holder for the interpreter.           *)
(*                                                                         *)
(* A line is a record of its parts: a label, the name of an instruction,   *)
(* and the label that a JMP, BNG or TSP targets or the literal that a PSI  *)
(* or PSC pushes.  Labels and literals are sequences, empty if there is    *)
(* none; a name that is absent is "".                                      *)
(* Indices into the list of instructions count from 0, like the IP.        *)
(***************************************************************************)
EXTENDS Integers, Sequences, SequencesExt

Line(label, name, target) == [label |-> label, name |-> name, target |-> target]

Targeted == {"JMP", "BNG", "TSP"}
Pushing  == {"PSI", "PSC"}

\* opcode_for_name.
InstructionNames ==
  Targeted \cup Pushing \cup
  {"TKL", "TJN", "NOP", "ADD", "SUB", "MUL", "DIV", "UDV", "MOD", "POP", "EXT", "INC",
   "DEC", "AND", "IOR", "XOR", "NOT", "GTC", "PTC", "GTI", "PTI", "PTU", "IDX", "DUP",
   "DP2", "RND", "EXP", "SWP", "GTM", "GDT"}

\* A quoted character, a hexadecimal number or a decimal digit.
Literals == { <<"'", "c", "'">>, <<"'", ";", "'">>, <<"0xff">>, <<"#9">> }

-----------------------------------------------------------------------------
(* get_instructions                                                        *)

\* What the first pass has collected, and the error at which it exits.
Nothing == [instructions |-> << >>, labels |-> << >>, error |-> ""]

\* Mutant: the label names the instruction after the next one.
TakeLabelLate(pass, label) ==
  IF label = << >> THEN pass
  ELSE IF label \in DOMAIN pass.labels
  THEN [pass EXCEPT !.error = "label appears twice"]
  ELSE [pass EXCEPT !.labels =
          [l \in DOMAIN @ \cup {label} |->
             IF l = label THEN Len(pass.instructions) + 1 ELSE @[l]]]

\* The label of a line names the next instruction to be added; the map of
\* labels refuses a second entry.
TakeLabel(pass, label) ==
  IF label = << >> THEN pass
  ELSE IF label \in DOMAIN pass.labels
  THEN [pass EXCEPT !.error = "label appears twice"]
  ELSE [pass EXCEPT !.labels =
          [l \in DOMAIN @ \cup {label} |->
             IF l = label THEN Len(pass.instructions) ELSE @[l]]]

\* A jump without a label ends the process too: substr throws.
TakeInstruction(pass, name, target) ==
  IF name = "" THEN pass
  ELSE IF name \notin InstructionNames
  THEN [pass EXCEPT !.error = "no instruction"]
  ELSE IF name \in Targeted /\ target = << >>
  THEN [pass EXCEPT !.error = "out_of_range"]
  ELSE IF name \in Pushing /\ target \notin Literals
  THEN [pass EXCEPT !.error = "invalid literal"]
  ELSE [pass EXCEPT !.instructions = Append(@,
          [op |-> name, target |-> IF name \in Targeted \cup Pushing THEN target ELSE << >>])]

TakeLine(pass, line) ==
  LET labelled == TakeLabel(pass, line.label)
  IN IF labelled.error # "" THEN labelled
     ELSE TakeInstruction(labelled, line.name, line.target)

FirstPass(lines) ==
  FoldLeft(LAMBDA pass, line : IF pass.error # "" THEN pass ELSE TakeLine(pass, line),
           Nothing, lines)

\* Mutant: a branch is taken for a loop.
EndsWithBranch(instructions) ==
  instructions # << >> => Last(instructions).op \in Targeted \cup {"EXT", "TKL"}

EndsWell(instructions) ==
  instructions # << >> => Last(instructions).op \in {"EXT", "TKL", "JMP"}

\* fake_location_to_real: every targeted label must have been declared.
Resolved(pass) ==
  [k \in DOMAIN pass.instructions |->
     LET instr == pass.instructions[k]
     IN [op |-> instr.op,
         target |-> IF instr.op \in Targeted THEN pass.labels[instr.target] ELSE 0]]

Undeclared(pass) ==
  \E k \in DOMAIN pass.instructions :
    /\ pass.instructions[k].op \in Targeted
    /\ pass.instructions[k].target \notin DOMAIN pass.labels

\* The list of instructions, or the message with which the process exits.
Assemble(lines) ==
  LET pass == FirstPass(lines)
      fail(message) == [instructions |-> << >>, error |-> message]
  IN IF pass.error # "" THEN fail(pass.error)
     ELSE IF ~EndsWell(pass.instructions)
     THEN fail("does not end in an exit instruction or loop")
     ELSE IF Undeclared(pass) THEN fail("undeclared label")
     ELSE [instructions |-> Resolved(pass), error |-> ""]

-----------------------------------------------------------------------------
(* The program holder.  A program is a list of instructions.               *)

InstructionAt(program, ip) == program[ip + 1]

AssemblyIPs(program) == 0 .. Len(program) - 1

AssemblyAt(program, ip) == InstructionAt(program, ip).op

AssemblyAdvance(program, ip, goLeft) ==
  LET instr == InstructionAt(program, ip)
  IN IF instr.op = "JMP" THEN instr.target
     ELSE IF instr.op \in {"BNG", "TSP"} /\ goLeft THEN instr.target
     ELSE ip + 1

AssemblyCoords(ip) == <<0, ip>>

\* The template's split_thread: the first new thread goes left, to the target,
\* the second falls through.
AssemblyCanSplit(ip) == TRUE

AssemblySplit(program, ip) ==
  <<AssemblyAdvance(program, ip, TRUE), AssemblyAdvance(program, ip, FALSE)>>

\* The template's join_threads keeps the IP and the constructor advances it.
AssemblyCanJoin(first, second) == TRUE

AssemblyJoin(program, first) == AssemblyAdvance(program, first, FALSE)
=============================================================================
