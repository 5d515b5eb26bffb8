---------------------------- MODULE Disassembly ----------------------------
(***************************************************************************)
(* disassembler::write_state, and the way back: what it prints of a grid   *)
(* is assembled, and the list of instructions is run beside the grid, one  *)
(* thread with the same branches on both sides.                            *)
(***************************************************************************)
EXTENDS InstructionScanner, AssemblyScanner

VARIABLES
  hide_nops, \* the flag -n
  listing,   \* m_instructions of the assembly_scanner, empty before it runs
  gip, lip   \* the thread's IP on the grid and in the listing

both == <<hide_nops, listing, gip, lip>>

-----------------------------------------------------------------------------
(* disassembler::write_state                                               *)

\* The digits among the opcodes: '2' and '7'.
Digits == {"DUP", "BNG_NE"}

\* disassembler::to_str: what follows the name of an instruction.  The label of a
\* line is its location.
Argument(instr) ==
  CASE instr.op = "JMP" -> instr.next
    [] instr.op \in {"BNG", "TSP"} -> instr.choice[2]
    [] instr.op = "PSC" -> <<"'", "c", "'">>
    [] instr.op = "PSI" -> IF instr.number \in Digits THEN <<"#9">> ELSE <<"#?">>
    [] OTHER -> << >>

Labelled(instr, location) == Line(location, instr.op, Argument(instr))

\* Mutant: NOPs are left out whatever the flag says.
LinesOfWork(instr, location) ==
  IF instr.op = "NOP" THEN << >> ELSE <<Labelled(instr, location)>>

\* Mutant: the way to the right is always taken for the next fragment.
LinesFallThrough(instr, location) ==
  IF hide_nops /\ instr.op = "NOP" THEN << >> ELSE <<Labelled(instr, location)>>

\* The line of an instruction and, after a branch whose way to the right is not
\* the next fragment, the jump there.
LinesOf(instr, location) ==
  IF hide_nops /\ instr.op = "NOP" THEN << >>
  ELSE IF instr.op \in {"BNG", "TSP"} /\ instr.choice[1] # <<location[1] + 1, 0>>
  THEN <<Labelled(instr, location), Line(<< >>, "JMP", instr.choice[1])>>
  ELSE <<Labelled(instr, location)>>

Lines ==
  FlattenSeq([k \in DOMAIN fragments |->
    FlattenSeq([j \in DOMAIN fragments[k][1] |->
      LinesOf(fragments[k][1][j], <<k - 1, j - 1>>)])])

-----------------------------------------------------------------------------
(* Assembling it, and running both.                                        *)

Load == /\ phase = "done" /\ listing = << >>
        /\ Assemble(Lines).error = ""
        /\ listing' = Assemble(Lines).instructions
        /\ UNCHANGED <<vars, hide_nops, gip, lip>>

instruction == InstructionAt(listing, lip)

FollowJump == /\ listing # << >> /\ instruction.op = "JMP"
              /\ lip' = AssemblyAdvance(listing, lip, FALSE)
              /\ UNCHANGED <<vars, hide_nops, listing, gip>>

\* The grid rests where the listing has no line.
Hidden == hide_nops /\ OperationOf(gip) = "NOP"

GridRests == /\ listing # << >> /\ Hidden
             /\ gip' = GridAdvance(program, gip, FALSE)
             /\ UNCHANGED <<vars, hide_nops, listing, lip>>

\* A branch goes the same way on both sides, and of a thread that splits one
\* half is followed.
RunBoth == /\ listing # << >> /\ instruction.op \notin Exits \cup {"JMP"} /\ ~Hidden
           /\ \E goLeft \in BOOLEAN :
                /\ lip' = AssemblyAdvance(listing, lip, goLeft)
                /\ gip' = GridAdvance(program, gip, goLeft)
           /\ UNCHANGED <<vars, hide_nops, listing>>

DInit == /\ Init
         /\ hide_nops \in BOOLEAN
         /\ listing = << >> /\ gip = GridStart /\ lip = 0

DNext == \/ Scan /\ UNCHANGED both
         \/ Load \/ FollowJump \/ GridRests \/ RunBoth

\* build_state is one sequential loop; what runs afterwards may stop anywhere.
DSpec == DInit /\ [][DNext]_<<vars, both>> /\ WF_vars(Scan)

-----------------------------------------------------------------------------
(* Properties.                                                             *)

\* What the disassembler prints is accepted by the assembler (README.md,
\* "Assembly syntax": Trilangle is capable of interpreting this syntax, but with
\* the flag -n, which may leave out the target of a jump).
DisassemblyAssembles == phase = "done" /\ ~hide_nops => Assemble(Lines).error = ""

\* The listing does what the grid does: wherever the thread gets, both sides
\* are about to perform the same operation, or the grid rests on a NOP that the
\* listing hides.  With the flag -n this is so whenever the listing assembles.
ListingFollowsGrid ==
  listing # << >> =>
    /\ lip \in AssemblyIPs(listing)
    /\ instruction.op # "JMP" => instruction.op = OperationOf(gip) \/ Hidden

\* At most two jumps in a row: the second leads to an instruction that does
\* something, so that the listing cannot go round in jumps, and costs at most two
\* ticks more than the grid.
Target(instr) == InstructionAt(listing, instr.target)

JumpsLeadToWork ==
  \A k \in DOMAIN listing :
    listing[k].op = "JMP" /\ Target(listing[k]).op = "JMP"
      => Target(Target(listing[k])).op # "JMP"

\* A thread that splits, in the listing as on the grid, is replaced by the same
\* two threads in the same order, which is the order of their numbers
\* (instruction_scanner.cpp: TSP does not care about the order of its targets).
BornInOrder ==
  listing # << >> /\ instruction.op = "TSP" /\ OperationOf(gip) = "TSP" =>
    GridSplit(program, gip) = <<GridAdvance(program, gip, TRUE),
                                GridAdvance(program, gip, FALSE)>>
=============================================================================
