------------------------- MODULE InstructionScanner -------------------------
(***************************************************************************)
(* instruction_scanner::build_state: how the disassembler and the compiler *)
(* lay a grid out as lines of instructions.  One step is one iteration of  *)
(* its loops: take a fragment from the worklist, or trace the IP of the    *)
(* current fragment by one cell.                                           *)
(*                                                                         *)
(* A location is a pair <<fragment, offset>>, both from 0.  An optional    *)
(* fragment is a sequence of at most one fragment.                         *)
(***************************************************************************)
EXTENDS ProgramWalker, SequencesExt

CONSTANT Sources   \* the program texts to scan, sequences of cells

\* The operations that depend on the heading are negative numbers, which no
\* source text spells; and no cell is without a name.
Directed == {"BNG", "JMP", "TSP", "TJN", "TKL"}

ASSUME SourcesAreTexts ==
  \A source \in Sources : Stripped(source) \in Seq(STRING \ (Directed \cup {""}))

VARIABLES
  program,              \* m_program
  fragments,            \* m_fragments
  location_map,         \* function from IPs to locations
  unvisited_fragments,  \* sequence of <<index, ip>>
  phase,                \* "take" a fragment, "trace" one, or "done"
  index, ip, fragment   \* the current fragment

worklist == <<fragments, unvisited_fragments>>
current  == <<index, ip, fragment>>
vars     == <<program, worklist, location_map, phase, current>>

-----------------------------------------------------------------------------
(* Instructions.                                                           *)

Plain(op, number)           == [op |-> op, number |-> number]
JumpTo(next)                == [op |-> "JMP", next |-> next]
ChoiceTo(op, first, second) == [op |-> op, choice |-> <<first, second>>]

Exits == {"EXT", "TKL"}

\* The heading with its north bit flipped.
Flipped(x) == [x EXCEPT !.dir = (@ + 4) % 8]

-----------------------------------------------------------------------------
(* The loops.                                                              *)

\* Mutant: the fragment is read from the worklist but not removed.
TakeInPlace == /\ phase = "take" /\ unvisited_fragments # << >>
               /\ index' = Last(unvisited_fragments)[1]
               /\ ip' = Last(unvisited_fragments)[2]
               /\ fragment' = << >>
               /\ phase' = "trace"
               /\ UNCHANGED <<program, worklist, location_map>>

Take == /\ phase = "take" /\ unvisited_fragments # << >>
        /\ index' = Last(unvisited_fragments)[1]
        /\ ip' = Last(unvisited_fragments)[2]
        /\ unvisited_fragments' = Front(unvisited_fragments)
        /\ fragment' = << >>
        /\ phase' = "trace"
        /\ UNCHANGED <<program, fragments, location_map>>

Finish == /\ phase = "take" /\ unvisited_fragments = << >>
          /\ phase' = "done"
          /\ UNCHANGED <<program, worklist, location_map, current>>

op        == CellAt(program, ip.coords)
operation == DirectedOp(op, ip.dir)

\* A push takes the next cell as its argument; others ignore theirs.
plain     == Plain(operation, CellAt(program, Step(ip, program.side).coords))

\* Where the next instruction goes.
here == <<index, Len(fragment)>>

\* The current fragment ends with this instruction; "more" fragments are new.
EndsWith(instr, more) ==
  /\ fragments' = [fragments EXCEPT ![index + 1] = <<Append(fragment, instr)>>]
                    \o more
  /\ phase' = "take"
  /\ UNCHANGED <<program, current>>

Located(x, location) ==
  location_map' = [y \in DOMAIN location_map \cup {x} |->
                     IF y = x THEN location ELSE location_map[y]]

New == phase = "trace" /\ ip \notin DOMAIN location_map

\* Mutant: the IP is located anew before its location is looked up.
JumpToItself == /\ phase = "trace" /\ ip \in DOMAIN location_map
                /\ Located(ip, here)
                /\ EndsWith(JumpTo(here), << >>)
                /\ UNCHANGED unvisited_fragments

\* A cell that has been traced with this heading: go on there.
JumpBack == /\ phase = "trace" /\ ip \in DOMAIN location_map
            /\ EndsWith(JumpTo(location_map[ip]), << >>)
            /\ UNCHANGED <<location_map, unvisited_fragments>>

\* Mutant: joins are no special case.
NoOtherSide == FALSE

\* A join that has been traced with the other heading: it must not be emitted
\* twice, or the two threads would wait at different instructions.
AtOtherSide == operation = "TJN" /\ Flipped(ip) \in DOMAIN location_map

JoinOtherSide == /\ New /\ ~IsBranch(op, ip.dir) /\ AtOtherSide
                 /\ Located(ip, location_map[Flipped(ip)])
                 /\ EndsWith(JumpTo(location_map[Flipped(ip)]), << >>)
                 /\ UNCHANGED unvisited_fragments

Exit == /\ New /\ ~IsBranch(op, ip.dir) /\ operation \in Exits
        /\ Located(ip, here)
        /\ EndsWith(plain, << >>)
        /\ UNCHANGED unvisited_fragments

Emit == /\ New /\ ~IsBranch(op, ip.dir) /\ ~AtOtherSide /\ operation \notin Exits
        /\ Located(ip, here)
        /\ fragment' = Append(fragment, plain)
        /\ ip' = GridAdvance(program, ip, FALSE)
        /\ UNCHANGED <<program, worklist, phase, index>>

\* Mutant: both ways get the same fragment.
SharedPlace(count, firsts) == count

\* m_fragments->size(), after the fragment of the first way has been added.
SecondPlace(count, firsts) == count + firsts

\* A branch point: the way to the right is the next fragment to be taken, the
\* way to the left the last; a way that has been traced needs no fragment.
BranchPoint ==
  /\ New /\ IsBranch(op, ip.dir)
  /\ Located(ip, here)
  /\ LET first  == GridAdvance(program, ip, FALSE)
         second == GridAdvance(program, ip, TRUE)
         fresh(x) == IF x \in DOMAIN location_map' THEN 0 ELSE 1
         dest(x, k) == IF fresh(x) = 0 THEN location_map'[x] ELSE <<k, 0>>
         count   == Len(fragments)
         firsts  == fresh(first)
         seconds == fresh(second)
     IN /\ unvisited_fragments' =
             [k \in 1 .. seconds |-> <<SecondPlace(count, firsts), second>>]
               \o unvisited_fragments \o [k \in 1 .. firsts |-> <<count, first>>]
        /\ EndsWith(ChoiceTo(IF op \in ThreadOps THEN "TSP" ELSE "BNG",
                             dest(first, count), dest(second, SecondPlace(count, firsts))),
                    [k \in 1 .. firsts + seconds |-> << >>])

Trace == JumpBack \/ JoinOtherSide \/ Exit \/ Emit \/ BranchPoint

Init == /\ program \in { MakeProgram(source) : source \in Sources }
        /\ program.side # 0
        /\ fragments = << << >> >>
        /\ location_map = << >>
        /\ unvisited_fragments = <<<<0, GridStart>>>>
        /\ phase = "take"
        /\ index = 0 /\ ip = GridStart /\ fragment = << >>

Scan == Take \/ Finish \/ Trace

Spec == Init /\ [][Scan]_vars /\ WF_vars(Scan)

-----------------------------------------------------------------------------
(* Properties.                                                             *)

Filled == { k \in 0 .. Len(fragments) - 1 : fragments[k + 1] # << >> }

TypeOK ==
  /\ phase \in {"take", "trace", "done"}
  /\ DOMAIN location_map \subseteq GridIPs(program)
  /\ \A x \in DOMAIN location_map : location_map[x] \in Nat \X Nat
  /\ unvisited_fragments \in Seq(Nat \X GridIPs(program))
  /\ \A k \in DOMAIN fragments : Len(fragments[k]) <= 1
  /\ index \in 0 .. Len(fragments) - 1 /\ ip \in GridIPs(program)

\* Every fragment is either filled or waits, once, to be: on the worklist or as
\* the current one.  So each emplace fills an empty optional, and none that the
\* disassembler dereferences is empty.
Waiting == [k \in DOMAIN unvisited_fragments |-> unvisited_fragments[k][1]]
             \o (IF phase = "trace" THEN <<index>> ELSE << >>)

EveryFragmentOnce ==
  /\ TypeOK
  /\ IsInjective(Waiting)
  /\ ToSet(Waiting) = (0 .. Len(fragments) - 1) \ Filled

\* The instructions of a fragment; the current one's included.
CodeOf(k) ==
  IF phase = "trace" /\ k = index THEN fragment
  ELSE IF k \in Filled THEN fragments[k + 1][1] ELSE << >>

\* The instructions at a location, none or one.
At(location) ==
  { CodeOf(location[1])[j] : j \in DOMAIN CodeOf(location[1]) \cap {location[2] + 1} }

OperationOf(x) ==
  LET o == CellAt(program, x.coords)
  IN IF IsBranch(o, x.dir) THEN IF o \in ThreadOps THEN "TSP" ELSE "BNG"
     ELSE DirectedOp(o, x.dir)

LocatedAtWork ==
  \A x \in DOMAIN location_map :
    \E instr \in At(location_map[x]) : instr.op = OperationOf(x)

JoinsShareALine ==
  \A x, y \in DOMAIN location_map :
    x # y => (location_map[x] = location_map[y]
                <=> /\ OperationOf(x) = "TJN" /\ OperationOf(y) = "TJN"
                    /\ x.coords = y.coords)

\* At this location the work of the IP is, or a jump to where it is, or it is
\* going to be put there.
Reaches(location, x) ==
  \/ /\ x \in DOMAIN location_map
     /\ location_map[x] = location \/ At(location) = {JumpTo(location_map[x])}
  \/ phase = "trace" /\ location = here /\ x = ip
  \/ /\ location[2] = 0
     /\ \E k \in DOMAIN unvisited_fragments :
          unvisited_fragments[k] = <<location[1], x>>

Following(location) == <<location[1], location[2] + 1>>

GoesOnThere ==
  /\ Reaches(<<0, 0>>, GridStart)
  /\ \A x \in DOMAIN location_map : \A instr \in At(location_map[x]) :
       IF instr.op \in {"BNG", "TSP"}
       THEN /\ Reaches(instr.choice[1], GridAdvance(program, x, FALSE))
            /\ Reaches(instr.choice[2], GridAdvance(program, x, TRUE))
       ELSE instr.op \in Exits
            \/ Reaches(Following(location_map[x]), GridAdvance(program, x, FALSE))

\* An IP that has been located has its own operation there, never a jump.  Two
\* IPs share a location exactly if they are the two headings of one join:
\* threads that meet on the grid meet in the listing, and no others do.  What
\* follows there is what the grid goes on with, in each direction of a branch.
LocationsFit == LocatedAtWork /\ JoinsShareALine /\ GoesOnThere

\* The traversal of a finite board ends.
ScanEnds == <>(phase = "done")
=============================================================================
