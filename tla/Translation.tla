----------------------------- MODULE Translation -----------------------------
(***************************************************************************)
(* A program run by the interpreter and, compiled, beside it: the same      *)
(* opcodes with the same input.  The compiled program is followed for as    *)
(* long as nothing has happened that takes the blame for a difference.      *)
(***************************************************************************)
EXTENDS StackMachine, CompiledProgram

VARIABLES
  block,  \* the stack of the compiled program
  blame,  \* "none", or why the two may differ
  said    \* what the last opcode printed, in the interpreter and compiled

compiled == <<block, blame, said>>

Quiet == <<"nothing", 0>>
Silence == <<Quiet, Quiet>>

\* A number that the compiled program has and a stack of the language has not.
Wide(n) == n \notin Int24s

\* How many of the values that an opcode reads it does not just take modulo 2^24.
Sensitive(op) ==
  CASE op \in {"DIV", "MOD"} -> 2
    [] op \in {"BNG", "PTI", "PTC", "EXP", "IDX"} -> 1
    [] OTHER -> 0

\* Why the compiled program may do something else with this opcode:
\*   undefined  the interpreter's own behaviour is undefined
\*   overflow   the result is no 24-bit number, signed or unsigned
\*   wide       an operand has more than 24 bits in the compiled program
\*   index      the interpreter masks a negative index, the compiled program does not
\*   character  there is no such character: what is printed is not the same
Cause(op) ==
  LET cells == block.cells
  IN IF Faulty(op, stack) THEN "undefined"
     ELSE IF Overflows(op, stack) \/ (op = "EXP" /\ Last(stack) >= Bits) THEN "overflow"
     ELSE IF \/ \E k \in 0 .. Sensitive(op) - 1 : Wide(cells[Len(cells) - k])
             \/ op \in Binary /\ Expression(op, Second(cells), Last(cells)) \notin Ints
             \/ op \in {"INC", "DEC"} /\ Last(cells) + 1 \notin Ints
             \/ op \in {"INC", "DEC"} /\ Last(cells) - 1 \notin Ints
     THEN "wide"
     ELSE IF op = "IDX" /\ Last(stack) < 0 THEN "index"
     ELSE IF op = "PTC" /\ "ascii" \notin flags /\ Last(stack) > MAX_CHAR THEN "character"
     ELSE "none"

-----------------------------------------------------------------------------
(* The two side by side.                                                   *)

\* The compiled program is not looked at any more.
LoseSight(cause) == /\ blame' = cause
                    /\ block' = EmptyBlock /\ said' = Silence

Follow(b) == IF b.dropped THEN LoseSight("memory")
             ELSE block' = b /\ UNCHANGED blame

PushBoth(op, v) == /\ blame = "none" /\ Push(op, v)
                   /\ \E b \in PushedOn(block, Pushed(op, v)) :
                        Follow(b) /\ (b.dropped \/ said' = Silence)

PerformBoth(op) ==
  /\ blame = "none" /\ Perform(op)
  /\ \/ /\ Cause(op) # "none" /\ LoseSight(Cause(op))
     \/ /\ Cause(op) = "none"
        /\ \E b \in Statement(op, block) :
             /\ Follow(b)
             /\ b.dropped \/ said' =
                  <<Says(op, Last(stack), "ascii" \in flags, "nothing"),
                    Says(op, Last(block.cells), "ascii" \in flags, "garbage")>>

\* The compiler refuses a program with threads, and a fault ends the comparison.
PartWays == /\ blame = "none"
            /\ \/ Threads /\ LoseSight("threads")
               \/ (\E op \in Opcodes : GoWrong(op)) /\ LoseSight("undefined")

ExitBoth == blame = "none" /\ Exit /\ UNCHANGED compiled

Alone == blame # "none" /\ SNext /\ UNCHANGED compiled

Init == /\ SInit
        /\ block = EmptyBlock /\ said = Silence
        /\ blame = IF flags \subseteq {"ascii"} THEN "none" ELSE "flags"

Next == \/ \E op \in Pushes, v \in Values : PushBoth(op, v)
        \/ \E op \in Opcodes : PerformBoth(op)
        \/ PartWays \/ ExitBoth \/ Alone

Spec == Init /\ [][Next]_<<machine, compiled>>

-----------------------------------------------------------------------------
(* Properties.                                                             *)

TypeOK ==
  /\ STypeOK
  /\ block.cells \in Seq(Ints) /\ block.capacity \in InitialCapacity .. MaxCapacity
  /\ blame \in {"none", "flags", "undefined", "overflow", "wide", "index",
                "character", "memory", "threads"}

\* The compiled program has the interpreter's stack, in numbers of 32 bits for
\* those of 24 and equal up to multiples of 2^24, and prints and branches alike,
\* until something takes the blame (README.md, "C compiler": a literal translation
\* of the input).
CompiledAgrees ==
  /\ TypeOK
  /\ blame = "none" =>
       /\ Len(block.cells) = Len(stack)
       /\ \A k \in DOMAIN stack : Unsigned(block.cells[k]) = Unsigned(stack[k])
       /\ said[1] = said[2]

\* A statement of the compiled program is undefined in C only where there is
\* somebody to blame: the program, or a number of more than 24 bits.
CompiledIsDefined ==
  blame = "none" /\ status = "running" =>
    \A op \in Opcodes : Cause(op) = "none" => ~Undefined(op, block.cells)

\* Cells are in use only where memory has been allocated, however the pushes
\* and the pops come and wherever realloc fails (lightweight_stack.h, lws_push).
InsideTheBlock == Len(block.cells) <= block.capacity

\* With -w every step into undefined behaviour is announced (README.md,
\* "Interpreter flags"), but for a shift by a negative or too large amount and
\* for a join with an empty stack.
UndefinedIsWarned ==
  "warnings" \in flags /\ status = "running" =>
    /\ \A op \in Opcodes \ {"EXP"} :
         Faulty(op, stack) /\ ~Skips(op, stack) => Warns(op, stack)
    /\ \A s \in {stack} \cup Range(parked) :
         FaultyJoin(s) /\ s # << >> => WarnsOfJoin(s)
=============================================================================
