---------------------------- MODULE StackMachine ----------------------------
(***************************************************************************)
(* What the opcodes do to the stack of their thread (thread<>::tick) and    *)
(* what two threads that meet put on theirs (join_threads_work).  A step is *)
(* the tick of one opcode; where the opcodes come from is left open, they   *)
(* come in any order.  The top of the stack is the last element.            *)
(*                                                                          *)
(* Where the code has undefined behaviour the machine stops in the status   *)
(* "undefined": the build may do anything from there on.                    *)
(***************************************************************************)
EXTENDS Int24, Opcodes

CONSTANTS
  Values,     \* what input, clock, dice and the cell after a push deliver
  Char0,      \* '0', subtracted from the argument of PSI
  MaxDepth,   \* bound on the length of a stack
  MaxSplit    \* the same while there are two threads

ASSUME StackAssumption == /\ Values \subseteq Int24s /\ Char0 \in Int24s
                          /\ MaxDepth \in Nat /\ MaxSplit \in 0 .. MaxDepth

VARIABLES
  flags,   \* those of Flags that are set
  status,  \* "running", "exited" or "undefined"
  stack,   \* m_stack of the thread
  parked   \* the stacks of the other threads: at most one, which waits

Flags == {"warnings", "pipekill", "ascii"}

machine == <<flags, status, stack, parked>>

-----------------------------------------------------------------------------
(* Undefined behaviour, and the warnings that -w gives for it.             *)

\* IDX: the index is masked, the values are counted down from the one below it.
IndexOf(s) == Unsigned(Last(s))

\* The stack is too short, a division by zero, a shift by a negative amount or
\* by the width of an int, an index out of range.
Faulty(op, s) ==
  IF Len(s) < Needs(op) THEN TRUE
  ELSE \/ op \in {"DIV", "UDV", "MOD"} /\ Last(s) = 0
       \/ op = "EXP" /\ Last(s) \notin 0 .. HostBits - 1
       \/ op = "IDX" /\ IndexOf(s) >= Len(s) - 1

\* With -w these leave an empty stack alone.
Skips(op, s) == "warnings" \in flags /\ s = << >> /\ op \in Protected \cup {"IDX"}

Exact(op, a, b) ==
  CASE op = "ADD" -> a + b
    [] op = "SUB" -> a - b
    [] op = "MUL" -> a * b
    [] op = "DIV" -> Quotient(a, b)
    [] op = "UDV" -> Unsigned(a) \div Unsigned(b)
    [] op = "MOD" -> Remainder(a, b)
    [] op = "AND" -> BitAnd(a, b)
    [] op = "IOR" -> BitOr(a, b)
    [] op = "XOR" -> BitXor(a, b)

\* The arithmetic leaves the range that add_with_overflow and the like accept.
Overflows(op, s) ==
  /\ Len(s) >= 2
  /\ \/ op \in {"ADD", "SUB", "MUL"} /\ Overflow(Exact(op, Second(s), Last(s)))
     \/ op = "DIV" /\ Second(s) = INT24_MIN /\ Last(s) = -1

\* Mutant: MOD is not among the divisions that look for a zero.
WarnsButForModulo(op, s) ==
  \/ Len(s) < Needs(op)
  \/ Overflows(op, s)
  \/ op \in {"DIV", "UDV"} /\ Last(s) = 0
  \/ op = "PTC" /\ Last(s) < 0
  \/ op = "IDX" /\ IndexOf(s) >= Len(s) - 1

Warns(op, s) ==
  \/ Len(s) < Needs(op)
  \/ Overflows(op, s)
  \/ op \in {"DIV", "UDV", "MOD"} /\ Last(s) = 0
  \/ op = "PTC" /\ Last(s) < 0
  \/ op = "IDX" /\ IndexOf(s) >= Len(s) - 1

-----------------------------------------------------------------------------
(* The stack after an opcode that is not faulty.                           *)

ExactUnary(op, a) ==
  CASE op = "INC" -> a + 1
    [] op = "DEC" -> a - 1
    [] op = "NOT" -> BitNot(a)
    [] op = "EXP" -> 2^a

CopySecond(s) == Append(s, Second(s))

After(op, s) ==
  CASE op \in Binary -> Append(Below(s, 2), Wrap(Exact(op, Second(s), Last(s))))
    [] op \in Unary -> Append(Below(s, 1), Wrap(ExactUnary(op, Last(s))))
    [] op = "POP" -> Below(s, 1)
    [] op = "DUP" -> Append(s, Last(s))
    [] op = "DP2" -> CopySecond(CopySecond(s))
    [] op = "SWP" -> Below(s, 2) \o <<Last(s), Second(s)>>
    [] op = "IDX" -> Append(Below(s, 1), s[Len(s) - 1 - IndexOf(s)])
    [] OTHER -> s

\* The number a push finds: PSI takes the value of a digit.
Pushed(op, v) == IF op = "PSI" THEN Wrap(v - Char0) ELSE v

-----------------------------------------------------------------------------
(* join_threads_work.                                                      *)

\* The top says how many values go over; all of them if it is negative.
Moved(s) == LET rest == Below(s, 1)
            IN IF Last(s) < 0 THEN rest
               ELSE SubSeq(rest, Len(rest) - Last(s) + 1, Len(rest))

Joined(first, second) == Moved(first) \o Moved(second)

FaultyJoin(s) == IF s = << >> THEN TRUE ELSE Last(s) > Len(s) - 1

WarnsOfJoin(s) == s # << >> /\ Last(s) > Len(s) - 1

-----------------------------------------------------------------------------
(* The ticks.                                                              *)

Fits(s) == Len(s) <= IF parked = << >> THEN MaxDepth ELSE MaxSplit

Push(op, v) == /\ status = "running"
               /\ stack' = Append(stack, Pushed(op, v))
               /\ Fits(stack')
               /\ UNCHANGED <<flags, status, parked>>

\* PTC of a negative number ends the program when the flag -f is set.
Quits(op) == op = "PTC" /\ "pipekill" \in flags /\ stack # << >> /\ Last(stack) < 0

Perform(op) == /\ status = "running"
               /\ ~Faulty(op, stack) /\ ~Quits(op)
               /\ stack' = After(op, stack)
               /\ Fits(stack')
               /\ UNCHANGED <<flags, status, parked>>

Skip(op) == /\ status = "running" /\ Skips(op, stack)
            /\ UNCHANGED machine

Quit(op) == /\ status = "running" /\ Quits(op)
            /\ status' = "exited"
            /\ UNCHANGED <<flags, stack, parked>>

\* With -f the program ends once stdout has failed, whatever was to be printed.
QuitUnheard(op) == /\ status = "running" /\ "pipekill" \in flags /\ op \in Printing
                   /\ stack # << >> \/ "warnings" \in flags
                   /\ status' = "exited"
                   /\ UNCHANGED <<flags, stack, parked>>

GoWrong(op) == /\ status = "running"
               /\ Faulty(op, stack) /\ ~Skips(op, stack)
               /\ status' = "undefined"
               /\ UNCHANGED <<flags, stack, parked>>

\* EXT, and TKL of the only thread.
Exit == /\ status = "running"
        /\ status' = "exited"
        /\ UNCHANGED <<flags, stack, parked>>

\* TSP, and later TJN of the one half; TKL of the running half.
Split == /\ status = "running" /\ parked = << >> /\ Len(stack) <= MaxSplit
         /\ parked' = <<stack>>
         /\ UNCHANGED <<flags, status, stack>>

\* The two halves take turns.
Turn == /\ status = "running" /\ parked # << >>
        /\ stack' = parked[1] /\ parked' = <<stack>>
        /\ UNCHANGED <<flags, status>>

\* Either half may be the one with the smaller index.
Join == /\ status = "running" /\ parked # << >>
        /\ ~FaultyJoin(stack) /\ ~FaultyJoin(parked[1])
        /\ stack' \in {Joined(stack, parked[1]), Joined(parked[1], stack)}
        /\ Len(stack') <= MaxDepth
        /\ parked' = << >>
        /\ UNCHANGED <<flags, status>>

JoinWrong == /\ status = "running" /\ parked # << >>
             /\ FaultyJoin(stack) \/ FaultyJoin(parked[1])
             /\ status' = "undefined"
             /\ UNCHANGED <<flags, stack, parked>>

Threads == Split \/ Turn \/ Join \/ JoinWrong

-----------------------------------------------------------------------------
SInit == /\ flags \in SUBSET Flags
         /\ status = "running" /\ stack = << >> /\ parked = << >>

SNext == \/ \E op \in Pushes, v \in Values : Push(op, v)
         \/ \E op \in Opcodes : Perform(op) \/ Skip(op) \/ Quit(op)
                              \/ QuitUnheard(op) \/ GoWrong(op)
         \/ Exit \/ Threads

SSpec == SInit /\ [][SNext]_machine

-----------------------------------------------------------------------------
(* Properties.                                                             *)

STypeOK ==
  /\ flags \subseteq Flags
  /\ status \in {"running", "exited", "undefined"}
  /\ stack \in Seq(Int24s) /\ Len(stack) <= MaxDepth
  /\ Len(parked) <= 1 /\ \A k \in DOMAIN parked : parked[k] \in Seq(Int24s)
=============================================================================
