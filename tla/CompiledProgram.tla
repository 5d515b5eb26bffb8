--------------------------- MODULE CompiledProgram ---------------------------
(***************************************************************************)
(* The C program that compiler::write_state prints, by what its statements  *)
(* do to the stack of compiler/lightweight_stack.h: ints of the host in a   *)
(* block of memory that grows.                                              *)
(***************************************************************************)
EXTENDS Int24, Opcodes

CONSTANTS
  InitialCapacity,  \* calloc(4, ..)
  MaxCapacity,      \* bound on the capacity
  MAX_CHAR          \* 0x1fffff, the largest number that has a UTF-8 form

\* With one cell the stack would not grow: 1 * 7 / 4 = 1.
ASSUME CapacityAssumption ==
  /\ InitialCapacity \in Nat \ {0, 1}
  /\ MaxCapacity \in Nat /\ InitialCapacity <= MaxCapacity
  /\ MAX_CHAR \in 0 .. INT24_MAX

-----------------------------------------------------------------------------
(* lightweight_stack.h.  A block: the cells in use, the number of cells     *)
(* allocated, and whether a push has found no memory.                       *)

EmptyBlock == [cells |-> << >>, capacity |-> InitialCapacity, dropped |-> FALSE]

\* Mutant: growing by a quarter, rounded down, does not grow a small block.
GrownByQuarter(capacity) == (capacity * 5) \div 4

Grown(capacity) == (capacity * 7) \div 4

Popped(b, n) == [b EXCEPT !.cells = Below(@, n)]

\* lws_push: the blocks it may leave.  When realloc fails the value is lost,
\* and nobody looks at the 0 that is returned.
PushedOn(b, v) ==
  LET pushed == [b EXCEPT !.cells = Append(@, v)]
  IN IF Len(b.cells) < b.capacity THEN {pushed}
     ELSE {[b EXCEPT !.dropped = TRUE]}
            \cup {g \in {[pushed EXCEPT !.capacity = Grown(@)]} : g.capacity <= MaxCapacity}

-----------------------------------------------------------------------------
(* compiler::get_c_code.                                                   *)

\* Mutant: one bit too many.
SpareAndOne == HostBits - Bits + 1

Spare == HostBits - Bits

\* << 8 >> 8
Shifted(n) == Signed(n * 2^Spare, HostBits) \div 2^Spare

\* The value of the expression that is pushed.
Expression(op, a, b) ==
  CASE op = "ADD" -> a + b
    [] op = "SUB" -> a - b
    [] op = "MUL" -> a * b
    [] op = "DIV" -> Quotient(a, b)
    [] op = "UDV" -> Unsigned(a) \div Unsigned(b)
    [] op = "MOD" -> Remainder(a, b)
    [] op = "AND" -> BitAnd(a, b)
    [] op = "IOR" -> BitOr(a, b)
    [] op = "XOR" -> BitXor(a, b)

UnaryExpression(op, a) ==
  CASE op = "INC" -> Shifted(a + 1)
    [] op = "DEC" -> Shifted(a - 1)
    [] op = "NOT" -> BitNot(a)
    [] op = "EXP" -> Signed(2^(a + Spare), HostBits) \div 2^Spare

\* lws_index(stack, 1) is pushed, twice.
PushSecond(b) == PushedOn(b, Second(b.cells))

\* Mutant: temp2 is pushed first, which swaps nothing.
SwapNothing(b) ==
  UNION { PushedOn(c, Last(b.cells)) : c \in PushedOn(Popped(b, 2), Second(b.cells)) }

SwapTop(b) ==
  UNION { PushedOn(c, Second(b.cells)) : c \in PushedOn(Popped(b, 2), Last(b.cells)) }

\* The blocks a statement may leave.
Statement(op, b) ==
  LET s == b.cells
  IN CASE op \in Binary -> PushedOn(Popped(b, 2), Expression(op, Second(s), Last(s)))
       [] op \in Unary -> PushedOn(Popped(b, 1), UnaryExpression(op, Last(s)))
       [] op = "POP" -> {Popped(b, 1)}
       [] op = "DUP" -> PushedOn(b, Last(s))
       [] op = "DP2" -> UNION { PushSecond(c) : c \in PushSecond(b) }
       [] op = "SWP" -> SwapTop(b)
       [] op = "IDX" -> PushedOn(Popped(b, 1), s[Len(s) - 1 - Last(s)])
       [] OTHER -> {b}

\* The statement is undefined in C: the stack underflows, the result does not
\* fit an int, a division by zero, a shift or an index out of range.
Undefined(op, s) ==
  \/ Len(s) < Needs(op)
  \/ op \in {"DIV", "MOD"} /\ Last(s) = 0
  \/ op = "UDV" /\ Unsigned(Last(s)) = 0
  \/ op \in Binary /\ Expression(op, Second(s), Last(s)) \notin Ints
  \/ op \in {"INC", "DEC"} /\ Last(s) \in {-(2^(HostBits - 1)), 2^(HostBits - 1) - 1}
  \/ op = "EXP" /\ Last(s) + Spare \notin 0 .. HostBits - 1
  \/ op = "IDX" /\ Last(s) \notin 0 .. Len(s) - 2

-----------------------------------------------------------------------------
(* What a statement prints, or, for BNG, which way it goes.                *)

\* putchar keeps the low byte; print_unichar does so below 0x80.
Byte(n) == n % 2^Spare

Character(n, ascii, beyond) ==
  IF ascii \/ n < 0 THEN <<"byte", Byte(n)>>
  ELSE IF n <= MAX_CHAR THEN <<"character", n>> ELSE <<beyond, 0>>

Says(op, n, ascii, beyond) ==
  CASE op = "PTC" -> Character(n, ascii, beyond)
    [] op = "PTI" -> <<"number", n>>
    [] op = "PTU" -> <<"number", Unsigned(n)>>
    [] op = "BNG" -> <<"left", n < 0>>
    [] OTHER -> <<"nothing", 0>>
=============================================================================
