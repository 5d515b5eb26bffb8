---------------------------- MODULE StartupProofs ----------------------------
(***************************************************************************)
(* Theorems about Startup, for every command line and every text: what is  *)
(* refused is what the help text forbids, one disputed pair of flags left  *)
(* open; no flag is accepted and ignored; the source is read whole,        *)
(* whatever the size of the buffer; what was written is what the program   *)
(* reads, a spoilt character and its neighbour apart; and the grid that is *)
(* printed is read back as the same grid.                                  *)
(***************************************************************************)
EXTENDS Startup, GridProofs

-----------------------------------------------------------------------------
(* Arguments and flags.                                                    *)

LEMMA MinIsLeast ==
  ASSUME NEW S, S \subseteq Nat, S # {}
  PROVE  Min(S) \in S /\ \A m \in S : Min(S) <= m
BY LeastNumber DEF Min

LEMMA OnlyTheEmptyHasNoElements ==
  ASSUME NEW S, NEW s \in Seq(S)
  PROVE  DOMAIN s = {} <=> s = << >>
<1>1. DOMAIN s = 1 .. Len(s) /\ Len(s) \in Nat
  OBVIOUS
<1>2. DOMAIN s = {} <=> Len(s) = 0
  <2>1. Len(s) # 0 => 1 \in 1 .. Len(s)
    BY <1>1
  <2>. QED BY <1>1, <2>1
<1>. QED BY <1>2, EmptySeq

\* set_flag recognizes what stands in the table, and in a cluster every letter.
LEMMA KnownIsInTheTable ==
  ASSUME NEW arg \in Arguments, IsDashed(arg)
  PROVE  Known(arg) <=> InTheTable(arg)
<1>1. CASE arg.kind = "long"
  BY <1>1 DEF Known, Named, InTheTable
<1>2. CASE arg.kind = "short"
  <2>1. arg.letters \in Seq(STRING)
    BY <1>2 DEF Arguments
  <2>2. ToSet(arg.letters) = { arg.letters[k] : k \in DOMAIN arg.letters }
    BY DEF ToSet
  <2>3. DOMAIN arg.letters = {} <=> arg.letters = << >>
    BY <2>1, OnlyTheEmptyHasNoElements
  <2>. QED BY <1>2, <2>2, <2>3 DEF Known, Named, InTheTable, Letters
<1>. QED BY <1>1, <1>2 DEF Arguments, IsDashed

\* Two dashes alone are no flag.
LEMMA DashesUnknown == ~Known(Dashes)
<1>. DEFINE N == {"null", "debug", "ascii", "expand", "compile", "warnings", "pipekill",
                  "assembly", "hide-nops", "show-stack", "disassemble"}
<1>1. \A t \in FLAGS : t.name # ""
  <2>1. \A t \in FLAGS : t.name \in N
    BY DEF FLAGS, Flag
  <2>2. "" \notin N
    BY Zenon
  <2>. QED BY <2>1, <2>2, Zenon
<1>2. Dashes.kind = "long" /\ Dashes.name = ""
  BY DEF Dashes, Long
<1>. QED BY <1>1, <1>2 DEF Known, Named

LEMMA SetByFields == \A arg : SetBy(arg) \subseteq Fields
BY DEF SetBy, Named, Fields

\* is_valid accepts what the help text allows and the disputed pair, nothing else.
LEMMA ValidOrDisputed ==
  ASSUME NEW f, f \subseteq Fields
  PROVE  IsValid(f) <=> HelpAllows(f) \/ Disputed(f)
<1>1. Fields = {"null_terminated", "debug", "assume_ascii", "expand", "compile", "warnings",
                "pipekill", "assembly", "hide_nops", "show_stack", "disassemble"}
  BY DEF Fields, FLAGS, Flag
<1>2. ASSUME IsValid(f), ~Disputed(f) PROVE HelpAllows(f)
  BY <1>1, <1>2 DEF IsValid, HelpAllows, Running, Disputed
<1>3. ASSUME HelpAllows(f) PROVE IsValid(f)
  BY <1>1, <1>3 DEF IsValid, HelpAllows, Running
<1>4. ASSUME Disputed(f) PROVE IsValid(f)
  BY <1>1, <1>4 DEF IsValid, HelpAllows, Running, Disputed
<1>. QED BY <1>2, <1>3, <1>4

-----------------------------------------------------------------------------
(* The command line is read from left to right.                            *)

FirstAsked == Min(Asking \cup {Len(argv) + 1})

\* When parse_args refuses the command line.
Refusable == Unacceptable \/ (Asking = {} /\ ~IsValid(Given))

\* What parse_args knows before it looks at argument number next: all flags so
\* far are in the table and set, and there has been one name or none.
ParsedInv ==
  /\ next \in 1 .. Len(argv) + 1
  /\ parse_flags = (next <= Divide)
  /\ \A k \in Options : k < next => argv[k] \notin Asks /\ Known(argv[k])
  /\ flags = UNION { SetBy(argv[k]) : k \in { j \in Options : j < next } }
  /\ filename # << >> <=> \E k \in Names : k < next
  /\ \A j, k \in Names : j < k => next <= k

ArgsInv ==
  /\ invocation \in Invocations
  /\ phase \in {"args", "read", "execute", "run", "exit"}
  /\ phase = "args" => ParsedInv
  /\ phase # "exit" => status = ""
  /\ phase \in {"read", "execute", "run"} => IsValid(flags) /\ flags \subseteq Fields
  /\ phase = "run" => mode = Chosen
  /\ phase # "args" => (status = "EX_USAGE" <=> Refusable)

LEMMA Arguable ==
  ASSUME invocation \in Invocations
  PROVE  /\ argv \in Seq(Arguments) /\ DOMAIN argv = 1 .. Len(argv) /\ Len(argv) \in Nat
         /\ Divide \in 1 .. Len(argv) + 1
         /\ Divide <= Len(argv) => argv[Divide] = Dashes
         /\ \A k \in 1 .. Divide - 1 : argv[k] # Dashes
<1>1. argv \in Seq(Arguments)
  BY InvocationsAssumption DEF argv
<1>2. DOMAIN argv = 1 .. Len(argv) /\ Len(argv) \in Nat
  BY <1>1
<1>. DEFINE S == { k \in DOMAIN argv : argv[k] = Dashes } \cup {Len(argv) + 1}
<1>3. S \subseteq Nat /\ S # {}
  BY <1>2
<1>4. Divide \in S /\ \A m \in S : Divide <= m
  <2>1. Divide = Min(S)
    BY DEF Divide
  <2>. HIDE DEF S
  <2>. QED BY <1>3, <2>1, MinIsLeast
<1>. QED BY <1>1, <1>2, <1>4

LEMMA AskedLater ==
  ASSUME invocation \in Invocations, ParsedInv
  PROVE  /\ FirstAsked \in next .. Len(argv) + 1
         /\ FirstAsked \in Asking \cup {Len(argv) + 1}
         /\ \A k \in Asking : FirstAsked <= k
<1>1. Len(argv) \in Nat /\ Divide \in 1 .. Len(argv) + 1 /\ next \in 1 .. Len(argv) + 1
  BY Arguable DEF ParsedInv
<1>. DEFINE S == Asking \cup {Len(argv) + 1}
<1>2. \A k \in Asking : k \in 1 .. Len(argv) /\ next <= k
  BY <1>1 DEF Asking, Options, ParsedInv
<1>3. S \subseteq Nat /\ S # {}
  BY <1>1, <1>2
<1>4. FirstAsked \in S /\ \A m \in S : FirstAsked <= m
  <2>1. FirstAsked = Min(S)
    BY DEF FirstAsked
  <2>. HIDE DEF S
  <2>. QED BY <1>3, <2>1, MinIsLeast
<1>. QED BY <1>1, <1>2, <1>4

\* Where an argument belongs that parse_args looks at.
LEMMA ArgumentAt ==
  ASSUME invocation \in Invocations, ParsedInv, next <= Len(argv)
  PROVE  /\ argument = argv[next] /\ argument \in Arguments
         /\ parse_flags /\ IsDashed(argument) /\ argument # Dashes <=> next \in Options
         /\ parse_flags /\ argument = Dashes <=> next = Divide
         /\ ~(parse_flags /\ IsDashed(argument)) <=> next \in Names
<1>1. /\ argv \in Seq(Arguments) /\ DOMAIN argv = 1 .. Len(argv) /\ Len(argv) \in Nat
      /\ Divide \in 1 .. Len(argv) + 1
      /\ Divide <= Len(argv) => argv[Divide] = Dashes
      /\ \A k \in 1 .. Divide - 1 : argv[k] # Dashes
  BY Arguable
<1>2. next \in 1 .. Len(argv) /\ parse_flags = (next <= Divide)
  BY <1>1 DEF ParsedInv
<1>3. argument = argv[next] /\ argument \in Arguments
  BY <1>1, <1>2 DEF argument, argv
<1>4. IsDashed(Dashes)
  BY DEF IsDashed, Dashes, Long
<1>5. next \in Options <=> next < Divide /\ IsDashed(argument)
  BY <1>1, <1>2, <1>3 DEF Options
<1>6. next \in Names <=> next \notin Options /\ next # Divide
  BY <1>1, <1>2 DEF Names
<1>7. next = Divide => argument = Dashes
  BY <1>1, <1>2, <1>3
<1>8. argument = Dashes => ~(next < Divide)
  <2>1. next < Divide => next \in 1 .. Divide - 1
    BY <1>1, <1>2
  <2>2. next < Divide => argv[next] # Dashes
    <3>. HIDE DEF argv, Dashes
    <3>. QED BY <1>1, <2>1, Zenon
  <2>. QED BY <1>3, <2>2
<1>9. next \in Int /\ Divide \in Int
  BY <1>1, <1>2
<1>10. parse_flags <=> next <= Divide
  BY <1>2
<1>11. parse_flags <=> next < Divide \/ next = Divide
  BY <1>9, <1>10
<1>12. parse_flags /\ IsDashed(argument) /\ argument # Dashes <=> next \in Options
  BY <1>5, <1>7, <1>8, <1>11, Zenon
<1>13. parse_flags /\ argument = Dashes <=> next = Divide
  BY <1>7, <1>8, <1>11, Zenon
<1>14. ~(parse_flags /\ IsDashed(argument)) <=> next \in Names
  BY <1>4, <1>6, <1>12, <1>13, Zenon
<1>. QED BY <1>3, <1>12, <1>13, <1>14

\* Nothing that has been read is a reason to refuse the command line.
LEMMA NothingMisplacedYet ==
  ASSUME invocation \in Invocations, ParsedInv, NEW k \in 1 .. next - 1
  PROVE  ~Misplaced(k)
<1>1. /\ argv \in Seq(Arguments) /\ DOMAIN argv = 1 .. Len(argv) /\ Len(argv) \in Nat
      /\ Divide \in 1 .. Len(argv) + 1
  BY Arguable
<1>2. k \in 1 .. Len(argv) /\ k < next
  BY <1>1 DEF ParsedInv
<1>3. ASSUME k \in Options PROVE Known(argv[k]) /\ InTheTable(argv[k])
  <2>1. Known(argv[k]) /\ argv[k] \in Arguments /\ IsDashed(argv[k])
    BY <1>1, <1>2, <1>3 DEF ParsedInv, Options
  <2>. QED BY <2>1, KnownIsInTheTable
<1>4. ASSUME k \in Names, NEW j \in Names PROVE ~(j < k)
  <2>1. j < k => next <= k
    BY <1>4 DEF ParsedInv
  <2>2. next \in Int /\ k \in Int
    BY <1>1, <1>2 DEF ParsedInv
  <2>. QED BY <1>2, <2>1, <2>2
<1>. QED BY <1>3, <1>4 DEF Misplaced

\* A call for help that is reached is answered.
LEMMA HelpIsNoRefusal ==
  ASSUME invocation \in Invocations, ParsedInv, next \in Asking
  PROVE  ~Refusable
<1>1. Len(argv) \in Nat /\ next \in 1 .. Len(argv) + 1
  BY Arguable DEF ParsedInv
<1>2. FirstAsked = next
  BY <1>1, AskedLater
<1>3. \A k \in 1 .. FirstAsked - 1 : ~Misplaced(k)
  BY <1>2, NothingMisplacedYet
<1>. QED BY <1>3 DEF Refusable, Unacceptable, FirstAsked

\* What cannot be accepted is refused where it stands.
LEMMA MisplacedIsRefused ==
  ASSUME invocation \in Invocations, ParsedInv, next <= Len(argv),
         next \notin Asking, Misplaced(next)
  PROVE  Refusable
<1>1. Len(argv) \in Nat /\ next \in 1 .. Len(argv) + 1
  BY Arguable DEF ParsedInv
<1>2. FirstAsked \in Int /\ FirstAsked # next /\ next <= FirstAsked
  BY <1>1, AskedLater
<1>3. next \in 1 .. FirstAsked - 1
  BY <1>1, <1>2
<1>. QED BY <1>3 DEF Refusable, Unacceptable, FirstAsked

\* With all arguments read, the flags decide.
LEMMA FlagsDecide ==
  ASSUME invocation \in Invocations, ParsedInv, next > Len(argv)
  PROVE  /\ flags \subseteq Fields
         /\ Refusable <=> ~IsValid(flags)
<1>1. /\ Len(argv) \in Nat /\ next = Len(argv) + 1 /\ Divide \in 1 .. Len(argv) + 1
  BY Arguable DEF ParsedInv
<1>2. \A k \in Options : k < next
  BY <1>1 DEF Options
<1>3. Asking = {}
  BY <1>2 DEF Asking, ParsedInv
<1>4. flags = Given
  <2>1. { j \in Options : j < next } = Options \ Asking
    BY <1>2, <1>3
  <2>2. flags = UNION { SetBy(argv[k]) : k \in { j \in Options : j < next } }
    BY DEF ParsedInv
  <2>. QED BY <2>1, <2>2 DEF Given
<1>5. flags \subseteq Fields
  BY <1>4, SetByFields DEF Given
<1>6. \A k \in 1 .. FirstAsked - 1 : ~Misplaced(k)
  <2>1. FirstAsked = next
    BY <1>1, <1>3, AskedLater
  <2>. QED BY <2>1, NothingMisplacedYet
<1>7. ~Unacceptable
  BY <1>6 DEF Unacceptable, FirstAsked
<1>. QED BY <1>3, <1>4, <1>5, <1>7 DEF Refusable

-----------------------------------------------------------------------------
(* One step.                                                               *)

\* What the arguments are does not change while they are read.
LEMMA SameArguments ==
  ASSUME invocation' = invocation
  PROVE  /\ argv' = argv /\ Divide' = Divide /\ Options' = Options /\ Names' = Names
         /\ Refusable' = Refusable
<1>1. argv' = argv
  BY DEF argv
<1>2. Divide' = Divide
  BY <1>1 DEF Divide
<1>3. Options' = Options
  BY <1>1, <1>2 DEF Options
<1>4. Names' = Names
  BY <1>1, <1>2, <1>3 DEF Names
<1>5. Asking' = Asking
  BY <1>1, <1>3 DEF Asking
<1>6. Unacceptable' = Unacceptable
  BY <1>1, <1>3, <1>4, <1>5 DEF Unacceptable, Misplaced
<1>7. Given' = Given
  BY <1>1, <1>3, <1>5 DEF Given
<1>8. Refusable' = Refusable
  BY <1>5, <1>6, <1>7 DEF Refusable
<1>. QED BY <1>1, <1>2, <1>3, <1>4, <1>8

\* One argument is read, and nothing is refused.
LEMMA ArgumentRead ==
  ASSUME invocation \in Invocations, ParsedInv, next <= Len(argv),
         invocation' = invocation, next' = next + 1,
         parse_flags' = (parse_flags /\ next # Divide),
         next \in Options => argv[next] \notin Asks /\ Known(argv[next]),
         flags' = IF next \in Options THEN flags \cup SetBy(argv[next]) ELSE flags,
         filename' # << >> <=> next \in Names \/ filename # << >>,
         next \in Names => filename = << >>
  PROVE  ParsedInv'
<1>1. /\ argv' = argv /\ Divide' = Divide /\ Options' = Options /\ Names' = Names
  BY SameArguments
<1>2. /\ Len(argv) \in Nat /\ next \in 1 .. Len(argv) /\ Divide \in 1 .. Len(argv) + 1
  BY Arguable DEF ParsedInv
<1>3. Options \subseteq Int /\ Names \subseteq Int
  BY <1>2, Arguable DEF Options, Names
<1>4. \A k \in Int : k < next + 1 <=> k < next \/ k = next
  BY <1>2
<1>5. next' \in 1 .. Len(argv') + 1
  BY <1>1, <1>2
<1>6. parse_flags' = (next' <= Divide')
  <2>1. parse_flags = (next <= Divide)
    BY DEF ParsedInv
  <2>2. (next <= Divide /\ next # Divide) = (next + 1 <= Divide)
    BY <1>2
  <2>3. parse_flags' = (next <= Divide /\ next # Divide)
    BY <2>1, Zenon
  <2>4. next' = next + 1 /\ Divide' = Divide
    BY <1>1
  <2>. HIDE DEF Divide
  <2>. QED BY <2>2, <2>3, <2>4
<1>7. \A k \in Options : k < next + 1 => argv[k] \notin Asks /\ Known(argv[k])
  BY <1>3, <1>4 DEF ParsedInv
<1>8. flags' = UNION { SetBy(argv[k]) : k \in { j \in Options : j < next + 1 } }
  <2>1. flags = UNION { SetBy(argv[k]) : k \in { j \in Options : j < next } }
    BY DEF ParsedInv
  <2>2. CASE next \in Options
    <3>1. { j \in Options : j < next + 1 } = { j \in Options : j < next } \cup {next}
      BY <1>3, <1>4, <2>2
    <3>. QED BY <2>1, <2>2, <3>1
  <2>3. CASE next \notin Options
    <3>1. { j \in Options : j < next + 1 } = { j \in Options : j < next }
      BY <1>3, <1>4, <2>3
    <3>. QED BY <2>1, <2>3, <3>1
  <2>. QED BY <2>2, <2>3
<1>9. filename' # << >> <=> \E k \in Names : k < next + 1
  BY <1>3, <1>4 DEF ParsedInv
<1>10. ASSUME NEW j \in Names, NEW k \in Names, j < k PROVE next + 1 <= k
  <2>1. next <= k
    BY <1>10 DEF ParsedInv
  <2>2. CASE k = next
    <3>1. filename # << >>
      BY <1>10, <2>2 DEF ParsedInv
    <3>. QED BY <2>2, <3>1
  <2>. QED BY <1>2, <1>3, <2>1, <2>2
<1>11. \A k \in Options' : k < next' => argv'[k] \notin Asks /\ Known(argv'[k])
  BY <1>1, <1>7
<1>12. flags' = UNION { SetBy(argv'[k]) : k \in { j \in Options' : j < next' } }
  BY <1>1, <1>8
<1>13. filename' # << >> <=> \E k \in Names' : k < next'
  BY <1>1, <1>9
<1>14. \A j, k \in Names' : j < k => next' <= k
  BY <1>1, <1>10
<1>. QED BY <1>5, <1>6, <1>11, <1>12, <1>13, <1>14 DEF ParsedInv

-----------------------------------------------------------------------------
(* The command line: the theorems.                                         *)

LEMMA ArgsInvInit == Init => ArgsInv
<1>. SUFFICES ASSUME Init PROVE ArgsInv
  OBVIOUS
<1>1. invocation \in Invocations
  BY DEF Init
<1>2. Len(argv) \in Nat /\ Divide \in 1 .. Len(argv) + 1 /\ DOMAIN argv = 1 .. Len(argv)
  BY <1>1, Arguable
<1>3. next = 1 /\ parse_flags = TRUE /\ flags = {} /\ filename = << >>
  BY DEF Init
<1>4. \A k \in Options \cup Names : ~(k < next)
  BY <1>2, <1>3 DEF Options, Names
<1>5. flags = UNION { SetBy(argv[k]) : k \in { j \in Options : j < next } }
  <2>1. { j \in Options : j < next } = {}
    BY <1>4
  <2>. QED BY <1>3, <2>1
<1>6. \A j, k \in Names : j < k => next <= k
  BY <1>2, <1>3 DEF Names
<1>7. parse_flags = (next <= Divide) /\ next \in 1 .. Len(argv) + 1
  <2>1. (next <= Divide) = TRUE
    BY <1>2, <1>3
  <2>2. parse_flags = (next <= Divide)
    BY <1>3, <2>1, Zenon
  <2>. QED BY <1>2, <1>3, <2>2
<1>8. ParsedInv
  BY <1>3, <1>4, <1>5, <1>6, <1>7 DEF ParsedInv
<1>. QED BY <1>1, <1>8 DEF Init, ArgsInv

LEMMA ArgsInvStep == ArgsInv /\ [Next]_vars => ArgsInv'
<1>. SUFFICES ASSUME ArgsInv, [Next]_vars PROVE ArgsInv'
  OBVIOUS
<1>1. invocation \in Invocations
  BY DEF ArgsInv
<1>2. invocation' = invocation
  BY DEF Next, ParseArgs, Ask, EndFlags, SetFlag, Unrecognized, Name, SecondName,
         CheckFlags, ReadBuffer, ReadToNull, Execute, GetChar, vars
<1>3. Refusable' = Refusable
  BY <1>2, SameArguments
<1>4. ASSUME phase = "args", next <= Len(argv)
      PROVE  /\ ParsedInv /\ argument = argv[next] /\ argument \in Arguments
             /\ parse_flags /\ IsDashed(argument) /\ argument # Dashes <=> next \in Options
             /\ parse_flags /\ argument = Dashes <=> next = Divide
             /\ ~(parse_flags /\ IsDashed(argument)) <=> next \in Names
             /\ next \in Int /\ parse_flags \in BOOLEAN
  <2>1. ParsedInv
    BY <1>4 DEF ArgsInv
  <2>2. next \in Int /\ parse_flags \in BOOLEAN
    BY <2>1, <1>1, Arguable DEF ParsedInv
  <2>. QED BY <1>1, <1>4, <2>1, <2>2, ArgumentAt
<1>5. Dashes \notin Asks
  BY DEF Dashes, Asks, Long
<1>6. CASE Ask
  <2>1. /\ phase = "args" /\ next <= Len(argv) /\ parse_flags /\ IsDashed(argument)
        /\ argument \in Asks /\ phase' = "exit" /\ status' = "EXIT_SUCCESS"
    BY <1>6 DEF Ask, Dashed, Parsing, Exit, argv
  <2>2. next \in Asking
    BY <1>4, <1>5, <2>1 DEF Asking
  <2>3. ~Refusable
    BY <1>1, <1>4, <2>1, <2>2, HelpIsNoRefusal
  <2>. QED BY <1>1, <1>2, <1>3, <2>1, <2>3 DEF ArgsInv
<1>7. CASE EndFlags
  <2>1. /\ phase = "args" /\ next <= Len(argv) /\ parse_flags /\ argument = Dashes
        /\ parse_flags' = FALSE /\ next' = next + 1 /\ phase' = phase
        /\ filename' = filename /\ flags' = flags /\ status' = status
    BY <1>7 DEF EndFlags, Dashed, Parsing, argv, outcome
  <2>2. next = Divide /\ next \notin Options /\ next \notin Names
    BY <1>4, <2>1 DEF Dashed, Names
  <2>3. ParsedInv'
    BY <1>1, <1>2, <1>4, <2>1, <2>2, ArgumentRead
  <2>. QED BY <1>1, <1>2, <2>1, <2>3 DEF ArgsInv
<1>8. CASE SetFlag
  <2>1. /\ phase = "args" /\ next <= Len(argv) /\ parse_flags /\ IsDashed(argument)
        /\ argument \notin Asks /\ Known(argument)
        /\ flags' = flags \cup SetBy(argument) /\ next' = next + 1 /\ phase' = phase
        /\ filename' = filename /\ parse_flags' = parse_flags /\ status' = status
    BY <1>8 DEF SetFlag, Dashed, Parsing, argv, outcome
  <2>2. argument # Dashes
    BY <2>1, DashesUnknown
  <2>3. next \in Options /\ next # Divide /\ next \notin Names
    BY <1>4, <2>1, <2>2
  <2>4. ParsedInv'
    BY <1>1, <1>2, <1>4, <2>1, <2>3, ArgumentRead
  <2>. QED BY <1>1, <1>2, <2>1, <2>4 DEF ArgsInv
<1>9. CASE Unrecognized
  <2>1. /\ phase = "args" /\ next <= Len(argv) /\ parse_flags /\ IsDashed(argument)
        /\ argument \notin Asks /\ argument # Dashes /\ ~Known(argument)
        /\ phase' = "exit" /\ status' = "EX_USAGE"
    BY <1>9 DEF Unrecognized, Dashed, Parsing, argv, Exit
  <2>2. next \in Options /\ next \notin Asking /\ ~InTheTable(argv[next])
    BY <1>4, <2>1, KnownIsInTheTable DEF Asking
  <2>3. Misplaced(next)
    BY <1>4, <2>1, <2>2 DEF Misplaced
  <2>4. Refusable
    BY <1>1, <1>4, <2>1, <2>2, <2>3, MisplacedIsRefused
  <2>. QED BY <1>1, <1>2, <1>3, <2>1, <2>4 DEF ArgsInv
<1>10. CASE Name
  <2>1. /\ phase = "args" /\ next <= Len(argv) /\ ~(parse_flags /\ IsDashed(argument))
        /\ filename = << >> /\ filename' = <<argument>> /\ next' = next + 1
        /\ phase' = phase /\ flags' = flags /\ parse_flags' = parse_flags
        /\ status' = status
    BY <1>10 DEF Name, Dashed, Parsing, argv, outcome
  <2>2. next \in Names /\ next \notin Options /\ next # Divide
    BY <1>4, <2>1 DEF Names
  <2>3. filename' # << >>
    BY <2>1
  <2>4. ParsedInv'
    BY <1>1, <1>2, <1>4, <2>1, <2>2, <2>3, ArgumentRead
  <2>. QED BY <1>1, <1>2, <2>1, <2>4 DEF ArgsInv
<1>11. CASE SecondName
  <2>1. /\ phase = "args" /\ next <= Len(argv) /\ ~(parse_flags /\ IsDashed(argument))
        /\ filename # << >> /\ phase' = "exit" /\ status' = "EX_USAGE"
    BY <1>11 DEF SecondName, Dashed, Parsing, argv, Exit
  <2>2. next \in Names /\ next \notin Asking
    BY <1>4, <2>1 DEF Names, Asking
  <2>3. \E j \in Names : j < next
    BY <1>4, <2>1 DEF ParsedInv
  <2>4. Misplaced(next)
    BY <2>2, <2>3 DEF Misplaced
  <2>5. Refusable
    BY <1>1, <1>4, <2>1, <2>2, <2>4, MisplacedIsRefused
  <2>. QED BY <1>1, <1>2, <1>3, <2>1, <2>5 DEF ArgsInv
<1>12. CASE CheckFlags
  <2>1. /\ phase = "args" /\ next > Len(argv) /\ flags' = flags /\ status = ""
        /\ \/ ~IsValid(flags) /\ phase' = "exit" /\ status' = "EX_USAGE"
           \/ IsValid(flags) /\ phase' = "exit" /\ status' = "EX_NOINPUT"
           \/ IsValid(flags) /\ phase' = "read" /\ status' = status
    BY <1>12 DEF CheckFlags, argv, Exit, arguments, ArgsInv
  <2>2. ParsedInv
    BY <2>1 DEF ArgsInv
  <2>3. flags \subseteq Fields /\ (Refusable <=> ~IsValid(flags))
    BY <1>1, <2>1, <2>2, FlagsDecide
  <2>4. status' = "EX_USAGE" <=> Refusable
    BY <2>1, <2>3
  <2>. QED BY <1>1, <1>2, <1>3, <2>1, <2>3, <2>4 DEF ArgsInv
<1>13. CASE ReadBuffer \/ ReadToNull
  <2>1. /\ phase = "read" /\ phase' \in {"read", "execute"}
        /\ flags' = flags /\ status' = status
    BY <1>13 DEF ReadBuffer, ReadToNull, arguments, outcome
  <2>. QED BY <1>1, <1>2, <1>3, <2>1 DEF ArgsInv
<1>14. CASE Execute
  <2>1. /\ phase = "execute" /\ flags' = flags
        /\ \/ phase' = "exit" /\ status' = "EX_DATAERR"
           \/ phase' = "run" /\ mode' = Chosen /\ status' = status
    BY <1>14 DEF Execute, Exit, arguments
  <2>2. Chosen' = Chosen
    BY <2>1 DEF Chosen
  <2>. QED BY <1>1, <1>2, <1>3, <2>1, <2>2 DEF ArgsInv
<1>15. CASE GetChar \/ UNCHANGED vars
  <2>1. phase' = phase /\ status' = status /\ mode' = mode /\ flags' = flags
        /\ next' = next /\ parse_flags' = parse_flags /\ filename' = filename
    BY <1>15 DEF GetChar, vars, arguments, outcome
  <2>2. Chosen' = Chosen
    BY <2>1 DEF Chosen
  <2>3. ParsedInv' = ParsedInv
    <3>1. argv' = argv /\ Divide' = Divide /\ Options' = Options /\ Names' = Names
      BY <1>2, SameArguments
    <3>. QED BY <2>1, <3>1 DEF ParsedInv
  <2>. QED BY <1>1, <1>2, <1>3, <2>1, <2>2, <2>3 DEF ArgsInv
<1>. QED BY <1>6, <1>7, <1>8, <1>9, <1>10, <1>11, <1>12, <1>13, <1>14, <1>15
         DEF Next, ParseArgs

LEMMA ArgsInvHolds == Spec => []ArgsInv
BY ArgsInvInit, ArgsInvStep, PTL DEF Spec

\* For every command line, however long: it is refused if an argument before any
\* call for help cannot be accepted, or if no help is called for and the help text
\* forbids the flags together, and for no other reason (parse_args, set_flag,
\* is_valid).  The pair --ascii, --compile is left open: the help text forbids it,
\* README.md explains it, and is_valid accepts it.
THEOREM CommandLineRefused == Spec => []RefusedByTheHelp
<1>1. ArgsInv => RefusedByTheHelp
  <2>. SUFFICES ASSUME ArgsInv, phase # "args"
                PROVE  /\ status = "EX_USAGE" => Unacceptable \/ (Asking = {} /\ ~HelpAllows(Given))
                       /\ Unacceptable \/ ((Asking = {} /\ ~HelpAllows(Given)) /\ ~Disputed(Given))
                            => status = "EX_USAGE"
    BY Zenon DEF RefusedByTheHelp
  <2>1. status = "EX_USAGE" <=> Unacceptable \/ (Asking = {} /\ ~IsValid(Given))
    BY DEF ArgsInv, Refusable
  <2>2. IsValid(Given) <=> HelpAllows(Given) \/ Disputed(Given)
    <3>1. Given \subseteq Fields
      BY SetByFields DEF Given
    <3>. QED BY <3>1, ValidOrDisputed
  <2>. QED BY <2>1, <2>2
<1>. QED BY <1>1, ArgsInvHolds, PTL

\* Whatever flags is_valid accepts together, the mode that execute chooses reads
\* each of them.
THEOREM FlagsAreRead == Spec => []NoFlagIgnored
<1>1. ArgsInv => NoFlagIgnored
  <2>. SUFFICES ASSUME ArgsInv, phase = "run"
                PROVE  flags \ {"null_terminated", mode} \subseteq ReadBy(mode)
    BY DEF NoFlagIgnored
  <2>1. Fields = {"null_terminated", "debug", "assume_ascii", "expand", "compile",
                  "warnings", "pipekill", "assembly", "hide_nops", "show_stack",
                  "disassemble"}
    BY DEF Fields, FLAGS, Flag
  <2>2. flags \subseteq Fields /\ IsValid(flags) /\ mode = Chosen
    BY DEF ArgsInv
  <2>. QED BY <2>1, <2>2 DEF IsValid, Running, Chosen, ReadBy
<1>. QED BY <1>1, ArgsInvHolds, PTL

-----------------------------------------------------------------------------
(* The source text.                                                        *)

Bytes == 0 .. 255

LEMMA FromIs ==
  ASSUME NEW s \in Seq(Bytes), NEW i \in Nat \ {0}
  PROVE  /\ From(s, i) \in Seq(Bytes)
         /\ Len(From(s, i)) = IF i <= Len(s) THEN Len(s) - i + 1 ELSE 0
         /\ \A k \in 1 .. Len(s) - i + 1 : From(s, i)[k] = s[i + k - 1]
<1>1. Len(s) \in Nat /\ \A k \in i .. Len(s) : s[k] \in Bytes
  OBVIOUS
<1>. QED BY <1>1, SubSeqProperties DEF From

\* What is left of what was left.
LEMMA FromFrom ==
  ASSUME NEW s \in Seq(Bytes), NEW i \in Nat \ {0}, NEW j \in Nat \ {0}
  PROVE  From(From(s, i), j) = From(s, i + j - 1)
<1>. DEFINE l == From(s, i)
            a == From(l, j)
            b == From(s, i + j - 1)
<1>1. Len(s) \in Nat /\ i + j - 1 \in Nat \ {0}
  OBVIOUS
<1>2. /\ l \in Seq(Bytes) /\ Len(l) = IF i <= Len(s) THEN Len(s) - i + 1 ELSE 0
      /\ \A k \in 1 .. Len(s) - i + 1 : l[k] = s[i + k - 1]
  BY FromIs
<1>. HIDE DEF l
<1>3. /\ a \in Seq(Bytes) /\ Len(a) = IF j <= Len(l) THEN Len(l) - j + 1 ELSE 0
      /\ \A k \in 1 .. Len(l) - j + 1 : a[k] = l[j + k - 1]
  BY <1>2, FromIs
<1>4. /\ b \in Seq(Bytes)
      /\ Len(b) = IF i + j - 1 <= Len(s) THEN Len(s) - (i + j - 1) + 1 ELSE 0
      /\ \A k \in 1 .. Len(s) - (i + j - 1) + 1 : b[k] = s[(i + j - 1) + k - 1]
  BY <1>1, FromIs
<1>. HIDE DEF a, b
<1>5. Len(a) = Len(b)
  BY <1>1, <1>2, <1>3, <1>4
<1>6. ASSUME NEW k \in 1 .. Len(a) PROVE a[k] = b[k]
  <2>1. /\ k \in 1 .. Len(l) - j + 1 /\ k \in 1 .. Len(s) - (i + j - 1) + 1
        /\ j + k - 1 \in 1 .. Len(s) - i + 1
    BY <1>1, <1>2, <1>3, <1>4
  <2>2. a[k] = l[j + k - 1] /\ b[k] = s[(i + j - 1) + k - 1]
    BY <1>3, <1>4, <2>1
  <2>3. l[j + k - 1] = s[i + (j + k - 1) - 1]
    BY <1>2, <2>1
  <2>4. i + (j + k - 1) - 1 = (i + j - 1) + k - 1
    BY <2>1
  <2>. QED BY <2>2, <2>3, <2>4
<1>7. a = b
  BY <1>3, <1>4, <1>5, <1>6, SeqEqual
<1>. QED BY <1>7 DEF a, b, l

\* A block is appended to what has been read.
LEMMA ReadOn ==
  ASSUME NEW s \in Seq(Bytes), NEW t \in 0 .. Len(s), NEW m \in 0 .. Len(s) - t
  PROVE  SubSeq(s, 1, t) \o SubSeq(From(s, t + 1), 1, m) = SubSeq(s, 1, t + m)
<1>1. t \in Nat /\ m \in Nat /\ Len(s) \in Nat /\ t + 1 \in Nat \ {0}
  OBVIOUS
<1>. DEFINE l == From(s, t + 1)
<1>2. /\ l \in Seq(Bytes) /\ Len(l) = Len(s) - t
      /\ \A k \in 1 .. Len(s) - (t + 1) + 1 : l[k] = s[t + 1 + k - 1]
  <2>1. /\ l \in Seq(Bytes)
        /\ Len(l) = IF t + 1 <= Len(s) THEN Len(s) - (t + 1) + 1 ELSE 0
        /\ \A k \in 1 .. Len(s) - (t + 1) + 1 : l[k] = s[t + 1 + k - 1]
    BY <1>1, FromIs
  <2>. HIDE DEF l
  <2>. QED BY <1>1, <2>1
<1>. HIDE DEF l
<1>3. /\ SubSeq(l, 1, m) \in Seq(Bytes) /\ Len(SubSeq(l, 1, m)) = m
      /\ \A k \in 1 .. m : SubSeq(l, 1, m)[k] = l[k]
  BY <1>1, <1>2, SubSeqProperties
<1>4. /\ SubSeq(s, t + 1, t + m) \in Seq(Bytes) /\ Len(SubSeq(s, t + 1, t + m)) = m
      /\ \A k \in 1 .. m : SubSeq(s, t + 1, t + m)[k] = s[t + 1 + k - 1]
  BY <1>1, SubSeqProperties
<1>5. SubSeq(l, 1, m) = SubSeq(s, t + 1, t + m)
  <2>1. \A k \in 1 .. m : SubSeq(l, 1, m)[k] = SubSeq(s, t + 1, t + m)[k]
    BY <1>1, <1>2, <1>3, <1>4
  <2>. QED BY <1>3, <1>4, <2>1, SeqEqual
<1>6. SubSeq(s, 1, t) \o SubSeq(s, t + 1, t + m) = SubSeq(s, 1, t + m)
  BY <1>1, ConcatAdjacentSubSeq
<1>. QED BY <1>5, <1>6 DEF l

Terminated == "null_terminated" \in flags

\* The text is the beginning of the bytes, and ends where they end or, with -z,
\* before the first NUL.
TheSource(bytes) ==
  /\ Len(text) \in 0 .. Len(bytes) /\ text = SubSeq(bytes, 1, Len(text))
  /\ Len(text) = Len(bytes) \/ (Terminated /\ bytes[Len(text) + 1] = 0)
  /\ Terminated => \A k \in 1 .. Len(text) : bytes[k] # 0

\* What follows it has not been touched, nor has stdin if there is a file.
Rest(bytes, k) == stream = From(bytes, k) /\ (filename # << >> => stdin = bytes)

\* The source is read to its end, or with -z to its first NUL, which belongs to
\* nobody; the program's own input begins behind it, or, if the source is in a file,
\* with the first byte of stdin.
SourceIsWhole ==
  phase \in {"execute", "run"} =>
    /\ TheSource(invocation.bytes)
    /\ got = << >> => Rest(invocation.bytes, Len(text) + IF Terminated THEN 2 ELSE 1)

ReadInv ==
  LET bytes == invocation.bytes
  IN /\ invocation \in Invocations
     /\ phase \in {"args", "read", "execute", "run", "exit"}
     /\ phase = "args" => text = << >> /\ stdin = bytes /\ file = bytes /\ got = << >>
     /\ phase = "read" =>
          /\ got = << >> /\ (Terminated => text = << >>)
          /\ Len(text) \in 0 .. Len(bytes) /\ text = SubSeq(bytes, 1, Len(text))
          /\ Rest(bytes, Len(text) + 1)
     /\ SourceIsWhole

LEMMA BytesOf ==
  ASSUME invocation \in Invocations
  PROVE  invocation.bytes \in Seq(Bytes) /\ Len(invocation.bytes) \in Nat
BY InvocationsAssumption DEF Bytes

LEMMA SourceKept ==
  ASSUME SourceIsWhole, phase \in {"execute", "run"}, UNCHANGED <<invocation, text, flags>>,
         got' = << >> => got = << >> /\ UNCHANGED <<stdin, file, filename>>
  PROVE  SourceIsWhole'
<1>1. TheSource(invocation.bytes)' = TheSource(invocation.bytes)
  BY DEF TheSource, Terminated
<1>2. Terminated' = Terminated
  BY DEF Terminated
<1>3. UNCHANGED <<stdin, file, filename>> => stream' = stream
  BY DEF stream
<1>4. ASSUME got' = << >>
      PROVE  Rest(invocation.bytes, Len(text) + IF Terminated THEN 2 ELSE 1)'
  <2>1. Rest(invocation.bytes, Len(text) + IF Terminated THEN 2 ELSE 1)
    BY <1>4 DEF SourceIsWhole
  <2>. QED BY <1>2, <1>3, <1>4, <2>1 DEF Rest
<1>. QED BY <1>1, <1>4 DEF SourceIsWhole

\* read() fills a buffer, or what is left does not fill it.
LEMMA BufferRead == ReadInv /\ ReadBuffer => ReadInv'
<1>. SUFFICES ASSUME ReadInv, ReadBuffer PROVE ReadInv'
  OBVIOUS
<1>. DEFINE bytes == invocation.bytes
            t == Len(text)
            m == Min({BufSize, Len(stream)})
<1>1. /\ phase = "read" /\ ~Terminated /\ text' = text \o SubSeq(stream, 1, m)
      /\ IF filename = << >> THEN stdin' = From(stream, BufSize + 1) /\ file' = file
         ELSE file' = From(stream, BufSize + 1) /\ stdin' = stdin
      /\ phase' = IF Len(stream) < BufSize THEN "execute" ELSE "read"
      /\ invocation' = invocation /\ filename' = filename /\ flags' = flags /\ got' = got
  BY DEF ReadBuffer, TakeBuffer, Leaves, arguments, outcome, Terminated
<1>2. /\ bytes \in Seq(Bytes) /\ Len(bytes) \in Nat /\ invocation \in Invocations
      /\ got = << >> /\ t \in 0 .. Len(bytes) /\ text = SubSeq(bytes, 1, t)
      /\ stream = From(bytes, t + 1) /\ (filename # << >> => stdin = bytes)
  BY <1>1, BytesOf DEF ReadInv, Rest
<1>3. stream' = From(stream, BufSize + 1) /\ (filename' # << >> => stdin' = bytes)
  <2>1. CASE filename = << >>
    BY <1>1, <2>1 DEF stream
  <2>2. CASE filename # << >>
    BY <1>1, <1>2, <2>2 DEF stream
  <2>. QED BY <2>1, <2>2
<1>. HIDE DEF bytes, t
<1>4. Len(stream) = Len(bytes) - t
  <2>1. Len(From(bytes, t + 1)) = IF t + 1 <= Len(bytes) THEN Len(bytes) - (t + 1) + 1 ELSE 0
    BY <1>2, FromIs
  <2>. QED BY <1>2, <2>1
<1>5. m \in 0 .. Len(bytes) - t /\ m = IF Len(stream) < BufSize THEN Len(stream) ELSE BufSize
  <2>1. {BufSize, Len(stream)} \subseteq Nat /\ {BufSize, Len(stream)} # {}
    BY <1>2, <1>4, BufferAssumption
  <2>2. m \in {BufSize, Len(stream)} /\ m <= BufSize /\ m <= Len(stream)
    BY <2>1, MinIsLeast
  <2>. HIDE DEF m
  <2>. QED BY <1>2, <1>4, <2>1, <2>2
<1>. HIDE DEF m
<1>6. text' = SubSeq(bytes, 1, t + m)
  BY <1>1, <1>2, <1>5, ReadOn
<1>7. Len(text') = t + m /\ t + m \in 0 .. Len(bytes)
  <2>1. t + m \in 0 .. Len(bytes)
    BY <1>2, <1>5
  <2>2. PICK n \in 0 .. Len(bytes) : n = t + m
    BY <2>1
  <2>3. 1 \in Int /\ n \in Int /\ \A k \in 1 .. n : bytes[k] \in Bytes
    BY <1>2, <2>2
  <2>4. Len(SubSeq(bytes, 1, n)) = IF 1 <= n THEN n - 1 + 1 ELSE 0
    BY <2>3, SubSeqProperties
  <2>5. Len(SubSeq(bytes, 1, n)) = n
    BY <1>2, <2>2, <2>4
  <2>. QED BY <1>6, <2>1, <2>2, <2>5
<1>8. stream' = From(bytes, t + BufSize + 1)
  <2>1. t + 1 \in Nat \ {0} /\ BufSize + 1 \in Nat \ {0}
    BY <1>2, BufferAssumption
  <2>2. From(From(bytes, t + 1), BufSize + 1) = From(bytes, (t + 1) + (BufSize + 1) - 1)
    BY <1>2, <2>1, FromFrom
  <2>3. (t + 1) + (BufSize + 1) - 1 = t + BufSize + 1
    BY <1>2, BufferAssumption
  <2>. QED BY <1>2, <1>3, <2>2, <2>3
<1>9. stream' = From(bytes, Len(text') + 1)
  <2>1. CASE Len(stream) < BufSize
    <3>1. t + BufSize + 1 > Len(bytes) /\ Len(text') + 1 > Len(bytes)
      BY <1>2, <1>4, <1>5, <1>7, <2>1, BufferAssumption
    <3>2. From(bytes, t + BufSize + 1) = << >> /\ From(bytes, Len(text') + 1) = << >>
      BY <1>2, <1>7, <3>1, BufferAssumption, SubSeqEmpty DEF From
    <3>. QED BY <1>8, <3>2
  <2>2. CASE ~(Len(stream) < BufSize)
    <3>1. Len(text') + 1 = t + BufSize + 1
      BY <1>2, <1>5, <1>7, <2>2, BufferAssumption
    <3>. QED BY <1>8, <3>1
  <2>. QED BY <2>1, <2>2
<1>10. bytes' = bytes /\ ~Terminated' /\ invocation' \in Invocations /\ got' = << >>
  BY <1>1, <1>2 DEF bytes, Terminated
<1>11. Rest(bytes, Len(text) + 1)'
  BY <1>3, <1>9, <1>10 DEF Rest
<1>12. CASE Len(stream) < BufSize
  <2>1. phase' = "execute" /\ Len(text') = Len(bytes)
    BY <1>1, <1>2, <1>4, <1>5, <1>7, <1>12
  <2>2. TheSource(bytes)'
    BY <1>6, <1>7, <1>10, <2>1 DEF TheSource
  <2>3. SourceIsWhole'
    BY <1>10, <1>11, <2>2 DEF SourceIsWhole, bytes
  <2>. QED BY <1>10, <2>1, <2>3 DEF ReadInv
<1>13. CASE ~(Len(stream) < BufSize)
  <2>1. phase' = "read"
    BY <1>1, <1>13
  <2>2. SourceIsWhole'
    BY <2>1 DEF SourceIsWhole
  <2>. QED BY <1>6, <1>7, <1>10, <1>11, <2>1, <2>2 DEF ReadInv, bytes
<1>. QED BY <1>12, <1>13

\* getline() stops at the first NUL and takes it away.
LEMMA LineRead == ReadInv /\ ReadToNull => ReadInv'
<1>. SUFFICES ASSUME ReadInv, ReadToNull PROVE ReadInv'
  OBVIOUS
<1>. DEFINE bytes == invocation.bytes
            S == { k \in DOMAIN bytes : bytes[k] = 0 } \cup {Len(bytes) + 1}
            stop == Min(S)
<1>1. /\ phase = "read" /\ Terminated
      /\ bytes \in Seq(Bytes) /\ Len(bytes) \in Nat /\ DOMAIN bytes = 1 .. Len(bytes)
      /\ invocation \in Invocations
      /\ got = << >> /\ text = << >> /\ (filename # << >> => stdin = bytes)
  BY BytesOf DEF ReadToNull, ReadInv, Rest, Terminated
<1>2. stream = bytes
  <2>1. Len(text) = 0 /\ stream = From(bytes, Len(text) + 1)
    BY <1>1, EmptySeq DEF ReadInv, Rest
  <2>. HIDE DEF bytes
  <2>2. stream = SubSeq(bytes, 1, Len(bytes))
    BY <2>1 DEF From
  <2>. QED BY <1>1, <2>2, SubSeqFull
<1>3. /\ text' = SubSeq(bytes, 1, stop - 1)
      /\ IF filename = << >> THEN stdin' = From(bytes, stop + 1) /\ file' = file
         ELSE file' = From(bytes, stop + 1) /\ stdin' = stdin
      /\ phase' = "execute"
      /\ invocation' = invocation /\ filename' = filename /\ flags' = flags /\ got' = got
  <2>. HIDE DEF bytes
  <2>. QED BY <1>2 DEF ReadToNull, Leaves, arguments, outcome
<1>4. stream' = From(bytes, stop + 1) /\ (filename' # << >> => stdin' = bytes)
  <2>1. CASE filename = << >>
    BY <1>3, <2>1 DEF stream
  <2>2. CASE filename # << >>
    BY <1>1, <1>3, <2>2 DEF stream
  <2>. QED BY <2>1, <2>2
<1>. HIDE DEF bytes
<1>5. stop \in S /\ \A k \in S : stop <= k
  <2>1. S \subseteq Nat /\ S # {}
    BY <1>1
  <2>. HIDE DEF S
  <2>. QED BY <2>1, MinIsLeast
<1>. HIDE DEF stop
<1>6. /\ stop \in 1 .. Len(bytes) + 1
      /\ stop = Len(bytes) + 1 \/ bytes[stop] = 0
      /\ \A k \in 1 .. stop - 1 : bytes[k] # 0
  <2>1. stop \in 1 .. Len(bytes) + 1 /\ (stop = Len(bytes) + 1 \/ bytes[stop] = 0)
    BY <1>1, <1>5
  <2>2. ASSUME NEW k \in 1 .. stop - 1, bytes[k] = 0 PROVE FALSE
    <3>1. k \in 1 .. Len(bytes) /\ ~(stop <= k)
      BY <1>1, <2>1
    <3>2. k \in S
      BY <1>1, <2>2, <3>1
    <3>. QED BY <1>5, <3>1, <3>2
  <2>. QED BY <2>1, <2>2
<1>. HIDE DEF S
<1>7. PICK t \in 0 .. Len(bytes) : stop = t + 1
  <2>1. stop - 1 \in 0 .. Len(bytes) /\ stop = (stop - 1) + 1
    BY <1>1, <1>6
  <2>. QED BY <2>1
<1>8. t \in Nat /\ stop - 1 = t /\ stop + 1 = t + 2
  BY <1>1, <1>7
<1>9. text' = SubSeq(bytes, 1, t) /\ Len(text') = t
  <2>1. 1 \in Int /\ t \in Int /\ \A k \in 1 .. t : bytes[k] \in Bytes
    BY <1>1, <1>7
  <2>2. Len(SubSeq(bytes, 1, t)) = IF 1 <= t THEN t - 1 + 1 ELSE 0
    BY <2>1, SubSeqProperties
  <2>. QED BY <1>3, <1>8, <2>2
<1>10. bytes' = bytes /\ Terminated' /\ invocation' \in Invocations
  BY <1>1, <1>3 DEF bytes, Terminated
<1>11. TheSource(bytes)'
  <2>1. Len(text') = Len(bytes) \/ bytes[Len(text') + 1] = 0
    <3>1. CASE stop = Len(bytes) + 1
      <4>1. t \in Nat /\ Len(bytes) \in Nat /\ t + 1 = Len(bytes) + 1
        BY <1>1, <1>7, <1>8, <3>1
      <4>2. t = Len(bytes)
        BY <4>1
      <4>. QED BY <1>9, <4>2
    <3>2. CASE bytes[stop] = 0
      BY <1>7, <1>9, <3>2
    <3>. QED BY <1>6, <3>1, <3>2
  <2>2. \A k \in 1 .. Len(text') : bytes[k] # 0
    BY <1>6, <1>8, <1>9
  <2>. QED BY <1>7, <1>9, <1>10, <2>1, <2>2 DEF TheSource
<1>12. Rest(bytes, Len(text) + 2)'
  BY <1>4, <1>8, <1>9, <1>10 DEF Rest
<1>13. SourceIsWhole'
  BY <1>10, <1>11, <1>12 DEF SourceIsWhole, bytes
<1>. QED BY <1>3, <1>10, <1>13 DEF ReadInv

LEMMA ReadInvStep == ReadInv /\ [Next]_vars => ReadInv'
<1>. SUFFICES ASSUME ReadInv, [Next]_vars PROVE ReadInv'
  OBVIOUS
<1>1. CASE ReadBuffer
  BY <1>1, BufferRead
<1>2. CASE ReadToNull
  BY <1>2, LineRead
<1>3. CASE Ask \/ EndFlags \/ SetFlag \/ Unrecognized \/ Name \/ SecondName
  <2>1. /\ phase = "args" /\ phase' \in {"args", "exit"}
        /\ UNCHANGED <<invocation, text, stdin, file, got>>
    BY <1>3 DEF Ask, EndFlags, SetFlag, Unrecognized, Name, SecondName, Exit, Dashed,
                Parsing, streams, outcome, ReadInv
  <2>. QED BY <2>1 DEF ReadInv, SourceIsWhole
<1>4. CASE CheckFlags
  <2>1. /\ phase = "args" /\ phase' \in {"exit", "read"}
        /\ UNCHANGED <<invocation, text, stdin, file, got, filename>>
    BY <1>4 DEF CheckFlags, Exit, arguments, streams
  <2>2. text' = << >> /\ stdin' = invocation.bytes /\ file' = invocation.bytes
        /\ got' = << >> /\ invocation \in Invocations
    BY <2>1 DEF ReadInv
  <2>3. stream' = invocation.bytes
    BY <2>2 DEF stream
  <2>4. Len(text') = 0 /\ text' = SubSeq(invocation.bytes, 1, 0)
    BY <2>2, EmptySeq, SubSeqEmpty
  <2>5. stream' = From(invocation.bytes, Len(text') + 1)
    <3>1. From(invocation.bytes, 1) = invocation.bytes
      BY <2>2, BytesOf, SubSeqFull DEF From
    <3>. QED BY <2>3, <2>4, <3>1
  <2>6. Len(text') \in 0 .. Len(invocation.bytes)
    BY <2>2, <2>4, BytesOf
  <2>7. Rest(invocation.bytes, Len(text) + 1)'
    BY <2>1, <2>2, <2>5 DEF Rest
  <2>. QED BY <2>1, <2>2, <2>4, <2>6, <2>7 DEF ReadInv, SourceIsWhole
<1>5. CASE Execute
  <2>1. /\ phase = "execute" /\ phase' \in {"exit", "run"}
        /\ UNCHANGED <<invocation, text, stdin, file, got, filename, flags>>
    BY <1>5 DEF Execute, Exit, arguments, streams
  <2>2. SourceIsWhole'
    BY <2>1, SourceKept DEF ReadInv
  <2>. QED BY <2>1, <2>2 DEF ReadInv
<1>6. CASE GetChar
  <2>1. /\ phase = "run" /\ phase' = phase
        /\ UNCHANGED <<invocation, text, flags>>
        /\ \E c : got' = Append(got, c)
    BY <1>6 DEF GetChar, arguments
  <2>2. SourceIsWhole'
    <3>1. \A g, c : Append(g, c) # << >>
      OBVIOUS
    <3>. QED BY <2>1, <3>1, SourceKept DEF ReadInv
  <2>. QED BY <2>1, <2>2 DEF ReadInv
<1>7. CASE UNCHANGED vars
  <2>1. UNCHANGED <<invocation, phase, text, stdin, file, got, filename, flags>>
    BY <1>7 DEF vars, arguments, streams, outcome
  <2>2. SourceIsWhole'
    <3>1. CASE phase \in {"execute", "run"}
      BY <2>1, <3>1, SourceKept DEF ReadInv
    <3>2. CASE phase \notin {"execute", "run"}
      BY <2>1, <3>2 DEF SourceIsWhole
    <3>. QED BY <3>1, <3>2
  <2>3. stream' = stream /\ Terminated' = Terminated
    BY <2>1 DEF stream, Terminated
  <2>. QED BY <2>1, <2>2, <2>3 DEF ReadInv, Rest
<1>. QED BY <1>1, <1>2, <1>3, <1>4, <1>5, <1>6, <1>7 DEF Next, ParseArgs

\* For every text, every size of the buffer and both ways of reading: nothing of the
\* source is lost, repeated or left to the program where a block ends, and the
\* program's own input begins where the source has ended (read_istream).
THEOREM SourceReadWhole == Spec => []SourceIsWhole
<1>1. Init => ReadInv
  BY DEF Init, ReadInv, SourceIsWhole
<1>2. ReadInv => SourceIsWhole
  BY DEF ReadInv
<1>. QED BY <1>1, <1>2, ReadInvStep, PTL DEF Spec

-----------------------------------------------------------------------------
(* A sequence in two parts.                                                *)

\* What has been put together can be taken apart.
LEMMA InTwo ==
  ASSUME NEW S, NEW s \in Seq(S), NEW t \in Seq(S)
  PROVE  /\ s \o t \in Seq(S) /\ Len(s \o t) = Len(s) + Len(t)
         /\ SubSeq(s \o t, 1, Len(s)) = s
         /\ From(s \o t, Len(s) + 1) = t
<1>1. PICK a \in Nat, b \in Nat : a = Len(s) /\ b = Len(t)
  BY LenProperties
<1>2. PICK u : u = s \o t
  OBVIOUS
<1>3. /\ u \in Seq(S) /\ Len(u) = a + b
      /\ \A k \in 1 .. a : u[k] = s[k]
      /\ \A k \in 1 .. b : u[a + k] = t[k]
  BY <1>1, <1>2, BothStand DEF Abut
<1>4. SubSeq(u, 1, a) = s
  <2>1. \A k \in 1 .. a : s[k] = u[1 + k - 1]
    <3>1. \A k \in 1 .. a : 1 + k - 1 = k
      OBVIOUS
    <3> QED  BY <1>3, <3>1
  <2>2. 1 \in Nat \ {0} /\ a <= Len(u) /\ 1 <= a + 1 /\ 1 + a = a + 1
    BY <1>3
  <2> QED  BY <1>1, <1>3, <2>1, <2>2, PieceIs
<1>5. SubSeq(u, a + 1, Len(u)) = t
  <2>1. \A k \in 1 .. b : t[k] = u[(a + 1) + k - 1]
    <3>1. \A k \in 1 .. b : (a + 1) + k - 1 = a + k
      OBVIOUS
    <3> QED  BY <1>3, <3>1
  <2>2. PICK i \in Nat \ {0}, j \in Nat : i = a + 1 /\ j = a + b
    OBVIOUS
  <2>3. j <= Len(u) /\ i <= j + 1 /\ i + b = j + 1
    BY <1>3, <2>2
  <2>4. \A k \in 1 .. b : t[k] = u[i + k - 1]
    BY <2>1, <2>2
  <2>5. u \in Seq(S) /\ b = Len(t)
    BY <1>1, <1>3
  <2>6. SubSeq(u, i, j) = t
    BY <2>3, <2>4, <2>5, PieceIs
  <2> QED  BY <1>3, <2>2, <2>6
<1> QED  BY <1>1, <1>2, <1>3, <1>4, <1>5 DEF From

\* What a prefix leaves, and a suffix.
LEMMA PrefixOf ==
  ASSUME NEW S, NEW s \in Seq(S), NEW u \in Seq(S)
  PROVE  /\ IsPrefix(s, u) => u = s \o From(u, Len(s) + 1) /\ From(u, Len(s) + 1) \in Seq(S)
         /\ \A t \in Seq(S) : u = s \o t => IsPrefix(s, u)
<1>1. PICK a \in Nat, n \in Nat : a = Len(s) /\ n = Len(u)
  BY LenProperties
<1>2. SubSeq(s, 1, a) = s
  BY <1>1, SubSeqFull
<1>3. ASSUME IsPrefix(s, u)
      PROVE  u = s \o From(u, a + 1) /\ From(u, a + 1) \in Seq(S)
  <2>1. a <= n /\ SubSeq(u, 1, a) = s
    BY <1>1, <1>2, <1>3 DEF IsPrefix
  <2>2. 1 \in 1 .. Len(u) + 1 /\ a \in 1 - 1 .. Len(u) /\ Len(u) \in a .. Len(u)
    BY <1>1, <2>1
  <2>3. SubSeq(u, 1, a) \o SubSeq(u, a + 1, Len(u)) = SubSeq(u, 1, Len(u))
    BY <2>2, ConcatAdjacentSubSeq
  <2>4. SubSeq(u, 1, Len(u)) = u
    BY SubSeqFull
  <2>5. SubSeq(u, a + 1, n) \in Seq(S)
    <3>1. a + 1 \in Int /\ n \in Int /\ \A i \in a + 1 .. n : u[i] \in S
      BY <1>1, ElementOfSeq
    <3> QED  BY <3>1, SubSeqProperties
  <2> QED  BY <1>1, <2>1, <2>3, <2>4, <2>5 DEF From
<1>4. ASSUME NEW t \in Seq(S), u = s \o t PROVE IsPrefix(s, u)
  <2>1. Len(u) = Len(s) + Len(t) /\ SubSeq(u, 1, Len(s)) = s /\ Len(t) \in Nat
    BY <1>4, InTwo, LenProperties
  <2>2. Len(s) <= Len(u)
    <3>1. PICK b \in Nat : b = Len(t)
      BY <2>1
    <3>2. n = a + b
      BY <1>1, <2>1, <3>1
    <3> QED  BY <1>1, <3>2
  <2> QED  BY <1>1, <1>2, <2>1, <2>2 DEF IsPrefix
<1> QED  BY <1>1, <1>3, <1>4

\* The same from its end.
LEMMA ReverseIs ==
  ASSUME NEW S, NEW s \in Seq(S)
  PROVE  /\ Reverse(s) \in Seq(S) /\ Len(Reverse(s)) = Len(s)
         /\ \A i \in 1 .. Len(s) : Reverse(s)[i] = s[(Len(s) - i) + 1]
<1>1. PICK n \in Nat : n = Len(s)
  BY LenProperties
<1>2. PICK r : r = [i \in 1 .. n |-> s[(n - i) + 1]]
  OBVIOUS
<1>3. \A i \in 1 .. n : s[(n - i) + 1] \in S
  <2>1. \A i \in 1 .. n : (n - i) + 1 \in 1 .. n
    OBVIOUS
  <2> QED  BY <1>1, <2>1, ElementOfSeq
<1>4. r \in [1 .. n -> S] /\ \A i \in 1 .. n : r[i] = s[(n - i) + 1]
  BY <1>2, <1>3
<1>5. r \in Seq(S)
  BY <1>4, SeqDef
<1>6. Len(r) = n
  <2>1. PICK l \in Nat : l = Len(r) /\ 1 .. l = 1 .. n
    BY <1>4, <1>5, LenProperties
  <2>2. l \in 1 .. l <=> l # 0
    OBVIOUS
  <2>3. n \in 1 .. n <=> n # 0
    OBVIOUS
  <2>4. l # 0 => l \in 1 .. n
    BY <2>1, <2>2
  <2>5. n # 0 => n \in 1 .. l
    BY <2>1, <2>3
  <2> QED  BY <2>1, <2>4, <2>5
<1> QED  BY <1>1, <1>2, <1>4, <1>5, <1>6 DEF Reverse

\* What a sequence ends with.
LEMMA SuffixOf ==
  ASSUME NEW S, NEW s \in Seq(S), NEW u \in Seq(S)
  PROVE  /\ IsSuffix(s, u) => \E t \in Seq(S) : u = t \o s
         /\ \A t \in Seq(S) : u = t \o s => IsSuffix(s, u)
<1>1. PICK a \in Nat, n \in Nat : a = Len(s) /\ n = Len(u)
  BY LenProperties
<1>2. PICK p, v : p = Reverse(s) /\ v = Reverse(u)
  OBVIOUS
<1>3. /\ p \in Seq(S) /\ Len(p) = a /\ \A i \in 1 .. a : p[i] = s[(a - i) + 1]
      /\ v \in Seq(S) /\ Len(v) = n /\ \A i \in 1 .. n : v[i] = u[(n - i) + 1]
  BY <1>1, <1>2, ReverseIs
<1>4. IsSuffix(s, u) <=> IsPrefix(p, v)
  BY <1>2 DEF IsSuffix
<1>5. SubSeq(p, 1, a) = p
  BY <1>3, SubSeqFull
<1>6. ASSUME a <= n, \A i \in 1 .. a : p[i] = v[i] PROVE IsPrefix(p, v)
  <2>1. \A i \in 1 .. a : p[i] = v[1 + i - 1]
    <3>1. \A i \in 1 .. a : 1 + i - 1 = i
      OBVIOUS
    <3> QED  BY <1>6, <3>1
  <2>2. 1 \in Nat \ {0} /\ a <= Len(v) /\ 1 <= a + 1 /\ 1 + a = a + 1
    BY <1>3, <1>6
  <2>3. SubSeq(v, 1, a) = p
    BY <1>3, <2>1, <2>2, PieceIs
  <2> QED  BY <1>3, <1>5, <1>6, <2>3 DEF IsPrefix
<1>7. ASSUME IsPrefix(p, v) PROVE a <= n /\ \A i \in 1 .. a : p[i] = v[i]
  <2>1. a <= n /\ SubSeq(v, 1, a) = p
    BY <1>3, <1>5, <1>7 DEF IsPrefix
  <2>2. \A i \in 1 .. a : v[i] \in S
    <3>1. \A i \in 1 .. a : i \in 1 .. n
      BY <2>1
    <3> QED  BY <1>3, <3>1, ElementOfSeq
  <2>3. \A i \in 1 .. a - 1 + 1 : SubSeq(v, 1, a)[i] = v[1 + i - 1]
    BY <2>2, SubSeqProperties
  <2>4. \A i \in 1 .. a : i \in 1 .. a - 1 + 1 /\ 1 + i - 1 = i
    OBVIOUS
  <2> QED  BY <2>1, <2>3, <2>4
<1>8. ASSUME IsSuffix(s, u) PROVE \E t \in Seq(S) : u = t \o s
  <2>1. a <= n /\ \A i \in 1 .. a : p[i] = v[i]
    BY <1>4, <1>7, <1>8
  <2>2. PICK b \in Nat : n = b + a
    <3>1. n - a \in Nat /\ n = (n - a) + a
      BY <2>1
    <3> QED  BY <3>1
  <2>3. PICK t : t = SubSeq(u, 1, b)
    OBVIOUS
  <2>4. 1 \in 1 .. Len(u) + 1 /\ b \in 1 - 1 .. Len(u) /\ Len(u) \in b .. Len(u)
    BY <1>1, <2>2
  <2>5. SubSeq(u, 1, b) \o SubSeq(u, b + 1, Len(u)) = SubSeq(u, 1, Len(u))
    BY <2>4, ConcatAdjacentSubSeq
  <2>6. t \in Seq(S)
    <3>1. \A i \in 1 .. b : i \in 1 .. n
      BY <2>2
    <3>2. \A i \in 1 .. b : u[i] \in S
      BY <1>1, <3>1, ElementOfSeq
    <3> QED  BY <2>3, <3>2, SubSeqProperties
  <2>7. ASSUME NEW k \in 1 .. a PROVE s[k] = u[(b + 1) + k - 1]
    <3>1. PICK i \in 1 .. a : i = (a - k) + 1
      OBVIOUS
    <3>2. (a - i) + 1 = k /\ i \in 1 .. n /\ (n - i) + 1 = (b + 1) + k - 1
      BY <2>2, <3>1
    <3>3. p[i] = s[k] /\ v[i] = u[(b + 1) + k - 1]
      BY <1>3, <3>2
    <3> QED  BY <2>1, <3>3
  <2>8. SubSeq(u, b + 1, n) = s
    <3>1. PICK c \in Nat \ {0} : c = b + 1
      OBVIOUS
    <3>2. n <= Len(u) /\ c <= n + 1 /\ c + a = n + 1
      BY <1>1, <2>2, <3>1
    <3>3. \A k \in 1 .. a : s[k] = u[c + k - 1]
      BY <2>7, <3>1
    <3>4. SubSeq(u, c, n) = s
      BY <1>1, <3>2, <3>3, PieceIs
    <3> QED  BY <3>1, <3>4
  <2>9. u = t \o s
    BY <1>1, <2>3, <2>5, <2>8, SubSeqFull
  <2> QED  BY <2>6, <2>9
<1>9. ASSUME NEW t \in Seq(S), u = t \o s PROVE IsSuffix(s, u)
  <2>1. PICK b \in Nat : b = Len(t)
    BY LenProperties
  <2>2. n = b + a /\ \A k \in 1 .. a : u[b + k] = s[k]
    BY <1>1, <1>9, <2>1, BothStand DEF Abut
  <2>3. ASSUME NEW i \in 1 .. a PROVE p[i] = v[i]
    <3>1. PICK k \in 1 .. a : k = (a - i) + 1
      OBVIOUS
    <3>2. i \in 1 .. n /\ (n - i) + 1 = b + k
      BY <2>2, <3>1
    <3> QED  BY <1>3, <2>2, <3>1, <3>2
  <2>4. a <= n
    BY <2>2
  <2> QED  BY <1>4, <1>6, <2>3, <2>4
<1> QED  BY <1>8, <1>9

-----------------------------------------------------------------------------
(* The first character of a sequence of bytes.                             *)

Decoded == Chars \cup {EOF}

\* What no character goes on with.
Breaks(bytes, k, source) ==
  k > Len(bytes) \/ GetByte(bytes[k], source) = EOF \/ ~Continues(bytes[k])

\* A character that ends at its p-th byte, because that one does not belong to it.
IllFormed(bytes, source, p) ==
  /\ p \in 2 .. Width(bytes[1]) /\ Breaks(bytes, p, source)
  /\ \A k \in 2 .. p - 1 : ~Breaks(bytes, k, source)
  /\ Unichar(bytes, source) = [char |-> INVALID_CHAR, used |-> IF p <= Len(bytes) THEN p ELSE Len(bytes)]

\* The range is that of the code: a member of it in terms of the order.
LEMMA CharIs == \A n : n \in Chars <=> n \in Nat /\ n <= 2097151
BY SMT DEF Chars, MAX_CHAR

\* The first byte tells how many bytes the character has.
LEMMA WidthIs ==
  ASSUME NEW byte
  PROVE  /\ Width(byte) \in 0 .. 4
         /\ byte \in 0 .. 127 => Width(byte) = 1
         /\ byte \in 128 .. 191 => Width(byte) = 0
         /\ byte \in 192 .. 223 => Width(byte) = 2
         /\ byte \in 224 .. 239 => Width(byte) = 3
         /\ byte \in 240 .. 247 => Width(byte) = 4
BY SMT DEF Width

\* What parse_unichar can find: the end, a byte that begins no character, a
\* character that is broken off, or one that is whole.
LEMMA UnicharCases ==
  ASSUME NEW bytes \in Seq(Bytes), bytes # << >>, NEW source, NEW w, w = Width(bytes[1])
  PROVE  \/ GetByte(bytes[1], source) = EOF /\ Unichar(bytes, source) = [char |-> EOF, used |-> 1]
         \/ w = 0 /\ Unichar(bytes, source) = [char |-> INVALID_CHAR, used |-> 1]
         \/ \E p \in 2 .. w : IllFormed(bytes, source, p)
         \/ /\ w \in 1 .. Len(bytes) /\ GetByte(bytes[1], source) # EOF
            /\ \A k \in 2 .. w : ~Breaks(bytes, k, source)
            /\ Unichar(bytes, source) = [char |-> Value(SubSeq(bytes, 1, w)), used |-> w]
<1>1. PICK n \in Nat : n = Len(bytes) /\ n # 0
  <2>1. PICK n \in Nat : n = Len(bytes)
    BY LenProperties
  <2> QED  BY <2>1, EmptySeq
<1>2. w \in 0 .. 4
  BY WidthIs
<1>3. PICK bad : bad = { k \in 2 .. w : Breaks(bytes, k, source) }
  OBVIOUS
<1>4. Unichar(bytes, source) =
        IF GetByte(bytes[1], source) = EOF THEN [char |-> EOF, used |-> 1]
        ELSE IF w = 0 THEN [char |-> INVALID_CHAR, used |-> 1]
        ELSE IF bad # {} THEN [char |-> INVALID_CHAR, used |-> Used(bytes, w, bad)]
        ELSE [char |-> Value(SubSeq(bytes, 1, w)), used |-> w]
  BY <1>3, Zenon DEF Unichar, Breaks
<1>5. CASE GetByte(bytes[1], source) = EOF
  BY <1>4, <1>5
<1>6. CASE GetByte(bytes[1], source) # EOF /\ w = 0
  BY <1>4, <1>6
<1>7. CASE GetByte(bytes[1], source) # EOF /\ w # 0 /\ bad # {}
  <2>1. PICK p : p = Min(bad)
    OBVIOUS
  <2>2. p \in bad /\ \A k \in bad : p <= k
    <3>1. bad \subseteq Nat
      BY <1>3
    <3> QED  BY <1>7, <2>1, <3>1, MinIsLeast
  <2>3. p \in 2 .. w /\ Breaks(bytes, p, source)
    BY <1>3, <2>2
  <2>31. p \in Int
    BY <1>2, <2>3
  <2>4. ASSUME NEW k \in 2 .. p - 1, Breaks(bytes, k, source) PROVE FALSE
    <3>1. k \in 2 .. w
      BY <1>2, <2>3
    <3>2. k \in bad /\ ~(p <= k)
      BY <1>2, <1>3, <2>3, <2>4, <3>1
    <3> QED  BY <2>2, <3>2
  <2>5. Used(bytes, w, bad) = IF p <= n THEN p ELSE n
    <3>1. Used(bytes, w, bad) = Min({p, n})
      BY <1>1, <2>1 DEF Used
    <3>2. CASE p <= n
      <4>1. PICK both : both = {p, n}
        OBVIOUS
      <4>2. p \in both /\ both \subseteq Int /\ \A m \in both : p <= m
        BY <1>1, <2>31, <3>2, <4>1
      <4>3. Min(both) = p
        BY <4>2, MinIs
      <4> QED  BY <3>1, <3>2, <4>1, <4>3
    <3>3. CASE ~(p <= n)
      <4>1. PICK both : both = {p, n}
        OBVIOUS
      <4>2. n \in both /\ both \subseteq Int /\ \A m \in both : n <= m
        BY <1>1, <2>31, <3>3, <4>1
      <4>3. Min(both) = n
        BY <4>2, MinIs
      <4> QED  BY <3>1, <3>3, <4>1, <4>3
    <3> QED  BY <3>2, <3>3
  <2>6. Unichar(bytes, source) = [char |-> INVALID_CHAR, used |-> IF p <= Len(bytes) THEN p ELSE Len(bytes)]
    BY <1>1, <1>4, <1>7, <2>5
  <2>7. IllFormed(bytes, source, p)
    BY <2>3, <2>4, <2>6 DEF IllFormed
  <2> QED  BY <2>3, <2>7
<1>8. CASE GetByte(bytes[1], source) # EOF /\ w # 0 /\ bad = {}
  <2>1. \A k \in 2 .. w : ~Breaks(bytes, k, source)
    BY <1>3, <1>8
  <2>2. w \in 1 .. n
    <3>1. SUFFICES ASSUME w > n PROVE FALSE
      BY <1>1, <1>2, <1>8
    <3>2. w \in 2 .. w /\ Breaks(bytes, w, source)
      BY <1>1, <1>2, <3>1 DEF Breaks
    <3> QED  BY <2>1, <3>2
  <2>3. Unichar(bytes, source) = [char |-> Value(SubSeq(bytes, 1, w)), used |-> w]
    BY <1>4, <1>8
  <2> QED  BY <1>1, <1>8, <2>1, <2>2, <2>3
<1> QED  BY <1>5, <1>6, <1>7, <1>8

\* A number made of the bits of up to four bytes.
LEMMA ModIs ==
  ASSUME NEW x \in Bytes
  PROVE  /\ x \in Nat /\ x <= 255
         /\ x % 64 \in Nat /\ x % 64 <= 63 /\ x % 32 \in Nat /\ x % 32 <= 31
         /\ x % 16 \in Nat /\ x % 16 <= 15 /\ x % 8 \in Nat /\ x % 8 <= 7
BY SMT DEF Bytes

\* The bits of a whole character are those of one of Unicode.
LEMMA ValueIs ==
  ASSUME NEW b \in Seq(Bytes), NEW w \in 1 .. 4, w = Width(b[1]), Len(b) = w
  PROVE  Value(b) \in Chars
<1>1. /\ b[1] \in Bytes /\ (w >= 2 => b[2] \in Bytes) /\ (w >= 3 => b[3] \in Bytes)
      /\ (w = 4 => b[4] \in Bytes)
  <2>1. \A k \in 1 .. w : b[k] \in Bytes
    BY ElementOfSeq
  <2> QED  BY <2>1
<1>2. CASE w = 1
  <2>1. Value(b) = b[1]
    BY <1>2, SMT DEF Value
  <2>2. PICK x \in Bytes : x = b[1]
    BY <1>1
  <2>3. x \in Nat /\ x <= 2097151
    <3>1. x \in Nat /\ x <= 255
      BY <2>2, ModIs
    <3> QED  BY <3>1, SMT
  <2> QED  BY <2>1, <2>2, <2>3, CharIs
<1>3. CASE w = 2
  <2>1. PICK x, y : x = b[1] % 32 /\ y = b[2] % 64
    OBVIOUS
  <2>2. x \in Nat /\ x <= 31 /\ y \in Nat /\ y <= 63
    BY <1>1, <1>3, <2>1, ModIs
  <2>3. Value(b) = 64 * x + y
    BY <1>3, <2>1, SMT DEF Value
  <2>4. 64 * x + y \in Nat /\ 64 * x + y <= 2097151
    BY <2>2, SMT
  <2> QED  BY <2>3, <2>4, CharIs
<1>4. CASE w = 3
  <2>1. PICK x, y, z : x = b[1] % 16 /\ y = b[2] % 64 /\ z = b[3] % 64
    OBVIOUS
  <2>2. x \in Nat /\ x <= 15 /\ y \in Nat /\ y <= 63 /\ z \in Nat /\ z <= 63
    BY <1>1, <1>4, <2>1, ModIs
  <2>3. Value(b) = 4096 * x + 64 * y + z
    BY <1>4, <2>1, SMT DEF Value
  <2>4. 4096 * x + 64 * y + z \in Nat /\ 4096 * x + 64 * y + z <= 2097151
    BY <2>2, SMT
  <2> QED  BY <2>3, <2>4, CharIs
<1>5. CASE w = 4
  <2>1. PICK x, y, z, t : x = b[1] % 8 /\ y = b[2] % 64 /\ z = b[3] % 64 /\ t = b[4] % 64
    OBVIOUS
  <2>2. /\ x \in Nat /\ x <= 7 /\ y \in Nat /\ y <= 63
        /\ z \in Nat /\ z <= 63 /\ t \in Nat /\ t <= 63
    BY <1>1, <1>5, <2>1, ModIs
  <2>3. Value(b) = 262144 * x + 4096 * y + 64 * z + t
    BY <1>5, <2>1, SMT DEF Value
  <2>4. /\ 262144 * x + 4096 * y + 64 * z + t \in Nat
        /\ 262144 * x + 4096 * y + 64 * z + t <= 2097151
    BY <2>2, SMT
  <2> QED  BY <2>3, <2>4, CharIs
<1> QED  BY <1>2, <1>3, <1>4, <1>5

\* It always uses up a byte, and never one that is not there.
LEMMA UnicharIs ==
  ASSUME NEW bytes \in Seq(Bytes), bytes # << >>, NEW source
  PROVE  /\ Unichar(bytes, source).char \in Decoded
         /\ Unichar(bytes, source).used \in 1 .. Len(bytes)
<1>1. PICK n \in Nat : n = Len(bytes) /\ n # 0
  <2>1. PICK n \in Nat : n = Len(bytes)
    BY LenProperties
  <2> QED  BY <2>1, EmptySeq
<1>2. PICK w \in 0 .. 4 : w = Width(bytes[1])
  BY WidthIs
<1>3. EOF \in Decoded /\ INVALID_CHAR \in Decoded
  <2>1. INVALID_CHAR \in Nat /\ INVALID_CHAR <= 2097151
    BY SMT DEF INVALID_CHAR
  <2>2. INVALID_CHAR \in Chars
    BY <2>1, CharIs
  <2> QED  BY <2>2 DEF Decoded
<1>4. PICK u : u = Unichar(bytes, source)
  OBVIOUS
<1> SUFFICES u.char \in Decoded /\ u.used \in 1 .. n
  BY <1>1, <1>4
<1>5. CASE u = [char |-> EOF, used |-> 1] \/ u = [char |-> INVALID_CHAR, used |-> 1]
  BY <1>1, <1>3, <1>4, <1>5
<1>6. ASSUME NEW p \in 2 .. w, IllFormed(bytes, source, p)
      PROVE  u.char \in Decoded /\ u.used \in 1 .. n
  <2>1. u = [char |-> INVALID_CHAR, used |-> IF p <= n THEN p ELSE n]
    BY <1>1, <1>4, <1>6 DEF IllFormed
  <2>2. u.char = INVALID_CHAR /\ u.used = IF p <= n THEN p ELSE n
    BY <2>1
  <2> QED  BY <1>1, <1>3, <2>2
<1>7. CASE w \in 1 .. n /\ u = [char |-> Value(SubSeq(bytes, 1, w)), used |-> w]
  <2>1. PICK b : b = SubSeq(bytes, 1, w)
    OBVIOUS
  <2>2. \A k \in 1 .. w : bytes[k] \in Bytes
    BY <1>1, <1>7, ElementOfSeq
  <2>3. b \in Seq(Bytes) /\ Len(b) = w /\ b[1] = bytes[1]
    <3>1. /\ b \in Seq(Bytes) /\ Len(b) = IF 1 <= w THEN w - 1 + 1 ELSE 0
          /\ \A k \in 1 .. w - 1 + 1 : b[k] = bytes[1 + k - 1]
      BY <2>1, <2>2, SubSeqProperties
    <3>2. 1 \in 1 .. w - 1 + 1 /\ 1 + 1 - 1 = 1
      BY <1>7
    <3> QED  BY <1>7, <3>1, <3>2
  <2>4. Value(b) \in Chars
    <3>1. w \in 1 .. 4 /\ w = Width(b[1])
      BY <1>2, <1>7, <2>3
    <3> QED  BY <2>3, <3>1, ValueIs
  <2>5. u.char = Value(b) /\ u.used = w
    BY <1>7, <2>1
  <2> QED  BY <1>7, <2>4, <2>5 DEF Decoded
<1>8. \/ u = [char |-> EOF, used |-> 1] \/ u = [char |-> INVALID_CHAR, used |-> 1]
      \/ \E p \in 2 .. w : IllFormed(bytes, source, p)
      \/ w \in 1 .. n /\ u = [char |-> Value(SubSeq(bytes, 1, w)), used |-> w]
  BY <1>1, <1>2, <1>4, UnicharCases, Zenon
<1> QED  BY <1>5, <1>6, <1>7, <1>8

-----------------------------------------------------------------------------
(* All the characters of a sequence of bytes.                              *)

FirstAt(bytes, source, k) == Unichar(From(bytes, k), source)

\* From each of the bytes on, too.
LEMMA FirstIs ==
  ASSUME NEW bytes \in Seq(Bytes), NEW n \in Nat, n = Len(bytes), NEW source, NEW k \in 1 .. n
  PROVE  /\ FirstAt(bytes, source, k).char \in Decoded
         /\ k + FirstAt(bytes, source, k).used \in k + 1 .. n + 1
         /\ From(bytes, k) \in Seq(Bytes) /\ From(bytes, k) # << >>
         /\ Len(From(bytes, k)) = n - k + 1
<1>1. PICK b : b = From(bytes, k)
  OBVIOUS
<1>2. b \in Seq(Bytes) /\ Len(b) = n - k + 1
  <2>1. k \in Nat \ {0} /\ k <= Len(bytes)
    OBVIOUS
  <2>2. b \in Seq(Bytes) /\ Len(b) = IF k <= Len(bytes) THEN Len(bytes) - k + 1 ELSE 0
    BY <1>1, <2>1, FromIs
  <2> QED  BY <2>1, <2>2
<1>3. b # << >>
  BY <1>2, EmptySeq
<1>4. PICK u : u = Unichar(b, source)
  OBVIOUS
<1>5. u.char \in Decoded /\ u.used \in 1 .. n - k + 1
  BY <1>2, <1>3, <1>4, UnicharIs
<1>6. k + u.used \in k + 1 .. n + 1
  BY <1>5
<1> QED  BY <1>1, <1>2, <1>3, <1>4, <1>5, <1>6 DEF FirstAt

\* f[k] is what the bytes from the k-th on decode to, for k from i on.
Decodes(bytes, source, i, f) ==
  /\ f \in [i .. Len(bytes) + 1 -> Seq(Decoded)] /\ f[Len(bytes) + 1] = << >>
  /\ \A k \in i .. Len(bytes) :
       f[k] = <<FirstAt(bytes, source, k).char>> \o f[k + FirstAt(bytes, source, k).used]

\* If the bytes behind a place can be decoded, so can those from that place on.
LEMMA DecodesOneMore ==
  ASSUME NEW bytes \in Seq(Bytes), NEW n \in Nat, n = Len(bytes), NEW source, NEW i \in 1 .. n,
         NEW f, Decodes(bytes, source, i + 1, f)
  PROVE  \E g : Decodes(bytes, source, i, g)
<1>1. PICK u : u = FirstAt(bytes, source, i)
  OBVIOUS
<1>2. u.char \in Decoded /\ i + u.used \in i + 1 .. n + 1
  BY <1>1, FirstIs
<1>3. /\ f \in [i + 1 .. n + 1 -> Seq(Decoded)] /\ f[n + 1] = << >>
      /\ \A k \in i + 1 .. n :
           f[k] = <<FirstAt(bytes, source, k).char>> \o f[k + FirstAt(bytes, source, k).used]
  BY DEF Decodes
<1>4. PICK x : x = <<u.char>> \o f[i + u.used]
  OBVIOUS
<1>5. x \in Seq(Decoded)
  <2>1. <<u.char>> \in Seq(Decoded) /\ f[i + u.used] \in Seq(Decoded)
    BY <1>2, <1>3
  <2> QED  BY <1>4, <2>1, ConcatProperties
<1>6. PICK g : g = [k \in i .. n + 1 |-> IF k = i THEN x ELSE f[k]]
  OBVIOUS
<1>7. g \in [i .. n + 1 -> Seq(Decoded)]
  <2>1. \A k \in i .. n + 1 : k # i => k \in i + 1 .. n + 1
    OBVIOUS
  <2>2. \A k \in i .. n + 1 : (IF k = i THEN x ELSE f[k]) \in Seq(Decoded)
    BY <1>3, <1>5, <2>1
  <2> QED  BY <1>6, <2>2
<1>8. g[i] = x /\ \A k \in i + 1 .. n + 1 : g[k] = f[k]
  <2>1. i \in i .. n + 1 /\ \A k \in i + 1 .. n + 1 : k # i /\ k \in i .. n + 1
    OBVIOUS
  <2> QED  BY <1>6, <2>1
<1>9. g[n + 1] = << >>
  <2>1. n + 1 \in i + 1 .. n + 1
    OBVIOUS
  <2> QED  BY <1>3, <1>8, <2>1
<1>10. ASSUME NEW k \in i .. n
       PROVE  g[k] = <<FirstAt(bytes, source, k).char>> \o g[k + FirstAt(bytes, source, k).used]
  <2>1. CASE k = i
    BY <1>1, <1>2, <1>4, <1>8, <2>1
  <2>2. CASE k # i
    <3>1. k \in i + 1 .. n /\ k \in 1 .. n /\ k \in i + 1 .. n + 1
      BY <2>2
    <3>2. PICK v : v = k + FirstAt(bytes, source, k).used
      OBVIOUS
    <3>3. v \in k + 1 .. n + 1
      BY <3>1, <3>2, FirstIs
    <3>4. v \in i + 1 .. n + 1
      BY <3>3
    <3> QED  BY <1>3, <1>8, <3>1, <3>2, <3>4
  <2> QED  BY <2>1, <2>2
<1>11. Decodes(bytes, source, i, g)
  BY <1>7, <1>9, <1>10 DEF Decodes
<1> QED  BY <1>11

\* So that all of them can.
LEMMA Decodable ==
  ASSUME NEW bytes \in Seq(Bytes), NEW source
  PROVE  \E f : Decodes(bytes, source, 1, f)
<1>1. PICK n \in Nat : n = Len(bytes)
  BY LenProperties
<1> DEFINE B == { m \in Nat : m <= n => \E f : Decodes(bytes, source, (n - m) + 1, f) }
<1>2. 0 \in B
  <2>1. PICK f : f = [k \in n + 1 .. n + 1 |-> << >>]
    OBVIOUS
  <2>2. f \in [n + 1 .. n + 1 -> Seq(Decoded)] /\ f[n + 1] = << >>
    BY <2>1, EmptySeq
  <2>3. \A k \in n + 1 .. n : FALSE
    OBVIOUS
  <2>4. Decodes(bytes, source, n + 1, f)
    BY <1>1, <2>2, <2>3 DEF Decodes
  <2>5. (n - 0) + 1 = n + 1
    OBVIOUS
  <2> QED  BY <2>4, <2>5
<1>3. ASSUME NEW m \in Nat, m \in B PROVE m + 1 \in B
  <2> SUFFICES ASSUME m + 1 <= n PROVE \E f : Decodes(bytes, source, (n - (m + 1)) + 1, f)
    OBVIOUS
  <2>1. PICK i \in 1 .. n : i = (n - (m + 1)) + 1
    OBVIOUS
  <2>2. (n - m) + 1 = i + 1 /\ m <= n
    BY <2>1
  <2>3. PICK f : Decodes(bytes, source, i + 1, f)
    BY <1>3, <2>2
  <2>4. \E g : Decodes(bytes, source, i, g)
    BY <1>1, <2>3, DecodesOneMore
  <2> QED  BY <2>1, <2>4
<1> HIDE DEF B
<1>4. n \in B
  BY <1>2, <1>3, SetInduction
<1>5. \E f : Decodes(bytes, source, (n - n) + 1, f)
  BY <1>4 DEF B
<1>6. (n - n) + 1 = 1
  OBVIOUS
<1> QED  BY <1>5, <1>6

\* The recursion in Unichars yields it.
LEMMA UnicharsIs ==
  ASSUME NEW bytes \in Seq(Bytes), NEW source, NEW f, Decodes(bytes, source, 1, f)
  PROVE  Unichars(bytes, source) = f[1]
<1>1. PICK n \in Nat : n = Len(bytes)
  BY LenProperties
<1> DEFINE Rec(x, k) == IF k > n THEN << >>
                        ELSE <<FirstAt(bytes, source, k).char>> \o x[k + FirstAt(bytes, source, k).used]
           Built(x) == x = [k \in 1 .. n + 1 |-> Rec(x, k)]
           d == CHOOSE x : Built(x)
<1>2. Unichars(bytes, source) = d[1]
  BY <1>1 DEF Unichars, FirstAt, From
<1>3. /\ f \in [1 .. n + 1 -> Seq(Decoded)] /\ f[n + 1] = << >>
      /\ \A k \in 1 .. n :
           f[k] = <<FirstAt(bytes, source, k).char>> \o f[k + FirstAt(bytes, source, k).used]
  BY <1>1 DEF Decodes
<1>4. Built(f)
  <2>1. ASSUME NEW k \in 1 .. n + 1 PROVE f[k] = Rec(f, k)
    <3>1. CASE k = n + 1
      <4>1. k > n
        BY <3>1
      <4> QED  BY <1>3, <3>1, <4>1
    <3>2. CASE k # n + 1
      <4>1. ~(k > n) /\ k \in 1 .. n
        BY <3>2
      <4> QED  BY <1>3, <4>1
    <3> QED  BY <3>1, <3>2
  <2> HIDE DEF Rec
  <2>2. f = [k \in 1 .. n + 1 |-> f[k]]
    BY <1>3
  <2> QED  BY <2>1, <2>2
<1>5. Built(d)
  BY <1>4
<1>6. \A k \in 1 .. n + 1 : d[k] = Rec(d, k)
  <2> HIDE DEF Rec, d
  <2> QED  BY <1>5
<1> HIDE DEF d
<1> DEFINE B == { m \in Nat : \A k \in 1 .. n + 1 : (n + 1) - k <= m => d[k] = f[k] }
<1>7. 0 \in B
  <2> SUFFICES ASSUME NEW k \in 1 .. n + 1, (n + 1) - k <= 0 PROVE d[k] = f[k]
    OBVIOUS
  <2>1. k = n + 1 /\ k > n
    OBVIOUS
  <2>2. d[k] = << >>
    BY <1>6, <2>1
  <2> QED  BY <1>3, <2>1, <2>2
<1>8. ASSUME NEW m \in Nat, m \in B PROVE m + 1 \in B
  <2> SUFFICES ASSUME NEW k \in 1 .. n + 1, (n + 1) - k <= m + 1 PROVE d[k] = f[k]
    OBVIOUS
  <2>1. CASE k = n + 1
    <3>1. k > n
      BY <2>1
    <3> QED  BY <1>3, <1>6, <2>1, <3>1
  <2>2. CASE k # n + 1
    <3>1. ~(k > n) /\ k \in 1 .. n
      BY <2>2
    <3>2. PICK v : v = k + FirstAt(bytes, source, k).used
      OBVIOUS
    <3>3. v \in k + 1 .. n + 1
      BY <1>1, <3>1, <3>2, FirstIs
    <3>4. v \in 1 .. n + 1 /\ (n + 1) - v <= m
      BY <3>3
    <3>5. d[v] = f[v]
      BY <1>8, <3>4
    <3>6. d[k] = <<FirstAt(bytes, source, k).char>> \o d[v]
      BY <1>6, <3>1, <3>2
    <3> QED  BY <1>3, <3>1, <3>2, <3>5, <3>6
  <2> QED  BY <2>1, <2>2
<1> HIDE DEF B
<1>9. n \in B
  BY <1>7, <1>8, SetInduction
<1>10. d[1] = f[1]
  <2>1. 1 \in 1 .. n + 1 /\ (n + 1) - 1 <= n
    OBVIOUS
  <2> QED  BY <1>9, <2>1 DEF B
<1> QED  BY <1>2, <1>10

\* What a part of them decodes to.
LEMMA DecodesFrom ==
  ASSUME NEW bytes \in Seq(Bytes), NEW n \in Nat, n = Len(bytes), NEW source, NEW f,
         Decodes(bytes, source, 1, f), NEW j \in 1 .. n + 1
  PROVE  Unichars(From(bytes, j), source) = f[j]
<1>1. PICK b : b = From(bytes, j)
  OBVIOUS
<1>2. PICK m \in Nat : m = (n - j) + 1
  OBVIOUS
<1>3. b \in Seq(Bytes) /\ Len(b) = m
  <2>1. b \in Seq(Bytes) /\ Len(b) = IF j <= n THEN n - j + 1 ELSE 0
    <3>1. j \in Nat \ {0}
      OBVIOUS
    <3> QED  BY <1>1, <3>1, FromIs
  <2> QED  BY <1>2, <2>1
<1>4. /\ f \in [1 .. n + 1 -> Seq(Decoded)] /\ f[n + 1] = << >>
      /\ \A k \in 1 .. n :
           f[k] = <<FirstAt(bytes, source, k).char>> \o f[k + FirstAt(bytes, source, k).used]
  BY DEF Decodes
<1>5. PICK g : g = [k \in 1 .. m + 1 |-> f[(j + k) - 1]]
  OBVIOUS
<1>6. g \in [1 .. m + 1 -> Seq(Decoded)] /\ \A k \in 1 .. m + 1 : g[k] = f[(j + k) - 1]
  <2>1. \A k \in 1 .. m + 1 : (j + k) - 1 \in 1 .. n + 1
    BY <1>2
  <2>2. \A k \in 1 .. m + 1 : f[(j + k) - 1] \in Seq(Decoded)
    BY <1>4, <2>1
  <2> QED  BY <1>5, <2>2
<1>7. g[m + 1] = << >> /\ g[1] = f[j]
  <2>1. m + 1 \in 1 .. m + 1 /\ (j + (m + 1)) - 1 = n + 1 /\ 1 \in 1 .. m + 1 /\ (j + 1) - 1 = j
    BY <1>2
  <2> QED  BY <1>4, <1>6, <2>1
<1>8. ASSUME NEW k \in 1 .. m
      PROVE  g[k] = <<FirstAt(b, source, k).char>> \o g[k + FirstAt(b, source, k).used]
  <2>1. PICK i \in 1 .. n : i = (j + k) - 1
    BY <1>2
  <2>2. FirstAt(b, source, k) = FirstAt(bytes, source, i)
    <3>1. From(b, k) = From(bytes, j + k - 1)
      <4>1. j \in Nat \ {0} /\ k \in Nat \ {0}
        OBVIOUS
      <4> QED  BY <1>1, <4>1, FromFrom
    <3> QED  BY <2>1, <3>1 DEF FirstAt
  <2>3. PICK u : u = FirstAt(bytes, source, i)
    OBVIOUS
  <2>4. i + u.used \in i + 1 .. n + 1
    BY <2>3, FirstIs
  <2>5. k + u.used \in 1 .. m + 1 /\ (j + (k + u.used)) - 1 = i + u.used
    <3>1. PICK v \in Int : v = u.used
      <4>1. k + FirstAt(b, source, k).used \in k + 1 .. m + 1
        BY <1>3, FirstIs
      <4>2. u.used \in 1 .. n
        <5>1. From(bytes, i) \in Seq(Bytes) /\ From(bytes, i) # << >>
              /\ Len(From(bytes, i)) = n - i + 1
          BY FirstIs
        <5>2. u.used \in 1 .. Len(From(bytes, i))
          BY <2>3, <5>1, UnicharIs DEF FirstAt
        <5> QED  BY <5>1, <5>2
      <4>3. \A o : o \in 1 .. n => o \in Int
        OBVIOUS
      <4> QED  BY <4>2, <4>3, Zenon
    <3>2. i + v \in i + 1 .. n + 1
      BY <2>4, <3>1
    <3>3. k + v \in 1 .. m + 1 /\ (j + (k + v)) - 1 = i + v
      BY <1>2, <2>1, <3>2
    <3> QED  BY <3>1, <3>3, Zenon
  <2>6. f[i] = <<u.char>> \o f[i + u.used]
    BY <1>4, <2>3
  <2>7. g[k] = f[i] /\ g[k + u.used] = f[i + u.used]
    <3>1. k \in 1 .. m + 1
      OBVIOUS
    <3> QED  BY <1>6, <2>1, <2>5, <3>1
  <2> QED  BY <2>2, <2>3, <2>6, <2>7
<1>9. Decodes(b, source, 1, g)
  BY <1>3, <1>6, <1>7, <1>8 DEF Decodes
<1> QED  BY <1>1, <1>3, <1>7, <1>9, UnicharsIs

\* One character, and the others.
LEMMA OneDecoded ==
  ASSUME NEW bytes \in Seq(Bytes), NEW source
  PROVE  /\ Unichars(bytes, source) \in Seq(Decoded)
         /\ bytes = << >> => Unichars(bytes, source) = << >>
         /\ bytes # << >> =>
              Unichars(bytes, source) =
                <<Unichar(bytes, source).char>>
                  \o Unichars(From(bytes, Unichar(bytes, source).used + 1), source)
<1>1. PICK n \in Nat : n = Len(bytes)
  BY LenProperties
<1>2. PICK f : Decodes(bytes, source, 1, f)
  BY Decodable
<1>3. Unichars(bytes, source) = f[1]
  BY <1>2, UnicharsIs
<1>4. /\ f \in [1 .. n + 1 -> Seq(Decoded)] /\ f[n + 1] = << >>
      /\ \A k \in 1 .. n :
           f[k] = <<FirstAt(bytes, source, k).char>> \o f[k + FirstAt(bytes, source, k).used]
  BY <1>1, <1>2 DEF Decodes
<1>5. f[1] \in Seq(Decoded)
  <2>1. 1 \in 1 .. n + 1
    OBVIOUS
  <2> QED  BY <1>4, <2>1
<1>6. ASSUME bytes = << >> PROVE f[1] = << >>
  <2>1. n = 0
    BY <1>1, <1>6, EmptySeq
  <2> QED  BY <1>4, <2>1
<1>7. ASSUME bytes # << >>
      PROVE  f[1] = <<Unichar(bytes, source).char>>
                      \o Unichars(From(bytes, Unichar(bytes, source).used + 1), source)
  <2>1. n # 0 /\ 1 \in 1 .. n
    BY <1>1, <1>7, EmptySeq
  <2>2. From(bytes, 1) = bytes
    BY SubSeqFull DEF From
  <2>3. PICK u : u = Unichar(bytes, source)
    OBVIOUS
  <2>4. FirstAt(bytes, source, 1) = u
    BY <2>2, <2>3 DEF FirstAt
  <2>5. u.used \in 1 .. n
    BY <1>1, <1>7, <2>3, UnicharIs
  <2>6. f[1] = <<u.char>> \o f[1 + u.used]
    BY <1>4, <2>1, <2>4
  <2>7. PICK j \in 1 .. n + 1 : j = u.used + 1 /\ j = 1 + u.used
    BY <2>5
  <2>8. Unichars(From(bytes, j), source) = f[j]
    BY <1>1, <1>2, DecodesFrom
  <2> QED  BY <2>3, <2>6, <2>7, <2>8
<1> QED  BY <1>3, <1>5, <1>6, <1>7

-----------------------------------------------------------------------------
(* What is UTF-8 is read as it was written.                                *)

\* The bytes b are those of the character.
Whole(b, char) ==
  /\ b \in Seq(Bytes) /\ Len(b) \in 1 .. 4 /\ Len(b) = Width(b[1]) /\ Value(b) = char
  /\ ~Continues(b[1]) /\ \A k \in 2 .. Len(b) : Continues(b[k])
  /\ \A k \in 1 .. Len(b) : b[k] <= 247 /\ (char >= 128 => b[k] >= 128)
  /\ char < 128 => b = <<char>>

\* The characters of one byte, of two, of three and of four.
LEMMA OneByte ==
  ASSUME NEW c \in Nat, c < 128
  PROVE  Whole(<<c>>, c)
<1>1. PICK b : b = <<c>>
  OBVIOUS
<1>2. b \in Seq(Bytes) /\ Len(b) = 1 /\ b[1] = c
  BY <1>1, SMT DEF Bytes
<1>3. Width(b[1]) = 1 /\ ~Continues(b[1])
  <2>1. c \in 0 .. 127 /\ ~(c \in 128 .. 191)
    BY SMT
  <2>2. Width(c) = 1
    BY <2>1, WidthIs
  <2> QED  BY <1>2, <2>1, <2>2, Zenon DEF Continues
<1>4. Value(b) = c
  BY <1>2, <1>3, SMT DEF Value
<1>5. \A k \in 2 .. Len(b) : FALSE
  BY <1>2
<1>6. \A k \in 1 .. Len(b) : b[k] <= 247 /\ (c >= 128 => b[k] >= 128)
  BY <1>2, SMT
<1> QED  BY <1>1, <1>2, <1>3, <1>4, <1>5, <1>6, SMT DEF Whole

LEMMA TwoBytes ==
  ASSUME NEW x \in Nat, NEW y \in Nat, 2 <= x, x <= 31, y <= 63
  PROVE  Whole(<<192 + x, 128 + y>>, 64 * x + y)
<1>1. PICK b : b = <<192 + x, 128 + y>>
  OBVIOUS
<1>2. b \in Seq(Bytes) /\ Len(b) = 2 /\ b[1] = 192 + x /\ b[2] = 128 + y
  BY <1>1, SMT DEF Bytes
<1>3. Width(b[1]) = 2 /\ ~Continues(b[1]) /\ Continues(b[2])
  <2>1. PICK p, q : p = 192 + x /\ q = 128 + y
    BY SMT
  <2>2. p \in 192 .. 223 /\ ~(p \in 128 .. 191)
    BY <2>1, SMT
  <2>3. q \in 128 .. 191
    BY <2>1, SMT
  <2>4. Width(p) = 2
    BY <2>2, WidthIs
  <2>5. ~Continues(p) /\ Continues(q)
    BY <2>2, <2>3 DEF Continues
  <2>6. b[1] = p /\ b[2] = q
    BY <1>2, <2>1
  <2> QED  BY <2>4, <2>5, <2>6
<1>4. b[1] % 32 = x /\ b[2] % 64 = y
  BY <1>2, SMT
<1>5. Value(b) = 64 * x + y
  BY <1>3, <1>4, SMT DEF Value
<1>6. \A k \in 2 .. Len(b) : Continues(b[k])
  BY <1>2, <1>3
<1>7. \A k \in 1 .. Len(b) : b[k] <= 247 /\ b[k] >= 128
  BY <1>2, SMT
<1>8. ~(64 * x + y < 128)
  BY SMT
<1> QED  BY <1>1, <1>2, <1>3, <1>5, <1>6, <1>7, <1>8, SMT DEF Whole

ThreePlaces(x, y, z) == 4096 * x + 64 * y + z

LEMMA ThreeBytes ==
  ASSUME NEW x \in Nat, NEW y \in Nat, NEW z \in Nat,
         x <= 15, y <= 63, z <= 63, ThreePlaces(x, y, z) >= 128
  PROVE  Whole(<<224 + x, 128 + y, 128 + z>>, ThreePlaces(x, y, z))
<1>1. PICK b : b = <<224 + x, 128 + y, 128 + z>>
  OBVIOUS
<1>2. b \in Seq(Bytes) /\ Len(b) = 3 /\ b[1] = 224 + x /\ b[2] = 128 + y /\ b[3] = 128 + z
  BY <1>1, SMT DEF Bytes
<1>3. Width(b[1]) = 3 /\ ~Continues(b[1]) /\ Continues(b[2]) /\ Continues(b[3])
  <2>1. PICK p, q, r : p = 224 + x /\ q = 128 + y /\ r = 128 + z
    BY SMT
  <2>2. p \in 224 .. 239 /\ ~(p \in 128 .. 191)
    BY <2>1, SMT
  <2>3. q \in 128 .. 191 /\ r \in 128 .. 191
    BY <2>1, SMT
  <2>4. Width(p) = 3
    BY <2>2, WidthIs
  <2>5. ~Continues(p) /\ Continues(q) /\ Continues(r)
    BY <2>2, <2>3 DEF Continues
  <2>6. b[1] = p /\ b[2] = q /\ b[3] = r
    BY <1>2, <2>1
  <2> QED  BY <2>4, <2>5, <2>6
<1>4. b[1] % 16 = x /\ b[2] % 64 = y /\ b[3] % 64 = z
  BY <1>2, SMT
<1>5. Value(b) = ThreePlaces(x, y, z)
  BY <1>3, <1>4, SMT DEF Value, ThreePlaces
<1>6. \A k \in 2 .. Len(b) : Continues(b[k])
  BY <1>2, <1>3
<1>7. \A k \in 1 .. Len(b) : b[k] <= 247 /\ b[k] >= 128
  BY <1>2, SMT
<1>8. ~(ThreePlaces(x, y, z) < 128)
  BY SMT DEF ThreePlaces
<1> QED  BY <1>1, <1>2, <1>3, <1>5, <1>6, <1>7, <1>8, SMT DEF Whole

FourPlaces(x, y, z, t) == 262144 * x + 4096 * y + 64 * z + t

LEMMA FourBytes ==
  ASSUME NEW x \in Nat, NEW y \in Nat, NEW z \in Nat, NEW t \in Nat,
         x <= 7, y <= 63, z <= 63, t <= 63,
         FourPlaces(x, y, z, t) >= 128
  PROVE  Whole(<<240 + x, 128 + y, 128 + z, 128 + t>>, FourPlaces(x, y, z, t))
<1>1. PICK b : b = <<240 + x, 128 + y, 128 + z, 128 + t>>
  OBVIOUS
<1>2. /\ b \in Seq(Bytes) /\ Len(b) = 4
      /\ b[1] = 240 + x /\ b[2] = 128 + y /\ b[3] = 128 + z /\ b[4] = 128 + t
  <2>1. PICK p, q, r, s : p = 240 + x /\ q = 128 + y /\ r = 128 + z /\ s = 128 + t
    OBVIOUS
  <2>2. p \in Bytes /\ q \in Bytes /\ r \in Bytes /\ s \in Bytes
    BY <2>1, SMT DEF Bytes
  <2>3. b = <<p, q, r, s>>
    BY <1>1, <2>1
  <2>4. b \in Seq(Bytes) /\ Len(b) = 4 /\ b[1] = p /\ b[2] = q /\ b[3] = r /\ b[4] = s
    BY <2>2, <2>3
  <2> QED  BY <2>1, <2>4
<1>3. Width(b[1]) = 4 /\ ~Continues(b[1]) /\ Continues(b[2]) /\ Continues(b[3]) /\ Continues(b[4])
  <2>1. PICK p, q, r, s : p = 240 + x /\ q = 128 + y /\ r = 128 + z /\ s = 128 + t
    BY SMT
  <2>2. p \in 240 .. 247 /\ ~(p \in 128 .. 191)
    BY <2>1, SMT
  <2>3. q \in 128 .. 191 /\ r \in 128 .. 191 /\ s \in 128 .. 191
    BY <2>1, SMT
  <2>4. Width(p) = 4
    BY <2>2, WidthIs
  <2>5. ~Continues(p) /\ Continues(q) /\ Continues(r) /\ Continues(s)
    BY <2>2, <2>3 DEF Continues
  <2>6. b[1] = p /\ b[2] = q /\ b[3] = r /\ b[4] = s
    BY <1>2, <2>1
  <2> QED  BY <2>4, <2>5, <2>6
<1>4. b[1] % 8 = x /\ b[2] % 64 = y /\ b[3] % 64 = z /\ b[4] % 64 = t
  BY <1>2, SMT
<1>5. Value(b) = FourPlaces(x, y, z, t)
  BY <1>3, <1>4, SMT DEF Value, FourPlaces
<1>6. \A k \in 2 .. Len(b) : Continues(b[k])
  BY <1>2, <1>3
<1>7. \A k \in 1 .. Len(b) : b[k] <= 247 /\ b[k] >= 128
  BY <1>2, SMT
<1>8. ~(FourPlaces(x, y, z, t) < 128)
  BY SMT DEF FourPlaces
<1> QED  BY <1>1, <1>2, <1>3, <1>5, <1>6, <1>7, <1>8, SMT DEF Whole

\* The bytes of UTF-8, and those that print_unichar writes.
LEMMA Utf8Whole ==
  ASSUME NEW c \in Chars
  PROVE  Whole(Utf8(c), c) /\ Printed(c) = Utf8(c)
<1>1. c \in Nat /\ c <= 2097151
  BY CharIs
<1>2. CASE c < 128
  <2>1. Utf8(c) = <<c>>
    BY <1>2, SMT DEF Utf8
  <2>2. Printed(c) = <<c % 256>> /\ c % 256 = c
    BY <1>1, <1>2, SMT DEF Printed
  <2> QED  BY <1>1, <1>2, <2>1, <2>2, OneByte
<1>3. CASE ~(c < 128) /\ c < 2048
  <2>1. PICK x, y : x = c \div 64 /\ y = (c \div 1) % 64
    OBVIOUS
  <2>2. Utf8(c) = <<192 + x, 128 + y>>
    BY <1>3, <2>1, SMT DEF Utf8
  <2>3. Printed(c) = <<192 + x, 128 + y>>
    BY <1>1, <1>3, <2>1, SMT DEF Printed, Tail6
  <2>4. x \in Nat /\ y \in Nat /\ 2 <= x /\ x <= 31 /\ y <= 63 /\ c = 64 * x + y
    BY <1>1, <1>3, <2>1, SMT
  <2> QED  BY <2>2, <2>3, <2>4, TwoBytes
<1>4. CASE ~(c < 2048) /\ c < 65536
  <2>1. PICK x, y, z : x = c \div 4096 /\ y = (c \div 64) % 64 /\ z = (c \div 1) % 64
    OBVIOUS
  <2>2. Utf8(c) = <<224 + x, 128 + y, 128 + z>>
    BY <1>1, <1>4, <2>1, SMT DEF Utf8
  <2>3. Printed(c) = <<224 + x, 128 + y, 128 + z>>
    BY <1>1, <1>4, <2>1, SMT DEF Printed, Tail6
  <2>4. x \in Nat /\ y \in Nat /\ z \in Nat /\ x <= 15 /\ y <= 63 /\ z <= 63
    BY <1>1, <1>4, <2>1, SMT
  <2>5. c = ThreePlaces(x, y, z)
    BY <1>1, <2>1, SMT DEF ThreePlaces
  <2>6. ThreePlaces(x, y, z) >= 128
    BY <1>1, <1>4, <2>5, SMT
  <2>7. Whole(<<224 + x, 128 + y, 128 + z>>, ThreePlaces(x, y, z))
    BY <2>4, <2>6, ThreeBytes
  <2> QED  BY <2>2, <2>3, <2>5, <2>7, Zenon
<1>5. CASE ~(c < 65536)
  <2>1. PICK x, y, z, t : /\ x = c \div 262144 /\ y = (c \div 4096) % 64
                          /\ z = (c \div 64) % 64 /\ t = (c \div 1) % 64
    BY SMT
  <2>2. Utf8(c) = <<240 + x, 128 + y, 128 + z, 128 + t>>
    BY <1>1, <1>5, <2>1, SMT DEF Utf8
  <2>3. Printed(c) = <<240 + x, 128 + y, 128 + z, 128 + t>>
    BY <1>1, <1>5, <2>1, SMT DEF Printed, Tail6, MAX_CHAR
  <2>4. /\ x \in Nat /\ y \in Nat /\ z \in Nat /\ t \in Nat
        /\ x <= 7 /\ y <= 63 /\ z <= 63 /\ t <= 63
    BY <1>1, <1>5, <2>1, SMT
  <2>5. c = FourPlaces(x, y, z, t)
    BY <1>1, <2>1, SMT DEF FourPlaces
  <2>6. FourPlaces(x, y, z, t) >= 128
    BY <1>1, <1>5, <2>5, SMT
  <2>7. Whole(<<240 + x, 128 + y, 128 + z, 128 + t>>, FourPlaces(x, y, z, t))
    BY <2>4, <2>6, FourBytes
  <2> QED  BY <2>2, <2>3, <2>5, <2>7, Zenon
<1>6. (c < 128) \/ (~(c < 128) /\ c < 2048) \/ (~(c < 2048) /\ c < 65536) \/ ~(c < 65536)
  BY <1>1, SMT
<1> QED  BY <1>2, <1>3, <1>4, <1>5, <1>6

\* parse_unichar reads a whole character as that character, and its bytes only.
LEMMA WholeRead ==
  ASSUME NEW c, NEW b, Whole(b, c), NEW rest \in Seq(Bytes), NEW source
  PROVE  Unichar(b \o rest, source) = [char |-> c, used |-> Len(b)]
<1>1. PICK w \in 1 .. 4 : w = Len(b)
  BY DEF Whole
<1>2. /\ b \in Seq(Bytes) /\ w = Width(b[1]) /\ Value(b) = c
      /\ ~Continues(b[1]) /\ \A k \in 2 .. w : Continues(b[k])
      /\ \A k \in 1 .. w : b[k] <= 247
  BY <1>1 DEF Whole
<1>3. PICK u : u = b \o rest
  OBVIOUS
<1>4. /\ u \in Seq(Bytes) /\ Len(u) = w + Len(rest) /\ SubSeq(u, 1, w) = b
      /\ \A k \in 1 .. w : u[k] = b[k]
  <2>1. u \in Seq(Bytes) /\ Len(u) = w + Len(rest) /\ SubSeq(u, 1, w) = b
    <3>1. b \in Seq(Bytes)
      BY <1>2
    <3>2. /\ b \o rest \in Seq(Bytes) /\ Len(b \o rest) = Len(b) + Len(rest)
          /\ SubSeq(b \o rest, 1, Len(b)) = b
      BY <3>1, InTwo
    <3> QED  BY <1>1, <1>3, <3>2, Zenon
  <2>2. \A k \in 1 .. w : u[k] = b[k]
    <3>1. Abut(Bytes, b, rest)
      BY <1>2, BothStand
    <3> QED  BY <1>1, <1>3, <3>1, Zenon DEF Abut
  <2> QED  BY <2>1, <2>2
<1>5. PICK m \in Nat : m = Len(rest)
  BY LenProperties
<1>6. u # << >> /\ w <= Len(u) /\ u[1] = b[1] /\ w # 0
  <2>1. Len(u) # 0 /\ w <= Len(u) /\ 1 \in 1 .. w
    BY <1>4, <1>5
  <2> QED  BY <1>4, <2>1, EmptySeq
<1>7. ASSUME NEW k \in 1 .. w PROVE GetByte(u[k], source) # EOF
  <2>1. PICK v \in Bytes : v = u[k]
    BY <1>1, <1>2, <1>4, ElementOfSeq
  <2>2. v <= 247
    BY <1>2, <1>4, <2>1
  <2>3. v \in Int /\ 0 <= v
    BY ModIs
  <2>4. GetByte(v, source) # EOF
    BY <2>2, <2>3, SMT DEF GetByte, EOF
  <2> QED  BY <2>1, <2>4
<1>8. ASSUME NEW k \in 2 .. w PROVE ~Breaks(u, k, source)
  <2>1. k \in 1 .. w /\ ~(k > Len(u))
    BY <1>4, <1>5
  <2>2. Continues(u[k])
    BY <1>2, <1>4, <2>1
  <2>3. GetByte(u[k], source) # EOF
    BY <1>7, <2>1
  <2> QED  BY <2>1, <2>2, <2>3 DEF Breaks
<1>9. w = Width(u[1]) /\ GetByte(u[1], source) # EOF
  <2>1. 1 \in 1 .. w
    OBVIOUS
  <2> QED  BY <1>2, <1>6, <1>7, <2>1
<1>10. ~\E p \in 2 .. w : IllFormed(u, source, p)
  <2> SUFFICES ASSUME NEW p \in 2 .. w, IllFormed(u, source, p) PROVE FALSE
    OBVIOUS
  <2>1. Breaks(u, p, source)
    BY DEF IllFormed
  <2> QED  BY <1>8, <2>1
<1>11. \/ GetByte(u[1], source) = EOF /\ Unichar(u, source) = [char |-> EOF, used |-> 1]
       \/ w = 0 /\ Unichar(u, source) = [char |-> INVALID_CHAR, used |-> 1]
       \/ \E p \in 2 .. w : IllFormed(u, source, p)
       \/ /\ w \in 1 .. Len(u) /\ GetByte(u[1], source) # EOF
          /\ \A k \in 2 .. w : ~Breaks(u, k, source)
          /\ Unichar(u, source) = [char |-> Value(SubSeq(u, 1, w)), used |-> w]
  <2>1. u \in Seq(Bytes) /\ u # << >> /\ w = Width(u[1])
    BY <1>4, <1>6, <1>9
  <2> QED  BY <2>1, UnicharCases
<1>12. Unichar(u, source) = [char |-> Value(SubSeq(u, 1, w)), used |-> w]
  BY <1>6, <1>9, <1>10, <1>11, Zenon
<1> QED  BY <1>1, <1>2, <1>3, <1>4, <1>12, Zenon

\* A whole character in front of others.
LEMMA WholeDecoded ==
  ASSUME NEW c, NEW b, Whole(b, c), NEW rest \in Seq(Bytes), NEW source
  PROVE  Unichars(b \o rest, source) = <<c>> \o Unichars(rest, source)
<1>1. b \in Seq(Bytes) /\ b # << >>
  <2>1. PICK w \in 1 .. 4 : w = Len(b) /\ b \in Seq(Bytes)
    BY DEF Whole
  <2>2. Len(b) # 0
    <3>1. w # 0
      OBVIOUS
    <3> QED  BY <2>1, <3>1
  <2> QED  BY <2>1, <2>2, EmptySeq
<1>2. PICK u : u = b \o rest
  OBVIOUS
<1>3. u \in Seq(Bytes) /\ From(u, Len(b) + 1) = rest /\ Len(u) = Len(b) + Len(rest)
  BY <1>1, <1>2, InTwo
<1>4. u # << >>
  <2>1. PICK m \in Nat, n \in Nat : m = Len(b) /\ n = Len(rest)
    BY <1>1, LenProperties
  <2>2. Len(u) # 0
    BY <1>1, <1>3, <2>1, EmptySeq
  <2> QED  BY <2>2, EmptySeq
<1>5. PICK first : first = Unichar(u, source)
  OBVIOUS
<1>6. first = [char |-> c, used |-> Len(b)]
  BY <1>2, <1>5, WholeRead
<1>7. first.char = c /\ first.used = Len(b)
  BY <1>6
<1>8. Unichars(u, source) = <<first.char>> \o Unichars(From(u, first.used + 1), source)
  BY <1>3, <1>4, <1>5, OneDecoded
<1> QED  BY <1>2, <1>3, <1>7, <1>8

\* A text in UTF-8 is made of bytes, and grows with its characters.
LEMMA Utf8Is == \A c \in Chars : Utf8(c) \in Seq(Bytes) /\ Utf8(c) # << >>
<1> SUFFICES ASSUME NEW c \in Chars PROVE Utf8(c) \in Seq(Bytes) /\ Utf8(c) # << >>
  OBVIOUS
<1>1. Whole(Utf8(c), c)
  BY Utf8Whole
<1>2. PICK w \in 1 .. 4 : w = Len(Utf8(c)) /\ Utf8(c) \in Seq(Bytes)
  BY <1>1 DEF Whole
<1>3. Len(Utf8(c)) # 0
  <2>1. w # 0
    OBVIOUS
  <2> QED  BY <1>2, <2>1
<1> QED  BY <1>2, <1>3, EmptySeq

LEMMA EncodedIs ==
  ASSUME NEW s \in Seq(Chars)
  PROVE  /\ Encoded(s) \in Seq(Bytes)
         /\ s = << >> => Encoded(s) = << >>
         /\ \A c \in Chars : Encoded(Append(s, c)) = Encoded(s) \o Utf8(c)
<1>1. PICK n \in Nat : n = Len(s) /\ DOMAIN s = 1 .. n
  BY LenProperties
<1>2. \A k \in 1 .. n : s[k] \in Chars
  BY <1>1, ElementOfSeq
<1>3. PICK m : m = [k \in 1 .. n |-> Utf8(s[k])]
  OBVIOUS
<1>4. m \in [1 .. n -> Seq(Bytes)] /\ \A k \in 1 .. n : m[k] = Utf8(s[k])
  BY <1>2, <1>3, Utf8Is
<1>5. m \in Seq(Seq(Bytes))
  BY <1>4, SeqDef
<1>6. Encoded(s) = FlattenSeq(m)
  BY <1>1, <1>3 DEF Encoded
<1>7. Encoded(s) \in Seq(Bytes)
  BY <1>5, <1>6, FlattenSeqIs
<1>8. ASSUME s = << >> PROVE Encoded(s) = << >>
  <2>1. n = 0
    BY <1>1, <1>8, EmptySeq
  <2>2. DOMAIN m = 1 .. n /\ Len(m) \in Nat /\ DOMAIN m = 1 .. Len(m)
    BY <1>4, <1>5, LenProperties
  <2>3. Len(m) = 0
    <3>1. PICK l \in Nat : l = Len(m) /\ 1 .. l = 1 .. 0
      BY <2>1, <2>2
    <3>2. ~(1 \in 1 .. l)
      BY <3>1
    <3> QED  BY <3>1, <3>2
  <2>4. m = << >>
    BY <1>5, <2>3, EmptySeq
  <2> QED  BY <1>6, <2>4, FlattenNone
<1>9. ASSUME NEW c \in Chars PROVE Encoded(Append(s, c)) = Encoded(s) \o Utf8(c)
  <2>1. PICK t : t = Append(s, c)
    OBVIOUS
  <2>2. /\ t \in Seq(Chars) /\ Len(t) = n + 1 /\ t[n + 1] = c
        /\ \A k \in 1 .. n : t[k] = s[k]
    BY <1>1, <2>1, AppendProperties
  <2>3. DOMAIN t = 1 .. n + 1
    BY <2>2, LenProperties
  <2>4. PICK q : q = [k \in 1 .. n + 1 |-> Utf8(t[k])]
    OBVIOUS
  <2>5. Encoded(t) = FlattenSeq(q)
    BY <2>3, <2>4 DEF Encoded
  <2>6. \A k \in 1 .. n + 1 : t[k] \in Chars
    BY <2>2, ElementOfSeq
  <2>7. q \in [1 .. n + 1 -> Seq(Bytes)] /\ \A k \in 1 .. n + 1 : q[k] = Utf8(t[k])
    BY <2>4, <2>6, Utf8Is
  <2>8. Utf8(c) \in Seq(Bytes)
    BY Utf8Is
  <2>9. PICK r : r = Append(m, Utf8(c))
    OBVIOUS
  <2>10. Len(m) = n
    <3>1. PICK l \in Nat : l = Len(m) /\ 1 .. l = 1 .. n
      BY <1>4, <1>5, LenProperties
    <3>2. l # 0 => l \in 1 .. n
      BY <3>1
    <3>3. n # 0 => n \in 1 .. l
      BY <3>1
    <3> QED  BY <3>1, <3>2, <3>3
  <2>11. /\ r \in Seq(Seq(Bytes)) /\ Len(r) = n + 1 /\ r[n + 1] = Utf8(c)
         /\ \A k \in 1 .. n : r[k] = m[k]
    BY <1>5, <2>8, <2>9, <2>10, AppendProperties
  <2>12. ASSUME NEW k \in 1 .. n + 1 PROVE r[k] = q[k]
    <3>1. CASE k = n + 1
      BY <2>2, <2>7, <2>11, <3>1
    <3>2. CASE k # n + 1
      <4>1. k \in 1 .. n
        BY <3>2
      <4> QED  BY <1>4, <2>2, <2>7, <2>11, <4>1
    <3> QED  BY <3>1, <3>2
  <2>13. q = r
    <3>1. DOMAIN r = 1 .. n + 1 /\ r \in [1 .. n + 1 -> Seq(Bytes)]
      BY <2>11, LenProperties
    <3> QED  BY <2>7, <2>12, <3>1
  <2>14. FlattenSeq(r) = FlattenSeq(m) \o Utf8(c)
    BY <1>5, <2>8, <2>9, FlattenAppend
  <2> QED  BY <1>6, <2>1, <2>5, <2>13, <2>14
<1> QED  BY <1>7, <1>8, <1>9

\* Two texts, one behind the other.
LEMMA EncodedConcat ==
  ASSUME NEW s \in Seq(Chars), NEW t \in Seq(Chars)
  PROVE  Encoded(s \o t) = Encoded(s) \o Encoded(t)
<1> DEFINE B == { u \in Seq(Chars) : Encoded(s \o u) = Encoded(s) \o Encoded(u) }
<1>1. << >> \in B
  <2>1. << >> \in Seq(Chars) /\ s \o << >> = s
    BY EmptySeq, ConcatEmptySeq
  <2>2. Encoded(<< >>) = << >>
    BY <2>1, EncodedIs
  <2>3. Encoded(s) \o << >> = Encoded(s)
    BY EncodedIs, ConcatEmptySeq
  <2> QED  BY <2>1, <2>2, <2>3
<1>2. ASSUME NEW u \in Seq(Chars), NEW x \in Chars, u \in B PROVE Append(u, x) \in B
  <2>1. Append(u, x) \in Seq(Chars) /\ s \o u \in Seq(Chars)
    BY ConcatProperties, AppendProperties
  <2>2. s \o Append(u, x) = Append(s \o u, x)
    <3>1. PICK w : w = <<x>>
      OBVIOUS
    <3>2. w \in Seq(Chars) /\ Append(u, x) = u \o w /\ Append(s \o u, x) = (s \o u) \o w
      BY <2>1, <3>1, AppendIsConcat
    <3>3. Regroups(s, u, w)
      BY <3>2, Regroup
    <3> QED  BY <3>2, <3>3 DEF Regroups
  <2>3. Encoded(s \o Append(u, x)) = (Encoded(s) \o Encoded(u)) \o Utf8(x)
    BY <1>2, <2>1, <2>2, EncodedIs
  <2>4. Encoded(Append(u, x)) = Encoded(u) \o Utf8(x)
    BY EncodedIs
  <2>5. Encoded(s) \in Seq(Bytes) /\ Encoded(u) \in Seq(Bytes) /\ Utf8(x) \in Seq(Bytes)
    BY EncodedIs, Utf8Is
  <2>6. (Encoded(s) \o Encoded(u)) \o Utf8(x) = Encoded(s) \o (Encoded(u) \o Utf8(x))
    <3>1. Regroups(Encoded(s), Encoded(u), Utf8(x))
      BY <2>5, Regroup
    <3> QED  BY <3>1 DEF Regroups
  <2> QED  BY <2>1, <2>3, <2>4, <2>6
<1> HIDE DEF B
<1>3. t \in B
  BY <1>1, <1>2, AppendInduction
<1> QED  BY <1>3 DEF B

\* A text in front of other bytes is read as it is.
LEMMA TextDecoded ==
  ASSUME NEW s \in Seq(Chars), NEW rest \in Seq(Bytes), NEW source
  PROVE  Unichars(Encoded(s) \o rest, source) = s \o Unichars(rest, source)
<1> DEFINE B == { u \in Seq(Chars) : \A r \in Seq(Bytes) :
                    Unichars(Encoded(u) \o r, source) = u \o Unichars(r, source) }
<1>1. << >> \in B
  <2>1. << >> \in Seq(Chars)
    BY EmptySeq
  <2>2. Encoded(<< >>) = << >>
    BY <2>1, EncodedIs
  <2>3. ASSUME NEW r \in Seq(Bytes)
        PROVE  Unichars(Encoded(<< >>) \o r, source) = << >> \o Unichars(r, source)
    <3>1. << >> \o r = r
      BY ConcatEmptySeq
    <3>2. Unichars(r, source) \in Seq(Decoded)
      BY OneDecoded
    <3>3. << >> \o Unichars(r, source) = Unichars(r, source)
      BY <3>2, ConcatEmptySeq
    <3> QED  BY <2>2, <3>1, <3>3
  <2> QED  BY <2>1, <2>3
<1>2. ASSUME NEW u \in Seq(Chars), NEW x \in Chars, u \in B PROVE Append(u, x) \in B
  <2>1. Append(u, x) \in Seq(Chars) /\ Append(u, x) = u \o <<x>> /\ <<x>> \in Seq(Decoded)
        /\ u \in Seq(Decoded)
    <3>1. Chars \subseteq Decoded /\ x \in Decoded
      BY DEF Decoded
    <3>2. <<x>> \in Seq(Decoded)
      BY <3>1
    <3>3. u \in Seq(Decoded)
      <4>1. PICK n \in Nat : n = Len(u) /\ u \in [1 .. n -> Chars]
        BY LenProperties
      <4>2. u \in [1 .. n -> Decoded]
        BY <3>1, <4>1
      <4> QED  BY <4>2, SeqDef
    <3> QED  BY <3>2, <3>3, AppendProperties, AppendIsConcat
  <2>2. ASSUME NEW r \in Seq(Bytes)
        PROVE  Unichars(Encoded(Append(u, x)) \o r, source) = Append(u, x) \o Unichars(r, source)
    <3>1. Encoded(u) \in Seq(Bytes) /\ Utf8(x) \in Seq(Bytes) /\ Unichars(r, source) \in Seq(Decoded)
      BY EncodedIs, Utf8Is, OneDecoded
    <3>2. Encoded(Append(u, x)) \o r = Encoded(u) \o (Utf8(x) \o r)
      <4>1. Encoded(Append(u, x)) = Encoded(u) \o Utf8(x)
        BY EncodedIs
      <4>2. (Encoded(u) \o Utf8(x)) \o r = Encoded(u) \o (Utf8(x) \o r)
        <5>1. PICK e, f : e = Encoded(u) /\ f = Utf8(x)
          OBVIOUS
        <5>2. e \in Seq(Bytes) /\ f \in Seq(Bytes) /\ r \in Seq(Bytes)
          BY <3>1, <5>1
        <5>3. (e \o f) \o r = e \o (f \o r)
          <6>1. Regroups(e, f, r)
            BY <5>2, Regroup
          <6> QED  BY <6>1 DEF Regroups
        <5> QED  BY <5>1, <5>3
      <4> QED  BY <4>1, <4>2
    <3>3. Utf8(x) \o r \in Seq(Bytes)
      BY <3>1, ConcatProperties
    <3>4. Unichars(Encoded(u) \o (Utf8(x) \o r), source) = u \o Unichars(Utf8(x) \o r, source)
      BY <1>2, <3>3
    <3>5. Unichars(Utf8(x) \o r, source) = <<x>> \o Unichars(r, source)
      BY Utf8Whole, WholeDecoded
    <3>6. u \o (<<x>> \o Unichars(r, source)) = (u \o <<x>>) \o Unichars(r, source)
      <4>1. PICK z : z = Unichars(r, source)
        OBVIOUS
      <4>2. PICK y : y = <<x>>
        OBVIOUS
      <4>3. u \in Seq(Decoded) /\ y \in Seq(Decoded) /\ z \in Seq(Decoded)
        BY <2>1, <3>1, <4>1, <4>2
      <4>4. u \o (y \o z) = (u \o y) \o z
        <5>1. Regroups(u, y, z)
          BY <4>3, Regroup
        <5> QED  BY <5>1 DEF Regroups
      <4> QED  BY <4>1, <4>2, <4>4
    <3> QED  BY <2>1, <3>2, <3>4, <3>5, <3>6
  <2> QED  BY <2>1, <2>2
<1> HIDE DEF B
<1>3. s \in B
  BY <1>1, <1>2, AppendInduction
<1> QED  BY <1>3 DEF B

\* The whole of a text.
LEMMA WholeText ==
  ASSUME NEW s \in Seq(Chars), NEW source
  PROVE  Unichars(Encoded(s), source) = s
<1>1. << >> \in Seq(Bytes) /\ Encoded(s) \in Seq(Bytes) /\ Encoded(s) \o << >> = Encoded(s)
  BY EmptySeq, EncodedIs, ConcatEmptySeq
<1>2. Unichars(<< >>, source) = << >>
  BY <1>1, OneDecoded
<1>3. s \o << >> = s
  BY ConcatEmptySeq
<1>4. PICK e : e = << >>
  OBVIOUS
<1>5. Unichars(Encoded(s) \o e, source) = s \o Unichars(e, source)
  BY <1>1, <1>4, TextDecoded
<1> QED  BY <1>1, <1>2, <1>3, <1>4, <1>5, Zenon

\* A byte that is a character of its own stands between the characters.
LEMMA ByteOfChar ==
  ASSUME NEW t \in Seq(Chars), NEW v \in Nat, v < 128
  PROVE  \A p \in 1 .. Len(Encoded(t)) : Encoded(t)[p] = v =>
           \E a \in Seq(Chars) : \E b \in Seq(Chars) :
             t = (a \o <<v>>) \o b /\ p = Len(Encoded(a)) + 1
<1> DEFINE Splits(u, p) == \E a \in Seq(Chars) : \E b \in Seq(Chars) :
                             u = (a \o <<v>>) \o b /\ p = Len(Encoded(a)) + 1
           B == { u \in Seq(Chars) : \A p \in 1 .. Len(Encoded(u)) :
                                       Encoded(u)[p] = v => Splits(u, p) }
<1>1. v \in Chars
  <2>1. v <= 2097151
    BY SMT
  <2> QED  BY <2>1, CharIs
<1>2. << >> \in B
  <2>1. << >> \in Seq(Chars)
    BY EmptySeq
  <2>2. Encoded(<< >>) = << >> /\ Len(Encoded(<< >>)) = 0
    BY <2>1, EncodedIs, EmptySeq
  <2>3. \A p \in 1 .. 0 : FALSE
    OBVIOUS
  <2> QED  BY <2>1, <2>2, <2>3
<1>3. ASSUME NEW u \in Seq(Chars), NEW x \in Chars, u \in B PROVE Append(u, x) \in B
  <2>1. PICK e, f : e = Encoded(u) /\ f = Utf8(x)
    OBVIOUS
  <2>2. e \in Seq(Bytes) /\ f \in Seq(Bytes) /\ Encoded(Append(u, x)) = e \o f
    BY <2>1, EncodedIs, Utf8Is
  <2>3. Append(u, x) \in Seq(Chars) /\ Append(u, x) = u \o <<x>> /\ <<x>> \in Seq(Chars)
    BY AppendProperties, AppendIsConcat
  <2>4. PICK m \in Nat, n \in Nat : m = Len(e) /\ n = Len(f)
    BY <2>2, LenProperties
  <2>5. /\ Len(e \o f) = m + n
        /\ \A k \in 1 .. m : (e \o f)[k] = e[k]
        /\ \A k \in 1 .. n : (e \o f)[m + k] = f[k]
    BY <2>2, <2>4, BothStand DEF Abut
  <2>6. ASSUME NEW p \in 1 .. m + n, (e \o f)[p] = v PROVE Splits(Append(u, x), p)
    <3>1. CASE p \in 1 .. m
      <4>1. Splits(u, p)
        BY <1>3, <2>1, <2>4, <2>5, <2>6, <3>1
      <4>2. PICK a \in Seq(Chars) : \E b \in Seq(Chars) :
              u = (a \o <<v>>) \o b /\ p = Len(Encoded(a)) + 1
        BY <4>1
      <4>3. PICK b \in Seq(Chars) : u = (a \o <<v>>) \o b /\ p = Len(Encoded(a)) + 1
        BY <4>2
      <4>4. a \o <<v>> \in Seq(Chars)
        BY <1>1, ConcatProperties
      <4>5. PICK y, av : y = <<x>> /\ av = a \o <<v>>
        OBVIOUS
      <4>6. av \in Seq(Chars) /\ b \in Seq(Chars) /\ y \in Seq(Chars)
        BY <4>4, <4>5
      <4>7. b \o y \in Seq(Chars)
        BY <4>6, ConcatProperties
      <4>8. Regroups(av, b, y)
        BY <4>6, Regroup
      <4>9. (av \o b) \o y = av \o (b \o y)
        BY <4>8 DEF Regroups
      <4>10. u \o y = (a \o <<v>>) \o (b \o y)
        BY <4>3, <4>5, <4>9
      <4> QED  BY <2>3, <4>3, <4>5, <4>7, <4>10
    <3>2. CASE ~(p \in 1 .. m)
      <4>1. PICK k \in 1 .. n : p = m + k
        <5>1. p - m \in 1 .. n /\ p = m + (p - m)
          BY <2>6, <3>2
        <5> QED  BY <5>1
      <4>2. f[k] = v
        BY <2>5, <2>6, <4>1
      <4>3. Whole(f, x)
        BY <2>1, Utf8Whole
      <4>4. (x >= 128 => f[k] >= 128) /\ (x < 128 => f = <<x>>)
        BY <2>4, <4>3, Zenon DEF Whole
      <4>5. x \in Nat
        BY CharIs
      <4>6. x < 128 /\ f = <<x>>
        BY <4>2, <4>4, <4>5, SMT
      <4>7. n = 1 /\ f[1] = x
        BY <2>4, <4>6
      <4>8. k = 1 /\ x = v
        BY <4>2, <4>7
      <4>9. << >> \in Seq(Chars) /\ (u \o <<v>>) \in Seq(Chars)
        BY <1>1, EmptySeq, ConcatProperties
      <4>10. (u \o <<v>>) \o << >> = u \o <<v>>
        BY <4>9, ConcatEmptySeq
      <4> QED  BY <2>1, <2>3, <2>4, <4>1, <4>8, <4>9, <4>10
    <3> QED  BY <3>1, <3>2
  <2> QED  BY <2>2, <2>3, <2>5, <2>6
<1> HIDE DEF B, Splits
<1>4. t \in B
  BY <1>2, <1>3, AppendInduction
<1> QED  BY <1>4 DEF B, Splits

\* A sequence in front of, at, and behind one of its places.
LEMMA AtPlace ==
  ASSUME NEW S, NEW t \in Seq(S), NEW n \in Nat, n = Len(t), NEW j \in 1 .. n
  PROVE  \E a \in Seq(S) : \E b \in Seq(S) :
           t = (a \o <<t[j]>>) \o b /\ Len(a) = j - 1 /\ a = SubSeq(t, 1, j - 1)
<1>1. \A k \in 1 .. n : t[k] \in S
  BY ElementOfSeq
<1>2. PICK i \in Nat : i = j - 1 /\ j = i + 1
  <2>1. j - 1 \in Nat /\ j = (j - 1) + 1
    OBVIOUS
  <2> QED  BY <2>1
<1>3. PICK a, b, c : a = SubSeq(t, 1, i) /\ b = SubSeq(t, j + 1, n) /\ c = SubSeq(t, 1, j)
  OBVIOUS
<1>4. a \in Seq(S) /\ Len(a) = i /\ \A k \in 1 .. i : a[k] = t[k]
  <2>1. \A k \in 1 .. i : t[k] \in S
    <3>1. \A k \in 1 .. i : k \in 1 .. n
      BY <1>2
    <3> QED  BY <1>1, <3>1
  <2>2. /\ a \in Seq(S) /\ Len(a) = IF 1 <= i THEN i - 1 + 1 ELSE 0
        /\ \A k \in 1 .. i - 1 + 1 : a[k] = t[1 + k - 1]
    BY <1>3, <2>1, SubSeqProperties
  <2>3. \A k \in 1 .. i : k \in 1 .. i - 1 + 1 /\ 1 + k - 1 = k
    OBVIOUS
  <2>4. Len(a) = i
    BY <2>2
  <2> QED  BY <2>2, <2>3, <2>4
<1>5. b \in Seq(S)
  <2>1. \A k \in j + 1 .. n : t[k] \in S
    <3>1. \A k \in j + 1 .. n : k \in 1 .. n
      OBVIOUS
    <3> QED  BY <1>1, <3>1
  <2> QED  BY <1>3, <2>1, SubSeqProperties
<1>6. PICK d : d = Append(a, t[j])
  OBVIOUS
<1>7. d \in Seq(S) /\ Len(d) = j /\ d[j] = t[j] /\ \A k \in 1 .. i : d[k] = a[k]
  <2>1. t[j] \in S
    BY <1>1
  <2>2. d \in Seq(S) /\ Len(d) = i + 1 /\ d[i + 1] = t[j] /\ \A k \in 1 .. i : d[k] = a[k]
    BY <1>4, <1>6, <2>1, AppendProperties
  <2> QED  BY <1>2, <2>2
<1>8. c = d
  <2>1. \A k \in 1 .. j : d[k] = t[1 + k - 1]
    <3>1. \A k \in 1 .. j : (k = j \/ k \in 1 .. i) /\ 1 + k - 1 = k
      BY <1>2
    <3> QED  BY <1>4, <1>7, <3>1
  <2>2. 1 \in Nat \ {0} /\ j \in Nat /\ j <= Len(t) /\ 1 <= j + 1 /\ 1 + j = j + 1
    OBVIOUS
  <2> QED  BY <1>3, <1>7, <2>1, <2>2, PieceIs
<1>9. c \o b = t
  <2>1. 1 \in 1 .. Len(t) + 1 /\ j \in 1 - 1 .. Len(t) /\ n \in j .. Len(t)
    OBVIOUS
  <2>2. c \o b = SubSeq(t, 1, n)
    BY <1>3, <2>1, ConcatAdjacentSubSeq
  <2> QED  BY <2>2, SubSeqFull
<1>10. d = a \o <<t[j]>>
  BY <1>1, <1>4, <1>6, AppendIsConcat
<1> QED  BY <1>2, <1>3, <1>4, <1>5, <1>8, <1>9, <1>10

\* The text in front of a character, and the one behind it.
LEMMA AroundChar ==
  ASSUME NEW a \in Seq(Chars), NEW v \in Nat, v < 128, NEW b \in Seq(Chars)
  PROVE  /\ (a \o <<v>>) \o b \in Seq(Chars) /\ a \o <<v>> \in Seq(Chars) /\ <<v>> \in Seq(Chars)
         /\ v \in Chars
         /\ Encoded(<<v>>) = <<v>>
         /\ Encoded(a \o <<v>>) = Encoded(a) \o <<v>>
         /\ Encoded((a \o <<v>>) \o b) = (Encoded(a) \o <<v>>) \o Encoded(b)
<1>1. v \in Chars
  <2>1. v <= 2097151
    BY SMT
  <2> QED  BY <2>1, CharIs
<1>2. PICK w : w = <<v>>
  OBVIOUS
<1>3. w \in Seq(Chars) /\ w \in Seq(Bytes)
  <2>1. v \in Bytes
    BY SMT DEF Bytes
  <2> QED  BY <1>1, <1>2, <2>1
<1>4. a \o w \in Seq(Chars) /\ (a \o w) \o b \in Seq(Chars)
  BY <1>3, ConcatProperties
<1>5. Encoded(w) = w
  <2>1. << >> \in Seq(Chars) /\ Append(<< >>, v) = w
    BY <1>2, EmptySeq
  <2>2. Encoded(w) = Encoded(<< >>) \o Utf8(v) /\ Encoded(<< >>) = << >>
    BY <1>1, <2>1, EncodedIs
  <2>3. Whole(Utf8(v), v)
    BY <1>1, Utf8Whole
  <2>4. Utf8(v) = w
    BY <1>2, <2>3 DEF Whole
  <2> QED  BY <1>3, <2>2, <2>4, ConcatEmptySeq
<1>6. Encoded(a \o w) = Encoded(a) \o w
  BY <1>3, <1>5, EncodedConcat
<1>7. Encoded((a \o w) \o b) = (Encoded(a) \o w) \o Encoded(b)
  BY <1>4, <1>6, EncodedConcat
<1> QED  BY <1>1, <1>2, <1>3, <1>4, <1>5, <1>6, <1>7

\* A character of one byte stands among the bytes as itself.
LEMMA CharHasByte ==
  ASSUME NEW t \in Seq(Chars), NEW n \in Nat, n = Len(t), NEW j \in 1 .. n, t[j] < 128
  PROVE  \E p \in 1 .. Len(Encoded(t)) : Encoded(t)[p] = t[j]
<1>1. PICK v : v = t[j]
  OBVIOUS
<1>2. v \in Nat /\ v < 128
  <2>1. v \in Chars
    BY <1>1, ElementOfSeq
  <2> QED  BY <1>1, <2>1, CharIs
<1>3. PICK a \in Seq(Chars) : \E b \in Seq(Chars) : t = (a \o <<v>>) \o b
  <2>1. \E a \in Seq(Chars) : \E b \in Seq(Chars) :
           t = (a \o <<t[j]>>) \o b /\ Len(a) = j - 1 /\ a = SubSeq(t, 1, j - 1)
    BY AtPlace
  <2> QED  BY <1>1, <2>1, Zenon
<1>4. PICK b \in Seq(Chars) : t = (a \o <<v>>) \o b
  BY <1>3
<1>5. Encoded(t) = (Encoded(a) \o <<v>>) \o Encoded(b)
  <2>1. Encoded((a \o <<v>>) \o b) = (Encoded(a) \o <<v>>) \o Encoded(b)
    BY <1>2, AroundChar
  <2> QED  BY <1>4, <2>1, Zenon
<1>6. PICK e, f, w : e = Encoded(a) /\ f = Encoded(b) /\ w = <<v>>
  OBVIOUS
<1>7. e \in Seq(Bytes) /\ f \in Seq(Bytes) /\ w \in Seq(Bytes) /\ Len(w) = 1 /\ w[1] = v
  <2>1. v \in Bytes
    BY <1>2, SMT DEF Bytes
  <2> QED  BY <1>6, <2>1, EncodedIs
<1>8. PICK k \in Nat, l \in Nat : k = Len(e) /\ l = Len(f)
  BY <1>7, LenProperties
<1>9. PICK ew : ew = e \o w
  OBVIOUS
<1>10. ew \in Seq(Bytes) /\ Len(ew) = k + 1 /\ ew[k + 1] = v
  <2>1. Abut(Bytes, e, w)
    BY <1>7, BothStand
  <2>2. 1 \in 1 .. Len(w)
    BY <1>7
  <2> QED  BY <1>7, <1>8, <1>9, <2>1, <2>2 DEF Abut
<1>11. Len(ew \o f) = (k + 1) + l /\ (ew \o f)[k + 1] = v
  <2>1. Abut(Bytes, ew, f)
    BY <1>7, <1>10, BothStand
  <2>2. k + 1 \in 1 .. Len(ew)
    BY <1>10
  <2> QED  BY <1>8, <1>10, <2>1, <2>2 DEF Abut
<1>12. k + 1 \in 1 .. Len(ew \o f)
  BY <1>11
<1>13. Encoded(t) = ew \o f
  BY <1>5, <1>6, <1>9
<1> QED  BY <1>1, <1>11, <1>12, <1>13

\* The bytes determine the text.
LEMMA SameText ==
  ASSUME NEW s \in Seq(Chars), NEW t \in Seq(Chars), Encoded(s) = Encoded(t)
  PROVE  s = t
<1>1. Unichars(Encoded(s), OfChar) = s /\ Unichars(Encoded(t), OfChar) = t
  BY WholeText
<1> QED  BY <1>1

\* A text whose bytes begin as a shebang does begins as one.
LEMMA Begins ==
  ASSUME NEW t \in Seq(Chars), NEW n \in Nat, n = Len(Encoded(t)), 2 <= n,
         Encoded(t)[1] = 35, Encoded(t)[2] = 33
  PROVE  IsPrefix(<<35, 33>>, t) /\ \A u \in Seq(Chars) : IsPrefix(<<35, 33>>, t \o u)
<1>1. PICK a \in Seq(Chars) : \E b \in Seq(Chars) : t = (a \o <<33>>) \o b /\ 2 = Len(Encoded(a)) + 1
  <2>1. 2 \in 1 .. Len(Encoded(t)) /\ 33 \in Nat /\ 33 < 128
    OBVIOUS
  <2> QED  BY <2>1, ByteOfChar
<1>2. PICK b \in Seq(Chars) : t = (a \o <<33>>) \o b /\ 2 = Len(Encoded(a)) + 1
  BY <1>1
<1>3. PICK e, f : e = Encoded(a) /\ f = Encoded(b)
  OBVIOUS
<1>4. e \in Seq(Bytes) /\ f \in Seq(Bytes) /\ Len(e) = 1
  <2>1. e \in Seq(Bytes) /\ f \in Seq(Bytes)
    BY <1>3, EncodedIs
  <2>2. PICK l \in Nat : l = Len(e)
    BY <2>1, LenProperties
  <2>3. 2 = l + 1
    BY <1>2, <1>3, <2>2
  <2> QED  BY <2>1, <2>2, <2>3
<1>5. <<33>> \in Seq(Bytes) /\ <<33>> \in Seq(Chars) /\ Encoded(t) = (e \o <<33>>) \o f
  <2>1. 33 \in Nat /\ 33 < 128 /\ 33 \in Bytes
    BY SMT DEF Bytes
  <2>2. <<33>> \in Seq(Chars) /\ Encoded((a \o <<33>>) \o b) = (Encoded(a) \o <<33>>) \o Encoded(b)
    BY <2>1, AroundChar
  <2>3. <<33>> \in Seq(Bytes)
    BY <2>1
  <2> QED  BY <1>2, <1>3, <2>2, <2>3
<1>6. e[1] = 35
  <2>1. PICK w, ew : w = <<33>> /\ ew = e \o w
    OBVIOUS
  <2>2. w \in Seq(Bytes)
    BY <1>5, <2>1
  <2>3. ew \in Seq(Bytes) /\ ew[1] = e[1] /\ Len(ew) = 1 + Len(w) /\ Len(w) \in Nat
    <3>1. Abut(Bytes, e, w)
      BY <1>4, <2>2, BothStand
    <3>2. 1 \in 1 .. Len(e)
      BY <1>4
    <3> QED  BY <1>4, <2>1, <2>2, <3>1, <3>2, LenProperties DEF Abut
  <2>4. (ew \o f)[1] = ew[1]
    <3>1. Abut(Bytes, ew, f)
      BY <1>4, <2>3, BothStand
    <3>2. 1 \in 1 .. Len(ew)
      BY <2>3
    <3> QED  BY <3>1, <3>2 DEF Abut
  <2> QED  BY <1>5, <2>1, <2>3, <2>4
<1>7. e = <<35>>
  BY <1>4, <1>6
<1>8. <<35>> \in Seq(Chars) /\ Encoded(<<35>>) = <<35>>
  <2>1. 35 \in Nat /\ 35 < 128 /\ << >> \in Seq(Chars)
    BY EmptySeq
  <2> QED  BY <2>1, AroundChar
<1>9. a = <<35>>
  BY <1>3, <1>7, <1>8, SameText
<1>10. PICK s : s = <<35, 33>>
  OBVIOUS
<1>11. s \in Seq(Chars) /\ t = s \o b
  <2>1. <<35>> \o <<33>> = <<35, 33>>
    <3>1. PICK x, y : x = <<35>> /\ y = <<33>>
      OBVIOUS
    <3>2. x \in Seq(Nat) /\ y \in Seq(Nat) /\ Len(x) = 1 /\ Len(y) = 1 /\ x[1] = 35 /\ y[1] = 33
      BY <3>1
    <3>3. Abut(Nat, x, y) /\ 1 \in 1 .. 1
      BY <3>2, BothStand
    <3>4. x \o y \in Seq(Nat) /\ Len(x \o y) = 2 /\ (x \o y)[1] = 35 /\ (x \o y)[1 + 1] = 33
      BY <3>2, <3>3 DEF Abut
    <3>5. PICK c, d : c = x \o y /\ d = <<35, 33>>
      OBVIOUS
    <3>6. d \in Seq(Nat) /\ Len(d) = 2 /\ d[1] = 35 /\ d[2] = 33
      BY <3>5
    <3>7. \A k \in 1 .. Len(c) : c[k] = d[k]
      <4>1. Len(c) = 2 /\ c[1] = 35 /\ c[2] = 33
        <5>1. 1 + 1 = 2
          OBVIOUS
        <5> QED  BY <3>4, <3>5, <5>1
      <4> QED  BY <3>6, <4>1
    <3>8. c = d
      BY <3>4, <3>5, <3>6, <3>7, SeqEqual
    <3> QED  BY <3>1, <3>5, <3>8
  <2>2. <<35>> \o <<33>> \in Seq(Chars)
    BY <1>5, <1>8, ConcatProperties
  <2> QED  BY <1>2, <1>9, <1>10, <2>1, <2>2
<1>12. ASSUME NEW u \in Seq(Chars) PROVE IsPrefix(s, t \o u)
  <2>1. b \o u \in Seq(Chars) /\ t \o u \in Seq(Chars) /\ (s \o b) \o u = s \o (b \o u)
    <3>1. b \o u \in Seq(Chars) /\ t \o u \in Seq(Chars)
      BY ConcatProperties
    <3>2. (s \o b) \o u = s \o (b \o u)
      <4>1. Regroups(s, b, u)
        BY <1>11, Regroup
      <4> QED  BY <4>1 DEF Regroups
    <3> QED  BY <3>1, <3>2
  <2>2. t \o u = s \o (b \o u)
    BY <1>11, <2>1
  <2> QED  BY <1>11, <2>1, <2>2, PrefixOf
<1> QED  BY <1>10, <1>11, <1>12, PrefixOf

\* What the shebang of a text takes away is a line of it.
LEMMA ShebangIsLine ==
  ASSUME NEW t \in Seq(Chars)
  PROVE  \E x \in Seq(Chars) : \E y \in Seq(Chars) :
           t = x \o y /\ IsLine(x) /\ From(Encoded(t), Shebang(Encoded(t)) + 1) = Encoded(y)
<1>1. PICK e : e = Encoded(t)
  OBVIOUS
<1>2. PICK n \in Nat : e \in Seq(Bytes) /\ n = Len(e) /\ DOMAIN e = 1 .. n
  BY <1>1, EncodedIs, LenProperties
<1>3. << >> \in Seq(Chars) /\ Encoded(<< >>) = << >>
  BY EmptySeq, EncodedIs
<1>4. CASE ~(n > 2 /\ IsPrefix(<<35, 33>>, e))
  <2>1. Shebang(e) = 0
    BY <1>2, <1>4 DEF Shebang
  <2>2. From(e, 0 + 1) = e
    BY <1>2, SubSeqFull DEF From
  <2>3. t = << >> \o t
    BY ConcatEmptySeq
  <2>4. IsLine(<< >>)
    BY DEF IsLine
  <2> QED  BY <1>1, <1>3, <2>1, <2>2, <2>3, <2>4
<1>5. CASE n > 2 /\ IsPrefix(<<35, 33>>, e)
  <2>1. e[1] = 35 /\ e[2] = 33
    <3>1. PICK s : s = <<35, 33>>
      OBVIOUS
    <3>2. s \in Seq(Bytes) /\ Len(s) = 2 /\ s[1] = 35 /\ s[2] = 33
      BY <3>1 DEF Bytes
    <3>3. e = s \o From(e, 3) /\ From(e, 3) \in Seq(Bytes)
      <4>1. e = s \o From(e, Len(s) + 1) /\ From(e, Len(s) + 1) \in Seq(Bytes)
        BY <1>2, <1>5, <3>1, <3>2, PrefixOf
      <4> QED  BY <3>2, <4>1
    <3>4. PICK r : r = From(e, 3)
      OBVIOUS
    <3>5. Abut(Bytes, s, r)
      BY <3>2, <3>3, <3>4, BothStand
    <3>6. 1 \in 1 .. Len(s) /\ 2 \in 1 .. Len(s)
      BY <3>2
    <3> QED  BY <3>2, <3>3, <3>4, <3>5, <3>6 DEF Abut
  <2>2. PICK ends : ends = { k \in 1 .. n : e[k] = 10 } \cup {n}
    OBVIOUS
  <2>3. PICK m : m = Min(ends)
    OBVIOUS
  <2>4. Shebang(e) = m
    BY <1>2, <1>5, <2>2, <2>3 DEF Shebang
  <2>5. m \in ends /\ \A k \in ends : m <= k
    <3>1. ends # {} /\ ends \subseteq Nat
      BY <2>2
    <3> QED  BY <2>3, <3>1, MinIsLeast
  <2>6. m \in 1 .. n /\ \A k \in 1 .. n : e[k] = 10 => m <= k
    BY <1>5, <2>2, <2>5
  <2>7. CASE e[m] = 10
    <3>1. PICK p \in Seq(Chars) : \E y \in Seq(Chars) : t = (p \o <<10>>) \o y /\ m = Len(Encoded(p)) + 1
      <4>1. PICK v \in Nat : v = 10 /\ v < 128
        OBVIOUS
      <4>2. m \in 1 .. Len(Encoded(t)) /\ Encoded(t)[m] = v
        BY <1>1, <1>2, <2>6, <2>7, <4>1
      <4>3. \E a \in Seq(Chars) : \E b \in Seq(Chars) :
              t = (a \o <<v>>) \o b /\ m = Len(Encoded(a)) + 1
        BY <4>1, <4>2, ByteOfChar
      <4> QED  BY <4>1, <4>3
    <3>2. PICK y \in Seq(Chars) : t = (p \o <<10>>) \o y /\ m = Len(Encoded(p)) + 1
      BY <3>1
    <3>3. PICK f, g, w : f = Encoded(p) /\ g = Encoded(y) /\ w = <<10>>
      OBVIOUS
    <3>4. f \in Seq(Bytes) /\ g \in Seq(Bytes) /\ w \in Seq(Bytes) /\ w \in Seq(Chars) /\ Len(w) = 1
      <4>1. 10 \in Nat /\ 10 < 128 /\ 10 \in Bytes
        BY SMT DEF Bytes
      <4>2. <<10>> \in Seq(Chars)
        BY <4>1, AroundChar
      <4> QED  BY <3>3, <4>1, <4>2, EncodedIs
    <3>5. e = (f \o w) \o g
      <4>1. 10 \in Nat /\ 10 < 128
        OBVIOUS
      <4> QED  BY <1>1, <3>2, <3>3, <4>1, AroundChar
    <3>6. PICK l \in Nat : l = Len(f) /\ m = l + 1
      BY <3>2, <3>3, <3>4, LenProperties
    <3>7. PICK fw : fw = f \o w
      OBVIOUS
    <3>8. fw \in Seq(Bytes) /\ Len(fw) = m /\ \A k \in 1 .. l : fw[k] = f[k]
      <4>1. Abut(Bytes, f, w)
        BY <3>4, BothStand
      <4> QED  BY <3>4, <3>6, <3>7, <4>1 DEF Abut
    <3>9. From(e, m + 1) = g /\ \A k \in 1 .. l : e[k] = f[k]
      <4>1. Abut(Bytes, fw, g)
        BY <3>4, <3>8, BothStand
      <4>2. \A k \in 1 .. l : k \in 1 .. Len(fw)
        BY <3>6, <3>8
      <4>3. \A k \in 1 .. l : (fw \o g)[k] = fw[k]
        BY <4>1, <4>2 DEF Abut
      <4>4. From(fw \o g, Len(fw) + 1) = g
        BY <3>4, <3>8, InTwo
      <4> QED  BY <3>5, <3>7, <3>8, <4>3, <4>4
    <3>10. l >= 2 /\ f[1] = 35 /\ f[2] = 33
      <4>1. m # 1 /\ m # 2
        BY <2>1, <2>7
      <4>2. l >= 2 /\ 1 \in 1 .. l /\ 2 \in 1 .. l
        BY <2>6, <3>6, <4>1
      <4> QED  BY <2>1, <3>9, <4>2
    <3>11. IsPrefix(<<35, 33>>, p \o w)
      BY <3>3, <3>4, <3>6, <3>10, Begins
    <3>12. PICK q \in Nat : q = Len(p)
      BY LenProperties
    <3>13. ASSUME NEW k \in 1 .. q, p[k] = 10 PROVE FALSE
      <4>1. PICK j \in 1 .. l : f[j] = 10
        <5>1. p[k] < 128
          BY <3>13
        <5>2. \E j \in 1 .. Len(Encoded(p)) : Encoded(p)[j] = p[k]
          BY <3>12, <5>1, CharHasByte
        <5> QED  BY <3>3, <3>6, <3>13, <5>2
      <4>2. j \in 1 .. n /\ e[j] = 10 /\ ~(m <= j)
        BY <2>6, <3>6, <3>9, <4>1
      <4> QED  BY <2>6, <4>2
    <3>14. PICK x : x = p \o w
      OBVIOUS
    <3>15. x \in Seq(Chars) /\ Len(x) = q + 1 /\ \A k \in 1 .. q : x[k] = p[k]
      <4>1. Abut(Chars, p, w)
        BY <3>4, BothStand
      <4> QED  BY <3>4, <3>12, <3>14, <4>1 DEF Abut
    <3>16. IsLine(x)
      <4>1. \A k \in 1 .. Len(x) - 1 : k \in 1 .. q
        BY <3>15
      <4>2. \A k \in 1 .. Len(x) - 1 : x[k] # 10
        BY <3>13, <3>15, <4>1
      <4> QED  BY <3>11, <3>14, <4>2, Zenon DEF IsLine
    <3> QED  BY <1>1, <2>4, <3>2, <3>3, <3>9, <3>14, <3>15, <3>16
  <2>8. CASE e[m] # 10
    <3>1. m = n /\ \A k \in 1 .. n : e[k] # 10
      BY <1>5, <2>2, <2>5, <2>6, <2>8
    <3>2. From(e, n + 1) = << >>
      <4>1. n + 1 \in Nat \ {0} /\ ~(n + 1 <= n)
        OBVIOUS
      <4>2. From(e, n + 1) \in Seq(Bytes) /\ Len(From(e, n + 1)) = 0
        BY <1>2, <4>1, FromIs
      <4> QED  BY <4>2, EmptySeq
    <3>3. IsPrefix(<<35, 33>>, t)
      <4>1. 2 <= n
        BY <1>5
      <4> QED  BY <1>1, <1>2, <2>1, <4>1, Begins
    <3>4. PICK q \in Nat : q = Len(t)
      BY LenProperties
    <3>5. ASSUME NEW k \in 1 .. q, t[k] = 10 PROVE FALSE
      <4>1. PICK j \in 1 .. n : e[j] = 10
        <5>1. t[k] < 128
          BY <3>5
        <5> QED  BY <1>1, <1>2, <3>4, <3>5, <5>1, CharHasByte
      <4> QED  BY <3>1, <4>1
    <3>6. IsLine(t)
      <4>1. \A k \in 1 .. Len(t) - 1 : t[k] # 10
        <5>1. \A k \in 1 .. Len(t) - 1 : k \in 1 .. q
          BY <3>4
        <5> QED  BY <3>5, <5>1
      <4> QED  BY <3>3, <4>1, Zenon DEF IsLine
    <3>7. t = t \o << >>
      BY ConcatEmptySeq
    <3> QED  BY <1>1, <1>3, <2>4, <3>1, <3>2, <3>6, <3>7
  <2> QED  BY <2>7, <2>8
<1> QED  BY <1>4, <1>5

-----------------------------------------------------------------------------
(* The characters of the source, and those that the program reads.         *)

Behind(bytes) == From(bytes, Len(text) + IF Terminated THEN 2 ELSE 1)

\* The bytes from which the program reads.
Supplied == IF filename = << >> THEN Behind(invocation.bytes) ELSE invocation.bytes

InputInv ==
  /\ ReadInv
  /\ phase \in {"args", "read", "execute"} => got = << >>
  /\ phase = "run" =>
       /\ filename # << >> => file = Behind(invocation.bytes)
       /\ "assume_ascii" \notin flags =>
            /\ stdin \in Seq(Bytes) /\ got \in Seq(Decoded)
            /\ got \o Unichars(stdin, OfGetchar) = Unichars(Supplied, OfGetchar)

\* What is left of the bytes is bytes.
LEMMA BehindIs ==
  ASSUME ReadInv, phase \in {"execute", "run"}
  PROVE  /\ invocation.bytes \in Seq(Bytes) /\ Behind(invocation.bytes) \in Seq(Bytes)
         /\ Supplied \in Seq(Bytes)
<1>1. invocation.bytes \in Seq(Bytes) /\ Len(invocation.bytes) \in Nat
  BY BytesOf DEF ReadInv
<1>2. PICK n \in Nat : n = Len(text)
  <2>1. Len(text) \in 0 .. Len(invocation.bytes)
    BY DEF ReadInv, SourceIsWhole, TheSource
  <2> QED  BY <1>1, <2>1
<1>3. PICK k \in Nat \ {0} : k = Len(text) + IF Terminated THEN 2 ELSE 1
  <2>1. n + 2 \in Nat \ {0} /\ n + 1 \in Nat \ {0}
    OBVIOUS
  <2> QED  BY <1>2, <2>1
<1>4. Behind(invocation.bytes) \in Seq(Bytes)
  BY <1>1, <1>3, FromIs DEF Behind
<1> QED  BY <1>1, <1>4 DEF Supplied

\* GetChar moves one character from the bytes of stdin to those that are read.
LEMMA CharacterRead ==
  ASSUME InputInv, GetChar
  PROVE  InputInv'
<1>1. /\ phase = "run" /\ phase' = phase /\ stdin # << >>
      /\ UNCHANGED <<invocation, filename, flags, file, text>>
  BY DEF GetChar, arguments
<1>2. ReadInv'
  <2>1. [Next]_vars
    BY DEF Next
  <2> QED  BY <2>1, ReadInvStep DEF InputInv
<1>3. Supplied' = Supplied /\ Behind(invocation.bytes)' = Behind(invocation.bytes)
  BY <1>1 DEF Supplied, Behind, Terminated
<1>4. ASSUME "assume_ascii" \notin flags
      PROVE  /\ stdin' \in Seq(Bytes) /\ got' \in Seq(Decoded)
             /\ got' \o Unichars(stdin', OfGetchar) = Unichars(Supplied, OfGetchar)
  <2>1. PICK first : first = Unichar(stdin, OfGetchar)
    OBVIOUS
  <2>2. got' = Append(got, first.char) /\ stdin' = From(stdin, first.used + 1)
    BY <1>4, <2>1, Zenon DEF GetChar
  <2>3. /\ stdin \in Seq(Bytes) /\ got \in Seq(Decoded)
        /\ got \o Unichars(stdin, OfGetchar) = Unichars(Supplied, OfGetchar)
    BY <1>1, <1>4 DEF InputInv
  <2>4. PICK k \in Nat \ {0} : k = first.used + 1
    <3>1. first.used \in 1 .. Len(stdin) /\ Len(stdin) \in Nat
      BY <1>1, <2>1, <2>3, UnicharIs, LenProperties
    <3>2. first.used + 1 \in Nat \ {0}
      <4>1. PICK l \in Nat : l = Len(stdin) /\ first.used \in 1 .. l
        BY <3>1
      <4> QED  BY <4>1
    <3> QED  BY <3>2
  <2>5. PICK c \in Decoded : c = first.char
    BY <1>1, <2>1, <2>3, UnicharIs
  <2>6. PICK r : r = Unichars(From(stdin, k), OfGetchar)
    OBVIOUS
  <2>7. From(stdin, k) \in Seq(Bytes)
    BY <2>3, FromIs
  <2>8. r \in Seq(Decoded)
    BY <2>6, <2>7, OneDecoded
  <2>9. Unichars(stdin, OfGetchar) = <<c>> \o r
    BY <1>1, <2>1, <2>3, <2>4, <2>5, <2>6, OneDecoded
  <2>10. PICK w : w = <<c>>
    OBVIOUS
  <2>11. w \in Seq(Decoded) /\ Append(got, c) = got \o w /\ Append(got, c) \in Seq(Decoded)
    BY <2>3, <2>5, <2>10, AppendIsConcat, AppendProperties
  <2>12. (got \o w) \o r = got \o (w \o r)
    <3>1. Regroups(got, w, r)
      BY <2>3, <2>8, <2>11, Regroup
    <3> QED  BY <3>1 DEF Regroups
  <2> QED  BY <2>2, <2>3, <2>4, <2>5, <2>6, <2>7, <2>9, <2>10, <2>11, <2>12
<1> QED  BY <1>1, <1>2, <1>3, <1>4 DEF InputInv

\* Execution begins with nothing read.
LEMMA InputBegins ==
  ASSUME InputInv, Execute
  PROVE  InputInv'
<1>1. /\ phase = "execute" /\ phase' \in {"exit", "run"}
      /\ UNCHANGED <<invocation, text, stdin, file, got, filename, flags>>
  BY DEF Execute, Exit, arguments, streams
<1>2. ReadInv'
  <2>1. [Next]_vars
    BY DEF Next
  <2> QED  BY <2>1, ReadInvStep DEF InputInv
<1>3. Supplied' = Supplied /\ Behind(invocation.bytes)' = Behind(invocation.bytes)
  BY <1>1 DEF Supplied, Behind, Terminated
<1>4. got = << >> /\ Rest(invocation.bytes, Len(text) + IF Terminated THEN 2 ELSE 1)
  BY <1>1 DEF InputInv, ReadInv, SourceIsWhole
<1>5. stream = Behind(invocation.bytes) /\ (filename # << >> => stdin = invocation.bytes)
  BY <1>4 DEF Rest, Behind
<1>6. stdin = Supplied /\ (filename # << >> => file = Behind(invocation.bytes))
  BY <1>5 DEF Supplied, stream
<1>7. stdin \in Seq(Bytes)
  BY <1>1, <1>6, BehindIs DEF InputInv
<1>8. << >> \in Seq(Decoded) /\ << >> \o Unichars(stdin, OfGetchar) = Unichars(stdin, OfGetchar)
  BY <1>7, OneDecoded, EmptySeq, ConcatEmptySeq
<1> QED  BY <1>1, <1>2, <1>3, <1>4, <1>6, <1>7, <1>8 DEF InputInv

\* No other action changes what the program has read or can read.
LEMMA InputInvStep == InputInv /\ [Next]_vars => InputInv'
<1> SUFFICES ASSUME InputInv, [Next]_vars PROVE InputInv'
  OBVIOUS
<1>1. ReadInv'
  BY ReadInvStep DEF InputInv
<1>2. CASE Ask \/ EndFlags \/ SetFlag \/ Unrecognized \/ Name \/ SecondName \/ CheckFlags
  <2>1. phase = "args" /\ phase' # "run" /\ got' = got
    BY <1>2 DEF Ask, EndFlags, SetFlag, Unrecognized, Name, SecondName, CheckFlags, Exit,
                Dashed, Parsing, outcome
  <2> QED  BY <1>1, <2>1 DEF InputInv
<1>3. CASE ReadBuffer \/ ReadToNull
  <2>1. phase = "read" /\ phase' # "run" /\ got' = got
    BY <1>3 DEF ReadBuffer, ReadToNull, outcome
  <2> QED  BY <1>1, <2>1 DEF InputInv
<1>4. CASE Execute
  BY <1>4, InputBegins
<1>5. CASE GetChar
  BY <1>5, CharacterRead
<1>6. CASE UNCHANGED vars
  <2>1. UNCHANGED <<invocation, phase, text, stdin, file, got, filename, flags>>
    BY <1>6 DEF vars, arguments, streams, outcome
  <2>2. Supplied' = Supplied /\ Behind(invocation.bytes)' = Behind(invocation.bytes)
    BY <2>1 DEF Supplied, Behind, Terminated
  <2> QED  BY <1>1, <2>1, <2>2 DEF InputInv
<1> QED  BY <1>2, <1>3, <1>4, <1>5, <1>6 DEF Next, ParseArgs

LEMMA InputInvHolds == Spec => []InputInv
<1>1. Init => InputInv
  <2>1. Init => ReadInv
    BY DEF Init, ReadInv, SourceIsWhole
  <2> QED  BY <2>1 DEF Init, InputInv
<1> QED  BY <1>1, InputInvStep, PTL DEF Spec

\* Where a text ends, and what the program can read behind it.
Divided(t) == Terminated /\ 0 \in ToSet(t)

Ends(t, a, z, b) ==
  /\ a \in Seq(Chars) /\ z \in Seq(Chars) /\ b \in Seq(Chars)
  /\ t = (a \o z) \o b /\ text = Encoded(a) /\ Behind(Encoded(t)) = Encoded(b)
  /\ z = IF Divided(t) THEN <<0>> ELSE << >>
  /\ ~Divided(t) => b = << >>

\* A NUL among the characters is one among the bytes: getline cuts between characters.
LEMMA HasNul ==
  ASSUME NEW t \in Seq(Chars)
  PROVE  0 \in ToSet(t) <=> \E p \in 1 .. Len(Encoded(t)) : Encoded(t)[p] = 0
<1>1. PICK n \in Nat : n = Len(t) /\ DOMAIN t = 1 .. n
  BY LenProperties
<1>2. 0 \in ToSet(t) <=> \E k \in 1 .. n : t[k] = 0
  BY <1>1 DEF ToSet
<1>3. ASSUME NEW k \in 1 .. n, t[k] = 0
      PROVE  \E p \in 1 .. Len(Encoded(t)) : Encoded(t)[p] = 0
  <2>1. t[k] < 128
    BY <1>3
  <2> QED  BY <1>1, <1>3, <2>1, CharHasByte
<1>4. ASSUME NEW p \in 1 .. Len(Encoded(t)), Encoded(t)[p] = 0
      PROVE  \E k \in 1 .. n : t[k] = 0
  <2>1. PICK a \in Seq(Chars) : \E b \in Seq(Chars) : t = (a \o <<0>>) \o b
    <3>1. PICK v \in Nat : v = 0 /\ v < 128
      OBVIOUS
    <3>2. \E a \in Seq(Chars) : \E b \in Seq(Chars) :
            t = (a \o <<v>>) \o b /\ p = Len(Encoded(a)) + 1
      BY <1>4, <3>1, ByteOfChar
    <3> QED  BY <3>1, <3>2
  <2>2. PICK b \in Seq(Chars) : t = (a \o <<0>>) \o b
    BY <2>1
  <2>3. PICK w, aw : w = <<0>> /\ aw = a \o w
    OBVIOUS
  <2>4. w \in Seq(Chars)
    <3>1. 0 \in Nat /\ 0 < 128 /\ << >> \in Seq(Chars)
      BY EmptySeq
    <3> QED  BY <2>3, <3>1, AroundChar
  <2>5. Len(w) = 1 /\ w[1] = 0
    BY <2>3
  <2>6. PICK l \in Nat, m \in Nat : l = Len(a) /\ m = Len(b)
    BY LenProperties
  <2>7. aw \in Seq(Chars) /\ Len(aw) = l + 1 /\ aw[l + 1] = 0
    <3>1. Abut(Chars, a, w) /\ 1 \in 1 .. 1
      BY <2>4, BothStand
    <3> QED  BY <2>3, <2>5, <2>6, <3>1 DEF Abut
  <2>8. n = (l + 1) + m /\ t[l + 1] = 0
    <3>1. Abut(Chars, aw, b)
      BY <2>7, BothStand
    <3>2. l + 1 \in 1 .. l + 1 /\ t = aw \o b
      BY <2>2, <2>3
    <3> QED  BY <1>1, <2>6, <2>7, <3>1, <3>2 DEF Abut
  <2>9. l + 1 \in 1 .. n
    BY <2>8
  <2> QED  BY <2>8, <2>9
<1> QED  BY <1>2, <1>3, <1>4

\* So that the source, the NUL and what lies behind it are whole texts.
LEMMA TextEnds ==
  ASSUME ReadInv, phase \in {"execute", "run"}, NEW t \in Seq(Chars), invocation.bytes = Encoded(t)
  PROVE  \E a, z, b : Ends(t, a, z, b)
<1>1. PICK e : e = Encoded(t)
  OBVIOUS
<1>2. PICK n \in Nat : e \in Seq(Bytes) /\ n = Len(e)
  BY <1>1, EncodedIs, LenProperties
<1>3. /\ Len(text) \in 0 .. n /\ text = SubSeq(e, 1, Len(text))
      /\ Len(text) = n \/ (Terminated /\ e[Len(text) + 1] = 0)
      /\ Terminated => \A k \in 1 .. Len(text) : e[k] # 0
  BY <1>1, <1>2 DEF ReadInv, SourceIsWhole, TheSource
<1>4. PICK l \in 0 .. n : l = Len(text)
  BY <1>3
<1>5. << >> \in Seq(Chars) /\ Encoded(<< >>) = << >>
  BY EmptySeq, EncodedIs
<1>6. CASE ~Divided(t)
  <2>1. l = n
    <3>1. SUFFICES ASSUME l # n PROVE FALSE
      OBVIOUS
    <3>2. l + 1 \in 1 .. n /\ Terminated /\ e[l + 1] = 0
      <4>1. l + 1 \in 1 .. n
        BY <3>1
      <4>2. Terminated /\ e[l + 1] = 0
        BY <1>3, <1>4, <3>1
      <4> QED  BY <4>1, <4>2
    <3> QED  BY <1>1, <1>2, <1>6, <3>2, HasNul DEF Divided
  <2>2. text = e
    BY <1>2, <1>3, <1>4, <2>1, SubSeqFull
  <2>3. Behind(e) = << >>
    <3>1. PICK k \in Nat \ {0} : k = Len(text) + IF Terminated THEN 2 ELSE 1
      BY <1>4
    <3>2. ~(k <= n)
      <4>1. k = n + 2 \/ k = n + 1
        BY <1>4, <2>1, <3>1
      <4> QED  BY <4>1
    <3>3. From(e, k) \in Seq(Bytes) /\ Len(From(e, k)) = 0
      BY <1>2, <3>2, FromIs
    <3> QED  BY <3>1, <3>3, EmptySeq DEF Behind
  <2>4. t = (t \o << >>) \o << >>
    BY ConcatEmptySeq
  <2>5. Ends(t, t, << >>, << >>)
    BY <1>1, <1>5, <1>6, <2>2, <2>3, <2>4, Zenon DEF Ends
  <2> QED  BY <2>5
<1>7. CASE Divided(t)
  <2>1. Terminated /\ l # n
    <3>1. PICK p \in 1 .. n : e[p] = 0
      BY <1>1, <1>2, <1>7, HasNul DEF Divided
    <3> QED  BY <1>3, <1>4, <1>7, <3>1 DEF Divided
  <2>2. l + 1 \in 1 .. n /\ e[l + 1] = 0
    <3>1. l + 1 \in 1 .. n
      BY <2>1
    <3>2. e[l + 1] = 0
      BY <1>3, <1>4, <2>1
    <3> QED  BY <3>1, <3>2
  <2>3. PICK a \in Seq(Chars) : \E b \in Seq(Chars) :
          t = (a \o <<0>>) \o b /\ l + 1 = Len(Encoded(a)) + 1
    <3>1. PICK v \in Nat : v = 0 /\ v < 128
      OBVIOUS
    <3>2. \E a \in Seq(Chars) : \E b \in Seq(Chars) :
            t = (a \o <<v>>) \o b /\ l + 1 = Len(Encoded(a)) + 1
      BY <1>1, <1>2, <2>2, <3>1, ByteOfChar
    <3> QED  BY <3>1, <3>2
  <2>4. PICK b \in Seq(Chars) : t = (a \o <<0>>) \o b /\ l + 1 = Len(Encoded(a)) + 1
    BY <2>3
  <2>5. <<0>> \in Seq(Chars) /\ e = (Encoded(a) \o <<0>>) \o Encoded(b)
    <3>1. PICK v \in Nat : v = 0 /\ v < 128
      OBVIOUS
    <3>2. <<v>> \in Seq(Chars) /\ Encoded((a \o <<v>>) \o b) = (Encoded(a) \o <<v>>) \o Encoded(b)
      BY <3>1, AroundChar
    <3> QED  BY <1>1, <2>4, <3>1, <3>2
  <2>6. PICK f, w, g, fw : f = Encoded(a) /\ w = <<0>> /\ g = Encoded(b) /\ fw = f \o w
    OBVIOUS
  <2>7. f \in Seq(Bytes) /\ w \in Seq(Bytes) /\ g \in Seq(Bytes) /\ Len(w) = 1 /\ Len(f) = l
    <3>1. f \in Seq(Bytes) /\ g \in Seq(Bytes)
      BY <2>6, EncodedIs
    <3>2. PICK m \in Nat : m = Len(f)
      BY <3>1, LenProperties
    <3>3. m = l
      BY <2>4, <2>6, <3>2
    <3>4. w \in Seq(Bytes) /\ Len(w) = 1
      <4>1. 0 \in Bytes
        BY DEF Bytes
      <4> QED  BY <2>6, <4>1
    <3> QED  BY <3>1, <3>2, <3>3, <3>4
  <2>8. fw \in Seq(Bytes) /\ Len(fw) = l + 1
    BY <2>6, <2>7, InTwo
  <2>9. e = fw \o g /\ From(e, l + 2) = g
    <3>1. From(fw \o g, Len(fw) + 1) = g
      BY <2>7, <2>8, InTwo
    <3>2. (l + 1) + 1 = l + 2
      OBVIOUS
    <3> QED  BY <2>5, <2>6, <2>8, <3>1, <3>2
  <2>10. text = f
    <3>1. e = f \o (w \o g) /\ w \o g \in Seq(Bytes)
      <4>1. Regroups(f, w, g)
        BY <2>7, Regroup
      <4>2. w \o g \in Seq(Bytes)
        BY <2>7, ConcatProperties
      <4> QED  BY <2>6, <2>9, <4>1, <4>2 DEF Regroups
    <3>2. PICK r : r = w \o g
      OBVIOUS
    <3>3. SubSeq(f \o r, 1, Len(f)) = f
      BY <2>7, <3>1, <3>2, InTwo
    <3> QED  BY <1>3, <1>4, <2>7, <3>1, <3>2, <3>3
  <2>11. Behind(e) = g
    BY <1>4, <2>1, <2>9 DEF Behind
  <2>12. Ends(t, a, <<0>>, b)
    BY <1>1, <1>7, <2>4, <2>5, <2>6, <2>10, <2>11, Zenon DEF Ends
  <2> QED  BY <2>12
<1> QED  BY <1>6, <1>7

\* The source is what its text decodes to, but for a line.
LEMMA SourceIs ==
  ASSUME NEW a \in Seq(Chars), text = Encoded(a)
  PROVE  \E x \in Seq(Chars) : \E y \in Seq(Chars) :
           a = x \o y /\ IsLine(x) /\ Source = y
<1>1. CASE "assembly" \in flags
  <2>1. Source = a
    BY <1>1, WholeText DEF Source
  <2>2. << >> \in Seq(Chars) /\ a = << >> \o a /\ IsLine(<< >>)
    BY EmptySeq, ConcatEmptySeq DEF IsLine
  <2> QED  BY <2>1, <2>2
<1>2. CASE "assembly" \notin flags
  <2>1. PICK x \in Seq(Chars) : \E y \in Seq(Chars) :
          a = x \o y /\ IsLine(x) /\ From(Encoded(a), Shebang(Encoded(a)) + 1) = Encoded(y)
    BY ShebangIsLine
  <2>2. PICK y \in Seq(Chars) :
          a = x \o y /\ IsLine(x) /\ From(Encoded(a), Shebang(Encoded(a)) + 1) = Encoded(y)
    BY <2>1
  <2>3. Source = Unichars(From(text, Shebang(text) + 1), OfChar)
    BY <1>2, Zenon DEF Source, Characters, ParseUtf8, From
  <2>4. Source = y
    BY <2>2, <2>3, WholeText
  <2> QED  BY <2>2, <2>4
<1> QED  BY <1>1, <1>2

\* What the program can read, if there is a file and if there is none.
LEMMA InputIs ==
  ASSUME InputInv, phase = "run", "assume_ascii" \notin flags, NEW t \in Seq(Chars),
         invocation.bytes = Encoded(t), NEW a, NEW z, NEW b, Ends(t, a, z, b), NEW input,
         input = got \o Unichars(stdin, OfGetchar)
  PROVE  /\ filename = << >> => input = b
         /\ filename # << >> => input = t /\ Unichars(file, OfGetchar) = b
<1>1. input = Unichars(Supplied, OfGetchar) /\ (filename # << >> => file = Behind(Encoded(t)))
  BY DEF InputInv
<1>2. b \in Seq(Chars) /\ Behind(Encoded(t)) = Encoded(b)
  BY DEF Ends
<1>3. Unichars(Encoded(b), OfGetchar) = b /\ Unichars(Encoded(t), OfGetchar) = t
  BY <1>2, WholeText
<1> QED  BY <1>1, <1>2, <1>3 DEF Supplied

\* Together they are what was written, but for the line of the shebang.
LEMMA ShareRead == InputInv => ReadsItsShare
<1> SUFFICES ASSUME InputInv, phase = "run", invocation.spoilt = 0, "assume_ascii" \notin flags
             PROVE  ReadsItsShare
  BY DEF ReadsItsShare
<1>1. PICK t \in Seq(Chars) : t = invocation.typed /\ invocation.bytes = Encoded(t)
  BY TypedAssumption, Zenon DEF InputInv, ReadInv
<1>2. PICK a, z, b : Ends(t, a, z, b)
  BY <1>1, TextEnds DEF InputInv
<1>3. /\ a \in Seq(Chars) /\ z \in Seq(Chars) /\ b \in Seq(Chars)
      /\ t = (a \o z) \o b /\ text = Encoded(a) /\ z = (IF Divided(t) THEN <<0>> ELSE << >>)
      /\ ~Divided(t) => b = << >>
  BY <1>2 DEF Ends
<1>4. PICK x \in Seq(Chars) : \E y \in Seq(Chars) : a = x \o y /\ IsLine(x) /\ Source = y
  BY <1>3, SourceIs
<1>5. PICK y \in Seq(Chars) : a = x \o y /\ IsLine(x) /\ Source = y
  BY <1>4
<1>6. PICK input : input = got \o Unichars(stdin, OfGetchar)
  OBVIOUS
<1>7. /\ filename = << >> => input = b
      /\ filename # << >> => input = t /\ Unichars(file, OfGetchar) = b
  BY <1>1, <1>2, <1>6, InputIs
<1>8. PICK c : c = Source \o (IF Divided(t) THEN <<0>> ELSE << >>)
                     \o (IF filename = << >> THEN input
                         ELSE IF Divided(t) THEN Unichars(file, OfGetchar) ELSE << >>)
  OBVIOUS
<1>9. c = (y \o z) \o b
  BY <1>3, <1>5, <1>7, <1>8
<1>10. c \in Seq(Chars) /\ t = x \o c
  <2>1. y \o z \in Seq(Chars) /\ (x \o y) \o z = x \o (y \o z)
    <3>1. y \o z \in Seq(Chars)
      BY <1>3, ConcatProperties
    <3>2. (x \o y) \o z = x \o (y \o z)
      <4>1. x \in Seq(Chars) /\ y \in Seq(Chars) /\ z \in Seq(Chars)
        BY <1>3
      <4>2. Regroups(x, y, z)
        BY <4>1, Regroup
      <4> QED  BY <4>2 DEF Regroups
    <3> QED  BY <3>1, <3>2
  <2>2. PICK yz : yz = y \o z
    OBVIOUS
  <2>3. yz \o b \in Seq(Chars) /\ (x \o yz) \o b = x \o (yz \o b)
    <3>1. yz \in Seq(Chars)
      BY <2>1, <2>2
    <3>2. yz \o b \in Seq(Chars)
      BY <1>3, <3>1, ConcatProperties
    <3>3. (x \o yz) \o b = x \o (yz \o b)
      <4>1. x \in Seq(Chars) /\ yz \in Seq(Chars) /\ b \in Seq(Chars)
        BY <1>3, <3>1
      <4>2. Regroups(x, yz, b)
        BY <4>1, Regroup
      <4> QED  BY <4>2 DEF Regroups
    <3> QED  BY <3>2, <3>3
  <2> QED  BY <1>3, <1>5, <1>9, <2>1, <2>2, <2>3
<1>11. PICK k \in Nat, l \in Nat : k = Len(x) /\ l = Len(c)
  BY <1>10, LenProperties
<1>12. Len(t) = k + l /\ SubSeq(t, 1, k) = x /\ From(t, k + 1) = c
  BY <1>10, <1>11, InTwo
<1>13. Len(t) - Len(c) = k
  BY <1>11, <1>12
<1>14. /\ Len(t) - Len(c) >= 0 /\ IsLine(SubSeq(t, 1, Len(t) - Len(c)))
       /\ c = From(t, (Len(t) - Len(c)) + 1)
  <2>1. k >= 0 /\ IsLine(SubSeq(t, 1, k)) /\ c = From(t, k + 1)
    <3>1. k >= 0
      OBVIOUS
    <3>2. IsLine(SubSeq(t, 1, k)) /\ c = From(t, k + 1)
      BY <1>5, <1>12, Zenon
    <3> QED  BY <3>1, <3>2
  <2> QED  BY <1>13, <2>1, Zenon
<1>15. Divided(t) <=> "null_terminated" \in flags /\ 0 \in ToSet(t)
  BY DEF Divided, Terminated
<1> QED  BY <1>1, <1>6, <1>7, <1>8, <1>14, <1>15, Zenon DEF ReadsItsShare

\* Between the source and the program's input no character is lost or read twice:
\* read_istream, the NUL of -z, the shebang and getchar share out what was written,
\* whatever the size of the buffer.
THEOREM ShareIsRead == Spec => []ReadsItsShare
BY InputInvHolds, ShareRead, PTL

-----------------------------------------------------------------------------
(* A text of which some bytes are spoilt.                                  *)

\* What is left of two sequences, if the first is not used up.
LEMMA FromJoined ==
  ASSUME NEW a \in Seq(Bytes), NEW b \in Seq(Bytes), NEW n \in Nat, n = Len(a), NEW j \in 1 .. n + 1
  PROVE  From(a \o b, j) = From(a, j) \o b /\ From(a, j) \in Seq(Bytes)
<1>1. PICK i \in 0 .. n : i = j - 1 /\ j = i + 1
  <2>1. j - 1 \in 0 .. n /\ j = (j - 1) + 1
    OBVIOUS
  <2> QED  BY <2>1
<1>2. PICK s, f : s = SubSeq(a, 1, i) /\ f = From(a, j)
  OBVIOUS
<1>3. s \o f = a
  <2>1. 1 \in 1 .. Len(a) + 1 /\ i \in 1 - 1 .. Len(a) /\ n \in i .. Len(a)
    OBVIOUS
  <2>2. SubSeq(a, 1, i) \o SubSeq(a, i + 1, n) = SubSeq(a, 1, n)
    BY <2>1, ConcatAdjacentSubSeq
  <2> QED  BY <1>1, <1>2, <2>2, SubSeqFull DEF From
<1>4. f \in Seq(Bytes)
  <2>1. j \in Nat \ {0}
    OBVIOUS
  <2> QED  BY <1>2, <2>1, FromIs
<1>5. s \in Seq(Bytes) /\ Len(s) = i
  <2>1. \A k \in 1 .. i : a[k] \in Bytes
    <3>1. \A k \in 1 .. i : k \in 1 .. n
      OBVIOUS
    <3> QED  BY <3>1, ElementOfSeq
  <2>2. s \in Seq(Bytes) /\ Len(s) = IF 1 <= i THEN i - 1 + 1 ELSE 0
    BY <1>2, <2>1, SubSeqProperties
  <2> QED  BY <2>2
<1>6. f \o b \in Seq(Bytes)
  BY <1>4, ConcatProperties
<1>7. a \o b = s \o (f \o b)
  <2>1. s \in Seq(Bytes) /\ f \in Seq(Bytes)
    BY <1>4, <1>5
  <2>2. (s \o f) \o b = s \o (f \o b)
    <3>1. Regroups(s, f, b)
      BY <2>1, Regroup
    <3> QED  BY <3>1 DEF Regroups
  <2> QED  BY <1>3, <2>2
<1>8. PICK r : r = f \o b
  OBVIOUS
<1>9. From(s \o r, Len(s) + 1) = r
  BY <1>5, <1>6, <1>8, InTwo
<1> QED  BY <1>1, <1>2, <1>4, <1>5, <1>7, <1>8, <1>9

\* A byte that goes on with a character, and is not part of one.
LEMMA StrayByte ==
  ASSUME NEW v \in Bytes, Continues(v), NEW rest \in Seq(Bytes), NEW source
  PROVE  \E x \in Seq(Decoded) : Unichars(<<v>> \o rest, source) = x \o Unichars(rest, source)
<1>1. PICK w, u : w = <<v>> /\ u = w \o rest
  OBVIOUS
<1>2. w \in Seq(Bytes) /\ Len(w) = 1 /\ w[1] = v
  BY <1>1
<1>3. u \in Seq(Bytes) /\ From(u, 2) = rest /\ u[1] = v /\ u # << >>
  <2>1. Abut(Bytes, w, rest) /\ 1 \in 1 .. 1
    BY <1>2, BothStand
  <2>2. u \in Seq(Bytes) /\ From(u, 1 + 1) = rest
    BY <1>1, <1>2, InTwo
  <2>3. u[1] = v
    BY <1>1, <1>2, <2>1 DEF Abut
  <2>4. PICK l \in Nat : l = Len(rest)
    BY LenProperties
  <2>5. Len(u) # 0
    BY <1>1, <1>2, <2>1, <2>4 DEF Abut
  <2>6. 1 + 1 = 2
    OBVIOUS
  <2> QED  BY <2>2, <2>3, <2>5, <2>6, EmptySeq
<1>4. PICK first : first = Unichar(u, source)
  OBVIOUS
<1>5. first.used = 1
  <2>1. PICK z : z = Width(u[1]) /\ z = 0
    BY <1>3, WidthIs DEF Continues
  <2>2. \/ first = [char |-> EOF, used |-> 1]
        \/ first = [char |-> INVALID_CHAR, used |-> 1]
        \/ \E p \in 2 .. z : IllFormed(u, source, p)
        \/ z \in 1 .. Len(u)
    BY <1>3, <1>4, <2>1, UnicharCases
  <2>3. ~(\E p \in 2 .. z : IllFormed(u, source, p)) /\ z \notin 1 .. Len(u)
    <3>1. 2 .. 0 = {} /\ 0 \notin 1 .. Len(u)
      OBVIOUS
    <3> QED  BY <2>1, <3>1
  <2> QED  BY <2>2, <2>3
<1>6. first.char \in Decoded
  BY <1>3, <1>4, UnicharIs
<1>7. PICK x : x = <<first.char>>
  OBVIOUS
<1>8. x \in Seq(Decoded)
  BY <1>6, <1>7
<1>9. Unichars(u, source) = x \o Unichars(From(u, 2), source)
  <2>1. Unichars(u, source) = x \o Unichars(From(u, first.used + 1), source)
    BY <1>3, <1>4, <1>7, OneDecoded
  <2>2. first.used + 1 = 2
    BY <1>5
  <2> QED  BY <2>1, <2>2
<1> QED  BY <1>1, <1>3, <1>8, <1>9

\* Some of them.
LEMMA StrayBytes ==
  ASSUME NEW t \in Seq(Bytes), \A k \in 1 .. Len(t) : Continues(t[k]), NEW rest \in Seq(Bytes),
         NEW source
  PROVE  \E x \in Seq(Decoded) : Unichars(t \o rest, source) = x \o Unichars(rest, source)
<1> DEFINE Strays(s) == \A k \in 1 .. Len(s) : Continues(s[k])
           Local(s, r) == \E x \in Seq(Decoded) :
                            Unichars(s \o r, source) = x \o Unichars(r, source)
           B == { s \in Seq(Bytes) : Strays(s) => \A r \in Seq(Bytes) : Local(s, r) }
<1>1. << >> \in B
  <2>1. << >> \in Seq(Bytes) /\ << >> \in Seq(Decoded)
    BY EmptySeq
  <2>2. ASSUME NEW r \in Seq(Bytes) PROVE Local(<< >>, r)
    <3>1. << >> \o r = r /\ << >> \o Unichars(r, source) = Unichars(r, source)
      BY OneDecoded, ConcatEmptySeq
    <3> QED  BY <2>1, <3>1
  <2> QED  BY <2>1, <2>2
<1>2. ASSUME NEW s \in Seq(Bytes), NEW v \in Bytes, s \in B PROVE Append(s, v) \in B
  <2>1. PICK u : u = Append(s, v)
    OBVIOUS
  <2>2. PICK n \in Nat : n = Len(s)
    BY LenProperties
  <2>3. u \in Seq(Bytes) /\ Len(u) = n + 1 /\ u[n + 1] = v /\ \A k \in 1 .. n : u[k] = s[k]
    BY <2>1, <2>2, AppendProperties
  <2> SUFFICES ASSUME Strays(u), NEW r \in Seq(Bytes) PROVE Local(u, r)
    BY <2>1, <2>3
  <2>4. Continues(v)
    <3>1. n + 1 \in 1 .. Len(u)
      BY <2>3
    <3> QED  BY <2>3, <3>1
  <2>5. Strays(s)
    <3>1. \A k \in 1 .. n : k \in 1 .. Len(u)
      BY <2>3
    <3> QED  BY <2>2, <2>3, <3>1
  <2>6. PICK w : w = <<v>>
    OBVIOUS
  <2>7. w \in Seq(Bytes) /\ w \o r \in Seq(Bytes)
    <3>1. w \in Seq(Bytes)
      BY <2>6
    <3> QED  BY <3>1, ConcatProperties
  <2>8. u \o r = s \o (w \o r)
    <3>1. u = s \o w
      BY <2>1, <2>6, AppendIsConcat
    <3>2. (s \o w) \o r = s \o (w \o r)
      <4>1. Regroups(s, w, r)
        BY <2>7, Regroup
      <4> QED  BY <4>1 DEF Regroups
    <3> QED  BY <3>1, <3>2
  <2>9. Local(s, w \o r)
    BY <1>2, <2>5, <2>7
  <2>10. PICK x \in Seq(Decoded) : Unichars(s \o (w \o r), source) = x \o Unichars(w \o r, source)
    BY <2>9
  <2>11. PICK y \in Seq(Decoded) : Unichars(w \o r, source) = y \o Unichars(r, source)
    BY <2>4, <2>6, StrayByte
  <2>12. PICK q : q = Unichars(r, source)
    OBVIOUS
  <2>13. q \in Seq(Decoded)
    BY <2>12, OneDecoded
  <2>14. x \o y \in Seq(Decoded)
    BY ConcatProperties
  <2>15. x \in Seq(Decoded) /\ y \in Seq(Decoded) /\ q \in Seq(Decoded)
    BY <2>13
  <2>16. (x \o y) \o q = x \o (y \o q)
    <3>1. Regroups(x, y, q)
      BY <2>15, Regroup
    <3> QED  BY <3>1 DEF Regroups
  <2> QED  BY <2>8, <2>10, <2>11, <2>12, <2>14, <2>16
<1> HIDE DEF B, Strays, Local
<1>3. t \in B
  BY <1>1, <1>2, AppendInduction
<1> QED  BY <1>3 DEF B, Strays, Local

\* Bytes in front of a character do not take more from it than its first.
LEMMA TakesOneByte ==
  ASSUME NEW p \in Seq(Bytes), NEW n \in Nat, n = Len(p), n # 0,
         NEW c, NEW b, Whole(b, c), NEW rest \in Seq(Bytes), NEW source
  PROVE  Unichar(p \o (b \o rest), source).used \in 1 .. n + 1
<1>1. PICK m \in 1 .. 4 : m = Len(b) /\ b \in Seq(Bytes) /\ ~Continues(b[1])
  BY DEF Whole
<1>2. PICK br, u : br = b \o rest /\ u = p \o br
  OBVIOUS
<1>3. PICK l \in Nat : l = Len(rest)
  BY LenProperties
<1>4. br \in Seq(Bytes) /\ Len(br) = m + l /\ br[1] = b[1]
  <2>1. Abut(Bytes, b, rest) /\ 1 \in 1 .. m
    BY <1>1, BothStand
  <2> QED  BY <1>1, <1>2, <1>3, <2>1 DEF Abut
<1>5. u \in Seq(Bytes) /\ Len(u) = n + (m + l) /\ u[n + 1] = b[1]
  <2>1. Abut(Bytes, p, br) /\ 1 \in 1 .. m + l
    BY <1>4, BothStand
  <2> QED  BY <1>2, <1>4, <2>1 DEF Abut
<1>6. n + 1 <= Len(u) /\ u # << >>
  <2>1. n + 1 <= n + (m + l) /\ n + (m + l) # 0
    OBVIOUS
  <2> QED  BY <1>5, <2>1, EmptySeq
<1>7. Breaks(u, n + 1, source)
  BY <1>1, <1>5 DEF Breaks
<1>8. PICK w \in 0 .. 4 : w = Width(u[1])
  BY WidthIs
<1>9. PICK first : first = Unichar(u, source)
  OBVIOUS
<1>10. \/ first = [char |-> EOF, used |-> 1] \/ first = [char |-> INVALID_CHAR, used |-> 1]
       \/ \E k \in 2 .. w : IllFormed(u, source, k)
       \/ /\ w \in 1 .. Len(u) /\ \A k \in 2 .. w : ~Breaks(u, k, source)
          /\ first = [char |-> Value(SubSeq(u, 1, w)), used |-> w]
  BY <1>5, <1>6, <1>8, <1>9, UnicharCases
<1> SUFFICES first.used \in 1 .. n + 1
  BY <1>2, <1>9
<1>11. CASE first = [char |-> EOF, used |-> 1] \/ first = [char |-> INVALID_CHAR, used |-> 1]
  BY <1>11
<1>12. ASSUME NEW k \in 2 .. w, IllFormed(u, source, k) PROVE first.used \in 1 .. n + 1
  <2>1. /\ \A j \in 2 .. k - 1 : ~Breaks(u, j, source)
        /\ first = [char |-> INVALID_CHAR, used |-> IF k <= Len(u) THEN k ELSE Len(u)]
    BY <1>9, <1>12 DEF IllFormed
  <2>2. k <= n + 1
    <3>1. SUFFICES ASSUME ~(k <= n + 1) PROVE FALSE
      OBVIOUS
    <3>2. n + 1 \in 2 .. k - 1
      BY <1>8, <3>1
    <3> QED  BY <1>7, <2>1, <3>2
  <2>3. first.used = k
    <3>1. k <= Len(u)
      BY <1>5, <1>6, <2>2
    <3> QED  BY <2>1, <3>1
  <2> QED  BY <2>2, <2>3
<1>13. CASE /\ w \in 1 .. Len(u) /\ \A k \in 2 .. w : ~Breaks(u, k, source)
            /\ first = [char |-> Value(SubSeq(u, 1, w)), used |-> w]
  <2>1. w <= n
    <3>1. SUFFICES ASSUME ~(w <= n) PROVE FALSE
      OBVIOUS
    <3>2. n + 1 \in 2 .. w
      BY <3>1
    <3> QED  BY <1>7, <1>13, <3>2
  <2>2. first.used = w /\ w >= 1
    BY <1>13
  <2> QED  BY <2>1, <2>2
<1> QED  BY <1>10, <1>11, <1>12, <1>13

\* Whatever the bytes decode to, it ends with what the rest decodes to.
ReadsOn(bytes, rest, source) ==
  \E x \in Seq(Decoded) : Unichars(bytes, source) = x \o Unichars(rest, source)

\* So what stands behind that character is read as if nothing stood in front of it.
LEMMA ReadAgain ==
  ASSUME NEW c, NEW b, Whole(b, c), c \in Decoded, NEW rest \in Seq(Bytes), NEW source,
         NEW p \in Seq(Bytes)
  PROVE  ReadsOn(p \o (b \o rest), rest, source)
<1>1. PICK m \in 1 .. 4 : m = Len(b) /\ b \in Seq(Bytes) /\ \A k \in 2 .. m : Continues(b[k])
  BY DEF Whole
<1>2. PICK br, q : br = b \o rest /\ q = Unichars(rest, source)
  OBVIOUS
<1>3. br \in Seq(Bytes) /\ q \in Seq(Decoded)
  BY <1>1, <1>2, ConcatProperties, OneDecoded
<1> DEFINE Local(s) == \E x \in Seq(Decoded) : Unichars(s \o br, source) = x \o q
           B == { n \in Nat : \A s \in Seq(Bytes) : Len(s) <= n => Local(s) }
<1>4. Local(<< >>)
  <2>1. << >> \o br = br
    BY <1>3, ConcatEmptySeq
  <2>2. Unichars(br, source) = <<c>> \o q
    <3>1. Unichars(b \o rest, source) = <<c>> \o Unichars(rest, source)
      BY WholeDecoded
    <3> QED  BY <1>2, <3>1
  <2>3. <<c>> \in Seq(Decoded)
    OBVIOUS
  <2> QED  BY <2>1, <2>2, <2>3
<1>5. 0 \in B
  <2>1. ASSUME NEW s \in Seq(Bytes), Len(s) <= 0 PROVE s = << >>
    <3>1. PICK l \in Nat : l = Len(s)
      BY LenProperties
    <3>2. Len(s) = 0
      BY <2>1, <3>1
    <3> QED  BY <3>2, EmptySeq
  <2> HIDE DEF Local
  <2> QED  BY <1>4, <2>1
<1>6. ASSUME NEW n \in Nat, n \in B PROVE n + 1 \in B
  <2> SUFFICES ASSUME NEW s \in Seq(Bytes), Len(s) <= n + 1 PROVE Local(s)
    OBVIOUS
  <2>1. PICK l \in Nat : l = Len(s)
    BY LenProperties
  <2>2. CASE s = << >>
    BY <1>4, <2>2
  <2>3. CASE s # << >>
    <3>1. l # 0
      BY <2>1, <2>3, EmptySeq
    <3>2. PICK u, first : u = s \o br /\ first = Unichar(u, source)
      OBVIOUS
    <3>3. first.used \in 1 .. l + 1
      BY <1>2, <2>1, <3>1, <3>2, TakesOneByte
    <3>4. u \in Seq(Bytes) /\ u # << >>
      <4>1. Abut(Bytes, s, br)
        BY <1>3, BothStand
      <4>2. PICK k \in Nat : k = Len(br)
        BY <1>3, LenProperties
      <4>3. Len(u) # 0
        BY <2>1, <3>1, <3>2, <4>1, <4>2 DEF Abut
      <4>4. u \in Seq(Bytes)
        BY <3>2, <4>1 DEF Abut
      <4> QED  BY <4>3, <4>4, EmptySeq
    <3>5. PICK j \in 2 .. l + 2 : j = first.used + 1
      <4>1. first.used + 1 \in 2 .. l + 2
        BY <3>3
      <4> QED  BY <4>1
    <3>6. PICK y : y = <<first.char>>
      OBVIOUS
    <3>7. y \in Seq(Decoded)
      <4>1. first.char \in Decoded
        BY <3>2, <3>4, UnicharIs
      <4> QED  BY <3>6, <4>1
    <3>8. Unichars(u, source) = y \o Unichars(From(u, j), source)
      BY <3>2, <3>4, <3>5, <3>6, OneDecoded
    <3>9. \E x \in Seq(Decoded) : Unichars(From(u, j), source) = x \o q
      <4>1. CASE j # l + 2
        <5>1. j \in 1 .. l + 1
          BY <4>1
        <5>2. PICK f : f = From(s, j)
          OBVIOUS
        <5>3. From(u, j) = f \o br /\ f \in Seq(Bytes)
          BY <1>3, <2>1, <3>2, <5>1, <5>2, FromJoined
        <5>4. Len(f) <= n
          <6>1. j \in Nat \ {0}
            OBVIOUS
          <6>2. Len(f) = IF j <= l THEN l - j + 1 ELSE 0
            BY <2>1, <5>2, <6>1, FromIs
          <6>3. l <= n + 1
            BY <2>1
          <6> QED  BY <6>2, <6>3
        <5>5. Local(f)
          BY <1>6, <5>3, <5>4
        <5> QED  BY <5>3, <5>5
      <4>2. CASE j = l + 2
        <5>1. From(u, l + 1) = br
          BY <1>3, <2>1, <3>2, InTwo
        <5>2. From(From(u, l + 1), 2) = From(u, l + 1 + 2 - 1)
          <6>1. PICK i \in Nat \ {0}, k \in Nat \ {0} : i = l + 1 /\ k = 2
            <7>1. l + 1 \in Nat \ {0} /\ 2 \in Nat \ {0}
              OBVIOUS
            <7> QED  BY <7>1
          <6>2. From(From(u, i), k) = From(u, i + k - 1)
            BY <3>4, FromFrom
          <6> QED  BY <6>1, <6>2
        <5>3. l + 1 + 2 - 1 = j
          BY <4>2
        <5>4. From(u, j) = From(br, 2)
          BY <5>1, <5>2, <5>3
        <5>5. PICK f : f = From(b, 2)
          OBVIOUS
        <5>6. From(br, 2) = f \o rest /\ f \in Seq(Bytes)
          <6>1. PICK i \in 1 .. m + 1 : i = 2
            OBVIOUS
          <6>2. b \in Seq(Bytes) /\ m \in Nat /\ m = Len(b)
            BY <1>1
          <6>3. From(b \o rest, i) = From(b, i) \o rest /\ From(b, i) \in Seq(Bytes)
            <7>1. b \in Seq(Bytes) /\ rest \in Seq(Bytes) /\ m = Len(b) /\ m \in Nat /\ i \in 1 .. m + 1
              BY <6>2
            <7> QED  BY <7>1, FromJoined, Zenon
          <6> QED  BY <1>2, <5>5, <6>1, <6>3
        <5>7. \A k \in 1 .. Len(f) : Continues(f[k])
          <6>1. 2 \in Nat \ {0}
            OBVIOUS
          <6>2. Len(f) = IF 2 <= m THEN m - 2 + 1 ELSE 0
            BY <1>1, <5>5, <6>1, FromIs
          <6>3. \A k \in 1 .. m - 2 + 1 : f[k] = b[2 + k - 1]
            BY <1>1, <5>5, <6>1, FromIs
          <6>4. \A k \in 1 .. Len(f) : k \in 1 .. m - 2 + 1 /\ 2 + k - 1 \in 2 .. m
            BY <6>2
          <6> QED  BY <1>1, <6>3, <6>4
        <5>8. \E x \in Seq(Decoded) : Unichars(f \o rest, source) = x \o Unichars(rest, source)
          BY <5>6, <5>7, StrayBytes
        <5> QED  BY <1>2, <5>4, <5>6, <5>8
      <4> QED  BY <4>1, <4>2
    <3>10. PICK x \in Seq(Decoded) : Unichars(From(u, j), source) = x \o q
      BY <3>9
    <3>11. y \o x \in Seq(Decoded) /\ y \o (x \o q) = (y \o x) \o q
      <4>1. y \o x \in Seq(Decoded)
        BY <3>7, ConcatProperties
      <4>2. y \o (x \o q) = (y \o x) \o q
        <5>1. y \in Seq(Decoded) /\ x \in Seq(Decoded) /\ q \in Seq(Decoded)
          BY <1>3, <3>7
        <5>2. (y \o x) \o q = y \o (x \o q)
          <6>1. Regroups(y, x, q)
            BY <5>1, Regroup
          <6> QED  BY <6>1 DEF Regroups
        <5> QED  BY <5>2
      <4> QED  BY <4>1, <4>2
    <3> QED  BY <3>2, <3>8, <3>10, <3>11
  <2> QED  BY <2>2, <2>3
<1>7. PICK n \in Nat : n = Len(p)
  BY LenProperties
<1> HIDE DEF B, Local
<1>8. n \in B
  BY <1>5, <1>6, SetInduction
<1>9. Local(p)
  BY <1>7, <1>8 DEF B
<1> QED  BY <1>2, <1>9 DEF Local, ReadsOn

\* The source, if the spoilt bytes make no shebang and end nothing.
LEMMA FramedSource ==
  ASSUME ReadInv, phase = "run", Framed
  PROVE  Source = Unichars(invocation.bytes, OfChar)
<1>1. PICK e : e = invocation.bytes
  OBVIOUS
<1>2. PICK n \in Nat : e \in Seq(Bytes) /\ n = Len(e) /\ DOMAIN e = 1 .. n
  BY <1>1, BytesOf, LenProperties DEF ReadInv
<1>3. /\ Len(text) \in 0 .. n /\ text = SubSeq(e, 1, Len(text))
      /\ Len(text) = n \/ (Terminated /\ e[Len(text) + 1] = 0)
  BY <1>1, <1>2 DEF ReadInv, SourceIsWhole, TheSource
<1>4. PICK l \in 0 .. n : l = Len(text)
  BY <1>3
<1>5. l = n
  <2>1. SUFFICES ASSUME l # n PROVE FALSE
    OBVIOUS
  <2>2. Terminated /\ e[l + 1] = 0
    BY <1>3, <1>4, <2>1
  <2>3. l + 1 \in 1 .. n
    BY <2>1
  <2>4. 0 \in ToSet(e)
    BY <1>2, <2>2, <2>3 DEF ToSet
  <2> QED  BY <1>1, <2>2, <2>4, Zenon DEF Framed, Terminated
<1>6. text = e
  BY <1>2, <1>3, <1>4, <1>5, SubSeqFull
<1>7. ~IsPrefix(<<35, 33>>, text)
  BY DEF Framed
<1>8. Shebang(text) = 0
  BY <1>7, Zenon DEF Shebang
<1>9. From(text, 0 + 1) = text
  BY <1>2, <1>6, SubSeqFull DEF From
<1>10. Source = Unichars(text, OfChar) \/ Source = Unichars(From(text, Shebang(text) + 1), OfChar)
  BY Zenon DEF Source, Characters, ParseUtf8, From
<1> QED  BY <1>1, <1>6, <1>8, <1>9, <1>10

\* A text is one of those that can come out of a decoder.
LEMMA CharsAreDecoded == Seq(Chars) \subseteq Seq(Decoded)
<1> SUFFICES ASSUME NEW u \in Seq(Chars) PROVE u \in Seq(Decoded)
  OBVIOUS
<1>1. PICK n \in Nat : n = Len(u) /\ u \in [1 .. n -> Chars]
  BY LenProperties
<1>2. u \in [1 .. n -> Decoded]
  BY <1>1 DEF Decoded
<1> QED  BY <1>2, SeqDef

\* In front of the spoilt character all is read as ever; behind it, from the second
\* character on.
LEMMA DamageConfined == ReadInv => DamageIsLocal
<1> SUFFICES ASSUME ReadInv, phase = "run", invocation.spoilt # 0, Framed
             PROVE  /\ IsPrefix(SubSeq(invocation.typed, 1, invocation.spoilt - 1), Source)
                    /\ IsSuffix(From(invocation.typed, invocation.spoilt + 2), Source)
  BY DEF DamageIsLocal
<1>1. PICK t, k : t = invocation.typed /\ k = invocation.spoilt
  OBVIOUS
<1>2. PICK e : e = invocation.bytes
  OBVIOUS
<1>3. PICK s, r : s = SubSeq(t, 1, k - 1) /\ r = SubSeq(t, k + 1, Len(t))
  OBVIOUS
<1>4. /\ t \in Seq(Chars) /\ k \in 0 .. Len(t) /\ k # 0
      /\ IsPrefix(Encoded(s), e) /\ IsSuffix(Encoded(r), e)
  BY <1>1, <1>2, <1>3, TypedAssumption, Zenon DEF ReadInv
<1>5. PICK n \in Nat : n = Len(t) /\ \A j \in 1 .. n : t[j] \in Chars
  BY <1>4, LenProperties, ElementOfSeq
<1>6. PICK i \in Nat : i = k - 1 /\ k \in 1 .. n /\ k = i + 1
  <2>1. k \in 1 .. n
    BY <1>4, <1>5
  <2>2. k - 1 \in Nat /\ k = (k - 1) + 1
    BY <2>1
  <2> QED  BY <2>1, <2>2
<1>7. e \in Seq(Bytes) /\ Source = Unichars(e, OfChar)
  BY <1>2, FramedSource, BytesOf DEF ReadInv
<1>8. Source \in Seq(Decoded)
  BY <1>7, OneDecoded
<1>9. s \in Seq(Chars) /\ r \in Seq(Chars)
  <2>1. \A j \in 1 .. i : t[j] \in Chars
    <3>1. \A j \in 1 .. i : j \in 1 .. n
      BY <1>6
    <3> QED  BY <1>5, <3>1
  <2>2. \A j \in k + 1 .. n : t[j] \in Chars
    <3>1. \A j \in k + 1 .. n : j \in 1 .. n
      BY <1>6
    <3> QED  BY <1>5, <3>1
  <2>3. s \in Seq(Chars)
    BY <1>3, <1>6, <2>1, SubSeqProperties
  <2>4. r \in Seq(Chars)
    <3>1. k + 1 \in Nat
      BY <1>6
    <3> QED  BY <1>3, <1>5, <2>2, <3>1, SubSeqProperties
  <2> QED  BY <2>3, <2>4
<1>10. IsPrefix(s, Source)
  <2>1. PICK f, g : f = Encoded(s) /\ g = From(e, Len(f) + 1)
    OBVIOUS
  <2>2. f \in Seq(Bytes)
    BY <1>9, <2>1, EncodedIs
  <2>3. e = f \o g /\ g \in Seq(Bytes)
    BY <1>4, <1>7, <2>1, <2>2, PrefixOf
  <2>4. PICK h : h = Unichars(g, OfChar)
    OBVIOUS
  <2>5. Source = s \o h
    <3>1. Unichars(Encoded(s) \o g, OfChar) = s \o Unichars(g, OfChar)
      BY <1>9, <2>3, TextDecoded
    <3> QED  BY <1>7, <2>1, <2>3, <2>4, <3>1
  <2>6. s \in Seq(Decoded) /\ h \in Seq(Decoded)
    BY <1>9, <2>3, <2>4, OneDecoded, CharsAreDecoded
  <2> QED  BY <1>8, <2>5, <2>6, PrefixOf
<1>11. PICK v : v = From(t, k + 2)
  OBVIOUS
<1>12. IsSuffix(v, Source)
  <2>1. CASE k = n
    <3>1. v = << >>
      <4>1. k + 2 \in Nat /\ n < k + 2
        BY <1>6, <2>1
      <4> QED  BY <1>4, <1>5, <1>11, <4>1, SubSeqEmpty DEF From
    <3>2. v \in Seq(Decoded) /\ Source = Source \o v
      BY <1>8, <3>1, EmptySeq, ConcatEmptySeq
    <3> QED  BY <1>8, <3>2, SuffixOf
  <2>2. CASE k # n
    <3>1. PICK j \in 1 .. n : j = k + 1
      BY <1>6, <2>2
    <3>2. PICK c \in Chars : c = t[j]
      BY <1>5
    <3>3. PICK w : w = <<c>>
      OBVIOUS
    <3>4. w \in Seq(Chars) /\ v \in Seq(Chars) /\ r = w \o v
      <4>1. w \in Seq(Chars)
        BY <3>3
      <4>2. \A m \in j + 1 .. n : t[m] \in Chars
        <5>1. \A m \in j + 1 .. n : m \in 1 .. n
          OBVIOUS
        <5> QED  BY <1>5, <5>1
      <4>3. v = SubSeq(t, j + 1, n) /\ r = SubSeq(t, j, n)
        <5>1. k + 2 = j + 1
          BY <1>6, <3>1
        <5> QED  BY <1>3, <1>5, <1>11, <3>1, <5>1 DEF From
      <4>4. v \in Seq(Chars)
        BY <4>2, <4>3, SubSeqProperties
      <4>5. SubSeq(t, j, j) \o SubSeq(t, j + 1, n) = SubSeq(t, j, n)
        <5>1. j \in 1 .. Len(t) + 1 /\ j \in j - 1 .. Len(t) /\ n \in j .. Len(t)
          BY <1>5
        <5> QED  BY <1>4, <5>1, ConcatAdjacentSubSeq
      <4>6. SubSeq(t, j, j) = w
        <5>1. Len(w) = 1 /\ w[1] = c
          BY <3>3
        <5>2. \A m \in 1 .. 1 : w[m] = t[j + m - 1]
          <6>1. \A m \in 1 .. 1 : m = 1 /\ j + m - 1 = j
            OBVIOUS
          <6> QED  BY <3>2, <5>1, <6>1
        <5>3. j \in Nat \ {0} /\ j <= Len(t) /\ j <= j + 1 /\ j + 1 = j + 1
          BY <1>5
        <5> QED  BY <1>4, <4>1, <5>1, <5>2, <5>3, PieceIs
      <4> QED  BY <4>1, <4>3, <4>4, <4>5, <4>6
    <3>5. Encoded(r) = Utf8(c) \o Encoded(v)
      <4>1. Encoded(w) = Utf8(c)
        <5>1. << >> \in Seq(Chars) /\ Append(<< >>, c) = w
          BY <3>3, EmptySeq
        <5>2. Encoded(w) = << >> \o Utf8(c)
          BY <5>1, EncodedIs
        <5> QED  BY <5>2, Utf8Is, ConcatEmptySeq
      <4> QED  BY <3>4, <4>1, EncodedConcat
    <3>6. PICK b, f : b = Utf8(c) /\ f = Encoded(v)
      OBVIOUS
    <3>7. Whole(b, c) /\ b \in Seq(Bytes) /\ f \in Seq(Bytes) /\ c \in Decoded
      BY <3>4, <3>6, Utf8Whole, Utf8Is, EncodedIs DEF Decoded
    <3>8. PICK p \in Seq(Bytes) : e = p \o (b \o f)
      <4>1. b \o f \in Seq(Bytes) /\ Encoded(r) = b \o f
        BY <3>5, <3>6, <3>7, ConcatProperties
      <4>2. PICK bf : bf = b \o f
        OBVIOUS
      <4>3. bf \in Seq(Bytes) /\ IsSuffix(bf, e)
        BY <1>4, <4>1, <4>2
      <4>4. \E p \in Seq(Bytes) : e = p \o bf
        BY <1>7, <4>3, SuffixOf
      <4> QED  BY <4>2, <4>4
    <3>9. PICK x \in Seq(Decoded) : Unichars(e, OfChar) = x \o Unichars(f, OfChar)
      <4>1. ReadsOn(p \o (b \o f), f, OfChar)
        BY <3>7, ReadAgain
      <4> QED  BY <3>8, <4>1 DEF ReadsOn
    <3>10. Unichars(f, OfChar) = v
      BY <3>4, <3>6, WholeText
    <3>11. v \in Seq(Decoded)
      BY <3>4, CharsAreDecoded
    <3> QED  BY <1>7, <1>8, <3>9, <3>10, <3>11, SuffixOf
  <2> QED  BY <2>1, <2>2
<1> QED  BY <1>1, <1>3, <1>10, <1>11, <1>12

\* A byte that is lost, replaced or put in costs no more than its character and the
\* next: parse_unichar goes on with the first byte that can begin a character.
THEOREM DamageStaysLocal == Spec => []DamageIsLocal
<1>1. Init => ReadInv
  BY DEF Init, ReadInv, SourceIsWhole
<1> QED  BY <1>1, ReadInvStep, DamageConfined, PTL DEF Spec

-----------------------------------------------------------------------------
(* The grid that -e prints.                                                *)

Visible == Decoded \ {10, 32}

CellOf(c) == IF c \in {32, 10} THEN << >> ELSE <<c>>

\* White space is no cell, every other character is one.
LEMMA CellOfIs == \A c \in Decoded : CellOf(c) \in Seq(Visible)
<1> SUFFICES ASSUME NEW c \in Decoded PROVE CellOf(c) \in Seq(Visible)
  OBVIOUS
<1>1. CASE c \in {32, 10}
  BY <1>1, EmptySeq DEF CellOf
<1>2. CASE c \notin {32, 10}
  <2>1. c \in Visible /\ CellOf(c) = <<c>>
    BY <1>2 DEF CellOf, Visible
  <2> QED  BY <2>1
<1> QED  BY <1>1, <1>2

\* The cells of a text grow with it.
LEMMA CellsIs ==
  ASSUME NEW s \in Seq(Decoded)
  PROVE  /\ Cells(s) \in Seq(Visible)
         /\ s = << >> => Cells(s) = << >>
         /\ \A c \in Decoded : Cells(Append(s, c)) = Cells(s) \o CellOf(c)
<1>1. PICK n \in Nat : n = Len(s) /\ DOMAIN s = 1 .. n
  BY LenProperties
<1>2. \A k \in 1 .. n : s[k] \in Decoded
  BY <1>1, ElementOfSeq
<1>3. PICK m : m = [k \in 1 .. n |-> CellOf(s[k])]
  OBVIOUS
<1>4. m \in [1 .. n -> Seq(Visible)] /\ \A k \in 1 .. n : m[k] = CellOf(s[k])
  BY <1>2, <1>3, CellOfIs
<1>5. m \in Seq(Seq(Visible))
  BY <1>4, SeqDef
<1>6. Cells(s) = FlattenSeq(m)
  BY <1>1, <1>3, Zenon DEF Cells, CellOf
<1>7. Cells(s) \in Seq(Visible)
  BY <1>5, <1>6, FlattenSeqIs
<1>10. Len(m) = n
  <2>1. PICK l \in Nat : l = Len(m) /\ 1 .. l = 1 .. n
    BY <1>4, <1>5, LenProperties
  <2>2. l # 0 => l \in 1 .. n
    BY <2>1
  <2>3. n # 0 => n \in 1 .. l
    BY <2>1
  <2> QED  BY <2>1, <2>2, <2>3
<1>8. ASSUME s = << >> PROVE Cells(s) = << >>
  <2>1. n = 0
    BY <1>1, <1>8, EmptySeq
  <2>2. m = << >>
    BY <1>5, <1>10, <2>1, EmptySeq
  <2> QED  BY <1>6, <2>2, FlattenNone
<1>9. ASSUME NEW c \in Decoded PROVE Cells(Append(s, c)) = Cells(s) \o CellOf(c)
  <2>1. PICK t : t = Append(s, c)
    OBVIOUS
  <2>2. /\ t \in Seq(Decoded) /\ Len(t) = n + 1 /\ t[n + 1] = c
        /\ \A k \in 1 .. n : t[k] = s[k]
    BY <1>1, <2>1, AppendProperties
  <2>3. DOMAIN t = 1 .. n + 1
    BY <2>2, LenProperties
  <2>4. PICK q : q = [k \in 1 .. n + 1 |-> CellOf(t[k])]
    OBVIOUS
  <2>5. Cells(t) = FlattenSeq(q)
    BY <2>3, <2>4, Zenon DEF Cells, CellOf
  <2>6. \A k \in 1 .. n + 1 : t[k] \in Decoded
    BY <2>2, ElementOfSeq
  <2>7. q \in [1 .. n + 1 -> Seq(Visible)] /\ \A k \in 1 .. n + 1 : q[k] = CellOf(t[k])
    BY <2>4, <2>6, CellOfIs
  <2>8. CellOf(c) \in Seq(Visible)
    BY CellOfIs
  <2>9. PICK r : r = Append(m, CellOf(c))
    OBVIOUS
  <2>11. /\ r \in Seq(Seq(Visible)) /\ Len(r) = n + 1 /\ r[n + 1] = CellOf(c)
         /\ \A k \in 1 .. n : r[k] = m[k]
    BY <1>5, <1>10, <2>8, <2>9, AppendProperties
  <2>12. ASSUME NEW k \in 1 .. n + 1 PROVE r[k] = q[k]
    <3>1. CASE k = n + 1
      BY <2>2, <2>7, <2>11, <3>1
    <3>2. CASE k # n + 1
      <4>1. k \in 1 .. n
        BY <3>2
      <4> QED  BY <1>4, <2>2, <2>7, <2>11, <4>1
    <3> QED  BY <3>1, <3>2
  <2>13. q = r
    <3>1. DOMAIN r = 1 .. n + 1 /\ r \in [1 .. n + 1 -> Seq(Visible)]
      BY <2>11, LenProperties
    <3> QED  BY <2>7, <2>12, <3>1
  <2>14. FlattenSeq(r) = FlattenSeq(m) \o CellOf(c)
    BY <1>5, <2>8, <2>9, FlattenAppend
  <2> QED  BY <1>6, <2>1, <2>5, <2>13, <2>14
<1> QED  BY <1>7, <1>8, <1>9

\* Two texts, one behind the other.
LEMMA CellsConcat ==
  ASSUME NEW s \in Seq(Decoded), NEW t \in Seq(Decoded)
  PROVE  Cells(s \o t) = Cells(s) \o Cells(t)
<1> DEFINE B == { u \in Seq(Decoded) : Cells(s \o u) = Cells(s) \o Cells(u) }
<1>1. << >> \in B
  <2>1. << >> \in Seq(Decoded) /\ s \o << >> = s
    BY EmptySeq, ConcatEmptySeq
  <2>2. Cells(<< >>) = << >>
    BY <2>1, CellsIs
  <2>3. Cells(s) \o << >> = Cells(s)
    BY CellsIs, ConcatEmptySeq
  <2> QED  BY <2>1, <2>2, <2>3
<1>2. ASSUME NEW u \in Seq(Decoded), NEW x \in Decoded, u \in B PROVE Append(u, x) \in B
  <2>1. Append(u, x) \in Seq(Decoded) /\ s \o u \in Seq(Decoded)
    BY ConcatProperties, AppendProperties
  <2>2. s \o Append(u, x) = Append(s \o u, x)
    <3>1. PICK w : w = <<x>>
      OBVIOUS
    <3>2. w \in Seq(Decoded) /\ Append(u, x) = u \o w /\ Append(s \o u, x) = (s \o u) \o w
      BY <2>1, <3>1, AppendIsConcat
    <3>3. Regroups(s, u, w)
      BY <3>2, Regroup
    <3> QED  BY <3>2, <3>3 DEF Regroups
  <2>3. Cells(s \o Append(u, x)) = (Cells(s) \o Cells(u)) \o CellOf(x)
    BY <1>2, <2>1, <2>2, CellsIs
  <2>4. Cells(Append(u, x)) = Cells(u) \o CellOf(x)
    BY CellsIs
  <2>5. Cells(s) \in Seq(Visible) /\ Cells(u) \in Seq(Visible) /\ CellOf(x) \in Seq(Visible)
    BY CellsIs, CellOfIs
  <2>6. (Cells(s) \o Cells(u)) \o CellOf(x) = Cells(s) \o (Cells(u) \o CellOf(x))
    <3>1. Regroups(Cells(s), Cells(u), CellOf(x))
      BY <2>5, Regroup
    <3> QED  BY <3>1 DEF Regroups
  <2> QED  BY <2>1, <2>3, <2>4, <2>6
<1> HIDE DEF B
<1>3. t \in B
  BY <1>1, <1>2, AppendInduction
<1> QED  BY <1>3 DEF B

LEMMA OneCell == \A c \in Decoded : <<c>> \in Seq(Decoded) /\ Cells(<<c>>) = CellOf(c)
<1> SUFFICES ASSUME NEW c \in Decoded PROVE <<c>> \in Seq(Decoded) /\ Cells(<<c>>) = CellOf(c)
  OBVIOUS
<1>1. << >> \in Seq(Decoded) /\ Append(<< >>, c) = <<c>> /\ <<c>> \in Seq(Decoded)
  BY EmptySeq
<1>2. Cells(<<c>>) = << >> \o CellOf(c)
  <2>1. Cells(Append(<< >>, c)) = Cells(<< >>) \o CellOf(c) /\ Cells(<< >>) = << >>
    BY <1>1, CellsIs
  <2> QED  BY <1>1, <2>1
<1> QED  BY <1>1, <1>2, CellOfIs, ConcatEmptySeq

\* Bytes that make these cells, whatever follows them.
Yields(bytes, cells) ==
  /\ bytes \in Seq(Bytes) /\ cells \in Seq(Visible)
  /\ \A rest \in Seq(Bytes) :
       Cells(Unichars(bytes \o rest, OfChar)) = cells \o Cells(Unichars(rest, OfChar))

\* The pieces of which the printed grid is made: nothing, two of them, a character, white
\* space, and a cell.
LEMMA YieldsNothing == Yields(<< >>, << >>)
<1>1. << >> \in Seq(Bytes) /\ << >> \in Seq(Visible)
  BY EmptySeq
<1>2. ASSUME NEW rest \in Seq(Bytes)
      PROVE  Cells(Unichars(<< >> \o rest, OfChar)) = << >> \o Cells(Unichars(rest, OfChar))
  <2>1. << >> \o rest = rest
    BY ConcatEmptySeq
  <2>2. Cells(Unichars(rest, OfChar)) \in Seq(Visible)
    BY OneDecoded, CellsIs
  <2>3. << >> \o Cells(Unichars(rest, OfChar)) = Cells(Unichars(rest, OfChar))
    BY <2>2, ConcatEmptySeq
  <2> QED  BY <2>1, <2>3
<1> QED  BY <1>1, <1>2 DEF Yields

LEMMA YieldsBoth ==
  ASSUME NEW a, NEW c, NEW b, NEW d, Yields(a, c), Yields(b, d)
  PROVE  Yields(a \o b, c \o d)
<1>1. /\ a \in Seq(Bytes) /\ c \in Seq(Visible) /\ b \in Seq(Bytes) /\ d \in Seq(Visible)
  BY DEF Yields
<1>2. a \o b \in Seq(Bytes) /\ c \o d \in Seq(Visible)
  BY <1>1, ConcatProperties
<1>3. ASSUME NEW rest \in Seq(Bytes)
      PROVE  Cells(Unichars((a \o b) \o rest, OfChar)) = (c \o d) \o Cells(Unichars(rest, OfChar))
  <2>1. PICK q : q = Cells(Unichars(rest, OfChar))
    OBVIOUS
  <2>2. q \in Seq(Visible)
    BY <2>1, OneDecoded, CellsIs
  <2>3. (a \o b) \o rest = a \o (b \o rest)
    <3>1. Regroups(a, b, rest)
      BY <1>1, Regroup
    <3> QED  BY <3>1 DEF Regroups
  <2>4. b \o rest \in Seq(Bytes)
    BY <1>1, ConcatProperties
  <2>5. Cells(Unichars(a \o (b \o rest), OfChar)) = c \o Cells(Unichars(b \o rest, OfChar))
    BY <2>4 DEF Yields
  <2>6. Cells(Unichars(b \o rest, OfChar)) = d \o q
    BY <2>1 DEF Yields
  <2>7. (c \o d) \o q = c \o (d \o q)
    <3>1. c \in Seq(Visible) /\ d \in Seq(Visible)
      BY <1>1
    <3>2. Regroups(c, d, q)
      BY <2>2, <3>1, Regroup
    <3> QED  BY <3>2 DEF Regroups
  <2> QED  BY <2>1, <2>3, <2>5, <2>6, <2>7
<1> QED  BY <1>2, <1>3 DEF Yields

\* Bytes that are read as one character.
LEMMA YieldsChar ==
  ASSUME NEW bytes \in Seq(Bytes), NEW c \in Decoded,
         \A rest \in Seq(Bytes) : Unichars(bytes \o rest, OfChar) = <<c>> \o Unichars(rest, OfChar)
  PROVE  Yields(bytes, CellOf(c))
<1>1. ASSUME NEW rest \in Seq(Bytes)
      PROVE  Cells(Unichars(bytes \o rest, OfChar)) = CellOf(c) \o Cells(Unichars(rest, OfChar))
  <2>1. PICK q : q = Unichars(rest, OfChar)
    OBVIOUS
  <2>2. q \in Seq(Decoded)
    BY <2>1, OneDecoded
  <2>3. PICK w : w = <<c>>
    OBVIOUS
  <2>4. w \in Seq(Decoded) /\ Cells(w) = CellOf(c)
    BY <2>3, OneCell
  <2>5. Unichars(bytes \o rest, OfChar) = w \o q
    BY <2>1, <2>3
  <2>6. Cells(w \o q) = Cells(w) \o Cells(q)
    BY <2>2, <2>4, CellsConcat
  <2> QED  BY <2>1, <2>4, <2>5, <2>6
<1>2. CellOf(c) \in Seq(Visible)
  BY CellOfIs
<1> QED  BY <1>1, <1>2 DEF Yields

LEMMA YieldsWhite == Yields(<<10>>, << >>) /\ Yields(<<32>>, << >>)
<1> SUFFICES ASSUME NEW v \in {10, 32} PROVE Yields(<<v>>, << >>)
  OBVIOUS
<1>1. v \in Nat /\ v < 128 /\ v \in Bytes
  BY SMT DEF Bytes
<1>2. Whole(<<v>>, v)
  BY <1>1, OneByte
<1>3. v \in Decoded
  <2>1. << >> \in Seq(Chars)
    BY EmptySeq
  <2>2. v \in Chars
    BY <1>1, <2>1, AroundChar
  <2> QED  BY <2>2 DEF Decoded
<1>4. PICK w : w = <<v>>
  OBVIOUS
<1>5. w \in Seq(Bytes)
  BY <1>1, <1>4
<1>6. \A rest \in Seq(Bytes) : Unichars(w \o rest, OfChar) = <<v>> \o Unichars(rest, OfChar)
  BY <1>2, <1>4, WholeDecoded
<1>7. Yields(w, CellOf(v))
  BY <1>3, <1>5, <1>6, YieldsChar
<1>8. CellOf(v) = << >>
  BY DEF CellOf
<1> QED  BY <1>4, <1>7, <1>8

\* A cell is read as it is printed, that of a byte 255 included.
LEMMA YieldsCell ==
  ASSUME NEW c \in Visible
  PROVE  Yields(Printed(c), <<c>>)
<1>1. CellOf(c) = <<c>> /\ c \in Decoded
  BY DEF CellOf, Visible
<1>2. CASE c \in Chars
  <2>1. Whole(Utf8(c), c) /\ Printed(c) = Utf8(c) /\ Utf8(c) \in Seq(Bytes)
    BY <1>2, Utf8Whole, Utf8Is
  <2>2. PICK b : b = Printed(c)
    OBVIOUS
  <2>3. \A rest \in Seq(Bytes) : Unichars(b \o rest, OfChar) = <<c>> \o Unichars(rest, OfChar)
    BY <2>1, <2>2, WholeDecoded
  <2>4. Yields(b, CellOf(c))
    BY <1>1, <2>1, <2>2, <2>3, YieldsChar
  <2> QED  BY <1>1, <2>2, <2>4
<1>3. CASE c \notin Chars
  <2>1. c = EOF /\ c = -1
    BY <1>1, <1>3 DEF Decoded, EOF
  <2>2. Printed(c) = <<255>>
    <3>1. c <= 127 /\ c % 256 = 255
      <4>1. c \in Int /\ c <= -1 /\ c >= -1
        BY <2>1
      <4> QED  BY <4>1, SMT
    <3> QED  BY <3>1, SMT DEF Printed
  <2>3. PICK b : b = <<255>>
    OBVIOUS
  <2>4. b \in Seq(Bytes) /\ Len(b) = 1 /\ b[1] = 255
    <3>1. 255 \in Bytes
      BY SMT DEF Bytes
    <3> QED  BY <2>3, <3>1
  <2>5. ASSUME NEW rest \in Seq(Bytes)
        PROVE  Unichars(b \o rest, OfChar) = <<c>> \o Unichars(rest, OfChar)
    <3>1. PICK u, first : u = b \o rest /\ first = Unichar(u, OfChar)
      OBVIOUS
    <3>2. Abut(Bytes, b, rest) /\ 1 \in 1 .. 1
      BY <2>4, BothStand
    <3>3. u \in Seq(Bytes) /\ u[1] = 255
      BY <2>4, <3>1, <3>2 DEF Abut
    <3>4. u # << >>
      <4>1. PICK l \in Nat : l = Len(rest)
        BY LenProperties
      <4>2. Len(u) # 0
        BY <2>4, <3>1, <3>2, <4>1 DEF Abut
      <4> QED  BY <3>3, <4>2, EmptySeq
    <3>5. GetByte(u[1], OfChar) = EOF
      BY <3>3, SMT DEF GetByte, EOF
    <3>6. first = [char |-> EOF, used |-> 1]
      BY <3>1, <3>5, Zenon DEF Unichar
    <3>7. first.char = c /\ first.used = 1
      BY <2>1, <3>6
    <3>8. From(u, 1 + 1) = rest
      <4>1. From(b \o rest, Len(b) + 1) = rest
        <5>1. b \in Seq(Bytes)
          BY <2>4
        <5> QED  BY <5>1, InTwo
      <4> QED  BY <2>4, <3>1, <4>1
    <3> QED  BY <3>1, <3>3, <3>4, <3>7, <3>8, OneDecoded
  <2>6. Yields(b, CellOf(c))
    BY <1>1, <2>4, <2>5, YieldsChar
  <2> QED  BY <1>1, <2>2, <2>3, <2>6
<1> QED  BY <1>2, <1>3

\* The spaces in front of a row are no cells.
LEMMA YieldsSpaces ==
  ASSUME NEW m \in Nat
  PROVE  Yields([k \in 1 .. m |-> 32], << >>)
<1> DEFINE B == { u \in Seq({32}) : Yields(u, << >>) }
<1>1. << >> \in B
  BY YieldsNothing, EmptySeq
<1>2. ASSUME NEW u \in Seq({32}), NEW x \in {32}, u \in B PROVE Append(u, x) \in B
  <2>1. PICK w : w = <<32>>
    OBVIOUS
  <2>2. Append(u, x) \in Seq({32}) /\ Append(u, x) = u \o w
    BY <2>1, AppendProperties, AppendIsConcat
  <2>3. PICK e : e = << >>
    OBVIOUS
  <2>4. Yields(u, e) /\ Yields(w, e)
    BY <1>2, <2>1, <2>3, YieldsWhite
  <2>5. Yields(u \o w, e \o e)
    BY <2>4, YieldsBoth
  <2>6. e \o e = << >>
    BY <2>3, EmptySeq, ConcatEmptySeq
  <2> QED  BY <2>2, <2>5, <2>6
<1>3. PICK s : s = [k \in 1 .. m |-> 32]
  OBVIOUS
<1>4. s \in Seq({32})
  <2>1. s \in [1 .. m -> {32}]
    BY <1>3
  <2> QED  BY <2>1, SeqDef
<1> HIDE DEF B
<1>5. s \in B
  BY <1>1, <1>2, <1>4, AppendInduction
<1> QED  BY <1>3, <1>5 DEF B

\* Bytes one behind the other, each piece of them with its cells.
LEMMA YieldsAll ==
  ASSUME NEW n \in Nat, NEW s \in Seq(Seq(Bytes)), n = Len(s), NEW d, NEW h, h[0] = << >>,
         \A i \in 1 .. n : Yields(s[i], d[i]) /\ h[i] = h[i - 1] \o d[i]
  PROVE  Yields(FlattenSeq(s), h[n])
<1>1. \A i \in 1 .. n : s[i] \in Seq(Bytes)
  BY ElementOfSeq
<1>2. PICK g : Joins(Bytes, s, n, g) /\ Stand(s, n, g)
  BY <1>1, AllJoined
<1>3. FlattenSeq(s) = g[n]
  BY <1>2, FlattenJoins
<1> DEFINE B == { k \in Nat : k <= n => Yields(g[k], h[k]) }
<1>4. 0 \in B
  <2>1. g[0] = << >>
    BY <1>2 DEF Joins
  <2> QED  BY <2>1, YieldsNothing
<1>5. ASSUME NEW k \in Nat, k \in B PROVE k + 1 \in B
  <2> SUFFICES ASSUME k + 1 <= n PROVE Yields(g[k + 1], h[k + 1])
    OBVIOUS
  <2>1. PICK i \in 1 .. n : i = k + 1 /\ i - 1 = k
    <3>1. k + 1 \in 1 .. n /\ (k + 1) - 1 = k
      OBVIOUS
    <3> QED  BY <3>1
  <2>2. Yields(g[k], h[k])
    <3>1. k <= n
      OBVIOUS
    <3> QED  BY <1>5, <3>1
  <2>3. Yields(s[i], d[i])
    OBVIOUS
  <2>4. g[i] = g[k] \o s[i] /\ h[i] = h[k] \o d[i]
    BY <1>2, <2>1 DEF Joins
  <2>5. Yields(g[k] \o s[i], h[k] \o d[i])
    BY <2>2, <2>3, YieldsBoth
  <2> QED  BY <2>1, <2>4, <2>5
<1> HIDE DEF B
<1>6. n \in B
  BY <1>4, <1>5, SetInduction
<1> QED  BY <1>3, <1>6 DEF B

\* The numbers of cells of the triangles.
LEMMA TriangleIs ==
  /\ Triangular(0) = 0
  /\ \A r \in Nat : Triangular(r) \in Nat
  /\ \A r \in Nat \ {0} : (r * (r - 1)) \div 2 = Triangular(r - 1) /\ Triangular(r) = Triangular(r - 1) + r
  /\ \A r \in Nat : \A n \in Nat : r <= n => Triangular(r) <= Triangular(n)
<1>1. Triangular(0) = 0
  BY DEF Triangular
<1>2. \A a, b \in Nat : a + 2 * b \in Nat /\ (a + 2 * b) \div 2 = a \div 2 + b /\ a \div 2 \in Nat
  OBVIOUS
<1>3. \A a, b \in Nat : a <= b => a \div 2 <= b \div 2
  OBVIOUS
<1>4. ASSUME NEW r \in Nat PROVE Triangular(r) \in Nat
  <2>1. r * (r + 1) \in Nat
    OBVIOUS
  <2> QED  BY <1>2, <2>1 DEF Triangular
<1>5. ASSUME NEW r \in Nat \ {0}
      PROVE  (r * (r - 1)) \div 2 = Triangular(r - 1) /\ Triangular(r) = Triangular(r - 1) + r
  <2>1. PICK q \in Nat : q = r - 1 /\ r = q + 1
    <3>1. r - 1 \in Nat /\ r = (r - 1) + 1
      OBVIOUS
    <3> QED  BY <3>1
  <2>2. q * (q + 1) \in Nat /\ r * (r + 1) = q * (q + 1) + 2 * r /\ r * (r - 1) = q * (q + 1)
    BY <2>1
  <2>3. (r * (r + 1)) \div 2 = (q * (q + 1)) \div 2 + r
    BY <1>2, <2>2
  <2> QED  BY <2>1, <2>2, <2>3 DEF Triangular
<1>6. ASSUME NEW r \in Nat, NEW n \in Nat, r <= n PROVE Triangular(r) <= Triangular(n)
  <2>1. r * (r + 1) <= n * (n + 1)
    <3>1. r * (r + 1) <= n * (r + 1)
      BY <1>6
    <3>2. n * (r + 1) <= n * (n + 1)
      BY <1>6
    <3>3. r * (r + 1) \in Nat /\ n * (r + 1) \in Nat /\ n * (n + 1) \in Nat
      OBVIOUS
    <3> QED  BY <3>1, <3>2, <3>3
  <2>2. r * (r + 1) \in Nat /\ n * (n + 1) \in Nat
    OBVIOUS
  <2> QED  BY <1>3, <2>1, <2>2 DEF Triangular
<1> QED  BY <1>1, <1>4, <1>5, <1>6

\* program::program finds a side, and the cells have room in its triangle.
LEMMA SideIs ==
  ASSUME NEW cells \in Seq(Visible), NEW l \in Nat, l = Len(cells)
  PROVE  Side(cells) \in 0 .. l /\ Triangular(Side(cells)) >= l
<1> DEFINE Fits(n) == l \in (n * (n - 1)) \div 2 + (IF n = 0 THEN 0 ELSE 1) .. (n * (n + 1)) \div 2
<1>1. PICK n \in 0 .. l : Triangular(n) >= l /\ \A m \in 0 .. n - 1 : Triangular(m) < l
  BY SideExists
<1>2. Fits(n)
  <2>1. CASE n = 0
    BY <1>1, <2>1 DEF Triangular
  <2>2. CASE n # 0
    <3>1. n \in Nat \ {0} /\ n - 1 \in 0 .. n - 1 /\ n - 1 \in Nat /\ n \in Nat
      BY <2>2
    <3>2. (n * (n - 1)) \div 2 = Triangular(n - 1) /\ Triangular(n - 1) < l /\ Triangular(n - 1) \in Nat
      BY <1>1, <3>1, TriangleIs
    <3>3. Triangular(n) \in Nat /\ l <= Triangular(n)
      BY <1>1, <3>1, TriangleIs
    <3>4. l \in Triangular(n - 1) + 1 .. Triangular(n)
      BY <3>2, <3>3
    <3> QED  BY <2>2, <3>2, <3>4 DEF Triangular
  <2> QED  BY <2>1, <2>2
<1>3. PICK c : c = Side(cells)
  OBVIOUS
<1>4. c = CHOOSE m \in 0 .. l : Fits(m)
  BY <1>3 DEF Side
<1>5. c \in 0 .. l /\ Fits(c)
  <2> HIDE DEF Fits
  <2> QED  BY <1>2, <1>4
<1>6. l <= (c * (c + 1)) \div 2
  BY <1>5
<1> QED  BY <1>3, <1>5, <1>6, TriangleIs DEF Triangular

\* The triangle that they fill together with the NOPs.
LEMMA PaddedIs ==
  ASSUME NEW cells \in Seq(Visible), NEW n \in Nat, n = Side(cells)
  PROVE  Padded(cells) \in Seq(Visible) /\ Len(Padded(cells)) = Triangular(n)
<1>1. PICK t \in Nat : t = Triangular(n)
  BY TriangleIs
<1>2. PICK l \in Nat : l = Len(cells) /\ DOMAIN cells = 1 .. l
  BY LenProperties
<1>3. PICK p : p = Padded(cells)
  OBVIOUS
<1>4. p = [k \in 1 .. t |-> IF k \in DOMAIN cells THEN cells[k] ELSE 46]
  BY <1>1, <1>3 DEF Padded, Triangular
<1>5. 46 \in Visible
  <2>1. PICK v \in Nat : v = 46 /\ v < 128
    OBVIOUS
  <2>2. v \in Chars
    BY <2>1, EmptySeq, AroundChar
  <2> QED  BY <2>1, <2>2 DEF Visible, Decoded
<1>6. \A k \in 1 .. l : cells[k] \in Visible
  BY <1>2, ElementOfSeq
<1>7. p \in [1 .. t -> Visible]
  BY <1>2, <1>4, <1>5, <1>6
<1>8. p \in Seq(Visible)
  BY <1>7, SeqDef
<1>9. Len(p) = t
  <2>1. PICK q \in Nat : q = Len(p) /\ 1 .. q = 1 .. t
    BY <1>7, <1>8, LenProperties
  <2>2. q # 0 => q \in 1 .. t
    BY <2>1
  <2>3. t # 0 => t \in 1 .. q
    BY <2>1
  <2> QED  BY <2>1, <2>2, <2>3
<1> QED  BY <1>1, <1>3, <1>8, <1>9

\* What stands up to a place, and what stands up to a later one.
LEMMA GoesOn ==
  ASSUME NEW S, NEW p \in Seq(S), NEW l \in Nat, l = Len(p), NEW a \in Nat, NEW b \in Nat, NEW c \in Nat,
         a <= b, b <= c, c <= l
  PROVE  SubSeq(p, a + 1, c) = SubSeq(p, a + 1, b) \o SubSeq(p, b + 1, c)
<1>1. a + 1 \in 1 .. Len(p) + 1 /\ b \in (a + 1) - 1 .. Len(p) /\ c \in b .. Len(p)
  OBVIOUS
<1> QED  BY <1>1, ConcatAdjacentSubSeq

\* A piece of length one.
LEMMA OneStands ==
  ASSUME NEW S, NEW p \in Seq(S), NEW l \in Nat, l = Len(p), NEW c \in 1 .. l, NEW x, x = p[c]
  PROVE  SubSeq(p, c, c) = <<x>>
<1>1. x \in S
  BY ElementOfSeq
<1>2. PICK w : w = <<x>>
  OBVIOUS
<1>3. w \in Seq(S) /\ Len(w) = 1 /\ w[1] = x
  BY <1>1, <1>2
<1>4. \A m \in 1 .. 1 : w[m] = p[c + m - 1]
  <2>1. \A m \in 1 .. 1 : m = 1 /\ c + m - 1 = c
    OBVIOUS
  <2> QED  BY <1>3, <2>1
<1>5. c \in Nat \ {0} /\ c <= Len(p) /\ c <= c + 1 /\ c + 1 = c + 1
  OBVIOUS
<1>6. SubSeq(p, c, c) = w
  BY <1>3, <1>4, <1>5, PieceIs
<1> QED  BY <1>2, <1>6

\* A cell and the white space behind it.
LEMMA YieldsPlace ==
  ASSUME NEW c \in Visible, NEW v \in {10, 32}
  PROVE  Yields(Append(Printed(c), v), <<c>>) /\ Append(Printed(c), v) \in Seq(Bytes)
<1>1. PICK b, w, x, e : b = Printed(c) /\ w = <<v>> /\ x = <<c>> /\ e = << >>
  OBVIOUS
<1>2. Yields(b, x) /\ Yields(w, e)
  BY <1>1, YieldsCell, YieldsWhite
<1>3. Yields(b \o w, x \o e)
  BY <1>2, YieldsBoth
<1>4. x \in Seq(Visible) /\ x \o e = x
  BY <1>1, ConcatEmptySeq
<1>5. b \in Seq(Bytes) /\ v \in Bytes
  BY <1>2, SMT DEF Yields, Bytes
<1>6. Append(b, v) = b \o w /\ Append(b, v) \in Seq(Bytes)
  BY <1>1, <1>5, AppendIsConcat, AppendProperties
<1> QED  BY <1>1, <1>3, <1>4, <1>6

\* The cells of a row, as they are printed; and a row.
RowText(p, b, row) ==
  FlattenSeq([col \in 1 .. row |-> Append(Printed(p[b + col]), IF col = row THEN 10 ELSE 32)])

\* A row is read as the cells that it is made of.
LEMMA YieldsRow ==
  ASSUME NEW p \in Seq(Visible), NEW l \in Nat, l = Len(p), NEW b \in Nat, NEW row \in Nat, b + row <= l
  PROVE  Yields(RowText(p, b, row), SubSeq(p, b + 1, b + row))
<1>1. PICK s : s = [col \in 1 .. row |-> Append(Printed(p[b + col]), IF col = row THEN 10 ELSE 32)]
  OBVIOUS
<1>2. PICK d : d = [col \in 1 .. row |-> <<p[b + col]>>]
  OBVIOUS
<1>3. PICK h : h = [i \in 0 .. row |-> SubSeq(p, b + 1, b + i)]
  OBVIOUS
<1>4. ASSUME NEW i \in 1 .. row
      PROVE  Yields(s[i], d[i]) /\ s[i] \in Seq(Bytes) /\ h[i] = h[i - 1] \o d[i]
  <2>1. PICK v \in {10, 32} : v = IF i = row THEN 10 ELSE 32
    OBVIOUS
  <2>2. b + i \in 1 .. l
    OBVIOUS
  <2>3. PICK c \in Visible : c = p[b + i]
    BY <2>2, ElementOfSeq
  <2>4. s[i] = Append(Printed(c), v) /\ d[i] = <<c>>
    BY <1>1, <1>2, <2>1, <2>3
  <2>5. Yields(s[i], d[i]) /\ s[i] \in Seq(Bytes)
    BY <2>4, YieldsPlace
  <2>6. h[i] = SubSeq(p, b + 1, b + i) /\ h[i - 1] = SubSeq(p, b + 1, b + (i - 1))
    <3>1. i \in 0 .. row /\ i - 1 \in 0 .. row
      OBVIOUS
    <3> QED  BY <1>3, <3>1, Zenon
  <2>7. PICK m \in Nat, n \in Nat : m = b + (i - 1) /\ n = b + i /\ m + 1 = n /\ b <= m /\ m <= n /\ n <= l
    <3>1. /\ b + (i - 1) \in Nat /\ b + i \in Nat /\ (b + (i - 1)) + 1 = b + i /\ b <= b + (i - 1)
          /\ b + (i - 1) <= b + i /\ b + i <= l
      OBVIOUS
    <3> QED  BY <3>1
  <2>8. SubSeq(p, b + 1, n) = SubSeq(p, b + 1, m) \o SubSeq(p, m + 1, n)
    BY <2>7, GoesOn
  <2>9. SubSeq(p, n, n) = <<c>>
    BY <2>2, <2>3, <2>7, OneStands
  <2> QED  BY <2>3, <2>4, <2>5, <2>6, <2>7, <2>8, <2>9
<1>5. h[0] = << >>
  <2>1. h[0] = SubSeq(p, b + 1, b)
    BY <1>3
  <2>2. b + 1 \in Int /\ b \in Int /\ b < b + 1
    OBVIOUS
  <2> QED  BY <2>1, <2>2, SubSeqEmpty
<1>6. s \in [1 .. row -> Seq(Bytes)]
  BY <1>1, <1>4
<1>7. s \in Seq(Seq(Bytes)) /\ Len(s) = row
  <2>1. s \in Seq(Seq(Bytes))
    BY <1>6, SeqDef
  <2>2. PICK q \in Nat : q = Len(s) /\ 1 .. q = 1 .. row
    BY <1>6, <2>1, LenProperties
  <2>3. q # 0 => q \in 1 .. row
    BY <2>2
  <2>4. row # 0 => row \in 1 .. q
    BY <2>2
  <2> QED  BY <2>1, <2>2, <2>3, <2>4
<1>8. Yields(FlattenSeq(s), h[row])
  BY <1>4, <1>5, <1>7, YieldsAll
<1>9. h[row] = SubSeq(p, b + 1, b + row) /\ FlattenSeq(s) = RowText(p, b, row)
  BY <1>1, <1>3 DEF RowText
<1> QED  BY <1>8, <1>9

\* The grid that -e prints yields its cells.  If it has two rows, it begins with a
\* space.
LEMMA YieldsGrid ==
  ASSUME NEW cells \in Seq(Visible)
  PROVE  /\ Yields(Expanded(cells), Padded(cells))
         /\ Side(cells) \in Nat /\ Side(cells) > 1 => Expanded(cells)[1] = 32
<1>1. PICK n \in Nat : n = Side(cells)
  <2>1. PICK l \in Nat : l = Len(cells)
    BY LenProperties
  <2> QED  BY <2>1, SideIs
<1>2. PICK p : p = Padded(cells)
  OBVIOUS
<1>3. PICK l \in Nat : p \in Seq(Visible) /\ l = Len(p) /\ l = Triangular(n)
  BY <1>1, <1>2, PaddedIs, TriangleIs
<1>4. PICK s : s = [row \in 1 .. n |-> [k \in 1 .. n - row |-> 32] \o RowText(p, (row * (row - 1)) \div 2, row)]
  OBVIOUS
<1>5. Expanded(cells) = FlattenSeq(s)
  BY <1>1, <1>2, <1>4, Zenon DEF Expanded, RowText
<1>6. PICK d : d = [row \in 1 .. n |-> SubSeq(p, Triangular(row - 1) + 1, Triangular(row))]
  OBVIOUS
<1>7. PICK h : h = [i \in 0 .. n |-> SubSeq(p, 1, Triangular(i))]
  OBVIOUS
<1>8. ASSUME NEW i \in 1 .. n
      PROVE  Yields(s[i], d[i]) /\ s[i] \in Seq(Bytes) /\ h[i] = h[i - 1] \o d[i]
  <2>1. i \in Nat \ {0} /\ i - 1 \in Nat /\ i \in Nat /\ i <= n /\ i - 1 \in 0 .. n /\ i \in 0 .. n
    OBVIOUS
  <2>2. PICK b \in Nat : b = Triangular(i - 1)
    BY <2>1, TriangleIs
  <2>3. (i * (i - 1)) \div 2 = b /\ Triangular(i) = b + i /\ b + i <= l
    BY <1>3, <2>1, <2>2, TriangleIs
  <2>4. s[i] = [k \in 1 .. n - i |-> 32] \o RowText(p, b, i)
    BY <1>4, <2>3
  <2>5. d[i] = SubSeq(p, b + 1, b + i)
    BY <1>6, <2>2, <2>3
  <2>6. PICK m \in Nat : m = n - i
    BY <2>1
  <2>7. PICK t, r, e : t = [k \in 1 .. m |-> 32] /\ r = RowText(p, b, i) /\ e = << >>
    OBVIOUS
  <2>8. Yields(t, e)
    BY <2>7, YieldsSpaces
  <2>9. Yields(r, d[i])
    BY <1>3, <2>1, <2>3, <2>5, <2>7, YieldsRow
  <2>10. Yields(t \o r, e \o d[i])
    BY <2>8, <2>9, YieldsBoth
  <2>11. d[i] \in Seq(Visible)
    BY <2>9 DEF Yields
  <2>12. e \o d[i] = d[i]
    BY <2>7, <2>11, ConcatEmptySeq
  <2>13. t \o r \in Seq(Bytes)
    BY <2>10 DEF Yields
  <2>14. h[i] = h[i - 1] \o d[i]
    <3>1. h[i] = SubSeq(p, 1, b + i) /\ h[i - 1] = SubSeq(p, 1, b)
      BY <1>7, <2>1, <2>2, <2>3
    <3>2. PICK a \in Nat, c \in Nat : a = 0 /\ c = b + i /\ a + 1 = 1 /\ a <= b /\ b <= c /\ c <= l
      <4>1. 0 \in Nat /\ b + i \in Nat /\ 0 + 1 = 1 /\ 0 <= b /\ b <= b + i
        BY <2>1
      <4> QED  BY <2>3, <4>1
    <3>3. SubSeq(p, a + 1, c) = SubSeq(p, a + 1, b) \o SubSeq(p, b + 1, c)
      BY <1>3, <3>2, GoesOn
    <3> QED  BY <2>5, <3>1, <3>2, <3>3
  <2> QED  BY <2>4, <2>6, <2>7, <2>10, <2>12, <2>13, <2>14
<1>9. h[0] = << >>
  <2>1. h[0] = SubSeq(p, 1, 0)
    BY <1>7, TriangleIs
  <2>2. 1 \in Int /\ 0 \in Int /\ 0 < 1
    OBVIOUS
  <2> QED  BY <2>1, <2>2, SubSeqEmpty
<1>10. s \in [1 .. n -> Seq(Bytes)]
  BY <1>4, <1>8
<1>11. s \in Seq(Seq(Bytes)) /\ Len(s) = n
  <2>1. s \in Seq(Seq(Bytes))
    BY <1>10, SeqDef
  <2>2. PICK q \in Nat : q = Len(s) /\ 1 .. q = 1 .. n
    BY <1>10, <2>1, LenProperties
  <2>3. q # 0 => q \in 1 .. n
    BY <2>2
  <2>4. n # 0 => n \in 1 .. q
    BY <2>2
  <2> QED  BY <2>1, <2>2, <2>3, <2>4
<1>12. Yields(FlattenSeq(s), h[n])
  BY <1>8, <1>9, <1>11, YieldsAll
<1>13. h[n] = p
  <2>1. h[n] = SubSeq(p, 1, l)
    BY <1>3, <1>7
  <2> QED  BY <1>3, <2>1, SubSeqFull
<1>14. ASSUME n > 1 PROVE FlattenSeq(s)[1] = 32
  <2>1. \A i \in 1 .. n : s[i] \in Seq(Bytes)
    BY <1>8
  <2>2. PICK g : Joins(Bytes, s, n, g) /\ Stand(s, n, g)
    BY <2>1, AllJoined
  <2>3. FlattenSeq(s) = g[n]
    BY <1>11, <2>2, FlattenJoins
  <2>4. PICK i \in 1 .. n : i = 1 /\ i - 1 = 0
    <3>1. 1 \in 1 .. n /\ 1 - 1 = 0
      BY <1>14
    <3> QED  BY <3>1
  <2>5. PICK t, r : /\ t = [k \in 1 .. n - 1 |-> 32]
                    /\ r = RowText(p, (i * (i - 1)) \div 2, i)
    OBVIOUS
  <2>6. s[i] = t \o r
    BY <1>4, <2>4, <2>5
  <2>7. t \in Seq(Bytes) /\ Len(t) \in Nat \ {0} /\ t[1] = 32
    <3>1. PICK m \in Nat : m = n - 1 /\ m # 0
      <4>1. n - 1 \in Nat /\ n - 1 # 0
        BY <1>14
      <4> QED  BY <4>1
    <3>2. 32 \in Bytes
      BY SMT DEF Bytes
    <3>3. t \in [1 .. m -> Bytes]
      BY <2>5, <3>1, <3>2
    <3>4. t \in Seq(Bytes)
      BY <3>3, SeqDef
    <3>5. PICK q \in Nat : q = Len(t) /\ 1 .. q = 1 .. m
      BY <3>3, <3>4, LenProperties
    <3>6. 1 \in 1 .. m
      BY <3>1
    <3>7. q # 0
      BY <3>5, <3>6
    <3>8. t[1] = 32
      BY <2>5, <3>1, <3>6
    <3> QED  BY <3>4, <3>5, <3>7, <3>8
  <2>8. r \in Seq(Bytes)
    <3>1. (i * (i - 1)) \div 2 = 0 /\ Triangular(1) = 1 /\ Triangular(1) <= Triangular(n)
      <4>1. 1 \in Nat \ {0} /\ 1 \in Nat /\ 1 <= n /\ 1 - 1 = 0
        BY <1>14
      <4>2. Triangular(1) = Triangular(0) + 1 /\ (1 * (1 - 1)) \div 2 = Triangular(0)
        BY <4>1, TriangleIs
      <4>3. Triangular(1) <= Triangular(n)
        BY <4>1, TriangleIs
      <4> QED  BY <2>4, <4>2, <4>3, TriangleIs
    <3>2. PICK b \in Nat : b = 0
      OBVIOUS
    <3>3. i \in Nat /\ b + i <= l
      BY <1>3, <2>4, <3>1, <3>2
    <3>4. r = RowText(p, b, i)
      BY <2>5, <3>1, <3>2
    <3>5. Yields(r, SubSeq(p, b + 1, b + i))
      BY <1>3, <3>3, <3>4, YieldsRow
    <3> QED  BY <3>5 DEF Yields
  <2>9. s[i][1] = 32 /\ 1 \in 1 .. Len(s[i])
    <3>1. Abut(Bytes, t, r)
      BY <2>7, <2>8, BothStand
    <3>2. PICK m \in Nat \ {0}, q \in Nat : m = Len(t) /\ q = Len(r)
      BY <2>7, <2>8, LenProperties
    <3>3. 1 \in 1 .. m /\ 1 \in 1 .. m + q
      OBVIOUS
    <3> QED  BY <2>6, <2>7, <3>1, <3>2, <3>3 DEF Abut
  <2>10. g[i - 1] = << >>
    BY <2>2, <2>4 DEF Joins
  <2>11. Len(g[i - 1]) = 0
    BY <2>10
  <2>12. g[n][Len(g[i - 1]) + 1] = s[i][1]
    BY <2>2, <2>9 DEF Stand
  <2> QED  BY <2>3, <2>9, <2>11, <2>12
<1> QED  BY <1>1, <1>2, <1>5, <1>12, <1>13, <1>14

\* It is not taken for a shebang.
LEMMA NoShebang ==
  ASSUME NEW cells \in Seq(Visible)
  PROVE  /\ Expanded(cells) \in Seq(Bytes) /\ Shebang(Expanded(cells)) = 0
         /\ Cells(Unichars(Expanded(cells), OfChar)) = Padded(cells)
<1>1. PICK e, p : e = Expanded(cells) /\ p = Padded(cells)
  OBVIOUS
<1>2. Yields(e, p)
  BY <1>1, YieldsGrid
<1>3. e \in Seq(Bytes) /\ p \in Seq(Visible)
  BY <1>2 DEF Yields
<1>4. Cells(Unichars(e, OfChar)) = p
  <2>1. PICK r, q : r = << >> /\ q = Cells(Unichars(r, OfChar))
    OBVIOUS
  <2>2. r \in Seq(Bytes) /\ e \o r = e
    BY <1>3, <2>1, EmptySeq, ConcatEmptySeq
  <2>3. Unichars(r, OfChar) = << >> /\ << >> \in Seq(Decoded)
    BY <2>1, <2>2, OneDecoded, EmptySeq
  <2>4. q = << >>
    BY <2>1, <2>3, CellsIs
  <2>5. Cells(Unichars(e \o r, OfChar)) = p \o q
    BY <1>2, <2>1, <2>2 DEF Yields
  <2>6. p \o q = p
    BY <1>3, <2>4, ConcatEmptySeq
  <2> QED  BY <2>2, <2>5, <2>6
<1>5. ASSUME IsPrefix(<<35, 33>>, e) PROVE FALSE
  <2>1. PICK w : w = <<35, 33>>
    OBVIOUS
  <2>2. PICK a \in Visible, b \in Visible : /\ a = 35 /\ b = 33
                                             /\ Printed(a) = <<35>> /\ Printed(b) = <<33>>
    <3>1. ASSUME NEW v \in {33, 35} PROVE v \in Visible /\ Printed(v) = <<v>>
      <4>1. v \in Nat /\ v < 128 /\ v <= 127 /\ v % 256 = v
        BY SMT
      <4>2. v \in Chars
        BY <4>1, EmptySeq, AroundChar
      <4>3. Printed(v) = <<v>>
        <5>1. v <= 127 /\ v % 256 = v
          BY <4>1
        <5>2. Printed(v) = <<v % 256>>
          BY <5>1, SMT DEF Printed
        <5> QED  BY <5>1, <5>2
      <4>4. v # 10 /\ v # 32
        OBVIOUS
      <4> QED  BY <4>2, <4>3, <4>4 DEF Visible, Decoded
    <3> QED  BY <3>1
  <2>3. PICK x, y : x = <<a>> /\ y = <<b>>
    OBVIOUS
  <2>4. Yields(x, x) /\ Yields(y, y)
    <3>1. Yields(Printed(a), <<a>>) /\ Yields(Printed(b), <<b>>)
      BY YieldsCell
    <3> QED  BY <2>2, <2>3, <3>1
  <2>5. w = x \o y
    BY <2>1, <2>2, <2>3
  <2>6. Yields(w, w)
    BY <2>4, <2>5, YieldsBoth
  <2>7. w \in Seq(Bytes) /\ w \in Seq(Visible) /\ Len(w) = 2 /\ w[1] = 35
    BY <2>1, <2>6 DEF Yields
  <2>8. PICK r : r = From(e, Len(w) + 1)
    OBVIOUS
  <2>9. e = w \o r /\ r \in Seq(Bytes)
    BY <1>3, <1>5, <2>1, <2>7, <2>8, PrefixOf
  <2>10. PICK q : q = Cells(Unichars(r, OfChar))
    OBVIOUS
  <2>11. q \in Seq(Visible)
    BY <2>9, <2>10, OneDecoded, CellsIs
  <2>12. p = w \o q
    <3>1. Cells(Unichars(w \o r, OfChar)) = w \o Cells(Unichars(r, OfChar))
      BY <2>6, <2>9 DEF Yields
    <3> QED  BY <1>4, <2>9, <2>10, <3>1
  <2>13. PICK n : n = Side(cells)
    OBVIOUS
  <2>14. n \in Nat /\ n > 1 => e[1] = 32
    BY <1>1, <2>13, YieldsGrid
  <2>15. n \in Nat
    <3>1. PICK l \in Nat : l = Len(cells)
      BY LenProperties
    <3> QED  BY <2>13, <3>1, SideIs
  <2>16. n > 1
    <3>1. Len(p) = Triangular(n)
      BY <1>1, <2>13, <2>15, PaddedIs
    <3>2. PICK k \in Nat : k = Len(q)
      BY <2>11, LenProperties
    <3>3. Abut(Visible, w, q)
      BY <2>7, <2>11, BothStand
    <3>4. Triangular(n) = 2 + k
      BY <2>7, <2>12, <3>1, <3>2, <3>3 DEF Abut
    <3>5. Triangular(0) = 0 /\ Triangular(1) = 1
      BY DEF Triangular
    <3>6. n # 0 /\ n # 1
      BY <3>4, <3>5
    <3> QED  BY <2>15, <3>6
  <2>17. e[1] = 35
    <3>1. Abut(Bytes, w, r)
      BY <2>7, <2>9, BothStand
    <3>2. 1 \in 1 .. 2
      OBVIOUS
    <3> QED  BY <2>7, <2>9, <3>1, <3>2 DEF Abut
  <2> QED  BY <2>14, <2>15, <2>16, <2>17
<1>6. Shebang(e) = 0
  BY <1>5, Zenon DEF Shebang
<1> QED  BY <1>1, <1>3, <1>4, <1>6

\* What is printed is read by the same parse_utf8.
LEMMA GridReadBack == ReadInv => ExpandReadsBack
<1> SUFFICES ASSUME ReadInv, phase = "run"
             PROVE  Cells(ParseUtf8(Expanded(Cells(Characters)), TRUE)) = Padded(Cells(Characters))
  BY DEF ExpandReadsBack
<1>1. PICK n \in Nat : n = Len(invocation.bytes) /\ invocation.bytes \in Seq(Bytes)
  BY BytesOf, LenProperties DEF ReadInv
<1>2. PICK l \in 0 .. n : l = Len(text) /\ text = SubSeq(invocation.bytes, 1, Len(text))
  BY <1>1 DEF ReadInv, SourceIsWhole, TheSource
<1>3. text \in Seq(Bytes)
  <2>1. \A k \in 1 .. l : invocation.bytes[k] \in Bytes
    <3>1. \A k \in 1 .. l : k \in 1 .. n
      OBVIOUS
    <3> QED  BY <1>1, <3>1, ElementOfSeq
  <2> QED  BY <1>2, <2>1, SubSeqProperties
<1>4. Characters \in Seq(Decoded)
  <2>1. PICK h : h = Shebang(text)
    OBVIOUS
  <2>2. h \in Nat
    <3>1. PICK m \in Nat : m = Len(text) /\ DOMAIN text = 1 .. m
      BY <1>3, LenProperties
    <3>2. CASE h = 0
      BY <3>2
    <3>3. CASE h = Min({ k \in DOMAIN text : text[k] = 10 } \cup {Len(text)})
      <4>1. PICK T : T = { k \in DOMAIN text : text[k] = 10 } \cup {Len(text)}
        OBVIOUS
      <4>2. T \subseteq Nat /\ T \subseteq Int /\ T # {}
        BY <3>1, <4>1
      <4>3. PICK o \in T : \A m2 \in T : o <= m2
        BY <4>2, LeastNumber
      <4>4. Min(T) = o
        BY <4>2, <4>3, MinIs
      <4> QED  BY <3>3, <4>1, <4>2, <4>3, <4>4
    <3> QED  BY <2>1, <3>2, <3>3, Zenon DEF Shebang
  <2>3. PICK k \in Nat \ {0} : k = h + 1
    BY <2>2
  <2>4. From(text, k) \in Seq(Bytes)
    BY <1>3, <2>3, FromIs
  <2>5. Characters = Unichars(From(text, k), OfChar)
    BY <2>1, <2>3, Zenon DEF Characters, ParseUtf8, From
  <2> QED  BY <2>4, <2>5, OneDecoded
<1>5. PICK cells : cells = Cells(Characters)
  OBVIOUS
<1>6. cells \in Seq(Visible)
  BY <1>4, <1>5, CellsIs
<1>7. PICK e : e = Expanded(cells)
  OBVIOUS
<1>8. e \in Seq(Bytes) /\ Shebang(e) = 0 /\ Cells(Unichars(e, OfChar)) = Padded(cells)
  BY <1>6, <1>7, NoShebang
<1>9. From(e, 0 + 1) = e
  BY <1>8, SubSeqFull DEF From
<1>10. ParseUtf8(e, TRUE) = Unichars(From(e, Shebang(e) + 1), OfChar)
  BY Zenon DEF ParseUtf8, From
<1> QED  BY <1>5, <1>7, <1>8, <1>9, <1>10

\* What -e prints is a text of the same grid, whatever was read: no cell is lost,
\* doubled or changed between operator<< and parse_utf8.
THEOREM PrintedGridReadsBack == Spec => []ExpandReadsBack
<1>1. Init => ReadInv
  BY DEF Init, ReadInv, SourceIsWhole
<1> QED  BY <1>1, ReadInvStep, GridReadBack, PTL DEF Spec
==============================================================================
