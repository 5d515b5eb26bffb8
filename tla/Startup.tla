------------------------------ MODULE Startup ------------------------------
(***************************************************************************)
(* From the command line to the first instruction: parse_args and          *)
(* read_istream (input.cpp), the constructor of program (program.hh) and   *)
(* execute (main.cpp); then the program's own reading of what is left of   *)
(* stdin.                                                                  *)
(***************************************************************************)
EXTENDS CommandLine, Unicode

CONSTANTS
  Invocations, \* the cases to start with, see Invocation
  BufSize      \* BUF_SIZE of read_istream

ASSUME BufferAssumption == BufSize \in Nat \ {0}

ASSUME InvocationsAssumption ==
  \A i \in Invocations : i.argv \in Seq(Arguments) /\ i.bytes \in Seq(0 .. 255)

\* What is not spoilt is UTF-8.  Of a text that is, the characters before and behind
\* the spoilt one are still whole.
ASSUME TypedAssumption ==
  \A i \in Invocations :
    LET k      == i.spoilt
        before == Encoded(SubSeq(i.typed, 1, k - 1))
        behind == Encoded(SubSeq(i.typed, k + 1, Len(i.typed)))
    IN /\ i.typed \in Seq(Chars) /\ k \in 0 .. Len(i.typed)
       /\ k = 0 => i.bytes = Encoded(i.typed)
       /\ k # 0 => /\ Len(before) + Len(behind) <= Len(i.bytes)
                   /\ IsPrefix(before, i.bytes) /\ IsSuffix(behind, i.bytes)

VARIABLES
  invocation,   \* what the user has done
  phase,        \* "args", "read", "execute", "run", or "exit"
  next,         \* i of parse_args
  parse_flags, filename, flags,
  stdin, file,  \* the bytes not yet read of stdin and of the named file
  text,         \* the source text
  mode,         \* what execute has chosen
  got,          \* the characters that the program has read
  status        \* the exit code, or "" while there is none

arguments == <<next, parse_flags, filename, flags>>
streams   == <<stdin, file, text>>
outcome   == <<mode, got, status>>
vars      == <<invocation, phase, arguments, streams, outcome>>

\* The arguments; whether the named file can be opened; the characters written
\* to it and to stdin, and the bytes that have become of them; "spoilt" is the
\* character of which a byte has been lost, replaced or preceded by another, or 0.
Invocation(argv, opens, typed, spoilt, bytes) ==
  [argv |-> argv, opens |-> opens, typed |-> typed, spoilt |-> spoilt, bytes |-> bytes]

Exit(code) == phase' = "exit" /\ status' = code

-----------------------------------------------------------------------------
(* parse_args                                                              *)

argument == invocation.argv[next]
Parsing  == phase = "args" /\ next <= Len(invocation.argv)
Dashed   == Parsing /\ parse_flags /\ IsDashed(argument)

Ask == /\ Dashed /\ argument \in Asks
       /\ Exit("EXIT_SUCCESS")
       /\ UNCHANGED <<invocation, arguments, streams, mode, got>>

EndFlags == /\ Dashed /\ argument = Dashes
            /\ parse_flags' = FALSE /\ next' = next + 1
            /\ UNCHANGED <<invocation, phase, filename, flags, streams, outcome>>

SetFlag == /\ Dashed /\ argument \notin Asks /\ Known(argument)
           /\ flags' = flags \cup SetBy(argument) /\ next' = next + 1
           /\ UNCHANGED <<invocation, phase, parse_flags, filename, streams, outcome>>

\* A lone dash included.
Unrecognized == /\ Dashed /\ argument \notin Asks \cup {Dashes} /\ ~Known(argument)
                /\ Exit("EX_USAGE")
                /\ UNCHANGED <<invocation, arguments, streams, mode, got>>

Name == /\ Parsing /\ ~Dashed /\ filename = << >>
        /\ filename' = <<argument>> /\ next' = next + 1
        /\ UNCHANGED <<invocation, phase, parse_flags, flags, streams, outcome>>

SecondName == /\ Parsing /\ ~Dashed /\ filename # << >>
              /\ Exit("EX_USAGE")
              /\ UNCHANGED <<invocation, arguments, streams, mode, got>>

CheckFlags == /\ phase = "args" /\ next > Len(invocation.argv)
              /\ \/ ~IsValid(flags) /\ Exit("EX_USAGE")
                 \/ /\ IsValid(flags) /\ filename # << >> /\ ~invocation.opens
                    /\ Exit("EX_NOINPUT")
                 \/ /\ IsValid(flags) /\ (filename = << >> \/ invocation.opens)
                    /\ phase' = "read" /\ UNCHANGED status
              /\ UNCHANGED <<invocation, arguments, streams, mode, got>>

-----------------------------------------------------------------------------
(* read_istream                                                            *)

stream == IF filename = << >> THEN stdin ELSE file

Leaves(rest) == IF filename = << >> THEN stdin' = rest /\ UNCHANGED file
                                    ELSE file' = rest /\ UNCHANGED stdin

From(bytes, k) == SubSeq(bytes, k, Len(bytes))

\* Mutant: what does not fill the buffer is left out.
TakeFullBuffer == /\ text' = text \o (IF Len(stream) < BufSize THEN << >>
                                      ELSE SubSeq(stream, 1, BufSize))
                  /\ Leaves(From(stream, BufSize + 1))

TakeBuffer == /\ text' = text \o SubSeq(stream, 1, Min({BufSize, Len(stream)}))
              /\ Leaves(From(stream, BufSize + 1))

ReadBuffer == /\ phase = "read" /\ "null_terminated" \notin flags
              /\ TakeBuffer
              /\ phase' = IF Len(stream) < BufSize THEN "execute" ELSE "read"
              /\ UNCHANGED <<invocation, arguments, outcome>>

\* getline: the NUL is taken from the stream and is no part of the text.
ReadToNull == /\ phase = "read" /\ "null_terminated" \in flags
              /\ LET stop == Min({ k \in DOMAIN stream : stream[k] = 0 } \cup {Len(stream) + 1})
                 IN /\ text' = SubSeq(stream, 1, stop - 1)
                    /\ Leaves(From(stream, stop + 1))
              /\ phase' = "execute"
              /\ UNCHANGED <<invocation, arguments, outcome>>

-----------------------------------------------------------------------------
(* program and execute                                                     *)

Characters == ParseUtf8(text, TRUE)

Cells(chars) ==
  FlattenSeq([k \in DOMAIN chars |-> IF chars[k] \in {32, 10} THEN << >> ELSE <<chars[k]>>])

Side(cells) == CHOOSE n \in 0 .. Len(cells) :
                 Len(cells) \in (n * (n - 1)) \div 2 + (IF n = 0 THEN 0 ELSE 1)
                                  .. (n * (n + 1)) \div 2

\* The rest of the triangle is filled with NOPs.
Padded(cells) == [k \in 1 .. (Side(cells) * (Side(cells) + 1)) \div 2 |->
                    IF k \in DOMAIN cells THEN cells[k] ELSE 46]

\* operator<<: the grid as -e prints it.
Expanded(cells) ==
  FlattenSeq([row \in 1 .. Side(cells) |->
    [k \in 1 .. Side(cells) - row |-> 32] \o
    FlattenSeq([col \in 1 .. row |->
      Append(Printed(Padded(cells)[(row * (row - 1)) \div 2 + col]),
             IF col = row THEN 10 ELSE 32)])])

\* No line of an assembly text holds an instruction; the texts here have no
\* comments.  Whether the others can be assembled is left to AssemblyScanner.
Blank == ToSet(text) \subseteq {32, 10, 13, 9}

Chosen == CASE "assembly" \in flags    -> "assembly"
            [] "disassemble" \in flags -> "disassemble"
            [] "expand" \in flags      -> "expand"
            [] "compile" \in flags     -> "compile"
            [] OTHER                   -> "interpret"

Empty == IF "assembly" \in flags THEN Blank ELSE Cells(Characters) = << >>

Execute == /\ phase = "execute"
           /\ \/ Empty /\ Exit("EX_DATAERR") /\ UNCHANGED mode
              \/ ~Empty /\ mode' = Chosen /\ phase' = "run" /\ UNCHANGED status
           /\ UNCHANGED <<invocation, arguments, streams, got>>

-----------------------------------------------------------------------------
(* GTC: a character of what is left of stdin, or a byte with -a.           *)

GetChar == /\ phase = "run" /\ mode \in {"interpret", "assembly"} /\ stdin # << >>
           /\ LET first == IF "assume_ascii" \in flags
                           THEN [char |-> stdin[1], used |-> 1]
                           ELSE Unichar(stdin, OfGetchar)
              IN got' = Append(got, first.char) /\ stdin' = From(stdin, first.used + 1)
           /\ UNCHANGED <<invocation, phase, arguments, file, text, mode, status>>

Init == /\ invocation \in Invocations
        /\ phase = "args"
        /\ next = 1 /\ parse_flags = TRUE /\ filename = << >> /\ flags = {}
        /\ stdin = invocation.bytes /\ file = invocation.bytes /\ text = << >>
        /\ mode = "none" /\ got = << >> /\ status = ""

ParseArgs == \/ Ask \/ EndFlags \/ SetFlag \/ Unrecognized \/ Name \/ SecondName
             \/ CheckFlags

Next == ParseArgs \/ ReadBuffer \/ ReadToNull \/ Execute \/ GetChar

Spec == Init /\ [][Next]_vars

-----------------------------------------------------------------------------
(* Properties.                                                             *)

\* The arguments from the first "--" on, and those before it.
argv    == invocation.argv
Divide  == Min({ k \in DOMAIN argv : argv[k] = Dashes } \cup {Len(argv) + 1})
Options == { k \in 1 .. Divide - 1 : IsDashed(argv[k]) }
Names   == DOMAIN argv \ (Options \cup {Divide})

\* An argument that cannot be accepted: no flag of the table, or another name.
InTheTable(arg) ==
  IF arg.kind = "long" THEN \E t \in FLAGS : t.name = arg.name
  ELSE arg.letters # << >> /\ \A k \in DOMAIN arg.letters :
         \E t \in FLAGS : t.letter = arg.letters[k]

Misplaced(k) == \/ k \in Options /\ argv[k] \notin Asks /\ ~InTheTable(argv[k])
                \/ k \in Names /\ \E j \in Names : j < k

\* The help text: which flags go together (input.cpp, FLAGS_HELP).
HelpAllows(f) ==
  LET alone(field) == field \in f => f \subseteq {field, "null_terminated"}
      not(field, others) == field \in f => f \cap others = {}
  IN /\ "show_stack" \in f => "debug" \in f
     /\ not("assume_ascii", {"disassemble", "expand"})
     /\ not("disassemble", {"debug", "warnings", "pipekill"})
     /\ "hide_nops" \in f => "disassemble" \in f
     /\ alone("compile")
     /\ not("assembly", {"disassemble", "compile"})
     /\ alone("expand")

\* --ascii with --compile is all that the help text forbids of these: README.md
\* ("C compiler") says what the two are for together.
Disputed(f) == {"assume_ascii", "compile"} \subseteq f /\ HelpAllows(f \ {"assume_ascii"})

\* The arguments that call for help or for the version, and the flags of the others.
Asking == { k \in Options : argv[k] \in Asks }
Given  == UNION { SetBy(argv[k]) : k \in Options \ Asking }

\* There is an argument that cannot be accepted, and no call for help before it.
Unacceptable == \E k \in 1 .. Min(Asking \cup {Len(argv) + 1}) - 1 : Misplaced(k)

\* A command line is refused if an argument that comes before a call for help
\* cannot be accepted, or if there is no such call and the help text forbids the
\* flags together, and for no other reason.  Of --ascii with --compile, on which
\* the two documents differ, nothing is said: it may be refused or accepted.
RefusedByTheHelp ==
  phase # "args" =>
    LET forbidden == Asking = {} /\ ~HelpAllows(Given)
    IN /\ status = "EX_USAGE" => Unacceptable \/ forbidden
       /\ Unacceptable \/ (forbidden /\ ~Disputed(Given)) => status = "EX_USAGE"

\* What has become of the chosen mode reads each flag that was given: no flag is
\* accepted and then ignored.
ReadBy(m) ==
  CASE m \in {"interpret", "assembly"} ->
         {"debug", "show_stack", "warnings", "pipekill", "assume_ascii"}
    [] m = "disassemble" -> {"hide_nops"}
    [] m = "compile"     -> {"assume_ascii"}
    [] OTHER             -> {}

NoFlagIgnored == phase = "run" => flags \ {"null_terminated", mode} \subseteq ReadBy(mode)

\* Nothing between the characters that were written is lost: those of the
\* source, with -z a NUL, those that the program has got, and those it has yet
\* to read.  What a shebang takes away is one line.
Source == IF "assembly" \in flags THEN Unichars(text, OfChar) ELSE Characters

IsLine(chars) == \/ chars = << >>
                 \/ /\ IsPrefix(<<35, 33>>, chars)
                    /\ \A k \in 1 .. Len(chars) - 1 : chars[k] # 10

ReadsItsShare ==
  phase = "run" /\ invocation.spoilt = 0 /\ "assume_ascii" \notin flags =>
    LET typed    == invocation.typed
        divided  == "null_terminated" \in flags /\ 0 \in ToSet(typed)
        input    == got \o Unichars(stdin, OfGetchar)
        complete == Source \o (IF divided THEN <<0>> ELSE << >>)
                           \o (IF filename = << >> THEN input
                               ELSE IF divided THEN Unichars(file, OfGetchar) ELSE << >>)
        missing  == Len(typed) - Len(complete)
    IN /\ missing >= 0 /\ IsLine(SubSeq(typed, 1, missing))
       /\ complete = From(typed, missing + 1)
       /\ filename # << >> => input = typed

\* Bytes lost, replaced or put in cost no character but the one they belong to and
\* the next (tests/unit/utf8.hh: Characters after invalid byte should be left
\* as-is), unless they make or break a shebang or a NUL at which the source ends.
Framed == /\ ~IsPrefix(<<35, 33>>, text)
          /\ "null_terminated" \in flags => 0 \notin ToSet(invocation.bytes)

DamageIsLocal ==
  phase = "run" /\ invocation.spoilt # 0 /\ Framed =>
    LET typed == invocation.typed
        k     == invocation.spoilt
    IN /\ IsPrefix(SubSeq(typed, 1, k - 1), Source)
       /\ IsSuffix(From(typed, k + 2), Source)

\* What -e prints is a text of the same grid: read again, it is that grid.
ExpandReadsBack ==
  phase = "run" /\ mode = "expand" =>
    LET cells == Cells(Characters)
    IN Cells(ParseUtf8(Expanded(cells), TRUE)) = Padded(cells)

\* Every character of a source is one of Unicode or the replacement character
\* (tests/unit/utf8.hh: Ill-formed UTF-8 should produce U+FFFD).
IllFormedIsReplaced ==
  phase = "run" => \A k \in DOMAIN Source : Source[k] # EOF
=============================================================================
