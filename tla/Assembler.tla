----------------------------- MODULE Assembler -----------------------------
(***************************************************************************)
(* get_instructions of the assembly_scanner, line by line, on the text as  *)
(* it is written, and then one thread of the program that it makes.        *)
(*                                                                         *)
(* A line is written in parts, each a sequence of characters; the three    *)
(* letters of an instruction, a number, and whatever needs no distinction  *)
(* stand for one character, and " " for all that is white.                 *)
(***************************************************************************)
EXTENDS AssemblyScanner

CONSTANT Texts  \* the sequences of written lines to assemble

VARIABLES
  source,  \* the text
  phase,   \* "lines", "labels", "run", "exit", or "undefined"
  next,    \* the line that the first pass has reached
  pass,    \* what it has collected
  list,    \* m_instructions with their targets
  ip       \* the IP of the thread

vars == <<source, phase, next, pass, list, ip>>

\* What a line is written in: a label, the blanks and colons behind it, the name of
\* an instruction, its argument, and a comment with the blanks before it.
Written(label, gap, name, argument, comment) ==
  [label |-> label, gap |-> gap, name |-> name, argument |-> argument,
   comment |-> comment]

After(blank, part) == IF part = << >> THEN << >> ELSE blank \o part

Statement(w) == w.label \o w.gap \o w.name \o After(<<" ">>, w.argument)

Characters(w) == Statement(w) \o w.comment

Strings == Seq(STRING)

ASSUME TextsAssumption ==
  Texts \subseteq Seq([label : Strings, gap : Strings, name : Strings,
                      argument : Strings, comment : Strings])

Blanks     == {" "}
Separators == {" ", ":"}

\* Where one part ends and the next begins: no line is excluded, and each is divided
\* in one way only.  The label ends before the first blank or colon, the name before
\* the next blank, the argument before the comment; and the comment begins with the
\* first semicolon that does not stand right behind a quotation mark.
IsLabel(label) == \A k \in 1 .. Len(label) : label[k] \notin Separators

IsGap(gap, name) ==
  /\ \A k \in 1 .. Len(gap) : gap[k] \in Separators
  /\ name # << >> => gap # << >>
  /\ name = << >> /\ gap # << >> => Last(gap) # " "

IsName(name) ==
  /\ \A k \in 1 .. Len(name) : name[k] # " "
  /\ name # << >> => name[1] # ":"

IsArgument(argument, name) ==
  argument # << >> => name # << >> /\ argument[1] # " " /\ Last(argument) # " "

IsUncommented(statement) ==
  \A k \in 1 .. Len(statement) : statement[k] = ";" => k > 1 /\ statement[k - 1] = "'"

IsComment(comment, statement) ==
  \E blanks \in 0 .. Len(comment) :
    /\ \A k \in 1 .. blanks : comment[k] = " "
    /\ blanks = Len(comment) \/ comment[blanks + 1] = ";"
    /\ blanks = 0 /\ comment # << >> /\ statement # << >> => Last(statement) # "'"

WellWritten(w) ==
  /\ IsLabel(w.label) /\ IsGap(w.gap, w.name) /\ IsName(w.name)
  /\ IsArgument(w.argument, w.name)
  /\ IsUncommented(Statement(w)) /\ IsComment(w.comment, Statement(w))

ASSUME WritingAssumption == \A text \in Texts : \A k \in 1 .. Len(text) : WellWritten(text[k])

-----------------------------------------------------------------------------
(* A line of the text.                                                     *)

\* find_first_of and find_first_not_of; the end of the line if there is none.
FirstOf(line, set, from) ==
  Min({ k \in from .. Len(line) : line[k] \in set } \cup {Len(line) + 1})
FirstNotOf(line, set, from) ==
  Min({ k \in from .. Len(line) : line[k] \notin set } \cup {Len(line) + 1})

\* Up to the semicolon that has no quotation mark before it.
Uncommented(line) ==
  SubSeq(line, 1, Min({ k \in DOMAIN line : line[k] = ";" /\ (k = 1 \/ line[k - 1] # "'") }
                        \cup {Len(line) + 1}) - 1)

Code(line) ==
  LET code == Uncommented(line)
  IN SubSeq(code, 1, Max({ k \in DOMAIN code : code[k] \notin Blanks } \cup {0}))

\* What begins in the first column is a label, up to a blank or a colon.
LabelEnd(code) ==
  IF FirstNotOf(code, Separators, 1) = 1 THEN FirstOf(code, Separators, 1) ELSE 1

\* Mutant: the colon behind a label is not passed over.
BodyWithColon(code) ==
  FirstNotOf(code, Blanks, LabelEnd(code))

Body(code) ==
  FirstNotOf(code, Separators, IF LabelEnd(code) = 1 THEN 1 ELSE LabelEnd(code) + 1)

\* What follows the label is a word of three letters, alone or with a blank after
\* it, or else no instruction.
Parts(code) ==
  LET body  == Body(code)
      rest  == SubSeq(code, body + 1, Len(code))
      named == body \in DOMAIN code
               /\ code[body] \in InstructionNames /\ (rest # << >> => rest[1] \in Blanks)
  IN Line(SubSeq(code, 1, LabelEnd(code) - 1),
          IF named THEN code[body] ELSE IF body \in DOMAIN code THEN "?" ELSE "",
          IF named THEN SubSeq(rest, FirstNotOf(rest, Blanks, 1), Len(rest)) ELSE << >>)

-----------------------------------------------------------------------------
(* The actions.                                                            *)

code == Code(Characters(source[next]))

Reading == phase = "lines" /\ next <= Len(source)

SkipLine == /\ Reading /\ code = << >>
            /\ next' = next + 1
            /\ UNCHANGED <<source, phase, pass, list, ip>>

\* An assertion fails; without assertions a position outside the line is used.
NothingButColons == /\ Reading /\ code # << >> /\ FirstNotOf(code, Separators, 1) > Len(code)
                    /\ phase' = "undefined"
                    /\ UNCHANGED <<source, next, pass, list, ip>>

ReadLine == /\ Reading /\ FirstNotOf(code, Separators, 1) \in DOMAIN code
            /\ pass' = TakeLine(pass, Parts(code))
            /\ next' = next + 1
            /\ phase' = IF pass'.error # "" THEN "exit" ELSE phase
            /\ UNCHANGED <<source, list, ip>>

Refuse(message) == /\ phase' = "exit" /\ pass' = [pass EXCEPT !.error = message]
                   /\ UNCHANGED list

CheckEnd == /\ phase = "lines" /\ next > Len(source)
            /\ \/ EndsWell(pass.instructions) /\ phase' = "labels" /\ UNCHANGED <<pass, list>>
               \/ ~EndsWell(pass.instructions) /\ Refuse("does not end in an exit instruction or loop")
            /\ UNCHANGED <<source, next, ip>>

\* The second pass; and execute, which refuses an empty program.
Resolve == /\ phase = "labels"
           /\ \/ Undeclared(pass) /\ Refuse("undeclared label")
              \/ pass.instructions = << >> /\ Refuse("empty program")
              \/ /\ ~Undeclared(pass) /\ pass.instructions # << >>
                 /\ list' = Resolved(pass)
                 /\ phase' = "run" /\ UNCHANGED pass
           /\ UNCHANGED <<source, next, ip>>

\* A thread of the program, and of two that a spawn makes either.
Advance == /\ phase = "run" /\ ip \in AssemblyIPs(list)
           /\ AssemblyAt(list, ip) \notin {"EXT", "TKL"}
           /\ \E goLeft \in BOOLEAN : ip' = AssemblyAdvance(list, ip, goLeft)
           /\ UNCHANGED <<source, phase, next, pass, list>>

Init == /\ source \in Texts
        /\ phase = "lines" /\ next = 1 /\ pass = Nothing
        /\ list = << >> /\ ip = 0

Next == SkipLine \/ NothingButColons \/ ReadLine \/ CheckEnd \/ Resolve \/ Advance

Spec == Init /\ [][Next]_vars

-----------------------------------------------------------------------------
(* Properties.                                                             *)

\* Labels and targets are positions in the list or the one behind it.
TypeOK ==
  /\ phase \in {"lines", "labels", "run", "exit", "undefined"}
  /\ next \in 1 .. Len(source) + 1
  /\ \A l \in DOMAIN pass.labels : pass.labels[l] \in 0 .. Len(pass.instructions)
  /\ \A k \in DOMAIN list : /\ list[k].op \in InstructionNames
                            /\ list[k].target \in 0 .. Len(list)
  /\ ip \in 0 .. Len(list)

\* The lines that hold an instruction.
Worded(lines) ==
  FlattenSeq([k \in DOMAIN lines |-> IF lines[k].name = << >> THEN << >> ELSE <<lines[k]>>])

LabelsOf(lines) == { lines[k].label : k \in DOMAIN lines } \ {<< >>}

\* The first pass reads what is written (README.md, "Assembly syntax"): the
\* instructions in their order, whatever stands around them, and for every
\* label the number of instructions above it, be it used before or after its line.
ReadAsWritten ==
  pass.error = "" =>
    LET read == SubSeq(source, 1, next - 1)
    IN /\ Len(pass.instructions) = Len(Worded(read))
       /\ \A k \in DOMAIN pass.instructions :
            LET w == Worded(read)[k]
            IN /\ <<pass.instructions[k].op>> = w.name
               /\ pass.instructions[k].op \in Targeted \cup Pushing =>
                    pass.instructions[k].target = w.argument
       /\ DOMAIN pass.labels = LabelsOf(read)
       /\ \A k \in DOMAIN read : read[k].label # << >> =>
            pass.labels[read[k].label] = Len(Worded(SubSeq(read, 1, k - 1)))

\* What makes a text no program: a label on two lines, an instruction that is
\* none or lacks what it needs, no instruction at all, an end at which the IP
\* would run out of the list, or a jump to a label on no line.
Admissible(w) ==
  /\ Len(w.name) = 1 /\ w.name[1] \in InstructionNames
  /\ w.name[1] \in Targeted => w.argument # << >>
  /\ w.name[1] \in Pushing => w.argument \in Literals

NoProgram(lines) ==
  \/ \E j, k \in DOMAIN lines : j < k /\ lines[j].label # << >> /\ lines[j].label = lines[k].label
  \/ \E k \in DOMAIN Worded(lines) : ~Admissible(Worded(lines)[k])
  \/ Worded(lines) = << >>
  \/ Last(Worded(lines)).name[1] \notin {"EXT", "TKL", "JMP"}
  \/ \E k \in DOMAIN Worded(lines) : /\ Worded(lines)[k].name[1] \in Targeted
                                     /\ Worded(lines)[k].argument \notin LabelsOf(lines)

\* A text is refused exactly if it is no program, whatever the comments hold and
\* wherever the labels stand.  A semicolon right behind a quotation mark is part of
\* the statement (assembly_scanner.cpp takes it for quoted), so PSC 'c';text is no
\* program, although "Unquoted semicolons are comments.  Remove them."
RefusedForCause == phase \in {"run", "exit"} => (phase = "exit" <=> NoProgram(source))

\* The end check looks at the last instruction only, and labels need not stand
\* before one: the IP leaves the list, but only to the place right behind it, and
\* only by a label to which some instruction leads on purpose.
LostOnlyByALabel ==
  phase = "run" /\ ip \notin AssemblyIPs(list) =>
    /\ ip = Len(list)
    /\ \E k \in DOMAIN list : list[k].op \in Targeted /\ list[k].target = Len(list)
=============================================================================
