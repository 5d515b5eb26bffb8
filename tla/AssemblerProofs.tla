-------------------------- MODULE AssemblerProofs --------------------------
(***************************************************************************)
(* For every text: the assembler takes from it exactly what is written and *)
(* refuses it exactly if it is no program; and a thread of the assembled   *)
(* program stays in the list, but for labels behind the last instruction.  *)
(***************************************************************************)
EXTENDS Assembler, GridProofs

-----------------------------------------------------------------------------
(* The inductive invariant.                                                *)

\* What the first pass has collected: instructions with known names, and labels
\* that name one of them or the place behind the last.
Collected(p) ==
  /\ p = [instructions |-> p.instructions, labels |-> p.labels, error |-> p.error]
  /\ \E S : p.instructions \in Seq(S)
  /\ \A k \in DOMAIN p.instructions :
       /\ p.instructions[k].op \in InstructionNames
  /\ \A l \in DOMAIN p.labels : p.labels[l] \in 0 .. Len(p.instructions)

Instruction(n) == [op : InstructionNames, target : 0 .. n]

\* A list that a thread can run through.
Runs == /\ list \in Seq(Instruction(Len(list)))
        /\ list # << >>
        /\ Last(list).op \in {"EXT", "TKL", "JMP"}

IInv ==
  /\ TypeOK
  /\ Collected(pass)
  /\ phase # "run" => list = << >> /\ ip = 0
  /\ phase = "labels" => EndsWell(pass.instructions)
  /\ phase = "run" => Runs
  /\ LostOnlyByALabel

-----------------------------------------------------------------------------
(* The first pass.                                                         *)

\* At the beginning nothing is collected.
LEMMA NothingIsCollected == Collected(Nothing)
<1>1. \E S : << >> \in Seq(S)
  BY EmptySeq
<1>2. DOMAIN << >> = {}
  OBVIOUS
<1> QED  BY <1>1, <1>2 DEF Collected, Nothing

\* A label names the next instruction.
LEMMA LabelIsCollected ==
  ASSUME NEW p, Collected(p), NEW label
  PROVE  Collected(TakeLabel(p, label))
<1>1. PICK S : p.instructions \in Seq(S)
  BY DEF Collected
<1>2. Len(p.instructions) \in Nat
  BY <1>1
<1>3. CASE label = << >> \/ label \in DOMAIN p.labels
  BY <1>1, <1>3 DEF Collected, TakeLabel
<1>4. CASE label # << >> /\ label \notin DOMAIN p.labels
  <2> DEFINE labels == [l \in DOMAIN p.labels \cup {label} |->
                          IF l = label THEN Len(p.instructions) ELSE p.labels[l]]
  <2>1. TakeLabel(p, label) = [p EXCEPT !.labels = labels]
    BY <1>4 DEF TakeLabel
  <2>2. \A l \in DOMAIN labels : labels[l] \in 0 .. Len(p.instructions)
    BY <1>2 DEF Collected
  <2> HIDE DEF labels
  <2> QED  BY <1>1, <2>1, <2>2 DEF Collected
<1> QED  BY <1>3, <1>4

\* What appending does to a sequence over any set.
LEMMA OneMore ==
  ASSUME NEW S, NEW s \in Seq(S), NEW e
  PROVE  /\ Append(s, e) \in Seq(S \cup {e})
         /\ Len(s) \in Nat /\ Len(Append(s, e)) = Len(s) + 1
         /\ \A k \in DOMAIN Append(s, e) :
              \/ k \in DOMAIN s /\ Append(s, e)[k] = s[k]
              \/ Append(s, e)[k] = e
<1> DEFINE T == S \cup {e}
<1>1. s \in Seq(T) /\ e \in T
  BY SeqMonotonic
<1> HIDE DEF T
<1>2. /\ Append(s, e) \in Seq(T) /\ Len(Append(s, e)) = Len(s) + 1
      /\ \A k \in 1 .. Len(s) : Append(s, e)[k] = s[k]
      /\ Append(s, e)[Len(s) + 1] = e
  BY <1>1, AppendProperties
<1>3. /\ Len(s) \in Nat /\ DOMAIN s = 1 .. Len(s)
      /\ DOMAIN Append(s, e) = 1 .. Len(s) + 1
  BY <1>1, <1>2, LenProperties
<1>4. \A k \in 1 .. Len(s) + 1 : k \in 1 .. Len(s) \/ k = Len(s) + 1
  BY <1>3
<1> QED  BY <1>2, <1>3, <1>4 DEF T

\* Only instructions with a known name are added, and labels stay in range.
LEMMA InstructionIsCollected ==
  ASSUME NEW p, Collected(p), NEW name, NEW target
  PROVE  Collected(TakeInstruction(p, name, target))
<1>1. PICK S : p.instructions \in Seq(S)
  BY DEF Collected
<1> DEFINE e == [op |-> name, target |-> IF name \in Targeted \cup Pushing THEN target ELSE << >>]
           more == Append(p.instructions, e)
<1>2. CASE TakeInstruction(p, name, target) = [p EXCEPT !.instructions = more]
           /\ name \in InstructionNames
  <2>1. e.op = name
    OBVIOUS
  <2> HIDE DEF e
  <2>2. /\ more \in Seq(S \cup {e})
        /\ Len(p.instructions) \in Nat /\ Len(more) = Len(p.instructions) + 1
        /\ \A k \in DOMAIN more :
             \/ k \in DOMAIN p.instructions /\ more[k] = p.instructions[k]
             \/ more[k] = e
    BY <1>1, OneMore
  <2> HIDE DEF more
  <2>3. \A k \in DOMAIN more : more[k].op \in InstructionNames
    BY <1>2, <2>1, <2>2 DEF Collected
  <2>4. \A l \in DOMAIN p.labels : p.labels[l] \in 0 .. Len(more)
    BY <2>2 DEF Collected
  <2>5. \E T : more \in Seq(T)
    BY <2>2
  <2> QED  BY <1>2, <2>3, <2>4, <2>5 DEF Collected
<1>3. CASE \E message : TakeInstruction(p, name, target) = [p EXCEPT !.error = message]
  BY <1>1, <1>3 DEF Collected
<1>4. CASE TakeInstruction(p, name, target) = p
  BY <1>4
<1> QED  BY <1>2, <1>3, <1>4 DEF TakeInstruction

\* A line adds at most a label and an instruction.
LEMMA LineIsCollected ==
  ASSUME NEW p, Collected(p), NEW line
  PROVE  Collected(TakeLine(p, line))
<1> DEFINE labelled == TakeLabel(p, line.label)
<1>1. Collected(labelled)
  BY LabelIsCollected
<1> HIDE DEF labelled
<1>2. Collected(TakeInstruction(labelled, line.name, line.target))
  BY <1>1, InstructionIsCollected
<1> QED  BY <1>1, <1>2 DEF TakeLine, labelled

-----------------------------------------------------------------------------
(* The second pass, and the thread.                                        *)

\* The second pass changes no operation, and every target is in the list or
\* behind it.
LEMMA ResolvedRuns ==
  ASSUME NEW p, Collected(p), ~Undeclared(p), EndsWell(p.instructions),
         p.instructions # << >>
  PROVE  LET r == Resolved(p)
         IN /\ r \in Seq(Instruction(Len(r))) /\ r # << >>
            /\ DOMAIN r = 1 .. Len(r)
            /\ Last(r).op \in {"EXT", "TKL", "JMP"}
<1> DEFINE r == Resolved(p)
           n == Len(p.instructions)
<1>1. /\ n \in Nat \ {0} /\ DOMAIN p.instructions = 1 .. n
  <2>1. PICK S : p.instructions \in Seq(S)
    BY DEF Collected
  <2> QED  BY <2>1, LenProperties, EmptySeq
<1> HIDE DEF n
<1>2. DOMAIN r = 1 .. n /\ \A k \in 1 .. n : r[k].op = p.instructions[k].op
  BY <1>1 DEF Resolved
<1>3. \A k \in 1 .. n : r[k] \in Instruction(n)
  <2> SUFFICES ASSUME NEW k \in 1 .. n PROVE r[k] \in Instruction(n)
    OBVIOUS
  <2> DEFINE i == p.instructions[k]
             t == IF i.op \in Targeted THEN p.labels[i.target] ELSE 0
  <2>1. r[k] = [op |-> i.op, target |-> t]
    BY <1>1 DEF Resolved
  <2>2. i.op \in InstructionNames
    BY <1>1 DEF Collected
  <2>3. i.op \in Targeted => i.target \in DOMAIN p.labels
    BY <1>1 DEF Undeclared
  <2>4. t \in 0 .. n
    BY <1>1, <2>3 DEF Collected, n
  <2> QED  BY <2>1, <2>2, <2>4 DEF Instruction
<1>4. r \in [1 .. n -> Instruction(n)]
  BY <1>1, <1>3 DEF Resolved
<1> HIDE DEF r
<1>5. r \in Seq(Instruction(n)) /\ Len(r) = n /\ r # << >>
  <2>1. r \in Seq(Instruction(n))
    BY <1>1, <1>4, SeqDef
  <2>2. Len(r) \in Nat /\ 1 .. Len(r) = 1 .. n
    BY <1>2, <2>1, LenProperties
  <2>3. Len(r) = n
    BY <1>1, <2>2
  <2> QED  BY <1>1, <2>1, <2>3, EmptySeq
<1>6. Last(r).op \in {"EXT", "TKL", "JMP"}
  BY <1>1, <1>2, <1>5 DEF EndsWell, Last, n
<1> QED  BY <1>2, <1>5, <1>6 DEF r

\* One step of a thread leads into the list or behind it, and behind it only
\* through a label: the last instruction does not let it fall through.
LEMMA ThreadStays ==
  ASSUME Runs, ip \in AssemblyIPs(list), AssemblyAt(list, ip) \notin {"EXT", "TKL"},
         NEW goLeft \in BOOLEAN
  PROVE  LET to == AssemblyAdvance(list, ip, goLeft)
         IN /\ to \in 0 .. Len(list)
            /\ to = Len(list) =>
                 \E k \in DOMAIN list : list[k].op \in Targeted /\ list[k].target = Len(list)
<1> DEFINE n == Len(list)
           i == list[ip + 1]
           to == AssemblyAdvance(list, ip, goLeft)
<1>1. n \in Nat \ {0} /\ DOMAIN list = 1 .. n
  BY LenProperties, EmptySeq DEF Runs
<1>2. ip \in 0 .. n - 1 /\ ip + 1 \in DOMAIN list
  BY <1>1 DEF AssemblyIPs
<1>3. i \in Instruction(n)
  BY <1>1, <1>2, ElementOfSeq DEF Runs
<1>4. CASE i.op \in Targeted /\ to = i.target
  BY <1>2, <1>3, <1>4 DEF Instruction
<1>5. CASE i.op # "JMP" /\ to = ip + 1
  <2>1. i.op \notin {"EXT", "TKL", "JMP"}
    BY <1>5 DEF AssemblyAt, InstructionAt
  <2>2. ip + 1 # n
    BY <2>1 DEF Runs, Last
  <2>3. to = ip + 1 /\ n \in Nat /\ ip \in 0 .. n - 1
    BY <1>1, <1>2, <1>5
  <2> HIDE DEF to, n
  <2>4. to \in 0 .. n /\ to # n
    BY <2>2, <2>3 DEF n
  <2> QED  BY <2>4 DEF to, n
<1> QED  BY <1>4, <1>5 DEF AssemblyAdvance, InstructionAt, Targeted

-----------------------------------------------------------------------------
(* The thread, throughout.                                                 *)

\* The invariant holds at the start.
LEMMA InitInv == Init => IInv
<1> SUFFICES ASSUME Init PROVE IInv
  OBVIOUS
<1>1. Collected(pass)
  BY NothingIsCollected DEF Init
<1>2. Len(source) \in Nat
  BY TextsAssumption, LenProperties DEF Init
<1>3. Len(list) = 0 /\ DOMAIN list = {}
  BY DEF Init
<1>4. TypeOK
  BY <1>1, <1>2, <1>3 DEF Init, TypeOK, Collected
<1> QED  BY <1>1, <1>4 DEF Init, IInv, LostOnlyByALabel

\* Every action keeps the invariant.
LEMMA InvKept == source \in Texts /\ IInv /\ [Next]_vars => IInv'
<1> SUFFICES ASSUME source \in Texts, IInv, [Next]_vars PROVE IInv'
  OBVIOUS
<1>1. Len(source) \in Nat
  BY TextsAssumption, LenProperties
<1> USE DEF IInv
<1>2. CASE UNCHANGED vars
  BY <1>2 DEF vars, TypeOK, LostOnlyByALabel, Runs
<1>3. CASE SkipLine
  BY <1>1, <1>3 DEF SkipLine, Reading, TypeOK, LostOnlyByALabel
<1>4. CASE NothingButColons
  BY <1>4 DEF NothingButColons, Reading, TypeOK, LostOnlyByALabel
<1>5. CASE ReadLine
  <2>1. Collected(pass')
    BY <1>5, LineIsCollected DEF ReadLine
  <2>2. phase' \in {"lines", "exit"} /\ list' = << >> /\ ip' = 0 /\ list' = list
    BY <1>5 DEF ReadLine, Reading
  <2>3. /\ source' = source /\ next' = next + 1 /\ next <= Len(source)
        /\ next \in 1 .. Len(source) + 1
    BY <1>5 DEF ReadLine, Reading, TypeOK
  <2>4. TypeOK'
    BY <1>1, <2>1, <2>2, <2>3 DEF TypeOK, Collected
  <2> QED  BY <2>1, <2>2, <2>4 DEF LostOnlyByALabel
<1>6. ASSUME NEW message, Refuse(message), phase # "run", UNCHANGED <<source, next, ip>>
      PROVE  IInv'
  <2>1. Collected(pass') /\ pass'.labels = pass.labels /\ pass'.instructions = pass.instructions
    BY <1>6 DEF Refuse, Collected
  <2> QED  BY <1>6, <2>1 DEF Refuse, TypeOK, LostOnlyByALabel
<1>7. CASE CheckEnd
  <2>1. CASE EndsWell(pass.instructions) /\ phase' = "labels" /\ UNCHANGED <<pass, list>>
    BY <1>7, <2>1 DEF CheckEnd, TypeOK, LostOnlyByALabel
  <2> QED  BY <1>6, <1>7, <2>1 DEF CheckEnd
<1>8. CASE Resolve
  <2>1. CASE /\ ~Undeclared(pass) /\ pass.instructions # << >>
             /\ list' = Resolved(pass)
             /\ phase' = "run" /\ UNCHANGED pass
    <3>1. /\ list' \in Seq(Instruction(Len(list'))) /\ list' # << >>
          /\ DOMAIN list' = 1 .. Len(list')
          /\ Last(list').op \in {"EXT", "TKL", "JMP"}
      BY <1>8, <2>1, ResolvedRuns DEF Resolve
    <3>2. Runs'
      BY <3>1 DEF Runs
    <3>3. Len(list') \in Nat \ {0}
      BY <3>1, EmptySeq
    <3>4. ip' = 0
      BY <1>8 DEF Resolve
    <3>5. \A k \in DOMAIN list' : list'[k] \in Instruction(Len(list'))
      BY <3>1, ElementOfSeq
    <3>6. \A k \in DOMAIN list' : /\ list'[k].op \in InstructionNames
                                  /\ list'[k].target \in 0 .. Len(list')
      BY <3>5 DEF Instruction
    <3>7. TypeOK'
      <4>1. phase' = "run" /\ next' = next /\ source' = source /\ pass' = pass
        BY <1>8, <2>1 DEF Resolve
      <4>2. ip' \in 0 .. Len(list')
        BY <3>3, <3>4
      <4> QED  BY <3>6, <4>1, <4>2 DEF TypeOK
    <3>8. ip' \in AssemblyIPs(list')
      BY <3>3, <3>4 DEF AssemblyIPs
    <3> QED  BY <1>8, <2>1, <3>2, <3>7, <3>8 DEF Resolve, LostOnlyByALabel
  <2> QED  BY <1>6, <1>8, <2>1 DEF Resolve
<1>9. CASE Advance
  <2>1. PICK goLeft \in BOOLEAN : ip' = AssemblyAdvance(list, ip, goLeft)
    BY <1>9 DEF Advance
  <2>2. /\ ip' \in 0 .. Len(list)
        /\ ip' = Len(list) =>
             \E k \in DOMAIN list : list[k].op \in Targeted /\ list[k].target = Len(list)
    BY <1>9, <2>1, ThreadStays DEF Advance
  <2>3. Len(list) \in Nat
    BY <1>9, LenProperties DEF Advance, Runs
  <2>4. ip' \notin AssemblyIPs(list) => ip' = Len(list)
    BY <2>2, <2>3 DEF AssemblyIPs
  <2> QED  BY <1>9, <2>2, <2>4 DEF Advance, TypeOK, LostOnlyByALabel, Runs
<1> QED  BY <1>2, <1>3, <1>4, <1>5, <1>7, <1>8, <1>9 DEF Next

\* The text does not change.
LEMMA SourceStays == Spec => [](source \in Texts)
<1>1. Init => source \in Texts
  BY DEF Init
<1>2. source \in Texts /\ [Next]_vars => (source \in Texts)'
  BY DEF Next, vars, SkipLine, NothingButColons, ReadLine, CheckEnd, Resolve, Advance
<1> QED  BY <1>1, <1>2, PTL DEF Spec

\* It holds throughout.
LEMMA InvHolds == Spec => []IInv
<1> QED  BY InitInv, InvKept, SourceStays, PTL DEF Spec

\* Labels and targets never point beyond the place behind the last instruction,
\* for every text.
THEOREM AssemblerTypeCorrect == Spec => []TypeOK
<1>1. IInv => TypeOK
  BY DEF IInv
<1> QED  BY <1>1, InvHolds, PTL

\* Whatever the text and whichever way the branches go, the IP leaves the list
\* only to the place behind it and only if an instruction targets that place: the
\* check of the last instruction is enough against everything else.
THEOREM LostOnlyThere == Spec => []LostOnlyByALabel
<1>1. IInv => LostOnlyByALabel
  BY DEF IInv
<1> QED  BY <1>1, InvHolds, PTL

-----------------------------------------------------------------------------
(* Searches.                                                               *)

\* The greatest of a set of numbers.
LEMMA MaxIs ==
  ASSUME NEW S, NEW p \in S, S \subseteq Int, \A m \in S : m <= p
  PROVE  Max(S) = p
<1>1. \A y \in S : p >= y
  OBVIOUS
<1>2. Max(S) \in S /\ \A y \in S : Max(S) >= y
  BY <1>1 DEF Max
<1>3. PICK m : m = Max(S)
  OBVIOUS
<1>4. m \in Int /\ p \in Int /\ m >= p /\ m <= p
  BY <1>2, <1>3
<1> QED  BY <1>3, <1>4

\* The searches for a separator, and for what is none, from a place on.
LEMMA FirstOfIs ==
  ASSUME NEW line, NEW n \in Nat, n = Len(line), NEW set, NEW from \in Nat \ {0},
         NEW p \in 1 .. n + 1, \A k \in from .. p - 1 : line[k] \notin set,
         p # n + 1 => from <= p /\ line[p] \in set
  PROVE  FirstOf(line, set, from) = p
<1> DEFINE S == { k \in from .. Len(line) : line[k] \in set } \cup {Len(line) + 1}
<1>1. p \in S /\ S \subseteq Int
  OBVIOUS
<1>2. ASSUME NEW m \in S PROVE p <= m
  <2>1. m \in Nat /\ (m = n + 1 \/ (m \in from .. n /\ line[m] \in set))
    BY <1>2
  <2>2. m < p => m \in from .. p - 1 /\ m # n + 1
    BY <2>1
  <2> QED  BY <1>2, <2>1, <2>2
<1> HIDE DEF S
<1>3. Min(S) = p
  BY <1>1, <1>2, MinIs
<1> QED  BY <1>3 DEF FirstOf, S

LEMMA FirstNotOfIs ==
  ASSUME NEW line, NEW n \in Nat, n = Len(line), NEW set, NEW from \in Nat \ {0},
         NEW p \in 1 .. n + 1, \A k \in from .. p - 1 : line[k] \in set,
         p # n + 1 => from <= p /\ line[p] \notin set
  PROVE  FirstNotOf(line, set, from) = p
<1> DEFINE S == { k \in from .. Len(line) : line[k] \notin set } \cup {Len(line) + 1}
<1>1. p \in S /\ S \subseteq Int
  OBVIOUS
<1>2. ASSUME NEW m \in S PROVE p <= m
  <2>1. m \in Nat /\ (m = n + 1 \/ (m \in from .. n /\ line[m] \notin set))
    BY <1>2
  <2>2. m < p => m \in from .. p - 1 /\ m # n + 1
    BY <2>1
  <2> QED  BY <1>2, <2>1, <2>2
<1> HIDE DEF S
<1>3. Min(S) = p
  BY <1>1, <1>2, MinIs
<1> QED  BY <1>3 DEF FirstNotOf, S

-----------------------------------------------------------------------------
(* How a line is written.                                                  *)

Marks == STRING \cup {" "}

Parted == [label : Strings, gap : Strings, name : Strings,
           argument : Strings, comment : Strings]

\* Behind which place the name of a line begins, its argument with the blank before it,
\* and its comment, if there are any.
NameAt(w)     == Len(w.label) + Len(w.gap)
ArgumentAt(w) == NameAt(w) + Len(w.name)
CommentAt(w)  == ArgumentAt(w) + (IF w.argument = << >> THEN 0 ELSE 1 + Len(w.argument))

\* What stands there.
Laid(w, line) ==
  /\ line \in Seq(Marks) /\ Len(line) = CommentAt(w)
  /\ \A k \in 1 .. Len(w.label) : line[k] = w.label[k]
  /\ \A k \in 1 .. Len(w.gap) : line[Len(w.label) + k] = w.gap[k]
  /\ \A k \in 1 .. Len(w.name) : line[NameAt(w) + k] = w.name[k]
  /\ w.argument # << >> => line[ArgumentAt(w) + 1] = " "
  /\ \A k \in 1 .. Len(w.argument) : line[ArgumentAt(w) + 1 + k] = w.argument[k]

LEMMA PartsAre ==
  ASSUME NEW w \in Parted
  PROVE  /\ w.label \in Seq(Marks) /\ w.gap \in Seq(Marks) /\ w.name \in Seq(Marks)
         /\ w.argument \in Seq(Marks) /\ w.comment \in Seq(Marks)
         /\ Len(w.label) \in Nat /\ Len(w.gap) \in Nat /\ Len(w.name) \in Nat
         /\ Len(w.argument) \in Nat /\ Len(w.comment) \in Nat
         /\ (w.label = << >> <=> Len(w.label) = 0) /\ (w.name = << >> <=> Len(w.name) = 0)
         /\ (w.argument = << >> <=> Len(w.argument) = 0) /\ (w.comment = << >> <=> Len(w.comment) = 0)
         /\ (w.gap = << >> <=> Len(w.gap) = 0)
         /\ NameAt(w) \in Nat /\ ArgumentAt(w) \in Nat /\ CommentAt(w) \in Nat
<1>1. \A s \in Strings : s \in Seq(Marks) /\ Len(s) \in Nat /\ (s = << >> <=> Len(s) = 0)
  <2>1. Strings \subseteq Seq(Marks)
    BY SeqMonotonic DEF Strings, Marks
  <2> QED  BY <2>1, LenProperties, EmptySeq DEF Strings
<1>2. /\ w.label \in Strings /\ w.gap \in Strings /\ w.name \in Strings
      /\ w.argument \in Strings /\ w.comment \in Strings
  BY DEF Parted
<1>3. NameAt(w) \in Nat
  <2>1. Len(w.label) \in Nat /\ Len(w.gap) \in Nat
    BY <1>1, <1>2
  <2>2. PICK l \in Nat, o \in Nat : l = Len(w.label) /\ o = Len(w.gap)
    BY <2>1
  <2>3. NameAt(w) = l + o
    BY <2>2, Zenon DEF NameAt
  <2>4. l + o \in Nat
    OBVIOUS
  <2> QED  BY <2>3, <2>4, Zenon
<1>4. ArgumentAt(w) \in Nat
  <2>1. Len(w.name) \in Nat
    BY <1>1, <1>2
  <2>2. PICK l \in Nat, m \in Nat : l = NameAt(w) /\ m = Len(w.name)
    BY <1>3, <2>1
  <2>3. ArgumentAt(w) = l + m
    BY <2>2, Zenon DEF ArgumentAt
  <2> QED  BY <2>3
<1>5. CommentAt(w) \in Nat
  BY <1>1, <1>2, <1>4 DEF CommentAt
<1> QED  BY <1>1, <1>2, <1>3, <1>4, <1>5

\* A part with the blank before it.
Blanked(part, b) ==
  /\ b \in Seq(Marks)
  /\ (part = << >>) => Len(b) = 0
  /\ (part # << >>) => Len(b) = 1 + Len(part) /\ b[1] = " "
  /\ \A k \in 1 .. Len(part) : b[1 + k] = part[k]

LEMMA BlankBefore ==
  ASSUME NEW part \in Seq(Marks)
  PROVE  Blanked(part, After(<<" ">>, part))
<1>1. CASE part = << >>
  <2>1. After(<<" ">>, part) = << >> /\ Len(<< >>) = 0 /\ Len(part) = 0
    BY <1>1, EmptySeq DEF After
  <2>2. << >> \in Seq(Marks) /\ 1 .. 0 = {}
    BY EmptySeq
  <2> QED  BY <1>1, <2>1, <2>2 DEF Blanked
<1>2. CASE part # << >>
  <2>1. PICK blank \in Marks : blank = " "
    BY DEF Marks
  <2>2. PICK b : b = <<blank>>
    OBVIOUS
  <2>3. b \in Seq(Marks) /\ Len(b) = 1 /\ b[1] = blank
    BY <2>2
  <2>4. Abut(Marks, b, part)
    BY <2>3, BothStand
  <2>5. After(<<" ">>, part) = b \o part
    BY <1>2, <2>1, <2>2 DEF After
  <2>6. (b \o part)[1] = b[1]
    <3>1. 1 \in 1 .. Len(b)
      BY <2>3
    <3> QED  BY <2>4, <3>1 DEF Abut
  <2>7. Len(b \o part) = 1 + Len(part) /\ b \o part \in Seq(Marks)
    BY <2>3, <2>4 DEF Abut
  <2>8. \A k \in 1 .. Len(part) : (b \o part)[1 + k] = part[k]
    BY <2>3, <2>4 DEF Abut
  <2>9. Blanked(part, b \o part)
    BY <1>2, <2>1, <2>3, <2>6, <2>7, <2>8 DEF Blanked
  <2> QED  BY <2>5, <2>9
<1> QED  BY <1>1, <1>2

LEMMA StatementIsLaid ==
  ASSUME NEW w \in Parted
  PROVE  Laid(w, Statement(w))
<1> DEFINE c == After(<<" ">>, w.argument)
           x == w.label \o w.gap
           y == x \o w.name
           z == y \o c
<1>1. PICK l \in Nat, o \in Nat, m \in Nat, a \in Nat :
        /\ l = Len(w.label) /\ o = Len(w.gap) /\ m = Len(w.name) /\ a = Len(w.argument)
        /\ w.label \in Seq(Marks) /\ w.gap \in Seq(Marks)
        /\ w.name \in Seq(Marks) /\ w.argument \in Seq(Marks)
  BY PartsAre
<1>2. PICK d \in Nat : d = IF w.argument = << >> THEN 0 ELSE 1 + a
  OBVIOUS
<1>3. /\ c \in Seq(Marks) /\ Len(c) = d /\ (w.argument # << >> => c[1] = " ")
      /\ \A k \in 1 .. a : c[1 + k] = w.argument[k]
  <2>1. Blanked(w.argument, c)
    BY <1>1, BlankBefore
  <2> QED  BY <1>1, <1>2, <2>1 DEF Blanked
<1>4. a # 0 => w.argument # << >>
  BY <1>1, EmptySeq
<1> HIDE DEF c
<1>5. /\ x \in Seq(Marks) /\ Len(x) = l + o
      /\ \A k \in 1 .. l : x[k] = w.label[k]
      /\ \A k \in 1 .. o : x[l + k] = w.gap[k]
  <2>1. Abut(Marks, w.label, w.gap)
    BY <1>1, BothStand
  <2> QED  BY <1>1, <2>1 DEF Abut
<1> HIDE DEF x
<1>6. /\ y \in Seq(Marks) /\ Len(y) = l + o + m
      /\ \A k \in 1 .. l + o : y[k] = x[k]
      /\ \A k \in 1 .. m : y[l + o + k] = w.name[k]
  <2>1. Abut(Marks, x, w.name)
    BY <1>1, <1>5, BothStand
  <2> QED  BY <1>1, <1>5, <2>1 DEF Abut
<1> HIDE DEF y
<1>7. /\ z \in Seq(Marks) /\ Len(z) = l + o + m + d
      /\ \A k \in 1 .. l + o + m : z[k] = y[k]
      /\ \A k \in 1 .. d : z[l + o + m + k] = c[k]
  <2>1. Abut(Marks, y, c)
    BY <1>3, <1>6, BothStand
  <2> QED  BY <1>3, <1>6, <2>1 DEF Abut
<1> HIDE DEF z
<1>8. Statement(w) = z
  BY DEF Statement, c, x, y, z
<1>9. NameAt(w) = l + o /\ ArgumentAt(w) = l + o + m /\ CommentAt(w) = l + o + m + d
  BY <1>1, <1>2 DEF NameAt, ArgumentAt, CommentAt
<1>10. ASSUME NEW k \in 1 .. l PROVE z[k] = w.label[k]
  <2>1. k \in 1 .. l + o /\ k \in 1 .. l + o + m
    OBVIOUS
  <2> QED  BY <1>5, <1>6, <1>7, <2>1
<1>11. ASSUME NEW k \in 1 .. o PROVE z[l + k] = w.gap[k]
  <2>1. l + k \in 1 .. l + o /\ l + k \in 1 .. l + o + m
    OBVIOUS
  <2> QED  BY <1>5, <1>6, <1>7, <2>1
<1>12. ASSUME NEW k \in 1 .. m PROVE z[l + o + k] = w.name[k]
  <2>1. l + o + k \in 1 .. l + o + m
    OBVIOUS
  <2> QED  BY <1>6, <1>7, <2>1
<1>13. ASSUME w.argument # << >> PROVE z[l + o + m + 1] = " "
  <2>1. 1 \in 1 .. d
    BY <1>2, <1>13
  <2> QED  BY <1>3, <1>7, <1>13, <2>1
<1>14. ASSUME NEW k \in 1 .. a PROVE z[l + o + m + 1 + k] = w.argument[k]
  <2>1. 1 + k \in 1 .. d /\ l + o + m + 1 + k = l + o + m + (1 + k)
    BY <1>2, <1>4
  <2> QED  BY <1>3, <1>7, <2>1
<1> QED  BY <1>1, <1>7, <1>8, <1>9, <1>10, <1>11, <1>12, <1>13, <1>14 DEF Laid

\* The same in numbers: how long the parts are, where the argument begins, and where
\* the comment does.
Measured(w, l, o, m, a, q, n) ==
  /\ Len(w.label) = l /\ Len(w.gap) = o /\ Len(w.name) = m /\ Len(w.argument) = a
  /\ NameAt(w) = l + o /\ ArgumentAt(w) = q /\ CommentAt(w) = n
  /\ q = l + o + m
  /\ (a = 0 /\ n = q) \/ (a # 0 /\ n = q + 1 + a)
  /\ w.label = << >> <=> l = 0
  /\ w.gap = << >> <=> o = 0
  /\ w.name = << >> <=> m = 0
  /\ w.argument = << >> <=> a = 0

LEMMA Measures ==
  ASSUME NEW w \in Parted
  PROVE  \E l \in Nat, o \in Nat, m \in Nat, a \in Nat, q \in Nat, n \in Nat :
           Measured(w, l, o, m, a, q, n)
<1>1. PICK l \in Nat, o \in Nat, m \in Nat, a \in Nat :
        Len(w.label) = l /\ Len(w.gap) = o /\ Len(w.name) = m /\ Len(w.argument) = a
  BY PartsAre
<1>2. PICK q \in Nat, n \in Nat : ArgumentAt(w) = q /\ CommentAt(w) = n
  BY PartsAre
<1>3. NameAt(w) = l + o
  BY <1>1, Zenon DEF NameAt
<1>4. /\ w.label = << >> <=> l = 0
      /\ w.gap = << >> <=> o = 0
      /\ w.name = << >> <=> m = 0
      /\ w.argument = << >> <=> a = 0
  BY <1>1, PartsAre
<1>5. q = (l + o) + m
  BY <1>1, <1>2, <1>3, Zenon DEF ArgumentAt
<1>6. n = q + (IF w.argument = << >> THEN 0 ELSE 1 + a)
  BY <1>1, <1>2, Zenon DEF CommentAt
<1>8. (a = 0 /\ n = q) \/ (a # 0 /\ n = q + 1 + a)
  <2>1. CASE w.argument = << >>
    BY <1>4, <1>6, <2>1
  <2>2. CASE w.argument # << >>
    BY <1>4, <1>6, <2>2
  <2> QED  BY <2>1, <2>2
<1>9. Measured(w, l, o, m, a, q, n)
  BY <1>1, <1>2, <1>3, <1>4, <1>5, <1>8 DEF Measured
<1> QED  BY <1>9

\* No semicolon of a statement begins a comment, and it does not end with a blank.
Closed(line) ==
  /\ \A k \in 1 .. Len(line) : line[k] = ";" => k > 1 /\ line[k - 1] = "'"
  /\ Len(line) # 0 => line[Len(line)] # " "

LEMMA StatementIsClosed ==
  ASSUME NEW w \in Parted, WellWritten(w)
  PROVE  Closed(Statement(w))
<1>1. PICK l \in Nat, o \in Nat, m \in Nat, a \in Nat, q \in Nat, n \in Nat :
        Measured(w, l, o, m, a, q, n)
  BY Measures
<1>2. PICK t : t = Statement(w)
  OBVIOUS
<1>3. Laid(w, t)
  BY <1>2, StatementIsLaid
<1>4. /\ Len(t) = n
      /\ \A k \in 1 .. l : t[k] = w.label[k]
      /\ \A k \in 1 .. o : t[l + k] = w.gap[k]
      /\ \A k \in 1 .. m : t[l + o + k] = w.name[k]
      /\ \A k \in 1 .. a : t[q + 1 + k] = w.argument[k]
  <2>1. /\ Len(w.label) = l /\ Len(w.gap) = o /\ Len(w.name) = m /\ Len(w.argument) = a
        /\ NameAt(w) = l + o /\ ArgumentAt(w) = q /\ CommentAt(w) = n
        /\ w.argument # << >> <=> a # 0
    BY <1>1 DEF Measured
  <2> QED  BY <1>3, <2>1 DEF Laid
<1>5. /\ q = l + o + m
      /\ (a = 0 /\ n = q) \/ (a # 0 /\ n = q + 1 + a)
  BY <1>1 DEF Measured
<1>a. \A k \in 1 .. l : w.label[k] # " "
  <2>1. Len(w.label) = l /\ IsLabel(w.label)
    BY <1>1 DEF Measured, WellWritten
  <2> QED  BY <2>1 DEF IsLabel, Separators
<1>6. /\ \A k \in 1 .. m : w.name[k] # " "
      /\ m = 0 /\ o # 0 => w.gap[o] # " "
      /\ a # 0 => w.argument[a] # " "
  <2>1. IsName(w.name) /\ IsGap(w.gap, w.name) /\ IsArgument(w.argument, w.name)
    BY DEF WellWritten
  <2>2. /\ Len(w.gap) = o /\ Len(w.name) = m /\ Len(w.argument) = a
        /\ w.gap = << >> <=> o = 0
        /\ w.name = << >> <=> m = 0
        /\ w.argument = << >> <=> a = 0
    BY <1>1 DEF Measured
  <2>3. \A k \in 1 .. m : w.name[k] # " "
    BY <2>1, <2>2, Zenon DEF IsName
  <2>4. m = 0 /\ o # 0 => w.gap[o] # " "
    BY <2>1, <2>2, Zenon DEF IsGap, Last
  <2>5. a # 0 => w.argument[a] # " "
    BY <2>1, <2>2, Zenon DEF IsArgument, Last
  <2> QED  BY <2>3, <2>4, <2>5
<1>7. ASSUME n # 0 PROVE t[n] # " "
  <2>1. CASE a # 0
    <3>1. n = q + 1 + a /\ a \in 1 .. a
      BY <1>5, <2>1
    <3> QED  BY <1>4, <1>6, <2>1, <3>1
  <2>2. CASE a = 0 /\ m # 0
    <3>1. n = l + o + m /\ m \in 1 .. m
      BY <1>5, <2>2
    <3>2. t[l + o + m] = w.name[m] /\ w.name[m] # " "
      BY <1>4, <1>6, <3>1
    <3>3. t[n] = t[l + o + m]
      BY <3>1, Zenon
    <3> QED  BY <3>2, <3>3
  <2>3. CASE a = 0 /\ m = 0 /\ o # 0
    <3>1. n = l + o /\ o \in 1 .. o
      BY <1>5, <2>3
    <3> QED  BY <1>4, <1>6, <2>3, <3>1
  <2>4. CASE a = 0 /\ m = 0 /\ o = 0
    <3>1. n \in 1 .. l
      BY <1>5, <1>7, <2>4
    <3> QED  BY <1>a, <1>4, <3>1
  <2> QED  BY <2>1, <2>2, <2>3, <2>4
<1>8. \A k \in 1 .. Len(t) : t[k] = ";" => k > 1 /\ t[k - 1] = "'"
  BY <1>2, Zenon DEF WellWritten, IsUncommented
<1> QED  BY <1>2, <1>4, <1>7, <1>8 DEF Closed

\* A statement is found again before its comment.
LEMMA CodeIs ==
  ASSUME NEW w \in Parted, WellWritten(w)
  PROVE  Code(Characters(w)) = Statement(w)
<1>1. PICK t \in Seq(Marks), n \in Nat : t = Statement(w) /\ n = Len(t) /\ n = CommentAt(w)
  <2>1. Laid(w, Statement(w)) /\ CommentAt(w) \in Nat
    BY StatementIsLaid, PartsAre
  <2> QED  BY <2>1 DEF Laid
<1>2. PICK e \in Seq(Marks), g \in Nat : e = w.comment /\ g = Len(e)
  BY PartsAre
<1>3. Closed(t)
  BY <1>1, StatementIsClosed
<1>4. PICK b \in 0 .. g :
        /\ \A k \in 1 .. b : e[k] = " "
        /\ b = g \/ e[b + 1] = ";"
        /\ b = 0 /\ e # << >> /\ t # << >> => Last(t) # "'"
  BY <1>1, <1>2 DEF WellWritten, IsComment
<1>5. PICK c : c = t \o e
  OBVIOUS
<1>6. Characters(w) = c
  BY <1>1, <1>2, <1>5 DEF Characters
<1>7. /\ c \in Seq(Marks) /\ Len(c) = n + g
      /\ \A k \in 1 .. n : c[k] = t[k]
      /\ \A k \in 1 .. g : c[n + k] = e[k]
  <2>1. Abut(Marks, t, e)
    BY BothStand
  <2> QED  BY <1>1, <1>2, <1>5, <2>1 DEF Abut
<1>8. b \in Nat /\ g \in Nat /\ b <= g /\ n \in Nat
  OBVIOUS
<1> DEFINE S == { k \in DOMAIN c : c[k] = ";" /\ (k = 1 \/ c[k - 1] # "'") } \cup {Len(c) + 1}
<1>9. n + b + 1 \in S
  <2>1. CASE b = g
    BY <1>7, <2>1
  <2>2. CASE b # g
    <3>1. b + 1 \in 1 .. g /\ n + b + 1 \in DOMAIN c /\ n + (b + 1) = n + b + 1
      BY <1>7, <1>8, <2>2
    <3>2. c[n + b + 1] = ";"
      BY <1>4, <1>7, <2>2, <3>1
    <3>3. CASE b # 0
      <4>1. b \in 1 .. g /\ b \in 1 .. b /\ (n + b + 1) - 1 = n + b
        BY <1>8, <3>3
      <4>2. c[(n + b + 1) - 1] = " "
        BY <1>4, <1>7, <4>1
      <4>3. " " # "'"
        OBVIOUS
      <4> QED  BY <3>1, <3>2, <4>2, <4>3
    <3>4. CASE b = 0 /\ n = 0
      <4>1. n + b + 1 = 1
        BY <3>4
      <4> QED  BY <3>1, <3>2, <4>1
    <3>5. CASE b = 0 /\ n # 0
      <4>1. t # << >> /\ e # << >>
        <5>1. g # 0
          BY <1>8, <2>2, <3>5
        <5> QED  BY <1>1, <1>2, <3>5, <5>1, EmptySeq
      <4>2. Last(t) = t[n] /\ n \in 1 .. n /\ (n + b + 1) - 1 = n
        BY <1>1, <3>5 DEF Last
      <4>3. c[(n + b + 1) - 1] # "'"
        BY <1>4, <1>7, <3>5, <4>1, <4>2
      <4> QED  BY <3>1, <3>2, <4>3
    <3> QED  BY <3>3, <3>4, <3>5
  <2> QED  BY <2>1, <2>2
<1>10. ASSUME NEW k \in 1 .. n + b, k \in 1 .. n + g, c[k] = ";", k = 1 \/ c[k - 1] # "'"
       PROVE  FALSE
  <2>2. CASE k \in 1 .. n
    <3>1. t[k] = ";"
      BY <1>7, <1>10, <2>2
    <3>2. k > 1 /\ t[k - 1] = "'"
      BY <1>1, <1>3, <2>2, <3>1 DEF Closed
    <3>3. k - 1 \in 1 .. n /\ k # 1
      BY <2>2, <3>2
    <3> QED  BY <1>7, <1>10, <3>2, <3>3
  <2>3. CASE k \notin 1 .. n
    <3>1. k - n \in 1 .. b /\ k - n \in 1 .. g /\ k = n + (k - n)
      BY <1>8, <2>3
    <3>2. c[k] = " "
      BY <1>4, <1>7, <3>1
    <3>3. " " # ";"
      OBVIOUS
    <3> QED  BY <1>10, <3>2, <3>3
  <2> QED  BY <2>2, <2>3
<1>a. DOMAIN c = 1 .. n + g
  BY <1>7
<1>b. \A k \in S : k = n + g + 1 \/ (k \in 1 .. n + g /\ c[k] = ";" /\ (k = 1 \/ c[k - 1] # "'"))
  BY <1>7, <1>a
<1> HIDE DEF S
<1>11. S \subseteq Int /\ \A k \in S : n + b + 1 <= k
  <2> SUFFICES ASSUME NEW k \in S PROVE k \in Int /\ n + b + 1 <= k
    OBVIOUS
  <2>1. CASE k = n + g + 1
    BY <1>8, <2>1
  <2>2. CASE k # n + g + 1
    <3>1. PICK j \in 1 .. n + g : j = k /\ c[j] = ";" /\ (j = 1 \/ c[j - 1] # "'")
      BY <1>b, <2>2
    <3>2. ~(j \in 1 .. n + b)
      BY <1>10, <3>1
    <3>3. j \in Int /\ n + b + 1 <= j
      BY <1>8, <3>2
    <3> QED  BY <3>1, <3>3
  <2> QED  BY <2>1, <2>2
<1>12. Min(S) = n + b + 1
  BY <1>9, <1>11, MinIs
<1>13. PICK u : u = SubSeq(c, 1, n + b)
  OBVIOUS
<1>14. Uncommented(c) = u
  <2>1. Uncommented(c) = SubSeq(c, 1, Min(S) - 1)
    BY DEF Uncommented, S
  <2>2. (n + b + 1) - 1 = n + b
    BY <1>8
  <2> QED  BY <1>12, <1>13, <2>1, <2>2
<1>15. /\ u \in Seq(Marks) /\ Len(u) = n + b
       /\ \A k \in 1 .. n + b : u[k] = c[k]
  <2>1. \A k \in 1 .. n + b : c[k] \in Marks
    BY <1>7, <1>8
  <2>2. /\ u \in Seq(Marks) /\ Len(u) = IF 1 <= n + b THEN (n + b) - 1 + 1 ELSE 0
        /\ \A k \in 1 .. (n + b) - 1 + 1 : u[k] = c[1 + k - 1]
    BY <1>8, <1>13, <2>1, SubSeqProperties
  <2>3. Len(u) = n + b
    BY <1>8, <2>2
  <2>4. ASSUME NEW k \in 1 .. n + b PROVE u[k] = c[k]
    <3>1. k \in 1 .. (n + b) - 1 + 1 /\ 1 + k - 1 = k
      BY <1>8
    <3> QED  BY <2>2, <3>1
  <2> QED  BY <2>2, <2>3, <2>4
<1> DEFINE Z == { k \in DOMAIN u : u[k] \notin Blanks } \cup {0}
<1>16. n \in Z
  <2>1. CASE n = 0
    BY <2>1
  <2>2. CASE n # 0
    <3>1. n \in 1 .. n + b /\ n \in 1 .. n /\ DOMAIN u = 1 .. n + b
      BY <1>8, <1>15, <2>2
    <3>2. u[n] # " "
      BY <1>1, <1>3, <1>7, <1>15, <2>2, <3>1 DEF Closed
    <3> QED  BY <3>1, <3>2 DEF Blanks
  <2> QED  BY <2>1, <2>2
<1>17. ASSUME NEW k \in n + 1 .. n + b PROVE u[k] = " "
  <2>1. k - n \in 1 .. b /\ k - n \in 1 .. g /\ k = n + (k - n) /\ k \in 1 .. n + b
    BY <1>8
  <2> QED  BY <1>4, <1>7, <1>15, <2>1
<1>c. DOMAIN u = 1 .. n + b
  BY <1>15
<1>d. \A k \in Z : k = 0 \/ (k \in 1 .. n + b /\ u[k] # " ")
  BY <1>c DEF Blanks
<1> HIDE DEF Z
<1>18. Z \subseteq Int /\ \A k \in Z : k <= n
  <2> SUFFICES ASSUME NEW k \in Z PROVE k \in Int /\ k <= n
    OBVIOUS
  <2>1. CASE k = 0
    BY <1>8, <2>1
  <2>2. CASE k # 0
    <3>1. PICK j \in 1 .. n + b : j = k /\ u[j] # " "
      BY <1>d, <2>2
    <3>2. ~(j \in n + 1 .. n + b)
      BY <1>17, <3>1
    <3>3. j \in Int /\ j <= n
      BY <1>8, <3>2
    <3> QED  BY <3>1, <3>3
  <2> QED  BY <2>1, <2>2
<1>19. Max(Z) = n
  BY <1>16, <1>18, MaxIs
<1>20. Code(c) = SubSeq(u, 1, n)
  BY <1>14, <1>19 DEF Code, Z
<1>21. SubSeq(u, 1, n) = t
  <2>1. PICK v : v = SubSeq(u, 1, n)
    OBVIOUS
  <2>2. \A k \in 1 .. n : u[k] = t[k] /\ u[k] \in Marks
    BY <1>1, <1>7, <1>8, <1>15
  <2>3. /\ v \in Seq(Marks) /\ Len(v) = IF 1 <= n THEN n - 1 + 1 ELSE 0
        /\ \A k \in 1 .. n - 1 + 1 : v[k] = u[1 + k - 1]
    BY <2>1, <2>2, SubSeqProperties
  <2>4. Len(v) = n /\ \A k \in 1 .. n : v[k] = t[k]
    BY <2>2, <2>3
  <2>5. v = t
    BY <1>1, <2>3, <2>4, SeqEqual
  <2> QED  BY <2>1, <2>5
<1> QED  BY <1>1, <1>6, <1>20, <1>21

-----------------------------------------------------------------------------
(* How it is read.                                                         *)

\* What the name of a line is read as.
IsInstruction(w) == Len(w.name) = 1 /\ w.name[1] \in InstructionNames

Read(w) == Line(w.label,
                IF w.name = << >> THEN "" ELSE IF IsInstruction(w) THEN w.name[1] ELSE "?",
                IF IsInstruction(w) THEN w.argument ELSE << >>)

\* What Parts makes of what the searches have found.
LEMMA PartsBy ==
  ASSUME NEW line, NEW body, NEW rest, body = Body(line), rest = SubSeq(line, body + 1, Len(line)),
         NEW label, label = SubSeq(line, 1, LabelEnd(line) - 1)
  PROVE  /\ body \notin DOMAIN line => Parts(line) = Line(label, "", << >>)
         /\ body \in DOMAIN line =>
              /\ line[body] \in InstructionNames /\ (rest # << >> => rest[1] \in Blanks) =>
                   Parts(line) = Line(label, line[body],
                                      SubSeq(rest, FirstNotOf(rest, Blanks, 1), Len(rest)))
              /\ ~(line[body] \in InstructionNames /\ (rest # << >> => rest[1] \in Blanks)) =>
                   Parts(line) = Line(label, "?", << >>)
<1> DEFINE named == body \in DOMAIN line
                    /\ line[body] \in InstructionNames /\ (rest # << >> => rest[1] \in Blanks)
<1>1. Parts(line) = Line(label,
          IF named THEN line[body] ELSE IF body \in DOMAIN line THEN "?" ELSE "",
          IF named THEN SubSeq(rest, FirstNotOf(rest, Blanks, 1), Len(rest)) ELSE << >>)
  BY Zenon DEF Parts
<1> QED  BY <1>1, Zenon

\* Where the searches of a line lead to: the end of its label, and the name that
\* follows, or the end of the line.
Places(t, l, o, m, n) ==
  /\ FirstNotOf(t, Separators, 1) = IF l # 0 THEN 1 ELSE IF m # 0 THEN o + 1 ELSE n + 1
  /\ LabelEnd(t) = l + 1
  /\ Body(t) = IF m # 0 THEN l + o + 1 ELSE n + 1

LEMMA PlacesFound ==
  ASSUME NEW w \in Parted, WellWritten(w), NEW l \in Nat, NEW o \in Nat, NEW m \in Nat,
         NEW a \in Nat, NEW q \in Nat, NEW n \in Nat, Measured(w, l, o, m, a, q, n),
         NEW t, t = Statement(w)
  PROVE  Places(t, l, o, m, n)
<1> USE DEF Places
<1>1. Laid(w, t)
  BY StatementIsLaid
<1>2. /\ Len(t) = n
      /\ \A k \in 1 .. l : t[k] = w.label[k]
      /\ \A k \in 1 .. o : t[l + k] = w.gap[k]
      /\ \A k \in 1 .. m : t[l + o + k] = w.name[k]
  <2>1. Len(w.label) = l /\ Len(w.gap) = o /\ Len(w.name) = m /\ NameAt(w) = l + o /\ CommentAt(w) = n
    BY DEF Measured
  <2> QED  BY <1>1, <2>1 DEF Laid
<1>3. /\ q = l + o + m
      /\ (a = 0 /\ n = q) \/ (a # 0 /\ n = q + 1 + a)
      /\ a # 0 => m # 0
      /\ m # 0 => o # 0
  BY DEF Measured, WellWritten, IsArgument, IsGap
<1>4. /\ \A k \in 1 .. l : w.label[k] \notin Separators
      /\ \A k \in 1 .. m : w.name[k] # " "
      /\ m # 0 => w.name[1] # ":"
      /\ \A k \in 1 .. o : w.gap[k] \in Separators
  <2>1. IsLabel(w.label) /\ IsGap(w.gap, w.name) /\ IsName(w.name)
    BY DEF WellWritten
  <2>2. Len(w.label) = l /\ Len(w.gap) = o /\ Len(w.name) = m /\ (w.name = << >> <=> m = 0)
    BY DEF Measured
  <2>3. \A k \in 1 .. l : w.label[k] \notin Separators
    BY <2>1, <2>2, Zenon DEF IsLabel
  <2>4. (\A k \in 1 .. m : w.name[k] # " ") /\ (m # 0 => w.name[1] # ":")
    BY <2>1, <2>2, Zenon DEF IsName
  <2>5. \A k \in 1 .. o : w.gap[k] \in Separators
    BY <2>1, <2>2, Zenon DEF IsGap
  <2> QED  BY <2>3, <2>4, <2>5, Zenon
<1>5. \A k \in 1 .. l : t[k] \notin Separators
  BY <1>2, <1>4
<1>6. ASSUME NEW k \in l + 1 .. l + o PROVE t[k] \in Separators
  <2>1. PICK j \in 1 .. o : k = l + j
    <3>1. k - l \in 1 .. o /\ k = l + (k - l)
      OBVIOUS
    <3> QED  BY <3>1
  <2>2. t[l + j] = w.gap[j] /\ w.gap[j] \in Separators
    BY <1>2, <1>4
  <2>3. t[k] = t[l + j]
    BY <2>1
  <2> QED  BY <2>2, <2>3
<1>8. m # 0 => l + o + 1 <= n /\ t[l + o + 1] \notin Separators
  <2> SUFFICES ASSUME m # 0 PROVE l + o + 1 <= n /\ t[l + o + 1] \notin Separators
    OBVIOUS
  <2>1. 1 \in 1 .. m /\ l + o + 1 <= n
    BY <1>3
  <2>2. t[l + o + 1] = w.name[1]
    BY <1>2, <2>1
  <2> QED  BY <1>4, <2>1, <2>2 DEF Separators
<1>9. Len(t) = n /\ n = Len(t)
  BY <1>2
<1>10. m = 0 => n = l + o
  BY <1>3
<1> DEFINE behind == IF m # 0 THEN l + o + 1 ELSE n + 1
<1>13. ASSUME NEW from \in l + 1 .. l + 2, from \in Nat \ {0}, from = l + 1 => l = 0
       PROVE  FirstNotOf(t, Separators, from) = behind
  <2>1. CASE m # 0
    <3>1. \A k \in from .. (l + o + 1) - 1 : t[k] \in Separators
      <4> SUFFICES ASSUME NEW k \in from .. (l + o + 1) - 1 PROVE t[k] \in Separators
        OBVIOUS
      <4>1. k \in l + 1 .. l + o
        OBVIOUS
      <4> QED  BY <1>6, <4>1
    <3>2. PICK p \in 1 .. n + 1 : p = l + o + 1
      <4>1. l + o + 1 \in 1 .. n + 1
        BY <1>8, <2>1
      <4> QED  BY <4>1
    <3>3. \A k \in from .. p - 1 : t[k] \in Separators
      BY <3>1, <3>2
    <3>4. p # n + 1 => from <= p /\ t[p] \notin Separators
      BY <1>3, <1>8, <2>1, <3>2
    <3>5. FirstNotOf(t, Separators, from) = p
      BY <1>9, <1>13, <3>3, <3>4, FirstNotOfIs
    <3> QED  BY <2>1, <3>2, <3>5
  <2>2. CASE m = 0
    <3>1. \A k \in from .. (n + 1) - 1 : t[k] \in Separators
      <4> SUFFICES ASSUME NEW k \in from .. (n + 1) - 1 PROVE t[k] \in Separators
        OBVIOUS
      <4>1. k \in l + 1 .. l + o
        BY <1>10, <2>2
      <4> QED  BY <1>6, <4>1
    <3>2. PICK p \in 1 .. n + 1 : p = n + 1
      <4>1. n + 1 \in 1 .. n + 1
        OBVIOUS
      <4> QED  BY <4>1
    <3>3. \A k \in from .. p - 1 : t[k] \in Separators
      BY <3>1, <3>2
    <3>4. p # n + 1 => from <= p /\ t[p] \notin Separators
      BY <3>2
    <3>5. FirstNotOf(t, Separators, from) = p
      BY <1>9, <1>13, <3>3, <3>4, FirstNotOfIs
    <3> QED  BY <2>2, <3>2, <3>5
  <2> QED  BY <2>1, <2>2
<1>11. CASE l = 0
  <2>1. 1 \in l + 1 .. l + 2 /\ 1 \in Nat \ {0}
    BY <1>11
  <2>2. FirstNotOf(t, Separators, 1) = behind
    BY <1>13, <1>11, <2>1
  <2>3. FirstNotOf(t, Separators, 1) = IF l # 0 THEN 1 ELSE IF m # 0 THEN o + 1 ELSE n + 1
    BY <1>11, <2>2
  <2>4. LabelEnd(t) = 1
    <3>1. CASE behind = 1
      <4>1. n = 0
        BY <1>3, <1>11, <3>1
      <4>2. FirstOf(t, Separators, 1) = 1
        <5>1. PICK p \in 1 .. n + 1, from \in Nat \ {0} : p = 1 /\ from = 1 /\ p = n + 1
          BY <4>1
        <5>2. \A k \in from .. p - 1 : t[k] \notin Separators
          BY <5>1
        <5>3. p # n + 1 => from <= p /\ t[p] \in Separators
          BY <5>1
        <5>4. FirstOf(t, Separators, from) = p
          BY <1>9, <5>2, <5>3, FirstOfIs
        <5> QED  BY <5>1, <5>4
      <4> QED  BY <4>2 DEF LabelEnd
    <3>2. CASE behind # 1
      BY <2>2, <3>2 DEF LabelEnd
    <3> QED  BY <3>1, <3>2
  <2>5. Body(t) = behind
    BY <2>2, <2>4 DEF Body
  <2> QED  BY <1>11, <2>3, <2>4, <2>5
<1>12. CASE l # 0
  <2>1. FirstNotOf(t, Separators, 1) = 1
    <3>1. 1 \in 1 .. n + 1 /\ 1 \in Nat \ {0} /\ 1 <= 1 /\ 1 \in 1 .. l
          /\ \A k \in 1 .. 1 - 1 : t[k] \in Separators
      BY <1>12
    <3>2. t[1] \notin Separators
      BY <1>5, <3>1
    <3>3. PICK p \in 1 .. n + 1, from \in Nat \ {0} : p = 1 /\ from = 1
      BY <3>1
    <3>4. \A k \in from .. p - 1 : t[k] \in Separators
      BY <3>3
    <3>5. p # n + 1 => from <= p /\ t[p] \notin Separators
      BY <3>2, <3>3
    <3>6. FirstNotOf(t, Separators, from) = p
      BY <1>9, <3>4, <3>5, FirstNotOfIs
    <3> QED  BY <3>3, <3>6
  <2>2. FirstOf(t, Separators, 1) = l + 1
    <3>1. l + 1 \in 1 .. n + 1 /\ 1 \in Nat \ {0} /\ 1 <= l + 1
      BY <1>3
    <3>2. \A k \in 1 .. (l + 1) - 1 : t[k] \notin Separators
      BY <1>5
    <3>3. l + 1 # n + 1 => t[l + 1] \in Separators
      <4> SUFFICES ASSUME l + 1 # n + 1 PROVE t[l + 1] \in Separators
        OBVIOUS
      <4>1. CASE o # 0
        <5>1. l + 1 \in l + 1 .. l + o
          BY <4>1
        <5> QED  BY <1>6, <5>1
      <4>2. CASE o = 0
        <5>1. m = 0 /\ n = l
          BY <1>3, <1>10, <4>2
        <5> QED  BY <5>1
      <4> QED  BY <4>1, <4>2
    <3>4. PICK p \in 1 .. n + 1, from \in Nat \ {0} : p = l + 1 /\ from = 1
      BY <3>1
    <3>5. \A k \in from .. p - 1 : t[k] \notin Separators
      BY <3>2, <3>4
    <3>6. p # n + 1 => from <= p /\ t[p] \in Separators
      BY <3>1, <3>3, <3>4
    <3>7. PICK set : set = Separators
      OBVIOUS
    <3>8. n = Len(t) /\ (\A k \in from .. p - 1 : t[k] \notin set)
          /\ (p # n + 1 => from <= p /\ t[p] \in set)
      BY <1>2, <3>5, <3>6, <3>7
    <3>9. FirstOf(t, set, from) = p
      BY <3>8, FirstOfIs
    <3> QED  BY <3>4, <3>7, <3>9
  <2>3. LabelEnd(t) = l + 1
    BY <2>1, <2>2 DEF LabelEnd
  <2>4. Body(t) = behind
    <3>1. l + 2 \in l + 1 .. l + 2 /\ l + 2 \in Nat \ {0} /\ l + 2 # l + 1 /\ l + 1 # 1
          /\ (l + 1) + 1 = l + 2
      BY <1>12
    <3>2. Body(t) = FirstNotOf(t, Separators, l + 2)
      BY <2>3, <3>1 DEF Body
    <3> QED  BY <1>13, <3>1, <3>2
  <2> QED  BY <1>12, <2>1, <2>3, <2>4
<1> QED  BY <1>11, <1>12

\* A line is taken apart as it was put together.
LEMMA LineIsRead ==
  ASSUME NEW w \in Parted, WellWritten(w)
  PROVE  Parts(Statement(w)) = Read(w)
<1>1. PICK l \in Nat, o \in Nat, m \in Nat, a \in Nat, q \in Nat, n \in Nat :
        Measured(w, l, o, m, a, q, n)
  BY Measures
<1>2. PICK t : t = Statement(w)
  OBVIOUS
<1>3. /\ LabelEnd(t) = l + 1
      /\ Body(t) = IF m # 0 THEN l + o + 1 ELSE n + 1
  <2>1. Places(t, l, o, m, n)
    BY <1>1, <1>2, PlacesFound
  <2> QED  BY <2>1 DEF Places
<1>4. Laid(w, t)
  BY <1>2, StatementIsLaid
<1>5. /\ t \in Seq(Marks) /\ Len(t) = n
      /\ \A k \in 1 .. l : t[k] = w.label[k]
      /\ \A k \in 1 .. m : t[l + o + k] = w.name[k]
      /\ a # 0 => t[q + 1] = " "
      /\ \A k \in 1 .. a : t[q + 1 + k] = w.argument[k]
  <2>1. /\ Len(w.label) = l /\ Len(w.gap) = o /\ Len(w.name) = m /\ Len(w.argument) = a
        /\ NameAt(w) = l + o /\ ArgumentAt(w) = q /\ CommentAt(w) = n
        /\ w.argument # << >> <=> a # 0
    BY <1>1 DEF Measured
  <2> QED  BY <1>4, <2>1 DEF Laid
<1>a. DOMAIN t = 1 .. n
  BY <1>5, LenProperties
<1>b. t \in Seq(Marks) /\ Len(t) = n
  BY <1>5
<1>c. \A k \in 1 .. n : t[k] \in Marks
  BY <1>b, ElementOfSeq
<1>6. /\ q = l + o + m
      /\ (a = 0 /\ n = q) \/ (a # 0 /\ n = q + 1 + a)
      /\ a # 0 => m # 0
  BY <1>1 DEF Measured, WellWritten, IsArgument
<1>7. /\ w.name = << >> <=> m = 0
      /\ w.argument = << >> <=> a = 0
      /\ Len(w.name) = m /\ Len(w.argument) = a /\ Len(w.label) = l
      /\ w.label \in Seq(Marks) /\ w.name \in Seq(Marks) /\ w.argument \in Seq(Marks)
  BY <1>1, PartsAre DEF Measured
<1>8. /\ \A k \in 1 .. m : w.name[k] # " "
      /\ a # 0 => w.argument[1] # " "
  BY <1>1 DEF Measured, WellWritten, IsName, IsArgument
<1>9. l <= n
  BY <1>6
<1>10. SubSeq(t, 1, LabelEnd(t) - 1) = w.label
  <2>1. (l + 1) - 1 = l /\ 1 + l = l + 1 /\ \A k \in 1 .. l : 1 + k - 1 = k
    OBVIOUS
  <2>2. \A k \in 1 .. l : w.label[k] = t[1 + k - 1]
    BY <1>5, <2>1
  <2>3. SubSeq(t, 1, l) = w.label
    <3>1. 1 \in Nat \ {0} /\ l <= Len(t) /\ 1 <= l + 1
      BY <1>b, <1>9
    <3>2. w.label \in Seq(Marks) /\ l = Len(w.label)
      BY <1>7
    <3> QED  BY <1>b, <2>1, <2>2, <3>1, <3>2, PieceIs
  <2> QED  BY <1>3, <2>1, <2>3
<1>11. CASE m = 0
  <2>1. Body(t) \notin DOMAIN t
    BY <1>3, <1>a, <1>11
  <2>2. Parts(t) = Line(w.label, "", << >>)
    BY <1>10, <2>1, PartsBy
  <2>3. ~IsInstruction(w)
    BY <1>7, <1>11 DEF IsInstruction
  <2>4. Read(w) = Line(w.label, "", << >>)
    BY <1>7, <1>11, <2>3 DEF Read
  <2> QED  BY <1>2, <2>2, <2>4
<1>12. CASE m # 0
  <2>0. PICK b \in Nat : b = l + o + 1
    OBVIOUS
  <2>r. PICK r : r = SubSeq(t, b + 1, Len(t))
    OBVIOUS
  <2>1. b = l + o + 1 /\ r = SubSeq(t, b + 1, Len(t))
    BY <2>0, <2>r
  <2>2. Body(t) = b /\ b \in DOMAIN t /\ b <= n
    BY <1>3, <1>a, <1>6, <1>12, <2>1
  <2>3. t[b] = w.name[1]
    <3>1. 1 \in 1 .. m /\ l + o + 1 = b
      BY <1>12, <2>1
    <3>2. t[l + o + 1] = w.name[1]
      BY <1>5, <3>1
    <3> QED  BY <3>1, <3>2
  <2>4. /\ r \in Seq(Marks) /\ Len(r) = n - b
        /\ \A k \in 1 .. n - b : r[k] = t[b + k]
    <3>1. b + 1 \in Int /\ n \in Int /\ \A k \in b + 1 .. n : t[k] \in Marks
      <4>1. \A k \in b + 1 .. n : k \in 1 .. n
        OBVIOUS
      <4> QED  BY <1>c, <4>1
    <3>2. /\ r \in Seq(Marks) /\ Len(r) = IF b + 1 <= n THEN n - (b + 1) + 1 ELSE 0
          /\ \A k \in 1 .. n - (b + 1) + 1 : r[k] = t[(b + 1) + k - 1]
      BY <1>b, <2>1, <3>1, SubSeqProperties
    <3>3. Len(r) = n - b
      BY <2>2, <3>2
    <3>4. ASSUME NEW k \in 1 .. n - b PROVE r[k] = t[b + k]
      <4>1. k \in 1 .. n - (b + 1) + 1 /\ (b + 1) + k - 1 = b + k
        OBVIOUS
      <4> QED  BY <3>2, <4>1
    <3> QED  BY <3>2, <3>3, <3>4
  <2>5. CASE m # 1
    <3>1. 1 \in 1 .. n - b /\ 2 \in 1 .. m /\ l + o + 2 = b + 1
      BY <1>6, <1>12, <2>1, <2>5
    <3>2. r[1] = w.name[2]
      BY <1>5, <2>4, <3>1
    <3>3. r # << >> /\ r[1] \notin Blanks
      <4>1. Len(r) # 0
        BY <2>4, <3>1
      <4> QED  BY <1>8, <2>4, <3>1, <3>2, <4>1, EmptySeq DEF Blanks
    <3>4. Parts(t) = Line(w.label, "?", << >>)
      BY <1>10, <2>1, <2>2, <3>3, PartsBy
    <3>5. ~IsInstruction(w)
      BY <1>7, <2>5 DEF IsInstruction
    <3>6. Read(w) = Line(w.label, "?", << >>)
      BY <1>7, <1>12, <3>5 DEF Read
    <3> QED  BY <1>2, <3>4, <3>6
  <2>6. CASE m = 1
    <3>1. b = q
      BY <1>6, <1>12, <2>1, <2>6
    <3>2. r # << >> => r[1] \in Blanks
      <4> SUFFICES ASSUME r # << >> PROVE r[1] \in Blanks
        OBVIOUS
      <4>1. n - b # 0
        BY <2>4, EmptySeq
      <4>2. a # 0 /\ 1 \in 1 .. n - b
        BY <1>6, <3>1, <4>1
      <4>3. r[1] = t[q + 1]
        BY <2>4, <3>1, <4>2
      <4> QED  BY <1>5, <4>2, <4>3 DEF Blanks
    <3>3. SubSeq(r, FirstNotOf(r, Blanks, 1), Len(r)) = w.argument
      <4>1. CASE a = 0
        <5>1. n - b = 0
          BY <1>6, <3>1, <4>1
        <5>2. r = << >> /\ Len(r) = 0
          BY <2>4, <5>1, EmptySeq
        <5>3. w.argument = << >>
          BY <1>7, <4>1
        <5>4. PICK f : f = FirstNotOf(r, Blanks, 1)
          OBVIOUS
        <5>5. f = 1
          <6>1. PICK p \in 1 .. 0 + 1, from \in Nat \ {0} : p = 1 /\ from = 1
            OBVIOUS
          <6>2. Len(r) = 0 /\ 0 \in Nat /\ p = 0 + 1 /\ \A k \in from .. p - 1 : r[k] \in Blanks
            BY <5>2, <6>1
          <6>3. FirstNotOf(r, Blanks, from) = p
            BY <6>2, FirstNotOfIs
          <6> QED  BY <5>4, <6>1, <6>3
        <5>6. SubSeq(r, 1, 0) = << >>
          BY SubSeqEmpty
        <5> QED  BY <5>2, <5>3, <5>4, <5>5, <5>6
      <4>2. CASE a # 0
        <5>1. n - b = 1 + a
          BY <1>6, <3>1, <4>2
        <5>2. r[1] = " " /\ r[2] = w.argument[1]
          <6>1. 1 \in 1 .. n - b /\ 2 \in 1 .. n - b /\ 1 \in 1 .. a /\ q + 1 + 1 = b + 2
            BY <3>1, <4>2, <5>1
          <6>2. r[1] = t[q + 1] /\ r[2] = t[q + 1 + 1]
            BY <2>4, <3>1, <6>1
          <6> QED  BY <1>5, <4>2, <6>1, <6>2
        <5>3. FirstNotOf(r, Blanks, 1) = 2
          <6>0. PICK s \in Nat : s = n - b
            BY <5>1
          <6>1. PICK p \in 1 .. s + 1, from \in Nat \ {0} : p = 2 /\ from = 1
            BY <4>2, <5>1, <6>0
          <6>2. \A k \in from .. p - 1 : r[k] \in Blanks
            <7>1. \A k \in from .. p - 1 : k = 1
              BY <6>1
            <7> QED  BY <5>2, <7>1 DEF Blanks
          <6>3. p # s + 1 => from <= p /\ r[p] \notin Blanks
            <7>1. r[2] \notin Blanks
              BY <1>8, <4>2, <5>2 DEF Blanks
            <7> QED  BY <6>1, <7>1
          <6>4. FirstNotOf(r, Blanks, from) = p
            BY <2>4, <6>0, <6>2, <6>3, FirstNotOfIs
          <6> QED  BY <6>1, <6>4
        <5>4. ASSUME NEW k \in 1 .. a PROVE w.argument[k] = r[2 + k - 1]
          <6>1. 2 + k - 1 = 1 + k /\ 1 + k \in 1 .. n - b /\ b + (1 + k) = q + 1 + k
            BY <3>1, <5>1
          <6> QED  BY <1>5, <2>4, <6>1
        <5>5. SubSeq(r, 2, n - b) = w.argument
          <6>1. n - b \in Nat /\ 2 <= (n - b) + 1 /\ 2 + a = (n - b) + 1 /\ 2 \in Nat \ {0}
            BY <4>2, <5>1
          <6>2. PICK j \in Nat : j = n - b
            BY <6>1
          <6> QED  BY <1>7, <2>4, <5>4, <6>1, <6>2, PieceIs
        <5> QED  BY <2>4, <5>3, <5>5
      <4> QED  BY <4>1, <4>2
    <3>4. CASE w.name[1] \in InstructionNames
      <4>1. Parts(t) = Line(w.label, w.name[1], w.argument)
        <5>1. t[b] \in InstructionNames
          BY <2>3, <3>4
        <5>2. Parts(t) = Line(w.label, t[b], SubSeq(r, FirstNotOf(r, Blanks, 1), Len(r)))
          BY <1>10, <2>1, <2>2, <3>2, <5>1, PartsBy
        <5> QED  BY <2>3, <3>3, <5>2
      <4>2. IsInstruction(w)
        BY <1>7, <2>6, <3>4 DEF IsInstruction
      <4>3. Read(w) = Line(w.label, w.name[1], w.argument)
        BY <1>7, <1>12, <4>2 DEF Read
      <4> QED  BY <1>2, <4>1, <4>3
    <3>5. CASE w.name[1] \notin InstructionNames
      <4>1. Parts(t) = Line(w.label, "?", << >>)
        <5>1. t[b] \notin InstructionNames
          BY <2>3, <3>5
        <5> QED  BY <1>10, <2>1, <2>2, <5>1, PartsBy
      <4>2. ~IsInstruction(w)
        BY <3>5 DEF IsInstruction
      <4>3. Read(w) = Line(w.label, "?", << >>)
        BY <1>7, <1>12, <4>2 DEF Read
      <4> QED  BY <1>2, <4>1, <4>3
    <3> QED  BY <3>4, <3>5
  <2> QED  BY <2>5, <2>6
<1> QED  BY <1>11, <1>12

\* An empty statement has neither label nor name; one of colons has neither.
LEMMA NothingToRead ==
  ASSUME NEW w \in Parted, WellWritten(w)
  PROVE  /\ Statement(w) = << >> => w.label = << >> /\ w.name = << >>
         /\ FirstNotOf(Statement(w), Separators, 1) \in DOMAIN Statement(w)
              <=> w.label # << >> \/ w.name # << >>
<1>1. PICK l \in Nat, o \in Nat, m \in Nat, a \in Nat, q \in Nat, n \in Nat :
        Measured(w, l, o, m, a, q, n)
  BY Measures
<1>2. PICK t : t = Statement(w)
  OBVIOUS
<1>3. PICK f : f = FirstNotOf(t, Separators, 1)
  OBVIOUS
<1>4. f = IF l # 0 THEN 1 ELSE IF m # 0 THEN o + 1 ELSE n + 1
  <2>1. Places(t, l, o, m, n)
    BY <1>1, <1>2, PlacesFound
  <2> QED  BY <1>3, <2>1 DEF Places
<1>5. t \in Seq(Marks) /\ Len(t) = n /\ DOMAIN t = 1 .. n
  <2>1. Laid(w, t)
    BY <1>2, StatementIsLaid
  <2>2. t \in Seq(Marks) /\ Len(t) = n
    BY <1>1, <2>1 DEF Laid, Measured
  <2> QED  BY <2>2, LenProperties
<1>6. /\ q = l + o + m
      /\ (a = 0 /\ n = q) \/ (a # 0 /\ n = q + 1 + a)
      /\ w.name = << >> <=> m = 0
      /\ w.label = << >> <=> l = 0
  BY <1>1 DEF Measured
<1>7. t = << >> => n = 0
  BY <1>5, EmptySeq
<1>8. n = 0 => l = 0 /\ m = 0
  BY <1>6
<1>9. f \in 1 .. n <=> l # 0 \/ m # 0
  BY <1>4, <1>6
<1> QED  BY <1>2, <1>3, <1>5, <1>6, <1>7, <1>8, <1>9

-----------------------------------------------------------------------------
(* The first pass, and what is written.                                    *)

Word(w) == IF w.name = << >> THEN << >> ELSE <<w>>

LEMMA WordIs ==
  ASSUME NEW w \in Parted
  PROVE  /\ Word(w) \in Seq(Parted)
         /\ w.name = << >> => Word(w) = << >> /\ Len(Word(w)) = 0
         /\ w.name # << >> => Word(w) = <<w>> /\ Len(Word(w)) = 1 /\ Word(w)[1] = w
<1>1. CASE w.name = << >>
  BY <1>1, EmptySeq DEF Word
<1>2. CASE w.name # << >>
  <2>1. <<w>> \in Seq(Parted) /\ Len(<<w>>) = 1 /\ <<w>>[1] = w
    OBVIOUS
  <2> QED  BY <1>2, <2>1 DEF Word
<1> QED  BY <1>1, <1>2

Words(lines) == [k \in DOMAIN lines |-> Word(lines[k])]

LEMMA WordsAre ==
  ASSUME NEW lines \in Seq(Parted)
  PROVE  /\ Words(lines) \in Seq(Seq(Parted)) /\ Len(Words(lines)) = Len(lines)
         /\ \A k \in 1 .. Len(lines) : Words(lines)[k] = Word(lines[k])
         /\ Worded(lines) = FlattenSeq(Words(lines))
<1>1. PICK n \in Nat : n = Len(lines) /\ DOMAIN lines = 1 .. n
  BY LenProperties
<1>2. \A k \in 1 .. n : Word(lines[k]) \in Seq(Parted)
  BY <1>1, WordIs
<1>3. Words(lines) \in [1 .. n -> Seq(Parted)] /\ \A k \in 1 .. n : Words(lines)[k] = Word(lines[k])
  BY <1>1, <1>2 DEF Words
<1>4. Words(lines) \in Seq(Seq(Parted)) /\ Len(Words(lines)) = n
  <2>1. Words(lines) \in Seq(Seq(Parted))
    BY <1>3, SeqDef
  <2> QED  BY <1>3, <2>1
<1>5. Worded(lines) = FlattenSeq(Words(lines))
  BY DEF Worded, Words, Word
<1> QED  BY <1>1, <1>3, <1>4, <1>5

\* One line more is one word more, or none.
LEMMA WordedOneMore ==
  ASSUME NEW lines \in Seq(Parted), NEW w \in Parted
  PROVE  /\ Worded(lines) \in Seq(Parted)
         /\ w.name = << >> => Worded(Append(lines, w)) = Worded(lines)
         /\ w.name # << >> => Worded(Append(lines, w)) = Append(Worded(lines), w)
<1>1. PICK n \in Nat : n = Len(lines) /\ DOMAIN lines = 1 .. n
  BY LenProperties
<1>2. PICK more : more = Append(lines, w)
  OBVIOUS
<1>3. /\ more \in Seq(Parted) /\ Len(more) = n + 1 /\ more[n + 1] = w
      /\ \A k \in 1 .. n : more[k] = lines[k]
  BY <1>1, <1>2, AppendProperties
<1>4. PICK s : s = Words(lines)
  OBVIOUS
<1>5. /\ s \in Seq(Seq(Parted)) /\ Len(s) = n /\ Worded(lines) = FlattenSeq(s)
      /\ \A k \in 1 .. n : s[k] = Word(lines[k])
  BY <1>1, <1>4, WordsAre
<1>6. PICK t : t = Words(more)
  OBVIOUS
<1>7. /\ t \in Seq(Seq(Parted)) /\ Len(t) = n + 1 /\ Worded(more) = FlattenSeq(t)
      /\ \A k \in 1 .. n + 1 : t[k] = Word(more[k])
  BY <1>3, <1>6, WordsAre
<1>8. Word(w) \in Seq(Parted)
  BY WordIs
<1>9. t = Append(s, Word(w))
  <2>1. PICK u : u = Append(s, Word(w))
    OBVIOUS
  <2>2. /\ u \in Seq(Seq(Parted)) /\ Len(u) = n + 1 /\ u[n + 1] = Word(w)
        /\ \A k \in 1 .. n : u[k] = s[k]
    BY <1>5, <1>8, <2>1, AppendProperties
  <2>3. ASSUME NEW k \in 1 .. n + 1 PROVE t[k] = u[k]
    <3>1. CASE k = n + 1
      BY <1>3, <1>7, <2>2, <3>1
    <3>2. CASE k # n + 1
      <4>1. k \in 1 .. n
        BY <3>2
      <4> QED  BY <1>3, <1>5, <1>7, <2>2, <4>1
    <3> QED  BY <3>1, <3>2
  <2> QED  BY <1>7, <2>1, <2>2, <2>3, SeqEqual
<1>10. Worded(more) = Worded(lines) \o Word(w)
  BY <1>5, <1>7, <1>8, <1>9, FlattenAppend
<1>11. Worded(lines) \in Seq(Parted)
  BY <1>5, FlattenSeqIs
<1>12. w.name = << >> => Worded(more) = Worded(lines)
  BY <1>10, <1>11, WordIs, ConcatEmptySeq
<1>13. w.name # << >> => Worded(more) = Append(Worded(lines), w)
  <2> SUFFICES ASSUME w.name # << >> PROVE Worded(more) = Append(Worded(lines), w)
    OBVIOUS
  <2>1. Word(w) = <<w>>
    BY WordIs
  <2>2. Append(Worded(lines), w) = Worded(lines) \o <<w>>
    BY <1>11, AppendIsConcat
  <2> QED  BY <1>10, <2>1, <2>2
<1> QED  BY <1>2, <1>11, <1>12, <1>13

\* The words are the lines that have a name.
LEMMA WordedHas ==
  ASSUME NEW lines \in Seq(Parted)
  PROVE  /\ \A i \in 1 .. Len(lines) : lines[i].name # << >> =>
              \E p \in 1 .. Len(Worded(lines)) : Worded(lines)[p] = lines[i]
         /\ \A p \in 1 .. Len(Worded(lines)) :
              \E i \in 1 .. Len(lines) : lines[i].name # << >> /\ Worded(lines)[p] = lines[i]
<1>1. PICK n \in Nat : n = Len(lines)
  BY LenProperties
<1>2. PICK s, whole : s = Words(lines) /\ whole = Worded(lines)
  OBVIOUS
<1>3. /\ s \in Seq(Seq(Parted)) /\ Len(s) = n /\ whole = FlattenSeq(s)
      /\ \A k \in 1 .. n : s[k] = Word(lines[k])
  BY <1>1, <1>2, WordsAre
<1>4. PICK at : Holds(Parted, s, whole, at)
  BY <1>3, Flattened
<1>5. /\ at \in [0 .. n -> Nat] /\ Len(whole) \in Nat
      /\ \A i \in 0 .. n : at[i] <= Len(whole)
      /\ \A i \in 1 .. n : at[i] = at[i - 1] + Len(s[i])
      /\ \A i \in 1 .. n : \A m \in 1 .. Len(s[i]) : whole[at[i - 1] + m] = s[i][m]
      /\ \A p \in 1 .. Len(whole) : \E i \in 1 .. n : \E m \in 1 .. Len(s[i]) : p = at[i - 1] + m
  BY <1>3, <1>4, LenProperties DEF Holds
<1>6. ASSUME NEW i \in 1 .. n, lines[i].name # << >>
      PROVE  \E p \in 1 .. Len(whole) : whole[p] = lines[i]
  <2>1. lines[i] \in Parted
    BY <1>1
  <2>2. Len(s[i]) = 1 /\ s[i][1] = lines[i]
    BY <1>3, <1>6, <2>1, WordIs
  <2>3. PICK z \in Nat, y \in Nat, x \in Nat : z = at[i - 1] /\ y = at[i] /\ x = Len(whole)
    <3>1. i - 1 \in 0 .. n /\ i \in 0 .. n
      OBVIOUS
    <3>2. at[i - 1] \in Nat /\ at[i] \in Nat
      BY <1>5, <3>1
    <3> QED  BY <1>5, <3>2
  <2>4. y = z + 1 /\ y <= x
    <3>1. i \in 0 .. n
      OBVIOUS
    <3>2. at[i] = at[i - 1] + 1 /\ at[i] <= Len(whole)
      BY <1>5, <2>2, <3>1
    <3> QED  BY <2>3, <3>2
  <2>5. z + 1 \in 1 .. x
    BY <2>4
  <2>6. whole[z + 1] = lines[i]
    <3>1. 1 \in 1 .. Len(s[i])
      BY <2>2
    <3> QED  BY <1>5, <2>2, <2>3, <3>1
  <2> QED  BY <2>3, <2>5, <2>6
<1>7. ASSUME NEW p \in 1 .. Len(whole)
      PROVE  \E i \in 1 .. n : lines[i].name # << >> /\ whole[p] = lines[i]
  <2>1. PICK i \in 1 .. n : \E m \in 1 .. Len(s[i]) : p = at[i - 1] + m
    BY <1>5
  <2>2. PICK m \in 1 .. Len(s[i]) : p = at[i - 1] + m
    BY <2>1
  <2>3. lines[i] \in Parted
    BY <1>1
  <2>4. lines[i].name # << >> /\ Len(s[i]) = 1 /\ s[i][1] = lines[i]
    <3>1. s[i] = Word(lines[i])
      BY <1>3
    <3>2. Len(s[i]) # 0
      BY <2>2
    <3> QED  BY <2>3, <3>1, <3>2, WordIs
  <2>5. m = 1
    BY <2>2, <2>4
  <2>6. whole[p] = lines[i]
    BY <1>5, <2>2, <2>4, <2>5
  <2> QED  BY <2>4, <2>6
<1> QED  BY <1>1, <1>2, <1>6, <1>7

LEMMA LabelsOneMore ==
  ASSUME NEW lines \in Seq(Parted), NEW w \in Parted
  PROVE  LabelsOf(Append(lines, w)) = LabelsOf(lines) \cup (IF w.label = << >> THEN {} ELSE {w.label})
<1>1. PICK n \in Nat : n = Len(lines) /\ DOMAIN lines = 1 .. n
  BY LenProperties
<1>2. PICK more : more = Append(lines, w)
  OBVIOUS
<1>3. /\ more \in Seq(Parted) /\ Len(more) = n + 1 /\ more[n + 1] = w
      /\ \A k \in 1 .. n : more[k] = lines[k]
  BY <1>1, <1>2, AppendProperties
<1>4. DOMAIN more = 1 .. n + 1
  BY <1>3, LenProperties
<1>5. \A k \in 1 .. n + 1 : k \in 1 .. n \/ k = n + 1
  OBVIOUS
<1>6. { more[k].label : k \in 1 .. n + 1 } = { lines[k].label : k \in 1 .. n } \cup {w.label}
  <2>1. ASSUME NEW k \in 1 .. n + 1
        PROVE  more[k].label \in { lines[j].label : j \in 1 .. n } \cup {w.label}
    BY <1>3, <1>5
  <2>2. ASSUME NEW k \in 1 .. n PROVE lines[k].label \in { more[j].label : j \in 1 .. n + 1 }
    <3>1. k \in 1 .. n + 1 /\ more[k] = lines[k]
      BY <1>3
    <3> QED  BY <3>1
  <2>3. w.label \in { more[j].label : j \in 1 .. n + 1 }
    <3>1. n + 1 \in 1 .. n + 1
      OBVIOUS
    <3> QED  BY <1>3, <3>1
  <2> QED  BY <2>1, <2>2, <2>3
<1> QED  BY <1>1, <1>2, <1>4, <1>6 DEF LabelsOf

\* What the first pass has collected of lines in which it has found no error.
Agrees(p, lines) ==
  /\ p.error = ""
  /\ Len(p.instructions) = Len(Worded(lines))
  /\ \A k \in 1 .. Len(Worded(lines)) :
       LET w == Worded(lines)[k]
       IN /\ <<p.instructions[k].op>> = w.name
          /\ p.instructions[k].op \in Targeted \cup Pushing =>
               p.instructions[k].target = w.argument
  /\ DOMAIN p.labels = LabelsOf(lines)
  /\ \A k \in 1 .. Len(lines) : lines[k].label # << >> =>
       p.labels[lines[k].label] = Len(Worded(SubSeq(lines, 1, k - 1)))
  /\ \A j, k \in 1 .. Len(lines) : j < k /\ lines[j].label # << >> =>
       lines[j].label # lines[k].label
  /\ \A k \in 1 .. Len(lines) : lines[k].name # << >> => Admissible(lines[k])

\* A label is taken, unless it has been.
Fine(p) == p.error = ""

Labelled(p, label, q) ==
  /\ Fine(q) /\ q.instructions = p.instructions
  /\ DOMAIN q.labels = DOMAIN p.labels \cup (IF label = << >> THEN {} ELSE {label})
  /\ label # << >> => label \notin DOMAIN p.labels /\ q.labels[label] = Len(p.instructions)
  /\ \A l \in DOMAIN p.labels : q.labels[l] = p.labels[l]

LEMMA LabelTaken ==
  ASSUME NEW p, Collected(p), Fine(p), NEW label
  PROVE  \/ Labelled(p, label, TakeLabel(p, label))
         \/ label # << >> /\ label \in DOMAIN p.labels /\ ~Fine(TakeLabel(p, label))
<1>1. CASE label = << >>
  BY <1>1 DEF TakeLabel, Labelled
<1>2. CASE label # << >> /\ label \in DOMAIN p.labels
  <2>1. TakeLabel(p, label) = [p EXCEPT !.error = "label appears twice"]
    BY <1>2 DEF TakeLabel
  <2>2. TakeLabel(p, label).error = "label appears twice"
    BY <2>1 DEF Collected
  <2> QED  BY <1>2, <2>2 DEF Fine
<1>3. CASE label # << >> /\ label \notin DOMAIN p.labels
  <2> DEFINE labels == [l \in DOMAIN p.labels \cup {label} |->
                          IF l = label THEN Len(p.instructions) ELSE p.labels[l]]
  <2>1. TakeLabel(p, label) = [p EXCEPT !.labels = labels]
    BY <1>3 DEF TakeLabel
  <2>2. /\ DOMAIN labels = DOMAIN p.labels \cup {label} /\ labels[label] = Len(p.instructions)
        /\ \A l \in DOMAIN p.labels : labels[l] = p.labels[l]
    BY <1>3
  <2> HIDE DEF labels
  <2>3. LET q == TakeLabel(p, label)
        IN q.labels = labels /\ q.instructions = p.instructions /\ q.error = p.error
    BY <2>1 DEF Collected
  <2> QED  BY <1>3, <2>2, <2>3 DEF Labelled, Fine
<1> QED  BY <1>1, <1>2, <1>3

\* No instruction has an empty name, nor one that cannot be read.
LEMMA Nameless == "" \notin InstructionNames /\ "?" \notin InstructionNames /\ "?" # ""
BY DEF InstructionNames, Targeted, Pushing

\* An instruction is taken if it is one and has what it needs.
Extended(p, w, q) ==
  /\ Fine(q) /\ q.labels = p.labels
  /\ \E e : /\ q.instructions = Append(p.instructions, e)
            /\ <<e.op>> = w.name
            /\ e.op \in Targeted \cup Pushing => e.target = w.argument

LEMMA InstructionTaken ==
  ASSUME NEW w \in Parted, NEW p, Collected(p), Fine(p),
         NEW q, q = TakeInstruction(p, Read(w).name, Read(w).target)
  PROVE  /\ w.name = << >> => q = p
         /\ w.name # << >> /\ Admissible(w) => Extended(p, w, q)
         /\ w.name # << >> /\ ~Admissible(w) => ~Fine(q)
<1>1. CASE w.name = << >>
  <2>1. Read(w).name = ""
    BY <1>1 DEF Read, Line
  <2> QED  BY <1>1, <2>1 DEF TakeInstruction
<1>2. CASE w.name # << >> /\ ~IsInstruction(w)
  <2>1. Read(w).name = "?"
    BY <1>2 DEF Read, Line
  <2>2. q = [p EXCEPT !.error = "no instruction"]
    BY <2>1, Nameless DEF TakeInstruction
  <2>3. q.error = "no instruction"
    BY <2>2 DEF Collected
  <2>4. ~Admissible(w)
    BY <1>2 DEF Admissible, IsInstruction
  <2> QED  BY <1>2, <2>3, <2>4 DEF Fine
<1>3. CASE w.name # << >> /\ IsInstruction(w)
  <2>1. PICK name : name = w.name[1]
    OBVIOUS
  <2>2. Read(w).name = name /\ Read(w).target = w.argument
    BY <1>3, <2>1 DEF Read, Line
  <2>3. name \in InstructionNames /\ name # "" /\ Len(w.name) = 1
    BY <1>3, <2>1, Nameless DEF IsInstruction
  <2>4. Admissible(w) <=> /\ name \in Targeted => w.argument # << >>
                          /\ name \in Pushing => w.argument \in Literals
    BY <2>1, <2>3 DEF Admissible
  <2>5. CASE name \in Targeted /\ w.argument = << >>
    <3>1. q = [p EXCEPT !.error = "out_of_range"]
      BY <2>2, <2>3, <2>5 DEF TakeInstruction
    <3>2. q.error = "out_of_range"
      BY <3>1 DEF Collected
    <3> QED  BY <1>3, <2>4, <2>5, <3>2 DEF Fine
  <2>6. CASE ~(name \in Targeted /\ w.argument = << >>) /\ name \in Pushing /\ w.argument \notin Literals
    <3>1. q = [p EXCEPT !.error = "invalid literal"]
      BY <2>2, <2>3, <2>6 DEF TakeInstruction
    <3>2. q.error = "invalid literal"
      BY <3>1 DEF Collected
    <3> QED  BY <1>3, <2>4, <2>6, <3>2 DEF Fine
  <2>7. CASE ~(name \in Targeted /\ w.argument = << >>) /\ ~(name \in Pushing /\ w.argument \notin Literals)
    <3>1. PICK e : e = [op |-> name, target |-> IF name \in Targeted \cup Pushing THEN w.argument ELSE << >>]
      OBVIOUS
    <3>2. q = [p EXCEPT !.instructions = Append(@, e)]
      BY <2>2, <2>3, <2>7, <3>1 DEF TakeInstruction
    <3>3. q.instructions = Append(p.instructions, e) /\ q.labels = p.labels /\ q.error = p.error
      BY <3>2 DEF Collected
    <3>4. <<e.op>> = w.name
      <4>1. w.name \in Seq(Marks) /\ e.op = w.name[1]
        BY <2>1, <3>1, PartsAre
      <4>2. PICK n : n = w.name
        OBVIOUS
      <4>3. n \in Seq(Marks) /\ Len(n) = 1
        BY <2>3, <4>1, <4>2
      <4>4. n = <<n[1]>>
        BY <4>3
      <4> QED  BY <4>1, <4>2, <4>4
    <3>5. e.op \in Targeted \cup Pushing => e.target = w.argument
      BY <3>1
    <3>6. Extended(p, w, q)
      BY <3>3, <3>4, <3>5 DEF Extended, Fine
    <3> QED  BY <1>3, <2>4, <2>7, <3>6
  <2> QED  BY <2>5, <2>6, <2>7
<1> QED  BY <1>1, <1>2, <1>3

\* A line that is in order is taken, and one that is not is refused: a label that has
\* been on another line, or an instruction that is none or lacks what it needs.
LEMMA LineAgrees ==
  ASSUME NEW lines \in Seq(Parted), NEW w \in Parted, NEW p, Collected(p), Agrees(p, lines),
         NEW q, q = TakeLine(p, Read(w))
  PROVE  \/ Agrees(q, Append(lines, w))
         \/ /\ ~Fine(q)
            /\ \/ w.name # << >> /\ ~Admissible(w)
               \/ \E j \in 1 .. Len(lines) : lines[j].label # << >> /\ lines[j].label = w.label
<1>1. PICK r : r = TakeLabel(p, w.label)
  OBVIOUS
<1>2. Collected(r) /\ Fine(p)
  BY <1>1, LabelIsCollected DEF Agrees, Fine
<1>3. Read(w).label = w.label
  BY DEF Read, Line
<1>4. q = IF ~Fine(r) THEN r ELSE TakeInstruction(r, Read(w).name, Read(w).target)
  BY <1>1, <1>3, Zenon DEF TakeLine, Fine
<1>5. CASE ~Fine(r)
  <2>1. w.label # << >> /\ w.label \in DOMAIN p.labels
    BY <1>1, <1>2, <1>5, LabelTaken DEF Labelled
  <2>2. PICK j \in DOMAIN lines : lines[j].label = w.label
    BY <2>1 DEF Agrees, LabelsOf
  <2>3. j \in 1 .. Len(lines)
    BY LenProperties
  <2> QED  BY <1>4, <1>5, <2>1, <2>2, <2>3
<1>6. CASE Fine(r) /\ w.name # << >> /\ ~Admissible(w)
  <2>1. ~Fine(q)
    BY <1>2, <1>4, <1>6, InstructionTaken
  <2> QED  BY <1>6, <2>1
<1>7. CASE Fine(r) /\ (w.name # << >> => Admissible(w))
  <2>1. Labelled(p, w.label, r)
    BY <1>1, <1>2, <1>7, LabelTaken
  <2>2. \/ w.name = << >> /\ q = r
        \/ w.name # << >> /\ Extended(r, w, q)
    BY <1>2, <1>4, <1>7, InstructionTaken
  <2>3. PICK n \in Nat : n = Len(lines) /\ DOMAIN lines = 1 .. n
    BY LenProperties
  <2>4. PICK more : more = Append(lines, w)
    OBVIOUS
  <2>5. /\ more \in Seq(Parted) /\ Len(more) = n + 1 /\ more[n + 1] = w
        /\ \A k \in 1 .. n : more[k] = lines[k]
    BY <2>3, <2>4, AppendProperties
  <2>6. PICK old, new : old = Worded(lines) /\ new = Worded(more)
    OBVIOUS
  <2>7. /\ old \in Seq(Parted)
        /\ w.name = << >> => new = old
        /\ w.name # << >> => new = Append(old, w)
    BY <2>4, <2>6, WordedOneMore
  <2>8. Fine(q) /\ q.labels = r.labels
    BY <2>1, <2>2 DEF Labelled, Extended
  <2>9. PICK S : p.instructions \in Seq(S)
    BY <1>2 DEF Collected
  <2>10. PICK m \in Nat : m = Len(old) /\ m = Len(p.instructions)
    <3>1. Len(old) = Len(p.instructions)
      BY <2>6 DEF Agrees
    <3> QED  BY <2>7, <3>1, LenProperties
  <2>11. /\ Len(q.instructions) = Len(new)
         /\ \A k \in 1 .. Len(new) :
              /\ <<q.instructions[k].op>> = new[k].name
              /\ q.instructions[k].op \in Targeted \cup Pushing =>
                   q.instructions[k].target = new[k].argument
    <3>1. /\ r.instructions = p.instructions
          /\ \A k \in 1 .. m :
               /\ <<p.instructions[k].op>> = old[k].name
               /\ p.instructions[k].op \in Targeted \cup Pushing =>
                    p.instructions[k].target = old[k].argument
      BY <2>1, <2>6, <2>10 DEF Labelled, Agrees
    <3>2. CASE w.name = << >>
      BY <2>2, <2>7, <2>10, <3>1, <3>2
    <3>3. CASE w.name # << >>
      <4>1. PICK e : /\ q.instructions = Append(p.instructions, e)
                     /\ <<e.op>> = w.name
                     /\ e.op \in Targeted \cup Pushing => e.target = w.argument
        BY <2>2, <3>1, <3>3 DEF Extended
      <4>2. PICK a : a = Append(p.instructions, e)
        OBVIOUS
      <4>3. /\ Len(a) = m + 1 /\ a[m + 1] = e
            /\ \A k \in 1 .. m : a[k] = p.instructions[k]
        <5>1. p.instructions \in Seq(S \cup {e}) /\ e \in S \cup {e}
          BY <2>9, SeqMonotonic
        <5> QED  BY <2>10, <4>2, <5>1, AppendProperties
      <4>4. /\ Len(new) = m + 1 /\ new[m + 1] = w
            /\ \A k \in 1 .. m : new[k] = old[k]
        <5>1. new = Append(old, w) /\ old \in Seq(Parted) /\ w \in Parted /\ m = Len(old)
          BY <2>7, <2>10, <3>3
        <5>2. PICK b : b = Append(old, w)
          OBVIOUS
        <5>3. /\ Len(b) = Len(old) + 1 /\ b[Len(old) + 1] = w
              /\ \A k \in 1 .. Len(old) : b[k] = old[k]
          BY <5>1, <5>2, AppendProperties
        <5> QED  BY <5>1, <5>2, <5>3
      <4>5. ASSUME NEW k \in 1 .. m + 1
            PROVE  /\ <<a[k].op>> = new[k].name
                   /\ a[k].op \in Targeted \cup Pushing => a[k].target = new[k].argument
        <5>1. CASE k = m + 1
          BY <4>1, <4>3, <4>4, <5>1
        <5>2. CASE k # m + 1
          <6>1. k \in 1 .. m
            BY <5>2
          <6> QED  BY <3>1, <4>3, <4>4, <6>1
        <5> QED  BY <5>1, <5>2
      <4> QED  BY <4>1, <4>2, <4>3, <4>4, <4>5
    <3> QED  BY <3>2, <3>3
  <2>12. DOMAIN q.labels = LabelsOf(more)
    BY <2>1, <2>4, <2>8, LabelsOneMore DEF Labelled, Agrees
  <2>13. ASSUME NEW k \in 1 .. n + 1, more[k].label # << >>
         PROVE  q.labels[more[k].label] = Len(Worded(SubSeq(more, 1, k - 1)))
    <3>1. CASE k = n + 1
      <4>1. SubSeq(more, 1, n) = lines
        <5>1. 1 \in Nat \ {0} /\ n <= Len(more) /\ 1 <= n + 1 /\ 1 + n = n + 1
          BY <2>5
        <5>2. ASSUME NEW i \in 1 .. n PROVE lines[i] = more[1 + i - 1]
          <6>1. 1 + i - 1 = i
            OBVIOUS
          <6> QED  BY <2>5, <6>1
        <5> QED  BY <2>3, <2>5, <5>1, <5>2, PieceIs
      <4>2. more[k].label = w.label /\ k - 1 = n
        BY <2>5, <3>1
      <4>3. q.labels[w.label] = m
        BY <2>1, <2>8, <2>10, <2>13, <4>2 DEF Labelled
      <4> QED  BY <2>6, <2>10, <4>1, <4>2, <4>3
    <3>2. CASE k # n + 1
      <4>1. k \in 1 .. n /\ k - 1 \in 0 .. n
        BY <3>2
      <4>2. more[k] = lines[k]
        BY <2>5, <4>1
      <4>3. lines[k].label \in DOMAIN p.labels
        BY <2>3, <2>13, <4>1, <4>2 DEF Agrees, LabelsOf
      <4>4. q.labels[lines[k].label] = p.labels[lines[k].label]
        BY <2>1, <2>8, <4>3 DEF Labelled
      <4>5. p.labels[lines[k].label] = Len(Worded(SubSeq(lines, 1, k - 1)))
        BY <2>3, <2>13, <4>1, <4>2 DEF Agrees
      <4>6. SubSeq(more, 1, k - 1) = SubSeq(lines, 1, k - 1)
        <5>1. PICK h \in 0 .. n : h = k - 1
          BY <4>1
        <5>2. PICK u : u = SubSeq(lines, 1, h)
          OBVIOUS
        <5>3. \A i \in 1 .. h : lines[i] \in Parted /\ more[i] = lines[i]
          <6>1. \A i \in 1 .. h : i \in 1 .. n
            OBVIOUS
          <6> QED  BY <2>3, <2>5, <6>1, ElementOfSeq
        <5>4. /\ u \in Seq(Parted) /\ Len(u) = IF 1 <= h THEN h - 1 + 1 ELSE 0
              /\ \A i \in 1 .. h - 1 + 1 : u[i] = lines[1 + i - 1]
          BY <5>2, <5>3, SubSeqProperties
        <5>5. Len(u) = h /\ \A i \in 1 .. h : u[i] = more[1 + i - 1]
          <6>1. ASSUME NEW i \in 1 .. h PROVE u[i] = more[1 + i - 1]
            <7>1. i \in 1 .. h - 1 + 1 /\ 1 + i - 1 = i
              OBVIOUS
            <7> QED  BY <5>3, <5>4, <7>1
          <6>2. Len(u) = h
            BY <5>4
          <6> QED  BY <6>1, <6>2
        <5>6. 1 \in Nat \ {0} /\ h \in Nat /\ h <= Len(more) /\ 1 <= h + 1 /\ 1 + h = h + 1
          BY <2>5
        <5>7. SubSeq(more, 1, h) = u
          BY <2>5, <5>4, <5>5, <5>6, PieceIs
        <5> QED  BY <5>1, <5>2, <5>7
      <4> QED  BY <4>2, <4>4, <4>5, <4>6
    <3> QED  BY <3>1, <3>2
  <2>14. ASSUME NEW j \in 1 .. n + 1, NEW k \in 1 .. n + 1, j < k, more[j].label # << >>
         PROVE  more[j].label # more[k].label
    <3>1. j \in 1 .. n /\ more[j] = lines[j]
      BY <2>5, <2>14
    <3>2. lines[j].label # << >>
      BY <2>14, <3>1
    <3>3. CASE k = n + 1
      <4>1. lines[j].label \in DOMAIN p.labels
        BY <2>3, <3>1, <3>2 DEF Agrees, LabelsOf
      <4>2. w.label # << >> => w.label \notin DOMAIN p.labels
        BY <2>1 DEF Labelled
      <4>3. lines[j].label # w.label
        BY <3>2, <4>1, <4>2
      <4> QED  BY <2>5, <3>1, <3>3, <4>3
    <3>4. CASE k # n + 1
      <4>1. k \in 1 .. n /\ more[k] = lines[k]
        BY <2>5, <3>4
      <4> QED  BY <2>3, <2>14, <3>1, <3>2, <4>1 DEF Agrees
    <3> QED  BY <3>3, <3>4
  <2>15. ASSUME NEW k \in 1 .. n + 1, more[k].name # << >> PROVE Admissible(more[k])
    <3>1. CASE k = n + 1
      BY <1>7, <2>5, <2>15, <3>1
    <3>2. CASE k # n + 1
      <4>1. k \in 1 .. n /\ more[k] = lines[k]
        BY <2>5, <3>2
      <4> QED  BY <2>3, <2>15, <4>1 DEF Agrees
    <3> QED  BY <3>1, <3>2
  <2>16. Agrees(q, more)
    <3>1. Len(more) = n + 1 /\ q.error = ""
      BY <2>5, <2>8 DEF Fine
    <3> QED  BY <2>6, <2>11, <2>12, <2>13, <2>14, <2>15, <3>1, Zenon DEF Agrees
  <2> QED  BY <2>4, <2>16
<1> QED  BY <1>5, <1>6, <1>7

-----------------------------------------------------------------------------
(* The text and the two passes.                                            *)

\* The lines above one, with it, and all of them.
LEMMA LinesAbove ==
  ASSUME NEW lines \in Seq(Parted)
  PROVE  /\ SubSeq(lines, 1, 0) = << >>
         /\ SubSeq(lines, 1, Len(lines)) = lines
         /\ \A n \in 1 .. Len(lines) :
              /\ lines[n] \in Parted
              /\ SubSeq(lines, 1, n - 1) \in Seq(Parted) /\ Len(SubSeq(lines, 1, n - 1)) = n - 1
              /\ \A k \in 1 .. n - 1 : SubSeq(lines, 1, n - 1)[k] = lines[k]
              /\ Append(SubSeq(lines, 1, n - 1), lines[n]) = SubSeq(lines, 1, n)
<1>1. PICK m \in Nat : m = Len(lines)
  BY LenProperties
<1>2. SubSeq(lines, 1, 0) = << >>
  <2>1. << >> \in Seq(Parted) /\ Len(<< >>) = 0
    BY EmptySeq
  <2>2. \A k \in 1 .. 0 : << >>[k] = lines[1 + k - 1]
    OBVIOUS
  <2>3. 0 <= Len(lines) /\ 1 <= 0 + 1 /\ 1 + 0 = 0 + 1 /\ 0 \in Nat /\ 1 \in Nat \ {0}
    BY <1>1
  <2>4. PICK none : none = << >>
    OBVIOUS
  <2> QED  BY <2>1, <2>2, <2>3, <2>4, PieceIs
<1>3. SubSeq(lines, 1, m) = lines
  <2>1. \A k \in 1 .. m : lines[k] = lines[1 + k - 1]
    <3>1. \A k \in 1 .. m : 1 + k - 1 = k
      OBVIOUS
    <3> QED  BY <3>1
  <2>2. m <= Len(lines) /\ 1 <= m + 1 /\ 1 + m = m + 1 /\ 1 \in Nat \ {0}
    BY <1>1
  <2> QED  BY <1>1, <2>1, <2>2, PieceIs
<1>4. ASSUME NEW n \in 1 .. m
      PROVE  /\ lines[n] \in Parted
             /\ SubSeq(lines, 1, n - 1) \in Seq(Parted) /\ Len(SubSeq(lines, 1, n - 1)) = n - 1
             /\ \A k \in 1 .. n - 1 : SubSeq(lines, 1, n - 1)[k] = lines[k]
             /\ Append(SubSeq(lines, 1, n - 1), lines[n]) = SubSeq(lines, 1, n)
  <2>1. \A k \in 1 .. m : lines[k] \in Parted
    BY <1>1, ElementOfSeq
  <2>2. PICK h \in Nat : h = n - 1
    OBVIOUS
  <2>3. PICK u : u = SubSeq(lines, 1, h)
    OBVIOUS
  <2>4. \A k \in 1 .. h : lines[k] \in Parted
    BY <2>1, <2>2
  <2>5. /\ u \in Seq(Parted) /\ Len(u) = IF 1 <= h THEN h - 1 + 1 ELSE 0
        /\ \A k \in 1 .. h - 1 + 1 : u[k] = lines[1 + k - 1]
    BY <2>2, <2>3, <2>4, SubSeqProperties
  <2>6. Len(u) = h
    BY <2>5
  <2>7. \A k \in 1 .. h : u[k] = lines[k]
    <3>1. \A k \in 1 .. h : k \in 1 .. h - 1 + 1 /\ 1 + k - 1 = k
      OBVIOUS
    <3> QED  BY <2>5, <3>1
  <2>8. PICK a : a = Append(u, lines[n])
    OBVIOUS
  <2>9. /\ a \in Seq(Parted) /\ Len(a) = h + 1 /\ a[h + 1] = lines[n]
        /\ \A k \in 1 .. h : a[k] = u[k]
    BY <2>1, <2>5, <2>6, <2>8, AppendProperties
  <2>10. ASSUME NEW k \in 1 .. n PROVE a[k] = lines[1 + k - 1]
    <3>1. 1 + k - 1 = k
      OBVIOUS
    <3>2. CASE k = n
      BY <2>2, <2>9, <3>1, <3>2
    <3>3. CASE k # n
      <4>1. k \in 1 .. h
        BY <2>2, <3>3
      <4> QED  BY <2>7, <2>9, <3>1, <4>1
    <3> QED  BY <3>2, <3>3
  <2>11. n <= Len(lines) /\ 1 <= n + 1 /\ 1 + n = n + 1 /\ 1 \in Nat \ {0} /\ n \in Nat /\ Len(a) = n
    BY <1>1, <2>2, <2>9
  <2>12. SubSeq(lines, 1, n) = a
    BY <2>9, <2>10, <2>11, PieceIs
  <2> QED  BY <2>1, <2>2, <2>3, <2>5, <2>6, <2>7, <2>8, <2>12
<1> QED  BY <1>1, <1>2, <1>3, <1>4

\* What the first pass refuses in a line is a reason to refuse the text.
LEMMA RefusedLine ==
  ASSUME NEW lines \in Seq(Parted), NEW n \in 1 .. Len(lines),
         \/ lines[n].name # << >> /\ ~Admissible(lines[n])
         \/ \E j \in 1 .. n - 1 : lines[j].label # << >> /\ lines[j].label = lines[n].label
  PROVE  NoProgram(lines)
<1>1. PICK m \in Nat : m = Len(lines) /\ DOMAIN lines = 1 .. m
  BY LenProperties
<1>2. CASE lines[n].name # << >> /\ ~Admissible(lines[n])
  <2>1. PICK p \in 1 .. Len(Worded(lines)) : Worded(lines)[p] = lines[n]
    BY <1>2, WordedHas
  <2>2. Worded(lines) \in Seq(Parted)
    BY <1>1, <1>2, WordedOneMore, LinesAbove
  <2>3. p \in DOMAIN Worded(lines)
    BY <2>2, LenProperties
  <2> QED  BY <1>2, <2>1, <2>3 DEF NoProgram
<1>3. CASE \E j \in 1 .. n - 1 : lines[j].label # << >> /\ lines[j].label = lines[n].label
  <2>1. PICK j \in 1 .. n - 1 : lines[j].label # << >> /\ lines[j].label = lines[n].label
    BY <1>3
  <2>2. j \in DOMAIN lines /\ n \in DOMAIN lines /\ j < n
    BY <1>1
  <2> QED  BY <2>1, <2>2 DEF NoProgram
<1> QED  BY <1>2, <1>3

\* What the first pass has collected of all the lines.
Whole(p, lines, m) ==
  /\ m = Len(p.instructions) /\ m = Len(Worded(lines))
  /\ DOMAIN p.instructions = 1 .. m /\ DOMAIN Worded(lines) = 1 .. m
  /\ \A k \in 1 .. m :
       /\ Worded(lines)[k].name = <<p.instructions[k].op>>
       /\ Worded(lines)[k].name[1] = p.instructions[k].op
       /\ p.instructions[k].op \in Targeted => p.instructions[k].target = Worded(lines)[k].argument
       /\ Admissible(Worded(lines)[k])
  /\ DOMAIN p.labels = LabelsOf(lines)

LEMMA WholeIs ==
  ASSUME NEW lines \in Seq(Parted), NEW p, Collected(p), Agrees(p, lines)
  PROVE  /\ Worded(lines) \in Seq(Parted)
         /\ \E m \in Nat : Whole(p, lines, m)
<1>1. PICK w \in Parted : w = [label |-> << >>, gap |-> << >>, name |-> << >>,
                              argument |-> << >>, comment |-> << >>]
  BY EmptySeq DEF Parted, Strings, Marks
<1>2. PICK all : all = Worded(lines)
  OBVIOUS
<1>3. all \in Seq(Parted)
  BY <1>1, <1>2, WordedOneMore
<1>4. PICK m \in Nat : m = Len(all) /\ DOMAIN all = 1 .. m
  BY <1>3, LenProperties
<1>5. PICK S : p.instructions \in Seq(S)
  BY DEF Collected
<1>6. m = Len(p.instructions) /\ DOMAIN p.labels = LabelsOf(lines)
  BY <1>2, <1>4 DEF Agrees
<1>7. DOMAIN p.instructions = 1 .. m
  BY <1>5, <1>6, LenProperties
<1>8. ASSUME NEW k \in 1 .. m
      PROVE  /\ all[k].name = <<p.instructions[k].op>>
             /\ all[k].name[1] = p.instructions[k].op
             /\ p.instructions[k].op \in Targeted => p.instructions[k].target = all[k].argument
             /\ Admissible(all[k])
  <2>1. all[k].name = <<p.instructions[k].op>>
    BY <1>2, <1>4, <1>8 DEF Agrees
  <2>2. all[k].name[1] = p.instructions[k].op
    BY <2>1
  <2>3. p.instructions[k].op \in Targeted => p.instructions[k].target = all[k].argument
    BY <1>2, <1>4, <1>8 DEF Agrees
  <2>4. PICK i \in 1 .. Len(lines) : lines[i].name # << >> /\ all[k] = lines[i]
    BY <1>2, <1>4, <1>8, WordedHas
  <2>5. Admissible(lines[i])
    BY <2>4 DEF Agrees
  <2> QED  BY <2>1, <2>2, <2>3, <2>4, <2>5
<1>9. Whole(p, lines, m)
  BY <1>2, <1>4, <1>6, <1>7, <1>8 DEF Whole
<1> QED  BY <1>2, <1>3, <1>9

\* What the checks behind the first pass find is what is wrong with the text.
LEMMA ChecksAgree ==
  ASSUME NEW lines \in Seq(Parted), NEW p, Collected(p), Agrees(p, lines)
  PROVE  NoProgram(lines) <=> \/ ~EndsWell(p.instructions)
                              \/ Undeclared(p)
                              \/ p.instructions = << >>
<1>1. PICK m \in Nat : Whole(p, lines, m)
  BY WholeIs
<1>2. PICK all, list1 : all = Worded(lines) /\ list1 = p.instructions
  OBVIOUS
<1>3. /\ m = Len(list1) /\ m = Len(all) /\ DOMAIN list1 = 1 .. m /\ DOMAIN all = 1 .. m
      /\ \A k \in 1 .. m :
           /\ all[k].name[1] = list1[k].op
           /\ list1[k].op \in Targeted => list1[k].target = all[k].argument
           /\ Admissible(all[k])
      /\ DOMAIN p.labels = LabelsOf(lines)
  BY <1>1, <1>2 DEF Whole
<1>4. PICK S : list1 \in Seq(S)
  BY <1>2 DEF Collected
<1>5. all \in Seq(Parted)
  BY <1>2, WholeIs
<1>6. list1 = << >> <=> m = 0
  BY <1>3, <1>4, EmptySeq
<1>7. all = << >> <=> m = 0
  BY <1>3, <1>5, EmptySeq
<1>8. m # 0 => m \in 1 .. m /\ Last(list1) = list1[m] /\ Last(all) = all[m]
  BY <1>3 DEF Last
<1>9. m # 0 => (~EndsWell(list1) <=> Last(all).name[1] \notin {"EXT", "TKL", "JMP"})
  BY <1>3, <1>6, <1>8 DEF EndsWell
<1>10. Undeclared(p) <=> \E k \in 1 .. m : /\ all[k].name[1] \in Targeted
                                           /\ all[k].argument \notin LabelsOf(lines)
  BY <1>2, <1>3 DEF Undeclared
<1>11. m = 0 => EndsWell(list1)
  BY <1>6 DEF EndsWell
<1>12. ASSUME NEW j \in DOMAIN lines, NEW k \in DOMAIN lines,
              j < k, lines[j].label # << >>
       PROVE  lines[j].label # lines[k].label
  <2>1. DOMAIN lines = 1 .. Len(lines)
    BY LenProperties
  <2> QED  BY <1>12, <2>1 DEF Agrees
<1>13. NoProgram(lines) <=>
         \/ m = 0
         \/ Last(all).name[1] \notin {"EXT", "TKL", "JMP"}
         \/ Undeclared(p)
  BY <1>2, <1>3, <1>7, <1>10, <1>12, Zenon DEF NoProgram
<1> QED  BY <1>2, <1>6, <1>9, <1>11, <1>13

SoFar == SubSeq(source, 1, next - 1)

\* What is collected agrees with the lines that have been read, and what has been
\* decided is so.
ReadingInv ==
  /\ Fine(pass) => Agrees(pass, SoFar)
  /\ phase \in {"lines", "labels", "run"} => Fine(pass)
  /\ phase \in {"labels", "run"} => next = Len(source) + 1
  /\ phase = "run" => ~NoProgram(source)
  /\ phase = "exit" => ~Fine(pass) /\ NoProgram(source)

\* No line, nothing collected.
LEMMA NothingAgrees == Agrees(Nothing, << >>)
<1>1. DOMAIN << >> = {} /\ Len(<< >>) = 0
  OBVIOUS
<1>2. Worded(<< >>) = << >>
  <2>1. << >> \in Seq(Parted) /\ Words(<< >>) \in Seq(Seq(Parted)) /\ Len(Words(<< >>)) = 0
        /\ Worded(<< >>) = FlattenSeq(Words(<< >>))
    BY <1>1, EmptySeq, WordsAre
  <2>2. Words(<< >>) = << >>
    BY <2>1, EmptySeq
  <2> QED  BY <2>1, <2>2, FlattenNone
<1>3. LabelsOf(<< >>) = {}
  BY <1>1 DEF LabelsOf
<1> QED  BY <1>1, <1>2, <1>3 DEF Agrees, Nothing

LEMMA InitReading == Init => ReadingInv
<1> SUFFICES ASSUME Init PROVE ReadingInv
  OBVIOUS
<1>1. source \in Seq(Parted)
  BY TextsAssumption DEF Init, Parted
<1>2. next - 1 = 0 /\ SoFar = << >>
  BY <1>1, LinesAbove DEF Init, SoFar
<1>3. Agrees(pass, SoFar)
  BY <1>2, NothingAgrees DEF Init
<1>4. Fine(pass) /\ phase = "lines"
  BY DEF Init, Fine, Nothing
<1> QED  BY <1>3, <1>4 DEF ReadingInv

\* A line of the text is read and collected, or it is left out and holds nothing.
LEMMA NextLine ==
  ASSUME source \in Texts, IInv, ReadingInv, Reading
  PROVE  /\ source \in Seq(Parted) /\ next \in 1 .. Len(source) /\ source[next] \in Parted
         /\ code = Statement(source[next])
         /\ Append(SoFar, source[next]) = SubSeq(source, 1, next + 1 - 1)
         /\ SoFar \in Seq(Parted) /\ Len(SoFar) = next - 1
         /\ \A k \in 1 .. next - 1 : SoFar[k] = source[k]
         /\ WellWritten(source[next])
<1>1. source \in Seq(Parted)
  BY TextsAssumption DEF Parted
<1>2. next \in 1 .. Len(source)
  <2>1. Len(source) \in Nat
    BY <1>1, LenProperties
  <2> QED  BY <2>1 DEF IInv, TypeOK, Reading
<1>3. WellWritten(source[next])
  BY <1>2, WritingAssumption
<1>4. /\ source[next] \in Parted
      /\ SoFar \in Seq(Parted) /\ Len(SoFar) = next - 1
      /\ \A k \in 1 .. next - 1 : SoFar[k] = source[k]
      /\ Append(SoFar, source[next]) = SubSeq(source, 1, next)
  BY <1>1, <1>2, LinesAbove DEF SoFar
<1>5. code = Statement(source[next])
  BY <1>3, <1>4, CodeIs DEF code
<1>6. next + 1 - 1 = next
  BY <1>2
<1> QED  BY <1>1, <1>2, <1>3, <1>4, <1>5, <1>6

\* A line without label and name changes nothing that is compared.
LEMMA NothingMore ==
  ASSUME NEW lines \in Seq(Parted), NEW w \in Parted, w.label = << >>, w.name = << >>,
         NEW p, Collected(p), Agrees(p, lines)
  PROVE  Agrees(p, Append(lines, w))
<1>1. PICK r : r = Read(w)
  OBVIOUS
<1>2. r.label = << >> /\ r.name = ""
  BY <1>1 DEF Read, Line
<1>3. PICK q : q = TakeLine(p, r)
  OBVIOUS
<1>4. q = p
  BY <1>2, <1>3, Zenon DEF TakeLine, TakeLabel, TakeInstruction
<1>5. Fine(q)
  BY <1>4 DEF Agrees, Fine
<1> QED  BY <1>1, <1>3, <1>4, <1>5, LineAgrees

\* Every action keeps it.
LEMMA ReadingKept == source \in Texts /\ IInv /\ ReadingInv /\ [Next]_vars => ReadingInv'
<1> SUFFICES ASSUME source \in Texts, IInv, ReadingInv, [Next]_vars PROVE ReadingInv'
  OBVIOUS
<1>1. source \in Seq(Parted)
  BY TextsAssumption DEF Parted
<1>2. Collected(pass)
  BY DEF IInv
<1>3. CASE UNCHANGED vars
  BY <1>3, Zenon DEF vars, ReadingInv, SoFar
<1>4. CASE SkipLine
  <2>1. Reading /\ code = << >> /\ next' = next + 1 /\ UNCHANGED <<source, phase, pass>>
    BY <1>4 DEF SkipLine
  <2>2. source[next].label = << >> /\ source[next].name = << >>
    BY <2>1, NextLine, NothingToRead
  <2>3. Fine(pass) => Agrees(pass, Append(SoFar, source[next]))
    BY <1>2, <2>1, <2>2, NextLine, NothingMore DEF ReadingInv
  <2>4. SoFar' = Append(SoFar, source[next])
    BY <2>1, NextLine DEF SoFar
  <2>5. phase = "lines"
    BY <2>1 DEF Reading
  <2> QED  BY <2>1, <2>3, <2>4, <2>5, Zenon DEF ReadingInv
<1>5. CASE NothingButColons
  <2>1. Reading /\ phase' = "undefined" /\ UNCHANGED <<source, next, pass>>
    BY <1>5 DEF NothingButColons
  <2>2. SoFar' = SoFar
    BY <2>1 DEF SoFar
  <2> QED  BY <2>1, <2>2 DEF ReadingInv
<1>6. CASE ReadLine
  <2>1. /\ Reading /\ next' = next + 1 /\ source' = source
        /\ pass' = TakeLine(pass, Parts(code))
        /\ phase' = IF ~Fine(pass') THEN "exit" ELSE phase
    BY <1>6, Zenon DEF ReadLine, Fine
  <2>2. phase = "lines" /\ Fine(pass) /\ Agrees(pass, SoFar)
    BY <2>1 DEF Reading, ReadingInv
  <2>3. pass' = TakeLine(pass, Read(source[next]))
    BY <2>1, NextLine, LineIsRead
  <2>4. \/ Agrees(pass', Append(SoFar, source[next]))
        \/ /\ ~Fine(pass')
           /\ \/ source[next].name # << >> /\ ~Admissible(source[next])
              \/ \E j \in 1 .. Len(SoFar) : /\ SoFar[j].label # << >>
                                            /\ SoFar[j].label = source[next].label
    BY <1>2, <2>1, <2>2, <2>3, NextLine, LineAgrees
  <2>5. SoFar' = Append(SoFar, source[next])
    BY <2>1, NextLine DEF SoFar
  <2>6. CASE Fine(pass')
    BY <2>1, <2>2, <2>4, <2>5, <2>6 DEF ReadingInv
  <2>7. CASE ~Fine(pass')
    <3>1. ~Agrees(pass', Append(SoFar, source[next]))
      BY <2>7 DEF Agrees, Fine
    <3>2. next \in 1 .. Len(source) /\ Len(SoFar) = next - 1 /\ \A k \in 1 .. next - 1 : SoFar[k] = source[k]
      BY <2>1, NextLine
    <3>3. NoProgram(source)
      BY <1>1, <2>4, <3>1, <3>2, RefusedLine
    <3>4. NoProgram(source')
      BY <2>1, <3>3
    <3> QED  BY <2>1, <2>7, <3>4 DEF ReadingInv
  <2> QED  BY <2>6, <2>7
<1>7. ASSUME NEW message, message # "", Refuse(message), UNCHANGED <<source, next>>, NoProgram(source)
      PROVE  ReadingInv'
  <2>1. phase' = "exit" /\ pass' = [pass EXCEPT !.error = message] /\ source' = source
    BY <1>7 DEF Refuse
  <2>2. pass'.error = message
    BY <1>2, <2>1 DEF Collected
  <2>3. ~Fine(pass')
    BY <1>7, <2>2 DEF Fine
  <2>4. NoProgram(source')
    BY <1>7, <2>1
  <2> QED  BY <2>1, <2>3, <2>4 DEF ReadingInv
<1>8. ASSUME next = Len(source) + 1, phase \in {"lines", "labels"}
      PROVE  /\ Agrees(pass, source) /\ Fine(pass) /\ SoFar = source
             /\ NoProgram(source) <=> \/ ~EndsWell(pass.instructions)
                                      \/ Undeclared(pass)
                                      \/ pass.instructions = << >>
  <2>1. Len(source) \in Nat /\ next - 1 = Len(source)
    <3>1. PICK n \in Nat : n = Len(source)
      BY <1>1, LenProperties
    <3> QED  BY <1>8, <3>1
  <2>2. SoFar = source
    BY <1>1, <2>1, LinesAbove DEF SoFar
  <2>3. Fine(pass) /\ Agrees(pass, source)
    BY <1>8, <2>2 DEF ReadingInv
  <2> QED  BY <1>1, <1>2, <2>2, <2>3, ChecksAgree
<1>9. CASE CheckEnd
  <2>1. phase = "lines" /\ next = Len(source) + 1 /\ UNCHANGED <<source, next>>
    <3>1. PICK n \in Nat : n = Len(source)
      BY <1>1, LenProperties
    <3>2. next \in 1 .. n + 1 /\ next > n
      BY <1>9, <3>1 DEF CheckEnd, IInv, TypeOK
    <3>3. next = n + 1
      BY <3>2
    <3> QED  BY <1>9, <3>1, <3>3 DEF CheckEnd
  <2>2. CASE phase' = "labels" /\ pass' = pass
    <3>1. SoFar' = SoFar /\ Fine(pass') /\ Agrees(pass', SoFar)
      BY <1>8, <2>1, <2>2 DEF SoFar
    <3> QED  BY <2>1, <2>2, <3>1 DEF ReadingInv
  <2>3. CASE /\ ~EndsWell(pass.instructions)
             /\ Refuse("does not end in an exit instruction or loop")
    BY <1>7, <1>8, <2>1, <2>3
  <2> QED  BY <1>9, <2>2, <2>3 DEF CheckEnd
<1>10. CASE Resolve
  <2>1. phase = "labels" /\ UNCHANGED <<source, next>> /\ EndsWell(pass.instructions)
    BY <1>10 DEF Resolve, IInv
  <2>2. next = Len(source) + 1
    BY <2>1 DEF ReadingInv
  <2>3. CASE Undeclared(pass) /\ Refuse("undeclared label")
    BY <1>7, <1>8, <2>1, <2>2, <2>3
  <2>4. CASE pass.instructions = << >> /\ Refuse("empty program")
    BY <1>7, <1>8, <2>1, <2>2, <2>4
  <2>5. CASE ~Undeclared(pass) /\ pass.instructions # << >> /\ phase' = "run" /\ pass' = pass
    <3>1. SoFar' = SoFar /\ Fine(pass') /\ Agrees(pass', SoFar) /\ ~NoProgram(source)
      BY <1>8, <2>1, <2>2, <2>5 DEF SoFar
    <3>2. ~NoProgram(source')
      BY <2>1, <3>1
    <3> QED  BY <2>1, <2>2, <2>5, <3>1, <3>2 DEF ReadingInv
  <2> QED  BY <1>10, <2>3, <2>4, <2>5 DEF Resolve
<1>11. CASE Advance
  BY <1>11, Zenon DEF Advance, ReadingInv, SoFar
<1> QED  BY <1>3, <1>4, <1>5, <1>6, <1>9, <1>10, <1>11 DEF Next

LEMMA ReadingHolds == Spec => []ReadingInv
<1> QED  BY InitReading, ReadingKept, InvHolds, SourceStays, PTL DEF Spec

\* What is read so far is lines of the text.
LEMMA ReadLines ==
  ASSUME source \in Texts, IInv
  PROVE  SoFar \in Seq(Parted)
<1>1. source \in Seq(Parted)
  BY TextsAssumption DEF Parted
<1>2. PICK n \in Nat : n = Len(source)
  BY <1>1, LenProperties
<1>3. next \in 1 .. n + 1
  BY <1>2 DEF IInv, TypeOK
<1>4. CASE next = n + 1
  <2>1. next - 1 = n
    BY <1>2, <1>4
  <2> QED  BY <1>1, <1>2, <2>1, LinesAbove DEF SoFar
<1>5. CASE next \in 1 .. n
  BY <1>1, <1>2, <1>5, LinesAbove DEF SoFar
<1> QED  BY <1>3, <1>4, <1>5

\* The first pass has collected exactly what is written, for every text: comments,
\* blanks and colons make no difference, and a label may be used above its line.
\* A comment begins where the code has it begin, see IsUncommented.
THEOREM WrittenIsRead == Spec => []ReadAsWritten
<1>1. source \in Texts /\ IInv /\ ReadingInv => ReadAsWritten
  <2> SUFFICES ASSUME source \in Texts, IInv, ReadingInv PROVE ReadAsWritten
    OBVIOUS
  <2>1. SUFFICES ASSUME Fine(pass) PROVE ReadAsWritten
    BY Zenon DEF ReadAsWritten, Fine
  <2>2. Agrees(pass, SoFar) /\ Collected(pass) /\ SoFar \in Seq(Parted)
    BY <2>1, ReadLines DEF ReadingInv, IInv
  <2>3. PICK S : pass.instructions \in Seq(S)
    BY <2>2 DEF Collected
  <2>4. /\ DOMAIN pass.instructions = 1 .. Len(pass.instructions)
        /\ DOMAIN SoFar = 1 .. Len(SoFar)
    BY <2>2, <2>3, LenProperties
  <2>5. /\ Len(pass.instructions) = Len(Worded(SoFar))
        /\ \A k \in DOMAIN pass.instructions :
             /\ <<pass.instructions[k].op>> = Worded(SoFar)[k].name
             /\ pass.instructions[k].op \in Targeted \cup Pushing =>
                  pass.instructions[k].target = Worded(SoFar)[k].argument
    BY <2>2, <2>4, Zenon DEF Agrees
  <2>6. /\ DOMAIN pass.labels = LabelsOf(SoFar)
        /\ \A k \in DOMAIN SoFar : SoFar[k].label # << >> =>
             pass.labels[SoFar[k].label] = Len(Worded(SubSeq(SoFar, 1, k - 1)))
    BY <2>2, <2>4, Zenon DEF Agrees
  <2> QED  BY <2>5, <2>6, Zenon DEF ReadAsWritten, SoFar
<1> QED  BY <1>1, InvHolds, ReadingHolds, SourceStays, PTL

\* A text runs exactly if it is a program, for every text: each of the five causes is
\* found by the pass that looks for it, and nothing else makes a pass refuse.  No text
\* is left out; what follows a closing quotation mark and a semicolon is part of the
\* statement, as in the code.
THEOREM RefusalIsJustified == Spec => []RefusedForCause
<1>1. ReadingInv => RefusedForCause
  BY DEF ReadingInv, RefusedForCause
<1> QED  BY <1>1, ReadingHolds, PTL
=============================================================================
