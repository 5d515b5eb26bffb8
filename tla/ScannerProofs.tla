---------------------------- MODULE ScannerProofs ----------------------------
(***************************************************************************)
(* The scan of a grid, for boards of every size and every text: each       *)
(* fragment is filled once, the fragments do what the grid does, and so    *)
(* does the listing that is printed of them, once it has been assembled.   *)
(***************************************************************************)
EXTENDS Disassembly, GridProofs

-----------------------------------------------------------------------------
(* Types.                                                                  *)

\* The names of operations.  (The provers do not know of a name that it is a
\* STRING.)
Words == (STRING \ {""}) \cup {"NOP", "TKL", "TJN"}

\* A board whose cells are those of a text.
FromAText(p) ==
  /\ IsBoard(p)
  /\ \A coords \in Board(p.side) : CellAt(p, coords) \in Words \ Directed

Locations    == Nat \X Nat
Instructions == [op : Words \ {"BNG", "JMP", "TSP"}, number : Words]
                  \cup [op : {"JMP"}, next : Locations]
                  \cup [op : {"BNG", "TSP"}, choice : Locations \X Locations]
Optional     == {<< >>} \cup { <<code>> : code \in Seq(Instructions) }

ScanTypes ==
  /\ FromAText(program)
  /\ phase \in {"take", "trace", "done"}
  /\ fragments \in Seq(Optional)
  /\ location_map \in [DOMAIN location_map -> Locations]
  /\ DOMAIN location_map \subseteq GridIPs(program)
  /\ unvisited_fragments \in Seq(Nat \X GridIPs(program))
  /\ index \in 0 .. Len(fragments) - 1
  /\ ip \in GridIPs(program)
  /\ fragment \in Seq(Instructions)

\* EveryFragmentOnce, without sequences: the indices on the worklist differ from
\* each other and from the current one, and are those of the empty fragments.
WorkInv ==
  LET u == unvisited_fragments
  IN /\ \A j, k \in 1 .. Len(u) : u[j][1] = u[k][1] => j = k
     /\ phase = "trace" => \A k \in 1 .. Len(u) : u[k][1] # index
     /\ \A k \in 0 .. Len(fragments) - 1 :
          fragments[k + 1] = << >>
            <=> \/ \E j \in 1 .. Len(u) : u[j][1] = k
                \/ phase = "trace" /\ k = index
     /\ \A j \in 1 .. Len(u) : u[j][1] \in 0 .. Len(fragments) - 1
     /\ phase = "done" => u = << >>

\* The scan begins with one empty fragment, to be filled from the north corner.
LEMMA InitTypes == Init => ScanTypes /\ WorkInv
<1> SUFFICES ASSUME Init PROVE ScanTypes /\ WorkInv
  OBVIOUS
<1>1. PICK source \in Sources : program = MakeProgram(source)
  BY DEF Init
<1>2. Stripped(source) \in Seq(STRING \ (Directed \cup {""})) /\ Stripped(source) \in Seq(STRING)
  BY SourcesAreTexts, SeqMonotonic
<1>3. IsBoard(program)
  BY <1>1, <1>2, TextsMakeBoards DEF Init
<1>4. FromAText(program)
  <2>1. "NOP" \in Words \ Directed /\ STRING \ (Directed \cup {""}) \subseteq Words \ Directed
    BY DEF Words, Directed
  <2>2. Stripped(source) \in Seq(Words \ Directed)
    BY <1>2, <2>1, SeqMonotonic
  <2> QED  BY <1>1, <1>3, <2>1, <2>2, CellsOfText DEF FromAText, IsBoard
<1>5. GridStart \in GridIPs(program)
  BY <1>3, MakesBoard DEF GridStart, GridIPs, Directions, IsBoard
<1>6. /\ fragments \in Seq(Optional) /\ Len(fragments) = 1 /\ fragments[1] = << >>
      /\ fragment \in Seq(Instructions)
  BY EmptySeq DEF Init, Optional
<1>7. /\ unvisited_fragments \in Seq(Nat \X GridIPs(program))
      /\ Len(unvisited_fragments) = 1 /\ unvisited_fragments[1] = <<0, GridStart>>
  BY <1>5 DEF Init
<1>8. DOMAIN location_map = {} /\ location_map \in [DOMAIN location_map -> Locations]
  BY DEF Init
<1>9. ScanTypes
  BY <1>4, <1>5, <1>6, <1>7, <1>8 DEF ScanTypes, Init
<1>10. WorkInv
  BY <1>6, <1>7 DEF WorkInv, Init
<1> QED  BY <1>9, <1>10

\* What a plain instruction holds.
LEMMA PlainTypes ==
  ASSUME ScanTypes
  PROVE  /\ op \in Words \ Directed /\ operation \in Words \ {"BNG", "JMP", "TSP"}
         /\ plain \in Instructions /\ plain.op = operation
<1>1. ip.coords \in Board(program.side) /\ Step(ip, program.side) \in GridIPs(program)
  BY IPs, StepWalks DEF ScanTypes, FromAText
<1>2. op \in Words \ Directed /\ CellAt(program, Step(ip, program.side).coords) \in Words
  BY <1>1, IPs DEF op, ScanTypes, FromAText
<1>3. operation \in Words \ {"BNG", "JMP", "TSP"}
  BY <1>2 DEF operation, DirectedOp, Words, Directed
<1> QED  BY <1>2, <1>3 DEF plain, Plain, Instructions

\* Tracing leads to an IP of the board.
LEMMA AdvanceTypes ==
  ASSUME ScanTypes, NEW x \in GridIPs(program), NEW goLeft \in BOOLEAN
  PROVE  GridAdvance(program, x, goLeft) \in GridIPs(program)
BY AdvanceWalks DEF ScanTypes, FromAText

-----------------------------------------------------------------------------
(* The pieces of the actions.                                              *)

\* EndsWith fills the current fragment and adds empty ones behind the last.
LEMMA EndsTypes ==
  ASSUME ScanTypes, NEW instr \in Instructions, NEW more \in Seq({<< >>}),
         EndsWith(instr, more)
  PROVE  /\ fragments' \in Seq(Optional)
         /\ Len(fragments) \in Nat /\ Len(more) \in Nat
         /\ Len(fragments') = Len(fragments) + Len(more)
         /\ fragments'[index + 1] = <<Append(fragment, instr)>>
         /\ \A k \in 1 .. Len(fragments) : k # index + 1 => fragments'[k] = fragments[k]
         /\ \A k \in Len(fragments) + 1 .. Len(fragments) + Len(more) : fragments'[k] = << >>
         /\ phase' = "take" /\ UNCHANGED <<program, index, ip, fragment>>
<1> DEFINE filled == <<Append(fragment, instr)>>
           f == [fragments EXCEPT ![index + 1] = filled]
<1>1. filled \in Optional
  BY AppendProperties DEF ScanTypes, Optional
<1>2. Len(fragments) \in Nat /\ index + 1 \in 1 .. Len(fragments)
  BY LenProperties DEF ScanTypes
<1>3. /\ f \in Seq(Optional) /\ Len(f) = Len(fragments)
      /\ \A j \in 1 .. Len(fragments) : f[j] = IF j = index + 1 THEN filled ELSE fragments[j]
  BY <1>1, <1>2, ExceptSeq DEF ScanTypes
<1>4. more \in Seq(Optional) /\ Len(more) \in Nat /\ \A k \in 1 .. Len(more) : more[k] = << >>
  BY SeqMonotonic, LenProperties, ElementOfSeq DEF Optional
<1>5. fragments' = f \o more /\ phase' = "take" /\ UNCHANGED <<program, index, ip, fragment>>
  BY DEF EndsWith, current
<1> HIDE DEF f, filled
<1>6. /\ f \o more \in Seq(Optional) /\ Len(f \o more) = Len(f) + Len(more)
      /\ \A i \in 1 .. Len(f) + Len(more) :
           (f \o more)[i] = IF i <= Len(f) THEN f[i] ELSE more[i - Len(f)]
  BY <1>3, <1>4, ConcatProperties
<1>7. \A k \in Len(fragments) + 1 .. Len(fragments) + Len(more) :
        k - Len(fragments) \in 1 .. Len(more) /\ ~(k <= Len(fragments))
  BY <1>2, <1>4
<1>8. fragments' \in Seq(Optional) /\ Len(fragments') = Len(fragments) + Len(more)
  BY <1>3, <1>5, <1>6
<1>9. \A k \in 1 .. Len(fragments) : fragments'[k] = f[k]
  BY <1>2, <1>3, <1>4, <1>5, <1>6
<1>10. \A k \in Len(fragments) + 1 .. Len(fragments) + Len(more) : fragments'[k] = << >>
  <2> SUFFICES ASSUME NEW k \in Len(fragments) + 1 .. Len(fragments) + Len(more)
               PROVE  fragments'[k] = << >>
    OBVIOUS
  <2>1. k \in 1 .. Len(f) + Len(more)
    BY <1>2, <1>3, <1>4
  <2>2. fragments'[k] = more[k - Len(f)]
    BY <1>3, <1>5, <1>6, <1>7, <2>1
  <2> QED  BY <1>3, <1>4, <1>7, <2>2
<1> QED  BY <1>2, <1>3, <1>4, <1>5, <1>8, <1>9, <1>10 DEF filled

\* No fragments are added.
LEMMA NoMore == << >> \in Seq({<< >>}) /\ Len(<< >>) = 0
  BY EmptySeq

\* Located adds one IP to the map and keeps the others.
LEMMA LocatedTypes ==
  ASSUME ScanTypes, NEW x \in GridIPs(program), NEW location \in Locations,
         Located(x, location), x \notin DOMAIN location_map
  PROVE  /\ location_map' \in [DOMAIN location_map' -> Locations]
         /\ DOMAIN location_map' = DOMAIN location_map \cup {x}
         /\ DOMAIN location_map' \subseteq GridIPs(program)
         /\ location_map'[x] = location
         /\ \A y \in DOMAIN location_map : location_map'[y] = location_map[y]
  BY DEF Located, ScanTypes

LEMMA HereTypes == ScanTypes => here \in Locations
  BY LenProperties DEF ScanTypes, here, Locations

\* Taking the last fragment from the worklist.
LEMMA TakeTypes ==
  ASSUME ScanTypes, Take
  PROVE  LET u == unvisited_fragments
         IN /\ Len(u) \in Nat \ {0}
            /\ u[Len(u)] = <<index', ip'>> /\ index' \in Nat /\ ip' \in GridIPs(program)
            /\ unvisited_fragments' \in Seq(Nat \X GridIPs(program))
            /\ Len(unvisited_fragments') = Len(u) - 1
            /\ \A k \in 1 .. Len(u) - 1 : unvisited_fragments'[k] = u[k]
<1> DEFINE u == unvisited_fragments
           S == Nat \X GridIPs(program)
<1>1. u \in Seq(S) /\ u # << >>
  BY DEF ScanTypes, Take
<1> HIDE DEF S
<1>2. Len(u) \in Nat \ {0} /\ u[Len(u)] \in S
  BY <1>1, LenProperties, EmptySeq, ElementOfSeq
<1>3. index' = u[Len(u)][1] /\ ip' = u[Len(u)][2] /\ unvisited_fragments' = SubSeq(u, 1, Len(u) - 1)
  BY DEF Take, Last, Front
<1>4. \A i \in 1 .. Len(u) - 1 : u[i] \in S
  BY <1>1, <1>2, ElementOfSeq
<1>5. /\ SubSeq(u, 1, Len(u) - 1) \in Seq(S)
      /\ Len(SubSeq(u, 1, Len(u) - 1)) = Len(u) - 1
      /\ \A i \in 1 .. Len(u) - 1 : SubSeq(u, 1, Len(u) - 1)[i] = u[i]
  <2>1. 1 \in Int /\ Len(u) - 1 \in Int
    BY <1>2
  <2> HIDE DEF u
  <2>2. /\ SubSeq(u, 1, Len(u) - 1) \in Seq(S)
        /\ Len(SubSeq(u, 1, Len(u) - 1)) = IF 1 <= Len(u) - 1 THEN Len(u) - 1 - 1 + 1 ELSE 0
        /\ \A i \in 1 .. Len(u) - 1 - 1 + 1 : SubSeq(u, 1, Len(u) - 1)[i] = u[1 + i - 1]
    BY <1>4, <2>1, SubSeqProperties
  <2> DEFINE w == SubSeq(u, 1, Len(u) - 1)
             m == Len(u)
  <2>3. m \in Nat \ {0}
    BY <1>2
  <2>4. /\ w \in Seq(S) /\ Len(w) = IF 1 <= m - 1 THEN m - 1 - 1 + 1 ELSE 0
        /\ \A i \in 1 .. m - 1 - 1 + 1 : w[i] = u[1 + i - 1]
    BY <2>2
  <2> HIDE DEF w, m
  <2>5. Len(w) = m - 1 /\ m - 1 - 1 + 1 = m - 1 /\ \A i \in 1 .. m - 1 : 1 + i - 1 = i
    BY <2>3, <2>4
  <2>6. w \in Seq(S) /\ Len(w) = m - 1 /\ \A i \in 1 .. m - 1 : w[i] = u[i]
    BY <2>4, <2>5
  <2> QED  BY <2>6 DEF w, m
<1> QED  BY <1>2, <1>3, <1>5 DEF S

\* The two ways out of a branch point, and whether they get a fragment.
FirstIP  == GridAdvance(program, ip, FALSE)
SecondIP == GridAdvance(program, ip, TRUE)

Fresh(x)      == IF x \in DOMAIN location_map' THEN 0 ELSE 1
Dest(x, k)    == IF Fresh(x) = 0 THEN location_map'[x] ELSE <<k, 0>>
FirstDest     == Dest(FirstIP, Len(fragments))
SecondDest    == Dest(SecondIP, Len(fragments) + Fresh(FirstIP))
BranchOp      == IF op \in ThreadOps THEN "TSP" ELSE "BNG"
BranchInstr   == ChoiceTo(BranchOp, FirstDest, SecondDest)
NewOnes       == [k \in 1 .. Fresh(FirstIP) + Fresh(SecondIP) |-> << >>]
InFront       == [k \in 1 .. Fresh(SecondIP) |->
                    <<Len(fragments) + Fresh(FirstIP), SecondIP>>]
Behind        == [k \in 1 .. Fresh(FirstIP) |-> <<Len(fragments), FirstIP>>]

\* BranchPoint in these terms.
LEMMA BranchPointIs ==
  ASSUME BranchPoint
  PROVE  /\ New /\ IsBranch(op, ip.dir) /\ Located(ip, here)
         /\ unvisited_fragments' = InFront \o unvisited_fragments \o Behind
         /\ EndsWith(BranchInstr, NewOnes)
BY DEF BranchPoint, InFront, Behind, NewOnes, BranchInstr, BranchOp, FirstDest, SecondDest,
       Dest, Fresh, FirstIP, SecondIP, SecondPlace

\* The types of these.
LEMMA BranchTypes ==
  ASSUME ScanTypes, BranchPoint
  PROVE  /\ FirstIP \in GridIPs(program) /\ SecondIP \in GridIPs(program)
         /\ Fresh(FirstIP) \in {0, 1} /\ Fresh(SecondIP) \in {0, 1}
         /\ FirstDest \in Locations /\ SecondDest \in Locations
         /\ BranchInstr \in Instructions
         /\ NewOnes \in Seq({<< >>}) /\ Len(NewOnes) = Fresh(FirstIP) + Fresh(SecondIP)
<1>1. FirstIP \in GridIPs(program) /\ SecondIP \in GridIPs(program)
  BY AdvanceTypes DEF FirstIP, SecondIP, ScanTypes
<1>2. Fresh(FirstIP) \in {0, 1} /\ Fresh(SecondIP) \in {0, 1}
  BY DEF Fresh
<1>3. here \in Locations /\ Located(ip, here) /\ ip \notin DOMAIN location_map
  BY HereTypes, BranchPointIs DEF New
<1>4. location_map' \in [DOMAIN location_map' -> Locations]
  BY <1>3, LocatedTypes DEF ScanTypes
<1>5. Len(fragments) \in Nat
  BY LenProperties DEF ScanTypes
<1>6. FirstDest \in Locations /\ SecondDest \in Locations
  <2>1. ASSUME NEW x, NEW k \in Nat PROVE Dest(x, k) \in Locations
    BY <1>4 DEF Dest, Fresh, Locations
  <2> QED  BY <1>2, <1>5, <2>1 DEF FirstDest, SecondDest
<1>7. BranchInstr \in Instructions
  BY <1>6 DEF BranchInstr, BranchOp, ChoiceTo, Instructions
<1>8. NewOnes \in Seq({<< >>}) /\ Len(NewOnes) = Fresh(FirstIP) + Fresh(SecondIP)
  BY <1>2, IsASeq DEF NewOnes
<1> QED  BY <1>1, <1>2, <1>6, <1>7, <1>8

\* The worklist after a branch point, place by place.
LEMMA BranchWork ==
  ASSUME ScanTypes, BranchPoint
  PROVE  LET u  == unvisited_fragments
             a  == Fresh(SecondIP)
             b  == Fresh(FirstIP)
         IN /\ Len(u) \in Nat
            /\ unvisited_fragments' \in Seq(Nat \X GridIPs(program))
            /\ Len(unvisited_fragments') = a + Len(u) + b
            /\ \A k \in 1 .. a + Len(u) + b :
                 unvisited_fragments'[k] =
                   IF k <= a THEN <<Len(fragments) + b, SecondIP>>
                   ELSE IF k <= a + Len(u) THEN u[k - a]
                   ELSE <<Len(fragments), FirstIP>>
<1> DEFINE u  == unvisited_fragments
           a  == Fresh(SecondIP)
           b  == Fresh(FirstIP)
           S  == Nat \X GridIPs(program)
<1>1. a \in {0, 1} /\ b \in {0, 1} /\ Len(fragments) \in Nat
  BY BranchTypes, LenProperties DEF ScanTypes
<1>2. <<Len(fragments) + b, SecondIP>> \in S /\ <<Len(fragments), FirstIP>> \in S
  BY <1>1, BranchTypes
<1>3. u \in Seq(S) /\ Len(u) \in Nat
  BY LenProperties DEF ScanTypes
<1>4. /\ InFront \in Seq(S) /\ Len(InFront) = a
      /\ \A k \in 1 .. a : InFront[k] = <<Len(fragments) + b, SecondIP>>
  BY <1>1, <1>2 DEF InFront
<1>5. /\ Behind \in Seq(S) /\ Len(Behind) = b
      /\ \A k \in 1 .. b : Behind[k] = <<Len(fragments), FirstIP>>
  BY <1>1, <1>2 DEF Behind
<1> HIDE DEF a, b, S
<1>6. /\ InFront \o u \in Seq(S) /\ Len(InFront \o u) = a + Len(u)
      /\ \A k \in 1 .. a + Len(u) :
           (InFront \o u)[k] = IF k <= a THEN InFront[k] ELSE u[k - a]
  BY <1>3, <1>4, ConcatProperties
<1> DEFINE v == InFront \o u
<1> HIDE DEF v, u
<1>7. /\ v \o Behind \in Seq(S) /\ Len(v \o Behind) = a + Len(u) + b
      /\ \A k \in 1 .. a + Len(u) + b :
           (v \o Behind)[k] = IF k <= a + Len(u) THEN v[k] ELSE Behind[k - (a + Len(u))]
  <2>1. v \in Seq(S) /\ Len(v) = a + Len(u) /\ Behind \in Seq(S) /\ Len(Behind) = b
    BY <1>5, <1>6 DEF v
  <2>2. /\ v \o Behind \in Seq(S) /\ Len(v \o Behind) = Len(v) + Len(Behind)
        /\ \A k \in 1 .. Len(v) + Len(Behind) :
             (v \o Behind)[k] = IF k <= Len(v) THEN v[k] ELSE Behind[k - Len(v)]
    BY <2>1, ConcatProperties
  <2> QED  BY <2>1, <2>2
<1>8. unvisited_fragments' = v \o Behind
  BY BranchPointIs DEF v, u
<1>9. \A k \in 1 .. a + Len(u) + b :
        (v \o Behind)[k] = IF k <= a THEN <<Len(fragments) + b, SecondIP>>
                            ELSE IF k <= a + Len(u) THEN u[k - a]
                            ELSE <<Len(fragments), FirstIP>>
  <2> SUFFICES ASSUME NEW k \in 1 .. a + Len(u) + b
               PROVE  (v \o Behind)[k] = IF k <= a THEN <<Len(fragments) + b, SecondIP>>
                            ELSE IF k <= a + Len(u) THEN u[k - a]
                            ELSE <<Len(fragments), FirstIP>>
    OBVIOUS
  <2>1. CASE k <= a
    BY <1>1, <1>3, <1>4, <1>6, <1>7, <2>1 DEF a, b, u, v
  <2>2. CASE ~(k <= a) /\ k <= a + Len(u)
    BY <1>1, <1>3, <1>4, <1>6, <1>7, <2>2 DEF a, b, u, v
  <2>3. CASE ~(k <= a + Len(u))
    <3>1. k - (a + Len(u)) \in 1 .. b /\ ~(k <= a)
      BY <1>1, <1>3, <2>3 DEF a, b, u
    <3> QED  BY <1>5, <1>7, <2>3, <3>1
  <2> QED  BY <2>1, <2>2, <2>3
<1> QED  BY <1>3, <1>7, <1>8, <1>9 DEF a, b, u, S

-----------------------------------------------------------------------------
(* Types and the worklist are kept.                                        *)

\* Where a location is added it is this one, but for the other side of a join.
LEMMA JoinTypes ==
  ASSUME ScanTypes, AtOtherSide
  PROVE  location_map[Flipped(ip)] \in Locations
BY DEF ScanTypes, AtOtherSide

\* The current fragment ends and no fragment is added.
LEMMA EndKeepsWork ==
  ASSUME ScanTypes, WorkInv, phase = "trace", NEW instr \in Instructions,
         EndsWith(instr, << >>), UNCHANGED unvisited_fragments
  PROVE  /\ WorkInv'
         /\ fragments' \in Seq(Optional) /\ phase' = "take"
         /\ UNCHANGED <<program, index, ip, fragment>> /\ index \in 0 .. Len(fragments') - 1
<1>1. /\ fragments' \in Seq(Optional) /\ Len(fragments) \in Nat
      /\ Len(fragments') = Len(fragments)
      /\ fragments'[index + 1] = <<Append(fragment, instr)>>
      /\ \A k \in 1 .. Len(fragments) : k # index + 1 => fragments'[k] = fragments[k]
      /\ phase' = "take" /\ UNCHANGED <<program, index, ip, fragment>>
  <2> DEFINE none == << >>
  <2>1. none \in Seq({<< >>}) /\ Len(none) = 0 /\ EndsWith(instr, none)
    BY NoMore
  <2> HIDE DEF none
  <2>2. /\ fragments' \in Seq(Optional) /\ Len(fragments) \in Nat
        /\ Len(fragments') = Len(fragments) + Len(none)
        /\ fragments'[index + 1] = <<Append(fragment, instr)>>
        /\ \A k \in 1 .. Len(fragments) : k # index + 1 => fragments'[k] = fragments[k]
        /\ phase' = "take" /\ UNCHANGED <<program, index, ip, fragment>>
    BY <2>1, EndsTypes
  <2> QED  BY <2>1, <2>2
<1>2. index \in 0 .. Len(fragments) - 1
  BY DEF ScanTypes
<1>3. \A k \in 0 .. Len(fragments) - 1 :
        fragments'[k + 1] = << >> <=> k # index /\ fragments[k + 1] = << >>
  <2>1. <<Append(fragment, instr)>> # << >>
    OBVIOUS
  <2>2. \A k \in 0 .. Len(fragments) - 1 :
          k + 1 \in 1 .. Len(fragments) /\ (k + 1 = index + 1 <=> k = index)
    BY <1>1, <1>2
  <2> QED  BY <1>1, <2>1, <2>2
<1>4. WorkInv'
  BY <1>1, <1>3 DEF WorkInv
<1> QED  BY <1>1, <1>2, <1>4

\* V lists the indices of a worklist that grew from U at both ends: one new index
\* in front, if a is 1, and one behind, if b is.
Grown(U, V, n, m, a, b) ==
  \A k \in 1 .. a + m + b :
    V[k] = IF k <= a THEN n + b ELSE IF k <= a + m THEN U[k - a] ELSE n

\* The indices stay distinct, and are those from before and the new ones.
Distinct(U, V, n, m, a, b) ==
  /\ (\A j, k \in 1 .. m : U[j] = U[k] => j = k)
       => \A j, k \in 1 .. a + m + b : V[j] = V[k] => j = k
  /\ \A j \in 1 .. a + m + b : V[j] \in 0 .. n + b + a - 1
  /\ \A i \in 0 .. n + b + a - 1 :
       (\E j \in 1 .. a + m + b : V[j] = i) <=> i >= n \/ \E j \in 1 .. m : U[j] = i

\* What grows at both ends keeps its indices distinct.
LEMMA GrowsAtBothEnds ==
  ASSUME NEW n \in Nat, NEW m \in Nat, NEW a \in {0, 1}, NEW b \in {0, 1},
         NEW U \in [1 .. m -> 0 .. n - 1],
         NEW V, Grown(U, V, n, m, a, b)
  PROVE  Distinct(U, V, n, m, a, b)
<1>1. \A k \in 1 .. a + m + b :
        \/ k <= a /\ V[k] = n + b /\ a = 1 /\ k = 1
        \/ k > a /\ k <= a + m /\ k - a \in 1 .. m /\ V[k] = U[k - a]
        \/ k = a + m + 1 /\ V[k] = n /\ b = 1
  <2> TAKE k \in 1 .. a + m + b
  <2>1. V[k] = IF k <= a THEN n + b ELSE IF k <= a + m THEN U[k - a] ELSE n
    BY DEF Grown
  <2>2. /\ k <= a => a = 1 /\ k = 1
        /\ k > a /\ k <= a + m => k - a \in 1 .. m /\ ~(k <= a)
        /\ ~(k <= a + m) => k = a + m + 1 /\ b = 1 /\ ~(k <= a)
        /\ k <= a \/ k > a
    OBVIOUS
  <2> QED  BY <2>1, <2>2
<1>2. \A k \in 1 .. m : U[k] \in Int /\ 0 <= U[k] /\ U[k] < n
  <2> TAKE k \in 1 .. m
  <2>1. U[k] \in 0 .. n - 1
    OBVIOUS
  <2> QED  BY <2>1
<1>3. ASSUME \A j, k \in 1 .. m : U[j] = U[k] => j = k,
             NEW j \in 1 .. a + m + b, NEW k \in 1 .. a + m + b, V[j] = V[k]
      PROVE  j = k
  <2>1. CASE j <= a
    BY <1>1, <1>2, <1>3, <2>1
  <2>2. CASE j > a /\ j <= a + m
    <3>1. V[j] = U[j - a] /\ j - a \in 1 .. m
      BY <1>1, <2>2
    <3>2. k > a /\ k <= a + m
      <4>1. V[j] \in Int /\ V[j] < n
        BY <1>2, <3>1
      <4> QED  BY <1>1, <1>3, <4>1
    <3>3. V[k] = U[k - a] /\ k - a \in 1 .. m
      BY <1>1, <3>2
    <3>4. j - a = k - a
      BY <1>3, <3>1, <3>3
    <3> QED  BY <3>4
  <2>3. CASE j > a + m
    <3>1. V[j] = n /\ j = a + m + 1
      BY <1>1, <2>3
    <3>2. ~(k - a \in 1 .. m /\ V[k] = U[k - a])
      BY <1>2, <1>3, <3>1
    <3>3. ~(k <= a /\ V[k] = n + b /\ b = 1)
      BY <1>3, <3>1
    <3> QED  BY <1>1, <2>3, <3>1, <3>2, <3>3
  <2> QED  BY <2>1, <2>2, <2>3
<1>4. \A j \in 1 .. a + m + b : V[j] \in 0 .. n + b + a - 1
  <2> TAKE j \in 1 .. a + m + b
  <2>1. CASE V[j] = n + b /\ a = 1
    BY <2>1
  <2>2. CASE j - a \in 1 .. m /\ V[j] = U[j - a]
    <3>1. U[j - a] \in Int /\ 0 <= U[j - a] /\ U[j - a] < n
      BY <1>2, <2>2
    <3> QED  BY <2>2, <3>1
  <2>3. CASE V[j] = n /\ b = 1
    BY <2>3
  <2> QED  BY <1>1, <2>1, <2>2, <2>3
<1>5. ASSUME NEW i \in 0 .. n + b + a - 1
      PROVE  (\E j \in 1 .. a + m + b : V[j] = i) <=> i >= n \/ \E j \in 1 .. m : U[j] = i
  <2>1. (\E j \in 1 .. a + m + b : V[j] = i) => i >= n \/ \E j \in 1 .. m : U[j] = i
    BY <1>1, <1>2
  <2>2. ASSUME NEW j \in 1 .. m, U[j] = i PROVE \E k \in 1 .. a + m + b : V[k] = i
    <3>1. j + a \in 1 .. a + m + b /\ ~(j + a <= a) /\ j + a <= a + m /\ j + a - a = j
      OBVIOUS
    <3>2. V[j + a] = U[j]
      BY <3>1 DEF Grown
    <3> QED  BY <2>2, <3>1, <3>2
  <2>3. ASSUME i >= n PROVE \E k \in 1 .. a + m + b : V[k] = i
    <3>1. CASE i = n /\ b = 1
      <4>1. a + m + 1 \in 1 .. a + m + b /\ ~(a + m + 1 <= a) /\ ~(a + m + 1 <= a + m)
        BY <3>1
      <4> QED  BY <3>1, <4>1 DEF Grown
    <3>2. CASE i = n + b /\ a = 1
      <4>1. 1 \in 1 .. a + m + b /\ 1 <= a
        BY <3>2
      <4> QED  BY <3>2, <4>1 DEF Grown
    <3> QED  BY <2>3, <3>1, <3>2
  <2> QED  BY <2>1, <2>2, <2>3
<1> QED  BY <1>3, <1>4, <1>5 DEF Distinct

\* Every iteration keeps the types and the worklist invariant.
LEMMA WorkKept == ScanTypes /\ WorkInv /\ [Scan]_vars => ScanTypes' /\ WorkInv'
<1> SUFFICES ASSUME ScanTypes, WorkInv, [Scan]_vars PROVE ScanTypes' /\ WorkInv'
  OBVIOUS
<1>1. /\ ip \in GridIPs(program) /\ index \in 0 .. Len(fragments) - 1 /\ Len(fragments) \in Nat
      /\ here \in Locations
  BY HereTypes, LenProperties DEF ScanTypes
<1>2. CASE UNCHANGED vars
  BY <1>2 DEF vars, worklist, current, ScanTypes, WorkInv
<1>3. CASE Take
  <2> DEFINE u == unvisited_fragments
             v == unvisited_fragments'
  <2>1. /\ Len(u) \in Nat \ {0}
        /\ u[Len(u)] = <<index', ip'>> /\ index' \in Nat /\ ip' \in GridIPs(program)
        /\ v \in Seq(Nat \X GridIPs(program))
        /\ Len(v) = Len(u) - 1
        /\ \A k \in 1 .. Len(u) - 1 : v[k] = u[k]
    BY <1>3, TakeTypes
  <2>2. phase = "take" /\ phase' = "trace" /\ fragment' = << >>
        /\ UNCHANGED <<program, fragments, location_map>>
    BY <1>3 DEF Take
  <2>3. Len(u) \in 1 .. Len(u) /\ index' = u[Len(u)][1]
    BY <2>1
  <2>4. index' \in 0 .. Len(fragments) - 1
    BY <2>3 DEF WorkInv
  <2>5. ScanTypes'
    <3>1. fragment' \in Seq(Instructions)
      BY <2>2, EmptySeq
    <3> QED  BY <2>1, <2>2, <2>4, <3>1 DEF ScanTypes
  <2> HIDE DEF u, v
  <2>6. \A k \in 1 .. Len(v) : k \in 1 .. Len(u) /\ k # Len(u) /\ v[k] = u[k]
    BY <2>1
  <2>7. \A k \in 1 .. Len(u) : k = Len(u) \/ k \in 1 .. Len(v)
    BY <2>1
  <2>8. \A k : (\E j \in 1 .. Len(u) : u[j][1] = k)
                <=> (\E j \in 1 .. Len(v) : v[j][1] = k) \/ k = index'
    BY <2>3, <2>6, <2>7
  <2>9. \A j, k \in 1 .. Len(v) : v[j][1] = v[k][1] => j = k
    BY <2>6 DEF WorkInv, u
  <2>10. \A k \in 1 .. Len(v) : v[k][1] # index'
    BY <2>3, <2>6 DEF WorkInv, u
  <2>11. \A k \in 0 .. Len(fragments) - 1 :
           fragments[k + 1] = << >> <=> (\E j \in 1 .. Len(v) : v[j][1] = k) \/ k = index'
    BY <2>2, <2>8 DEF WorkInv, u
  <2>12. \A k \in 1 .. Len(v) : v[k][1] \in 0 .. Len(fragments) - 1
    BY <2>6 DEF WorkInv, u
  <2>13. WorkInv'
    BY <2>2, <2>9, <2>10, <2>11, <2>12 DEF WorkInv, v
  <2> QED  BY <2>5, <2>13
<1>4. CASE Finish
  BY <1>4 DEF Finish, worklist, current, ScanTypes, WorkInv
<1>5. CASE JumpBack
  <2>1. location_map[ip] \in Locations /\ phase = "trace" /\ UNCHANGED <<location_map, unvisited_fragments>>
    BY <1>5 DEF JumpBack, ScanTypes
  <2>2. JumpTo(location_map[ip]) \in Instructions
    BY <2>1 DEF JumpTo, Instructions
  <2>3. EndsWith(JumpTo(location_map[ip]), << >>)
    BY <1>5 DEF JumpBack
  <2>4. /\ WorkInv'
        /\ fragments' \in Seq(Optional) /\ phase' = "take"
        /\ UNCHANGED <<program, index, ip, fragment>> /\ index \in 0 .. Len(fragments') - 1
    BY <2>1, <2>2, <2>3, EndKeepsWork
  <2> QED  BY <2>1, <2>4 DEF ScanTypes
<1>6. CASE JoinOtherSide
  <2> DEFINE there == location_map[Flipped(ip)]
  <2>1. there \in Locations
    BY <1>6, JoinTypes DEF JoinOtherSide
  <2>2. JumpTo(there) \in Instructions
    BY <2>1 DEF JumpTo, Instructions
  <2>3. /\ EndsWith(JumpTo(there), << >>) /\ phase = "trace" /\ ip \notin DOMAIN location_map
        /\ Located(ip, there) /\ UNCHANGED unvisited_fragments
    BY <1>6 DEF JoinOtherSide, New
  <2> HIDE DEF there
  <2>4. /\ WorkInv'
        /\ fragments' \in Seq(Optional) /\ phase' = "take"
        /\ UNCHANGED <<program, index, ip, fragment>> /\ index \in 0 .. Len(fragments') - 1
    BY <2>2, <2>3, EndKeepsWork
  <2>5. /\ location_map' \in [DOMAIN location_map' -> Locations]
        /\ DOMAIN location_map' \subseteq GridIPs(program)
    BY <1>1, <2>1, <2>3, LocatedTypes
  <2> QED  BY <2>3, <2>4, <2>5 DEF ScanTypes
<1>7. CASE Exit
  <2>1. /\ EndsWith(plain, << >>) /\ phase = "trace" /\ ip \notin DOMAIN location_map
        /\ Located(ip, here) /\ UNCHANGED unvisited_fragments
    BY <1>7 DEF Exit, New
  <2>2. /\ WorkInv'
        /\ fragments' \in Seq(Optional) /\ phase' = "take"
        /\ UNCHANGED <<program, index, ip, fragment>> /\ index \in 0 .. Len(fragments') - 1
    BY <2>1, PlainTypes, EndKeepsWork
  <2>3. /\ location_map' \in [DOMAIN location_map' -> Locations]
        /\ DOMAIN location_map' \subseteq GridIPs(program)
    BY <1>1, <2>1, LocatedTypes
  <2> QED  BY <2>1, <2>2, <2>3 DEF ScanTypes
<1>8. CASE Emit
  <2>1. /\ phase = "trace" /\ ip \notin DOMAIN location_map /\ Located(ip, here)
        /\ fragment' = Append(fragment, plain) /\ ip' = GridAdvance(program, ip, FALSE)
        /\ UNCHANGED <<program, fragments, unvisited_fragments, phase, index>>
    BY <1>8 DEF Emit, New, worklist
  <2>2. fragment' \in Seq(Instructions)
    BY <2>1, PlainTypes, AppendProperties DEF ScanTypes
  <2>3. ip' \in GridIPs(program)
    BY <1>1, <2>1, AdvanceTypes
  <2>4. /\ location_map' \in [DOMAIN location_map' -> Locations]
        /\ DOMAIN location_map' \subseteq GridIPs(program)
    BY <1>1, <2>1, LocatedTypes
  <2>5. WorkInv'
    BY <2>1 DEF WorkInv
  <2> QED  BY <2>1, <2>2, <2>3, <2>4, <2>5 DEF ScanTypes
<1>9. CASE BranchPoint
  <2> DEFINE u == unvisited_fragments
             v == unvisited_fragments'
             a == Fresh(SecondIP)
             b == Fresh(FirstIP)
             n == Len(fragments)
  <2>1. /\ Located(ip, here) /\ EndsWith(BranchInstr, NewOnes)
        /\ phase = "trace" /\ ip \notin DOMAIN location_map
    BY <1>9, BranchPointIs DEF New
  <2>2. /\ BranchInstr \in Instructions /\ NewOnes \in Seq({<< >>}) /\ Len(NewOnes) = b + a
        /\ a \in {0, 1} /\ b \in {0, 1}
    BY <1>9, BranchTypes
  <2>3. /\ fragments' \in Seq(Optional) /\ n \in Nat /\ Len(fragments') = n + b + a
        /\ fragments'[index + 1] = <<Append(fragment, BranchInstr)>>
        /\ \A k \in 1 .. n : k # index + 1 => fragments'[k] = fragments[k]
        /\ \A k \in n + 1 .. n + b + a : fragments'[k] = << >>
        /\ phase' = "take" /\ UNCHANGED <<program, index, ip, fragment>>
    <3>1. PICK m \in Nat : m = Len(NewOnes) /\ m = b + a
      BY <2>2
    <3>2. /\ fragments' \in Seq(Optional) /\ n \in Nat /\ Len(fragments') = n + m
          /\ fragments'[index + 1] = <<Append(fragment, BranchInstr)>>
          /\ \A k \in 1 .. n : k # index + 1 => fragments'[k] = fragments[k]
          /\ \A k \in n + 1 .. n + m : fragments'[k] = << >>
          /\ phase' = "take" /\ UNCHANGED <<program, index, ip, fragment>>
      BY <1>1, <2>1, <2>2, <3>1, EndsTypes
    <3>3. n + m = n + b + a
      BY <2>2, <3>1, <3>2
    <3> QED  BY <3>2, <3>3
  <2>4. /\ location_map' \in [DOMAIN location_map' -> Locations]
        /\ DOMAIN location_map' \subseteq GridIPs(program)
    BY <1>1, <2>1, LocatedTypes
  <2>5. /\ Len(u) \in Nat
        /\ v \in Seq(Nat \X GridIPs(program))
        /\ Len(v) = a + Len(u) + b
        /\ \A k \in 1 .. a + Len(u) + b :
             v[k] = IF k <= a THEN <<n + b, SecondIP>>
                     ELSE IF k <= a + Len(u) THEN u[k - a]
                     ELSE <<n, FirstIP>>
    BY <1>9, BranchWork
  <2> HIDE DEF a, b, n, u, v
  <2>6. ScanTypes'
    <3>1. index \in 0 .. n - 1
      BY <1>1 DEF n
    <3>2. index \in 0 .. Len(fragments') - 1
      BY <2>2, <2>3, <3>1
    <3> QED  BY <2>3, <2>4, <2>5, <3>2 DEF ScanTypes, v
  <2>7. /\ \A j \in 1 .. Len(u) : u[j][1] \in 0 .. n - 1 /\ u[j][1] # index
        /\ \A j, k \in 1 .. Len(u) : u[j][1] = u[k][1] => j = k
    BY <2>1 DEF WorkInv, u, n
  <2> DEFINE U == [j \in 1 .. Len(u) |-> u[j][1]]
             V == [j \in 1 .. a + Len(u) + b |-> v[j][1]]
  <2>8. /\ U \in [1 .. Len(u) -> 0 .. n - 1]
        /\ \A k \in 1 .. a + Len(u) + b :
             V[k] = IF k <= a THEN n + b ELSE IF k <= a + Len(u) THEN U[k - a] ELSE n
    <3>1. \A k \in 1 .. a + Len(u) + b :
            k > a /\ k <= a + Len(u) => k - a \in 1 .. Len(u)
      BY <2>2, <2>5
    <3>2. U \in [1 .. Len(u) -> 0 .. n - 1]
      BY <2>7
    <3>3. ASSUME NEW k \in 1 .. a + Len(u) + b
          PROVE  v[k][1] = IF k <= a THEN n + b
                           ELSE IF k <= a + Len(u) THEN U[k - a] ELSE n
      <4>1. CASE k <= a
        BY <2>5, <4>1
      <4>2. CASE ~(k <= a) /\ k <= a + Len(u)
        <5>1. v[k] = u[k - a] /\ k - a \in 1 .. Len(u)
          BY <2>2, <2>5, <3>1, <4>2
        <5> QED  BY <4>2, <5>1
      <4>3. CASE ~(k <= a) /\ ~(k <= a + Len(u))
        BY <2>5, <4>3
      <4>4. k <= a => k <= a + Len(u)
        BY <2>2, <2>5
      <4> QED  BY <4>1, <4>2, <4>3
    <3> HIDE DEF U
    <3> QED  BY <3>2, <3>3
  <2>9. /\ \A j, k \in 1 .. Len(v) : v[j][1] = v[k][1] => j = k
        /\ \A j \in 1 .. Len(v) : v[j][1] \in 0 .. n + b + a - 1
        /\ \A i \in 0 .. n + b + a - 1 :
             (\E j \in 1 .. Len(v) : v[j][1] = i)
               <=> i >= n \/ \E j \in 1 .. Len(u) : u[j][1] = i
    <3> HIDE DEF V
    <3>1. /\ (\A j, k \in 1 .. Len(u) : U[j] = U[k] => j = k)
               => \A j, k \in 1 .. a + Len(u) + b : V[j] = V[k] => j = k
          /\ \A j \in 1 .. a + Len(u) + b : V[j] \in 0 .. n + b + a - 1
          /\ \A i \in 0 .. n + b + a - 1 :
               (\E j \in 1 .. a + Len(u) + b : V[j] = i)
                 <=> i >= n \/ \E j \in 1 .. Len(u) : U[j] = i
      <4> DEFINE m == Len(u)
      <4>1. m \in Nat /\ U \in [1 .. m -> 0 .. n - 1] /\ Grown(U, V, n, m, a, b)
        BY <2>5, <2>8 DEF Grown
      <4> HIDE DEF U, m
      <4>2. /\ (\A j, k \in 1 .. m : U[j] = U[k] => j = k)
                 => \A j, k \in 1 .. a + m + b : V[j] = V[k] => j = k
            /\ \A j \in 1 .. a + m + b : V[j] \in 0 .. n + b + a - 1
            /\ \A i \in 0 .. n + b + a - 1 :
                 (\E j \in 1 .. a + m + b : V[j] = i)
                   <=> i >= n \/ \E j \in 1 .. m : U[j] = i
        <5>1. n \in Nat /\ a \in {0, 1} /\ b \in {0, 1}
          BY <2>2, <2>3
        <5>2. Distinct(U, V, n, m, a, b)
          BY <4>1, <5>1, GrowsAtBothEnds
        <5> QED  BY <5>2 DEF Distinct
      <4> QED  BY <4>2 DEF m
    <3> QED  BY <2>5, <2>7, <3>1 DEF V
  <2>10. \A k \in 0 .. n + b + a - 1 :
           fragments'[k + 1] = << >> <=> \E j \in 1 .. Len(v) : v[j][1] = k
    <3> SUFFICES ASSUME NEW k \in 0 .. n + b + a - 1
                 PROVE  fragments'[k + 1] = << >>
                          <=> k >= n \/ \E j \in 1 .. Len(u) : u[j][1] = k
      BY <2>9, Zenon
    <3>1. CASE k \in 0 .. n - 1
      <4>1. k + 1 \in 1 .. n /\ (k + 1 = index + 1 <=> k = index) /\ ~(k >= n)
        BY <1>1, <2>3, <3>1
      <4>2. <<Append(fragment, BranchInstr)>> # << >>
        OBVIOUS
      <4>3. fragments[k + 1] = << >>
              <=> (\E j \in 1 .. Len(u) : u[j][1] = k) \/ k = index
        BY <2>1, <3>1 DEF WorkInv, u, n
      <4> QED  BY <2>3, <2>7, <4>1, <4>2, <4>3
    <3>2. CASE k >= n
      <4>1. k + 1 \in n + 1 .. n + b + a
        BY <2>2, <2>3, <3>2
      <4> QED  BY <2>3, <3>2, <4>1
    <3> QED  BY <2>2, <2>3, <3>1, <3>2
  <2>12. WorkInv'
    BY <2>2, <2>3, <2>9, <2>10 DEF WorkInv, v
  <2> QED  BY <2>6, <2>12
<1> QED  BY <1>2, <1>3, <1>4, <1>5, <1>6, <1>7, <1>8, <1>9 DEF Scan, Trace

-----------------------------------------------------------------------------
(* Each fragment is filled once.                                           *)

\* What waits, in terms of the worklist and the current fragment.
LEMMA WhatWaits ==
  ASSUME ScanTypes, WorkInv
  PROVE  IsInjective(Waiting) /\ ToSet(Waiting) = (0 .. Len(fragments) - 1) \ Filled
<1> DEFINE u == unvisited_fragments
           m == Len(u)
           S == 0 .. Len(fragments) - 1
           U == [k \in DOMAIN u |-> u[k][1]]
           C == IF phase = "trace" THEN <<index>> ELSE << >>
           l == IF phase = "trace" THEN 1 ELSE 0
<1>1. m \in Nat /\ DOMAIN u = 1 .. m /\ index \in S
  BY LenProperties DEF ScanTypes
<1>2. \A j \in 1 .. m : u[j][1] \in S
  BY DEF WorkInv
<1> HIDE DEF m
<1>3. U \in Seq(S) /\ Len(U) = m /\ \A k \in 1 .. m : U[k] = u[k][1]
  <2>1. [k \in 1 .. m |-> u[k][1]] \in Seq(S) /\ Len([k \in 1 .. m |-> u[k][1]]) = m
    BY <1>1, <1>2
  <2> QED  BY <1>1, <2>1
<1>4. C \in Seq(S) /\ Len(C) = l /\ l \in {0, 1} /\ (l = 1 => C[1] = index)
  <2> HIDE DEF S
  <2>1. CASE phase = "trace"
    <3>1. C = <<index>> /\ l = 1
      BY <2>1
    <3>2. <<index>> \in Seq(S) /\ Len(<<index>>) = 1
      BY <1>1
    <3> QED  BY <3>1, <3>2
  <2>2. CASE phase # "trace"
    BY <2>2, EmptySeq
  <2> QED  BY <2>1, <2>2
<1> HIDE DEF U, C, S
<1>5. /\ U \o C \in Seq(S) /\ Len(U \o C) = m + l
      /\ \A k \in 1 .. m + l : (U \o C)[k] = IF k <= m THEN U[k] ELSE C[k - m]
  <2>1. /\ U \o C \in Seq(S) /\ Len(U \o C) = Len(U) + Len(C)
        /\ \A k \in 1 .. Len(U) + Len(C) :
             (U \o C)[k] = IF k <= Len(U) THEN U[k] ELSE C[k - Len(U)]
    BY <1>3, <1>4, ConcatProperties
  <2> HIDE DEF l
  <2> QED  BY <1>3, <1>4, <2>1
<1>6. Waiting = U \o C
  BY DEF Waiting, U, C
<1>7. DOMAIN Waiting = 1 .. m + l
  BY <1>5, <1>6, LenProperties
<1>8. \A k \in 1 .. m + l :
        \/ k \in 1 .. m /\ Waiting[k] = u[k][1]
        \/ k = m + 1 /\ l = 1 /\ Waiting[k] = index
  <2> HIDE DEF l, u
  <2> TAKE k \in 1 .. m + l
  <2>1. CASE k <= m
    BY <1>1, <1>3, <1>4, <1>5, <1>6, <2>1
  <2>2. CASE ~(k <= m)
    <3>1. k = m + 1 /\ k - m = 1 /\ l = 1
      BY <1>1, <1>4, <2>2
    <3> QED  BY <1>4, <1>5, <1>6, <2>2, <3>1
  <2> QED  BY <2>1, <2>2
<1>9. /\ \A j, k \in 1 .. m : u[j][1] = u[k][1] => j = k
      /\ l = 1 => \A k \in 1 .. m : u[k][1] # index
      /\ \A k \in S : fragments[k + 1] = << >>
                        <=> (\E j \in 1 .. m : u[j][1] = k) \/ (l = 1 /\ k = index)
  BY DEF WorkInv, m, S
<1>10. IsInjective(Waiting)
  <2> HIDE DEF l, u
  <2> SUFFICES ASSUME NEW j \in 1 .. m + l, NEW k \in 1 .. m + l, Waiting[j] = Waiting[k]
               PROVE  j = k
    BY <1>7 DEF IsInjective
  <2> QED  BY <1>8, <1>9
<1>11. ToSet(Waiting) = { Waiting[k] : k \in 1 .. m + l }
  BY <1>7 DEF ToSet
<1>12. ASSUME NEW x PROVE x \in ToSet(Waiting) <=> x \in S \ Filled
  <2>1. x \in S \ Filled <=> x \in S /\ fragments[x + 1] = << >>
    BY DEF Filled, S
  <2>2. x \in ToSet(Waiting) => x \in S /\ fragments[x + 1] = << >>
    <3> SUFFICES ASSUME NEW k \in 1 .. m + l, x = Waiting[k]
                 PROVE  x \in S /\ fragments[x + 1] = << >>
      BY <1>11
    <3> HIDE DEF l, u
    <3> QED  BY <1>1, <1>2, <1>8, <1>9
  <2>3. x \in S /\ fragments[x + 1] = << >> => x \in ToSet(Waiting)
    <3> SUFFICES ASSUME x \in S, fragments[x + 1] = << >>
                 PROVE  \E k \in 1 .. m + l : x = Waiting[k]
      BY <1>11
    <3> HIDE DEF l, u
    <3>1. CASE \E j \in 1 .. m : u[j][1] = x
      <4>1. PICK j \in 1 .. m : u[j][1] = x
        BY <3>1
      <4>2. j \in 1 .. m + l /\ j <= m
        BY <1>1, <1>4
      <4>3. Waiting[j] = u[j][1]
        BY <1>3, <1>5, <1>6, <4>2
      <4> QED  BY <4>1, <4>2, <4>3
    <3>2. CASE l = 1 /\ x = index
      <4>1. m + 1 \in 1 .. m + l /\ ~(m + 1 \in 1 .. m)
        BY <1>1, <3>2
      <4> QED  BY <1>8, <3>2, <4>1
    <3> QED  BY <1>9, <3>1, <3>2
  <2> QED  BY <2>1, <2>2, <2>3
<1> QED  BY <1>10, <1>12 DEF S

\* The type invariant of the runs follows from the types.
LEMMA TypesAreOK == ScanTypes => TypeOK
<1> SUFFICES ASSUME ScanTypes PROVE TypeOK
  OBVIOUS
<1>1. \A x \in DOMAIN location_map : location_map[x] \in Nat \X Nat
  BY DEF ScanTypes, Locations
<1>2. \A k \in DOMAIN fragments : Len(fragments[k]) <= 1
  <2> TAKE k \in DOMAIN fragments
  <2>1. fragments[k] \in Optional
    BY LenProperties, ElementOfSeq DEF ScanTypes
  <2>2. CASE fragments[k] = << >>
    BY <2>2
  <2>3. ASSUME NEW code, fragments[k] = <<code>> PROVE Len(fragments[k]) <= 1
    BY <2>3
  <2> QED  BY <2>1, <2>2, <2>3 DEF Optional
<1> QED  BY <1>1, <1>2 DEF TypeOK, ScanTypes

\* The types and the worklist invariant hold throughout.
LEMMA ScanInvariant == Spec => [](ScanTypes /\ WorkInv)
<1>1. Init => ScanTypes /\ WorkInv
  BY InitTypes
<1>2. (ScanTypes /\ WorkInv) /\ [Scan]_vars => (ScanTypes /\ WorkInv)'
  BY WorkKept
<1> QED  BY <1>1, <1>2, PTL DEF Spec

\* For every text: a fragment is on the worklist or the current one exactly as
\* long as it is empty, and never twice, so none is filled twice or left out.
THEOREM FragmentsFilledOnce == Spec => []EveryFragmentOnce
<1>1. ScanTypes /\ WorkInv => EveryFragmentOnce
  BY WhatWaits, TypesAreOK DEF EveryFragmentOnce
<1> QED  BY <1>1, ScanInvariant, PTL

-----------------------------------------------------------------------------
(* The code of the fragments.                                              *)

\* The instructions of a list at an offset, none or one.
PlaceOf(code, offset) == { code[j] : j \in DOMAIN code \cap {offset + 1} }

\* Appending fills the first place behind the list and no other.
LEMMA AppendFills ==
  ASSUME NEW S, NEW code \in Seq(S), NEW i \in S, NEW o \in Nat
  PROVE  /\ PlaceOf(Append(code, i), o) = IF o = Len(code) THEN {i} ELSE PlaceOf(code, o)
         /\ PlaceOf(code, Len(code)) = {}
         /\ PlaceOf(code, o) \subseteq S
<1> DEFINE longer == Append(code, i)
<1>1. Len(code) \in Nat /\ DOMAIN code = 1 .. Len(code)
  BY LenProperties
<1>2. /\ longer \in Seq(S) /\ Len(longer) = Len(code) + 1
      /\ \A j \in 1 .. Len(code) : longer[j] = code[j]
      /\ longer[Len(code) + 1] = i
  BY AppendProperties
<1>3. DOMAIN longer = 1 .. Len(code) + 1
  BY <1>2, LenProperties
<1> DEFINE n == Len(code)
<1> HIDE DEF longer, n
<1>4. \A x : x \in PlaceOf(code, o) <=> o + 1 \in 1 .. n /\ x = code[o + 1]
  BY <1>1 DEF PlaceOf, n
<1>5. \A x : x \in PlaceOf(longer, o) <=> o + 1 \in 1 .. n + 1 /\ x = longer[o + 1]
  BY <1>3 DEF PlaceOf, n
<1>6. PlaceOf(longer, o) = IF o = n THEN {i} ELSE PlaceOf(code, o)
  <2>1. CASE o = n
    BY <1>1, <1>2, <1>5, <2>1 DEF n
  <2>2. CASE o # n
    <3>1. o + 1 \in 1 .. n + 1 <=> o + 1 \in 1 .. n
      <4>1. n \in Nat
        BY <1>1 DEF n
      <4> QED  BY <2>2, <4>1
    <3> QED  BY <1>2, <1>4, <1>5, <2>2, <3>1 DEF n
  <2> QED  BY <2>1, <2>2
<1>7. PlaceOf(code, n) = {}
  BY <1>1 DEF PlaceOf, n
<1>8. PlaceOf(code, o) \subseteq S
  BY <1>1, <1>4, ElementOfSeq DEF n
<1> QED  BY <1>6, <1>7, <1>8 DEF longer, n

\* A location holds what its fragment has at its offset.
LEMMA AtIsPlace == \A l : At(l) = PlaceOf(CodeOf(l[1]), l[2])
  BY DEF At, PlaceOf

LEMMA AtIsPlaceThen == \A l : At(l)' = PlaceOf(CodeOf(l[1])', l[2])
  BY DEF At, PlaceOf

\* What a fragment holds is a list of instructions.
LEMMA CodeTypes ==
  ASSUME ScanTypes
  PROVE  \A k : CodeOf(k) \in Seq(Instructions)
<1> SUFFICES ASSUME NEW k PROVE CodeOf(k) \in Seq(Instructions)
  OBVIOUS
<1>1. CASE k \in Filled
  <2>1. k + 1 \in 1 .. Len(fragments) /\ fragments[k + 1] # << >>
    BY <1>1, LenProperties DEF Filled, ScanTypes
  <2>2. fragments[k + 1] \in Optional
    BY <2>1, ElementOfSeq DEF ScanTypes
  <2>3. PICK code \in Seq(Instructions) : fragments[k + 1] = <<code>>
    BY <2>1, <2>2 DEF Optional
  <2>4. fragments[k + 1][1] \in Seq(Instructions)
    BY <2>3
  <2> QED  BY <2>4 DEF CodeOf, ScanTypes
<1>2. CASE k \notin Filled
  BY <1>2, EmptySeq DEF CodeOf, ScanTypes
<1> QED  BY <1>1, <1>2

\* A location holds instructions.
LEMMA AtTypes ==
  ASSUME ScanTypes, NEW l \in Locations
  PROVE  At(l) \subseteq Instructions
<1>1. l[2] \in Nat /\ CodeOf(l[1]) \in Seq(Instructions)
  BY CodeTypes DEF Locations
<1>2. \A x : x \in PlaceOf(CodeOf(l[1]), l[2]) =>
             /\ l[2] + 1 \in 1 .. Len(CodeOf(l[1])) /\ x = CodeOf(l[1])[l[2] + 1]
  BY <1>1, LenProperties DEF PlaceOf
<1> QED  BY <1>1, <1>2, AtIsPlace, ElementOfSeq

\* The step puts an instruction where the next one goes, and nothing elsewhere.
Adds(i) == /\ At(here) = {}
           /\ \A l \in Locations : At(l)' = IF l = here THEN {i} ELSE At(l)

\* Appending to the code of the current fragment does so.
LEMMA CodeGrows ==
  ASSUME ScanTypes, phase = "trace", NEW i \in Instructions,
         \A k : CodeOf(k)' = IF k = index THEN Append(fragment, i) ELSE CodeOf(k)
  PROVE  Adds(i)
<1>1. CodeOf(index) = fragment /\ fragment \in Seq(Instructions) /\ Len(fragment) \in Nat
  BY LenProperties DEF CodeOf, ScanTypes
<1>2. PlaceOf(fragment, Len(fragment)) = {}
  BY <1>1, AppendFills
<1>3. At(here) = {}
  BY <1>1, <1>2, AtIsPlace DEF here
<1>4. ASSUME NEW l \in Locations PROVE At(l)' = IF l = here THEN {i} ELSE At(l)
  <2>1. l = <<l[1], l[2]>> /\ l[2] \in Nat
    BY DEF Locations
  <2>2. l = here <=> l[1] = index /\ l[2] = Len(fragment)
    BY <2>1 DEF here
  <2>3. CASE l[1] = index
    <3>1. At(l)' = PlaceOf(Append(fragment, i), l[2]) /\ At(l) = PlaceOf(fragment, l[2])
      BY <1>1, <2>3, AtIsPlace, AtIsPlaceThen
    <3>2. PlaceOf(Append(fragment, i), l[2])
            = IF l[2] = Len(fragment) THEN {i} ELSE PlaceOf(fragment, l[2])
      BY <1>1, <2>1, AppendFills
    <3> QED  BY <2>2, <2>3, <3>1, <3>2
  <2>4. CASE l[1] # index
    <3>1. At(l)' = PlaceOf(CodeOf(l[1]), l[2]) /\ At(l) = PlaceOf(CodeOf(l[1]), l[2])
      BY <2>4, AtIsPlace, AtIsPlaceThen
    <3> QED  BY <2>2, <2>4, <3>1
  <2> QED  BY <2>3, <2>4
<1> QED  BY <1>3, <1>4 DEF Adds

\* The last instruction of a fragment is added where the next one goes.
LEMMA EndsAdds ==
  ASSUME ScanTypes, phase = "trace", NEW i \in Instructions, NEW more \in Seq({<< >>}),
         EndsWith(i, more)
  PROVE  Adds(i)
<1> DEFINE n == Len(fragments)
           m == Len(more)
<1>1. /\ n \in Nat /\ m \in Nat /\ Len(fragments') = n + m
      /\ fragments'[index + 1] = <<Append(fragment, i)>>
      /\ \A k \in 1 .. n : k # index + 1 => fragments'[k] = fragments[k]
      /\ \A k \in n + 1 .. n + m : fragments'[k] = << >>
      /\ phase' = "take"
  BY EndsTypes
<1>2. index \in 0 .. n - 1 /\ n \in Nat /\ m \in Nat
  BY <1>1 DEF ScanTypes
<1> HIDE DEF n, m
<1>3. ASSUME NEW k
      PROVE  CodeOf(k)' = IF k = index THEN Append(fragment, i) ELSE CodeOf(k)
  <2>1. /\ CodeOf(k)' = IF k \in Filled' THEN fragments'[k + 1][1] ELSE << >>
        /\ k # index => CodeOf(k) = IF k \in Filled THEN fragments[k + 1][1] ELSE << >>
    BY <1>1 DEF CodeOf
  <2>2. /\ k \in Filled' <=> k \in 0 .. n + m - 1 /\ fragments'[k + 1] # << >>
        /\ k \in Filled  <=> k \in 0 .. n - 1 /\ fragments[k + 1] # << >>
    BY <1>1 DEF Filled, n
  <2>3. CASE k = index
    <3>1. k \in 0 .. n + m - 1 /\ fragments'[k + 1] = <<Append(fragment, i)>>
      BY <1>1, <1>2, <2>3
    <3>2. fragments'[k + 1] # << >> /\ fragments'[k + 1][1] = Append(fragment, i)
      BY <3>1
    <3> QED  BY <2>1, <2>2, <2>3, <3>1, <3>2
  <2>4. CASE k # index /\ k \in 0 .. n - 1
    <3>1. k + 1 \in 1 .. n /\ k + 1 # index + 1 /\ k \in 0 .. n + m - 1
      BY <1>2, <2>4
    <3> QED  BY <1>1, <2>1, <2>2, <2>4, <3>1
  <2>5. CASE k # index /\ k \notin 0 .. n - 1
    <3>1. k \in 0 .. n + m - 1 => k + 1 \in n + 1 .. n + m
      BY <1>2, <2>5
    <3> QED  BY <1>1, <2>1, <2>2, <2>5, <3>1
  <2> QED  BY <2>3, <2>4, <2>5
<1> QED  BY <1>3, CodeGrows

\* So is an instruction with which the fragment does not end.
LEMMA EmitAdds ==
  ASSUME ScanTypes, Emit
  PROVE  Adds(plain)
<1>1. /\ phase = "trace" /\ fragment' = Append(fragment, plain)
      /\ UNCHANGED <<fragments, phase, index>>
  BY DEF Emit, New, worklist
<1>2. \A k : CodeOf(k)' = IF k = index THEN Append(fragment, plain) ELSE CodeOf(k)
  BY <1>1 DEF CodeOf, Filled
<1> QED  BY <1>1, <1>2, PlainTypes, CodeGrows

\* Taking a fragment adds nothing: it was empty.
LEMMA TakeAdds ==
  ASSUME ScanTypes, WorkInv, Take
  PROVE  \A l \in Locations : At(l)' = At(l)
<1>1. /\ phase = "take" /\ phase' = "trace" /\ fragment' = << >>
      /\ UNCHANGED <<program, fragments, location_map>>
  BY DEF Take
<1>2. index' \notin Filled
  <2> DEFINE u == unvisited_fragments
  <2>1. Len(u) \in 1 .. Len(u) /\ index' = u[Len(u)][1]
    BY TakeTypes
  <2>2. index' \in 0 .. Len(fragments) - 1
    BY <2>1 DEF WorkInv
  <2>3. fragments[index' + 1] = << >>
    BY <2>1, <2>2 DEF WorkInv
  <2> QED  BY <2>3 DEF Filled
<1>3. ASSUME NEW k PROVE CodeOf(k)' = CodeOf(k)
  BY <1>1, <1>2 DEF CodeOf, Filled
<1> QED  BY <1>3, AtIsPlace, AtIsPlaceThen

-----------------------------------------------------------------------------
(* Joins.                                                                  *)

\* The operation of a cell without a branch point for this heading.
LEMMA PlainOperation ==
  ASSUME ScanTypes, NEW x \in GridIPs(program)
  PROVE  LET o == CellAt(program, x.coords)
         IN /\ IF IsBranch(o, x.dir) THEN OperationOf(x) \in {"BNG", "TSP"}
               ELSE OperationOf(x) = DirectedOp(o, x.dir)
            /\ OperationOf(x) = "TJN"
                 <=> \/ o = "THR_E" /\ x.dir \in {NE, SE}
                     \/ o = "THR_W" /\ x.dir \in {NW, SW}
<1> DEFINE o == CellAt(program, x.coords)
<1>1. o \notin Directed /\ x.dir \in Directions
  BY IPs DEF ScanTypes, FromAText
<1>2. IF IsBranch(o, x.dir) THEN OperationOf(x) \in {"BNG", "TSP"}
      ELSE OperationOf(x) = DirectedOp(o, x.dir)
  BY DEF OperationOf
<1>3. CASE o = "THR_E"
  <2>1. IsBranch(o, x.dir) <=> x.dir = W
    BY <1>3 DEF IsBranch, ForkOf, Fork, ThreadOps
  <2>2. DirectedOp(o, x.dir) = "TJN" <=> x.dir \in {NE, SE}
    BY <1>3 DEF DirectedOp, Branches, Mirrors, NE, SE, E
  <2> QED  BY <1>2, <1>3, <2>1, <2>2 DEF NE, SE, W
<1>4. CASE o = "THR_W"
  <2>1. IsBranch(o, x.dir) <=> x.dir = E
    BY <1>4 DEF IsBranch, ForkOf, Fork, ThreadOps
  <2>2. DirectedOp(o, x.dir) = "TJN" <=> x.dir \in {NW, SW}
    BY <1>4 DEF DirectedOp, Branches, Mirrors, NW, SW, W
  <2> QED  BY <1>2, <1>4, <2>1, <2>2 DEF NW, SW, E
<1>5. CASE o \notin {"THR_E", "THR_W"}
  <2>1. DirectedOp(o, x.dir) # "TJN"
    BY <1>1, <1>5 DEF DirectedOp, Directed
  <2> QED  BY <1>2, <1>5, <2>1
<1> QED  BY <1>2, <1>3, <1>4, <1>5

\* A join has two headings, each the other one flipped; from both the IP goes on
\* to the same place.
LEMMA JoinSides ==
  ASSUME ScanTypes, NEW x \in GridIPs(program), OperationOf(x) = "TJN"
  PROVE  /\ Flipped(x) \in GridIPs(program) /\ Flipped(x) # x
         /\ Flipped(x).coords = x.coords /\ OperationOf(Flipped(x)) = "TJN"
         /\ \A goLeft \in BOOLEAN :
              GridAdvance(program, x, goLeft) = GridAdvance(program, Flipped(x), goLeft)
         /\ \A y \in GridIPs(program) :
              OperationOf(y) = "TJN" /\ y.coords = x.coords => y = x \/ y = Flipped(x)
<1> DEFINE o == CellAt(program, x.coords)
           z == Flipped(x)
<1>1. \/ o = "THR_E" /\ x.dir \in {NE, SE}
      \/ o = "THR_W" /\ x.dir \in {NW, SW}
  BY PlainOperation
<1>2. x = [coords |-> x.coords, dir |-> x.dir] /\ x.coords \in Board(program.side)
  BY IPs
<1>3. z = [coords |-> x.coords, dir |-> (x.dir + 4) % 8]
  BY <1>2 DEF Flipped
<1>4. /\ x.dir = NE => z.dir = SE
      /\ x.dir = SE => z.dir = NE
      /\ x.dir = NW => z.dir = SW
      /\ x.dir = SW => z.dir = NW
  BY <1>3 DEF NE, SE, NW, SW
<1>5. z \in GridIPs(program) /\ z.coords = x.coords /\ z # x
  BY <1>1, <1>2, <1>3, <1>4 DEF GridIPs, Directions, NE, SE, NW, SW
<1>6. OperationOf(z) = "TJN"
  BY <1>1, <1>4, <1>5, PlainOperation
<1>7. ASSUME NEW goLeft \in BOOLEAN
      PROVE  GridAdvance(program, x, goLeft) = GridAdvance(program, z, goLeft)
  <2>1. o \in ThreadOps /\ o \notin Mirrors
    BY <1>1 DEF ThreadOps, Mirrors
  <2>2. CASE o = "THR_E"
    <3>1. ForkOf(o) = Fork(W, SW, NW, {NE, SE}, E)
      BY <2>2 DEF ForkOf
    <3>2. Branch(x.dir, o, goLeft) = E /\ Branch(z.dir, o, goLeft) = E
      BY <1>1, <1>4, <2>2, <3>1 DEF Branch, Fork, NE, SE, W
    <3>3. [x EXCEPT !.dir = E] = [z EXCEPT !.dir = E]
      BY <1>2, <1>3
    <3> QED  BY <1>5, <2>1, <3>2, <3>3 DEF GridAdvance
  <2>3. CASE o = "THR_W"
    <3>1. ForkOf(o) = Fork(E, NE, SE, {NW, SW}, W)
      BY <2>3 DEF ForkOf
    <3>2. Branch(x.dir, o, goLeft) = W /\ Branch(z.dir, o, goLeft) = W
      BY <1>1, <1>4, <2>3, <3>1 DEF Branch, Fork, NW, SW, E
    <3>3. [x EXCEPT !.dir = W] = [z EXCEPT !.dir = W]
      BY <1>2, <1>3
    <3> QED  BY <1>5, <2>1, <3>2, <3>3 DEF GridAdvance
  <2> QED  BY <1>1, <2>2, <2>3
<1>8. ASSUME NEW y \in GridIPs(program), OperationOf(y) = "TJN", y.coords = x.coords
      PROVE  y = x \/ y = z
  <2>1. y = [coords |-> x.coords, dir |-> y.dir]
    BY <1>8, IPs
  <2>2. \/ o = "THR_E" /\ y.dir \in {NE, SE}
        \/ o = "THR_W" /\ y.dir \in {NW, SW}
    BY <1>8, PlainOperation
  <2>3. y.dir = x.dir \/ y.dir = z.dir
    BY <1>1, <1>4, <2>2
  <2> QED  BY <1>2, <1>3, <2>1, <2>3
<1> QED  BY <1>5, <1>6, <1>7, <1>8

-----------------------------------------------------------------------------
(* What an iteration adds to the listing.                                  *)

\* One instruction is put here; the current IP is located, here or where that
\* instruction jumps; the rest of the listing and of the worklist stays.
Grows(i) ==
  /\ Adds(i) /\ UNCHANGED program /\ phase = "trace"
  /\ DOMAIN location_map' = DOMAIN location_map \cup {ip}
  /\ \A x \in DOMAIN location_map : location_map'[x] = location_map[x]
  /\ location_map'[ip] = here \/ i = JumpTo(location_map'[ip])
  /\ \A k \in DOMAIN unvisited_fragments :
       \E j \in DOMAIN unvisited_fragments' : unvisited_fragments'[j] = unvisited_fragments[k]

\* What is located, and new, at its instruction.
Locates(i) == /\ Grows(i) /\ ip \notin DOMAIN location_map
              /\ location_map'[ip] = here /\ i.op = OperationOf(ip)
              /\ OperationOf(ip) = "TJN" => Flipped(ip) \notin DOMAIN location_map

LEMMA JumpBackGrows ==
  ASSUME ScanTypes, JumpBack
  PROVE  Grows(JumpTo(location_map[ip])) /\ ip \in DOMAIN location_map
<1> DEFINE i == JumpTo(location_map[ip])
           none == << >>
<1>1. /\ phase = "trace" /\ ip \in DOMAIN location_map /\ EndsWith(i, none)
      /\ UNCHANGED <<location_map, unvisited_fragments, program>>
  BY DEF JumpBack, EndsWith
<1>2. i \in Instructions
  BY <1>1 DEF ScanTypes, JumpTo, Instructions
<1>3. none \in Seq({<< >>})
  BY NoMore
<1> HIDE DEF none, i
<1>4. Adds(i)
  BY <1>1, <1>2, <1>3, EndsAdds
<1>5. DOMAIN location_map' = DOMAIN location_map \cup {ip}
  BY <1>1
<1> QED  BY <1>1, <1>4, <1>5 DEF Grows, i

LEMMA JoinOtherSideGrows ==
  ASSUME ScanTypes, JoinOtherSide
  PROVE  /\ Grows(JumpTo(location_map[Flipped(ip)])) /\ ip \notin DOMAIN location_map
         /\ location_map'[ip] = location_map[Flipped(ip)]
         /\ OperationOf(ip) = "TJN" /\ Flipped(ip) \in DOMAIN location_map
<1> DEFINE there == location_map[Flipped(ip)]
           i == JumpTo(there)
           none == << >>
<1>1. /\ phase = "trace" /\ ip \notin DOMAIN location_map /\ EndsWith(i, none)
      /\ ~IsBranch(op, ip.dir) /\ AtOtherSide /\ Located(ip, there)
      /\ UNCHANGED <<unvisited_fragments, program>>
  BY DEF JoinOtherSide, New, EndsWith
<1>2. there \in Locations
  BY <1>1, JoinTypes
<1>3. i \in Instructions /\ none \in Seq({<< >>})
  BY <1>2, NoMore DEF JumpTo, Instructions
<1>4. OperationOf(ip) = "TJN" /\ Flipped(ip) \in DOMAIN location_map
  BY <1>1 DEF OperationOf, operation, op, AtOtherSide
<1> HIDE DEF none, i, there
<1>5. Adds(i)
  BY <1>1, <1>3, EndsAdds
<1>6. /\ DOMAIN location_map' = DOMAIN location_map \cup {ip}
      /\ location_map'[ip] = there
      /\ \A y \in DOMAIN location_map : location_map'[y] = location_map[y]
  BY <1>1, <1>2, LocatedTypes DEF ScanTypes
<1>7. \A k \in DOMAIN unvisited_fragments :
        \E j \in DOMAIN unvisited_fragments' : unvisited_fragments'[j] = unvisited_fragments[k]
  BY <1>1
<1> QED  BY <1>1, <1>4, <1>5, <1>6, <1>7 DEF Grows, i, there

LEMMA ExitGrows ==
  ASSUME ScanTypes, Exit
  PROVE  Locates(plain) /\ plain.op \in Exits
<1> DEFINE none == << >>
<1>1. /\ phase = "trace" /\ ip \notin DOMAIN location_map /\ EndsWith(plain, none)
      /\ ~IsBranch(op, ip.dir) /\ operation \in Exits /\ Located(ip, here)
      /\ UNCHANGED <<unvisited_fragments, program>>
  BY DEF Exit, New, EndsWith
<1>2. plain \in Instructions /\ none \in Seq({<< >>}) /\ plain.op = operation
  BY PlainTypes, NoMore
<1>3. OperationOf(ip) = operation
  BY <1>1 DEF OperationOf, operation, op
<1> HIDE DEF none
<1>4. Adds(plain)
  BY <1>1, <1>2, EndsAdds
<1>5. /\ DOMAIN location_map' = DOMAIN location_map \cup {ip}
      /\ location_map'[ip] = here
      /\ \A y \in DOMAIN location_map : location_map'[y] = location_map[y]
  BY <1>1, HereTypes, LocatedTypes DEF ScanTypes
<1>6. operation # "TJN"
  BY <1>1 DEF Exits
<1> QED  BY <1>1, <1>2, <1>3, <1>4, <1>5, <1>6 DEF Grows, Locates

LEMMA EmitGrows ==
  ASSUME ScanTypes, Emit
  PROVE  Locates(plain) /\ phase' = "trace" /\ here' = Following(here)
         /\ ip' = GridAdvance(program, ip, FALSE)
<1>1. /\ phase = "trace" /\ ip \notin DOMAIN location_map /\ ~AtOtherSide
      /\ ~IsBranch(op, ip.dir) /\ Located(ip, here)
      /\ fragment' = Append(fragment, plain) /\ ip' = GridAdvance(program, ip, FALSE)
      /\ UNCHANGED <<unvisited_fragments, program, phase, index>>
  BY DEF Emit, New, worklist
<1>2. plain \in Instructions /\ plain.op = operation
  BY PlainTypes
<1>3. OperationOf(ip) = operation
  BY <1>1 DEF OperationOf, operation, op
<1>4. Adds(plain)
  BY EmitAdds
<1>5. /\ DOMAIN location_map' = DOMAIN location_map \cup {ip}
      /\ location_map'[ip] = here
      /\ \A y \in DOMAIN location_map : location_map'[y] = location_map[y]
  BY <1>1, HereTypes, LocatedTypes DEF ScanTypes
<1>6. here' = Following(here)
  BY <1>1, <1>2, AppendProperties DEF here, Following, ScanTypes
<1> QED  BY <1>1, <1>2, <1>3, <1>4, <1>5, <1>6 DEF Grows, Locates, AtOtherSide

LEMMA BranchPointGrows ==
  ASSUME ScanTypes, BranchPoint
  PROVE  Locates(BranchInstr) /\ phase' = "take"
<1>1. /\ phase = "trace" /\ ip \notin DOMAIN location_map
      /\ IsBranch(op, ip.dir) /\ Located(ip, here) /\ EndsWith(BranchInstr, NewOnes)
  BY BranchPointIs DEF New
<1>2. program' = program /\ phase' = "take"
  BY <1>1 DEF EndsWith
<1>3. BranchInstr.op = OperationOf(ip) /\ OperationOf(ip) # "TJN"
  BY <1>1 DEF BranchInstr, BranchOp, ChoiceTo, OperationOf, op
<1>4. Adds(BranchInstr)
  BY <1>1, BranchTypes, EndsAdds
<1>5. /\ DOMAIN location_map' = DOMAIN location_map \cup {ip}
      /\ location_map'[ip] = here
      /\ \A y \in DOMAIN location_map : location_map'[y] = location_map[y]
  BY <1>1, HereTypes, LocatedTypes DEF ScanTypes
<1>6. \A k \in DOMAIN unvisited_fragments :
        \E j \in DOMAIN unvisited_fragments' : unvisited_fragments'[j] = unvisited_fragments[k]
  <2> DEFINE u == unvisited_fragments
             v == unvisited_fragments'
             a == Fresh(SecondIP)
             b == Fresh(FirstIP)
             m == Len(u)
  <2>1. /\ m \in Nat /\ v \in Seq(Nat \X GridIPs(program)) /\ Len(v) = a + m + b
        /\ \A k \in 1 .. a + m + b :
             v[k] = IF k <= a THEN <<Len(fragments) + b, SecondIP>>
                    ELSE IF k <= a + m THEN u[k - a] ELSE <<Len(fragments), FirstIP>>
    BY BranchWork
  <2>2. a \in {0, 1} /\ b \in {0, 1}
    BY BranchTypes
  <2>3. DOMAIN u = 1 .. m /\ DOMAIN v = 1 .. a + m + b
    BY <2>1, LenProperties DEF ScanTypes
  <2> HIDE DEF a, b, m, u, v
  <2>4. ASSUME NEW k \in 1 .. m PROVE \E j \in 1 .. a + m + b : v[j] = u[k]
    <3>1. \E j \in Int : j = k + a
      BY <2>2
    <3>2. PICK j \in Int : j \in 1 .. a + m + b /\ ~(j <= a) /\ j <= a + m /\ j - a = k
      BY <2>1, <2>2, <3>1
    <3>3. v[j] = u[k]
      BY <2>1, <3>2
    <3> QED  BY <3>2, <3>3
  <2>5. \A k \in DOMAIN u : \E j \in DOMAIN v : v[j] = u[k]
    BY <2>3, <2>4
  <2> QED  BY <2>5 DEF u, v
<1> QED  BY <1>1, <1>2, <1>3, <1>4, <1>5, <1>6 DEF Grows, Locates

-----------------------------------------------------------------------------
(* The listing does what the grid does.                                    *)

\* What follows at the location of an IP.
GoesOnAt(x) ==
  \A instr \in At(location_map[x]) :
    IF instr.op \in {"BNG", "TSP"}
    THEN /\ Reaches(instr.choice[1], GridAdvance(program, x, FALSE))
         /\ Reaches(instr.choice[2], GridAdvance(program, x, TRUE))
    ELSE instr.op \in Exits
         \/ Reaches(Following(location_map[x]), GridAdvance(program, x, FALSE))

LEMMA GoesOnIs ==
  /\ GoesOnThere <=> /\ Reaches(<<0, 0>>, GridStart)
                     /\ \A x \in DOMAIN location_map : GoesOnAt(x)
  /\ GoesOnThere' <=> /\ Reaches(<<0, 0>>, GridStart)'
                      /\ \A x \in DOMAIN location_map' : GoesOnAt(x)'
BY DEF GoesOnThere, GoesOnAt

\* Where an IP has been located there is an instruction, so the place of the
\* next one is none of these.
LEMMA LocatedElsewhere ==
  ASSUME ScanTypes, LocatedAtWork, NEW i, Grows(i), NEW x \in DOMAIN location_map
  PROVE  /\ location_map[x] \in Locations /\ location_map[x] # here
         /\ At(location_map[x])' = At(location_map[x])
         /\ location_map'[x] = location_map[x] /\ x \in DOMAIN location_map'
         /\ OperationOf(x)' = OperationOf(x)
<1>1. location_map[x] \in Locations
  BY DEF ScanTypes
<1>2. At(location_map[x]) # {}
  BY DEF LocatedAtWork
<1>3. location_map[x] # here /\ At(location_map[x])' = At(location_map[x])
  BY <1>1, <1>2 DEF Grows, Adds
<1> QED  BY <1>1, <1>3 DEF Grows, OperationOf

\* What a location reaches it still reaches after an instruction was added.
LEMMA ReachesKept ==
  ASSUME ScanTypes, LocatedAtWork, NEW i, Grows(i), NEW l \in Locations, NEW x, Reaches(l, x)
  PROVE  Reaches(l, x)'
<1>1. CASE x \in DOMAIN location_map
           /\ (location_map[x] = l \/ At(l) = {JumpTo(location_map[x])})
  <2>1. location_map'[x] = location_map[x] /\ x \in DOMAIN location_map'
    BY <1>1, LocatedElsewhere
  <2>2. CASE location_map[x] = l
    BY <2>1, <2>2 DEF Reaches
  <2>3. CASE At(l) = {JumpTo(location_map[x])}
    <3>1. l # here
      BY <2>3 DEF Grows, Adds
    <3>2. At(l)' = At(l)
      BY <3>1 DEF Grows, Adds
    <3> QED  BY <2>1, <2>3, <3>2 DEF Reaches
  <2> QED  BY <1>1, <2>2, <2>3
<1>2. CASE l = here /\ x = ip
  <2>1. At(l)' = {i} /\ x \in DOMAIN location_map'
    BY <1>2 DEF Grows, Adds
  <2>2. location_map'[x] = l \/ i = JumpTo(location_map'[x])
    BY <1>2 DEF Grows
  <2> QED  BY <2>1, <2>2 DEF Reaches
<1>3. CASE l[2] = 0 /\ \E k \in DOMAIN unvisited_fragments :
                        unvisited_fragments[k] = <<l[1], x>>
  <2>1. \E j \in DOMAIN unvisited_fragments' : unvisited_fragments'[j] = <<l[1], x>>
    BY <1>3 DEF Grows
  <2> QED  BY <1>3, <2>1 DEF Reaches
<1> QED  BY <1>1, <1>2, <1>3 DEF Reaches

\* What follows at the location of an IP are locations.
LEMMA FollowTypes ==
  ASSUME ScanTypes, NEW x \in DOMAIN location_map, NEW instr \in At(location_map[x])
  PROVE  /\ Following(location_map[x]) \in Locations
         /\ instr.op \in {"BNG", "TSP"} =>
              instr.choice[1] \in Locations /\ instr.choice[2] \in Locations
<1>1. location_map[x] \in Locations
  BY DEF ScanTypes
<1>2. instr \in Instructions
  BY <1>1, AtTypes
<1> QED  BY <1>1, <1>2 DEF Following, Locations, Instructions

\* So what follows at an IP still follows there.
LEMMA GoesOnKept ==
  ASSUME ScanTypes, LocatedAtWork, GoesOnThere, NEW i, Grows(i)
  PROVE  /\ Reaches(<<0, 0>>, GridStart)'
         /\ \A x \in DOMAIN location_map : GoesOnAt(x)'
<1>1. Reaches(<<0, 0>>, GridStart)'
  <2>1. <<0, 0>> \in Locations
    BY DEF Locations
  <2> QED  BY <2>1, GoesOnIs, ReachesKept
<1>2. ASSUME NEW x \in DOMAIN location_map PROVE GoesOnAt(x)'
  <2>1. /\ At(location_map[x])' = At(location_map[x]) /\ location_map'[x] = location_map[x]
        /\ program' = program
    BY LocatedElsewhere DEF Grows
  <2>2. ASSUME NEW instr \in At(location_map[x])
        PROVE  IF instr.op \in {"BNG", "TSP"}
               THEN /\ Reaches(instr.choice[1], GridAdvance(program, x, FALSE))'
                    /\ Reaches(instr.choice[2], GridAdvance(program, x, TRUE))'
               ELSE instr.op \in Exits
                    \/ Reaches(Following(location_map[x]), GridAdvance(program, x, FALSE))'
    BY <2>1, GoesOnIs, FollowTypes, ReachesKept DEF GoesOnAt
  <2> QED  BY <2>1, <2>2 DEF GoesOnAt
<1> QED  BY <1>1, <1>2

\* An IP that is located at its own instruction fits.
LEMMA LocatesFits ==
  ASSUME ScanTypes, LocationsFit, NEW i, Locates(i), NEW at, at = ip, GoesOnAt(at)'
  PROVE  LocationsFit'
<1>1. /\ Grows(i) /\ ip \notin DOMAIN location_map /\ location_map'[ip] = here
      /\ i.op = OperationOf(ip) /\ ip \in GridIPs(program)
      /\ OperationOf(ip) = "TJN" => Flipped(ip) \notin DOMAIN location_map
      /\ DOMAIN location_map' = DOMAIN location_map \cup {ip}
      /\ LocatedAtWork /\ JoinsShareALine /\ GoesOnThere
  BY DEF Locates, Grows, LocationsFit, ScanTypes
<1>2. ASSUME NEW x \in GridIPs(program) PROVE OperationOf(x)' = OperationOf(x)
  BY <1>1 DEF Grows, OperationOf
<1>3. ASSUME NEW x \in DOMAIN location_map, NEW l, l = location_map'[x]
      PROVE  /\ l = location_map[x] /\ l # here
             /\ \E instr \in At(l)' : instr.op = OperationOf(x)
  <2>1. /\ l = location_map[x] /\ l # here /\ l \in Locations
    BY <1>1, <1>3, LocatedElsewhere
  <2>2. At(l)' = At(l)
    BY <1>1, <2>1 DEF Grows, Adds
  <2> QED  BY <1>1, <2>1, <2>2 DEF LocatedAtWork
<1>4. LocatedAtWork'
  <2> SUFFICES ASSUME NEW x \in DOMAIN location_map', NEW l, l = location_map'[x]
               PROVE  \E instr \in At(l)' : instr.op = OperationOf(x)'
    BY DEF LocatedAtWork
  <2>1. x \in GridIPs(program)
    BY <1>1 DEF ScanTypes
  <2>2. CASE x \in DOMAIN location_map
    BY <1>2, <1>3, <2>1, <2>2
  <2>3. CASE x = ip
    <3>1. l = here /\ here \in Locations
      BY <1>1, <2>3, HereTypes
    <3>2. At(l)' = {i}
      BY <1>1, <3>1 DEF Grows, Adds
    <3> QED  BY <1>1, <1>2, <2>1, <2>3, <3>2
  <2> QED  BY <1>1, <2>2, <2>3
<1>5. JoinsShareALine'
  <2> SUFFICES ASSUME NEW x \in DOMAIN location_map', NEW y \in DOMAIN location_map', x # y
               PROVE  location_map'[x] = location_map'[y]
                        <=> /\ OperationOf(x)' = "TJN" /\ OperationOf(y)' = "TJN"
                            /\ x.coords = y.coords
    BY DEF JoinsShareALine
  <2>1. x \in GridIPs(program) /\ y \in GridIPs(program)
    BY <1>1 DEF ScanTypes
  <2>2. CASE x \in DOMAIN location_map /\ y \in DOMAIN location_map
    BY <1>1, <1>2, <1>3, <2>1, <2>2 DEF JoinsShareALine
  <2>3. ASSUME NEW z \in DOMAIN location_map
        PROVE  /\ location_map'[z] # location_map'[ip]
               /\ ~(OperationOf(z) = "TJN" /\ OperationOf(ip) = "TJN" /\ z.coords = ip.coords)
    <3>1. z \in GridIPs(program) /\ z # ip
      BY <1>1 DEF ScanTypes
    <3> QED  BY <1>1, <1>3, <3>1, JoinSides
  <2> QED  BY <1>1, <1>2, <2>1, <2>2, <2>3
<1>6. GoesOnThere'
  <2>1. Reaches(<<0, 0>>, GridStart)' /\ \A x \in DOMAIN location_map : GoesOnAt(x)'
    BY <1>1, GoesOnKept
  <2> QED  BY <1>1, <2>1, GoesOnIs
<1> QED  BY <1>4, <1>5, <1>6 DEF LocationsFit

\* A step that leaves the program and the map alone, and what a location holds
\* and reaches, keeps what fits.
LEMMA NothingNew ==
  ASSUME ScanTypes, LocationsFit, UNCHANGED <<program, location_map>>,
         \A l \in Locations : At(l)' = At(l),
         \A l \in Locations : \A x : Reaches(l, x) => Reaches(l, x)'
  PROVE  LocationsFit'
<1>1. LocatedAtWork /\ JoinsShareALine /\ GoesOnThere
  BY DEF LocationsFit
<1>2. ASSUME NEW x \in DOMAIN location_map
      PROVE  /\ At(location_map[x])' = At(location_map[x]) /\ location_map'[x] = location_map[x]
             /\ OperationOf(x)' = OperationOf(x)
  BY DEF ScanTypes, OperationOf
<1>3. LocatedAtWork'
  BY <1>1, <1>2 DEF LocatedAtWork
<1>4. JoinsShareALine'
  BY <1>1, <1>2 DEF JoinsShareALine
<1>5. ASSUME NEW x \in DOMAIN location_map PROVE GoesOnAt(x)'
  <2>1. ASSUME NEW instr \in At(location_map[x])
        PROVE  IF instr.op \in {"BNG", "TSP"}
               THEN /\ Reaches(instr.choice[1], GridAdvance(program, x, FALSE))'
                    /\ Reaches(instr.choice[2], GridAdvance(program, x, TRUE))'
               ELSE instr.op \in Exits
                    \/ Reaches(Following(location_map[x]), GridAdvance(program, x, FALSE))'
    BY <1>1, GoesOnIs, FollowTypes DEF GoesOnAt
  <2> QED  BY <1>2, <2>1 DEF GoesOnAt
<1>6. Reaches(<<0, 0>>, GridStart)'
  <2>1. <<0, 0>> \in Locations
    BY DEF Locations
  <2> QED  BY <1>1, <2>1, GoesOnIs
<1>7. GoesOnThere'
  BY <1>5, <1>6, GoesOnIs
<1> QED  BY <1>3, <1>4, <1>7 DEF LocationsFit

\* Every iteration keeps what fits.
LEMMA FitKept ==
  ASSUME ScanTypes, WorkInv, LocationsFit, [Scan]_vars
  PROVE  LocationsFit'
<1>1. LocatedAtWork /\ JoinsShareALine /\ GoesOnThere /\ ip \in GridIPs(program)
  BY DEF LocationsFit, ScanTypes
<1>2. CASE UNCHANGED vars
  <2>1. /\ UNCHANGED <<program, location_map>>
        /\ \A l \in Locations : At(l)' = At(l)
    BY <1>2 DEF vars, worklist, current, At, CodeOf, Filled
  <2>2. \A l \in Locations : \A x : Reaches(l, x) => Reaches(l, x)'
    BY <1>2, <2>1 DEF Reaches, vars, worklist, current, here
  <2> QED  BY <2>1, <2>2, NothingNew
<1>3. CASE Finish
  <2>1. /\ UNCHANGED <<program, location_map, fragments, unvisited_fragments>>
        /\ phase = "take" /\ phase' = "done"
    BY <1>3 DEF Finish, worklist
  <2>2. \A l \in Locations : At(l)' = At(l)
    BY <2>1 DEF At, CodeOf, Filled
  <2>3. \A l \in Locations : \A x : Reaches(l, x) => Reaches(l, x)'
    BY <2>1, <2>2 DEF Reaches
  <2> QED  BY <2>1, <2>2, <2>3, NothingNew
<1>4. CASE Take
  <2> DEFINE u == unvisited_fragments
             v == unvisited_fragments'
             m == Len(u)
  <2>1. /\ UNCHANGED <<program, location_map>> /\ phase = "take" /\ phase' = "trace"
        /\ fragment' = << >>
    BY <1>4 DEF Take
  <2>2. \A l \in Locations : At(l)' = At(l)
    BY <1>4, TakeAdds
  <2>3. /\ m \in Nat \ {0} /\ u[m] = <<index', ip'>> /\ Len(v) = m - 1
        /\ \A k \in 1 .. m - 1 : v[k] = u[k]
        /\ DOMAIN u = 1 .. m /\ DOMAIN v = 1 .. Len(v)
    BY <1>4, TakeTypes, LenProperties DEF ScanTypes
  <2>4. here' = <<index', 0>>
    BY <2>1, EmptySeq DEF here
  <2>5. ASSUME NEW l \in Locations, NEW x, Reaches(l, x) PROVE Reaches(l, x)'
    <3>1. CASE x \in DOMAIN location_map
                 /\ (location_map[x] = l \/ At(l) = {JumpTo(location_map[x])})
      BY <2>1, <2>2, <3>1 DEF Reaches
    <3>2. ASSUME l[2] = 0, NEW k \in DOMAIN u, u[k] = <<l[1], x>> PROVE Reaches(l, x)'
      <4>1. l = <<l[1], l[2]>>
        BY DEF Locations
      <4> HIDE DEF u, v, m
      <4>2. CASE k = m
        <5>1. l = here' /\ x = ip'
          BY <2>3, <2>4, <3>2, <4>1, <4>2
        <5> QED  BY <2>1, <5>1 DEF Reaches
      <4>3. CASE k # m
        <5>1. k \in DOMAIN v /\ v[k] = <<l[1], x>>
          <6>1. k \in 1 .. m
            BY <2>3, <3>2
          <6>2. k \in 1 .. m - 1
            BY <2>3, <4>3, <6>1
          <6> QED  BY <2>3, <3>2, <6>2
        <5> QED  BY <3>2, <5>1 DEF Reaches, v
      <4> QED  BY <4>2, <4>3
    <3> QED  BY <2>1, <2>5, <3>1, <3>2 DEF Reaches
  <2> QED  BY <2>1, <2>2, <2>5, NothingNew
<1>5. CASE JumpBack
  <2> DEFINE i == JumpTo(location_map[ip])
  <2>1. Grows(i) /\ ip \in DOMAIN location_map /\ UNCHANGED <<program, location_map>>
    BY <1>5, JumpBackGrows DEF JumpBack, EndsWith
  <2> HIDE DEF i
  <2>2. Reaches(<<0, 0>>, GridStart)' /\ \A x \in DOMAIN location_map : GoesOnAt(x)'
    BY <1>1, <2>1, GoesOnKept
  <2>3. GoesOnThere'
    BY <2>1, <2>2, GoesOnIs
  <2>4. \A x \in DOMAIN location_map :
          /\ At(location_map[x])' = At(location_map[x]) /\ OperationOf(x)' = OperationOf(x)
    BY <1>1, <2>1, LocatedElsewhere
  <2>5. LocatedAtWork'
    BY <1>1, <2>1, <2>4 DEF LocatedAtWork
  <2>6. JoinsShareALine'
    BY <1>1, <2>1, <2>4 DEF JoinsShareALine
  <2> QED  BY <2>3, <2>5, <2>6 DEF LocationsFit
<1>6. CASE JoinOtherSide
  <2> DEFINE i == JumpTo(location_map[Flipped(ip)])
  <2>1. PICK z : z = Flipped(ip)
    OBVIOUS
  <2>2. /\ Grows(i) /\ ip \notin DOMAIN location_map /\ location_map'[ip] = location_map[z]
        /\ z \in DOMAIN location_map /\ z # ip /\ z.coords = ip.coords
        /\ OperationOf(ip) = "TJN" /\ OperationOf(z) = "TJN"
        /\ \A goLeft \in BOOLEAN :
             GridAdvance(program, ip, goLeft) = GridAdvance(program, z, goLeft)
    BY <1>1, <1>6, <2>1, JoinOtherSideGrows, JoinSides
  <2> HIDE DEF i
  <2>3. program' = program /\ DOMAIN location_map' = DOMAIN location_map \cup {ip}
    BY <2>2 DEF Grows
  <2>4. ASSUME NEW x \in GridIPs(program) PROVE OperationOf(x)' = OperationOf(x)
    BY <2>3 DEF OperationOf
  <2>5. ASSUME NEW x \in DOMAIN location_map, NEW l, l = location_map'[x]
        PROVE  l = location_map[x] /\ l \in Locations /\ At(l)' = At(l)
    <3>1. l = location_map[x] /\ l # here /\ l \in Locations
      BY <1>1, <2>2, <2>5, LocatedElsewhere
    <3> QED  BY <2>2, <3>1 DEF Grows, Adds
  <2>6. PICK w : /\ w = location_map[z] /\ w = location_map'[z] /\ w = location_map'[ip]
                 /\ w \in Locations /\ At(w)' = At(w)
    BY <2>2, <2>5
  <2>7. \E instr \in At(w) : instr.op = "TJN"
    BY <1>1, <2>2, <2>6 DEF LocatedAtWork
  <2>8. LocatedAtWork'
    <3> SUFFICES ASSUME NEW x \in DOMAIN location_map', NEW l, l = location_map'[x]
                 PROVE  \E instr \in At(l)' : instr.op = OperationOf(x)'
      BY DEF LocatedAtWork
    <3>1. x \in GridIPs(program)
      BY <1>1, <2>3 DEF ScanTypes
    <3>2. CASE x \in DOMAIN location_map
      BY <1>1, <2>4, <2>5, <3>1, <3>2 DEF LocatedAtWork
    <3>3. CASE x = ip
      BY <2>2, <2>4, <2>6, <2>7, <3>1, <3>3
    <3> QED  BY <2>3, <3>2, <3>3
  <2>9. JoinsShareALine'
    <3> SUFFICES ASSUME NEW x \in DOMAIN location_map', NEW y \in DOMAIN location_map', x # y
                 PROVE  location_map'[x] = location_map'[y]
                          <=> /\ OperationOf(x)' = "TJN" /\ OperationOf(y)' = "TJN"
                              /\ x.coords = y.coords
      BY DEF JoinsShareALine
    <3>1. x \in GridIPs(program) /\ y \in GridIPs(program)
      BY <1>1, <2>3 DEF ScanTypes
    <3>2. CASE x \in DOMAIN location_map /\ y \in DOMAIN location_map
      BY <1>1, <2>4, <2>5, <3>1, <3>2 DEF JoinsShareALine
    <3>3. ASSUME NEW a \in DOMAIN location_map
          PROVE  location_map'[a] = location_map'[ip]
                   <=> OperationOf(a) = "TJN" /\ a.coords = ip.coords
      <4>1. location_map'[a] = location_map[a]
        BY <2>5
      <4>2. CASE a = z
        BY <2>2, <2>6, <4>1, <4>2
      <4>3. CASE a # z
        BY <1>1, <2>2, <2>6, <4>1, <4>3 DEF JoinsShareALine
      <4> QED  BY <4>2, <4>3
    <3> QED  BY <1>1, <2>2, <2>3, <2>4, <3>1, <3>2, <3>3
  <2>10. Reaches(<<0, 0>>, GridStart)' /\ \A x \in DOMAIN location_map : GoesOnAt(x)'
    BY <1>1, <2>2, GoesOnKept
  <2>11. ASSUME NEW x, x = ip PROVE GoesOnAt(x)'
    <3>1. location_map'[x] = location_map'[z] /\ program' = program
      BY <2>3, <2>6, <2>11
    <3>2. At(location_map[x])' = At(location_map[z])'
      BY <3>1 DEF At, CodeOf, Filled
    <3>3. GridAdvance(program, x, FALSE)' = GridAdvance(program, z, FALSE)'
          /\ GridAdvance(program, x, TRUE)' = GridAdvance(program, z, TRUE)'
      BY <2>2, <2>11, <3>1
    <3>4. GoesOnAt(z)'
      BY <2>2, <2>10
    <3> QED  BY <3>1, <3>2, <3>3, <3>4 DEF GoesOnAt, Following
  <2>12. GoesOnThere'
    BY <2>3, <2>10, <2>11, GoesOnIs
  <2> QED  BY <2>8, <2>9, <2>12 DEF LocationsFit
<1>7. CASE Exit
  <2> DEFINE i == plain
  <2>1. Locates(i) /\ i.op \in Exits
    BY <1>7, ExitGrows
  <2> HIDE DEF i
  <2>2. PICK here0 : here0 = here
    OBVIOUS
  <2>3. ASSUME NEW x, x = ip PROVE GoesOnAt(x)'
    <3>1. At(here0)' = {i} /\ location_map'[x] = here0
      BY <2>1, <2>2, <2>3, HereTypes DEF Locates, Grows, Adds
    <3>2. i.op \notin {"BNG", "TSP"}
      BY <2>1 DEF Exits
    <3> QED  BY <2>1, <3>1, <3>2 DEF GoesOnAt
  <2> QED  BY <2>1, <2>3, LocatesFits
<1>8. CASE Emit
  <2> DEFINE i == plain
  <2>1. /\ Locates(i) /\ phase' = "trace" /\ here' = Following(here)
        /\ ip' = GridAdvance(program, ip, FALSE) /\ i.op \notin {"BNG", "TSP"}
    BY <1>8, EmitGrows, PlainTypes
  <2> HIDE DEF i
  <2>2. PICK here0 : here0 = here
    OBVIOUS
  <2>3. ASSUME NEW x, x = ip PROVE GoesOnAt(x)'
    <3>1. At(here0)' = {i} /\ location_map'[x] = here0 /\ program' = program
      BY <2>1, <2>2, <2>3, HereTypes DEF Locates, Grows, Adds
    <3>2. PICK l, y : l = Following(here0) /\ y = GridAdvance(program, x, FALSE)
      OBVIOUS
    <3>3. l = here' /\ y = ip'
      BY <2>1, <2>2, <2>3, <3>2
    <3>4. Reaches(l, y)'
      BY <2>1, <3>3 DEF Reaches
    <3>5. Following(location_map[x])' = l /\ GridAdvance(program, x, FALSE)' = y
      BY <3>1, <3>2 DEF Following
    <3>6. Reaches(Following(location_map[x]), GridAdvance(program, x, FALSE))'
      BY <3>4, <3>5
    <3> QED  BY <2>1, <3>1, <3>6 DEF GoesOnAt
  <2> QED  BY <2>1, <2>3, LocatesFits
<1>9. CASE BranchPoint
  <2> DEFINE i == BranchInstr
             a == Fresh(SecondIP)
             b == Fresh(FirstIP)
             n == Len(fragments)
             m == Len(unvisited_fragments)
             v == unvisited_fragments'
  <2>1. Locates(i) /\ phase' = "take"
    BY <1>9, BranchPointGrows
  <2>2. i.op \in {"BNG", "TSP"} /\ i.choice[1] = FirstDest /\ i.choice[2] = SecondDest
    BY DEF BranchInstr, BranchOp, ChoiceTo
  <2>3. a \in {0, 1} /\ b \in {0, 1} /\ n \in Nat
    BY <1>9, BranchTypes, LenProperties DEF ScanTypes
  <2>4. /\ m \in Nat /\ DOMAIN v = 1 .. a + m + b
        /\ \A k \in 1 .. a + m + b :
             v[k] = IF k <= a THEN <<n + b, SecondIP>>
                    ELSE IF k <= a + m THEN unvisited_fragments[k - a] ELSE <<n, FirstIP>>
    BY <1>9, BranchWork, LenProperties
  <2>5. PICK here0, first, second, d1, d2 :
          /\ here0 = here /\ first = FirstIP /\ second = SecondIP
          /\ d1 = FirstDest /\ d2 = SecondDest
    OBVIOUS
  <2>6. /\ b = 0 => first \in DOMAIN location_map' /\ d1 = location_map'[first]
        /\ b = 1 => d1 = <<n, 0>>
        /\ a = 0 => second \in DOMAIN location_map' /\ d2 = location_map'[second]
        /\ a = 1 => d2 = <<n + b, 0>>
    BY <2>5 DEF FirstDest, SecondDest, Dest, Fresh
  <2> HIDE DEF i, a, b, n, m, v
  <2>7. Reaches(d1, first)'
    <3>1. CASE b = 0
      BY <2>6, <3>1 DEF Reaches
    <3>2. CASE b = 1
      <4>1. a + m + 1 \in 1 .. a + m + b /\ ~(a + m + 1 <= a) /\ ~(a + m + 1 <= a + m)
        BY <2>3, <2>4, <3>2
      <4>2. a + m + 1 \in DOMAIN v /\ v[a + m + 1] = <<n, first>>
        BY <2>4, <2>5, <4>1
      <4>3. \E k \in DOMAIN v : v[k] = <<d1[1], first>>
        BY <2>6, <3>2, <4>2
      <4>4. d1[2] = 0
        BY <2>6, <3>2
      <4> QED  BY <4>3, <4>4 DEF Reaches, v
    <3> QED  BY <2>3, <3>1, <3>2
  <2>8. Reaches(d2, second)'
    <3>1. CASE a = 0
      BY <2>6, <3>1 DEF Reaches
    <3>2. CASE a = 1
      <4>1. 1 \in 1 .. a + m + b /\ 1 <= a
        BY <2>3, <2>4, <3>2
      <4>2. 1 \in DOMAIN v /\ v[1] = <<n + b, second>>
        BY <2>4, <2>5, <4>1
      <4>3. \E k \in DOMAIN v : v[k] = <<d2[1], second>>
        BY <2>6, <3>2, <4>2
      <4>4. d2[2] = 0
        BY <2>6, <3>2
      <4> QED  BY <4>3, <4>4 DEF Reaches, v
    <3> QED  BY <2>3, <3>1, <3>2
  <2>9. ASSUME NEW x, x = ip PROVE GoesOnAt(x)'
    <3>1. At(here0)' = {i} /\ location_map'[x] = here0 /\ program' = program
      BY <2>1, <2>5, <2>9, HereTypes DEF Locates, Grows, Adds
    <3>2. /\ GridAdvance(program, x, FALSE)' = first
          /\ GridAdvance(program, x, TRUE)' = second
      BY <2>5, <2>9, <3>1 DEF FirstIP, SecondIP
    <3>3. PICK i0 : i0 = i
      OBVIOUS
    <3>4. At(location_map[x])' = {i0}
      BY <3>1, <3>3
    <3>5. i0.op \in {"BNG", "TSP"} /\ i0.choice[1] = d1 /\ i0.choice[2] = d2
      BY <2>2, <2>5, <3>3 DEF i
    <3>6. /\ Reaches(i0.choice[1], GridAdvance(program, x, FALSE))'
          /\ Reaches(i0.choice[2], GridAdvance(program, x, TRUE))'
      BY <2>7, <2>8, <3>2, <3>5
    <3> QED  BY <3>4, <3>5, <3>6 DEF GoesOnAt
  <2> QED  BY <2>1, <2>9, LocatesFits
<1> QED  BY <1>2, <1>3, <1>4, <1>5, <1>6, <1>7, <1>8, <1>9 DEF Scan, Trace

\* At the beginning nothing is located.
LEMMA InitFits == Init => LocationsFit
<1> SUFFICES ASSUME Init PROVE LocationsFit
  OBVIOUS
<1>1. DOMAIN location_map = {}
  BY DEF Init
<1>2. DOMAIN unvisited_fragments = {1} /\ unvisited_fragments[1] = <<0, GridStart>>
  BY DEF Init
<1>3. Reaches(<<0, 0>>, GridStart)
  BY <1>2 DEF Reaches
<1> QED  BY <1>1, <1>3 DEF LocationsFit, LocatedAtWork, JoinsShareALine, GoesOnThere

\* For every text: an IP that was located has its own operation there, only the
\* two headings of a join share a location, and what follows there is what the
\* grid goes on with.
THEOREM ListingFits == Spec => []LocationsFit
<1>1. Init => ScanTypes /\ WorkInv /\ LocationsFit
  BY InitTypes, InitFits
<1>2. (ScanTypes /\ WorkInv /\ LocationsFit) /\ [Scan]_vars
        => (ScanTypes /\ WorkInv /\ LocationsFit)'
  BY WorkKept, FitKept
<1> QED  BY <1>1, <1>2, PTL DEF Spec

-----------------------------------------------------------------------------
(* The listing is complete.                                                *)

\* The IPs that a thread of the interpreter at this one may continue from.
Onward(x) ==
  LET o == GridAt(program, x)
  IN IF o \in Exits THEN {}
     ELSE IF o = "TSP" THEN {GridSplit(program, x)[1], GridSplit(program, x)[2]}
     ELSE IF o = "TJN" THEN {GridJoin(program, x)}
     ELSE IF o = "BNG" THEN {GridAdvance(program, x, FALSE), GridAdvance(program, x, TRUE)}
     ELSE {GridAdvance(program, x, FALSE)}

\* When the scan is done, what a thread can come to from the start is located.
AllListed ==
  phase = "done" =>
    /\ GridStart \in DOMAIN location_map
    /\ \A x \in DOMAIN location_map : Onward(x) \subseteq DOMAIN location_map

\* A split and a join of the interpreter lead where the scan goes on.
LEMMA ThreadsAdvance ==
  ASSUME ScanTypes, NEW x \in GridIPs(program)
  PROVE  /\ GridAt(program, x) = "TSP" =>
              /\ OperationOf(x) = "TSP"
              /\ {GridSplit(program, x)[1], GridSplit(program, x)[2]}
                   = {GridAdvance(program, x, FALSE), GridAdvance(program, x, TRUE)}
         /\ GridAt(program, x) = "TJN" =>
              /\ OperationOf(x) = "TJN"
              /\ GridJoin(program, x) = GridAdvance(program, x, FALSE)
<1> DEFINE o == CellAt(program, x.coords)
           n == program.side
<1>1. o \notin Directed /\ x.dir \in Directions /\ x = [coords |-> x.coords, dir |-> x.dir]
  BY IPs DEF ScanTypes, FromAText
<1>2. ASSUME NEW d
      PROVE  /\ [x EXCEPT !.dir = d].coords = x.coords /\ [x EXCEPT !.dir = d].dir = d
             /\ \A e : [[x EXCEPT !.dir = d] EXCEPT !.dir = e] = [x EXCEPT !.dir = e]
  BY <1>1
<1>3. ASSUME o \in ThreadOps, NEW d, NEW goLeft
      PROVE  /\ GridAdvance(program, [x EXCEPT !.dir = d], goLeft)
                  = Step([x EXCEPT !.dir = Branch(d, o, goLeft)], n)
             /\ GridAdvance(program, x, goLeft)
                  = Step([x EXCEPT !.dir = Branch(x.dir, o, goLeft)], n)
  <2>1. o \notin Mirrors
    BY <1>3 DEF ThreadOps, Mirrors
  <2> QED  BY <1>2, <1>3, <2>1 DEF GridAdvance
<1>4. ASSUME GridAt(program, x) = "TSP"
      PROVE  /\ OperationOf(x) = "TSP"
             /\ {GridSplit(program, x)[1], GridSplit(program, x)[2]}
                  = {GridAdvance(program, x, FALSE), GridAdvance(program, x, TRUE)}
  <2>1. o \in ThreadOps /\ IsBranch(o, x.dir)
    BY <1>1, <1>4 DEF GridAt, DirectedOp, Directed
  <2>2. OperationOf(x) = "TSP"
    BY <2>1 DEF OperationOf
  <2>3. CASE o = "THR_W"
    <3>1. ForkOf(o) = Fork(E, NE, SE, {NW, SW}, W)
      BY <2>3 DEF ForkOf
    <3>2. x.dir = E
      BY <2>1, <3>1 DEF IsBranch, Fork
    <3>3. /\ Branch(E, o, TRUE) = NE /\ Branch(E, o, FALSE) = SE
          /\ Branch(NE, o, FALSE) = NE /\ Branch(SE, o, FALSE) = SE
      BY <2>1, <3>1 DEF Branch, Fork, NE, SE, NW, SW, E
    <3>4. /\ GridSplit(program, x)[1] = GridAdvance(program, [x EXCEPT !.dir = NE], FALSE)
          /\ GridSplit(program, x)[2] = GridAdvance(program, [x EXCEPT !.dir = SE], FALSE)
      BY <3>2 DEF GridSplit
    <3>5. /\ GridSplit(program, x)[1] = Step([x EXCEPT !.dir = NE], n)
          /\ GridSplit(program, x)[2] = Step([x EXCEPT !.dir = SE], n)
      <4>1. /\ GridAdvance(program, [x EXCEPT !.dir = NE], FALSE)
                 = Step([x EXCEPT !.dir = Branch(NE, o, FALSE)], n)
            /\ GridAdvance(program, [x EXCEPT !.dir = SE], FALSE)
                 = Step([x EXCEPT !.dir = Branch(SE, o, FALSE)], n)
        BY <1>3, <2>1, Zenon
      <4> QED  BY <3>3, <3>4, <4>1
    <3>6. /\ GridAdvance(program, x, TRUE) = Step([x EXCEPT !.dir = NE], n)
          /\ GridAdvance(program, x, FALSE) = Step([x EXCEPT !.dir = SE], n)
      BY <1>3, <2>1, <3>2, <3>3
    <3> QED  BY <2>2, <3>5, <3>6
  <2>4. CASE o = "THR_E"
    <3>1. ForkOf(o) = Fork(W, SW, NW, {NE, SE}, E)
      BY <2>4 DEF ForkOf
    <3>2. x.dir = W /\ x.dir # E
      BY <2>1, <3>1 DEF IsBranch, Fork, W, E
    <3>3. /\ Branch(W, o, TRUE) = SW /\ Branch(W, o, FALSE) = NW
          /\ Branch(NW, o, FALSE) = NW /\ Branch(SW, o, FALSE) = SW
      BY <2>1, <3>1 DEF Branch, Fork, NE, SE, NW, SW, W
    <3>4. /\ GridSplit(program, x)[1] = GridAdvance(program, [x EXCEPT !.dir = NW], FALSE)
          /\ GridSplit(program, x)[2] = GridAdvance(program, [x EXCEPT !.dir = SW], FALSE)
      BY <3>2 DEF GridSplit
    <3>5. /\ GridSplit(program, x)[1] = Step([x EXCEPT !.dir = NW], n)
          /\ GridSplit(program, x)[2] = Step([x EXCEPT !.dir = SW], n)
      <4>1. /\ GridAdvance(program, [x EXCEPT !.dir = NW], FALSE)
                 = Step([x EXCEPT !.dir = Branch(NW, o, FALSE)], n)
            /\ GridAdvance(program, [x EXCEPT !.dir = SW], FALSE)
                 = Step([x EXCEPT !.dir = Branch(SW, o, FALSE)], n)
        BY <1>3, <2>1, Zenon
      <4> QED  BY <3>3, <3>4, <4>1
    <3>6. /\ GridAdvance(program, x, TRUE) = Step([x EXCEPT !.dir = SW], n)
          /\ GridAdvance(program, x, FALSE) = Step([x EXCEPT !.dir = NW], n)
      BY <1>3, <2>1, <3>2, <3>3
    <3> QED  BY <2>2, <3>5, <3>6
  <2> QED  BY <2>1, <2>3, <2>4 DEF ThreadOps
<1>5. ASSUME GridAt(program, x) = "TJN"
      PROVE  /\ OperationOf(x) = "TJN"
             /\ GridJoin(program, x) = GridAdvance(program, x, FALSE)
  <2>1. OperationOf(x) = "TJN"
    BY <1>5 DEF GridAt, OperationOf
  <2>2. \/ o = "THR_E" /\ x.dir \in {NE, SE}
        \/ o = "THR_W" /\ x.dir \in {NW, SW}
    BY <2>1, PlainOperation
  <2>3. CASE o = "THR_E"
    <3>1. ForkOf(o) = Fork(W, SW, NW, {NE, SE}, E) /\ o \in ThreadOps
      BY <2>3 DEF ForkOf, ThreadOps
    <3>2. Branch(E, o, FALSE) = E /\ Branch(x.dir, o, FALSE) = E
      BY <2>2, <2>3, <3>1 DEF Branch, Fork, NE, SE, E, W
    <3>3. GridJoin(program, x) = GridAdvance(program, [x EXCEPT !.dir = E], FALSE)
      BY <2>2, <2>3 DEF GridJoin
    <3> QED  BY <1>3, <2>1, <3>1, <3>2, <3>3
  <2>4. CASE o = "THR_W"
    <3>1. ForkOf(o) = Fork(E, NE, SE, {NW, SW}, W) /\ o \in ThreadOps
      BY <2>4 DEF ForkOf, ThreadOps
    <3>2. Branch(W, o, FALSE) = W /\ Branch(x.dir, o, FALSE) = W
      BY <2>2, <2>4, <3>1 DEF Branch, Fork, NW, SW, E, W
    <3>3. GridJoin(program, x) = GridAdvance(program, [x EXCEPT !.dir = W], FALSE)
      <4>1. x.dir \notin {NE, SE}
        BY <2>2, <2>4 DEF NW, SW, NE, SE
      <4> QED  BY <4>1 DEF GridJoin
    <3> QED  BY <1>3, <2>1, <3>1, <3>2, <3>3
  <2> QED  BY <2>2, <2>3, <2>4
<1> QED  BY <1>4, <1>5

\* What the interpreter goes on with is what the scan goes on with.
LEMMA OnwardAdvances ==
  ASSUME ScanTypes, NEW x \in GridIPs(program), NEW y \in Onward(x)
  PROVE  /\ OperationOf(x) \notin Exits
         /\ \/ y = GridAdvance(program, x, FALSE)
            \/ y = GridAdvance(program, x, TRUE) /\ OperationOf(x) \in {"BNG", "TSP"}
<1> DEFINE o == CellAt(program, x.coords)
           a == GridAt(program, x)
<1>1. o \notin Directed
  BY IPs DEF ScanTypes, FromAText
<1>2. a \notin Exits
  BY DEF Onward
<1>3. CASE a = "TSP"
  BY <1>2, <1>3, ThreadsAdvance DEF Onward, Exits
<1>4. CASE a = "TJN"
  BY <1>2, <1>4, ThreadsAdvance DEF Onward, Exits
<1>5. CASE a = "SKP"
  <2>1. OperationOf(x) \notin Exits
    BY <1>5 DEF GridAt, OperationOf, DirectedOp, Exits, Branches, Mirrors, ThreadOps, IsBranch
  <2> QED  BY <1>2, <1>5, <2>1 DEF Onward
<1>6. CASE a \notin {"TSP", "TJN", "SKP"}
  <2>1. OperationOf(x) = a
    BY <1>6 DEF GridAt, OperationOf
  <2>2. y = GridAdvance(program, x, FALSE) \/ (y = GridAdvance(program, x, TRUE) /\ a = "BNG")
    BY <1>2, <1>6 DEF Onward
  <2> QED  BY <1>2, <2>1, <2>2
<1> QED  BY <1>3, <1>4, <1>5, <1>6

\* For every text: the finished listing holds everything that any thread of the
\* program can perform, whatever the values that it branches on.
THEOREM ListingIsComplete == Spec => []AllListed
<1>1. ASSUME ScanTypes, WorkInv, LocationsFit PROVE AllListed
  <2> SUFFICES ASSUME phase = "done"
               PROVE  /\ GridStart \in DOMAIN location_map
                      /\ \A x \in DOMAIN location_map : Onward(x) \subseteq DOMAIN location_map
    BY DEF AllListed
  <2>1. DOMAIN unvisited_fragments = {}
    BY <1>1, EmptySeq DEF WorkInv
  <2>2. ASSUME NEW l, NEW y, Reaches(l, y) PROVE y \in DOMAIN location_map
    BY <2>1, <2>2 DEF Reaches
  <2>3. LocatedAtWork /\ GoesOnThere
    BY <1>1 DEF LocationsFit
  <2>4. GridStart \in DOMAIN location_map
    BY <2>2, <2>3 DEF GoesOnThere
  <2>5. ASSUME NEW x \in DOMAIN location_map, NEW y \in Onward(x)
        PROVE  y \in DOMAIN location_map
    <3>1. x \in GridIPs(program)
      BY <1>1 DEF ScanTypes
    <3>2. PICK instr \in At(location_map[x]) : instr.op = OperationOf(x)
      BY <2>3 DEF LocatedAtWork
    <3>3. GoesOnAt(x)
      BY <2>3, GoesOnIs
    <3>4. OperationOf(x) \in {"BNG", "TSP"} =>
            /\ GridAdvance(program, x, FALSE) \in DOMAIN location_map
            /\ GridAdvance(program, x, TRUE) \in DOMAIN location_map
      BY <2>2, <3>2, <3>3 DEF GoesOnAt
    <3>5. OperationOf(x) \notin {"BNG", "TSP"} \cup Exits =>
            GridAdvance(program, x, FALSE) \in DOMAIN location_map
      BY <2>2, <3>2, <3>3 DEF GoesOnAt
    <3> QED  BY <1>1, <3>1, <3>4, <3>5, OnwardAdvances
  <2> QED  BY <2>4, <2>5
<1>2. Spec => []LocationsFit
  BY ListingFits
<1> QED  BY <1>1, <1>2, ScanInvariant, PTL

-----------------------------------------------------------------------------
(* Jumps and ends.                                                         *)

\* Where an instruction may send a thread, but for the next one.
TargetsOf(instr) == IF instr.op = "JMP" THEN {instr.next}
                    ELSE IF instr.op \in {"BNG", "TSP"} THEN {instr.choice[1], instr.choice[2]}
                    ELSE {}

\* A jump has another instruction than a jump at its target.
JumpsHitWork ==
  \A l \in Locations : \A instr \in At(l) :
    instr.op = "JMP" => \E target \in At(instr.next) : target.op # "JMP"

\* When the scan is done, every target has an instruction.
TargetsExist ==
  phase = "done" =>
    \A l \in Locations : \A instr \in At(l) : \A target \in TargetsOf(instr) : At(target) # {}

\* What a fragment may end with.
LastOps == {"BNG", "JMP", "TSP"} \cup Exits

\* Of a list of instructions exactly the last one is such.
EndsOnce(code) ==
  code # << >> /\ \A j \in 1 .. Len(code) : code[j].op \in LastOps <=> j = Len(code)

\* Every fragment that has been filled ends, and not before its last instruction.
FragmentsEnd ==
  /\ \A k \in Filled : EndsOnce(fragments[k + 1][1])
  /\ \A j \in 1 .. Len(fragment) : phase = "trace" => fragment[j].op \notin LastOps

\* Where a jump leads an IP has been located, and where another instruction is.
JumpInv ==
  \A l \in Locations : \A instr \in At(l) : \E x \in DOMAIN location_map :
    location_map[x] = IF instr.op = "JMP" THEN instr.next ELSE l

\* No cell of a text is a jump.
LEMMA NoJumpOnTheGrid ==
  ASSUME ScanTypes, NEW x \in GridIPs(program)
  PROVE  OperationOf(x) # "JMP"
<1>1. CellAt(program, x.coords) \in Words \ Directed
  BY IPs DEF ScanTypes, FromAText
<1> QED  BY <1>1 DEF OperationOf, DirectedOp, Directed

\* An instruction is added, which is located or leads to where one is.
LEMMA JumpGrows ==
  ASSUME ScanTypes, JumpInv, NEW i, Grows(i),
         NEW z, z \in DOMAIN location_map',
         location_map'[z] = IF i.op = "JMP" THEN i.next ELSE here
  PROVE  JumpInv'
<1> SUFFICES ASSUME NEW l \in Locations, NEW m, m = At(l)', NEW instr \in m
             PROVE  \E x \in DOMAIN location_map' :
                      location_map'[x] = IF instr.op = "JMP" THEN instr.next ELSE l
  BY DEF JumpInv
<1>1. CASE l = here
  <2>1. m = {i}
    BY <1>1 DEF Grows, Adds
  <2> QED  BY <1>1, <2>1
<1>2. CASE l # here
  <2>1. m = At(l)
    BY <1>2 DEF Grows, Adds
  <2>2. PICK x \in DOMAIN location_map :
          location_map[x] = IF instr.op = "JMP" THEN instr.next ELSE l
    BY <2>1 DEF JumpInv
  <2>3. x \in DOMAIN location_map' /\ location_map'[x] = location_map[x]
    BY DEF Grows
  <2> QED  BY <2>2, <2>3
<1> QED  BY <1>1, <1>2

\* Every iteration keeps this.
LEMMA JumpsKept ==
  ASSUME ScanTypes, WorkInv, JumpInv, [Scan]_vars
  PROVE  JumpInv'
<1>1. ASSUME UNCHANGED location_map, \A l \in Locations : At(l)' = At(l) PROVE JumpInv'
  BY <1>1 DEF JumpInv
<1>2. ASSUME NEW i, Locates(i) PROVE JumpInv'
  <2>1. /\ Grows(i) /\ location_map'[ip] = here /\ ip \in DOMAIN location_map'
        /\ i.op = OperationOf(ip)
    BY <1>2 DEF Locates, Grows
  <2>2. i.op # "JMP"
    BY <2>1, NoJumpOnTheGrid DEF ScanTypes
  <2> QED  BY <2>1, <2>2, JumpGrows
<1>3. CASE UNCHANGED vars
  BY <1>1, <1>3 DEF vars, worklist, current, At, CodeOf, Filled
<1>4. CASE Finish
  BY <1>1, <1>4 DEF Finish, worklist, current, At, CodeOf, Filled
<1>5. CASE Take
  <2>1. UNCHANGED location_map
    BY <1>5 DEF Take
  <2> QED  BY <1>1, <1>5, <2>1, TakeAdds
<1>6. CASE JumpBack
  <2>1. PICK i, z : i = JumpTo(location_map[ip]) /\ z = ip
    OBVIOUS
  <2>2. /\ Grows(i) /\ z \in DOMAIN location_map' /\ location_map'[z] = location_map[z]
        /\ i.op = "JMP" /\ i.next = location_map[z]
    <3>1. Grows(i) /\ z \in DOMAIN location_map
      BY <1>6, <2>1, JumpBackGrows
    <3>2. i.op = "JMP" /\ i.next = location_map[z]
      BY <2>1 DEF JumpTo
    <3> QED  BY <3>1, <3>2 DEF Grows
  <2> QED  BY <2>2, JumpGrows
<1>7. CASE JoinOtherSide
  <2>1. PICK i, z : i = JumpTo(location_map[Flipped(ip)]) /\ z = Flipped(ip)
    OBVIOUS
  <2>2. /\ Grows(i) /\ z \in DOMAIN location_map' /\ location_map'[z] = location_map[z]
        /\ i.op = "JMP" /\ i.next = location_map[z]
    <3>1. Grows(i) /\ z \in DOMAIN location_map
      BY <1>7, <2>1, JoinOtherSideGrows
    <3>2. i.op = "JMP" /\ i.next = location_map[z]
      BY <2>1 DEF JumpTo
    <3> QED  BY <3>1, <3>2 DEF Grows
  <2> QED  BY <2>2, JumpGrows
<1>8. CASE Exit
  BY <1>2, <1>8, ExitGrows
<1>9. CASE Emit
  BY <1>2, <1>9, EmitGrows
<1>10. CASE BranchPoint
  BY <1>2, <1>10, BranchPointGrows
<1> QED  BY <1>3, <1>4, <1>5, <1>6, <1>7, <1>8, <1>9, <1>10 DEF Scan, Trace

\* For every text: no jump leads to a jump, and once the scan is done, no jump and
\* no branch leads to where there is no instruction (instruction_scanner::build_state,
\* whose locations the disassembler prints as labels).
THEOREM TargetsHoldWork == Spec => [](JumpsHitWork /\ TargetsExist)
<1>1. Init => JumpInv
  <2> SUFFICES ASSUME Init, NEW l \in Locations, NEW instr \in At(l) PROVE FALSE
    BY DEF JumpInv
  <2>1. Len(fragments) = 1 /\ fragments[1] = << >> /\ phase = "take"
    BY DEF Init
  <2>2. Filled = {}
    BY <2>1 DEF Filled
  <2>3. CodeOf(l[1]) = << >>
    BY <2>1, <2>2 DEF CodeOf
  <2> QED  BY <2>3 DEF At
<1>2. (ScanTypes /\ WorkInv /\ JumpInv) /\ [Scan]_vars => JumpInv'
  BY JumpsKept
<1>3. ScanTypes /\ LocationsFit /\ JumpInv => JumpsHitWork
  <2> SUFFICES ASSUME ScanTypes, LocationsFit, JumpInv,
                      NEW l \in Locations, NEW instr \in At(l), instr.op = "JMP"
               PROVE  \E target \in At(instr.next) : target.op # "JMP"
    BY DEF JumpsHitWork
  <2>1. PICK x \in DOMAIN location_map : location_map[x] = instr.next
    BY DEF JumpInv
  <2>2. \E target \in At(instr.next) : target.op = OperationOf(x)
    BY <2>1 DEF LocationsFit, LocatedAtWork
  <2> QED  BY <2>2, NoJumpOnTheGrid DEF ScanTypes
<1>4. ScanTypes /\ WorkInv /\ LocationsFit /\ JumpInv => TargetsExist
  <2> SUFFICES ASSUME ScanTypes, WorkInv, LocationsFit, JumpInv, phase = "done",
                      NEW l \in Locations, NEW instr \in At(l),
                      NEW target \in TargetsOf(instr)
               PROVE  At(target) # {}
    BY DEF TargetsExist
  <2>1. PICK x \in DOMAIN location_map :
          location_map[x] = IF instr.op = "JMP" THEN instr.next ELSE l
    BY DEF JumpInv
  <2>2. LocatedAtWork /\ GoesOnThere
    BY DEF LocationsFit
  <2>3. DOMAIN unvisited_fragments = {}
    BY DEF WorkInv
  <2>4. ASSUME NEW to, NEW y, Reaches(to, y) PROVE At(to) # {}
    <3>1. y \in DOMAIN location_map
          /\ (location_map[y] = to \/ At(to) = {JumpTo(location_map[y])})
      BY <2>3, <2>4 DEF Reaches
    <3> QED  BY <2>2, <3>1 DEF LocatedAtWork
  <2>5. CASE instr.op = "JMP"
    BY <2>1, <2>2, <2>5 DEF TargetsOf, LocatedAtWork
  <2>6. CASE instr.op \in {"BNG", "TSP"}
    <3>1. GoesOnAt(x) /\ location_map[x] = l
      BY <2>1, <2>2, <2>6, GoesOnIs
    <3> QED  BY <2>4, <2>6, <3>1 DEF GoesOnAt, TargetsOf
  <2> QED  BY <2>5, <2>6 DEF TargetsOf
<1> QED  BY <1>1, <1>2, <1>3, <1>4, ScanInvariant, ListingFits, PTL DEF Spec

\* A list with these instructions but for the last.
Goes(code) == \A j \in 1 .. Len(code) : code[j].op \notin LastOps

\* Appending what a fragment may end with ends it; appending another does not.
LEMMA AppendEnds ==
  ASSUME NEW S, NEW code \in Seq(S), NEW i \in S, Goes(code)
  PROVE  IF i.op \in LastOps THEN EndsOnce(Append(code, i)) ELSE Goes(Append(code, i))
<1> DEFINE longer == Append(code, i)
           n == Len(code)
<1>1. /\ n \in Nat /\ longer \in Seq(S) /\ Len(longer) = n + 1
      /\ \A j \in 1 .. n : longer[j] = code[j]
      /\ longer[n + 1] = i
  BY LenProperties, AppendProperties
<1> HIDE DEF longer, n
<1>2. longer # << >>
  BY <1>1, EmptySeq
<1>3. \A j \in 1 .. n + 1 : j = n + 1 \/ j \in 1 .. n
  BY <1>1
<1>4. \A j \in 1 .. n : j # n + 1 /\ code[j].op \notin LastOps
  BY <1>1 DEF Goes, n
<1>5. \A j \in 1 .. n + 1 : longer[j].op \in LastOps <=> j = n + 1 /\ i.op \in LastOps
  BY <1>1, <1>3, <1>4
<1> QED  BY <1>1, <1>2, <1>5 DEF EndsOnce, Goes, longer

\* What a step has to keep for the ends.
LEMMA EndKept ==
  ASSUME ScanTypes, FragmentsEnd, phase = "trace", NEW i \in Instructions, i.op \in LastOps,
         NEW more \in Seq({<< >>}), EndsWith(i, more)
  PROVE  FragmentsEnd'
<1> DEFINE n == Len(fragments)
           m == Len(more)
<1>1. /\ n \in Nat /\ m \in Nat /\ Len(fragments') = n + m
      /\ fragments'[index + 1] = <<Append(fragment, i)>>
      /\ \A k \in 1 .. n : k # index + 1 => fragments'[k] = fragments[k]
      /\ \A k \in n + 1 .. n + m : fragments'[k] = << >>
      /\ phase' = "take"
  BY EndsTypes
<1>2. EndsOnce(Append(fragment, i))
  <2>1. Goes(fragment) /\ fragment \in Seq(Instructions)
    BY DEF FragmentsEnd, Goes, ScanTypes
  <2> QED  BY <2>1, AppendEnds
<1>3. ASSUME NEW k \in Filled' PROVE EndsOnce(fragments'[k + 1][1])
  <2> HIDE DEF n, m
  <2>1. k \in 0 .. n + m - 1 /\ fragments'[k + 1] # << >>
    BY <1>1 DEF Filled
  <2>2. index \in Nat
    BY DEF ScanTypes
  <2>3. k + 1 \in 1 .. n
    <3>1. ~(k + 1 \in n + 1 .. n + m)
      BY <1>1, <2>1
    <3> QED  BY <1>1, <2>1, <3>1
  <2>4. CASE k = index
    <3>1. PICK code : code = Append(fragment, i)
      OBVIOUS
    <3>2. fragments'[k + 1] = <<code>>
      BY <1>1, <2>4, <3>1
    <3>3. fragments'[k + 1][1] = code /\ EndsOnce(code)
      BY <1>2, <3>1, <3>2
    <3> QED  BY <3>3
  <2>5. CASE k # index
    <3>1. k + 1 # index + 1 /\ k \in 0 .. n - 1
      BY <1>1, <2>1, <2>2, <2>3, <2>5
    <3>2. fragments'[k + 1] = fragments[k + 1]
      BY <1>1, <2>3, <3>1
    <3>3. k \in Filled
      BY <2>1, <3>1, <3>2 DEF Filled, n
    <3> QED  BY <3>2, <3>3 DEF FragmentsEnd
  <2> QED  BY <2>4, <2>5
<1> QED  BY <1>1, <1>3 DEF FragmentsEnd

\* For every text: a fragment that is filled ends in an exit, a jump or a branch,
\* and none of its other instructions is one, so that no thread runs on into the
\* next fragment but where a branch says so (instruction_scanner::build_state).
THEOREM FragmentsEndOnce == Spec => []FragmentsEnd
<1>1. Init => FragmentsEnd
  <2> SUFFICES ASSUME Init PROVE FragmentsEnd
    OBVIOUS
  <2>1. Len(fragments) = 1 /\ fragments[1] = << >> /\ Len(fragment) = 0
    BY EmptySeq DEF Init
  <2> QED  BY <2>1 DEF FragmentsEnd, Filled
<1>2. (ScanTypes /\ FragmentsEnd) /\ [Scan]_vars => FragmentsEnd'
  <2> SUFFICES ASSUME ScanTypes, FragmentsEnd, [Scan]_vars PROVE FragmentsEnd'
    OBVIOUS
  <2>1. ASSUME UNCHANGED fragments, \/ fragment' = << >>
                                     \/ phase' # "trace"
                                     \/ UNCHANGED <<phase, fragment>>
        PROVE  FragmentsEnd'
    <3>1. Filled' = Filled
      BY <2>1 DEF Filled
    <3>2. \A j \in 1 .. Len(fragment') : phase' = "trace" => fragment'[j].op \notin LastOps
      <4>1. CASE fragment' = << >>
        <5>1. Len(fragment') = 0
          BY <4>1, EmptySeq
        <5> QED  BY <5>1
      <4>2. CASE phase' # "trace"
        BY <4>2
      <4>3. CASE UNCHANGED <<phase, fragment>>
        BY <4>3 DEF FragmentsEnd
      <4> QED  BY <2>1, <4>1, <4>2, <4>3
    <3> QED  BY <2>1, <3>1, <3>2 DEF FragmentsEnd
  <2>2. ASSUME phase = "trace", NEW i \in Instructions, i.op \in LastOps, NEW more,
               more = << >>, EndsWith(i, more)
        PROVE  FragmentsEnd'
    <3>1. more \in Seq({<< >>})
      BY <2>2, NoMore
    <3> QED  BY <2>2, <3>1, EndKept
  <2>3. CASE UNCHANGED vars
    BY <2>1, <2>3 DEF vars, worklist, current
  <2>4. CASE Finish
    BY <2>1, <2>4 DEF Finish, worklist, current
  <2>5. CASE Take
    BY <2>1, <2>5 DEF Take
  <2>6. CASE JumpBack
    <3>1. PICK i : i = JumpTo(location_map[ip])
      OBVIOUS
    <3>2. phase = "trace" /\ EndsWith(i, << >>) /\ i \in Instructions /\ i.op = "JMP"
      BY <2>6, <3>1 DEF JumpBack, JumpTo, Instructions, ScanTypes
    <3> QED  BY <2>2, <3>2 DEF LastOps
  <2>7. CASE JoinOtherSide
    <3>1. PICK i : i = JumpTo(location_map[Flipped(ip)])
      OBVIOUS
    <3>2. location_map[Flipped(ip)] \in Locations
      BY <2>7, JoinTypes DEF JoinOtherSide
    <3>3. phase = "trace" /\ EndsWith(i, << >>) /\ i \in Instructions /\ i.op = "JMP"
      BY <2>7, <3>1, <3>2 DEF JoinOtherSide, New, JumpTo, Instructions
    <3> QED  BY <2>2, <3>3 DEF LastOps
  <2>8. CASE Exit
    <3>1. phase = "trace" /\ EndsWith(plain, << >>) /\ plain \in Instructions /\ plain.op \in Exits
      BY <2>8, PlainTypes DEF Exit, New
    <3> QED  BY <2>2, <3>1 DEF LastOps
  <2>9. CASE Emit
    <3>1. /\ phase = "trace" /\ fragment' = Append(fragment, plain)
          /\ UNCHANGED <<fragments, phase>> /\ operation \notin Exits
      BY <2>9 DEF Emit, New, worklist
    <3>2. plain \in Instructions /\ plain.op \notin LastOps
      BY <3>1, PlainTypes DEF LastOps
    <3>3. Goes(fragment) /\ fragment \in Seq(Instructions)
      BY <3>1 DEF FragmentsEnd, Goes, ScanTypes
    <3>4. Goes(fragment')
      BY <3>1, <3>2, <3>3, AppendEnds
    <3>5. Filled' = Filled
      BY <3>1 DEF Filled
    <3> QED  BY <3>1, <3>4, <3>5 DEF FragmentsEnd, Goes
  <2>10. CASE BranchPoint
    <3>1. phase = "trace" /\ EndsWith(BranchInstr, NewOnes)
      BY <2>10, BranchPointIs DEF New
    <3>2. BranchInstr.op \in LastOps
      BY DEF BranchInstr, BranchOp, ChoiceTo, LastOps
    <3> QED  BY <2>10, <3>1, <3>2, BranchTypes, EndKept
  <2> QED  BY <2>3, <2>4, <2>5, <2>6, <2>7, <2>8, <2>9, <2>10 DEF Scan, Trace
<1> QED  BY <1>1, <1>2, ScanInvariant, PTL DEF Spec

-----------------------------------------------------------------------------
(* The first pass of the assembler.                                        *)

TakeNext(pass, line) == IF pass.error # "" THEN pass ELSE TakeLine(pass, line)

\* What the first pass has collected after each of n lines.
Passes(lines, n, h) == /\ h[0] = Nothing
                       /\ \A i \in 1 .. n : h[i] = TakeNext(h[i - 1], lines[i])

\* The fold that defines FirstPass takes the lines one by one.
Folds(lines, n, f) ==
  f = [s \in SUBSET (1 .. n) |->
         IF s = {} THEN Nothing ELSE TakeNext(f[s \ {Max(s)}], lines[Max(s)])]

LEMMA MaxIs ==
  ASSUME NEW n \in Nat, NEW s \in SUBSET (1 .. n), n \in s
  PROVE  Max(s) = n
<1>1. \A y \in s : n >= y
  OBVIOUS
<1>2. Max(s) \in s /\ \A y \in s : Max(s) >= y
  BY <1>1 DEF Max
<1>3. PICK m : m = Max(s)
  OBVIOUS
<1>4. m \in 1 .. n /\ m >= n
  BY <1>2, <1>3
<1> QED  BY <1>3, <1>4

LEMMA FoldExists ==
  ASSUME NEW lines, NEW n \in Nat
  PROVE  \E f : Folds(lines, n, f)
<1> DEFINE B == { k \in Nat : \E f : Folds(lines, k, f) }
<1>1. 0 \in B
  <2>1. Folds(lines, 0, [s \in SUBSET (1 .. 0) |-> Nothing])
    <3>1. \A s \in SUBSET (1 .. 0) : s = {}
      OBVIOUS
    <3> QED  BY <3>1 DEF Folds
  <2> QED  BY <2>1
<1>2. ASSUME NEW k \in Nat, k \in B PROVE k + 1 \in B
  <2>1. PICK f : Folds(lines, k, f)
    BY <1>2
  <2> DEFINE h == [s \in SUBSET (1 .. k + 1) |->
                     IF k + 1 \in s THEN TakeNext(f[s \ {k + 1}], lines[k + 1]) ELSE f[s]]
             v(s) == IF s = {} THEN Nothing ELSE TakeNext(h[s \ {Max(s)}], lines[Max(s)])
  <2>2. ASSUME NEW s \in SUBSET (1 .. k + 1), k + 1 \notin s PROVE s \in SUBSET (1 .. k) /\ h[s] = f[s]
    BY <2>2
  <2>3. ASSUME NEW s \in SUBSET (1 .. k + 1) PROVE h[s] = v(s)
    <3>1. CASE k + 1 \in s
      <4>1. Max(s) = k + 1 /\ s # {}
        BY <3>1, MaxIs
      <4>2. s \ {k + 1} \in SUBSET (1 .. k + 1) /\ k + 1 \notin s \ {k + 1}
        OBVIOUS
      <4>3. h[s \ {k + 1}] = f[s \ {k + 1}]
        BY <2>2, <4>2
      <4>4. h[s] = TakeNext(f[s \ {k + 1}], lines[k + 1])
        BY <3>1
      <4> HIDE DEF h
      <4> QED  BY <4>1, <4>3, <4>4
    <3>2. CASE k + 1 \notin s
      <4>1. s \in SUBSET (1 .. k) /\ h[s] = f[s]
        BY <2>2, <3>2
      <4>2. f[s] = IF s = {} THEN Nothing ELSE TakeNext(f[s \ {Max(s)}], lines[Max(s)])
        BY <2>1, <4>1 DEF Folds
      <4>3. h[s \ {Max(s)}] = f[s \ {Max(s)}]
        <5>1. s \ {Max(s)} \in SUBSET (1 .. k + 1) /\ k + 1 \notin s \ {Max(s)}
          BY <3>2
        <5> QED  BY <2>2, <5>1
      <4> HIDE DEF h
      <4> QED  BY <4>1, <4>2, <4>3
    <3> QED  BY <3>1, <3>2
  <2>4. h = [s \in SUBSET (1 .. k + 1) |-> h[s]]
    OBVIOUS
  <2> HIDE DEF h
  <2>5. Folds(lines, k + 1, h)
    BY <2>3, <2>4 DEF Folds
  <2> QED  BY <2>5
<1> HIDE DEF B
<1>3. n \in B
  BY <1>1, <1>2, SetInduction
<1> QED  BY <1>3 DEF B

LEMMA FirstPassRuns ==
  ASSUME NEW lines, NEW n \in Nat, DOMAIN lines = 1 .. n
  PROVE  \E h : Passes(lines, n, h) /\ FirstPass(lines) = h[n]
<1> DEFINE f == CHOOSE x : Folds(lines, n, x)
           h == [i \in 0 .. n |-> f[1 .. i]]
<1>1. Folds(lines, n, f)
  BY FoldExists
<1>2. FirstPass(lines) = f[1 .. n]
  BY DEF FirstPass, FoldLeft, MapThenFoldSet, TakeNext, Folds
<1> HIDE DEF f
<1>3. f[{}] = Nothing
  BY <1>1 DEF Folds
<1>4. 1 .. 0 = {}
  OBVIOUS
<1>5. ASSUME NEW i \in 1 .. n PROVE f[1 .. i] = TakeNext(f[1 .. i - 1], lines[i])
  <2>1. 1 .. i \in SUBSET (1 .. n) /\ i \in 1 .. i /\ 1 .. i # {} /\ (1 .. i) \ {i} = 1 .. i - 1 /\ i \in Nat
    OBVIOUS
  <2>2. Max(1 .. i) = i
    BY <2>1, MaxIs
  <2>3. f[1 .. i] = TakeNext(f[(1 .. i) \ {Max(1 .. i)}], lines[Max(1 .. i)])
    BY <1>1, <2>1 DEF Folds
  <2> QED  BY <2>1, <2>2, <2>3
<1>6. \A i \in 1 .. n : i \in 0 .. n /\ i - 1 \in 0 .. n
  OBVIOUS
<1>7. h[0] = Nothing /\ h[n] = f[1 .. n]
  BY <1>3, <1>4
<1>8. \A i \in 1 .. n : h[i] = f[1 .. i] /\ h[i - 1] = f[1 .. i - 1]
  BY <1>6
<1> HIDE DEF h
<1> QED  BY <1>2, <1>5, <1>7, <1>8 DEF Passes

\* No error; and a line with an instruction.
Fine(pass)  == pass.error = ""
IsPass(pass) ==
  pass = [instructions |-> pass.instructions, labels |-> pass.labels, error |-> pass.error]
Named(line) == line.name # ""

\* A line that the first pass accepts wherever its label is new.
Acceptable(line) ==
  /\ line.name \in InstructionNames
  /\ line.name \in Targeted => line.target # << >>
  /\ line.name \in Pushing => line.target \in Literals

\* What the first pass has collected of the first n lines if each holds an
\* instruction: that, and for each label the number of its line.
HasRead(p, lines, n) ==
  /\ Fine(p) /\ IsPass(p)
  /\ \E S : p.instructions \in Seq(S)
  /\ Len(p.instructions) = n
  /\ \A q \in 1 .. n : /\ Acceptable(lines[q])
                       /\ p.instructions[q].op = lines[q].name
                       /\ lines[q].name \in Targeted => p.instructions[q].target = lines[q].target
  /\ \A l \in DOMAIN p.labels : l # << >> /\ \E q \in 1 .. n : lines[q].label = l
  /\ \A q \in 1 .. n : lines[q].label # << >> =>
       lines[q].label \in DOMAIN p.labels /\ p.labels[lines[q].label] = q - 1

LEMMA NothingHasRead == ASSUME NEW lines PROVE HasRead(Nothing, lines, 0)
<1>1. \E S : << >> \in Seq(S)
  BY EmptySeq
<1>2. Len(<< >>) = 0 /\ DOMAIN << >> = {} /\ 1 .. 0 = {}
  BY EmptySeq
<1> QED  BY <1>1, <1>2 DEF HasRead, Nothing, Fine, IsPass

\* The labels with that of the line, and the instruction of the line.
LabelsWith(p, line) ==
  IF line.label = << >> THEN p.labels
  ELSE [l \in DOMAIN p.labels \cup {line.label} |->
          IF l = line.label THEN Len(p.instructions) ELSE p.labels[l]]
Entry(line) ==
  [op     |-> line.name,
   target |-> IF line.name \in Targeted \cup Pushing THEN line.target ELSE << >>]

\* The label and the instruction of a line, if there is no error.
LEMMA LineTaken ==
  ASSUME NEW p, Fine(p), IsPass(p),
         NEW line, Named(line),
         NEW next, next = TakeNext(p, line), Fine(next)
  PROVE  /\ line.label \notin DOMAIN p.labels \/ line.label = << >>
         /\ Acceptable(line)
         /\ next.instructions = Append(p.instructions, Entry(line))
         /\ next.labels = LabelsWith(p, line)
         /\ IsPass(next)
<1> DEFINE labels == LabelsWith(p, line)
           e == Entry(line)
           m == TakeLabel(p, line.label)
<1>1. \/ ~Fine(m)
      \/ /\ line.label \notin DOMAIN p.labels \/ line.label = << >>
         /\ m = [instructions |-> p.instructions, labels |-> labels, error |-> p.error]
  <2>1. CASE line.label = << >>
    BY <2>1 DEF TakeLabel, IsPass, LabelsWith
  <2>2. CASE line.label # << >> /\ line.label \in DOMAIN p.labels
    <3>1. m = [p EXCEPT !.error = "label appears twice"]
      BY <2>2 DEF TakeLabel
    <3> QED  BY <3>1 DEF Fine, IsPass
  <2>3. CASE line.label # << >> /\ line.label \notin DOMAIN p.labels
    <3>1. m = [p EXCEPT !.labels = labels]
      BY <2>3 DEF TakeLabel, LabelsWith
    <3> HIDE DEF labels
    <3> QED  BY <2>3, <3>1 DEF IsPass
  <2> QED  BY <2>1, <2>2, <2>3
<1>2. next = IF ~Fine(m) THEN m ELSE TakeInstruction(m, line.name, line.target)
  BY Zenon DEF TakeNext, TakeLine, Fine
<1> HIDE DEF m, labels
<1>3. m = [instructions |-> p.instructions, labels |-> labels, error |-> p.error]
      /\ (line.label \notin DOMAIN p.labels \/ line.label = << >>)
      /\ next = TakeInstruction(m, line.name, line.target)
  BY <1>1, <1>2
<1>4. Acceptable(line) /\ next = [m EXCEPT !.instructions = Append(m.instructions, e)]
  <2>1. CASE \E x \in {"no instruction", "out_of_range", "invalid literal"} : next = [m EXCEPT !.error = x]
    <3>1. PICK x : x # "" /\ next = [m EXCEPT !.error = x]
      BY <2>1
    <3> QED  BY <1>3, <3>1 DEF Fine
  <2>2. CASE Acceptable(line) /\ next = [m EXCEPT !.instructions = Append(m.instructions, e)]
    BY <2>2
  <2> HIDE DEF e
  <2> QED  BY <1>3, <2>1, <2>2 DEF TakeInstruction, e, Entry, Named, Acceptable
<1>5. next = [instructions |-> Append(p.instructions, e),
              labels |-> labels, error |-> p.error]
  <2> HIDE DEF e
  <2> QED  BY <1>3, <1>4
<1> QED  BY <1>3, <1>4, <1>5 DEF labels, IsPass

\* The lines that have been read stay what they are, and one is added.
LEMMA LineIsRead ==
  ASSUME NEW lines, NEW n \in Nat, NEW p, HasRead(p, lines, n),
         NEW line, line = lines[n + 1], Named(line),
         NEW next, next = TakeNext(p, line), Fine(next)
  PROVE  HasRead(next, lines, n + 1)
<1> DEFINE labels == LabelsWith(p, line)
           e == Entry(line)
           more == Append(p.instructions, e)
<1>1. /\ line.label \notin DOMAIN p.labels \/ line.label = << >>
      /\ next.instructions = more /\ next.labels = labels /\ IsPass(next)
      /\ Acceptable(line)
  <2>1. Fine(p) /\ IsPass(p)
    BY DEF HasRead
  <2> QED  BY <2>1, LineTaken
<1>3. e.op = line.name /\ (line.name \in Targeted => e.target = line.target)
  BY DEF Entry
<1> HIDE DEF e
<1>4. /\ \E S : more \in Seq(S)
      /\ Len(more) = n + 1
      /\ \A q \in 1 .. n : more[q] = p.instructions[q]
      /\ more[n + 1] = e
  <2>1. PICK S : p.instructions \in Seq(S)
    BY DEF HasRead
  <2>2. p.instructions \in Seq(S \cup {e}) /\ e \in S \cup {e}
    BY <2>1, SeqMonotonic
  <2>3. Len(p.instructions) = n
    BY DEF HasRead
  <2> QED  BY <2>2, <2>3, AppendProperties
<1> HIDE DEF more
<1>5. ASSUME NEW q \in 1 .. n + 1
      PROVE  /\ Acceptable(lines[q]) /\ more[q].op = lines[q].name
             /\ lines[q].name \in Targeted => more[q].target = lines[q].target
  <2>1. CASE q = n + 1
    BY <1>1, <1>3, <1>4, <2>1
  <2>2. CASE q \in 1 .. n
    BY <1>4, <2>2 DEF HasRead
  <2> QED  BY <2>1, <2>2
<1>6. ASSUME NEW l \in DOMAIN labels PROVE l # << >> /\ \E q \in 1 .. n + 1 : lines[q].label = l
  <2>1. CASE l \in DOMAIN p.labels
    <3>1. PICK q \in 1 .. n : lines[q].label = l
      BY <2>1 DEF HasRead
    <3>2. q \in 1 .. n + 1
      OBVIOUS
    <3> QED  BY <2>1, <3>1, <3>2 DEF HasRead
  <2>2. CASE l \notin DOMAIN p.labels
    <3>1. line.label # << >> /\ l = line.label /\ n + 1 \in 1 .. n + 1
      BY <2>2 DEF LabelsWith
    <3> QED  BY <3>1
  <2> QED  BY <2>1, <2>2
<1>7. ASSUME NEW q \in 1 .. n + 1, lines[q].label # << >>
      PROVE  lines[q].label \in DOMAIN labels /\ labels[lines[q].label] = q - 1
  <2>1. CASE q = n + 1
    <3>1. line.label # << >> /\ Len(p.instructions) = n
      BY <1>7, <2>1 DEF HasRead
    <3> QED  BY <2>1, <3>1 DEF LabelsWith
  <2>2. CASE q \in 1 .. n
    <3>1. lines[q].label \in DOMAIN p.labels /\ p.labels[lines[q].label] = q - 1
      BY <1>7, <2>2 DEF HasRead
    <3>2. lines[q].label # line.label \/ line.label = << >>
      BY <1>1, <3>1
    <3> QED  BY <3>1, <3>2 DEF LabelsWith
  <2> QED  BY <2>1, <2>2
<1> HIDE DEF labels
<1> QED  BY <1>1, <1>4, <1>5, <1>6, <1>7 DEF HasRead

\* An acceptable line with a new label is no error.
LEMMA LineIsAccepted ==
  ASSUME NEW lines, NEW n \in Nat, NEW p, HasRead(p, lines, n),
         Named(lines[n + 1]), Acceptable(lines[n + 1]),
         \A q \in 1 .. n : lines[q].label = lines[n + 1].label => lines[q].label = << >>
  PROVE  Fine(TakeNext(p, lines[n + 1]))
<1> DEFINE line == lines[n + 1]
           m == TakeLabel(p, line.label)
<1>1. Fine(m) /\ IsPass(m)
  <2>1. CASE line.label = << >>
    BY <2>1 DEF TakeLabel, HasRead
  <2>2. CASE line.label # << >>
    <3>1. line.label \notin DOMAIN p.labels
      BY <2>2 DEF HasRead
    <3> DEFINE labels == [l \in DOMAIN p.labels \cup {line.label} |->
                            IF l = line.label THEN Len(p.instructions) ELSE p.labels[l]]
    <3>2. m = [p EXCEPT !.labels = labels]
      BY <2>2, <3>1 DEF TakeLabel
    <3> HIDE DEF labels
    <3> HIDE DEF m
    <3>3. m.error = p.error /\ IsPass(m)
      BY <3>2 DEF HasRead, IsPass
    <3> QED  BY <3>3 DEF HasRead, Fine
  <2> QED  BY <2>1, <2>2
<1>2. TakeNext(p, line) = TakeInstruction(m, line.name, line.target)
  BY <1>1, Zenon DEF TakeNext, TakeLine, HasRead, Fine
<1>3. Fine(TakeInstruction(m, line.name, line.target))
  <2> DEFINE e == [op |-> line.name,
                   target |-> IF line.name \in Targeted \cup Pushing THEN line.target ELSE << >>]
  <2>1. TakeInstruction(m, line.name, line.target) =
          [m EXCEPT !.instructions = Append(m.instructions, e)]
    BY Zenon DEF Acceptable, TakeInstruction, Named
  <2> HIDE DEF e, m, line
  <2>2. TakeInstruction(m, line.name, line.target).error = m.error
    BY <1>1, <2>1 DEF IsPass
  <2> QED  BY <1>1, <2>2 DEF Fine
<1> QED  BY <1>2, <1>3

\* The first pass as a whole: without an error it has read every line, and it ends
\* without one if every line is acceptable and no label appears twice.
LEMMA FirstPassReads ==
  ASSUME NEW lines, NEW n \in Nat, DOMAIN lines = 1 .. n, \A q \in 1 .. n : Named(lines[q])
  PROVE  /\ Fine(FirstPass(lines)) => HasRead(FirstPass(lines), lines, n)
         /\ (\A q \in 1 .. n : /\ Acceptable(lines[q])
                               /\ \A r \in 1 .. n : lines[q].label = lines[r].label
                                                      => q = r \/ lines[q].label = << >>)
              => Fine(FirstPass(lines))
<1>1. PICK h : Passes(lines, n, h) /\ FirstPass(lines) = h[n]
  BY FirstPassRuns
<1>2. h[0] = Nothing
  BY <1>1 DEF Passes
<1>3. ASSUME NEW k \in Nat, k + 1 <= n PROVE h[k + 1] = TakeNext(h[k], lines[k + 1])
  <2>1. k + 1 \in 1 .. n /\ (k + 1) - 1 = k
    BY <1>3
  <2> QED  BY <1>1, <2>1 DEF Passes
<1>4. ASSUME NEW k \in Nat, k + 1 <= n, Fine(h[k]) => HasRead(h[k], lines, k),
             Fine(h[k + 1])
      PROVE  HasRead(h[k + 1], lines, k + 1)
  <2>1. h[k + 1] = TakeNext(h[k], lines[k + 1])
    BY <1>3, <1>4
  <2>2. Fine(h[k])
    <3>1. CASE ~Fine(h[k])
      <4>1. h[k + 1] = h[k]
        BY <2>1, <3>1 DEF TakeNext, Fine
      <4> QED  BY <1>4, <4>1
    <3> QED  BY <3>1
  <2>3. Named(lines[k + 1])
    <3>1. k + 1 \in 1 .. n
      BY <1>4
    <3> QED  BY <3>1
  <2> QED  BY <1>4, <2>1, <2>2, <2>3, LineIsRead
<1>5. \A k \in 0 .. n : Fine(h[k]) => HasRead(h[k], lines, k)
  <2> DEFINE B == { k \in Nat : k <= n => (Fine(h[k]) => HasRead(h[k], lines, k)) }
  <2>1. 0 \in B
    BY <1>2, NothingHasRead
  <2>2. ASSUME NEW k \in Nat, k \in B PROVE k + 1 \in B
    BY <1>4, <2>2
  <2> HIDE DEF B
  <2>3. \A k \in Nat : k \in B
    BY <2>1, <2>2, SetInduction
  <2> QED  BY <2>3 DEF B
<1>6. ASSUME \A q \in 1 .. n : /\ Acceptable(lines[q])
                               /\ \A r \in 1 .. n : lines[q].label = lines[r].label
                                                      => q = r \/ lines[q].label = << >>
      PROVE  Fine(h[n])
  <2> DEFINE B == { k \in Nat : k <= n => Fine(h[k]) }
  <2>1. 0 \in B
    <3>1. Fine(Nothing)
      BY DEF Nothing, Fine
    <3> QED  BY <1>2, <3>1
  <2>2. ASSUME NEW k \in Nat, k \in B PROVE k + 1 \in B
    <3> SUFFICES ASSUME k + 1 <= n PROVE Fine(h[k + 1])
      OBVIOUS
    <3>1. k \in 0 .. n /\ Fine(h[k]) /\ k + 1 \in 1 .. n /\ \A q \in 1 .. k : q \in 1 .. n /\ q # k + 1
      BY <2>2
    <3>2. HasRead(h[k], lines, k)
      BY <1>5, <3>1
    <3>3. \A q \in 1 .. k : lines[q].label = lines[k + 1].label => lines[q].label = << >>
      BY <1>6, <3>1
    <3>4. h[k + 1] = TakeNext(h[k], lines[k + 1])
      BY <1>3
    <3> HIDE DEF B
    <3> QED  BY <1>6, <3>1, <3>2, <3>3, <3>4, LineIsAccepted
  <2> HIDE DEF B
  <2>3. n \in B
    BY <2>1, <2>2, SetInduction
  <2> QED  BY <2>3 DEF B
<1> QED  BY <1>1, <1>5, <1>6

-----------------------------------------------------------------------------
(* The finished listing, line by line.                                     *)

\* What has been shown of the scan, once it is done.
Finished ==
  /\ phase = "done" /\ hide_nops \in BOOLEAN
  /\ ScanTypes /\ WorkInv /\ LocationsFit /\ JumpsHitWork /\ TargetsExist /\ FragmentsEnd

\* The locations that hold an instruction, and the instruction there.
Spots    == { l \in Locations : At(l) # {} }
Held(k)  == fragments[k + 1][1]
Instr(l) == Held(l[1])[l[2] + 1]

\* Whether it has a line of its own, and whether a jump is added to that.
Shown(l) == ~(hide_nops /\ Instr(l).op = "NOP")
Forks(l) == Instr(l).op \in {"BNG", "TSP"} /\ Instr(l).choice[1] # <<l[1] + 1, 0>>

LinesAt(l) == LinesOf(Instr(l), l)
Size(l)    == Len(LinesAt(l))

LEMMA FragmentsAre ==
  ASSUME Finished
  PROVE  /\ Len(fragments) \in Nat \ {0}
         /\ \A k \in 0 .. Len(fragments) - 1 :
              /\ k \in Filled /\ CodeOf(k) = Held(k)
              /\ Held(k) \in Seq(Instructions) /\ Len(Held(k)) \in Nat \ {0}
              /\ \A j \in 1 .. Len(Held(k)) : Held(k)[j].op \in LastOps <=> j = Len(Held(k))
<1>1. Len(fragments) \in Nat \ {0}
  BY LenProperties DEF Finished, ScanTypes
<1>2. Len(unvisited_fragments) = 0
  BY EmptySeq DEF Finished, WorkInv
<1>3. ASSUME NEW k \in 0 .. Len(fragments) - 1
      PROVE  /\ k \in Filled /\ CodeOf(k) = Held(k)
             /\ Held(k) \in Seq(Instructions) /\ Len(Held(k)) \in Nat \ {0}
             /\ \A j \in 1 .. Len(Held(k)) : Held(k)[j].op \in LastOps <=> j = Len(Held(k))
  <2>1. k \in Filled
    BY <1>2 DEF Finished, WorkInv, Filled
  <2>2. CodeOf(k) = Held(k)
    BY <2>1 DEF CodeOf, Held, Finished
  <2>3. Held(k) \in Seq(Instructions)
    BY <2>2, CodeTypes DEF Finished
  <2>4. EndsOnce(Held(k))
    BY <2>1 DEF Finished, FragmentsEnd, Held
  <2>5. Len(Held(k)) \in Nat \ {0}
    BY <2>3, <2>4, LenProperties, EmptySeq DEF EndsOnce
  <2> QED  BY <2>1, <2>2, <2>3, <2>4, <2>5 DEF EndsOnce
<1> QED  BY <1>1, <1>3

\* The locations are those of the fragments.
LEMMA SpotsAre ==
  ASSUME Finished
  PROVE  /\ \A l \in Spots : /\ l \in Locations /\ l = <<l[1], l[2]>>
                             /\ l[1] \in 0 .. Len(fragments) - 1
                             /\ l[2] \in Nat /\ l[2] + 1 \in 1 .. Len(Held(l[1]))
                             /\ At(l) = {Instr(l)} /\ Instr(l) \in Instructions
                             /\ Instr(l).op \in LastOps <=> l[2] + 1 = Len(Held(l[1]))
         /\ \A k \in 0 .. Len(fragments) - 1 : \A j \in 1 .. Len(Held(k)) :
              <<k, j - 1>> \in Spots /\ LinesAt(<<k, j - 1>>) = LinesOf(Held(k)[j], <<k, j - 1>>)
<1>1. ASSUME NEW l \in Spots
      PROVE  /\ l \in Locations /\ l = <<l[1], l[2]>>
             /\ l[1] \in 0 .. Len(fragments) - 1
             /\ l[2] \in Nat /\ l[2] + 1 \in 1 .. Len(Held(l[1]))
             /\ At(l) = {Instr(l)} /\ Instr(l) \in Instructions
             /\ Instr(l).op \in LastOps <=> l[2] + 1 = Len(Held(l[1]))
  <2>1. l \in Locations /\ At(l) # {} /\ l = <<l[1], l[2]>> /\ l[1] \in Nat /\ l[2] \in Nat
    BY DEF Spots, Locations
  <2>2. PICK k : k = l[1]
    OBVIOUS
  <2>3. l[2] + 1 \in DOMAIN CodeOf(k) /\ At(l) = {CodeOf(k)[l[2] + 1]}
    BY <2>1, <2>2 DEF At
  <2>4. k \in 0 .. Len(fragments) - 1
    <3>1. CASE k \notin Filled
      <4>1. CodeOf(k) = << >>
        BY <3>1 DEF CodeOf, Finished
      <4> QED  BY <2>3, <4>1
    <3> QED  BY <3>1 DEF Filled
  <2>5. CodeOf(k) = Held(k) /\ Held(k) \in Seq(Instructions)
        /\ \A j \in 1 .. Len(Held(k)) : Held(k)[j].op \in LastOps <=> j = Len(Held(k))
    BY <2>4, FragmentsAre
  <2>6. l[2] + 1 \in 1 .. Len(Held(k)) /\ Instr(l) = Held(k)[l[2] + 1]
    BY <2>2, <2>3, <2>5, LenProperties DEF Instr
  <2>7. Instr(l) \in Instructions
    BY <2>5, <2>6, ElementOfSeq
  <2> QED  BY <2>1, <2>2, <2>3, <2>4, <2>5, <2>6, <2>7
<1>2. ASSUME NEW k \in 0 .. Len(fragments) - 1, NEW j \in 1 .. Len(Held(k)), NEW l, l = <<k, j - 1>>
      PROVE  l \in Spots /\ LinesAt(l) = LinesOf(Held(k)[j], <<k, j - 1>>)
  <2>1. CodeOf(k) = Held(k) /\ Held(k) \in Seq(Instructions) /\ Len(Held(k)) \in Nat
        /\ Len(fragments) \in Nat
    BY FragmentsAre
  <2>2. k \in Nat /\ j - 1 \in Nat /\ (j - 1) + 1 = j
    BY <2>1
  <2>3. l \in Locations /\ l[1] = k /\ l[2] = j - 1 /\ l[2] + 1 = j
    BY <1>2, <2>2 DEF Locations
  <2>4. j \in DOMAIN CodeOf(l[1])
    BY <2>1, <2>3, LenProperties
  <2>5. At(l) # {}
    BY <2>3, <2>4 DEF At
  <2> QED  BY <1>2, <2>3, <2>5 DEF Spots, LinesAt, Instr
<1> QED  BY <1>1, <1>2

\* What a line of the listing is made of.
Operands   == {<< >>, <<"'", "c", "'">>, <<"#9">>, <<"#?">>}
LineSet  == [label : Locations \cup {<< >>}, name : Words \cup {"JMP", "BNG", "TSP"},
             target : Locations \cup Operands]

\* The lines of an instruction.
LEMMA LinesTypes ==
  ASSUME NEW i \in Instructions, NEW l \in Locations
  PROVE  /\ LinesOf(i, l) \in Seq(LineSet)
         /\ hide_nops /\ i.op = "NOP" => LinesOf(i, l) = << >>
         /\ ~(hide_nops /\ i.op = "NOP") =>
              /\ Len(LinesOf(i, l)) = IF i.op \in {"BNG", "TSP"} /\ i.choice[1] # <<l[1] + 1, 0>>
                                      THEN 2 ELSE 1
              /\ LinesOf(i, l)[1] = Labelled(i, l)
         /\ i.op \in {"BNG", "TSP"} /\ i.choice[1] # <<l[1] + 1, 0>> =>
              LinesOf(i, l)[2] = Line(<< >>, "JMP", i.choice[1])
<1>1. i.op \in Words \cup {"JMP", "BNG", "TSP"}
  BY DEF Instructions
<1>2. /\ i.op = "JMP" => i.next \in Locations
      /\ i.op \in {"BNG", "TSP"} => i.choice[1] \in Locations /\ i.choice[2] \in Locations
  BY DEF Instructions
<1>3. Argument(i) \in Locations \cup Operands
  BY <1>2, Zenon DEF Argument, Operands
<1>4. Labelled(i, l) \in LineSet
  BY <1>1, <1>3 DEF Labelled, Line, LineSet
<1>5. i.op \in {"BNG", "TSP"} => Line(<< >>, "JMP", i.choice[1]) \in LineSet
  BY <1>2 DEF Line, LineSet
<1> HIDE DEF LineSet
<1>6. CASE hide_nops /\ i.op = "NOP"
  BY <1>6, EmptySeq DEF LinesOf
<1>7. CASE ~(hide_nops /\ i.op = "NOP") /\ i.op \in {"BNG", "TSP"} /\ i.choice[1] # <<l[1] + 1, 0>>
  <2>1. LinesOf(i, l) = <<Labelled(i, l), Line(<< >>, "JMP", i.choice[1])>>
    BY <1>7 DEF LinesOf
  <2> QED  BY <1>4, <1>5, <1>7, <2>1
<1>8. CASE ~(hide_nops /\ i.op = "NOP") /\ ~(i.op \in {"BNG", "TSP"} /\ i.choice[1] # <<l[1] + 1, 0>>)
  <2>1. LinesOf(i, l) = <<Labelled(i, l)>>
    BY <1>8 DEF LinesOf
  <2> QED  BY <1>4, <1>8, <2>1
<1> QED  BY <1>6, <1>7, <1>8

\* Where the lines of each location stand in the listing: one behind the other, in
\* the order of the fragments, and nothing else.
Placed(place) ==
  /\ Lines \in Seq(LineSet)
  /\ place[<<0, 0>>] = 0
  /\ \A l \in Spots :
       /\ place[l] \in Nat /\ place[l] + Size(l) <= Len(Lines)
       /\ \A i \in 1 .. Size(l) : Lines[place[l] + i] = LinesAt(l)[i]
       /\ Following(l) \in Spots => place[Following(l)] = place[l] + Size(l)
       /\ Following(l) \notin Spots =>
            IF l[1] + 1 = Len(fragments) THEN place[l] + Size(l) = Len(Lines)
            ELSE place[<<l[1] + 1, 0>>] = place[l] + Size(l)
  /\ \A q \in 1 .. Len(Lines) : \E l \in Spots : \E i \in 1 .. Size(l) : q = place[l] + i

\* The lines of a fragment, instruction by instruction and joined.
Pieces(k) == [j \in DOMAIN fragments[k][1] |-> LinesOf(fragments[k][1][j], <<k - 1, j - 1>>)]
Chapters  == [k \in DOMAIN fragments |-> FlattenSeq(Pieces(k))]

LEMMA LinesAre ==
  ASSUME Finished
  PROVE  /\ Lines = FlattenSeq(Chapters)
         /\ DOMAIN fragments = 1 .. Len(fragments)
         /\ \A k \in 1 .. Len(fragments) :
              /\ Pieces(k) \in Seq(Seq(LineSet)) /\ Len(Pieces(k)) = Len(Held(k - 1))
              /\ \A j \in 1 .. Len(Held(k - 1)) : Pieces(k)[j] = LinesAt(<<k - 1, j - 1>>)
<1>1. Lines = FlattenSeq(Chapters)
  BY DEF Lines, Chapters, Pieces
<1>2. DOMAIN fragments = 1 .. Len(fragments)
  BY LenProperties DEF Finished, ScanTypes
<1>3. ASSUME NEW k \in 1 .. Len(fragments)
      PROVE  /\ Pieces(k) \in Seq(Seq(LineSet)) /\ Len(Pieces(k)) = Len(Held(k - 1))
             /\ \A j \in 1 .. Len(Held(k - 1)) : Pieces(k)[j] = LinesAt(<<k - 1, j - 1>>)
  <2>1. k - 1 \in 0 .. Len(fragments) - 1 /\ (k - 1) + 1 = k
    BY FragmentsAre
  <2>2. PICK n, code : n = Len(Held(k - 1)) /\ code = Held(k - 1)
    OBVIOUS
  <2>3. code \in Seq(Instructions) /\ n \in Nat /\ DOMAIN code = 1 .. n
    BY <2>1, <2>2, FragmentsAre, LenProperties
  <2>4. fragments[k][1] = code
    BY <2>1, <2>2 DEF Held
  <2>5. Pieces(k) = [j \in 1 .. n |-> LinesOf(code[j], <<k - 1, j - 1>>)]
    BY <2>3, <2>4 DEF Pieces
  <2>6. ASSUME NEW j \in 1 .. n
        PROVE  LinesOf(code[j], <<k - 1, j - 1>>) \in Seq(LineSet)
               /\ LinesOf(code[j], <<k - 1, j - 1>>) = LinesAt(<<k - 1, j - 1>>)
    <3>1. <<k - 1, j - 1>> \in Spots /\ LinesAt(<<k - 1, j - 1>>) = LinesOf(code[j], <<k - 1, j - 1>>)
      BY <2>1, <2>2, SpotsAre
    <3>2. code[j] \in Instructions /\ <<k - 1, j - 1>> \in Locations
      BY <2>3, <3>1, ElementOfSeq DEF Spots
    <3> QED  BY <3>1, <3>2, LinesTypes
  <2>7. Pieces(k) \in Seq(Seq(LineSet)) /\ Len(Pieces(k)) = n
    <3>1. \A j \in 1 .. n : Pieces(k)[j] \in Seq(LineSet)
      BY <2>5, <2>6
    <3> QED  BY <2>3, <2>5, <2>6, <3>1, IsASeq
  <2> QED  BY <2>2, <2>5, <2>6, <2>7
<1> QED  BY <1>1, <1>2, <1>3

LEMMA LaidOut ==
  ASSUME Finished
  PROVE  \E place : Placed(place)
<1> DEFINE N == Len(fragments)
           Inner(k, at) == Holds(LineSet, Pieces(k), Chapters[k], at)
           within == [k \in 1 .. N |-> CHOOSE at : Inner(k, at)]
<1>1. N \in Nat \ {0} /\ DOMAIN Chapters = 1 .. N
  BY FragmentsAre, LinesAre DEF Chapters
<1>2. ASSUME NEW k \in 1 .. N PROVE Inner(k, within[k])
  <2>1. Chapters[k] = FlattenSeq(Pieces(k))
    BY <1>1, LinesAre DEF Chapters
  <2>2. \E at : Holds(LineSet, Pieces(k), FlattenSeq(Pieces(k)), at)
    BY LinesAre, Flattened
  <2>3. \E at : Inner(k, at)
    BY <2>1, <2>2
  <2> HIDE DEF Inner
  <2> QED  BY <2>3
<1> HIDE DEF within
<1>3. Chapters \in Seq(Seq(LineSet)) /\ Len(Chapters) = N
  <2>1. \A k \in 1 .. N : Chapters[k] \in Seq(LineSet)
    BY <1>2 DEF Holds
  <2>2. Chapters = [k \in 1 .. N |-> Chapters[k]]
    BY <1>1 DEF Chapters
  <2> HIDE DEF N
  <2> QED  BY <1>1, <2>1, <2>2, IsASeq
<1>4. PICK at : Holds(LineSet, Chapters, Lines, at)
  <2>1. \E at : Holds(LineSet, Chapters, FlattenSeq(Chapters), at)
    BY <1>3, Flattened
  <2> QED  BY <2>1, LinesAre
<1> DEFINE place == [l \in Spots |-> at[l[1]] + within[l[1] + 1][l[2]]]
\* A location of the k-th fragment, as the j-th.
<1>5. ASSUME NEW l \in Spots
      PROVE  \E k \in 1 .. N : \E j \in 1 .. Len(Held(k - 1)) :
               l[1] = k - 1 /\ l[2] = j - 1 /\ l = <<k - 1, j - 1>> /\ l[1] + 1 = k
  <2>1. l[1] \in 0 .. N - 1 /\ l[2] \in Nat /\ l[2] + 1 \in 1 .. Len(Held(l[1])) /\ l = <<l[1], l[2]>>
    BY SpotsAre
  <2>2. l[1] + 1 \in 1 .. N /\ (l[1] + 1) - 1 = l[1] /\ (l[2] + 1) - 1 = l[2]
    BY <1>1, <2>1
  <2> QED  BY <2>1, <2>2
<1>6. ASSUME NEW k \in 1 .. N, NEW j \in 1 .. Len(Held(k - 1)), NEW l, l = <<k - 1, j - 1>>
      PROVE  /\ l \in Spots /\ place[l] = at[k - 1] + within[k][j - 1]
             /\ Pieces(k)[j] = LinesAt(l)
  <2>1. k - 1 \in 0 .. N - 1 /\ (k - 1) + 1 = k
    BY <1>1
  <2>2. l \in Spots
    BY <1>6, <2>1, SpotsAre
  <2>3. l[1] = k - 1 /\ l[2] = j - 1
    BY <1>6
  <2> QED  BY <1>6, <2>1, <2>2, <2>3, LinesAre
<1> HIDE DEF place
\* The offsets of the k-th fragment and of its j-th instruction.
<1>7. ASSUME NEW k \in 1 .. N
      PROVE  /\ at[k - 1] \in Nat /\ at[k] \in Nat /\ at[k] <= Len(Lines)
             /\ at[k] = at[k - 1] + Len(Chapters[k])
             /\ \A m \in 1 .. Len(Chapters[k]) : Lines[at[k - 1] + m] = Chapters[k][m]
             /\ k - 1 \in 0 .. N - 1 /\ Len(Chapters[k]) \in Nat
  <2>1. k \in 0 .. N /\ k - 1 \in 0 .. N
    BY <1>1
  <2>2. Len(Chapters[k]) \in Nat
    BY <1>3, LenProperties, ElementOfSeq
  <2>3. k - 1 \in 0 .. N - 1
    BY <1>1
  <2>4. at \in [0 .. N -> Nat] /\ \A i \in 0 .. N : at[i] <= Len(Lines)
    BY <1>3, <1>4 DEF Holds
  <2>5. \A i \in 1 .. N : /\ at[i] = at[i - 1] + Len(Chapters[i])
                         /\ \A m \in 1 .. Len(Chapters[i]) : Lines[at[i - 1] + m] = Chapters[i][m]
    BY <1>3, <1>4 DEF Holds
  <2> HIDE DEF N
  <2>6. at[k - 1] \in Nat /\ at[k] \in Nat /\ at[k] <= Len(Lines)
    BY <2>1, <2>4
  <2> QED  BY <2>2, <2>3, <2>5, <2>6
<1>8. ASSUME NEW k \in 1 .. N
      PROVE  /\ Len(Held(k - 1)) \in Nat \ {0}
             /\ within[k][0] = 0 /\ within[k][Len(Held(k - 1))] = Len(Chapters[k])
             /\ \A j \in 1 .. Len(Held(k - 1)) :
                  /\ within[k][j] \in Nat /\ within[k][j - 1] \in Nat
                  /\ within[k][j] <= Len(Chapters[k])
                  /\ within[k][j] = within[k][j - 1] + Len(Pieces(k)[j])
                  /\ \A m \in 1 .. Len(Pieces(k)[j]) :
                       Chapters[k][within[k][j - 1] + m] = Pieces(k)[j][m]
  <2>1. Inner(k, within[k]) /\ Len(Pieces(k)) = Len(Held(k - 1))
    BY <1>2, LinesAre
  <2>2. Len(Held(k - 1)) \in Nat \ {0}
    BY <1>7, FragmentsAre
  <2>3. PICK n : n = Len(Held(k - 1))
    OBVIOUS
  <2>4. \A j \in 1 .. n : j \in 0 .. n /\ j - 1 \in 0 .. n
    BY <2>2, <2>3
  <2> QED  BY <2>1, <2>2, <2>3, <2>4 DEF Holds
\* What follows from these for its j-th instruction.
<1>9. ASSUME NEW k \in 1 .. N, NEW j \in 1 .. Len(Held(k - 1)), NEW l, l = <<k - 1, j - 1>>
      PROVE  /\ place[l] \in Nat /\ Size(l) \in Nat /\ place[l] + Size(l) = at[k - 1] + within[k][j]
             /\ place[l] + Size(l) <= Len(Lines)
             /\ \A i \in 1 .. Size(l) : Lines[place[l] + i] = LinesAt(l)[i]
  <2>1. PICK a, b, c, m, n : /\ a = at[k - 1] /\ b = within[k][j - 1] /\ c = within[k][j]
                             /\ m = Size(l) /\ n = Len(Chapters[k])
    OBVIOUS
  <2>2. place[l] = a + b /\ Pieces(k)[j] = LinesAt(l) /\ m = Len(Pieces(k)[j])
    BY <1>6, <1>9, <2>1 DEF Size
  <2>3. a \in Nat /\ b \in Nat /\ c \in Nat /\ c = b + m /\ c <= n /\ n \in Nat
    BY <1>7, <1>8, <2>1, <2>2
  <2>4. m \in Nat
    <3>1. Pieces(k)[j] \in Seq(LineSet)
      BY LinesAre, ElementOfSeq
    <3> QED  BY <2>2, <3>1, LenProperties
  <2>5. a + n <= Len(Lines) /\ Len(Lines) \in Nat
    BY <1>4, <1>7, <2>1, LenProperties DEF Holds
  <2>6. ASSUME NEW i \in 1 .. m PROVE Lines[place[l] + i] = LinesAt(l)[i]
    <3>1. b + i \in 1 .. n /\ (a + b) + i = a + (b + i)
      BY <2>3, <2>4
    <3>2. Lines[a + (b + i)] = Chapters[k][b + i]
      BY <1>7, <2>1, <3>1
    <3>3. Chapters[k][b + i] = Pieces(k)[j][i]
      BY <1>8, <2>1, <2>2
    <3> QED  BY <2>2, <3>1, <3>2, <3>3
  <2>7. place[l] \in Nat /\ place[l] + m = a + c /\ place[l] + m <= Len(Lines)
    BY <2>2, <2>3, <2>4, <2>5
  <2> QED  BY <2>1, <2>4, <2>6, <2>7
<1>10. Lines \in Seq(LineSet) /\ at[0] = 0 /\ at[N] = Len(Lines)
  BY <1>3, <1>4 DEF Holds
<1>11. place[<<0, 0>>] = 0
  <2>1. 1 \in 1 .. N /\ 1 - 1 = 0
    BY <1>1
  <2>2. Len(Held(0)) \in Nat \ {0} /\ within[1][0] = 0
    BY <1>8, <2>1
  <2>3. 1 \in 1 .. Len(Held(1 - 1))
    BY <2>1, <2>2
  <2>4. place[<<1 - 1, 1 - 1>>] = at[1 - 1] + within[1][1 - 1]
    BY <1>6, <2>1, <2>3
  <2> QED  BY <1>10, <2>1, <2>2, <2>4
<1>12. ASSUME NEW l \in Spots
       PROVE  /\ place[l] \in Nat /\ place[l] + Size(l) <= Len(Lines)
              /\ \A i \in 1 .. Size(l) : Lines[place[l] + i] = LinesAt(l)[i]
              /\ Following(l) \in Spots => place[Following(l)] = place[l] + Size(l)
              /\ Following(l) \notin Spots =>
                   IF l[1] + 1 = N THEN place[l] + Size(l) = Len(Lines)
                   ELSE place[<<l[1] + 1, 0>>] = place[l] + Size(l)
  <2>1. PICK k \in 1 .. N : \E j \in 1 .. Len(Held(k - 1)) :
          l[1] = k - 1 /\ l[2] = j - 1 /\ l = <<k - 1, j - 1>> /\ l[1] + 1 = k
    BY <1>5
  <2>2. PICK j \in 1 .. Len(Held(k - 1)) :
          l[1] = k - 1 /\ l[2] = j - 1 /\ l = <<k - 1, j - 1>> /\ l[1] + 1 = k
    BY <2>1
  <2>3. /\ place[l] \in Nat /\ place[l] + Size(l) = at[k - 1] + within[k][j]
        /\ place[l] + Size(l) <= Len(Lines)
        /\ \A i \in 1 .. Size(l) : Lines[place[l] + i] = LinesAt(l)[i]
    BY <1>9, <2>2
  <2>4. PICK n : n = Len(Held(k - 1))
    OBVIOUS
  <2>5. n \in Nat \ {0} /\ j \in 1 .. n /\ k \in Nat
    BY <1>1, <1>8, <2>4
  <2>6. Following(l) = <<k - 1, j>> /\ (j + 1) - 1 = j
    BY <2>2, <2>5 DEF Following
  <2>7. CASE j < n
    <3>1. j + 1 \in 1 .. n
      BY <2>5, <2>7
    <3>2. Following(l) \in Spots /\ place[Following(l)] = at[k - 1] + within[k][j]
      BY <1>6, <2>4, <2>6, <3>1
    <3> QED  BY <2>3, <3>2
  <2>8. CASE j = n
    <3>1. Following(l) \notin Spots
      <4>1. ASSUME Following(l) \in Spots PROVE FALSE
        <5>1. Following(l)[1] = k - 1 /\ Following(l)[2] = n
          BY <2>6, <2>8
        <5>2. n + 1 \in 1 .. Len(Held(k - 1))
          BY <4>1, <5>1, SpotsAre
        <5> QED  BY <2>4, <2>5, <5>2
      <4> QED  BY <4>1
    <3>2. place[l] + Size(l) = at[k]
      BY <1>7, <1>8, <2>3, <2>4, <2>8
    <3>3. CASE l[1] + 1 = N
      BY <1>10, <2>2, <2>3, <3>1, <3>2, <3>3
    <3>4. CASE l[1] + 1 # N
      <4>1. k + 1 \in 1 .. N /\ (k + 1) - 1 = k
        BY <1>1, <2>2, <3>4
      <4>2. Len(Held(k)) \in Nat \ {0} /\ within[k + 1][0] = 0
        BY <1>8, <4>1
      <4>3. 1 \in 1 .. Len(Held(k)) /\ 1 - 1 = 0
        BY <4>2
      <4>4. place[<<k, 0>>] = at[k] + within[k + 1][0]
        BY <1>6, <4>1, <4>3
      <4>5. at[k] \in Nat
        BY <1>7
      <4>6. place[<<k, 0>>] = place[l] + Size(l)
        BY <3>2, <4>2, <4>4, <4>5
      <4>7. place[<<l[1] + 1, 0>>] = place[l] + Size(l)
        BY <2>2, <4>6
      <4> QED  BY <2>3, <3>1, <3>4, <4>7, Zenon
    <3> QED  BY <3>3, <3>4
  <2> QED  BY <2>5, <2>7, <2>8
<1>13. ASSUME NEW q \in 1 .. Len(Lines)
       PROVE  \E l \in Spots : \E i \in 1 .. Size(l) : q = place[l] + i
  <2>1. PICK k \in 1 .. N : \E m \in 1 .. Len(Chapters[k]) : q = at[k - 1] + m
    BY <1>3, <1>4 DEF Holds
  <2>2. PICK m \in 1 .. Len(Chapters[k]) : q = at[k - 1] + m
    BY <2>1
  <2>3. PICK j \in 1 .. Len(Held(k - 1)) : \E i \in 1 .. Len(Pieces(k)[j]) : m = within[k][j - 1] + i
    <3>1. PICK w, c, s : w = within[k] /\ c = Chapters[k] /\ s = Pieces(k)
      OBVIOUS
    <3>2. Holds(LineSet, s, c, w) /\ Len(s) = Len(Held(k - 1))
      BY <1>2, <3>1, LinesAre
    <3>3. \A p \in 1 .. Len(c) : \E i \in 1 .. Len(s) : \E r \in 1 .. Len(s[i]) : p = w[i - 1] + r
      BY <3>2 DEF Holds
    <3>4. \E i \in 1 .. Len(s) : \E r \in 1 .. Len(s[i]) : m = w[i - 1] + r
      BY <3>1, <3>3
    <3> QED  BY <3>1, <3>2, <3>4
  <2>4. PICK i \in 1 .. Len(Pieces(k)[j]) : m = within[k][j - 1] + i
    BY <2>3
  <2>5. PICK l : l = <<k - 1, j - 1>>
    OBVIOUS
  <2>6. l \in Spots /\ place[l] = at[k - 1] + within[k][j - 1] /\ Pieces(k)[j] = LinesAt(l)
    BY <1>6, <2>5
  <2>7. i \in 1 .. Size(l)
    BY <2>6 DEF Size
  <2>8. at[k - 1] \in Nat /\ within[k][j - 1] \in Nat
    BY <1>7, <1>8
  <2>9. Size(l) \in Nat
    BY <1>9, <2>5
  <2>10. q = place[l] + i
    <3>1. PICK a, b, c : a = at[k - 1] /\ b = within[k][j - 1] /\ c = Size(l)
      OBVIOUS
    <3>2. a \in Nat /\ b \in Nat /\ c \in Nat /\ i \in 1 .. c /\ q = a + m /\ m = b + i
          /\ place[l] = a + b
      BY <2>2, <2>4, <2>6, <2>7, <2>8, <2>9, <3>1
    <3> QED  BY <3>2
  <2> QED  BY <2>6, <2>7, <2>10
<1>14. Placed(place)
  BY <1>10, <1>11, <1>12, <1>13 DEF Placed
<1> QED  BY <1>14

-----------------------------------------------------------------------------
(* The finished listing, assembled.                                        *)

\* The lines at a location: its own and, after a branch, perhaps a jump.
LEMMA LinesAtAre ==
  ASSUME Finished, NEW l \in Spots
  PROVE  /\ ~Shown(l) => Size(l) = 0
         /\ Shown(l) /\ ~Forks(l) => Size(l) = 1
         /\ Forks(l) => Size(l) = 2
         /\ Shown(l) => LinesAt(l)[1] = Labelled(Instr(l), l)
         /\ Forks(l) => Shown(l) /\ LinesAt(l)[2] = Line(<< >>, "JMP", Instr(l).choice[1])
<1>1. Instr(l) \in Instructions /\ l \in Locations
  BY SpotsAre
<1>2. Instr(l).op \in {"BNG", "TSP"} => Instr(l).op # "NOP"
  OBVIOUS
<1>3. CASE Shown(l)
  BY <1>1, <1>2, <1>3, LinesTypes DEF Shown, Forks, LinesAt, Size
<1>4. CASE ~Shown(l)
  <2>1. LinesAt(l) = << >>
    BY <1>1, <1>4, LinesTypes DEF Shown, LinesAt
  <2>2. Size(l) = 0
    BY <2>1, EmptySeq DEF Size
  <2> QED  BY <1>2, <1>4, <2>2 DEF Shown, Forks
<1> QED  BY <1>3, <1>4

\* What a line says.
LEMMA LinesSay ==
  ASSUME Finished, NEW l \in Spots
  PROVE  /\ Labelled(Instr(l), l).label = l /\ Labelled(Instr(l), l).name = Instr(l).op
         /\ Instr(l).op = "JMP" => Labelled(Instr(l), l).target = Instr(l).next
         /\ Instr(l).op \in {"BNG", "TSP"} => Labelled(Instr(l), l).target = Instr(l).choice[2]
         /\ Line(<< >>, "JMP", Instr(l).choice[1]).label = << >>
         /\ Line(<< >>, "JMP", Instr(l).choice[1]).name = "JMP"
         /\ Line(<< >>, "JMP", Instr(l).choice[1]).target = Instr(l).choice[1]
         /\ l # << >>
<1>1. Labelled(Instr(l), l) = [label |-> l, name |-> Instr(l).op, target |-> Argument(Instr(l))]
  BY DEF Labelled, Line
<1>2. Line(<< >>, "JMP", Instr(l).choice[1])
        = [label |-> << >>, name |-> "JMP", target |-> Instr(l).choice[1]]
  BY DEF Line
<1>3. /\ Instr(l).op = "JMP" => Argument(Instr(l)) = Instr(l).next
      /\ Instr(l).op \in {"BNG", "TSP"} => Argument(Instr(l)) = Instr(l).choice[2]
  BY DEF Argument
<1>4. l # << >>
  BY DEF Spots, Locations
<1> QED  BY <1>1, <1>2, <1>3, <1>4

\* Every line is the line of a location, or the jump after it.
IsOwn(place, q, l)  == Shown(l) /\ q = place[l] + 1 /\ Lines[q] = Labelled(Instr(l), l)
IsJump(place, q, l) == /\ Forks(l) /\ q = place[l] + 2
                       /\ Lines[q] = Line(<< >>, "JMP", Instr(l).choice[1])

LEMMA EveryLine ==
  ASSUME Finished, NEW place, Placed(place), NEW q \in 1 .. Len(Lines)
  PROVE  \E l \in Spots : IsOwn(place, q, l) \/ IsJump(place, q, l)
<1>1. PICK l \in Spots : \E i \in 1 .. Size(l) : q = place[l] + i
  BY DEF Placed
<1>2. PICK i \in 1 .. Size(l) : q = place[l] + i
  BY <1>1
<1>3. Lines[q] = LinesAt(l)[i]
  BY <1>2 DEF Placed
<1>4. Shown(l) /\ (i = 1 \/ (Forks(l) /\ i = 2))
  <2>1. /\ ~Shown(l) => Size(l) = 0
        /\ Shown(l) /\ ~Forks(l) => Size(l) = 1
        /\ Forks(l) => Size(l) = 2
    BY LinesAtAre
  <2>2. PICK n : n = Size(l) /\ i \in 1 .. n
    BY <1>2
  <2>3. CASE ~Shown(l)
    <3>1. n = 0
      BY <2>1, <2>2, <2>3
    <3> QED  BY <2>2, <3>1
  <2>4. CASE Shown(l) /\ ~Forks(l)
    <3>1. n = 1
      BY <2>1, <2>2, <2>4
    <3> QED  BY <2>2, <2>4, <3>1
  <2>5. CASE Shown(l) /\ Forks(l)
    <3>1. n = 2
      BY <2>1, <2>2, <2>5
    <3> QED  BY <2>2, <2>5, <3>1
  <2> QED  BY <2>3, <2>4, <2>5
<1> QED  BY <1>2, <1>3, <1>4, LinesAtAre DEF IsOwn, IsJump

\* And these are lines.
LEMMA LinesOfSpots ==
  ASSUME Finished, NEW place, Placed(place), NEW l \in Spots
  PROVE  /\ Len(Lines) \in Nat /\ DOMAIN Lines = 1 .. Len(Lines)
         /\ place[l] \in Nat
         /\ Shown(l) => place[l] + 1 \in 1 .. Len(Lines) /\ IsOwn(place, place[l] + 1, l)
         /\ Forks(l) => place[l] + 2 \in 1 .. Len(Lines) /\ IsJump(place, place[l] + 2, l)
<1>1. PICK p, n : p = place[l] /\ n = Len(Lines)
  OBVIOUS
<1>2. n \in Nat /\ DOMAIN Lines = 1 .. n
  BY <1>1, LenProperties DEF Placed
<1>3. /\ p \in Nat /\ p + Size(l) <= n
      /\ \A i \in 1 .. Size(l) : Lines[p + i] = LinesAt(l)[i]
  BY <1>1 DEF Placed
<1>4. Shown(l) => p + 1 \in 1 .. n /\ IsOwn(place, p + 1, l)
  BY <1>1, <1>2, <1>3, LinesAtAre DEF IsOwn
<1>5. Forks(l) => p + 2 \in 1 .. n /\ IsJump(place, p + 2, l)
  BY <1>1, <1>2, <1>3, LinesAtAre DEF IsJump
<1> QED  BY <1>1, <1>2, <1>3, <1>4, <1>5

\* A label is the location of the line that it stands on.
LEMMA LabelsAre ==
  ASSUME Finished, NEW place, Placed(place), NEW q \in 1 .. Len(Lines), Lines[q].label # << >>
  PROVE  Lines[q].label \in Spots /\ Shown(Lines[q].label) /\ q = place[Lines[q].label] + 1
BY EveryLine, LinesSay DEF IsOwn, IsJump

\* Every line has a name.
LEMMA LinesNamed ==
  ASSUME Finished, NEW place, Placed(place), NEW q \in 1 .. Len(Lines)
  PROVE  Named(Lines[q])
<1>1. Lines[q] \in LineSet
  BY ElementOfSeq DEF Placed
<1>2. Lines[q].name \in Words \cup {"JMP", "BNG", "TSP"}
  BY <1>1 DEF LineSet
<1> QED  BY <1>2 DEF Words, Named

\* What the assembler makes of the lines, as the first pass reads them.
Accepted(p) == Fine(p) /\ EndsWell(p.instructions) /\ ~Undeclared(p)
Assembles   == Fine(Assemble(Lines))

LEMMA AssembleIs ==
  /\ Assembles <=> Accepted(FirstPass(Lines))
  /\ Assembles => Assemble(Lines).instructions = Resolved(FirstPass(Lines))
<1> DEFINE p == FirstPass(Lines)
           fail(message) == [instructions |-> << >>, error |-> message]
           made == [instructions |-> Resolved(p), error |-> ""]
<1>1. Assemble(Lines) = IF ~Fine(p) THEN fail(p.error)
                        ELSE IF ~EndsWell(p.instructions)
                        THEN fail("does not end in an exit instruction or loop")
                        ELSE IF Undeclared(p) THEN fail("undeclared label") ELSE made
  BY Zenon DEF Assemble, Fine
<1>2. ~Fine(fail("undeclared label"))
  BY DEF Fine
<1>3. ~Fine(fail("does not end in an exit instruction or loop"))
  BY DEF Fine
<1>4. ~Fine(p) => ~Fine(fail(p.error))
  BY DEF Fine
<1>5. Fine(made) /\ made.instructions = Resolved(p)
  BY DEF Fine
<1> HIDE DEF p, fail, made
<1>6. Fine(Assemble(Lines)) <=> Accepted(p)
  BY <1>1, <1>2, <1>3, <1>4, <1>5, Zenon DEF Accepted
<1>7. Accepted(p) => Assemble(Lines) = made
  BY <1>1, Zenon DEF Accepted
<1> QED  BY <1>5, <1>6, <1>7, Zenon DEF Assembles, p

\* Where the instruction leads is the line of a location that has one.
LeadsTo(place, instr, t) == t \in Spots /\ Shown(t) /\ instr.target = place[t]

\* The list of instructions, location by location.
Listed(place, list) ==
  /\ DOMAIN list = 1 .. Len(Lines) /\ Len(list) = Len(Lines)
  /\ \A l \in Spots :
       /\ Shown(l) =>
            /\ list[place[l] + 1].op = Instr(l).op
            /\ Instr(l).op = "JMP" => LeadsTo(place, list[place[l] + 1], Instr(l).next)
            /\ Instr(l).op \in {"BNG", "TSP"} => LeadsTo(place, list[place[l] + 1], Instr(l).choice[2])
       /\ Forks(l) => /\ list[place[l] + 2].op = "JMP"
                      /\ LeadsTo(place, list[place[l] + 2], Instr(l).choice[1])

LEMMA ListIs ==
  ASSUME Finished, NEW place, Placed(place), Assembles
  PROVE  Listed(place, Assemble(Lines).instructions)
<1> DEFINE p == FirstPass(Lines)
           n == Len(Lines)
           list == Assemble(Lines).instructions
<1>1. n \in Nat /\ DOMAIN Lines = 1 .. n
  BY LenProperties DEF Placed
<1>2. Fine(p) /\ ~Undeclared(p) /\ list = Resolved(p)
  BY AssembleIs DEF Accepted
<1>3. HasRead(p, Lines, n)
  BY <1>1, <1>2, LinesNamed, FirstPassReads
<1> HIDE DEF p, list
<1>4. DOMAIN p.instructions = 1 .. n
  <2>1. PICK S : p.instructions \in Seq(S)
    BY <1>3 DEF HasRead
  <2>2. Len(p.instructions) = n
    BY <1>3 DEF HasRead
  <2> QED  BY <2>1, <2>2, LenProperties
<1>5. /\ DOMAIN list = 1 .. n
      /\ \A k \in 1 .. n : list[k] = [op |-> p.instructions[k].op,
           target |-> IF p.instructions[k].op \in Targeted THEN p.labels[p.instructions[k].target] ELSE 0]
      /\ list = [k \in 1 .. n |-> list[k]]
  BY <1>2, <1>4 DEF Resolved
<1>6. Len(list) = n
  BY <1>1, <1>5
<1>7. ASSUME NEW x \in DOMAIN p.labels
      PROVE  x \in Spots /\ Shown(x) /\ p.labels[x] = place[x]
  <2>1. PICK q \in 1 .. n : Lines[q].label = x
    BY <1>3 DEF HasRead
  <2>2. x # << >> /\ p.labels[x] = q - 1
    BY <1>3, <2>1 DEF HasRead
  <2>3. x \in Spots /\ Shown(x) /\ q = place[x] + 1
    BY <2>1, <2>2, LabelsAre
  <2>4. place[x] \in Nat
    BY <2>3 DEF Placed
  <2> QED  BY <2>2, <2>3, <2>4
<1>8. ASSUME NEW q \in 1 .. n
      PROVE  /\ list[q].op = Lines[q].name
             /\ Lines[q].name \in Targeted => LeadsTo(place, list[q], Lines[q].target)
  <2>1. /\ p.instructions[q].op = Lines[q].name
        /\ Lines[q].name \in Targeted => p.instructions[q].target = Lines[q].target
    BY <1>3 DEF HasRead
  <2>2. list[q].op = Lines[q].name
    BY <1>5, <2>1
  <2>3. ASSUME Lines[q].name \in Targeted PROVE LeadsTo(place, list[q], Lines[q].target)
    <3>1. Lines[q].target \in DOMAIN p.labels
      BY <1>2, <1>4, <2>1, <2>3 DEF Undeclared
    <3>2. list[q].target = p.labels[Lines[q].target]
      BY <1>5, <2>1, <2>3
    <3> QED  BY <1>7, <3>1, <3>2 DEF LeadsTo
  <2> QED  BY <2>2, <2>3
<1>9. ASSUME NEW l \in Spots, Shown(l)
      PROVE  /\ list[place[l] + 1].op = Instr(l).op
             /\ Instr(l).op = "JMP" => LeadsTo(place, list[place[l] + 1], Instr(l).next)
             /\ Instr(l).op \in {"BNG", "TSP"} => LeadsTo(place, list[place[l] + 1], Instr(l).choice[2])
  <2>1. place[l] + 1 \in 1 .. n /\ Lines[place[l] + 1] = Labelled(Instr(l), l)
    BY <1>9, LinesOfSpots DEF IsOwn
  <2>2. PICK q : q = place[l] + 1
    OBVIOUS
  <2>3. Lines[q].name = Instr(l).op
    BY <2>1, <2>2, LinesSay
  <2>4. Instr(l).op = "JMP" => Lines[q].target = Instr(l).next /\ Lines[q].name \in Targeted
    BY <2>1, <2>2, <2>3, LinesSay DEF Targeted
  <2>5. Instr(l).op \in {"BNG", "TSP"} => Lines[q].target = Instr(l).choice[2] /\ Lines[q].name \in Targeted
    BY <2>1, <2>2, <2>3, LinesSay DEF Targeted
  <2>6. q \in 1 .. n
    BY <2>1, <2>2
  <2> QED  BY <1>8, <2>2, <2>3, <2>4, <2>5, <2>6
<1>10. ASSUME NEW l \in Spots, Forks(l)
       PROVE  /\ list[place[l] + 2].op = "JMP"
              /\ LeadsTo(place, list[place[l] + 2], Instr(l).choice[1])
  <2>1. place[l] + 2 \in 1 .. n /\ Lines[place[l] + 2] = Line(<< >>, "JMP", Instr(l).choice[1])
    BY <1>10, LinesOfSpots DEF IsJump
  <2>2. PICK q : q = place[l] + 2
    OBVIOUS
  <2>3. Lines[q].name = "JMP" /\ Lines[q].target = Instr(l).choice[1] /\ "JMP" \in Targeted
    BY <2>1, <2>2, LinesSay DEF Targeted
  <2> QED  BY <1>8, <2>1, <2>2, <2>3
<1> QED  BY <1>5, <1>6, <1>9, <1>10 DEF Listed, list

-----------------------------------------------------------------------------
(* The listing beside the grid.                                            *)

\* Where the finished listing has the work of the IP, or a jump to it.
LEMMA DoneReaches ==
  ASSUME Finished, NEW l \in Locations, NEW x, Reaches(l, x)
  PROVE  /\ l \in Spots /\ x \in DOMAIN location_map
         /\ location_map[x] = l \/ Instr(l) = JumpTo(location_map[x])
<1>1. Len(unvisited_fragments) = 0 /\ DOMAIN unvisited_fragments = {}
  BY EmptySeq DEF Finished, WorkInv
<1>2. /\ x \in DOMAIN location_map
      /\ location_map[x] = l \/ At(l) = {JumpTo(location_map[x])}
  BY <1>1 DEF Reaches, Finished
<1>3. \E instr \in At(location_map[x]) : instr.op = OperationOf(x)
  BY <1>2 DEF Finished, LocationsFit, LocatedAtWork
<1>4. l \in Spots
  BY <1>2, <1>3 DEF Spots
<1>5. At(l) = {Instr(l)}
  BY <1>4, SpotsAre
<1> QED  BY <1>2, <1>4, <1>5

\* What is located.
LEMMA LocatedSpots ==
  ASSUME Finished, NEW x \in DOMAIN location_map
  PROVE  /\ x \in GridIPs(program) /\ location_map[x] \in Spots
         /\ Instr(location_map[x]).op = OperationOf(x) /\ OperationOf(x) # "JMP"
         /\ OperationOf(x) \in {"BNG", "TSP"} =>
              /\ Reaches(Instr(location_map[x]).choice[1], GridAdvance(program, x, FALSE))
              /\ Reaches(Instr(location_map[x]).choice[2], GridAdvance(program, x, TRUE))
         /\ OperationOf(x) \notin {"BNG", "TSP"} \cup Exits =>
              Reaches(Following(location_map[x]), GridAdvance(program, x, FALSE))
<1>1. x \in GridIPs(program) /\ location_map[x] \in Locations
  BY DEF Finished, ScanTypes
<1>2. PICK instr \in At(location_map[x]) : instr.op = OperationOf(x)
  BY DEF Finished, LocationsFit, LocatedAtWork
<1>3. location_map[x] \in Spots
  BY <1>1, <1>2 DEF Spots
<1>4. instr = Instr(location_map[x])
  BY <1>2, <1>3, SpotsAre
<1>5. GoesOnAt(x)
  BY GoesOnIs DEF Finished, LocationsFit
<1>6. IF instr.op \in {"BNG", "TSP"}
      THEN /\ Reaches(instr.choice[1], GridAdvance(program, x, FALSE))
           /\ Reaches(instr.choice[2], GridAdvance(program, x, TRUE))
      ELSE instr.op \in Exits
           \/ Reaches(Following(location_map[x]), GridAdvance(program, x, FALSE))
  BY <1>2, <1>5 DEF GoesOnAt
<1>7. OperationOf(x) # "JMP"
  BY <1>1, NoJumpOnTheGrid DEF Finished
<1> QED  BY <1>1, <1>2, <1>3, <1>4, <1>6, <1>7

\* Where instructions lead.
LEMMA TargetsAreSpots ==
  ASSUME Finished, NEW l \in Spots
  PROVE  /\ Instr(l).op = "JMP" => Instr(l).next \in Spots /\ Instr(Instr(l).next).op # "JMP"
         /\ Instr(l).op \in {"BNG", "TSP"} => Instr(l).choice[1] \in Spots /\ Instr(l).choice[2] \in Spots
<1>1. l \in Locations /\ At(l) = {Instr(l)} /\ Instr(l) \in Instructions
  BY SpotsAre
<1>2. \A target \in TargetsOf(Instr(l)) : At(target) # {}
  BY <1>1 DEF Finished, TargetsExist
<1>3. ASSUME Instr(l).op = "JMP" PROVE Instr(l).next \in Spots /\ Instr(Instr(l).next).op # "JMP"
  <2>1. Instr(l).next \in Locations /\ Instr(l).next \in TargetsOf(Instr(l))
    BY <1>1, <1>3 DEF Instructions, TargetsOf
  <2>2. Instr(l).next \in Spots
    BY <1>2, <2>1 DEF Spots
  <2>3. \E target \in At(Instr(l).next) : target.op # "JMP"
    BY <1>1, <1>3 DEF Finished, JumpsHitWork
  <2> QED  BY <2>2, <2>3, SpotsAre
<1>4. ASSUME Instr(l).op \in {"BNG", "TSP"}
      PROVE  Instr(l).choice[1] \in Spots /\ Instr(l).choice[2] \in Spots
  <2>1. /\ Instr(l).choice[1] \in Locations /\ Instr(l).choice[2] \in Locations
        /\ Instr(l).choice[1] \in TargetsOf(Instr(l)) /\ Instr(l).choice[2] \in TargetsOf(Instr(l))
    BY <1>1, <1>4 DEF Instructions, TargetsOf
  <2> QED  BY <1>2, <2>1 DEF Spots
<1> QED  BY <1>3, <1>4

\* From a location on, to another of its fragment, nothing is shown.
RunsTo(l, m) ==
  l[1] = m[1] /\ l[2] <= m[2] /\ \A j \in l[2] .. m[2] - 1 : ~Shown(<<l[1], j>>)

\* What is hidden is followed, at the same place, by something that is not.
LEMMA NextShown ==
  ASSUME Finished, NEW place, Placed(place), NEW l \in Spots
  PROVE  \E m \in Spots : RunsTo(l, m) /\ Shown(m) /\ place[m] = place[l]
<1>1. PICK k, b : k = l[1] /\ b = l[2] /\ l = <<k, b>>
  BY SpotsAre
<1>2. PICK n : n = Len(Held(k))
  OBVIOUS
<1>3. k \in 0 .. Len(fragments) - 1 /\ b \in Nat /\ b + 1 \in 1 .. n /\ n \in Nat \ {0}
  BY <1>1, <1>2, SpotsAre, FragmentsAre
<1>4. ASSUME NEW j \in 0 .. n - 1 PROVE <<k, j>> \in Spots
  <2>1. j + 1 \in 1 .. n /\ (j + 1) - 1 = j
    BY <1>3
  <2> QED  BY <1>2, <1>3, <2>1, SpotsAre
<1> DEFINE S == { j \in Nat : b <= j /\ j <= n - 1 /\ Shown(<<k, j>>) }
<1>5. n - 1 \in S
  <2>1. n - 1 \in 0 .. n - 1 /\ b <= n - 1 /\ (n - 1) + 1 = n
    BY <1>3
  <2>2. <<k, n - 1>> \in Spots
    BY <1>4, <2>1
  <2>3. Instr(<<k, n - 1>>).op \in LastOps
    BY <1>2, <2>1, <2>2, SpotsAre
  <2>4. Shown(<<k, n - 1>>)
    BY <2>3 DEF Shown, LastOps, Exits
  <2> QED  BY <1>3, <2>1, <2>4
<1>6. PICK c \in S : \A j \in S : c <= j
  <2>1. S \subseteq Nat /\ S # {}
    BY <1>5
  <2> HIDE DEF S
  <2> QED  BY <2>1, LeastNumber
<1>7. c \in 0 .. n - 1 /\ b <= c /\ Shown(<<k, c>>) /\ c \in Nat
  BY <1>3, <1>6
<1>8. ASSUME NEW j \in b .. c - 1 PROVE ~Shown(<<k, j>>) /\ j \in 0 .. n - 1
  <2>1. j \in Nat /\ j <= n - 1 /\ b <= j /\ ~(c <= j)
    BY <1>3, <1>7
  <2> QED  BY <1>6, <2>1
<1>9. ASSUME NEW j \in b .. c - 1 PROVE place[<<k, j + 1>>] = place[<<k, j>>]
  <2>1. j + 1 \in 0 .. n - 1 /\ j \in 0 .. n - 1
    BY <1>3, <1>7
  <2>2. <<k, j>> \in Spots /\ <<k, j + 1>> \in Spots
    BY <1>4, <2>1
  <2>3. Following(<<k, j>>) = <<k, j + 1>>
    BY DEF Following
  <2>4. Size(<<k, j>>) = 0
    BY <1>8, <2>2, LinesAtAre
  <2>5. place[<<k, j + 1>>] = place[<<k, j>>] + 0 /\ place[<<k, j>>] \in Nat
    BY <2>2, <2>3, <2>4 DEF Placed
  <2> QED  BY <2>5
<1> DEFINE B == { i \in Nat : b + i <= c => place[<<k, b + i>>] = place[l] }
<1>10. 0 \in B
  <2>1. b + 0 = b
    BY <1>3
  <2> QED  BY <1>1, <2>1
<1>11. ASSUME NEW i \in Nat, i \in B PROVE i + 1 \in B
  <2> SUFFICES ASSUME b + (i + 1) <= c PROVE place[<<k, b + (i + 1)>>] = place[l]
    OBVIOUS
  <2>1. b + i \in b .. c - 1 /\ b + i <= c /\ b + (i + 1) = (b + i) + 1
    BY <1>3, <1>7
  <2>2. place[<<k, b + i>>] = place[l]
    BY <1>11, <2>1
  <2> HIDE DEF B
  <2> QED  BY <1>9, <2>1, <2>2
<1> HIDE DEF B
<1>12. c - b \in B
  <2>1. c - b \in Nat
    BY <1>3, <1>7
  <2>2. \A i \in Nat : i \in B
    BY <1>10, <1>11, SetInduction
  <2> QED  BY <2>1, <2>2
<1>13. place[<<k, c>>] = place[l]
  <2>1. b + (c - b) = c /\ c <= c
    BY <1>3, <1>7
  <2> QED  BY <1>12, <2>1 DEF B
<1>14. <<k, c>> \in Spots
  BY <1>4, <1>7
<1>15. RunsTo(l, <<k, c>>)
  BY <1>1, <1>7, <1>8 DEF RunsTo
<1> QED  BY <1>7, <1>13, <1>14, <1>15

\* Only at a branch point does it matter where the IP turns.
LEMMA OneWay ==
  ASSUME NEW x, OperationOf(x) \notin {"BNG", "TSP"}
  PROVE  GridAdvance(program, x, TRUE) = GridAdvance(program, x, FALSE)
<1> DEFINE o == CellAt(program, x.coords)
<1>1. ~IsBranch(o, x.dir)
  BY DEF OperationOf
<1>2. o \in Branches \cup ThreadOps => Branch(x.dir, o, TRUE) = Branch(x.dir, o, FALSE)
  BY <1>1 DEF IsBranch, Branch
<1> HIDE DEF o
<1>3. CASE o \in Branches \cup ThreadOps
  <2>1. [x EXCEPT !.dir = Branch(@, o, TRUE)] = [x EXCEPT !.dir = Branch(@, o, FALSE)]
    BY <1>2, <1>3
  <2> QED  BY <2>1, Zenon DEF GridAdvance, o
<1>4. CASE o \notin Branches \cup ThreadOps
  BY <1>4, Zenon DEF GridAdvance, o
<1> QED  BY <1>3, <1>4

\* The thread at x on the grid is at the place p of the listing if the work of x
\* is there or the next thing shown after it, or a jump to it, or a jump behind a
\* branch from which x has been reached; or if x is on a hidden NOP that only
\* others follow up to a jump, and the listing has jumped already.
AtPlace(place, x, p)   == p = place[location_map[x]]
BeforeIt(place, x, p)  == \E l \in Spots : /\ Instr(l).op = "JMP" /\ p = place[l]
                                           /\ Instr(l).next = location_map[x]
Turning(place, x, p)   == \E l \in Spots : /\ Forks(l) /\ p = place[l] + 1
                                           /\ Reaches(Instr(l).choice[1], x)
Overtaken(place, x, p) == \E m \in Spots : /\ Instr(m).op = "JMP" /\ p = place[Instr(m).next]
                                           /\ RunsTo(location_map[x], m) /\ location_map[x] # m
                                           /\ ~Shown(location_map[x])

Beside(place, x, p) ==
  /\ x \in DOMAIN location_map
  /\ \/ AtPlace(place, x, p) \/ BeforeIt(place, x, p)
     \/ Turning(place, x, p) \/ Overtaken(place, x, p)

\* Where the fragments lead, the listing does.
LEMMA Lands ==
  ASSUME Finished, NEW place, NEW l \in Locations, NEW x, Reaches(l, x)
  PROVE  Beside(place, x, place[l])
<1>1. /\ l \in Spots /\ x \in DOMAIN location_map
      /\ location_map[x] = l \/ Instr(l) = JumpTo(location_map[x])
  BY DoneReaches
<1>2. CASE location_map[x] = l
  BY <1>1, <1>2 DEF Beside, AtPlace
<1>3. CASE Instr(l) = JumpTo(location_map[x])
  <2>1. Instr(l).op = "JMP" /\ Instr(l).next = location_map[x]
    BY <1>3 DEF JumpTo
  <2> QED  BY <1>1, <2>1 DEF Beside, BeforeIt
<1> QED  BY <1>1, <1>2, <1>3

\* The listing, with what it says of the instruction at hand.
Loaded(place, list) == Finished /\ Placed(place) /\ Listed(place, list)

\* Where a jump or a branch leads there is a line.
LEMMA LedTo ==
  ASSUME NEW place, NEW list, Loaded(place, list), NEW l \in Spots
  PROVE  /\ Instr(l).op = "JMP" => Shown(l) /\ Shown(Instr(l).next) /\ Instr(l).next \in Spots
         /\ Forks(l) => Shown(Instr(l).choice[1]) /\ Instr(l).choice[1] \in Spots
<1>1. Instr(l).op = "JMP" => Shown(l)
  BY DEF Shown
<1> QED  BY <1>1, TargetsAreSpots DEF Loaded, Listed, LeadsTo

\* At the work of x the listing has that, or x is on a hidden NOP.
LEMMA WorkThere ==
  ASSUME NEW place, NEW list, Loaded(place, list), NEW x \in DOMAIN location_map,
         NEW p, p = place[location_map[x]]
  PROVE  \/ Shown(location_map[x]) /\ list[p + 1].op = OperationOf(x)
         \/ /\ ~Shown(location_map[x]) /\ hide_nops /\ OperationOf(x) = "NOP"
            /\ \E m \in Spots : /\ RunsTo(location_map[x], m) /\ Shown(m) /\ place[m] = p
                                /\ location_map[x] # m
<1>1. /\ location_map[x] \in Spots /\ Instr(location_map[x]).op = OperationOf(x)
      /\ Finished /\ Placed(place) /\ Listed(place, list)
  BY LocatedSpots DEF Loaded
<1>2. CASE Shown(location_map[x])
  BY <1>1, <1>2 DEF Listed
<1>3. CASE ~Shown(location_map[x])
  <2>1. hide_nops /\ OperationOf(x) = "NOP"
    BY <1>1, <1>3 DEF Shown, Finished
  <2>2. PICK m \in Spots : RunsTo(location_map[x], m) /\ Shown(m) /\ place[m] = place[location_map[x]]
    BY <1>1, NextShown
  <2> QED  BY <1>3, <2>1, <2>2
<1> QED  BY <1>2, <1>3

\* There is always an instruction, and it is a jump, or the operation on the grid,
\* or the grid rests.
LEMMA BesideAgrees ==
  ASSUME NEW place, NEW list, Loaded(place, list), NEW x, NEW p, Beside(place, x, p)
  PROVE  /\ p \in Nat /\ p + 1 \in 1 .. Len(list)
         /\ list[p + 1].op # "JMP" =>
              \/ list[p + 1].op = OperationOf(x)
              \/ hide_nops /\ OperationOf(x) = "NOP"
<1>1. x \in DOMAIN location_map /\ Finished /\ Placed(place) /\ Listed(place, list)
  BY DEF Beside, Loaded
<1>2. location_map[x] \in Spots /\ Instr(location_map[x]).op = OperationOf(x)
  BY <1>1, LocatedSpots
<1>3. ASSUME NEW l \in Spots PROVE place[l] \in Nat /\ place[l] + 1 \in 1 .. Len(list)
  <2>1. PICK m \in Spots : Shown(m) /\ place[m] = place[l]
    BY <1>1, NextShown
  <2>2. place[m] \in Nat /\ place[m] + 1 \in 1 .. Len(Lines)
    BY <1>1, <2>1, LinesOfSpots
  <2> QED  BY <1>1, <2>1, <2>2 DEF Listed
<1>4. CASE AtPlace(place, x, p)
  BY <1>1, <1>2, <1>3, <1>4, WorkThere DEF AtPlace
<1>5. CASE BeforeIt(place, x, p)
  <2>1. PICK l \in Spots : Instr(l).op = "JMP" /\ p = place[l]
    BY <1>5 DEF BeforeIt
  <2>2. list[p + 1].op = "JMP"
    BY <1>1, <2>1, LedTo DEF Listed
  <2> QED  BY <1>3, <2>1, <2>2
<1>6. CASE Turning(place, x, p)
  <2>1. PICK l \in Spots : Forks(l) /\ p = place[l] + 1
    BY <1>6 DEF Turning
  <2>2. PICK q : q = place[l]
    OBVIOUS
  <2>3. q \in Nat /\ q + 2 \in 1 .. Len(Lines)
    BY <1>1, <2>1, <2>2, LinesOfSpots
  <2>4. p = q + 1 /\ p + 1 = q + 2 /\ p \in Nat
    BY <2>1, <2>2, <2>3
  <2>5. list[p + 1].op = "JMP" /\ Len(list) = Len(Lines)
    BY <1>1, <2>1, <2>2, <2>4 DEF Listed
  <2> QED  BY <2>3, <2>4, <2>5
<1>7. CASE Overtaken(place, x, p)
  <2>1. PICK m \in Spots : Instr(m).op = "JMP" /\ p = place[Instr(m).next] /\ ~Shown(location_map[x])
    BY <1>7 DEF Overtaken
  <2>2. Instr(m).next \in Spots
    BY <1>1, <2>1, TargetsAreSpots
  <2>3. hide_nops /\ OperationOf(x) = "NOP"
    BY <1>1, <1>2, <2>1 DEF Shown, Finished
  <2> QED  BY <1>3, <2>1, <2>2, <2>3
<1> QED  BY <1>4, <1>5, <1>6, <1>7 DEF Beside

\* Following a jump.
LEMMA BesideJumps ==
  ASSUME NEW place, NEW list, Loaded(place, list), NEW x, NEW p, Beside(place, x, p),
         list[p + 1].op = "JMP"
  PROVE  Beside(place, x, list[p + 1].target)
<1>1. x \in DOMAIN location_map /\ Finished /\ Placed(place) /\ Listed(place, list)
  BY DEF Beside, Loaded
<1>2. location_map[x] \in Spots /\ OperationOf(x) # "JMP"
  BY <1>1, LocatedSpots
<1>3. ASSUME NEW l \in Spots, Instr(l).op = "JMP"
      PROVE  list[place[l] + 1].target = place[Instr(l).next]
  BY <1>1, <1>3, LedTo DEF Listed, LeadsTo
<1>4. CASE AtPlace(place, x, p)
  <2>1. PICK m \in Spots : /\ RunsTo(location_map[x], m) /\ Shown(m) /\ place[m] = p
                           /\ location_map[x] # m /\ ~Shown(location_map[x])
    BY <1>1, <1>2, <1>4, WorkThere DEF AtPlace
  <2>2. Instr(m).op = "JMP"
    BY <1>1, <2>1 DEF Listed
  <2>3. Overtaken(place, x, list[p + 1].target)
    BY <1>3, <2>1, <2>2 DEF Overtaken
  <2> QED  BY <1>1, <2>3 DEF Beside
<1>5. CASE BeforeIt(place, x, p)
  <2>1. PICK l \in Spots : Instr(l).op = "JMP" /\ p = place[l] /\ Instr(l).next = location_map[x]
    BY <1>5 DEF BeforeIt
  <2>2. AtPlace(place, x, list[p + 1].target)
    BY <1>3, <2>1 DEF AtPlace
  <2> QED  BY <1>1, <2>2 DEF Beside
<1>6. CASE Turning(place, x, p)
  <2>1. PICK l \in Spots : Forks(l) /\ p = place[l] + 1 /\ Reaches(Instr(l).choice[1], x)
    BY <1>6 DEF Turning
  <2>2. place[l] \in Nat
    BY <1>1 DEF Placed
  <2>3. p + 1 = place[l] + 2
    BY <2>1, <2>2
  <2>4. list[p + 1].target = place[Instr(l).choice[1]] /\ Instr(l).choice[1] \in Locations
    BY <1>1, <2>1, <2>3 DEF Listed, LeadsTo, Spots
  <2> QED  BY <1>1, <2>1, <2>4, Lands
<1>7. CASE Overtaken(place, x, p)
  <2>1. PICK m \in Spots : Instr(m).op = "JMP" /\ p = place[Instr(m).next]
    BY <1>7 DEF Overtaken
  <2>2. Instr(m).next \in Spots /\ Instr(Instr(m).next).op # "JMP" /\ Shown(Instr(m).next)
    BY <1>1, <2>1, TargetsAreSpots, LedTo
  <2>3. list[p + 1].op = Instr(Instr(m).next).op
    BY <1>1, <2>1, <2>2 DEF Listed
  <2> QED  BY <2>2, <2>3
<1> QED  BY <1>4, <1>5, <1>6, <1>7 DEF Beside

\* The grid goes on while the listing waits.
LEMMA BesideRests ==
  ASSUME NEW place, NEW list, Loaded(place, list), NEW x, NEW p, Beside(place, x, p),
         hide_nops, OperationOf(x) = "NOP"
  PROVE  Beside(place, GridAdvance(program, x, FALSE), p)
<1> DEFINE y == GridAdvance(program, x, FALSE)
           l == location_map[x]
<1>1. x \in DOMAIN location_map /\ Finished /\ Placed(place) /\ Listed(place, list)
  BY DEF Beside, Loaded
<1>2. /\ l \in Spots /\ Instr(l).op = "NOP" /\ Reaches(Following(l), y)
      /\ l \in Locations /\ l = <<l[1], l[2]>> /\ l[1] \in Nat /\ l[2] \in Nat
  <2>1. l \in Spots /\ Instr(l).op = "NOP" /\ OperationOf(x) \notin {"BNG", "TSP"} \cup Exits
    BY <1>1, LocatedSpots DEF Exits
  <2>2. Reaches(Following(l), y)
    BY <1>1, <2>1, LocatedSpots
  <2> HIDE DEF l, y
  <2>3. l \in Locations /\ l = <<l[1], l[2]>> /\ l[1] \in Nat /\ l[2] \in Nat
    BY <2>1 DEF Spots, Locations
  <2> QED  BY <2>1, <2>2, <2>3
<1>3. ~Shown(l)
  BY <1>2 DEF Shown
<1>4. Following(l) = <<l[1], l[2] + 1>> /\ Following(l) \in Locations
  BY <1>2 DEF Following, Locations
<1>5. /\ Following(l) \in Spots /\ y \in DOMAIN location_map
      /\ location_map[y] = Following(l) \/ Instr(Following(l)) = JumpTo(location_map[y])
  BY <1>1, <1>2, <1>4, DoneReaches
<1> HIDE DEF y
<1>6. CASE AtPlace(place, x, p)
  <2>1. Size(l) = 0 /\ place[l] \in Nat
    BY <1>1, <1>2, <1>3, LinesAtAre DEF Placed
  <2>2. place[Following(l)] = place[l] + 0
    BY <1>1, <1>2, <1>5, <2>1 DEF Placed
  <2>3. place[Following(l)] = p
    BY <1>6, <2>1, <2>2 DEF AtPlace
  <2> QED  BY <1>1, <1>2, <1>4, <2>3, Lands DEF y
<1>7. CASE BeforeIt(place, x, p)
  BY <1>3, <1>7, LedTo DEF BeforeIt
<1>8. CASE Turning(place, x, p)
  <2>1. PICK k \in Spots : Forks(k) /\ Reaches(Instr(k).choice[1], x)
    BY <1>8 DEF Turning
  <2>2. PICK c : c = Instr(k).choice[1]
    OBVIOUS
  <2>3. c \in Spots /\ Shown(c)
    BY <2>1, <2>2, LedTo
  <2>4. c \in Locations /\ Reaches(c, x)
    BY <2>1, <2>2, <2>3 DEF Spots
  <2>5. Instr(c) = JumpTo(l)
    BY <1>1, <1>3, <2>3, <2>4, DoneReaches
  <2>6. Instr(c).op = "JMP" /\ Instr(c).next = l
    BY <2>5 DEF JumpTo
  <2> QED  BY <1>3, <2>3, <2>6, LedTo
<1>9. CASE Overtaken(place, x, p)
  <2>1. PICK m \in Spots : /\ Instr(m).op = "JMP" /\ p = place[Instr(m).next]
                           /\ RunsTo(l, m) /\ l # m
    BY <1>9 DEF Overtaken
  <2>2. PICK k, a, b : k = l[1] /\ a = l[2] /\ b = m[2] /\ l = <<k, a>> /\ m = <<k, b>>
                       /\ a \in Nat /\ b \in Nat
    BY <1>1, <1>2, <2>1, SpotsAre DEF RunsTo
  <2>3. a + 1 <= b /\ \A j \in a .. b - 1 : ~Shown(<<k, j>>)
    BY <2>1, <2>2 DEF RunsTo
  <2>4. Following(l) = <<k, a + 1>>
    BY <1>4, <2>2
  <2>5. CASE a + 1 = b
    <3>1. Following(l) = m
      BY <2>2, <2>4, <2>5
    <3>2. Instr(m) = JumpTo(location_map[y])
      <4>1. location_map[y] # m
        BY <1>1, <1>5, <2>1, LocatedSpots
      <4> QED  BY <1>5, <3>1, <4>1
    <3>3. AtPlace(place, y, p)
      BY <2>1, <3>2 DEF AtPlace, JumpTo
    <3> QED  BY <1>5, <3>3 DEF Beside, y
  <2>6. CASE a + 1 # b
    <3>1. a + 1 \in a .. b - 1 /\ a + 1 <= b
      BY <2>2, <2>3, <2>6
    <3>2. ~Shown(Following(l))
      BY <2>3, <2>4, <3>1
    <3>3. location_map[y] = Following(l)
      <4>1. Instr(Following(l)).op = "NOP"
        BY <3>2 DEF Shown
      <4> QED  BY <1>5, <4>1 DEF JumpTo
    <3>4. RunsTo(Following(l), m)
      <4>1. \A j \in a + 1 .. b - 1 : j \in a .. b - 1
        BY <2>2
      <4> QED  BY <2>2, <2>3, <2>4, <4>1 DEF RunsTo
    <3>5. Following(l) # m
      BY <2>2, <2>4, <2>6
    <3>6. Overtaken(place, y, p)
      BY <2>1, <3>2, <3>3, <3>4, <3>5 DEF Overtaken
    <3> QED  BY <1>5, <3>6 DEF Beside, y
  <2> QED  BY <2>5, <2>6
<1> QED  BY <1>6, <1>7, <1>8, <1>9 DEF Beside, y

\* Both go on.
LEMMA BesideAdvances ==
  ASSUME NEW place, NEW list, Loaded(place, list), NEW x, NEW p, Beside(place, x, p),
         list[p + 1].op \notin Exits \cup {"JMP"}, ~(hide_nops /\ OperationOf(x) = "NOP"),
         NEW goLeft \in BOOLEAN
  PROVE  Beside(place, GridAdvance(program, x, goLeft), AssemblyAdvance(list, p, goLeft))
<1> DEFINE y == GridAdvance(program, x, goLeft)
           l == location_map[x]
           o == OperationOf(x)
<1>1. x \in DOMAIN location_map /\ Finished /\ Placed(place) /\ Listed(place, list)
  BY DEF Beside, Loaded
<1>2. /\ l \in Spots /\ Instr(l).op = o /\ l \in Locations
      /\ l = <<l[1], l[2]>> /\ l[1] \in Nat /\ l[2] \in Nat
  <2>1. l \in Spots /\ Instr(l).op = o
    BY <1>1, LocatedSpots
  <2> HIDE DEF l, o
  <2>2. l \in Locations /\ l = <<l[1], l[2]>> /\ l[1] \in Nat /\ l[2] \in Nat
    BY <2>1 DEF Spots, Locations
  <2> QED  BY <2>1, <2>2
<1>3. Shown(l)
  BY <1>2 DEF Shown
<1>4. AtPlace(place, x, p)
  <2>1. ~BeforeIt(place, x, p)
    BY <1>1, LedTo DEF BeforeIt, Listed
  <2>2. ~Turning(place, x, p)
    <3> SUFFICES ASSUME NEW k \in Spots, Forks(k), p = place[k] + 1 PROVE FALSE
      BY DEF Turning
    <3>1. place[k] \in Nat
      BY <1>1 DEF Placed
    <3>2. p + 1 = place[k] + 2
      BY <3>1
    <3> QED  BY <1>1, <3>2 DEF Listed
  <2>3. ~Overtaken(place, x, p)
    BY <1>3 DEF Overtaken
  <2> QED  BY <2>1, <2>2, <2>3 DEF Beside
<1>5. p = place[l] /\ p \in Nat /\ list[p + 1].op = o /\ o \notin Exits \cup {"JMP"}
  <2>1. p = place[l]
    BY <1>4 DEF AtPlace
  <2> QED  BY <1>1, <1>2, <1>3, <2>1 DEF Placed, Listed
<1>6. InstructionAt(list, p) = list[p + 1]
  BY DEF InstructionAt
<1>7. CASE o \in {"BNG", "TSP"} /\ goLeft
  <2>1. AssemblyAdvance(list, p, goLeft) = list[p + 1].target
    BY <1>5, <1>6, <1>7 DEF AssemblyAdvance
  <2>2. list[p + 1].target = place[Instr(l).choice[2]] /\ Instr(l).choice[2] \in Locations
    BY <1>1, <1>2, <1>3, <1>5, <1>7 DEF Listed, LeadsTo, Spots
  <2>3. goLeft = TRUE
    BY <1>7
  <2>4. Reaches(Instr(l).choice[2], y)
    BY <1>1, <1>7, <2>3, LocatedSpots
  <2> QED  BY <1>1, <2>1, <2>2, <2>4, Lands
<1>8. CASE o \in {"BNG", "TSP"} /\ ~goLeft
  <2>1. AssemblyAdvance(list, p, goLeft) = p + 1
    BY <1>5, <1>6, <1>8 DEF AssemblyAdvance
  <2>2. goLeft = FALSE
    BY <1>8
  <2>3. Reaches(Instr(l).choice[1], y)
    BY <1>1, <1>8, <2>2, LocatedSpots
  <2>4. Instr(l).choice[1] \in Spots
    BY <1>1, <1>2, <1>8, TargetsAreSpots
  <2>5. CASE Forks(l)
    <3>1. Turning(place, y, p + 1)
      BY <1>2, <1>5, <2>3, <2>5 DEF Turning
    <3>2. y \in DOMAIN location_map
      BY <1>1, <2>3, <2>4, DoneReaches DEF Spots
    <3> HIDE DEF y
    <3> QED  BY <2>1, <3>1, <3>2 DEF Beside, y
  <2>6. CASE ~Forks(l)
    <3>1. Instr(l).choice[1] = <<l[1] + 1, 0>>
      BY <1>2, <1>8, <2>6 DEF Forks
    <3>2. Size(l) = 1
      BY <1>1, <1>2, <1>3, <2>6, LinesAtAre
    <3>3. Following(l) \notin Spots
      <4>1. l[2] + 1 = Len(Held(l[1]))
        BY <1>1, <1>2, <1>8, SpotsAre DEF LastOps
      <4>2. ASSUME Following(l) \in Spots PROVE FALSE
        <5>1. Following(l)[1] = l[1] /\ Following(l)[2] = l[2] + 1
          BY DEF Following
        <5>2. (l[2] + 1) + 1 \in 1 .. Len(Held(l[1]))
          BY <1>1, <4>2, <5>1, SpotsAre
        <5>3. PICK n : n = Len(Held(l[1]))
          OBVIOUS
        <5>4. n \in Nat /\ n + 1 \in 1 .. n
          BY <1>2, <4>1, <5>2, <5>3
        <5> QED  BY <5>4
      <4> QED  BY <4>2
    <3>4. l[1] + 1 # Len(fragments)
      <4>1. <<l[1] + 1, 0>>[1] \in 0 .. Len(fragments) - 1
        BY <1>1, <2>4, <3>1, SpotsAre
      <4>2. Len(fragments) \in Nat
        BY <1>1, FragmentsAre
      <4> QED  BY <4>1, <4>2
    <3>5. place[<<l[1] + 1, 0>>] = p + 1
      BY <1>1, <1>2, <1>5, <3>2, <3>3, <3>4 DEF Placed
    <3>6. Instr(l).choice[1] \in Locations
      BY <2>4 DEF Spots
    <3> QED  BY <1>1, <2>1, <2>3, <3>1, <3>5, <3>6, Lands
  <2> QED  BY <2>5, <2>6
<1>9. CASE o \notin {"BNG", "TSP"}
  <2>1. AssemblyAdvance(list, p, goLeft) = p + 1
    BY <1>5, <1>6, <1>9 DEF AssemblyAdvance
  <2>2. y = GridAdvance(program, x, FALSE)
    <3>1. goLeft = TRUE \/ goLeft = FALSE
      OBVIOUS
    <3> QED  BY <1>9, <3>1, OneWay
  <2>3. Reaches(Following(l), y)
    BY <1>1, <1>5, <1>9, <2>2, LocatedSpots
  <2>4. Following(l) \in Locations
    BY <1>2 DEF Following, Locations
  <2>5. Following(l) \in Spots
    BY <1>1, <2>3, <2>4, DoneReaches
  <2>6. Size(l) = 1
    <3>1. ~Forks(l)
      BY <1>2, <1>9 DEF Forks
    <3> QED  BY <1>1, <1>2, <1>3, <3>1, LinesAtAre
  <2>7. place[Following(l)] = p + 1
    BY <1>1, <1>2, <1>5, <2>5, <2>6 DEF Placed
  <2> QED  BY <1>1, <2>1, <2>3, <2>4, <2>7, Lands
<1> QED  BY <1>7, <1>8, <1>9

-----------------------------------------------------------------------------
(* The theorems.                                                           *)

\* What has been shown of every scan.
ScanFacts ==
  ScanTypes /\ WorkInv /\ LocationsFit /\ JumpsHitWork /\ TargetsExist /\ FragmentsEnd

\* The disassembler scans, and nothing that is run afterwards touches the scan.
LEMMA DisassemblyScans == DSpec => Spec /\ []ScanFacts
<1>1. DInit => Init
  BY DEF DInit
<1>2. [DNext]_<<vars, both>> => [Scan]_vars
  BY DEF DNext, Load, FollowJump, GridRests, RunBoth
<1>3. DSpec => Spec
  BY <1>1, <1>2, PTL DEF DSpec, Spec
<1>4. Spec => []ScanFacts
  BY ScanInvariant, ListingFits, TargetsHoldWork, FragmentsEndOnce, PTL DEF ScanFacts
<1> QED  BY <1>3, <1>4, PTL

\* The thread of the grid and that of the listing, beside each other.
DisassemblyInv ==
  /\ hide_nops \in BOOLEAN
  /\ listing = << >> => gip = GridStart /\ lip = 0
  /\ listing # << >> => /\ phase = "done" /\ Assembles
                        /\ listing = Assemble(Lines).instructions
                        /\ \E place : Placed(place) /\ Beside(place, gip, lip)

LEMMA Unmoved ==
  ASSUME UNCHANGED vars, UNCHANGED hide_nops
  PROVE  /\ Assembles' <=> Assembles
         /\ (Assemble(Lines).instructions)' = Assemble(Lines).instructions
         /\ \A place : Placed(place)' <=> Placed(place)
         /\ \A place : Beside(place, gip, lip)' <=> Beside(place, gip', lip')
<1>1. Lines' = Lines
  BY DEF vars, worklist, LinesOf, Lines
<1>2. Spots' = Spots
  BY DEF vars, worklist, current, Spots, At, CodeOf, Filled
<1>3. \A l : Instr(l)' = Instr(l) /\ LinesAt(l)' = LinesAt(l) /\ (Forks(l)' <=> Forks(l))
             /\ (Shown(l)' <=> Shown(l)) /\ Size(l)' = Size(l)
  BY DEF vars, worklist, LinesOf, LinesAt, Instr, Held, Forks, Shown, Size
<1>4. ASSUME NEW place PROVE Placed(place)' <=> Placed(place)
  <2>1. fragments' = fragments
    BY DEF vars, worklist
  <2>2. \A l : Following(l)' = Following(l)
    BY DEF Following
  <2> QED  BY <1>1, <1>2, <1>3, <2>1, <2>2, Zenon DEF Placed
<1>5. \A l, x : Reaches(l, x)' <=> Reaches(l, x)
  BY DEF vars, worklist, current, Reaches, At, CodeOf, Filled, here
<1>6. ASSUME NEW place
      PROVE  Beside(place, gip, lip)' <=> Beside(place, gip', lip')
  <2>1. location_map' = location_map
    BY DEF vars
  <2>2. AtPlace(place, gip, lip)' <=> AtPlace(place, gip', lip')
    BY <2>1 DEF AtPlace
  <2>3. BeforeIt(place, gip, lip)' <=> BeforeIt(place, gip', lip')
    BY <1>2, <1>3, <2>1 DEF BeforeIt
  <2>4. Turning(place, gip, lip)' <=> Turning(place, gip', lip')
    <3>1. /\ phase' = phase /\ here' = here /\ ip' = ip
          /\ unvisited_fragments' = unvisited_fragments
      BY DEF vars, worklist, current, here
    <3>2. \A l : At(l)' = At(l)
      BY DEF vars, worklist, current, At, CodeOf, Filled
    <3>3. \A l : Reaches(Instr(l).choice[1], gip)' <=> Reaches(Instr(l).choice[1], gip')
      BY <1>3, <2>1, <3>1, <3>2, Zenon DEF Reaches
    <3> QED  BY <1>2, <1>3, <3>3, Zenon DEF Turning
  <2>5. Overtaken(place, gip, lip)' <=> Overtaken(place, gip', lip')
    <3>1. \A m : RunsTo(location_map[gip], m)' <=> RunsTo(location_map[gip'], m)
      BY <1>3, <2>1 DEF RunsTo
    <3>2. Shown(location_map[gip])' <=> Shown(location_map[gip'])
      BY <2>1 DEF vars, worklist, Shown, Instr, Held
    <3> QED  BY <1>2, <1>3, <2>1, <3>1, <3>2 DEF Overtaken
  <2> QED  BY <2>1, <2>2, <2>3, <2>4, <2>5 DEF Beside
<1> QED  BY <1>1, <1>4, <1>6 DEF Assembles, Assemble

\* What the invariant says of a listing that has been loaded.
LEMMA IsLoaded ==
  ASSUME ScanFacts, DisassemblyInv, listing # << >>
  PROVE  /\ Finished /\ phase = "done" /\ Assembles /\ listing = Assemble(Lines).instructions
         /\ \E place : Loaded(place, listing) /\ Beside(place, gip, lip)
<1>1. Finished
  BY DEF ScanFacts, DisassemblyInv, Finished
<1>2. PICK place : Placed(place) /\ Beside(place, gip, lip)
  BY DEF DisassemblyInv
<1>3. Loaded(place, listing)
  BY <1>1, <1>2, ListIs DEF Loaded, DisassemblyInv
<1> QED  BY <1>1, <1>2, <1>3 DEF DisassemblyInv

LEMMA DisassemblyInvHolds == DSpec => []DisassemblyInv
<1>1. DInit => DisassemblyInv
  BY DEF DInit, DisassemblyInv
<1>2. ScanFacts /\ DisassemblyInv /\ [DNext]_<<vars, both>> => DisassemblyInv'
  <2> SUFFICES ASSUME ScanFacts, DisassemblyInv, [DNext]_<<vars, both>> PROVE DisassemblyInv'
    OBVIOUS
  \* A step of a thread beside a listing that stays.
  <2>1. ASSUME listing # << >>, UNCHANGED vars, UNCHANGED hide_nops, UNCHANGED listing,
               \A place : Loaded(place, listing) /\ Beside(place, gip, lip)
                            => Beside(place, gip', lip')
        PROVE  DisassemblyInv'
    <3>1. PICK place : Loaded(place, listing) /\ Beside(place, gip, lip)
      BY <2>1, IsLoaded
    <3>2. Placed(place)' /\ Beside(place, gip, lip)'
      BY <2>1, <3>1, Unmoved DEF Loaded
    <3>3. Assembles' /\ listing' = (Assemble(Lines).instructions)' /\ phase' = "done"
      BY <2>1, Unmoved, IsLoaded DEF vars
    <3> QED  BY <2>1, <3>2, <3>3 DEF DisassemblyInv
  <2>2. CASE UNCHANGED <<vars, both>>
    <3>1. CASE listing = << >>
      BY <2>2, <3>1 DEF both, DisassemblyInv
    <3>2. CASE listing # << >>
      BY <2>1, <2>2, <3>2 DEF both
    <3> QED  BY <3>1, <3>2
  <2>3. CASE Scan /\ UNCHANGED both
    <3>1. phase # "done"
      BY <2>3 DEF Scan, Take, Finish, Trace, JumpBack, JoinOtherSide, Exit, Emit, BranchPoint, New
    <3>2. listing = << >>
      BY <3>1 DEF DisassemblyInv
    <3> QED  BY <2>3, <3>2 DEF both, DisassemblyInv
  <2>4. CASE Load
    <3>1. /\ phase = "done" /\ listing = << >> /\ Assembles
          /\ UNCHANGED vars /\ UNCHANGED <<hide_nops, gip, lip>>
          /\ listing' = Assemble(Lines).instructions
      BY <2>4, Zenon DEF Load, Assembles, Fine
    <3>2. Finished
      BY <3>1 DEF ScanFacts, DisassemblyInv, Finished
    <3>3. PICK place : Placed(place)
      BY <3>2, LaidOut
    <3>4. Reaches(<<0, 0>>, GridStart) /\ <<0, 0>> \in Locations
      BY GoesOnIs DEF ScanFacts, LocationsFit, Locations
    <3>5. Beside(place, GridStart, place[<<0, 0>>])
      BY <3>2, <3>4, Lands
    <3>6. Beside(place, gip', lip')
      BY <3>1, <3>3, <3>5 DEF DisassemblyInv, Placed
    <3>7. Placed(place)' /\ Beside(place, gip, lip)' /\ Assembles'
          /\ listing' = (Assemble(Lines).instructions)'
      BY <3>1, <3>3, <3>6, Unmoved
    <3>8. phase' = "done" /\ hide_nops' \in BOOLEAN /\ gip' = GridStart /\ lip' = 0
      BY <3>1 DEF vars, DisassemblyInv
    <3> QED  BY <3>7, <3>8 DEF DisassemblyInv
  <2>5. CASE FollowJump
    <3>1. /\ listing # << >> /\ UNCHANGED vars /\ UNCHANGED <<hide_nops, listing, gip>>
          /\ listing[lip + 1].op = "JMP" /\ lip' = listing[lip + 1].target
      BY <2>5 DEF FollowJump, instruction, InstructionAt, AssemblyAdvance
    <3> QED  BY <2>1, <3>1, BesideJumps
  <2>6. CASE GridRests
    <3>1. /\ listing # << >> /\ UNCHANGED vars /\ UNCHANGED <<hide_nops, listing, lip>>
          /\ hide_nops /\ OperationOf(gip) = "NOP" /\ gip' = GridAdvance(program, gip, FALSE)
      BY <2>6 DEF GridRests, Hidden
    <3> QED  BY <2>1, <3>1, BesideRests
  <2>7. CASE RunBoth
    <3>1. PICK goLeft \in BOOLEAN : /\ lip' = AssemblyAdvance(listing, lip, goLeft)
                                    /\ gip' = GridAdvance(program, gip, goLeft)
      BY <2>7 DEF RunBoth
    <3>2. /\ listing # << >> /\ UNCHANGED vars /\ UNCHANGED <<hide_nops, listing>>
          /\ listing[lip + 1].op \notin Exits \cup {"JMP"}
          /\ ~(hide_nops /\ OperationOf(gip) = "NOP")
      BY <2>7 DEF RunBoth, instruction, InstructionAt, Hidden
    <3> QED  BY <2>1, <3>1, <3>2, BesideAdvances
  <2> QED  BY <2>2, <2>3, <2>4, <2>5, <2>6, <2>7 DEF DNext
<1> QED  BY <1>1, <1>2, DisassemblyScans, PTL DEF DSpec

\* For every text, and with and without the flag -n: wherever a thread gets on the
\* grid, the same thread in the assembled listing performs the same operations, in
\* the same order and with the same branches (disassembler::write_state, read back
\* by assembly_scanner::get_instructions).
THEOREM ListingAgrees == DSpec => []ListingFollowsGrid
<1>1. ScanFacts /\ DisassemblyInv => ListingFollowsGrid
  <2> SUFFICES ASSUME ScanFacts, DisassemblyInv, listing # << >>
               PROVE  /\ lip \in AssemblyIPs(listing)
                      /\ instruction.op # "JMP" => instruction.op = OperationOf(gip) \/ Hidden
    BY DEF ListingFollowsGrid
  <2>1. PICK place : Loaded(place, listing) /\ Beside(place, gip, lip)
    BY IsLoaded
  <2>2. /\ lip \in Nat /\ lip + 1 \in 1 .. Len(listing)
        /\ listing[lip + 1].op # "JMP" =>
              \/ listing[lip + 1].op = OperationOf(gip)
              \/ hide_nops /\ OperationOf(gip) = "NOP"
    BY <2>1, BesideAgrees
  <2>3. Len(listing) \in Nat
    <3>1. Len(listing) = Len(Lines) /\ Lines \in Seq(LineSet)
      BY <2>1 DEF Loaded, Listed, Placed
    <3> QED  BY <3>1, LenProperties
  <2>4. lip \in AssemblyIPs(listing)
    BY <2>2, <2>3 DEF AssemblyIPs
  <2> QED  BY <2>2, <2>4 DEF instruction, InstructionAt, Hidden
<1> QED  BY <1>1, DisassemblyScans, DisassemblyInvHolds, PTL

\* For every text: in the listing no more than two jumps follow on each other, so a
\* thread there never goes round in jumps.
THEOREM JumpsSettle == DSpec => []JumpsLeadToWork
<1>1. ScanFacts /\ DisassemblyInv => JumpsLeadToWork
  <2>1. CASE listing = << >>
    BY <2>1, EmptySeq DEF JumpsLeadToWork
  <2>2. ASSUME ScanFacts, DisassemblyInv, listing # << >>,
               NEW k \in DOMAIN listing, listing[k].op = "JMP",
               Target(listing[k]).op = "JMP"
        PROVE  Target(Target(listing[k])).op # "JMP"
    <3>1. PICK place : Loaded(place, listing)
      BY <2>2, IsLoaded
    <3>2. Finished /\ Placed(place) /\ Listed(place, listing) /\ k \in 1 .. Len(Lines)
      BY <3>1, <2>2 DEF Loaded, Listed
    \* What the target of a jump in a line is.
    <3>3. ASSUME NEW instr, NEW t, LeadsTo(place, instr, t)
          PROVE  t \in Spots /\ Target(instr) = listing[place[t] + 1] /\ Target(instr).op = Instr(t).op
      BY <3>2, <3>3 DEF LeadsTo, Target, InstructionAt, Listed
    <3>4. ASSUME NEW l \in Spots, Instr(l).op = "JMP"
          PROVE  Target(listing[place[l] + 1]).op # "JMP"
      <4>1. LeadsTo(place, listing[place[l] + 1], Instr(l).next)
        BY <3>1, <3>2, <3>4, LedTo DEF Listed
      <4>2. Instr(Instr(l).next).op # "JMP"
        BY <3>2, <3>4, TargetsAreSpots
      <4> QED  BY <3>3, <4>1, <4>2
    <3>5. PICK l \in Spots : IsOwn(place, k, l) \/ IsJump(place, k, l)
      BY <3>2, EveryLine
    <3>6. CASE IsOwn(place, k, l)
      <4>1. k = place[l] + 1 /\ Instr(l).op = "JMP"
        BY <2>2, <3>2, <3>6 DEF IsOwn, Listed
      <4> QED  BY <2>2, <3>4, <4>1
    <3>7. CASE IsJump(place, k, l)
      <4>1. LeadsTo(place, listing[k], Instr(l).choice[1])
        BY <3>2, <3>7 DEF IsJump, Listed
      <4>2. PICK t : t = Instr(l).choice[1]
        OBVIOUS
      <4>3. t \in Spots /\ Target(listing[k]) = listing[place[t] + 1] /\ Instr(t).op = "JMP"
        BY <2>2, <3>3, <4>1, <4>2
      <4> QED  BY <3>4, <4>3
    <3> QED  BY <3>5, <3>6, <3>7
  <2> QED  BY <2>1, <2>2 DEF JumpsLeadToWork
<1> QED  BY <1>1, DisassemblyScans, DisassemblyInvHolds, PTL

\* What the disassembler can print so that it can be read: the instructions that
\* have a name, and of the integers those of one digit.
Printable ==
  \A k \in Filled : \A j \in 1 .. Len(fragments[k + 1][1]) :
    /\ fragments[k + 1][1][j].op \in InstructionNames
    /\ fragments[k + 1][1][j].op = "PSI" => fragments[k + 1][1][j].number \in Digits

LEMMA LinesAcceptable ==
  ASSUME Finished, NEW l \in Spots
  PROVE  /\ Acceptable(Labelled(Instr(l), l)) <=>
              /\ Instr(l).op \in InstructionNames
              /\ Instr(l).op = "PSI" => Instr(l).number \in Digits
         /\ Forks(l) => Acceptable(Line(<< >>, "JMP", Instr(l).choice[1]))
<1>1. Instr(l) \in Instructions
  BY SpotsAre
<1>2. PICK i : i = Instr(l)
  OBVIOUS
<1>3. Labelled(i, l) = [label |-> l, name |-> i.op, target |-> Argument(i)]
  BY DEF Labelled, Line
<1>4. i.op \in Targeted => Argument(i) # << >> /\ i.op \notin Pushing
  <2>1. CASE i.op = "JMP"
    <3>1. Argument(i) = i.next /\ i.next \in Locations
      BY <1>1, <1>2, <2>1 DEF Argument, Instructions
    <3>2. Argument(i) # << >>
      BY <3>1 DEF Locations
    <3>3. i.op \notin Pushing
      BY <2>1 DEF Pushing
    <3> QED  BY <3>2, <3>3
  <2>2. CASE i.op \in {"BNG", "TSP"}
    <3>1. Argument(i) = i.choice[2] /\ i.choice[2] \in Locations
      BY <1>1, <1>2, <2>2 DEF Argument, Instructions
    <3>2. Argument(i) # << >>
      <4>1. \A t \in Locations : t # << >>
        BY DEF Locations
      <4> QED  BY <3>1, <4>1
    <3>3. i.op \notin Pushing
      BY <2>2 DEF Pushing
    <3> QED  BY <3>2, <3>3
  <2> QED  BY <2>1, <2>2 DEF Targeted
<1>5. i.op \in Pushing => (Argument(i) \in Literals <=> (i.op = "PSI" => i.number \in Digits))
  <2>1. CASE i.op = "PSC"
    <3>1. Argument(i) = <<"'", "c", "'">>
      BY <2>1 DEF Argument
    <3>2. Argument(i) \in Literals
      BY <3>1 DEF Literals
    <3>3. i.op # "PSI"
      BY <2>1
    <3> QED  BY <3>2, <3>3
  <2>2. CASE i.op = "PSI"
    <3>1. Argument(i) = IF i.number \in Digits THEN <<"#9">> ELSE <<"#?">>
      BY <2>2 DEF Argument
    <3>2. <<"#9">> \in Literals /\ <<"#?">> \notin Literals
      BY DEF Literals
    <3>3. CASE i.number \in Digits
      BY <3>1, <3>2, <3>3
    <3>4. CASE i.number \notin Digits
      BY <2>2, <3>1, <3>2, <3>4
    <3> QED  BY <3>3, <3>4
  <2> QED  BY <2>1, <2>2 DEF Pushing
<1>6. i.op = "PSI" => i.op \in Pushing
  BY DEF Pushing
<1>7. Acceptable(Labelled(i, l)) <=> /\ i.op \in InstructionNames
                                     /\ i.op = "PSI" => i.number \in Digits
  BY <1>3, <1>4, <1>5, <1>6 DEF Acceptable
<1>8. ASSUME Forks(l) PROVE Acceptable(Line(<< >>, "JMP", Instr(l).choice[1]))
  <2>1. Instr(l).choice[1] \in Spots
    BY <1>8, TargetsAreSpots DEF Forks
  <2>2. Instr(l).choice[1] # << >>
    BY <2>1, LinesSay
  <2> QED  BY <2>2 DEF Acceptable, Line, InstructionNames, Targeted, Pushing
<1> QED  BY <1>2, <1>7, <1>8

\* For every text: without the flag -n the assembler accepts the listing of a grid
\* whose operations have names and whose integers have one digit; and with or
\* without it, it accepts no other.
THEOREM AssemblesIfPrintable ==
  DSpec => [](/\ Printable => DisassemblyAssembles
              /\ phase = "done" /\ Assemble(Lines).error = "" => Printable)
<1>1. ASSUME Finished, NEW place, Placed(place)
      PROVE  /\ Printable <=> \A l \in Spots : Acceptable(Labelled(Instr(l), l))
             /\ \A q \in 1 .. Len(Lines) : Named(Lines[q])
             /\ Len(Lines) \in Nat /\ DOMAIN Lines = 1 .. Len(Lines)
  <2> DEFINE Prints(i) == /\ i.op \in InstructionNames
                          /\ i.op = "PSI" => i.number \in Digits
  <2>1. Printable <=> \A k \in Filled : \A j \in 1 .. Len(Held(k)) : Prints(Held(k)[j])
    BY DEF Printable, Held
  <2>2. Filled = 0 .. Len(fragments) - 1
    BY <1>1, FragmentsAre DEF Filled
  <2> HIDE DEF Prints
  <2>3. ASSUME NEW k \in Filled, NEW j \in 1 .. Len(Held(k)), \A l \in Spots : Prints(Instr(l))
        PROVE  Prints(Held(k)[j])
    <3>1. PICK l : l = <<k, j - 1>>
      OBVIOUS
    <3>2. l \in Spots
      BY <1>1, <2>2, <3>1, SpotsAre
    <3>3. Instr(l) = Held(k)[j]
      <4>1. (j - 1) + 1 = j /\ l[1] = k /\ l[2] = j - 1
        BY <3>1, <1>1, <2>2, FragmentsAre
      <4> QED  BY <4>1 DEF Instr
    <3> QED  BY <2>3, <3>2, <3>3
  <2>4. ASSUME NEW l \in Spots, \A k \in Filled : \A j \in 1 .. Len(Held(k)) : Prints(Held(k)[j])
        PROVE  Prints(Instr(l))
    <3>1. l[1] \in Filled /\ l[2] + 1 \in 1 .. Len(Held(l[1]))
      BY <1>1, <2>2, SpotsAre
    <3> QED  BY <2>4, <3>1 DEF Instr
  <2>5. \A l \in Spots : Acceptable(Labelled(Instr(l), l)) <=> Prints(Instr(l))
    BY <1>1, LinesAcceptable DEF Prints
  <2>6. Len(Lines) \in Nat /\ DOMAIN Lines = 1 .. Len(Lines)
    BY <1>1, LenProperties DEF Placed
  <2>7. Printable <=> \A l \in Spots : Prints(Instr(l))
    BY <2>1, <2>3, <2>4
  <2>8. \A q \in 1 .. Len(Lines) : Named(Lines[q])
    BY <1>1, LinesNamed
  <2> QED  BY <2>5, <2>6, <2>7, <2>8
\* What is accepted has been printable.
<1>2. ASSUME Finished, Assembles PROVE Printable
  <2>1. PICK place : Placed(place)
    BY <1>2, LaidOut
  <2>2. HasRead(FirstPass(Lines), Lines, Len(Lines))
    BY <1>1, <1>2, <2>1, AssembleIs, FirstPassReads DEF Accepted
  <2>3. ASSUME NEW l \in Spots PROVE Acceptable(Labelled(Instr(l), l))
    <3>1. CASE Shown(l)
      <4>1. place[l] + 1 \in 1 .. Len(Lines) /\ Lines[place[l] + 1] = Labelled(Instr(l), l)
        BY <1>2, <2>1, <3>1, LinesOfSpots DEF IsOwn
      <4> QED  BY <2>2, <4>1 DEF HasRead
    <3>2. CASE ~Shown(l)
      <4>1. Instr(l).op = "NOP"
        BY <3>2 DEF Shown
      <4>2. "NOP" \in InstructionNames /\ "NOP" # "PSI"
        BY DEF InstructionNames
      <4> QED  BY <1>2, <4>1, <4>2, LinesAcceptable
    <3> QED  BY <3>1, <3>2
  <2> QED  BY <1>1, <1>2, <2>1, <2>3
\* And what is printable is accepted.
<1>3. ASSUME Finished, Printable, ~hide_nops PROVE Assembles
  <2>1. PICK place : Placed(place)
    BY <1>3, LaidOut
  <2> DEFINE p == FirstPass(Lines)
             n == Len(Lines)
  <2>2. \A l \in Spots : Shown(l) /\ Acceptable(Labelled(Instr(l), l))
    BY <1>1, <1>3, <2>1 DEF Shown
  <2>3. ASSUME NEW q \in 1 .. n PROVE Acceptable(Lines[q])
    BY <1>3, <2>1, <2>2, EveryLine, LinesAcceptable DEF IsOwn, IsJump
  <2>4. ASSUME NEW q \in 1 .. n, NEW r \in 1 .. n, Lines[q].label = Lines[r].label,
               Lines[q].label # << >>
        PROVE  q = r
    <3>1. q = place[Lines[q].label] + 1 /\ r = place[Lines[r].label] + 1
      BY <1>3, <2>1, <2>4, LabelsAre
    <3> QED  BY <2>4, <3>1
  <2>5. Fine(p) /\ HasRead(p, Lines, n)
    BY <1>1, <1>3, <2>1, <2>3, <2>4, FirstPassReads
  <2> HIDE DEF p
  <2>6. n \in Nat /\ \E S : p.instructions \in Seq(S)
    BY <1>1, <1>3, <2>1, <2>5 DEF HasRead
  <2>7. Len(p.instructions) = n /\ DOMAIN p.instructions = 1 .. n
    <3>1. Len(p.instructions) = n
      BY <2>5 DEF HasRead
    <3> QED  BY <2>6, <3>1, LenProperties
  \* The last line belongs to the last instruction of the last fragment.
  <2>8. EndsWell(p.instructions)
    <3> DEFINE k == Len(fragments) - 1
               l == <<k, Len(Held(k)) - 1>>
    <3>1. /\ Len(fragments) \in Nat \ {0} /\ k \in 0 .. Len(fragments) - 1
          /\ Len(Held(k)) \in Nat \ {0} /\ k + 1 = Len(fragments)
      BY <1>3, FragmentsAre
    <3>2. /\ Len(Held(k)) \in 1 .. Len(Held(k)) /\ (Len(Held(k)) - 1) + 1 = Len(Held(k))
      BY <3>1
    <3>3. l \in Spots /\ l[1] = k /\ l[2] + 1 = Len(Held(k))
      BY <1>3, <3>1, <3>2, SpotsAre
    <3> HIDE DEF l, k
    <3>4. Instr(l).op \in LastOps
      BY <1>3, <3>3, SpotsAre
    <3>5. Following(l) \notin Spots
      <4>1. ASSUME Following(l) \in Spots PROVE FALSE
        <5>1. Following(l)[1] = k /\ Following(l)[2] = Len(Held(k))
          BY <3>3 DEF Following
        <5>2. Len(Held(k)) + 1 \in 1 .. Len(Held(k))
          BY <1>3, <4>1, <5>1, SpotsAre
        <5>3. PICK m : m = Len(Held(k))
          OBVIOUS
        <5>4. m \in Nat /\ m + 1 \in 1 .. m
          BY <3>1, <5>2, <5>3
        <5> QED  BY <5>4
      <4> QED  BY <4>1
    <3>6. place[l] + Size(l) = n /\ place[l] \in Nat
      BY <2>1, <3>1, <3>3, <3>5 DEF Placed
    <3>7. CASE Instr(l).op \in {"BNG", "TSP"}
      <4>1. Instr(l).choice[1] # <<l[1] + 1, 0>>
        <5>1. Instr(l).choice[1] \in Spots
          BY <1>3, <3>3, <3>7, TargetsAreSpots
        <5>2. Instr(l).choice[1][1] \in 0 .. Len(fragments) - 1
          BY <1>3, <5>1, SpotsAre
        <5>3. <<l[1] + 1, 0>>[1] = Len(fragments)
          BY <3>1, <3>3
        <5> QED  BY <3>1, <5>2, <5>3
      <4>2. Forks(l)
        BY <3>7, <4>1 DEF Forks
      <4>3. n = place[l] + 2 /\ Lines[n].name = "JMP" /\ n \in 1 .. n
        BY <1>3, <2>1, <3>3, <3>6, <4>2, LinesAtAre, LinesOfSpots, LinesSay DEF IsJump
      <4>4. p.instructions[n].op = "JMP"
        BY <2>5, <4>3 DEF HasRead
      <4> QED  BY <2>7, <4>4 DEF EndsWell, Last
    <3>8. CASE Instr(l).op \in Exits \cup {"JMP"}
      <4>1. ~Forks(l) /\ Shown(l)
        BY <2>2, <3>3, <3>8 DEF Forks, Exits
      <4>2. n = place[l] + 1 /\ Lines[n].name = Instr(l).op /\ n \in 1 .. n
        BY <1>3, <2>1, <3>3, <3>6, <4>1, LinesAtAre, LinesOfSpots, LinesSay DEF IsOwn
      <4>3. p.instructions[n].op = Instr(l).op
        BY <2>5, <4>2 DEF HasRead
      <4> QED  BY <2>7, <3>8, <4>3 DEF EndsWell, Last, Exits
    <3> QED  BY <3>4, <3>7, <3>8 DEF LastOps
  <2>9. ~Undeclared(p)
    <3> SUFFICES ASSUME NEW q \in 1 .. n, p.instructions[q].op \in Targeted
                 PROVE  p.instructions[q].target \in DOMAIN p.labels
      BY <2>7 DEF Undeclared
    <3>1. Lines[q].name \in Targeted /\ p.instructions[q].target = Lines[q].target
      BY <2>5 DEF HasRead
    <3>2. PICK l \in Spots : IsOwn(place, q, l) \/ IsJump(place, q, l)
      BY <1>3, <2>1, EveryLine
    <3>3. Lines[q].target \in Spots
      <4>1. CASE IsOwn(place, q, l)
        <5>1. Lines[q] = Labelled(Instr(l), l) /\ Instr(l).op \in Targeted
          BY <1>3, <3>1, <4>1, LinesSay DEF IsOwn
        <5>2. CASE Instr(l).op = "JMP"
          BY <1>3, <5>1, <5>2, LinesSay, TargetsAreSpots
        <5>3. CASE Instr(l).op \in {"BNG", "TSP"}
          BY <1>3, <5>1, <5>3, LinesSay, TargetsAreSpots
        <5> QED  BY <5>1, <5>2, <5>3 DEF Targeted
      <4>2. CASE IsJump(place, q, l)
        BY <1>3, <4>2, LinesSay, TargetsAreSpots DEF IsJump, Forks
      <4> QED  BY <3>2, <4>1, <4>2
    <3>4. PICK t : t = Lines[q].target
      OBVIOUS
    <3>5. place[t] + 1 \in 1 .. n /\ Lines[place[t] + 1] = Labelled(Instr(t), t)
      BY <1>3, <2>1, <2>2, <3>3, <3>4, LinesOfSpots DEF IsOwn
    <3>6. Lines[place[t] + 1].label = t /\ t # << >>
      BY <1>3, <3>3, <3>4, <3>5, LinesSay
    <3>7. t \in DOMAIN p.labels
      BY <2>5, <3>5, <3>6 DEF HasRead
    <3> QED  BY <3>1, <3>4, <3>7
  <2> QED  BY <2>5, <2>8, <2>9, AssembleIs DEF Accepted, p
<1>4. ScanFacts /\ DisassemblyInv /\ phase = "done" => Finished
  BY DEF ScanFacts, DisassemblyInv, Finished
<1>5. Assembles <=> Assemble(Lines).error = ""
  BY Zenon DEF Assembles, Fine
<1>6. ScanFacts /\ DisassemblyInv =>
        /\ Printable => DisassemblyAssembles
        /\ phase = "done" /\ Assemble(Lines).error = "" => Printable
  BY <1>2, <1>3, <1>4, <1>5, Zenon DEF DisassemblyAssembles
<1> QED  BY <1>6, DisassemblyScans, DisassemblyInvHolds, PTL
=============================================================================
