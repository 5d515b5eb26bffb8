-------------------------- MODULE TranslationProofs --------------------------
(***************************************************************************)
(* The stack of a compiled program stays in its block of memory, the       *)
(* interpreter announces what is undefined, and the two programs agree:    *)
(* for numbers of every width, every bound on memory and every run.        *)
(***************************************************************************)
EXTENDS Translation, SequenceTheorems, FiniteSetTheorems, FunctionTheorems,
        WellFoundedInduction, TLAPS

\* A block whose cells in use have been allocated, and that can grow.
Block(S) == [cells : Seq(S), capacity : Nat, dropped : BOOLEAN]

Sound(b) == /\ \E S : b \in Block(S)
            /\ Len(b.cells) <= b.capacity /\ b.capacity \in InitialCapacity .. MaxCapacity

-----------------------------------------------------------------------------
(* The statements.                                                         *)

\* realloc is asked for more than there is: 7/4 of two cells are three.
LEMMA GrownMakesRoom ==
  ASSUME NEW capacity \in Nat, capacity >= 2
  PROVE  Grown(capacity) \in Nat /\ Grown(capacity) > capacity
BY DEF Grown

\* A stack starts with its initial capacity.
LEMMA EmptySound == Sound(EmptyBlock)
<1>1. EmptyBlock \in Block({})
  BY EmptySeq, CapacityAssumption DEF EmptyBlock, Block
<1>2. Len(EmptyBlock.cells) = 0 /\ EmptyBlock.capacity = InitialCapacity
  BY EmptySeq DEF EmptyBlock
<1>. QED BY <1>1, <1>2, CapacityAssumption DEF Sound

\* Popping, also from a stack that is too short, leaves no more than there was.
LEMMA PoppedSound ==
  ASSUME NEW b, Sound(b), NEW n \in Nat
  PROVE  Sound(Popped(b, n))
<1>1. PICK S : b \in Block(S)
  BY DEF Sound
<1>2. b.cells \in Seq(S) /\ Len(b.cells) \in Nat
  BY <1>1 DEF Block
<1>3. Below(b.cells, n) \in Seq(S) /\ Len(Below(b.cells, n)) <= Len(b.cells)
  <2>1. CASE n <= Len(b.cells)
    <3>1. 1 \in 1 .. Len(b.cells) + 1 /\ Len(b.cells) - n \in 1 - 1 .. Len(b.cells)
      BY <1>2, <2>1
    <3>2. /\ SubSeq(b.cells, 1, Len(b.cells) - n) \in Seq(S)
          /\ Len(SubSeq(b.cells, 1, Len(b.cells) - n)) = Len(b.cells) - n
      BY <1>2, <2>1, <3>1, SubSeqProperties
    <3>. QED BY <1>2, <3>2 DEF Below
  <2>2. CASE n > Len(b.cells)
    <3>1. SubSeq(b.cells, 1, Len(b.cells) - n) = << >>
      BY <1>2, <2>2
    <3>. QED BY <1>2, <3>1, EmptySeq DEF Below
  <2>. QED BY <1>2, <2>1, <2>2
<1>4. /\ Popped(b, n) \in Block(S)
      /\ Popped(b, n).cells = Below(b.cells, n) /\ Popped(b, n).capacity = b.capacity
  BY <1>1, <1>3 DEF Block, Popped
<1>5. Len(b.cells) <= b.capacity /\ InitialCapacity <= b.capacity
  BY DEF Sound
<1>6. Len(Below(b.cells, n)) \in Nat /\ b.capacity \in Nat
  BY <1>1, <1>3 DEF Block
<1>. QED BY <1>2, <1>3, <1>4, <1>5, <1>6 DEF Sound

\* lws_push writes only where there is a cell for the value, whether or not
\* realloc finds memory.
LEMMA PushedSound ==
  ASSUME NEW b, Sound(b), NEW v, NEW g \in PushedOn(b, v)
  PROVE  Sound(g)
<1>1. PICK S : b \in Block(S)
  BY DEF Sound
<1>. DEFINE T == S \cup {v}
            pushed == [b EXCEPT !.cells = Append(@, v)]
<1>2. b.cells \in Seq(T) /\ b \in Block(T) /\ Len(b.cells) \in Nat /\ b.capacity \in Nat
  BY <1>1 DEF Block
<1>3. /\ Append(b.cells, v) \in Seq(T)
      /\ Len(Append(b.cells, v)) = Len(b.cells) + 1
  BY <1>2, AppendProperties
<1>4. /\ pushed \in Block(T) /\ pushed.cells = Append(b.cells, v)
      /\ pushed.capacity = b.capacity
  BY <1>2, <1>3 DEF Block
<1>5. Len(b.cells) <= b.capacity /\ InitialCapacity <= b.capacity /\ b.capacity >= 2
  BY <1>2, CapacityAssumption DEF Sound
<1>6. CASE Len(b.cells) < b.capacity /\ g = pushed
  <2>1. Len(b.cells) + 1 <= b.capacity
    BY <1>2, <1>6
  <2>. QED BY <1>3, <1>4, <1>5, <1>6, <2>1 DEF Sound
<1>7. CASE g = [b EXCEPT !.dropped = TRUE]
  <2>1. g \in Block(T) /\ g.cells = b.cells /\ g.capacity = b.capacity
    BY <1>2, <1>7 DEF Block
  <2>. QED BY <1>5, <2>1 DEF Sound
<1>8. CASE g = [pushed EXCEPT !.capacity = Grown(@)] /\ g.capacity <= MaxCapacity
  <2>1. Grown(b.capacity) \in Nat /\ Grown(b.capacity) > b.capacity
    BY <1>2, <1>5, GrownMakesRoom
  <2>2. /\ g \in Block(T) /\ g.cells = Append(b.cells, v)
        /\ g.capacity = Grown(b.capacity)
    <3>. HIDE DEF pushed
    <3>1. g = [pushed EXCEPT !.capacity = Grown(b.capacity)]
      BY <1>4, <1>8
    <3>. QED BY <1>4, <2>1, <3>1 DEF Block
  <2>3. /\ Len(b.cells) + 1 <= Grown(b.capacity)
        /\ Grown(b.capacity) \in InitialCapacity .. MaxCapacity
    BY <1>2, <1>5, <1>8, <2>1, <2>2, CapacityAssumption
  <2>. QED BY <1>3, <2>2, <2>3 DEF Sound
<1>. QED BY <1>6, <1>7, <1>8 DEF PushedOn

\* Every statement is made of pops and pushes.
LEMMA StatementSound ==
  ASSUME NEW b, Sound(b), NEW op, NEW g \in Statement(op, b)
  PROVE  Sound(g)
<1>1. Sound(Popped(b, 1)) /\ Sound(Popped(b, 2))
  BY PoppedSound
<1>2. CASE \E v : g \in PushedOn(b, v)
  BY <1>2, PushedSound
<1>3. CASE \E n \in {1, 2} : \E v : g \in PushedOn(Popped(b, n), v)
  BY <1>1, <1>3, PushedSound
<1>4. CASE \E c \in PushSecond(b) : g \in PushSecond(c)
  BY <1>4, PushedSound DEF PushSecond
<1>5. CASE g \in SwapTop(b)
  <2>1. PICK c \in PushedOn(Popped(b, 2), Last(b.cells)) : g \in PushedOn(c, Second(b.cells))
    BY <1>5 DEF SwapTop
  <2>. QED BY <1>1, <2>1, PushedSound
<1>6. CASE g = b \/ g = Popped(b, 1)
  BY <1>1, <1>6
<1>. HIDE DEF Sound
<1>7. \/ \E v : g \in PushedOn(b, v)
      \/ \E n \in {1, 2} : \E v : g \in PushedOn(Popped(b, n), v)
      \/ \E c \in PushSecond(b) : g \in PushSecond(c)
      \/ g \in SwapTop(b)
      \/ g = b \/ g = Popped(b, 1)
  <2>1. CASE op \in Binary
    BY <2>1 DEF Statement
  <2>2. CASE op \in Unary
    BY <2>2 DEF Statement, Binary, Unary
  <2>3. CASE op \notin Binary \cup Unary
    BY <2>3 DEF Statement
  <2>. QED BY <2>1, <2>2, <2>3
<1>. QED BY <1>2, <1>3, <1>4, <1>5, <1>6, <1>7

-----------------------------------------------------------------------------
(* The steps.                                                              *)

\* And so does every step, also one that loses sight of the compiled program.
LEMMA SoundStep == Sound(block) /\ [Next]_<<machine, compiled>> => Sound(block')
<1>. SUFFICES ASSUME Sound(block), [Next]_<<machine, compiled>> PROVE Sound(block')
  OBVIOUS
<1>1. ASSUME NEW b, Sound(b), Follow(b) PROVE Sound(block')
  BY <1>1, EmptySound DEF Follow, LoseSight
<1>2. ASSUME NEW op, NEW v, PushBoth(op, v) PROVE Sound(block')
  BY <1>1, <1>2, PushedSound DEF PushBoth
<1>3. ASSUME NEW op, PerformBoth(op) PROVE Sound(block')
  BY <1>1, <1>3, StatementSound, EmptySound DEF PerformBoth, LoseSight
<1>4. CASE PartWays
  BY <1>4, EmptySound DEF PartWays, LoseSight
<1>5. CASE ExitBoth \/ Alone \/ UNCHANGED <<machine, compiled>>
  BY <1>5 DEF ExitBoth, Alone, compiled
<1>. QED BY <1>2, <1>3, <1>4, <1>5 DEF Next

\* Cells are in use only where memory has been allocated, in every compiled
\* program and wherever realloc fails (lightweight_stack.h, lws_push and lws_pop).
THEOREM StackInItsBlock == Spec => []InsideTheBlock
<1>1. Init => Sound(block)
  BY EmptySound DEF Init
<1>2. Sound(block) /\ [Next]_<<machine, compiled>> => Sound(block)'
  BY SoundStep DEF Sound
<1>3. Sound(block) => InsideTheBlock
  BY DEF Sound, InsideTheBlock
<1>. QED BY <1>1, <1>2, <1>3, PTL DEF Spec

\* With -w every step into undefined behaviour is announced, in every state, for
\* numbers of any width and every stack: of the conditions of Faulty only the shift
\* is not among those of Warns, and of FaultyJoin only the empty stack (thread.hh,
\* tick; interpreter.hh, join_threads_work).
THEOREM HarmIsAnnounced == Spec => []UndefinedIsWarned
<1>1. ASSUME NEW op \in Opcodes \ {"EXP"}, Faulty(op, stack) PROVE Warns(op, stack)
  BY <1>1 DEF Faulty, Warns
<1>2. ASSUME NEW s, FaultyJoin(s), s # << >> PROVE WarnsOfJoin(s)
  BY <1>2 DEF FaultyJoin, WarnsOfJoin
<1>3. UndefinedIsWarned
  BY <1>1, <1>2 DEF UndefinedIsWarned
<1>. QED BY <1>3, PTL

-----------------------------------------------------------------------------
(* Powers of two.                                                          *)

\* Induction, for a set of numbers.
LEMMA SetInduction ==
  ASSUME NEW B \in SUBSET Nat, 0 \in B, \A n \in B : n + 1 \in B
  PROVE  B = Nat
<1>. SUFFICES ASSUME B # Nat PROVE FALSE
  OBVIOUS
<1>. DEFINE Under(n) == 0 .. n - 1
            T == { Under(n) : n \in Nat \ B }
            R == StrictSubsetOrdering(Nat)
            F == FiniteSubsetsOf(Nat)
<1>1. T # {}
  BY Zenon
<1>2. T \subseteq F
  <2>. SUFFICES ASSUME NEW n \in Nat \ B PROVE Under(n) \in F
    OBVIOUS
  <2>1. IsFiniteSet(Under(n))
    BY FS_Interval
  <2>2. Under(n) \in SUBSET Nat
    OBVIOUS
  <2>. QED  BY <2>1, <2>2 DEF FiniteSubsetsOf
<1>3. IsWellFoundedOn(R, F)
  BY FS_StrictSubsetOrderingWellFounded
<1>. HIDE DEF R, F, T
<1>4. PICK s \in T : \A t \in T : ~ (<<t, s>> \in R)
  BY <1>1, <1>2, <1>3, WFMin
<1>5. PICK n \in Nat \ B : s = Under(n)
  BY <1>4 DEF T
<1>6. n # 0 /\ n - 1 \in Nat /\ (n - 1) + 1 = n
  BY <1>5
<1>7. n - 1 \in Nat \ B
  BY <1>5, <1>6
<1>8. Under(n - 1) \in T
  BY <1>7 DEF T
<1>9. /\ Under(n - 1) \in SUBSET Nat /\ Under(n) \in SUBSET Nat
      /\ Under(n - 1) \subseteq Under(n) /\ Under(n - 1) # Under(n)
  <2>1. n - 1 \in Under(n) /\ n - 1 \notin Under(n - 1)
    BY <1>5, <1>6
  <2>. QED  BY <1>5, <1>6, <2>1
<1>10. <<Under(n - 1), Under(n)>> \in R
  BY <1>9 DEF R, StrictSubsetOrdering
<1>. QED  BY <1>4, <1>5, <1>8, <1>10

\* Division with a remainder; the next lemma: there is only one.
LEMMA DivMod ==
  ASSUME NEW n \in Int, NEW p \in Nat \ {0}
  PROVE  /\ n \div p \in Int /\ n % p \in 0 .. p - 1
         /\ n = p * (n \div p) + (n % p)
  OBVIOUS

LEMMA DivModUnique ==
  ASSUME NEW n \in Int, NEW p \in Nat \ {0}, NEW q \in Int, NEW r \in 0 .. p - 1, n = p * q + r
  PROVE  q = n \div p /\ r = n % p
<1>. DEFINE d == n \div p
            m == n % p
<1>1. d \in Int /\ m \in 0 .. p - 1 /\ n = p * d + m
  BY DivMod
<1>. HIDE DEF d, m
<1>2. p * (q - d) = m - r
  BY <1>1
<1>. QED BY <1>1, <1>2 DEF d, m

\* The powers count subsets, and all about them follows from that.
LEMMA PowerType == \A n \in Nat : 2^n \in Nat
<1>. TAKE n \in Nat
<1>1. IsFiniteSet(1 .. n) /\ Cardinality(1 .. n) = n
  BY FS_Interval
<1>2. Cardinality(SUBSET (1 .. n)) = 2^n /\ IsFiniteSet(SUBSET (1 .. n))
  BY <1>1, FS_SUBSET
<1>. QED BY <1>2, FS_CardinalityType

LEMMA PowerCounts == \A n \in Nat : Cardinality(SUBSET (1 .. n)) = 2^n /\ IsFiniteSet(SUBSET (1 .. n))
<1>. TAKE n \in Nat
<1>1. IsFiniteSet(1 .. n) /\ Cardinality(1 .. n) = n
  BY FS_Interval
<1>. QED BY <1>1, FS_SUBSET

LEMMA PowerZero == 2^0 = 1
<1>1. SUBSET (1 .. 0) = {{}}
  OBVIOUS
<1>2. Cardinality({{}}) = 1
  BY FS_Singleton
<1>. QED BY <1>1, <1>2, PowerCounts

\* A set of numbers up to n + 1 has n + 1 or not.
LEMMA PowerNext == \A n \in Nat : 2^(n + 1) = 2 * 2^n
<1>. TAKE n \in Nat
<1>. DEFINE A == SUBSET (1 .. n)
            With(s) == s \cup {n + 1}
            B == { With(s) : s \in A }
            f == [ s \in A |-> With(s) ]
<1>1. SUBSET (1 .. n + 1) = A \cup B
  <2>1. A \cup B \subseteq SUBSET (1 .. n + 1)
    <3>1. 1 .. n \subseteq 1 .. n + 1 /\ n + 1 \in 1 .. n + 1
      OBVIOUS
    <3>. QED BY <3>1
  <2>2. ASSUME NEW s \in SUBSET (1 .. n + 1) PROVE s \in A \cup B
    <3>1. CASE n + 1 \notin s
      <4>1. \A i \in s : i \in 1 .. n
        BY <3>1
      <4>. QED BY <4>1
    <3>2. CASE n + 1 \in s
      <4>1. \A i \in s \ {n + 1} : i \in 1 .. n
        OBVIOUS
      <4>2. s \ {n + 1} \in A /\ s = With(s \ {n + 1})
        BY <3>2, <4>1
      <4>. QED BY <4>2
    <3>. QED BY <3>1, <3>2
  <2>. QED BY <2>1, <2>2
<1>2. A \cap B = {}
  <2>1. n + 1 \notin 1 .. n
    OBVIOUS
  <2>. QED BY <2>1
<1>3. f \in Bijection(A, B)
  <2>1. f \in [A -> B]
    OBVIOUS
  <2>2. \A t \in B : \E s \in A : f[s] = t
    OBVIOUS
  <2>3. ASSUME NEW s \in A, NEW t \in A, f[s] = f[t] PROVE s = t
    <3>1. n + 1 \notin s /\ n + 1 \notin t
      BY n + 1 \notin 1 .. n
    <3>2. With(s) = With(t)
      BY <2>3
    <3>3. s = With(s) \ {n + 1} /\ t = With(t) \ {n + 1}
      BY <3>1
    <3>. QED BY <3>2, <3>3
  <2>. HIDE DEF f, A, B
  <2>4. DOMAIN f = A
    BY <2>1
  <2>. QED BY <2>1, <2>2, <2>3, <2>4 DEF Bijection, Injection, Surjection, IsInjective
<1>. HIDE DEF A, B, f
<1>4. IsFiniteSet(A) /\ Cardinality(A) = 2^n
  BY PowerCounts DEF A
<1>5. IsFiniteSet(B) /\ Cardinality(B) = 2^n
  BY <1>3, <1>4, FS_Bijection DEF ExistsBijection
<1>6. Cardinality(A \cup B) = 2^n + 2^n - Cardinality(A \cap B)
  BY <1>4, <1>5, FS_Union
<1>7. Cardinality(A \cap B) = 0
  BY <1>2, FS_EmptySet
<1>8. Cardinality(SUBSET (1 .. n + 1)) = 2^(n + 1)
  <2>1. n + 1 \in Nat
    OBVIOUS
  <2>. QED BY <2>1, PowerCounts
<1>9. 2^(n + 1) = 2^n + 2^n - 0
  BY <1>1, <1>6, <1>7, <1>8
<1>. QED BY <1>9, PowerType

LEMMA PowerPositive == \A n \in Nat : 2^n \in Nat \ {0}
<1>. DEFINE B == { n \in Nat : 2^n \in Nat \ {0} }
<1>1. 0 \in B
  BY PowerZero
<1>2. \A n \in B : n + 1 \in B
  <2>. TAKE n \in B
  <2>1. 2^(n + 1) = 2 * 2^n /\ 2^n \in Nat \ {0} /\ n + 1 \in Nat
    BY PowerNext
  <2>. QED BY <2>1
<1>. HIDE DEF B
<1>3. B = Nat
  <2>1. B \in SUBSET Nat
    BY DEF B
  <2>. QED BY <1>1, <1>2, <2>1, SetInduction
<1>. QED BY <1>3 DEF B

\* 2^(n + m), by induction on m.
LEMMA PowerSum == \A n, m \in Nat : 2^(n + m) = 2^n * 2^m
<1>. TAKE n \in Nat
<1>. DEFINE B == { m \in Nat : 2^(n + m) = 2^n * 2^m }
<1>1. 0 \in B
  <2>1. 2^(n + 0) = 2^n * 1
    BY PowerPositive
  <2>. QED BY <2>1, PowerZero
<1>2. \A m \in B : m + 1 \in B
  <2>. TAKE m \in B
  <2>1. n + m \in Nat /\ m + 1 \in Nat /\ n + (m + 1) = (n + m) + 1
    OBVIOUS
  <2>2. 2^(n + (m + 1)) = 2 * 2^(n + m)
    BY <2>1, PowerNext
  <2>3. 2^(m + 1) = 2 * 2^m
    BY PowerNext
  <2>4. 2^(n + m) = 2^n * 2^m
    OBVIOUS
  <2>5. 2^n \in Nat /\ 2^m \in Nat
    BY PowerPositive
  <2>6. 2 * (2^n * 2^m) = 2^n * (2 * 2^m)
    BY <2>5
  <2>7. 2^(n + (m + 1)) = 2^n * 2^(m + 1)
    BY <2>2, <2>3, <2>4, <2>6
  <2>. QED BY <2>1, <2>7
<1>. HIDE DEF B
<1>3. B = Nat
  <2>1. B \in SUBSET Nat
    BY DEF B
  <2>. QED BY <1>1, <1>2, <2>1, SetInduction
<1>. QED BY <1>3 DEF B

-----------------------------------------------------------------------------
(* Numbers of Bits bits in an int of the host.                             *)

\* Numbers with the same remainder differ by a multiple.
LEMMA SameRemainder ==
  ASSUME NEW p \in Nat \ {0}, NEW a \in Int, NEW b \in Int
  PROVE  a % p = b % p <=> \E k \in Int : a = b + p * k
<1>1. ASSUME a % p = b % p PROVE \E k \in Int : a = b + p * k
  <2>. DEFINE k == (a \div p) - (b \div p)
  <2>1. /\ a = p * (a \div p) + (a % p) /\ a \div p \in Int
        /\ b = p * (b \div p) + (b % p) /\ b \div p \in Int
    BY DivMod
  <2>2. p * k = p * (a \div p) - p * (b \div p)
    BY <2>1
  <2>3. a = b + p * k /\ k \in Int
    <3>1. p * (a \div p) \in Int /\ p * (b \div p) \in Int
      BY <2>1
    <3>. QED BY <1>1, <2>1, <2>2, <3>1
  <2>. QED BY <2>3
<1>2. ASSUME NEW k \in Int, a = b + p * k PROVE a % p = b % p
  <2>. DEFINE q == (b \div p) + k
              r == b % p
  <2>1. b = p * (b \div p) + r /\ b \div p \in Int /\ r \in 0 .. p - 1
    BY DivMod
  <2>2. q \in Int /\ p * q = p * (b \div p) + p * k
    BY <2>1
  <2>3. a = p * q + r
    <3>1. p * (b \div p) \in Int /\ p * k \in Int
      BY <2>1
    <3>. QED BY <1>2, <2>1, <2>2, <3>1
  <2>. HIDE DEF q, r
  <2>4. r = a % p
    BY <2>1, <2>2, <2>3, DivModUnique
  <2>. QED BY <2>4 DEF r
<1>. QED BY <1>1, <1>2

\* The powers that the widths bring in.
LEMMA Widths ==
  /\ Bits \in Nat /\ HostBits \in Nat /\ Spare \in Nat /\ Bits - 1 \in Nat /\ HostBits - 1 \in Nat
  /\ 2^Bits = 2 * 2^(Bits - 1)
  /\ 2^HostBits = 2 * 2^(HostBits - 1)
  /\ 2^HostBits = 2^Bits * 2^Spare
  /\ 2^(HostBits - 1) = 2^(Bits - 1) * 2^Spare
  /\ 2^(Bits - 1) \in Nat \ {0} /\ 2^Spare \in Nat \ {0} /\ 2^Bits \in Nat \ {0}
  /\ 2^HostBits \in Nat \ {0} /\ 2^(HostBits - 1) \in Nat \ {0}
<1>1. /\ Bits \in Nat /\ HostBits \in Nat /\ Spare \in Nat /\ Bits - 1 \in Nat /\ HostBits - 1 \in Nat
      /\ (Bits - 1) + 1 = Bits /\ (HostBits - 1) + 1 = HostBits
      /\ Bits + Spare = HostBits /\ (Bits - 1) + Spare = HostBits - 1
  BY WidthsAssumption DEF Spare
<1>2. 2^((Bits - 1) + 1) = 2 * 2^(Bits - 1) /\ 2^((HostBits - 1) + 1) = 2 * 2^(HostBits - 1)
  BY <1>1, PowerNext
<1>3. 2^(Bits + Spare) = 2^Bits * 2^Spare /\ 2^((Bits - 1) + Spare) = 2^(Bits - 1) * 2^Spare
  BY <1>1, PowerSum
<1>4. /\ 2^(Bits - 1) \in Nat \ {0} /\ 2^Spare \in Nat \ {0} /\ 2^Bits \in Nat \ {0}
      /\ 2^HostBits \in Nat \ {0} /\ 2^(HostBits - 1) \in Nat \ {0}
  BY <1>1, PowerPositive
<1>. QED BY <1>1, <1>2, <1>3, <1>4

\* Signed(n, w) is n up to a multiple of 2^w, and in range.
LEMMA SignedFits ==
  ASSUME NEW w \in Nat \ {0}, NEW n \in Int
  PROVE  /\ Signed(n, w) \in -(2^(w - 1)) .. 2^(w - 1) - 1
         /\ \E k \in Int : Signed(n, w) = n + 2^w * k
<1>1. PICK h \in Nat \ {0} : h = 2^(w - 1)
  <2>1. w - 1 \in Nat
    OBVIOUS
  <2>. QED BY <2>1, PowerPositive
<1>2. 2^w = 2 * h
  <2>1. w - 1 \in Nat /\ (w - 1) + 1 = w
    OBVIOUS
  <2>. QED BY <1>1, <2>1, PowerNext
<1>3. PICK p \in Nat \ {0} : p = 2 * h
  OBVIOUS
<1>4. PICK q \in Int, r \in 0 .. p - 1 : n + h = p * q + r /\ r = (n + h) % p
  <2>1. n + h \in Int
    BY <1>1
  <2>. QED BY <2>1, DivMod
<1>5. Signed(n, w) = r - h
  BY <1>1, <1>2, <1>3, <1>4 DEF Signed
<1>6. r - h \in -h .. h - 1
  BY <1>3, <1>4
<1>7. r - h = n + p * (- q)
  <2>1. PICK z \in Int : z = p * q
    OBVIOUS
  <2>2. p * (- q) = - z
    BY <2>1
  <2>3. n + h = z + r
    BY <1>4, <2>1
  <2>4. r - h = n + (- z)
    BY <2>3
  <2>. QED BY <2>2, <2>4
<1>8. - q \in Int
  OBVIOUS
<1>. QED BY <1>1, <1>2, <1>3, <1>5, <1>6, <1>7, <1>8

\* The same for the width of the language.
LEMMA SameUnsigned ==
  ASSUME NEW a \in Int, NEW b \in Int
  PROVE  Unsigned(a) = Unsigned(b) <=> \E k \in Int : a = b + 2^Bits * k
<1>1. 2^Bits \in Nat \ {0}
  BY Widths
<1>2. \A p \in Nat \ {0} : a % p = b % p <=> \E k \in Int : a = b + p * k
  BY SameRemainder
<1>. QED BY <1>1, <1>2, Zenon DEF Unsigned

\* An int of the host holds every number of the language.
LEMMA IntsHold == Int24s \subseteq Ints /\ Ints \subseteq Int /\ Int24s \subseteq Int
<1>1. PICK m \in Nat \ {0}, s \in Nat \ {0} : m = 2^(Bits - 1) /\ s = 2^Spare
  BY Widths
<1>2. 2^(HostBits - 1) = m * s
  BY <1>1, Widths
<1>3. m * s >= m /\ m * s \in Nat
  OBVIOUS
<1>4. Int24s = -m .. m - 1 /\ Ints = -(m * s) .. (m * s) - 1
  BY <1>1, <1>2 DEF Int24s, Ints, INT24_MIN, INT24_MAX
<1>. QED BY <1>3, <1>4

\* Storing a number in the bit-field keeps its bits.
LEMMA WrapFits ==
  ASSUME NEW n \in Int
  PROVE  Wrap(n) \in Int24s /\ Unsigned(Wrap(n)) = Unsigned(n)
<1>1. Bits \in Nat \ {0}
  BY WidthsAssumption
<1>2. Wrap(n) \in Int24s
  <2>1. -(2^(Bits - 1)) .. 2^(Bits - 1) - 1 = Int24s
    BY DEF Int24s, INT24_MIN, INT24_MAX
  <2>. QED BY <1>1, <2>1, SignedFits DEF Wrap
<1>3. \E k \in Int : Wrap(n) = n + 2^Bits * k
  BY <1>1, SignedFits DEF Wrap
<1>4. Wrap(n) \in Int
  BY <1>2, IntsHold
<1>. QED BY <1>2, <1>3, <1>4, SameUnsigned

\* Numbers of 24 bits are told apart by them.
LEMMA NarrowEqual ==
  ASSUME NEW x \in Int24s, NEW y \in Int24s, Unsigned(x) = Unsigned(y)
  PROVE  x = y
<1>1. PICK m \in Nat \ {0} : m = 2^(Bits - 1)
  BY Widths
<1>2. x \in -m .. m - 1 /\ y \in -m .. m - 1 /\ 2^Bits = 2 * m
  BY <1>1, Widths DEF Int24s, INT24_MIN, INT24_MAX
<1>3. x \in Int /\ y \in Int
  BY <1>2
<1>4. \E k \in Int : x = y + 2^Bits * k
  BY <1>3, SameUnsigned
<1>5. PICK k \in Int : x = y + (2 * m) * k
  BY <1>2, <1>4
<1>. DEFINE d == (2 * m) * k
<1>6. CASE k >= 1
  <2>1. d >= 2 * m /\ d \in Int
    BY <1>6
  <2>. QED BY <1>2, <1>5, <2>1
<1>7. CASE k <= -1
  <2>1. d <= -(2 * m) /\ d \in Int
    BY <1>7
  <2>. QED BY <1>2, <1>5, <2>1
<1>8. CASE k = 0
  <2>1. d = 0
    BY <1>8
  <2>. QED BY <1>2, <1>5, <2>1
<1>. QED BY <1>6, <1>7, <1>8

\* Of a number that fits the bits, unsigned, nothing is lost.
LEMMA UnsignedOfNat ==
  ASSUME NEW x \in Int24s, x >= 0
  PROVE  Unsigned(x) = x
<1>1. PICK m \in Nat \ {0} : m = 2^(Bits - 1)
  BY Widths
<1>2. x \in -m .. m - 1 /\ 2^Bits = 2 * m
  BY <1>1, Widths DEF Int24s, INT24_MIN, INT24_MAX
<1>3. x \in 0 .. 2 * m - 1
  BY <1>2
<1>. QED BY <1>2, <1>3 DEF Unsigned

LEMMA UnsignedType ==
  ASSUME NEW n \in Int
  PROVE  Unsigned(n) \in Nat /\ Unsigned(n) < 2^Bits
BY Widths, DivMod DEF Unsigned

\* Addition, subtraction and multiplication do not look beyond the bits.
LEMMA RingOperations ==
  ASSUME NEW a \in Int, NEW b \in Int, NEW c \in Int, NEW d \in Int,
         Unsigned(a) = Unsigned(c), Unsigned(b) = Unsigned(d)
  PROVE  /\ Unsigned(a + b) = Unsigned(c + d)
         /\ Unsigned(a - b) = Unsigned(c - d)
         /\ Unsigned(a * b) = Unsigned(c * d)
<1>1. PICK n \in Nat \ {0} : n = 2^Bits
  BY Widths
<1>3. PICK k \in Int : a = c + n * k
  BY <1>1, SameUnsigned
<1>4. PICK l \in Int : b = d + n * l
  BY <1>1, SameUnsigned
<1>5. /\ a + b = (c + d) + n * (k + l) /\ a - b = (c - d) + n * (k - l)
      /\ k + l \in Int /\ k - l \in Int
  BY <1>3, <1>4
<1>6. a * b = c * d + n * (k * d + c * l + n * k * l) /\ k * d + c * l + n * k * l \in Int
  BY <1>3, <1>4
<1>7. /\ a + b \in Int /\ c + d \in Int /\ a - b \in Int /\ c - d \in Int
      /\ a * b \in Int /\ c * d \in Int
  OBVIOUS
<1>8. Unsigned(a + b) = Unsigned(c + d)
  <2>. DEFINE x == a + b
              y == c + d
              z == k + l
  <2>1. x \in Int /\ y \in Int /\ z \in Int /\ x = y + n * z
    BY <1>5, <1>6, <1>7
  <2>. HIDE DEF x, y, z
  <2>2. \E e \in Int : x = y + 2^Bits * e
    BY <1>1, <2>1
  <2>3. Unsigned(x) = Unsigned(y)
    BY <2>1, <2>2, SameUnsigned
  <2>. QED BY <2>3 DEF x, y
<1>9. Unsigned(a - b) = Unsigned(c - d)
  <2>. DEFINE x == a - b
              y == c - d
              z == k - l
  <2>1. x \in Int /\ y \in Int /\ z \in Int /\ x = y + n * z
    BY <1>5, <1>6, <1>7
  <2>. HIDE DEF x, y, z
  <2>2. \E e \in Int : x = y + 2^Bits * e
    BY <1>1, <2>1
  <2>3. Unsigned(x) = Unsigned(y)
    BY <2>1, <2>2, SameUnsigned
  <2>. QED BY <2>3 DEF x, y
<1>10. Unsigned(a * b) = Unsigned(c * d)
  <2>. DEFINE x == a * b
              y == c * d
              z == k * d + c * l + n * k * l
  <2>1. x \in Int /\ y \in Int /\ z \in Int /\ x = y + n * z
    BY <1>5, <1>6, <1>7
  <2>. HIDE DEF x, y, z
  <2>2. \E e \in Int : x = y + 2^Bits * e
    BY <1>1, <2>1
  <2>3. Unsigned(x) = Unsigned(y)
    BY <2>1, <2>2, SameUnsigned
  <2>. QED BY <2>3 DEF x, y
<1>. QED BY <1>8, <1>9, <1>10

\* << 8 >> 8 makes an int a number of 24 bits, with the same bits.
LEMMA ShiftedFits ==
  ASSUME NEW n \in Int
  PROVE  Shifted(n) \in Int24s /\ Unsigned(Shifted(n)) = Unsigned(n)
<1>1. PICK m \in Nat \ {0}, s \in Nat \ {0} : m = 2^(Bits - 1) /\ s = 2^Spare
  BY Widths
<1>2. 2^Bits = 2 * m /\ 2^HostBits = (2 * m) * s /\ 2^(HostBits - 1) = m * s
  BY <1>1, Widths
<1>3. HostBits \in Nat \ {0}
  BY WidthsAssumption
<1>4. PICK x \in Int : x = Signed(n * s, HostBits)
  <2>1. n * s \in Int
    OBVIOUS
  <2>2. Signed(n * s, HostBits) \in -(2^(HostBits - 1)) .. 2^(HostBits - 1) - 1
    BY <1>3, <2>1, SignedFits
  <2>. QED BY <1>2, <2>2
<1>5. PICK k \in Int : x = n * s + ((2 * m) * s) * k
  <2>1. n * s \in Int
    OBVIOUS
  <2>2. \E k \in Int : Signed(n * s, HostBits) = n * s + 2^HostBits * k
    BY <1>3, <2>1, SignedFits
  <2>. QED BY <1>2, <1>4, <2>2
<1>6. PICK q \in Int : q = n + (2 * m) * k
  OBVIOUS
<1>7. x = s * q
  BY <1>5, <1>6
<1>8. q = x \div s
  <2>1. x = s * q + 0 /\ 0 \in 0 .. s - 1
    BY <1>7
  <2>. QED BY <2>1, DivModUnique
<1>9. Shifted(n) = q
  BY <1>1, <1>4, <1>8 DEF Shifted
<1>10. q \in -m .. m - 1
  <2>1. x \in -(m * s) .. (m * s) - 1
    <3>1. n * s \in Int
      OBVIOUS
    <3>. QED BY <1>2, <1>3, <1>4, <3>1, SignedFits
  <2>2. m * s \in Int /\ -(m * s) <= s * q /\ s * q < m * s
    BY <1>7, <2>1
  <2>3. ASSUME q < -m PROVE FALSE
    <3>1. s * q < s * (-m) /\ s * (-m) = -(m * s)
      BY <2>3
    <3>. QED BY <2>2, <3>1
  <2>4. ASSUME q >= m PROVE FALSE
    <3>1. s * q >= s * m /\ s * m = m * s
      BY <2>4
    <3>. QED BY <2>2, <3>1
  <2>. QED BY <2>3, <2>4
<1>11. Int24s = -m .. m - 1
  BY <1>1 DEF Int24s, INT24_MIN, INT24_MAX
<1>12. Unsigned(q) = Unsigned(n)
  BY <1>2, <1>6, SameUnsigned
<1>. QED BY <1>9, <1>10, <1>11, <1>12

\* 1 << 8 + a: the power is shifted up with its argument.
LEMMA PowerShifted ==
  ASSUME NEW a \in Nat
  PROVE  2^a \in Int /\ Signed(2^(a + Spare), HostBits) \div 2^Spare = Shifted(2^a)
<1>1. 2^a \in Int /\ 2^(a + Spare) = 2^a * 2^Spare
  BY Widths, PowerSum, PowerPositive
<1>. QED BY <1>1 DEF Shifted

-----------------------------------------------------------------------------
(* Bits.                                                                   *)

\* A bit is 0 or 1.
LEMMA BitType ==
  ASSUME NEW n \in Int, NEW i \in Nat
  PROVE  Bit(n, i) \in {0, 1} /\ n \div 2^i \in Int
<1>1. 2^i \in Nat \ {0}
  BY PowerPositive
<1>2. n \div 2^i \in Int
  BY <1>1, DivMod
<1>3. (n \div 2^i) % 2 \in 0 .. 1
  BY <1>2
<1>. QED BY <1>2, <1>3 DEF Bit

\* One bit more.
LEMMA LowBits ==
  ASSUME NEW n \in Int, NEW i \in Nat
  PROVE  n % 2^(i + 1) = (n % 2^i) + 2^i * Bit(n, i)
<1>1. PICK p \in Nat \ {0} : p = 2^i
  BY PowerPositive
<1>2. PICK d \in Int, r \in 0 .. p - 1 : n = p * d + r /\ d = n \div p /\ r = n % p
  BY DivMod
<1>3. PICK e \in Int, b \in {0, 1} : d = 2 * e + b /\ b = d % 2
  <2>1. d \div 2 \in Int /\ d % 2 \in {0, 1} /\ d = 2 * (d \div 2) + (d % 2)
    OBVIOUS
  <2>. QED BY <2>1
<1>4. Bit(n, i) = b
  BY <1>1, <1>2, <1>3 DEF Bit
<1>5. PICK t \in Nat \ {0} : t = 2 * p
  OBVIOUS
<1>6. p * b + r \in 0 .. t - 1
  <2>1. p * b \in {0, p}
    OBVIOUS
  <2>. QED BY <1>5, <2>1
<1>7. n = t * e + (p * b + r)
  <2>1. p * d = t * e + p * b /\ t * e \in Int /\ p * b \in Int
    BY <1>3, <1>5
  <2>. QED BY <1>2, <2>1
<1>8. n % t = p * b + r
  <2>. DEFINE w == p * b + r
  <2>1. n = t * e + w /\ w \in 0 .. t - 1
    BY <1>6, <1>7
  <2>. HIDE DEF w
  <2>2. w = n % t
    BY <2>1, DivModUnique
  <2>. QED BY <2>2 DEF w
<1>9. 2^(i + 1) = t
  BY <1>1, <1>5, PowerNext
<1>. QED BY <1>1, <1>2, <1>4, <1>8, <1>9

\* Two numbers agree in their lowest k bits just if they agree modulo 2^k.
LEMMA LowBitsDecide ==
  \A k \in Nat : \A a, b \in Int :
    a % 2^k = b % 2^k <=> \A i \in 0 .. k - 1 : Bit(a, i) = Bit(b, i)
<1>. DEFINE Decided(k, a, b) ==
      a % 2^k = b % 2^k <=> \A i \in 0 .. k - 1 : Bit(a, i) = Bit(b, i)
            B == { k \in Nat : \A a, b \in Int : Decided(k, a, b) }
<1>1. 0 \in B
  <2>. SUFFICES ASSUME NEW a \in Int, NEW b \in Int PROVE Decided(0, a, b)
    OBVIOUS
  <2>1. a % 1 = 0 /\ b % 1 = 0
    OBVIOUS
  <2>2. 0 .. 0 - 1 = {}
    OBVIOUS
  <2>. QED BY <2>1, <2>2, PowerZero
<1>2. \A k \in B : k + 1 \in B
  <2>. TAKE k \in B
  <2>. SUFFICES ASSUME NEW a \in Int, NEW b \in Int PROVE Decided(k + 1, a, b)
    OBVIOUS
  <2>1. k \in Nat /\ Decided(k, a, b)
    OBVIOUS
  <2>2. PICK p \in Nat \ {0} : p = 2^k
    BY <2>1, PowerPositive
  <2>3. PICK x \in {0, 1}, y \in {0, 1} : x = Bit(a, k) /\ y = Bit(b, k)
    BY <2>1, BitType
  <2>4. PICK r \in 0 .. p - 1, s \in 0 .. p - 1 : r = a % p /\ s = b % p
    BY DivMod
  <2>5. a % 2^(k + 1) = r + p * x /\ b % 2^(k + 1) = s + p * y
    BY <2>1, <2>2, <2>3, <2>4, LowBits
  <2>6. p * x = (IF x = 1 THEN p ELSE 0) /\ p * y = (IF y = 1 THEN p ELSE 0)
    OBVIOUS
  <2>7. r + p * x = s + p * y <=> r = s /\ x = y
    BY <2>6
  <2>8. r = s <=> \A i \in 0 .. k - 1 : Bit(a, i) = Bit(b, i)
    BY <2>1, <2>2, <2>4
  <2>9. 0 .. (k + 1) - 1 = (0 .. k - 1) \cup {k}
    <3>. HIDE DEF B
    <3>. QED BY <2>1
  <2>10. (\A i \in 0 .. (k + 1) - 1 : Bit(a, i) = Bit(b, i))
           <=> (\A i \in 0 .. k - 1 : Bit(a, i) = Bit(b, i)) /\ x = y
    BY <2>3, <2>9, Zenon
  <2>. QED BY <2>5, <2>7, <2>8, <2>10
<1>. HIDE DEF B
<1>3. B = Nat
  <2>1. B \in SUBSET Nat
    BY DEF B
  <2>. QED BY <1>1, <1>2, <2>1, SetInduction
<1>. QED BY <1>3 DEF B

\* For all bits there is a number that has them.
LEMMA BitsExist ==
  ASSUME NEW f \in [Nat -> {0, 1}]
  PROVE  \A k \in Nat : \E n \in Int : \A i \in 0 .. k - 1 : Bit(n, i) = f[i]
<1>. DEFINE B == { k \in Nat : \E n \in Int : \A i \in 0 .. k - 1 : Bit(n, i) = f[i] }
<1>1. 0 \in B
  <2>1. 0 \in Int /\ 0 .. 0 - 1 = {}
    OBVIOUS
  <2>. QED BY <2>1
<1>2. \A k \in B : k + 1 \in B
  <2>. TAKE k \in B
  <2>1. k \in Nat
    OBVIOUS
  <2>2. PICK m \in Int : \A i \in 0 .. k - 1 : Bit(m, i) = f[i]
    OBVIOUS
  <2>3. PICK p \in Nat \ {0} : p = 2^k
    BY <2>1, PowerPositive
  <2>4. PICK r \in 0 .. p - 1 : r = m % p
    BY DivMod
  <2>5. PICK n \in Int : n = p * f[k] + r
    BY <2>1
  <2>6. n \div p = f[k] /\ n % p = r
    <3>1. f[k] \in Int
      BY <2>1
    <3>2. f[k] = n \div p /\ r = n % p
      BY <2>4, <2>5, <3>1, DivModUnique
    <3>. QED BY <3>2
  <2>7. Bit(n, k) = f[k]
    <3>1. f[k] % 2 = f[k]
      <4>1. f[k] \in {0, 1}
        BY <2>1
      <4>. QED BY <4>1
    <3>. QED BY <2>3, <2>6, <3>1 DEF Bit
  <2>8. \A i \in 0 .. k - 1 : Bit(n, i) = Bit(m, i)
    <3>1. n % 2^k = m % 2^k
      BY <2>3, <2>4, <2>6
    <3>. QED BY <2>1, <3>1, LowBitsDecide
  <2>9. \A i \in 0 .. (k + 1) - 1 : Bit(n, i) = f[i]
    <3>1. 0 .. (k + 1) - 1 = (0 .. k - 1) \cup {k}
      BY <2>1
    <3>. QED BY <2>2, <2>7, <2>8, <3>1
  <2>. QED BY <2>1, <2>9
<1>. HIDE DEF B
<1>3. B = Nat
  <2>1. B \in SUBSET Nat
    BY DEF B
  <2>. QED BY <1>1, <1>2, <2>1, SetInduction
<1>. QED BY <1>3 DEF B

\* For all bits of an int there is an int, which is what FromBits chooses.
LEMMA FromBitsFits ==
  ASSUME NEW f \in [BitPlaces -> {0, 1}]
  PROVE  FromBits(f) \in Ints /\ \A i \in BitPlaces : Bit(FromBits(f), i) = f[i]
<1>. DEFINE g == [i \in Nat |-> IF i \in BitPlaces THEN f[i] ELSE 0]
<1>1. g \in [Nat -> {0, 1}] /\ \A i \in BitPlaces : g[i] = f[i]
  BY DEF BitPlaces
<1>. HIDE DEF g
<1>2. PICK n \in Int : \A i \in 0 .. HostBits - 1 : Bit(n, i) = g[i]
  BY <1>1, Widths, BitsExist
<1>3. HostBits \in Nat \ {0}
  BY WidthsAssumption
<1>4. PICK x \in Ints : x = Signed(n, HostBits)
  BY <1>3, SignedFits DEF Ints
<1>5. x % 2^HostBits = n % 2^HostBits
  <2>1. \E k \in Int : x = n + 2^HostBits * k
    BY <1>3, <1>4, SignedFits
  <2>2. x \in Int /\ 2^HostBits \in Nat \ {0}
    BY IntsHold, Widths
  <2>. QED BY <2>1, <2>2, SameRemainder
<1>6. \A i \in BitPlaces : Bit(x, i) = Bit(n, i)
  <2>1. x \in Int
    BY IntsHold
  <2>. QED BY <1>3, <1>5, <2>1, LowBitsDecide DEF BitPlaces
<1>7. \A i \in BitPlaces : Bit(x, i) = f[i]
  BY <1>1, <1>2, <1>6 DEF BitPlaces
<1>8. \E y \in Ints : \A i \in BitPlaces : Bit(y, i) = f[i]
  BY <1>7
<1>. QED BY <1>8 DEF FromBits

\* Two numbers are the same for the language just if their low bits are.
LEMMA SameBits ==
  ASSUME NEW a \in Int, NEW b \in Int
  PROVE  Unsigned(a) = Unsigned(b) <=> \A i \in 0 .. Bits - 1 : Bit(a, i) = Bit(b, i)
BY Widths, LowBitsDecide DEF Unsigned

\* AND, IOR and XOR give ints, and of the low bits only the low bits.
LEMMA BitwiseFits ==
  ASSUME NEW a \in Int, NEW b \in Int
  PROVE  /\ BitAnd(a, b) \in Ints /\ BitOr(a, b) \in Ints /\ BitXor(a, b) \in Ints
         /\ \A i \in BitPlaces :
              /\ Bit(BitAnd(a, b), i) = Bit(a, i) * Bit(b, i)
              /\ Bit(BitOr(a, b), i) = IF Bit(a, i) = 1 THEN 1 ELSE Bit(b, i)
              /\ Bit(BitXor(a, b), i) = (Bit(a, i) + Bit(b, i)) % 2
<1>1. \A i \in BitPlaces : Bit(a, i) \in {0, 1} /\ Bit(b, i) \in {0, 1}
  BY BitType DEF BitPlaces
<1>. DEFINE f == [i \in BitPlaces |-> Bit(a, i) * Bit(b, i)]
            g == [i \in BitPlaces |-> IF Bit(a, i) = 1 THEN 1 ELSE Bit(b, i)]
            h == [i \in BitPlaces |-> (Bit(a, i) + Bit(b, i)) % 2]
<1>2. f \in [BitPlaces -> {0, 1}] /\ g \in [BitPlaces -> {0, 1}] /\ h \in [BitPlaces -> {0, 1}]
  BY <1>1
<1>3. BitAnd(a, b) = FromBits(f) /\ BitOr(a, b) = FromBits(g) /\ BitXor(a, b) = FromBits(h)
  BY DEF BitAnd, BitOr, BitXor
<1>4. \A i \in BitPlaces : /\ f[i] = Bit(a, i) * Bit(b, i)
                           /\ g[i] = IF Bit(a, i) = 1 THEN 1 ELSE Bit(b, i)
                           /\ h[i] = (Bit(a, i) + Bit(b, i)) % 2
  OBVIOUS
<1>. HIDE DEF f, g, h
<1>. QED BY <1>2, <1>3, <1>4, FromBitsFits

\* AND, IOR and XOR do not look beyond the bits either.
LEMMA BitwiseOperations ==
  ASSUME NEW a \in Int, NEW b \in Int, NEW c \in Int, NEW d \in Int,
         Unsigned(a) = Unsigned(c), Unsigned(b) = Unsigned(d)
  PROVE  /\ Unsigned(BitAnd(a, b)) = Unsigned(BitAnd(c, d))
         /\ Unsigned(BitOr(a, b)) = Unsigned(BitOr(c, d))
         /\ Unsigned(BitXor(a, b)) = Unsigned(BitXor(c, d))
<1>1. \A i \in 0 .. Bits - 1 : Bit(a, i) = Bit(c, i) /\ Bit(b, i) = Bit(d, i)
  BY SameBits
<1>2. 0 .. Bits - 1 \subseteq BitPlaces
  BY WidthsAssumption DEF BitPlaces
<1>3. /\ BitAnd(a, b) \in Int /\ BitOr(a, b) \in Int /\ BitXor(a, b) \in Int
      /\ BitAnd(c, d) \in Int /\ BitOr(c, d) \in Int /\ BitXor(c, d) \in Int
  BY BitwiseFits, IntsHold
<1>4. \A i \in 0 .. Bits - 1 : /\ Bit(BitAnd(a, b), i) = Bit(BitAnd(c, d), i)
                               /\ Bit(BitOr(a, b), i) = Bit(BitOr(c, d), i)
                               /\ Bit(BitXor(a, b), i) = Bit(BitXor(c, d), i)
  <2>. TAKE i \in 0 .. Bits - 1
  <2>1. i \in BitPlaces /\ Bit(a, i) = Bit(c, i) /\ Bit(b, i) = Bit(d, i)
    BY <1>1, <1>2
  <2>2. /\ Bit(BitAnd(a, b), i) = Bit(a, i) * Bit(b, i)
        /\ Bit(BitOr(a, b), i) = IF Bit(a, i) = 1 THEN 1 ELSE Bit(b, i)
        /\ Bit(BitXor(a, b), i) = (Bit(a, i) + Bit(b, i)) % 2
    BY <2>1, BitwiseFits
  <2>3. /\ Bit(BitAnd(c, d), i) = Bit(c, i) * Bit(d, i)
        /\ Bit(BitOr(c, d), i) = IF Bit(c, i) = 1 THEN 1 ELSE Bit(d, i)
        /\ Bit(BitXor(c, d), i) = (Bit(c, i) + Bit(d, i)) % 2
    BY <2>1, BitwiseFits
  <2>. QED BY <2>1, <2>2, <2>3, Zenon
<1>. QED BY <1>3, <1>4, SameBits

-----------------------------------------------------------------------------
(* The interpreter's stack.                                                *)

\* The results of the opcodes before they are stored.
LEMMA QuotientType ==
  ASSUME NEW a \in Int, NEW b \in Int, b # 0
  PROVE  Quotient(a, b) \in Int /\ Remainder(a, b) \in Int
<1>1. PICK m \in Nat, n \in Nat \ {0} : m = Magnitude(a) /\ n = Magnitude(b)
  BY DEF Magnitude
<1>2. m \div n \in Int
  OBVIOUS
<1>3. PICK q \in Int : q = Quotient(a, b)
  BY <1>1, <1>2 DEF Quotient
<1>4. b * q \in Int
  OBVIOUS
<1>. QED BY <1>3, <1>4 DEF Remainder

LEMMA ExactType ==
  ASSUME NEW op \in Binary, NEW a \in Int24s, NEW b \in Int24s,
         op \in {"DIV", "UDV", "MOD"} => b # 0
  PROVE  Exact(op, a, b) \in Int
<1>1. a \in Int /\ b \in Int
  BY IntsHold
<1>2. CASE op \in {"ADD", "SUB", "MUL"}
  <2>1. a + b \in Int /\ a - b \in Int /\ a * b \in Int
    BY <1>1
  <2>. QED BY <1>2, <2>1 DEF Exact
<1>3. CASE op \in {"DIV", "MOD"}
  BY <1>1, <1>3, QuotientType DEF Exact
<1>4. CASE op = "UDV"
  <2>1. Unsigned(b) # 0
    <3>1. b # 0
      BY <1>4
    <3>2. 0 \in Int24s /\ Unsigned(0) = 0
      <4>1. 0 \in Int24s
        BY Widths DEF Int24s, INT24_MIN, INT24_MAX
      <4>. QED BY <4>1, UnsignedOfNat
    <3>. QED BY <3>1, <3>2, NarrowEqual
  <2>2. Unsigned(a) \in Nat /\ Unsigned(b) \in Nat
    BY <1>1, UnsignedType
  <2>3. Unsigned(a) \div Unsigned(b) \in Int
    BY <2>1, <2>2
  <2>. QED BY <1>4, <2>3 DEF Exact
<1>5. CASE op \in {"AND", "IOR", "XOR"}
  <2>1. BitAnd(a, b) \in Int /\ BitOr(a, b) \in Int /\ BitXor(a, b) \in Int
    BY <1>1, BitwiseFits, IntsHold
  <2>. QED BY <1>5, <2>1 DEF Exact
<1>. QED BY <1>2, <1>3, <1>4, <1>5 DEF Binary

LEMMA ExactUnaryType ==
  ASSUME NEW op \in Unary, NEW a \in Int24s, op = "EXP" => a \in Nat
  PROVE  ExactUnary(op, a) \in Int
<1>1. a \in Int
  BY IntsHold
<1>2. CASE op \in {"INC", "DEC", "NOT"}
  BY <1>1, <1>2 DEF ExactUnary, BitNot
<1>3. CASE op = "EXP"
  <2>1. 2^a \in Int
    BY <1>3, PowerPositive
  <2>. QED BY <1>3, <2>1 DEF ExactUnary
<1>. QED BY <1>2, <1>3 DEF Unary

\* What is below the top values of a stack.
LEMMA BelowFacts ==
  ASSUME NEW S, NEW s \in Seq(S), NEW n \in Nat, n <= Len(s)
  PROVE  /\ Below(s, n) \in Seq(S) /\ Len(Below(s, n)) = Len(s) - n
         /\ \A k \in 1 .. Len(s) - n : Below(s, n)[k] = s[k]
<1>1. PICK m \in Nat : m = Len(s) - n /\ m <= Len(s)
  <2>1. Len(s) \in Nat
    BY LenProperties
  <2>2. Len(s) - n \in Nat /\ Len(s) - n <= Len(s)
    BY <2>1
  <2>. QED BY <2>2
<1>2. 1 \in 1 .. Len(s) + 1 /\ m \in 1 - 1 .. Len(s)
  BY <1>1, LenProperties
<1>3. /\ SubSeq(s, 1, m) \in Seq(S)
      /\ Len(SubSeq(s, 1, m)) = IF 1 <= m THEN m - 1 + 1 ELSE 0
      /\ \A i \in 1 .. m - 1 + 1 : SubSeq(s, 1, m)[i] = s[1 + i - 1]
  BY <1>1, <1>2, SubSeqProperties
<1>4. Len(SubSeq(s, 1, m)) = m
  BY <1>1, <1>3
<1>5. \A k \in 1 .. m : SubSeq(s, 1, m)[k] = s[k]
  <2>. TAKE k \in 1 .. m
  <2>1. k \in 1 .. m - 1 + 1 /\ 1 + k - 1 = k
    BY <1>1
  <2>. QED BY <1>3, <2>1
<1>. QED BY <1>1, <1>3, <1>4, <1>5 DEF Below

\* A stack with one more value, and the values on top.
LEMMA AppendFacts ==
  ASSUME NEW S, NEW s \in Seq(S), NEW x \in S
  PROVE  /\ Append(s, x) \in Seq(S) /\ Len(Append(s, x)) = Len(s) + 1 /\ Len(s) \in Nat
         /\ \A k \in 1 .. Len(s) : Append(s, x)[k] = s[k]
         /\ Append(s, x)[Len(s) + 1] = x
BY AppendProperties, LenProperties

LEMMA TopFacts ==
  ASSUME NEW S, NEW s \in Seq(S)
  PROVE  /\ Len(s) \in Nat
         /\ \A k \in 1 .. Len(s) : s[k] \in S
         /\ Len(s) >= 1 => Last(s) \in S
         /\ Len(s) >= 2 => Second(s) \in S
BY LenProperties, ElementOfSeq DEF Last, Second

\* The interpreter's stack is one of 24-bit numbers.
LEMMA AfterType ==
  ASSUME NEW s \in Seq(Int24s), NEW op \in Opcodes, ~Faulty(op, s)
  PROVE  After(op, s) \in Seq(Int24s)
<1>1. Len(s) >= Needs(op) /\ Len(s) \in Nat
  <2>1. ~(Len(s) < Needs(op))
    BY DEF Faulty
  <2>. QED BY <2>1, TopFacts DEF Needs
<1>2. /\ ~(op \in {"DIV", "UDV", "MOD"} /\ Last(s) = 0)
      /\ ~(op = "EXP" /\ Last(s) \notin 0 .. HostBits - 1)
      /\ ~(op = "IDX" /\ IndexOf(s) >= Len(s) - 1)
  BY DEF Faulty
<1>. HIDE DEF Faulty
<1>3. ASSUME NEW n \in {1, 2}, n <= Len(s), NEW x \in Int24s
      PROVE  Append(Below(s, n), x) \in Seq(Int24s)
  BY <1>3, BelowFacts, AppendFacts
<1>4. CASE op \in Binary
  <2>1. Needs(op) = 2
    BY <1>4 DEF Needs, Pairs
  <2>2. Wrap(Exact(op, Second(s), Last(s))) \in Int24s
    <3>1. Second(s) \in Int24s /\ Last(s) \in Int24s
      BY <1>1, <2>1, TopFacts
    <3>2. Exact(op, Second(s), Last(s)) \in Int
      BY <1>2, <1>4, <3>1, ExactType
    <3>. QED BY <3>2, WrapFits
  <2>3. After(op, s) = Append(Below(s, 2), Wrap(Exact(op, Second(s), Last(s))))
    BY <1>4 DEF After, Binary, Unary
  <2>. QED BY <1>1, <1>3, <2>1, <2>2, <2>3
<1>5. CASE op \in Unary
  <2>1. Needs(op) = 1
    BY <1>5 DEF Needs, Pairs, Binary, Unary
  <2>2. Last(s) \in Int24s /\ (op = "EXP" => Last(s) \in Nat)
    BY <1>1, <1>2, <2>1, TopFacts
  <2>3. Wrap(ExactUnary(op, Last(s))) \in Int24s
    BY <1>5, <2>2, ExactUnaryType, WrapFits
  <2>4. After(op, s) = Append(Below(s, 1), Wrap(ExactUnary(op, Last(s))))
    BY <1>5 DEF After, Binary, Unary
  <2>. QED BY <1>1, <1>3, <2>1, <2>3, <2>4
<1>6. CASE op = "POP"
  <2>1. Needs(op) = 1 /\ After(op, s) = Below(s, 1)
    BY <1>6 DEF Needs, Pairs, Binary, Unary, After
  <2>. QED BY <1>1, <2>1, BelowFacts
<1>7. CASE op = "DUP"
  <2>1. Needs(op) = 1 /\ After(op, s) = Append(s, Last(s))
    BY <1>7 DEF Needs, Pairs, Binary, Unary, After
  <2>. QED BY <1>1, <2>1, AppendFacts, TopFacts
<1>8. CASE op = "DP2"
  <2>1. Needs(op) = 2 /\ After(op, s) = CopySecond(CopySecond(s))
    BY <1>8 DEF Needs, Pairs, Binary, Unary, After
  <2>2. CopySecond(s) \in Seq(Int24s) /\ Len(CopySecond(s)) >= 2
    BY <1>1, <2>1, AppendFacts, TopFacts DEF CopySecond
  <2>3. CopySecond(CopySecond(s)) \in Seq(Int24s)
    BY <2>2, AppendFacts, TopFacts DEF CopySecond
  <2>. QED BY <2>1, <2>3
<1>9. CASE op = "SWP"
  <2>1. Needs(op) = 2 /\ After(op, s) = Below(s, 2) \o <<Last(s), Second(s)>>
    BY <1>9 DEF Needs, Pairs, Binary, Unary, After
  <2>2. <<Last(s), Second(s)>> \in Seq(Int24s) /\ Below(s, 2) \in Seq(Int24s)
    BY <1>1, <2>1, TopFacts, BelowFacts
  <2>. QED BY <2>1, <2>2, ConcatProperties
<1>10. CASE op = "IDX"
  <2>1. Needs(op) = 1 /\ After(op, s) = Append(Below(s, 1), s[Len(s) - 1 - IndexOf(s)])
    BY <1>10 DEF Needs, Pairs, Binary, Unary, After
  <2>2. IndexOf(s) \in Nat
    <3>1. Last(s) \in Int
      BY <1>1, <2>1, TopFacts, IntsHold
    <3>. QED BY <3>1, UnsignedType DEF IndexOf
  <2>3. Len(s) - 1 - IndexOf(s) \in 1 .. Len(s)
    BY <1>1, <1>2, <1>10, <2>2
  <2>4. s[Len(s) - 1 - IndexOf(s)] \in Int24s
    BY <2>3, TopFacts
  <2>. QED BY <1>1, <1>3, <2>1, <2>4
<1>11. CASE op \in Printing \cup {"BNG"}
  <2>1. After(op, s) = s
    BY <1>11 DEF After, Binary, Unary, Printing
  <2>. QED BY <2>1
<1>. QED BY <1>4, <1>5, <1>6, <1>7, <1>8, <1>9, <1>10, <1>11 DEF Opcodes, Protected, Pairs

\* What a thread brings along when it is joined.
LEMMA MovedType ==
  ASSUME NEW s \in Seq(Int24s), ~FaultyJoin(s)
  PROVE  Moved(s) \in Seq(Int24s)
<1>1. Len(s) \in Nat /\ Len(s) >= 1 /\ ~(Last(s) > Len(s) - 1)
  BY LenProperties, EmptySeq DEF FaultyJoin
<1>2. Last(s) \in Int
  BY <1>1, TopFacts, IntsHold
<1>3. PICK rest \in Seq(Int24s) : rest = Below(s, 1) /\ Len(rest) = Len(s) - 1
  BY <1>1, BelowFacts
<1>4. CASE Last(s) < 0
  BY <1>3, <1>4 DEF Moved
<1>5. CASE Last(s) >= 0
  <2>1. PICK m \in Nat : m = Last(s) /\ m <= Len(rest)
    BY <1>1, <1>2, <1>3, <1>5
  <2>2. /\ Len(rest) - m + 1 \in 1 .. Len(rest) + 1
        /\ Len(rest) \in (Len(rest) - m + 1) - 1 .. Len(rest)
    BY <1>1, <1>3, <2>1
  <2>3. SubSeq(rest, Len(rest) - m + 1, Len(rest)) \in Seq(Int24s)
    BY <2>2, SubSeqProperties
  <2>4. Moved(s) = SubSeq(rest, Len(rest) - m + 1, Len(rest))
    BY <1>2, <1>3, <1>5, <2>1 DEF Moved
  <2>. QED BY <2>3, <2>4
<1>. QED BY <1>2, <1>4, <1>5

\* STypeOK, and that two threads share the bound.
StackTypes ==
  /\ flags \subseteq Flags
  /\ status \in {"running", "exited", "undefined"}
  /\ stack \in Seq(Int24s) /\ Len(stack) <= MaxDepth
  /\ \/ parked = << >>
     \/ /\ Len(stack) <= MaxSplit
        /\ \E s \in Seq(Int24s) : Len(s) <= MaxSplit /\ parked = <<s>>

\* The types are inductive for the interpreter alone.
LEMMA StackTypesStart == SInit => StackTypes
BY EmptySeq, StackAssumption DEF SInit, StackTypes

LEMMA StackTypesType == StackTypes => STypeOK
<1>. SUFFICES ASSUME StackTypes PROVE Len(parked) <= 1 /\ \A k \in DOMAIN parked : parked[k] \in Seq(Int24s)
  BY DEF StackTypes, STypeOK
<1>1. CASE parked = << >>
  BY <1>1
<1>2. CASE \E s \in Seq(Int24s) : parked = <<s>>
  BY <1>2
<1>. QED BY <1>1, <1>2 DEF StackTypes

\* A stack that fits is bounded by both bounds.
LEMMA FitsBounds ==
  ASSUME StackTypes, NEW s \in Seq(Int24s), Fits(s)
  PROVE  Len(s) <= MaxDepth /\ (parked # << >> => Len(s) <= MaxSplit)
<1>1. Len(s) \in Nat
  BY LenProperties
<1>2. MaxDepth \in Nat /\ MaxSplit \in Nat /\ MaxSplit <= MaxDepth
  BY StackAssumption
<1>. QED BY <1>1, <1>2 DEF Fits

\* What is pushed is a number of the language.
LEMMA PushedType ==
  ASSUME NEW op, NEW v \in Values
  PROVE  Pushed(op, v) \in Int24s
<1>1. v \in Int24s /\ v - Char0 \in Int
  BY StackAssumption, IntsHold
<1>. QED BY <1>1, WrapFits DEF Pushed

\* Every operation of the interpreter keeps them.
LEMMA StackTypesStep == StackTypes /\ [SNext]_machine => StackTypes'
<1>. SUFFICES ASSUME StackTypes, [SNext]_machine PROVE StackTypes'
  OBVIOUS
<1>. USE DEF StackTypes
<1>1. ASSUME NEW s \in Seq(Int24s), Fits(s), stack' = s, UNCHANGED <<flags, status, parked>>
      PROVE  StackTypes'
  <2>1. Len(s) <= MaxDepth /\ (parked # << >> => Len(s) <= MaxSplit)
    BY <1>1, FitsBounds
  <2>. QED BY <1>1, <2>1
<1>2. ASSUME NEW op \in Pushes, NEW v \in Values, Push(op, v) PROVE StackTypes'
  <2>1. Append(stack, Pushed(op, v)) \in Seq(Int24s)
    BY PushedType, AppendFacts
  <2>2. /\ stack' = Append(stack, Pushed(op, v))
        /\ Fits(Append(stack, Pushed(op, v))) /\ UNCHANGED <<flags, status, parked>>
    BY <1>2 DEF Push, Fits
  <2>. QED BY <1>1, <2>1, <2>2
<1>3. ASSUME NEW op \in Opcodes, Perform(op) PROVE StackTypes'
  <2>1. After(op, stack) \in Seq(Int24s)
    BY <1>3, AfterType DEF Perform
  <2>2. /\ stack' = After(op, stack)
        /\ Fits(After(op, stack)) /\ UNCHANGED <<flags, status, parked>>
    BY <1>3 DEF Perform, Fits
  <2>. QED BY <1>1, <2>1, <2>2
<1>4. ASSUME NEW op \in Opcodes, Skip(op) \/ Quit(op) \/ QuitUnheard(op) \/ GoWrong(op)
      PROVE StackTypes'
  BY <1>4 DEF Skip, Quit, QuitUnheard, GoWrong, machine
<1>5. CASE Exit \/ JoinWrong \/ UNCHANGED machine
  BY <1>5 DEF Exit, JoinWrong, machine
<1>6. CASE Split
  BY <1>6 DEF Split
<1>7. CASE Turn
  <2>1. PICK s \in Seq(Int24s) : Len(s) <= MaxSplit /\ parked = <<s>>
    BY <1>7 DEF Turn
  <2>2. Len(s) \in Nat /\ MaxDepth \in Nat /\ MaxSplit \in 0 .. MaxDepth
    BY LenProperties, StackAssumption
  <2>3. stack' = s /\ parked' = <<stack>> /\ UNCHANGED <<flags, status>>
    BY <1>7, <2>1 DEF Turn
  <2>. QED BY <1>7, <2>1, <2>2, <2>3 DEF Turn
<1>8. CASE Join
  <2>1. PICK s \in Seq(Int24s) : Len(s) <= MaxSplit /\ parked = <<s>>
    BY <1>8 DEF Join
  <2>2. ~FaultyJoin(stack) /\ ~FaultyJoin(s)
    BY <1>8, <2>1 DEF Join
  <2>3. Moved(stack) \in Seq(Int24s) /\ Moved(s) \in Seq(Int24s)
    BY <2>2, MovedType
  <2>4. Joined(stack, s) \in Seq(Int24s) /\ Joined(s, stack) \in Seq(Int24s)
    BY <2>3, ConcatProperties DEF Joined
  <2>5. stack' \in {Joined(stack, s), Joined(s, stack)}
    BY <1>8, <2>1 DEF Join
  <2>6. Len(stack') <= MaxDepth /\ parked' = << >> /\ UNCHANGED <<flags, status>>
    BY <1>8 DEF Join
  <2>. QED BY <2>4, <2>5, <2>6
<1>. QED BY <1>2, <1>3, <1>4, <1>5, <1>6, <1>7, <1>8 DEF SNext, Threads

\* Every step of the two is a step of the interpreter's.
LEMMA StepOfTheMachine == [Next]_<<machine, compiled>> => [SNext]_machine
<1>1. ASSUME NEW op \in Pushes, NEW v \in Values, PushBoth(op, v) PROVE SNext
  BY <1>1 DEF PushBoth, SNext
<1>2. ASSUME NEW op \in Opcodes, PerformBoth(op) PROVE SNext
  BY <1>2 DEF PerformBoth, SNext
<1>3. CASE PartWays
  BY <1>3 DEF PartWays, SNext
<1>4. CASE ExitBoth \/ Alone
  BY <1>4 DEF ExitBoth, Alone, SNext
<1>. QED BY <1>1, <1>2, <1>3, <1>4 DEF Next

-----------------------------------------------------------------------------
(* The two stacks.                                                         *)

\* The compiled program's stack c has the interpreter's stack s, in ints and up to
\* multiples of 2^24.
Alike(s, c) == /\ s \in Seq(Int24s) /\ c \in Seq(Ints) /\ Len(c) = Len(s)
               /\ \A k \in 1 .. Len(s) : Unsigned(c[k]) = Unsigned(s[k])

\* Nothing takes the blame for a difference between the two (Cause), other than
\* what is printed.
Harmless(op, s, c) ==
  /\ ~Faulty(op, s) /\ ~Overflows(op, s)
  /\ ~(op = "EXP" /\ Last(s) >= Bits)
  /\ ~ \E k \in 0 .. Sensitive(op) - 1 : Wide(c[Len(c) - k])
  /\ ~(op \in Binary /\ Expression(op, Second(c), Last(c)) \notin Ints)
  /\ ~(op \in {"INC", "DEC"} /\ Last(c) + 1 \notin Ints)
  /\ ~(op \in {"INC", "DEC"} /\ Last(c) - 1 \notin Ints)
  /\ ~(op = "IDX" /\ Last(s) < 0)

\* Harmless is what Cause finds.
LEMMA NoCauseIsHarmless ==
  ASSUME NEW op, Cause(op) = "none"
  PROVE  /\ Harmless(op, stack, block.cells)
         /\ ~(op = "PTC" /\ "ascii" \notin flags /\ Last(stack) > MAX_CHAR)
BY DEF Cause, Harmless

\* Values that are taken for a number, not for their bits, are the same.
LEMMA NotWide ==
  ASSUME NEW a \in Int24s, NEW x \in Ints, ~Wide(x), Unsigned(x) = Unsigned(a)
  PROVE  x = a
BY NarrowEqual DEF Wide

\* Pushing the same value keeps the stacks alike; below: popping does.
LEMMA AlikeAppend ==
  ASSUME NEW s, NEW c, Alike(s, c), NEW a \in Int24s, NEW x \in Ints, Unsigned(x) = Unsigned(a)
  PROVE  Alike(Append(s, a), Append(c, x))
<1>1. /\ s \in Seq(Int24s) /\ c \in Seq(Ints) /\ Len(c) = Len(s) /\ Len(s) \in Nat
      /\ \A k \in 1 .. Len(s) : Unsigned(c[k]) = Unsigned(s[k])
  BY LenProperties DEF Alike
<1>2. /\ Append(s, a) \in Seq(Int24s) /\ Len(Append(s, a)) = Len(s) + 1
      /\ \A k \in 1 .. Len(s) : Append(s, a)[k] = s[k]
      /\ Append(s, a)[Len(s) + 1] = a
  BY <1>1, AppendFacts
<1>3. /\ Append(c, x) \in Seq(Ints) /\ Len(Append(c, x)) = Len(s) + 1
      /\ \A k \in 1 .. Len(s) : Append(c, x)[k] = c[k]
      /\ Append(c, x)[Len(s) + 1] = x
  BY <1>1, AppendFacts
<1>4. ASSUME NEW k \in 1 .. Len(s) + 1
      PROVE  Unsigned(Append(c, x)[k]) = Unsigned(Append(s, a)[k])
  <2>1. CASE k = Len(s) + 1
    BY <1>2, <1>3, <2>1
  <2>2. CASE k \in 1 .. Len(s)
    BY <1>1, <1>2, <1>3, <2>2
  <2>. QED BY <1>1, <2>1, <2>2
<1>. QED BY <1>2, <1>3, <1>4 DEF Alike

LEMMA AlikeBelow ==
  ASSUME NEW s, NEW c, Alike(s, c), NEW n \in Nat, n <= Len(s)
  PROVE  Alike(Below(s, n), Below(c, n))
<1>1. /\ s \in Seq(Int24s) /\ c \in Seq(Ints) /\ Len(c) = Len(s) /\ Len(s) \in Nat
      /\ \A k \in 1 .. Len(s) : Unsigned(c[k]) = Unsigned(s[k])
  BY LenProperties DEF Alike
<1>2. /\ Below(s, n) \in Seq(Int24s) /\ Len(Below(s, n)) = Len(s) - n
      /\ \A k \in 1 .. Len(s) - n : Below(s, n)[k] = s[k]
  BY <1>1, BelowFacts
<1>3. /\ Below(c, n) \in Seq(Ints) /\ Len(Below(c, n)) = Len(s) - n
      /\ \A k \in 1 .. Len(s) - n : Below(c, n)[k] = c[k]
  BY <1>1, BelowFacts
<1>4. ASSUME NEW k \in 1 .. Len(s) - n
      PROVE  Unsigned(Below(c, n)[k]) = Unsigned(Below(s, n)[k])
  <2>1. k \in 1 .. Len(s)
    BY <1>1
  <2>. QED BY <1>1, <1>2, <1>3, <2>1
<1>. QED BY <1>2, <1>3, <1>4 DEF Alike

\* The top values of the two.
LEMMA AlikeTop ==
  ASSUME NEW s, NEW c, Alike(s, c)
  PROVE  /\ Len(s) \in Nat /\ Len(c) = Len(s)
         /\ Len(s) >= 1 => /\ Last(s) \in Int24s /\ Last(c) \in Ints
                           /\ Unsigned(Last(c)) = Unsigned(Last(s))
         /\ Len(s) >= 2 => /\ Second(s) \in Int24s /\ Second(c) \in Ints
                           /\ Unsigned(Second(c)) = Unsigned(Second(s))
<1>1. /\ s \in Seq(Int24s) /\ c \in Seq(Ints) /\ Len(c) = Len(s) /\ Len(s) \in Nat
      /\ \A k \in 1 .. Len(s) : Unsigned(c[k]) = Unsigned(s[k])
  BY LenProperties DEF Alike
<1>2. Len(s) >= 1 => Unsigned(c[Len(s)]) = Unsigned(s[Len(s)])
  BY <1>1
<1>3. Len(s) >= 2 => Unsigned(c[Len(s) - 1]) = Unsigned(s[Len(s) - 1])
  <2>1. Len(s) >= 2 => Len(s) - 1 \in 1 .. Len(s)
    BY <1>1
  <2>. QED BY <1>1, <2>1
<1>. QED BY <1>1, <1>2, <1>3, TopFacts DEF Last, Second

\* The C expression of a binary opcode.
LEMMA ExpressionAgrees ==
  ASSUME NEW op \in Binary, NEW a \in Int24s, NEW b \in Int24s, NEW x \in Ints, NEW y \in Ints,
         Unsigned(x) = Unsigned(a), Unsigned(y) = Unsigned(b),
         op \in {"DIV", "MOD"} => x = a /\ y = b,
         op \in {"DIV", "UDV", "MOD"} => b # 0
  PROVE  /\ Wrap(Exact(op, a, b)) \in Int24s
         /\ Unsigned(Expression(op, x, y)) = Unsigned(Wrap(Exact(op, a, b)))
<1>1. a \in Int /\ b \in Int /\ x \in Int /\ y \in Int
  BY IntsHold
<1>2. Exact(op, a, b) \in Int
  BY ExactType
<1>3. Wrap(Exact(op, a, b)) \in Int24s
      /\ Unsigned(Wrap(Exact(op, a, b))) = Unsigned(Exact(op, a, b))
  BY <1>2, WrapFits
<1>4. Unsigned(Expression(op, x, y)) = Unsigned(Exact(op, a, b))
  <2>1. CASE op \in {"ADD", "SUB", "MUL"}
    <3>1. /\ Unsigned(x + y) = Unsigned(a + b) /\ Unsigned(x - y) = Unsigned(a - b)
          /\ Unsigned(x * y) = Unsigned(a * b)
      BY <1>1, RingOperations
    <3>. QED BY <2>1, <3>1, Zenon DEF Expression, Exact
  <2>2. CASE op \in {"DIV", "MOD"}
    BY <2>2 DEF Expression, Exact
  <2>3. CASE op = "UDV"
    BY <2>3 DEF Expression, Exact
  <2>4. CASE op \in {"AND", "IOR", "XOR"}
    <3>1. /\ Unsigned(BitAnd(x, y)) = Unsigned(BitAnd(a, b))
          /\ Unsigned(BitOr(x, y)) = Unsigned(BitOr(a, b))
          /\ Unsigned(BitXor(x, y)) = Unsigned(BitXor(a, b))
      BY <1>1, BitwiseOperations
    <3>. QED BY <2>4, <3>1, Zenon DEF Expression, Exact
  <2>. QED BY <2>1, <2>2, <2>3, <2>4 DEF Binary
<1>. QED BY <1>3, <1>4

\* INC, DEC and NOT do not look beyond the bits either.
LEMMA UnaryOperations ==
  ASSUME NEW x \in Int, NEW a \in Int, Unsigned(x) = Unsigned(a)
  PROVE  /\ Unsigned(x + 1) = Unsigned(a + 1) /\ Unsigned(x - 1) = Unsigned(a - 1)
         /\ Unsigned(-x - 1) = Unsigned(-a - 1)
<1>1. PICK e \in Int, f \in Int : e = 1 /\ f = 1
  OBVIOUS
<1>2. PICK m \in Int, n \in Int : m = -1 /\ n = -1
  OBVIOUS
<1>3. Unsigned(e) = Unsigned(f) /\ Unsigned(m) = Unsigned(n)
  BY <1>1, <1>2
<1>4. Unsigned(x + e) = Unsigned(a + f) /\ Unsigned(x - e) = Unsigned(a - f)
  BY <1>3, RingOperations
<1>5. Unsigned(m - x) = Unsigned(n - a)
  BY <1>3, RingOperations
<1>6. m - x = -x - 1 /\ n - a = -a - 1
  BY <1>2
<1>. QED BY <1>1, <1>4, <1>5, <1>6

\* The C expression of a unary opcode.
LEMMA UnaryAgrees ==
  ASSUME NEW op \in Unary, NEW a \in Int24s, NEW x \in Ints, Unsigned(x) = Unsigned(a),
         op = "EXP" => x = a /\ a \in 0 .. Bits - 1
  PROVE  /\ Wrap(ExactUnary(op, a)) \in Int24s
         /\ UnaryExpression(op, x) \in Ints
         /\ Unsigned(UnaryExpression(op, x)) = Unsigned(Wrap(ExactUnary(op, a)))
<1>1. a \in Int /\ x \in Int
  BY IntsHold
<1>2. ExactUnary(op, a) \in Int
  BY ExactUnaryType
<1>3. Wrap(ExactUnary(op, a)) \in Int24s
      /\ Unsigned(Wrap(ExactUnary(op, a))) = Unsigned(ExactUnary(op, a))
  BY <1>2, WrapFits
<1>4. CASE op = "INC"
  <2>1. /\ UnaryExpression(op, x) = Shifted(x + 1) /\ ExactUnary(op, a) = a + 1
        /\ x + 1 \in Int
    BY <1>1, <1>4 DEF UnaryExpression, ExactUnary
  <2>2. Shifted(x + 1) \in Ints /\ Unsigned(Shifted(x + 1)) = Unsigned(x + 1)
    BY <2>1, ShiftedFits, IntsHold
  <2>3. Unsigned(x + 1) = Unsigned(a + 1)
    BY <1>1, UnaryOperations
  <2>. QED BY <1>3, <2>1, <2>2, <2>3
<1>5. CASE op = "DEC"
  <2>1. /\ UnaryExpression(op, x) = Shifted(x - 1) /\ ExactUnary(op, a) = a - 1
        /\ x - 1 \in Int
    BY <1>1, <1>5 DEF UnaryExpression, ExactUnary
  <2>2. Shifted(x - 1) \in Ints /\ Unsigned(Shifted(x - 1)) = Unsigned(x - 1)
    BY <2>1, ShiftedFits, IntsHold
  <2>3. Unsigned(x - 1) = Unsigned(a - 1)
    BY <1>1, UnaryOperations
  <2>. QED BY <1>3, <2>1, <2>2, <2>3
<1>6. CASE op = "NOT"
  <2>1. UnaryExpression(op, x) = -x - 1 /\ ExactUnary(op, a) = -a - 1
    BY <1>6 DEF UnaryExpression, ExactUnary, BitNot
  <2>2. -x - 1 \in Ints
    <3>1. PICK m \in Nat : m = 2^(HostBits - 1)
      BY Widths
    <3>2. x \in -m .. m - 1
      BY <3>1 DEF Ints
    <3>3. -x - 1 \in -m .. m - 1
      BY <3>2
    <3>. QED BY <3>1, <3>3 DEF Ints
  <2>3. Unsigned(-x - 1) = Unsigned(-a - 1)
    BY <1>1, UnaryOperations
  <2>. QED BY <1>3, <2>1, <2>2, <2>3
<1>7. CASE op = "EXP"
  <2>1. x = a /\ a \in Nat
    BY <1>7
  <2>2. 2^a \in Int /\ UnaryExpression(op, x) = Shifted(2^a) /\ ExactUnary(op, a) = 2^a
    BY <1>7, <2>1, PowerShifted DEF UnaryExpression, ExactUnary
  <2>3. Shifted(2^a) \in Ints /\ Unsigned(Shifted(2^a)) = Unsigned(2^a)
    BY <2>2, ShiftedFits, IntsHold
  <2>. QED BY <1>3, <2>2, <2>3
<1>. QED BY <1>4, <1>5, <1>6, <1>7 DEF Unary

\* The cells after a statement, when there is memory for what it pushes.
CellsAfter(op, c) ==
  CASE op \in Binary -> Append(Below(c, 2), Expression(op, Second(c), Last(c)))
    [] op \in Unary -> Append(Below(c, 1), UnaryExpression(op, Last(c)))
    [] op = "POP" -> Below(c, 1)
    [] op = "DUP" -> Append(c, Last(c))
    [] op = "DP2" -> CopySecond(CopySecond(c))
    [] op = "SWP" -> Append(Append(Below(c, 2), Last(c)), Second(c))
    [] op = "IDX" -> Append(Below(c, 1), c[Len(c) - 1 - Last(c)])
    [] OTHER -> c

\* A push that finds memory adds a value, one that finds none is marked.
LEMMA PushedCells ==
  ASSUME NEW b, Sound(b), NEW v, NEW g \in PushedOn(b, v)
  PROVE  /\ Sound(g)
         /\ ~g.dropped => ~b.dropped /\ g.cells = Append(b.cells, v)
<1>1. PICK S : b \in Block(S)
  BY DEF Sound
<1>. DEFINE pushed == [b EXCEPT !.cells = Append(@, v)]
<1>2. pushed.cells = Append(b.cells, v) /\ pushed.dropped = b.dropped
  BY <1>1 DEF Block
<1>3. CASE g = pushed
  BY <1>2, <1>3, PushedSound
<1>4. CASE g = [b EXCEPT !.dropped = TRUE]
  <2>1. g.dropped
    BY <1>1, <1>4 DEF Block
  <2>. QED BY <2>1, PushedSound
<1>5. CASE g = [pushed EXCEPT !.capacity = Grown(@)]
  <2>1. g.cells = pushed.cells /\ g.dropped = pushed.dropped
    BY <1>1, <1>5 DEF Block
  <2>. QED BY <1>2, <2>1, PushedSound
<1>. QED BY <1>3, <1>4, <1>5 DEF PushedOn

\* A pop takes values away and finds no fault.
LEMMA PoppedCells ==
  ASSUME NEW b, Sound(b), NEW n \in Nat
  PROVE  /\ Sound(Popped(b, n)) /\ Popped(b, n).dropped = b.dropped
         /\ Popped(b, n).cells = Below(b.cells, n)
<1>1. PICK S : b \in Block(S)
  BY DEF Sound
<1>2. Popped(b, n).cells = Below(b.cells, n) /\ Popped(b, n).dropped = b.dropped
  BY <1>1 DEF Block, Popped
<1>. QED BY <1>2, PoppedSound

\* Statement, as a function of the cells.
LEMMA StatementCells ==
  ASSUME NEW b, Sound(b), NEW op \in Opcodes, NEW g \in Statement(op, b), ~g.dropped
  PROVE  g.cells = CellsAfter(op, b.cells)
<1>1. ASSUME NEW n \in Nat, NEW v, NEW c \in PushedOn(Popped(b, n), v)
      PROVE  Sound(c) /\ (~c.dropped => c.cells = Append(Below(b.cells, n), v))
  <2>1. PICK d : d = Popped(b, n)
    OBVIOUS
  <2>2. Sound(d) /\ d.cells = Below(b.cells, n) /\ c \in PushedOn(d, v)
    BY <1>1, <2>1, PoppedCells
  <2>. QED BY <2>2, PushedCells
<1>2. ASSUME NEW c \in PushSecond(b)
      PROVE  Sound(c) /\ (~c.dropped => c.cells = CopySecond(b.cells))
  BY <1>2, PushedCells DEF PushSecond, CopySecond
<1>. HIDE DEF Sound
<1>3. CASE op \in Binary
  <2>1. g \in PushedOn(Popped(b, 2), Expression(op, Second(b.cells), Last(b.cells)))
    BY <1>3 DEF Statement, Binary, Unary
  <2>2. CellsAfter(op, b.cells)
          = Append(Below(b.cells, 2), Expression(op, Second(b.cells), Last(b.cells)))
    BY <1>3 DEF CellsAfter, Binary, Unary
  <2>. QED BY <1>1, <2>1, <2>2
<1>4. CASE op \in Unary
  <2>1. g \in PushedOn(Popped(b, 1), UnaryExpression(op, Last(b.cells)))
    BY <1>4 DEF Statement, Binary, Unary
  <2>2. CellsAfter(op, b.cells) = Append(Below(b.cells, 1), UnaryExpression(op, Last(b.cells)))
    BY <1>4 DEF CellsAfter, Binary, Unary
  <2>. QED BY <1>1, <2>1, <2>2
<1>5. CASE op = "POP"
  <2>1. g = Popped(b, 1) /\ CellsAfter(op, b.cells) = Below(b.cells, 1)
    BY <1>5 DEF Statement, CellsAfter, Binary, Unary
  <2>. QED BY <2>1, PoppedCells
<1>6. CASE op = "DUP"
  <2>1. g \in PushedOn(b, Last(b.cells)) /\ CellsAfter(op, b.cells) = Append(b.cells, Last(b.cells))
    BY <1>6 DEF Statement, CellsAfter, Binary, Unary
  <2>. QED BY <2>1, PushedCells
<1>7. CASE op = "DP2"
  <2>1. PICK c \in PushSecond(b) : g \in PushSecond(c)
    BY <1>7 DEF Statement, Binary, Unary
  <2>2. CellsAfter(op, b.cells) = CopySecond(CopySecond(b.cells))
    BY <1>7 DEF CellsAfter, Binary, Unary
  <2>3. ~c.dropped /\ g.cells = Append(c.cells, Second(c.cells))
    BY <1>2, <2>1, PushedCells DEF PushSecond
  <2>4. c.cells = CopySecond(b.cells)
    BY <1>2, <2>3
  <2>. QED BY <2>2, <2>3, <2>4 DEF CopySecond
<1>8. CASE op = "SWP"
  <2>1. g \in SwapTop(b)
    BY <1>8 DEF Statement, Binary, Unary
  <2>2. PICK c \in PushedOn(Popped(b, 2), Last(b.cells)) : g \in PushedOn(c, Second(b.cells))
    BY <2>1 DEF SwapTop
  <2>3. CellsAfter(op, b.cells)
          = Append(Append(Below(b.cells, 2), Last(b.cells)), Second(b.cells))
    BY <1>8 DEF CellsAfter, Binary, Unary
  <2>4. ~c.dropped /\ g.cells = Append(c.cells, Second(b.cells))
    BY <1>1, <2>2, PushedCells
  <2>5. c.cells = Append(Below(b.cells, 2), Last(b.cells))
    BY <1>1, <2>2, <2>4
  <2>. QED BY <2>3, <2>4, <2>5
<1>9. CASE op = "IDX"
  <2>1. g \in PushedOn(Popped(b, 1), b.cells[Len(b.cells) - 1 - Last(b.cells)])
    BY <1>9 DEF Statement, Binary, Unary
  <2>2. CellsAfter(op, b.cells)
          = Append(Below(b.cells, 1), b.cells[Len(b.cells) - 1 - Last(b.cells)])
    BY <1>9 DEF CellsAfter, Binary, Unary
  <2>. QED BY <1>1, <2>1, <2>2
<1>10. CASE op \in Printing \cup {"BNG"}
  BY <1>10 DEF Statement, CellsAfter, Binary, Unary, Printing
<1>. QED BY <1>3, <1>4, <1>5, <1>6, <1>7, <1>8, <1>9, <1>10 DEF Opcodes, Protected, Pairs

\* Two values put on a stack at once are put on it one after the other.
LEMMA AppendTwo ==
  ASSUME NEW S, NEW r \in Seq(S), NEW x \in S, NEW y \in S
  PROVE  r \o <<x, y>> = Append(Append(r, x), y)
OBVIOUS

\* The top of the two, where an opcode takes it for a number.
LEMMA SensitiveTop ==
  ASSUME NEW s, NEW c, Alike(s, c), NEW op \in {"BNG", "PTI", "PTC", "EXP", "IDX"},
         Harmless(op, s, c), Len(s) >= 1
  PROVE  Last(c) = Last(s)
<1>1. Len(c) = Len(s) /\ Len(s) \in Nat
  BY AlikeTop
<1>2. 0 \in 0 .. Sensitive(op) - 1
  BY DEF Sensitive
<1>3. ~Wide(c[Len(c) - 0])
  BY <1>2 DEF Harmless
<1>4. ~Wide(Last(c))
  BY <1>1, <1>3 DEF Last
<1>. QED BY <1>4, AlikeTop, NotWide

\* The two on top, where both are taken for numbers.
LEMMA SensitiveTwo ==
  ASSUME NEW s, NEW c, Alike(s, c), NEW op \in {"DIV", "MOD"},
         Harmless(op, s, c), Len(s) >= 2
  PROVE  Last(c) = Last(s) /\ Second(c) = Second(s)
<1>1. Len(c) = Len(s) /\ Len(s) \in Nat
  BY AlikeTop
<1>2. 0 \in 0 .. Sensitive(op) - 1 /\ 1 \in 0 .. Sensitive(op) - 1
  BY DEF Sensitive
<1>3. ~Wide(c[Len(c) - 0]) /\ ~Wide(c[Len(c) - 1])
  BY <1>2 DEF Harmless
<1>4. ~Wide(Last(c)) /\ ~Wide(Second(c))
  BY <1>1, <1>3 DEF Last, Second
<1>. QED BY <1>1, <1>4, AlikeTop, NotWide

\* The interpreter finds what it reads, so does the compiled program.
LEMMA HighEnough ==
  ASSUME NEW s, NEW c, Alike(s, c), NEW op \in Opcodes, Harmless(op, s, c)
  PROVE  Len(s) >= Needs(op) /\ Needs(op) \in {1, 2}
<1>1. ~(Len(s) < Needs(op))
  BY DEF Harmless, Faulty
<1>. QED BY <1>1, AlikeTop DEF Needs

\* An opcode keeps the two stacks alike.
LEMMA AlikeAfter ==
  ASSUME NEW s, NEW c, Alike(s, c), NEW op \in Opcodes, Harmless(op, s, c)
  PROVE  Alike(After(op, s), CellsAfter(op, c))
<1>. DEFINE h == Len(s)
<1>1. /\ h \in Nat /\ Len(c) = h
      /\ h >= 1 => /\ Last(s) \in Int24s /\ Last(c) \in Ints
                   /\ Unsigned(Last(c)) = Unsigned(Last(s))
      /\ h >= 2 => /\ Second(s) \in Int24s /\ Second(c) \in Ints
                   /\ Unsigned(Second(c)) = Unsigned(Second(s))
  BY AlikeTop
<1>2. h >= Needs(op)
  <2>1. ~(h < Needs(op))
    BY DEF Harmless, Faulty
  <2>. QED BY <1>1, <2>1 DEF Needs
<1>3. /\ ~(op \in {"DIV", "UDV", "MOD"} /\ Last(s) = 0)
      /\ ~(op = "EXP" /\ Last(s) \notin 0 .. HostBits - 1)
      /\ ~(op = "IDX" /\ IndexOf(s) >= h - 1)
      /\ ~(op = "EXP" /\ Last(s) >= Bits)
      /\ ~(op \in Binary /\ Expression(op, Second(c), Last(c)) \notin Ints)
      /\ ~(op = "IDX" /\ Last(s) < 0)
  BY DEF Harmless, Faulty
<1>4. h >= 1 /\ op \in {"BNG", "PTI", "PTC", "EXP", "IDX"} => Last(c) = Last(s)
  BY SensitiveTop
<1>5. h >= 2 /\ op \in {"DIV", "MOD"} => Last(c) = Last(s) /\ Second(c) = Second(s)
  BY SensitiveTwo
<1>. HIDE DEF h
<1>6. ASSUME NEW n \in {1, 2}, n <= h, NEW a \in Int24s, NEW x \in Ints, Unsigned(x) = Unsigned(a)
      PROVE  Alike(Append(Below(s, n), a), Append(Below(c, n), x))
  BY <1>6, AlikeBelow, AlikeAppend DEF h
<1>7. CASE op \in Binary
  <2>. DEFINE a == Wrap(Exact(op, Second(s), Last(s)))
              x == Expression(op, Second(c), Last(c))
  <2>1. h >= 2
    BY <1>2, <1>7 DEF Needs, Pairs
  <2>2. After(op, s) = Append(Below(s, 2), a) /\ CellsAfter(op, c) = Append(Below(c, 2), x)
    BY <1>7 DEF After, CellsAfter, Binary, Unary
  <2>3. a \in Int24s /\ Unsigned(x) = Unsigned(a)
    BY <1>1, <1>3, <1>5, <1>7, <2>1, ExpressionAgrees
  <2>4. x \in Ints
    BY <1>3, <1>7
  <2>. HIDE DEF a, x
  <2>. QED BY <1>6, <2>1, <2>2, <2>3, <2>4
<1>8. CASE op \in Unary
  <2>. DEFINE a == Wrap(ExactUnary(op, Last(s)))
              x == UnaryExpression(op, Last(c))
  <2>1. h >= 1
    BY <1>1, <1>2 DEF Needs
  <2>2. After(op, s) = Append(Below(s, 1), a) /\ CellsAfter(op, c) = Append(Below(c, 1), x)
    BY <1>8 DEF After, CellsAfter, Binary, Unary
  <2>3. op = "EXP" => Last(c) = Last(s) /\ Last(s) \in 0 .. Bits - 1
    BY <1>3, <1>4, <2>1, WidthsAssumption
  <2>4. a \in Int24s /\ x \in Ints /\ Unsigned(x) = Unsigned(a)
    BY <1>1, <1>8, <2>1, <2>3, UnaryAgrees
  <2>. HIDE DEF a, x
  <2>. QED BY <1>6, <2>1, <2>2, <2>4
<1>9. CASE op = "POP"
  <2>1. h >= 1
    BY <1>1, <1>2 DEF Needs
  <2>2. After(op, s) = Below(s, 1) /\ CellsAfter(op, c) = Below(c, 1)
    BY <1>9 DEF After, CellsAfter, Binary, Unary
  <2>. QED BY <2>1, <2>2, AlikeBelow DEF h
<1>10. CASE op = "DUP"
  <2>1. h >= 1
    BY <1>1, <1>2 DEF Needs
  <2>2. After(op, s) = Append(s, Last(s)) /\ CellsAfter(op, c) = Append(c, Last(c))
    BY <1>10 DEF After, CellsAfter, Binary, Unary
  <2>. QED BY <1>1, <2>1, <2>2, AlikeAppend
<1>11. CASE op = "DP2"
  <2>1. h >= 2
    BY <1>2, <1>11 DEF Needs, Pairs
  <2>2. After(op, s) = CopySecond(CopySecond(s)) /\ CellsAfter(op, c) = CopySecond(CopySecond(c))
    BY <1>11 DEF After, CellsAfter, Binary, Unary
  <2>3. PICK t : t = CopySecond(s)
    OBVIOUS
  <2>4. PICK d : d = CopySecond(c)
    OBVIOUS
  <2>5. Alike(t, d)
    BY <1>1, <2>1, <2>3, <2>4, AlikeAppend DEF CopySecond
  <2>6. Len(t) >= 2
    <3>1. s \in Seq(Int24s) /\ Second(s) \in Int24s
      BY <1>1, <2>1 DEF Alike
    <3>2. Len(t) = h + 1
      BY <2>3, <3>1, AppendFacts DEF CopySecond, h
    <3>. QED BY <1>1, <2>1, <3>2
  <2>7. Second(t) \in Int24s /\ Second(d) \in Ints /\ Unsigned(Second(d)) = Unsigned(Second(t))
    BY <2>5, <2>6, AlikeTop
  <2>8. Alike(CopySecond(t), CopySecond(d))
    BY <2>5, <2>7, AlikeAppend DEF CopySecond
  <2>. QED BY <2>2, <2>3, <2>4, <2>8
<1>12. CASE op = "SWP"
  <2>1. h >= 2
    BY <1>2, <1>12 DEF Needs, Pairs
  <2>2. /\ After(op, s) = Below(s, 2) \o <<Last(s), Second(s)>>
        /\ CellsAfter(op, c) = Append(Append(Below(c, 2), Last(c)), Second(c))
    BY <1>12 DEF After, CellsAfter, Binary, Unary
  <2>3. Below(s, 2) \in Seq(Int24s)
    BY <2>1, BelowFacts DEF Alike, h
  <2>4. After(op, s) = Append(Append(Below(s, 2), Last(s)), Second(s))
    BY <1>1, <2>1, <2>2, <2>3, AppendTwo
  <2>5. Alike(Append(Below(s, 2), Last(s)), Append(Below(c, 2), Last(c)))
    BY <1>1, <1>6, <2>1
  <2>6. Alike(Append(Append(Below(s, 2), Last(s)), Second(s)),
              Append(Append(Below(c, 2), Last(c)), Second(c)))
    BY <1>1, <2>1, <2>5, AlikeAppend
  <2>. QED BY <2>2, <2>4, <2>6
<1>13. CASE op = "IDX"
  <2>1. h >= 1
    BY <1>1, <1>2 DEF Needs
  <2>2. /\ After(op, s) = Append(Below(s, 1), s[Len(s) - 1 - IndexOf(s)])
        /\ CellsAfter(op, c) = Append(Below(c, 1), c[Len(c) - 1 - Last(c)])
    BY <1>13 DEF After, CellsAfter, Binary, Unary
  <2>3. Last(s) \in Nat /\ IndexOf(s) = Last(s)
    <3>1. Last(s) \in Int /\ ~(Last(s) < 0)
      BY <1>1, <1>3, <1>13, <2>1, IntsHold
    <3>2. Last(s) \in Nat /\ Last(s) >= 0
      BY <3>1
    <3>. QED BY <1>1, <2>1, <3>2, UnsignedOfNat DEF IndexOf
  <2>4. PICK k \in 1 .. h : k = h - 1 - Last(s)
    BY <1>1, <1>3, <1>13, <2>1, <2>3
  <2>5. Len(s) - 1 - IndexOf(s) = k /\ Len(c) - 1 - Last(c) = k
    BY <1>1, <1>4, <1>13, <2>1, <2>3, <2>4 DEF h
  <2>6. s[k] \in Int24s /\ c[k] \in Ints /\ Unsigned(c[k]) = Unsigned(s[k])
    BY <1>1, <2>4, TopFacts DEF Alike, h
  <2>. QED BY <1>6, <2>1, <2>2, <2>5, <2>6
<1>14. CASE op \in Printing \cup {"BNG"}
  <2>1. After(op, s) = s /\ CellsAfter(op, c) = c
    BY <1>14 DEF After, CellsAfter, Binary, Unary, Printing
  <2>. QED BY <2>1
<1>. QED BY <1>7, <1>8, <1>9, <1>10, <1>11, <1>12, <1>13, <1>14 DEF Opcodes, Protected, Pairs

\* What is printed, and which way a branch goes.
LEMMA SaysAgree ==
  ASSUME NEW s, NEW c, Alike(s, c), NEW op \in Opcodes, Harmless(op, s, c),
         NEW ascii \in BOOLEAN, ~(op = "PTC" /\ ~ascii /\ Last(s) > MAX_CHAR)
  PROVE  Says(op, Last(s), ascii, "nothing") = Says(op, Last(c), ascii, "garbage")
<1>1. Len(s) >= 1
  BY HighEnough, AlikeTop
<1>2. CASE op \in {"PTI", "BNG"}
  <2>1. Last(c) = Last(s)
    BY <1>1, <1>2, SensitiveTop
  <2>. QED BY <1>2, <2>1 DEF Says
<1>3. CASE op = "PTC"
  <2>1. Last(c) = Last(s)
    BY <1>1, <1>3, SensitiveTop
  <2>2. Last(s) \in Int /\ MAX_CHAR \in Int
    <3>1. 0 .. INT24_MAX \subseteq Int
      OBVIOUS
    <3>. QED BY <1>1, <3>1, AlikeTop, IntsHold, CapacityAssumption
  <2>3. ascii \/ Last(s) <= MAX_CHAR
    BY <1>3, <2>2
  <2>4. Character(Last(s), ascii, "nothing") = Character(Last(s), ascii, "garbage")
    BY <2>3 DEF Character
  <2>. QED BY <1>3, <2>1, <2>4 DEF Says
<1>4. CASE op = "PTU"
  <2>1. Unsigned(Last(c)) = Unsigned(Last(s))
    BY <1>1, AlikeTop
  <2>. QED BY <1>4, <2>1 DEF Says
<1>5. CASE op \notin {"PTI", "BNG", "PTC", "PTU"}
  BY <1>5 DEF Says
<1>. QED BY <1>2, <1>3, <1>4, <1>5

\* Where the interpreter's opcode is harmless the statement is defined.
LEMMA HarmlessIsDefined ==
  ASSUME NEW s, NEW c, Alike(s, c), NEW op \in Opcodes, Harmless(op, s, c)
  PROVE  ~Undefined(op, c)
<1>1. /\ Len(s) \in Nat /\ Len(c) = Len(s) /\ Len(s) >= Needs(op) /\ Len(s) >= 1
      /\ Needs(op) \in {1, 2}
  BY HighEnough, AlikeTop
<1>2. /\ Last(s) \in Int24s /\ Last(c) \in Ints /\ Unsigned(Last(c)) = Unsigned(Last(s))
      /\ Last(s) \in Int /\ Last(c) \in Int
  BY <1>1, AlikeTop, IntsHold
<1>3. /\ ~(op \in {"DIV", "UDV", "MOD"} /\ Last(s) = 0)
      /\ ~(op = "EXP" /\ Last(s) \notin 0 .. HostBits - 1)
      /\ ~(op = "IDX" /\ IndexOf(s) >= Len(s) - 1)
      /\ ~(op = "EXP" /\ Last(s) >= Bits)
      /\ ~(op \in Binary /\ Expression(op, Second(c), Last(c)) \notin Ints)
      /\ ~(op \in {"INC", "DEC"} /\ Last(c) + 1 \notin Ints)
      /\ ~(op \in {"INC", "DEC"} /\ Last(c) - 1 \notin Ints)
      /\ ~(op = "IDX" /\ Last(s) < 0)
  BY DEF Harmless, Faulty
<1>4. ~(Len(c) < Needs(op))
  BY <1>1
<1>5. ~(op \in {"DIV", "MOD"} /\ Last(c) = 0)
  <2>. SUFFICES ASSUME op \in {"DIV", "MOD"} PROVE Last(c) # 0
    OBVIOUS
  <2>1. Len(s) >= 2
    BY <1>1 DEF Needs, Pairs, Binary
  <2>. QED BY <1>3, <2>1, SensitiveTwo
<1>6. ~(op = "UDV" /\ Unsigned(Last(c)) = 0)
  <2>. SUFFICES ASSUME op = "UDV" PROVE Unsigned(Last(s)) # 0
    BY <1>2
  <2>1. 0 \in Int24s /\ Unsigned(0) = 0
    <3>1. 0 \in Int24s
      BY Widths DEF Int24s, INT24_MIN, INT24_MAX
    <3>. QED BY <3>1, UnsignedOfNat
  <2>. QED BY <1>2, <1>3, <2>1, NarrowEqual
<1>7. ~(op \in {"INC", "DEC"} /\ Last(c) \in {-(2^(HostBits - 1)), 2^(HostBits - 1) - 1})
  <2>. SUFFICES ASSUME op \in {"INC", "DEC"}
                PROVE  Last(c) \notin {-(2^(HostBits - 1)), 2^(HostBits - 1) - 1}
    OBVIOUS
  <2>1. PICK m \in Nat : m = 2^(HostBits - 1)
    BY Widths
  <2>2. Last(c) + 1 \in -m .. m - 1 /\ Last(c) - 1 \in -m .. m - 1
    BY <1>3, <2>1 DEF Ints
  <2>. QED BY <1>2, <2>1, <2>2
<1>8. ~(op = "EXP" /\ Last(c) + Spare \notin 0 .. HostBits - 1)
  <2>. SUFFICES ASSUME op = "EXP" PROVE Last(c) + Spare \in 0 .. HostBits - 1
    OBVIOUS
  <2>1. Last(c) = Last(s)
    BY <1>1, SensitiveTop
  <2>. QED BY <1>2, <1>3, <2>1, WidthsAssumption DEF Spare
<1>9. ~(op = "IDX" /\ Last(c) \notin 0 .. Len(c) - 2)
  <2>. SUFFICES ASSUME op = "IDX" PROVE Last(c) \in 0 .. Len(c) - 2
    OBVIOUS
  <2>1. Last(c) = Last(s)
    BY <1>1, SensitiveTop
  <2>2. Last(s) >= 0
    BY <1>2, <1>3
  <2>3. IndexOf(s) = Last(s)
    BY <1>2, <2>2, UnsignedOfNat DEF IndexOf
  <2>. QED BY <1>1, <1>2, <1>3, <2>1, <2>2, <2>3
<1>. QED BY <1>3, <1>4, <1>5, <1>6, <1>7, <1>8, <1>9, Zenon DEF Undefined

-----------------------------------------------------------------------------

Blames == {"none", "flags", "undefined", "overflow", "wide", "index",
           "character", "memory", "threads"}

\* The two side by side, or the compiled program lost from sight.
SideBySide ==
  /\ Sound(block) /\ blame \in Blames
  /\ IF blame = "none" THEN Alike(stack, block.cells) /\ said[1] = said[2]
     ELSE block = EmptyBlock

Inv == StackTypes /\ SideBySide

\* When the compiled program is lost from sight there is nothing left to keep.
LEMMA LostSideBySide ==
  ASSUME NEW cause \in Blames \ {"none"}, LoseSight(cause)
  PROVE  SideBySide'
BY EmptySound DEF LoseSight, SideBySide

LEMMA InvStart == Init => Inv
<1>. SUFFICES ASSUME Init PROVE SideBySide
  BY StackTypesStart DEF Init, Inv
<1>1. stack = << >> /\ block = EmptyBlock /\ said[1] = said[2] /\ blame \in {"none", "flags"}
  BY DEF Init, SInit, Silence
<1>2. Alike(<< >>, << >>)
  BY EmptySeq DEF Alike
<1>3. EmptyBlock.cells = << >>
  BY DEF EmptyBlock
<1>. QED BY <1>1, <1>2, <1>3, EmptySound DEF SideBySide, Blames

\* A push of the two, with and without memory for the second.
LEMMA PushSideBySide ==
  ASSUME Inv, NEW op \in Pushes, NEW v \in Values, PushBoth(op, v)
  PROVE  SideBySide'
<1>1. /\ blame = "none" /\ Alike(stack, block.cells) /\ Sound(block)
      /\ stack' = Append(stack, Pushed(op, v))
  BY DEF Inv, SideBySide, PushBoth, Push
<1>2. PICK b \in PushedOn(block, Pushed(op, v)) : Follow(b) /\ (b.dropped \/ said' = Silence)
  BY DEF PushBoth
<1>. HIDE DEF Sound
<1>3. CASE b.dropped
  BY <1>2, <1>3, LostSideBySide DEF Follow, Blames
<1>4. CASE ~b.dropped
  <2>1. block' = b /\ blame' = "none" /\ said' = Silence
    BY <1>1, <1>2, <1>4 DEF Follow
  <2>2. Sound(b) /\ b.cells = Append(block.cells, Pushed(op, v))
    BY <1>1, <1>2, <1>4, PushedCells
  <2>3. Pushed(op, v) \in Int24s /\ Pushed(op, v) \in Ints
    BY PushedType, IntsHold
  <2>4. Alike(Append(stack, Pushed(op, v)), Append(block.cells, Pushed(op, v)))
    BY <1>1, <2>3, AlikeAppend
  <2>5. said'[1] = said'[2]
    BY <2>1 DEF Silence
  <2>6. Alike(stack', block'.cells)
    BY <1>1, <2>1, <2>2, <2>4
  <2>7. Sound(block')
    BY <2>1, <2>2
  <2>. QED BY <2>1, <2>5, <2>6, <2>7 DEF SideBySide, Blames, Alike, Sound, Block
<1>. QED BY <1>3, <1>4

LEMMA CauseIsABlame ==
  ASSUME NEW op
  PROVE  Cause(op) \in Blames
BY DEF Cause, Blames

\* Any other opcode of the two.
LEMMA PerformSideBySide ==
  ASSUME Inv, NEW op \in Opcodes, PerformBoth(op)
  PROVE  SideBySide'
<1>1. /\ blame = "none" /\ Alike(stack, block.cells) /\ Sound(block)
      /\ stack' = After(op, stack)
  BY DEF Inv, SideBySide, PerformBoth, Perform
<1>. HIDE DEF Sound
<1>2. CASE Cause(op) # "none"
  BY <1>2, CauseIsABlame, LostSideBySide DEF PerformBoth
<1>3. CASE Cause(op) = "none"
  <2>. DEFINE talk == <<Says(op, Last(stack), "ascii" \in flags, "nothing"),
                        Says(op, Last(block.cells), "ascii" \in flags, "garbage")>>
  <2>1. PICK b \in Statement(op, block) : Follow(b) /\ (b.dropped \/ said' = talk)
    BY <1>3 DEF PerformBoth
  <2>2. CASE b.dropped
    BY <2>1, <2>2, LostSideBySide DEF Follow, Blames
  <2>3. CASE ~b.dropped
    <3>1. block' = b /\ blame' = "none" /\ said' = talk
      BY <1>1, <2>1, <2>3 DEF Follow
    <3>2. Sound(b) /\ b.cells = CellsAfter(op, block.cells)
      BY <1>1, <2>1, <2>3, StatementSound, StatementCells
    <3>3. /\ Harmless(op, stack, block.cells)
          /\ ~(op = "PTC" /\ "ascii" \notin flags /\ Last(stack) > MAX_CHAR)
      BY <1>3, NoCauseIsHarmless
    <3>4. Alike(After(op, stack), CellsAfter(op, block.cells))
      BY <1>1, <3>3, AlikeAfter
    <3>5. talk[1] = talk[2]
      <4>1. ("ascii" \in flags) \in BOOLEAN
        OBVIOUS
      <4>. QED BY <1>1, <3>3, <4>1, SaysAgree
    <3>. HIDE DEF talk
    <3>6. said'[1] = said'[2]
      BY <3>1, <3>5
    <3>7. Alike(stack', block'.cells)
      BY <1>1, <3>1, <3>2, <3>4
    <3>8. Sound(block')
      BY <3>1, <3>2
    <3>. QED BY <3>1, <3>6, <3>7, <3>8 DEF SideBySide, Blames, Alike, Sound, Block
  <2>. QED BY <2>2, <2>3
<1>. QED BY <1>2, <1>3

\* No step of the two breaks the invariant.
LEMMA InvStep == Inv /\ [Next]_<<machine, compiled>> => Inv'
<1>. SUFFICES ASSUME Inv, [Next]_<<machine, compiled>> PROVE SideBySide'
  BY StepOfTheMachine, StackTypesStep DEF Inv
<1>1. CASE PartWays
  BY <1>1, LostSideBySide DEF PartWays, Blames
<1>2. CASE ExitBoth \/ UNCHANGED <<machine, compiled>>
  <2>1. UNCHANGED <<stack, compiled>>
    BY <1>2 DEF ExitBoth, Exit, machine
  <2>. QED BY <2>1 DEF Inv, SideBySide, compiled, Alike, Sound, Block
<1>3. CASE Alone
  <2>1. blame # "none" /\ UNCHANGED compiled
    BY <1>3 DEF Alone
  <2>. QED BY <2>1 DEF Inv, SideBySide, compiled, Sound, Block
<1>. QED BY <1>1, <1>2, <1>3, PushSideBySide, PerformSideBySide DEF Next

LEMMA InvTypes == Inv => TypeOK
<1>. SUFFICES ASSUME Inv PROVE TypeOK
  OBVIOUS
<1>1. STypeOK
  BY StackTypesType DEF Inv
<1>2. block.capacity \in InitialCapacity .. MaxCapacity
  BY DEF Inv, SideBySide, Sound
<1>3. block.cells \in Seq(Ints)
  <2>1. EmptyBlock.cells \in Seq(Ints)
    BY EmptySeq DEF EmptyBlock
  <2>. QED BY <2>1 DEF Inv, SideBySide, Alike
<1>. QED BY <1>1, <1>2, <1>3 DEF TypeOK, Inv, SideBySide, Blames

\* For numbers of every width, stacks of every height and every bound on memory: the
\* compiled program has the interpreter's stack, prints and branches alike until
\* something takes the blame (compiler::get_c_code against thread::tick).
THEOREM CompiledAgreesAlways == Spec => []CompiledAgrees
<1>1. Inv => CompiledAgrees
  <2>. SUFFICES ASSUME Inv, blame = "none"
                PROVE  /\ Len(block.cells) = Len(stack)
                       /\ \A k \in DOMAIN stack : Unsigned(block.cells[k]) = Unsigned(stack[k])
                       /\ said[1] = said[2]
    BY InvTypes DEF CompiledAgrees
  <2>1. Alike(stack, block.cells) /\ said[1] = said[2]
    BY DEF Inv, SideBySide
  <2>2. DOMAIN stack = 1 .. Len(stack)
    BY <2>1, LenProperties DEF Alike
  <2>. QED BY <2>1, <2>2 DEF Alike
<1>. QED BY <1>1, InvStart, InvStep, PTL DEF Spec

\* No statement of the compiled program is undefined in C (a stack that underflows, an
\* overflow, a division by zero, a shift or an index out of range), unless the
\* interpreter's opcode is or something takes the blame (compiler::get_c_code).
THEOREM CompiledIsDefinedAlways == Spec => []CompiledIsDefined
<1>1. Inv => CompiledIsDefined
  <2>. SUFFICES ASSUME Inv, blame = "none", NEW op \in Opcodes, Cause(op) = "none"
                PROVE  ~Undefined(op, block.cells)
    BY DEF CompiledIsDefined
  <2>1. Alike(stack, block.cells)
    BY DEF Inv, SideBySide
  <2>. QED BY <2>1, NoCauseIsHarmless, HarmlessIsDefined
<1>. QED BY <1>1, InvStart, InvStep, PTL DEF Spec
=============================================================================
