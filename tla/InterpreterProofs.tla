-------------------------- MODULE InterpreterProofs --------------------------
(***************************************************************************)
(* Theorems about Interpreter, for every program holder that satisfies     *)
(* HolderStaysInside and HolderCanFork, and for every bound; the last of   *)
(* them is that it implements ThreadPool.                                  *)
(***************************************************************************)
EXTENDS Interpreter, SequenceTheorems, TLAPS

-----------------------------------------------------------------------------
(* Sequences.                                                              *)

\* What RemoveAt, std::vector::erase of one element, leaves.
LEMMA RemoveAtElements ==
  ASSUME NEW S, NEW s \in Seq(S), NEW m \in 1 .. Len(s)
  PROVE  /\ RemoveAt(s, m) \in Seq(S)
         /\ Len(RemoveAt(s, m)) = Len(s) - 1
         /\ DOMAIN RemoveAt(s, m) = 1 .. Len(s) - 1
         /\ \A k \in 1 .. Len(s) - 1 :
              RemoveAt(s, m)[k] = IF k < m THEN s[k] ELSE s[k + 1]
<1>1. DEFINE before == SubSeq(s, 1, m - 1)
             after  == SubSeq(s, m + 1, Len(s))
<1>2. /\ before \in Seq(S) /\ Len(before) = m - 1
      /\ \A k \in 1 .. m - 1 : before[k] = s[k]
  BY SubSeqProperties, ElementOfSeq
<1>3. /\ after \in Seq(S) /\ Len(after) = Len(s) - m
      /\ \A k \in 1 .. Len(s) - m : after[k] = s[k + m]
  BY SubSeqProperties, ElementOfSeq
<1>4. RemoveAt(s, m) = before \o after
  BY DEF RemoveAt
<1>. HIDE DEF before, after
<1>5. /\ before \o after \in Seq(S)
      /\ Len(before \o after) = Len(before) + Len(after)
      /\ \A k \in 1 .. Len(before) + Len(after) :
           (before \o after)[k] =
             IF k <= Len(before) THEN before[k] ELSE after[k - Len(before)]
  BY <1>2, <1>3, ConcatProperties, Zenon
<1>6. Len(before \o after) = Len(s) - 1
  BY <1>2, <1>3, <1>5, LenProperties
<1>7. DOMAIN (before \o after) = 1 .. Len(s) - 1
  BY <1>5, <1>6, LenProperties
<1>8. ASSUME NEW k \in 1 .. Len(s) - 1
      PROVE  (before \o after)[k] = IF k < m THEN s[k] ELSE s[k + 1]
  <2>1. (before \o after)[k] = IF k <= m - 1 THEN before[k] ELSE after[k - (m - 1)]
    BY <1>2, <1>3, <1>5, LenProperties
  <2>2. CASE k < m
    BY <2>1, <2>2, <1>2
  <2>3. CASE ~(k < m)
    <3>1. k - (m - 1) \in 1 .. Len(s) - m
      BY <2>3, LenProperties
    <3>2. after[k - (m - 1)] = s[k - (m - 1) + m]
      BY <3>1, <1>3
    <3>3. k - (m - 1) + m = k + 1
      OBVIOUS
    <3>. QED BY <2>1, <2>3, <3>2, <3>3
  <2>. QED BY <2>2, <2>3
<1>. QED BY <1>4, <1>5, <1>6, <1>7, <1>8

-----------------------------------------------------------------------------
(* The vector and its side lists.                                          *)

Loaded == program \in Programs

VectorInv == TypeOK /\ Loaded /\ SideListsFit /\ StatusFitsOp /\ LoopsFit

\* A step that replaces the thread at index i leaves the others as they are.
LEMMA ReplaceCurr ==
  ASSUME TypeOK, Ticking, NEW t \in ThreadsOf(program),
         threads' = [threads EXCEPT ![i] = t]
  PROVE  /\ threads' \in Seq(ThreadsOf(program))
         /\ Len(threads') = Len(threads)
         /\ Indices' = Indices
         /\ i \in Indices
         /\ \A k \in Indices : threads'[k] = IF k = i THEN t ELSE threads[k]
<1>1. i \in 1 .. Len(threads)
  BY LenProperties DEF TypeOK, Ticking
<1>. QED BY <1>1, ExceptSeq DEF TypeOK, Indices

\* The threads in the vector are threads.
LEMMA ThreadTypes ==
  ASSUME TypeOK, NEW k \in Indices
  PROVE  /\ threads[k] \in ThreadsOf(program)
         /\ threads[k].ip \in HolderIPs(program)
         /\ threads[k].status \in Statuses
         /\ threads[k].number \in 0 .. MaxThreadCount
<1>1. threads[k] \in ThreadsOf(program)
  BY ElementOfSeq DEF TypeOK, Indices
<1>. QED BY <1>1 DEF ThreadsOf

\* A tick that adds the indices R, none above i, to the removed ones.
LEMMA RemovalStep ==
  ASSUME VectorInv, Ticking, NEW t \in ThreadsOf(program),
         threads' = [threads EXCEPT ![i] = t], i' = i + 1,
         NEW R \in SUBSET (1 .. i), Removed' = Removed \cup R, Over(t) => i \in R,
         \A j, k \in DOMAIN removal_indices' :
           j # k => removal_indices'[j] # removal_indices'[k]
  PROVE  RemovalFits'
<1>1. /\ Indices' = Indices /\ i \in Indices
      /\ \A k \in Indices : threads'[k] = IF k = i THEN t ELSE threads[k]
  BY ReplaceCurr DEF VectorInv
<1>2. /\ Removed \subseteq 1 .. i - 1 /\ Removed \subseteq Indices
      /\ \A k \in Indices : Over(threads[k]) => k \in Removed
  BY DEF VectorInv, SideListsFit, RemovalFits, Ticking
<1>3. Len(threads) \in Nat /\ i \in Nat \ {0}
  BY LenProperties DEF VectorInv, TypeOK
<1>4. Removed' \subseteq Indices'
  BY <1>1, <1>2, <1>3 DEF Indices
<1>5. Removed' \subseteq 1 .. i' - 1
  BY <1>2, <1>3
<1>6. \A k \in Indices' : Over(threads'[k]) => k \in Removed'
  BY <1>1, <1>2
<1>7. \A k \in Indices' : Over(threads[k])' => k \in Removed'
  BY <1>6 DEF Over
<1>. QED BY <1>4, <1>5, <1>7 DEF RemovalFits

\* A tick that removes R and takes entries out of the map, but not the index
\* of an entry that is left.
LEMMA MapStep ==
  ASSUME VectorInv, Ticking, NEW t \in ThreadsOf(program),
         threads' = [threads EXCEPT ![i] = t], i' = i + 1,
         NEW R \in SUBSET (1 .. i), Removed' = Removed \cup R,
         \A at \in DOMAIN waiting_coords' :
           /\ at \in DOMAIN waiting_coords
           /\ waiting_coords'[at] = waiting_coords[at]
           /\ waiting_coords[at] \notin R
  PROVE  MapFits'
<1>1. /\ Indices' = Indices /\ i \in Indices
      /\ \A k \in Indices : threads'[k] = IF k = i THEN t ELSE threads[k]
  BY ReplaceCurr DEF VectorInv
<1>2. \A at \in DOMAIN waiting_coords :
        LET k == waiting_coords[at]
        IN /\ k \in (1 .. i - 1) \ Removed
           /\ threads[k].status = "waiting" /\ HolderCoords(threads[k].ip) = at
  BY DEF VectorInv, SideListsFit, MapFits, Ticking
<1>3. Len(threads) \in Nat /\ i \in Nat \ {0}
  BY LenProperties DEF VectorInv, TypeOK
<1>4. SUFFICES ASSUME NEW at \in DOMAIN waiting_coords'
               PROVE  /\ waiting_coords'[at] \in (1 .. i' - 1) \ Removed'
                      /\ threads'[waiting_coords'[at]].status = "waiting"
                      /\ HolderCoords(threads'[waiting_coords'[at]].ip) = at
  BY DEF MapFits
<1>. DEFINE k == waiting_coords[at]
<1>5. /\ k \in 1 .. i - 1 /\ k \notin Removed /\ k \notin R /\ k # i
      /\ threads[k].status = "waiting" /\ HolderCoords(threads[k].ip) = at
  BY <1>2, <1>3
<1>6. k \in Indices /\ threads'[k] = threads[k]
  BY <1>1, <1>3, <1>5 DEF Indices
<1>. QED BY <1>3, <1>5, <1>6

\* run() starts with one thread and empty side lists.
LEMMA VectorInvInit == Init => VectorInv
<1>. SUFFICES ASSUME Init PROVE VectorInv
  OBVIOUS
<1>1. NewThread(StartIP, 0) \in ThreadsOf(program)
  BY HolderStaysInside, CountsAreNatural
     DEF Init, NewThread, ThreadsOf, Statuses
<1>2. TypeOK
  BY <1>1, CountsAreNatural DEF Init, Start, TypeOK
<1>3. Loaded
  BY DEF Init, Loaded
<1>4. SideListsFit
  BY DEF Init, Start, SideListsFit, RemovalFits, MapFits, Removed, ToSet, Indices, Over, NewThread
<1>5. StatusFitsOp
  BY DEF Init, Start, StatusFitsOp, Indices, NewThread
<1>6. LoopsFit
  BY DEF Init, Start, LoopsFit
<1>. QED BY <1>2, <1>3, <1>4, <1>5, <1>6 DEF VectorInv

\* Appending threads that have not run to others that have not.
LEMMA ConcatActive ==
  ASSUME NEW S, NEW s \in Seq(S), NEW b \in Seq(S),
         \A k \in DOMAIN s : s[k].status = "active",
         \A k \in DOMAIN b : b[k].status = "active"
  PROVE  /\ s \o b \in Seq(S)
         /\ \A k \in DOMAIN (s \o b) : (s \o b)[k].status = "active"
<1>1. /\ s \o b \in Seq(S) /\ Len(s \o b) = Len(s) + Len(b)
      /\ \A k \in 1 .. Len(s) + Len(b) :
           (s \o b)[k] = IF k <= Len(s) THEN s[k] ELSE b[k - Len(s)]
  BY ConcatProperties, Zenon
<1>2. /\ Len(s) \in Nat /\ DOMAIN s = 1 .. Len(s)
      /\ Len(b) \in Nat /\ DOMAIN b = 1 .. Len(b)
      /\ DOMAIN (s \o b) = 1 .. Len(s) + Len(b)
  BY <1>1, LenProperties
<1>3. ASSUME NEW k \in 1 .. Len(s) + Len(b)
      PROVE  (s \o b)[k].status = "active"
  <2>1. CASE k <= Len(s)
    BY <1>1, <1>2, <2>1
  <2>2. CASE k > Len(s)
    <3>1. k - Len(s) \in 1 .. Len(b)
      BY <1>2, <2>2
    <3>. QED BY <1>1, <1>2, <2>2, <3>1
  <2>. QED BY <1>2, <2>1, <2>2
<1>. QED BY <1>1, <1>2, <1>3

\* One lemma for each action: the invariant of the vector survives it.
LEMMA MoveKeepsVector == VectorInv /\ TickMove => VectorInv'
<1>. SUFFICES ASSUME VectorInv, TickMove PROVE VectorInv'
  OBVIOUS
<1>. USE DEF VectorInv
<1>1. Ticking /\ i \in Indices
  BY LenProperties DEF TickMove, Runs, Ticking, TypeOK, Indices
<1>2. HolderAt(program, curr.ip) \in Moving \cup Resting
  BY <1>1 DEF TickMove, Runs, StatusFitsOp, curr, op
<1>3. PICK goLeft \in BOOLEAN : threads' = [threads EXCEPT ![i] = Advanced(@, goLeft)]
  BY DEF TickMove, AdvanceCurr
<1>. DEFINE t == Advanced(curr, goLeft)
<1>4. /\ t \in ThreadsOf(program) /\ t.status = "active"
  <2>1. HolderAdvance(program, curr.ip, goLeft) \in HolderIPs(program)
    BY <1>1, <1>2, ThreadTypes, HolderStaysInside DEF Loaded, curr
  <2>. QED BY <1>1, <2>1, ThreadTypes DEF ThreadsOf, Statuses, curr, Advanced
<1>5. threads' = [threads EXCEPT ![i] = t]
  BY <1>3 DEF curr
<1>. HIDE DEF t
<1>6. /\ threads' \in Seq(ThreadsOf(program)) /\ Len(threads') = Len(threads)
      /\ Indices' = Indices
      /\ \A k \in Indices : threads'[k] = IF k = i THEN t ELSE threads[k]
  BY <1>1, <1>4, <1>5, ReplaceCurr
<1>7. /\ program' = program /\ phase' = phase /\ i' = i + 1 /\ runs' = runs
      /\ removal_indices' = removal_indices /\ pending_threads' = pending_threads
      /\ waiting_coords' = waiting_coords /\ thread_count' = thread_count
  BY DEF TickMove, NextThread, locals
<1>8. TypeOK'
  BY <1>6, <1>7 DEF TypeOK
<1>9. Loaded'
  BY <1>7 DEF Loaded
<1>10. RemovalFits'
  <2>1. Removed' = Removed \cup {} /\ {} \in SUBSET (1 .. i)
    BY <1>7 DEF Removed
  <2>2. ~Over(t)
    BY <1>4 DEF Over
  <2>3. \A j, k \in DOMAIN removal_indices' :
          j # k => removal_indices'[j] # removal_indices'[k]
    BY <1>7 DEF SideListsFit, RemovalFits
  <2>. QED BY <1>1, <1>4, <1>5, <1>7, <2>1, <2>2, <2>3, RemovalStep
<1>11. MapFits'
  <2>1. Removed' = Removed \cup {} /\ {} \in SUBSET (1 .. i)
    BY <1>7 DEF Removed
  <2>2. \A at \in DOMAIN waiting_coords' :
          /\ at \in DOMAIN waiting_coords
          /\ waiting_coords'[at] = waiting_coords[at]
          /\ waiting_coords[at] \notin {}
    BY <1>7
  <2>. QED BY <1>1, <1>4, <1>5, <1>7, <2>1, <2>2, MapStep
<1>12. StatusFitsOp'
  BY <1>4, <1>6, <1>7 DEF StatusFitsOp
<1>13. LoopsFit'
  BY <1>1, <1>6, <1>7 DEF LoopsFit, Ticking, TypeOK
<1>. QED BY <1>8, <1>9, <1>10, <1>11, <1>12, <1>13 DEF SideListsFit

\* ... PSC, PSI and SKP leave the thread where it is, idle.
LEMMA RestKeepsVector == VectorInv /\ TickRest => VectorInv'
<1>. SUFFICES ASSUME VectorInv, TickRest PROVE VectorInv'
  OBVIOUS
<1>. USE DEF VectorInv
<1>1. Ticking /\ i \in Indices
  BY LenProperties DEF TickRest, Runs, Ticking, TypeOK, Indices
<1>. DEFINE t == [curr EXCEPT !.status = "idle"]
<1>2. /\ t \in ThreadsOf(program) /\ t.status = "idle"
      /\ HolderAt(program, t.ip) \in Resting
  BY <1>1, ThreadTypes DEF ThreadsOf, Statuses, curr, TickRest, Runs, op
<1>3. threads' = [threads EXCEPT ![i] = t]
  BY DEF TickRest, curr
<1>. HIDE DEF t
<1>4. /\ threads' \in Seq(ThreadsOf(program)) /\ Len(threads') = Len(threads)
      /\ Indices' = Indices
      /\ \A k \in Indices : threads'[k] = IF k = i THEN t ELSE threads[k]
  BY <1>1, <1>2, <1>3, ReplaceCurr
<1>5. /\ program' = program /\ phase' = phase /\ i' = i + 1 /\ runs' = runs
      /\ removal_indices' = removal_indices /\ pending_threads' = pending_threads
      /\ waiting_coords' = waiting_coords /\ thread_count' = thread_count
  BY DEF TickRest, NextThread, locals
<1>6. TypeOK' /\ Loaded'
  BY <1>4, <1>5 DEF TypeOK, Loaded
<1>7. Removed' = Removed \cup {} /\ {} \in SUBSET (1 .. i)
  BY <1>5 DEF Removed
<1>8. RemovalFits'
  <2>1. ~Over(t)
    BY <1>2 DEF Over
  <2>2. \A j, k \in DOMAIN removal_indices' :
          j # k => removal_indices'[j] # removal_indices'[k]
    BY <1>5 DEF SideListsFit, RemovalFits
  <2>. QED BY <1>1, <1>2, <1>3, <1>5, <1>7, <2>1, <2>2, RemovalStep
<1>9. MapFits'
  <2>1. \A at \in DOMAIN waiting_coords' :
          /\ at \in DOMAIN waiting_coords
          /\ waiting_coords'[at] = waiting_coords[at]
          /\ waiting_coords[at] \notin {}
    BY <1>5
  <2>. QED BY <1>1, <1>2, <1>3, <1>5, <1>7, <2>1, MapStep
<1>10. StatusFitsOp'
  BY <1>2, <1>4, <1>5 DEF StatusFitsOp
<1>11. LoopsFit'
  BY <1>1, <1>4, <1>5 DEF LoopsFit, Ticking, TypeOK
<1>. QED BY <1>6, <1>8, <1>9, <1>10, <1>11 DEF SideListsFit

\* Appending the index of the current thread keeps the indices apart.
LEMMA AppendIndex ==
  ASSUME VectorInv, Ticking, removal_indices' = Append(removal_indices, i)
  PROVE  /\ removal_indices' \in Seq(Nat)
         /\ Removed' = Removed \cup {i} /\ {i} \in SUBSET (1 .. i)
         /\ \A j, k \in DOMAIN removal_indices' :
              j # k => removal_indices'[j] # removal_indices'[k]
<1>1. /\ removal_indices \in Seq(Nat) /\ i \in Nat \ {0}
      /\ i \notin Removed
      /\ \A j, k \in DOMAIN removal_indices :
           j # k => removal_indices[j] # removal_indices[k]
  BY DEF VectorInv, TypeOK, SideListsFit, RemovalFits, Ticking
<1>2. /\ removal_indices' \in Seq(Nat)
      /\ Len(removal_indices') = Len(removal_indices) + 1
      /\ \A k \in 1 .. Len(removal_indices) : removal_indices'[k] = removal_indices[k]
      /\ removal_indices'[Len(removal_indices) + 1] = i
  BY <1>1, AppendProperties
<1>3. /\ DOMAIN removal_indices = 1 .. Len(removal_indices)
      /\ DOMAIN removal_indices' = 1 .. Len(removal_indices) + 1
      /\ Len(removal_indices) \in Nat
  BY <1>1, <1>2, LenProperties
<1>4. Removed' = Removed \cup {i}
  BY <1>2, <1>3 DEF Removed, ToSet
<1>5. \A k \in DOMAIN removal_indices : removal_indices[k] # i
  BY <1>1 DEF Removed, ToSet
<1>6. \A j, k \in DOMAIN removal_indices' :
        j # k => removal_indices'[j] # removal_indices'[k]
  BY <1>1, <1>2, <1>3, <1>5
<1>. QED BY <1>1, <1>2, <1>4, <1>6

\* ... TKL puts the current thread on the removal list.
LEMMA KillKeepsVector == VectorInv /\ TickKill => VectorInv'
<1>. SUFFICES ASSUME VectorInv, TickKill PROVE VectorInv'
  OBVIOUS
<1>. USE DEF VectorInv
<1>1. Ticking /\ i \in Indices
  BY LenProperties DEF TickKill, Runs, Ticking, TypeOK, Indices
<1>. DEFINE t == [curr EXCEPT !.status = "terminated"]
<1>2. t \in ThreadsOf(program) /\ t.status = "terminated"
  BY <1>1, ThreadTypes DEF ThreadsOf, Statuses, curr
<1>3. threads' = [threads EXCEPT ![i] = t]
  BY DEF TickKill, curr
<1>. HIDE DEF t
<1>4. /\ threads' \in Seq(ThreadsOf(program)) /\ Len(threads') = Len(threads)
      /\ Indices' = Indices
      /\ \A k \in Indices : threads'[k] = IF k = i THEN t ELSE threads[k]
  BY <1>1, <1>2, <1>3, ReplaceCurr
<1>5. /\ program' = program /\ phase' = phase /\ i' = i + 1 /\ runs' = runs
      /\ pending_threads' = pending_threads
      /\ waiting_coords' = waiting_coords /\ thread_count' = thread_count
  BY DEF TickKill, NextThread
<1>6. /\ removal_indices' \in Seq(Nat)
      /\ Removed' = Removed \cup {i} /\ {i} \in SUBSET (1 .. i)
      /\ \A j, k \in DOMAIN removal_indices' :
           j # k => removal_indices'[j] # removal_indices'[k]
  BY <1>1, AppendIndex DEF TickKill
<1>7. TypeOK' /\ Loaded'
  BY <1>4, <1>5, <1>6 DEF TypeOK, Loaded
<1>8. RemovalFits'
  BY <1>1, <1>2, <1>3, <1>5, <1>6, RemovalStep
<1>9. MapFits'
  <2>1. \A at \in DOMAIN waiting_coords' :
          /\ at \in DOMAIN waiting_coords
          /\ waiting_coords'[at] = waiting_coords[at]
          /\ waiting_coords[at] \notin {i}
    BY <1>1, <1>5 DEF SideListsFit, MapFits, Ticking, TypeOK
  <2>. QED BY <1>1, <1>2, <1>3, <1>5, <1>6, <2>1, MapStep
<1>10. StatusFitsOp'
  BY <1>2, <1>4, <1>5 DEF StatusFitsOp
<1>11. LoopsFit'
  BY <1>1, <1>4, <1>5 DEF LoopsFit, Ticking, TypeOK
<1>. QED BY <1>7, <1>8, <1>9, <1>10, <1>11 DEF SideListsFit

\* A thread that stops, for the first time or still, stands on a TJN.
LEMMA WaitsOnJoin ==
  ASSUME VectorInv, Waits
  PROVE  LET t == [curr EXCEPT !.status = "waiting"]
         IN /\ Ticking /\ i \in Indices
            /\ t \in ThreadsOf(program) /\ t.status = "waiting" /\ t.ip = curr.ip
            /\ HolderAt(program, curr.ip) = "TJN"
<1>. USE DEF VectorInv
<1>1. Ticking /\ i \in Indices
  BY LenProperties DEF Waits, Ticking, TypeOK, Indices
<1>2. HolderAt(program, curr.ip) = "TJN"
  BY <1>1 DEF Waits, StatusFitsOp, curr, op
<1>. QED BY <1>1, <1>2, ThreadTypes DEF ThreadsOf, Statuses, curr

\* The partner that the map names for the current thread.
LEMMA Partner ==
  ASSUME VectorInv, Meets
  PROVE  LET value == waiting_coords[coords]
         IN /\ value \in 1 .. i - 1 /\ value \in Indices /\ value \notin Removed
            /\ threads[value].status = "waiting"
            /\ HolderCoords(threads[value].ip) = coords
            /\ threads[value].ip \in HolderIPs(program)
            /\ HolderAt(program, threads[value].ip) = "TJN"
<1>. USE DEF VectorInv
<1>. DEFINE value == waiting_coords[coords]
<1>1. /\ value \in 1 .. i - 1 /\ value \notin Removed
      /\ threads[value].status = "waiting"
      /\ HolderCoords(threads[value].ip) = coords
  BY DEF Meets, Waits, Ticking, SideListsFit, MapFits
<1>2. value \in Indices
  BY <1>1, LenProperties DEF Meets, Waits, Ticking, TypeOK, Indices
<1>3. threads[value].ip \in HolderIPs(program)
  BY <1>2, ThreadTypes
<1>4. HolderAt(program, threads[value].ip) = "TJN"
  BY <1>1, <1>2 DEF StatusFitsOp
<1>. QED BY <1>1, <1>2, <1>3, <1>4

\* The threads that split_thread and join_threads create are threads.
LEMMA Heirs ==
  ASSUME VectorInv
  PROVE  /\ TickSplit =>
              LET ips == HolderSplit(program, curr.ip)
              IN <<NewThread(ips[1], thread_count + 1), NewThread(ips[2], thread_count + 2)>>
                   \in ThreadsOf(program) \X ThreadsOf(program)
         /\ TickJoin =>
              NewThread(HolderJoin(program, threads[waiting_coords[coords]].ip), thread_count + 1)
                \in ThreadsOf(program)
<1>. USE DEF VectorInv
<1>1. ASSUME TickSplit
      PROVE  LET ips == HolderSplit(program, curr.ip)
             IN <<NewThread(ips[1], thread_count + 1), NewThread(ips[2], thread_count + 2)>>
                  \in ThreadsOf(program) \X ThreadsOf(program)
  <2>. DEFINE ips == HolderSplit(program, curr.ip)
  <2>1. i \in Indices
    BY <1>1, LenProperties DEF TickSplit, Runs, Ticking, TypeOK, Indices
  <2>2. ips \in HolderIPs(program) \X HolderIPs(program)
    BY <1>1, <2>1, ThreadTypes, HolderStaysInside DEF TickSplit, Runs, curr, op, Loaded
  <2>3. ips[1] \in HolderIPs(program) /\ ips[2] \in HolderIPs(program)
    BY <2>2
  <2>4. thread_count + 1 \in 0 .. MaxThreadCount /\ thread_count + 2 \in 0 .. MaxThreadCount
    BY <1>1, CountsAreNatural DEF TickSplit, TypeOK
  <2>. HIDE DEF ips
  <2>. QED BY <2>3, <2>4 DEF NewThread, ThreadsOf, Statuses, ips
<1>2. ASSUME TickJoin
      PROVE  NewThread(HolderJoin(program, threads[waiting_coords[coords]].ip), thread_count + 1)
               \in ThreadsOf(program)
  <2>1. HolderJoin(program, threads[waiting_coords[coords]].ip) \in HolderIPs(program)
    BY <1>2, Partner, HolderStaysInside DEF TickJoin, Loaded
  <2>2. thread_count + 1 \in 0 .. MaxThreadCount
    BY <1>2, CountsAreNatural DEF TickJoin, TypeOK
  <2>. QED BY <2>1, <2>2 DEF NewThread, ThreadsOf, Statuses
<1>. QED BY <1>1, <1>2

\* ... TSP also appends two pending threads.
LEMMA SplitKeepsVector == VectorInv /\ TickSplit => VectorInv'
<1>. SUFFICES ASSUME VectorInv, TickSplit PROVE VectorInv'
  OBVIOUS
<1>. USE DEF VectorInv
<1>1. Ticking /\ i \in Indices
  BY LenProperties DEF TickSplit, Runs, Ticking, TypeOK, Indices
<1>. DEFINE t    == [curr EXCEPT !.status = "splitting"]
            ips  == HolderSplit(program, curr.ip)
            born == <<NewThread(ips[1], thread_count + 1), NewThread(ips[2], thread_count + 2)>>
<1>2. t \in ThreadsOf(program) /\ t.status = "splitting"
  BY <1>1, ThreadTypes DEF ThreadsOf, Statuses, curr
<1>3. threads' = [threads EXCEPT ![i] = t]
  BY DEF TickSplit, curr
<1>4. /\ born \in Seq(ThreadsOf(program)) /\ Len(born) = 2
      /\ \A k \in DOMAIN born : born[k].status = "active"
  BY Heirs DEF NewThread
<1>5. pending_threads' = pending_threads \o born
  BY DEF TickSplit
<1>. HIDE DEF t, born
<1>6. /\ threads' \in Seq(ThreadsOf(program)) /\ Len(threads') = Len(threads)
      /\ Indices' = Indices
      /\ \A k \in Indices : threads'[k] = IF k = i THEN t ELSE threads[k]
  BY <1>1, <1>2, <1>3, ReplaceCurr
<1>7. /\ program' = program /\ phase' = phase /\ i' = i + 1 /\ runs' = runs
      /\ waiting_coords' = waiting_coords /\ thread_count' = thread_count + 2
      /\ thread_count + 2 <= MaxThreadCount
  BY DEF TickSplit, NextThread
<1>8. /\ removal_indices' \in Seq(Nat)
      /\ Removed' = Removed \cup {i} /\ {i} \in SUBSET (1 .. i)
      /\ \A j, k \in DOMAIN removal_indices' :
           j # k => removal_indices'[j] # removal_indices'[k]
  BY <1>1, AppendIndex DEF TickSplit
<1>9. /\ pending_threads' \in Seq(ThreadsOf(program))
      /\ \A k \in DOMAIN pending_threads' : pending_threads'[k].status = "active"
  <2>1. /\ pending_threads \in Seq(ThreadsOf(program))
        /\ \A k \in DOMAIN pending_threads : pending_threads[k].status = "active"
    BY DEF TypeOK, LoopsFit
  <2>. QED BY <1>4, <1>5, <2>1, ConcatActive
<1>10. thread_count' \in 0 .. MaxThreadCount
  BY <1>7, CountsAreNatural DEF TypeOK
<1>11. TypeOK' /\ Loaded'
  BY <1>6, <1>7, <1>8, <1>9, <1>10 DEF TypeOK, Loaded
<1>12. RemovalFits'
  BY <1>1, <1>2, <1>3, <1>7, <1>8, RemovalStep
<1>13. MapFits'
  <2>1. \A at \in DOMAIN waiting_coords' :
          /\ at \in DOMAIN waiting_coords
          /\ waiting_coords'[at] = waiting_coords[at]
          /\ waiting_coords[at] \notin {i}
    BY <1>1, <1>7 DEF SideListsFit, MapFits, Ticking, TypeOK
  <2>. QED BY <1>1, <1>2, <1>3, <1>7, <1>8, <2>1, MapStep
<1>14. StatusFitsOp'
  BY <1>2, <1>6, <1>7 DEF StatusFitsOp
<1>15. LoopsFit'
  BY <1>1, <1>6, <1>7, <1>9 DEF LoopsFit, Ticking, TypeOK
<1>. QED BY <1>11, <1>12, <1>13, <1>14, <1>15 DEF SideListsFit

\* ... a thread that finds nobody is entered into the map.
LEMMA WaitKeepsVector == VectorInv /\ TickWait => VectorInv'
<1>. SUFFICES ASSUME VectorInv, TickWait PROVE VectorInv'
  OBVIOUS
<1>. USE DEF VectorInv
<1>. DEFINE t == [curr EXCEPT !.status = "waiting"]
<1>1. /\ Ticking /\ i \in Indices
      /\ t \in ThreadsOf(program) /\ t.status = "waiting" /\ t.ip = curr.ip
      /\ HolderAt(program, t.ip) = "TJN"
  BY WaitsOnJoin DEF TickWait
<1>2. threads' = [threads EXCEPT ![i] = t]
  BY DEF TickWait, curr
<1>. HIDE DEF t
<1>3. /\ threads' \in Seq(ThreadsOf(program)) /\ Len(threads') = Len(threads)
      /\ Indices' = Indices
      /\ \A k \in Indices : threads'[k] = IF k = i THEN t ELSE threads[k]
  BY <1>1, <1>2, ReplaceCurr
<1>4. /\ program' = program /\ phase' = phase /\ i' = i + 1 /\ runs' = runs
      /\ removal_indices' = removal_indices /\ pending_threads' = pending_threads
      /\ thread_count' = thread_count
  BY DEF TickWait, NextThread
<1>5. waiting_coords' = [at \in DOMAIN waiting_coords \cup {coords} |->
                           IF at = coords THEN i ELSE waiting_coords[at]]
  BY DEF TickWait
<1>6. TypeOK' /\ Loaded'
  <2>1. waiting_coords' \in [DOMAIN waiting_coords' -> Nat]
    BY <1>5 DEF TypeOK
  <2>. QED BY <1>3, <1>4, <2>1 DEF TypeOK, Loaded
<1>7. Removed' = Removed \cup {} /\ {} \in SUBSET (1 .. i)
  BY <1>4 DEF Removed
<1>8. RemovalFits'
  <2>1. ~Over(t)
    BY <1>1 DEF Over
  <2>2. \A j, k \in DOMAIN removal_indices' :
          j # k => removal_indices'[j] # removal_indices'[k]
    BY <1>4 DEF SideListsFit, RemovalFits
  <2>. QED BY <1>1, <1>2, <1>4, <1>7, <2>1, <2>2, RemovalStep
<1>9. MapFits'
  <2>1. /\ Removed \subseteq 1 .. i - 1 /\ Removed' = Removed
        /\ i \in Nat \ {0} /\ Len(threads) \in Nat
    BY <1>1, <1>7, LenProperties DEF SideListsFit, RemovalFits, Ticking, TypeOK
  <2>2. ASSUME NEW at \in DOMAIN waiting_coords'
        PROVE  /\ waiting_coords'[at] \in (1 .. i' - 1) \ Removed'
               /\ threads'[waiting_coords'[at]].status = "waiting"
               /\ HolderCoords(threads'[waiting_coords'[at]].ip) = at
    <3>1. CASE at = coords
      <4>1. waiting_coords'[at] = i
        BY <1>5, <3>1
      <4>2. threads'[i] = t /\ HolderCoords(t.ip) = at
        BY <1>1, <1>3, <3>1 DEF coords
      <4>. QED BY <1>1, <1>4, <2>1, <4>1, <4>2
    <3>2. CASE at # coords
      <4>1. at \in DOMAIN waiting_coords /\ waiting_coords'[at] = waiting_coords[at]
        BY <1>5, <3>2
      <4>2. /\ waiting_coords[at] \in (1 .. i - 1) \ Removed
            /\ threads[waiting_coords[at]].status = "waiting"
            /\ HolderCoords(threads[waiting_coords[at]].ip) = at
        BY <1>1, <4>1 DEF SideListsFit, MapFits, Ticking
      <4>3. threads'[waiting_coords[at]] = threads[waiting_coords[at]]
        BY <1>1, <1>3, <2>1, <4>2 DEF Indices
      <4>. QED BY <1>4, <2>1, <4>1, <4>2, <4>3
    <3>. QED BY <3>1, <3>2
  <2>. QED BY <2>2 DEF MapFits
<1>10. StatusFitsOp'
  BY <1>1, <1>3, <1>4 DEF StatusFitsOp
<1>11. LoopsFit'
  BY <1>1, <1>3, <1>4 DEF LoopsFit, Ticking, TypeOK
<1>. QED BY <1>6, <1>8, <1>9, <1>10, <1>11 DEF SideListsFit

\* A join removes the current thread and its partner.
LEMMA AppendPair ==
  ASSUME VectorInv, Meets,
         removal_indices' = removal_indices \o <<waiting_coords[coords], i>>
  PROVE  LET value == waiting_coords[coords]
         IN /\ removal_indices' \in Seq(Nat)
            /\ Removed' = Removed \cup {value, i} /\ {value, i} \in SUBSET (1 .. i)
            /\ \A j, k \in DOMAIN removal_indices' :
                 j # k => removal_indices'[j] # removal_indices'[k]
<1>. DEFINE value == waiting_coords[coords]
            pair  == <<value, i>>
            n     == Len(removal_indices)
<1>1. /\ removal_indices \in Seq(Nat) /\ i \in Nat \ {0} /\ value \in 1 .. i - 1
      /\ i \notin Removed /\ value \notin Removed
      /\ \A j, k \in DOMAIN removal_indices :
           j # k => removal_indices[j] # removal_indices[k]
  BY Partner DEF VectorInv, TypeOK, SideListsFit, RemovalFits, Meets, Waits, Ticking
<1>2. pair \in Seq(Nat) /\ Len(pair) = 2 /\ pair[1] = value /\ pair[2] = i
  BY <1>1
<1>. HIDE DEF value, pair
<1>3. /\ removal_indices \o pair \in Seq(Nat) /\ Len(removal_indices \o pair) = n + Len(pair)
      /\ \A k \in 1 .. n + Len(pair) :
           (removal_indices \o pair)[k] =
             IF k <= n THEN removal_indices[k] ELSE pair[k - n]
  BY <1>1, <1>2, ConcatProperties, Zenon
<1>4. removal_indices' = removal_indices \o pair
  BY DEF pair, value
<1>5. n \in Nat /\ DOMAIN removal_indices = 1 .. n /\ DOMAIN removal_indices' = 1 .. n + 2
  BY <1>1, <1>2, <1>3, <1>4, LenProperties
<1>6. /\ \A k \in 1 .. n : removal_indices'[k] = removal_indices[k]
      /\ removal_indices'[n + 1] = value /\ removal_indices'[n + 2] = i
  <2>1. \A k \in 1 .. n : removal_indices'[k] = removal_indices[k]
    BY <1>2, <1>3, <1>4, <1>5
  <2>2. removal_indices'[n + 1] = pair[n + 1 - n] /\ n + 1 - n = 1
    BY <1>2, <1>3, <1>4, <1>5
  <2>3. removal_indices'[n + 2] = pair[n + 2 - n] /\ n + 2 - n = 2
    BY <1>2, <1>3, <1>4, <1>5
  <2>. QED BY <1>2, <2>1, <2>2, <2>3
<1>7. 1 .. n + 2 = (1 .. n) \cup {n + 1, n + 2}
  BY <1>5
<1>8. Removed' = Removed \cup {value, i}
  <2>1. Removed = { removal_indices[k] : k \in 1 .. n }
    BY <1>5 DEF Removed, ToSet
  <2>2. Removed' = { removal_indices'[k] : k \in (1 .. n) \cup {n + 1, n + 2} }
    BY <1>5, <1>7 DEF Removed, ToSet
  <2>. QED BY <1>6, <2>1, <2>2, Zenon
<1>9. \A k \in 1 .. n : removal_indices[k] # value /\ removal_indices[k] # i
  BY <1>1, <1>5 DEF Removed, ToSet
<1>10. value # i /\ {value, i} \in SUBSET (1 .. i)
  BY <1>1
<1>11. ASSUME NEW j \in DOMAIN removal_indices', NEW k \in DOMAIN removal_indices', j # k
       PROVE  removal_indices'[j] # removal_indices'[k]
  <2>1. /\ j \in 1 .. n \/ j = n + 1 \/ j = n + 2
        /\ k \in 1 .. n \/ k = n + 1 \/ k = n + 2
    BY <1>5, <1>7
  <2>2. j \in 1 .. n /\ k \in 1 .. n => removal_indices'[j] # removal_indices'[k]
    BY <1>1, <1>5, <1>6, <1>11, Zenon
  <2>3. CASE j \in 1 .. n
    BY <1>6, <1>9, <2>1, <2>2, <2>3, Zenon
  <2>4. CASE k \in 1 .. n
    BY <1>6, <1>9, <2>1, <2>2, <2>4, Zenon
  <2>5. CASE j = n + 1 /\ k = n + 2
    BY <1>6, <1>10, <2>5, Zenon
  <2>6. CASE j = n + 2 /\ k = n + 1
    BY <1>6, <1>10, <2>6, Zenon
  <2>. QED BY <1>11, <2>1, <2>3, <2>4, <2>5, <2>6
<1>. QED BY <1>3, <1>4, <1>8, <1>10, <1>11 DEF value

\* ... a thread that finds a partner takes it out of the map, and both are
\* removed.
LEMMA JoinKeepsVector == VectorInv /\ TickJoin => VectorInv'
<1>. SUFFICES ASSUME VectorInv, TickJoin PROVE VectorInv'
  OBVIOUS
<1>. USE DEF VectorInv
<1>. DEFINE t     == [curr EXCEPT !.status = "waiting"]
            value == waiting_coords[coords]
            born  == NewThread(HolderJoin(program, threads[value].ip), thread_count + 1)
<1>1. /\ Ticking /\ i \in Indices /\ Meets
      /\ t \in ThreadsOf(program) /\ t.status = "waiting" /\ t.ip = curr.ip
      /\ HolderAt(program, t.ip) = "TJN"
  BY WaitsOnJoin DEF TickJoin, Meets
<1>2. threads' = [threads EXCEPT ![i] = t]
  BY DEF TickJoin, curr
<1>3. /\ value \in 1 .. i - 1 /\ value \in Indices /\ value \notin Removed
      /\ HolderCoords(threads[value].ip) = coords
      /\ threads[value].ip \in HolderIPs(program)
      /\ HolderAt(program, threads[value].ip) = "TJN"
  BY <1>1, Partner
<1>4. born \in ThreadsOf(program) /\ born.status = "active"
  BY Heirs DEF NewThread
<1>5. /\ program' = program /\ phase' = phase /\ i' = i + 1 /\ runs' = runs
      /\ thread_count' = thread_count + 1 /\ thread_count + 1 <= MaxThreadCount
      /\ pending_threads' = Append(pending_threads, born)
      /\ removal_indices' = removal_indices \o <<value, i>>
      /\ waiting_coords' = [at \in DOMAIN waiting_coords \ {coords} |-> waiting_coords[at]]
  BY DEF TickJoin, NextThread
<1>. HIDE DEF t, born
<1>6. /\ removal_indices' \in Seq(Nat)
      /\ Removed' = Removed \cup {value, i} /\ {value, i} \in SUBSET (1 .. i)
      /\ \A j, k \in DOMAIN removal_indices' :
           j # k => removal_indices'[j] # removal_indices'[k]
  BY <1>1, <1>5, AppendPair
<1>. HIDE DEF value
<1>7. /\ threads' \in Seq(ThreadsOf(program)) /\ Len(threads') = Len(threads)
      /\ Indices' = Indices
      /\ \A k \in Indices : threads'[k] = IF k = i THEN t ELSE threads[k]
  BY <1>1, <1>2, ReplaceCurr
<1>8. /\ pending_threads' \in Seq(ThreadsOf(program))
      /\ \A k \in DOMAIN pending_threads' : pending_threads'[k].status = "active"
  <2>1. /\ pending_threads \in Seq(ThreadsOf(program))
        /\ \A k \in DOMAIN pending_threads : pending_threads[k].status = "active"
    BY DEF TypeOK, LoopsFit
  <2>2. /\ pending_threads' \in Seq(ThreadsOf(program))
        /\ Len(pending_threads') = Len(pending_threads) + 1
        /\ \A k \in 1 .. Len(pending_threads) : pending_threads'[k] = pending_threads[k]
        /\ pending_threads'[Len(pending_threads) + 1] = born
    BY <1>4, <1>5, <2>1, AppendProperties
  <2>3. /\ DOMAIN pending_threads = 1 .. Len(pending_threads)
        /\ DOMAIN pending_threads' = 1 .. Len(pending_threads) + 1
        /\ Len(pending_threads) \in Nat
    BY <2>1, <2>2, LenProperties
  <2>. QED BY <1>4, <2>1, <2>2, <2>3
<1>9. TypeOK' /\ Loaded'
  <2>1. waiting_coords' \in [DOMAIN waiting_coords' -> Nat]
    BY <1>5 DEF TypeOK
  <2>2. thread_count' \in 0 .. MaxThreadCount
    BY <1>5, CountsAreNatural DEF TypeOK
  <2>. QED BY <1>5, <1>6, <1>7, <1>8, <2>1, <2>2 DEF TypeOK, Loaded
<1>10. RemovalFits'
  BY <1>1, <1>2, <1>5, <1>6, RemovalStep
<1>11. MapFits'
  <2>1. ASSUME NEW at \in DOMAIN waiting_coords'
        PROVE  /\ at \in DOMAIN waiting_coords
               /\ waiting_coords'[at] = waiting_coords[at]
               /\ waiting_coords[at] \notin {value, i}
    <3>1. /\ at \in DOMAIN waiting_coords /\ at # coords
          /\ waiting_coords'[at] = waiting_coords[at]
      BY <1>5
    <3>2. /\ waiting_coords[at] \in 1 .. i - 1
          /\ HolderCoords(threads[waiting_coords[at]].ip) = at
      BY <1>1, <3>1 DEF SideListsFit, MapFits, Ticking
    <3>. QED BY <1>3, <3>1, <3>2 DEF TypeOK
  <2>. QED BY <1>1, <1>2, <1>5, <1>6, <2>1, MapStep
<1>12. StatusFitsOp'
  BY <1>1, <1>5, <1>7 DEF StatusFitsOp
<1>13. LoopsFit'
  BY <1>1, <1>5, <1>7, <1>8 DEF LoopsFit, Ticking, TypeOK
<1>. QED BY <1>9, <1>10, <1>11, <1>12, <1>13 DEF SideListsFit

\* Taking the highest of distinct indices out of the list leaves the others.
LEMMA TakeHighest ==
  ASSUME NEW s \in Seq(Nat), NEW k \in DOMAIN s,
         \A j \in DOMAIN s : s[j] <= s[k],
         \A j, l \in DOMAIN s : j # l => s[j] # s[l]
  PROVE  /\ RemoveAt(s, k) \in Seq(Nat)
         /\ ToSet(RemoveAt(s, k)) = ToSet(s) \ {s[k]}
         /\ \A m \in ToSet(RemoveAt(s, k)) : m < s[k]
         /\ \A j, l \in DOMAIN RemoveAt(s, k) :
              j # l => RemoveAt(s, k)[j] # RemoveAt(s, k)[l]
<1>. DEFINE n     == Len(s)
            r     == RemoveAt(s, k)
            At(j) == IF j < k THEN j ELSE j + 1
<1>1. n \in Nat /\ DOMAIN s = 1 .. n /\ k \in 1 .. n
  BY LenProperties
<1>2. /\ r \in Seq(Nat) /\ DOMAIN r = 1 .. n - 1
      /\ \A j \in 1 .. n - 1 : r[j] = IF j < k THEN s[j] ELSE s[j + 1]
  BY <1>1, RemoveAtElements
<1>. HIDE DEF n, r
<1>3. \A j \in 1 .. n - 1 : r[j] = s[At(j)] /\ At(j) \in 1 .. n /\ At(j) # k
  BY <1>1, <1>2
<1>4. \A j, l \in 1 .. n - 1 : j # l => At(j) # At(l)
  BY <1>1
<1>5. \A j \in (1 .. n) \ {k} : \E l \in 1 .. n - 1 : At(l) = j
  <2>. SUFFICES ASSUME NEW j \in (1 .. n) \ {k} PROVE \E l \in 1 .. n - 1 : At(l) = j
    OBVIOUS
  <2>1. CASE j < k
    BY <1>1, <2>1
  <2>2. CASE j > k
    <3>1. j - 1 \in 1 .. n - 1 /\ At(j - 1) = j
      BY <1>1, <2>2
    <3>. QED BY <3>1
  <2>. QED BY <1>1, <2>1, <2>2
<1>6. \A j \in 1 .. n : s[j] \in Nat
  BY <1>1, ElementOfSeq
<1>. HIDE DEF At
<1>7. ToSet(r) = ToSet(s) \ {s[k]}
  <2>1. ToSet(r) = { r[j] : j \in 1 .. n - 1 } /\ ToSet(s) = { s[j] : j \in 1 .. n }
    BY <1>1, <1>2 DEF ToSet
  <2>2. \A j \in (1 .. n) \ {k} : s[j] # s[k]
    BY <1>1
  <2>3. ASSUME NEW j \in 1 .. n - 1 PROVE r[j] \in ToSet(s) \ {s[k]}
    BY <1>3, <2>1, <2>2
  <2>4. ASSUME NEW j \in 1 .. n, s[j] # s[k] PROVE s[j] \in ToSet(r)
    <3>1. PICK l \in 1 .. n - 1 : At(l) = j
      BY <1>5, <2>4
    <3>. QED BY <1>3, <2>1, <3>1
  <2>. QED BY <2>1, <2>3, <2>4
<1>8. ASSUME NEW m \in ToSet(r) PROVE m < s[k]
  <2>1. PICK j \in 1 .. n : m = s[j]
    BY <1>1, <1>7 DEF ToSet
  <2>2. s[j] <= s[k] /\ s[j] # s[k] /\ s[j] \in Nat /\ s[k] \in Nat
    BY <1>1, <1>6, <1>7, <2>1
  <2>. QED BY <2>1, <2>2
<1>9. \A j, l \in DOMAIN r : j # l => r[j] # r[l]
  BY <1>1, <1>2, <1>3, <1>4
<1>. QED BY <1>2, <1>7, <1>8, <1>9 DEF r

\* ... erasing the highest index shifts no index that is still to be erased.
LEMMA EraseKeepsVector == VectorInv /\ Erase => VectorInv'
<1>. SUFFICES ASSUME VectorInv, Erase PROVE VectorInv'
  OBVIOUS
<1>. USE DEF VectorInv
<1>1. PICK k \in DOMAIN removal_indices :
        /\ \A j \in DOMAIN removal_indices : removal_indices[j] <= removal_indices[k]
        /\ threads' = RemoveAt(threads, removal_indices[k])
        /\ removal_indices' = RemoveAt(removal_indices, k)
  BY DEF Erase
<1>. DEFINE m == removal_indices[k]
<1>2. /\ program' = program /\ phase = "erase" /\ phase' = "erase" /\ i' = i /\ runs' = runs
      /\ pending_threads' = pending_threads
      /\ waiting_coords' = waiting_coords /\ thread_count' = thread_count
  BY DEF Erase
<1>3. /\ removal_indices \in Seq(Nat)
      /\ \A j, l \in DOMAIN removal_indices : j # l => removal_indices[j] # removal_indices[l]
      /\ Removed \subseteq Indices
      /\ \A j \in Indices : Over(threads[j]) => j \in Removed
  BY DEF TypeOK, SideListsFit, RemovalFits
<1>4. /\ removal_indices' \in Seq(Nat) /\ Removed' = Removed \ {m}
      /\ \A j \in Removed' : j < m
      /\ \A j, l \in DOMAIN removal_indices' : j # l => removal_indices'[j] # removal_indices'[l]
  BY <1>1, <1>3, TakeHighest DEF Removed
<1>5. m \in Removed
  BY DEF Removed, ToSet
<1>6. m \in Indices
  BY <1>3, <1>5
<1>. HIDE DEF m
<1>7. /\ threads' \in Seq(ThreadsOf(program)) /\ Len(threads') = Len(threads) - 1
      /\ \A j \in 1 .. Len(threads) - 1 :
           threads'[j] = IF j < m THEN threads[j] ELSE threads[j + 1]
  BY <1>1, <1>6, RemoveAtElements DEF TypeOK, Indices, m
<1>8. Len(threads) \in Nat /\ Indices' = 1 .. Len(threads) - 1 /\ m \in 1 .. Len(threads)
  BY <1>6, <1>7, LenProperties DEF TypeOK, Indices
<1>9. \A j \in Indices' : \E l \in Indices : threads'[j] = threads[l]
  BY <1>7, <1>8 DEF Indices
<1>10. TypeOK' /\ Loaded'
  BY <1>2, <1>4, <1>7 DEF TypeOK, Loaded
<1>11. RemovalFits'
  <2>1. \A j \in Removed' : j \in 1 .. Len(threads) /\ j < m
    BY <1>3, <1>4 DEF Indices
  <2>2. Removed' \subseteq Indices'
    BY <1>8, <2>1
  <2>3. ASSUME NEW j \in Indices', Over(threads'[j]) PROVE j \in Removed'
    <3>1. CASE j < m
      BY <1>3, <1>4, <1>7, <1>8, <2>3, <3>1 DEF Indices
    <3>2. CASE ~(j < m)
      <4>1. j + 1 \in Indices /\ threads'[j] = threads[j + 1] /\ j + 1 > m
        BY <1>7, <1>8, <3>2 DEF Indices
      <4>2. j + 1 \in Removed'
        BY <1>3, <1>4, <1>8, <2>3, <4>1
      <4>. QED BY <1>8, <2>1, <4>1, <4>2
    <3>. QED BY <3>1, <3>2
  <2>4. \A j \in Indices' : Over(threads[j])' => j \in Removed'
    BY <2>3 DEF Over
  <2>. QED BY <1>2, <1>4, <2>2, <2>4 DEF RemovalFits
<1>12. MapFits'
  BY <1>2 DEF MapFits
<1>13. StatusFitsOp'
  BY <1>2, <1>9 DEF StatusFitsOp
<1>14. LoopsFit'
  BY <1>2 DEF LoopsFit
<1>. QED BY <1>10, <1>11, <1>12, <1>13, <1>14 DEF SideListsFit

\* The elements of a concatenation are those of its parts.
LEMMA ConcatElements ==
  ASSUME NEW S, NEW s \in Seq(S), NEW b \in Seq(S)
  PROVE  /\ s \o b \in Seq(S) /\ Len(s \o b) = Len(s) + Len(b)
         /\ Len(s) \in Nat /\ Len(b) \in Nat
         /\ \A k \in 1 .. Len(s) : (s \o b)[k] = s[k]
         /\ \A k \in Len(s) + 1 .. Len(s) + Len(b) :
              k - Len(s) \in 1 .. Len(b) /\ (s \o b)[k] = b[k - Len(s)]
<1>1. /\ s \o b \in Seq(S) /\ Len(s \o b) = Len(s) + Len(b)
      /\ \A k \in 1 .. Len(s) + Len(b) :
           (s \o b)[k] = IF k <= Len(s) THEN s[k] ELSE b[k - Len(s)]
  BY ConcatProperties, Zenon
<1>2. Len(s) \in Nat /\ Len(b) \in Nat
  BY LenProperties
<1>3. \A k \in 1 .. Len(s) : (s \o b)[k] = s[k]
  BY <1>1, <1>2
<1>4. \A k \in Len(s) + 1 .. Len(s) + Len(b) :
        k - Len(s) \in 1 .. Len(b) /\ (s \o b)[k] = b[k - Len(s)]
  BY <1>1, <1>2
<1>. QED BY <1>1, <1>2, <1>3, <1>4

\* ... a new round starts with threads that are not over, and empty side lists.
LEMMA NextRoundKeepsVector == VectorInv /\ NextRound => VectorInv'
<1>. SUFFICES ASSUME VectorInv, NextRound PROVE VectorInv'
  OBVIOUS
<1>. USE DEF VectorInv
<1>1. /\ program' = program /\ removal_indices = << >> /\ removal_indices' = << >>
      /\ phase = "erase" /\ phase' \in {"done", "tick"} /\ i' = 1 /\ runs' = runs
      /\ phase' = "done" => threads' = << >>
      /\ threads' = threads \o pending_threads /\ pending_threads' = << >>
      /\ waiting_coords' = << >> /\ thread_count' = thread_count
  BY DEF NextRound
<1>2. threads \in Seq(ThreadsOf(program)) /\ pending_threads \in Seq(ThreadsOf(program))
  BY DEF TypeOK
<1>3. /\ threads' \in Seq(ThreadsOf(program))
      /\ Len(threads') = Len(threads) + Len(pending_threads)
      /\ Len(threads) \in Nat /\ Len(pending_threads) \in Nat
      /\ \A k \in 1 .. Len(threads) : threads'[k] = threads[k]
      /\ \A k \in Len(threads) + 1 .. Len(threads) + Len(pending_threads) :
           /\ k - Len(threads) \in 1 .. Len(pending_threads)
           /\ threads'[k] = pending_threads[k - Len(threads)]
  BY <1>1, <1>2, ConcatElements
<1>4. ASSUME NEW k \in Indices'
      PROVE  \/ k \in Indices /\ threads'[k] = threads[k]
             \/ threads'[k].status = "active"
  <2>1. CASE k <= Len(threads)
    BY <1>3, <2>1 DEF Indices
  <2>2. CASE k > Len(threads)
    <3>1. k - Len(threads) \in DOMAIN pending_threads
      BY <1>2, <1>3, <2>2, LenProperties DEF Indices
    <3>2. threads'[k] = pending_threads[k - Len(threads)]
      BY <1>3, <2>2 DEF Indices
    <3>. QED BY <3>1, <3>2 DEF LoopsFit
  <2>. QED BY <1>3, <2>1, <2>2 DEF Indices
<1>5. Removed = {} /\ Removed' = {}
  BY <1>1 DEF Removed, ToSet
<1>6. TypeOK' /\ Loaded'
  <2>1. << >> \in [DOMAIN << >> -> Nat]
    OBVIOUS
  <2>. QED BY <1>1, <1>3, <2>1 DEF TypeOK, Loaded
<1>7. RemovalFits'
  <2>1. \A k \in Indices' : ~Over(threads'[k])
    BY <1>4, <1>5 DEF SideListsFit, RemovalFits, Over
  <2>2. \A k \in Indices' : Over(threads[k])' => k \in Removed'
    BY <2>1 DEF Over
  <2>3. DOMAIN removal_indices' = {}
    BY <1>1
  <2>. QED BY <1>5, <2>2, <2>3 DEF RemovalFits
<1>8. MapFits'
  BY <1>1 DEF MapFits
<1>9. StatusFitsOp'
  BY <1>1, <1>4 DEF StatusFitsOp
<1>10. LoopsFit'
  BY <1>1, <1>3, LenProperties DEF LoopsFit
<1>. QED BY <1>6, <1>7, <1>8, <1>9, <1>10 DEF SideListsFit

\* Steps that only change the phase: the process ends, or the loop does.
LEMMA PhaseKeepsVector ==
  VectorInv /\ (TickExit \/ TickCrash \/ OutOfMemory \/ EndTick) => VectorInv'
<1>. SUFFICES ASSUME VectorInv, TickExit \/ TickCrash \/ OutOfMemory \/ EndTick
              PROVE  VectorInv'
  OBVIOUS
<1>1. /\ UNCHANGED <<program, threads, i, removal_indices, pending_threads,
                     waiting_coords, thread_count, runs>>
      /\ phase' \in {"exited", "erase"}
  BY DEF TickExit, TickCrash, OutOfMemory, EndTick, locals
<1>2. TypeOK' /\ Loaded'
  BY <1>1 DEF VectorInv, TypeOK, Loaded
<1>3. RemovalFits' /\ MapFits'
  <2>1. Removed' = Removed /\ Indices' = Indices
    BY <1>1 DEF Removed, Indices
  <2>. QED BY <1>1, <2>1 DEF VectorInv, SideListsFit, RemovalFits, MapFits, Over
<1>4. StatusFitsOp' /\ LoopsFit'
  BY <1>1 DEF VectorInv, StatusFitsOp, LoopsFit, Indices
<1>. QED BY <1>2, <1>3, <1>4 DEF VectorInv, SideListsFit

\* ... a new run starts like the first, but for the number of its thread.
LEMMA RerunKeepsVector == VectorInv /\ Rerun => VectorInv'
<1>. SUFFICES ASSUME VectorInv, Rerun PROVE VectorInv'
  OBVIOUS
<1>1. /\ program' \in Programs /\ threads' = <<NewThread(StartIP, thread_count)>>
      /\ phase' = "tick" /\ i' = 1
      /\ removal_indices' = << >> /\ pending_threads' = << >>
      /\ waiting_coords' = << >> /\ thread_count' = 0 /\ runs' = runs + 1
      /\ thread_count \in 0 .. MaxThreadCount /\ runs \in Nat
  BY DEF Rerun, VectorInv, TypeOK
<1>2. NewThread(StartIP, thread_count) \in ThreadsOf(program')
  BY <1>1, HolderStaysInside DEF NewThread, ThreadsOf, Statuses
<1>3. threads'[1].status = "active" /\ Len(threads') = 1
  BY <1>1 DEF NewThread
<1>4. TypeOK' /\ Loaded'
  <2>1. << >> \in [DOMAIN << >> -> Nat]
    OBVIOUS
  <2>2. threads' \in Seq(ThreadsOf(program'))
    BY <1>1, <1>2
  <2>3. 0 \in 0 .. MaxThreadCount
    BY CountsAreNatural
  <2>. QED BY <1>1, <2>1, <2>2, <2>3 DEF TypeOK, Loaded
<1>5. Removed' = {} /\ Indices' = {1}
  BY <1>1, <1>3 DEF Removed, ToSet, Indices
<1>6. RemovalFits' /\ MapFits'
  BY <1>1, <1>3, <1>5 DEF RemovalFits, MapFits, Over
<1>7. StatusFitsOp' /\ LoopsFit'
  BY <1>1, <1>3, <1>5 DEF StatusFitsOp, LoopsFit
<1>. QED BY <1>4, <1>6, <1>7 DEF VectorInv, SideListsFit

\* The invariant of the vector is inductive.
LEMMA VectorInvNext == VectorInv /\ [Next]_vars => VectorInv'
<1>. SUFFICES ASSUME VectorInv, [Next]_vars PROVE VectorInv'
  OBVIOUS
<1>1. CASE Tick
  <2>1. \/ TickMove \/ TickRest \/ TickSplit \/ TickKill \/ TickWait \/ TickJoin
        \/ TickExit \/ TickCrash \/ OutOfMemory
    BY <1>1 DEF Tick
  <2>. QED BY <2>1, MoveKeepsVector, RestKeepsVector, SplitKeepsVector, KillKeepsVector,
              WaitKeepsVector, JoinKeepsVector, PhaseKeepsVector
<1>2. CASE EndTick
  BY <1>2, PhaseKeepsVector
<1>3. CASE Erase
  BY <1>3, EraseKeepsVector
<1>4. CASE NextRound
  BY <1>4, NextRoundKeepsVector
<1>5. CASE Rerun
  BY <1>5, RerunKeepsVector
<1>6. CASE UNCHANGED vars
  BY <1>6 DEF vars, locals, VectorInv, TypeOK, Loaded, SideListsFit, RemovalFits, MapFits,
              Removed, Indices, Over, StatusFitsOp, LoopsFit
<1>. QED BY <1>1, <1>2, <1>3, <1>4, <1>5, <1>6 DEF Next, Run

\* The invariant of the vector holds in every run of the interpreter.
LEMMA VectorInvHolds == Spec => []VectorInv
BY VectorInvInit, VectorInvNext, PTL DEF Spec

-----------------------------------------------------------------------------
(* Theorems.                                                               *)

\* The state of run() keeps its types: in particular every thread stands on an
\* IP of the program and has one of the statuses of thread.hh.
THEOREM TypeCorrect == Spec => []TypeOK
<1>1. VectorInv => TypeOK
  BY DEF VectorInv
<1>. QED BY <1>1, VectorInvHolds, PTL

\* The removal list and the map of waiting coordinates fit the vector: no index
\* is erased twice or out of range, no thread that is over stays, and no join
\* finds a partner that has gone, moved or joined already.
THEOREM SideListsCorrect == Spec => []SideListsFit
<1>1. VectorInv => SideListsFit
  BY DEF VectorInv
<1>. QED BY <1>1, VectorInvHolds, PTL

\* tick(), split_thread and join_threads never run into unreachable() or an
\* assertion, given a program holder whose TSP and TJN fit its headings.
THEOREM UnreachableIsUnreachable == Spec => []NothingUnreachable
<1>1. ASSUME VectorInv PROVE NothingUnreachable
  <2>. USE <1>1 DEF VectorInv
  <2>1. ASSUME Ticking PROVE curr.status \in {"active", "idle", "waiting"}
    <3>1. i \in Indices /\ i \notin Removed
      BY <2>1, LenProperties DEF Ticking, TypeOK, SideListsFit, RemovalFits, Indices
    <3>2. ~Over(threads[i]) /\ threads[i].status \in Statuses
      BY <3>1, ThreadTypes DEF SideListsFit, RemovalFits
    <3>. QED BY <3>2 DEF Over, Statuses, curr
  <2>2. ASSUME Runs({"TSP"}) PROVE HolderCanSplit(curr.ip)
    <3>1. i \in Indices /\ HolderAt(program, curr.ip) = "TSP"
      BY <2>2, LenProperties DEF Runs, Ticking, TypeOK, Indices, op
    <3>2. curr.ip \in HolderIPs(program)
      BY <3>1, ThreadTypes DEF curr
    <3>. QED BY <3>1, <3>2, HolderCanFork DEF Loaded
  <2>3. ASSUME Meets PROVE HolderCanJoin(threads[waiting_coords[coords]].ip, curr.ip)
    <3>1. /\ i \in Indices /\ HolderAt(program, curr.ip) = "TJN"
      BY <2>3, WaitsOnJoin DEF Meets
    <3>2. curr.ip \in HolderIPs(program)
      BY <3>1, ThreadTypes DEF curr
    <3>. QED BY <2>3, <3>1, <3>2, Partner, HolderCanFork DEF Loaded, coords
  <2>. QED BY <2>1, <2>2, <2>3 DEF NothingUnreachable
<1>. QED BY <1>1, VectorInvHolds, PTL

-----------------------------------------------------------------------------
(* Thread numbers.                                                         *)

NumberInv == EldersFirst /\ NumbersFit

\* Everything in the vector and every pending thread has a number.
LEMMA NumberTypes ==
  ASSUME VectorInv
  PROVE  /\ Len(threads) \in Nat /\ DOMAIN threads = Indices
         /\ \A k \in Indices : threads[k].number \in Nat
         /\ Len(pending_threads) \in Nat
         /\ DOMAIN pending_threads = 1 .. Len(pending_threads)
         /\ \A k \in DOMAIN pending_threads : pending_threads[k].number \in Nat
         /\ thread_count \in Nat
<1>1. /\ threads \in Seq(ThreadsOf(program)) /\ pending_threads \in Seq(ThreadsOf(program))
      /\ thread_count \in Nat
  BY CountsAreNatural DEF VectorInv, TypeOK
<1>2. \A t \in ThreadsOf(program) : t.number \in Nat
  BY CountsAreNatural DEF ThreadsOf
<1>3. \A k \in DOMAIN pending_threads : pending_threads[k] \in ThreadsOf(program)
  BY <1>1, LenProperties, ElementOfSeq
<1>4. \A k \in Indices : threads[k] \in ThreadsOf(program)
  BY <1>1, ElementOfSeq DEF Indices
<1>. QED BY <1>1, <1>2, <1>3, <1>4, LenProperties DEF Indices

\* A step that neither adds threads nor takes any out.
LEMMA SameNumbers ==
  ASSUME VectorInv, NumberInv, VectorInv',
         Len(threads') = Len(threads),
         \A k \in Indices : threads'[k].number = threads[k].number,
         pending_threads' = pending_threads, thread_count' = thread_count,
         Removed' = Removed \/ Ticking
  PROVE  NumberInv'
<1>1. /\ DOMAIN threads = Indices /\ DOMAIN threads' = Indices
      /\ Indices' = Indices /\ Len(threads) \in Nat
  BY NumberTypes, LenProperties DEF VectorInv, TypeOK, Indices
<1>2. Ticking /\ Len(threads) = 1 => Removed # {1}
  BY DEF Ticking, VectorInv, TypeOK, SideListsFit, RemovalFits
<1>3. EldersFirst'
  BY <1>1 DEF NumberInv, EldersFirst, Ascending
<1>4. NumbersFit'
  <2>1. \A k \in DOMAIN pending_threads' : pending_threads'[k].number <= thread_count'
    BY DEF NumberInv, NumbersFit
  <2>2. \/ \A k \in Indices' : threads'[k].number <= thread_count'
        \/ Len(threads') = 1
    BY <1>1 DEF NumberInv, NumbersFit
  <2>3. Len(threads') = 1 =>
          \/ \A k \in DOMAIN pending_threads' : threads'[1].number < pending_threads'[k].number
          \/ Removed' = {1}
    <3>1. Len(threads) = 1 => 1 \in Indices
      BY DEF Indices
    <3>. QED BY <1>2, <3>1 DEF NumberInv, NumbersFit
  <2>. QED BY <2>1, <2>2, <2>3 DEF NumbersFit
<1>. QED BY <1>3, <1>4 DEF NumberInv

\* A step that adds threads with numbers above the counter.
LEMMA FreshNumbers ==
  ASSUME VectorInv, NumberInv, VectorInv', Ticking,
         Len(threads') = Len(threads),
         \A k \in Indices : threads'[k].number = threads[k].number,
         NEW born \in Seq(ThreadsOf(program)), Ascending(born),
         pending_threads' = pending_threads \o born,
         \A k \in DOMAIN born : /\ born[k].number \in Nat
                                /\ thread_count < born[k].number
                                /\ born[k].number <= thread_count',
         thread_count <= thread_count',
         Len(threads) = 1 => Removed' = {1}
  PROVE  NumberInv'
<1>. DEFINE p == Len(pending_threads)
<1>1. /\ DOMAIN threads = Indices /\ DOMAIN threads' = Indices /\ Indices' = Indices
      /\ \A k \in Indices : threads[k].number \in Nat
      /\ Len(threads) \in Nat /\ p \in Nat /\ DOMAIN pending_threads = 1 .. p
      /\ thread_count \in Nat /\ thread_count' \in Nat
      /\ \A k \in DOMAIN pending_threads : pending_threads[k].number \in Nat
  BY NumberTypes, LenProperties, CountsAreNatural DEF VectorInv, TypeOK, Indices
<1>2. DOMAIN born = 1 .. Len(born) /\ Len(born) \in Nat
  BY LenProperties
<1>3. /\ DOMAIN pending_threads' = 1 .. p + Len(born)
      /\ \A k \in 1 .. p : pending_threads'[k] = pending_threads[k]
      /\ \A k \in p + 1 .. p + Len(born) :
           /\ k - p \in DOMAIN born
           /\ pending_threads'[k] = born[k - p]
  <2>1. pending_threads \in Seq(ThreadsOf(program))
    BY DEF VectorInv, TypeOK
  <2>. QED BY <1>2, <2>1, ConcatElements, LenProperties
<1>. HIDE DEF p
<1>4. \A k \in DOMAIN pending_threads : pending_threads[k].number <= thread_count
  BY DEF NumberInv, NumbersFit
<1>5. Ascending(pending_threads')
  <2>. SUFFICES ASSUME NEW j \in 1 .. p + Len(born), NEW k \in 1 .. p + Len(born), j < k
                PROVE  pending_threads'[j].number < pending_threads'[k].number
    BY <1>3 DEF Ascending
  <2>1. CASE k <= p
    <3>1. j \in 1 .. p /\ k \in 1 .. p
      BY <1>1, <1>2, <2>1
    <3>2. pending_threads[j].number < pending_threads[k].number
      BY <1>1, <3>1 DEF NumberInv, EldersFirst, Ascending
    <3>. QED BY <1>3, <3>1, <3>2
  <2>2. CASE j <= p /\ k > p
    <3>1. j \in 1 .. p /\ k \in p + 1 .. p + Len(born)
      BY <1>1, <1>2, <2>2
    <3>2. pending_threads[j].number <= thread_count /\ pending_threads[j].number \in Nat
      BY <1>1, <1>4, <3>1
    <3>3. thread_count < born[k - p].number /\ born[k - p].number \in Nat
      BY <1>3, <3>1
    <3>4. pending_threads[j].number < born[k - p].number
      <4>1. thread_count \in Nat
        BY <1>1
      <4>. QED BY <3>2, <3>3, <4>1
    <3>. QED BY <1>3, <3>1, <3>4
  <2>3. CASE j > p
    <3>1. /\ j \in p + 1 .. p + Len(born) /\ k \in p + 1 .. p + Len(born)
          /\ j - p < k - p
      <4>1. p \in Nat /\ Len(born) \in Nat
        BY <1>1, <1>2
      <4>. QED BY <2>3, <4>1
    <3>2. born[j - p].number < born[k - p].number
      BY <1>3, <3>1 DEF Ascending
    <3>. QED BY <1>3, <3>1, <3>2
  <2>. QED BY <1>1, <1>2, <2>1, <2>2, <2>3
<1>6. ASSUME NEW k \in DOMAIN pending_threads'
      PROVE  /\ pending_threads'[k].number \in Nat
             /\ pending_threads'[k].number <= thread_count'
             /\ k \in 1 .. p \/ thread_count < pending_threads'[k].number
  <2>1. CASE k \in 1 .. p
    <3>1. pending_threads[k].number <= thread_count /\ pending_threads[k].number \in Nat
      BY <1>1, <1>4, <2>1
    <3>2. pending_threads[k].number <= thread_count'
      <4>1. /\ thread_count \in Nat /\ thread_count' \in Nat
            /\ thread_count <= thread_count'
        BY <1>1
      <4>. QED BY <3>1, <4>1
    <3>. QED BY <1>3, <2>1, <3>1, <3>2
  <2>2. CASE k \in p + 1 .. p + Len(born)
    BY <1>3, <2>2
  <2>. QED BY <1>1, <1>2, <1>3, <2>1, <2>2
<1>7. EldersFirst'
  <2>1. Ascending(threads')
    BY <1>1 DEF NumberInv, EldersFirst, Ascending
  <2>2. ASSUME Len(threads) # 1, NEW j \in Indices, NEW k \in DOMAIN pending_threads'
        PROVE  threads[j].number < pending_threads'[k].number
    <3>1. CASE k \in 1 .. p
      BY <1>1, <1>3, <2>2, <3>1 DEF NumberInv, EldersFirst
    <3>2. CASE thread_count < pending_threads'[k].number
      <4>1. threads[j].number <= thread_count
        BY <2>2 DEF NumberInv, NumbersFit
      <4>2. /\ threads[j].number \in Nat /\ pending_threads'[k].number \in Nat
            /\ thread_count \in Nat
        BY <1>1, <1>6
      <4>. QED BY <3>2, <4>1, <4>2
    <3>. QED BY <1>6, <3>1, <3>2
  <2>. QED BY <1>1, <1>5, <2>1, <2>2 DEF EldersFirst
<1>8. NumbersFit'
  <2>1. \A k \in Indices : threads[k].number <= thread_count => threads'[k].number <= thread_count'
    BY <1>1
  <2>2. \/ \A k \in Indices' : threads'[k].number <= thread_count'
        \/ Len(threads') = 1
    BY <1>1, <2>1 DEF NumberInv, NumbersFit
  <2>. QED BY <1>6, <2>2 DEF NumbersFit
<1>. QED BY <1>7, <1>8 DEF NumberInv

\* Erasing keeps the order; a lone first thread that has split is erased.
LEMMA EraseKeepsNumbers ==
  ASSUME VectorInv, NumberInv, VectorInv', Erase
  PROVE  NumberInv'
<1>. DEFINE n == Len(threads)
<1>1. PICK k \in DOMAIN removal_indices :
        /\ threads' = RemoveAt(threads, removal_indices[k])
        /\ removal_indices' = RemoveAt(removal_indices, k)
  BY DEF Erase
<1>. DEFINE m == removal_indices[k]
<1>2. m \in Indices /\ threads \in Seq(ThreadsOf(program))
  BY DEF VectorInv, TypeOK, SideListsFit, RemovalFits, Removed, ToSet
<1>. HIDE DEF m
<1>3. /\ DOMAIN threads = 1 .. n /\ Indices = 1 .. n /\ n \in Nat /\ m \in 1 .. n
      /\ \A j \in 1 .. n : threads[j].number \in Nat
  BY <1>2, NumberTypes DEF Indices
<1>4. /\ Len(threads') = n - 1 /\ DOMAIN threads' = 1 .. n - 1
      /\ \A j \in 1 .. n - 1 : threads'[j] = IF j < m THEN threads[j] ELSE threads[j + 1]
  BY <1>1, <1>2, <1>3, RemoveAtElements DEF m
<1>5. pending_threads' = pending_threads /\ thread_count' = thread_count
  BY DEF Erase
<1>. HIDE DEF n
<1>6. \A j \in 1 .. n - 1 : \E l \in 1 .. n : threads'[j] = threads[l]
  BY <1>3, <1>4
<1>7. EldersFirst'
  <2>1. ASSUME NEW j \in 1 .. n - 1, NEW l \in 1 .. n - 1, j < l
        PROVE  threads'[j].number < threads'[l].number
    <3>. DEFINE At(x) == IF x < m THEN x ELSE x + 1
    <3>1. /\ At(j) \in 1 .. n /\ At(l) \in 1 .. n /\ At(j) < At(l)
          /\ threads'[j] = threads[At(j)] /\ threads'[l] = threads[At(l)]
      BY <1>3, <1>4, <2>1
    <3>. HIDE DEF At
    <3>. QED BY <1>3, <3>1 DEF NumberInv, EldersFirst, Ascending
  <2>2. Ascending(threads')
    BY <1>4, <2>1 DEF Ascending
  <2>3. ASSUME NEW j \in 1 .. n - 1, NEW l \in DOMAIN pending_threads
        PROVE  threads'[j].number < pending_threads[l].number
    <3>1. n # 1
      BY <1>3
    <3>. QED BY <1>3, <1>6, <3>1 DEF NumberInv, EldersFirst, n
  <2>. QED BY <1>4, <1>5, <2>2, <2>3 DEF NumberInv, EldersFirst
<1>8. NumbersFit'
  <2>1. \A j \in 1 .. n - 1 : threads'[j].number <= thread_count
    <3>1. CASE n = 1
      BY <3>1
    <3>2. CASE n # 1
      BY <1>3, <1>6, <3>2 DEF NumberInv, NumbersFit, n
    <3>. QED BY <3>1, <3>2
  <2>2. n - 1 = 1 => \A l \in DOMAIN pending_threads : threads'[1].number < pending_threads[l].number
    <3>1. n - 1 = 1 => 1 \in 1 .. n - 1 /\ n # 1
      BY <1>3
    <3>. QED BY <1>3, <1>6, <3>1 DEF NumberInv, EldersFirst, n
  <2>. QED BY <1>3, <1>4, <1>5, <2>1, <2>2 DEF NumberInv, NumbersFit, Indices
<1>. QED BY <1>7, <1>8 DEF NumberInv

\* Appending the pending threads keeps the order.
LEMMA NextRoundKeepsNumbers ==
  ASSUME VectorInv, NumberInv, VectorInv', NextRound
  PROVE  NumberInv'
<1>. DEFINE n == Len(threads)
            p == Len(pending_threads)
<1>1. /\ removal_indices = << >> /\ threads' = threads \o pending_threads
      /\ pending_threads' = << >> /\ thread_count' = thread_count
  BY DEF NextRound
<1>2. /\ n \in Nat /\ DOMAIN threads = 1 .. n /\ Indices = 1 .. n
      /\ p \in Nat /\ DOMAIN pending_threads = 1 .. p /\ thread_count \in Nat
      /\ \A k \in 1 .. n : threads[k].number \in Nat
      /\ \A k \in 1 .. p : pending_threads[k].number \in Nat
  BY NumberTypes DEF Indices
<1>3. /\ Len(threads') = n + p /\ DOMAIN threads' = 1 .. n + p
      /\ \A k \in 1 .. n : threads'[k] = threads[k]
      /\ \A k \in n + 1 .. n + p :
           k - n \in 1 .. p /\ threads'[k] = pending_threads[k - n]
  <2>1. threads \in Seq(ThreadsOf(program)) /\ pending_threads \in Seq(ThreadsOf(program))
    BY DEF VectorInv, TypeOK
  <2>. QED BY <1>1, <2>1, ConcatElements, LenProperties
<1>4. \A j \in 1 .. n, k \in 1 .. p : threads[j].number < pending_threads[k].number
  <2>1. CASE n = 1
    <3>1. Removed # {1}
      BY <1>1 DEF Removed, ToSet
    <3>. QED BY <1>2, <2>1, <3>1 DEF NumberInv, NumbersFit
  <2>2. CASE n # 1
    BY <1>2, <2>2 DEF NumberInv, EldersFirst
  <2>. QED BY <2>1, <2>2
<1>5. \A k \in 1 .. p : pending_threads[k].number <= thread_count
  BY <1>2 DEF NumberInv, NumbersFit
<1>6. \A j, k \in 1 .. n : j < k => threads[j].number < threads[k].number
  BY <1>2 DEF NumberInv, EldersFirst, Ascending
<1>7. \A j, k \in 1 .. p : j < k => pending_threads[j].number < pending_threads[k].number
  BY <1>2 DEF NumberInv, EldersFirst, Ascending
<1>8. (\A k \in 1 .. n : threads[k].number <= thread_count) \/ n = 1
  BY <1>2 DEF NumberInv, NumbersFit
<1>. HIDE DEF n, p
<1>9. Ascending(threads')
  <2>. SUFFICES ASSUME NEW j \in 1 .. n + p, NEW k \in 1 .. n + p, j < k
                PROVE  threads'[j].number < threads'[k].number
    BY <1>3 DEF Ascending
  <2>1. CASE k <= n
    <3>1. j \in 1 .. n /\ k \in 1 .. n
      BY <1>2, <2>1
    <3>. QED BY <1>3, <1>6, <3>1
  <2>2. CASE j <= n /\ k > n
    <3>1. j \in 1 .. n /\ k \in n + 1 .. n + p
      BY <1>2, <2>2
    <3>. QED BY <1>3, <1>4, <3>1
  <2>3. CASE j > n
    <3>1. j \in n + 1 .. n + p /\ k \in n + 1 .. n + p /\ j - n < k - n
      BY <1>2, <2>3
    <3>. QED BY <1>3, <1>7, <3>1
  <2>. QED BY <1>2, <2>1, <2>2, <2>3
<1>10. DOMAIN pending_threads' = {}
  BY <1>1
<1>11. EldersFirst'
  BY <1>9, <1>10 DEF EldersFirst, Ascending
<1>12. NumbersFit'
  <2>1. Indices' = 1 .. n + p
    BY <1>3 DEF Indices
  <2>2. CASE p = 0 /\ n = 1
    BY <1>3, <1>10, <2>2 DEF NumbersFit
  <2>3. CASE ~(p = 0 /\ n = 1)
    <3>1. \A k \in 1 .. n : threads[k].number <= thread_count
      <4>1. CASE n # 1
        BY <1>8, <4>1
      <4>2. CASE n = 1
        <5>1. 1 \in 1 .. p
          BY <1>2, <2>3, <4>2
        <5>2. \A k \in 1 .. n : threads[k].number < pending_threads[1].number
          BY <1>4, <5>1
        <5>. QED BY <1>2, <1>5, <5>1, <5>2
      <4>. QED BY <4>1, <4>2
    <3>2. ASSUME NEW k \in 1 .. n + p PROVE threads'[k].number <= thread_count
      <4>1. CASE k \in 1 .. n
        BY <1>3, <3>1, <4>1
      <4>2. CASE k \in n + 1 .. n + p
        BY <1>3, <1>5, <4>2
      <4>. QED BY <1>2, <4>1, <4>2
    <3>. QED BY <1>1, <1>10, <2>1, <3>2 DEF NumbersFit
  <2>. QED BY <2>2, <2>3
<1>. QED BY <1>11, <1>12 DEF NumberInv

\* The order of the numbers is inductive, given the invariant of the vector.
LEMMA NumberInvNext ==
  ASSUME VectorInv, NumberInv, [Next]_vars
  PROVE  NumberInv'
<1>1. VectorInv'
  BY VectorInvNext
<1>2. /\ Len(threads) \in Nat /\ thread_count \in Nat
      /\ Ticking => i \in Indices /\ threads[i] \in ThreadsOf(program)
  BY NumberTypes, LenProperties, ElementOfSeq DEF Ticking, VectorInv, TypeOK, Indices
<1>3. ASSUME Ticking, NEW t, t.number = threads[i].number, threads' = [threads EXCEPT ![i] = t]
      PROVE  /\ Len(threads') = Len(threads)
             /\ \A k \in Indices : threads'[k].number = threads[k].number
  BY <1>2, <1>3, NumberTypes, LenProperties DEF VectorInv, TypeOK, Indices
<1>4. ASSUME Ticking, NEW status, threads' = [threads EXCEPT ![i].status = status]
      PROVE  /\ Len(threads') = Len(threads)
             /\ \A k \in Indices : threads'[k].number = threads[k].number
  <2>1. [threads[i] EXCEPT !.status = status].number = threads[i].number
    BY <1>2, <1>4 DEF ThreadsOf
  <2>. QED BY <1>3, <1>4, <2>1
<1>5. CASE TickMove
  <2>1. PICK goLeft \in BOOLEAN : threads' = [threads EXCEPT ![i] = Advanced(@, goLeft)]
    BY <1>5 DEF TickMove, AdvanceCurr
  <2>2. Ticking /\ pending_threads' = pending_threads /\ thread_count' = thread_count
    BY <1>5 DEF TickMove, Runs, locals
  <2>3. Advanced(threads[i], goLeft).number = threads[i].number
    BY <1>2, <2>2 DEF Advanced, ThreadsOf
  <2>. QED BY <1>1, <1>3, <2>1, <2>2, <2>3, SameNumbers
<1>6. CASE TickRest
  <2>1. Ticking /\ pending_threads' = pending_threads /\ thread_count' = thread_count
    BY <1>6 DEF TickRest, Runs, locals
  <2>. QED BY <1>1, <1>4, <1>6, <2>1, SameNumbers DEF TickRest
<1>7. CASE TickKill
  <2>1. Ticking /\ pending_threads' = pending_threads /\ thread_count' = thread_count
    BY <1>7 DEF TickKill, Runs
  <2>. QED BY <1>1, <1>4, <1>7, <2>1, SameNumbers DEF TickKill
<1>8. CASE TickWait
  <2>1. Ticking /\ pending_threads' = pending_threads /\ thread_count' = thread_count
    BY <1>8 DEF TickWait, Waits
  <2>. QED BY <1>1, <1>4, <1>8, <2>1, SameNumbers DEF TickWait
<1>9. CASE TickSplit
  <2>. DEFINE ips  == HolderSplit(program, curr.ip)
              born == <<NewThread(ips[1], thread_count + 1), NewThread(ips[2], thread_count + 2)>>
  <2>1. /\ Ticking /\ thread_count' = thread_count + 2
        /\ pending_threads' = pending_threads \o born
        /\ threads' = [threads EXCEPT ![i].status = "splitting"]
    BY <1>9 DEF TickSplit, Runs
  <2>2. /\ Len(threads') = Len(threads)
        /\ \A k \in Indices : threads'[k].number = threads[k].number
    BY <1>4, <2>1
  <2>3. born \in Seq(ThreadsOf(program))
    BY <1>9, Heirs
  <2>4. /\ DOMAIN born = {1, 2}
        /\ born[1].number = thread_count + 1 /\ born[2].number = thread_count + 2
    BY DEF NewThread
  <2>. HIDE DEF born
  <2>5. Ascending(born)
    BY <1>2, <2>4 DEF Ascending
  <2>6. \A k \in DOMAIN born : /\ born[k].number \in Nat
                               /\ thread_count < born[k].number
                               /\ born[k].number <= thread_count'
    BY <1>2, <2>1, <2>4
  <2>7. Len(threads) = 1 => Removed' = {1}
    <3>1. Removed' = Removed \cup {i}
      BY <1>9, <2>1, AppendIndex DEF TickSplit
    <3>. QED BY <1>2, <2>1, <3>1 DEF VectorInv, SideListsFit, RemovalFits, Ticking, Indices
  <2>8. thread_count <= thread_count'
    BY <1>2, <2>1
  <2>. QED BY <1>1, <2>1, <2>2, <2>3, <2>5, <2>6, <2>7, <2>8, FreshNumbers
<1>10. CASE TickJoin
  <2>. DEFINE value == waiting_coords[coords]
              born  == <<NewThread(HolderJoin(program, threads[value].ip), thread_count + 1)>>
  <2>1. /\ Ticking /\ Meets /\ thread_count' = thread_count + 1
        /\ threads' = [threads EXCEPT ![i].status = "waiting"]
        /\ pending_threads' = Append(pending_threads, born[1])
    BY <1>10 DEF TickJoin, Meets, Waits
  <2>2. /\ Len(threads') = Len(threads)
        /\ \A k \in Indices : threads'[k].number = threads[k].number
    BY <1>4, <2>1
  <2>3. born[1] \in ThreadsOf(program)
    BY <1>10, Heirs
  <2>4. DOMAIN born = {1} /\ born[1].number = thread_count + 1
    BY DEF NewThread
  <2>5. born \in Seq(ThreadsOf(program)) /\ born = <<born[1]>>
    BY <2>3
  <2>. HIDE DEF born
  <2>6. pending_threads' = pending_threads \o born
    <3>1. pending_threads \in Seq(ThreadsOf(program))
      BY DEF VectorInv, TypeOK
    <3>. QED BY <2>1, <2>3, <2>5, <3>1, AppendIsConcat
  <2>7. Ascending(born)
    BY <2>4 DEF Ascending
  <2>8. \A k \in DOMAIN born : /\ born[k].number \in Nat
                               /\ thread_count < born[k].number
                               /\ born[k].number <= thread_count'
    BY <1>2, <2>1, <2>4
  <2>9. Len(threads) # 1
    BY <1>2, <2>1, Partner DEF Indices
  <2>10. thread_count <= thread_count'
    BY <1>2, <2>1
  <2>. QED BY <1>1, <2>1, <2>2, <2>5, <2>6, <2>7, <2>8, <2>9, <2>10, FreshNumbers
<1>11. CASE TickExit \/ TickCrash \/ OutOfMemory \/ EndTick \/ UNCHANGED vars
  <2>1. /\ threads' = threads /\ pending_threads' = pending_threads
        /\ thread_count' = thread_count /\ Removed' = Removed
    BY <1>11 DEF TickExit, TickCrash, OutOfMemory, EndTick, locals, vars, Removed
  <2>. QED BY <1>1, <2>1, SameNumbers
<1>12. CASE Erase
  BY <1>1, <1>12, EraseKeepsNumbers
<1>13. CASE NextRound
  BY <1>1, <1>13, NextRoundKeepsNumbers
<1>14. CASE Rerun
  <2>1. /\ Len(threads') = 1 /\ DOMAIN threads' = {1} /\ pending_threads' = << >>
        /\ DOMAIN pending_threads' = {}
    BY <1>14 DEF Rerun
  <2>. QED BY <2>1 DEF NumberInv, EldersFirst, NumbersFit, Ascending
<1>. QED BY <1>5, <1>6, <1>7, <1>8, <1>9, <1>10, <1>11, <1>12, <1>13, <1>14
         DEF Next, Run, Tick

\* The vector is sorted by thread number, and the threads to be appended are
\* younger: no number names two living threads, whatever number the first
\* thread of a run was left with.
THEOREM NumbersCorrect == Spec => []EldersFirst
<1>1. Init => NumberInv
  <2>. SUFFICES ASSUME Init PROVE NumberInv
    OBVIOUS
  <2>1. /\ Len(threads) = 1 /\ DOMAIN threads = {1} /\ DOMAIN pending_threads = {}
    BY DEF Init, Start
  <2>. QED BY <2>1 DEF NumberInv, EldersFirst, NumbersFit, Ascending
<1>2. VectorInv /\ NumberInv /\ [Next]_vars => NumberInv'
  BY NumberInvNext
<1>3. NumberInv => EldersFirst
  BY DEF NumberInv
<1>. QED BY <1>1, <1>2, <1>3, VectorInvHolds, PTL DEF Spec

-----------------------------------------------------------------------------
(* Waiting threads.                                                        *)

MeetingInv == WaitersFit /\ NoMissedMeeting

\* A tick that gives every waiting thread that stays its entry in the map.
LEMMA WaitersStep ==
  ASSUME VectorInv, MeetingInv, Ticking, NEW t \in ThreadsOf(program),
         threads' = [threads EXCEPT ![i] = t], i' = i + 1, phase' = phase,
         Removed \subseteq Removed',
         \A k \in 1 .. i - 1 :
           LET at == HolderCoords(threads[k].ip)
           IN k \notin Removed' /\ at \in DOMAIN waiting_coords /\ waiting_coords[at] = k
              => at \in DOMAIN waiting_coords' /\ waiting_coords'[at] = k,
         t.status = "waiting" =>
           LET at == HolderCoords(t.ip)
           IN i \in Removed' \/ (at \in DOMAIN waiting_coords' /\ waiting_coords'[at] = i)
  PROVE  MeetingInv'
<1>1. /\ i \in Indices
      /\ \A k \in Indices : threads'[k] = IF k = i THEN t ELSE threads[k]
  BY ReplaceCurr DEF VectorInv
<1>2. i \in Nat \ {0} /\ Len(threads) \in Nat
  BY LenProperties DEF VectorInv, TypeOK
<1>3. ASSUME NEW k \in 1 .. i' - 1, k \notin Removed', threads'[k].status = "waiting"
      PROVE  /\ HolderCoords(threads'[k].ip) \in DOMAIN waiting_coords'
             /\ waiting_coords'[HolderCoords(threads'[k].ip)] = k
  <2>1. CASE k = i
    BY <1>1, <1>3, <2>1
  <2>2. CASE k # i
    <3>1. k \in 1 .. i - 1 /\ threads'[k] = threads[k]
      BY <1>1, <1>2, <2>2 DEF Indices
    <3>2. StaysWaiting(k)
      BY <1>3, <3>1 DEF StaysWaiting
    <3>3. /\ HolderCoords(threads[k].ip) \in DOMAIN waiting_coords
          /\ waiting_coords[HolderCoords(threads[k].ip)] = k
      BY <3>1, <3>2 DEF MeetingInv, WaitersFit, Ticking
    <3>. QED BY <1>3, <3>1, <3>3
  <2>. QED BY <2>1, <2>2
<1>4. phase' = "tick" /\ i' # 1
  BY <1>2 DEF Ticking
<1>5. WaitersFit'
  BY <1>3, <1>4 DEF WaitersFit, StaysWaiting
<1>. QED BY <1>4, <1>5 DEF MeetingInv, NoMissedMeeting

\* Erasing the highest index moves the threads behind it, and no thread that
\* is still to be removed.
LEMMA EraseKeepsWaiters ==
  ASSUME VectorInv, MeetingInv, Erase
  PROVE  MeetingInv'
<1>. USE DEF VectorInv
<1>1. PICK k \in DOMAIN removal_indices :
        /\ \A j \in DOMAIN removal_indices : removal_indices[j] <= removal_indices[k]
        /\ threads' = RemoveAt(threads, removal_indices[k])
        /\ removal_indices' = RemoveAt(removal_indices, k)
  BY DEF Erase
<1>. DEFINE m     == removal_indices[k]
            At(j) == IF j < m THEN j ELSE j + 1
<1>2. phase = "erase" /\ phase' = "erase"
  BY DEF Erase
<1>3. /\ removal_indices \in Seq(Nat)
      /\ \A j, l \in DOMAIN removal_indices : j # l => removal_indices[j] # removal_indices[l]
  BY DEF TypeOK, SideListsFit, RemovalFits
<1>4. Removed' = Removed \ {m} /\ \A j \in Removed' : j < m
  BY <1>1, <1>3, TakeHighest DEF Removed
<1>5. m \in Indices
  BY DEF SideListsFit, RemovalFits, Removed, ToSet
<1>. HIDE DEF m
<1>6. /\ Len(threads') = Len(threads) - 1
      /\ \A j \in 1 .. Len(threads) - 1 :
           threads'[j] = IF j < m THEN threads[j] ELSE threads[j + 1]
  BY <1>1, <1>5, RemoveAtElements DEF TypeOK, Indices, m
<1>7. Len(threads) \in Nat /\ m \in 1 .. Len(threads)
  BY <1>5, LenProperties DEF TypeOK, Indices
<1>8. Indices' = 1 .. Len(threads) - 1 /\ Indices = 1 .. Len(threads)
  BY <1>6 DEF Indices
<1>9. ASSUME NEW j \in Indices', j \notin Removed'
      PROVE  At(j) \in Indices /\ threads'[j] = threads[At(j)] /\ At(j) \notin Removed
  <2>1. At(j) \in Indices /\ threads'[j] = threads[At(j)]
    BY <1>6, <1>7, <1>8
  <2>2. CASE j < m
    BY <1>4, <1>7, <1>8, <1>9, <2>1, <2>2
  <2>3. CASE ~(j < m)
    <3>1. j + 1 # m /\ ~(j + 1 < m)
      BY <1>7, <1>8, <2>3
    <3>. QED BY <1>4, <2>1, <2>3, <3>1
  <2>. QED BY <2>2, <2>3
<1>10. \A j, l \in Indices' : At(j) = At(l) => j = l
  BY <1>7, <1>8
<1>. HIDE DEF At
<1>11. ASSUME NEW j \in Indices', NEW l \in Indices',
              j \notin Removed', threads'[j].status = "waiting",
              l \notin Removed', threads'[l].status = "waiting",
              HolderCoords(threads'[j].ip) = HolderCoords(threads'[l].ip)
       PROVE  j = l
  <2>1. /\ At(j) \in Indices /\ StaysWaiting(At(j)) /\ threads'[j] = threads[At(j)]
        /\ At(l) \in Indices /\ StaysWaiting(At(l)) /\ threads'[l] = threads[At(l)]
    BY <1>9, <1>11 DEF StaysWaiting
  <2>2. At(j) = At(l)
    BY <1>2, <1>11, <2>1 DEF MeetingInv, WaitersFit
  <2>. QED BY <1>10, <2>2
<1>. QED BY <1>2, <1>11 DEF MeetingInv, WaitersFit, NoMissedMeeting, StaysWaiting

\* Pending threads have not run, so the waiting ones are those of the round.
LEMMA NextRoundKeepsWaiters ==
  ASSUME VectorInv, MeetingInv, NextRound
  PROVE  MeetingInv'
<1>1. /\ phase = "erase" /\ phase' \in {"done", "tick"} /\ i' = 1
      /\ removal_indices = << >> /\ threads' = threads \o pending_threads
  BY DEF NextRound
<1>2. /\ threads \in Seq(ThreadsOf(program)) /\ pending_threads \in Seq(ThreadsOf(program))
      /\ \A k \in DOMAIN pending_threads : pending_threads[k].status = "active"
  BY DEF VectorInv, TypeOK, LoopsFit
<1>3. /\ Len(threads') = Len(threads) + Len(pending_threads)
      /\ Len(threads) \in Nat /\ Len(pending_threads) \in Nat
      /\ \A k \in 1 .. Len(threads) : threads'[k] = threads[k]
      /\ \A k \in Len(threads) + 1 .. Len(threads) + Len(pending_threads) :
           /\ k - Len(threads) \in DOMAIN pending_threads
           /\ threads'[k] = pending_threads[k - Len(threads)]
  BY <1>1, <1>2, ConcatElements, LenProperties
<1>4. Removed = {}
  BY <1>1 DEF Removed, ToSet
<1>5. ASSUME NEW k \in Indices', threads'[k].status = "waiting"
      PROVE  k \in Indices /\ StaysWaiting(k) /\ threads'[k] = threads[k]
  <2>1. CASE k <= Len(threads)
    BY <1>3, <1>4, <1>5, <2>1 DEF Indices, StaysWaiting
  <2>2. CASE k > Len(threads)
    <3>1. k \in Len(threads) + 1 .. Len(threads) + Len(pending_threads)
      BY <1>3, <2>2 DEF Indices
    <3>. QED BY <1>2, <1>3, <1>5, <3>1
  <2>. QED BY <1>3, <2>1, <2>2 DEF Indices
<1>6. NoMissedMeeting'
  <2>. SUFFICES ASSUME NEW j \in Indices', NEW k \in Indices', j # k,
                       threads'[j].status = "waiting", threads'[k].status = "waiting"
                PROVE  HolderCoords(threads'[j].ip) # HolderCoords(threads'[k].ip)
    BY DEF NoMissedMeeting
  <2>. QED BY <1>1, <1>5 DEF MeetingInv, WaitersFit
<1>7. WaitersFit'
  BY <1>1 DEF WaitersFit
<1>. QED BY <1>6, <1>7 DEF MeetingInv

\* The map knows the waiting threads that stay, given the invariant of the
\* vector.
LEMMA MeetingInvNext ==
  ASSUME VectorInv, MeetingInv, [Next]_vars
  PROVE  MeetingInv'
<1>1. ASSUME Ticking
      PROVE  /\ i \in Indices /\ threads[i] \in ThreadsOf(program)
             /\ Removed \subseteq 1 .. i - 1 /\ i \in Nat
  BY <1>1, LenProperties, ElementOfSeq
     DEF Ticking, VectorInv, TypeOK, Indices, SideListsFit, RemovalFits
<1>2. ASSUME Ticking, NEW status \in Statuses
      PROVE  LET t == [threads[i] EXCEPT !.status = status]
             IN t \in ThreadsOf(program) /\ t.status = status /\ t.ip = threads[i].ip
  BY <1>1, <1>2 DEF ThreadsOf
<1>3. CASE TickMove
  <2>1. PICK goLeft \in BOOLEAN : threads' = [threads EXCEPT ![i] = Advanced(@, goLeft)]
    BY <1>3 DEF TickMove, AdvanceCurr
  <2>. DEFINE t == Advanced(threads[i], goLeft)
  <2>2. /\ Ticking /\ i' = i + 1 /\ phase' = phase
        /\ waiting_coords' = waiting_coords /\ removal_indices' = removal_indices
    BY <1>3 DEF TickMove, Runs, NextThread, locals
  <2>3. t \in ThreadsOf(program) /\ t.status = "active"
    <3>1. HolderAt(program, threads[i].ip) \in Moving \cup Resting
      BY <1>1, <1>3, <2>2 DEF TickMove, Runs, VectorInv, StatusFitsOp, curr, op
    <3>2. HolderAdvance(program, threads[i].ip, goLeft) \in HolderIPs(program)
      BY <1>1, <2>2, <3>1, ThreadTypes, HolderStaysInside DEF Loaded, VectorInv
    <3>. QED BY <1>1, <2>2, <3>2 DEF ThreadsOf, Statuses, Advanced
  <2>4. Removed' = Removed
    BY <2>2 DEF Removed
  <2>. HIDE DEF t
  <2>5. threads' = [threads EXCEPT ![i] = t]
    BY <2>1 DEF t
  <2>. QED BY <2>2, <2>3, <2>4, <2>5, WaitersStep
<1>4. CASE TickRest
  <2>. DEFINE t == [threads[i] EXCEPT !.status = "idle"]
  <2>1. /\ Ticking /\ i' = i + 1 /\ phase' = phase /\ Removed' = Removed
        /\ waiting_coords' = waiting_coords /\ threads' = [threads EXCEPT ![i] = t]
    BY <1>4 DEF TickRest, Runs, NextThread, locals, Removed
  <2>2. t \in ThreadsOf(program) /\ t.status = "idle"
    BY <1>2, <2>1 DEF Statuses
  <2>. HIDE DEF t
  <2>. QED BY <2>1, <2>2, WaitersStep
<1>5. CASE TickKill
  <2>. DEFINE t == [threads[i] EXCEPT !.status = "terminated"]
  <2>1. /\ Ticking /\ i' = i + 1 /\ phase' = phase
        /\ waiting_coords' = waiting_coords /\ threads' = [threads EXCEPT ![i] = t]
    BY <1>5 DEF TickKill, Runs, NextThread
  <2>2. t \in ThreadsOf(program) /\ t.status = "terminated"
    BY <1>2, <2>1 DEF Statuses
  <2>. HIDE DEF t
  <2>3. Removed \subseteq Removed'
    BY <1>5, <2>1, AppendIndex DEF TickKill
  <2>. QED BY <2>1, <2>2, <2>3, WaitersStep
<1>6. CASE TickSplit
  <2>. DEFINE t == [threads[i] EXCEPT !.status = "splitting"]
  <2>1. /\ Ticking /\ i' = i + 1 /\ phase' = phase
        /\ waiting_coords' = waiting_coords /\ threads' = [threads EXCEPT ![i] = t]
    BY <1>6 DEF TickSplit, Runs, NextThread
  <2>2. t \in ThreadsOf(program) /\ t.status = "splitting"
    BY <1>2, <2>1 DEF Statuses
  <2>. HIDE DEF t
  <2>3. Removed \subseteq Removed'
    BY <1>6, <2>1, AppendIndex DEF TickSplit
  <2>. QED BY <2>1, <2>2, <2>3, WaitersStep
<1>7. CASE TickWait
  <2>. DEFINE t == [threads[i] EXCEPT !.status = "waiting"]
  <2>1. /\ Ticking /\ i' = i + 1 /\ phase' = phase /\ Removed' = Removed
        /\ coords \notin DOMAIN waiting_coords
        /\ waiting_coords' = [at \in DOMAIN waiting_coords \cup {coords} |->
                               IF at = coords THEN i ELSE waiting_coords[at]]
        /\ threads' = [threads EXCEPT ![i] = t]
    BY <1>7 DEF TickWait, Waits, Meets, NextThread, Removed
  <2>2. t \in ThreadsOf(program) /\ HolderCoords(t.ip) = coords
    BY <1>2, <2>1 DEF Statuses, coords, curr
  <2>. HIDE DEF t
  <2>. QED BY <2>1, <2>2, WaitersStep
<1>8. CASE TickJoin
  <2>. DEFINE t     == [threads[i] EXCEPT !.status = "waiting"]
              value == waiting_coords[coords]
  <2>1. /\ Ticking /\ Meets /\ i' = i + 1 /\ phase' = phase
        /\ waiting_coords' = [at \in DOMAIN waiting_coords \ {coords} |-> waiting_coords[at]]
        /\ threads' = [threads EXCEPT ![i] = t]
        /\ removal_indices' = removal_indices \o <<value, i>>
    BY <1>8 DEF TickJoin, Meets, Waits, NextThread
  <2>2. t \in ThreadsOf(program)
    BY <1>2, <2>1 DEF Statuses
  <2>. HIDE DEF t
  <2>3. Removed' = Removed \cup {value, i}
    BY <2>1, AppendPair
  <2>4. ASSUME NEW k \in 1 .. i - 1, k \notin Removed',
               HolderCoords(threads[k].ip) \in DOMAIN waiting_coords,
               waiting_coords[HolderCoords(threads[k].ip)] = k
        PROVE  /\ HolderCoords(threads[k].ip) \in DOMAIN waiting_coords'
               /\ waiting_coords'[HolderCoords(threads[k].ip)] = k
    BY <2>1, <2>3, <2>4
  <2>. QED BY <2>1, <2>2, <2>3, <2>4, WaitersStep
<1>9. CASE TickExit \/ TickCrash \/ OutOfMemory
  <2>1. phase' = "exited"
    BY <1>9 DEF TickExit, TickCrash, OutOfMemory
  <2>. QED BY <2>1 DEF MeetingInv, WaitersFit, NoMissedMeeting
<1>10. CASE EndTick
  <2>1. /\ phase = "tick" /\ phase' = "erase" /\ threads' = threads /\ Removed' = Removed
        /\ Indices' = Indices /\ i > Len(threads)
    BY <1>10 DEF EndTick, locals, Removed, Indices
  <2>2. Indices \subseteq 1 .. i - 1
    BY <2>1, LenProperties DEF VectorInv, TypeOK, Indices
  <2>3. \A j, k \in Indices :
          StaysWaiting(j) /\ StaysWaiting(k)
          /\ HolderCoords(threads[j].ip) = HolderCoords(threads[k].ip) => j = k
    BY <2>1, <2>2 DEF MeetingInv, WaitersFit
  <2>. QED BY <2>1, <2>3 DEF MeetingInv, WaitersFit, NoMissedMeeting, StaysWaiting
<1>11. CASE Erase
  BY <1>11, EraseKeepsWaiters
<1>12. CASE NextRound
  BY <1>12, NextRoundKeepsWaiters
<1>13. CASE Rerun
  <2>1. phase' = "tick" /\ i' = 1 /\ Indices' = {1}
    BY <1>13 DEF Rerun, Indices
  <2>. QED BY <2>1 DEF MeetingInv, WaitersFit, NoMissedMeeting
<1>14. CASE UNCHANGED vars
  BY <1>14 DEF vars, locals, MeetingInv, WaitersFit, NoMissedMeeting, StaysWaiting, Removed, Indices
<1>. QED BY <1>3, <1>4, <1>5, <1>6, <1>7, <1>8, <1>9, <1>10, <1>11, <1>12, <1>13, <1>14
         DEF Next, Run, Tick

\* When a round is over, no two threads still wait at the same place, however
\* many have stopped there and in whatever order they stand in the vector.
THEOREM MeetingsCorrect == Spec => []NoMissedMeeting
<1>1. Init => MeetingInv
  <2>. SUFFICES ASSUME Init PROVE MeetingInv
    OBVIOUS
  <2>1. phase = "tick" /\ i = 1 /\ Indices = {1}
    BY DEF Init, Start, Indices
  <2>. QED BY <2>1 DEF MeetingInv, WaitersFit, NoMissedMeeting
<1>2. VectorInv /\ MeetingInv /\ [Next]_vars => MeetingInv'
  BY MeetingInvNext
<1>3. MeetingInv => NoMissedMeeting
  BY DEF MeetingInv
<1>. QED BY <1>1, <1>2, <1>3, VectorInvHolds, PTL DEF Spec

\* Once every thread waits at a place of its own, run() never moves a thread
\* again, and never returns.
THEOREM StuckIsForever == Spec => StuckForever
<1>1. ASSUME VectorInv, [Next]_vars, Stuck PROVE Stuck' /\ threads' = threads
  <2>1. /\ phase \in {"tick", "erase"} /\ removal_indices = << >> /\ pending_threads = << >>
        /\ threads # << >> /\ threads \in Seq(ThreadsOf(program))
        /\ \A k \in Indices : threads[k].status = "waiting"
        /\ \A j, k \in Indices :
             HolderCoords(threads[j].ip) = HolderCoords(threads[k].ip) => j = k
    BY <1>1 DEF Stuck, VectorInv, TypeOK
  <2>2. ASSUME threads' = threads, phase' \in {"tick", "erase"},
               removal_indices' = << >>, pending_threads' = << >>
        PROVE  Stuck'
    BY <2>1, <2>2 DEF Stuck, Indices
  <2>3. Ticking => curr.status = "waiting" /\ i \in Indices
    BY <1>1, <2>1, LenProperties DEF Ticking, VectorInv, TypeOK, Indices, curr
  <2>4. ~Meets
    <3>. SUFFICES ASSUME Meets PROVE FALSE
      OBVIOUS
    <3>1. LET value == waiting_coords[coords]
          IN value \in 1 .. i - 1 /\ value \in Indices
             /\ HolderCoords(threads[value].ip) = HolderCoords(threads[i].ip)
      BY <1>1, Partner DEF coords, curr
    <3>2. i \in Indices /\ i \in Nat
      BY <1>1, <2>3 DEF Meets, Waits, VectorInv, TypeOK
    <3>. QED BY <2>1, <3>1, <3>2
  <2>5. CASE Tick
    <3>1. TickWait
      BY <2>3, <2>4, <2>5 DEF Tick, TickMove, TickRest, TickSplit, TickKill, TickJoin,
                              TickExit, TickCrash, OutOfMemory, Runs
    <3>2. [threads EXCEPT ![i].status = "waiting"] = threads
      <4>1. i \in Indices /\ threads[i] \in ThreadsOf(program) /\ threads[i].status = "waiting"
        BY <2>1, <2>3, <3>1, ElementOfSeq DEF TickWait, Waits, Indices
      <4>2. [threads[i] EXCEPT !.status = "waiting"] = threads[i]
        BY <4>1 DEF ThreadsOf
      <4>3. [threads EXCEPT ![i] = threads[i]] = threads
        BY <2>1, <4>1, LenProperties DEF Indices
      <4>. QED BY <4>2, <4>3
    <3>3. /\ threads' = threads /\ phase' = phase
          /\ removal_indices' = removal_indices /\ pending_threads' = pending_threads
      BY <3>1, <3>2 DEF TickWait, NextThread
    <3>. QED BY <2>1, <2>2, <3>3
  <2>6. CASE EndTick \/ UNCHANGED vars
    BY <2>1, <2>2, <2>6 DEF EndTick, vars, locals
  <2>7. CASE Erase
    BY <2>1, <2>7 DEF Erase
  <2>8. CASE NextRound
    <3>1. threads \o << >> = threads
      BY <2>1
    <3>. QED BY <2>1, <2>2, <2>8, <3>1 DEF NextRound
  <2>9. CASE Rerun
    BY <2>1, <2>9 DEF Rerun
  <2>. QED BY <1>1, <2>5, <2>6, <2>7, <2>8, <2>9 DEF Next, Run
<1>2. VectorInv /\ [Next]_vars => [Stuck => Stuck' /\ threads' = threads]_vars
  BY <1>1
<1>. QED BY <1>2, VectorInvHolds, PTL DEF Spec, StuckForever

-----------------------------------------------------------------------------
(***************************************************************************)
(* The refinement: the vector and its side lists implement the pool of     *)
(* ThreadPool.                                                              *)
(***************************************************************************)

-----------------------------------------------------------------------------
(* Pools of threads that have numbers of their own.                        *)

Distinct(A) == \A s, t \in A : s.number = t.number => s = t

NumbersOf(A) == { t.number : t \in A }

View(t) == [ip |-> t.ip, status |-> t.status]

\* A thread is found in the pool under its number.
LEMMA PoolValue ==
  ASSUME NEW A, Distinct(A)
  PROVE  /\ DOMAIN PoolOf(A) = NumbersOf(A)
         /\ PoolOf(A) = [n \in NumbersOf(A) |-> PoolOf(A)[n]]
         /\ \A t \in A : PoolOf(A)[t.number] = View(t)
<1>1. DOMAIN PoolOf(A) = NumbersOf(A) /\ PoolOf(A) = [n \in NumbersOf(A) |-> PoolOf(A)[n]]
  BY DEF PoolOf, NumbersOf
<1>2. ASSUME NEW t \in A PROVE PoolOf(A)[t.number] = View(t)
  <2>1. (CHOOSE s \in A : s.number = t.number) = t
    BY DEF Distinct
  <2>2. t.number \in NumbersOf(A)
    BY DEF NumbersOf
  <2>. QED BY <2>1, <2>2, Zenon DEF PoolOf, NumbersOf, View
<1>. QED BY <1>1, <1>2

\* The pool p without the numbers "gone", and with the pool q.
Merged(p, gone, q) ==
  [n \in (DOMAIN p \ gone) \cup DOMAIN q |-> IF n \in DOMAIN q THEN q[n] ELSE p[n]]

\* Threads G leave the pool and threads B, with new numbers, enter it.
LEMMA PoolReplaced ==
  ASSUME NEW A, NEW G \in SUBSET A, NEW B, Distinct(A), Distinct(B),
         \A a \in A \ G, b \in B : a.number # b.number
  PROVE  /\ Distinct((A \ G) \cup B)
         /\ NumbersOf(A \ G) = NumbersOf(A) \ NumbersOf(G)
         /\ PoolOf((A \ G) \cup B) = Merged(PoolOf(A), NumbersOf(G), PoolOf(B))
<1>. DEFINE C == (A \ G) \cup B
<1>1. Distinct(C)
  BY DEF Distinct
<1>2. NumbersOf(A \ G) = NumbersOf(A) \ NumbersOf(G)
  BY DEF Distinct, NumbersOf
<1>3. NumbersOf(C) = (NumbersOf(A) \ NumbersOf(G)) \cup NumbersOf(B)
  <2>1. NumbersOf(C) = NumbersOf(A \ G) \cup NumbersOf(B)
    BY DEF NumbersOf
  <2>. QED BY <1>2, <2>1
<1>4. ASSUME NEW n \in NumbersOf(C)
      PROVE  PoolOf(C)[n] = IF n \in NumbersOf(B) THEN PoolOf(B)[n] ELSE PoolOf(A)[n]
  <2>1. CASE n \in NumbersOf(B)
    <3>1. PICK t \in B : n = t.number
      BY <2>1 DEF NumbersOf
    <3>. QED BY <1>1, <2>1, <3>1, PoolValue
  <2>2. CASE n \notin NumbersOf(B)
    <3>1. PICK t \in A \ G : n = t.number
      BY <2>2 DEF NumbersOf
    <3>. QED BY <1>1, <2>2, <3>1, PoolValue
  <2>. QED BY <2>1, <2>2
<1>5. PoolOf(C) = [n \in NumbersOf(C) |->
                     IF n \in NumbersOf(B) THEN PoolOf(B)[n] ELSE PoolOf(A)[n]]
  <2>1. PoolOf(C) = [n \in NumbersOf(C) |-> PoolOf(C)[n]]
    BY <1>1, PoolValue
  <2>. QED BY <1>4, <2>1
<1>6. DOMAIN PoolOf(A) = NumbersOf(A) /\ DOMAIN PoolOf(B) = NumbersOf(B)
  BY PoolValue
<1>7. PoolOf(C) = Merged(PoolOf(A), NumbersOf(G), PoolOf(B))
  BY <1>3, <1>5, <1>6 DEF Merged
<1>. QED BY <1>1, <1>2, <1>7

LEMMA PoolOfOne ==
  ASSUME NEW t
  PROVE  /\ Distinct({t}) /\ NumbersOf({t}) = {t.number}
         /\ PoolOf({t}) = [k \in {t.number} |-> View(t)]
<1>1. Distinct({t}) /\ NumbersOf({t}) = {t.number}
  BY DEF Distinct, NumbersOf
<1>. QED BY <1>1, PoolValue

-----------------------------------------------------------------------------
(* The living threads.                                                     *)

\* No two living threads share a number; a lone first thread, whose number may
\* be above the counter, is the exception that NumbersFit names.
LEMMA NumbersApart ==
  ASSUME VectorInv, NumberInv
  PROVE  /\ \A j, k \in Indices : threads[j].number = threads[k].number => j = k
         /\ \A k \in Indices \ Removed, t \in ToSet(pending_threads) :
              threads[k].number # t.number
         /\ Distinct(ToSet(pending_threads))
<1>1. /\ Len(threads) \in Nat /\ DOMAIN threads = Indices
      /\ \A k \in Indices : threads[k].number \in Nat
      /\ DOMAIN pending_threads = 1 .. Len(pending_threads)
      /\ Len(pending_threads) \in Nat
      /\ \A k \in DOMAIN pending_threads : pending_threads[k].number \in Nat
  BY NumberTypes
<1>2. /\ \A j, k \in Indices : j < k => threads[j].number < threads[k].number
      /\ \A j, k \in DOMAIN pending_threads :
           j < k => pending_threads[j].number < pending_threads[k].number
  BY <1>1 DEF NumberInv, EldersFirst, Ascending
<1>3. ASSUME NEW j \in Indices, NEW k \in Indices, threads[j].number = threads[k].number
      PROVE  j = k
  <2>1. j \in Nat /\ k \in Nat
    BY <1>1 DEF Indices
  <2>2. ~(j < k) /\ ~(k < j)
    BY <1>1, <1>2, <1>3
  <2>. QED BY <2>1, <2>2
<1>4. ASSUME NEW k \in Indices \ Removed, NEW l \in DOMAIN pending_threads
      PROVE  threads[k].number # pending_threads[l].number
  <2>1. threads[k].number < pending_threads[l].number
    <3>1. CASE Len(threads) = 1
      <4>1. k = 1
        BY <3>1 DEF Indices
      <4>2. Removed # {1}
        BY <4>1
      <4>. QED BY <3>1, <4>1, <4>2 DEF NumberInv, NumbersFit
    <3>2. CASE Len(threads) # 1
      BY <1>1, <3>2 DEF NumberInv, EldersFirst
    <3>. QED BY <3>1, <3>2
  <2>. QED BY <1>1, <2>1
<1>5. Distinct(ToSet(pending_threads))
  <2>. SUFFICES ASSUME NEW j \in DOMAIN pending_threads, NEW k \in DOMAIN pending_threads,
                       pending_threads[j].number = pending_threads[k].number
                PROVE  j = k
    BY DEF Distinct, ToSet
  <2>1. j \in Nat /\ k \in Nat
    BY <1>1
  <2>2. ~(j < k) /\ ~(k < j)
    BY <1>1, <1>2
  <2>. QED BY <2>1, <2>2
<1>. QED BY <1>3, <1>4, <1>5 DEF ToSet

LEMMA AliveDistinct ==
  ASSUME VectorInv, NumberInv
  PROVE  Distinct(Alive)
BY NumbersApart DEF Distinct, Alive

LEMMA HadAlive ==
  ASSUME VectorInv
  PROVE  /\ phase \in {"tick", "erase"} => Had \subseteq Alive
         /\ \A t \in Alive : t \in ThreadsOf(program)
         /\ Ticking => i \in Indices \ Removed /\ curr \in Alive
<1>1. Len(threads) \in Nat /\ i \in Nat \ {0}
  BY LenProperties DEF VectorInv, TypeOK
<1>2. phase = "tick" => 1 .. i - 1 \subseteq Indices
  BY <1>1 DEF VectorInv, LoopsFit, Indices
<1>4. Ticking => i \in Indices \ Removed /\ curr \in Alive
  BY <1>1 DEF Ticking, VectorInv, SideListsFit, RemovalFits, Indices, Alive, curr
<1>5. \A t \in Alive : t \in ThreadsOf(program)
  <2>1. \A k \in Indices : threads[k] \in ThreadsOf(program)
    BY ThreadTypes DEF VectorInv
  <2>2. \A k \in DOMAIN pending_threads : pending_threads[k] \in ThreadsOf(program)
    BY ElementOfSeq, LenProperties DEF VectorInv, TypeOK
  <2>. QED BY <2>1, <2>2 DEF Alive, ToSet
<1>. QED BY <1>2, <1>4, <1>5 DEF Had, Alive

\* Membership, for the sets above.
LEMMA Members ==
  /\ \A t : t \in Alive <=> \/ \E k \in Indices \ Removed : t = threads[k]
                            \/ t \in ToSet(pending_threads)
  /\ Ticking => \A t : t \in Had <=> \/ \E k \in (1 .. i - 1) \ Removed : t = threads[k]
                                     \/ t \in ToSet(pending_threads)
BY DEF Alive, Had, Ticking

\* A tick replaces the current thread by t, removes the indices R, which may be
\* the current one, and lets the threads of "born" wait for the next round.
Gone(R)       == { threads[k] : k \in R \cup {i} }
Entering(R, t, born) == born \cup (IF i \in R THEN {} ELSE {t})

LEMMA TickedAlive ==
  ASSUME VectorInv, NumberInv, Ticking, NEW t \in ThreadsOf(program),
         threads' = [threads EXCEPT ![i] = t], i' = i + 1, phase' = phase,
         NEW R \in SUBSET ((1 .. i) \ Removed), Removed' = Removed \cup R,
         NEW born, ToSet(pending_threads)' = ToSet(pending_threads) \cup born
  PROVE  /\ Alive' = (Alive \ Gone(R)) \cup Entering(R, t, born)
         /\ Had'   = (Had \ Gone(R)) \cup Entering(R, t, born)
         /\ Gone(R) \in SUBSET Alive /\ curr \in Gone(R)
         /\ NumbersOf(Had \ Gone(R)) = NumbersOf(Had) \ NumbersOf(Gone(R))
<1>1. /\ Indices' = Indices /\ i \in Indices \ Removed /\ Len(threads) \in Nat /\ i \in Nat
      /\ \A k \in Indices : threads'[k] = IF k = i THEN t ELSE threads[k]
      /\ Indices = 1 .. Len(threads)
  BY ReplaceCurr, HadAlive, LenProperties DEF VectorInv, TypeOK, Indices
<1>2. R \cup {i} \subseteq Indices \ Removed /\ 1 .. i - 1 \subseteq Indices /\ i \notin 1 .. i - 1
  BY <1>1
<1>3. \A j, k \in Indices : threads[j] = threads[k] => j = k
  BY NumbersApart
<1>4. \A k \in Indices \ Removed : threads[k] \notin ToSet(pending_threads)
  BY NumbersApart
<1>5. \A u : u \in Gone(R) <=> \E k \in R \cup {i} : u = threads[k]
  BY DEF Gone
<1>6. ASSUME NEW k \in Indices \ Removed
       PROVE  threads[k] \in Gone(R) <=> k \in R \cup {i}
  <2>1. k \in R \cup {i} => threads[k] \in Gone(R)
    BY <1>5
  <2>2. ASSUME threads[k] \in Gone(R) PROVE k \in R \cup {i}
    <3>1. PICK j \in R \cup {i} : threads[k] = threads[j]
      BY <1>5, <2>2
    <3>2. j \in Indices
      BY <1>2
    <3>. QED BY <1>3, <3>1, <3>2
  <2>. QED BY <2>1, <2>2
<1>7. \A u \in ToSet(pending_threads) : u \notin Gone(R)
  BY <1>2, <1>4, <1>5
<1>8. \A u : u \in Alive \ Gone(R) <=>
         \/ \E k \in Indices \ (Removed \cup R \cup {i}) : u = threads[k]
         \/ u \in ToSet(pending_threads)
  <2>1. \A u : u \in Alive <=> \/ \E k \in Indices \ Removed : u = threads[k]
                            \/ u \in ToSet(pending_threads)
    BY Members
  <2>. QED BY <1>2, <1>6, <1>7, <2>1
<1>9. \A u : u \in Had \ Gone(R) <=>
         \/ \E k \in (1 .. i - 1) \ (Removed \cup R \cup {i}) : u = threads[k]
         \/ u \in ToSet(pending_threads)
  <2>1. \A u : u \in Had <=> \/ \E k \in (1 .. i - 1) \ Removed : u = threads[k]
                          \/ u \in ToSet(pending_threads)
    BY Members
  <2>. QED BY <1>2, <1>6, <1>7, <2>1
<1>10. \A u : u \in Alive' <=> \/ \E k \in Indices \ (Removed \cup R) : u = threads'[k]
                              \/ u \in ToSet(pending_threads) \/ u \in born
  BY <1>1 DEF Alive
<1>11. \A u : u \in Had' <=> \/ \E k \in (1 .. i) \ (Removed \cup R) : u = threads'[k]
                            \/ u \in ToSet(pending_threads) \/ u \in born
  <2>1. phase' # "erase" /\ i' - 1 = i
    BY <1>1 DEF Ticking
  <2>. QED BY <2>1 DEF Had
<1>12. \A u : u \in Entering(R, t, born) <=> u \in born \/ (i \notin R /\ u = t)
  BY DEF Entering
<1>13. Alive' = (Alive \ Gone(R)) \cup Entering(R, t, born)
  BY <1>1, <1>8, <1>10, <1>12
<1>14. Had' = (Had \ Gone(R)) \cup Entering(R, t, born)
  <2>1. \A k \in 1 .. i - 1 : threads'[k] = threads[k]
    BY <1>1, <1>2
  <2>2. 1 .. i = (1 .. i - 1) \cup {i} /\ threads'[i] = t
    BY <1>1
  <2>3. \A u : (\E k \in (1 .. i) \ (Removed \cup R) : u = threads'[k]) <=>
               \/ \E k \in (1 .. i - 1) \ (Removed \cup R \cup {i}) : u = threads[k]
               \/ i \notin R /\ u = t
    BY <1>1, <1>2, <2>1, <2>2
  <2>. QED BY <1>9, <1>11, <1>12, <2>3
<1>15. Gone(R) \in SUBSET Alive /\ curr \in Gone(R)
  BY <1>2, <1>5, Members DEF curr
<1>16. NumbersOf(Had \ Gone(R)) = NumbersOf(Had) \ NumbersOf(Gone(R))
  <2>1. Distinct(Alive) /\ Had \subseteq Alive
    BY AliveDistinct, HadAlive DEF Ticking
  <2>. QED BY <1>15, <2>1 DEF NumbersOf, Distinct
<1>. QED BY <1>13, <1>14, <1>15, <1>16

\* What that does to the pool.
LEMMA TickedPool ==
  ASSUME VectorInv, NumberInv, Ticking, NEW t \in ThreadsOf(program),
         threads' = [threads EXCEPT ![i] = t], i' = i + 1, phase' = phase,
         NEW R \in SUBSET ((1 .. i) \ Removed), Removed' = Removed \cup R,
         NEW born, ToSet(pending_threads)' = ToSet(pending_threads) \cup born,
         Distinct(Entering(R, t, born)),
         \A a \in Alive \ Gone(R), b \in Entering(R, t, born) : a.number # b.number
  PROVE  LET gone == NumbersOf(Gone(R))
             new  == Entering(R, t, born)
         IN /\ PoolOf(Alive)' = Merged(PoolOf(Alive), gone, PoolOf(new))
            /\ NumbersOf(Had') = (NumbersOf(Had) \ gone) \cup NumbersOf(new)
<1>. DEFINE gone == NumbersOf(Gone(R))
            new  == Entering(R, t, born)
<1>1. /\ Alive' = (Alive \ Gone(R)) \cup new
      /\ Had'   = (Had \ Gone(R)) \cup new
      /\ Gone(R) \in SUBSET Alive
      /\ NumbersOf(Had \ Gone(R)) = NumbersOf(Had) \ gone
  BY TickedAlive
<1>2. /\ Distinct(Alive) /\ Distinct(new)
      /\ \A a \in Alive \ Gone(R), b \in new : a.number # b.number
  BY AliveDistinct
<1>. HIDE DEF new, gone
<1>3. PoolOf((Alive \ Gone(R)) \cup new) = Merged(PoolOf(Alive), gone, PoolOf(new))
  <2>1. Gone(R) \in SUBSET Alive
    BY <1>1, Zenon
  <2>2. PoolOf((Alive \ Gone(R)) \cup new)
          = Merged(PoolOf(Alive), NumbersOf(Gone(R)), PoolOf(new))
    BY <1>2, <2>1, PoolReplaced, ZenonT(60)
  <2>. QED BY <2>2, Zenon DEF gone
<1>4. NumbersOf(Had') = NumbersOf(Had \ Gone(R)) \cup NumbersOf(new)
  <2>1. \A A, B : NumbersOf(A \cup B) = NumbersOf(A) \cup NumbersOf(B)
    BY DEF NumbersOf
  <2>2. Had' = (Had \ Gone(R)) \cup new
    BY <1>1
  <2>. QED BY <2>1, <2>2, Zenon
<1>. QED BY <1>1, <1>3, <1>4 DEF new, gone

-----------------------------------------------------------------------------
(* The turns of the threads.                                               *)

\* The current thread is due, and in the pool as it is in the vector.
LEMMA CurrIsDue ==
  ASSUME VectorInv, NumberInv, Ticking, NEW n, n = curr.number
  PROVE  /\ Pool!Due(n) /\ n \in NumbersOf(Alive)
         /\ DOMAIN PoolOf(Alive) = NumbersOf(Alive)
         /\ PoolOf(Alive) = [k \in NumbersOf(Alive) |-> PoolOf(Alive)[k]]
         /\ PoolOf(Alive)[n] = View(curr)
         /\ Pool!OpOf(n) = op
         /\ n \notin NumbersOf(Had)
<1>1. /\ Distinct(Alive) /\ Had \subseteq Alive /\ curr \in Alive /\ i \in Indices \ Removed
  BY AliveDistinct, HadAlive DEF Ticking
<1>2. /\ DOMAIN PoolOf(Alive) = NumbersOf(Alive)
      /\ PoolOf(Alive) = [k \in NumbersOf(Alive) |-> PoolOf(Alive)[k]]
      /\ PoolOf(Alive)[n] = View(curr)
  BY <1>1, PoolValue
<1>3. curr \notin Had
  <2>1. i \notin 1 .. i - 1 /\ 1 .. i - 1 \subseteq Indices
    BY <1>1, LenProperties DEF VectorInv, TypeOK, Indices, Ticking
  <2>2. \A k \in Indices : threads[k] = threads[i] => k = i
    BY <1>1, NumbersApart
  <2>3. threads[i] \notin ToSet(pending_threads)
    BY <1>1, NumbersApart
  <2>. QED BY <2>1, <2>2, <2>3, Members DEF curr
<1>4. n \notin NumbersOf(Had)
  BY <1>1, <1>3 DEF Distinct, NumbersOf
<1>5. n \in NumbersOf(Alive)
  BY <1>1 DEF NumbersOf
<1>6. Pool!Due(n)
  BY <1>2, <1>4, <1>5 DEF Pool!Due, NumbersOf, Ticking
<1>7. Pool!OpOf(n) = op
  BY <1>2 DEF Pool!OpOf, View, op
<1>. QED BY <1>2, <1>4, <1>5, <1>6, <1>7

\* A turn that changes the state of the current thread and nothing else.
LEMMA ChangedPool ==
  ASSUME VectorInv, NumberInv, Ticking, NEW t \in ThreadsOf(program),
         t.number = curr.number, ~Over(t),
         threads' = [threads EXCEPT ![i] = t], i' = i + 1, phase' = phase,
         UNCHANGED <<removal_indices, pending_threads>>
  PROVE  /\ PoolOf(Alive)' = [PoolOf(Alive) EXCEPT ![curr.number] = View(t)]
         /\ NumbersOf(Had') = NumbersOf(Had) \cup {curr.number}
<1>1. {} \in SUBSET ((1 .. i) \ Removed) /\ Removed' = Removed \cup {}
  BY DEF Removed
<1>2. ToSet(pending_threads)' = ToSet(pending_threads) \cup {}
  OBVIOUS
<1>3. Gone({}) = {curr} /\ Entering({}, t, {}) = {t}
  BY DEF Gone, Entering, curr
<1>4. /\ Distinct({t}) /\ NumbersOf({t}) = {curr.number} /\ NumbersOf({curr}) = {curr.number}
      /\ PoolOf({t})[curr.number] = View(t)
  BY PoolOfOne
<1>5. \A a \in Alive \ {curr}, b \in {t} : a.number # b.number
  BY AliveDistinct, HadAlive DEF Distinct
<1>6. /\ PoolOf(Alive)' = Merged(PoolOf(Alive), {curr.number}, PoolOf({t}))
      /\ NumbersOf(Had') = (NumbersOf(Had) \ {curr.number}) \cup {curr.number}
  <2>1. /\ Distinct(Entering({}, t, {}))
        /\ \A a \in Alive \ Gone({}), b \in Entering({}, t, {}) : a.number # b.number
    BY <1>3, <1>4, <1>5
  <2>2. /\ PoolOf(Alive)' = Merged(PoolOf(Alive), NumbersOf(Gone({})),
                                   PoolOf(Entering({}, t, {})))
        /\ NumbersOf(Had') = (NumbersOf(Had) \ NumbersOf(Gone({})))
                               \cup NumbersOf(Entering({}, t, {}))
    BY <1>1, <1>2, <2>1, TickedPool
  <2>. QED BY <1>3, <1>4, <2>2
<1>7. /\ DOMAIN PoolOf(Alive) = NumbersOf(Alive) /\ curr.number \in NumbersOf(Alive)
      /\ PoolOf(Alive) = [k \in NumbersOf(Alive) |-> PoolOf(Alive)[k]]
  BY CurrIsDue
<1>8. PoolOf(Alive)' = [PoolOf(Alive) EXCEPT ![curr.number] = View(t)]
  <2>. DEFINE p == PoolOf(Alive)
              d == NumbersOf(Alive)
  <2>1. p = [n \in d |-> p[n]] /\ curr.number \in d /\ DOMAIN p = d
    BY <1>7
  <2>. HIDE DEF p, d
  <2>2. [p EXCEPT ![curr.number] = View(t)] =
          [n \in d |-> IF n = curr.number THEN View(t) ELSE p[n]]
    BY <2>1
  <2>3. Merged(p, {curr.number}, PoolOf({t})) =
          [n \in d |-> IF n = curr.number THEN View(t) ELSE p[n]]
    <3>1. DOMAIN PoolOf({t}) = {curr.number}
      BY <1>4, PoolOfOne
    <3>. QED BY <1>4, <2>1, <3>1 DEF Merged
  <2>. QED BY <1>6, <2>1, <2>2, <2>3 DEF p
<1>9. NumbersOf(Had') = NumbersOf(Had) \cup {curr.number}
  BY <1>6
<1>. QED BY <1>8, <1>9

\* One of the kinds of turns of a thread that is due is a turn of the pool.
LEMMA TurnOf ==
  ASSUME NEW n, Pool!Due(n), n \in DOMAIN PoolOf(Alive),
         \/ Pool!Move(n) \/ Pool!Rest(n) \/ Pool!Split(n) \/ Pool!Die(n) \/ Pool!Wait(n)
         \/ \E m \in DOMAIN PoolOf(Alive) : Pool!Join(m, n),
         UNCHANGED <<program, phase \in {"tick", "erase"}>>
  PROVE  Pool!Turn
<1>1. \E k \in DOMAIN PoolOf(Alive) :
        Pool!Due(k) /\ (\/ Pool!Move(k) \/ Pool!Rest(k) \/ Pool!Split(k)
                        \/ Pool!Die(k) \/ Pool!Wait(k)
                        \/ \E m \in DOMAIN PoolOf(Alive) : Pool!Join(m, k))
  <2>. WITNESS n \in DOMAIN PoolOf(Alive)
  <2>. QED OBVIOUS
<1>. QED BY <1>1 DEF Pool!Turn

\* ... so it is for each status and operation of the current thread.
LEMMA MoveTurns ==
  ASSUME VectorInv, NumberInv, TickMove, NEW n, n = curr.number PROVE Pool!Turn
<1>1. Ticking /\ (Runs(Moving) \/ curr.status = "idle")
  BY DEF TickMove, Runs
<1>2. PICK goLeft \in BOOLEAN : threads' = [threads EXCEPT ![i] = Advanced(curr, goLeft)]
  BY DEF TickMove, AdvanceCurr, curr
<1>. DEFINE t == Advanced(curr, goLeft)
<1>3. /\ i \in Indices /\ curr \in ThreadsOf(program) /\ curr.ip \in HolderIPs(program)
      /\ op \in Moving \cup Resting
  BY <1>1, HadAlive, ThreadTypes DEF VectorInv, StatusFitsOp, curr, op, Runs
<1>4. HolderAdvance(program, curr.ip, goLeft) \in HolderIPs(program)
  BY <1>3, HolderStaysInside DEF VectorInv, Loaded, op
<1>5. /\ t \in ThreadsOf(program) /\ t.number = curr.number /\ t.status = "active"
      /\ t.ip = HolderAdvance(program, curr.ip, goLeft)
  BY <1>3, <1>4 DEF ThreadsOf, Statuses, Advanced
<1>. HIDE DEF t
<1>6. /\ PoolOf(Alive)' = [PoolOf(Alive) EXCEPT ![n] = View(t)]
      /\ NumbersOf(Had') = NumbersOf(Had) \cup {n}
  <2>1. ~Over(t) /\ i' = i + 1 /\ phase' = phase
        /\ UNCHANGED <<removal_indices, pending_threads>>
    BY <1>5 DEF Over, TickMove, NextThread, locals
  <2>2. threads' = [threads EXCEPT ![i] = t]
    BY <1>2 DEF t
  <2>. QED BY <1>1, <1>5, <2>1, <2>2, ChangedPool
<1>7. /\ Pool!Due(n) /\ n \in DOMAIN PoolOf(Alive)
      /\ PoolOf(Alive)[n] = View(curr) /\ Pool!OpOf(n) = op
  BY <1>1, CurrIsDue
<1>8. View(t) = Pool!Thread(HolderAdvance(program, PoolOf(Alive)[n].ip, goLeft),
                            "active")
  BY <1>5, <1>7 DEF View, Pool!Thread
<1>9. Pool!Move(n)
  <2>1. \/ PoolOf(Alive)[n].status = "idle"
        \/ /\ PoolOf(Alive)[n].status = "active"
           /\ op \notin Resting \cup {"EXT", "TSP", "TJN", "TKL"}
    BY <1>1, <1>7 DEF View, Runs, Moving, Computing, Resting
  <2>2. PoolOf(Alive)' = [PoolOf(Alive) EXCEPT ![n] =
          Pool!Thread(HolderAdvance(program, @.ip, goLeft), "active")]
    BY <1>6, <1>8
  <2>3. { u.number : u \in Had }' = { u.number : u \in Had } \cup {n}
    BY <1>6 DEF NumbersOf
  <2>. QED BY <1>7, <2>1, <2>2, <2>3 DEF Pool!Move, Pool!Resting, Resting
<1>10. UNCHANGED <<program, phase \in {"tick", "erase"}>>
  BY DEF TickMove, NextThread
<1>. QED BY <1>7, <1>9, <1>10, TurnOf

LEMMA RestTurns ==
  ASSUME VectorInv, NumberInv, TickRest, NEW n, n = curr.number PROVE Pool!Turn
<1>. DEFINE t == [curr EXCEPT !.status = "idle"]
<1>1. Ticking /\ curr.status = "active" /\ op \in Resting
  BY DEF TickRest, Runs
<1>2. i \in Indices /\ curr \in ThreadsOf(program)
  BY <1>1, HadAlive, ThreadTypes DEF VectorInv, curr
<1>3. /\ t \in ThreadsOf(program) /\ t.number = curr.number /\ ~Over(t)
      /\ View(t) = [View(curr) EXCEPT !.status = "idle"]
  BY <1>2 DEF ThreadsOf, Statuses, View, Over
<1>4. threads' = [threads EXCEPT ![i] = t]
  BY DEF TickRest, curr
<1>. HIDE DEF t
<1>5. /\ PoolOf(Alive)' = [PoolOf(Alive) EXCEPT ![n] = View(t)]
      /\ NumbersOf(Had') = NumbersOf(Had) \cup {n}
  <2>1. i' = i + 1 /\ phase' = phase /\ UNCHANGED <<removal_indices, pending_threads>>
    BY DEF TickRest, NextThread, locals
  <2>. QED BY <1>1, <1>3, <1>4, <2>1, ChangedPool
<1>6. /\ Pool!Due(n) /\ n \in DOMAIN PoolOf(Alive)
      /\ PoolOf(Alive)[n] = View(curr) /\ Pool!OpOf(n) = op
  BY <1>1, CurrIsDue
<1>7. Pool!Rest(n)
  <2>1. PoolOf(Alive)[n].status = "active"
    BY <1>1, <1>6 DEF View
  <2>2. PoolOf(Alive)' = [PoolOf(Alive) EXCEPT ![n].status = "idle"]
    BY <1>3, <1>5, <1>6
  <2>3. { u.number : u \in Had }' = { u.number : u \in Had } \cup {n}
    BY <1>5 DEF NumbersOf
  <2>. QED BY <1>1, <1>6, <2>1, <2>2, <2>3 DEF Pool!Rest, Pool!Resting, Resting
<1>8. UNCHANGED <<program, phase \in {"tick", "erase"}>>
  BY DEF TickRest, NextThread
<1>. QED BY <1>6, <1>7, <1>8, TurnOf

\* Whoever has waited at this place since its turn in this round is in the map.
LEMMA WaiterIsKnown ==
  ASSUME VectorInv, MeetingInv, Waits,
         NEW u \in Had, u.status = "waiting", HolderCoords(u.ip) = coords
  PROVE  Meets
<1>1. Ticking /\ phase = "tick"
  BY DEF Waits, Ticking
<1>2. u \notin ToSet(pending_threads)
  BY DEF VectorInv, LoopsFit, ToSet
<1>3. PICK k \in (1 .. i - 1) \ Removed : u = threads[k]
  BY <1>1, <1>2, Members
<1>. QED BY <1>1, <1>3 DEF MeetingInv, WaitersFit, StaysWaiting, Meets

LEMMA WaitTurns ==
  ASSUME VectorInv, NumberInv, MeetingInv, TickWait, NEW n, n = curr.number PROVE Pool!Turn
<1>. DEFINE t == [curr EXCEPT !.status = "waiting"]
<1>1. /\ Ticking /\ Waits /\ ~Meets
      /\ curr.status = "waiting" \/ (curr.status = "active" /\ op = "TJN")
  BY DEF TickWait, Waits
<1>2. i \in Indices /\ curr \in ThreadsOf(program)
  BY <1>1, HadAlive, ThreadTypes DEF VectorInv, curr
<1>3. /\ t \in ThreadsOf(program) /\ t.number = curr.number /\ ~Over(t)
      /\ View(t) = [View(curr) EXCEPT !.status = "waiting"]
  BY <1>2 DEF ThreadsOf, Statuses, View, Over
<1>4. threads' = [threads EXCEPT ![i] = t]
  BY DEF TickWait, curr
<1>. HIDE DEF t
<1>5. /\ PoolOf(Alive)' = [PoolOf(Alive) EXCEPT ![n] = View(t)]
      /\ NumbersOf(Had') = NumbersOf(Had) \cup {n}
  <2>1. i' = i + 1 /\ phase' = phase /\ UNCHANGED <<removal_indices, pending_threads>>
    BY DEF TickWait, NextThread
  <2>. QED BY <1>1, <1>3, <1>4, <2>1, ChangedPool
<1>6. /\ Pool!Due(n) /\ n \in DOMAIN PoolOf(Alive)
      /\ PoolOf(Alive)[n] = View(curr) /\ Pool!OpOf(n) = op
  BY <1>1, CurrIsDue
<1>7. ASSUME NEW m, Pool!WaitsFor(m, n) PROVE FALSE
  <2>1. PICK u \in Had : m = u.number
    BY <1>7 DEF Pool!WaitsFor
  <2>2. PoolOf(Alive)[m] = View(u)
    BY <1>1, <2>1, AliveDistinct, HadAlive, PoolValue DEF Ticking
  <2>3. u.status = "waiting" /\ HolderCoords(u.ip) = coords
    BY <1>6, <1>7, <2>2 DEF Pool!WaitsFor, View, coords
  <2>. QED BY <1>1, <2>3, WaiterIsKnown
<1>8. Pool!Wait(n)
  <2>1. Pool!Stops(n)
    BY <1>1, <1>6 DEF Pool!Stops, View
  <2>2. PoolOf(Alive)' = [PoolOf(Alive) EXCEPT ![n].status = "waiting"]
    BY <1>3, <1>5, <1>6
  <2>3. { u.number : u \in Had }' = { u.number : u \in Had } \cup {n}
    BY <1>5 DEF NumbersOf
  <2>. QED BY <1>7, <2>1, <2>2, <2>3 DEF Pool!Wait
<1>9. UNCHANGED <<program, phase \in {"tick", "erase"}>>
  BY DEF TickWait, NextThread
<1>. QED BY <1>6, <1>8, <1>9, TurnOf

LEMMA KillTurns ==
  ASSUME VectorInv, NumberInv, TickKill, NEW n, n = curr.number PROVE Pool!Turn
<1>. DEFINE t == [curr EXCEPT !.status = "terminated"]
<1>1. Ticking /\ curr.status = "active" /\ op = "TKL"
  BY DEF TickKill, Runs
<1>2. i \in Indices \ Removed /\ curr \in ThreadsOf(program) /\ i \in 1 .. i
  BY <1>1, HadAlive, ThreadTypes, LenProperties DEF VectorInv, TypeOK, curr, Indices
<1>3. t \in ThreadsOf(program)
  BY <1>2 DEF ThreadsOf, Statuses
<1>4. /\ threads' = [threads EXCEPT ![i] = t] /\ i' = i + 1 /\ phase' = phase
      /\ ToSet(pending_threads)' = ToSet(pending_threads) \cup {}
  BY DEF TickKill, NextThread, curr
<1>. HIDE DEF t
<1>5. {i} \in SUBSET ((1 .. i) \ Removed) /\ Removed' = Removed \cup {i}
  BY <1>1, <1>2, AppendIndex DEF TickKill
<1>6. Gone({i}) = {curr} /\ NumbersOf({curr}) = {n} /\ Entering({i}, t, {}) = {}
  BY DEF Gone, Entering, curr, NumbersOf
<1>7. Distinct({}) /\ NumbersOf({}) = {} /\ DOMAIN PoolOf({}) = {}
  <2>1. Distinct({}) /\ NumbersOf({}) = {}
    BY DEF Distinct, NumbersOf
  <2>. QED BY <2>1, PoolValue
<1>8. /\ PoolOf(Alive)' = Merged(PoolOf(Alive), {n}, PoolOf({}))
      /\ NumbersOf(Had') = NumbersOf(Had) \ {n}
  <2>1. /\ Distinct(Entering({i}, t, {}))
        /\ \A a \in Alive \ Gone({i}), b \in Entering({i}, t, {}) : a.number # b.number
    BY <1>6, <1>7
  <2>2. /\ PoolOf(Alive)' = Merged(PoolOf(Alive), NumbersOf(Gone({i})),
                                   PoolOf(Entering({i}, t, {})))
        /\ NumbersOf(Had') = (NumbersOf(Had) \ NumbersOf(Gone({i})))
                               \cup NumbersOf(Entering({i}, t, {}))
    BY <1>1, <1>3, <1>4, <1>5, <2>1, TickedPool
  <2>. QED BY <1>6, <1>7, <2>2
<1>9. /\ Pool!Due(n) /\ n \in DOMAIN PoolOf(Alive) /\ n \notin NumbersOf(Had)
      /\ PoolOf(Alive)[n] = View(curr) /\ Pool!OpOf(n) = op
  BY <1>1, CurrIsDue
<1>10. Pool!Die(n)
  <2>1. PoolOf(Alive)[n].status = "active"
    BY <1>1, <1>9 DEF View
  <2>2. PoolOf(Alive)' = [k \in DOMAIN PoolOf(Alive) \ {n} |-> PoolOf(Alive)[k]]
    BY <1>7, <1>8 DEF Merged
  <2>3. { u.number : u \in Had }' = { u.number : u \in Had }
    BY <1>8, <1>9 DEF NumbersOf
  <2>. QED BY <1>1, <1>9, <2>1, <2>2, <2>3 DEF Pool!Die
<1>11. UNCHANGED <<program, phase \in {"tick", "erase"}>>
  BY DEF TickKill, NextThread
<1>. QED BY <1>9, <1>10, <1>11, TurnOf

\* The living threads but the current one have numbers that have been counted.
LEMMA Counted ==
  ASSUME VectorInv, NumberInv, Ticking, NEW u \in Alive, u # curr
  PROVE  u.number <= thread_count /\ u.number \in Nat /\ thread_count \in Nat
<1>1. Len(threads) \in Nat /\ thread_count \in Nat /\ Indices = 1 .. Len(threads)
  BY NumberTypes DEF Indices
<1>2. u.number \in Nat
  BY HadAlive, CountsAreNatural DEF ThreadsOf
<1>3. CASE u \in ToSet(pending_threads)
  BY <1>1, <1>2, <1>3 DEF NumberInv, NumbersFit, ToSet
<1>4. CASE u \notin ToSet(pending_threads)
  <2>1. PICK k \in Indices \ Removed : u = threads[k]
    BY <1>4, Members
  <2>2. i \in Indices /\ k # i
    BY <2>1, HadAlive DEF curr
  <2>3. Len(threads) # 1
    <3>1. k \in 1 .. Len(threads) /\ i \in 1 .. Len(threads)
      BY <1>1, <2>1, <2>2
    <3>2. ASSUME Len(threads) = 1 PROVE FALSE
      <4>1. k \in 1 .. 1 /\ i \in 1 .. 1
        BY <3>1, <3>2
      <4>2. k = 1 /\ i = 1
        BY <4>1
      <4>. QED BY <2>2, <4>2
    <3>. QED BY <3>2
  <2>. QED BY <1>1, <1>2, <2>1, <2>3 DEF NumberInv, NumbersFit
<1>. QED BY <1>3, <1>4

LEMMA SplitTurns ==
  ASSUME VectorInv, NumberInv, TickSplit, NEW n, n = curr.number, NEW c, c = thread_count
  PROVE  Pool!Turn
<1>. DEFINE t   == [curr EXCEPT !.status = "splitting"]
            ips == HolderSplit(program, curr.ip)
            a   == NewThread(ips[1], c + 1)
            b   == NewThread(ips[2], c + 2)
<1>1. Ticking /\ curr.status = "active" /\ op = "TSP" /\ c + 2 <= MaxThreadCount
  BY DEF TickSplit, Runs
<1>2. i \in Indices \ Removed /\ curr \in ThreadsOf(program) /\ i \in 1 .. i
  BY <1>1, HadAlive, ThreadTypes, LenProperties DEF VectorInv, TypeOK, curr, Indices
<1>3. t \in ThreadsOf(program)
  BY <1>2 DEF ThreadsOf, Statuses
<1>4. c \in Nat /\ c + 1 \in 0 .. MaxThreadCount /\ c + 2 \in 0 .. MaxThreadCount
  BY <1>1, NumberTypes, CountsAreNatural
<1>5. /\ a \in ThreadsOf(program) /\ b \in ThreadsOf(program)
      /\ a.number = c + 1 /\ b.number = c + 2
      /\ View(a) = Pool!Thread(ips[1], "active") /\ View(b) = Pool!Thread(ips[2], "active")
  <2>1. <<a, b>> \in ThreadsOf(program) \X ThreadsOf(program)
    BY Heirs
  <2>2. a \in ThreadsOf(program) /\ b \in ThreadsOf(program)
    BY <2>1
  <2>. QED BY <2>2 DEF NewThread, View, Pool!Thread
<1>6. pending_threads' = pending_threads \o <<a, b>>
  BY DEF TickSplit
<1>7. threads' = [threads EXCEPT ![i] = t] /\ i' = i + 1 /\ phase' = phase
  BY DEF TickSplit, NextThread, curr
<1>. HIDE DEF t, a, b
<1>8. ToSet(pending_threads)' = ToSet(pending_threads) \cup {a, b}
  <2>. DEFINE p == pending_threads
              q == pending_threads'
  <2>1. <<a, b>> \in Seq(ThreadsOf(program)) /\ p \in Seq(ThreadsOf(program))
    BY <1>5 DEF VectorInv, TypeOK
  <2>2. /\ q \in Seq(ThreadsOf(program)) /\ Len(q) = Len(p) + 2 /\ Len(p) \in Nat
        /\ \A k \in 1 .. Len(p) : q[k] = p[k]
        /\ \A k \in Len(p) + 1 .. Len(p) + 2 : q[k] = <<a, b>>[k - Len(p)]
    BY <1>6, <2>1, ConcatElements
  <2>. HIDE DEF p, q
  <2>3. q[Len(p) + 1] = a /\ q[Len(p) + 2] = b
    BY <2>2
  <2>4. DOMAIN q = 1 .. Len(p) + 2 /\ DOMAIN p = 1 .. Len(p)
    BY <2>1, <2>2, LenProperties
  <2>5. 1 .. Len(p) + 2 = (1 .. Len(p)) \cup {Len(p) + 1, Len(p) + 2}
    BY <2>2
  <2>6. { q[k] : k \in DOMAIN q } = { p[k] : k \in DOMAIN p } \cup {a, b}
    BY <2>2, <2>3, <2>4, <2>5
  <2>. QED BY <2>6 DEF ToSet, p, q
<1>9. {i} \in SUBSET ((1 .. i) \ Removed) /\ Removed' = Removed \cup {i}
  BY <1>1, <1>2, AppendIndex DEF TickSplit
<1>10. Gone({i}) = {curr} /\ NumbersOf({curr}) = {n} /\ Entering({i}, t, {a, b}) = {a, b}
  BY DEF Gone, Entering, curr, NumbersOf
<1>11. Distinct({a, b}) /\ NumbersOf({a, b}) = {c + 1, c + 2} /\ c + 1 # c + 2
  BY <1>4, <1>5 DEF Distinct, NumbersOf
<1>12. \A u \in Alive \ {curr}, v \in {a, b} : u.number # v.number
  BY <1>1, <1>4, <1>5, Counted
<1>13. /\ PoolOf(Alive)' = Merged(PoolOf(Alive), {n}, PoolOf({a, b}))
       /\ NumbersOf(Had') = (NumbersOf(Had) \ {n}) \cup {c + 1, c + 2}
  <2>1. /\ Distinct(Entering({i}, t, {a, b}))
        /\ \A u \in Alive \ Gone({i}), v \in Entering({i}, t, {a, b}) : u.number # v.number
    BY <1>10, <1>11, <1>12
  <2>2. /\ PoolOf(Alive)' = Merged(PoolOf(Alive), NumbersOf(Gone({i})),
                                   PoolOf(Entering({i}, t, {a, b})))
        /\ NumbersOf(Had') = (NumbersOf(Had) \ NumbersOf(Gone({i})))
                               \cup NumbersOf(Entering({i}, t, {a, b}))
    BY <1>1, <1>3, <1>7, <1>8, <1>9, <2>1, TickedPool
  <2>. QED BY <1>10, <1>11, <2>2
<1>14. PoolOf({a, b}) = [k \in {c + 1, c + 2} |->
                           Pool!Thread(ips[IF k = c + 1 THEN 1 ELSE 2], "active")]
  <2>1. /\ PoolOf({a, b}) = [k \in {c + 1, c + 2} |-> PoolOf({a, b})[k]]
        /\ PoolOf({a, b})[c + 1] = View(a) /\ PoolOf({a, b})[c + 2] = View(b)
    BY <1>5, <1>11, PoolValue
  <2>. QED BY <1>5, <1>11, <2>1
<1>15. /\ Pool!Due(n) /\ n \in DOMAIN PoolOf(Alive)
       /\ PoolOf(Alive)[n] = View(curr) /\ Pool!OpOf(n) = op
       /\ DOMAIN PoolOf(Alive) = NumbersOf(Alive)
  BY <1>1, CurrIsDue
<1>16. Pool!Split(n)
  <2>1. PoolOf(Alive)[n].status = "active" /\ PoolOf(Alive)[n].ip = curr.ip
    BY <1>1, <1>15 DEF View
  <2>2. c + 1 \notin DOMAIN PoolOf(Alive) \ {n} /\ c + 2 \notin DOMAIN PoolOf(Alive) \ {n}
    <3>1. ASSUME NEW m \in NumbersOf(Alive), m # n PROVE m # c + 1 /\ m # c + 2
      <4>1. PICK u \in Alive : m = u.number
        BY DEF NumbersOf
      <4>. QED BY <1>4, <3>1, <4>1, <1>1, Counted
    <3>. QED BY <1>15, <3>1
  <2>3. { u.number : u \in Had }' = ({ u.number : u \in Had } \ {n}) \cup {c + 1, c + 2}
    BY <1>13 DEF NumbersOf
  <2>4. PoolOf(Alive)' = Merged(PoolOf(Alive), {n}, [k \in {c + 1, c + 2} |->
                           Pool!Thread(ips[IF k = c + 1 THEN 1 ELSE 2], "active")])
    BY <1>13, <1>14
  <2>5. PoolOf(Alive)' = Pool!Replace({n}, [k \in {c + 1, c + 2} |->
                           Pool!Thread(HolderSplit(program, PoolOf(Alive)[n].ip)
                                         [IF k = c + 1 THEN 1 ELSE 2], "active")])
    BY <2>1, <2>4 DEF Merged, Pool!Replace
  <2>. QED
    BY <1>1, <1>4, <1>11, <1>15, <2>1, <2>2, <2>3, <2>5 DEF Pool!Split, Pool!Fresh
<1>17. UNCHANGED <<program, phase \in {"tick", "erase"}>>
  BY DEF TickSplit, NextThread
<1>. QED BY <1>15, <1>16, <1>17, TurnOf

LEMMA JoinTurns ==
  ASSUME VectorInv, NumberInv, TickJoin, NEW n, n = curr.number, NEW c, c = thread_count,
         NEW v, v = waiting_coords[coords], NEW m, m = threads[v].number
  PROVE  Pool!Turn
<1>. DEFINE t == [curr EXCEPT !.status = "waiting"]
            b == NewThread(HolderJoin(program, threads[v].ip), c + 1)
<1>1. /\ Ticking /\ Meets /\ c + 1 <= MaxThreadCount
      /\ curr.status = "waiting" \/ (curr.status = "active" /\ op = "TJN")
  BY DEF TickJoin, Meets, Waits
<1>2. /\ i \in Indices \ Removed /\ i \in 1 .. i /\ t \in ThreadsOf(program)
  BY <1>1, HadAlive, WaitsOnJoin, LenProperties DEF VectorInv, TypeOK, Indices, Meets
<1>3. /\ v \in (1 .. i - 1) \ Removed /\ v \in Indices /\ v # i
      /\ threads[v].status = "waiting" /\ HolderCoords(threads[v].ip) = coords
  BY <1>1, <1>2, Partner
<1>4. c \in Nat /\ c + 1 \in 0 .. MaxThreadCount
  BY <1>1, NumberTypes, CountsAreNatural
<1>5. /\ b \in ThreadsOf(program) /\ b.number = c + 1
      /\ View(b) = Pool!Thread(HolderJoin(program, threads[v].ip), "active")
  <2>1. b \in ThreadsOf(program)
    BY Heirs
  <2>. QED BY <2>1 DEF NewThread, View, Pool!Thread
<1>6. /\ pending_threads' = Append(pending_threads, b)
      /\ removal_indices' = removal_indices \o <<waiting_coords[coords], i>>
      /\ threads' = [threads EXCEPT ![i] = t] /\ i' = i + 1 /\ phase' = phase
  BY DEF TickJoin, NextThread, curr
<1>. HIDE DEF t, b
<1>7. ToSet(pending_threads)' = ToSet(pending_threads) \cup {b}
  <2>. DEFINE p == pending_threads
              q == pending_threads'
  <2>1. p \in Seq(ThreadsOf(program))
    BY DEF VectorInv, TypeOK
  <2>2. /\ q \in Seq(ThreadsOf(program)) /\ Len(q) = Len(p) + 1
        /\ \A k \in 1 .. Len(p) : q[k] = p[k]
        /\ q[Len(p) + 1] = b
    BY <1>5, <1>6, <2>1, AppendProperties
  <2>3. /\ DOMAIN q = 1 .. Len(p) + 1 /\ DOMAIN p = 1 .. Len(p) /\ Len(p) \in Nat
    BY <2>1, <2>2, LenProperties
  <2>. HIDE DEF p, q
  <2>4. 1 .. Len(p) + 1 = (1 .. Len(p)) \cup {Len(p) + 1}
    BY <2>3
  <2>5. { q[k] : k \in DOMAIN q } = { p[k] : k \in DOMAIN p } \cup {b}
    BY <2>2, <2>3, <2>4
  <2>. QED BY <2>5 DEF ToSet, p, q
<1>8. {v, i} \in SUBSET ((1 .. i) \ Removed) /\ Removed' = Removed \cup {v, i}
  BY <1>1, <1>2, <1>3, <1>6, AppendPair
<1>9. /\ Gone({v, i}) = {threads[v], curr} /\ NumbersOf({threads[v], curr}) = {m, n}
      /\ Entering({v, i}, t, {b}) = {b}
  BY DEF Gone, Entering, curr, NumbersOf
<1>10. Distinct({b}) /\ NumbersOf({b}) = {c + 1} /\ PoolOf({b}) = [k \in {c + 1} |-> View(b)]
  BY <1>5, PoolOfOne
<1>11. \A u \in Alive \ {threads[v], curr}, w \in {b} : u.number # w.number
  BY <1>1, <1>4, <1>5, Counted
<1>12. /\ PoolOf(Alive)' = Merged(PoolOf(Alive), {m, n}, PoolOf({b}))
       /\ NumbersOf(Had') = (NumbersOf(Had) \ {m, n}) \cup {c + 1}
  <2>1. /\ Distinct(Entering({v, i}, t, {b}))
        /\ \A u \in Alive \ Gone({v, i}), w \in Entering({v, i}, t, {b}) :
             u.number # w.number
    BY <1>9, <1>10, <1>11
  <2>2. /\ PoolOf(Alive)' = Merged(PoolOf(Alive), NumbersOf(Gone({v, i})),
                                   PoolOf(Entering({v, i}, t, {b})))
        /\ NumbersOf(Had') = (NumbersOf(Had) \ NumbersOf(Gone({v, i})))
                               \cup NumbersOf(Entering({v, i}, t, {b}))
    BY <1>1, <1>2, <1>6, <1>7, <1>8, <2>1, TickedPool
  <2>. QED BY <1>9, <1>10, <2>2
<1>13. /\ Pool!Due(n) /\ n \in DOMAIN PoolOf(Alive) /\ n \notin NumbersOf(Had)
       /\ PoolOf(Alive)[n] = View(curr) /\ Pool!OpOf(n) = op
       /\ DOMAIN PoolOf(Alive) = NumbersOf(Alive)
  BY <1>1, CurrIsDue
<1>14. threads[v] \in Had /\ threads[v] \in Alive
  BY <1>1, <1>3, Members
<1>15. m \in NumbersOf(Had) /\ m \in NumbersOf(Alive) /\ PoolOf(Alive)[m] = View(threads[v])
  BY <1>14, AliveDistinct, PoolValue DEF NumbersOf
<1>16. Pool!Join(m, n)
  <2>1. Pool!Stops(n)
    BY <1>1, <1>13 DEF Pool!Stops, View
  <2>2. Pool!WaitsFor(m, n)
    <3>1. PoolOf(Alive)[m].status = "waiting"
      BY <1>3, <1>15 DEF View
    <3>2. HolderCoords(PoolOf(Alive)[m].ip) = HolderCoords(PoolOf(Alive)[n].ip)
      BY <1>3, <1>13, <1>15 DEF View, coords
    <3>. QED BY <1>15, <3>1, <3>2 DEF Pool!WaitsFor, NumbersOf
  <2>3. c + 1 \notin DOMAIN PoolOf(Alive) \ {m, n}
    <3>1. ASSUME NEW k \in NumbersOf(Alive), k # n PROVE k # c + 1
      <4>1. PICK u \in Alive : k = u.number
        BY DEF NumbersOf
      <4>. QED BY <1>1, <1>4, <3>1, <4>1, Counted
    <3>. QED BY <1>13, <3>1
  <2>4. { u.number : u \in Had }' = ({ u.number : u \in Had } \ {m}) \cup {c + 1}
    BY <1>12, <1>13 DEF NumbersOf
  <2>5. View(b) = Pool!Thread(HolderJoin(program, PoolOf(Alive)[m].ip), "active")
    BY <1>5, <1>15 DEF View
  <2>6. PoolOf(Alive)' = Merged(PoolOf(Alive), {m, n}, [k \in {c + 1} |->
                           Pool!Thread(HolderJoin(program, PoolOf(Alive)[m].ip), "active")])
    BY <1>10, <1>12, <2>5
  <2>7. PoolOf(Alive)' = Pool!Replace({m, n}, [k \in {c + 1} |->
                           Pool!Thread(HolderJoin(program, PoolOf(Alive)[m].ip), "active")])
    BY <2>6 DEF Merged, Pool!Replace
  <2>. QED BY <1>4, <2>1, <2>2, <2>3, <2>4, <2>7 DEF Pool!Join, Pool!Fresh
<1>17. UNCHANGED <<program, phase \in {"tick", "erase"}>>
  BY DEF TickJoin, NextThread
<1>18. \E k \in DOMAIN PoolOf(Alive) : Pool!Join(k, n)
  <2>1. m \in DOMAIN PoolOf(Alive)
    BY <1>13, <1>15
  <2>. WITNESS m \in DOMAIN PoolOf(Alive)
  <2>. QED BY <1>16
<1>. QED BY <1>13, <1>17, <1>18, TurnOf

-----------------------------------------------------------------------------
(* The other steps of run().                                               *)

\* A thread whose turn it is may end the process.
LEMMA ExitsPool ==
  ASSUME VectorInv, NumberInv, TickExit \/ TickCrash \/ OutOfMemory, NEW n, n = curr.number
  PROVE  Pool!Exit
<1>1. /\ Ticking /\ phase' = "exited"
      /\ UNCHANGED <<program, threads, i, removal_indices, pending_threads>>
  BY DEF TickExit, TickCrash, OutOfMemory, locals, Runs, Meets, Waits
<1>2. Alive' = Alive /\ Had' = Had
  BY <1>1 DEF Alive, Had, Removed, Indices, Ticking
<1>3. PoolOf(Alive)' = PoolOf(Alive) /\ { t.number : t \in Had }' = { t.number : t \in Had }
  BY <1>2 DEF PoolOf
<1>4. Pool!Due(n) /\ n \in DOMAIN PoolOf(Alive)
  BY <1>1, CurrIsDue
<1>5. \E k \in DOMAIN PoolOf(Alive) : Pool!Due(k)
  BY <1>4
<1>6. (phase \in {"tick", "erase"})' = FALSE
  BY <1>1
<1>. QED BY <1>1, <1>3, <1>5, <1>6 DEF Pool!Exit

\* At the end of the loop every living thread has had its turn.
LEMMA EndTickStutters ==
  ASSUME VectorInv, EndTick PROVE UNCHANGED Pool!vars
<1>1. /\ phase = "tick" /\ i > Len(threads) /\ phase' = "erase"
      /\ UNCHANGED <<program, threads, i, removal_indices, pending_threads>>
  BY DEF EndTick, locals
<1>2. Alive' = Alive
  BY <1>1 DEF Alive, Removed, Indices
<1>3. 1 .. i - 1 = Indices
  BY <1>1, LenProperties DEF VectorInv, TypeOK, LoopsFit, Indices
<1>4. Had' = Had
  BY <1>1, <1>2, <1>3 DEF Alive, Had
<1>. QED BY <1>1, <1>2, <1>4 DEF Pool!vars, PoolOf

\* Erasing a removed index leaves the threads that stay.
LEMMA EraseStutters ==
  ASSUME VectorInv, Erase PROVE UNCHANGED Pool!vars
<1>1. PICK k \in DOMAIN removal_indices :
        /\ \A j \in DOMAIN removal_indices : removal_indices[j] <= removal_indices[k]
        /\ threads' = RemoveAt(threads, removal_indices[k])
        /\ removal_indices' = RemoveAt(removal_indices, k)
  BY DEF Erase
<1>. DEFINE m == removal_indices[k]
<1>2. /\ program' = program /\ phase = "erase" /\ phase' = "erase"
      /\ pending_threads' = pending_threads
  BY DEF Erase
<1>3. /\ Removed' = Removed \ {m} /\ \A j \in Removed' : j < m
      /\ Removed \subseteq Indices /\ m \in Removed
  <2>1. /\ removal_indices \in Seq(Nat) /\ Removed \subseteq Indices
        /\ \A j, l \in DOMAIN removal_indices : j # l => removal_indices[j] # removal_indices[l]
    BY DEF VectorInv, TypeOK, SideListsFit, RemovalFits
  <2>2. Removed' = Removed \ {m} /\ \A j \in Removed' : j < m
    BY <1>1, <2>1, TakeHighest DEF Removed
  <2>3. m \in Removed
    BY DEF Removed, ToSet
  <2>. QED BY <2>1, <2>2, <2>3
<1>. HIDE DEF m
<1>4. /\ Len(threads) \in Nat /\ Indices = 1 .. Len(threads) /\ m \in 1 .. Len(threads)
      /\ Indices' = 1 .. Len(threads) - 1
      /\ \A j \in 1 .. Len(threads) - 1 :
           threads'[j] = IF j < m THEN threads[j] ELSE threads[j + 1]
  <2>1. m \in 1 .. Len(threads) /\ threads \in Seq(ThreadsOf(program))
    BY <1>3 DEF VectorInv, TypeOK, Indices
  <2>2. /\ Len(threads') = Len(threads) - 1
        /\ \A j \in 1 .. Len(threads) - 1 :
             threads'[j] = IF j < m THEN threads[j] ELSE threads[j + 1]
    BY <1>1, <2>1, RemoveAtElements DEF m
  <2>. QED BY <2>1, <2>2, LenProperties DEF Indices
<1>5. ASSUME NEW j \in Indices' \ Removed'
      PROVE  \E l \in Indices \ Removed : threads'[j] = threads[l]
  <2>1. CASE j < m
    <3>1. j \in Indices \ Removed /\ threads'[j] = threads[j]
      BY <1>3, <1>4, <2>1
    <3>. QED BY <3>1
  <2>2. CASE ~(j < m)
    <3>1. j + 1 \in Indices /\ j + 1 > m /\ threads'[j] = threads[j + 1]
      BY <1>4, <2>2
    <3>2. j + 1 \notin Removed
      BY <1>3, <1>4, <3>1
    <3>. QED BY <3>1, <3>2
  <2>. QED BY <2>1, <2>2
<1>6. ASSUME NEW l \in Indices \ Removed
      PROVE  \E j \in Indices' \ Removed' : threads'[j] = threads[l]
  <2>1. CASE l < m
    <3>1. l \in Indices' \ Removed' /\ threads'[l] = threads[l]
      BY <1>3, <1>4, <2>1
    <3>. QED BY <3>1
  <2>2. CASE l > m
    <3>1. l - 1 \in Indices' /\ ~(l - 1 < m) /\ threads'[l - 1] = threads[l]
      BY <1>4, <2>2
    <3>2. l - 1 \notin Removed'
      BY <1>3, <3>1
    <3>. QED BY <3>1, <3>2
  <2>3. l # m /\ l \in Nat /\ m \in Nat
    BY <1>3, <1>4
  <2>. QED BY <2>1, <2>2, <2>3
<1>7. Alive' = Alive
  <2>1. { threads'[j] : j \in Indices' \ Removed' } = { threads[l] : l \in Indices \ Removed }
    BY <1>5, <1>6
  <2>. QED BY <1>2, <2>1 DEF Alive
<1>. QED BY <1>2, <1>7 DEF Had, Pool!vars, PoolOf

\* Appending the pending threads leaves the pool as it is; everyone is due again.
LEMMA NextRoundOfPool ==
  ASSUME VectorInv, NumberInv, NextRound PROVE Pool!NewRound \/ Pool!Return
<1>1. /\ program' = program /\ removal_indices = << >> /\ removal_indices' = << >>
      /\ phase = "erase" /\ i' = 1 /\ pending_threads' = << >>
      /\ threads' = threads \o pending_threads
      /\ phase' = IF threads' = << >> THEN "done" ELSE "tick"
  BY DEF NextRound
<1>2. threads \in Seq(ThreadsOf(program)) /\ pending_threads \in Seq(ThreadsOf(program))
  BY DEF VectorInv, TypeOK
<1>3. /\ threads' \in Seq(ThreadsOf(program))
      /\ Len(threads') = Len(threads) + Len(pending_threads)
      /\ Len(threads) \in Nat /\ Len(pending_threads) \in Nat
      /\ \A k \in 1 .. Len(threads) : threads'[k] = threads[k]
      /\ \A k \in Len(threads) + 1 .. Len(threads) + Len(pending_threads) :
           /\ k - Len(threads) \in 1 .. Len(pending_threads)
           /\ threads'[k] = pending_threads[k - Len(threads)]
  BY <1>1, <1>2, ConcatElements
<1>4. /\ Removed = {} /\ Removed' = {} /\ ToSet(pending_threads)' = {}
      /\ ToSet(pending_threads) = { pending_threads[k] : k \in 1 .. Len(pending_threads) }
      /\ Indices = 1 .. Len(threads) /\ Indices' = 1 .. Len(threads) + Len(pending_threads)
  BY <1>1, <1>2, <1>3, LenProperties DEF Removed, ToSet, Indices
<1>5. Alive' = Alive
  <2>1. ASSUME NEW u \in Alive' PROVE u \in Alive
    <3>1. PICK k \in 1 .. Len(threads) + Len(pending_threads) : u = threads'[k]
      BY <1>4 DEF Alive
    <3>2. CASE k <= Len(threads)
      BY <1>3, <1>4, <3>1, <3>2 DEF Alive
    <3>3. CASE k > Len(threads)
      BY <1>3, <1>4, <3>1, <3>3 DEF Alive
    <3>. QED BY <1>3, <3>2, <3>3
  <2>2. ASSUME NEW u \in Alive PROVE \E k \in Indices' : u = threads'[k]
    <3>1. CASE \E k \in Indices : u = threads[k]
      BY <1>3, <1>4, <3>1
    <3>2. CASE u \in ToSet(pending_threads)
      <4>1. PICK k \in 1 .. Len(pending_threads) : u = pending_threads[k]
        BY <1>4, <3>2
      <4>2. k + Len(threads) \in Indices' /\ (k + Len(threads)) - Len(threads) = k
            /\ k + Len(threads) \in Len(threads) + 1 .. Len(threads) + Len(pending_threads)
        BY <1>3, <1>4
      <4>3. threads'[k + Len(threads)] = pending_threads[k]
        BY <1>3, <4>2
      <4>. QED BY <4>1, <4>2, <4>3
    <3>. QED BY <1>4, <3>1, <3>2 DEF Alive
  <2>3. ASSUME NEW u \in Alive PROVE u \in Alive'
    BY <1>4, <2>2 DEF Alive
  <2>. QED BY <2>1, <2>3
<1>6. PoolOf(Alive)' = PoolOf(Alive) /\ DOMAIN PoolOf(Alive) = NumbersOf(Alive)
  BY <1>5, AliveDistinct, PoolValue DEF PoolOf
<1>7. Had' = {} /\ Had = Alive
  BY <1>1, <1>4 DEF Had
<1>8. { t.number : t \in Had } = DOMAIN PoolOf(Alive) /\ { t.number : t \in Had }' = {}
  BY <1>6, <1>7 DEF NumbersOf
<1>9. CASE threads' = << >>
  <2>1. Len(threads) = 0 /\ Len(pending_threads) = 0
    BY <1>3, <1>9
  <2>2. Indices = {} /\ ToSet(pending_threads) = {}
    BY <1>4, <2>1
  <2>3. Alive = {}
    BY <2>2 DEF Alive
  <2>4. PoolOf(Alive) = << >>
    BY <2>3 DEF PoolOf
  <2>5. (phase \in {"tick", "erase"})' = FALSE /\ phase \in {"tick", "erase"}
    BY <1>1, <1>9
  <2>6. { t.number : t \in Had }' = { t.number : t \in Had }
    BY <1>7, <2>3
  <2>. QED BY <1>1, <1>6, <2>4, <2>5, <2>6 DEF Pool!Return
<1>10. CASE threads' # << >>
  <2>1. 1 \in Indices'
    BY <1>3, <1>4, <1>10, EmptySeq
  <2>2. threads'[1] \in Alive
    BY <1>4, <1>5, <2>1 DEF Alive
  <2>3. PoolOf(Alive) # << >>
    <3>1. DOMAIN PoolOf(Alive) # {}
      BY <1>6, <2>2 DEF NumbersOf
    <3>2. DOMAIN << >> = {}
      OBVIOUS
    <3>. QED BY <3>1, <3>2
  <2>4. (phase \in {"tick", "erase"})' = (phase \in {"tick", "erase"})
        /\ phase \in {"tick", "erase"}
    BY <1>1, <1>10
  <2>. QED BY <1>1, <1>6, <1>8, <2>3, <2>4 DEF Pool!NewRound
<1>. QED BY <1>9, <1>10

\* The pool of a lone first thread.
LEMMA PoolOfFirst ==
  ASSUME NEW c
  PROVE  PoolOf({NewThread(StartIP, c)}) = [k \in {c} |-> Pool!Thread(StartIP, "active")]
<1>. DEFINE t == NewThread(StartIP, c)
<1>1. t.number = c /\ View(t) = Pool!Thread(StartIP, "active")
  BY DEF NewThread, View, Pool!Thread
<1>. HIDE DEF t
<1>2. PoolOf({t}) = [k \in {t.number} |-> View(t)]
  BY PoolOfOne
<1>3. PoolOf({t}) = [k \in {c} |-> Pool!Thread(StartIP, "active")]
  BY <1>1, <1>2
<1>. QED BY <1>3 DEF t

\* ... and one that has not run.
LEMMA LoneFirst ==
  ASSUME NEW c \in 0 .. MaxThreadCount, threads = <<NewThread(StartIP, c)>>,
         phase = "tick", i = 1, removal_indices = << >>, pending_threads = << >>
  PROVE  /\ PoolOf(Alive) = [k \in {c} |-> Pool!Thread(StartIP, "active")]
         /\ { t.number : t \in Had } = {}
<1>1. Indices = {1} /\ Removed = {} /\ ToSet(pending_threads) = {}
  BY DEF Indices, Removed, ToSet
<1>2. Alive = {NewThread(StartIP, c)} /\ Had = {}
  BY <1>1 DEF Alive, Had
<1>3. PoolOf({NewThread(StartIP, c)}) =
        [k \in {c} |-> Pool!Thread(StartIP, "active")]
  BY PoolOfFirst
<1>. QED BY <1>2, <1>3

\* The first program starts the pool.
LEMMA InitOfPool == Init => Pool!Init
<1>. SUFFICES ASSUME Init PROVE Pool!Init
  OBVIOUS
<1>1. /\ program \in Programs /\ threads = <<NewThread(StartIP, 0)>> /\ phase = "tick"
      /\ i = 1 /\ removal_indices = << >> /\ pending_threads = << >>
  BY DEF Init, Start
<1>2. 0 \in 0 .. MaxThreadCount
  BY CountsAreNatural
<1>3. /\ PoolOf(Alive) = [k \in {0} |-> Pool!Thread(StartIP, "active")]
      /\ { t.number : t \in Had } = {}
  BY <1>1, <1>2, LoneFirst
<1>4. (phase \in {"tick", "erase"}) = TRUE
  BY <1>1
<1>. QED BY <1>1, <1>2, <1>3, <1>4 DEF Pool!Init

\* The next program starts with one thread, whatever number it takes.
LEMMA RerunRestarts ==
  ASSUME VectorInv, Rerun, NEW c, c = thread_count PROVE Pool!Restart
<1>1. /\ program' \in Programs /\ threads' = <<NewThread(StartIP, c)>> /\ phase' = "tick"
      /\ i' = 1 /\ removal_indices' = << >> /\ pending_threads' = << >>
      /\ phase \in {"done", "exited"}
  BY DEF Rerun
<1>2. c \in 0 .. MaxThreadCount
  BY DEF VectorInv, TypeOK
<1>3. Indices' = {1} /\ Removed' = {} /\ ToSet(pending_threads)' = {}
  BY <1>1 DEF Indices, Removed, ToSet
<1>4. Alive' = {NewThread(StartIP, c)} /\ Had' = {}
  BY <1>1, <1>3 DEF Alive, Had
<1>5. PoolOf(Alive)' = [k \in {c} |-> Pool!Thread(StartIP, "active")]
  BY <1>4, PoolOfFirst DEF PoolOf
<1>6. { t.number : t \in Had }' = {}
  BY <1>4
<1>7. ~(phase \in {"tick", "erase"}) /\ (phase \in {"tick", "erase"})' = TRUE
  BY <1>1
<1>. QED BY <1>1, <1>2, <1>5, <1>6, <1>7 DEF Pool!Restart, Pool!Start

-----------------------------------------------------------------------------

\* Every step of the interpreter is a step of the pool or leaves it alone.
LEMMA StepOfPool ==
  VectorInv /\ NumberInv /\ MeetingInv /\ [Next]_vars => [Pool!Next]_(Pool!vars)
<1>. SUFFICES ASSUME VectorInv, NumberInv, MeetingInv, [Next]_vars
              PROVE  Pool!Next \/ UNCHANGED Pool!vars
  OBVIOUS
<1>1. CASE Tick
  <2>1. ASSUME NEW n, n = curr.number, NEW c, c = thread_count,
               NEW v, v = waiting_coords[coords], NEW m, m = threads[v].number
        PROVE  Pool!Turn \/ Pool!Exit
    BY <1>1, <2>1, MoveTurns, RestTurns, SplitTurns, KillTurns, WaitTurns, JoinTurns, ExitsPool
       DEF Tick
  <2>2. Pool!Turn \/ Pool!Exit
    BY <2>1
  <2>. QED BY <2>2 DEF Pool!Next
<1>2. CASE EndTick
  BY <1>2, EndTickStutters
<1>3. CASE Erase
  BY <1>3, EraseStutters
<1>4. CASE NextRound
  BY <1>4, NextRoundOfPool DEF Pool!Next
<1>5. CASE Rerun
  <2>1. ASSUME NEW c, c = thread_count PROVE Pool!Restart
    BY <1>5, <2>1, RerunRestarts
  <2>2. Pool!Restart
    BY <2>1
  <2>. QED BY <2>2 DEF Pool!Next
<1>6. CASE UNCHANGED vars
  BY <1>6 DEF vars, locals, Pool!vars, PoolOf, Alive, Had, Removed, Indices
<1>. QED BY <1>1, <1>2, <1>3, <1>4, <1>5, <1>6 DEF Next, Run

\* The interpreter, with its vector, its indices into it and its map, runs its
\* threads as the pool does: in every round each living thread takes one turn,
\* those born in it wait for the next one, threads meet exactly when they wait
\* at the same place, and nothing is lost or run twice when the vector is
\* edited.
THEOREM ImplementsThePool == Spec => RunsThePool
<1>1. Init => NumberInv
  <2>. SUFFICES ASSUME Init PROVE NumberInv
    OBVIOUS
  <2>1. Len(threads) = 1 /\ DOMAIN threads = {1} /\ DOMAIN pending_threads = {}
    BY DEF Init, Start
  <2>. QED BY <2>1 DEF NumberInv, EldersFirst, NumbersFit, Ascending
<1>2. Init => MeetingInv
  <2>. SUFFICES ASSUME Init PROVE MeetingInv
    OBVIOUS
  <2>1. phase = "tick" /\ i = 1 /\ Indices = {1}
    BY DEF Init, Start, Indices
  <2>. QED BY <2>1 DEF MeetingInv, WaitersFit, NoMissedMeeting
<1>3. VectorInv /\ NumberInv /\ [Next]_vars => NumberInv'
  BY NumberInvNext
<1>4. VectorInv /\ MeetingInv /\ [Next]_vars => MeetingInv'
  BY MeetingInvNext
<1>. QED BY <1>1, <1>2, <1>3, <1>4, InitOfPool, StepOfPool, VectorInvHolds, PTL
         DEF Spec, RunsThePool, Pool!Spec
=============================================================================
