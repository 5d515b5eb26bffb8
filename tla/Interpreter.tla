----------------------------- MODULE Interpreter -----------------------------
(***************************************************************************)
(* interpreter<ProgramHolder>::run and thread<ProgramHolder>::tick.        *)
(*                                                                         *)
(* run() keeps its threads in a vector.  Each round it ticks them in the   *)
(* order of the vector and collects, on the side, the indices to remove,   *)
(* the threads to add and the coordinates at which a thread waits; then it *)
(* erases, from the highest index down, and appends.  One step of this     *)
(* model is one iteration of one of these loops, so that every             *)
(* intermediate state in which the indices, the vector and the side lists  *)
(* have to agree is a state of the model.                                  *)
(*                                                                         *)
(* Like the template it is generic in the program holder.  The stacks are  *)
(* abstracted away: a branch may go either way, and an operation that      *)
(* reads the stack may find it empty, which is undefined behaviour.        *)
(***************************************************************************)
EXTENDS Integers, Sequences, FiniteSets, SequencesExt

CONSTANTS
  Programs,               \* the programs that can be loaded
  StartIP,                \* a value-initialised ProgramHolder::IP
  HolderIPs(_),           \* (program): the IPs that are valid in it
  HolderAt(_, _),         \* (program, ip): ProgramHolder::at, the operation
  HolderAdvance(_, _, _), \* (program, ip, goLeft): ProgramHolder::advance
  HolderCoords(_),        \* (ip): ProgramHolder::get_coords
  HolderCanSplit(_),      \* (ip): split_thread does not hit unreachable()
  HolderSplit(_, _),      \* (program, ip): the IPs that split_thread makes
  HolderCanJoin(_, _),    \* (ip, ip): join_threads' assert and its switch pass
  HolderJoin(_, _),       \* (program, ip): the IP that join_threads makes
  MaxThreadCount,         \* bound: memory is exhausted beyond this number
  MaxRuns                 \* bound: calls of run() in one process

\* Operations after which the thread idles for a tick.
Resting == {"PSC", "PSI", "SKP"}

\* Operations that read the stack or write to the console: on an empty stack,
\* on a zero divisor or, with pipekill, on a closed stdout they may end the
\* process.
Computing == {"BNG", "ADD", "SUB", "MUL", "DIV", "UDV", "MOD", "POP", "INC",
              "DEC", "AND", "IOR", "XOR", "NOT", "PTC", "PTI", "PTU", "IDX",
              "DUP", "DP2", "EXP", "SWP"}

Moving    == {"NOP", "JMP", "GTC", "GTI", "RND", "GTM", "GDT"} \cup Computing
Threading == {"TSP", "TJN", "TKL"}

ASSUME CountsAreNatural == MaxThreadCount \in Nat /\ MaxRuns \in Nat

\* What the template needs of a program holder, and its specialisations.
ASSUME HolderStaysInside ==
  \A program \in Programs :
    /\ StartIP \in HolderIPs(program)
    /\ \A ip \in HolderIPs(program) :
         /\ HolderAt(program, ip) \in Moving \cup Resting =>
              \A goLeft \in BOOLEAN :
                HolderAdvance(program, ip, goLeft) \in HolderIPs(program)
         /\ HolderAt(program, ip) = "TSP" =>
              HolderSplit(program, ip) \in HolderIPs(program) \X HolderIPs(program)
         /\ HolderAt(program, ip) = "TJN" =>
              HolderJoin(program, ip) \in HolderIPs(program)

\* Why the unreachable()s and the assert of split_thread and join_threads are
\* not hit.
ASSUME HolderCanFork ==
  \A program \in Programs : \A ip \in HolderIPs(program) :
    /\ HolderAt(program, ip) = "TSP" => HolderCanSplit(ip)
    /\ \A other \in HolderIPs(program) :
         /\ HolderAt(program, ip) = "TJN" /\ HolderAt(program, other) = "TJN"
         /\ HolderCoords(ip) = HolderCoords(other)
         => HolderCanJoin(ip, other)

VARIABLES
  program,          \* m_program_holder
  threads,          \* m_threads
  phase,            \* which loop of run() is executing, or how it ended
  i,                \* the index of the first loop, from 1
  removal_indices,
  pending_threads,
  waiting_coords,   \* function from coordinates to an index
  thread_count,     \* the global counter of thread.cpp
  runs              \* calls of run() so far

locals == <<removal_indices, pending_threads, waiting_coords>>
vars   == <<program, threads, phase, i, locals, thread_count, runs>>

-----------------------------------------------------------------------------
(* Threads and their operations.                                           *)

Statuses == {"active", "idle", "waiting", "splitting", "terminated"}

ThreadsOf(p) ==
  [ip : HolderIPs(p), status : Statuses, number : 0 .. MaxThreadCount]

NewThread(ip, number) == [ip |-> ip, status |-> "active", number |-> number]


-----------------------------------------------------------------------------
(* The first loop: tick the thread at index i, then act on its status.     *)

Ticking == phase = "tick" /\ i <= Len(threads)

curr == threads[i]
op   == HolderAt(program, curr.ip)

\* Mutant: an idle thread falls through into its operation.
RunsIdle(ops) == Ticking /\ curr.status \in {"active", "idle"} /\ op \in ops

Runs(ops) == Ticking /\ curr.status = "active" /\ op \in ops

\* Mutant: an IP that is already advanced is advanced again.
AdvancedTwice(t, goLeft) ==
  LET once == HolderAdvance(program, t.ip, goLeft)
  IN [t EXCEPT !.status = "active", !.ip = HolderAdvance(program, once, goLeft)]

\* curr_thread.advance(), if curr_thread is (again) active after its tick.
Advanced(t, goLeft) ==
  [t EXCEPT !.status = "active", !.ip = HolderAdvance(program, t.ip, goLeft)]

AdvanceCurr ==
  \E goLeft \in BOOLEAN : threads' = [threads EXCEPT ![i] = Advanced(@, goLeft)]

NextThread == i' = i + 1 /\ UNCHANGED <<program, phase, runs>>

\* Mutant: a thread that waits is taken for one that idles.
TickMoveWaiting == /\ Runs(Moving) \/ (Ticking /\ curr.status \in {"idle", "waiting"})
                   /\ AdvanceCurr
                   /\ NextThread
                   /\ UNCHANGED <<locals, thread_count>>

TickMove == /\ Runs(Moving) \/ (Ticking /\ curr.status = "idle")
            /\ AdvanceCurr
            /\ NextThread
            /\ UNCHANGED <<locals, thread_count>>

TickRest == /\ Runs(Resting)
            /\ threads' = [threads EXCEPT ![i].status = "idle"]
            /\ NextThread
            /\ UNCHANGED <<locals, thread_count>>

TickSplit ==
  /\ Runs({"TSP"})
  /\ HolderCanSplit(curr.ip)
  /\ thread_count + 2 <= MaxThreadCount
  /\ LET ips == HolderSplit(program, curr.ip)
     IN pending_threads' = pending_threads \o
          <<NewThread(ips[1], thread_count + 1), NewThread(ips[2], thread_count + 2)>>
  /\ thread_count' = thread_count + 2
  /\ threads' = [threads EXCEPT ![i].status = "splitting"]
  /\ removal_indices' = Append(removal_indices, i)
  /\ NextThread
  /\ UNCHANGED waiting_coords

\* Mutant: a terminated thread is not put on the removal list.
TickKillInPlace == /\ Runs({"TKL"})
                   /\ threads' = [threads EXCEPT ![i].status = "terminated"]
                   /\ NextThread
                   /\ UNCHANGED <<locals, thread_count>>

TickKill == /\ Runs({"TKL"})
            /\ threads' = [threads EXCEPT ![i].status = "terminated"]
            /\ removal_indices' = Append(removal_indices, i)
            /\ NextThread
            /\ UNCHANGED <<pending_threads, waiting_coords, thread_count>>

\* The thread stops for another one, or was doing so before.
Waits  == Ticking /\ (curr.status = "waiting" \/ (curr.status = "active" /\ op = "TJN"))
coords == HolderCoords(curr.ip)

\* Mutant: only a thread that has just stopped looks for a partner.
MeetsOnArrival == Waits /\ curr.status = "active" /\ coords \in DOMAIN waiting_coords

Meets == Waits /\ coords \in DOMAIN waiting_coords

TickWait ==
  /\ Waits /\ ~Meets
  /\ threads' = [threads EXCEPT ![i].status = "waiting"]
  /\ waiting_coords' = [at \in DOMAIN waiting_coords \cup {coords} |->
                          IF at = coords THEN i ELSE waiting_coords[at]]
  /\ NextThread
  /\ UNCHANGED <<removal_indices, pending_threads, thread_count>>

TickJoin ==
  /\ Meets
  /\ thread_count + 1 <= MaxThreadCount
  /\ LET value == waiting_coords[coords]
         first == threads[value]
     IN /\ HolderCanJoin(first.ip, curr.ip)
        /\ pending_threads' = Append(pending_threads,
             NewThread(HolderJoin(program, first.ip), thread_count + 1))
        /\ removal_indices' = removal_indices \o <<value, i>>
  /\ thread_count' = thread_count + 1
  /\ threads' = [threads EXCEPT ![i].status = "waiting"]
  /\ waiting_coords' = [at \in DOMAIN waiting_coords \ {coords} |-> waiting_coords[at]]
  /\ NextThread

\* EXT and unrecognised opcodes end the process from within tick().
TickExit == /\ Ticking /\ curr.status = "active"
            /\ op \notin Moving \cup Resting \cup Threading
            /\ phase' = "exited"
            /\ UNCHANGED <<program, threads, i, locals, thread_count, runs>>

\* Undefined behaviour of a stack operation or of join_threads_work, or a
\* closed stdout with pipekill.
TickCrash == /\ Runs(Computing) \/ Meets
             /\ phase' = "exited"
             /\ UNCHANGED <<program, threads, i, locals, thread_count, runs>>

\* The bound on the thread count stands for the end of memory.
OutOfMemory == /\ \/ Runs({"TSP"}) /\ thread_count + 2 > MaxThreadCount
                  \/ Meets /\ thread_count + 1 > MaxThreadCount
               /\ phase' = "exited"
               /\ UNCHANGED <<program, threads, i, locals, thread_count, runs>>

EndTick == /\ phase = "tick" /\ i > Len(threads)
           /\ phase' = "erase"
           /\ UNCHANGED <<program, threads, i, locals, thread_count, runs>>

-----------------------------------------------------------------------------
(* The second loop: erase the removed threads, then append the new ones.   *)

\* Mutant: the indices are sorted in ascending order.
EraseUpwards ==
  /\ phase = "erase" /\ removal_indices # << >>
  /\ \E k \in DOMAIN removal_indices :
       /\ \A j \in DOMAIN removal_indices : removal_indices[j] >= removal_indices[k]
       /\ threads' = RemoveAt(threads, removal_indices[k])
       /\ removal_indices' = RemoveAt(removal_indices, k)
  /\ UNCHANGED <<program, phase, i, pending_threads, waiting_coords, thread_count, runs>>

\* The indices are sorted in descending order and erased one by one; taking
\* the highest that is left each time is that loop.
Erase ==
  /\ phase = "erase" /\ removal_indices # << >>
  /\ \E k \in DOMAIN removal_indices :
       /\ \A j \in DOMAIN removal_indices : removal_indices[j] <= removal_indices[k]
       /\ threads' = RemoveAt(threads, removal_indices[k])
       /\ removal_indices' = RemoveAt(removal_indices, k)
  /\ UNCHANGED <<program, phase, i, pending_threads, waiting_coords, thread_count, runs>>

\* Mutant: the pending threads are inserted at the beginning of the vector.
NextRoundInFront ==
  /\ phase = "erase" /\ removal_indices = << >>
  /\ threads' = pending_threads \o threads
  /\ phase' = IF threads' = << >> THEN "done" ELSE "tick"
  /\ i' = 1
  /\ pending_threads' = << >>
  /\ waiting_coords' = << >>
  /\ UNCHANGED <<program, removal_indices, thread_count, runs>>

\* Append the pending threads; return if there is none, else the locals of the
\* next round are fresh.
NextRound ==
  /\ phase = "erase" /\ removal_indices = << >>
  /\ threads' = threads \o pending_threads
  /\ phase' = IF threads' = << >> THEN "done" ELSE "tick"
  /\ i' = 1
  /\ pending_threads' = << >>
  /\ waiting_coords' = << >>
  /\ UNCHANGED <<program, removal_indices, thread_count, runs>>

-----------------------------------------------------------------------------
(* Construction: the first thread takes its number from the global counter *)
(* before run() resets it.                                                 *)

Start(number) == /\ threads = <<NewThread(StartIP, number)>>
                 /\ phase = "tick" /\ i = 1
                 /\ removal_indices = << >>
                 /\ pending_threads = << >>
                 /\ waiting_coords = << >>
                 /\ thread_count = 0

Init == program \in Programs /\ Start(0) /\ runs = 1

\* The web worker keeps the process, and thread_count, for the next program.
Rerun == /\ phase \in {"done", "exited"} /\ runs < MaxRuns
         /\ program' \in Programs
         /\ threads' = <<NewThread(StartIP, thread_count)>>
         /\ phase' = "tick" /\ i' = 1
         /\ removal_indices' = << >>
         /\ pending_threads' = << >>
         /\ waiting_coords' = << >>
         /\ thread_count' = 0
         /\ runs' = runs + 1

Tick == \/ TickMove \/ TickRest \/ TickSplit \/ TickKill
        \/ TickWait \/ TickJoin
        \/ TickExit \/ TickCrash \/ OutOfMemory

Run == Tick \/ EndTick \/ Erase \/ NextRound

Next == Run \/ Rerun

\* run() is one sequential loop that nothing else can block; whether there is
\* another run is up to the user.
Fairness == WF_vars(Run)

Spec == Init /\ [][Next]_vars /\ Fairness

-----------------------------------------------------------------------------
(* Properties.                                                             *)

Indices == 1 .. Len(threads)

TypeOK ==
  /\ threads \in Seq(ThreadsOf(program))
  /\ phase \in {"tick", "erase", "done", "exited"}
  /\ i \in Nat \ {0}
  /\ removal_indices \in Seq(Nat)
  /\ pending_threads \in Seq(ThreadsOf(program))
  /\ waiting_coords \in [DOMAIN waiting_coords -> Nat]
  /\ thread_count \in 0 .. MaxThreadCount
  /\ runs \in Nat

Ascending(ts) ==
  \A j, k \in DOMAIN ts : j < k => ts[j].number < ts[k].number

\* The threads stand in the vector in the order of their numbers, and those to
\* be appended come after them.  So no two living threads share a number, and
\* an older thread ticks before a younger one and is the first of their join.
\* The web debugger indexes its table by thread number and waits until the
\* table has as many entries as there are threads.  The first thread of a run
\* is alone when its number is one left over from the run before (thread.hh,
\* m_number(thread_count++), against the reset in interpreter.hh).
EldersFirst ==
  /\ Ascending(threads) /\ Ascending(pending_threads)
  /\ \/ Len(threads) = 1
     \/ \A j \in DOMAIN threads, k \in DOMAIN pending_threads :
          threads[j].number < pending_threads[k].number

Removed == ToSet(removal_indices)

Over(t) == t.status \in {"splitting", "terminated"}

\* An index is removed once, only indices that the loop has passed are, and
\* every thread that is over is removed.
RemovalFits ==
  /\ \A j, k \in DOMAIN removal_indices :
       j # k => removal_indices[j] # removal_indices[k]
  /\ Removed \subseteq Indices
  /\ phase = "tick" => Removed \subseteq 1 .. i - 1
  /\ \A k \in Indices : Over(threads[k]) => k \in Removed

\* The map of waiting coordinates leads to a thread that has been passed, waits
\* there and is not being removed.
MapFits ==
  phase = "tick" =>
    \A at \in DOMAIN waiting_coords :
      LET k == waiting_coords[at]
      IN /\ k \in (1 .. i - 1) \ Removed
         /\ threads[k].status = "waiting" /\ HolderCoords(threads[k].ip) = at

\* What the first loop puts aside fits the vector that the second one edits.
SideListsFit == RemovalFits /\ MapFits

\* None of the unreachable()s and asserts of tick(), split_thread and
\* join_threads is reached: tick() only sees threads that survived a round, only
\* threads with a side to split to split, and threads that meet have headings
\* that can be merged.
NothingUnreachable ==
  /\ Ticking => curr.status \in {"active", "idle", "waiting"}
  /\ Runs({"TSP"}) => HolderCanSplit(curr.ip)
  /\ Meets => HolderCanJoin(threads[waiting_coords[coords]].ip, curr.ip)

\* No meeting is missed: when a round is over, no two of the threads that stay
\* wait at the same place, even if three or more had stopped there.
NoMissedMeeting ==
  phase = "tick" /\ i = 1 =>
    \A j, k \in Indices :
      j # k /\ threads[j].status = "waiting" /\ threads[k].status = "waiting"
        => HolderCoords(threads[j].ip) # HolderCoords(threads[k].ip)

\* Everyone waiting on everyone: once all threads wait, each at a place of its
\* own, run() keeps looping and neither moves a thread nor returns.
Stuck == /\ phase \in {"tick", "erase"}
         /\ removal_indices = << >> /\ pending_threads = << >>
         /\ threads # << >>
         /\ \A k \in Indices : threads[k].status = "waiting"
         /\ \A j, k \in Indices :
              HolderCoords(threads[j].ip) = HolderCoords(threads[k].ip) => j = k

StuckForever == [][Stuck => Stuck' /\ threads' = threads]_vars

-----------------------------------------------------------------------------
(* The inductive invariant behind TypeOK, SideListsFit, EldersFirst,       *)
(* NothingUnreachable and NoMissedMeeting.                                 *)

\* A thread idles only on an operation that rests and waits only on a TJN.
StatusFitsOp ==
  \A k \in Indices :
    /\ threads[k].status = "idle" => HolderAt(program, threads[k].ip) \in Resting
    /\ threads[k].status = "waiting" => HolderAt(program, threads[k].ip) = "TJN"

\* The loop index stays in the vector or just behind it, pending threads have
\* not run, and once run() has returned nothing is left.
LoopsFit ==
  /\ phase = "tick" => i <= Len(threads) + 1
  /\ \A k \in DOMAIN pending_threads : pending_threads[k].status = "active"
  /\ phase = "done" =>
       threads = << >> /\ removal_indices = << >> /\ pending_threads = << >>

\* No thread but a lone first one has a number above the counter; if that one
\* has been replaced, it is being removed.
NumbersFit ==
  /\ \A k \in DOMAIN pending_threads : pending_threads[k].number <= thread_count
  /\ \/ \A k \in Indices : threads[k].number <= thread_count
     \/ Len(threads) = 1
  /\ Len(threads) = 1 =>
       \/ \A k \in DOMAIN pending_threads : threads[1].number < pending_threads[k].number
       \/ Removed = {1}

\* Every waiting thread that has been looked at in this round and stays is the
\* one that the map knows at its place; after the loop they are all apart.
StaysWaiting(k) == k \notin Removed /\ threads[k].status = "waiting"

WaitersFit ==
  /\ phase = "tick" =>
       \A k \in 1 .. i - 1 : StaysWaiting(k) =>
         /\ HolderCoords(threads[k].ip) \in DOMAIN waiting_coords
         /\ waiting_coords[HolderCoords(threads[k].ip)] = k
  /\ phase = "erase" =>
       \A j, k \in Indices :
         StaysWaiting(j) /\ StaysWaiting(k)
         /\ HolderCoords(threads[j].ip) = HolderCoords(threads[k].ip) => j = k

IInv == /\ TypeOK /\ SideListsFit /\ EldersFirst
        /\ StatusFitsOp /\ LoopsFit /\ NumbersFit /\ WaitersFit

-----------------------------------------------------------------------------
(* The vector and its side lists implement the pool of ThreadPool.  A      *)
(* thread leaves the pool when its index enters removal_indices, a pending *)
(* thread is in it already; erasing and appending leave it as it is.       *)

Alive == { threads[k] : k \in Indices \ Removed } \cup ToSet(pending_threads)

Had == IF phase = "erase" THEN Alive
       ELSE { threads[k] : k \in (1 .. i - 1) \ Removed } \cup ToSet(pending_threads)

PoolOf(alive) ==
  [n \in { t.number : t \in alive } |->
     LET t == CHOOSE t \in alive : t.number = n
     IN [ip |-> t.ip, status |-> t.status]]

Pool == INSTANCE ThreadPool
          WITH Numbers <- 0 .. MaxThreadCount,
               pool    <- PoolOf(Alive),
               ticked  <- { t.number : t \in Had },
               running <- phase \in {"tick", "erase"}

\* The interpreter runs its threads in lockstep and merges, splits and ends
\* exactly those that it should.
RunsThePool == Pool!Spec

-----------------------------------------------------------------------------
(* Liveness.                                                               *)

Running == phase \in {"tick", "erase"}

Rests(n) == \E t \in Alive : t.number = n /\ t.status = "idle"

BothWait(m, n) ==
  \E s, t \in Alive :
    /\ s.number = m /\ s.status = "waiting"
    /\ t.number = n /\ t.status = "waiting"
    /\ HolderCoords(s.ip) = HolderCoords(t.ip)

\* A rest is short: a thread that idles on PSC, PSI or SKP runs again.
RestsEnd == \A n \in 0 .. MaxThreadCount : Rests(n) ~> ~Running \/ ~Rests(n)

\* Two threads that wait at the same place do not both stay there.
MeetingsHappen ==
  \A m, n \in 0 .. MaxThreadCount :
    m < n => (BothWait(m, n) ~> ~Running \/ ~BothWait(m, n))
=============================================================================
