----------------------------- MODULE ThreadPool -----------------------------
(***************************************************************************)
(* What interpreter<ProgramHolder>::run promises, without the vector, the  *)
(* indices into it, the removal list and the map of waiting coordinates    *)
(* with which it keeps the promise.                                        *)
(*                                                                         *)
(* The living threads form a pool indexed by thread number.  They run in   *)
(* lockstep: in every round each of them takes exactly one turn, and the   *)
(* threads born in a round take their first turn in the next one.  A turn  *)
(* moves the thread, rests it, replaces it by two, ends it, or makes it    *)
(* wait; a waiting thread is merged with the first other thread that waits *)
(* at the same place in the same round.                                    *)
(***************************************************************************)
CONSTANTS
  Numbers,               \* the thread numbers
  Programs,              \* the programs that can be loaded
  StartIP,               \* where the first thread starts
  HolderAt(_, _),        \* (program, ip): the operation there
  HolderAdvance(_, _, _),\* (program, ip, goLeft): where the IP goes next
  HolderCoords(_),       \* (ip): the place at which threads meet
  HolderSplit(_, _),     \* (program, ip): the IPs of the two threads born
  HolderJoin(_, _)       \* (program, ip of the first): the IP of the result

VARIABLES program, pool, ticked, running

vars == <<program, pool, ticked, running>>

-----------------------------------------------------------------------------

Thread(ip, status) == [ip |-> ip, status |-> status]

\* The pool without the threads in "gone" and with those of "born".
Replace(gone, born) ==
  [n \in (DOMAIN pool \ gone) \cup DOMAIN born |->
     IF n \in DOMAIN born THEN born[n] ELSE pool[n]]

Fresh(n, gone) == n \notin DOMAIN pool \ gone

\* Thread n has yet to take its turn in this round.
Due(n) == running /\ n \in DOMAIN pool \ ticked

OpOf(n) == HolderAt(program, pool[n].ip)

Resting == {"PSC", "PSI", "SKP"}

\* n stops for another thread, or still does; m has done so in this round.
Stops(n) == pool[n].status = "waiting" \/ (pool[n].status = "active" /\ OpOf(n) = "TJN")

WaitsFor(m, n) == /\ m \in ticked
                  /\ pool[m].status = "waiting"
                  /\ HolderCoords(pool[m].ip) = HolderCoords(pool[n].ip)

-----------------------------------------------------------------------------

Move(n) == /\ \/ pool[n].status = "idle"
              \/ /\ pool[n].status = "active"
                 /\ OpOf(n) \notin Resting \cup {"EXT", "TSP", "TJN", "TKL"}
           /\ \E goLeft \in BOOLEAN :
                pool' = [pool EXCEPT ![n] =
                           Thread(HolderAdvance(program, @.ip, goLeft), "active")]
           /\ ticked' = ticked \cup {n}

Rest(n) == /\ pool[n].status = "active" /\ OpOf(n) \in Resting
           /\ pool' = [pool EXCEPT ![n].status = "idle"]
           /\ ticked' = ticked \cup {n}

Split(n) == /\ pool[n].status = "active" /\ OpOf(n) = "TSP"
            /\ \E a, b \in Numbers :
                 /\ a # b /\ Fresh(a, {n}) /\ Fresh(b, {n})
                 /\ LET born == HolderSplit(program, pool[n].ip)
                    IN pool' = Replace({n}, [k \in {a, b} |->
                                 Thread(born[IF k = a THEN 1 ELSE 2], "active")])
                 /\ ticked' = (ticked \ {n}) \cup {a, b}

Die(n) == /\ pool[n].status = "active" /\ OpOf(n) = "TKL"
          /\ pool' = [k \in DOMAIN pool \ {n} |-> pool[k]]
          /\ UNCHANGED ticked

Wait(n) == /\ Stops(n)
           /\ ~ \E m \in DOMAIN pool : WaitsFor(m, n)
           /\ pool' = [pool EXCEPT ![n].status = "waiting"]
           /\ ticked' = ticked \cup {n}

Join(m, n) == /\ Stops(n) /\ WaitsFor(m, n)
              /\ \E a \in Numbers :
                   /\ Fresh(a, {m, n})
                   /\ pool' = Replace({m, n}, [k \in {a} |->
                                Thread(HolderJoin(program, pool[m].ip), "active")])
                   /\ ticked' = (ticked \ {m}) \cup {a}

Turn == /\ \E n \in DOMAIN pool :
             Due(n) /\ (\/ Move(n) \/ Rest(n) \/ Split(n) \/ Die(n) \/ Wait(n)
                        \/ \E m \in DOMAIN pool : Join(m, n))
        /\ UNCHANGED <<program, running>>

\* The round is over when every living thread has had its turn.
NewRound == /\ running /\ ticked = DOMAIN pool /\ pool # << >>
            /\ ticked' = {}
            /\ UNCHANGED <<program, pool, running>>

\* run() returns when no thread is left ...
Return == /\ running /\ pool = << >>
          /\ running' = FALSE
          /\ UNCHANGED <<program, pool, ticked>>

\* ... and a thread whose turn it is may end the whole process.
Exit == /\ \E n \in DOMAIN pool : Due(n)
        /\ running' = FALSE
        /\ UNCHANGED <<program, pool, ticked>>

Start == /\ program' \in Programs
         /\ \E n \in Numbers : pool' = [k \in {n} |-> Thread(StartIP, "active")]
         /\ ticked' = {}
         /\ running' = TRUE

\* The web worker interprets one program after another.
Restart == ~running /\ Start

Init == /\ program \in Programs
        /\ \E n \in Numbers : pool = [k \in {n} |-> Thread(StartIP, "active")]
        /\ ticked = {}
        /\ running = TRUE

Next == Turn \/ NewRound \/ Return \/ Exit \/ Restart

Spec == Init /\ [][Next]_vars
=============================================================================
