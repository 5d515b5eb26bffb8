----------------------------- MODULE WebDebugger -----------------------------
(***************************************************************************)
(* The web page (wasm/in.civet) and the worker that holds the interpreter   *)
(* (wasm/worker.civet, wasm/library.civet), with the messages between them. *)
(* The page asks for one call at a time; a call to debugProgram is          *)
(* suspended in every tick of a thread until a step message comes.  The     *)
(* user may press Stop, Step or Play at any time they are shown, and clear  *)
(* the output at any time at all.                                           *)
(*                                                                          *)
(* Output comes byte by byte.  A grid that is expanded is two characters    *)
(* here, the second of two bytes; a program may print any bytes, also half  *)
(* a character.                                                             *)
(*                                                                          *)
(* The channels are first in, first out.  Terminating a worker discards     *)
(* what is under way in both directions.                                    *)
(***************************************************************************)
EXTENDS Naturals, Sequences, FiniteSets

CONSTANTS
  MaxThreads,  \* bound on the threads of a round
  MaxUnderWay, \* bound on the messages under way when the user sends a step
  MaxPrinted,  \* bound on the messages under way when a program prints a byte
  Colors       \* how many colours there are to mark threads with

ASSUME PageAssumption == /\ MaxThreads \in Nat \ {0} /\ MaxUnderWay \in Nat
                         /\ MaxPrinted \in Nat /\ Colors \in Nat

VARIABLES
  (* the page *)
  stage,       \* "idle", or which function of the page awaits a call
  output,      \* what elements.stdout has of a grid: "nothing", "begun", "whole" or "other"
  stdoutBuffer,\* the bytes of a character that is not full yet
  text,        \* elements.program.value: "original" as the last call found it,
               \* "unfolded" or "damaged"
  grid,        \* the grid to debug: "none", "whole" or "damaged"
  threadCount, \* the threads of the round, 0 while none has begun (-1 in the code)
  threads,     \* the table: a set of pairs <<round, thread>>
  paused,      \* interval is -1
  (* the channels *)
  toWorker, toPage,
  (* the worker *)
  alive,       \* the page has one
  loaded,      \* its runtime has been initialised
  ready,       \* halfReady has been called
  funcName,
  call,        \* the call in progress, or "none"
  sent,        \* bytes of the grid sent, for expandInput
  round,       \* the round of the debugged program, modulo 3
  live, ticked,\* its threads, and how many of them have begun their tick
  suspended,   \* the call awaits __trilangle_resolve
  (* history *)
  cut,         \* of the last expansion: it met bytes of an older call in the buffer,
               \* or was stopped, or what had come of it was cleared
  hasty        \* a step has been sent to a worker before it was loaded

page    == <<stage, output, stdoutBuffer, text, grid, threadCount, threads, paused>>
setup   == <<alive, loaded, ready, funcName>>
running == <<call, sent, round, live, ticked, suspended>>
ghosts  == <<cut, hasty>>
vars    == <<page, toWorker, toPage, setup, running, ghosts>>

Calls == {"interpretProgram", "expandInput", "debugProgram"}

-----------------------------------------------------------------------------
(* The worker.                                                             *)

\* The signals: a step resolves the promise that the call awaits, if there has
\* been one; the others start a call.
Signal(name) ==
  IF name = "step"
  THEN /\ suspended' = FALSE
       /\ UNCHANGED <<call, sent, round, live, ticked>>
  ELSE /\ call' = name /\ sent' = 0 /\ live' = 0 /\ ticked' = 0
       /\ UNCHANGED <<round, suspended>>

\* Mutant: the call starts with the first message.
HalfReadyAtOnce(name) == funcName' = name /\ ready' = TRUE /\ Signal(name)

\* halfReady: called by the first message and by the runtime, in either order;
\* only the second of them, and every later message, is acted upon.
HalfReady(name) ==
  /\ funcName' = name /\ ready' = TRUE
  /\ IF ready THEN Signal(name) ELSE UNCHANGED running

\* Mutant: the runtime only sets the flag.
RuntimeInitializedOnly == /\ alive /\ ~loaded
                          /\ loaded' = TRUE /\ ready' = TRUE
                          /\ UNCHANGED <<page, toWorker, toPage, alive, funcName,
                                         running, ghosts>>

RuntimeInitialized == /\ alive /\ ~loaded
                      /\ loaded' = TRUE
                      /\ HalfReady(funcName)
                      /\ UNCHANGED <<page, toWorker, toPage, alive, ghosts>>

\* The event loop of the worker turns when no call is in progress, and while
\* one is suspended.
Onmessage == /\ toWorker # << >> /\ (call = "none" \/ suspended)
             /\ toWorker' = Tail(toWorker)
             /\ HalfReady(Head(toWorker))
             /\ UNCHANGED <<page, toPage, alive, loaded, ghosts>>

Posts(msg) == toPage' = Append(toPage, msg)

Bytes     == {"ascii", "lead", "trail"}
GridBytes == <<"ascii", "lead", "trail">>

\* operator<< of a grid prints all of it before the call returns.
PrintGrid == /\ call = "expandInput" /\ sent < Len(GridBytes)
             /\ sent' = sent + 1 /\ Posts(<<"output", GridBytes[sent + 1]>>)
             /\ UNCHANGED <<page, toWorker, setup, ghosts,
                            call, round, live, ticked, suspended>>

\* What a program prints, in debugging once its thread has been resumed: a PTC of
\* a negative number is a single byte of any kind.  Characters of one byte, which
\* never reach the buffer of the page, are left out.
PrintByte == /\ \/ call = "interpretProgram"
                \/ call = "debugProgram" /\ ~suspended /\ ticked > 0
             /\ Len(toPage) < MaxPrinted
             /\ \E byte \in {"lead", "trail"} : Posts(<<"output", byte>>)
             /\ UNCHANGED <<page, toWorker, setup, ghosts, running>>

\* interpreter::run: send_thread_count, and the info of every thread in turn.
BeginRound == /\ call = "debugProgram" /\ ~suspended /\ ticked = live
              /\ live' \in 1 .. MaxThreads
              /\ ticked' = 0 /\ round' = (round + 1) % 3
              /\ Posts(<<"count", live'>>)
              /\ UNCHANGED <<page, toWorker, setup, ghosts, call, sent, suspended>>

SendDebugInfo == /\ call = "debugProgram" /\ ~suspended /\ ticked < live
                 /\ ticked' = ticked + 1
                 /\ suspended' = TRUE
                 /\ Posts(<<"info", round, ticked + 1>>)
                 /\ UNCHANGED <<page, toWorker, setup, ghosts, call, sent, round, live>>

\* Mutant: the call returns before its output has been flushed.
ReturnEarly == /\ \/ call \in {"interpretProgram", "expandInput"}
                  \/ call = "debugProgram" /\ ~suspended /\ ticked > 0
               /\ call' = "none" /\ sent' = 0 /\ live' = 0 /\ ticked' = 0
               /\ Posts(<<"end">>)
               /\ UNCHANGED <<page, toWorker, setup, ghosts, round, suspended>>

\* The call returns, in a debugged program wherever a thread exits.
Return == /\ \/ call = "interpretProgram"
             \/ call = "expandInput" /\ sent = Len(GridBytes)
             \/ call = "debugProgram" /\ ~suspended /\ ticked > 0
          /\ call' = "none" /\ sent' = 0 /\ live' = 0 /\ ticked' = 0
          /\ Posts(<<"end">>)
          /\ UNCHANGED <<page, toWorker, setup, ghosts, round, suspended>>

Worker == RuntimeInitialized \/ Onmessage \/ PrintGrid \/ PrintByte
            \/ BeginRound \/ SendDebugInfo \/ Return

-----------------------------------------------------------------------------
(* The page.                                                               *)

Forget == /\ loaded' = FALSE /\ ready' = FALSE /\ funcName' = "none"
          /\ call' = "none" /\ sent' = 0 /\ round' = 0 /\ live' = 0 /\ ticked' = 0
          /\ suspended' = FALSE /\ hasty' = FALSE

\* createWorker: the call is asked for behind what is in the worker's queue.  The
\* output is cleared, the buffer of bytes and the table are not.
Ask(name, queue) == /\ toWorker' = Append(queue, name)
                    /\ output' = "nothing" /\ threadCount' = 0

\* What comes after the promise of a call is resolved: the buttons are enabled,
\* and debugProgram goes on to its second call.
Resolve(queue) ==
  \/ /\ stage = "expand"
     /\ stage' = "debug" /\ grid' = IF output = "whole" THEN "whole" ELSE "damaged"
     /\ Ask("debugProgram", queue)
     /\ UNCHANGED <<text, paused>>
  \/ /\ stage = "debug"
     /\ stage' = "idle" /\ grid' = "none" /\ paused' = TRUE
     /\ toWorker' = queue
     /\ UNCHANGED <<output, text, threadCount>>
  \/ /\ stage = "unfold"
     /\ stage' = "idle" /\ output' = "nothing"
     /\ text' = IF output = "whole" THEN "unfolded" ELSE "damaged"
     /\ toWorker' = queue
     /\ UNCHANGED <<grid, threadCount, paused>>
  \/ /\ stage = "run"
     /\ stage' = "idle"
     /\ toWorker' = queue
     /\ UNCHANGED <<output, text, grid, threadCount, paused>>

\* Mutant: the worker goes on after wasmCancel.
ResolveOnly == Resolve(toWorker) /\ UNCHANGED <<stdoutBuffer, toPage, setup, running, hasty>>

\* The worker is terminated; where the page goes on to another call, that call
\* gets a new worker.
WasmCancel == /\ Resolve(<< >>)
              /\ toPage' = << >>
              /\ alive' = (stage = "expand") /\ Forget
              /\ UNCHANGED stdoutBuffer

Expanding == {"expand", "unfold"}

Stop == /\ stage # "idle"
        /\ WasmCancel
        /\ cut' = (cut \/ stage \in Expanding)
        /\ UNCHANGED threads

\* Run!, Unfold and Debug; elsewhere the buttons are disabled.
Click == /\ stage = "idle"
         /\ \/ stage' = "run" /\ Ask("interpretProgram", toWorker)
            \/ stage' = "unfold" /\ Ask("expandInput", toWorker)
            \/ stage' = "expand" /\ Ask("expandInput", toWorker)
         /\ alive' = TRUE /\ text' = "original" /\ cut' = (stdoutBuffer # << >>)
         /\ UNCHANGED <<stdoutBuffer, grid, threads, paused, toPage,
                        loaded, ready, funcName, running, hasty>>

\* clearOutput, by its button, which is never disabled.  Of the buffer nothing is
\* cleared.
ClearOutput == /\ output' = "nothing"
               /\ cut' = (cut \/ (stage \in Expanding /\ output # "nothing"))
               /\ UNCHANGED <<stage, stdoutBuffer, text, grid, threadCount, threads, paused,
                              toWorker, toPage, setup, running, hasty>>

\* The next call after an edit of the input gets a new worker.
EditInput == /\ stage = "idle" /\ alive
             /\ alive' = FALSE /\ toWorker' = << >> /\ Forget
             /\ UNCHANGED <<page, toPage, cut>>

\* A step message of the user's; it is not bounded in the code.
PostStep == /\ Len(toWorker) + Len(toPage) < MaxUnderWay
            /\ toWorker' = Append(toWorker, "step")
            /\ hasty' = (hasty \/ ~loaded)
            /\ UNCHANGED <<page, toPage, setup, running, cut>>

StepButton == stage = "debug" /\ paused /\ PostStep

\* setInterval
Timer == ~paused /\ PostStep

PlayPause == /\ stage = "debug"
             /\ paused' = ~paused
             /\ UNCHANGED <<stage, output, stdoutBuffer, text, grid, threadCount, threads,
                            toWorker, toPage, setup, running, ghosts>>

User == Stop \/ Click \/ ClearOutput \/ EditInput \/ StepButton \/ Timer \/ PlayPause

-----------------------------------------------------------------------------
(* worker.onmessage of the page.                                           *)

Receives(kind) == toPage # << >> /\ Head(toPage)[1] = kind

OnEnd == /\ Receives("end")
         /\ Resolve(toWorker)
         /\ toPage' = Tail(toPage)
         /\ UNCHANGED <<stdoutBuffer, threads, setup, running, ghosts>>

\* Mutant: a character is full only if its first byte says so.
IsBufferFullByLead(buf) == Len(buf) = 2 /\ buf[1] = "lead"

IsBufferFull(buf) == Len(buf) = 4 \/ (Len(buf) = 2 /\ buf[1] = "lead")

\* decoder.decode
Decoded(buf) == IF buf = <<"lead", "trail">> THEN "wide" ELSE "garbled"

\* One more character behind what elements.stdout has of a grid.
With(char) == CASE output = "nothing" /\ char = "narrow" -> "begun"
                [] output = "begun" /\ char = "wide"     -> "whole"
                [] OTHER                                 -> "other"

\* stdout: the bytes below 0 are kept until they are a character.
Stdout(byte) ==
  LET buffer == Append(stdoutBuffer, byte)
  IN \/ /\ byte = "ascii"
        /\ output' = With("narrow") /\ UNCHANGED stdoutBuffer
     \/ /\ byte # "ascii" /\ IsBufferFull(buffer)
        /\ output' = With(Decoded(buffer)) /\ stdoutBuffer' = << >>
     \/ /\ byte # "ascii" /\ ~IsBufferFull(buffer)
        /\ stdoutBuffer' = buffer /\ UNCHANGED output

OnOutput == /\ Receives("output")
            /\ Stdout(Head(toPage)[2])
            /\ toPage' = Tail(toPage)
            /\ UNCHANGED <<stage, text, grid, threadCount, threads, paused,
                           toWorker, setup, running, ghosts>>

\* Mutant: the table of the round before is kept.
OnCountKeeping == /\ Receives("count")
                  /\ threadCount' = Head(toPage)[2]
                  /\ toPage' = Tail(toPage)
                  /\ UNCHANGED <<stage, output, stdoutBuffer, text, grid, threads, paused,
                                 toWorker, setup, running, ghosts>>

OnCount == /\ Receives("count")
           /\ threadCount' = Head(toPage)[2] /\ threads' = {}
           /\ toPage' = Tail(toPage)
           /\ UNCHANGED <<stage, output, stdoutBuffer, text, grid, paused,
                          toWorker, setup, running, ghosts>>

Entered == threads \cup {<<Head(toPage)[2], Head(toPage)[3]>>}

\* renderThreads: all threads of the round are there, and have a colour each.
ShowRound == /\ Receives("info")
             /\ Cardinality(Entered) = threadCount /\ threadCount <= Colors
             /\ threads' = Entered
             /\ toPage' = Tail(toPage)
             /\ UNCHANGED <<stage, output, stdoutBuffer, text, grid, threadCount, paused,
                            toWorker, setup, running, ghosts>>

TooManyThreads == /\ Receives("info")
                  /\ Cardinality(Entered) = threadCount /\ threadCount > Colors
                  /\ threads' = Entered
                  /\ WasmCancel
                  /\ UNCHANGED cut

\* Mutant: the user has to step past every thread.
WaitForUser == /\ Receives("info") /\ Cardinality(Entered) # threadCount
               /\ threads' = Entered
               /\ toPage' = Tail(toPage)
               /\ UNCHANGED <<stage, output, stdoutBuffer, text, grid, threadCount, paused,
                              toWorker, setup, running, ghosts>>

\* Threads are missing: the worker is stepped at once.
StepOn == /\ Receives("info") /\ Cardinality(Entered) # threadCount
          /\ threads' = Entered
          /\ toPage' = Tail(toPage)
          /\ toWorker' = Append(toWorker, "step")
          /\ UNCHANGED <<stage, output, stdoutBuffer, text, grid, threadCount, paused,
                         setup, running, ghosts>>

OnMessage == OnEnd \/ OnOutput \/ OnCount \/ ShowRound \/ TooManyThreads \/ StepOn

-----------------------------------------------------------------------------
Init == /\ stage = "idle" /\ output = "nothing" /\ stdoutBuffer = << >>
        /\ text = "original" /\ grid = "none"
        /\ threadCount = 0 /\ threads = {} /\ paused = TRUE
        /\ toWorker = << >> /\ toPage = << >>
        /\ alive = FALSE /\ loaded = FALSE /\ ready = FALSE /\ funcName = "none"
        /\ call = "none" /\ sent = 0 /\ round = 0 /\ live = 0 /\ ticked = 0
        /\ suspended = FALSE
        /\ cut = FALSE /\ hasty = FALSE

Next == User \/ OnMessage \/ Worker

\* Messages are delivered, workers load and run; the user need not do anything.
Fairness == WF_vars(OnMessage) /\ WF_vars(Worker)

Spec == Init /\ [][Next]_vars /\ Fairness

-----------------------------------------------------------------------------
(* Properties.                                                             *)

TypeOK ==
  /\ stage \in {"idle", "run", "unfold", "expand", "debug"}
  /\ output \in {"nothing", "begun", "whole", "other"}
  /\ stdoutBuffer \in Seq({"lead", "trail"}) /\ Len(stdoutBuffer) <= 3
  /\ sent \in 0 .. 3
  /\ text \in {"original", "unfolded", "damaged"} /\ grid \in {"none", "whole", "damaged"}
  /\ threadCount \in 0 .. MaxThreads /\ live \in 0 .. MaxThreads /\ ticked \in 0 .. MaxThreads
  /\ threads \subseteq (0 .. 2) \X (1 .. MaxThreads)
  /\ \A k \in DOMAIN toWorker : toWorker[k] \in Calls \cup {"step"}
  /\ funcName \in Calls \cup {"step", "none"} /\ call \in Calls \cup {"none"}
  /\ paused \in BOOLEAN /\ alive \in BOOLEAN /\ loaded \in BOOLEAN /\ ready \in BOOLEAN
  /\ suspended \in BOOLEAN
  /\ cut \in BOOLEAN /\ hasty \in BOOLEAN

\* Whenever the buttons are enabled nothing is left of the call before: it has
\* returned, what it sent has arrived, no other is asked for, and no timer sends
\* steps.  So the next call never meets another one in the worker.
NothingLeftOver ==
  stage = "idle" =>
    /\ call = "none" /\ toPage = << >> /\ paused
    /\ \A k \in DOMAIN toWorker : toWorker[k] = "step"

\* A call starts only in a worker whose runtime is initialised, whichever of the
\* runtime and the first message comes first, and whatever comes in between
\* (worker.civet, halfReady).
CallsFindTheRuntime == call # "none" => loaded

\* The table has threads of one round only, and no more than the round has, also
\* when the user's steps overtake the page's own.
OneRoundInTheTable ==
  /\ Cardinality({entry[1] : entry \in threads}) <= 1
  /\ threadCount # 0 => Cardinality(threads) <= threadCount

\* A program is replaced by, and a grid is debugged from, all of the output of
\* expandInput and nothing else: neither does the end of a call overtake its
\* output, nor is anything left of the output of another call.  The code has three
\* exceptions (in.civet: wasmCancel, clearOutput, stdoutBuffer): Stop resolves the
\* call as if it had ended; the output may be cleared in between; and bytes of an
\* unfinished character, from a program that was stopped or printed no more of it,
\* are still in the buffer when the expansion begins.
WholeUnlessCut ==
  [][ /\ stage = "unfold" /\ stage' # "unfold" => text' = "unfolded" \/ cut'
      /\ stage = "expand" /\ stage' # "expand" => grid' = "whole" \/ cut' ]_vars

\* Of a round only the last thread waits for the user, however many steps the
\* user sends too early: every other pause of the worker ends by itself.
OnlyTheLastThreadWaits ==
  \A k \in 1 .. MaxThreads - 1 :
    (suspended /\ ticked = k /\ k < live) ~> (~suspended \/ ticked # k)

\* Once a grid is shown its first round is announced, or the program is over, in
\* every session of the debugger, unless a step is sent before the worker has
\* loaded: halfReady takes it for the call, which is then never made.
DebuggingStarts ==
  stage = "debug" ~> (stage # "debug" \/ threadCount # 0 \/ hasty)
=============================================================================
