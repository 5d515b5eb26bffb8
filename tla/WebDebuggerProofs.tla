-------------------------- MODULE WebDebuggerProofs --------------------------
(***************************************************************************)
(* Theorems about WebDebugger, for every number of threads, colours and    *)
(* messages.                                                               *)
(***************************************************************************)
EXTENDS WebDebugger, SequenceTheorems, FiniteSetTheorems, TLAPS

-----------------------------------------------------------------------------
(* The inductive invariant.                                                *)

End     == <<"end">>
Printed == { <<"output", byte>> : byte \in Bytes }

Messages == {End} \cup Printed
              \cup { <<"count", n>> : n \in 1 .. MaxThreads }
              \cup { <<"info", r, t>> : r \in 0 .. 2, t \in 1 .. MaxThreads }

Channels == /\ toWorker \in Seq(Calls \cup {"step"})
            /\ toPage \in Seq(Messages)
            /\ round \in 0 .. 2

\* The call whose end a stage awaits.
CallOf(st) == CASE st = "run" -> "interpretProgram"
                [] st \in {"unfold", "expand"} -> "expandInput"
                [] st = "debug" -> "debugProgram"
                [] OTHER -> "none"

\* A worker that has not loaded has done nothing yet; the first message that it
\* gets is the call.
LoadingInv ==
  /\ loaded => ready /\ alive
  /\ ~loaded => call = "none" /\ toPage = << >> /\ (alive => stage # "idle")
  /\ ~alive => stage = "idle" /\ toWorker = << >> /\ ~ready
  /\ ready /\ ~loaded => funcName \in {CallOf(stage), "step"}
  /\ alive /\ ~ready => toWorker # << >> /\ toWorker[1] # "step"

\* At every moment the call that the page awaits is in one place at most: in the
\* queue of the worker, kept until the runtime is there, in progress, or ended
\* with its last message under way.
CallInv ==
  /\ stage = "idle" => call = "none" /\ toPage = << >>
  /\ ~paused => stage = "debug"
  /\ call # "none" => call = CallOf(stage)
  /\ \A k \in 1 .. Len(toWorker) : toWorker[k] # "step" =>
       /\ toWorker[k] = CallOf(stage) /\ stage # "idle"
       /\ call = "none" /\ toPage = << >> /\ (ready => loaded)
       /\ \A j \in 1 .. Len(toWorker) : toWorker[j] # "step" => j = k
  /\ \A k \in 1 .. Len(toPage) : toPage[k] = End => k = Len(toPage) /\ call = "none"

\* What a worker sends for a grid, and what the page shows and keeps when it has
\* received the first r of it.
Stream == << <<"output", "ascii">>, <<"output", "lead">>, <<"output", "trail">>, End >>

Has(r) == /\ r = 0 => output = "nothing"
          /\ r \in {1, 2} => output = "begun"
          /\ r = 3 => output = "whole"
          /\ stdoutBuffer = IF r = 2 THEN <<"lead">> ELSE << >>

\* The next of it is under way, up to what has been sent.
UnderWay(r) == /\ \A k \in 1 .. Len(toPage) : toPage[k] = Stream[r + k]
               /\ call # "none" => r + Len(toPage) = sent
               /\ call = "none" => (toPage = << >> /\ r = 0) \/ r + Len(toPage) = 4

\* An expansion sends nothing but output, and unless it is cut nothing of it is
\* lost between the worker and the page, and nothing comes in between.
OutputInv ==
  stage \in Expanding =>
    /\ \A k \in 1 .. Len(toPage) : toPage[k] \in {End} \cup Printed
    /\ cut \/ \E r \in 0 .. 3 : Has(r) /\ UnderWay(r)

Inv == TypeOK /\ Channels /\ LoadingInv /\ CallInv /\ OutputInv

-----------------------------------------------------------------------------
(* Channels.                                                               *)

\* What sending a message leaves in a channel.
LEMMA Sent ==
  ASSUME NEW S, NEW q \in Seq(S), NEW m \in S
  PROVE  /\ Append(q, m) \in Seq(S) /\ Append(q, m) # << >>
         /\ Len(q) \in Nat /\ Len(Append(q, m)) = Len(q) + 1
         /\ Append(q, m)[Len(q) + 1] = m
         /\ \A k \in 1 .. Len(q) : Append(q, m)[k] = q[k]
         /\ q # << >> => Len(q) >= 1
         /\ q = << >> => Len(q) = 0
BY AppendProperties, LenProperties, EmptySeq

\* What receiving one leaves.
LEMMA Taken ==
  ASSUME NEW S, NEW q \in Seq(S), q # << >>
  PROVE  /\ Head(q) = q[1] /\ q[1] \in S
         /\ Tail(q) \in Seq(S)
         /\ Len(q) \in Nat /\ Len(q) >= 1 /\ Len(Tail(q)) = Len(q) - 1
         /\ \A k \in 1 .. Len(q) - 1 : Tail(q)[k] = q[k + 1]
         /\ Len(q) = 1 => Tail(q) = << >>
         /\ Len(q) # 1 => Tail(q) # << >>
<1>1. /\ Head(q) = q[1] /\ Head(q) \in S /\ Tail(q) \in Seq(S)
      /\ Len(Tail(q)) = Len(q) - 1
      /\ \A k \in 1 .. Len(Tail(q)) : Tail(q)[k] = q[k + 1]
  BY HeadTailProperties
<1>2. Len(q) \in Nat \ {0}
  BY EmptySeq
<1>3. Len(Tail(q)) = 0 <=> Tail(q) = << >>
  BY <1>1, EmptySeq
<1>. QED BY <1>1, <1>2, <1>3

\* The kinds of messages.
LEMMA Kinds ==
  ASSUME NEW m \in Messages
  PROVE  /\ m[1] = "end" <=> m = End
         /\ m[1] = "output" <=> m \in Printed
         /\ m[1] = "output" => m[2] \in Bytes
         /\ m[1] = "count" => m[2] \in 1 .. MaxThreads
         /\ m[1] = "info" => m[2] \in 0 .. 2 /\ m[3] \in 1 .. MaxThreads
<1>1. CASE m = End BY <1>1 DEF End, Printed
<1>2. CASE m \in Printed BY <1>2 DEF End, Printed
<1>3. CASE \E n \in 1 .. MaxThreads : m = <<"count", n>> BY <1>3 DEF End, Printed
<1>4. CASE \E r \in 0 .. 2, t \in 1 .. MaxThreads : m = <<"info", r, t>> BY <1>4 DEF End, Printed
<1>. QED BY <1>1, <1>2, <1>3, <1>4 DEF Messages

\* What stdout makes of a byte: the buffer holds three at most, and of a grid
\* the page gets one character after the other.
ShownType == /\ output \in {"nothing", "begun", "whole", "other"}
             /\ stdoutBuffer \in Seq({"lead", "trail"}) /\ Len(stdoutBuffer) <= 3

LEMMA StdoutType ==
  ASSUME ShownType, NEW byte \in Bytes, Stdout(byte)
  PROVE  ShownType'
<1>. DEFINE buffer == Append(stdoutBuffer, byte)
<1>1. byte # "ascii" => /\ buffer \in Seq({"lead", "trail"}) /\ Len(stdoutBuffer) \in Nat
                        /\ Len(buffer) = Len(stdoutBuffer) + 1
  BY Sent DEF ShownType, Bytes
<1>2. output' \in {"nothing", "begun", "whole", "other"}
  BY DEF ShownType, Stdout, With
<1>3. stdoutBuffer' \in Seq({"lead", "trail"}) /\ Len(stdoutBuffer') <= 3
  <2>1. << >> \in Seq({"lead", "trail"}) /\ Len(<< >>) = 0
    BY EmptySeq
  <2>2. CASE UNCHANGED stdoutBuffer
    BY <2>2 DEF ShownType
  <2>3. CASE stdoutBuffer' = << >>
    BY <2>1, <2>3
  <2>4. CASE byte # "ascii" /\ ~IsBufferFull(buffer) /\ stdoutBuffer' = buffer
    BY <1>1, <2>4 DEF ShownType, IsBufferFull
  <2>. QED BY <2>2, <2>3, <2>4 DEF Stdout
<1>. QED BY <1>2, <1>3 DEF ShownType

LEMMA StdoutStream ==
  ASSUME NEW r \in 0 .. 2, Has(r), Stdout(Stream[r + 1][2])
  PROVE  Has(r + 1)'
<1>1. CASE r = 0
  BY <1>1 DEF Has, Stdout, With, Stream
<1>2. CASE r = 1
  <2>1. Append(stdoutBuffer, "lead") = <<"lead">>
    BY <1>2 DEF Has
  <2>2. ~IsBufferFull(<<"lead">>)
    BY DEF IsBufferFull
  <2>. QED BY <1>2, <2>1, <2>2 DEF Has, Stdout, Stream
<1>3. CASE r = 2
  <2>1. output = "begun" /\ stdoutBuffer = <<"lead">>
    BY <1>3 DEF Has
  <2>2. Append(<<"lead">>, "trail") = <<"lead", "trail">>
    <3>. DEFINE halves == Append(<<"lead">>, "trail")
                whole == <<"lead", "trail">>
    <3>1. <<"lead">> \in Seq({"lead", "trail"}) /\ Len(<<"lead">>) = 1 /\ <<"lead">>[1] = "lead"
      OBVIOUS
    <3>2. /\ halves \in Seq({"lead", "trail"}) /\ Len(halves) = 2
          /\ halves[1] = "lead" /\ halves[2] = "trail"
      BY <3>1, AppendProperties
    <3>3. /\ whole \in Seq({"lead", "trail"}) /\ Len(whole) = 2
          /\ whole[1] = "lead" /\ whole[2] = "trail"
      OBVIOUS
    <3>. HIDE DEF halves, whole
    <3>4. \A i \in 1 .. Len(halves) : halves[i] = whole[i]
      BY <3>2, <3>3
    <3>5. halves = whole
      BY <3>2, <3>3, <3>4, SeqEqual
    <3>. QED BY <3>5 DEF halves, whole
  <2>3. IsBufferFull(<<"lead", "trail">>) /\ Decoded(<<"lead", "trail">>) = "wide"
    BY DEF IsBufferFull, Decoded
  <2>4. Stdout("trail")
    BY <1>3 DEF Stream
  <2>5. output' = With("wide") /\ stdoutBuffer' = << >>
    BY <2>1, <2>2, <2>3, <2>4, Zenon DEF Stdout
  <2>6. output' = "whole"
    BY <2>1, <2>5 DEF With
  <2>. QED BY <1>3, <2>5, <2>6 DEF Has
<1>. QED BY <1>1, <1>2, <1>3

\* A step that touches nothing of this.
LEMMA SameOutput ==
  ASSUME OutputInv, UNCHANGED <<stage, output, stdoutBuffer, toPage, call, sent, cut>>
  PROVE  OutputInv'
BY DEF OutputInv, Has, UnderWay

\* Nor does the start of a call, of which nothing has been sent.
LEMMA CallBegins ==
  ASSUME OutputInv, toPage = << >>, toPage' = << >>, call = "none", sent' = 0,
         UNCHANGED <<stage, output, stdoutBuffer, cut>>
  PROVE  OutputInv'
<1>0. Len(toPage) = 0 /\ Len(toPage') = 0
  BY EmptySeq
<1>1. SUFFICES ASSUME stage' \in Expanding, ~cut' PROVE Has(0)' /\ UnderWay(0)'
  BY <1>0 DEF OutputInv
<1>2. PICK r \in 0 .. 3 : Has(r) /\ UnderWay(r)
  BY <1>1 DEF OutputInv
<1>3. r = 0
  BY <1>0, <1>2 DEF UnderWay
<1>. QED BY <1>0, <1>2, <1>3 DEF Has, UnderWay

-----------------------------------------------------------------------------
(* Every step preserves the invariant.                                     *)

LEMMA InitInv == Init => Inv
<1>. USE PageAssumption
<1>1. << >> \in Seq(Calls \cup {"step"}) /\ << >> \in Seq(Messages) /\ Len(<< >>) = 0
  BY EmptySeq
<1>2. Init => TypeOK
  <2>1. 0 \in 0 .. MaxThreads /\ 0 \in 0 .. 3 /\ DOMAIN << >> = {}
    OBVIOUS
  <2>2. << >> \in Seq({"lead", "trail"}) /\ Len(<< >>) <= 3
    BY EmptySeq
  <2>. QED BY <2>1, <2>2, Zenon DEF Init, TypeOK, Calls
<1>3. Init => Channels /\ LoadingInv /\ CallInv /\ OutputInv
  BY <1>1 DEF Init, Channels, LoadingInv, CallInv, OutputInv, Expanding
<1>. QED BY <1>2, <1>3 DEF Inv

\* The steps of the worker.

LEMMA RuntimeInitializedInv == Inv /\ RuntimeInitialized => Inv'
<1>. SUFFICES ASSUME Inv, RuntimeInitialized PROVE Inv'
  OBVIOUS
<1>. USE DEF Inv, RuntimeInitialized, HalfReady, Signal, page, running, ghosts
<1>0. toPage = << >> /\ Len(toPage) = 0 /\ Len(toPage) \in Nat
  BY EmptySeq DEF LoadingInv, Channels
<1>1. Channels'
  BY DEF Channels
<1>2. TypeOK'
  <2>1. 0 \in 0 .. MaxThreads /\ 0 \in 0 .. 2 /\ 0 \in 0 .. 3
    BY PageAssumption
  <2>2. sent' \in 0 .. 3 /\ live' \in 0 .. MaxThreads /\ ticked' \in 0 .. MaxThreads
    BY <2>1 DEF TypeOK
  <2>3. suspended' \in BOOLEAN /\ loaded' \in BOOLEAN
        /\ ready' \in BOOLEAN
    BY Zenon DEF TypeOK
  <2>4. funcName' \in Calls \cup {"step", "none"} /\ call' \in Calls \cup {"none"}
    BY DEF TypeOK, LoadingInv, CallOf, Calls
  <2>. QED BY <2>2, <2>3, <2>4, Zenon DEF TypeOK
<1>3. LoadingInv'
  BY <1>0 DEF LoadingInv
<1>4. CallInv'
  BY <1>0 DEF CallInv, LoadingInv, CallOf, TypeOK, Calls
<1>5. OutputInv'
  <2>1. \/ UNCHANGED <<stage, output, stdoutBuffer, toPage, call, sent, cut>>
        \/ /\ toPage = << >> /\ toPage' = << >> /\ call = "none" /\ sent' = 0
           /\ UNCHANGED <<stage, output, stdoutBuffer, cut>>
    BY <1>0, Zenon DEF LoadingInv
  <2>. QED BY <1>0, <2>1, SameOutput, CallBegins
<1>. QED BY <1>1, <1>2, <1>3, <1>4, <1>5

LEMMA SamePageType ==
  ASSUME TypeOK, UNCHANGED <<stage, text, grid>>
  PROVE  /\ stage' \in {"idle", "run", "unfold", "expand", "debug"}
         /\ text' \in {"original", "unfolded", "damaged"}
         /\ grid' \in {"none", "whole", "damaged"}
BY DEF TypeOK

LEMMA OnmessageInv == Inv /\ Onmessage => Inv'
<1>. SUFFICES ASSUME Inv, Onmessage PROVE Inv'
  OBVIOUS
<1>. USE DEF Inv, Onmessage, HalfReady, Signal, page, running, ghosts
<1>0. /\ Head(toWorker) = toWorker[1] /\ toWorker[1] \in Calls \cup {"step"}
      /\ toWorker' \in Seq(Calls \cup {"step"})
      /\ Len(toWorker) \in Nat /\ Len(toWorker) >= 1 /\ Len(toWorker') = Len(toWorker) - 1
      /\ \A k \in 1 .. Len(toWorker) - 1 : toWorker'[k] = toWorker[k + 1]
      /\ Len(toPage) \in Nat /\ (toPage = << >> => Len(toPage) = 0)
  BY Taken, LenProperties, EmptySeq DEF Channels
<1>1. Channels'
  BY <1>0 DEF Channels
<1>2. TypeOK'
  <2>1. 0 \in 0 .. MaxThreads /\ 0 \in 0 .. 2 /\ 0 \in 0 .. 3
    BY PageAssumption
  <2>2. \A k \in DOMAIN toWorker' : toWorker'[k] \in Calls \cup {"step"}
    BY <1>0, LenProperties
  <2>3. funcName' \in Calls \cup {"step", "none"} /\ call' \in Calls \cup {"none"}
    BY <1>0 DEF TypeOK
  <2>4. sent' \in 0 .. 3 /\ live' \in 0 .. MaxThreads /\ ticked' \in 0 .. MaxThreads
    BY <2>1 DEF TypeOK
  <2>5. suspended' \in BOOLEAN /\ ready' \in BOOLEAN
    BY Zenon DEF TypeOK
  <2>6. UNCHANGED <<stage, text, grid>> /\ UNCHANGED <<output, stdoutBuffer>>
    OBVIOUS
  <2>7. /\ threadCount' \in 0 .. MaxThreads
        /\ threads' \subseteq (0 .. 2) \X (1 .. MaxThreads)
        /\ paused' \in BOOLEAN /\ alive' \in BOOLEAN /\ loaded' \in BOOLEAN
        /\ cut' \in BOOLEAN /\ hasty' \in BOOLEAN
    BY Zenon DEF TypeOK
  <2>8. ShownType'
    BY <2>6 DEF TypeOK, ShownType
  <2>. QED BY <2>2, <2>3, <2>4, <2>5, <2>6, <2>7, <2>8, SamePageType, Zenon
           DEF TypeOK, ShownType
<1>3. LoadingInv'
  BY <1>0 DEF LoadingInv, CallInv
<1>4. CallInv'
  BY <1>0 DEF CallInv, LoadingInv
<1>5. OutputInv'
  <2>1. toWorker[1] # "step" => call = "none" /\ toPage = << >>
    BY <1>0 DEF CallInv
  <2>2. \/ UNCHANGED <<stage, output, stdoutBuffer, toPage, call, sent, cut>>
        \/ /\ toPage = << >> /\ toPage' = << >> /\ call = "none" /\ sent' = 0
           /\ UNCHANGED <<stage, output, stdoutBuffer, cut>>
    BY <1>0, <2>1, Zenon
  <2>. QED BY <1>0, <2>2, SameOutput, CallBegins
<1>. QED BY <1>1, <1>2, <1>3, <1>4, <1>5

\* What a message posted by the worker while a call is in progress leaves alone.
LEMMA PostedInv ==
  ASSUME Inv, NEW m \in Messages, Posts(m), call # "none",
         UNCHANGED <<page, toWorker, setup, ghosts>>, round' \in 0 .. 2,
         call' \in {call, "none"}, m = End <=> call' = "none",
         stage \in Expanding => /\ sent \in 0 .. 3 /\ m = Stream[sent + 1]
                               /\ IF m = End THEN sent = 3 ELSE sent' = sent + 1
  PROVE  Channels' /\ LoadingInv' /\ CallInv' /\ OutputInv'
<1>. USE DEF Inv, Posts, page, setup, ghosts
<1>0. /\ toPage' \in Seq(Messages) /\ toPage' # << >>
      /\ Len(toPage) \in Nat /\ Len(toPage') = Len(toPage) + 1
      /\ toPage'[Len(toPage) + 1] = m
      /\ \A k \in 1 .. Len(toPage) : toPage'[k] = toPage[k]
  BY Sent DEF Channels
<1>1. Channels'
  BY <1>0 DEF Channels
<1>2. LoadingInv'
  BY <1>0 DEF LoadingInv
<1>3. CallInv'
  <2>1. /\ stage # "idle" /\ stage' = stage /\ paused' = paused /\ call = CallOf(stage)
        /\ CallOf(stage)' = CallOf(stage)
    BY DEF CallInv, CallOf
  <2>2. \A k \in 1 .. Len(toWorker) : toWorker[k] = "step"
    BY DEF CallInv
  <2>3. ASSUME NEW k \in 1 .. Len(toPage'), toPage'[k] = End
        PROVE  k = Len(toPage') /\ call' = "none"
    BY <1>0, <2>3 DEF CallInv
  <2>. QED BY <2>1, <2>2, <2>3 DEF CallInv
<1>4. OutputInv'
  <2>. SUFFICES ASSUME stage \in Expanding
                PROVE  /\ \A k \in 1 .. Len(toPage') : toPage'[k] \in {End} \cup Printed
                       /\ cut \/ \E r \in 0 .. 3 : Has(r)' /\ UnderWay(r)'
    BY DEF OutputInv
  <2>1. m \in {End} \cup Printed
    <3>1. sent \in 0 .. 3 /\ m = Stream[sent + 1]
      OBVIOUS
    <3>. QED BY <3>1 DEF Stream, Printed, Bytes
  <2>2. ASSUME NEW k \in 1 .. Len(toPage') PROVE toPage'[k] \in {End} \cup Printed
    BY <1>0, <2>1 DEF OutputInv
  <2>3. ASSUME ~cut PROVE \E r \in 0 .. 3 : Has(r)' /\ UnderWay(r)'
    <3>1. PICK r \in 0 .. 3 : Has(r) /\ UnderWay(r)
      BY <2>3 DEF OutputInv
    <3>2. r + Len(toPage) = sent /\ \A k \in 1 .. Len(toPage) : toPage[k] = Stream[r + k]
      BY <3>1 DEF UnderWay
    <3>3. ASSUME NEW k \in 1 .. Len(toPage') PROVE toPage'[k] = Stream[r + k]
      <4>1. CASE k = Len(toPage) + 1
        <5>1. r + k = sent + 1
          BY <1>0, <3>2, <4>1
        <5>. QED BY <1>0, <4>1, <5>1
      <4>2. CASE k # Len(toPage) + 1
        <5>1. k \in 1 .. Len(toPage)
          BY <1>0, <4>2
        <5>. QED BY <1>0, <3>2, <5>1
      <4>. QED BY <4>1, <4>2
    <3>4. IF call' = "none" THEN r + Len(toPage') = 4 ELSE r + Len(toPage') = sent'
      BY <1>0, <3>2
    <3>5. Has(r)'
      BY <3>1 DEF Has
    <3>. QED BY <3>3, <3>4, <3>5 DEF UnderWay
  <2>. QED BY <2>2, <2>3
<1>. QED BY <1>1, <1>2, <1>3, <1>4

LEMMA PrintGridInv == Inv /\ PrintGrid => Inv'
<1>. SUFFICES ASSUME Inv, PrintGrid PROVE Inv'
  OBVIOUS
<1>. USE DEF Inv, PrintGrid
<1>. DEFINE m == <<"output", GridBytes[sent + 1]>>
<1>1. sent \in 0 .. 2 /\ sent' = sent + 1
  BY DEF TypeOK, GridBytes
<1>2. Posts(m) /\ m \in Messages /\ m # End /\ m = Stream[sent + 1]
  <2>1. GridBytes[sent + 1] \in Bytes /\ m = Stream[sent + 1]
    BY <1>1 DEF GridBytes, Bytes, Stream
  <2>. QED BY <2>1 DEF Messages, Printed, End
<1>3. Channels' /\ LoadingInv' /\ CallInv' /\ OutputInv'
  <2>1. UNCHANGED <<page, toWorker, setup, ghosts>> /\ call # "none" /\ call' = call
    OBVIOUS
  <2>2. round' \in 0 .. 2
    BY DEF Channels
  <2>3. sent \in 0 .. 3
    BY <1>1
  <2>. HIDE DEF m
  <2>. QED BY <1>1, <1>2, <2>1, <2>2, <2>3, PostedInv
<1>4. TypeOK'
  BY <1>1, PageAssumption DEF TypeOK, page, setup, ghosts
<1>. QED BY <1>3, <1>4

LEMMA PrintByteInv == Inv /\ PrintByte => Inv'
<1>. SUFFICES ASSUME Inv, PrintByte PROVE Inv'
  OBVIOUS
<1>. USE DEF Inv, PrintByte
<1>1. stage \notin Expanding
  BY DEF CallInv, CallOf, Expanding
<1>2. PICK m \in Messages : Posts(m) /\ m # End
  <2>1. PICK byte \in Bytes : Posts(<<"output", byte>>)
    BY DEF Bytes
  <2>. QED BY <2>1 DEF Messages, Printed, End
<1>3. Channels' /\ LoadingInv' /\ CallInv' /\ OutputInv'
  <2>1. UNCHANGED <<page, toWorker, setup, ghosts>> /\ call # "none" /\ call' = call
    BY DEF running
  <2>2. round' \in 0 .. 2
    BY DEF Channels, running
  <2>. QED BY <1>1, <1>2, <2>1, <2>2, PostedInv
<1>4. TypeOK'
  BY DEF TypeOK, page, setup, ghosts, running
<1>. QED BY <1>3, <1>4

LEMMA BeginRoundInv == Inv /\ BeginRound => Inv'
<1>. SUFFICES ASSUME Inv, BeginRound PROVE Inv'
  OBVIOUS
<1>. USE DEF Inv, BeginRound
<1>1. stage \notin Expanding
  BY DEF CallInv, CallOf, Expanding
<1>2. <<"count", live'>> \in Messages
  BY DEF Messages
<1>3. <<"count", live'>> # End
  BY DEF End
<1>4. Channels' /\ LoadingInv' /\ CallInv' /\ OutputInv'
  <2>1. UNCHANGED <<page, toWorker, setup, ghosts>> /\ call # "none" /\ call' = call
    OBVIOUS
  <2>2. round' \in 0 .. 2 /\ Posts(<<"count", live'>>)
    BY DEF Channels
  <2>. QED BY <1>1, <1>2, <1>3, <2>1, <2>2, PostedInv
<1>5. TypeOK'
  BY PageAssumption DEF TypeOK, page, setup, ghosts
<1>. QED BY <1>4, <1>5

LEMMA SendDebugInfoInv ==
  ASSUME Inv, SendDebugInfo PROVE Inv'
<1>. USE DEF Inv, SendDebugInfo
<1>1. stage \notin Expanding
  BY DEF CallInv, CallOf, Expanding
<1>2. <<"info", round, ticked + 1>> \in Messages
  <2>1. ticked + 1 \in 1 .. MaxThreads /\ round \in 0 .. 2
    BY PageAssumption DEF TypeOK, Channels
  <2>. QED BY <2>1 DEF Messages
<1>3. <<"info", round, ticked + 1>> # End
  BY DEF End
<1>4. Channels' /\ LoadingInv' /\ CallInv' /\ OutputInv'
  <2>1. UNCHANGED <<page, toWorker, setup, ghosts>> /\ call # "none" /\ call' = call
    OBVIOUS
  <2>2. round' \in 0 .. 2 /\ Posts(<<"info", round, ticked + 1>>)
    BY DEF Channels
  <2>. QED BY <1>1, <1>2, <1>3, <2>1, <2>2, PostedInv
<1>5. TypeOK'
  BY PageAssumption DEF TypeOK, page, setup, ghosts
<1>. QED BY <1>4, <1>5

LEMMA ReturnInv == Inv /\ Return => Inv'
<1>. SUFFICES ASSUME Inv, Return PROVE Inv'
  OBVIOUS
<1>. USE DEF Inv, Return
<1>1. call # "none"
  OBVIOUS
<1>2. stage \in Expanding => sent = 3 /\ sent \in 0 .. 3 /\ End = Stream[sent + 1]
  BY DEF CallInv, CallOf, Expanding, GridBytes, Stream
<1>3. Posts(End) /\ End \in Messages
  BY DEF Messages, End
<1>4. Channels' /\ LoadingInv' /\ CallInv' /\ OutputInv'
  <2>1. UNCHANGED <<page, toWorker, setup, ghosts>> /\ call' = "none"
    OBVIOUS
  <2>2. round' \in 0 .. 2
    BY DEF Channels
  <2>. QED BY <1>1, <1>2, <1>3, <2>1, <2>2, PostedInv
<1>5. TypeOK'
  BY PageAssumption DEF TypeOK, page, setup, ghosts
<1>. QED BY <1>4, <1>5

\* The steps of the page.

\* The queue of the worker, in which there is one call at most.
OneCallAsked ==
  \A k \in 1 .. Len(toWorker) : toWorker[k] # "step" =>
    /\ toWorker[k] = CallOf(stage) /\ stage # "idle"
    /\ call = "none" /\ toPage = << >> /\ (ready => loaded)
    /\ \A j \in 1 .. Len(toWorker) : toWorker[j] # "step" => j = k

\* A call that is asked for behind left over steps is the only one.
LEMMA AskedInv ==
  ASSUME NEW queue \in Seq(Calls \cup {"step"}), NEW name \in Calls,
         \A k \in 1 .. Len(queue) : queue[k] = "step",
         toWorker' = Append(queue, name),
         name = CallOf(stage)', stage' # "idle", call' = "none", toPage' = << >>,
         ready' => loaded'
  PROVE  /\ toWorker' \in Seq(Calls \cup {"step"}) /\ toWorker' # << >>
         /\ queue = << >> => toWorker'[1] # "step"
         /\ OneCallAsked'
<1>1. /\ toWorker' \in Seq(Calls \cup {"step"}) /\ toWorker' # << >>
      /\ Len(queue) \in Nat /\ Len(toWorker') = Len(queue) + 1
      /\ toWorker'[Len(queue) + 1] = name
      /\ \A k \in 1 .. Len(queue) : toWorker'[k] = "step"
      /\ queue = << >> => Len(queue) = 0
  BY Sent
<1>2. name # "step"
  BY DEF Calls
<1>3. \A k \in 1 .. Len(toWorker') : toWorker'[k] # "step" <=> k = Len(queue) + 1
  BY <1>1, <1>2
<1>4. OneCallAsked'
  BY <1>1, <1>3 DEF OneCallAsked
<1>. QED BY <1>1, <1>2, <1>4

\* A step that is sent to the worker comes after what is in its queue.
LEMMA StepSentInv ==
  ASSUME Inv, toWorker' = Append(toWorker, "step"), stage' = stage,
         UNCHANGED <<setup, call>>, toPage = << >> => toPage' = << >>
  PROVE  /\ toWorker' \in Seq(Calls \cup {"step"}) /\ toWorker' # << >>
         /\ toWorker # << >> => toWorker'[1] = toWorker[1]
         /\ OneCallAsked'
<1>. USE DEF Inv, setup
<1>1. /\ toWorker' \in Seq(Calls \cup {"step"}) /\ toWorker' # << >>
      /\ Len(toWorker) \in Nat /\ Len(toWorker') = Len(toWorker) + 1
      /\ toWorker'[Len(toWorker) + 1] = "step"
      /\ \A k \in 1 .. Len(toWorker) : toWorker'[k] = toWorker[k]
      /\ toWorker # << >> => Len(toWorker) >= 1
  BY Sent DEF Channels
<1>2. CallOf(stage)' = CallOf(stage)
  BY DEF CallOf
<1>3. ASSUME NEW k \in 1 .. Len(toWorker'), toWorker'[k] # "step"
      PROVE  k \in 1 .. Len(toWorker) /\ toWorker'[k] = toWorker[k]
  BY <1>1, <1>3
<1>4. OneCallAsked'
  BY <1>2, <1>3 DEF OneCallAsked, CallInv
<1>. QED BY <1>1, <1>4

\* The page takes a message that does not end the call.
LEMMA ReceivedInv ==
  ASSUME Inv, toPage # << >>, Head(toPage) # End, toPage' = Tail(toPage),
         UNCHANGED <<stage, call, sent, cut>>,
         \/ Head(toPage) \in Printed /\ Stdout(Head(toPage)[2])
         \/ Head(toPage) \notin Printed /\ UNCHANGED <<output, stdoutBuffer>>
  PROVE  /\ toPage' \in Seq(Messages) /\ Head(toPage) \in Messages
         /\ stage # "idle" /\ loaded /\ alive
         /\ ShownType'
         /\ \A k \in 1 .. Len(toPage') : toPage'[k] = End => k = Len(toPage') /\ call' = "none"
         /\ OutputInv'
<1>. USE DEF Inv
<1>1. /\ Head(toPage) = toPage[1] /\ toPage[1] \in Messages /\ toPage' \in Seq(Messages)
      /\ Len(toPage) \in Nat /\ Len(toPage) >= 1 /\ Len(toPage') = Len(toPage) - 1
      /\ \A k \in 1 .. Len(toPage) - 1 : toPage'[k] = toPage[k + 1]
  BY Taken DEF Channels
<1>2. stage # "idle" /\ loaded /\ alive
  BY DEF CallInv, LoadingInv
<1>3. ASSUME NEW k \in 1 .. Len(toPage'), toPage'[k] = End
      PROVE  k = Len(toPage') /\ call' = "none"
  <2>1. k + 1 \in 1 .. Len(toPage) /\ toPage[k + 1] = End
    BY <1>1, <1>3
  <2>2. k + 1 = Len(toPage) /\ call = "none"
    BY <2>1 DEF CallInv
  <2>3. Len(toPage) \in Nat /\ k \in Nat
    BY <1>1
  <2>4. k = Len(toPage) - 1
    BY <2>2, <2>3
  <2>5. Len(toPage') = Len(toPage) - 1
    BY <1>1
  <2>6. call' = "none"
    BY <2>2
  <2>. QED BY <2>4, <2>5, <2>6, Zenon
<1>4. ShownType'
  <2>1. ShownType
    BY DEF TypeOK, ShownType
  <2>2. CASE UNCHANGED <<output, stdoutBuffer>>
    BY <2>1, <2>2 DEF ShownType
  <2>3. CASE Head(toPage) \in Printed /\ Stdout(Head(toPage)[2])
    <3>1. Head(toPage)[2] \in Bytes
      BY <2>3 DEF Printed
    <3>. QED BY <2>1, <2>3, <3>1, StdoutType
  <2>. QED BY <2>2, <2>3
<1>5. ASSUME stage \in Expanding
      PROVE  /\ \A k \in 1 .. Len(toPage') : toPage'[k] \in {End} \cup Printed
             /\ cut' \/ \E r \in 0 .. 3 : Has(r)' /\ UnderWay(r)'
  <2>1. Stdout(toPage[1][2])
    BY <1>1, <1>5 DEF OutputInv
  <2>2. ASSUME NEW k \in 1 .. Len(toPage') PROVE toPage'[k] \in {End} \cup Printed
    BY <1>1, <1>5 DEF OutputInv
  <2>3. ASSUME ~cut PROVE \E r \in 0 .. 3 : Has(r)' /\ UnderWay(r)'
    <3>1. PICK r \in 0 .. 3 : Has(r) /\ UnderWay(r)
      BY <1>5, <2>3 DEF OutputInv
    <3>2. \A k \in 1 .. Len(toPage) : toPage[k] = Stream[r + k]
      BY <3>1 DEF UnderWay
    <3>3. toPage[1] = Stream[r + 1] /\ r # 3
      <4>1. toPage[1] = Stream[r + 1]
        BY <1>1, <3>2
      <4>2. toPage[1] # Stream[4]
        BY <1>1 DEF Stream
      <4>. QED BY <4>1, <4>2
    <3>4. Has(r + 1)'
      BY <2>1, <3>1, <3>3, StdoutStream
    <3>5. UnderWay(r + 1)'
      <4>1. ASSUME NEW k \in 1 .. Len(toPage') PROVE toPage'[k] = Stream[(r + 1) + k]
        <5>1. k + 1 \in 1 .. Len(toPage) /\ toPage'[k] = toPage[k + 1]
              /\ r + (k + 1) = (r + 1) + k
          BY <1>1
        <5>. QED BY <3>2, <5>1
      <4>2. (r + 1) + Len(toPage') = r + Len(toPage)
        BY <1>1
      <4>3. call # "none" => r + Len(toPage) = sent
        BY <3>1 DEF UnderWay
      <4>4. call = "none" => r + Len(toPage) = 4
        BY <3>1 DEF UnderWay
      <4>5. call' = call /\ sent' = sent
        OBVIOUS
      <4>. QED BY <4>1, <4>2, <4>3, <4>4, <4>5 DEF UnderWay
    <3>6. r + 1 \in 0 .. 3
      BY <3>3
    <3>. QED BY <3>4, <3>5, <3>6
  <2>. QED BY <2>2, <2>3
<1>6. OutputInv'
  BY <1>5 DEF OutputInv
<1>. QED BY <1>1, <1>2, <1>3, <1>4, <1>6

\* A call is resolved: it has ended, or its worker has been terminated.
LEMMA ResolvedInv ==
  ASSUME Inv, NEW queue \in Seq(Calls \cup {"step"}), Resolve(queue),
         \A k \in 1 .. Len(queue) : queue[k] = "step",
         toPage' = << >>, call' = "none", round' \in 0 .. 2,
         \/ loaded' /\ ready' /\ alive'
         \/ ~loaded' /\ ~ready' /\ (alive' <=> stage = "expand") /\ queue = << >>
  PROVE  Channels' /\ LoadingInv' /\ CallInv' /\ OutputInv'
<1>. USE DEF Inv
<1>0. toPage' \in Seq(Messages) /\ Len(toPage') = 0
  BY EmptySeq
<1>2. CASE stage = "expand"
  <2>1. stage' = "debug" /\ toWorker' = Append(queue, "debugProgram") /\ paused' = paused
    BY <1>2 DEF Resolve, Ask
  <2>2. /\ toWorker' \in Seq(Calls \cup {"step"}) /\ toWorker' # << >>
        /\ queue = << >> => toWorker'[1] # "step"
        /\ OneCallAsked'
    <3>1. "debugProgram" \in Calls /\ "debugProgram" = CallOf(stage)' /\ stage' # "idle"
      BY <2>1 DEF Calls, CallOf
    <3>2. ready' => loaded'
      OBVIOUS
    <3>. QED BY <2>1, <3>1, <3>2, AskedInv
  <2>3. Channels'
    BY <1>0, <2>2 DEF Channels
  <2>4. LoadingInv'
    BY <1>2, <2>1, <2>2 DEF LoadingInv
  <2>5. CallInv'
    BY <1>0, <2>1, <2>2 DEF CallInv, OneCallAsked
  <2>6. OutputInv'
    BY <2>1 DEF OutputInv, Expanding
  <2>. QED BY <2>3, <2>4, <2>5, <2>6
<1>3. CASE stage # "expand"
  <2>1. stage' = "idle" /\ toWorker' = queue
    BY <1>3 DEF Resolve
  <2>2. paused'
    BY <1>3 DEF Resolve, CallInv
  <2>3. Channels'
    BY <1>0, <2>1 DEF Channels
  <2>4. LoadingInv'
    BY <1>3, <2>1 DEF LoadingInv
  <2>5. CallInv'
    BY <1>0, <2>1, <2>2 DEF CallInv
  <2>6. OutputInv'
    BY <2>1 DEF OutputInv, Expanding
  <2>. QED BY <2>3, <2>4, <2>5, <2>6
<1>. QED BY <1>2, <1>3

\* The page's own variables have their types after a call is resolved.
LEMMA ResolvedType ==
  ASSUME TypeOK, NEW queue, Resolve(queue), toWorker' \in Seq(Calls \cup {"step"}),
         UNCHANGED stdoutBuffer
  PROVE  /\ stage' \in {"idle", "run", "unfold", "expand", "debug"}
         /\ ShownType'
         /\ text' \in {"original", "unfolded", "damaged"}
         /\ grid' \in {"none", "whole", "damaged"}
         /\ threadCount' \in 0 .. MaxThreads
         /\ \A k \in DOMAIN toWorker' : toWorker'[k] \in Calls \cup {"step"}
         /\ paused' \in BOOLEAN
<1>1. /\ stage' \in {"idle", "run", "unfold", "expand", "debug"}
      /\ text' \in {"original", "unfolded", "damaged"}
      /\ grid' \in {"none", "whole", "damaged"}
  BY DEF TypeOK, Resolve
<1>2. threadCount' \in 0 .. MaxThreads
  BY PageAssumption DEF TypeOK, Resolve, Ask
<1>3. ShownType'
  BY DEF TypeOK, ShownType, Resolve, Ask
<1>4. paused' \in BOOLEAN
  BY Zenon DEF TypeOK, Resolve
<1>5. \A k \in DOMAIN toWorker' : toWorker'[k] \in Calls \cup {"step"}
  BY LenProperties
<1>. QED BY <1>1, <1>2, <1>3, <1>4, <1>5

\* wasmCancel: the worker that is terminated takes what is under way with it.
LEMMA WasmCancelInv ==
  ASSUME Inv, WasmCancel, cut' \in BOOLEAN,
         threads' \subseteq (0 .. 2) \X (1 .. MaxThreads)
  PROVE  Inv'
<1>. USE DEF Inv
<1>1. /\ Resolve(<< >>) /\ toPage' = << >> /\ call' = "none" /\ round' = 0
      /\ ~loaded' /\ ~ready' /\ (alive' <=> stage = "expand")
      /\ UNCHANGED stdoutBuffer
  BY DEF WasmCancel, Forget
<1>3. << >> \in Seq(Calls \cup {"step"}) /\ Len(<< >>) = 0
  BY EmptySeq
<1>4. Channels' /\ LoadingInv' /\ CallInv' /\ OutputInv'
  <2>1. \A k \in 1 .. Len(<< >>) : << >>[k] = "step"
    BY <1>3
  <2>2. 0 \in 0 .. 2
    OBVIOUS
  <2>. QED BY <1>1, <1>3, <2>1, <2>2, ResolvedInv
<1>5. TypeOK'
  <2>1. 0 \in 0 .. MaxThreads /\ 0 \in 0 .. 2 /\ 0 \in 0 .. 3
    BY PageAssumption
  <2>3. alive' \in BOOLEAN
    BY Zenon DEF WasmCancel
  <2>4. /\ stage' \in {"idle", "run", "unfold", "expand", "debug"}
        /\ ShownType'
        /\ text' \in {"original", "unfolded", "damaged"}
        /\ grid' \in {"none", "whole", "damaged"}
        /\ threadCount' \in 0 .. MaxThreads
        /\ \A k \in DOMAIN toWorker' : toWorker'[k] \in Calls \cup {"step"}
        /\ paused' \in BOOLEAN
    BY <1>1, <1>4, ResolvedType DEF Channels
  <2>5. /\ funcName' \in Calls \cup {"step", "none"} /\ call' \in Calls \cup {"none"}
        /\ sent' \in 0 .. 3 /\ live' \in 0 .. MaxThreads /\ ticked' \in 0 .. MaxThreads
    BY <2>1, Zenon DEF WasmCancel, Forget
  <2>6. /\ loaded' \in BOOLEAN /\ ready' \in BOOLEAN /\ suspended' \in BOOLEAN
        /\ hasty' \in BOOLEAN
    BY Zenon DEF WasmCancel, Forget
  <2>. QED BY <2>3, <2>4, <2>5, <2>6, Zenon DEF TypeOK, ShownType
<1>. QED BY <1>4, <1>5

\* What the info of a thread leaves in the table.
LEMMA EnteredType ==
  ASSUME Inv, Receives("info")
  PROVE  /\ Entered \subseteq (0 .. 2) \X (1 .. MaxThreads)
         /\ Head(toPage) \notin Printed /\ Head(toPage) # End
<1>1. Head(toPage) \in Messages
  BY Taken DEF Inv, Channels, Receives
<1>2. Head(toPage)[2] \in 0 .. 2 /\ Head(toPage)[3] \in 1 .. MaxThreads
  BY <1>1, Kinds DEF Receives
<1>3. Head(toPage) \notin Printed /\ Head(toPage) # End
  BY <1>1, Kinds DEF Receives
<1>4. threads \subseteq (0 .. 2) \X (1 .. MaxThreads)
  BY DEF Inv, TypeOK
<1>. QED BY <1>2, <1>3, <1>4 DEF Entered

LEMMA StopInv == Inv /\ Stop => Inv'
<1>. SUFFICES ASSUME Inv, Stop PROVE Inv'
  OBVIOUS
<1>1. WasmCancel /\ cut' \in BOOLEAN /\ threads' \subseteq (0 .. 2) \X (1 .. MaxThreads)
  BY Zenon DEF Stop, Inv, TypeOK
<1>. QED BY <1>1, WasmCancelInv

LEMMA TooManyThreadsInv == Inv /\ TooManyThreads => Inv'
<1>. SUFFICES ASSUME Inv, TooManyThreads PROVE Inv'
  OBVIOUS
<1>1. WasmCancel /\ cut' = cut /\ threads' = Entered /\ Receives("info")
  BY DEF TooManyThreads
<1>2. threads' \subseteq (0 .. 2) \X (1 .. MaxThreads)
  BY <1>1, EnteredType
<1>3. cut' \in BOOLEAN
  BY <1>1, Zenon DEF Inv, TypeOK
<1>. QED BY <1>1, <1>2, <1>3, WasmCancelInv

LEMMA OnEndInv == Inv /\ OnEnd => Inv'
<1>. SUFFICES ASSUME Inv, OnEnd PROVE Inv'
  OBVIOUS
<1>. USE DEF Inv, OnEnd, Receives, setup, running, ghosts
<1>1. /\ Head(toPage) = toPage[1] /\ toPage[1] \in Messages
      /\ Len(toPage) \in Nat /\ Len(toPage) >= 1
      /\ Len(toPage) = 1 => Tail(toPage) = << >>
  BY Taken DEF Channels
<1>2. toPage[1] = End
  BY <1>1, Kinds
<1>3. Len(toPage) = 1 /\ call = "none"
  <2>1. 1 \in 1 .. Len(toPage)
    BY <1>1
  <2>2. \A k \in 1 .. Len(toPage) : toPage[k] = End => k = Len(toPage) /\ call = "none"
    BY DEF CallInv
  <2>. QED BY <1>2, <2>1, <2>2, Zenon
<1>4. toPage' = << >> /\ call' = "none"
  BY <1>1, <1>3
<1>6. \A k \in 1 .. Len(toWorker) : toWorker[k] = "step"
  BY DEF CallInv
<1>7. loaded' /\ ready' /\ alive'
  BY DEF LoadingInv
<1>8. Channels' /\ LoadingInv' /\ CallInv' /\ OutputInv'
  <2>1. Resolve(toWorker) /\ toWorker \in Seq(Calls \cup {"step"}) /\ round' \in 0 .. 2
    BY DEF Channels
  <2>. QED BY <1>4, <1>6, <1>7, <2>1, ResolvedInv
<1>9. TypeOK'
  <2>1. /\ stage' \in {"idle", "run", "unfold", "expand", "debug"}
        /\ ShownType'
        /\ text' \in {"original", "unfolded", "damaged"}
        /\ grid' \in {"none", "whole", "damaged"}
        /\ threadCount' \in 0 .. MaxThreads
        /\ \A k \in DOMAIN toWorker' : toWorker'[k] \in Calls \cup {"step"}
        /\ paused' \in BOOLEAN
    BY <1>8, ResolvedType DEF Channels
  <2>. QED BY <2>1, Zenon DEF TypeOK, ShownType
<1>. QED BY <1>8, <1>9

LEMMA ClickInv == Inv /\ Click => Inv'
<1>. SUFFICES ASSUME Inv, Click PROVE Inv'
  OBVIOUS
<1>. USE DEF Inv, running, ghosts
<1>1. PICK name \in Calls :
        /\ toWorker' = Append(toWorker, name) /\ output' = "nothing" /\ threadCount' = 0
        /\ stage' \in {"run", "unfold", "expand"} /\ name = CallOf(stage)'
  BY DEF Click, Ask, Calls, CallOf
<1>2. /\ stage = "idle" /\ alive' = TRUE /\ toPage = << >> /\ call = "none" /\ paused
      /\ text' = "original" /\ cut' = (stdoutBuffer # << >>)
      /\ UNCHANGED <<stdoutBuffer, grid, threads, paused, toPage, loaded, ready, funcName,
                     running, hasty>>
  BY Zenon DEF Click, CallInv
<1>3. \A k \in 1 .. Len(toWorker) : toWorker[k] = "step"
  BY <1>2 DEF CallInv
<1>4. /\ alive => loaded
      /\ ~alive => toWorker = << >> /\ ~ready
      /\ loaded => ready /\ alive
  BY <1>2 DEF LoadingInv
<1>5. /\ toWorker' \in Seq(Calls \cup {"step"}) /\ toWorker' # << >>
      /\ toWorker = << >> => toWorker'[1] # "step"
      /\ OneCallAsked'
  <2>1. ready' => loaded'
    BY <1>2, <1>4
  <2>2. stage' # "idle" /\ call' = "none" /\ toPage' = << >>
    BY <1>1, <1>2
  <2>3. toWorker \in Seq(Calls \cup {"step"})
    BY DEF Channels
  <2>. QED BY <1>1, <1>3, <2>1, <2>2, <2>3, AskedInv
<1>6. Channels'
  BY <1>2, <1>5 DEF Channels
<1>7. LoadingInv'
  BY <1>1, <1>2, <1>4, <1>5 DEF LoadingInv
<1>8. CallInv'
  BY <1>1, <1>2, <1>5, EmptySeq DEF CallInv, OneCallAsked
<1>9. OutputInv'
  <2>1. Len(toPage') = 0
    BY <1>2, EmptySeq
  <2>2. ASSUME ~cut' PROVE Has(0)' /\ UnderWay(0)'
    <3>1. output' = "nothing" /\ stdoutBuffer' = << >>
      BY <1>1, <1>2, <2>2
    <3>2. toPage' = << >> /\ call' = "none"
      BY <1>2
    <3>. QED BY <2>1, <3>1, <3>2 DEF Has, UnderWay
  <2>. QED BY <2>1, <2>2 DEF OutputInv
<1>10. TypeOK'
  <2>1. ShownType' /\ threadCount' \in 0 .. MaxThreads
    BY <1>1, <1>2, PageAssumption DEF TypeOK, ShownType
  <2>2. \A k \in DOMAIN toWorker' : toWorker'[k] \in Calls \cup {"step"}
    BY <1>5, LenProperties
  <2>3. stage' \in {"idle", "run", "unfold", "expand", "debug"}
    BY <1>1
  <2>4. /\ text' \in {"original", "unfolded", "damaged"} /\ grid' \in {"none", "whole", "damaged"}
        /\ threads' \subseteq (0 .. 2) \X (1 .. MaxThreads) /\ paused' \in BOOLEAN
        /\ loaded' \in BOOLEAN /\ ready' \in BOOLEAN /\ alive' \in BOOLEAN
    BY <1>2, Zenon DEF TypeOK
  <2>5. /\ sent' \in 0 .. 3 /\ live' \in 0 .. MaxThreads /\ ticked' \in 0 .. MaxThreads
        /\ funcName' \in Calls \cup {"step", "none"} /\ call' \in Calls \cup {"none"}
    BY <1>2, Zenon DEF TypeOK
  <2>6. /\ suspended' \in BOOLEAN
        /\ cut' \in BOOLEAN /\ hasty' \in BOOLEAN
    BY <1>2, Zenon DEF TypeOK
  <2>. QED BY <2>1, <2>2, <2>3, <2>4, <2>5, <2>6, Zenon DEF TypeOK, ShownType
<1>. QED BY <1>6, <1>7, <1>8, <1>9, <1>10

LEMMA EditInputInv == Inv /\ EditInput => Inv'
<1>. SUFFICES ASSUME Inv, EditInput PROVE Inv'
  OBVIOUS
<1>. USE DEF Inv, EditInput, Forget, page
<1>0. << >> \in Seq(Calls \cup {"step"}) /\ Len(<< >>) = 0
  BY EmptySeq
<1>1. Channels'
  BY <1>0 DEF Channels
<1>2. LoadingInv'
  BY DEF LoadingInv, CallInv
<1>3. CallInv'
  BY <1>0 DEF CallInv
<1>4. OutputInv'
  BY DEF OutputInv, Expanding
<1>5. TypeOK'
  <2>1. 0 \in 0 .. MaxThreads /\ 0 \in 0 .. 3 /\ DOMAIN toWorker' = {}
    BY PageAssumption
  <2>. QED BY <2>1, Zenon DEF TypeOK
<1>. QED BY <1>1, <1>2, <1>3, <1>4, <1>5

\* The types of what the messages of a call in progress leave alone.
LEMMA SameWorkerType ==
  ASSUME TypeOK, UNCHANGED <<setup, running>>
  PROVE  /\ sent' \in 0 .. 3 /\ live' \in 0 .. MaxThreads /\ ticked' \in 0 .. MaxThreads
         /\ funcName' \in Calls \cup {"step", "none"} /\ call' \in Calls \cup {"none"}
         /\ alive' \in BOOLEAN /\ loaded' \in BOOLEAN /\ ready' \in BOOLEAN
         /\ suspended' \in BOOLEAN
<1>. USE DEF setup, running
<1>1. sent' \in 0 .. 3 /\ live' \in 0 .. MaxThreads /\ ticked' \in 0 .. MaxThreads
  BY DEF TypeOK
<1>2. funcName' \in Calls \cup {"step", "none"} /\ call' \in Calls \cup {"none"}
  BY DEF TypeOK
<1>3. alive' \in BOOLEAN /\ loaded' \in BOOLEAN /\ ready' \in BOOLEAN
  BY Zenon DEF TypeOK
<1>4. suspended' \in BOOLEAN
  BY Zenon DEF TypeOK
<1>. QED BY <1>1, <1>2, <1>3, <1>4, Zenon

\* The part of TypeOK about what varies from one of these steps to another.
OtherTypes ==
  /\ ShownType /\ threadCount \in 0 .. MaxThreads
  /\ threads \subseteq (0 .. 2) \X (1 .. MaxThreads)
  /\ \A k \in DOMAIN toWorker : toWorker[k] \in Calls \cup {"step"}
  /\ paused \in BOOLEAN /\ cut \in BOOLEAN /\ hasty \in BOOLEAN

LEMMA TypeOKFromParts ==
  ASSUME TypeOK, UNCHANGED <<stage, text, grid, setup, running>>, OtherTypes'
  PROVE  TypeOK'
<1>1. UNCHANGED <<setup, running>> /\ UNCHANGED <<stage, text, grid>>
  OBVIOUS
<1>2. /\ sent' \in 0 .. 3 /\ live' \in 0 .. MaxThreads /\ ticked' \in 0 .. MaxThreads
      /\ funcName' \in Calls \cup {"step", "none"} /\ call' \in Calls \cup {"none"}
      /\ alive' \in BOOLEAN /\ loaded' \in BOOLEAN /\ ready' \in BOOLEAN
      /\ suspended' \in BOOLEAN
  BY <1>1, SameWorkerType
<1>3. /\ stage' \in {"idle", "run", "unfold", "expand", "debug"}
      /\ text' \in {"original", "unfolded", "damaged"}
      /\ grid' \in {"none", "whole", "damaged"}
  BY <1>1, SamePageType
<1>. QED BY <1>2, <1>3, Zenon DEF TypeOK, ShownType, OtherTypes

\* The steps that the user sends: only while a grid is being debugged, so that
\* there is a worker.
LEMMA PostStepInv ==
  ASSUME Inv, PostStep, stage = "debug" PROVE Inv'
<1>. USE DEF Inv, PostStep, page, setup, running
<1>1. /\ toWorker' \in Seq(Calls \cup {"step"}) /\ toWorker' # << >>
      /\ toWorker # << >> => toWorker'[1] = toWorker[1]
      /\ OneCallAsked'
  <2>1. UNCHANGED <<setup, call>> /\ stage' = stage /\ (toPage = << >> => toPage' = << >>)
    OBVIOUS
  <2>. QED BY <2>1, StepSentInv
<1>2. CallOf(stage)' = CallOf(stage)
  BY DEF CallOf
<1>3. Channels'
  BY <1>1 DEF Channels
<1>4. LoadingInv'
  BY <1>1, <1>2 DEF LoadingInv
<1>5. CallInv'
  BY <1>1, <1>2 DEF CallInv, OneCallAsked
<1>6. OutputInv'
  BY SameOutput
<1>7. TypeOK'
  <2>1. \A k \in DOMAIN toWorker' : toWorker'[k] \in Calls \cup {"step"}
    BY <1>1, LenProperties
  <2>2. hasty' \in BOOLEAN
    BY Zenon
  <2>3. UNCHANGED <<stage, text, grid, setup, running>>
    OBVIOUS
  <2>4. OtherTypes'
    BY <2>1, <2>2, Zenon DEF TypeOK, ShownType, OtherTypes
  <2>. QED BY <2>3, <2>4, TypeOKFromParts
<1>. QED BY <1>3, <1>4, <1>5, <1>6, <1>7

LEMMA StepButtonInv == Inv /\ StepButton => Inv'
BY PostStepInv DEF StepButton

LEMMA TimerInv == Inv /\ Timer => Inv'
<1>1. Inv /\ ~paused => stage = "debug"
  BY DEF Inv, CallInv
<1>. QED BY <1>1, PostStepInv DEF Timer

LEMMA PlayPauseInv == Inv /\ PlayPause => Inv'
<1>. SUFFICES ASSUME Inv, PlayPause PROVE Inv'
  OBVIOUS
<1>. USE DEF Inv, PlayPause, setup, running, ghosts
<1>1. CallOf(stage)' = CallOf(stage)
  BY DEF CallOf
<1>2. Channels'
  BY DEF Channels
<1>3. LoadingInv'
  BY <1>1 DEF LoadingInv
<1>4. CallInv'
  BY <1>1 DEF CallInv
<1>5. OutputInv'
  BY SameOutput
<1>6. TypeOK'
  <2>1. UNCHANGED <<stage, text, grid, setup, running>>
    OBVIOUS
  <2>2. OtherTypes'
    BY Zenon DEF TypeOK, ShownType, OtherTypes
  <2>. QED BY <2>1, <2>2, TypeOKFromParts
<1>. QED BY <1>2, <1>3, <1>4, <1>5, <1>6

LEMMA ClearOutputInv == Inv /\ ClearOutput => Inv'
<1>. SUFFICES ASSUME Inv, ClearOutput PROVE Inv'
  OBVIOUS
<1>. USE DEF Inv, ClearOutput, setup, running
<1>1. CallOf(stage)' = CallOf(stage)
  BY DEF CallOf
<1>2. Channels' /\ LoadingInv' /\ CallInv'
  BY <1>1 DEF Channels, LoadingInv, CallInv
<1>3. OutputInv'
  <2>1. CASE stage \in Expanding /\ output # "nothing"
    BY <2>1 DEF OutputInv
  <2>2. CASE stage \notin Expanding
    BY <2>2 DEF OutputInv
  <2>3. CASE output = "nothing" /\ cut' = cut
    BY <2>3, SameOutput
  <2>. QED BY <2>1, <2>2, <2>3, Zenon DEF TypeOK
<1>4. TypeOK'
  <2>1. UNCHANGED <<stage, text, grid, setup, running>>
    OBVIOUS
  <2>2. OtherTypes'
    BY Zenon DEF TypeOK, ShownType, OtherTypes
  <2>. QED BY <2>1, <2>2, TypeOKFromParts
<1>. QED BY <1>2, <1>3, <1>4

\* The messages that do not end the call.

LEMMA OnOutputInv == Inv /\ OnOutput => Inv'
<1>. SUFFICES ASSUME Inv, OnOutput PROVE Inv'
  OBVIOUS
<1>. USE DEF Inv, setup, running, ghosts
<1>1. /\ toPage # << >> /\ Head(toPage)[1] = "output" /\ toPage' = Tail(toPage)
      /\ Stdout(Head(toPage)[2])
      /\ UNCHANGED <<stage, text, grid, threadCount, threads, paused, toWorker,
                     setup, running, ghosts>>
  BY DEF OnOutput, Receives
<1>2. Head(toPage) \in Printed /\ Head(toPage) # End
  <2>1. Head(toPage) \in Messages
    BY <1>1, Taken DEF Channels
  <2>. QED BY <1>1, <2>1, Kinds
<1>3. /\ toPage' \in Seq(Messages) /\ stage # "idle" /\ loaded /\ alive /\ ShownType'
      /\ \A k \in 1 .. Len(toPage') : toPage'[k] = End => k = Len(toPage') /\ call' = "none"
      /\ OutputInv'
  BY <1>1, <1>2, ReceivedInv
<1>4. CallOf(stage)' = CallOf(stage)
  BY <1>1 DEF CallOf
<1>5. Channels'
  BY <1>1, <1>3 DEF Channels
<1>6. LoadingInv'
  BY <1>1, <1>3 DEF LoadingInv
<1>7. CallInv'
  BY <1>1, <1>3, <1>4 DEF CallInv
<1>8. TypeOK'
  <2>1. UNCHANGED <<stage, text, grid, setup, running>>
    BY <1>1
  <2>2. OtherTypes'
    BY <1>1, <1>3, Zenon DEF TypeOK, ShownType, OtherTypes
  <2>. QED BY <2>1, <2>2, TypeOKFromParts
<1>. QED BY <1>3, <1>5, <1>6, <1>7, <1>8

LEMMA OnCountInv == Inv /\ OnCount => Inv'
<1>. SUFFICES ASSUME Inv, OnCount PROVE Inv'
  OBVIOUS
<1>. USE DEF Inv, setup, running, ghosts
<1>1. /\ toPage # << >> /\ Head(toPage)[1] = "count" /\ toPage' = Tail(toPage)
      /\ threadCount' = Head(toPage)[2] /\ threads' = {}
      /\ UNCHANGED <<stage, output, stdoutBuffer, text, grid, paused, toWorker, setup, running, ghosts>>
  BY DEF OnCount, Receives
<1>2. Head(toPage) \notin Printed /\ Head(toPage) # End /\ threadCount' \in 1 .. MaxThreads
  <2>1. Head(toPage) \in Messages
    BY <1>1, Taken DEF Channels
  <2>. QED BY <1>1, <2>1, Kinds
<1>3. /\ toPage' \in Seq(Messages) /\ stage # "idle" /\ loaded /\ alive /\ ShownType'
      /\ \A k \in 1 .. Len(toPage') : toPage'[k] = End => k = Len(toPage') /\ call' = "none"
      /\ OutputInv'
  BY <1>1, <1>2, ReceivedInv
<1>4. CallOf(stage)' = CallOf(stage)
  BY <1>1 DEF CallOf
<1>5. Channels'
  BY <1>1, <1>3 DEF Channels
<1>6. LoadingInv'
  BY <1>1, <1>3 DEF LoadingInv
<1>7. CallInv'
  BY <1>1, <1>3, <1>4 DEF CallInv
<1>8. TypeOK'
  <2>1. threadCount' \in 0 .. MaxThreads /\ threads' \subseteq (0 .. 2) \X (1 .. MaxThreads)
    BY <1>1, <1>2, PageAssumption
  <2>2. UNCHANGED <<stage, text, grid, setup, running>>
    BY <1>1
  <2>3. OtherTypes'
    BY <1>1, <2>1, Zenon DEF TypeOK, ShownType, OtherTypes
  <2>. QED BY <2>2, <2>3, TypeOKFromParts
<1>. QED BY <1>3, <1>5, <1>6, <1>7, <1>8

LEMMA ShowRoundInv == Inv /\ ShowRound => Inv'
<1>. SUFFICES ASSUME Inv, ShowRound PROVE Inv'
  OBVIOUS
<1>. USE DEF Inv, setup, running, ghosts
<1>1. /\ Receives("info") /\ toPage # << >> /\ toPage' = Tail(toPage) /\ threads' = Entered
      /\ UNCHANGED <<stage, output, stdoutBuffer, text, grid, threadCount, paused,
                     toWorker, setup, running, ghosts>>
  BY DEF ShowRound, Receives
<1>2. /\ toPage' \in Seq(Messages) /\ stage # "idle" /\ loaded /\ alive /\ ShownType'
      /\ \A k \in 1 .. Len(toPage') : toPage'[k] = End => k = Len(toPage') /\ call' = "none"
      /\ OutputInv'
  BY <1>1, EnteredType, ReceivedInv
<1>3. CallOf(stage)' = CallOf(stage)
  BY <1>1 DEF CallOf
<1>4. Channels'
  BY <1>1, <1>2 DEF Channels
<1>5. LoadingInv'
  BY <1>1, <1>2 DEF LoadingInv
<1>6. CallInv'
  BY <1>1, <1>2, <1>3 DEF CallInv
<1>7. TypeOK'
  <2>1. threads' \subseteq (0 .. 2) \X (1 .. MaxThreads)
    BY <1>1, EnteredType
  <2>2. UNCHANGED <<stage, text, grid, setup, running>>
    BY <1>1
  <2>3. OtherTypes'
    BY <1>1, <2>1, Zenon DEF TypeOK, ShownType, OtherTypes
  <2>. QED BY <2>2, <2>3, TypeOKFromParts
<1>. QED BY <1>2, <1>4, <1>5, <1>6, <1>7

LEMMA StepOnInv == Inv /\ StepOn => Inv'
<1>. SUFFICES ASSUME Inv, StepOn PROVE Inv'
  OBVIOUS
<1>. USE DEF Inv, setup, running, ghosts
<1>1. /\ Receives("info") /\ toPage # << >> /\ toPage' = Tail(toPage) /\ threads' = Entered
      /\ toWorker' = Append(toWorker, "step")
      /\ UNCHANGED <<stage, output, stdoutBuffer, text, grid, threadCount, paused,
                     setup, running, ghosts>>
  BY DEF StepOn, Receives
<1>2. /\ toPage' \in Seq(Messages) /\ stage # "idle" /\ loaded /\ alive /\ ShownType'
      /\ \A k \in 1 .. Len(toPage') : toPage'[k] = End => k = Len(toPage') /\ call' = "none"
      /\ OutputInv'
  BY <1>1, EnteredType, ReceivedInv
<1>3. toWorker' \in Seq(Calls \cup {"step"}) /\ toWorker' # << >> /\ OneCallAsked'
  <2>1. UNCHANGED <<setup, call>> /\ stage' = stage /\ (toPage = << >> => toPage' = << >>)
    BY <1>1
  <2>. QED BY <1>1, <2>1, StepSentInv
<1>4. CallOf(stage)' = CallOf(stage)
  BY <1>1 DEF CallOf
<1>5. Channels'
  BY <1>1, <1>2, <1>3 DEF Channels
<1>6. LoadingInv'
  BY <1>1, <1>2 DEF LoadingInv
<1>7. CallInv'
  BY <1>1, <1>2, <1>3, <1>4 DEF CallInv, OneCallAsked
<1>8. TypeOK'
  <2>1. threads' \subseteq (0 .. 2) \X (1 .. MaxThreads)
    BY <1>1, EnteredType
  <2>2. \A k \in DOMAIN toWorker' : toWorker'[k] \in Calls \cup {"step"}
    BY <1>3, LenProperties
  <2>3. UNCHANGED <<stage, text, grid, setup, running>>
    BY <1>1
  <2>4. OtherTypes'
    BY <1>1, <2>1, <2>2, Zenon DEF TypeOK, ShownType, OtherTypes
  <2>. QED BY <2>3, <2>4, TypeOKFromParts
<1>. QED BY <1>2, <1>5, <1>6, <1>7, <1>8

\* No step of the page or of the worker breaks the invariant.
LEMMA StepInv == Inv /\ [Next]_vars => Inv'
<1>. SUFFICES ASSUME Inv, [Next]_vars PROVE Inv'
  OBVIOUS
<1>1. CASE User
  BY <1>1, StopInv, ClickInv, ClearOutputInv, EditInputInv, StepButtonInv, TimerInv, PlayPauseInv DEF User
<1>2. CASE OnMessage
  BY <1>2, OnEndInv, OnOutputInv, OnCountInv, ShowRoundInv, TooManyThreadsInv, StepOnInv
  DEF OnMessage
<1>3. CASE Worker
  BY <1>3, RuntimeInitializedInv, OnmessageInv, PrintGridInv, PrintByteInv, BeginRoundInv,
     SendDebugInfoInv, ReturnInv
  DEF Worker
<1>4. CASE UNCHANGED vars
  <2>. USE <1>4 DEF Inv, vars, page, setup, running, ghosts
  <2>1. CallOf(stage)' = CallOf(stage)
    BY DEF CallOf
  <2>2. Channels' /\ LoadingInv' /\ CallInv'
    BY <2>1 DEF Channels, LoadingInv, CallInv
  <2>3. OutputInv'
    BY SameOutput
  <2>4. TypeOK'
    <3>1. UNCHANGED <<stage, text, grid, setup, running>>
      OBVIOUS
    <3>2. OtherTypes'
      BY Zenon DEF TypeOK, ShownType, OtherTypes
    <3>. QED BY <3>1, <3>2, TypeOKFromParts
  <2>. QED BY <2>2, <2>3, <2>4
<1>. QED BY <1>1, <1>2, <1>3, <1>4 DEF Next

\* The inductive invariant holds in every session of the page.
LEMMA InvHolds == Spec => []Inv
<1>1. Init => Inv
  BY InitInv
<1>2. Inv /\ [Next]_vars => Inv'
  BY StepInv
<1>. QED BY <1>1, <1>2, PTL DEF Spec

-----------------------------------------------------------------------------
(* What the page can rely on.                                              *)

\* The variables of the page and of the worker keep their types, whatever the
\* user presses and however the messages are interleaved (wasm/in.civet,
\* wasm/worker.civet).
THEOREM WebTypeCorrect == Spec => []TypeOK
<1>1. Inv => TypeOK
  BY DEF Inv
<1>. QED BY <1>1, InvHolds, PTL

\* No call of the page meets one before it: when the buttons are enabled again
\* the last call has returned and everything it sent has arrived
\* (in.civet, createWorker and wasmCancel).
THEOREM CallsDoNotOverlap == Spec => []NothingLeftOver
<1>1. Inv => NothingLeftOver
  <2>. SUFFICES ASSUME Inv, stage = "idle"
                PROVE  /\ call = "none" /\ toPage = << >> /\ paused
                       /\ \A k \in DOMAIN toWorker : toWorker[k] = "step"
    BY DEF NothingLeftOver
  <2>1. DOMAIN toWorker = 1 .. Len(toWorker)
    BY LenProperties DEF Inv, Channels
  <2>. QED BY <2>1 DEF Inv, CallInv
<1>. QED BY <1>1, InvHolds, PTL

\* Nothing is called in a runtime that is not initialised, whichever of the first
\* message and the runtime comes first (worker.civet, halfReady).
THEOREM RuntimeComesFirst == Spec => []CallsFindTheRuntime
<1>1. Inv => CallsFindTheRuntime
  BY DEF Inv, LoadingInv, CallsFindTheRuntime
<1>. QED BY <1>1, InvHolds, PTL

\* When the end of an expansion arrives, all of it has, unless it was cut.
LEMMA EndComesLast ==
  ASSUME Inv, OnEnd, stage \in Expanding
  PROVE  output = "whole" \/ cut
<1>1. /\ Head(toPage) = toPage[1] /\ toPage[1] \in Messages
      /\ Len(toPage) \in Nat /\ Len(toPage) >= 1 /\ 1 \in 1 .. Len(toPage)
  BY Taken DEF Inv, Channels, OnEnd, Receives
<1>2. toPage[1] = End
  BY <1>1, Kinds DEF OnEnd, Receives
<1>3. ASSUME ~cut PROVE output = "whole"
  <2>1. PICK r \in 0 .. 3 : Has(r) /\ UnderWay(r)
    BY <1>3 DEF Inv, OutputInv
  <2>2. toPage[1] = Stream[r + 1]
    BY <1>1, <2>1 DEF UnderWay
  <2>3. r = 3
    BY <1>2, <2>2 DEF Stream, End
  <2>. QED BY <2>1, <2>3 DEF Has
<1>. QED BY <1>3

\* At the end of an expansion the page replaces the program by, or debugs, the
\* grid that was printed, all of it and nothing else, unless the expansion was
\* stopped, what it had printed was cleared, or it found the bytes of an older
\* call in the buffer (in.civet: expandInput, debugProgram, stdout).
THEOREM OutputIsWhole == Spec => WholeUnlessCut
<1>. DEFINE Whole == /\ stage = "unfold" /\ stage' # "unfold" => text' = "unfolded" \/ cut'
                     /\ stage = "expand" /\ stage' # "expand" => grid' = "whole" \/ cut'
<1>1. Inv /\ [Next]_vars => Whole
  <2>. SUFFICES ASSUME Inv, [Next]_vars, stage \in Expanding, stage' # stage, ~cut'
                PROVE  /\ stage = "unfold" => text' = "unfolded"
                       /\ stage = "expand" => grid' = "whole"
    BY DEF Expanding
  <2>1. CASE OnEnd
    <3>1. output = "whole"
      BY <2>1, EndComesLast DEF OnEnd, ghosts
    <3>. QED BY <2>1, <3>1 DEF OnEnd, Resolve
  <2>2. CASE TooManyThreads
    <3>1. Receives("info") /\ toPage # << >>
      BY <2>2 DEF TooManyThreads, Receives
    <3>2. Head(toPage) = toPage[1] /\ 1 \in 1 .. Len(toPage)
      BY <3>1, Taken DEF Inv, Channels
    <3>3. Head(toPage) \in {End} \cup Printed
      BY <3>2 DEF Inv, OutputInv
    <3>. QED BY <3>1, <3>3, EnteredType
  <2>3. CASE Stop
    BY <2>3 DEF Stop
  <2>4. CASE Click \/ ClearOutput \/ EditInput \/ StepButton \/ Timer \/ PlayPause
    BY <2>4 DEF Click, ClearOutput, EditInput, StepButton, Timer, PlayPause, PostStep,
                page, Expanding
  <2>5. CASE OnOutput \/ OnCount \/ ShowRound \/ StepOn
    BY <2>5 DEF OnOutput, OnCount, ShowRound, StepOn
  <2>6. CASE Worker \/ UNCHANGED vars
    BY <2>6 DEF Worker, RuntimeInitialized, Onmessage, PrintGrid, PrintByte, BeginRound,
                SendDebugInfo, Return, page, vars
  <2>. QED BY <2>1, <2>2, <2>3, <2>4, <2>5, <2>6 DEF Next, User, OnMessage
<1>2. Inv /\ [Next]_vars => [Whole]_vars
  BY <1>1
<1>. QED BY <1>2, InvHolds, PTL DEF Spec, WholeUnlessCut

-----------------------------------------------------------------------------
(* The table of threads.                                                   *)

\* The entries of the first n threads of a round.
Row(r, n) == { <<r, t>> : t \in 1 .. n }

Shape == \E r \in 0 .. 2, n \in 0 .. MaxThreads :
           threads = Row(r, n) /\ (threadCount # 0 => n <= threadCount)

\* What the page knows: how many threads the round has, how many of them are in
\* the table, and which round it is.
Knowledge == [count : 0 .. MaxThreads, shown : 0 .. MaxThreads, of : 0 .. 2]

\* A message takes the page from knowing a to knowing b.
Informs(m, a, b) ==
  /\ m[1] = "count" => b.count = m[2] /\ b.shown = 0
  /\ m[1] = "info" => /\ b.count = a.count /\ b.shown = a.shown + 1
                      /\ b.shown = m[3] /\ b.of = m[2] /\ b.shown <= b.count
                      /\ a.shown > 0 => a.of = b.of
  /\ m[1] \in {"end", "output"} => b = a

\* What the page knows now is the table.
Displays(a) == /\ a.count = threadCount
               /\ threadCount # 0 => threads = Row(a.of, a.shown) /\ a.shown <= threadCount

\* What it will know after all that is under way is where the worker is.
Reaches(b) == live # 0 => /\ b.count = live /\ b.shown = ticked
                          /\ ticked > 0 => b.of = round

\* What the page will know after each of the messages under way.
Foresees(f) == /\ Displays(f[0])
               /\ \A k \in 1 .. Len(toPage) : Informs(toPage[k], f[k - 1], f[k])
               /\ Reaches(f[Len(toPage)])

TableInv == /\ Shape
            /\ live # 0 => call # "none"
            /\ \E f \in [0 .. Len(toPage) -> Knowledge] : Foresees(f)

\* With nothing under way, and no round in progress, the table is all there is
\* to know.
LEMMA NothingForeseen ==
  TypeOK /\ Shape /\ toPage = << >> /\ live = 0 => TableInv
<1>. SUFFICES ASSUME TypeOK, Shape, toPage = << >>, live = 0
              PROVE  TableInv
  OBVIOUS
<1>1. Len(toPage) = 0
  BY EmptySeq
<1>2. PICK r \in 0 .. 2, n \in 0 .. MaxThreads :
        threads = Row(r, n) /\ (threadCount # 0 => n <= threadCount)
  BY DEF Shape
<1>. DEFINE a == [count |-> threadCount, shown |-> n, of |-> r]
            f == [k \in 0 .. 0 |-> a]
<1>3. a \in Knowledge /\ Displays(a)
  BY <1>2 DEF Knowledge, Displays, TypeOK
<1>4. f \in [0 .. Len(toPage) -> Knowledge] /\ f[0] = a
  BY <1>1, <1>3
<1>. HIDE DEF a, f
<1>5. Foresees(f)
  BY <1>1, <1>3, <1>4 DEF Foresees, Reaches
<1>. QED BY <1>4, <1>5 DEF TableInv

\* The worker sends a message.
LEMMA MessageForeseen ==
  ASSUME TableInv, toPage \in Seq(Messages), NEW m \in Messages, Posts(m),
         UNCHANGED <<threads, threadCount>>, live' # 0 => call' # "none",
         \A a \in Knowledge : Reaches(a) =>
           \E b \in Knowledge : Informs(m, a, b) /\ Reaches(b)'
  PROVE  TableInv'
<1>1. /\ Len(toPage) \in Nat /\ Len(toPage') = Len(toPage) + 1
      /\ toPage'[Len(toPage) + 1] = m
      /\ \A k \in 1 .. Len(toPage) : toPage'[k] = toPage[k]
  BY Sent DEF Posts
<1>2. PICK f \in [0 .. Len(toPage) -> Knowledge] : Foresees(f)
  BY DEF TableInv
<1>3. f[Len(toPage)] \in Knowledge /\ Reaches(f[Len(toPage)])
  BY <1>1, <1>2 DEF Foresees
<1>4. PICK b \in Knowledge : Informs(m, f[Len(toPage)], b) /\ Reaches(b)'
  BY <1>3
<1>len. PICK n \in Nat : n = Len(toPage)
  BY <1>1
<1>5. PICK g \in [0 .. n + 1 -> Knowledge] : (\A k \in 0 .. n : g[k] = f[k]) /\ g[n + 1] = b
  <2>. DEFINE h == [k \in 0 .. n + 1 |-> IF k <= n THEN f[k] ELSE b]
  <2>1. h \in [0 .. n + 1 -> Knowledge] /\ (\A k \in 0 .. n : h[k] = f[k]) /\ h[n + 1] = b
    BY <1>len
  <2>. QED BY <2>1
<1>6. \A k \in 1 .. n + 1 : Informs(toPage'[k], g[k - 1], g[k])
  <2>. TAKE k \in 1 .. n + 1
  <2>1. CASE k <= n
    <3>1. k \in 1 .. n /\ k - 1 \in 0 .. n /\ k \in 0 .. n
      BY <1>5, <2>1
    <3>2. toPage'[k] = toPage[k] /\ g[k - 1] = f[k - 1] /\ g[k] = f[k]
      BY <1>1, <1>5, <1>len, <3>1
    <3>3. Informs(toPage[k], f[k - 1], f[k])
      BY <1>2, <1>len, <3>1 DEF Foresees
    <3>. QED BY <3>2, <3>3, Zenon
  <2>2. CASE ~(k <= n)
    <3>1. k = n + 1 /\ k - 1 = n /\ n \in 0 .. n
      BY <1>5, <2>2
    <3>2. toPage'[k] = m /\ g[k - 1] = f[n] /\ g[k] = b
      BY <1>1, <1>5, <1>len, <3>1
    <3>. QED BY <1>4, <1>len, <3>2, Zenon
  <2>. QED BY <2>1, <2>2
<1>7. Displays(g[0])'
  <2>1. g[0] = f[0]
    BY <1>5
  <2>. QED BY <1>2, <2>1 DEF Foresees, Displays
<1>8. Foresees(g)' /\ g \in [0 .. Len(toPage') -> Knowledge]
  <2>1. Len(toPage') = n + 1
    BY <1>1, <1>len
  <2>. QED BY <1>4, <1>5, <1>6, <1>7, <2>1 DEF Foresees
<1>9. Shape'
  BY DEF TableInv, Shape
<1>. QED BY <1>8, <1>9 DEF TableInv

\* The page takes a message.
LEMMA MessageReceived ==
  ASSUME TableInv, TypeOK, toPage \in Seq(Messages), toPage # << >>, toPage' = Tail(toPage),
         UNCHANGED <<live, ticked, round, call>>,
         \A a, b \in Knowledge :
           Displays(a) /\ Informs(Head(toPage), a, b) => Displays(b)',
         Shape'
  PROVE  TableInv'
<1>1. /\ Head(toPage) = toPage[1] /\ Len(toPage) \in Nat /\ Len(toPage) >= 1
      /\ Len(toPage') = Len(toPage) - 1
      /\ \A k \in 1 .. Len(toPage) - 1 : toPage'[k] = toPage[k + 1]
  BY Taken
<1>2. PICK f \in [0 .. Len(toPage) -> Knowledge] : Foresees(f)
  BY DEF TableInv
<1>3. PICK n \in Nat : n = Len(toPage) - 1 /\ Len(toPage) = n + 1 /\ Len(toPage') = n
  <2>1. Len(toPage) - 1 \in Nat /\ Len(toPage) = (Len(toPage) - 1) + 1
    BY <1>1
  <2>2. Len(toPage') = Len(toPage) - 1
    BY <1>1
  <2>. QED BY <2>1, <2>2, Zenon
<1>4. PICK g \in [0 .. n -> Knowledge] : \A k \in 0 .. n : g[k] = f[k + 1]
  <2>. DEFINE h == [k \in 0 .. n |-> f[k + 1]]
  <2>1. h \in [0 .. n -> Knowledge] /\ \A k \in 0 .. n : h[k] = f[k + 1]
    BY <1>3
  <2>. QED BY <2>1
<1>5. ASSUME NEW k \in 1 .. n PROVE Informs(toPage'[k], g[k - 1], g[k])
  <2>1. k + 1 \in 1 .. Len(toPage) /\ k - 1 \in 0 .. n /\ k \in 0 .. n /\ (k + 1) - 1 = k
        /\ (k - 1) + 1 = k
    BY <1>3
  <2>2. Informs(toPage[k + 1], f[k], f[k + 1])
    BY <1>2, <2>1 DEF Foresees
  <2>3. toPage'[k] = toPage[k + 1]
    BY <1>1, <1>3
  <2>4. g[k - 1] = f[k] /\ g[k] = f[k + 1]
    BY <1>4, <2>1
  <2>. QED BY <2>2, <2>3, <2>4, Zenon
<1>6. Displays(g[0])'
  <2>1. f[0] \in Knowledge /\ f[1] \in Knowledge /\ g[0] = f[1]
    BY <1>3, <1>4
  <2>2. Displays(f[0]) /\ Informs(Head(toPage), f[0], f[1])
    BY <1>1, <1>2 DEF Foresees
  <2>3. Displays(f[1])'
    BY <2>1, <2>2
  <2>. QED BY <2>1, <2>3, Zenon DEF Displays
<1>7. Reaches(g[n])'
  BY <1>2, <1>3, <1>4 DEF Foresees, Reaches
<1>8. Foresees(g)' /\ g \in [0 .. Len(toPage') -> Knowledge]
  BY <1>3, <1>4, <1>5, <1>6, <1>7 DEF Foresees
<1>. QED BY <1>8 DEF TableInv

\* What neither touches the table nor sends or receives, and starts no round.
LEMMA SameTable ==
  ASSUME TableInv, UNCHANGED <<toPage, threads, threadCount>>,
         \/ live' = 0
         \/ UNCHANGED <<live, ticked, round, call>>
  PROVE  TableInv'
<1>1. PICK f \in [0 .. Len(toPage) -> Knowledge] : Foresees(f)
  BY DEF TableInv
<1>2. Displays(f[0])' /\ Reaches(f[Len(toPage)])'
  BY <1>1 DEF Foresees, Displays, Reaches
<1>3. Len(toPage') = Len(toPage) /\ \A k \in 1 .. Len(toPage) : toPage'[k] = toPage[k]
  OBVIOUS
<1>4. Foresees(f)' /\ f \in [0 .. Len(toPage') -> Knowledge]
  BY <1>1, <1>2, <1>3 DEF Foresees
<1>5. Shape'
  BY DEF TableInv, Shape
<1>. QED BY <1>4, <1>5 DEF TableInv

\* The table of a round is the row of the threads that have come.
LEMMA EnteredRow ==
  ASSUME NEW a \in Knowledge, NEW b \in Knowledge, Receives("info"),
         Displays(a), Informs(Head(toPage), a, b), TypeOK
  PROVE  /\ Entered = Row(b.of, b.shown) /\ b.count = threadCount
         /\ b.shown <= threadCount /\ b.of \in 0 .. 2 /\ b.shown \in 0 .. MaxThreads
<1>1. /\ b.count = a.count /\ b.shown = a.shown + 1 /\ b.shown = Head(toPage)[3]
      /\ b.of = Head(toPage)[2] /\ b.shown <= b.count
      /\ a.shown > 0 => a.of = b.of
  BY DEF Informs, Receives
<1>2. /\ a.count \in Nat /\ a.shown \in Nat /\ b.shown \in 0 .. MaxThreads /\ b.of \in 0 .. 2
  BY PageAssumption DEF Knowledge
<1>3. threadCount # 0 /\ a.count = threadCount /\ threads = Row(a.of, a.shown)
  BY <1>1, <1>2 DEF Displays
<1>4. Row(b.of, a.shown) = Row(a.of, a.shown)
  BY <1>1, <1>2 DEF Row
<1>5. Row(b.of, a.shown + 1) = Row(b.of, a.shown) \cup {<<b.of, a.shown + 1>>}
  BY <1>2 DEF Row
<1>6. Entered = Row(b.of, b.shown)
  BY <1>1, <1>3, <1>4, <1>5 DEF Entered
<1>. QED BY <1>1, <1>2, <1>3, <1>6

LEMMA EnteredShape ==
  ASSUME Inv, TableInv, Receives("info")
  PROVE  \E r \in 0 .. 2, n \in 0 .. MaxThreads : Entered = Row(r, n) /\ n <= threadCount
<1>0. TypeOK /\ toPage \in Seq(Messages) /\ toPage # << >>
  BY DEF Inv, Channels, Receives
<1>1. PICK f \in [0 .. Len(toPage) -> Knowledge] : Foresees(f)
  BY DEF TableInv
<1>2. /\ 1 \in 1 .. Len(toPage) /\ 0 \in 0 .. Len(toPage) /\ 1 \in 0 .. Len(toPage)
      /\ Head(toPage) = toPage[1] /\ 1 - 1 = 0
  BY <1>0, Taken
<1>3. Displays(f[0]) /\ Informs(Head(toPage), f[0], f[1])
  BY <1>1, <1>2 DEF Foresees
<1>4. f[0] \in Knowledge /\ f[1] \in Knowledge
  BY <1>2
<1>5. /\ Entered = Row(f[1].of, f[1].shown) /\ f[1].shown <= threadCount
      /\ f[1].of \in 0 .. 2 /\ f[1].shown \in 0 .. MaxThreads
  BY <1>0, <1>3, <1>4, EnteredRow
<1>. QED BY <1>5

LEMMA ShownInv ==
  ASSUME Inv, TableInv, Receives("info"), toPage' = Tail(toPage), threads' = Entered,
         UNCHANGED <<threadCount, live, ticked, round, call>>
  PROVE  TableInv'
<1>1. TypeOK /\ toPage \in Seq(Messages) /\ toPage # << >>
  BY DEF Inv, Channels, Receives
<1>2. ASSUME NEW a \in Knowledge, NEW b \in Knowledge, Displays(a), Informs(Head(toPage), a, b)
      PROVE  Displays(b)'
  <2>1. /\ Entered = Row(b.of, b.shown) /\ b.count = threadCount /\ b.shown <= threadCount
    BY <1>1, <1>2, EnteredRow
  <2>2. threads' = Row(b.of, b.shown) /\ threadCount' = threadCount
    BY <2>1
  <2>. QED BY <2>1, <2>2 DEF Displays
<1>3. Shape'
  <2>1. PICK r \in 0 .. 2, n \in 0 .. MaxThreads : Entered = Row(r, n) /\ n <= threadCount
    BY EnteredShape
  <2>. QED BY <2>1 DEF Shape
<1>. QED BY <1>1, <1>2, <1>3, MessageReceived

\* A call that is resolved leaves the table as it is.
LEMMA ResolvedTable ==
  ASSUME TableInv, Inv', NEW queue, Resolve(queue), threads' = threads,
         toPage' = << >>, live' = 0
  PROVE  TableInv'
<1>1. threads' = threads /\ threadCount' \in {threadCount, 0}
  BY DEF Resolve, Ask
<1>2. Shape'
  BY <1>1 DEF TableInv, Shape
<1>3. TypeOK'
  BY DEF Inv
<1>4. (TypeOK /\ Shape /\ toPage = << >> /\ live = 0 => TableInv)'
  BY NothingForeseen, PTL
<1>. QED BY <1>2, <1>3, <1>4

\* The steps, one by one.

LEMMA TableInit == Init => TableInv
<1>. SUFFICES ASSUME Init PROVE TableInv
  OBVIOUS
<1>1. TypeOK
  BY InitInv DEF Inv
<1>2. threads = Row(0, 0) /\ threadCount = 0 /\ toPage = << >> /\ live = 0
  BY DEF Init, Row
<1>3. 0 \in 0 .. 2 /\ 0 \in 0 .. MaxThreads
  BY PageAssumption
<1>4. Shape
  BY <1>2, <1>3 DEF Shape
<1>. QED BY <1>1, <1>2, <1>4, NothingForeseen

LEMMA TableUser ==
  ASSUME Inv, Inv', TableInv, User PROVE TableInv'
<1>1. CASE Stop
  BY <1>1, ResolvedTable DEF Stop, WasmCancel, Forget
<1>2. CASE Click
  <2>1. toPage' = << >> /\ live' = 0
    BY <1>2 DEF Click, running, Inv, CallInv, TableInv
  <2>2. threads' = threads /\ threadCount' = 0
    BY <1>2 DEF Click, Ask
  <2>3. Shape'
    BY <2>2 DEF TableInv, Shape
  <2>4. (TypeOK /\ Shape /\ toPage = << >> /\ live = 0 => TableInv)'
    BY NothingForeseen, PTL
  <2>. QED BY <2>1, <2>3, <2>4 DEF Inv
<1>3. CASE EditInput
  <2>1. UNCHANGED <<toPage, threads, threadCount>> /\ live' = 0
    BY <1>3 DEF EditInput, Forget, page
  <2>. QED BY <2>1, SameTable
<1>4. CASE StepButton \/ Timer
  <2>1. UNCHANGED <<toPage, threads, threadCount>> /\ UNCHANGED <<live, ticked, round, call>>
    BY <1>4 DEF StepButton, Timer, PostStep, page, running
  <2>. QED BY <2>1, SameTable
<1>5. CASE PlayPause \/ ClearOutput
  <2>1. UNCHANGED <<toPage, threads, threadCount>> /\ UNCHANGED <<live, ticked, round, call>>
    BY <1>5 DEF PlayPause, ClearOutput, running
  <2>. QED BY <2>1, SameTable
<1>. QED BY <1>1, <1>2, <1>3, <1>4, <1>5 DEF User

LEMMA TableOnMessage ==
  ASSUME Inv, Inv', TableInv, OnMessage PROVE TableInv'
<1>0. TypeOK /\ toPage \in Seq(Messages)
  BY DEF Inv, Channels
<1>1. CASE OnEnd
  <2>1. /\ Head(toPage) = toPage[1] /\ toPage[1] \in Messages /\ toPage # << >>
        /\ Len(toPage) \in Nat /\ Len(toPage) >= 1
        /\ Len(toPage) = 1 => Tail(toPage) = << >>
    BY <1>0, <1>1, Taken DEF OnEnd, Receives
  <2>2. toPage[1] = End
    BY <1>1, <2>1, Kinds DEF OnEnd, Receives
  <2>3. Len(toPage) = 1 /\ call = "none"
    <3>1. 1 \in 1 .. Len(toPage)
      BY <2>1
    <3>2. \A k \in 1 .. Len(toPage) : toPage[k] = End => k = Len(toPage) /\ call = "none"
      BY DEF Inv, CallInv
    <3>. QED BY <2>2, <3>1, <3>2, Zenon
  <2>4. toPage' = << >> /\ live' = 0
    BY <1>1, <2>1, <2>3 DEF OnEnd, running, TableInv
  <2>. QED BY <1>1, <2>4, ResolvedTable DEF OnEnd
<1>2. CASE OnOutput
  <2>1. /\ toPage # << >> /\ toPage' = Tail(toPage) /\ Head(toPage)[1] = "output"
        /\ UNCHANGED <<threads, threadCount>> /\ UNCHANGED <<live, ticked, round, call>>
    BY <1>2 DEF OnOutput, Receives, running
  <2>2. ASSUME NEW a \in Knowledge, NEW b \in Knowledge,
               Displays(a), Informs(Head(toPage), a, b)
        PROVE  Displays(b)'
    BY <2>1, <2>2 DEF Displays, Informs
  <2>3. Shape'
    BY <2>1 DEF TableInv, Shape
  <2>. QED BY <1>0, <2>1, <2>2, <2>3, MessageReceived
<1>3. CASE OnCount
  <2>1. /\ toPage # << >> /\ toPage' = Tail(toPage) /\ Head(toPage)[1] = "count"
        /\ threadCount' = Head(toPage)[2] /\ threads' = {}
        /\ UNCHANGED <<live, ticked, round, call>>
    BY <1>3 DEF OnCount, Receives, running
  <2>2. \A r : Row(r, 0) = {}
    BY DEF Row
  <2>3. threadCount' \in 0 .. MaxThreads
    BY DEF Inv, TypeOK
  <2>4. ASSUME NEW a \in Knowledge, NEW b \in Knowledge,
               Displays(a), Informs(Head(toPage), a, b)
        PROVE  Displays(b)'
    <3>1. b.count = threadCount' /\ b.shown = 0
      BY <2>1, <2>4 DEF Informs
    <3>2. threads' = Row(b.of, b.shown) /\ b.shown <= threadCount'
      BY <2>1, <2>2, <2>3, <3>1, PageAssumption
    <3>. QED BY <3>1, <3>2 DEF Displays
  <2>5. Shape'
    <3>1. 0 \in 0 .. 2 /\ 0 \in 0 .. MaxThreads /\ 0 <= threadCount'
      BY <2>3, PageAssumption
    <3>. QED BY <2>1, <2>2, <3>1 DEF Shape
  <2>. QED BY <1>0, <2>1, <2>4, <2>5, MessageReceived
<1>4. CASE ShowRound \/ StepOn
  <2>1. /\ Receives("info") /\ toPage' = Tail(toPage) /\ threads' = Entered
        /\ UNCHANGED <<threadCount, live, ticked, round, call>>
    BY <1>4 DEF ShowRound, StepOn, running
  <2>. QED BY <2>1, ShownInv
<1>5. CASE TooManyThreads
  <2>1. Resolve(<< >>) /\ toPage' = << >> /\ live' = 0 /\ threads' = Entered
        /\ Receives("info")
    BY <1>5 DEF TooManyThreads, WasmCancel, Forget
  <2>2. threadCount' \in {threadCount, 0}
    BY <2>1 DEF Resolve, Ask
  <2>3. PICK r \in 0 .. 2, n \in 0 .. MaxThreads : Entered = Row(r, n) /\ n <= threadCount
    BY <2>1, EnteredShape
  <2>4. Shape'
    BY <2>1, <2>2, <2>3 DEF Shape
  <2>5. (TypeOK /\ Shape /\ toPage = << >> /\ live = 0 => TableInv)'
    BY NothingForeseen, PTL
  <2>. QED BY <2>1, <2>4, <2>5 DEF Inv
<1>. QED BY <1>1, <1>2, <1>3, <1>4, <1>5 DEF OnMessage

LEMMA TableWorker ==
  ASSUME Inv, Inv', TableInv, Worker PROVE TableInv'
<1>0. TypeOK /\ toPage \in Seq(Messages) /\ round \in 0 .. 2
  BY DEF Inv, Channels
<1>1. CASE RuntimeInitialized \/ Onmessage
  <2>1. UNCHANGED <<toPage, threads, threadCount>>
    BY <1>1 DEF RuntimeInitialized, Onmessage, page
  <2>2. live' = 0 \/ UNCHANGED <<live, ticked, round, call>>
    BY <1>1 DEF RuntimeInitialized, Onmessage, HalfReady, Signal, running
  <2>. QED BY <2>1, <2>2, SameTable
<1>2. CASE PrintGrid \/ PrintByte
  <2>1. PICK m \in Printed : Posts(m)
    <3>1. CASE PrintGrid
      <4>1. GridBytes[sent + 1] \in Bytes
        BY <1>0, <3>1 DEF PrintGrid, TypeOK, GridBytes, Bytes
      <4>. QED BY <3>1, <4>1 DEF PrintGrid, Printed
    <3>2. CASE PrintByte
      <4>1. PICK byte \in Bytes : Posts(<<"output", byte>>)
        BY <3>2 DEF PrintByte, Bytes
      <4>. QED BY <4>1 DEF Printed
    <3>. QED BY <1>2, <3>1, <3>2
  <2>2. /\ m \in Messages /\ call' # "none"
        /\ UNCHANGED <<threads, threadCount, live, ticked, round>>
    BY <1>2 DEF PrintGrid, PrintByte, page, running, Messages
  <2>3. ASSUME NEW a \in Knowledge, Reaches(a)
        PROVE  \E b \in Knowledge : Informs(m, a, b) /\ Reaches(b)'
    <3>1. Informs(m, a, a) /\ Reaches(a)'
      BY <2>1, <2>2, <2>3 DEF Informs, Reaches, Printed
    <3>. QED BY <3>1
  <2>. QED BY <1>0, <2>1, <2>2, <2>3, MessageForeseen
<1>3. CASE Return
  <2>1. /\ Posts(End) /\ End \in Messages /\ live' = 0
        /\ UNCHANGED <<threads, threadCount>>
    BY <1>3 DEF Return, page, Messages, End
  <2>2. ASSUME NEW a \in Knowledge, Reaches(a)
        PROVE  \E b \in Knowledge : Informs(End, a, b) /\ Reaches(b)'
    <3>1. Informs(End, a, a) /\ Reaches(a)'
      BY <2>1, <2>2 DEF Informs, Reaches, End
    <3>. QED BY <3>1
  <2>. QED BY <1>0, <2>1, <2>2, MessageForeseen
<1>4. CASE BeginRound
  <2>. DEFINE m == <<"count", live'>>
  <2>1. /\ Posts(m) /\ live' \in 1 .. MaxThreads /\ ticked' = 0 /\ call' # "none"
        /\ UNCHANGED <<threads, threadCount>>
    BY <1>4 DEF BeginRound, page
  <2>2. m \in Messages /\ m[1] = "count" /\ m[2] = live'
    BY <2>1 DEF Messages
  <2>. HIDE DEF m
  <2>3. ASSUME NEW a \in Knowledge, Reaches(a)
        PROVE  \E b \in Knowledge : Informs(m, a, b) /\ Reaches(b)'
    <3>. DEFINE b == [count |-> live', shown |-> 0, of |-> 0]
    <3>1. b \in Knowledge /\ Informs(m, a, b)
      BY <2>1, <2>2, PageAssumption DEF Knowledge, Informs
    <3>2. Reaches([count |-> live, shown |-> 0, of |-> 0])'
      BY <2>1 DEF Reaches
    <3>. QED BY <3>1, <3>2
  <2>. QED BY <1>0, <2>1, <2>2, <2>3, MessageForeseen
<1>5. CASE SendDebugInfo
  <2>. DEFINE m == <<"info", round, ticked + 1>>
  <2>1. /\ Posts(m) /\ ticked < live /\ ticked' = ticked + 1 /\ call' # "none"
        /\ UNCHANGED <<threads, threadCount, live, round>>
    BY <1>5 DEF SendDebugInfo, page
  <2>2. ticked \in Nat /\ ticked + 1 \in 1 .. MaxThreads /\ live \in 1 .. MaxThreads
    BY <1>0, <2>1, PageAssumption DEF TypeOK
  <2>3. m \in Messages /\ m[1] = "info" /\ m[2] = round /\ m[3] = ticked + 1
    BY <1>0, <2>2 DEF Messages
  <2>. HIDE DEF m
  <2>4. ASSUME NEW a \in Knowledge, Reaches(a)
        PROVE  \E b \in Knowledge : Informs(m, a, b) /\ Reaches(b)'
    <3>1. a.count = live /\ a.shown = ticked /\ (ticked > 0 => a.of = round)
      BY <2>2, <2>4 DEF Reaches
    <3>2. PICK b \in Knowledge : b.count = live /\ b.shown = ticked + 1 /\ b.of = round
      <4>1. [count |-> live, shown |-> ticked + 1, of |-> round] \in Knowledge
        BY <1>0, <2>2 DEF Knowledge
      <4>. QED BY <4>1
    <3>3. Informs(m, a, b)
      BY <2>1, <2>2, <2>3, <3>1, <3>2 DEF Informs
    <3>4. Reaches(b)'
      BY <2>1, <2>2, <3>2 DEF Reaches
    <3>. QED BY <3>3, <3>4
  <2>. QED BY <1>0, <2>1, <2>3, <2>4, MessageForeseen
<1>. QED BY <1>1, <1>2, <1>3, <1>4, <1>5 DEF Worker

\* A row has as many entries as it has threads, all of one round.
LEMMA RowCounts ==
  ASSUME NEW r \in 0 .. 2, NEW n \in Nat
  PROVE  /\ Cardinality(Row(r, n)) = n
         /\ Cardinality({entry[1] : entry \in Row(r, n)}) <= 1
<1>1. IsFiniteSet(1 .. n) /\ Cardinality(1 .. n) = n
  BY FS_Interval
<1>2. Cardinality(Row(r, n)) = n
  <2>. DEFINE f == [t \in 1 .. n |-> <<r, t>>]
  <2>1. f \in Bijection(1 .. n, Row(r, n))
    BY DEF Row, Bijection, Injection, Surjection, IsInjective
  <2>. HIDE DEF f
  <2>2. ExistsBijection(1 .. n, Row(r, n))
    BY <2>1 DEF ExistsBijection
  <2>. QED BY <1>1, <2>2, FS_Bijection
<1>3. CASE n = 0
  <2>1. {entry[1] : entry \in Row(r, n)} = {}
    BY <1>3 DEF Row
  <2>. QED BY <1>2, <2>1, FS_EmptySet
<1>4. CASE n # 0
  <2>1. 1 \in 1 .. n
    BY <1>4
  <2>2. \A entry \in Row(r, n) : entry[1] = r
    BY DEF Row
  <2>3. <<r, 1>> \in Row(r, n)
    BY <2>1 DEF Row
  <2>4. {entry[1] : entry \in Row(r, n)} = {r}
    BY <2>2, <2>3
  <2>5. Cardinality({r}) = 1
    BY FS_Singleton
  <2>. QED BY <1>2, <2>4, <2>5
<1>. QED BY <1>2, <1>3, <1>4

\* The table shows threads of one round, and never more than that round has,
\* whatever steps the user sends in between (in.civet, renderThreads).
THEOREM OneRoundAtATime == Spec => []OneRoundInTheTable
<1>1. Init => TableInv
  BY TableInit
<1>2. Inv /\ Inv' /\ TableInv /\ [Next]_vars => TableInv'
  <2>. SUFFICES ASSUME Inv, Inv', TableInv, [Next]_vars PROVE TableInv'
    OBVIOUS
  <2>1. CASE UNCHANGED vars
    <3>1. /\ UNCHANGED <<toPage, threads, threadCount>>
          /\ UNCHANGED <<live, ticked, round, call>>
      BY <2>1 DEF vars, page, running
    <3>. QED BY <3>1, SameTable
  <2>. QED BY <2>1, TableUser, TableOnMessage, TableWorker DEF Next
<1>3. TypeOK /\ TableInv => OneRoundInTheTable
  <2>. SUFFICES ASSUME TypeOK, TableInv PROVE OneRoundInTheTable
    OBVIOUS
  <2>1. PICK r \in 0 .. 2, n \in 0 .. MaxThreads :
          threads = Row(r, n) /\ (threadCount # 0 => n <= threadCount)
    BY DEF TableInv, Shape
  <2>2. n \in Nat
    BY PageAssumption
  <2>3. /\ Cardinality(threads) = n
        /\ Cardinality({entry[1] : entry \in threads}) <= 1
    BY <2>1, <2>2, RowCounts
  <2>. QED BY <2>1, <2>3 DEF OneRoundInTheTable
<1>4. Spec => []Inv
  BY InvHolds
<1>5. Inv => TypeOK
  BY DEF Inv
<1>. QED BY <1>1, <1>2, <1>3, <1>4, <1>5, PTL DEF Spec
=============================================================================
