----------------------------- MODULE MCStartup -----------------------------
(***************************************************************************)
(* Command lines and texts for Startup.                                    *)
(***************************************************************************)
EXTENDS Startup

Clean(args, opens, chars) == Invocation(args, opens, chars, 0, Encoded(chars))

-----------------------------------------------------------------------------
(* Command lines: every set of flags, and short mixtures of arguments.     *)

InOrder == <<"A", "D", "a", "c", "d", "e", "f", "n", "s", "w", "z">>

EverySetOfFlags == { Clean(<<Short(SelectSeq(InOrder, LAMBDA l : l \in s))>>, TRUE, <<65>>) :
                       s \in SUBSET Letters }

SomeArguments == { Long("null"), Long("help"), Long("nul"), Short(<<"z", "?">>), Dashes,
                   Dash, Word("a"), Short(<<"e">>), Short(<<"n">>) }

Mixtures == { Clean(args, opens, <<65>>) :
                args \in UNION { [1 .. n -> SomeArguments] : n \in 0 .. 3 },
                opens \in BOOLEAN }

-----------------------------------------------------------------------------
(* Texts.                                                                  *)

\* From stdin or from a file, whole or up to a NUL, and to each mode.
SomeCommands == { << >>, <<Short(<<"z">>)>>, <<Word("a")>>,
                  <<Short(<<"z">>), Word("a")>>, <<Short(<<"e">>)>>,
                  <<Short(<<"A">>)>>, <<Short(<<"z", "a">>)>> }

TextsOf(chars, lengths) == UNION { [1 .. n -> chars] : n \in lengths }

\* The first and last characters of each width, a NUL and white space.
Boundaries == {0, 10, 32, 65, 127, 128, 2047, 2048, 65535, 65536, 2097151}

Shebangs == { <<35, 33>> \o chars : chars \in TextsOf({10, 35, 65, 128}, 0 .. 3) }

CleanTexts == { Clean(args, TRUE, chars) :
                  args \in SomeCommands,
                  chars \in TextsOf(Boundaries, 0 .. 2) \cup TextsOf({0, 10, 128, 2048}, 3 .. 4)
                             \cup Shebangs }

\* Byte j of character k lost, replaced by another or preceded by another.
Damages == ({"lost"} \X {0}) \cup ({"replaced", "preceded"} \X {65, 128, 193, 225, 241, 249, 255})

Spoil(chars, k, j, damage) ==
  LET bytes == Encoded(chars)
      at    == Len(Encoded(SubSeq(chars, 1, k - 1))) + Min({j, Len(Utf8(chars[k]))})
  IN IF damage[1] = "lost" THEN RemoveAt(bytes, at)
     ELSE IF damage[1] = "replaced" THEN [bytes EXCEPT ![at] = damage[2]]
     ELSE InsertAt(bytes, at, damage[2])

DamagedTexts ==
  { Invocation(<<Short(<<"e">>)>>, TRUE, chars, k, Spoil(chars, k, j, damage)) :
      chars \in [1 .. 3 -> {65, 128, 2048, 65536}], k \in 1 .. 3, j \in 1 .. 4,
      damage \in Damages }

AllInvocations == EverySetOfFlags \cup Mixtures \cup CleanTexts \cup DamagedTexts
=============================================================================
