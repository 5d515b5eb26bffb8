------------------------------ MODULE Unicode ------------------------------
(***************************************************************************)
(* UTF-8 as the program reads it (string_processing.hh) and writes it      *)
(* (output.cpp).  Bytes are 0 .. 255; get_byte yields an int for each of   *)
(* them, and EOF from then on.                                             *)
(***************************************************************************)
EXTENDS Integers, SequencesExt

\* UTF-8 as it is defined, up to the last character that has room in four bytes,
\* and a text in it.
MAX_CHAR == 2097151
Chars == { char \in Nat : char <= MAX_CHAR }

Utf8(char) ==
  LET low(n) == 128 + ((char \div n) % 64)
  IN IF char < 128 THEN <<char>>
     ELSE IF char < 2048 THEN <<192 + char \div 64, low(1)>>
     ELSE IF char < 65536 THEN <<224 + char \div 4096, low(64), low(1)>>
     ELSE <<240 + char \div 262144, low(4096), low(64), low(1)>>

Encoded(chars) == FlattenSeq([k \in DOMAIN chars |-> Utf8(chars[k])])

-----------------------------------------------------------------------------
(* What the program reads and writes.                                      *)

EOF == -1
INVALID_CHAR == 65533

\* The two sources of bytes, and what get_byte yields for one: that of parse_utf8
\* converts a char, which is signed here; getchar yields the byte itself.
OfChar    == "char"
OfGetchar == "getchar"
GetByte(byte, source) == IF source = OfChar /\ byte >= 128 THEN byte - 256 ELSE byte

-----------------------------------------------------------------------------
(* parse_unichar                                                           *)

\* How many bytes a character has that begins with this one; 0 if none does.
Width(byte) == CASE byte < 128          -> 1
                 [] byte \in 192 .. 223 -> 2
                 [] byte \in 224 .. 239 -> 3
                 [] byte \in 240 .. 247 -> 4
                 [] OTHER               -> 0

Continues(byte) == byte \in 128 .. 191

\* The bits of the bytes that belong to the character.
Value(bytes) ==
  LET more(k) == bytes[k] % 64
  IN CASE Width(bytes[1]) = 1 -> bytes[1]
       [] Width(bytes[1]) = 2 -> 64 * (bytes[1] % 32) + more(2)
       [] Width(bytes[1]) = 3 -> 4096 * (bytes[1] % 16) + 64 * more(2) + more(3)
       [] OTHER -> 262144 * (bytes[1] % 8) + 4096 * more(2) + 64 * more(3) + more(4)

\* Mutant: an ill-formed character uses up the bytes that it should have had.
UsedInFull(bytes, width, bad) == Min({width, Len(bytes)})

\* An ill-formed character ends with the byte that is wrong.
Used(bytes, width, bad) == Min({Min(bad), Len(bytes)})

\* The first character of a sequence of bytes, and how many of them it uses.
Unichar(bytes, source) ==
  LET width == Width(bytes[1])
      bad   == { k \in 2 .. width : \/ k > Len(bytes)
                                    \/ GetByte(bytes[k], source) = EOF
                                    \/ ~Continues(bytes[k]) }
  IN IF GetByte(bytes[1], source) = EOF THEN [char |-> EOF, used |-> 1]
     ELSE IF width = 0 THEN [char |-> INVALID_CHAR, used |-> 1]
     ELSE IF bad # {} THEN [char |-> INVALID_CHAR, used |-> Used(bytes, width, bad)]
     ELSE [char |-> Value(SubSeq(bytes, 1, width)), used |-> width]

\* All characters: the loop of parse_utf8, and of a program that reads its input.
Unichars(bytes, source) ==
  LET from[k \in 1 .. Len(bytes) + 1] ==
        IF k > Len(bytes) THEN << >>
        ELSE LET first == Unichar(SubSeq(bytes, k, Len(bytes)), source)
             IN <<first.char>> \o from[k + first.used]
  IN from[1]

\* How much of a source text is its shebang: a first line that begins with "#!".
Shebang(bytes) ==
  IF Len(bytes) > 2 /\ IsPrefix(<<35, 33>>, bytes)
  THEN Min({ k \in DOMAIN bytes : bytes[k] = 10 } \cup {Len(bytes)})
  ELSE 0

ParseUtf8(bytes, skip_shebang) ==
  Unichars(SubSeq(bytes, (IF skip_shebang THEN Shebang(bytes) ELSE 0) + 1, Len(bytes)),
           OfChar)

-----------------------------------------------------------------------------
(* print_unichar                                                           *)

Tail6(n, place) == 128 + ((n \div place) % 64)

\* Mutant: the two-byte characters end one too late.
PrintedWide(n) ==
  IF n <= 127 THEN <<n % 256>>
  ELSE IF n <= 2048 THEN <<(192 + n \div 64) % 256, Tail6(n, 1)>>
  ELSE IF n <= 65535 THEN <<224 + n \div 4096, Tail6(n, 64), Tail6(n, 1)>>
  ELSE IF n <= MAX_CHAR
  THEN <<240 + n \div 262144, Tail6(n, 4096), Tail6(n, 64), Tail6(n, 1)>>
  ELSE << >>

\* A negative number is printed as its lowest byte, one that is too large not at
\* all.
Printed(n) ==
  IF n <= 127 THEN <<n % 256>>
  ELSE IF n <= 2047 THEN <<192 + n \div 64, Tail6(n, 1)>>
  ELSE IF n <= 65535 THEN <<224 + n \div 4096, Tail6(n, 64), Tail6(n, 1)>>
  ELSE IF n <= MAX_CHAR
  THEN <<240 + n \div 262144, Tail6(n, 4096), Tail6(n, 64), Tail6(n, 1)>>
  ELSE << >>
=============================================================================
