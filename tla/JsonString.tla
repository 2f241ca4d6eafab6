------------------------------ MODULE JsonString ------------------------------
(***************************************************************************)
(* Strings of cJSON.c, byte by byte: how parse_string reads one, and how   *)
(* print_string_ptr writes it.  A text is what follows the opening quote:  *)
(* the string as it is written, the closing quote, and all that follows.   *)
(***************************************************************************)
EXTENDS Integers, Sequences, FiniteSets, SequencesExt

Quote == 34
Backslash == 92
SmallU == 117

\* The escapes of one letter: pairs of the letter and the byte it stands for
Escapes == {<<98, 8>>, <<102, 12>>, <<110, 10>>, <<114, 13>>, <<116, 9>>,
            <<Quote, Quote>>, <<Backslash, Backslash>>}

-----------------------------------------------------------------------------
(* Reading *)

Invalid == 16

Digit(c) == CASE c \in 48 .. 57  -> c - 48
              [] c \in 65 .. 70  -> c - 55
              [] c \in 97 .. 102 -> c - 87
              [] OTHER           -> Invalid

\* parse_hex4: 0 as well for what is not a number
Hex4(s, i) ==
  LET d == [j \in 1 .. 4 |-> Digit(s[i + j - 1])]
  IN  IF Invalid \in Range(d) THEN 0
      ELSE 16 * (16 * (16 * d[1] + d[2]) + d[3]) + d[4]

TenBits == 1024

\* The bytes of a code point; six bits go to each but the first
Following(c, shift) == 128 + ((c \div shift) % 64)
Utf8(c) ==
  IF c < 128 THEN <<c>>
  ELSE IF c < 2048 THEN <<192 + c \div 64, Following(c, 1)>>
  ELSE IF c < 64 * TenBits
  THEN <<224 + c \div 4096, Following(c, 64), Following(c, 1)>>
  ELSE <<240 + c \div (256 * TenBits), Following(c, 4096), Following(c, 64),
         Following(c, 1)>>

\* What is written at one place: how many bytes of the text it takes, none
\* when it is wrong, and the bytes it stands for
Escape(length, bytes) == [length |-> length, bytes |-> bytes]
Wrong == Escape(0, <<>>)

\* The halves of a surrogate pair, from 0xD800 and from 0xDC00 on
HighHalf == 54 * TenBits .. 55 * TenBits - 1
LowHalf == 55 * TenBits .. 56 * TenBits - 1

\* utf16_literal_to_utf8 of the literal at i; end is the closing quote
Literal(s, i, end) ==
  LET first == Hex4(s, i + 2)
      second == Hex4(s, i + 8)
  IN  IF end - i < 6 \/ first \in LowHalf THEN Wrong
      ELSE IF first \notin HighHalf THEN Escape(6, Utf8(first))
      ELSE IF end - i < 12 \/ s[i + 6] # Backslash \/ s[i + 7] # SmallU
              \/ second \notin LowHalf
      THEN Wrong
      ELSE Escape(12, Utf8(64 * TenBits + TenBits * (first % TenBits) + (second % TenBits)))

\* The byte or the escape at i; a slash may be escaped as well
WrittenAt(s, i, end) ==
  IF s[i] # Backslash THEN Escape(1, <<s[i]>>)
  ELSE IF s[i + 1] = SmallU THEN Literal(s, i, end)
  ELSE IF s[i + 1] = 47 THEN Escape(2, <<47>>)
  ELSE LET stands == {e[2] : e \in {f \in Escapes : f[1] = s[i + 1]}}
       IN  IF stands = {} THEN Wrong ELSE Escape(2, <<CHOOSE b \in stands : TRUE>>)

\* The first loop of parse_string takes no notice of a byte behind a backslash
Skipped(s) ==
  LET behind[i \in 1 .. Len(s)] ==
        IF i = 1 THEN FALSE ELSE s[i - 1] = Backslash /\ ~behind[i - 1]
  IN  {i \in 1 .. Len(s) : behind[i]}

Closings(s) == {i \in 1 .. Len(s) : s[i] = Quote} \ Skipped(s)

\* Where the string ends
Closing(s) == CHOOSE i \in Closings(s) : \A j \in Closings(s) : i <= j

\* ... and the size of the memory parse_string takes for it, a zero included
Allocated(s) == Closing(s) - Cardinality(Skipped(s) \cap 1 .. Closing(s)) + 1

\* One round of the second loop: at is input_pointer, bytes is the output
Round(s, r) ==
  LET Goes(e) == IF e = Wrong THEN [r EXCEPT !.ok = FALSE]
                 ELSE [r EXCEPT !.at = @ + e.length, !.bytes = @ \o e.bytes]
  IN  IF ~r.ok \/ r.at >= Closing(s) THEN r ELSE Goes(WrittenAt(s, r.at, Closing(s)))

\* parse_string: a round takes a byte at least, unless it is the last
ReadString(s) ==
  LET read[k \in 0 .. Len(s)] ==
        IF k = 0 THEN [at |-> 1, bytes |-> <<>>, ok |-> Closings(s) # {}]
        ELSE Round(s, read[k - 1])
  IN  read[Len(s)]

\* The string as its readers see it, up to the first zero
CString(bytes) ==
  LET zeros == {j \in 1 .. Len(bytes) : bytes[j] = 0}
  IN  IF zeros = {} THEN bytes
      ELSE SubSeq(bytes, 1, (CHOOSE j \in zeros : \A l \in zeros : j <= l) - 1)

-----------------------------------------------------------------------------
(* Writing *)

HexDigit(n) == IF n < 10 THEN 48 + n ELSE 87 + n

\* One byte as print_string_ptr writes it
Escaped(b) ==
  LET letters == {e[1] : e \in {f \in Escapes : f[2] = b}}
  IN  IF letters # {} THEN <<Backslash, CHOOSE c \in letters : TRUE>>
      ELSE IF b < 32
      THEN <<Backslash, SmallU, 48, 48, HexDigit(b \div 16), HexDigit(b % 16)>>
      ELSE <<b>>

\* output_length of print_string_ptr, counted before anything is written: a
\* character more for an escape of one letter, five for any other
OutputLength(bytes) ==
  LET letters == {j \in 1 .. Len(bytes) : \E f \in Escapes : f[2] = bytes[j]}
      codes == {j \in 1 .. Len(bytes) : bytes[j] < 32} \ letters
  IN  Len(bytes) + Cardinality(letters) + 5 * Cardinality(codes)

\* print_string_ptr behind the opening quote
PrintString(bytes) ==
  FlattenSeq([j \in 1 .. Len(bytes) |-> Escaped(bytes[j])]) \o <<Quote>>

=============================================================================
