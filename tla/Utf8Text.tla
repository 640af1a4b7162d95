--------------------------------- MODULE Utf8Text ---------------------------------
(***************************************************************************)
(* UTF-8 (Utf8.hpp) and the Latin-1 of X11's STRING target                 *)
(* (X11Clipboard.cpp 90-120): text from input methods and other programs   *)
(* is decoded one sequence at a time, and what is malformed is left out    *)
(* without taking a character beside it along.                             *)
(***************************************************************************)
EXTENDS Integers, Sequences, SequencesExt

CONSTANT Inputs  \* the byte sequences that arrive

InputsAssumption == Inputs \subseteq Seq(0..255)

VARIABLES
  text,   \* the bytes
  index,  \* decode(): where it is, from 1
  emitted \* the codepoints it has emitted

vars == <<text, index, emitted>>

(***************************************************************************)
(* Plausible mistakes in the code below.                                   *)
(***************************************************************************)

\* Any byte beyond ASCII continues a sequence.
HighBitSet(byte) == byte >= 128

\* The second half of the surrogates is let through.
HighSurrogate(value) == value \in 55296..56319

(***************************************************************************)
(* The code.                                                               *)
(***************************************************************************)
Min2(a, b) == IF a < b THEN a ELSE b

\* The forms of a lead byte: continuation bytes, bits of the value, smallest value.
Form(lead) ==
  CASE lead \div 32 = 6  -> [extra |-> 1, bits |-> lead % 32, least |-> 128]
    [] lead \div 16 = 14 -> [extra |-> 2, bits |-> lead % 16, least |-> 2048]
    [] lead \div 8 = 30  -> [extra |-> 3, bits |-> lead % 8, least |-> 65536]
    [] OTHER             -> [extra |-> 0, bits |-> 0, least |-> 0]

IsContinuation(byte) == byte \div 64 = 2
Surrogate(value) == value \in 55296..57343

\* The bits of the lead and six from each of at most three continuation bytes.
Join(bits, byte) == bits * 64 + (byte % 64)
Accumulate(bits, tail) ==
  CASE Len(tail) = 1 -> Join(bits, tail[1])
    [] Len(tail) = 2 -> Join(Join(bits, tail[1]), tail[2])
    [] Len(tail) = 3 -> Join(Join(Join(bits, tail[1]), tail[2]), tail[3])
    [] OTHER         -> bits

Decoded(value, next) == [ok |-> TRUE, value |-> value, next |-> next]
Rejected(next) == [ok |-> FALSE, value |-> 0, next |-> next]

\* A sequence that another byte interrupts is left at its second byte; one cut off by the end takes
\* the rest of the text with it.
DecodeOne(bytes, i) ==
  LET lead == bytes[i]
      form == Form(lead)
      last == Min2(i + form.extra, Len(bytes))
      value == Accumulate(form.bits, SubSeq(bytes, i + 1, last)) IN
  IF lead < 128 THEN Decoded(lead, i + 1)
  ELSE IF form.extra = 0 THEN Rejected(i + 1)
  ELSE IF \E n \in (i + 1)..last : ~IsContinuation(bytes[n]) THEN Rejected(i + 1)
  ELSE IF last < i + form.extra THEN Rejected(Len(bytes) + 1)
  ELSE IF value < form.least \/ Surrogate(value) \/ value > 1114111 THEN Rejected(last + 1)
  ELSE Decoded(value, last + 1)

EncodedLength(value) ==
  IF value < 128 THEN 1 ELSE IF value < 2048 THEN 2 ELSE IF Surrogate(value) THEN 0
  ELSE IF value < 65536 THEN 3 ELSE IF value <= 1114111 THEN 4 ELSE 0

Continuation(value, shift) == 128 + ((value \div shift) % 64)
Encode(value) ==
  CASE EncodedLength(value) = 0 -> <<>>
    [] EncodedLength(value) = 1 -> <<value>>
    [] EncodedLength(value) = 2 -> <<192 + value \div 64, Continuation(value, 1)>>
    [] EncodedLength(value) = 3 -> <<224 + value \div 4096, Continuation(value, 64), Continuation(value, 1)>>
    [] EncodedLength(value) = 4 ->
         <<240 + value \div 262144, Continuation(value, 4096), Continuation(value, 64), Continuation(value, 1)>>

Latin1ToUtf8(bytes) ==
  FoldLeft(LAMBDA utf8, byte : utf8 \o (IF byte < 128 THEN <<byte>> ELSE <<192 + byte \div 64, 128 + (byte % 64)>>),
           <<>>, bytes)

QuestionMark == 63
ToLatin1(decoded) == IF decoded.ok /\ decoded.value < 256 THEN decoded.value ELSE QuestionMark
Utf8ToLatin1(bytes) ==
  LET from[i \in 1..(Len(bytes) + 1)] ==
        IF i > Len(bytes) THEN <<>>
        ELSE LET decoded == DecodeOne(bytes, i) IN <<ToLatin1(decoded)>> \o from[decoded.next]
  IN from[1]

\* decode() emits what is valid and goes on after what is not.
Init == text \in Inputs /\ index = 1 /\ emitted = <<>>

Decode ==
  /\ index <= Len(text)
  /\ LET decoded == DecodeOne(text, index) IN
       /\ index' = decoded.next
       /\ emitted' = IF decoded.ok THEN Append(emitted, decoded.value) ELSE emitted
  /\ UNCHANGED text

Next == Decode

Spec == Init /\ [][Next]_vars

(***************************************************************************)
(* The reference: the table of well-formed sequences of the Unicode        *)
(* standard, and the text as a scan of the bytes for them.                 *)
(***************************************************************************)
Tails == 128..191
WellFormed(s) ==
  \/ Len(s) = 1 /\ s[1] < 128
  \/ Len(s) = 2 /\ s[1] \in 194..223 /\ s[2] \in Tails
  \/ /\ Len(s) = 3 /\ s[3] \in Tails
     /\ \/ s[1] = 224 /\ s[2] \in 160..191
        \/ s[1] = 237 /\ s[2] \in 128..159
        \/ s[1] \in (225..239) \ {237} /\ s[2] \in Tails
  \/ /\ Len(s) = 4 /\ s[3] \in Tails /\ s[4] \in Tails
     /\ \/ s[1] = 240 /\ s[2] \in 144..191
        \/ s[1] \in 241..243 /\ s[2] \in Tails
        \/ s[1] = 244 /\ s[2] \in 128..143

Value(s) ==
  CASE Len(s) = 1 -> s[1]
    [] Len(s) = 2 -> (s[1] - 192) * 64 + (s[2] - 128)
    [] Len(s) = 3 -> (s[1] - 224) * 4096 + (s[2] - 128) * 64 + (s[3] - 128)
    [] Len(s) = 4 -> (s[1] - 240) * 262144 + (s[2] - 128) * 4096 + (s[3] - 128) * 64 + (s[4] - 128)

\* The lengths at which a character begins here; at most one.
Lengths(bytes, i) == {n \in 1..4 : i + n - 1 <= Len(bytes) /\ WellFormed(SubSeq(bytes, i, i + n - 1))}

Meaning(bytes, start) ==
  LET from[i \in start..(Len(bytes) + 1)] ==
        IF i > Len(bytes) THEN <<>>
        ELSE IF Lengths(bytes, i) = {} THEN from[i + 1]
        ELSE LET n == CHOOSE m \in Lengths(bytes, i) : TRUE IN <<Value(SubSeq(bytes, i, i + n - 1))>> \o from[i + n]
  IN from[start]

TypeOK == text \in Inputs /\ index \in 1..(Len(text) + 1) /\ Len(emitted) < index

\* Each step of decode() reads one character of the standard where one begins, and otherwise
\* skips bytes at none of which one begins: no malformed byte hides the character after it.
StepDecodes ==
  index <= Len(text) =>
    LET decoded == DecodeOne(text, index) IN
    IF decoded.ok
    THEN LET n == decoded.next - index IN
         n \in Lengths(text, index) /\ decoded.value = Value(SubSeq(text, index, decoded.next - 1))
    ELSE \A i \in index .. decoded.next - 1 : Lengths(text, i) = {}

\* No overlong form, surrogate or value beyond U+10FFFF comes out, and encode() gives back
\* what was decoded.
EmittedIsUnicode ==
  \A i \in DOMAIN emitted : WellFormed(Encode(emitted[i])) /\ Value(Encode(emitted[i])) = emitted[i]

\* At every step what was emitted and what the rest of the bytes means is what the bytes mean,
\* and Latin-1 survives both ways.
TextIsDecoded ==
  /\ emitted \o Meaning(text, index) = Meaning(text, 1)
  /\ index = 1 => Meaning(Latin1ToUtf8(text), 1) = text /\ Utf8ToLatin1(Latin1ToUtf8(text)) = text

=============================================================================
