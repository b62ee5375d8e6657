------------------------------- MODULE Codecs -------------------------------
(***************************************************************************)
(* encode/base64.c and encode/hex.c: a program encodes bytes into a buffer *)
(* of its own and decodes what it has encoded, or a text from elsewhere.   *)
(*                                                                         *)
(* A character is what the decoder takes it for: its place in the alphabet *)
(* ("A" is 0 and "/" 63, or options->ch63; in hex the digits, then the     *)
(* letters whatever their case), the padding, the zero, or none of these,  *)
(* where those that are not ASCII, which the alphabet is, are a kind of    *)
(* their own: a char with one of their codes may be negative.              *)
(***************************************************************************)
EXTENDS Integers, Sequences, SequencesExt, Bitwise

CONSTANTS Datas,   \* what is encoded: sequences of bytes
          Texts,   \* what is decoded: sequences of characters
          Outside  \* the bytes that may be in memory in front of table

Pad == -1
Other == -2
Zero == -3
High == -4

ENOBUFS == -105
EINVAL == -22

ASSUME CodecAssumption ==
  /\ \A d \in Datas : d \in Seq(0 .. 255)
  /\ \A t \in Texts : t \in Seq((0 .. 63) \cup {Pad, Other, High})
  /\ Outside \subseteq 0 .. 255

VARIABLES step,     \* "start", "encoded", "decoded" or "received"
          job,      \* what is converted: the codec, options->pad # 0, data or a text,
                    \* and whether char is signed
          room,     \* out_size
          result    \* what the last call returned, and the cells it wrote

cvars == <<step, job, room, result>>

CodecInit ==
  /\ step = "start" /\ room = 0 /\ result = [ret |-> 0, out |-> <<>>]
  /\ job = [codec |-> "hex", pad |-> FALSE, data |-> <<>>, text |-> <<>>,
            signed |-> FALSE]

-----------------------------------------------------------------------------
(* The terminator goes where there is room for it.                         *)
Terminated(out, size) == IF Len(out) < size THEN Append(out, Zero) ELSE out
Wrote(out, size) == [ret |-> Len(out), out |-> Terminated(out, size)]
Failed(error) == [ret |-> error, out |-> <<>>]

\* Faulty variant: two bytes at the end are taken for one.
base64_encode_size_Short(n, pad) ==
  ((n + 2) \div 3) * 4 - IF pad THEN 0 ELSE <<0, 2, 2>>[(n % 3) + 1]

base64_encode_size(n, pad) ==
  ((n + 2) \div 3) * 4 - IF pad THEN 0 ELSE <<0, 2, 1>>[(n % 3) + 1]

Sextets(v) == <<v \div 2 ^ 18, (v \div 2 ^ 12) % 64, (v \div 2 ^ 6) % 64, v % 64>>

base64_encode(in, size, pad) ==
  LET n == Len(in)
      Byte(k) == IF k <= n THEN in[k] ELSE 0
      \* The characters of the triple that begins at k, also when it is cut short.
      Group(k) == Sextets(Byte(k) * 65536 + Byte(k + 1) * 256 + Byte(k + 2))
      whole == FlattenSeq([g \in 1 .. n \div 3 |-> Group(3 * g - 2)])
      tail == CASE n % 3 = 0 -> <<>>
                [] n % 3 = 1 -> SubSeq(Group(n), 1, 2) \o IF pad THEN <<Pad, Pad>> ELSE <<>>
                [] n % 3 = 2 -> SubSeq(Group(n - 1), 1, 3) \o IF pad THEN <<Pad>> ELSE <<>>
  IN  IF size < base64_encode_size(n, pad) THEN Failed(ENOBUFS) ELSE Wrote(whole \o tail, size)

\* At most two characters of padding, and only where the text has whole groups.
Unpadded(in, pad) ==
  LET Cut(t) == IF Last(t) = Pad THEN Front(t) ELSE t
  IN  IF pad /\ Len(in) > 0 /\ Len(in) % 4 = 0 THEN Cut(Cut(in)) ELSE in

\* Faulty variant: the unused bits of the last character may be anything.
TailFits_Any(n, last) == n % 4 # 1

\* What is left over from the bytes must be zero in the last of n characters.
TailFits(n, last) ==
  CASE n % 4 = 0 -> TRUE
    [] n % 4 = 1 -> FALSE
    [] n % 4 = 2 -> (last & 79) = 0
    [] n % 4 = 3 -> (last & 195) = 0

\* table[(int) c]: a negative c reads whatever is in front of the table.
LookUp(c, signed) ==
  IF c >= 0 THEN {c} ELSE IF c = High /\ signed THEN Outside ELSE {255}

\* Each look-up is made anew, to validate, for the tail and to decode. The set of
\* the results that are possible.
base64_decode(text, size, pad, signed) ==
  LET in == Unpadded(text, pad)
      n == Len(in)
      needed == (n \div 4) * 3 + <<0, 0, 1, 2>>[(n % 4) + 1]
      May(k) == IF k \in 1 .. n THEN LookUp(in[k], signed) ELSE {0}
      \* v = a << 18 | b << 12 | c << 6 | d, of which three bytes are kept.
      Group(a, b, c, d) == <<((a * 4) % 256) | (b \div 16), ((b * 16) % 256) | (c \div 4),
                             ((c * 64) % 256) | d>>
      Groups(g) == {Group(a, b, c, d) : a \in May(4 * g - 3), b \in May(4 * g - 2),
                                        c \in May(4 * g - 1), d \in May(4 * g)}
      count == (n + 3) \div 4
      decoded == {SubSeq(FlattenSeq(q), 1, needed) :
                    q \in {f \in [1 .. count -> UNION {Groups(g) : g \in 1 .. count}] :
                             \A g \in 1 .. count : f[g] \in Groups(g)}}
  IN  { Failed(EINVAL) : u \in {k \in 1 .. n : 255 \in May(k)}
                               \cup {last \in May(n) : ~TailFits(n, last)} }
      \cup
      { IF size < needed THEN Failed(ENOBUFS) ELSE [ret |-> needed, out |-> out] :
          out \in IF /\ \A k \in 1 .. n : May(k) # {255}
                     /\ \E last \in May(n) : TailFits(n, last)
                  THEN decoded ELSE {} }

hex_encode(in, size) ==
  IF size < 2 * Len(in) THEN Failed(-1)
  ELSE Wrote(FlattenSeq([k \in DOMAIN in |-> <<in[k] \div 16, in[k] % 16>>]), size)

\* Any letter is taken for a digit, also those behind "f".
hex_decode(in, size) ==
  IF Len(in) % 2 # 0 \/ size < Len(in) \div 2 \/ \E k \in DOMAIN in : in[k] \notin 0 .. 35
  THEN Failed(-1)
  ELSE [ret |-> Len(in) \div 2,
        out |-> [k \in 1 .. Len(in) \div 2 |-> ((in[2 * k - 1] * 16) % 256) | in[2 * k]]]

-----------------------------------------------------------------------------
(* What out_buf = NULL asks for.                                           *)
EncodeQuery == IF job.codec = "hex" THEN 2 * Len(job.data) + 1
               ELSE base64_encode_size(Len(job.data), job.pad) + 1

\* The buffer is one short, has just the size, or leaves room for the terminator.
Encode(codec, data, pad, spare) ==
  /\ step' = "encoded"
  /\ job' = [codec |-> codec, pad |-> pad, data |-> data, text |-> <<>>, signed |-> FALSE]
  /\ room' = EncodeQuery' - 1 + spare /\ room' >= 0
  /\ result' = IF codec = "hex" THEN hex_encode(data, room') ELSE base64_encode(data, room', pad)

Decode(text, size) ==
  IF job'.codec = "hex" THEN {hex_decode(text, size)}
  ELSE base64_decode(text, size, job'.pad, job'.signed)

DecodeOwn(spare) ==
  /\ step = "encoded" /\ result.ret >= 0
  /\ step' = "decoded"
  /\ job' = [job EXCEPT !.text = SubSeq(result.out, 1, result.ret)]
  /\ room' = Len(job.data) + spare /\ room' >= 0
  /\ result' \in Decode(job'.text, room')

DecodeReceived(codec, text, pad, signed) ==
  /\ step' = "received"
  /\ job' = [codec |-> codec, pad |-> pad, data |-> <<>>, text |-> text, signed |-> signed]
  /\ room' = Len(text)
  /\ result' \in Decode(text, room')

CodecNext ==
  \/ step = "start" /\ \E codec \in {"hex", "base64"}, pad \in BOOLEAN :
       \/ \E data \in Datas, spare \in {-1, 0, 1} : Encode(codec, data, pad, spare)
       \/ \E text \in Texts, signed \in BOOLEAN : DecodeReceived(codec, text, pad, signed)
  \/ \E spare \in {-1, 0} : DecodeOwn(spare)

-----------------------------------------------------------------------------
(* What the encodings are, bit by bit: a character for every six or four   *)
(* bits of the bytes read as one number, padded to groups of four.         *)
TextOf(codec, data, pad) ==
  LET width == IF codec = "hex" THEN 4 ELSE 6
      count == (8 * Len(data) + width - 1) \div width
      Bit(i) == IF i < 8 * Len(data) THEN (data[(i \div 8) + 1] \div 2 ^ (7 - (i % 8))) % 2 ELSE 0
      Char(k) == FoldLeft(LAMBDA c, j : 2 * c + Bit(width * (k - 1) + j - 1), 0, [j \in 1 .. width |-> j])
  IN  [k \in 1 .. count |-> Char(k)]
      \o IF codec = "base64" /\ pad THEN [k \in 1 .. (4 - (count % 4)) % 4 |-> Pad] ELSE <<>>

(* The encoders write the encoding, into exactly the room it takes, with a *)
(* terminator if that fits, never beyond the buffer, and fail only if the  *)
(* room is too small; the size they ask for is enough for all of it; and   *)
(* the decoders give back the bytes, into a buffer of exactly their size.  *)
RoundTrips ==
  /\ step = "encoded" =>
       LET text == TextOf(job.codec, job.data, job.pad)
       IN  IF room < Len(text) THEN result.ret < 0 /\ result.out = <<>>
           ELSE /\ result = [ret |-> Len(text), out |-> IF room > Len(text) THEN Append(text, Zero) ELSE text]
                /\ EncodeQuery = Len(text) + 1
  /\ step = "decoded" =>
       IF room < Len(job.data) THEN result.ret < 0
       ELSE result = [ret |-> Len(job.data), out |-> job.data]

(* base64_decode accepts a text that is the encoding of some bytes, padded *)
(* or not, and no other: two texts never decode to the same bytes. Where   *)
(* char is signed, a character that is not ASCII may be accepted and spoil *)
(* the bytes of its group of four; the other groups and the size are right *)
(* even then.                                                              *)
AcceptsOnlyEncodings ==
  LET text == job.text
      Spoilt(k) == /\ job.signed
                   /\ \E j \in DOMAIN text : text[j] = High /\ (j - 1) \div 4 = (k - 1) \div 4
  IN  step = "received" /\ job.codec = "base64" /\ result.ret >= 0 =>
        \E pad \in {FALSE, job.pad} :
          LET encoding == TextOf("base64", result.out, pad)
          IN  /\ Len(encoding) = Len(text)
              /\ \A k \in DOMAIN text : text[k] = encoding[k] \/ Spoilt(k)

=============================================================================
