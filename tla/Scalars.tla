------------------------------ MODULE Scalars ------------------------------
(***************************************************************************)
(* The scalar VALUEs of data/value.c: the numbers, which getter of which   *)
(* type gives back what, value_is_compatible, and the header that holds    *)
(* the length of a string.                                                 *)
(*                                                                         *)
(* Widths are parameters, with the order of the real ones: 24 bits in the  *)
(* mantissa of a float, 32 in an INT32, 53 in that of a double, 64 in an   *)
(* INT64. A number is a count of units, 2^FracBits of which make one.      *)
(***************************************************************************)
EXTENDS Integers, Sequences, FiniteSets

CONSTANTS FloatBits, SmallBits, DoubleBits, LargeBits,
          FracBits,     \* the finest fraction of a float or double
          RangeBits,    \* the largest, beyond what the integer types hold
          Conversions,  \* what a build does with a float out of an integer type's range
          Lengths       \* of strings

ASSUME ScalarAssumption ==
  /\ 1 < FloatBits /\ FloatBits < SmallBits /\ SmallBits < DoubleBits /\ DoubleBits < LargeBits
  /\ LargeBits <= RangeBits /\ FracBits > 0
  /\ Conversions \subseteq {"wrap", "lowest", "saturate"}
  /\ \A len \in Lengths : len \in 0 .. 2147483647

VARIABLES build,   \* the conversion of this build
          value,   \* the VALUE: a type, and a number or the layout of a string
          asked    \* the type that was asked for, and the two answers

svars == <<build, value, asked>>

IntTypes == {"INT32", "UINT32", "INT64", "UINT64"}
FloatTypes == {"FLOAT", "DOUBLE"}

One == 2 ^ FracBits
Bits(type) == IF type \in {"INT32", "UINT32"} THEN SmallBits ELSE LargeBits
Precision(type) == IF type = "FLOAT" THEN FloatBits ELSE DoubleBits
IsSigned(type) == type \in {"INT32", "INT64"}
Lowest(type) == IF IsSigned(type) THEN -(2 ^ (Bits(type) - 1)) ELSE 0
Highest(type) == IF IsSigned(type) THEN 2 ^ (Bits(type) - 1) - 1 ELSE 2 ^ Bits(type) - 1
Holds(type, i) == Lowest(type) <= i /\ i <= Highest(type)

-----------------------------------------------------------------------------
(* Conversions of the language.                                            *)

\* To the nearest number of p significant bits, to an even one if two are as near.
Rounded(x, p) ==
  LET m == IF x < 0 THEN -x ELSE x
      e == CHOOSE k \in 0 .. RangeBits + FracBits + 2 :
             m < 2 ^ (p + k) /\ (k = 0 \/ m >= 2 ^ (p + k - 1))
      q == m \div 2 ^ e
      r == 2 * (m % 2 ^ e)
      up == IF r > 2 ^ e \/ (r = 2 ^ e /\ q % 2 = 1) THEN 1 ELSE 0
  IN  (IF x < 0 THEN -1 ELSE 1) * (q + up) * 2 ^ e

Wrapped(type, i) ==
  LET m == i % 2 ^ Bits(type)
  IN  IF m > Highest(type) THEN m - 2 ^ Bits(type) ELSE m

Truncated(x) == IF x < 0 THEN -((-x) \div One) ELSE x \div One

\* A float that does not fit is undefined: builds differ.
Cast(type, x) ==
  LET i == Truncated(x)
  IN  CASE Holds(type, i) -> i
        [] ~Holds(type, i) /\ build = "wrap" -> Wrapped(type, i)
        [] ~Holds(type, i) /\ build = "lowest" -> Lowest(type)
        [] ~Holds(type, i) /\ build = "saturate" -> IF i < 0 THEN Lowest(type) ELSE Highest(type)

\* Faulty variant: a half is added to negative numbers, too.
Round_Up(type, x, p) == Cast(type, Rounded(x + One \div 2, p))

\* ROUNDF and ROUNDD; the sum is a float or a double again.
Round(type, x, p) == Cast(type, Rounded(IF x >= 0 THEN x + One \div 2 ELSE x - One \div 2, p))

-----------------------------------------------------------------------------
(* value_int32, value_uint32, ... value_double.                            *)
Get(type) ==
  LET x == value.number
  IN  CASE type \in FloatTypes -> Rounded(x, Precision(type))
        [] type \in IntTypes /\ value.type \in FloatTypes -> One * Round(type, x, Precision(value.type))
        [] type \in IntTypes /\ value.type \in IntTypes -> One * Wrapped(type, x \div One)

value_is_compatible(type) ==
  LET max(t) == One * Highest(t)
      min(t) == One * Lowest(t)
      own == value.type
  IN  \/ own = type
      \/ own = "INT32" /\ \/ type \in {"INT64", "FLOAT", "DOUBLE"}
                          \/ type \in {"UINT32", "UINT64"} /\ Get("INT32") >= 0
      \/ own = "UINT32" /\ \/ type \in {"INT64", "UINT64", "FLOAT", "DOUBLE"}
                           \/ type = "INT32" /\ Get("UINT32") <= max("INT32")
      \/ own = "INT64" /\ \/ type \in FloatTypes
                          \/ type = "INT32" /\ Get("INT64") >= min("INT32") /\ Get("INT64") <= max("INT32")
                          \/ type = "UINT32" /\ Get("INT64") >= 0 /\ Get("INT64") <= max("UINT32")
                          \/ type = "UINT64" /\ Get("INT64") >= 0
      \/ own = "UINT64" /\ \/ type \in FloatTypes
                           \/ type \in {"INT32", "UINT32", "INT64"} /\ Get("UINT64") <= max(type)
      \/ own = "FLOAT" /\ \/ type = "DOUBLE"
                          \/ type \in IntTypes /\ Get("FLOAT") = Rounded(Get(type), FloatBits)
      \/ own = "DOUBLE" /\ \/ type = "FLOAT"
                           \/ type \in IntTypes /\ Get("DOUBLE") = Rounded(Get(type), DoubleBits)

-----------------------------------------------------------------------------
(* Strings. The length comes first, seven bits to a byte from the lowest   *)
(* on, and every byte but the last says that there are more.               *)

\* Faulty variant: one byte is used for 128.
Groups_Late(len) == CHOOSE k \in 1 .. 5 : len \div 128 ^ (k - 1) <= 128
                                         /\ \A j \in 1 .. k - 1 : len \div 128 ^ (j - 1) > 128

Groups(len) == CHOOSE k \in 1 .. 5 : len \div 128 ^ (k - 1) < 128
                                    /\ \A j \in 1 .. k - 1 : len \div 128 ^ (j - 1) >= 128

StringOf(len) ==
  LET off == Groups(len)
  IN  [header |-> [k \in 1 .. off |-> [more |-> k < off, bits |-> (len \div 128 ^ (k - 1)) % 128]],
       text |-> len,                    \* bytes behind the header, then the terminator
       size |-> off + len + 1]          \* what value_init is asked for

HeaderEnd(s) == CHOOSE k \in DOMAIN s.header : ~s.header[k].more /\ \A j \in 1 .. k - 1 : s.header[j].more

value_string(s) == HeaderEnd(s)
value_string_length(s) ==
  LET sum[k \in 0 .. HeaderEnd(s)] ==
        IF k = 0 THEN 0 ELSE sum[k - 1] + s.header[k].bits * 128 ^ (k - 1)
  IN  sum[HeaderEnd(s)]

-----------------------------------------------------------------------------
Numbers(type) ==
  IF type \in IntTypes THEN {One * i : i \in Lowest(type) .. Highest(type)}
  ELSE {x \in -(2 ^ (RangeBits + FracBits)) .. 2 ^ (RangeBits + FracBits) : Rounded(x, Precision(type)) = x}

NoValue == [type |-> "NULL", number |-> 0]
NotAsked == [type |-> "NULL", compatible |-> FALSE, got |-> 0]

ScalarInit == build \in Conversions /\ value = NoValue /\ asked = NotAsked

value_init_number(type, x) ==
  /\ value' = [type |-> type, number |-> x]
  /\ UNCHANGED <<build, asked>>

value_init_string_(len) ==
  /\ value' = [type |-> "STRING", string |-> StringOf(len)]
  /\ UNCHANGED <<build, asked>>

Ask(type) ==
  /\ value.type \in IntTypes \cup FloatTypes /\ asked = NotAsked
  /\ asked' = [type |-> type, compatible |-> value_is_compatible(type), got |-> Get(type)]
  /\ UNCHANGED <<build, value>>

ScalarNext ==
  \/ \E type \in IntTypes \cup FloatTypes : Ask(type)
  \/ /\ value = NoValue
     /\ \/ \E type \in IntTypes \cup FloatTypes :
             \E x \in Numbers(type) : value_init_number(type, x)
        \/ \E len \in Lengths : value_init_string_(len)

-----------------------------------------------------------------------------
(* A number that is said to be compatible with an integer type is a whole  *)
(* number of that type, and the getter gives exactly that; and a number    *)
(* the type holds is said to be compatible, unless it is a float so large  *)
(* that adding a half rounds it. A float always fits into a double, and so *)
(* does a 32-bit integer (value.h:75-85). The first part is not true of a  *)
(* build that saturates, where the float just beyond the greatest integer  *)
(* passes for it: Conversions must be without "saturate".                  *)
CompatibleIsExact ==
  LET x == value.number
      small == value.type \in IntTypes \/ x \in -(One * 2 ^ (Precision(value.type) - 1)) .. One * 2 ^ (Precision(value.type) - 1)
      fits == x % One = 0 /\ Holds(asked.type, x \div One)
  IN  /\ asked.type \in IntTypes =>
           /\ asked.compatible => fits /\ asked.got = x
           /\ fits /\ small => asked.compatible
      /\ asked.type = "DOUBLE" /\ value.type \in {"FLOAT", "INT32", "UINT32"} =>
           asked.compatible /\ asked.got = x

(* The length of a string below 2^31 bytes is read back as it was given,   *)
(* and value_string points behind the header, so that the bytes and the    *)
(* terminator end where the memory does.                                   *)
StringKeepsLength ==
  value.type = "STRING" =>
    LET s == value.string
    IN  /\ value_string_length(s) = s.text
        /\ value_string(s) + s.text + 1 = s.size

ReadsBack == CompatibleIsExact /\ StringKeepsLength

=============================================================================
