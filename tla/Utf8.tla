---------------------------------- MODULE Utf8 ---------------------------------
(***************************************************************************)
(* The two ways a string gets into a JSON value of parson.c: from the      *)
(* program as bytes, which are accepted when they are valid UTF-8, and     *)
(* from a text, where a \u escape gives a UTF-16 unit, which is stored as  *)
(* UTF-8.  Escapes and bytes are numbers; shifts and masks are written     *)
(* with powers of two.                                                     *)
(***************************************************************************)
EXTENDS Integers, Sequences

CONSTANTS Unit, Byte,          \* the units and bytes that are tried
          MaxUnits, MaxBytes   \* bounds

(* Four hexadecimal digits.                                                *)
CodeUnit == {u \in Nat : u < 65536}

ASSUME UnitAssumption == Unit \subseteq CodeUnit
ASSUME ByteAssumption == Byte \subseteq 1..255

VARIABLES units,   \* the escapes of a string in a text
          bytes    \* a string of the program

uvars == <<units, bytes>>

Surrogate == 55296..57343   \* 0xD800..0xDFFF
Lead == 55296..56319
Trail == 56320..57343

(* What a sequence may stand for: a code point that is no half of a pair.  *)
IsScalar(cp) == cp \in Nat /\ cp <= 1114111 /\ cp \notin Surrogate
------------------------------------------------------------------------------
(* Writing.                                                                *)

Utf8(cp) ==
  IF cp < 128 THEN <<cp>>
  ELSE IF cp < 2048 THEN <<192 + cp \div 64, 128 + (cp % 64)>>
  ELSE IF cp < 65536
  THEN <<224 + cp \div 4096, 128 + ((cp \div 64) % 64), 128 + (cp % 64)>>
  ELSE <<240 + cp \div 262144, 128 + ((cp \div 4096) % 64),
         128 + ((cp \div 64) % 64), 128 + (cp % 64)>>

Pair(lead, trail) == (lead - 55296) * 1024 + (trail - 56320) + 65536

(* Variant: a half of a pair is written like any other unit.               *)
AnyUnit(u, i) == [ok |-> TRUE, bytes |-> Utf8(u[i]), used |-> 1]

(* parse_utf16 at the i-th escape of u: what it writes, how many it uses.  *)
parse_utf16(u, i) ==
  IF u[i] \notin Surrogate THEN [ok |-> TRUE, bytes |-> Utf8(u[i]), used |-> 1]
  ELSE IF u[i] \in Lead /\ i < Len(u) /\ u[i + 1] \in Trail
  THEN [ok |-> TRUE, bytes |-> Utf8(Pair(u[i], u[i + 1])), used |-> 2]
  ELSE [ok |-> FALSE, bytes |-> <<>>, used |-> 0]

(* process_string, for a string of escapes.                                *)
process_string(u) ==
  LET from[i \in 1..Len(u)+1] ==
        IF i > Len(u) THEN [ok |-> TRUE, bytes |-> <<>>]
        ELSE LET e == parse_utf16(u, i)
                 rest == from[i + e.used]
             IN IF ~e.ok THEN [ok |-> FALSE, bytes |-> <<>>]
                ELSE [ok |-> rest.ok, bytes |-> e.bytes \o rest.bytes]
  IN from[1]
------------------------------------------------------------------------------
(* Reading.                                                                *)

IsCont(b) == b \in 128..191

num_bytes_in_utf8_sequence(c) ==
  IF c \in {192, 193} \/ c > 244 \/ IsCont(c) THEN 0
  ELSE IF c < 128 THEN 1 ELSE IF c < 224 THEN 2 ELSE IF c < 240 THEN 3 ELSE 4

(* The bits of a sequence of length n.                                     *)
Bits(b, n) ==
  CASE n = 1 -> b[1]
    [] n = 2 -> (b[1] % 32) * 64 + (b[2] % 64)
    [] n = 3 -> (b[1] % 16) * 4096 + (b[2] % 64) * 64 + (b[3] % 64)
    [] n = 4 -> (b[1] % 8) * 262144 + (b[2] % 64) * 4096
                + (b[3] % 64) * 64 + (b[4] % 64)

(* Variant: overlong forms are accepted.                                   *)
VerifyOverlong(b) ==
  LET n == num_bytes_in_utf8_sequence(b[1])
  IN /\ n \in 1..Len(b)
     /\ \A i \in 2..n : IsCont(b[i])
     /\ IsScalar(Bits(b, n))

(* verify_utf8_sequence, on a string that is not empty.                    *)
verify_utf8_sequence(b) ==
  LET n == num_bytes_in_utf8_sequence(b[1])
  IN /\ n \in 1..Len(b)
     /\ \A i \in 2..n : IsCont(b[i])
     /\ Bits(b, n) < 128 => n = 1
     /\ Bits(b, n) < 2048 => n <= 2
     /\ Bits(b, n) < 65536 => n <= 3
     /\ IsScalar(Bits(b, n))

is_valid_utf8(b) ==
  LET from[i \in 1..Len(b)+1] ==
        IF i > Len(b) THEN TRUE
        ELSE LET rest == SubSeq(b, i, Len(b))
             IN /\ verify_utf8_sequence(rest)
                /\ from[i + num_bytes_in_utf8_sequence(rest[1])]
  IN from[1]
------------------------------------------------------------------------------
UInit == units = <<>> /\ bytes = <<>>

WriteEscape(u) ==
  Len(units) < MaxUnits /\ units' = Append(units, u) /\ UNCHANGED bytes

GiveByte(b) ==
  Len(bytes) < MaxBytes /\ bytes' = Append(bytes, b) /\ UNCHANGED units

(* Another string.                                                         *)
Another == (units # <<>> \/ bytes # <<>>) /\ units' = <<>> /\ bytes' = <<>>

UNext ==
  \/ \E u \in Unit : bytes = <<>> /\ WriteEscape(u)
  \/ \E b \in Byte : units = <<>> /\ GiveByte(b)
  \/ Another

USpec == UInit /\ [][UNext]_uvars
------------------------------------------------------------------------------
(* The parser accepts exactly the escapes whose halves of pairs are in     *)
(* pairs, and the string it makes of them is one that parson would also    *)
(* accept from the program.                                                *)
EscapesAreValid ==
  LET r == process_string(units)
      paired(i) == /\ units[i] \in Lead =>
                        i < Len(units) /\ units[i + 1] \in Trail
                   /\ units[i] \in Trail => i > 1 /\ units[i - 1] \in Lead
  IN /\ r.ok <=> \A i \in DOMAIN units : paired(i)
     /\ r.ok => is_valid_utf8(r.bytes)

(* verify_utf8_sequence accepts a sequence exactly when it is the form in  *)
(* which parse_utf16 writes a code point that is no surrogate: the         *)
(* shortest one.                                                           *)
ValidIsWritten ==
  bytes # <<>> =>
    LET n == num_bytes_in_utf8_sequence(bytes[1])
    IN verify_utf8_sequence(bytes) <=>
         /\ n \in 1..Len(bytes)
         /\ IsScalar(Bits(bytes, n))
         /\ SubSeq(bytes, 1, n) = Utf8(Bits(bytes, n))
===============================================================================
