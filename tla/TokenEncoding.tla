---------------------------- MODULE TokenEncoding ----------------------------
(***************************************************************************)
(* The byte-to-text half of NRS.generateToken.  The token is the public  *)
(* key (32 bytes), the timestamp (4 bytes, little-endian) and the        *)
(* signature (64 bytes); each group of 5 bytes is read as a little-endian *)
(* 40-bit number (byteArrayToBigInteger) and written as 8 base-32        *)
(* digits, zero-padded by a chain of comparisons with 32, 32^2, ... 32^7. *)
(* The key and the signature come from NRS.getPublicKey and              *)
(* NRS.signBytes, outside this file: they are arguments here.            *)
(*                                                                         *)
(* A 40-bit number is past TLC's integers, so a number is held as its 8  *)
(* base-32 digits, least significant first, taken from the bits of its   *)
(* bytes; "number < 32^k" is "its digits from the k-th up are 0".        *)
(***************************************************************************)
EXTENDS ByteCodecs

\* What BigInteger.toString(32) writes with.
Base32Chars == HexChars \o <<"g", "h", "i", "j", "k", "l", "m", "n", "o", "p",
                              "q", "r", "s", "t", "u", "v">>

\* tsb[0..3] = ts & 0xFF, (ts >> 8) & 0xFF, (ts >> 16) & 0xFF, (ts >> 24) & 0xFF
TimestampBytes(ts) == [i \in 1..4 |-> shiftR(ts, 8 * (i - 1)) & 255]

\* byteArrayToBigInteger(nbr): sum of nbr[i] * 256^i, as base-32 digits.
Bit(nbr, b) == (nbr[(b \div 8) + 1] \div (2 ^ (b % 8))) % 2
ByteArrayToBigInteger(nbr) ==
    [j \in 0..7 |-> Bit(nbr, 5 * j) + 2 * Bit(nbr, 5 * j + 1) + 4 * Bit(nbr, 5 * j + 2)
                    + 8 * Bit(nbr, 5 * j + 3) + 16 * Bit(nbr, 5 * j + 4)]

\* Seeded fault: "number <= 32^k", the bound itself taken as short.
Below_OrEqual(number, k) ==
    \/ \A j \in k..7 : number[j] = 0
    \/ number[k] = 1 /\ \A j \in 0..7 \ {k} : number[j] = 0

\* number < 32^k
Below(number, k) == \A j \in k..7 : number[j] = 0

\* The if/else chain: the first bound the number is below decides, < 32
\* gets "0000000", ..., < 32^7 gets "0", and a larger number none.
PadZeros(number) ==
    LET below == {k \in 1..7 : Below(number, k)}
    IN  [i \in 1..(IF below = {} THEN 0 ELSE 8 - Min(below)) |-> "0"]

\* number.toString(32): no leading zeros, "0" for zero.
ToString32(number) ==
    LET top == IF \A j \in 0..7 : number[j] = 0 THEN 0
               ELSE CHOOSE j \in 0..7 : number[j] # 0 /\ \A m \in (j + 1)..7 : number[m] = 0
    IN  [i \in 1..(top + 1) |-> Base32Chars[number[top + 1 - i] + 1]]

\* One pass of the loop: the group at ptr, read and written.
GroupText(nbr) ==
    LET number == ByteArrayToBigInteger(nbr)
    IN  PadZeros(number) \o ToString32(number)

\* generateToken once the key and the signature are known: 100 bytes,
\* 20 groups, 160 characters.
GenerateToken(pubKeyBytes, ts, signature) ==
    LET token == pubKeyBytes \o TimestampBytes(ts) \o signature
    IN  FlattenSeq([g \in 1..20 |-> GroupText(SubSeq(token, 5 * g - 4, 5 * g))])

=============================================================================
