------------------------------- MODULE Network --------------------------------
(***************************************************************************)
(* NRS.isPrivateIP(ip): a dotted quad of digit runs whose first part is   *)
(* the string "10" or "127", or "172" with a second part from 16 to 31   *)
(* (parseInt, base 10), or "192" with the second part the string "168".   *)
(***************************************************************************)
EXTENDS DecimalStrings

\* /^\d+\.\d+\.\d+\.\d+$/
IsDottedQuad(ip) ==
    LET parts == Split(ip, ".")
    IN  Len(parts) = 4 /\ \A i \in 1..4 : IsAllDigits(parts[i])

AsChars(s) == [i \in 1..Len(s) |-> SubSeq(s, i, i)]

\* Seeded fault: `parseInt(parts[1], 10) < 31`, which leaves 172.31/16 out.
IsPrivateIP_ShortRange(ip) ==
    IsDottedQuad(ip) /\
    LET p == Split(ip, ".")
    IN  \/ p[1] = AsChars("10")
        \/ p[1] = AsChars("127")
        \/ p[1] = AsChars("172") /\ NumVal(p[2]) >= 16 /\ NumVal(p[2]) < 31
        \/ p[1] = AsChars("192") /\ p[2] = AsChars("168")

IsPrivateIP(ip) ==
    IsDottedQuad(ip) /\
    LET p == Split(ip, ".")
    IN  \/ p[1] = AsChars("10")
        \/ p[1] = AsChars("127")
        \/ p[1] = AsChars("172") /\ NumVal(p[2]) >= 16 /\ NumVal(p[2]) <= 31
        \/ p[1] = AsChars("192") /\ p[2] = AsChars("168")

-----------------------------------------------------------------------------
(***************************************************************************)
(* Reference: an IPv4 address in canonical dotted-decimal form (octets    *)
(* 0..255 without leading zeros) and the private and loopback blocks     *)
(* 10/8, 127/8, 172.16/12 and 192.168/16, by octet value.                 *)
(***************************************************************************)
CanonicalIPv4(ip) ==
    IsDottedQuad(ip) /\
    \A i \in 1..4 : LET o == Split(ip, ".")[i]
                    IN  NumVal(o) <= 255 /\ (Len(o) > 1 => o[1] # "0")

Octet(ip, i) == NumVal(Split(ip, ".")[i])

InPrivateBlock(ip) ==
    \/ Octet(ip, 1) \in {10, 127}
    \/ Octet(ip, 1) = 172 /\ Octet(ip, 2) \in 16..31
    \/ Octet(ip, 1) = 192 /\ Octet(ip, 2) = 168

=============================================================================
