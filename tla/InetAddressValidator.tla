-------------------------- MODULE InetAddressValidator --------------------------
(***************************************************************************)
(* core/util/InetAddressValidator.cxx.  An address is a sequence of        *)
(* tokens: "h" a block of four hex digits, "d" a decimal digit (a block of *)
(* an IPv6 address, too), the separators, and "z" the letters of a zone.   *)
(***************************************************************************)
EXTENDS Integers, Sequences, SequencesExt, FiniteSets, FiniteSetsExt

Block == {"h", "d"}

IPv4 == <<"d", ".", "d", ".", "d", ".", "d">>

IsIPv4Address(t) == t = IPv4

(* Blocks with a colon between any two of them, perhaps none. *)
Blocks(t) == \/ t = <<>>
             \/ /\ Len(t) % 2 = 1
                /\ \A i \in 1..Len(t) : IF i % 2 = 1 THEN t[i] \in Block ELSE t[i] = ":"

(* Blocks with a colon after each of them. *)
ClosedBlocks(t) == t = <<>> \/ (Len(t) > 1 /\ Last(t) = ":" /\ Blocks(Front(t)))

From(t, i) == SubSeq(t, i, Len(t))

IsIPv6StdAddress(t) == Len(t) = 15 /\ Blocks(t)

(* Mutant: something has to stand before the two colons. *)
NoLeadingColons(t) ==
    \E i \in 2..Len(t) - 1 : /\ t[i] = ":" /\ t[i + 1] = ":"
                             /\ Blocks(SubSeq(t, 1, i - 1)) /\ Blocks(From(t, i + 2))

IsIPv6HexCompressedAddress(t) ==
    \E i \in 1..Len(t) - 1 : /\ t[i] = ":" /\ t[i + 1] = ":"
                             /\ Blocks(SubSeq(t, 1, i - 1)) /\ Blocks(From(t, i + 2))

(* An IPv6 part up to the last colon, and an IPv4 address behind it. *)
IsIPv6MixedAddress(t) ==
    LET colons == {i \in 1..Len(t) : t[i] = ":"}
        split == Max(colons)
        v6 == SubSeq(t, 1, split)
    IN /\ colons # {}
       /\ IsIPv4Address(From(t, split + 1))
       /\ \/ v6 = <<":", ":">>
          \/ Len(v6) = 12 /\ ClosedBlocks(v6)
          \/ \E i \in 1..Len(v6) - 1 : /\ v6[i] = ":" /\ v6[i + 1] = ":"
                                       /\ Blocks(SubSeq(v6, 1, i - 1))
                                       /\ ClosedBlocks(From(v6, i + 2))

Characters(t) == FoldSeq(LAMBDA c, n : n + (IF c = "h" THEN 4 ELSE 1), 0, t)

(* A percent sign is looked for from the sixth character on, and something *)
(* has to follow it. *)
IsLinkLocalIPv6WithZoneIndex(t) ==
    LET found == {i \in 1..Len(t) : t[i] = "%" /\ Characters(SubSeq(t, 1, i - 1)) >= 5}
        at == Min(found)
        ip == SubSeq(t, 1, at - 1)
    IN /\ found # {} /\ at < Len(t)
       /\ IsIPv6StdAddress(ip) \/ IsIPv6HexCompressedAddress(ip)

IsIPv6Address(t) == \/ IsIPv6StdAddress(t)
                    \/ IsIPv6HexCompressedAddress(t)
                    \/ IsIPv6MixedAddress(t)
                    \/ IsLinkLocalIPv6WithZoneIndex(t)

IsValidIP(t) == IsIPv4Address(t) \/ IsIPv6Address(t)
==============================================================================
