------------------------------ MODULE Checksum ------------------------------
(***************************************************************************)
(* The Internet checksums that TunInbound writes into the packets it       *)
(* rewrites and makes (inbound/tun_checksum.cpp).  Packets are sequences   *)
(* of bytes: an IPv4 header, and the TCP or UDP segment behind it.         *)
(***************************************************************************)
EXTENDS Integers, SequencesExt

\* The 16-bit words of data; a last single byte is the high half of a word.
Words(data) ==
    [i \in 1 .. ((Len(data) + 1) \div 2) |->
       data[2 * i - 1] * 256 + (IF 2 * i <= Len(data) THEN data[2 * i] ELSE 0)]

Total(data) == FoldLeft(+, 0, Words(data))

\* while (sum >> 16) sum = (sum & 0xffff) + (sum >> 16)
Carry[sum \in Nat] ==
    IF sum < 2^16 THEN sum ELSE Carry[(sum % 2^16) + (sum \div 2^16)]

\* Mutant of checksum: the carry is added once, and what that carries is lost.
checksum_fold_once(data) ==
    LET sum == Total(data)
    IN  (2^16 - 1) - (((sum % 2^16) + (sum \div 2^16)) % 2^16)

\* ~sum, as a 16-bit number.
checksum(data) == (2^16 - 1) - Carry[Total(data)]

\* data with value in the two bytes from offset i on.
Put(data, i, value) ==
    [data EXCEPT ![i + 1] = value \div 256, ![i + 2] = value % 256]

\* The header is (ip[0] & 0x0f) * 4 bytes long.
HeaderOf(ip) == SubSeq(ip, 1, (ip[1] % 16) * 4)

recalc_ipv4_checksum(ip) ==
    LET zeroed == Put(ip, 10, 0)
    IN  Put(zeroed, 10, checksum(HeaderOf(zeroed)))

\* Both addresses, the protocol and the length, in front of the segment.
Pseudo(ip, protocol, segment) ==
    SubSeq(ip, 13, 20)
       \o << 0, protocol, (Len(segment) \div 256) % 256, Len(segment) % 256 >> \o segment

recalc_tcp_checksum(ip, tcp) ==
    LET zeroed == Put(tcp, 16, 0)
    IN  Put(zeroed, 16, checksum(Pseudo(ip, 6, zeroed)))

\* A UDP checksum of 0 would mean that there is none.
recalc_udp_checksum(ip, udp) ==
    LET zeroed == Put(udp, 6, 0)
        value  == checksum(Pseudo(ip, 17, zeroed))
    IN  Put(zeroed, 6, IF value = 0 THEN 2^16 - 1 ELSE value)

-----------------------------------------------------------------------------
\* Reference: what a receiver accepts.  In one's complement arithmetic the
\* words, the checksum among them, add up to 0, that is to a multiple of
\* 2^16 - 1 that is not 0 itself.
Accepted(data) == Total(data) > 0 /\ Total(data) % (2^16 - 1) = 0
=============================================================================
