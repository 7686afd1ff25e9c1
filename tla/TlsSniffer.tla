----------------------------- MODULE TlsSniffer -----------------------------
(***************************************************************************)
(* sniff_tls_sni (protocol/tls_sniffer.cpp): finds the server name in the  *)
(* first bytes of a connection, a TLS ClientHello.  One step per field     *)
(* with a length of its own, per extension and per name.                   *)
(*                                                                         *)
(* hello[i + 1] is the byte at offset i.  Reading past the end gives any   *)
(* value in the program; here it gives 0, and reach records that it was    *)
(* read.                                                                   *)
(***************************************************************************)
EXTENDS Integers, SequencesExt

VARIABLES
    hello,      \* the bytes
    stage,      \* control state
    cursor,     \* pos
    ends,       \* extensions_end, the end of the extension, name_list_end
    sni,        \* what is returned: << >> for nullopt, << name >>
    reach,      \* history: the offset after the last byte looked at
    turns       \* history: turns of the loop over extensions, and of the one over names

sniffer == << hello, stage, cursor, ends, sni, reach, turns >>

Random == 32

At(i) == IF i < Len(hello) THEN hello[i + 1] ELSE 0
Be(i) == At(i) * 256 + At(i + 1)

\* Mutant of has_bytes: one byte too many.
has_bytes_off_by_one(i, n) == i + n <= Len(hello) + 1

has_bytes(i, n) == i + n <= Len(hello)

Sniff(bytes) ==
    /\ hello = bytes
    /\ stage = "record"
    /\ cursor = 0
    /\ ends = [extensions |-> 0, extension |-> 0, names |-> 0]
    /\ sni = << >>
    /\ reach = 0
    /\ turns = [extensions |-> 0, names |-> 0]

-----------------------------------------------------------------------------
Nullopt == stage' = "returned" /\ UNCHANGED << hello, cursor, ends, sni >>

Looked(i) == reach' = IF i > reach THEN i ELSE reach

GoOn(next, i) == stage' = next /\ cursor' = i /\ UNCHANGED << hello, ends, sni >>

\* The record header and the handshake header.
ReadRecord ==
    /\ stage = "record"
    /\ LET handshake_len == (At(6) * 256 + At(7)) * 256 + At(8)
       IN  IF ~has_bytes(0, 5) THEN Nullopt /\ Looked(0)
           ELSE IF At(0) # 22 \/ ~has_bytes(5, Be(3)) \/ ~has_bytes(5, 4)
           THEN Nullopt /\ Looked(5)
           ELSE IF At(5) # 1 \/ ~has_bytes(9, handshake_len) \/ ~has_bytes(9, 2 + Random)
           THEN Nullopt /\ Looked(9)
           ELSE GoOn("session_id", 9 + 2 + Random) /\ Looked(9)
    /\ UNCHANGED turns

\* The three fields that are passed over: the size of their length, and the
\* field after each.
Skipped == [session_id          |-> [size |-> 1, next |-> "cipher_suites"],
            cipher_suites       |-> [size |-> 2, next |-> "compression_methods"],
            compression_methods |-> [size |-> 1, next |-> "extensions"]]

SkipField ==
    /\ stage \in DOMAIN Skipped
    /\ LET n   == Skipped[stage].size
           len == IF n = 1 THEN At(cursor) ELSE Be(cursor)
       IN  IF ~has_bytes(cursor, n) THEN Nullopt /\ Looked(cursor)
           ELSE /\ IF has_bytes(cursor + n, len)
                   THEN GoOn(Skipped[stage].next, cursor + n + len)
                   ELSE Nullopt
                /\ Looked(cursor + n)
    /\ UNCHANGED turns

ReadExtensionsLen ==
    /\ stage = "extensions"
    /\ IF ~has_bytes(cursor, 2) THEN Nullopt /\ Looked(cursor)
       ELSE /\ Looked(cursor + 2)
            /\ IF ~has_bytes(cursor + 2, Be(cursor)) THEN Nullopt
               ELSE /\ stage' = "extension"
                    /\ cursor' = cursor + 2
                    /\ ends' = [ends EXCEPT !.extensions = cursor + 2 + Be(cursor)]
                    /\ UNCHANGED << hello, sni >>
    /\ UNCHANGED turns

\* One extension: its type, its length and, for server_name, the length of
\* the list of names.
ReadExtension ==
    /\ stage = "extension"
    /\ LET data == cursor + 4
           len  == Be(cursor + 2)
       IN  IF cursor >= ends.extensions THEN Nullopt /\ UNCHANGED reach
           ELSE IF ~has_bytes(cursor, 4) THEN Nullopt /\ Looked(cursor)
           ELSE IF ~has_bytes(data, len) THEN Nullopt /\ Looked(data)
           ELSE IF Be(cursor) # 0 THEN GoOn("extension", data + len) /\ Looked(data)
           ELSE IF ~has_bytes(data, 2) THEN Nullopt /\ Looked(data)
           ELSE IF ~has_bytes(data + 2, Be(data)) THEN Nullopt /\ Looked(data + 2)
           ELSE /\ stage' = "name"
                /\ cursor' = data + 2
                /\ ends' = [ends EXCEPT !.extension = data + len,
                                        !.names = data + 2 + Be(data)]
                /\ UNCHANGED << hello, sni >>
                /\ Looked(data + 2)
    /\ turns' = IF cursor >= ends.extensions THEN turns
                ELSE [extensions |-> turns.extensions + 1, names |-> 0]

\* Mutant of IsHostName: the type of the name is not looked at.
IsHostName_any(i) == TRUE

\* A name of type host_name begins at offset i.
IsHostName(i) == At(i) = 0

\* One name of the list; past its end, the next extension.
ReadServerName ==
    /\ stage = "name"
    /\ LET text == cursor + 3
           len  == Be(cursor + 1)
       IN  IF cursor >= ends.names THEN GoOn("extension", ends.extension) /\ UNCHANGED reach
           ELSE IF ~has_bytes(cursor, 3) THEN Nullopt /\ Looked(cursor)
           ELSE IF ~has_bytes(text, len) THEN Nullopt /\ Looked(text)
           ELSE IF ~IsHostName(cursor) THEN GoOn("name", text + len) /\ Looked(text)
           ELSE /\ stage' = "returned"
                /\ sni' = << SubSeq(hello, text + 1, text + len) >>
                /\ UNCHANGED << hello, cursor, ends >>
                /\ Looked(text + len)
    /\ turns' = IF cursor >= ends.names THEN turns ELSE [turns EXCEPT !.names = @ + 1]

SniffStep ==
    ReadRecord \/ SkipField \/ ReadExtensionsLen \/ ReadExtension \/ ReadServerName

\* Called with any bytes.
SniffInit == \E bytes \in Seq(0 .. 255) : Sniff(bytes)
SniffSpec == SniffInit /\ [][SniffStep]_sniffer

-----------------------------------------------------------------------------
(***************************************************************************)
(* Properties.                                                             *)
(***************************************************************************)

\* The sniffer never reads past the bytes it has, whatever the lengths in them
\* say: those of the record, the handshake, the fields, the extensions and the
\* names are independent of each other, and no list is checked against the one
\* it is in.
SnifferStaysInside == reach <= Len(hello)

\* The loop over extensions takes at least four bytes per turn and the one over
\* names three, so that neither can run for ever.  After a list of names, which
\* may be longer than its extension, the next extension begins behind this one
\* and not behind the list.
SnifferEnds == 4 * turns.extensions <= Len(hello) /\ 3 * turns.names <= Len(hello)

\* Whatever the bytes are, the sniffer reads none behind them, and ends.
SnifferBounded == SnifferStaysInside /\ SnifferEnds
=============================================================================
