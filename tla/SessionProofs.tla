--------------------------- MODULE SessionProofs ----------------------------
(***************************************************************************)
(* Proofs about Session, for every number of payload units: what arrives   *)
(* at either end is what the other end sent, and a session that ends while *)
(* the client is there has drained the remote.                             *)
(***************************************************************************)
EXTENDS Session, SequenceTheorems, TLAPS

Sock  == [buf : Seq(Int), end : {"none", "eof", "reset", "error"}, stalled : BOOLEAN]
Relay == [st : {"idle", "read", "write", "done", "threw", "cancelled"},
          unit : Int, first_message : BOOLEAN]

\* The types of the variables.
Typed ==
    /\ via \in [in : Protocols, out : Outbounds, override_address : BOOLEAN]
    /\ pc \in {"handshake", "dispatch", "sniff", "connect", "head", "relay",
               "closing", "over"}
    /\ in \in Sock /\ out \in Sock
    /\ head \in Seq(Int) /\ toRemote \in Seq(Int) /\ toClient \in Seq(Int)
    /\ up \in Relay /\ down \in Relay
    /\ sent \in [client : Nat, remote : Nat]
    /\ dropped \in Nat

\* The relays run from StartRelays on; whoever closes the session has seen
\* one of them return, or the downward one fail.
Control ==
    /\ up.st = "idle" <=> down.st = "idle"
    /\ pc \in {"handshake", "dispatch", "sniff", "connect", "head"} => up.st = "idle"
    /\ pc = "relay" => up.st # "idle" /\ head = << >>
    /\ pc \in {"closing", "over"} /\ up.st # "idle" =>
          up.st = "done" \/ down.st = "done" \/ down.st = "threw"

\* Why a relay returned.
Returned ==
    /\ up.st = "done" => in.end # "none"
    /\ down.st = "done" =>
          \/ down.unit = Empty
          \/ out.buf = << >> /\ out.end # "none"
          \/ in.end # "none"

Alive == out.end \in {"none", "eof"}

Absolute == IF via.in = "absolute" THEN 1 ELSE 0

\* Socket in holds the client's units behind the first n units it sent, as
\* far as a reset left them.
Holds(n) ==
    /\ \A i \in DOMAIN in.buf : in.buf[i] = n + i
    /\ n + Len(in.buf) <= sent.client
    /\ in.end = "none" => n + Len(in.buf) = sent.client

\* The client's units before the outbound is connected.
Before ==
    /\ pc \in {"handshake", "dispatch", "sniff", "connect"} => toRemote = << >>
    /\ pc = "handshake" =>
          /\ via.in # "tun"
          /\ head = << >> /\ dropped = 0
          /\ \A i \in DOMAIN in.buf : in.buf[i] = IF i = 1 THEN Req ELSE i - 1
          /\ Len(in.buf) <= sent.client + 1
          /\ in.end = "none" => Len(in.buf) = sent.client + 1
    /\ pc \in {"dispatch", "sniff", "connect"} =>
          /\ Len(head) >= Absolute
          /\ \A i \in DOMAIN head :
                head[i] = IF i <= Absolute THEN Req ELSE dropped + (i - Absolute)
          /\ Holds(dropped + (Len(head) - Absolute))
    /\ pc = "sniff" => head = << >>

\* The client's units afterwards, while writes to the remote succeed: what
\* arrived, what the handler or the relay is about to write, and what the
\* socket holds are one stream.
Upward ==
    /\ Alive /\ pc = "head" =>
          /\ Len(toRemote) + Len(head) >= Len(Headers)
          /\ \A i \in DOMAIN head : head[i] = UpUnit(Len(toRemote) + i)
          /\ Holds(dropped + (Len(toRemote) + Len(head) - Len(Headers)))
    /\ Alive /\ pc = "relay" /\ up.st = "read" =>
          /\ Len(toRemote) >= Len(Headers)
          /\ Holds(dropped + (Len(toRemote) - Len(Headers)))
    /\ Alive /\ up.st = "write" =>
          /\ Len(toRemote) >= Len(Headers)
          /\ up.unit = UpUnit(Len(toRemote) + 1)
          /\ dropped + (Len(toRemote) + 1 - Len(Headers)) <= sent.client
    /\ Alive /\ pc = "relay" /\ up.st = "write" =>
          Holds(dropped + (Len(toRemote) + 1 - Len(Headers)))

HeaderAhead == IF IsVless /\ down.first_message THEN 1 ELSE 0
InHand      == IF down.st = "write" THEN 1 ELSE 0
Taken       == Len(toClient) - Replies + InHand

\* The remote's units, as long as the downward relay runs and up to an empty
\* message, which ends it.
Downward ==
    /\ pc = "handshake" => toClient = << >>
    /\ pc \in {"dispatch", "sniff", "connect", "head"} => Len(toClient) = Replies
    /\ pc \in {"handshake", "dispatch", "sniff", "connect"} =>
          out.buf = << >> /\ out.end = "none" /\ sent.remote = 0
    /\ up.st = "idle" => down = Idle
    /\ down.st \in {"read", "write"} => Len(toClient) >= Replies /\ Taken <= sent.remote
    /\ down.st = "write" => down.unit = DownUnit(Len(toClient) + 1)
    /\ pc \in {"head", "relay"} /\ down.st \in {"idle", "read", "write"} =>
          /\ \A i \in DOMAIN out.buf :
                (\A j \in 1 .. i : out.buf[j] # Empty) =>
                   /\ out.buf[i] = IF i <= HeaderAhead THEN VlessHdr
                                   ELSE Taken + (i - HeaderAhead)
                   /\ Taken + (i - HeaderAhead) <= sent.remote
          /\ out.end = "none" /\ (\A j \in DOMAIN out.buf : out.buf[j] # Empty) =>
                IF sent.remote = 0
                THEN out.buf = << >> /\ Taken = 0 /\ down.first_message
                ELSE Taken + (Len(out.buf) - HeaderAhead) = sent.remote

IndInv ==
    /\ Typed /\ Control /\ Returned /\ Before /\ Upward /\ Downward
    /\ UpstreamIntact /\ DownstreamIntact
-----------------------------------------------------------------------------
(* Facts about the operators. *)

\* The next position, counted from either side.
LEMMA Shift == \A m, n \in Nat : m + (n + 1) = (m + 1) + n
OBVIOUS

\* What is left of a buffer when its first unit is taken.
LEMMA TailFacts ==
    ASSUME NEW s \in Seq(Int), s # << >>
    PROVE  /\ Tail(s) \in Seq(Int) /\ Len(s) \in Nat /\ Len(s) >= 1
           /\ Len(Tail(s)) = Len(s) - 1
           /\ Head(s) = s[1] /\ s[1] \in Int /\ 1 \in DOMAIN s
           /\ \A i \in DOMAIN Tail(s) : i + 1 \in DOMAIN s /\ Tail(s)[i] = s[i + 1]
OBVIOUS

\* A buffer that takes one more unit.
LEMMA AppendFacts ==
    ASSUME NEW s \in Seq(Int), NEW x \in Int
    PROVE  /\ Append(s, x) \in Seq(Int) /\ Len(s) \in Nat
           /\ Len(Append(s, x)) = Len(s) + 1
           /\ Append(s, x)[Len(s) + 1] = x
           /\ \A i \in DOMAIN s : Append(s, x)[i] = s[i]
           /\ DOMAIN Append(s, x) = 1 .. (Len(s) + 1)
           /\ DOMAIN s = 1 .. Len(s)
OBVIOUS

\* Two buffers, one behind the other.
LEMMA ConcatFacts ==
    ASSUME NEW s \in Seq(Int), NEW t \in Seq(Int)
    PROVE  /\ s \o t \in Seq(Int) /\ Len(s) \in Nat /\ Len(t) \in Nat
           /\ Len(s \o t) = Len(s) + Len(t)
           /\ DOMAIN (s \o t) = 1 .. (Len(s) + Len(t))
           /\ \A i \in 1 .. Len(s) : (s \o t)[i] = s[i]
           /\ \A i \in 1 .. Len(t) : (s \o t)[Len(s) + i] = t[i]
OBVIOUS

\* The headers of a session are fixed when it is dispatched.
LEMMA HeadersFacts ==
    ASSUME Typed
    PROVE  /\ Len(Headers) = (IF IsVless THEN 1 ELSE 0) + Absolute
           /\ Len(Headers) \in Nat
           /\ IsVless => Headers[1] = VlessReq
           /\ via.in = "absolute" => Headers[Len(Headers)] = Req
BY DEF Headers, Absolute, IsVless, VlessReq, Req

\* They and the replies depend on how the session came in and goes out only.
LEMMA HeadersFixed ==
    ASSUME via' = via
    PROVE  Headers' = Headers /\ IsVless' = IsVless /\ Absolute' = Absolute /\ Replies' = Replies
BY DEF Headers, IsVless, Absolute, Replies

\* A peer that turns its reading off or on again changes nothing else.
LEMMA StalledFacts ==
    ASSUME NEW s \in Sock
    PROVE  LET t == [s EXCEPT !.stalled = ~@]
           IN  t \in Sock /\ t.buf = s.buf /\ t.end = s.end
<1>1. s.buf \in Seq(Int) /\ s.end \in {"none", "eof", "reset", "error"} /\ s.stalled \in BOOLEAN
  BY DEF Sock
<1>2. (~s.stalled) \in BOOLEAN
  BY Zenon
<1>3. DOMAIN s = {"buf", "end", "stalled"}
  BY DEF Sock
<1>4. [s EXCEPT !.stalled = ~@] = [buf |-> s.buf, end |-> s.end, stalled |-> ~s.stalled]
  BY <1>3 DEF Sock
<1> DEFINE b == ~s.stalled
<1>5. b \in BOOLEAN
  BY <1>2
<1> HIDE DEF b
<1>6. [buf |-> s.buf, end |-> s.end, stalled |-> b] \in Sock
  BY <1>1, <1>5 DEF Sock
<1>7. [s EXCEPT !.stalled = ~@] \in Sock
  BY <1>4, <1>6 DEF b
<1> QED
  BY <1>3, <1>7

\* A peer that ends leaves what was received, or nothing of it.
LEMMA EndedFacts ==
    ASSUME NEW s \in Sock, NEW t \in Ended(s)
    PROVE  /\ t \in Sock /\ t.end \in {"eof", "reset", "error"}
           /\ t.buf = s.buf \/ t.buf = << >>
<1>1. << >> \in Seq(Int)
  OBVIOUS
<1>2. s.buf \in Seq(Int) /\ s.stalled \in BOOLEAN /\ DOMAIN s = {"buf", "end", "stalled"}
  BY DEF Sock
<1>3. CASE t = [s EXCEPT !.end = "eof"]
  BY <1>2, <1>3 DEF Sock
<1>4. ASSUME NEW e \in {"reset", "error"}, NEW b \in {s.buf, << >>},
             t = [s EXCEPT !.end = e, !.buf = b]
      PROVE  /\ t \in Sock /\ t.end \in {"eof", "reset", "error"}
             /\ t.buf = s.buf \/ t.buf = << >>
  <2>1. b \in Seq(Int)
    BY <1>1, <1>2
  <2> QED
    BY <1>2, <1>4, <2>1 DEF Sock
<1> QED
  BY <1>3, <1>4 DEF Ended

\* A socket with another buffer.
LEMMA BufFacts ==
    ASSUME NEW s \in Sock, NEW b \in Seq(Int)
    PROVE  LET t == [s EXCEPT !.buf = b]
           IN  t \in Sock /\ t.buf = b /\ t.end = s.end
BY DEF Sock

\* Writes fail for good: one succeeds only while the peer has not reset.
LEMMA WriteFacts ==
    ASSUME NEW s \in Sock, NEW r \in WriteResults(s)
    PROVE  /\ r \in {"ok", "closed", "error"}
           /\ r = "ok" => s.end \in {"none", "eof"}
           /\ r # "ok" => s.end \in {"reset", "error"}
           /\ UpWrite(r) \in {"goes on", "throws"}
           /\ r = "ok" => UpWrite(r) = "goes on"
<1>1. s.end \in {"none", "eof", "reset", "error"}
  BY DEF Sock
<1>2. CASE s.end = "reset"
  BY <1>2 DEF WriteResults, UpWrite
<1>3. CASE s.end = "error"
  BY <1>3 DEF WriteResults, UpWrite
<1>4. CASE s.end \in {"none", "eof"}
  BY <1>4 DEF WriteResults, UpWrite
<1> QED
  BY <1>1, <1>2, <1>3, <1>4

\* Reading takes the unit the client sent next.
LEMMA HoldsNext ==
    ASSUME Typed, NEW n \in Int, Holds(n), in.buf # << >>, sent' = sent,
           in'.buf = Tail(in.buf), in'.end = in.end
    PROVE  in.buf[1] = n + 1 /\ n + 1 <= sent.client /\ Holds(n + 1)'
<1>1. in.buf \in Seq(Int) /\ sent.client \in Nat
  BY DEF Typed, Sock
<1>2. in.buf[1] = n + 1 /\ n + 1 <= sent.client
  BY <1>1, TailFacts DEF Holds
<1>3. n + 1 + Len(in'.buf) = n + Len(in.buf)
  <2>1. Len(in'.buf) = Len(in.buf) - 1 /\ Len(in.buf) \in Nat
    BY <1>1, TailFacts
  <2> QED
    BY <2>1
<1>4. ASSUME NEW i \in DOMAIN in'.buf
      PROVE  in'.buf[i] = n + 1 + i
  <2>1. i \in Nat /\ i + 1 \in DOMAIN in.buf /\ in'.buf[i] = in.buf[i + 1]
    BY <1>1, <1>4, TailFacts
  <2>2. in.buf[i + 1] = n + (i + 1)
    BY <2>1 DEF Holds
  <2> QED
    BY <2>1, <2>2
<1> QED
  BY <1>1, <1>2, <1>3, <1>4 DEF Holds

\* Where a stream stands does not change while nobody reads it or sends.
LEMMA HoldsStill ==
    ASSUME NEW n \in Int, Holds(n), in' = in, sent' = sent
    PROVE  Holds(n)'
BY DEF Holds

\* A step that leaves the remote's units, the downward relay and the client's
\* copies alone.
LEMMA DownwardKept ==
    ASSUME IndInv, Replies' = Replies, IsVless' = IsVless,
           UNCHANGED << down, toClient >>, sent'.remote = sent.remote,
           out'.buf = out.buf, out'.end = out.end,
           pc' = pc \/ pc' = "closing",
           up'.st = up.st \/ up'.st # "idle"
    PROVE  Downward'
<1>1. HeaderAhead' = HeaderAhead /\ InHand' = InHand
  BY DEF HeaderAhead, InHand
<1>2. Taken' = Taken
  BY <1>1 DEF Taken
<1>3. DownUnit(Len(toClient) + 1)' = DownUnit(Len(toClient) + 1)
  BY DEF DownUnit
<1>4. Downward
  BY DEF IndInv
<1>5. CASE pc' = pc
  BY <1>1, <1>2, <1>3, <1>4, <1>5 DEF Downward
<1>6. CASE pc' = "closing"
  BY <1>2, <1>3, <1>4, <1>6 DEF Downward
<1> QED
  BY <1>5, <1>6

\* Dispatch moves no unit.
LEMMA DispatchInv ==
    ASSUME IndInv, Dispatch
    PROVE  IndInv'
<1>1. via' = via
  BY DEF Dispatch
<1>2. /\ Headers' = Headers /\ IsVless' = IsVless
      /\ Absolute' = Absolute /\ Replies' = Replies
  BY <1>1, HeadersFixed
<1>3. Len(Headers) \in Nat /\ Absolute \in {0, 1} /\ Replies \in {0, 1}
  BY HeadersFacts DEF IndInv, Absolute, Replies
<1>11. Typed'
  BY <1>1, <1>2, <1>3 DEF IndInv, Dispatch, Typed, Sock, Relay
<1>12. Control'
  BY <1>1, <1>2, <1>3 DEF IndInv, Dispatch, Control, Typed, Relay
<1>13. Returned'
  BY <1>1, <1>2, <1>3 DEF IndInv, Dispatch, Returned, Control, Typed, Sock, Relay
<1>14. Before'
  BY <1>1, <1>2, <1>3 DEF IndInv, Dispatch, Before, Holds, Typed, Sock
<1>15. Upward'
  BY <1>1, <1>2, <1>3 DEF IndInv, Dispatch, Upward, Control, Alive, Holds, UpUnit,
     Typed, Sock, Relay
<1>16. Downward'
  BY <1>1, <1>2, <1>3 DEF IndInv, Dispatch, Downward, Control, Typed, Sock, Relay,
     HeaderAhead, InHand, Taken, DownUnit, Idle
<1>17. UpstreamIntact'
  BY <1>1, <1>2, <1>3 DEF IndInv, Dispatch, UpstreamIntact, UpUnit, Typed
<1>18. DownstreamIntact'
  BY <1>1, <1>2, <1>3 DEF IndInv, Dispatch, DownstreamIntact, DownUnit, Typed
<1> QED
  BY <1>11, <1>12, <1>13, <1>14, <1>15, <1>16, <1>17, <1>18 DEF IndInv

\* The relays start where the handler stopped.
LEMMA StartRelaysInv ==
    ASSUME IndInv, StartRelays
    PROVE  IndInv'
<1>1. via' = via
  BY DEF StartRelays, Connected
<1>2. /\ Headers' = Headers /\ IsVless' = IsVless
      /\ Absolute' = Absolute /\ Replies' = Replies
  BY <1>1, HeadersFixed
<1>3. Len(Headers) \in Nat /\ Absolute \in {0, 1} /\ Replies \in {0, 1}
  BY HeadersFacts DEF IndInv, Absolute, Replies
<1>11. Typed'
  BY <1>1, <1>2, <1>3 DEF IndInv, StartRelays, Connected, Typed, Sock, Relay
<1>12. Control'
  BY <1>1, <1>2, <1>3 DEF IndInv, StartRelays, Connected, Control, Typed, Relay
<1>13. Returned'
  BY <1>1, <1>2, <1>3 DEF IndInv, StartRelays, Connected, Returned, Control, Typed,
     Sock, Relay
<1>14. Before'
  BY <1>1, <1>2, <1>3 DEF IndInv, StartRelays, Connected, Before, Holds, Typed, Sock
<1>15. Upward'
  BY <1>1, <1>2, <1>3 DEF IndInv, StartRelays, Connected, Upward, Control, Alive,
     Holds, UpUnit, Typed, Sock, Relay
<1>16. Downward'
  <2>1. up.st = "idle" /\ down = Idle /\ down.st = "idle" /\ pc = "head"
    BY DEF IndInv, StartRelays, Control, Downward, Idle
  <2>2. down'.st = "read" /\ down'.first_message = down.first_message /\ up'.st = "read"
    BY DEF IndInv, StartRelays, Typed, Relay
  <2>3. HeaderAhead' = HeaderAhead /\ InHand' = InHand /\ Taken' = Taken /\ Taken = 0
    <3>1. HeaderAhead' = HeaderAhead
      BY <1>2, <2>2 DEF HeaderAhead
    <3>2. InHand = 0 /\ InHand' = 0
      BY <2>1, <2>2 DEF InHand
    <3>3. Len(toClient) = Replies /\ toClient' = toClient
      BY <2>1 DEF IndInv, Downward, StartRelays
    <3> QED
      BY <1>2, <1>3, <3>1, <3>2, <3>3 DEF Taken
  <2> QED
    BY <1>2, <1>3, <2>1, <2>2, <2>3 DEF IndInv, StartRelays, Downward, Typed
<1>17. UpstreamIntact'
  BY <1>1, <1>2, <1>3 DEF IndInv, StartRelays, Connected, UpstreamIntact, UpUnit, Typed
<1>18. DownstreamIntact'
  BY <1>1, <1>2, <1>3 DEF IndInv, StartRelays, Connected, DownstreamIntact, DownUnit,
     Typed
<1> QED
  BY <1>11, <1>12, <1>13, <1>14, <1>15, <1>16, <1>17, <1>18 DEF IndInv

\* Closing the sockets moves no unit.
LEMMA CloseInv ==
    ASSUME IndInv, Close
    PROVE  IndInv'
<1>1. via' = via
  BY DEF Close
<1>2. /\ Headers' = Headers /\ IsVless' = IsVless
      /\ Absolute' = Absolute /\ Replies' = Replies
  BY <1>1, HeadersFixed
<1>3. Len(Headers) \in Nat /\ Absolute \in {0, 1} /\ Replies \in {0, 1}
  BY HeadersFacts DEF IndInv, Absolute, Replies
<1>11. Typed'
  BY <1>1, <1>2, <1>3 DEF IndInv, Close, Typed, Sock, Relay
<1>12. Control'
  BY <1>1, <1>2, <1>3 DEF IndInv, Close, Control, Typed, Relay
<1>13. Returned'
  BY <1>1, <1>2, <1>3 DEF IndInv, Close, Returned, Control, Typed, Sock, Relay
<1>14. Before'
  BY <1>1, <1>2, <1>3 DEF IndInv, Close, Before, Holds, Typed, Sock
<1>15. Upward'
  BY <1>1, <1>2, <1>3 DEF IndInv, Close, Upward, Control, Alive, Holds, UpUnit, Typed,
     Sock, Relay
<1>16. Downward'
  BY <1>1, <1>2, <1>3 DEF IndInv, Close, Downward, Control, Typed, Sock, Relay,
     HeaderAhead, InHand, Taken, DownUnit, Idle
<1>17. UpstreamIntact'
  BY <1>1, <1>2, <1>3 DEF IndInv, Close, UpstreamIntact, UpUnit, Typed
<1>18. DownstreamIntact'
  BY <1>1, <1>2, <1>3 DEF IndInv, Close, DownstreamIntact, DownUnit, Typed
<1> QED
  BY <1>11, <1>12, <1>13, <1>14, <1>15, <1>16, <1>17, <1>18 DEF IndInv

\* Nor does a client that stops reading.
LEMMA ClientStallsInv ==
    ASSUME IndInv, ClientStalls
    PROVE  IndInv'
<1>1. via' = via
  BY DEF ClientStalls
<1>2. /\ Headers' = Headers /\ IsVless' = IsVless
      /\ Absolute' = Absolute /\ Replies' = Replies
  BY <1>1, HeadersFixed
<1>3. Len(Headers) \in Nat /\ Absolute \in {0, 1} /\ Replies \in {0, 1}
  BY HeadersFacts DEF IndInv, Absolute, Replies
<1>4. in' \in Sock /\ in'.buf = in.buf /\ in'.end = in.end
  BY StalledFacts DEF IndInv, ClientStalls, Typed
<1>11. Typed'
  BY <1>1, <1>2, <1>3, <1>4 DEF IndInv, ClientStalls, Typed, Sock, Relay
<1>12. Control'
  BY <1>1, <1>2, <1>3, <1>4 DEF IndInv, ClientStalls, Control, Typed, Relay
<1>13. Returned'
  BY <1>1, <1>2, <1>3, <1>4 DEF IndInv, ClientStalls, Returned, Control, Typed, Sock,
     Relay
<1>14. Before'
  BY <1>1, <1>2, <1>3, <1>4 DEF IndInv, ClientStalls, Before, Holds, Typed, Sock
<1>15. Upward'
  BY <1>1, <1>2, <1>3, <1>4 DEF IndInv, ClientStalls, Upward, Control, Alive, Holds,
     UpUnit, Typed, Sock, Relay
<1>16. Downward'
  <2>1. UNCHANGED << pc, out, up, down, toClient, sent >>
    BY DEF ClientStalls
  <2> QED
    BY <1>2, <2>1, DownwardKept
<1>17. UpstreamIntact'
  BY <1>1, <1>2, <1>3, <1>4 DEF IndInv, ClientStalls, UpstreamIntact, UpUnit, Typed
<1>18. DownstreamIntact'
  BY <1>1, <1>2, <1>3, <1>4 DEF IndInv, ClientStalls, DownstreamIntact, DownUnit, Typed
<1> QED
  BY <1>11, <1>12, <1>13, <1>14, <1>15, <1>16, <1>17, <1>18 DEF IndInv

\* Nor a remote.
LEMMA RemoteStallsInv ==
    ASSUME IndInv, RemoteStalls
    PROVE  IndInv'
<1>1. via' = via
  BY DEF RemoteStalls, Connected
<1>2. /\ Headers' = Headers /\ IsVless' = IsVless
      /\ Absolute' = Absolute /\ Replies' = Replies
  BY <1>1, HeadersFixed
<1>3. Len(Headers) \in Nat /\ Absolute \in {0, 1} /\ Replies \in {0, 1}
  BY HeadersFacts DEF IndInv, Absolute, Replies
<1>4. out' \in Sock /\ out'.buf = out.buf /\ out'.end = out.end
  BY StalledFacts DEF IndInv, RemoteStalls, Typed
<1>11. Typed'
  BY <1>1, <1>2, <1>3, <1>4 DEF IndInv, RemoteStalls, Connected, Typed, Sock, Relay
<1>12. Control'
  BY <1>1, <1>2, <1>3, <1>4 DEF IndInv, RemoteStalls, Connected, Control, Typed, Relay
<1>13. Returned'
  BY <1>1, <1>2, <1>3, <1>4 DEF IndInv, RemoteStalls, Connected, Returned, Control,
     Typed, Sock, Relay
<1>14. Before'
  BY <1>1, <1>2, <1>3, <1>4 DEF IndInv, RemoteStalls, Connected, Before, Holds, Typed,
     Sock
<1>15. Upward'
  BY <1>1, <1>2, <1>3, <1>4 DEF IndInv, RemoteStalls, Connected, Upward, Control,
     Alive, Holds, UpUnit, Typed, Sock, Relay
<1>16. Downward'
  <2>1. UNCHANGED << pc, up, down, toClient, sent >>
    BY DEF RemoteStalls
  <2> QED
    BY <1>2, <1>4, <2>1, DownwardKept
<1>17. UpstreamIntact'
  BY <1>1, <1>2, <1>3, <1>4 DEF IndInv, RemoteStalls, Connected, UpstreamIntact,
     UpUnit, Typed
<1>18. DownstreamIntact'
  BY <1>1, <1>2, <1>3, <1>4 DEF IndInv, RemoteStalls, Connected, DownstreamIntact,
     DownUnit, Typed
<1> QED
  BY <1>11, <1>12, <1>13, <1>14, <1>15, <1>16, <1>17, <1>18 DEF IndInv

\* A reset may discard what the client sent; nothing is appended to the gap.
LEMMA ClientEndsInv ==
    ASSUME IndInv, ClientEnds
    PROVE  IndInv'
<1>1. via' = via
  BY DEF ClientEnds
<1>2. /\ Headers' = Headers /\ IsVless' = IsVless
      /\ Absolute' = Absolute /\ Replies' = Replies
  BY <1>1, HeadersFixed
<1>3. Len(Headers) \in Nat /\ Absolute \in {0, 1} /\ Replies \in {0, 1}
  BY HeadersFacts DEF IndInv, Absolute, Replies
<1>4. /\ in' \in Sock /\ in'.end \in {"eof", "reset", "error"} /\ in.end = "none"
      /\ in'.buf = in.buf \/ in'.buf = << >>
  BY EndedFacts DEF IndInv, ClientEnds, Typed
<1>5. UNCHANGED << via, pc, out, head, up, down, toRemote, toClient, sent, dropped >>
  BY DEF ClientEnds
<1>7. in.buf \in Seq(Int) /\ sent.client \in Nat
  BY DEF IndInv, Typed, Sock
<1>6. \A n \in Int : Holds(n) => Holds(n)'
  <2> SUFFICES ASSUME NEW n \in Int, Holds(n) PROVE Holds(n)'
    OBVIOUS
  <2>1. CASE in'.buf = in.buf
    BY <1>4, <1>5, <1>7, <2>1 DEF Holds
  <2>2. CASE in'.buf = << >>
    BY <1>4, <1>5, <1>7, <2>2 DEF Holds
  <2> QED
    BY <1>4, <2>1, <2>2
<1>11. Typed'
  BY <1>1, <1>2, <1>3, <1>4 DEF IndInv, ClientEnds, Typed, Sock, Relay
<1>12. Control'
  BY <1>1, <1>2, <1>3, <1>4 DEF IndInv, ClientEnds, Control, Typed, Relay
<1>13. Returned'
  BY <1>1, <1>2, <1>3, <1>4 DEF IndInv, ClientEnds, Returned, Control, Typed, Sock,
     Relay
<1>14. Before'
  <2>1. Len(in'.buf) <= Len(in.buf) /\ \A i \in DOMAIN in'.buf : i \in DOMAIN in.buf /\ in'.buf[i] = in.buf[i]
    BY <1>4, <1>7
  <2>2. CASE pc = "handshake"
    BY <1>4, <1>5, <1>7, <2>1, <2>2 DEF IndInv, Before, Sock
  <2>3. CASE pc \in {"dispatch", "sniff", "connect"}
    <3> DEFINE n == dropped + (Len(head) - Absolute)
    <3>1. n \in Int /\ n' = n
      BY <1>2, <1>3, <1>5 DEF IndInv, Typed
    <3>2. Holds(n)
      BY <2>3 DEF IndInv, Before
    <3> HIDE DEF n
    <3>3. Holds(n)'
      BY <1>6, <3>1, <3>2 DEF Holds
    <3> QED
      BY <1>2, <1>5, <2>3, <3>3 DEF IndInv, Before, n
  <2>4. CASE pc \in {"head", "relay", "closing", "over"}
    BY <1>5, <2>4 DEF Before
  <2> QED
    BY <2>2, <2>3, <2>4 DEF IndInv, Typed
<1>15. Upward'
  BY <1>2, <1>3, <1>4, <1>5, <1>6 DEF IndInv, Upward, Alive, UpUnit, Typed
<1>16. Downward'
  <2>1. /\ UNCHANGED << out, down, toClient >> /\ pc' = pc
        /\ up'.st = up.st /\ sent'.remote = sent.remote
    BY <1>5
  <2> QED
    BY <1>2, <2>1, DownwardKept
<1>17. UpstreamIntact'
  BY <1>1, <1>2, <1>3, <1>4 DEF IndInv, ClientEnds, UpstreamIntact, UpUnit, Typed
<1>18. DownstreamIntact'
  BY <1>1, <1>2, <1>3, <1>4 DEF IndInv, ClientEnds, DownstreamIntact, DownUnit, Typed
<1> QED
  BY <1>11, <1>12, <1>13, <1>14, <1>15, <1>16, <1>17, <1>18 DEF IndInv

\* The same for the remote, which no write reaches after a reset.
LEMMA RemoteEndsInv ==
    ASSUME IndInv, RemoteEnds
    PROVE  IndInv'
<1>1. via' = via
  BY DEF RemoteEnds, Connected
<1>2. /\ Headers' = Headers /\ IsVless' = IsVless
      /\ Absolute' = Absolute /\ Replies' = Replies
  BY <1>1, HeadersFixed
<1>3. Len(Headers) \in Nat /\ Absolute \in {0, 1} /\ Replies \in {0, 1}
  BY HeadersFacts DEF IndInv, Absolute, Replies
<1>4. /\ out' \in Sock /\ out'.end \in {"eof", "reset", "error"} /\ out.end = "none"
      /\ out'.buf = out.buf \/ out'.buf = << >>
  BY EndedFacts DEF IndInv, RemoteEnds, Typed
<1>5. pc \in {"head", "relay"} /\ UNCHANGED << via, pc, in, head, up, down, toRemote, toClient, sent, dropped >>
  BY DEF RemoteEnds, Connected
<1>11. Typed'
  BY <1>1, <1>2, <1>3, <1>4 DEF IndInv, RemoteEnds, Connected, Typed, Sock, Relay
<1>12. Control'
  BY <1>1, <1>2, <1>3, <1>4 DEF IndInv, RemoteEnds, Connected, Control, Typed, Relay
<1>13. Returned'
  BY <1>1, <1>2, <1>3, <1>4 DEF IndInv, RemoteEnds, Connected, Returned, Control,
     Typed, Sock, Relay
<1>14. Before'
  BY <1>1, <1>2, <1>3, <1>4 DEF IndInv, RemoteEnds, Connected, Before, Holds, Typed,
     Sock
<1>15. Upward'
  BY <1>1, <1>2, <1>3, <1>4 DEF IndInv, RemoteEnds, Connected, Upward, Control, Alive,
     Holds, UpUnit, Typed, Sock, Relay
<1>16. Downward'
  <2>1. \A i \in DOMAIN out'.buf : i \in DOMAIN out.buf /\ out'.buf[i] = out.buf[i]
    BY <1>4
  <2>2. HeaderAhead' = HeaderAhead /\ InHand' = InHand /\ Taken' = Taken
    BY <1>2, <1>5 DEF HeaderAhead, InHand, Taken
  <2>3. \A i \in DOMAIN out'.buf : i \in Nat /\ \A j \in 1 .. i : out'.buf[j] = out.buf[j]
    BY <1>4, <2>1 DEF Sock
  <2> QED
    BY <1>2, <1>4, <1>5, <2>1, <2>2, <2>3 DEF IndInv, Downward, DownUnit
<1>17. UpstreamIntact'
  BY <1>1, <1>2, <1>3, <1>4 DEF IndInv, RemoteEnds, Connected, UpstreamIntact, UpUnit,
     Typed
<1>18. DownstreamIntact'
  BY <1>1, <1>2, <1>3, <1>4 DEF IndInv, RemoteEnds, Connected, DownstreamIntact,
     DownUnit, Typed
<1> QED
  BY <1>11, <1>12, <1>13, <1>14, <1>15, <1>16, <1>17, <1>18 DEF IndInv

\* A unit of the client goes to the end of what the socket holds.
LEMMA ClientSendsInv ==
    ASSUME IndInv, ClientSends
    PROVE  IndInv'
<1>1. via' = via
  BY DEF ClientSends
<1>2. /\ Headers' = Headers /\ IsVless' = IsVless
      /\ Absolute' = Absolute /\ Replies' = Replies
  BY <1>1, HeadersFixed
<1>3. Len(Headers) \in Nat /\ Absolute \in {0, 1} /\ Replies \in {0, 1}
  BY HeadersFacts DEF IndInv, Absolute, Replies
<1>4. /\ in.buf \in Seq(Int) /\ sent.client \in Nat /\ in.end = "none"
      /\ UNCHANGED << via, pc, out, head, up, down, toRemote, toClient, dropped >>
  BY DEF IndInv, ClientSends, Typed, Sock
<1>5. /\ in' \in Sock /\ in'.buf = Append(in.buf, sent.client + 1) /\ in'.end = in.end
      /\ sent' \in [client : Nat, remote : Nat]
      /\ sent'.client = sent.client + 1 /\ sent'.remote = sent.remote
  <2>1. Append(in.buf, sent.client + 1) \in Seq(Int)
    BY <1>4
  <2>2. in \in Sock /\ in' = [in EXCEPT !.buf = Append(in.buf, sent.client + 1)]
    BY DEF IndInv, Typed, Sock, ClientSends
  <2>3. in' \in Sock /\ in'.buf = Append(in.buf, sent.client + 1) /\ in'.end = in.end
    BY <2>1, <2>2, BufFacts
  <2>4. /\ sent \in [client : Nat, remote : Nat]
        /\ sent' = [sent EXCEPT !.client = sent.client + 1]
    BY DEF IndInv, ClientSends, Typed
  <2>5. /\ sent' \in [client : Nat, remote : Nat]
        /\ sent'.client = sent.client + 1 /\ sent'.remote = sent.remote
    BY <2>4
  <2> QED
    BY <2>3, <2>5
<1>6. \A n \in Int : Holds(n) => Holds(n)'
  BY <1>4, <1>5, AppendFacts DEF Holds
<1>11. Typed'
  BY <1>1, <1>2, <1>3, <1>4, <1>5, <1>6 DEF IndInv, ClientSends, Typed, Sock, Relay
<1>12. Control'
  BY <1>1, <1>2, <1>3, <1>4, <1>5, <1>6 DEF IndInv, ClientSends, Control, Typed, Relay
<1>13. Returned'
  BY <1>1, <1>2, <1>3, <1>4, <1>5, <1>6 DEF IndInv, ClientSends, Returned, Control,
     Typed, Sock, Relay
<1>14. Before'
  <2>2. CASE pc = "handshake"
    <3>1. /\ DOMAIN in'.buf = 1 .. (Len(in.buf) + 1) /\ DOMAIN in.buf = 1 .. Len(in.buf)
          /\ Len(in'.buf) = Len(in.buf) + 1 /\ Len(in.buf) = sent.client + 1
          /\ in'.buf[Len(in.buf) + 1] = sent.client + 1
          /\ \A i \in DOMAIN in.buf : in'.buf[i] = in.buf[i]
      BY <1>4, <1>5, <2>2, AppendFacts DEF IndInv, Before
    <3> QED
      BY <1>4, <1>5, <2>2, <3>1 DEF IndInv, Before, Req
  <2>3. CASE pc \in {"dispatch", "sniff", "connect"}
    <3> DEFINE n == dropped + (Len(head) - Absolute)
    <3>1. n \in Int /\ n' = n
      BY <1>2, <1>3, <1>4 DEF IndInv, Typed
    <3>2. Holds(n)
      BY <2>3 DEF IndInv, Before
    <3> HIDE DEF n
    <3>3. Holds(n)'
      BY <1>6, <3>1, <3>2 DEF Holds
    <3> QED
      BY <1>2, <1>4, <2>3, <3>3 DEF IndInv, Before, n
  <2>4. CASE pc \in {"head", "relay", "closing", "over"}
    BY <1>4, <2>4 DEF Before
  <2> QED
    BY <2>2, <2>3, <2>4 DEF IndInv, Typed
<1>15. Upward'
  BY <1>2, <1>3, <1>4, <1>5, <1>6 DEF IndInv, Upward, Alive, UpUnit, Typed
<1>16. Downward'
  <2>1. /\ UNCHANGED << out, down, toClient >> /\ pc' = pc
        /\ up'.st = up.st /\ sent'.remote = sent.remote
    BY <1>4, <1>5
  <2> QED
    BY <1>2, <2>1, DownwardKept
<1>17. UpstreamIntact'
  BY <1>1, <1>2, <1>3, <1>4, <1>5, <1>6 DEF IndInv, ClientSends, UpstreamIntact,
     UpUnit, Typed
<1>18. DownstreamIntact'
  BY <1>1, <1>2, <1>3, <1>4, <1>5, <1>6 DEF IndInv, ClientSends, DownstreamIntact,
     DownUnit, Typed
<1> QED
  BY <1>11, <1>12, <1>13, <1>14, <1>15, <1>16, <1>17, <1>18 DEF IndInv

\* The VLESS request goes in front of the initial payload.
LEMMA ConnectInv ==
    ASSUME IndInv, Connect
    PROVE  IndInv'
<1>1. via' = via
  BY DEF Connect
<1>2. /\ Headers' = Headers /\ IsVless' = IsVless
      /\ Absolute' = Absolute /\ Replies' = Replies
  BY <1>1, HeadersFixed
<1>3. Len(Headers) \in Nat /\ Absolute \in {0, 1} /\ Replies \in {0, 1}
  BY HeadersFacts DEF IndInv, Absolute, Replies
<1>11. Typed'
  <2>1. << VlessReq >> \o head \in Seq(Int)
    BY DEF IndInv, Typed, VlessReq
  <2> QED
    BY <2>1 DEF IndInv, Connect, Typed
<1>12. Control'
  BY <1>1, <1>2, <1>3 DEF IndInv, Connect, Control, Typed, Relay
<1>13. Returned'
  BY <1>1, <1>2, <1>3 DEF IndInv, Connect, Returned, Control, Typed, Sock, Relay
<1>14. Before'
  BY <1>1, <1>2, <1>3 DEF IndInv, Connect, Before, Holds, Typed, Sock
<1>15. Upward'
  <2>1. SUFFICES ASSUME pc' = "head" PROVE Upward'
    BY DEF IndInv, Connect, Control, Upward
  <2>2. /\ head \in Seq(Int) /\ toRemote = << >> /\ dropped \in Nat /\ Len(toRemote) = 0
        /\ UNCHANGED << via, in, out, up, down, toRemote, sent, dropped >> /\ up.st = "idle"
        /\ head' = IF IsVless THEN << VlessReq >> \o head ELSE head
    BY <2>1 DEF IndInv, Connect, Typed, Before, Control
  <2>3. PICK v \in {0, 1}, H \in Nat, A \in {0, 1}, L \in Nat, d \in Nat :
           /\ v = (IF IsVless THEN 1 ELSE 0) /\ A = Absolute /\ H = Len(Headers)
           /\ L = Len(head) /\ d = dropped
    BY <1>3, <2>2
  <2>4. /\ H = v + A
        /\ v = 1 => Headers[1] = VlessReq
        /\ A = 1 => Headers[v + 1] = Req
    BY <2>3, HeadersFacts DEF IndInv, Absolute
  <2>5. /\ Len(head') = v + L
        /\ v = 1 => head'[1] = VlessReq
        /\ \A i \in 1 .. L : head'[v + i] = head[i]
        /\ DOMAIN head' = 1 .. (v + L)
    <3>1. CASE IsVless
      <4> DEFINE h == << VlessReq >>
      <4>1. h \in Seq(Int) /\ Len(h) = 1 /\ h[1] = VlessReq
        BY DEF VlessReq
      <4> HIDE DEF h
      <4>2. head' = h \o head
        BY <2>2, <3>1 DEF h
      <4> QED
        BY <2>2, <2>3, <3>1, <4>1, <4>2
    <3>2. CASE ~IsVless
      BY <2>2, <2>3, <3>2
    <3> QED
      BY <3>1, <3>2
  <2>6. /\ L >= A /\ Holds(d + (L - A))
        /\ \A i \in 1 .. L : head[i] = IF i <= A THEN Req ELSE d + (i - A)
    <3>1. /\ Len(head) >= Absolute /\ Holds(dropped + (Len(head) - Absolute))
          /\ \A i \in DOMAIN head :
                head[i] = IF i <= Absolute THEN Req ELSE dropped + (i - Absolute)
      BY DEF IndInv, Connect, Before
    <3>2. DOMAIN head = 1 .. L
      BY <2>2, <2>3
    <3> QED
      BY <2>3, <3>1, <3>2
  <2>7. Holds(d + (L - A))'
    BY <2>2, <2>3, <2>6, HoldsStill
  <2>8. d + (Len(toRemote') + Len(head') - Len(Headers')) = d + (L - A)
    <3>1. Len(toRemote') = 0 /\ Len(head') = v + L /\ Len(Headers') = v + A
      BY <1>2, <2>2, <2>3, <2>4, <2>5
    <3>2. 0 + (v + L) - (v + A) = L - A
      BY <2>3
    <3> QED
      BY <3>1, <3>2
  <2>9. ASSUME NEW i \in DOMAIN head' PROVE head'[i] = UpUnit(i)
    <3>1. i \in 1 .. (v + L)
      BY <2>5, <2>9
    <3>2. CASE i <= v
      <4>1. i = 1 /\ v = 1
        BY <2>3, <3>1, <3>2
      <4>2. 1 <= Len(Headers)
        BY <2>3, <2>4, <4>1
      <4> QED
        BY <2>4, <2>5, <4>1, <4>2 DEF UpUnit
    <3>3. CASE ~(i <= v)
      <4>1. PICK k \in 1 .. L : i = v + k
        <5>1. i - v \in 1 .. L /\ i = v + (i - v)
          BY <2>3, <3>1, <3>3
        <5> QED
          BY <5>1
      <4>2. head'[i] = IF k <= A THEN Req ELSE d + (k - A)
        BY <2>5, <2>6, <4>1
      <4>3. CASE k <= A
        <5>1. k = 1 /\ A = 1 /\ i = v + 1 /\ i <= Len(Headers)
          BY <2>3, <2>4, <4>1, <4>3
        <5> QED
          BY <2>4, <4>2, <4>3, <5>1 DEF UpUnit
      <4>4. CASE ~(k <= A)
        <5>1. ~(i <= Len(Headers)) /\ d + (k - A) = dropped + (i - Len(Headers))
          BY <2>3, <2>4, <4>1, <4>4
        <5> QED
          BY <4>2, <4>4, <5>1 DEF UpUnit
      <4> QED
        BY <4>3, <4>4
    <3> QED
      BY <3>2, <3>3
  <2>10. \A i \in DOMAIN head' : head'[i] = UpUnit(Len(toRemote) + i)'
    <3>1. \A i \in DOMAIN head' : Len(toRemote') + i = i
      BY <2>2, <2>5
    <3>2. \A i : UpUnit(i)' = UpUnit(i)
      BY <1>2, <2>2 DEF UpUnit
    <3> QED
      BY <2>9, <3>1, <3>2
  <2>11. Holds(dropped + (Len(toRemote) + Len(head) - Len(Headers)))'
    BY <2>2, <2>3, <2>7, <2>8 DEF Holds
  <2>12. Len(toRemote') + Len(head') >= Len(Headers')
    BY <1>2, <2>2, <2>3, <2>4, <2>5, <2>6
  <2> QED
    BY <2>1, <2>2, <2>10, <2>11, <2>12 DEF Upward
<1>16. Downward'
  BY <1>1, <1>2, <1>3 DEF IndInv, Connect, Downward, Control, Typed, Sock, Relay,
     HeaderAhead, InHand, Taken, DownUnit, Idle
<1>17. UpstreamIntact'
  BY <1>1, <1>2, <1>3 DEF IndInv, Connect, UpstreamIntact, UpUnit, Typed
<1>18. DownstreamIntact'
  BY <1>1, <1>2, <1>3 DEF IndInv, Connect, DownstreamIntact, DownUnit, Typed
<1> QED
  BY <1>11, <1>12, <1>13, <1>14, <1>15, <1>16, <1>17, <1>18 DEF IndInv

\* One unit of the head reaches the remote, or is lost together with all that follow.
LEMMA WriteHeadInv ==
    ASSUME IndInv, WriteHead
    PROVE  IndInv'
<1>1. via' = via
  BY DEF WriteHead
<1>2. /\ Headers' = Headers /\ IsVless' = IsVless
      /\ Absolute' = Absolute /\ Replies' = Replies
  BY <1>1, HeadersFixed
<1>3. Len(Headers) \in Nat /\ Absolute \in {0, 1} /\ Replies \in {0, 1}
  BY HeadersFacts DEF IndInv, Absolute, Replies
<1>4. PICK r \in WriteResults(out) :
          /\ toRemote' = IF r = "ok" THEN Append(toRemote, Head(head)) ELSE toRemote
          /\ IF UpWrite(r) = "goes on"
             THEN head' = Tail(head) /\ UNCHANGED pc
             ELSE pc' = "closing" /\ UNCHANGED head
  BY DEF WriteHead
<1>5. /\ pc = "head" /\ head # << >>
      /\ UNCHANGED << via, in, out, up, down, toClient, sent, dropped >>
  BY DEF WriteHead
<1>6. /\ r = "ok" => out.end \in {"none", "eof"} /\ UpWrite(r) = "goes on"
      /\ r # "ok" => out.end \in {"reset", "error"}
  BY WriteFacts DEF IndInv, Typed
<1>7. /\ head \in Seq(Int) /\ toRemote \in Seq(Int) /\ dropped \in Nat /\ sent.client \in Nat
      /\ up.st = "idle"
  BY <1>5 DEF IndInv, Typed, Control
<1>8. /\ Tail(head) \in Seq(Int) /\ Head(head) = head[1] /\ head[1] \in Int /\ Len(head) >= 1
      /\ Append(toRemote, Head(head)) \in Seq(Int)
  BY <1>5, <1>7, TailFacts
<1>11. Typed'
  BY <1>4, <1>5, <1>7, <1>8 DEF IndInv, Typed
<1>12. Control'
  BY <1>4, <1>5, <1>7 DEF IndInv, Control
<1>13. Returned'
  BY <1>5 DEF IndInv, Returned
<1>14. Before'
  BY <1>4, <1>5 DEF Before
<1>15. Upward'
  <2>1. CASE r # "ok"
    BY <1>5, <1>6, <1>7, <2>1 DEF Upward, Alive
  <2>2. CASE r = "ok"
    <3>1. PICK T \in Nat, L \in Nat, H \in Nat, d \in Nat :
             T = Len(toRemote) /\ L = Len(head) /\ H = Len(Headers) /\ d = dropped
      BY <1>3, <1>7
    <3>2. /\ T + L >= H
          /\ \A i \in 1 .. L : head[i] = UpUnit(T + i)
          /\ Holds(d + (T + L - H))
      <4>1. /\ Len(toRemote) + Len(head) >= Len(Headers)
            /\ \A i \in DOMAIN head : head[i] = UpUnit(Len(toRemote) + i)
            /\ Holds(dropped + (Len(toRemote) + Len(head) - Len(Headers)))
        BY <1>5, <1>6, <2>2 DEF IndInv, Upward, Alive
      <4>2. DOMAIN head = 1 .. L
        BY <1>7, <3>1
      <4> QED
        BY <3>1, <4>1, <4>2
    <3>3. /\ toRemote' = Append(toRemote, Head(head)) /\ head' = Tail(head) /\ pc' = pc
      BY <1>4, <1>6, <2>2
    <3>4. L >= 1 /\ Len(toRemote') = T + 1 /\ Len(head') = L - 1
      BY <1>5, <1>7, <1>8, <3>1, <3>3, TailFacts, AppendFacts
    <3>5. Holds(d + (T + L - H))'
      BY <1>5, <3>1, <3>2, HoldsStill
    <3>6. Len(toRemote') + Len(head') = T + L
      BY <3>1, <3>4
    <3>7. ASSUME NEW i \in DOMAIN head' PROVE head'[i] = UpUnit(Len(toRemote') + i)
      <4>1. i \in Nat /\ i + 1 \in 1 .. L /\ head'[i] = head[i + 1]
        BY <1>5, <1>7, <3>1, <3>3, <3>7, TailFacts
      <4>2. T + (i + 1) = Len(toRemote') + i
        <5>1. T \in Nat /\ i \in Nat /\ Len(toRemote') = T + 1
          BY <3>4, <4>1
        <5> QED
          BY <5>1, Shift
      <4> QED
        BY <3>2, <4>1, <4>2
    <3>8. Holds(dropped + (Len(toRemote) + Len(head) - Len(Headers)))'
      <4>1. dropped' + (Len(toRemote') + Len(head') - Len(Headers')) = d + (T + L - H)
        BY <1>2, <1>5, <3>1, <3>6
      <4> QED
        BY <3>5, <4>1 DEF Holds
    <3>9. Len(toRemote') + Len(head') >= Len(Headers')
      BY <1>2, <3>1, <3>2, <3>6
    <3>10. \A i \in DOMAIN head' : head'[i] = UpUnit(Len(toRemote) + i)'
      BY <1>2, <1>5, <3>7 DEF UpUnit
    <3> QED
      BY <1>5, <1>7, <3>3, <3>8, <3>9, <3>10 DEF Upward
  <2> QED
    BY <2>1, <2>2
<1>16. Downward'
  <2>1. /\ UNCHANGED << out, down, toClient >> /\ (pc' = pc \/ pc' = "closing")
        /\ up'.st = up.st /\ sent'.remote = sent.remote
    BY <1>4, <1>5
  <2> QED
    BY <1>2, <2>1, DownwardKept
<1>17. UpstreamIntact'
  <2>1. CASE r # "ok"
    BY <1>2, <1>4, <1>5, <2>1 DEF IndInv, UpstreamIntact, UpUnit
  <2>2. CASE r = "ok"
    <3>1. /\ Len(toRemote) + Len(head) >= Len(Headers)
          /\ \A i \in DOMAIN head : head[i] = UpUnit(Len(toRemote) + i)
          /\ dropped + (Len(toRemote) + Len(head) - Len(Headers)) + Len(in.buf) <= sent.client
          /\ in.buf \in Seq(Int)
      BY <1>5, <1>6, <2>2 DEF IndInv, Upward, Alive, Holds, Typed, Sock
    <3>2. toRemote' = Append(toRemote, head[1]) /\ head[1] = UpUnit(Len(toRemote) + 1)
      BY <1>4, <1>5, <1>7, <1>8, <2>2, <3>1, TailFacts
    <3>3. \A i \in DOMAIN toRemote' : toRemote'[i] = UpUnit(i)
      BY <1>7, <1>8, <3>2, AppendFacts DEF IndInv, UpstreamIntact
    <3>4. dropped + (Len(toRemote') - Len(Headers)) <= sent.client
      <4>1. Len(in.buf) \in Nat /\ Len(toRemote') = Len(toRemote) + 1 /\ Len(head) \in Nat /\ Len(toRemote) \in Nat
        BY <1>7, <1>8, <3>1, <3>2
      <4>2. PICK T \in Nat, L \in Nat, H \in Nat, B \in Nat :
               T = Len(toRemote) /\ L = Len(head) /\ H = Len(Headers) /\ B = Len(in.buf)
        BY <1>3, <4>1
      <4>3. L >= 1 /\ dropped + (T + L - H) + B <= sent.client
        BY <1>8, <3>1, <4>2
      <4>4. dropped + (T + 1 - H) <= sent.client
        <5>1. PICK d \in Nat, c \in Nat : d = dropped /\ c = sent.client
          BY <1>7
        <5>2. d + (T + L - H) + B <= c /\ L >= 1
          BY <4>3, <5>1
        <5>3. \A x, y, z, w, b \in Int :
                 x + (y + z - w) + b <= c /\ z >= 1 /\ b >= 0 => x + (y + 1 - w) <= c
          OBVIOUS
        <5>4. d + (T + 1 - H) <= c
          BY <5>2, <5>3
        <5> QED
          BY <5>1, <5>4
      <4> QED
        BY <4>1, <4>2, <4>4
    <3> QED
      BY <1>2, <1>5, <3>3, <3>4 DEF IndInv, UpstreamIntact, UpUnit
  <2> QED
    BY <2>1, <2>2
<1>18. DownstreamIntact'
  BY <1>1, <1>2, <1>3 DEF IndInv, WriteHead, DownstreamIntact, DownUnit, Typed
<1> QED
  BY <1>11, <1>12, <1>13, <1>14, <1>15, <1>16, <1>17, <1>18 DEF IndInv

\* The upward relay takes the next unit, or ends because the client did.
LEMMA UpReadInv ==
    ASSUME IndInv, UpRead
    PROVE  IndInv'
<1>1. via' = via
  BY DEF UpRead
<1>2. /\ Headers' = Headers /\ IsVless' = IsVless
      /\ Absolute' = Absolute /\ Replies' = Replies
  BY <1>1, HeadersFixed
<1>3. Len(Headers) \in Nat
  BY HeadersFacts DEF IndInv
<1>4. /\ pc = "relay" /\ up.st = "read" /\ up \in Relay /\ in \in Sock /\ in.buf \in Seq(Int)
      /\ UNCHANGED << via, out, head, down, toRemote, toClient, sent, dropped >>
      /\ toRemote \in Seq(Int) /\ dropped \in Nat /\ sent.client \in Nat
  BY DEF IndInv, UpRead, Typed, Sock
<1>5. /\ pc' \in {"relay", "closing"}
      /\ pc' = "closing" => Settled(up', down')
  BY <1>4 DEF UpRead, Settle
<1>6. \/ /\ in.buf # << >>
         /\ in' \in Sock /\ in'.buf = Tail(in.buf) /\ in'.end = in.end
         /\ up' \in Relay /\ up'.st = "write" /\ up'.unit = in.buf[1]
      \/ /\ in' = in /\ in.end # "none"
         /\ up' \in Relay /\ up'.st \in {"done", "threw"}
  <2>1. CASE in.buf # << >>
    <3>1. /\ up' = [up EXCEPT !.st = "write", !.unit = Head(in.buf)]
          /\ in' = [in EXCEPT !.buf = Tail(in.buf)]
      BY <2>1 DEF UpRead
    <3>2. Tail(in.buf) \in Seq(Int) /\ Head(in.buf) = in.buf[1] /\ in.buf[1] \in Int
      BY <1>4, <2>1, TailFacts
    <3>3. in' \in Sock /\ in'.buf = Tail(in.buf) /\ in'.end = in.end
      BY <1>4, <3>1, <3>2, BufFacts
    <3>4. up' \in Relay /\ up'.st = "write" /\ up'.unit = in.buf[1]
      BY <1>4, <3>1, <3>2 DEF Relay
    <3> QED
      BY <2>1, <3>3, <3>4
  <2>2. CASE in.buf = << >>
    BY <1>4, <2>2 DEF UpRead, Afterwards, Relay
  <2> QED
    BY <2>1, <2>2
<1>7. up'.st # "idle" /\ up'.st # "read" /\ (in.end # "none" => in'.end # "none")
  BY <1>6
<1>11. Typed'
  BY <1>4, <1>5, <1>6 DEF IndInv, Typed
<1>12. Control'
  BY <1>4, <1>5, <1>7 DEF IndInv, Control, Settled
<1>13. Returned'
  BY <1>4, <1>6 DEF IndInv, Returned
<1>14. Before'
  BY <1>5 DEF Before
<1>15. Upward'
  <2>1. CASE up'.st # "write" \/ ~Alive
    BY <1>4, <1>5, <1>7, <2>1 DEF Upward, Alive
  <2>2. CASE up'.st = "write" /\ Alive
    <3>1. PICK T \in Nat, H \in Nat, d \in Nat :
             T = Len(toRemote) /\ H = Len(Headers) /\ d = dropped
      BY <1>3, <1>4
    <3>2. T >= H /\ Holds(d + (T - H))
      BY <1>4, <2>2, <3>1 DEF IndInv, Upward
    <3>3. d + (T - H) \in Int
      BY <3>1
    <3>4. /\ in.buf[1] = d + (T - H) + 1 /\ d + (T - H) + 1 <= sent.client
          /\ Holds(d + (T - H) + 1)'
      BY <1>4, <1>6, <2>2, <3>2, <3>3, HoldsNext DEF IndInv
    <3>5. d + (T - H) + 1 = d + (T + 1 - H) /\ ~(T + 1 <= H)
      BY <3>1, <3>2
    <3>6. dropped' + (Len(toRemote') + 1 - Len(Headers')) = d + (T - H) + 1
      BY <1>2, <1>4, <3>1, <3>5
    <3>7. up'.unit = UpUnit(Len(toRemote) + 1)'
      BY <1>2, <1>4, <1>6, <2>2, <3>1, <3>4, <3>5 DEF UpUnit
    <3>8. Holds(dropped + (Len(toRemote) + 1 - Len(Headers)))'
      BY <3>4, <3>6 DEF Holds
    <3>9. Len(toRemote') >= Len(Headers')
      BY <1>2, <1>4, <3>1, <3>2
    <3>10. dropped' + (Len(toRemote') + 1 - Len(Headers')) <= sent'.client
      BY <1>4, <3>4, <3>6
    <3> QED
      BY <1>5, <1>7, <3>7, <3>8, <3>9, <3>10 DEF Upward
  <2> QED
    BY <2>1, <2>2
<1>16. Downward'
  <2>1. /\ UNCHANGED << out, down, toClient >> /\ (pc' = pc \/ pc' = "closing")
        /\ up'.st # "idle" /\ sent'.remote = sent.remote
    BY <1>4, <1>5, <1>7
  <2> QED
    BY <1>2, <2>1, DownwardKept
<1>17. UpstreamIntact'
  BY <1>2, <1>4 DEF IndInv, UpstreamIntact, UpUnit
<1>18. DownstreamIntact'
  BY <1>2, <1>4 DEF IndInv, DownstreamIntact, DownUnit
<1> QED
  BY <1>11, <1>12, <1>13, <1>14, <1>15, <1>16, <1>17, <1>18 DEF IndInv

\* The unit in hand is the next one, and reaches the remote or fails for good.
LEMMA UpWriteDoneInv ==
    ASSUME IndInv, UpWriteDone
    PROVE  IndInv'
<1>1. via' = via
  BY DEF UpWriteDone
<1>2. /\ Headers' = Headers /\ IsVless' = IsVless
      /\ Absolute' = Absolute /\ Replies' = Replies
  BY <1>1, HeadersFixed
<1>3. Len(Headers) \in Nat
  BY HeadersFacts DEF IndInv
<1>4. /\ pc \in {"relay", "closing"} /\ up.st = "write" /\ up \in Relay /\ up.unit \in Int
      /\ UNCHANGED << via, in, out, head, down, toClient, sent, dropped >>
      /\ toRemote \in Seq(Int) /\ dropped \in Nat /\ sent.client \in Nat /\ out \in Sock
  BY DEF IndInv, UpWriteDone, Typed, Relay
<1>5. PICK r \in WriteResults(out) :
          /\ toRemote' = IF r = "ok" THEN Append(toRemote, up.unit) ELSE toRemote
          /\ up' = IF UpWrite(r) = "throws" THEN [up EXCEPT !.st = "threw"]
                   ELSE WriteOver(up)
  BY DEF UpWriteDone
<1>6. /\ r = "ok" => Alive /\ UpWrite(r) = "goes on"
      /\ r # "ok" => ~Alive
  BY <1>4, WriteFacts DEF Alive
<1>7. /\ pc' \in {"relay", "closing"}
      /\ pc = "closing" => pc' = "closing"
      /\ pc = "relay" /\ pc' = "closing" => Settled(up', down')
  BY <1>4 DEF UpWriteDone, Settle
<1>8. /\ up' \in Relay /\ up'.st \in {"read", "cancelled", "threw"}
      /\ pc = "closing" => up'.st # "read"
  <2>1. Nothing \in Int
    BY DEF Nothing
  <2> QED
    BY <1>4, <1>5, <2>1 DEF WriteOver, Relay
<1>9. Append(toRemote, up.unit) \in Seq(Int) /\ Len(Append(toRemote, up.unit)) = Len(toRemote) + 1
  BY <1>4, AppendFacts
<1>11. Typed'
  BY <1>4, <1>5, <1>7, <1>8, <1>9 DEF IndInv, Typed
<1>12. Control'
  BY <1>4, <1>7, <1>8 DEF IndInv, Control, Settled
<1>13. Returned'
  BY <1>4, <1>8 DEF IndInv, Returned
<1>14. Before'
  BY <1>7 DEF Before
<1>15. Upward'
  <2>1. CASE r # "ok" \/ up'.st # "read" \/ pc' # "relay"
    BY <1>4, <1>6, <1>7, <1>8, <2>1 DEF Upward, Alive
  <2>2. CASE r = "ok" /\ up'.st = "read" /\ pc' = "relay"
    <3>1. pc = "relay" /\ toRemote' = Append(toRemote, up.unit)
      BY <1>4, <1>5, <1>7, <2>2
    <3>2. PICK T \in Nat, H \in Nat, d \in Nat :
             T = Len(toRemote) /\ H = Len(Headers) /\ d = dropped
      BY <1>3, <1>4
    <3>3. T >= H /\ Holds(d + (T + 1 - H))
      BY <1>4, <1>6, <2>2, <3>1, <3>2 DEF IndInv, Upward
    <3>4. Holds(d + (T + 1 - H))'
      BY <1>4, <3>2, <3>3, HoldsStill
    <3>5. Len(toRemote') = T + 1
      BY <1>9, <3>1, <3>2
    <3>6. Holds(dropped + (Len(toRemote) - Len(Headers)))'
      <4>1. dropped' + (Len(toRemote') - Len(Headers')) = d + (T + 1 - H)
        BY <1>2, <1>4, <3>2, <3>5
      <4> QED
        BY <3>4, <4>1 DEF Holds
    <3>7. Len(toRemote') >= Len(Headers')
      BY <1>2, <3>2, <3>3, <3>5
    <3> QED
      BY <2>2, <3>6, <3>7 DEF Upward
  <2> QED
    BY <2>1, <2>2
<1>16. Downward'
  <2>1. /\ UNCHANGED << out, down, toClient >> /\ (pc' = pc \/ pc' = "closing")
        /\ up'.st # "idle" /\ sent'.remote = sent.remote
    BY <1>4, <1>7, <1>8
  <2> QED
    BY <1>2, <2>1, DownwardKept
<1>17. UpstreamIntact'
  <2>1. CASE r # "ok"
    BY <1>2, <1>4, <1>5, <2>1 DEF IndInv, UpstreamIntact, UpUnit
  <2>2. CASE r = "ok"
    <3>1. /\ up.unit = UpUnit(Len(toRemote) + 1)
          /\ dropped + (Len(toRemote) + 1 - Len(Headers)) <= sent.client
      BY <1>4, <1>6, <2>2 DEF IndInv, Upward
    <3>2. toRemote' = Append(toRemote, up.unit) /\ Len(toRemote') = Len(toRemote) + 1
      BY <1>5, <1>9, <2>2
    <3>3. \A i \in DOMAIN toRemote' : toRemote'[i] = UpUnit(i)
      <4>1. \A i \in DOMAIN toRemote : toRemote[i] = UpUnit(i)
        BY DEF IndInv, UpstreamIntact
      <4>2. PICK T \in Nat : T = Len(toRemote)
        BY <1>4
      <4>3. /\ DOMAIN toRemote' = 1 .. (T + 1) /\ DOMAIN toRemote = 1 .. T
            /\ toRemote'[T + 1] = up.unit
            /\ \A i \in 1 .. T : toRemote'[i] = toRemote[i]
        BY <1>4, <3>2, <4>2, AppendFacts
      <4>4. \A i \in 1 .. (T + 1) : i \in 1 .. T \/ i = T + 1
        BY <4>2
      <4> QED
        BY <3>1, <4>1, <4>2, <4>3, <4>4
    <3> QED
      BY <1>2, <1>4, <3>1, <3>2, <3>3 DEF IndInv, UpstreamIntact, UpUnit
  <2> QED
    BY <2>1, <2>2
<1>18. DownstreamIntact'
  BY <1>2, <1>4 DEF IndInv, DownstreamIntact, DownUnit
<1> QED
  BY <1>11, <1>12, <1>13, <1>14, <1>15, <1>16, <1>17, <1>18 DEF IndInv

\* VlessOutbound's sniffing read takes the client's first unit into the head.
LEMMA ReadInitialPayloadInv ==
    ASSUME IndInv, ReadInitialPayload
    PROVE  IndInv'
<1>1. via' = via
  BY DEF ReadInitialPayload
<1>2. /\ Headers' = Headers /\ IsVless' = IsVless
      /\ Absolute' = Absolute /\ Replies' = Replies
  BY <1>1, HeadersFixed
<1>3. /\ pc = "sniff" /\ in \in Sock /\ in.buf \in Seq(Int) /\ dropped \in Nat /\ up.st = "idle"
      /\ UNCHANGED << via, out, up, down, toRemote, toClient, sent, dropped >>
  BY DEF IndInv, ReadInitialPayload, Typed, Sock, Control
<1>4. head = << >> /\ Len(head) = 0 /\ Absolute = 0 /\ toRemote = << >> /\ Holds(dropped)
  <2>1. head = << >> /\ Len(head) >= Absolute /\ Absolute \in {0, 1} /\ toRemote = << >>
    BY <1>3 DEF IndInv, Before, Absolute
  <2>2. Len(head) = 0 /\ Absolute = 0
    BY <2>1
  <2>3. Holds(dropped + (0 - 0)) /\ dropped + (0 - 0) = dropped
    BY <1>3, <2>2 DEF IndInv, Before
  <2> QED
    BY <2>1, <2>2, <2>3
<1>5. CASE in.buf # << >>
  <2>1. /\ head' = << Head(in.buf) >> /\ in' = [in EXCEPT !.buf = Tail(in.buf)]
        /\ pc' = "connect"
    BY <1>5 DEF ReadInitialPayload
  <2>2. Tail(in.buf) \in Seq(Int) /\ Head(in.buf) = in.buf[1] /\ in.buf[1] \in Int
    BY <1>3, <1>5, TailFacts
  <2>3. in' \in Sock /\ in'.buf = Tail(in.buf) /\ in'.end = in.end
    BY <1>3, <2>1, <2>2, BufFacts
  <2>4. /\ head' \in Seq(Int) /\ Len(head') = 1 /\ DOMAIN head' = {1} /\ head'[1] = in.buf[1]
    BY <2>1, <2>2
  <2>5. PICK d \in Nat : d = dropped
    BY <1>3
  <2>6. in.buf[1] = d + 1 /\ Holds(d + 1)'
    BY <1>3, <1>4, <1>5, <2>3, <2>5, HoldsNext DEF IndInv
  <2>11. Typed'
    BY <1>3, <2>1, <2>3, <2>4 DEF IndInv, Typed
  <2>12. Control' /\ Upward'
    BY <1>3, <2>1 DEF IndInv, Control, Upward
  <2>13. Returned' /\ DownstreamIntact' /\ UpstreamIntact'
    BY <1>2, <1>3, <2>3 DEF IndInv, Returned, DownstreamIntact, DownUnit,
       UpstreamIntact, UpUnit
  <2>14. Before'
    <3>1. dropped' + (Len(head') - Absolute') = d + 1
      BY <1>2, <1>3, <1>4, <2>4, <2>5
    <3>2. Holds(dropped + (Len(head) - Absolute))'
      BY <2>6, <3>1 DEF Holds
    <3>3. \A i \in DOMAIN head' : i = 1 /\ ~(i <= Absolute') /\ head'[i] = dropped' + (i - Absolute')
      BY <1>2, <1>3, <1>4, <2>4, <2>5, <2>6
    <3> QED
      BY <1>2, <1>3, <1>4, <2>1, <2>4, <3>2, <3>3 DEF Before
  <2>15. Downward'
    BY <1>2, <1>3, <2>1 DEF IndInv, Downward, HeaderAhead, InHand, Taken, DownUnit
  <2> QED
    BY <2>11, <2>12, <2>13, <2>14, <2>15 DEF IndInv
<1>6. CASE in.buf = << >>
  <2>1. in' = in /\ head' = head /\ pc' \in {"connect", "closing"}
    BY <1>6 DEF ReadInitialPayload
  <2>2. Before'
    BY <1>2, <1>3, <2>1 DEF IndInv, Before, Holds
  <2>3. Downward'
    BY <1>2, <1>3, <2>1 DEF IndInv, Downward, Control, HeaderAhead, InHand, Taken,
       DownUnit, Idle
  <2>4. Typed' /\ Control' /\ Returned' /\ Upward' /\ UpstreamIntact' /\ DownstreamIntact'
    BY <1>2, <1>3, <2>1 DEF IndInv, Typed, Control, Returned, Upward, UpstreamIntact,
                            UpUnit, DownstreamIntact, DownUnit
  <2> QED
    BY <2>2, <2>3, <2>4 DEF IndInv
<1> QED
  BY <1>5, <1>6

\* An empty message is the last one that counts.
LEMMA RemoteSendsEmptyInv ==
    ASSUME IndInv, RemoteSendsEmpty
    PROVE  IndInv'
<1>1. via' = via
  BY DEF RemoteSendsEmpty
<1>2. /\ Headers' = Headers /\ IsVless' = IsVless
      /\ Absolute' = Absolute /\ Replies' = Replies
  BY <1>1, HeadersFixed
<1>3. /\ pc \in {"head", "relay"} /\ out.end = "none" /\ out \in Sock /\ out.buf \in Seq(Int)
      /\ UNCHANGED << via, pc, in, head, up, down, toRemote, toClient, sent, dropped >>
      /\ out' = [out EXCEPT !.buf = Append(out.buf, Empty)] /\ Empty \in Int
  BY DEF IndInv, RemoteSendsEmpty, Connected, Typed, Sock, Empty
<1>4. out' \in Sock /\ out'.buf = Append(out.buf, Empty) /\ out'.end = "none"
  BY <1>3, AppendFacts, BufFacts
<1>5. PICK L \in Nat : L = Len(out.buf)
  BY <1>3
<1>6. /\ DOMAIN out'.buf = 1 .. (L + 1) /\ DOMAIN out.buf = 1 .. L
      /\ out'.buf[L + 1] = Empty /\ \A i \in 1 .. L : out'.buf[i] = out.buf[i]
  BY <1>3, <1>4, <1>5, AppendFacts
<1>11. Typed' /\ Control' /\ Returned'
  BY <1>3, <1>4 DEF IndInv, Typed, Control, Returned
<1>12. Before'
  BY <1>2, <1>3 DEF IndInv, Before, Holds
<1>13. Upward'
  BY <1>2, <1>3, <1>4 DEF IndInv, Upward, Alive, UpUnit, Holds
<1>14. UpstreamIntact' /\ DownstreamIntact'
  BY <1>2, <1>3 DEF IndInv, UpstreamIntact, UpUnit, DownstreamIntact, DownUnit
<1>15. Downward'
  <2>1. HeaderAhead' = HeaderAhead /\ InHand' = InHand /\ Taken' = Taken
    BY <1>2, <1>3 DEF HeaderAhead, InHand, Taken
  <2>2. ~(\A j \in DOMAIN out'.buf : out'.buf[j] # Empty)
    BY <1>5, <1>6
  <2>3. ASSUME NEW i \in DOMAIN out'.buf, \A j \in 1 .. i : out'.buf[j] # Empty
        PROVE  i \in DOMAIN out.buf /\ out'.buf[i] = out.buf[i]
               /\ \A j \in 1 .. i : out.buf[j] # Empty
    <3>1. i \in 1 .. L
      BY <1>5, <1>6, <2>3
    <3> QED
      BY <1>6, <2>3, <3>1
  <2> QED
    BY <1>2, <1>3, <1>4, <2>1, <2>2, <2>3 DEF IndInv, Downward, DownUnit
<1> QED
  BY <1>11, <1>12, <1>13, <1>14, <1>15 DEF IndInv

\* The remote's units are numbered on from those still in the socket; a VLESS
\* server puts its header in front of the first.
LEMMA RemoteSendsInv ==
    ASSUME IndInv, RemoteSends
    PROVE  IndInv'
<1>1. via' = via
  BY DEF RemoteSends
<1>2. /\ Headers' = Headers /\ IsVless' = IsVless
      /\ Absolute' = Absolute /\ Replies' = Replies
  BY <1>1, HeadersFixed
<1>3. /\ pc \in {"head", "relay"} /\ out.end = "none" /\ out \in Sock /\ out.buf \in Seq(Int)
      /\ UNCHANGED << via, pc, in, head, up, down, toRemote, toClient, dropped >>
      /\ toClient \in Seq(Int) /\ Replies \in {0, 1}
  BY DEF IndInv, RemoteSends, Connected, Typed, Sock, Replies
<1>4. PICK q \in Nat, L \in Nat : q = sent.remote /\ L = Len(out.buf)
  BY <1>3 DEF IndInv, Typed
<1>5. /\ sent' \in [client : Nat, remote : Nat]
      /\ sent'.remote = q + 1 /\ sent'.client = sent.client
  BY <1>4 DEF IndInv, RemoteSends, Typed
<1>6. PICK h \in Seq(Int) : h = IF IsVless /\ q = 0 THEN << VlessHdr >> ELSE << >>
  <2>1. << VlessHdr >> \in Seq(Int) /\ << >> \in Seq(Int)
    BY DEF VlessHdr
  <2> QED
    BY <2>1
<1>7. /\ Len(h) = IF IsVless /\ q = 0 THEN 1 ELSE 0
      /\ IsVless /\ q = 0 => h[1] = VlessHdr
  BY <1>6
<1>8. PICK n \in Nat : n = Len(h)
  BY <1>6
<1>9. /\ out' \in Sock /\ out'.end = "none" /\ Len(out'.buf) = L + n + 1
      /\ DOMAIN out'.buf = 1 .. (L + n + 1) /\ DOMAIN out.buf = 1 .. L
      /\ \A i \in 1 .. L : out'.buf[i] = out.buf[i]
      /\ \A i \in 1 .. n : out'.buf[L + i] = h[i]
      /\ out'.buf[L + n + 1] = q + 1
  <2> DEFINE u == << q + 1 >>
             w == out.buf \o h
             b == w \o u
  <2>1. u \in Seq(Int) /\ Len(u) = 1 /\ u[1] = q + 1
    OBVIOUS
  <2>2. out' = [out EXCEPT !.buf = b]
    BY <1>4, <1>6 DEF RemoteSends
  <2> HIDE DEF u
  <2>3. /\ w \in Seq(Int) /\ Len(w) = L + n
        /\ \A i \in 1 .. L : w[i] = out.buf[i]
        /\ \A i \in 1 .. n : w[L + i] = h[i]
    <3>1. h \in Seq(Int) /\ out.buf \in Seq(Int)
      BY <1>3, <1>6
    <3> QED
      BY <1>4, <1>8, <3>1, ConcatFacts
  <2> HIDE DEF w
  <2>4. b \in Seq(Int) /\ Len(b) = L + n + 1
    <3>1. b \in Seq(Int) /\ Len(b) = Len(w) + Len(u)
      BY <2>1, <2>3, ConcatFacts
    <3> QED
      BY <2>1, <2>3, <3>1
  <2>5. /\ \A i \in 1 .. L : b[i] = out.buf[i]
        /\ \A i \in 1 .. n : b[L + i] = h[i]
        /\ b[L + n + 1] = q + 1
    <3>1. \A i \in 1 .. (L + n) : b[i] = w[i]
      BY <1>4, <1>8, <2>1, <2>3
    <3>2. \A i \in 1 .. n : L + i \in 1 .. (L + n)
      BY <1>4, <1>8
    <3>3. \A i \in 1 .. L : i \in 1 .. (L + n)
      BY <1>4, <1>8
    <3>4. b[L + n + 1] = q + 1
      <4>1. \A i \in 1 .. Len(u) : b[Len(w) + i] = u[i]
        BY <2>1, <2>3, ConcatFacts
      <4>2. 1 \in 1 .. Len(u)
        BY <2>1
      <4>3. b[Len(w) + 1] = u[1]
        BY <4>1, <4>2
      <4> QED
        BY <2>1, <2>3, <4>3
    <3> QED
      BY <2>3, <3>1, <3>2, <3>3, <3>4
  <2> HIDE DEF b
  <2>6. out' \in Sock /\ out'.buf = b /\ out'.end = out.end
    BY <1>3, <2>2, <2>4, BufFacts
  <2>7. DOMAIN b = 1 .. (L + n + 1) /\ DOMAIN out.buf = 1 .. L
    BY <1>3, <1>4, <2>4
  <2> QED
    BY <1>3, <2>4, <2>5, <2>6, <2>7
<1>11. Typed' /\ Control' /\ Returned'
  BY <1>3, <1>5, <1>9 DEF IndInv, Typed, Control, Returned
<1>12. Before'
  BY <1>2, <1>3 DEF IndInv, Before, Holds
<1>13. Upward'
  BY <1>2, <1>3, <1>5, <1>9 DEF IndInv, Upward, Alive, UpUnit, Holds
<1>14. UpstreamIntact'
  BY <1>2, <1>3, <1>5 DEF IndInv, UpstreamIntact, UpUnit
<1>15. DownstreamIntact'
  BY <1>2, <1>3, <1>4, <1>5 DEF IndInv, DownstreamIntact, DownUnit
<1>16. PICK A \in {0, 1}, T \in Int : A = HeaderAhead /\ T = Taken
  <2>1. HeaderAhead \in {0, 1} /\ InHand \in {0, 1} /\ Len(toClient) \in Nat
    BY <1>3 DEF HeaderAhead, InHand
  <2>2. Taken \in Int
    BY <1>3, <2>1 DEF Taken
  <2> QED
    BY <2>1, <2>2
<1>17. HeaderAhead' = A /\ Taken' = T
  BY <1>2, <1>3, <1>16 DEF HeaderAhead, InHand, Taken
<1>18. ASSUME down.st \in {"idle", "read", "write"},
              NEW i \in 1 .. (L + n + 1), \A j \in 1 .. i : out'.buf[j] # Empty
       PROVE  /\ out'.buf[i] = IF i <= A THEN VlessHdr ELSE T + (i - A)
              /\ T + (i - A) <= q + 1
  <2>1. CASE i \in 1 .. L
    <3>1. \A j \in 1 .. i : out.buf[j] # Empty /\ j \in 1 .. L
      <4>1. \A j \in 1 .. i : j \in 1 .. L
        BY <1>4, <2>1
      <4> QED
        BY <1>9, <1>18, <4>1
    <3>2. /\ out.buf[i] = IF i <= A THEN VlessHdr ELSE T + (i - A)
          /\ T + (i - A) <= q
      BY <1>3, <1>4, <1>9, <1>16, <1>18, <2>1, <3>1 DEF IndInv, Downward
    <3>3. T + (i - A) <= q + 1
      BY <1>4, <1>16, <2>1, <3>2
    <3> QED
      BY <1>9, <2>1, <3>2, <3>3
  <2>2. CASE i \notin 1 .. L
    <3>1. \A j \in DOMAIN out.buf : out.buf[j] # Empty
      <4>1. \A j \in 1 .. L : j \in 1 .. i
        BY <1>4, <1>8, <1>18, <2>2
      <4> QED
        BY <1>9, <1>18, <4>1
    <3>2. IF q = 0 THEN out.buf = << >> /\ T = 0 /\ down.first_message
          ELSE T + (L - A) = q
      BY <1>3, <1>4, <1>16, <1>18, <3>1 DEF IndInv, Downward
    <3>3. CASE q = 0
      <4>1. L = 0 /\ n = A /\ A = (IF IsVless THEN 1 ELSE 0)
        BY <1>4, <1>7, <1>8, <1>16, <3>2, <3>3 DEF HeaderAhead
      <4>2. i \in 1 .. (A + 1)
        BY <4>1
      <4>3. CASE i <= A
        <5>1. i = 1 /\ A = 1 /\ n = 1 /\ IsVless
          BY <1>16, <4>1, <4>2, <4>3
        <5>2. out'.buf[0 + 1] = h[1]
          BY <1>9, <4>1, <5>1
        <5> QED
          BY <1>7, <3>2, <3>3, <5>1, <5>2
      <4>4. CASE ~(i <= A)
        <5>1. i = A + 1 /\ out'.buf[i] = 1
          BY <1>9, <1>16, <3>3, <4>1, <4>2, <4>4
        <5> QED
          BY <1>16, <3>2, <3>3, <4>4, <5>1
      <4> QED
        BY <4>3, <4>4
    <3>4. CASE q # 0
      <4>1. n = 0 /\ i = L + 1 /\ out'.buf[i] = q + 1 /\ T + (L - A) = q
        BY <1>4, <1>7, <1>8, <1>9, <2>2, <3>2, <3>4
      <4>2. A <= L
        <5>1. CASE L = 0
          <6>1. T - A = q
            BY <1>16, <4>1, <5>1
          <6>2. T <= q
            <7>1. CASE down.st \in {"read", "write"}
              BY <1>4, <1>16, <7>1 DEF IndInv, Downward
            <7>2. CASE down.st = "idle"
              <8>1. pc = "head" /\ Len(toClient) = Replies
                BY <1>3, <7>2 DEF IndInv, Control, Downward
              <8>2. InHand = 0
                BY <7>2 DEF InHand
              <8>3. Taken = 0
                BY <1>3, <8>1, <8>2 DEF Taken
              <8> QED
                BY <1>4, <1>16, <8>3
            <7> QED
              BY <1>18, <7>1, <7>2
          <6> QED
            BY <1>4, <1>16, <6>1, <6>2, <5>1
        <5>2. CASE L # 0
          BY <1>4, <1>16, <5>2
        <5> QED
          BY <5>1, <5>2
      <4> QED
        BY <1>4, <1>16, <4>1, <4>2
    <3> QED
      BY <3>3, <3>4
  <2> QED
    BY <2>1, <2>2
<1>19. ASSUME down.st \in {"idle", "read", "write"},
              \A j \in DOMAIN out'.buf : out'.buf[j] # Empty
       PROVE  T + (Len(out'.buf) - A) = q + 1
  <2>1. \A j \in DOMAIN out.buf : out.buf[j] # Empty
    BY <1>4, <1>8, <1>9, <1>19
  <2>2. IF q = 0 THEN out.buf = << >> /\ T = 0 /\ down.first_message
        ELSE T + (L - A) = q
    BY <1>3, <1>4, <1>16, <1>19, <2>1 DEF IndInv, Downward
  <2>3. CASE q = 0
    <3>1. L = 0 /\ n = A /\ T = 0
      BY <1>4, <1>7, <1>8, <1>16, <2>2, <2>3 DEF HeaderAhead
    <3> QED
      BY <1>9, <1>16, <2>3, <3>1
  <2>4. CASE q # 0
    <3>1. n = 0 /\ T + (L - A) = q /\ Len(out'.buf) = L + 1
      BY <1>4, <1>7, <1>8, <1>9, <2>2, <2>4
    <3> QED
      BY <1>4, <1>16, <3>1
  <2> QED
    BY <2>3, <2>4
<1>20. Downward'
  <2>1. ASSUME down'.st \in {"idle", "read", "write"}
        PROVE  /\ \A i \in DOMAIN out'.buf :
                     (\A j \in 1 .. i : out'.buf[j] # Empty) =>
                        /\ out'.buf[i] = IF i <= HeaderAhead' THEN VlessHdr
                                         ELSE Taken' + (i - HeaderAhead')
                        /\ Taken' + (i - HeaderAhead') <= sent'.remote
               /\ (\A j \in DOMAIN out'.buf : out'.buf[j] # Empty) =>
                     Taken' + (Len(out'.buf) - HeaderAhead') = sent'.remote
    BY <1>3, <1>5, <1>9, <1>17, <1>18, <1>19, <2>1
  <2>2. sent'.remote # 0 /\ q + 1 >= q
    BY <1>4, <1>5
  <2>3. down'.st \in {"read", "write"} => Len(toClient') >= Replies' /\ Taken' <= sent'.remote
    BY <1>2, <1>3, <1>4, <1>5, <1>16, <1>17 DEF IndInv, Downward
  <2> QED
    BY <1>2, <1>3, <2>1, <2>2, <2>3 DEF IndInv, Downward, DownUnit
<1> QED
  BY <1>11, <1>12, <1>13, <1>14, <1>15, <1>20 DEF IndInv

\* The downward relay takes the next unit, strips the response header, or ends
\* because the remote did.
LEMMA DownReadInv ==
    ASSUME IndInv, DownRead
    PROVE  IndInv'
<1>1. via' = via
  BY DEF DownRead
<1>2. /\ Headers' = Headers /\ IsVless' = IsVless
      /\ Absolute' = Absolute /\ Replies' = Replies
  BY <1>1, HeadersFixed
<1>3. /\ pc = "relay" /\ down.st = "read" /\ down \in Relay /\ down.first_message \in BOOLEAN
      /\ out \in Sock /\ out.buf \in Seq(Int) /\ toClient \in Seq(Int) /\ Replies \in {0, 1}
      /\ UNCHANGED << via, in, head, up, toRemote, toClient, sent, dropped >>
      /\ sent.remote \in Nat /\ up.st # "idle"
  BY DEF IndInv, DownRead, Typed, Sock, Relay, Replies, Control
<1>4. /\ pc' \in {"relay", "closing"}
      /\ pc' = "closing" => Settled(up', down')
  BY <1>3 DEF DownRead, Settle
<1>5. \/ /\ out' \in Sock /\ out'.end = out.end
         /\ down' \in Relay /\ down'.st = "done" /\ down'.unit = Empty
      \/ /\ out.buf # << >> /\ out.buf[1] # Empty
         /\ out' \in Sock /\ out'.end = out.end /\ out'.buf = Tail(out.buf)
         /\ down' \in Relay
         /\ \/ /\ ~Strips
               /\ down'.st = "write" /\ down'.unit = out.buf[1]
               /\ down'.first_message = down.first_message
            \/ Strips /\ down'.st = "read" /\ down'.first_message = FALSE
            \/ down'.st = "threw"
      \/ /\ out' = out /\ out.buf = << >> /\ out.end # "none"
         /\ down' \in Relay /\ down'.st \in {"done", "threw"}
  <2>1. CASE out.buf # << >> /\ Head(out.buf) = Empty
    <3>1. /\ out' = [out EXCEPT !.buf = Tail(out.buf)]
          /\ down' = [down EXCEPT !.st = "done", !.unit = Empty]
      BY <2>1 DEF DownRead
    <3>2. Tail(out.buf) \in Seq(Int) /\ Empty \in Int
      BY <1>3, <2>1, TailFacts DEF Empty
    <3>3. out' \in Sock /\ out'.end = out.end
      BY <1>3, <3>1, <3>2, BufFacts
    <3>4. down' \in Relay /\ down'.st = "done" /\ down'.unit = Empty
      BY <1>3, <3>1, <3>2 DEF Relay
    <3> QED
      BY <3>3, <3>4
  <2>2. CASE out.buf # << >> /\ Head(out.buf) # Empty
    <3>1. /\ out' = [out EXCEPT !.buf = Tail(out.buf)]
          /\ \/ /\ ~Strips
                /\ down' = [down EXCEPT !.st = "write", !.unit = Head(out.buf)]
             \/ /\ Strips
                /\ down' = [down EXCEPT !.first_message = FALSE]
             \/ /\ Strips /\ via.out = "vless_tcp"
                /\ down' = [down EXCEPT !.first_message = FALSE, !.st = "threw"]
      BY <2>2 DEF DownRead
    <3>2. Tail(out.buf) \in Seq(Int) /\ Head(out.buf) = out.buf[1] /\ out.buf[1] \in Int
      BY <1>3, <2>2, TailFacts
    <3>3. out' \in Sock /\ out'.end = out.end /\ out'.buf = Tail(out.buf)
      BY <1>3, <3>1, <3>2, BufFacts
    <3>4. /\ down' \in Relay
          /\ \/ /\ ~Strips
                /\ down'.st = "write" /\ down'.unit = out.buf[1]
                /\ down'.first_message = down.first_message
             \/ Strips /\ down'.st = "read" /\ down'.first_message = FALSE
             \/ down'.st = "threw"
      BY <1>3, <3>1, <3>2 DEF Relay
    <3> QED
      BY <2>2, <3>2, <3>3, <3>4
  <2>3. CASE out.buf = << >>
    BY <1>3, <2>3 DEF DownRead, Afterwards, Relay
  <2> QED
    BY <2>1, <2>2, <2>3
<1>6. down'.st # "idle" /\ out' \in Sock /\ down' \in Relay /\ out'.end = out.end
  BY <1>3, <1>5
<1>11. Typed'
  BY <1>3, <1>4, <1>6 DEF IndInv, Typed
<1>12. Control'
  BY <1>3, <1>4, <1>6 DEF IndInv, Control, Settled
<1>13. Returned'
  BY <1>3, <1>5 DEF IndInv, Returned
<1>14. Before'
  BY <1>4 DEF Before
<1>15. Upward'
  BY <1>2, <1>3, <1>4, <1>6 DEF IndInv, Upward, Alive, UpUnit, Holds
<1>16. UpstreamIntact' /\ DownstreamIntact'
  BY <1>2, <1>3 DEF IndInv, UpstreamIntact, UpUnit, DownstreamIntact, DownUnit
<1>17. PICK A \in {0, 1}, C \in Nat, R \in {0, 1}, q \in Nat, L \in Nat :
           A = HeaderAhead /\ C = Len(toClient) /\ R = Replies /\ q = sent.remote
           /\ L = Len(out.buf)
  BY <1>3 DEF HeaderAhead
<1>18. /\ Taken = C - R /\ C >= R /\ C - R <= q /\ DOMAIN out.buf = 1 .. L
  <2>1. InHand = 0
    BY <1>3 DEF InHand
  <2>2. Taken = C - R
    BY <1>17, <2>1 DEF Taken
  <2> QED
    BY <1>3, <1>17, <2>2 DEF IndInv, Downward
<1>19. ASSUME NEW i \in 1 .. L, \A j \in 1 .. i : out.buf[j] # Empty
       PROVE  /\ out.buf[i] = IF i <= A THEN VlessHdr ELSE C - R + (i - A)
              /\ C - R + (i - A) <= q
  BY <1>3, <1>17, <1>18, <1>19 DEF IndInv, Downward
<1>20. ASSUME out.end = "none", \A j \in 1 .. L : out.buf[j] # Empty
       PROVE  IF q = 0 THEN out.buf = << >> ELSE C - R + (L - A) = q
  BY <1>3, <1>17, <1>18, <1>20 DEF IndInv, Downward
<1>21. CASE down'.st \in {"done", "threw"}
  <2>1. Downward'
    BY <1>3, <1>4, <1>6, <1>21 DEF Downward
  <2> QED
    BY <1>11, <1>12, <1>13, <1>14, <1>15, <1>16, <2>1 DEF IndInv
<1>22. CASE down'.st \in {"read", "write"}
  <2>1. /\ out.buf # << >> /\ out.buf[1] # Empty /\ out'.buf = Tail(out.buf)
        /\ \/ /\ ~Strips
              /\ down'.st = "write" /\ down'.unit = out.buf[1]
              /\ down'.first_message = down.first_message
           \/ Strips /\ down'.st = "read" /\ down'.first_message = FALSE
    BY <1>5, <1>22
  <2>2. /\ L >= 1 /\ Len(out'.buf) = L - 1 /\ DOMAIN out'.buf = 1 .. (L - 1)
        /\ \A i \in 1 .. (L - 1) : out'.buf[i] = out.buf[i + 1]
    BY <1>3, <1>17, <2>1, TailFacts
  <2>3. PICK w \in {0, 1} : w = IF down'.st = "write" THEN 1 ELSE 0
    OBVIOUS
  <2>4. /\ HeaderAhead' = 0 /\ InHand' = w /\ A + w = 1
    <3>1. CASE ~Strips
      BY <1>2, <1>3, <1>17, <2>1, <2>3, <3>1 DEF Strips, HeaderAhead, InHand
    <3>2. CASE Strips
      BY <1>2, <1>3, <1>17, <2>1, <2>3, <3>2 DEF Strips, HeaderAhead, InHand
    <3> QED
      BY <3>1, <3>2
  <2>5. Taken' = C - R + w
    BY <1>2, <1>3, <1>17, <2>4 DEF Taken
  <2>6. /\ out.buf[1] = IF 1 <= A THEN VlessHdr ELSE C - R + (1 - A)
        /\ C - R + (1 - A) <= q
    <3>1. 1 \in 1 .. L /\ \A j \in 1 .. 1 : out.buf[j] # Empty
      BY <1>17, <2>1, <2>2
    <3> QED
      BY <1>19, <3>1
  <2>7. C - R + w <= q
    BY <1>17, <2>3, <2>4, <2>6
  <2>8. down'.st = "write" => down'.unit = DownUnit(Len(toClient) + 1)'
    <3>1. SUFFICES ASSUME down'.st = "write" PROVE down'.unit = DownUnit(Len(toClient) + 1)'
      OBVIOUS
    <3>2. w = 1 /\ A = 0
      BY <1>17, <2>3, <2>4, <3>1
    <3>3. down'.unit = C - R + 1
      BY <1>17, <2>1, <2>6, <3>1, <3>2
    <3>4. ~(C + 1 <= R) /\ C + 1 - R = C - R + 1
      BY <1>17, <1>18
    <3> QED
      BY <1>2, <1>3, <1>17, <3>3, <3>4 DEF DownUnit
  <2>9. ASSUME NEW i \in 1 .. (L - 1), \A j \in 1 .. i : out'.buf[j] # Empty
        PROVE  out'.buf[i] = C - R + w + i /\ C - R + w + i <= q
    <3>1. i + 1 \in 1 .. L /\ out'.buf[i] = out.buf[i + 1]
      BY <1>17, <2>2, <2>9
    <3>2. ASSUME NEW j \in 1 .. (i + 1) PROVE out.buf[j] # Empty
      <4>1. CASE j = 1
        BY <2>1, <4>1
      <4>2. CASE j # 1
        <5>1. j - 1 \in 1 .. i /\ j - 1 \in 1 .. (L - 1) /\ j = (j - 1) + 1
          BY <1>17, <2>9, <3>2, <4>2
        <5> QED
          BY <2>2, <2>9, <5>1
      <4> QED
        BY <4>1, <4>2
    <3>3. /\ out.buf[i + 1] = IF i + 1 <= A THEN VlessHdr ELSE C - R + (i + 1 - A)
          /\ C - R + (i + 1 - A) <= q
      BY <1>19, <3>1, <3>2
    <3>4. ~(i + 1 <= A) /\ C - R + (i + 1 - A) = C - R + w + i
      BY <1>17, <2>3, <2>4, <2>9
    <3> QED
      BY <3>1, <3>3, <3>4
  <2>10. ASSUME out'.end = "none", \A j \in 1 .. (L - 1) : out'.buf[j] # Empty
         PROVE  q # 0 /\ C - R + w + (L - 1) = q
    <3>1. ASSUME NEW j \in 1 .. L PROVE out.buf[j] # Empty
      <4>1. CASE j = 1
        BY <2>1, <4>1
      <4>2. CASE j # 1
        <5>1. j - 1 \in 1 .. (L - 1) /\ j = (j - 1) + 1
          BY <1>17, <3>1, <4>2
        <5> QED
          BY <2>2, <2>10, <5>1
      <4> QED
        BY <4>1, <4>2
    <3>2. q # 0 /\ C - R + (L - A) = q
      BY <1>6, <1>20, <2>1, <2>10, <3>1
    <3>3. C - R + (L - A) = C - R + w + (L - 1)
      <4>1. A = 1 - w
        BY <1>17, <2>3, <2>4
      <4>2. \A x, y, z \in Int : x + (y - (1 - z)) = x + z + (y - 1)
        OBVIOUS
      <4>3. C - R \in Int /\ L \in Int /\ w \in Int
        BY <1>17, <2>3
      <4> QED
        BY <4>1, <4>2, <4>3
    <3> QED
      BY <3>2, <3>3
  <2>11. /\ \A i \in DOMAIN out'.buf :
               (\A j \in 1 .. i : out'.buf[j] # Empty) =>
                  /\ out'.buf[i] = IF i <= HeaderAhead' THEN VlessHdr
                                   ELSE Taken' + (i - HeaderAhead')
                  /\ Taken' + (i - HeaderAhead') <= sent'.remote
         /\ out'.end = "none" /\ (\A j \in DOMAIN out'.buf : out'.buf[j] # Empty) =>
               sent'.remote # 0 /\ Taken' + (Len(out'.buf) - HeaderAhead') = sent'.remote
    <3>1. \A i \in 1 .. (L - 1) : ~(i <= 0) /\ i - 0 = i
      BY <1>17
    <3>2. L - 1 - 0 = L - 1
      BY <1>17
    <3>3. /\ HeaderAhead' = 0 /\ Taken' = C - R + w /\ sent'.remote = q
          /\ DOMAIN out'.buf = 1 .. (L - 1) /\ Len(out'.buf) = L - 1
      BY <1>3, <1>17, <2>2, <2>4, <2>5
    <3>4. ASSUME NEW i \in DOMAIN out'.buf, \A j \in 1 .. i : out'.buf[j] # Empty
          PROVE  /\ out'.buf[i] = IF i <= HeaderAhead' THEN VlessHdr
                                  ELSE Taken' + (i - HeaderAhead')
                 /\ Taken' + (i - HeaderAhead') <= sent'.remote
      <4>1. i \in 1 .. (L - 1) /\ ~(i <= 0) /\ i - 0 = i
        BY <3>1, <3>3, <3>4
      <4>2. out'.buf[i] = C - R + w + i /\ C - R + w + i <= q
        BY <2>9, <3>4, <4>1
      <4> QED
        BY <3>3, <4>1, <4>2
    <3>5. ASSUME out'.end = "none", \A j \in DOMAIN out'.buf : out'.buf[j] # Empty
          PROVE  /\ sent'.remote # 0
                 /\ Taken' + (Len(out'.buf) - HeaderAhead') = sent'.remote
      <4>1. q # 0 /\ C - R + w + (L - 1) = q
        BY <2>10, <3>3, <3>5
      <4> QED
        BY <3>2, <3>3, <4>1
    <3> QED
      BY <3>4, <3>5
  <2>12. Len(toClient') >= Replies' /\ Taken' <= sent'.remote
    BY <1>2, <1>3, <1>17, <1>18, <2>5, <2>7
  <2>13. Downward'
    BY <1>3, <1>4, <2>8, <2>11, <2>12 DEF Downward
  <2> QED
    BY <1>11, <1>12, <1>13, <1>14, <1>15, <1>16, <2>13 DEF IndInv
<1> QED
  BY <1>5, <1>21, <1>22

\* The unit in hand reaches the client, or the downward relay is over.
LEMMA DownWriteDoneInv ==
    ASSUME IndInv, DownWriteDone
    PROVE  IndInv'
<1>1. via' = via
  BY DEF DownWriteDone
<1>2. /\ Headers' = Headers /\ IsVless' = IsVless
      /\ Absolute' = Absolute /\ Replies' = Replies
  BY <1>1, HeadersFixed
<1>3. /\ pc \in {"relay", "closing"} /\ down.st = "write" /\ down \in Relay /\ down.unit \in Int
      /\ in \in Sock /\ toClient \in Seq(Int) /\ Replies \in {0, 1} /\ sent.remote \in Nat
      /\ UNCHANGED << via, in, out, head, up, toRemote, sent, dropped >> /\ up.st # "idle"
  BY DEF IndInv, DownWriteDone, Typed, Relay, Replies, Control
<1>4. PICK r \in WriteResults(in) :
          /\ toClient' = IF r = "ok" THEN Append(toClient, down.unit) ELSE toClient
          /\ down' = CASE r = "ok" -> WriteOver(down)
                       [] r = "closed" /\ IsVless -> [down EXCEPT !.st = "done"]
                       [] OTHER -> [down EXCEPT !.st = "threw"]
  BY DEF DownWriteDone
<1>5. r \in {"ok", "closed", "error"} /\ (r # "ok" => in.end # "none")
  BY <1>3, WriteFacts
<1>6. /\ pc' \in {"relay", "closing"}
      /\ pc = "closing" => pc' = "closing"
      /\ pc = "relay" /\ pc' = "closing" => Settled(up', down')
  BY <1>3 DEF DownWriteDone, Settle
<1>7. /\ down' \in Relay /\ down'.first_message = down.first_message
      /\ r = "ok" => down'.st \in {"read", "cancelled"}
      /\ r # "ok" => down'.st \in {"done", "threw"}
  <2>1. Nothing \in Int
    BY DEF Nothing
  <2>2. CASE r = "ok"
    BY <1>3, <1>4, <2>1, <2>2 DEF WriteOver, Relay
  <2>3. CASE r # "ok"
    BY <1>3, <1>4, <1>5, <2>3 DEF Relay
  <2> QED
    BY <2>2, <2>3
<1>8. Append(toClient, down.unit) \in Seq(Int)
      /\ Len(Append(toClient, down.unit)) = Len(toClient) + 1 /\ Len(toClient) \in Nat
  BY <1>3, AppendFacts
<1>9. down.unit = DownUnit(Len(toClient) + 1) /\ Len(toClient) >= Replies /\ Taken <= sent.remote
  BY <1>3 DEF IndInv, Downward
<1>10. Taken = Len(toClient) + 1 - Replies
  <2>1. InHand = 1
    BY <1>3 DEF InHand
  <2> QED
    BY <1>3, <1>8, <2>1 DEF Taken
<1>11. Typed'
  BY <1>3, <1>4, <1>6, <1>7, <1>8 DEF IndInv, Typed
<1>12. Control'
  BY <1>3, <1>5, <1>6, <1>7 DEF IndInv, Control, Settled
<1>13. Returned'
  BY <1>3, <1>5, <1>7 DEF IndInv, Returned
<1>14. Before'
  BY <1>6 DEF Before
<1>15. Upward'
  BY <1>2, <1>3, <1>6 DEF IndInv, Upward, Alive, UpUnit, Holds
<1>16. UpstreamIntact'
  BY <1>2, <1>3 DEF IndInv, UpstreamIntact, UpUnit
<1>17. CASE r # "ok"
  <2>1. DownstreamIntact'
    BY <1>2, <1>3, <1>4, <1>17 DEF IndInv, DownstreamIntact, DownUnit
  <2>2. Downward'
    BY <1>3, <1>6, <1>7, <1>17 DEF Downward
  <2> QED
    BY <1>11, <1>12, <1>13, <1>14, <1>15, <1>16, <2>1, <2>2 DEF IndInv
<1>18. CASE r = "ok"
  <2>1. toClient' = Append(toClient, down.unit) /\ Len(toClient') = Len(toClient) + 1
    BY <1>4, <1>8, <1>18
  <2>2. \A i \in DOMAIN toClient' : toClient'[i] = DownUnit(i)
    BY <1>3, <1>9, <2>1, AppendFacts DEF IndInv, DownstreamIntact
  <2>3. DownstreamIntact'
    BY <1>2, <1>3, <1>9, <1>10, <2>1, <2>2 DEF DownstreamIntact, DownUnit
  <2>4. HeaderAhead' = HeaderAhead /\ Taken' = Taken
    <3>1. InHand' = 0
      BY <1>7, <1>18 DEF InHand
    <3> QED
      BY <1>2, <1>3, <1>7, <1>8, <1>10, <2>1, <3>1 DEF HeaderAhead, Taken
  <2>5. Len(toClient') >= Replies'
    BY <1>2, <1>3, <1>8, <1>9, <2>1
  <2>6. Downward'
    BY <1>3, <1>6, <1>7, <1>9, <1>18, <2>4, <2>5 DEF IndInv, Downward
  <2> QED
    BY <1>11, <1>12, <1>13, <1>14, <1>15, <1>16, <2>3, <2>6 DEF IndInv
<1> QED
  BY <1>17, <1>18

\* The request is read, with what came behind it, or the session ends.
LEMMA HandshakeInv ==
    ASSUME IndInv, Handshake
    PROVE  IndInv'
<1>1. via' = via
  BY DEF Handshake
<1>2. /\ Headers' = Headers /\ IsVless' = IsVless
      /\ Absolute' = Absolute /\ Replies' = Replies
  BY <1>1, HeadersFixed
<1>3. /\ pc = "handshake" /\ in \in Sock /\ in.buf \in Seq(Int) /\ sent.client \in Nat
      /\ UNCHANGED << via, out, up, down, toRemote, sent >>
      /\ up.st = "idle" /\ down = Idle /\ toRemote = << >> /\ toClient = << >>
      /\ head = << >> /\ dropped = 0 /\ via.in \in {"socks5", "connect", "absolute"}
      /\ out.buf = << >> /\ out.end = "none" /\ sent.remote = 0
  BY DEF IndInv, Handshake, Typed, Sock, Control, Before, Downward, Protocols
<1>4. PICK c \in Nat, L \in Nat : c = sent.client /\ L = Len(in.buf)
  BY <1>3
<1>5. /\ \A i \in 1 .. L : in.buf[i] = IF i = 1 THEN Req ELSE i - 1
      /\ L <= c + 1 /\ (in.end = "none" => L = c + 1)
  <2>1. DOMAIN in.buf = 1 .. L
    BY <1>3, <1>4
  <2> QED
    BY <1>3, <1>4, <2>1 DEF IndInv, Before
<1>6. CASE Abandon
  <2>1. pc' = "closing" /\ UNCHANGED << in, head, toClient, dropped >>
    BY <1>6 DEF Abandon
  <2>2. Typed' /\ Control' /\ Returned' /\ Before' /\ Upward' /\ UpstreamIntact' /\ DownstreamIntact'
    BY <1>2, <1>3, <2>1 DEF IndInv, Typed, Control, Returned, Before, Upward,
       UpstreamIntact,
                            UpUnit, DownstreamIntact, DownUnit
  <2>3. Downward'
    BY <1>2, <1>3, <2>1 DEF Downward, Idle
  <2> QED
    BY <2>2, <2>3 DEF IndInv
<1>7. ASSUME in.buf # << >>, pc' = "dispatch", in' \in Sock, in'.end = in.end,
             NEW n \in 0 .. (L - 1),
             in'.buf \in Seq(Int), Len(in'.buf) = L - 1 - n,
             \A i \in 1 .. (L - 1 - n) : in'.buf[i] = in.buf[i + 1 + n],
             head' \in Seq(Int), toClient' \in Seq(Int), dropped' \in Nat,
             Len(toClient') = Replies, \A i \in DOMAIN toClient' : toClient'[i] = Ok,
             dropped' > 0 => via.in = "connect", dropped' <= n,
             Len(head') >= Absolute, dropped' + (Len(head') - Absolute) = n,
             \A i \in DOMAIN head' :
                head'[i] = IF i <= Absolute THEN Req ELSE dropped' + (i - Absolute)
      PROVE  IndInv'
  <2>1. ASSUME NEW i \in 1 .. (L - 1 - n) PROVE in'.buf[i] = n + i
    <3>1. PICK k \in Int : k = i + 1 + n
      BY <1>7, <2>1
    <3>2. k \in 1 .. L /\ k # 1 /\ k - 1 = n + i
      BY <1>4, <1>7, <2>1, <3>1
    <3>3. in'.buf[i] = in.buf[k]
      BY <1>7, <2>1, <3>1
    <3>4. in.buf[k] = k - 1
      BY <1>5, <3>2
    <3> QED
      BY <3>2, <3>3, <3>4
  <2>2. n + (L - 1 - n) = L - 1 /\ L - 1 <= c /\ (in.end = "none" => L - 1 = c) /\ n <= c
    <3>1. L <= c + 1 /\ (in.end = "none" => L = c + 1)
      BY <1>5
    <3>2. n \in 0 .. (L - 1)
      BY <1>7
    <3> QED
      BY <1>4, <3>1, <3>2
  <2>3. Holds(n)'
    <3>1. DOMAIN in'.buf = 1 .. (L - 1 - n)
      BY <1>7
    <3> QED
      BY <1>3, <1>4, <1>7, <2>1, <2>2, <3>1 DEF Holds
  <2>4. Holds(dropped + (Len(head) - Absolute))'
    BY <1>2, <1>7, <2>3 DEF Holds
  <2>5. Typed'
    BY <1>3, <1>7 DEF IndInv, Typed
  <2>6. Control' /\ Upward'
    BY <1>3, <1>7 DEF IndInv, Control, Upward
  <2>7. Returned'
    BY <1>3, <1>7 DEF IndInv, Returned, Idle
  <2>8. Before'
    BY <1>2, <1>3, <1>7, <2>4 DEF Before
  <2>9. UpstreamIntact'
    <3>1. toRemote' = << >> /\ Len(toRemote') = 0 /\ Len(Headers) \in Nat
      BY <1>3, HeadersFacts DEF IndInv
    <3>2. dropped' + (0 - Len(Headers)) <= c
      <4>1. PICK d \in Nat, H \in Nat : d = dropped' /\ H = Len(Headers)
        BY <1>7, <3>1
      <4>2. d <= n /\ n <= c /\ n \in Nat
        BY <1>4, <1>7, <2>2, <4>1
      <4>3. d + (0 - H) <= c
        BY <1>4, <4>1, <4>2
      <4> QED
        BY <4>1, <4>3
    <3> QED
      BY <1>1, <1>2, <1>3, <1>4, <1>7, <3>1, <3>2 DEF UpstreamIntact
  <2>10. DownstreamIntact'
    <3>1. Replies \in {0, 1}
      BY DEF Replies
    <3>2. DOMAIN toClient' = 1 .. Replies
      BY <1>7, <3>1
    <3> QED
      BY <1>2, <1>3, <1>7, <3>1, <3>2 DEF DownstreamIntact, DownUnit
  <2>11. Downward'
    BY <1>2, <1>3, <1>7 DEF Downward, Idle
  <2> QED
    BY <2>5, <2>6, <2>7, <2>8, <2>9, <2>10, <2>11 DEF IndInv
<1>8. ASSUME in.buf # << >>
      PROVE  /\ L >= 1 /\ Tail(in.buf) \in Seq(Int) /\ Len(Tail(in.buf)) = L - 1
             /\ \A i \in 1 .. (L - 1) : Tail(in.buf)[i] = in.buf[i + 1]
  BY <1>3, <1>4, <1>8, TailFacts
<1>9. << Ok >> \in Seq(Int) /\ Len(<< Ok >>) = 1 /\ \A i \in DOMAIN << Ok >> : << Ok >>[i] = Ok
  BY DEF Ok
<1>10. CASE in.buf # << >> /\ pc' = "dispatch" /\ via.in = "socks5" /\ ReadSocks5
  <2>1. in' = [in EXCEPT !.buf = Tail(in.buf)] /\ toClient' = << Ok >> /\ UNCHANGED << head, dropped >>
    BY <1>10 DEF ReadSocks5
  <2>2. in' \in Sock /\ in'.buf = Tail(in.buf) /\ in'.end = in.end
    BY <1>3, <1>8, <1>10, <2>1, BufFacts
  <2>3. Replies = 1 /\ Absolute = 0
    BY <1>10 DEF Replies, Absolute
  <2>4. 0 \in 0 .. (L - 1) /\ L - 1 - 0 = L - 1 /\ \A i \in 1 .. (L - 1) : i + 1 + 0 = i + 1
    BY <1>4, <1>8, <1>10
  <2>5. head' \in Seq(Int) /\ Len(head') = 0 /\ dropped' = 0 /\ DOMAIN head' = {}
    BY <1>3, <2>1
  <2>6. Len(toClient') = Replies /\ toClient' \in Seq(Int) /\ \A i \in DOMAIN toClient' : toClient'[i] = Ok
    BY <1>9, <2>1, <2>3
  <2>7. \A i \in 1 .. (L - 1 - 0) : in'.buf[i] = in.buf[i + 1 + 0]
    BY <1>8, <1>10, <2>2, <2>4
  <2>8. in'.buf \in Seq(Int) /\ Len(in'.buf) = L - 1 - 0
    BY <1>8, <1>10, <2>2, <2>4
  <2>9. /\ Len(head') >= Absolute /\ dropped' + (Len(head') - Absolute) = 0
        /\ dropped' \in Nat /\ dropped' <= 0 /\ (dropped' > 0 => via.in = "connect")
        /\ \A i \in DOMAIN head' :
              head'[i] = IF i <= Absolute THEN Req ELSE dropped' + (i - Absolute)
    BY <2>3, <2>5
  <2> QED
    BY <1>7, <1>10, <2>2, <2>4, <2>5, <2>6, <2>7, <2>8, <2>9
<1>11. ASSUME in.buf # << >>, pc' = "dispatch", via.in # "socks5",
              NEW n \in 0 .. (Len(in.buf) - 1), ReadHttp(n)
       PROVE  IndInv'
  <2> DEFINE rest == Tail(in.buf)
             after == SubSeq(rest, n + 1, Len(rest))
             front == SubSeq(rest, 1, n)
  <2>1. n \in 0 .. (L - 1) /\ n \in Nat
    BY <1>4, <1>11
  <2>2. /\ rest \in Seq(Int) /\ Len(rest) = L - 1 /\ L >= 1
        /\ \A i \in 1 .. (L - 1) : rest[i] = in.buf[i + 1]
    BY <1>8, <1>11
  <2>3. in' = [in EXCEPT !.buf = after]
    BY <1>11 DEF ReadHttp
  <2>4. /\ via.in = "connect" => toClient' = << Ok >> /\ dropped' = n /\ head' = head
        /\ via.in # "connect" =>
              head' = << Req >> \o front /\ toClient' = toClient /\ dropped' = dropped
    BY <1>11 DEF ReadHttp
  <2> HIDE DEF rest
  <2>5. /\ after \in Seq(Int) /\ Len(after) = L - 1 - n
        /\ \A i \in 1 .. (L - 1 - n) : after[i] = rest[i + n]
    <3>1. n + 1 \in 1 .. (Len(rest) + 1) /\ Len(rest) \in 0 .. Len(rest)
      BY <1>4, <2>1, <2>2
    <3>2. after \in Seq(Int) /\ Len(after) = IF n + 1 <= Len(rest) THEN Len(rest) - (n + 1) + 1 ELSE 0
      BY <1>4, <2>1, <2>2, <3>1
    <3>3. Len(after) = L - 1 - n
      BY <1>4, <2>1, <2>2, <3>2
    <3>4. \A i \in 1 .. (L - 1 - n) : after[i] = rest[(n + 1) + i - 1]
      BY <1>4, <2>1, <2>2, <3>1, <3>3
    <3>5. \A i \in 1 .. (L - 1 - n) : (n + 1) + i - 1 = i + n
      BY <1>4, <2>1
    <3> QED
      BY <3>2, <3>3, <3>4, <3>5
  <2>6. /\ front \in Seq(Int) /\ Len(front) = n
        /\ \A i \in 1 .. n : front[i] = rest[i]
    BY <1>4, <2>1, <2>2
  <2> HIDE DEF after, front
  <2>7. in' \in Sock /\ in'.buf = after /\ in'.end = in.end
    BY <1>3, <2>3, <2>5, BufFacts
  <2>8. ASSUME NEW i \in 1 .. (L - 1 - n) PROVE in'.buf[i] = in.buf[i + 1 + n]
    <3>1. i + n \in 1 .. (L - 1) /\ i + n + 1 = i + 1 + n
      BY <1>4, <2>1, <2>8
    <3> QED
      BY <2>2, <2>5, <2>7, <2>8, <3>1
  <2>9. CASE via.in = "connect"
    <3>1. Replies = 1 /\ Absolute = 0
      BY <2>9 DEF Replies, Absolute
    <3>2. head' \in Seq(Int) /\ Len(head') = 0 /\ dropped' = n /\ DOMAIN head' = {}
      BY <1>3, <2>4, <2>9
    <3>3. Len(toClient') = Replies /\ toClient' \in Seq(Int) /\ \A i \in DOMAIN toClient' : toClient'[i] = Ok
      BY <1>9, <2>4, <2>9, <3>1
    <3>4. /\ Len(head') >= Absolute /\ dropped' + (Len(head') - Absolute) = n
          /\ dropped' \in Nat /\ dropped' <= n /\ (dropped' > 0 => via.in = "connect")
          /\ \A i \in DOMAIN head' :
                head'[i] = IF i <= Absolute THEN Req ELSE dropped' + (i - Absolute)
      BY <2>1, <2>9, <3>1, <3>2
    <3>5. in'.buf \in Seq(Int) /\ Len(in'.buf) = L - 1 - n
      BY <2>5, <2>7
    <3> QED
      BY <1>7, <1>11, <2>1, <2>7, <2>8, <3>2, <3>3, <3>4, <3>5
  <2>10. CASE via.in = "absolute"
    <3>1. Replies = 0 /\ Absolute = 1
      BY <2>10 DEF Replies, Absolute
    <3> DEFINE rq == << Req >>
    <3>2. rq \in Seq(Int) /\ Len(rq) = 1 /\ rq[1] = Req
      BY DEF Req
    <3>3. head' = rq \o front /\ toClient' = toClient /\ dropped' = 0
      BY <1>3, <2>4, <2>10
    <3> HIDE DEF rq
    <3>4. /\ head' \in Seq(Int) /\ Len(head') = 1 + n /\ head'[1] = Req
          /\ \A i \in 1 .. n : head'[1 + i] = front[i]
          /\ DOMAIN head' = 1 .. (1 + n)
      <4>1. /\ head' \in Seq(Int) /\ Len(head') = 1 + n /\ DOMAIN head' = 1 .. (1 + n)
            /\ \A i \in 1 .. 1 : head'[i] = rq[i]
            /\ \A i \in 1 .. n : head'[1 + i] = front[i]
        <5>1. /\ head' \in Seq(Int) /\ Len(head') = Len(rq) + Len(front)
              /\ DOMAIN head' = 1 .. (Len(rq) + Len(front))
              /\ \A i \in 1 .. Len(rq) : head'[i] = rq[i]
              /\ \A i \in 1 .. Len(front) : head'[Len(rq) + i] = front[i]
          BY <2>6, <3>2, <3>3, ConcatFacts
        <5> QED
          BY <2>6, <3>2, <5>1
      <4>2. 1 \in 1 .. 1
        OBVIOUS
      <4> QED
        BY <3>2, <4>1, <4>2
    <3>5. ASSUME NEW i \in DOMAIN head'
          PROVE  head'[i] = IF i <= Absolute THEN Req ELSE dropped' + (i - Absolute)
      <4>1. CASE i = 1
        BY <3>1, <3>4, <4>1
      <4>2. CASE i # 1
        <5>1. PICK k \in 1 .. n : i = 1 + k
          <6>1. i - 1 \in 1 .. n /\ i = 1 + (i - 1)
            BY <2>1, <3>4, <3>5, <4>2
          <6> QED
            BY <6>1
        <5>2. k \in 1 .. (L - 1) /\ k + 1 \in 1 .. L /\ k + 1 # 1 /\ k + 1 - 1 = k
          BY <1>4, <2>1, <5>1
        <5>3. head'[i] = k
          <6>1. head'[i] = front[k] /\ front[k] = rest[k]
            BY <2>6, <3>4, <5>1
          <6>2. rest[k] = in.buf[k + 1]
            BY <2>2, <5>2
          <6>3. in.buf[k + 1] = k
            BY <1>5, <5>2
          <6> QED
            BY <6>1, <6>2, <6>3
        <5>4. ~(i <= 1) /\ 0 + (i - 1) = k
          BY <2>1, <5>1
        <5> QED
          BY <3>1, <3>3, <5>3, <5>4
      <4> QED
        BY <4>1, <4>2
    <3>6. Len(toClient') = Replies /\ toClient' \in Seq(Int) /\ \A i \in DOMAIN toClient' : toClient'[i] = Ok
      BY <1>3, <3>1, <3>3
    <3>7. /\ Len(head') >= Absolute /\ dropped' + (Len(head') - Absolute) = n
          /\ dropped' \in Nat /\ dropped' <= n /\ (dropped' > 0 => via.in = "connect")
      BY <2>1, <3>1, <3>3, <3>4
    <3>8. in'.buf \in Seq(Int) /\ Len(in'.buf) = L - 1 - n
      BY <2>5, <2>7
    <3> QED
      BY <1>7, <1>11, <2>1, <2>7, <2>8, <3>4, <3>5, <3>6, <3>7, <3>8
  <2> QED
    BY <1>3, <1>11, <2>9, <2>10
<1> QED
  BY <1>6, <1>10, <1>11 DEF Handshake

-----------------------------------------------------------------------------
(* The invariant. *)

\* A session starts with the request at most.
LEMMA InitInv == Init => IndInv
<1> SUFFICES ASSUME Init PROVE IndInv
  OBVIOUS
<1>1. /\ via \in [in : Protocols, out : Outbounds, override_address : BOOLEAN]
      /\ pc = (IF via.in = "tun" THEN "dispatch" ELSE "handshake")
      /\ in = (IF via.in = "tun" THEN Quiet ELSE [Quiet EXCEPT !.buf = << Req >>])
      /\ out = Quiet /\ head = << >> /\ up = Idle /\ down = Idle
      /\ toRemote = << >> /\ toClient = << >> /\ dropped = 0
      /\ sent = [client |-> 0, remote |-> 0]
  BY DEF Init
<1>2. << >> \in Seq(Int) /\ Len(<< >>) = 0 /\ DOMAIN << >> = {}
  OBVIOUS
<1> DEFINE rq == << Req >>
<1>3. rq \in Seq(Int) /\ Len(rq) = 1 /\ DOMAIN rq = {1} /\ rq[1] = Req
  BY DEF Req
<1> HIDE DEF rq
<1>4. Quiet \in Sock /\ Quiet.buf = << >> /\ Quiet.end = "none"
  BY <1>2 DEF Quiet, Sock
<1>5. /\ in \in Sock /\ in.end = "none"
      /\ in.buf = IF via.in = "tun" THEN << >> ELSE rq
  <2>1. CASE via.in = "tun"
    BY <1>1, <1>4, <2>1
  <2>2. CASE via.in # "tun"
    <3>1. in = [Quiet EXCEPT !.buf = rq]
      BY <1>1, <2>2 DEF rq
    <3> QED
      BY <1>3, <1>4, <2>2, <3>1, BufFacts
  <2> QED
    BY <2>1, <2>2
<1>6. Idle \in Relay /\ Idle.st = "idle"
  BY DEF Idle, Relay, Nothing
<1>7. Typed
  BY <1>1, <1>2, <1>4, <1>5, <1>6 DEF Typed
<1>8. Control /\ Returned /\ Upward
  BY <1>1, <1>6 DEF Control, Returned, Upward
<1>9. Before
  <2>1. CASE via.in = "tun"
    <3>1. Absolute = 0 /\ 0 + (0 - 0) = 0
      BY <2>1 DEF Absolute
    <3>2. Holds(0)
      BY <1>1, <1>2, <1>5, <2>1 DEF Holds
    <3> QED
      BY <1>1, <1>2, <2>1, <3>1, <3>2 DEF Before
  <2>2. CASE via.in # "tun"
    BY <1>1, <1>3, <1>5, <2>2 DEF Before
  <2> QED
    BY <2>1, <2>2
<1>10. UpstreamIntact /\ DownstreamIntact
  <2>1. Len(Headers) \in Nat /\ Replies \in {0, 1}
    BY <1>7, HeadersFacts DEF Replies
  <2> QED
    BY <1>1, <1>2, <2>1 DEF UpstreamIntact, DownstreamIntact
<1>11. Downward
  <2>1. via.in = "tun" => Replies = 0
    BY DEF Replies
  <2> QED
    BY <1>1, <1>2, <1>4, <1>6, <2>1 DEF Downward
<1> QED
  BY <1>7, <1>8, <1>9, <1>10, <1>11 DEF IndInv

\* Every step keeps the invariant.
LEMMA NextInv == IndInv /\ [Next]_vars => IndInv'
<1> SUFFICES ASSUME IndInv, [Next]_vars PROVE IndInv'
  OBVIOUS
<1>1. CASE Handler
  BY <1>1, HandshakeInv, DispatchInv, ReadInitialPayloadInv, ConnectInv, WriteHeadInv,
     StartRelaysInv, CloseInv DEF Handler
<1>2. CASE UpRelay \/ DownRelay
  BY <1>2, UpReadInv, UpWriteDoneInv, DownReadInv, DownWriteDoneInv DEF UpRelay,
     DownRelay
<1>3. CASE ClientSends \/ RemoteSends \/ RemoteSendsEmpty \/ ClientEnds \/ RemoteEnds
           \/ ClientStalls \/ RemoteStalls
  BY <1>3, ClientSendsInv, RemoteSendsInv, RemoteSendsEmptyInv, ClientEndsInv,
     RemoteEndsInv, ClientStallsInv, RemoteStallsInv
<1>4. CASE UNCHANGED vars
  <2>1. Typed' /\ Control' /\ Returned'
    BY <1>4 DEF vars, IndInv, Typed, Control, Returned
  <2>2. Before' /\ Upward'
    <3>1. /\ Headers' = Headers /\ Absolute' = Absolute /\ Alive' = Alive
          /\ \A n : Holds(n)' <=> Holds(n)
      BY <1>4 DEF vars, Headers, IsVless, Absolute, Alive, Holds
    <3>2. Before'
      BY <1>4, <3>1 DEF vars, IndInv, Before, Holds
    <3>3. Upward'
      BY <1>4, <3>1 DEF vars, IndInv, Upward, Holds, UpUnit
    <3> QED
      BY <3>2, <3>3
  <2>3. Downward'
    <3>1. Replies' = Replies /\ HeaderAhead' = HeaderAhead /\ InHand' = InHand
      BY <1>4 DEF vars, Replies, HeaderAhead, InHand, IsVless
    <3>2. Taken' = Taken
      BY <1>4, <3>1 DEF vars, Taken
    <3> QED
      BY <1>4, <3>1, <3>2 DEF vars, IndInv, Downward, DownUnit
  <2>4. UpstreamIntact' /\ DownstreamIntact'
    BY <1>4 DEF vars, IndInv, UpstreamIntact, UpUnit, Headers, IsVless,
                DownstreamIntact, DownUnit, Replies
  <2> QED
    BY <2>1, <2>2, <2>3, <2>4 DEF IndInv
<1> QED
  BY <1>1, <1>2, <1>3, <1>4 DEF Next

\* IndInv is an inductive invariant of Session.
THEOREM SessionInvariant == Spec => []IndInv
<1> QED
  BY InitInv, NextInv, PTL DEF Spec

\* What reaches the remote is the headers and then the client's units, in order
\* and without a gap, however much is sent and whatever ends.
THEOREM SessionUpstreamIntact == Spec => []UpstreamIntact
<1>1. IndInv => UpstreamIntact
  BY DEF IndInv
<1> QED
  BY <1>1, SessionInvariant, PTL

\* What reaches the client is the reply and then the remote's units.
THEOREM SessionDownstreamIntact == Spec => []DownstreamIntact
<1>1. IndInv => DownstreamIntact
  BY DEF IndInv
<1> QED
  BY <1>1, SessionInvariant, PTL

\* While the client is there, a session ends only once the remote is drained,
\* unless the downward relay failed or met an empty message.
THEOREM SessionNothingAbandoned == Spec => []NothingAbandoned
<1>1. IndInv => NothingAbandoned
  BY DEF IndInv, Control, Returned, NothingAbandoned
<1> QED
  BY <1>1, SessionInvariant, PTL
=============================================================================
