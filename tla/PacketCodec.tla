----------------------------- MODULE PacketCodec -----------------------------
(***************************************************************************)
(* Packets on a TCP stream: ProtocolCodec of libs/protocol and the two     *)
(* loops that take packets off a stream, the agent's (apps/agent) and the  *)
(* client's (apps/client).                                                 *)
(*                                                                         *)
(* TCP keeps the order of the bytes and not their grouping, so a stream is *)
(* a sequence of cells: a cell is some bytes of one packet that are always *)
(* read together, and knows its packet and its place in it.  The first     *)
(* cell of a packet holds the magic number; no other cell does (payloads   *)
(* are encrypted).  Both ends write the one protocol version there is, so  *)
(* decode() never meets another one and its UnsupportedVersion, which both *)
(* loops treat as they treat a bad magic number, does not arise.           *)
(***************************************************************************)
EXTENDS Naturals, Sequences

CONSTANTS
    HeaderSize,     \* 28 bytes in the code
    PayloadSize     \* the size of every payload

ASSUME CodecAssumption ==
    /\ HeaderSize \in Nat \ {0}
    /\ PayloadSize \in Nat

PacketSize == HeaderSize + PayloadSize

\* The cells of packet p, in the order encode() lays them out.
Encode(p) == [i \in 1 .. PacketSize |-> [packet |-> p, at |-> i]]

IncompleteHeader  == [error |-> "IncompleteHeader"]
InvalidMagic      == [error |-> "InvalidMagicHeader"]
IncompletePayload == [error |-> "IncompletePayload"]
ParseError == {IncompleteHeader, InvalidMagic, IncompletePayload}

Packet(p) == [error |-> "None", packet |-> p]

\* ProtocolCodec::decode(), which looks at the size before the magic number.
Decode(buffer) ==
    IF Len(buffer) < HeaderSize THEN IncompleteHeader
    ELSE IF buffer[1].at # 1 THEN InvalidMagic
    ELSE IF Len(buffer) < PacketSize THEN IncompletePayload
    ELSE Packet(buffer[1].packet)

\* What buffer.remove(0, n) leaves.
After(buffer, n) == SubSeq(buffer, n + 1, Len(buffer))

\* Mutant: one packet per readyRead().
AgentPacketsFirstOnly(buffer) ==
    IF Decode(buffer) \in ParseError THEN << >> ELSE <<Decode(buffer).packet>>

\* The agent's loop: the packets it takes out of one read.  Any error ends it,
\* and what is left of the buffer goes with it.
AgentPackets(buffer) ==
    LET taken[done \in 0 .. Len(buffer)] ==
            LET result == Decode(After(buffer, done))
            IN  IF result \in ParseError THEN << >>
                ELSE <<result.packet>> \o taken[done + PacketSize]
    IN  taken[0]


\* Mutant: a bad packet empties the buffer.
ClientLoopStopsAtBad(buffer) ==
    LET loop[done \in 0 .. Len(buffer)] ==
            LET b == After(buffer, done)
                result == Decode(b)
            IN  CASE result \in {IncompleteHeader, IncompletePayload} ->
                         [packets |-> << >>, rest |-> b]
                  [] result = InvalidMagic -> [packets |-> << >>, rest |-> << >>]
                  [] OTHER ->
                         LET more == loop[done + PacketSize]
                         IN  [more EXCEPT !.packets = <<result.packet>> \o @]
    IN  loop[0]

\* The client's loop: the packets it takes out of its buffer and what stays in
\* it.  An incomplete packet waits for more bytes; a bad one is skipped byte by
\* byte until the next magic number.
ClientLoop(buffer) ==
    LET loop[done \in 0 .. Len(buffer)] ==
            LET b == After(buffer, done)
                result == Decode(b)
            IN  CASE result \in {IncompleteHeader, IncompletePayload} ->
                         [packets |-> << >>, rest |-> b]
                  [] result = InvalidMagic -> loop[done + 1]
                  [] OTHER ->
                         LET more == loop[done + PacketSize]
                         IN  [more EXCEPT !.packets = <<result.packet>> \o @]
    IN  loop[0]

\* The packets whose first cell is among these cells.
StartedIn(cells) ==
    LET started[i \in 0 .. Len(cells)] ==
            IF i = 0 THEN << >>
            ELSE IF cells[i].at = 1 THEN Append(started[i - 1], cells[i].packet)
            ELSE started[i - 1]
    IN  started[Len(cells)]

=============================================================================
