----------------------------- MODULE GimbalLink -----------------------------
(***************************************************************************)
(* The gimbal's connection: MAVLinkProtocol.dataReceived over the parser   *)
(* of MAVLink, MAVLinkClientFactory, and ST32Protocol behind them. A line  *)
(* is what the server of a connection has to send, in segments: a segment  *)
(* has bytes and, if they are a packed message, that message.              *)
(* TCP hands over the bytes in order, cut anywhere.                        *)
(***************************************************************************)
EXTENDS Mavlink

CONSTANTS
  Lines,       \* the lines, each a sequence of segments
  Reads,       \* how many bytes may come at once
  MaxLosses    \* bound: how often the connection is lost

ASSUME LineAssumption ==
  /\ Reads \subseteq Nat \ {0} /\ MaxLosses \in Nat
  /\ \A l \in Lines : DOMAIN l = 1 .. Len(l) /\ Len(l) \in Nat
  /\ \A l \in Lines : \A s \in DOMAIN l :
       /\ l[s].bytes \in Bytes /\ l[s].bytes # <<>>
       /\ l[s].messages # <<>> =>
            \E g \in {l[s].messages[1]} :
              /\ l[s].messages = <<g>> /\ g = [id |-> g.id, seq |-> g.seq, fields |-> g.fields]
              /\ Known(g.id) /\ g.seq \in 0 .. 255 /\ Fits(Class(g.id), g.fields)
              /\ Packs(g, l[s].bytes)

VARIABLES
  line,        \* one of the lines
  stream,      \* its bytes
  pos,         \* how many of them are sent
  connected,
  parser,      \* buf, expected_length, have_prefix_error
  m_list,      \* the messages dataReceived has still to hand over
  handed,      \* history: the messages handed to messageReceived
  losses,
  pitch, yaw, seq, command, wanted

gimbal == <<pitch, yaw, seq, command, wanted>>
connection == <<connected, losses>>
server == <<line, stream>>
vars == <<server, pos, connection, parser, m_list, handed, gimbal>>

G == INSTANCE Gimbal

\* Where segment s begins; the end of the line begins one more.
Start(s) == Upto([n \in DOMAIN line |-> Len(line[n].bytes)], s - 1)
Starts == {Start(s) : s \in 1 .. Len(line) + 1}
-----------------------------------------------------------------------------
RC_CHANNELS_ID == RC_CHANNELS.id
Number(bytes) == bytes[1] + 256 * bytes[2]

\* TCP: the next bytes are there, n or what is left.
Chunk(n) == SubSeq(stream, pos + 1, IF pos + n <= Len(stream) THEN pos + n ELSE Len(stream))

\* MAVLinkProtocol.dataReceived: a MAVError is logged; any other exception ends the connection.
dataReceived(n) ==
  /\ connected /\ m_list = <<>> /\ pos < Len(stream)
  /\ pos' = pos + Len(Chunk(n))
  /\ \E parsed \in {parse_buffer(parser, Chunk(n))} :
       /\ connected' = (parsed.r.out # "UnicodeDecodeError")
       /\ parser' = parsed.p
       /\ m_list' = parsed.r.messages
  /\ UNCHANGED <<server, handed, losses, gimbal>>

\* The loop over m_list: ST32Protocol.messageReceived of the next one.
messageReceived ==
  /\ m_list # <<>>
  /\ m_list' = Tail(m_list) /\ handed' = Append(handed, Head(m_list))
  /\ LET message == Head(m_list)
         chan(k) == Number(message.fields[2 + k][1])
     IN IF message.id = RC_CHANNELS_ID THEN G!messageReceived(chan(6), chan(7), chan(8))
        ELSE UNCHANGED gimbal
  /\ UNCHANGED <<server, pos, connection, parser>>

\* The server or the network closes the connection.
connectionLost ==
  /\ connected /\ m_list = <<>> /\ losses < MaxLosses
  /\ connected' = FALSE /\ losses' = losses + 1
  /\ UNCHANGED <<server, pos, parser, m_list, handed, gimbal>>

\* A new protocol has a parser of its own.
buildProtocol == parser' = NewParser

\* MAVLinkClientFactory connects again. What the server goes on with begins with a whole segment.
Reconnect ==
  /\ ~connected
  /\ connected' = TRUE /\ buildProtocol
  /\ pos' = CHOOSE b \in Starts : b >= pos /\ \A c \in Starts : c >= pos => b <= c
  /\ G!connectionMade
  /\ UNCHANGED <<server, m_list, handed, losses>>

Init == /\ line \in Lines /\ pos = 0
        /\ stream = FlattenSeq([s \in DOMAIN line |-> line[s].bytes])
        /\ connected = TRUE /\ parser = NewParser /\ m_list = <<>> /\ handed = <<>> /\ losses = 0
        /\ G!Init

Next == \/ \E n \in Reads : dataReceived(n)
        \/ messageReceived
        \/ connectionLost
        \/ Reconnect

Spec == Init /\ [][Next]_vars
-----------------------------------------------------------------------------
\* What reaches messageReceived was sent, every field of it, once and in the order of the line,
\* whatever else was on the line and however it was cut: for every message of the dialect what
\* pack writes is what decode reads (mavlink.py:221-245, 9838-9972).
AsSent ==
  LET taken == handed \o m_list
  IN \E at \in [DOMAIN taken -> DOMAIN line] :
       /\ \A i, j \in DOMAIN taken : i < j => at[i] < at[j]
       /\ \A i \in DOMAIN taken : line[at[i]].messages = <<taken[i]>>

\* A chunk that, with what was left over before it, holds nothing but good frames from the
\* beginning of one on leaves no whole frame behind: all of them are handed over, also after an
\* error, a message cut in two or a new connection (mavlink.py:9786-9797,
\* mavlink_protocol.py:47-56).
CatchesUp ==
  [][\A s \in DOMAIN line :
       /\ connected /\ pos' # pos /\ Start(s) = pos - Len(parser.buf)
       /\ \A k \in s .. Len(line) : Start(k) < pos' => line[k].messages # <<>>
       => LET whole == {k \in s .. Len(line) : Start(k + 1) <= pos'}
          IN m_list' = FlattenSeq([k \in 1 .. Cardinality(whole) |-> line[s + k - 1].messages])]_vars

WithinOneDegree == G!WithinOneDegree
=============================================================================
