------------------------------- MODULE Mavlink -------------------------------
(***************************************************************************)
(* telemetry/mavlink.py as functions: a message is packed into a frame     *)
(* (MAVLink_message.pack, MAVLink_header.pack, x25crc), a buffer of bytes  *)
(* is parsed into messages (parse_char, parse_buffer, decode).             *)
(*                                                                         *)
(* A value is the bytes struct makes of it. The fields of a message are a  *)
(* sequence with a sequence of values for each field, one value but for    *)
(* arrays. Signing is off on both sides, as nothing in the code turns it   *)
(* on: a signed frame is accepted unread.                                  *)
(***************************************************************************)
EXTENDS MavlinkDialect, Integers, SequencesExt

Bytes == Seq(0 .. 255)
Zeros(n) == [i \in 1 .. n |-> 0]

\* The sum of the first n of some numbers.
Upto(s, n) == LET sum[i \in 0 .. n] == IF i = 0 THEN 0 ELSE sum[i - 1] + s[i] IN sum[n]
-----------------------------------------------------------------------------
(* The checksum *)

\* Exclusive or of two bytes, bit by bit, as a table for the pairs.
XorTable == [ab \in 0 .. 65535 |->
               LET bit(n) == n * (((ab \div (256 * n)) + (ab \div n)) % 2)
               IN bit(1) + bit(2) + bit(4) + bit(8) + bit(16) + bit(32) + bit(64) + bit(128)]
Xor(a, b) == XorTable[256 * a + b]

\* (tmp << 8) ^ (tmp << 3) ^ (tmp >> 4), where tmp is t ^ (t << 4): the high byte of tmp << 3 is
\* tmp >> 5.
Shifted == [t \in 0 .. 255 |->
              LET tmp == Xor(t, (t * 16) % 256)
              IN 256 * Xor(tmp, tmp \div 32) + Xor((tmp * 8) % 256, tmp \div 16)]

\* One byte more.
accumulate(crc, b) ==
  LET tmp == Shifted[Xor(b, crc % 256)]
  IN 256 * (tmp \div 256) + Xor(crc \div 256, tmp % 256)

x25crc(buf) ==
  LET Byte == DOMAIN buf
      over[crc \in 0 .. 65535, i \in Byte, j \in Byte] ==
        IF i = j THEN accumulate(crc, buf[i])
        ELSE over[over[crc, i, (i + j) \div 2], (i + j) \div 2 + 1, j]
  IN over[65535, 1, Len(buf)]
-----------------------------------------------------------------------------
(* Packing *)

CodeSize == [b |-> 1, B |-> 1, h |-> 2, H |-> 2, i |-> 4, I |-> 4, f |-> 4, q |-> 8, Q |-> 8,
             d |-> 8]

\* An item of a format: how many values it is, and the size of each; all the values' sizes.
Count(item) == IF item[2] = "s" THEN 1 ELSE item[1]
Width(item) == IF item[2] = "s" THEN item[1] ELSE CodeSize[item[2]]
Sizes(m) == FlattenSeq([k \in DOMAIN m.format |-> [n \in 1 .. Count(m.format[k]) |-> Width(m.format[k])]])

\* How many values, and how many bytes, the items before the k-th are.
ValuesBefore(m, k) == Upto([i \in DOMAIN m.format |-> Count(m.format[i])], k - 1)
BytesBefore(m, k) == Upto([i \in DOMAIN m.format |-> Count(m.format[i]) * Width(m.format[i])], k - 1)

\* struct.pack of the fields as the class's pack lists them; a string is filled up with NULs.
payload(m, fields) ==
  LET values == FlattenSeq([k \in DOMAIN m.packs |->
                  SubSeq(fields[m.packs[k] + 1], 1, m.counts[k])])
      item(k) == LET width == Width(m.format[k])
                     before == ValuesBefore(m, k)
                     value(b) == values[before + ((b - 1) \div width) + 1]
                     place(b) == ((b - 1) % width) + 1
                 IN [b \in 1 .. Count(m.format[k]) * width |->
                       IF place(b) <= Len(value(b)) THEN value(b)[place(b)] ELSE 0]
  IN FlattenSeq([k \in DOMAIN m.format |-> item(k)])

\* In MAVLink 2 trailing zeros may be left off, but for the first byte. (The comparison with
\* chr(0) leaves them on when bytes are integers; other senders leave them off.)
Stripped(p) == SubSeq(p, 1, CHOOSE n \in 1 .. Len(p) : /\ n = 1 \/ p[n] # 0
                                                       /\ \A j \in n + 1 .. Len(p) : p[j] = 0)

header(m, version, mlen, seq) ==
  IF version = 2 THEN <<253, mlen, 0, 0, seq, 1, 1, m.id % 256, (m.id \div 256) % 256, 0>>
  ELSE <<254, mlen, seq, 1, 1, m.id>>

pack(m, version, seq, p) ==
  LET unsigned == header(m, version, Len(p), seq) \o p
      crc == x25crc(Tail(unsigned) \o <<m.crc>>)
  IN unsigned \o <<crc % 256, crc \div 256>>
\* What a sender may put in the fields of a message of class m: the values the format has room for;
\* a text has no NUL in it and may be short.
Fits(m, fields) ==
  /\ fields \in Seq(Seq(Bytes)) /\ Len(fields) = Len(m.orders)
  /\ \A i \in DOMAIN fields :
       /\ Len(fields[i]) = m.lengths[m.orders[i] + 1]
       /\ \A n \in DOMAIN fields[i] :
            LET size == Sizes(m)[Upto(m.lengths, m.orders[i]) + n]
            IN IF i - 1 \in m.chars
               THEN /\ Len(fields[i][n]) <= size
                    /\ \A b \in DOMAIN fields[i][n] : fields[i][n][b] \notin {0, 255}
               ELSE Len(fields[i][n]) = size

\* The bytes b are message g in MAVLink 1 or 2, there also without its trailing zeros.
Packs(g, b) ==
  LET m == Class(g.id)
      p == payload(m, g.fields)
  IN \/ g.id < 256 /\ b = pack(m, 1, g.seq, p)
     \/ \E w \in {p, Stripped(p)} : b = pack(m, 2, g.seq, w)

\* What a class gives to decode and what it gives to pack agree.
Agrees(m) ==
  LET F == Len(m.orders)
      N == Len(m.format)
  IN /\ m.id \in Nat /\ m.id < 65536
     /\ m.crc = m.crc_extra /\ m.crc \in 0 .. 255
     /\ F \in Nat /\ m.orders \in Seq(0 .. F - 1) /\ m.packs \in Seq(0 .. F - 1) /\ Len(m.packs) = F
     /\ \A i \in 1 .. F : m.packs[m.orders[i] + 1] = i - 1 /\ m.orders[m.packs[i] + 1] = i - 1
     /\ m.lengths \in Seq(Nat \ {0}) /\ Len(m.lengths) = F /\ m.counts = m.lengths
     /\ m.chars \subseteq 0 .. F - 1 /\ \A i \in m.chars : m.lengths[m.orders[i + 1] + 1] = 1
     /\ m.format \in Seq((Nat \ {0}) \X (DOMAIN CodeSize \cup {"s"}))
     /\ ValuesBefore(m, N + 1) = Upto(m.lengths, F)
     /\ BytesBefore(m, N + 1) \in 1 .. 255
ASSUME DialectAssumption ==
  \A m \in mavlink_map : Agrees(m) /\ \A w \in mavlink_map : w.id = m.id => w = m
-----------------------------------------------------------------------------
(* Decoding: what comes of a frame is [out, messages], out naming the exception if any. *)

Nothing == [out |-> "none", messages |-> <<>>]
MAVError == [out |-> "MAVError", messages |-> <<>>]
UnicodeDecodeError == [out |-> "UnicodeDecodeError", messages |-> <<>>]

\* Byte 255 stands for all that UTF-8 has no character for.
NotText(s) == \E i \in DOMAIN s : s[i] = 255

MAVString(s) == IF \E i \in DOMAIN s : s[i] = 0
                THEN SubSeq(s, 1, (CHOOSE i \in DOMAIN s :
                                     s[i] = 0 /\ \A j \in 1 .. i - 1 : s[j] # 0) - 1)
                ELSE s

\* A bug: orders is not used.
Bug_Ordered(m, t) == [i \in DOMAIN m.orders |->
                        LET tip == Upto(m.lengths, i - 1)
                        IN SubSeq(t, tip + 1, tip + m.lengths[i])]

\* The fields in the order of fieldnames, from the values in the order of the wire.
Ordered(m, t) == [i \in DOMAIN m.orders |->
                    LET order == m.orders[i]
                        tip == Upto(m.lengths, order)
                    IN SubSeq(t, tip + 1, tip + m.lengths[order + 1])]

\* struct.unpack of a payload, zeros added where it is short.
unpack(m, p) ==
  LET full == SubSeq(p \o Zeros(255), 1, BytesBefore(m, Len(m.format) + 1))
      item(k) == LET width == Width(m.format[k])
                     before == BytesBefore(m, k)
                 IN [n \in 1 .. Count(m.format[k]) |->
                       SubSeq(full, before + (n - 1) * width + 1, before + n * width)]
  IN FlattenSeq([k \in DOMAIN m.format |-> item(k)])

Decoded(m, seq, fields) ==
  IF \E i \in m.chars : NotText(fields[i + 1][1]) THEN UnicodeDecodeError
  ELSE [out |-> "message",
        messages |-> <<[id |-> m.id, seq |-> seq,
                        fields |-> [i \in DOMAIN fields |->
                          IF i - 1 \in m.chars THEN <<MAVString(fields[i][1])>>
                          ELSE fields[i]]]>>]

\* A frame of class m, whose payload goes from first to end.
DecodedAs(m, seq, msgbuf, first, end) ==
  LET crc == x25crc(SubSeq(msgbuf, 2, end) \o <<m.crc_extra>>)
  IN IF <<msgbuf[end + 1], msgbuf[end + 2]>> # <<crc % 256, crc \div 256>> THEN MAVError
     ELSE Decoded(m, seq, Ordered(m, unpack(m, SubSeq(msgbuf, first, end))))

decode(msgbuf) ==
  LET v1 == msgbuf[1] = 254
      headerlen == IF v1 THEN 6 ELSE 10
      msgId == IF v1 THEN msgbuf[6] ELSE msgbuf[8] + 256 * msgbuf[9] + 65536 * msgbuf[10]
      seq == IF v1 THEN msgbuf[3] ELSE msgbuf[5]
      signature_len == IF ~v1 /\ msgbuf[3] % 2 = 1 THEN 13 ELSE 0
      end == Len(msgbuf) - (2 + signature_len)
  IN IF msgbuf[2] # end - headerlen \/ ~Known(msgId) THEN MAVError
     ELSE DecodedAs(Class(msgId), seq, msgbuf, headerlen + 1, end)
-----------------------------------------------------------------------------
(* Parsing: the parser's state p is [buf, expected_length, have_prefix_error], buf without the *)
(* part below buf_index. *)

NewParser == [buf |-> <<>>, expected_length |-> 8, have_prefix_error |-> FALSE]

BadPrefix(buf) == buf # <<>> /\ buf[1] \notin {253, 254}

\* The length of the frame at the head of buf, as soon as three bytes of it are there.
Expected(p, header_len) ==
  IF Len(p.buf) < 3 THEN p.expected_length
  ELSE p.buf[2] + header_len + 2
       + (IF p.buf[1] = 253 /\ p.buf[3] % 2 = 1 THEN 13 ELSE 0)

\* What comes of the bytes of one frame.
Received(mbuf) == IF mbuf[1] = 253 /\ mbuf[3] \div 2 # 0 THEN MAVError ELSE decode(mbuf)

\* One step, with buf extended already: the state after it and what it returns or raises.
parse_char(p) ==
  IF BadPrefix(p.buf)
  THEN [p |-> [p EXCEPT !.buf = Tail(p.buf), !.have_prefix_error = TRUE],
        r |-> IF p.have_prefix_error THEN Nothing ELSE MAVError]
  ELSE LET header_len == IF p.buf # <<>> /\ p.buf[1] = 253 THEN 10 ELSE 6
           expected == Expected(p, header_len)
           mbuf == SubSeq(p.buf, 1, expected)
       IN IF expected >= header_len + 2 /\ Len(p.buf) >= expected
          THEN [p |-> [buf |-> SubSeq(p.buf, expected + 1, Len(p.buf)),
                       expected_length |-> header_len + 2, have_prefix_error |-> FALSE],
                r |-> Received(mbuf)]
          ELSE [p |-> [p EXCEPT !.expected_length = expected, !.have_prefix_error = FALSE],
                r |-> Nothing]

Fed(p, data) == [p EXCEPT !.buf = @ \o data]

\* One message more behind those of s, if there is one; an exception loses them.
Another(s) ==
  LET next == parse_char(s.p)
  IN [p |-> next.p,
      r |-> CASE next.r.out = "none"    -> [out |-> "none", messages |-> s.r.messages]
              [] next.r.out = "message" -> [out |-> "message",
                                            messages |-> s.r.messages \o next.r.messages]
              [] OTHER                  -> next.r]

\* A bug: only one message is taken.
Bug_parse_buffer(p, data) == parse_char(Fed(p, data))

\* Messages are taken until there is none; none has less than 8 bytes.
parse_buffer(p, data) ==
  LET taken[n \in Nat] ==
        IF n = 0 THEN parse_char(Fed(p, data))
        ELSE LET s == taken[n - 1] IN IF s.r.out = "message" THEN Another(s) ELSE s
  IN taken[Len(Fed(p, data).buf) \div 8 + 1]
=============================================================================
