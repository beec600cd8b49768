------------------------------ MODULE MCMavlink ------------------------------
EXTENDS GimbalLink

\* Fields of m with bytes of their own, without a marker among them, and with nothing but zeros.
Filled(m, Byte(_, _, _)) ==
  LET sizes == Sizes(m)
  IN [f \in DOMAIN m.orders |->
        IF f - 1 \in m.chars THEN <<<<65, 66>>>>
        ELSE LET tip == Upto(m.lengths, m.orders[f])
             IN [n \in 1 .. m.lengths[m.orders[f] + 1] |->
                   [b \in 1 .. sizes[tip + n] |-> Byte(f, n, b)]]]
Each(m) == Filled(m, LAMBDA f, n, b : ((7 * f + 3 * n + b) % 200) + 1)
Zero(m) == Filled(m, LAMBDA f, n, b : 0)
Sticks(c6, c7, c8) ==
  LET two(c) == <<<<c % 256, c \div 256>>>>
  IN [Each(RC_CHANNELS) EXCEPT ![8] = two(c6), ![9] = two(c7), ![10] = two(c8), ![3] = two(65278)]

\* Segments: a good frame; bytes that are none.
Good(m, version, s, fields, strip) ==
  LET p == payload(m, fields)
  IN [bytes |-> pack(m, version, s, IF strip THEN Stripped(p) ELSE p),
      messages |-> <<[id |-> m.id, seq |-> s, fields |-> fields]>>]
Bad(bytes) == [bytes |-> bytes, messages |-> <<>>]
RC(s, c6, c7, c8) == Good(RC_CHANNELS, 2, s, Sticks(c6, c7, c8), TRUE)
Beat(s) == Good(HEARTBEAT, 1, s, Each(HEARTBEAT), FALSE)
Noise == Bad(<<7, 8>>)
Unknown == Bad(pack([RADIO_STATUS EXCEPT !.id = 166], 1, 99, Zeros(9)))
NotUtf8 == Bad(pack(NAMED_VALUE_INT, 2, 99, payload(NAMED_VALUE_INT,
                 [Each(NAMED_VALUE_INT) EXCEPT ![2] = <<<<65, 0, 255>>>>])))
Damaged == Bad([Beat(99).bytes EXCEPT ![2] = 30])

\* Every message of the dialect alone, in each version and with its zeros left off.
Alone == {<<Good(m, 2, 1, Each(m), FALSE)>> : m \in mavlink_map}
Short == {<<Good(m, 2, 1, Zero(m), TRUE)>> : m \in mavlink_map}
Old == {<<Good(m, 1, 1, Each(m), FALSE)>> : m \in {w \in mavlink_map : w.id < 256}}

\* Sticks moved slowly and fast, between whatever else may be on a line.
First == {RC(1, 1500, 1505, 2000), Noise, Unknown, NotUtf8, Damaged}
Second == {RC(2, 1505, 1500, 2000), RC(2, 65535, 1494, 2000), Noise}
Third == {RC(3, 1510, 1000, 1000), RC(3, 1494, 1506, 2000), Unknown}
Mixed == {<<a, b, c, Beat(4), RC(5, 1500, 1502, 2000)>> : a \in First, b \in Second, c \in Third}

MCLines == Alone \cup Short \cup Old \cup Mixed
MCReads == {7, 400}
=============================================================================
