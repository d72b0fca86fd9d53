---------------------------- MODULE MCWireFormat ----------------------------
(* Small instances of WireFormat for TLC: requests and frames. *)
EXTENDS ListReader

Key == <<1, 1>>
Mac == <<2, 2>>
Other == <<3, 3>>
Digits == <<10, 11, 0, 1, 2, 3, 4, 5, 6, 7, 8, 9>>
Six == [i \in 1 .. 6 |-> 16 * Digits[2 * i - 1] + Digits[2 * i]]
Colon == 58

Var(key, value) == [key |-> key, value |-> value]
MacValue ==
    [i \in 1 .. 17 |-> IF i % 3 = 0 THEN Colon ELSE Digits[2 * (i \div 3) + (i % 3)]]
KeyFirst == Var(Key, <<9>>)
MacLast == <<KeyFirst, Var(Other, <<>>), Var(Mac, MacValue)>>
MacInside == <<Var(Mac, MacValue), KeyFirst>>
NoKey == <<Var(Mac, MacValue)>>
ShortMac == <<KeyFirst, Var(Mac, <<1, 2>>)>>
Anonymous == <<KeyFirst>>
Requests == {MacLast, MacInside, NoKey, ShortMac, Anonymous}

MaskKey == <<7, 1, 14, 8>>
Bytes(n) == [i \in 1 .. n |-> (i + n) % 16]
\* Too short for two addresses, but not with the longest header, just long enough, and
\* around the limit of the short header.
ClientPayloads == {Bytes(4), Bytes(12), Bytes(125), Bytes(126)}
DevicePayloads == {Bytes(126)}
Chunks == {1, 7, 8192}

\* "kill" is 12 here, and the values are 1, 2 and combinations of them, some too large
\* for an int.
Twelve == <<49, 50>>
Query == <<4, 4>>
Letters == {49, 50, Equal, Amp}
Strings(n) == UNION {[1 .. k -> Letters] : k \in 0 .. n}
ShortQueries == Strings(4) \cup {q \o Twelve \o <<Equal>> \o r : q \in Strings(2), r \in Strings(2)}

\* Strings from outside with every byte that is escaped and one control character that
\* is not, and peers around them.
Users == {<<>>} \cup [1 .. 2 -> {1, 9, 10, 13, Quote, Backslash, Comma, Close, 97}]
Peer(id, user, macs, ctrl) == [id |-> id, user |-> user, macs |-> macs, ctrl |-> ctrl]
Controller == Peer(3, <<97>>, <<>>, TRUE)
Tables ==
    {<<>>, <<Controller>>}
    \cup {<<Peer(10, u, <<>>, FALSE), Controller>> : u \in Users}
    \cup {<<Controller, Peer(5, u, << <<1 + Zero>>, <<2 + Zero, Zero>> >>, FALSE),
            Peer(127, <<97>>, << <<Zero>> >>, FALSE)>> : u \in Users}
=============================================================================
