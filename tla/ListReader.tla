----------------------------- MODULE ListReader -----------------------------
(***************************************************************************)
(* The list of peers read back: a JSON reader as far as the list needs one,  *)
(* and what it must find in the reply to a control request.                  *)
(***************************************************************************)
EXTENDS WireFormat

\* What a reader finds: a string, a number, a list of values.
String(s) == [kind |-> "string", text |-> s, items |-> <<>>]
Number(n) == [kind |-> "number", text |-> <<n>>, items |-> <<>>]
List(values) == [kind |-> "list", text |-> <<>>, items |-> values]

\* A reader knows what may come next, the string or the number it is in, the values found
\* in the list it is in, and in outer, when there is one, the reader of the list around it.
Reader(mode, text, items, outer) ==
    [mode |-> mode, text |-> text, items |-> items, outer |-> outer]

Start == Reader("value", <<>>, <<>>, <<>>)

After(r, value) == Reader("after", <<>>, Append(r.items, value), r.outer)

\* What may come behind a value: a comma or, as behind the bracket, the list's end.
Behind(r, b) ==
    CASE r.outer # <<>> /\ r.mode = "after" /\ b = Comma -> Reader("value", <<>>, r.items, r.outer)
      [] r.outer # <<>> /\ b = Close -> After(r.outer[1], List(r.items))
      [] OTHER -> Reader("bad", <<>>, <<>>, <<>>)

\* What becomes of a reader when the next byte is b.
ReadByte(r, b) ==
    LET known == {e \in DOMAIN Escapes : Escapes[e] = b}
        awaits == r.mode \in {"first", "value"}
        digit == b \in Zero .. Zero + 9
        to(mode, text) == Reader(mode, text, r.items, r.outer)
    IN CASE r.mode = "text" /\ b = Quote -> After(r, String(r.text))
         [] r.mode = "text" /\ b = Backslash -> to("escape", r.text)
         [] r.mode = "text" /\ b >= 32 /\ b \notin {Quote, Backslash} -> to("text", Append(r.text, b))
         [] r.mode = "escape" /\ known # {} -> to("text", Append(r.text, CHOOSE e \in known : TRUE))
         [] r.mode = "number" /\ digit /\ r.text # <<0>> -> to("number", <<10 * r.text[1] + b - Zero>>)
         [] r.mode = "number" /\ ~digit -> Behind(After(r, Number(r.text[1])), b)
         [] awaits /\ b = Quote -> to("text", <<>>)
         [] awaits /\ b = Open -> Reader("first", <<>>, <<>>, <<r>>)
         [] awaits /\ digit -> to("number", <<b - Zero>>)
         [] r.mode = "after" \/ (r.mode = "first" /\ b = Close) -> Behind(r, b)
         [] OTHER -> to("bad", <<>>)

Read(b) ==
    LET f[i \in 0 .. Len(b)] == IF i = 0 THEN Start ELSE ReadByte(f[i - 1], b[i])
    IN f[Len(b)]

\* The members of a peer.
PeerValue(peer) ==
    List(<<Number(peer.id), String(peer.user),
           List([k \in DOMAIN peer.macs |-> String(peer.macs[k])])>>)

\* The peers that are no control connections, in their order.
Clients(table) ==
    FlattenSeq([i \in DOMAIN table |->
        IF table[i].ctrl THEN <<>> ELSE <<PeerValue(table[i])>>])

Plain == {b \in Byte : b >= 32}

\* Can this be written into a list?  A control character that is none of the three
\* escaped ones is written as it is, and a reader stops at it.
Writable(text) == text \in Seq(Plain \cup DOMAIN Escapes)

\* The text of the list is one JSON value, the peers that are no control connections,
\* each with what it has, quotes, backslashes and line ends included, if the strings from
\* outside can be written and the text has room where it is written first.
ListDecodes ==
    reply.to = "list" /\ (\A i \in DOMAIN reply.table : Writable(reply.table[i].user)) =>
        Read(reply.text) = After(Start, List(Clients(reply.table)))

\* What may be in the peer table; an address is written as digits and colons.
Peers ==
    [id : Nat, user : Seq(Byte), macs : Seq(Seq(Plain \ {Quote, Backslash})), ctrl : BOOLEAN]

ASSUME PeerTexts == \A table \in PeerTables : table \in Seq(Peers)

=============================================================================
