----------------------------- MODULE ControlApi -----------------------------
(***************************************************************************)
(* What a control request asks for and what it is answered: the parser of   *)
(* its query string and the text of the list of peers (src/src/uwsgi.c).    *)
(* Of the text the names of members are left out, so that an object and an  *)
(* array look the same, and of a peer's members one number, one string from *)
(* outside and the list of its learned addresses remain.                    *)
(***************************************************************************)
EXTENDS Integers, SequencesExt

CONSTANT IntHalf   \* an int goes from -IntHalf to IntHalf - 1; 2^31 in the code

ASSUME IntSize == IntHalf \in Nat \ {0}

Quote == 34
Backslash == 92
Comma == 44
Open == 91
Close == 93
Amp == 38
Equal == 61
Zero == 48

\* What json_append_json writes for a byte: tab, newline, return, and the two
\* that would end the string, with a letter of their own.
Escapes == [b \in {9, 10, 13, Quote, Backslash} |->
              CASE b = 9 -> 116 [] b = 10 -> 110 [] b = 13 -> 114 [] OTHER -> b]

\* json_append_json.
Escaped(s) ==
    FlattenSeq([i \in DOMAIN s |-> IF s[i] \in DOMAIN Escapes THEN <<Backslash, Escapes[s[i]]>>
                                   ELSE <<s[i]>>])

Quoted(s) == <<Quote>> \o s \o <<Quote>>

\* The loop over macs looks at the next one, the loop over peers does not.
MacList(macs) ==
    <<Open>> \o FlattenSeq([i \in DOMAIN macs |->
                    Quoted(macs[i]) \o (IF i < Len(macs) THEN <<Comma>> ELSE <<>>)])
    \o <<Close>>

\* json_append_num of a number that is not negative.
Decimal(n) ==
    LET f[i \in 0 .. n] ==
          IF i < 10 THEN <<Zero + i>> ELSE f[i \div 10] \o <<Zero + (i % 10)>>
    IN f[n]

PeerObject(peer) ==
    <<Open>> \o Decimal(peer.id) \o <<Comma>> \o Quoted(Escaped(peer.user)) \o <<Comma>>
    \o MacList(peer.macs) \o <<Close>>

\* The peers that are no control connections, each with a comma behind it.
ClientObjects(table) ==
    FlattenSeq([i \in DOMAIN table |->
        IF table[i].ctrl THEN <<>> ELSE PeerObject(table[i]) \o <<Comma>>])

\* Mutant of PeerList: the last comma is removed when there are peers at all.
PeerListCut(table) ==
    LET all == <<Open>> \o ClientObjects(table)
    IN (IF table # <<>> THEN SubSeq(all, 1, Len(all) - 1) ELSE all) \o <<Close>>

\* The last comma is removed when a peer was found.
PeerList(table) ==
    LET all == <<Open>> \o ClientObjects(table)
        found == \E i \in DOMAIN table : ~table[i].ctrl
    IN (IF found THEN SubSeq(all, 1, Len(all) - 1) ELSE all) \o <<Close>>

-----------------------------------------------------------------------------
(* The query string *)

\* An int that overflows wraps around; a char is signed.
Wrapped(n) == ((n + IntHalf) % (2 * IntHalf)) - IntHalf
Char(b) == IF b < 128 THEN b ELSE b - 256

\* vpn_ws_str_to_uint: any byte is a digit.
StrToUint(s) ==
    LET f[i \in 0 .. Len(s)] ==
          IF i = 0 THEN 0 ELSE Wrapped(10 * f[i - 1] + Char(s[i]) - Zero)
    IN f[Len(s)]

\* Mutant of QsCheck: the name only has to start like the key.
QsCheckPrefix(s, key) ==
    IF Len(s) > Len(key) + 1 /\ SubSeq(s, 1, Len(key)) = key
    THEN SubSeq(s, Len(key) + 2, Len(s)) ELSE <<>>

\* qs_check: what follows the first equal sign, when the key is before it.
QsCheck(s, key) ==
    LET equals == {i \in DOMAIN s : s[i] = Equal /\ \A j \in 1 .. i - 1 : s[j] # Equal}
    IN IF equals # {Len(key) + 1} \/ SubSeq(s, 1, Len(key)) # key THEN <<>>
       ELSE SubSeq(s, Len(key) + 2, Len(s))

\* qs_get: the first part with that key and a value.  After i bytes found is where
\* the current part starts, 0 between two parts, len how long it is, and value what
\* has been returned.
QsGet(qs, key) ==
    LET check(start, len) == QsCheck(SubSeq(qs, start, start + len - 1), key)
        scan[i \in 0 .. Len(qs)] ==
          IF i = 0 THEN [found |-> 1, len |-> 0, value |-> <<>>]
          ELSE LET before == scan[i - 1]
                   start == IF before.found = 0 THEN i ELSE before.found
               IN IF before.value # <<>> THEN before
                  ELSE IF qs[i] = Amp
                  THEN [found |-> 0, len |-> 0, value |-> check(start, before.len)]
                  ELSE [found |-> start, len |-> before.len + 1, value |-> <<>>]
        end == scan[Len(qs)]
    IN IF end.value = <<>> /\ end.len > 0 THEN check(end.found, end.len) ELSE end.value

=============================================================================
