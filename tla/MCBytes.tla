------------------------------ MODULE MCBytes ------------------------------
(***************************************************************************)
(* The plans of the host: every action of the protocol, with none, one or  *)
(* two authorizations, and memos, accounts and waits of three sizes, one   *)
(* of which takes two bytes of a varint, alone and before any other, under *)
(* counts that agree with the actions, fall short of them, exceed them, or *)
(* are cut to eight bits, and headers of two lengths.                      *)
(***************************************************************************)
EXTENDS EosBytes

Content(authorizations, memo, accounts, waits) ==
    [authorizations |-> authorizations, memo |-> memo, accounts |-> accounts, waits |-> waits]

MCContents == <<Content(1, 2, 0, 0), Content(2, 200, 2, 1), Content(0, 0, 1, 11)>>

Cell(type, data) ==
    [count |-> 0, type |-> type, proxy |-> FALSE, producers |-> 0, data |-> data]

Header(count, data) == [Cell("unknown", data) EXCEPT !.count = count]

Actions ==
    {Cell(type, data) : type \in ActionTypes \ {"voteproducer"}, data \in DOMAIN Contents}
    \cup {[Cell("voteproducer", 1) EXCEPT !.proxy = b, !.producers = p] :
            b \in BOOLEAN, p \in {0, 1, 2}}
    \cup {Cell("unknown", 1)}

\* The actions behind another: the ones with the long memo and the lists, a
\* vote, and the unknown one.
Followers == {a \in Actions : a.data = 2 \/ a.producers = 1 \/ a.type = "unknown"}

Headers == {Header(count, 100 + 100 * (count % 2)) : count \in {0, 1, 2, 3, MAX_OPS + 1, BYTE + 2}}

\* The numbers around every length of a varint of up to four bytes; the fifth
\* does not fit the integers of TLC.
Numbers ==
    (0..300) \cup UNION {(128^k - 2)..(128^k + 2) : k \in 1..3}
             \cup {255 * 128, 256 * 128, 65535, 65536, 128^4 - 2, 128^4 - 1}

MCPlans ==
    {<<Header(1, n)>> : n \in Numbers} \cup {<<h>> : h \in Headers} \cup {<<h, a>> : h \in Headers, a \in Actions}
    \cup {<<h, a, b>> : h \in Headers, a \in Actions, b \in Followers}

\* New accounts only.
AccountPlans == {<<Header(1, 1), Cell("newaccount", d)>> : d \in DOMAIN Contents}
=============================================================================
