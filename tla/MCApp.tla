------------------------------- MODULE MCApp -------------------------------
(***************************************************************************)
(* The values of EosApp's constants for TLC.  A transaction is uploaded    *)
(* whole or in pieces: a header that declares one action or two, and       *)
(* behind it a transfer, a sale of RAM or a vote for a proxy.              *)
(***************************************************************************)
EXTENDS AppApproval, TLC

Header(count) == [ZeroCell EXCEPT !.count = count]
Transfer == [ZeroCell EXCEPT !.type = "transfer", !.data = 1]
SellRam == [ZeroCell EXCEPT !.type = "sellram", !.data = 2]
Proxy == [ZeroCell EXCEPT !.type = "voteproducer", !.proxy = TRUE]

\* Enough for the review of two actions, one that is refused in the handler
\* or half way (a header is an action of an unknown name), and an upload that
\* is too long.
MCChunks == {<<Header(2), Transfer>>, <<Proxy>>}

\* One action, in two pieces that fill the buffer.
MCPieces == {<<Header(1)>>, <<SellRam>>}

\* One action, in one piece.
MCWhole == {<<Header(1), SellRam>>}

\* The paths are alike; the properties checked under this are safety ones.
PathSymmetry == Permutations(Paths)
=============================================================================
