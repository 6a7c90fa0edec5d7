------------------------------- MODULE MCText -------------------------------
(***************************************************************************)
(* Names of every length up to 12, with a dot at any place or none;        *)
(* numbers around the powers of ten, of both signs; assets of 0 to 4       *)
(* decimals, short enough to be shown whole and too long for it; hashes.   *)
(***************************************************************************)
EXTENDS EosText

\* A NUL follows str at once, or after one character.
MCBehind == {<<>>, <<"x">>}

\* Letters at the first places of a name but one, dots elsewhere.
Name(length, dot) ==
    Value("name", [i \in 1..13 |-> IF i <= length /\ i # dot THEN "a" ELSE "."], 0, 0)

Names == {Name(length, dot) : length \in 0..12, dot \in 0..12}

Integers == {0, 1, 9, 10, 100, 1009, 65535, -1, -10, -128}

Assets ==
    {Value("asset", symbol, amount, decimals) :
        symbol \in {<<"S", "Y", "S">>, <<"S", "Y", "S", "T", "E", "M">>},
        amount \in {0, 1, 10, 9999, 10000, 10001, 536870911},
        decimals \in {0, 1, 4}}

Bytes32(byte) == [i \in 1..32 |-> IF i \in {1, 4, 29, 32} THEN byte ELSE 0]
Hashes == {Value("hash", Bytes32(byte), 0, 0) : byte \in {0, 31, 255}}

MCValues ==
    Names \cup {Value("int", <<>>, l, 0) : l \in Integers}
    \cup {Value("sellram", <<>>, l, 0) : l \in {l \in Integers : l >= 0}}
    \cup Assets \cup Hashes

\* Names that end in a 13th character.
LongNames == {Value("name", Fill(12, "a") \o <<last>>, 0, 0) : last \in {".", "b"}}
=============================================================================
