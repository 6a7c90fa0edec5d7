------------------------------ MODULE EosText ------------------------------
(***************************************************************************)
(* The texts on the pages of a review: parse_name, print_int,              *)
(* print_summary and print_binary_summary of eos_utils.c, and format_asset *)
(* of eos_format_nanos.c, on buffers of C characters.  A page clears the   *)
(* buffer of the last one and prints into it.                              *)
(*                                                                         *)
(* A buffer is a sequence of characters, NUL among them.  An EOSIO name is *)
(* its 13 characters: the charmap of eos_utils.c turns the base-32 digits  *)
(* of the 64-bit value into them one for one.                              *)
(***************************************************************************)
EXTENDS Integers, Sequences, SequencesExt, Powers

CONSTANTS
    Letters,   \* the characters of names and symbols
    Values,    \* what the pages are about
    WORD,      \* number of values of a 64-bit integer
    AMOUNT_MAX_SIZE,   \* what print_int writes at most, and one: 21
    POINTER,   \* sizeof(char *): 4 on the device, 8 in the tests
    Below,     \* the character in memory before the local str of parse_name
    Behind     \* those after it, up to a NUL

NUL == "NUL"
SPACE == " "
JUNK == "?"     \* a character that was never written

Figures == {"0", "1", "2", "3", "4", "5", "6", "7", "8", "9"}
Chars == Letters \cup Figures \cup {"A", "B", "C", "D", "E", "F"} \cup {"x", ".", "-", SPACE}

ASSUME LettersAssumption == NUL \notin Letters
ASSUME WordAssumption == WORD \in Nat \ {0}

\* An int64_t, of 19 digits and a sign, is printed to its end.
ASSUME RoomAssumption ==
    /\ AMOUNT_MAX_SIZE \in Nat /\ AMOUNT_MAX_SIZE >= 2
    /\ WORD \div 2 < Power(10, AMOUNT_MAX_SIZE - 2)

ASSUME PointerAssumption == POINTER \in {4, 8}
ASSUME StackAssumption == Below \subseteq Chars /\ Behind \subseteq Seq(Chars)

VARIABLES
    value,        \* (history) what the page is about
    detailValue   \* eos_format_nanos.c:37

vars == <<value, detailValue>>

\* text: the characters of a name, the symbol of an asset, the bytes of a
\* hash; number: an integer, the amount of an asset.
Value(kind, text, number, decimals) ==
    [kind |-> kind, text |-> text, number |-> number, decimals |-> decimals]
Nothing == Value("none", <<>>, 0, 0)

ASSUME ValuesAssumption ==
    \A v \in Values :
        /\ v.kind \in {"name", "int", "sellram", "asset", "hash"}
        /\ v.kind = "name" => v.text \in [1..13 -> Chars]
        /\ v.kind \in {"int", "asset"} => v.number \in -(WORD \div 2)..(WORD \div 2 - 1)
        /\ v.kind = "sellram" => v.number \in 0..(WORD - 1)
        /\ v.kind = "asset" => v.text \in Seq(Chars) /\ v.decimals \in Nat
        /\ v.kind = "hash" => v.text \in [1..32 -> 0..255]

DETAIL_VALUE_MAX_SIZE == 89

Fill(size, char) == [i \in 1..size |-> char]

\* memcpy, strcpy and memmove to a place (counted from 0) in a buffer.
Put(buffer, at, chars) ==
    SubSeq(buffer, 1, at) \o chars \o SubSeq(buffer, at + Len(chars) + 1, Len(buffer))

\* The string in a buffer: up to its NUL, or all of it.
CString(buffer) ==
    IF NUL \in Range(buffer) THEN SubSeq(buffer, 1, SelectInSeq(buffer, LAMBDA c : c = NUL) - 1)
    ELSE buffer

-----------------------------------------------------------------------------
\* Fault: the character before the last one is dropped as well.
TrimTwo(mem) == SelectLastInSubSeq(mem, 1, Len(mem) - 3, LAMBDA c : c # ".")

\* rtrim steps back before it looks: the last character is never examined,
\* and the search does not stop at the start of the string.
TrimmedAt(mem) == SelectLastInSubSeq(mem, 1, Len(mem) - 1, LAMBDA c : c # ".")

\* parse_name.  str has no room for a NUL: strlen runs on into Behind, and a
\* name of dots alone takes the search to Below.  The result is the 13
\* characters, with whatever NUL was put among them.
parse_name(name, below, behind) ==
    LET mem == <<below>> \o name \o behind
        last == TrimmedAt(mem)
    IN  SubSeq(Put(mem, last, <<NUL>>), 2, 14)

\* '0' + digit
Numeral(digit) == <<"0", "1", "2", "3", "4", "5", "6", "7", "8", "9">>[digit + 1]

\* The decimal digits of a positive number.
Digits(number) ==
    LET code[k \in Nat] == IF k = 0 THEN <<>>
                           ELSE Append(code[k \div 10], Numeral(k % 10))
    IN  code[number]

Magnitude(l) == IF l < 0 THEN -l ELSE l

\* The negative of the least number is not a number: nothing is printed.
print_int(l) ==
    IF l = 0 THEN <<"0">>
    ELSE (IF l < 0 THEN <<"-">> ELSE <<>>)
             \o (IF l = -(WORD \div 2) THEN <<>> ELSE Digits(Magnitude(l)))

\* A uint64_t that is passed as an int64_t.
Signed(l) == IF l < WORD \div 2 THEN l ELSE l - WORD

-----------------------------------------------------------------------------
(***************************************************************************)
(* format_asset.  The fraction is printed behind a 1 that keeps its zeros, *)
(* and moved one place to the right to make room for the point:            *)
(* sizeof(ptr) + 1 characters of it.                                       *)
(***************************************************************************)
PointInserted(fracStr) ==
    Put(Put(fracStr, 2, SubSeq(fracStr, 2, POINTER + 2)), 1, <<".">>)

Fraction(frac, precision) ==
    LET fracStr == Put(Fill(10, JUNK), 0, print_int(precision + frac) \o <<NUL>>)
    IN  Tail(CString(PointInserted(fracStr)))

\* The amount without its sign, then the symbol.
format_asset(asset) ==
    LET precision == Power(10, asset.decimals)
        amount == Magnitude(asset.number)
    IN  print_int(amount \div precision)
            \o (IF asset.decimals = 0 THEN <<>> ELSE Fraction(amount % precision, precision))
            \o <<SPACE>> \o asset.text

-----------------------------------------------------------------------------
\* Fault: a long text is cut short by nothing.
Whole(in) == in

Elided(in) == SubSeq(in, 1, 6) \o <<".", ".">> \o SubSeq(in, Len(in) - 5, Len(in))

\* print_summary(in, out, 6, 6): a text that fits is copied without its NUL.
print_summary(in, out) ==
    IF Len(in) > 6 + 6 + 2 THEN Put(out, 0, Elided(in) \o <<NUL>>)
    ELSE Put(out, 0, in)

hexAlphabet == <<"0", "1", "2", "3", "4", "5", "6", "7", "8", "9", "A", "B", "C", "D", "E", "F">>

\* Two characters for each byte.
Hex(bytes) ==
    [j \in 1..(2 * Len(bytes)) |->
        LET byte == bytes[(j + 1) \div 2]
        IN  hexAlphabet[1 + (IF j % 2 = 1 THEN byte \div 16 ELSE byte % 16)]]

\* What print_binary_summary writes for more than eight bytes: the first and
\* the last four, in hexadecimal.
BinarySummary(bytes) ==
    <<"0", "x">> \o Hex(SubSeq(bytes, 1, 4)) \o <<".", ".">>
        \o Hex(SubSeq(bytes, Len(bytes) - 3, Len(bytes))) \o <<NUL>>

-----------------------------------------------------------------------------
\* MEMCLEAR(detailValue), and the memset of format_confirm_hash_warning
Cleared(buffer) == Fill(DETAIL_VALUE_MAX_SIZE, NUL)

ShowName ==
    /\ value'.kind = "name"
    /\ \E below \in Below, behind \in Behind :
         detailValue' = print_summary(CString(parse_name(value'.text, below, behind)),
                                      Cleared(detailValue))

\* The bytes of buyrambytes and the flag of delegatebw fit an int64_t.
ShowInt ==
    /\ value'.kind = "int"
    /\ detailValue' = print_summary(print_int(value'.number), Cleared(detailValue))

\* The bytes of sellram are a uint64_t.
ShowSellRamBytes ==
    /\ value'.kind = "sellram"
    /\ detailValue' = print_summary(print_int(Signed(value'.number)), Cleared(detailValue))

ShowAsset ==
    /\ value'.kind = "asset"
    /\ detailValue' = print_summary(format_asset(value'), Cleared(detailValue))

ShowHash ==
    /\ value'.kind = "hash"
    /\ detailValue' = Put(Cleared(detailValue), 0, BinarySummary(value'.text))

Init ==
    /\ value = Nothing
    /\ detailValue = Fill(DETAIL_VALUE_MAX_SIZE, NUL)

Next ==
    /\ value' \in Values
    /\ ShowName \/ ShowInt \/ ShowSellRamBytes \/ ShowAsset \/ ShowHash

Spec == Init /\ [][Next]_vars

TypeOK ==
    /\ value \in Values \cup {Nothing}
    /\ Len(detailValue) = DETAIL_VALUE_MAX_SIZE
    /\ Len(CString(detailValue)) <= IF value.kind = "hash" THEN 20 ELSE 14

-----------------------------------------------------------------------------
(***************************************************************************)
(* The reference: the text that a value has.                               *)
(***************************************************************************)
Decimal(number, width) ==
    [i \in 1..width |-> Numeral((number \div Power(10, width - i)) % 10)]

Width(number) ==
    CHOOSE w \in 1..AMOUNT_MAX_SIZE :
        number < Power(10, w) /\ (w > 1 => number >= Power(10, w - 1))

Number(number) ==
    IF number < 0 THEN <<"-">> \o Decimal(-number, Width(-number))
    ELSE Decimal(number, Width(number))

Text(v) ==
    CASE v.kind = "name" -> SubSeq(v.text, 1, SelectLastInSeq(v.text, LAMBDA c : c # "."))
      [] v.kind \in {"int", "sellram"} -> Number(v.number)
      [] v.kind = "asset" ->
           Number(v.number \div Power(10, v.decimals))
               \o (IF v.decimals = 0 THEN <<>>
                   ELSE <<".">> \o Decimal(v.number % Power(10, v.decimals), v.decimals))
               \o <<SPACE>> \o v.text
      [] v.kind = "hash" -> <<"0", "x">> \o Hex(v.text)

\* As much of it as is shown: "first numCharsL of input + last numCharsR of
\* input separated by ..", of a hash eight digits each and the "0x".
Summary(text, left, right) ==
    IF Len(text) <= left + right + 2 THEN text
    ELSE SubSeq(text, 1, left) \o <<".", ".">> \o SubSeq(text, Len(text) - right + 1, Len(text))

Shown == CString(detailValue)

\* What the application prints in full: names of up to 12 characters over a
\* stack that has a NUL at str or behind one character, and numbers that are
\* not negative as amounts, nor too large to be an int64_t, with no more
\* decimals than the move makes room for.
Printable ==
    /\ "." \notin Below /\ \A behind \in Behind : Len(behind) <= 1
    /\ \A v \in Values :
         /\ v.kind = "name" => v.text[13] = "."
         /\ v.kind = "int" => v.number > -(WORD \div 2)
         /\ v.kind = "sellram" => v.number < WORD \div 2
         /\ v.kind = "asset" => v.number >= 0 /\ v.decimals <= POINTER

(***************************************************************************)
(* The page shows the text of its value, all of it or its two ends: every  *)
(* dot inside a name and every zero of a fraction is in its place, and     *)
(* nothing is left of the page before, although print_summary ends a text  *)
(* that fits without a NUL (eos_utils.c:191).                              *)
(***************************************************************************)
ShowsTheValue ==
    value.kind # "none" =>
        Shown = IF value.kind = "hash" THEN Summary(Text(value), 10, 8)
                ELSE Summary(Text(value), 6, 6)

(***************************************************************************)
(* What eos_api.h:77 says of rtrim, "right trim extra character from       *)
(* string", and eos_api.h:80 of parse_name: only dots are trimmed from a   *)
(* name.                                                                   *)
(***************************************************************************)
OnlyDotsAreTrimmed == value.kind = "name" => Shown = Text(value)
=============================================================================
