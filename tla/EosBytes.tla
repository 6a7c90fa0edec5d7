------------------------------ MODULE EosBytes ------------------------------
(***************************************************************************)
(* parse_tx of eos_parser.c on bytes: the sizes of the header's fields,    *)
(* the varints, the 64-bit names of the actions, what each parser of an    *)
(* action copies and from where, and the uint16_t offset that carries a    *)
(* call over to the next one.                                              *)
(*                                                                         *)
(* The host encodes a transaction ("plan", in the cells of EosParser) as   *)
(* EOSIO does, after the ABI that the comments of eos_types.h quote; the   *)
(* parser then reads it, one action a call.  It implements ParseLoop.      *)
(***************************************************************************)
EXTENDS EosVarint, SequencesExt

CONSTANTS
    BYTE,     \* number of values of a uint8_t
    UINT16,   \* number of values of a uint16_t
    MAX_OPS,  \* eos_types.h:59
    Plans,    \* the transactions of the host: a header and its actions
    Contents, \* what the data of an action stand for: how many authorizations
              \* it has, how long its memo is, and how many accounts and
              \* waits its authorities have
    KEYS      \* how many keys an authority of the host has

ASSUME WidthAssumption == {BYTE, UINT16} \subseteq Nat \ {0}
ASSUME KeysAssumption == KEYS \in Nat

\* As many as leave the bytes of HostStruct and HostKey apart.
ASSUME ContentsAssumption ==
    /\ DOMAIN Contents \subseteq 1..20
    /\ \A data \in DOMAIN Contents :
         Contents[data] \in [authorizations : Nat, memo : Nat, accounts : Nat, waits : Nat]

\* The bytes of the names and of the fields take all the values that a byte
\* has, and a uint32_t is made of bytes.
ASSUME ByteAssumption == BYTE >= 256 /\ UINT32 % BYTE = 0

VARIABLES
    plan,    \* (history) the transaction that the host encoded
    raw,     \* tx.raw: its bytes
    cursor,  \* offset, opCount, opIdx and opDetails of tx_context_t
    status   \* what the last call returned or threw

vars == <<plan, raw, cursor, status>>

\* ACTION_TRANSFER, ...: eight bytes, the lowest first.
Names == [transfer     |-> <<\h00, \h00, \h00, \h57, \h2d, \h3c, \hcd, \hcd>>,
          buyram       |-> <<\h00, \h00, \h00, \h00, \h48, \h73, \hbd, \h3e>>,
          buyrambytes  |-> <<\h00, \hb0, \hca, \hfe, \h48, \h73, \hbd, \h3e>>,
          sellram      |-> <<\h00, \h00, \h00, \h40, \h9a, \h1b, \ha3, \hc2>>,
          delegatebw   |-> <<\h00, \h00, \h3f, \h2a, \h1b, \ha6, \ha2, \h4a>>,
          undelegatebw |-> <<\hc0, \h8f, \hca, \h86, \ha9, \ha8, \hd2, \hd4>>,
          voteproducer |-> <<\h70, \h15, \hd2, \h89, \hde, \haa, \h32, \hdd>>,
          newaccount   |-> <<\h00, \h40, \h9e, \h9a, \h22, \h64, \hb8, \h9a>>]

ActionTypes == DOMAIN Names

\* A header with a number that a varint has, and actions of which a byte tells
\* the fields and the producers apart; what an action does not have is zero.
Encodable(cells) ==
    /\ cells \in Seq([count : Nat, type : ActionTypes \cup {"unknown"}, proxy : BOOLEAN,
                     producers : Nat, data : Nat])
    /\ cells # <<>>
    /\ \E k \in 1..10 : cells[1].data < Power(128, k)
    /\ \A i \in 2..Len(cells) :
         /\ cells[i].count = 0 /\ cells[i].producers <= 255
         /\ cells[i].data \in DOMAIN Contents
         /\ cells[i].type # "voteproducer" => ~cells[i].proxy /\ cells[i].producers = 0

ASSUME PlansAssumption == \A cells \in Plans : Encodable(cells)

\* The bytes that memcpy takes from a position.
Slice(at, size) == [i \in 1..size |-> ByteAt(raw, at + i - 1)]

SumOf(sizes) ==
    LET sum[k \in 0..Len(sizes)] == IF k = 0 THEN 0 ELSE sum[k - 1] + sizes[k]
    IN  sum[Len(sizes)]

\* n bytes behind the place that a parser is called with: the offset that it
\* adds them up in is a uint16_t.
Moved(at, n) == at + (n % UINT16)

\* Consecutive fields of the given sizes.
Struct(at, sizes) ==
    [i \in DOMAIN sizes |-> Slice(at + SumOf(SubSeq(sizes, 1, i - 1)), sizes[i])]

-----------------------------------------------------------------------------
(***************************************************************************)
(* Actions.  Each parser copies the fixed fields of its struct, in the     *)
(* order of the transaction; an asset is an amount and a symbol.           *)
(***************************************************************************)
Asset == <<8, 8>>

FieldSizes ==
    [transfer     |-> <<8, 8>> \o Asset,
     buyram       |-> <<8, 8>> \o Asset,
     buyrambytes  |-> <<8, 8, 4>>,
     sellram      |-> <<8, 8>>,
     delegatebw   |-> <<8, 8>> \o Asset \o Asset \o <<4>>,
     undelegatebw |-> <<8, 8>> \o Asset \o Asset,
     voteproducer |-> <<8, 8>>,
     newaccount   |-> <<8, 8>>]

\* The producers of a vote stay in raw, behind their number; the formatter
\* reads them through action->producers.
NumProducers(at) == Varint(raw, at + 16)

Producers(at) ==
    LET first == at + 16 + Bytes(raw, at + 16)
    IN  [i \in 1..NumProducers(at) |-> Slice(first + 8 * (i - 1), 8)]

\* An authority: the threshold, the number of keys, the type of a key, the
\* key, its weight, the accounts and the waits.
KeyAt(at) ==
    LET type == at + 4 + Bytes(raw, at + 4)
    IN  type + Bytes(raw, type)

\* "35 is size of key_weight"
AccountsAt(at) == KeyAt(at) + 35

WaitsAt(at) ==
    Moved(at, (AccountsAt(at) - at) + Bytes(raw, AccountsAt(at))
              + 18 * Varint(raw, AccountsAt(at)))

AuthorityEnd(at) ==
    Moved(at, (WaitsAt(at) - at) + Bytes(raw, WaitsAt(at)) + 6 * Varint(raw, WaitsAt(at)))

\* Fault: the offset does not move past the owner's authority.
OwnerAgain(at) == at + 16

\* The active authority of newaccount follows the owner's.
ActiveAt(at) == Moved(at, AuthorityEnd(at + 16) - at)

\* opDetails after parse_op, for the data of an action of a type.
Details(type, at) ==
    [type |-> type,
     fields |-> Struct(at, FieldSizes[type]) \o
        CASE type = "voteproducer" -> Producers(at)
          [] type = "newaccount" ->
               <<Slice(KeyAt(at + 16), 33), Slice(KeyAt(ActiveAt(at)), 33)>>
          [] OTHER -> <<>>]

-----------------------------------------------------------------------------
(***************************************************************************)
(* parse_op.  An action is its account, its name, a list of authorizations *)
(* of 16 bytes each, and its data behind their size.                       *)
(***************************************************************************)
SizeAt(at) == Moved(at, 16 + Bytes(raw, at + 16) + 16 * Varint(raw, at + 16))

DataAt(at) == Moved(at, (SizeAt(at) - at) + Bytes(raw, SizeAt(at)))

Known(at) == \E type \in ActionTypes : Names[type] = Slice(at + 8, 8)

TypeAt(at) == CHOOSE type \in ActionTypes : Names[type] = Slice(at + 8, 8)

\* offset = *(length): whatever was read, the data are skipped as a whole.
\* No plan reaches the cut: the host declares the size that the data have,
\* and the whole of its bytes is shorter than a uint16_t counts (Fits).
OpEnd(at) == (DataAt(at) + Varint(raw, SizeAt(at))) % UINT16

-----------------------------------------------------------------------------
(***************************************************************************)
(* parse_tx.                                                               *)
(***************************************************************************)
\* Behind chain, expiration, ref_block_num and ref_block_prefix.
NetUsageAt == 32 + 4 + 2 + 4

\* net_usage_words, max_cpu_usage_ms, delay_sec and the number of context
\* free actions are varints.
CountAt ==
    LET at[k \in 0..4] == IF k = 0 THEN NetUsageAt
                          ELSE at[k - 1] + Bytes(raw, at[k - 1])
    IN  at[4]

\* Fault: the number of actions is not cut to a byte.
WideCount == Varint(raw, CountAt)

\* tx->opCount is a uint8_t.
OpCount == Varint(raw, CountAt) % BYTE

\* "start from beginning next time"
NextOffset(at, opIdx, opCount) == IF opCount = opIdx THEN 0 ELSE OpEnd(at)

TooManyOps ==
    /\ cursor.offset = 0 /\ OpCount > MAX_OPS
    /\ cursor' = [cursor EXCEPT !.opCount = OpCount]
    /\ status' = "6e10"

Started ==
    IF cursor.offset > 0 THEN cursor
    ELSE [cursor EXCEPT !.offset = CountAt + Bytes(raw, CountAt),
                        !.opCount = OpCount, !.opIdx = 0]

\* THROW(0x6900): the offset is a local variable, and is lost.
UnknownAction ==
    /\ ~Known(Started.offset)
    /\ cursor' = [Started EXCEPT !.offset = cursor.offset]
    /\ status' = "6900"

parse_op ==
    LET at == Started.offset
        opIdx == (Started.opIdx + 1) % BYTE
    IN  /\ Known(at)
        /\ cursor' = [offset |-> NextOffset(at, opIdx, Started.opCount),
                      opCount |-> Started.opCount, opIdx |-> opIdx,
                      op |-> Details(TypeAt(at), DataAt(at))]
        /\ status' = "9000"

parse_tx ==
    /\ status = "9000"
    /\ \/ TooManyOps
       \/ ~(cursor.offset = 0 /\ OpCount > MAX_OPS) /\ (UnknownAction \/ parse_op)
    /\ UNCHANGED <<plan, raw>>

-----------------------------------------------------------------------------
(***************************************************************************)
(* The host.  It encodes its varints with varint_encode, which nothing on  *)
(* the device calls.  Every field of an action is filled with a byte that  *)
(* tells the field and the data of the cell apart; the first byte of a     *)
(* producer is its position, and the data of the header net_usage_words.   *)
(***************************************************************************)
Fill(size, byte) == [i \in 1..size |-> byte]

HostStruct(sizes, data) ==
    [i \in DOMAIN sizes |-> Fill(sizes[i], IF data = 0 THEN 0 ELSE 10 * data + i)]

\* The sizes in the ABI: the flag at the end of delegatebw is a bool.
AbiSizes == [FieldSizes EXCEPT !.delegatebw[7] = 1]

HostKey(cell, who) == Fill(33, IF cell.data = 0 THEN 0 ELSE 100 * who + cell.data)

HostAuthority(cell, who) ==
    LET accounts == Contents[cell.data].accounts
        waits == Contents[cell.data].waits
    IN  Fill(4, 1)
            \o Encode(KEYS)
            \o FlattenSeq([i \in 1..KEYS |-> <<0>> \o (IF i = 1 THEN HostKey(cell, who)
                                                      ELSE Fill(33, 99)) \o <<1, 0>>])
            \o Encode(accounts) \o Fill(18 * accounts, 5)
            \o Encode(waits) \o Fill(6 * waits, 6)

HostProducers(cell) == [i \in 1..cell.producers |-> Fill(8, i)]

\* The fields that an action of the plan has.
HostFields(cell) ==
    LET sizes == AbiSizes[cell.type]
        fixed == HostStruct(sizes, cell.data)
    IN  CASE cell.type = "voteproducer" ->
               <<fixed[1], Fill(8, IF cell.proxy THEN 7 ELSE 0)>> \o HostProducers(cell)
          [] cell.type = "newaccount" -> fixed \o <<HostKey(cell, 1), HostKey(cell, 2)>>
          [] OTHER -> fixed

\* A string behind its length.
HostMemo(cell) == Encode(Contents[cell.data].memo) \o Fill(Contents[cell.data].memo, 65)

HostData(cell) ==
    CASE cell.type = "unknown" -> Fill(cell.data, 4)
      [] cell.type = "transfer" -> FlattenSeq(HostFields(cell)) \o HostMemo(cell)
      [] cell.type = "voteproducer" ->
           LET fields == HostFields(cell)
           IN  fields[1] \o fields[2] \o Encode(cell.producers)
                   \o FlattenSeq(HostProducers(cell))
      [] cell.type = "newaccount" ->
           FlattenSeq(HostStruct(AbiSizes.newaccount, cell.data))
               \o HostAuthority(cell, 1) \o HostAuthority(cell, 2)
      [] OTHER -> FlattenSeq(HostFields(cell))

\* "eosio.token" and "eosio"
HostAccount(cell) ==
    IF cell.type = "transfer" THEN <<\h00, \ha6, \h82, \h34, \h03, \hea, \h30, \h55>>
    ELSE <<\h00, \h00, \h00, \h00, \h00, \hea, \h30, \h55>>

\* The account, the name of the action, its authorizations and its data.
HostAction(cell) ==
    HostAccount(cell)
        \o (IF cell.type \in ActionTypes THEN Names[cell.type] ELSE Fill(8, 1))
        \o Encode(Contents[cell.data].authorizations)
        \o Fill(16 * Contents[cell.data].authorizations, 3)
        \o Encode(Len(HostData(cell))) \o HostData(cell)

HostHeader(cell) ==
    Fill(42, 9) \o Encode(cell.data) \o <<0>> \o <<0>> \o <<0>>
        \o Encode(cell.count)

\* Behind the actions: no extensions, and a digest of zeros.
HostTrailer == Fill(33, 0)

HostTx(cells) ==
    HostHeader(cells[1])
        \o FlattenSeq([i \in 1..(Len(cells) - 1) |-> HostAction(cells[i + 1])])
        \o HostTrailer

\* The raw buffer (1540 bytes) is shorter than a uint16_t counts.
Fits(cells) == Len(HostTx(cells)) < UINT16

ASSUME LengthAssumption == UINT16 <= UINT32 /\ \A cells \in Plans : Fits(cells)

Init ==
    /\ plan \in Plans
    /\ raw = HostTx(plan)
    /\ cursor = [offset |-> 0, opCount |-> 0, opIdx |-> 0,
                 op |-> [type |-> "transfer", fields |-> HostStruct(FieldSizes.transfer, 0)]]
    /\ status = "9000"

Spec == Init /\ [][parse_tx]_vars

TypeOK ==
    /\ plan \in Plans /\ raw \in Seq(0..(BYTE - 1))
    /\ cursor.offset \in 0..(UINT16 - 1)
    /\ {cursor.opCount, cursor.opIdx} \subseteq 0..(BYTE - 1)
    /\ cursor.op.type \in ActionTypes
    /\ status \in {"9000", "6e10", "6900"}

-----------------------------------------------------------------------------
(***************************************************************************)
(* The refinement: an offset is the number of cells that end before it,    *)
(* and an action is the cell that has its fields.                          *)
(***************************************************************************)
CellEnd(i) ==
    Len(HostHeader(plan[1])) + SumOf([j \in 1..(i - 1) |-> Len(HostAction(plan[j + 1]))])

NoCell == Len(plan) + 1

CellOffset ==
    IF cursor.offset = 0 THEN 0
    ELSE IF \E i \in 1..Len(plan) : CellEnd(i) = cursor.offset
         THEN CHOOSE i \in 1..Len(plan) : CellEnd(i) = cursor.offset
         ELSE NoCell

ZeroAction ==
    [count |-> 0, type |-> "transfer", proxy |-> FALSE, producers |-> 0, data |-> 0]

\* The fields agree as far as the ABI has bytes for them.
Shows(cell) ==
    /\ cursor.op.type = cell.type
    /\ Len(cursor.op.fields) = Len(HostFields(cell))
    /\ \A i \in DOMAIN HostFields(cell) :
         SubSeq(cursor.op.fields[i], 1, Len(HostFields(cell)[i])) = HostFields(cell)[i]

CellOp ==
    LET shown == {cell \in {plan[i] : i \in 2..Len(plan)} \cup {ZeroAction} :
                    cell.type \in ActionTypes /\ Shows(cell)}
    IN  IF shown = {} THEN [ZeroAction EXCEPT !.data = NoCell]
        ELSE CHOOSE cell \in shown : TRUE

Cells == INSTANCE ParseLoop WITH
    raw <- plan,
    cursor <- [offset |-> CellOffset, opCount |-> cursor.opCount,
               opIdx |-> cursor.opIdx, op |-> CellOp]

(***************************************************************************)
(* On the bytes of a transaction that is encoded as EOSIO encodes it, the  *)
(* parser does what EosParser says it does on cells: each call stops on    *)
(* the boundary of an action, however long the varints and the memo are    *)
(* and however many authorizations, accounts and waits there are, and      *)
(* opDetails has the fields of that very action (parse_tx, parse_op and    *)
(* the eight parse_X).  The size that an action declares is that of its    *)
(* data.                                                                   *)
(***************************************************************************)
ImplementsCells == Cells!Spec

(***************************************************************************)
(* What is decoded is what was encoded, over exactly the bytes that were   *)
(* written, as many as varint_encoding_length promises; only a number that *)
(* has more than 32 bits is cut.  The two loops have no bound of their     *)
(* own: "len" is never tested with effect (eos_varint.c:61, 81).           *)
(***************************************************************************)
VarintsComeBack ==
    /\ Bytes(raw, NetUsageAt) = EncodingLength(plan[1].data)
    /\ Varint(raw, NetUsageAt) = plan[1].data % UINT32

(***************************************************************************)
(* What eos_parser.c:258 says of an authority, "We will only parse out the *)
(* first key weight into public key for displaying": the two keys that are *)
(* shown of a new account are the first of its owner and of its active     *)
(* authority.                                                              *)
(***************************************************************************)
ShowsFirstKeys ==
    cursor.op.type = "newaccount" => cursor.op = [type |-> "newaccount",
                                                  fields |-> HostFields(plan[cursor.opIdx + 1])]
=============================================================================
