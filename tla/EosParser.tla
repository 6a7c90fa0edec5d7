----------------------------- MODULE EosParser -----------------------------
(***************************************************************************)
(* The transaction parser, eos_parser.c.  parse_tx is called once per      *)
(* action of the transaction: it starts at the header when txCtx->offset   *)
(* is 0, otherwise it resumes at the action that follows the last one it   *)
(* parsed, and it goes back to offset 0 after the last action.             *)
(*                                                                         *)
(* The raw transaction is a sequence of cells.  Cell 1 is the header, of   *)
(* which the parser keeps only the number of actions; every other cell is  *)
(* one action: its account, name, authorizations and data.  A cell has     *)
(* all the fields, because the parser reads the same bytes as a header or  *)
(* as an action according to where it stands.  An offset is a number of    *)
(* cells, and the bytes behind the uploaded ones are zero (eos.c:101).     *)
(* What lies behind a full buffer is not modelled: there the code reads    *)
(* on into rawLength and hash, the fields that follow raw in ctx.req.tx.   *)
(***************************************************************************)
EXTENDS Naturals, Sequences

CONSTANTS
    BYTE,      \* number of values of a uint8_t
    MAX_OPS    \* eos_types.h:59

ASSUME ByteAssumption == BYTE \in Nat \ {0}
ASSUME MaxOpsAssumption == MAX_OPS \in Nat

\* The eight actions of EOSIO's system contract the application can show.
ActionTypes == {"transfer", "buyram", "buyrambytes", "sellram", "delegatebw",
                "undelegatebw", "voteproducer", "newaccount"}

\* count: what the cell holds where the header has its number of actions.
\* type, proxy, producers, data: what it holds as an action; proxy and
\* producers matter to voteproducer only, and data stands for all the other
\* fields of the action.
Cells == [count : Nat, type : ActionTypes \cup {"unknown"}, proxy : BOOLEAN,
          producers : Nat, data : Nat]

ZeroCell == [count |-> 0, type |-> "unknown", proxy |-> FALSE,
             producers |-> 0, data |-> 0]

\* opDetails after MEMCLEAR: its type field is 0, the index of transfer.
ZeroOp == [ZeroCell EXCEPT !.type = "transfer"]

Ops == {cell \in Cells : cell.type \in ActionTypes}

CellAt(raw, i) == IF i \in 1..Len(raw) THEN raw[i] ELSE ZeroCell

-----------------------------------------------------------------------------
\* The fields of tx_context_t that parse_tx reads and writes.
Cursors == [offset : Nat, opCount : Nat, opIdx : Nat, op : Ops]

\* opCount is a uint8_t: the varint is truncated before it is compared with
\* MAX_OPS.
ReadOpCount(raw) == CellAt(raw, 1).count % BYTE

\* Fault: the end is reached, or passed.
RewindPast(offset, opIdx, opCount) == IF opIdx >= opCount THEN 0 ELSE offset

\* "start from beginning next time"
NextOffset(offset, opIdx, opCount) == IF opCount = opIdx THEN 0 ELSE offset

\* Fault: the index of the action is not reset with the header.
KeepIndex(raw, cursor) ==
    [cursor EXCEPT !.offset = 1, !.opCount = ReadOpCount(raw)]

ReadHeader(raw, cursor) ==
    [cursor EXCEPT !.offset = 1, !.opCount = ReadOpCount(raw), !.opIdx = 0]

\* Where parse_op starts: behind the header, or where the last call stopped.
Started(raw, cursor) ==
    IF cursor.offset = 0 THEN ReadHeader(raw, cursor) ELSE cursor

\* parse_op followed by the end of parse_tx.
ReadOp(raw, cursor) ==
    LET opIdx == (cursor.opIdx + 1) % BYTE
    IN  [cursor EXCEPT !.op = CellAt(raw, cursor.offset + 1),
                       !.opIdx = opIdx,
                       !.offset = NextOffset(@ + 1, opIdx, cursor.opCount)]

TooManyOps(raw, cursor) == cursor.offset = 0 /\ ReadOpCount(raw) > MAX_OPS

\* Fault: an action of a name the parser does not know is skipped over.
KnownOrSkipped(raw, cursor) == Started(raw, cursor).offset < Len(raw)

\* The name compared with the ACTION_* constants.
KnownOp(raw, cursor) ==
    CellAt(raw, Started(raw, cursor).offset + 1).type \in ActionTypes

\* The call returns ("9000") or throws a status word.
ParseStatus(raw, cursor) ==
    IF TooManyOps(raw, cursor) THEN "6e10"
    ELSE IF KnownOp(raw, cursor) THEN "9000" ELSE "6900"

\* The cursor when parse_tx ends.  A throw leaves behind what was assigned
\* before it, but never a new offset, which is stored last.
ParseTx(raw, cursor) ==
    LET sw == ParseStatus(raw, cursor)
    IN  IF sw = "6e10" THEN [cursor EXCEPT !.opCount = ReadOpCount(raw)]
        ELSE IF sw = "6900" THEN [Started(raw, cursor) EXCEPT !.offset = cursor.offset]
        ELSE ReadOp(raw, Started(raw, cursor))
=============================================================================
