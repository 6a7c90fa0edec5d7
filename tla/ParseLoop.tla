----------------------------- MODULE ParseLoop -----------------------------
(***************************************************************************)
(* What eos_api.h:55-61 promises of parse_tx, as a machine of its own: it  *)
(* is called again and again on one transaction, as next_formatter does,   *)
(* and each call reads one action, until a call throws.  The transaction   *)
(* is one of cells (EosParser); EosBytes implements this machine on bytes. *)
(***************************************************************************)
EXTENDS EosParser

VARIABLES
    raw,     \* the transaction, in cells
    cursor,  \* the fields of tx_context_t that parse_tx keeps
    status   \* what the last call returned or threw

vars == <<raw, cursor, status>>

ZeroCursor == [offset |-> 0, opCount |-> 0, opIdx |-> 0, op |-> ZeroOp]

Init ==
    /\ raw \in Seq(Cells)
    /\ cursor = ZeroCursor
    /\ status = "9000"

parse_tx ==
    /\ status = "9000"
    /\ cursor' = ParseTx(raw, cursor)
    /\ status' = ParseStatus(raw, cursor)
    /\ UNCHANGED raw

Spec == Init /\ [][parse_tx]_vars
=============================================================================
