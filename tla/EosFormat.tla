----------------------------- MODULE EosFormat -----------------------------
(***************************************************************************)
(* What the approval screens show, eos_format_nanos.c and the second half  *)
(* of eos_ux_nanos.c.  The global function pointer "formatter" holds the   *)
(* function that prints the next page; every such function prints its page *)
(* and stores its successor, NULL when the action (or the transaction) is  *)
(* done.  With a NULL formatter the next page is found by parsing the next *)
(* action.                                                                 *)
(***************************************************************************)
EXTENDS EosParser

\* The functions of each action, in the order in which they store each other
\* in formatter.  The first one prints nothing at all.
TransferChain == <<"format_transfer", "format_transfer_from",
    "format_transfer_to", "format_transfer_quantity">>

BuyRamChain == <<"format_buyram", "format_buyram_payer",
    "format_buyram_receiver", "format_buyram_quant">>

BuyRamBytesChain == <<"format_buyrambytes", "format_buyrambytes_payer",
    "format_buyrambytes_receiver", "format_buyrambytes_bytes">>

SellRamChain == <<"format_sellram", "format_sellram_account",
    "format_sellram_bytes">>

DelegateBwChain == <<"format_delegatebw", "format_delegatebw_from",
    "format_delegatebw_receiver", "format_delegatebw_stake_net_quantity",
    "format_delegatebw_stake_cpu_quantity", "format_delegatebw_transfer">>

UndelegateBwChain == <<"format_undelegatebw", "format_undelegatebw_from",
    "format_undelegatebw_receiver", "format_undelegatebw_stake_net_quantity",
    "format_undelegatebw_stake_cpu_quantity">>

\* After the voter either the proxy or the producers: see AfterVoter.
VoteProducerChain == <<"format_voteproducer", "format_voteproducer_voter",
    "format_voteproducer_proxy", "format_voteproducer_producers">>

NewAccountChain == <<"format_newaccount", "format_transfer_creator",
    "format_newaccount_name", "format_newaccount_owner",
    "format_newaccount_active">>

ConfirmChain == <<"format_confirm_transaction", "format_confirm_operation">>

HashChain == <<"format_confirm_hash", "format_confirm_hash_warning",
    "format_confirm_hash_detail">>

\* The array formatters[8], and the two chains that no action owns.
Chain(family) ==
    CASE family = "transfer" -> TransferChain
      [] family = "buyram" -> BuyRamChain
      [] family = "buyrambytes" -> BuyRamBytesChain
      [] family = "sellram" -> SellRamChain
      [] family = "delegatebw" -> DelegateBwChain
      [] family = "undelegatebw" -> UndelegateBwChain
      [] family = "voteproducer" -> VoteProducerChain
      [] family = "newaccount" -> NewAccountChain
      [] family = "confirm" -> ConfirmChain
      [] family = "hash" -> HashChain

Families == ActionTypes \cup {"confirm", "hash"}

\* A formatter is a place in a chain.
Formatters == [of : Families, at : Nat \ {0}]
NULL == [of |-> "none", at |-> 0]
Formatter(family, i) == [of |-> family, at |-> i]

ConfirmTransaction == Formatter("confirm", 1)
ConfirmOperation == Formatter("confirm", 2)
VoteVoter == Formatter("voteproducer", 2)
VoteProxy == Formatter("voteproducer", 3)
VoteProducers == Formatter("voteproducer", 4)

-----------------------------------------------------------------------------
(***************************************************************************)
(* A view is the cursor of the parser, the pointer, the static counter of  *)
(* format_voteproducer_producers and the page on the display.  A page      *)
(* records which of the three kinds the captions select, the function that *)
(* printed it, and the action (and the producer of a vote) it was printed  *)
(* from.                                                                   *)
(***************************************************************************)
PageKinds == {"confirm", "operation", "detail"}

Pages == [kind : PageKinds, by : Formatters, idx : Nat, op : Ops, producer : Nat]

NoPage == [kind |-> "confirm", by |-> ConfirmTransaction, idx |-> 0,
           op |-> ZeroOp, producer |-> 0]

Views == [offset : Nat, opCount : Nat, opIdx : Nat, op : Ops,
          formatter : Formatters \cup {NULL}, producer : Nat, page : Pages]

InitView == [offset |-> 0, opCount |-> 0, opIdx |-> 0, op |-> ZeroOp,
             formatter |-> NULL, producer |-> 0, page |-> NoPage]

\* MEMCLEAR(ctx.req.tx): the cursor is in the cleared struct, the pointer,
\* the counter and the captions are globals of their own.
Cleared(view) ==
    [view EXCEPT !.offset = 0, !.opCount = 0, !.opIdx = 0, !.op = ZeroOp]

-----------------------------------------------------------------------------
\* The captions that a formatter fills decide what ui_approve_tx_prepro lets
\* through: the action's caption, a detail, or else "Confirm transaction".
Kind(formatter, opCount) ==
    IF formatter = ConfirmOperation /\ opCount > 1 THEN "operation"
    ELSE IF \/ formatter.of \in ActionTypes /\ formatter.at > 1
            \/ formatter.of = "hash" /\ formatter.at > 1
         THEN "detail" ELSE "confirm"

Page(view) ==
    [kind |-> Kind(view.formatter, view.opCount), by |-> view.formatter,
     idx |-> view.opIdx, op |-> view.op,
     producer |-> IF view.formatter = VoteProducers THEN view.producer ELSE 0]

\* The counter has been advanced when it is compared.
AfterProducer(view) ==
    IF view.producer + 1 < view.op.producers THEN VoteProducers ELSE NULL

\* setproxy_or_producers
AfterVoter(view) == IF view.op.proxy THEN VoteProxy ELSE VoteProducers

\* With one action its first formatter is called at once; with several it is
\* stored, and runs as a page of its own.
AfterConfirmOperation(view) ==
    Formatter(view.op.type, IF view.opCount > 1 THEN 1 ELSE 2)

\* Fault: the last field of an action is left out.
SkipLastField(formatter) == formatter.at + 1 >= Len(Chain(formatter.of))

IsLast(formatter) == formatter.at >= Len(Chain(formatter.of))

NextInChain(formatter) ==
    IF IsLast(formatter) THEN NULL
    ELSE Formatter(formatter.of, formatter.at + 1)

\* format_confirm_hash_detail goes back to format_confirm_hash.
NextInHash(formatter) ==
    IF IsLast(formatter) THEN Formatter("hash", 1) ELSE NextInChain(formatter)

NextFormatter(view) ==
    LET f == view.formatter
    IN  CASE f = ConfirmOperation -> AfterConfirmOperation(view)
          [] f = VoteVoter -> AfterVoter(view)
          [] f = VoteProxy -> NULL
          [] f = VoteProducers -> AfterProducer(view)
          [] f.of = "hash" -> NextInHash(f)
          [] OTHER -> NextInChain(f)

\* format_voteproducer runs on its own or from format_confirm_operation.
NextProducer(view) ==
    LET f == view.formatter
    IN  IF f = VoteProducers THEN view.producer + 1
        ELSE IF \/ f = Formatter("voteproducer", 1)
                \/ /\ f = ConfirmOperation
                   /\ AfterConfirmOperation(view) = VoteVoter
             THEN 0 ELSE view.producer

\* formatter(txCtx)
PrintPage(view) ==
    [view EXCEPT !.page = Page(view), !.formatter = NextFormatter(view),
                 !.producer = NextProducer(view)]

\* next_formatter, when parse_tx returns.
FirstOrNext(view) ==
    [view EXCEPT !.formatter = IF view.opIdx = 1 THEN ConfirmTransaction
                               ELSE ConfirmOperation]

\* Does ui_approve_tx_next_screen find a page, and the view it leaves.
ScreenStatus(raw, view) ==
    IF view.formatter = NULL THEN ParseStatus(raw, view) ELSE "9000"

NextScreen(raw, view) ==
    IF view.formatter # NULL THEN PrintPage(view)
    ELSE IF ParseStatus(raw, view) = "9000" THEN PrintPage(FirstOrNext(ParseTx(raw, view)))
    ELSE ParseTx(raw, view)
=============================================================================
