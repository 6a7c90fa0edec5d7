---------------------------- MODULE AppApproval ----------------------------
(***************************************************************************)
(* EosApp implements Approval.  The subject of a prompt is what it shows:  *)
(* of a transaction under review the digest of the data that the pages are *)
(* printed from, not the digest that the handler has put aside.            *)
(***************************************************************************)
EXTENDS EosApp

Subject ==
    CASE screen = "address" -> AddressBody(tx.head)
      [] screen = "approve_tx" -> SignatureBody([tx EXCEPT !.hash = Sha256(tx)])
      [] screen = "approve_hash" -> SignatureBody(tx)
      [] OTHER -> NoBody

Promise == INSTANCE Approval WITH
    Signatures <- [kind : {"signature"}, head : Heads, hash : Hashes],
    Addresses <- {AddressBody(AddressHead(path)) : path \in Paths},
    NoSubject <- NoBody,
    Refusals <- StatusWords \ {"none", "9000"},
    subject <- Subject, waits <- link.media # "none", answer <- link.reply

(***************************************************************************)
(* Nothing that is signed or confirmed was not shown: every answer is      *)
(* given at once without a signature, or decided on a prompt whose subject *)
(* no command, event or timer has changed, although the handler, the       *)
(* ticker and the buttons meet in the same context (handle_apdu, io_event, *)
(* io_seproxyhal_respond).                                                 *)
(***************************************************************************)
ImplementsApproval == Promise!Spec
=============================================================================
