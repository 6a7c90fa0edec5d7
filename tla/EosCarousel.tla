---------------------------- MODULE EosCarousel ----------------------------
(***************************************************************************)
(* The review of one transaction, alone: ui_approve_tx_init shows the      *)
(* first page and each expiry of the UX interval shows the next, until     *)
(* parse_tx throws.  The owner's decision and the host are in EosApp,      *)
(* which uses the same operators; here the question is what the owner gets *)
(* to see, and the answer is that the review implements Slideshow.         *)
(***************************************************************************)
EXTENDS EosFormat, SequencesExt

CONSTANT Transactions      \* the raw transactions under review

\* An action takes 18 bytes at least, so the 1540 of the buffer hold fewer than 256.
ASSUME TransactionsAssumption ==
    /\ Transactions \subseteq Seq(Cells)
    /\ \A cells \in Transactions : Len(cells) <= BYTE

VARIABLES
    raw,                   \* ctx.req.tx.raw
    view,                  \* the cursor, the formatter and the page
    refused                \* the status word thrown by parse_tx, or "none"

vars == <<raw, view, refused>>

TypeOK ==
    /\ raw \in Transactions
    /\ view \in Views
    /\ refused \in {"none", "6e10", "6900"}

\* ui_approve_tx_next_screen; on a throw next_formatter answers the host and
\* the screen is gone.
ShowNext(v) ==
    LET sw == ScreenStatus(raw, v)
    IN  IF sw = "9000" THEN "none" ELSE sw

Init ==
    /\ raw \in Transactions
    /\ view = NextScreen(raw, InitView)
    /\ refused = ShowNext(InitView)

\* The interval expires while the approval screen is up.
Tick ==
    /\ refused = "none"
    /\ view' = NextScreen(raw, view)
    /\ refused' = ShowNext(view)
    /\ UNCHANGED raw

Done == refused # "none" /\ UNCHANGED vars

Next == Tick \/ Done

\* The ticker of the device does not stop, and every page arms the interval.
Spec == Init /\ [][Next]_vars /\ WF_vars(Tick)

-----------------------------------------------------------------------------
(***************************************************************************)
(* The pages that a transaction should show, from its contents alone: the  *)
(* fields of each action in the order of the chains, with the pages that   *)
(* introduce it.                                                           *)
(***************************************************************************)
Declared == CellAt(raw, 1).count % BYTE

\* How many actions from the start can be shown: the known ones, up to the
\* declared number.  A header that declares none is not looked at again.
Shown ==
    LET known == {n \in 0..Len(raw) :
                    \A i \in 1..n : CellAt(raw, i + 1).type \in ActionTypes}
        longest == CHOOSE n \in known : \A k \in known : k <= n
    IN  IF Declared > MAX_OPS THEN 0
        ELSE IF Declared \in 1..longest THEN Declared ELSE longest

Complete == Declared \in 1..MAX_OPS /\ Shown = Declared

Slide(i, kind, of, at, producer) ==
    [kind |-> kind, by |-> Formatter(of, at), idx |-> i,
     op |-> CellAt(raw, i + 1), producer |-> producer]

Introduction(i) ==
    LET type == CellAt(raw, i + 1).type
    IN  (IF i = 1 THEN <<Slide(i, "confirm", "confirm", 1, 0)>> ELSE <<>>)
        \o (IF Declared > 1
            THEN <<Slide(i, "operation", "confirm", 2, 0),
                   Slide(i, "confirm", type, 1, 0)>>
            ELSE <<Slide(i, "confirm", "confirm", 2, 0)>>)

Ballot(i) ==
    LET op == CellAt(raw, i + 1)
        \* format_voteproducer_producers prints before it counts: a vote for
        \* nobody shows one page too
        names == IF op.producers = 0 THEN 1 ELSE op.producers
    IN  <<Slide(i, "detail", "voteproducer", 2, 0)>>
        \o (IF op.proxy THEN <<Slide(i, "detail", "voteproducer", 3, 0)>>
            ELSE [k \in 1..names |-> Slide(i, "detail", "voteproducer", 4, k - 1)])

Details(i) ==
    LET type == CellAt(raw, i + 1).type
    IN  IF type = "voteproducer" THEN Ballot(i)
        ELSE [k \in 1..(Len(Chain(type)) - 1) |-> Slide(i, "detail", type, k + 1, 0)]

Show ==
    [pages |-> FlattenSeq([i \in 1..Shown |-> Introduction(i) \o Details(i)]),
     cyclic |-> Complete]

At == IF Shown = 0 THEN 0
      ELSE CHOOSE k \in 1..Len(Show.pages) : Show.pages[k] = view.page

\* The owner's view of the review.
S == INSTANCE Slideshow WITH Images <- Pages, show <- Show, at <- At,
                             on <- (refused = "none")

(***************************************************************************)
(* Every page of every action is shown, in order and over and over, and    *)
(* the review of a transaction with an action the parser does not know, or *)
(* with fewer actions than it declares, ends in a refusal after the pages  *)
(* of the actions before (ui_approve_tx_next_screen, parse_tx and the      *)
(* chains of formatters; ui_approve_tx_init).                              *)
(***************************************************************************)
ImplementsSlideshow == S!Spec

(***************************************************************************)
(* Whatever page is up was printed from an action of this transaction, at  *)
(* the place its caption says: "Operation i of n" is never followed by the *)
(* details of another action (format_confirm_operation, opDetails).        *)
(***************************************************************************)
PagesAreHonest ==
    refused = "none" =>
        /\ view.page.idx \in 1..(Len(raw) - 1)
        /\ view.page.op = CellAt(raw, view.page.idx + 1)
        /\ view.page.by.of \in ActionTypes => view.page.by.of = view.page.op.type

(***************************************************************************)
(* A transaction that cannot be shown entirely does not stay on the        *)
(* display: it is refused after finitely many pages (next_formatter).      *)
(***************************************************************************)
MalformedIsRefused == ~Complete ~> refused # "none"

\* The pages that follow the one that is up, and the refusal.
PagesLeft == Len(Show.pages) - At + (IF refused = "none" THEN 1 ELSE 0)

(***************************************************************************)
(* Each expiry of the interval brings the refusal of such a transaction    *)
(* nearer, by a page: no page of it comes twice, so that it is up for no   *)
(* longer than its pages take (next_formatter, ui_approve_tx_next_screen). *)
(***************************************************************************)
RefusalComesNearer ==
    [][~Complete => PagesLeft' \in Nat /\ PagesLeft' < PagesLeft]_vars
=============================================================================
