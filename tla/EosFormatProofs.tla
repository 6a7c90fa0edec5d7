-------------------------- MODULE EosFormatProofs --------------------------
(***************************************************************************)
(* Facts about the parser and the formatters, for every raw transaction    *)
(* and every view: what one call of parse_tx and one page of the review    *)
(* return and preserve.                                                    *)
(***************************************************************************)
EXTENDS EosFormat, TLAPS

(***************************************************************************)
(* The bytes of the header and of the actions are cells, inside the        *)
(* uploaded data and behind them (parse_op, parse_tx).                     *)
(***************************************************************************)
LEMMA ZeroCellType == ZeroCell \in Cells /\ ZeroOp \in Ops
BY DEF ZeroCell, ZeroOp, Cells, Ops, ActionTypes

LEMMA CellAtType ==
    ASSUME NEW raw \in Seq(Cells), NEW i \in Nat
    PROVE  CellAt(raw, i) \in Cells
BY ZeroCellType DEF CellAt

(***************************************************************************)
(* A known action is one of the uploaded cells: behind them are zeros,     *)
(* which no name of the parser matches (parse_op, eos_parser.c:339).       *)
(***************************************************************************)
LEMMA KnownIsUploaded ==
    ASSUME NEW raw \in Seq(Cells), NEW i \in Nat, CellAt(raw, i).type \in ActionTypes
    PROVE  i \in 1..Len(raw) /\ CellAt(raw, i) \in Ops
BY CellAtType DEF CellAt, ZeroCell, ActionTypes, Ops

LEMMA OpCountType ==
    ASSUME NEW raw \in Seq(Cells)
    PROVE  ReadOpCount(raw) \in Nat
<1>1. CellAt(raw, 1).count \in Nat
  BY CellAtType DEF Cells
<1> QED
  BY <1>1, ByteAssumption DEF ReadOpCount

(***************************************************************************)
(* What the header leaves in the view, and where parse_op starts           *)
(* (parse_tx, eos_parser.c:390).                                           *)
(***************************************************************************)
LEMMA HeaderType ==
    ASSUME NEW raw \in Seq(Cells), NEW v \in Views
    PROVE  /\ ReadHeader(raw, v) \in Views
           /\ ReadHeader(raw, v).formatter = v.formatter
           /\ ReadHeader(raw, v).page = v.page
           /\ ReadHeader(raw, v).op = v.op
           /\ ReadHeader(raw, v).offset = 1
           /\ ReadHeader(raw, v).opIdx = 0
           /\ ReadHeader(raw, v).opCount = ReadOpCount(raw)
<1> DEFINE n == ReadOpCount(raw)
<1>1. n \in Nat
  BY OpCountType
<1>2. ReadHeader(raw, v) = [v EXCEPT !.offset = 1, !.opCount = n, !.opIdx = 0]
  BY DEF ReadHeader
<1> DEFINE h == ReadHeader(raw, v)
<1> HIDE DEF n, h
<1>3. h = [v EXCEPT !.offset = 1, !.opCount = n, !.opIdx = 0]
  BY <1>2 DEF h
<1>4. h \in Views
  BY <1>1, <1>3 DEF Views
<1>5. h.formatter = v.formatter /\ h.page = v.page /\ h.op = v.op
  BY <1>1, <1>3 DEF Views
<1>6. h.offset = 1 /\ h.opIdx = 0 /\ h.opCount = n
  BY <1>1, <1>3 DEF Views
<1> QED
  BY <1>4, <1>5, <1>6 DEF h, n

(***************************************************************************)
(* parse_op starts behind the header or where the last call stopped, and   *)
(* nothing but the cursor has moved by then.                               *)
(***************************************************************************)
LEMMA StartedType ==
    ASSUME NEW raw \in Seq(Cells), NEW v \in Views
    PROVE  /\ Started(raw, v) \in Views
           /\ Started(raw, v).formatter = v.formatter
           /\ Started(raw, v).page = v.page
           /\ Started(raw, v).op = v.op
           /\ Started(raw, v).offset \in Nat \ {0}
           /\ v.offset # 0 => Started(raw, v) = v
           /\ v.offset = 0 => Started(raw, v).offset = 1 /\ Started(raw, v).opIdx = 0
<1>1. v.offset \in Nat
  BY DEF Views
<1> QED
  BY <1>1, HeaderType DEF Started

(***************************************************************************)
(* The status of a call is one of three; a call that returns has read a    *)
(* known action.                                                           *)
(***************************************************************************)
LEMMA StatusType ==
    ASSUME NEW raw, NEW v
    PROVE  /\ ParseStatus(raw, v) \in {"9000", "6900", "6e10"}
           /\ ParseStatus(raw, v) = "9000" => KnownOp(raw, v)
BY DEF ParseStatus

(***************************************************************************)
(* A call of parse_tx leaves a view, and touches neither the formatter nor *)
(* the page.                                                               *)
(***************************************************************************)
LEMMA ParseTxType ==
    ASSUME NEW raw \in Seq(Cells), NEW v \in Views
    PROVE  /\ ParseTx(raw, v) \in Views
           /\ ParseTx(raw, v).formatter = v.formatter
           /\ ParseTx(raw, v).page = v.page
<1> DEFINE s == Started(raw, v)
<1>1. CASE ParseStatus(raw, v) = "6e10"
  <2>1. ParseTx(raw, v) = [v EXCEPT !.opCount = ReadOpCount(raw)]
    BY <1>1 DEF ParseTx
  <2> QED
    BY <2>1, OpCountType DEF Views
<1>2. CASE ParseStatus(raw, v) = "6900"
  <2>1. ParseTx(raw, v) = [s EXCEPT !.offset = v.offset]
    BY <1>2 DEF ParseTx
  <2>2. v.offset \in Nat
    BY DEF Views
  <2> HIDE DEF s
  <2>3. s \in Views /\ s.formatter = v.formatter /\ s.page = v.page
    BY StartedType DEF s
  <2> QED
    BY <2>1, <2>2, <2>3 DEF Views
<1>3. CASE ParseStatus(raw, v) = "9000"
  <2>1. ParseTx(raw, v) = ReadOp(raw, s)
    BY <1>3 DEF ParseTx
  <2>2. CellAt(raw, s.offset + 1) \in Ops
    <3>1. CellAt(raw, s.offset + 1).type \in ActionTypes
      BY <1>3, StatusType DEF KnownOp
    <3>2. s.offset + 1 \in Nat
      BY StartedType
    <3> QED
      BY <3>1, <3>2, KnownIsUploaded
  <2> HIDE DEF s
  <2>3. s \in Views /\ s.formatter = v.formatter /\ s.page = v.page
    BY StartedType DEF s
  <2>4. (s.opIdx + 1) % BYTE \in Nat
    BY <2>3, ByteAssumption DEF Views
  <2>5. NextOffset(s.offset + 1, (s.opIdx + 1) % BYTE, s.opCount) \in Nat
    BY <2>3 DEF NextOffset, Views
  <2> QED
    BY <2>1, <2>2, <2>3, <2>4, <2>5 DEF ReadOp, Views
<1> QED
  BY <1>1, <1>2, <1>3, StatusType

-----------------------------------------------------------------------------
(***************************************************************************)
(* The page that a formatter prints, and the formatter that it stores, are *)
(* well formed whatever the formatter (eos_format_nanos.c).                *)
(***************************************************************************)
LEMMA NextFormatterType ==
    ASSUME NEW v \in Views, v.formatter \in Formatters
    PROVE  NextFormatter(v) \in Formatters \cup {NULL}
<1> DEFINE f == v.formatter
<1>1. f.of \in Families /\ f.at \in Nat \ {0}
  BY DEF Formatters
<1>2. AfterConfirmOperation(v) \in Formatters
  BY DEF Views, Ops, AfterConfirmOperation, Formatter, Formatters, Families
<1>3. {VoteProxy, VoteProducers, Formatter("hash", 1)} \subseteq Formatters
  BY DEF VoteProxy, VoteProducers, Formatter, Formatters, Families, ActionTypes
<1>4. AfterVoter(v) \in Formatters /\ AfterProducer(v) \in Formatters \cup {NULL}
  BY <1>3 DEF AfterVoter, AfterProducer
<1>5. NextInChain(f) \in Formatters \cup {NULL}
  BY <1>1 DEF NextInChain, Formatter, Formatters
<1>6. NextInHash(f) \in Formatters \cup {NULL}
  BY <1>3, <1>5 DEF NextInHash
<1> QED
  BY <1>2, <1>4, <1>5, <1>6 DEF NextFormatter

LEMMA PageType ==
    ASSUME NEW v \in Views, v.formatter \in Formatters
    PROVE  /\ Page(v) \in Pages
           /\ Page(v).idx = v.opIdx /\ Page(v).op = v.op /\ Page(v).by = v.formatter
<1>1. Kind(v.formatter, v.opCount) \in PageKinds
  BY DEF Kind, PageKinds
<1>2. (IF v.formatter = VoteProducers THEN v.producer ELSE 0) \in Nat
  BY DEF Views
<1> QED
  BY <1>1, <1>2 DEF Page, Pages, Views

(***************************************************************************)
(* Printing a page leaves the cursor alone (ui_approve_tx_next_screen).    *)
(***************************************************************************)
LEMMA PrintPageType ==
    ASSUME NEW v \in Views, v.formatter \in Formatters
    PROVE  /\ PrintPage(v) \in Views
           /\ PrintPage(v).formatter = NextFormatter(v)
           /\ PrintPage(v).page = Page(v)
           /\ PrintPage(v).offset = v.offset
           /\ PrintPage(v).opIdx = v.opIdx
           /\ PrintPage(v).op = v.op
           /\ PrintPage(v).opCount = v.opCount
           /\ PrintPage(v).producer = NextProducer(v)
<1> DEFINE f == NextFormatter(v)
           page == Page(v)
           n == NextProducer(v)
           w == PrintPage(v)
<1>1. f \in Formatters \cup {NULL}
  BY NextFormatterType
<1>2. page \in Pages
  BY PageType
<1>3. n \in Nat
  BY DEF NextProducer, Views
<1>4. w = [v EXCEPT !.page = page, !.formatter = f, !.producer = n]
  BY DEF PrintPage
<1> HIDE DEF f, page, n, w
<1>5. w \in Views
  BY <1>1, <1>2, <1>3, <1>4 DEF Views
<1>6. w.formatter = f /\ w.page = page
  BY <1>4 DEF Views
<1>7. w.offset = v.offset /\ w.opIdx = v.opIdx /\ w.op = v.op
  BY <1>4 DEF Views
<1>8. w.opCount = v.opCount /\ w.producer = n
  BY <1>4 DEF Views
<1> QED
  BY <1>5, <1>6, <1>7, <1>8 DEF f, page, n, w

LEMMA FirstOrNextType ==
    ASSUME NEW v \in Views
    PROVE  /\ FirstOrNext(v) \in Views
           /\ FirstOrNext(v).formatter \in {ConfirmTransaction, ConfirmOperation}
           /\ FirstOrNext(v).formatter \in Formatters
           /\ FirstOrNext(v).offset = v.offset
           /\ FirstOrNext(v).opIdx = v.opIdx
           /\ FirstOrNext(v).op = v.op
           /\ FirstOrNext(v).opCount = v.opCount
           /\ FirstOrNext(v).formatter =
                IF v.opIdx = 1 THEN ConfirmTransaction ELSE ConfirmOperation
<1> DEFINE f == IF v.opIdx = 1 THEN ConfirmTransaction ELSE ConfirmOperation
           w == FirstOrNext(v)
<1>1. f \in {ConfirmTransaction, ConfirmOperation} /\ f \in Formatters
  BY DEF ConfirmTransaction, ConfirmOperation, Formatter, Formatters, Families
<1>2. w = [v EXCEPT !.formatter = f]
  BY DEF FirstOrNext
<1> HIDE DEF f, w
<1>3. w \in Views
  BY <1>1, <1>2 DEF Views
<1>4. w.formatter = f /\ w.offset = v.offset /\ w.opIdx = v.opIdx /\ w.op = v.op
  BY <1>2 DEF Views
<1>5. w.opCount = v.opCount
  BY <1>2 DEF Views
<1> QED
  BY <1>1, <1>3, <1>4, <1>5 DEF f, w

(***************************************************************************)
(* A step of the review leaves a view, whatever the transaction and        *)
(* wherever the review stands.                                             *)
(***************************************************************************)
LEMMA NextScreenType ==
    ASSUME NEW raw \in Seq(Cells), NEW v \in Views
    PROVE  NextScreen(raw, v) \in Views
<1>1. CASE v.formatter # NULL
  <2>1. v.formatter \in Formatters
    BY <1>1 DEF Views
  <2> QED
    BY <1>1, <2>1, PrintPageType DEF NextScreen
<1>2. CASE v.formatter = NULL
  <2>1. ParseTx(raw, v) \in Views
    BY ParseTxType
  <2>2. PrintPage(FirstOrNext(ParseTx(raw, v))) \in Views
    BY <2>1, FirstOrNextType, PrintPageType
  <2> QED
    BY <1>2, <2>1, <2>2 DEF NextScreen
<1> QED
  BY <1>1, <1>2

-----------------------------------------------------------------------------
(***************************************************************************)
(* How a view stands to the transaction it reviews.  Between two actions   *)
(* the offset counts the header and the actions that opIdx counts; on an   *)
(* action, opDetails is that action and the formatter is one of its own or *)
(* of the confirmation; the page that is up shows an action at its place.  *)
(***************************************************************************)
Placed(v) == v.offset = 0 \/ v.offset = v.opIdx + 1

OnAction(raw, v) ==
    /\ Placed(v)
    /\ v.op = CellAt(raw, v.opIdx + 1)
    /\ v.formatter.of \in ActionTypes => v.formatter.of = v.op.type
    /\ v.formatter.of # "hash"

PageOfAction(raw, v) ==
    /\ v.page.op = CellAt(raw, v.page.idx + 1)
    /\ v.page.by.of \in ActionTypes => v.page.by.of = v.page.op.type

(***************************************************************************)
(* A formatter of an action, or of the confirmation, stores a formatter of *)
(* the action that has been parsed, or NULL (format_confirm_operation).    *)
(***************************************************************************)
LEMMA SuccessorFits ==
    ASSUME NEW v \in Views, v.formatter \in Formatters,
           v.formatter.of \in ActionTypes => v.formatter.of = v.op.type,
           v.formatter.of # "hash"
    PROVE  /\ NextFormatter(v).of \in ActionTypes => NextFormatter(v).of = v.op.type
           /\ NextFormatter(v).of # "hash"
<1> DEFINE f == v.formatter
<1>1. NULL.of = "none" /\ "none" \notin ActionTypes
  BY DEF NULL, ActionTypes
<1>2. AfterConfirmOperation(v).of = v.op.type /\ v.op.type \in ActionTypes
  BY DEF AfterConfirmOperation, Formatter, Views, Ops
<1>3. "hash" \notin ActionTypes
  BY DEF ActionTypes
<1>4. f = VoteVoter => AfterVoter(v).of = v.op.type
  BY DEF AfterVoter, VoteVoter, VoteProxy, VoteProducers, Formatter, ActionTypes
<1>5. f = VoteProducers => AfterProducer(v).of \in {"none", v.op.type}
  BY DEF AfterProducer, VoteProducers, Formatter, NULL, ActionTypes
<1>6. NextInChain(f).of \in {"none", f.of}
  BY DEF NextInChain, Formatter, NULL
<1> QED
  BY <1>1, <1>2, <1>3, <1>4, <1>5, <1>6 DEF NextFormatter

LEMMA PrintedPageFits ==
    ASSUME NEW raw \in Seq(Cells), NEW v \in Views, OnAction(raw, v),
           v.formatter \in Formatters
    PROVE  OnAction(raw, PrintPage(v)) /\ PageOfAction(raw, PrintPage(v))
<1>1. OnAction(raw, PrintPage(v))
  BY PrintPageType, SuccessorFits DEF OnAction, Placed
<1>2. PageOfAction(raw, PrintPage(v))
  <2>1. Page(v).idx = v.opIdx /\ Page(v).op = v.op /\ Page(v).by = v.formatter
    BY PageType
  <2> QED
    BY <2>1, PrintPageType DEF PageOfAction, OnAction
<1> QED
  BY <1>1, <1>2

(***************************************************************************)
(* A call of parse_tx that returns stands on an action of the transaction, *)
(* and opIdx is its place: the index of a uint8_t does not wrap, because a *)
(* known action lies within the buffer (parse_tx, eos_parser.c:427).       *)
(***************************************************************************)
LEMMA ParsedActionIsPlaced ==
    ASSUME NEW raw \in Seq(Cells), Len(raw) <= BYTE, NEW v \in Views, Placed(v),
           ParseStatus(raw, v) = "9000"
    PROVE  LET w == ParseTx(raw, v)
           IN  Placed(w) /\ w.op = CellAt(raw, w.opIdx + 1)
<1> DEFINE s == Started(raw, v)
           n == s.opIdx + 1
           cell == CellAt(raw, s.offset + 1)
           off == NextOffset(s.offset + 1, n, s.opCount)
           w == ParseTx(raw, v)
<1>1. s \in Views /\ s.offset = s.opIdx + 1
  BY StartedType DEF Placed
<1>2. s.opIdx \in Nat /\ s.offset \in Nat /\ s.opCount \in Nat
  BY <1>1 DEF Views
<1>3. cell.type \in ActionTypes
  BY StatusType DEF KnownOp
<1>4. s.offset + 1 \in 1..Len(raw)
  BY <1>2, <1>3, KnownIsUploaded
<1>5. n % BYTE = n
  BY <1>1, <1>2, <1>4, ByteAssumption
<1>6. w = ReadOp(raw, s)
  BY DEF ParseTx
<1>7. w = [s EXCEPT !.op = cell, !.opIdx = n, !.offset = off]
  BY <1>5, <1>6 DEF ReadOp
<1>8. off \in {0, n + 1}
  BY <1>1 DEF NextOffset
<1>9. cell = CellAt(raw, n + 1)
  BY <1>1
<1> HIDE DEF s, n, cell, off, w
<1>10. w.op = cell /\ w.opIdx = n /\ w.offset = off
  BY <1>1, <1>7 DEF Views
<1> QED
  BY <1>8, <1>9, <1>10 DEF Placed, w

(***************************************************************************)
(* One page of the review: if a page is found, what is on the display      *)
(* afterwards is an action of the transaction, at its place and through    *)
(* its own formatter, and so will be the next page.  v either begins a     *)
(* review (formatter NULL, at an action's boundary) or goes on with one.   *)
(***************************************************************************)
LEMMA NextScreenFits ==
    ASSUME NEW raw \in Seq(Cells), Len(raw) <= BYTE, NEW v \in Views,
           \/ v.formatter = NULL /\ Placed(v)
           \/ OnAction(raw, v),
           ScreenStatus(raw, v) = "9000"
    PROVE  OnAction(raw, NextScreen(raw, v)) /\ PageOfAction(raw, NextScreen(raw, v))
<1>1. CASE v.formatter # NULL
  <2>1. v.formatter \in Formatters /\ OnAction(raw, v)
    BY <1>1 DEF Views
  <2> QED
    BY <1>1, <2>1, PrintedPageFits DEF NextScreen
<1>2. CASE v.formatter = NULL
  <2> DEFINE w == ParseTx(raw, v)
             u == FirstOrNext(w)
  <2>1. ParseStatus(raw, v) = "9000" /\ NextScreen(raw, v) = PrintPage(u)
    BY <1>2 DEF ScreenStatus, NextScreen
  <2>2. Placed(v)
    BY DEF OnAction
  <2>3. w \in Views /\ Placed(w) /\ w.op = CellAt(raw, w.opIdx + 1)
    BY <2>1, <2>2, ParseTxType, ParsedActionIsPlaced
  <2> HIDE DEF w
  <2>4. /\ u \in Views
        /\ u.formatter \in Formatters
        /\ u.formatter.of = "confirm"
        /\ Placed(u) /\ u.op = CellAt(raw, u.opIdx + 1)
    BY <2>3, FirstOrNextType
       DEF ConfirmTransaction, ConfirmOperation, Formatter, Placed
  <2> HIDE DEF u
  <2>5. OnAction(raw, u)
    BY <2>4 DEF OnAction, ActionTypes
  <2> QED
    BY <2>1, <2>4, <2>5, PrintedPageFits
<1> QED
  BY <1>1, <1>2
=============================================================================
