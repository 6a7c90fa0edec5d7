------------------------- MODULE EosCarouselProofs -------------------------
(***************************************************************************)
(* The review of any transaction of cells shows what Slideshow promises:   *)
(* the pages of each action one by one, in the order of the chains, the    *)
(* actions in the order of the transaction, and then what the contents     *)
(* call for.                                                               *)
(***************************************************************************)
EXTENDS EosCarousel, EosFormatProofs, DataProofs

\* The transaction under review is cells, fewer than a uint8_t can count.
LEMMA RawType == TypeOK => raw \in Seq(Cells) /\ Len(raw) <= BYTE
BY TransactionsAssumption DEF TypeOK

\* A review begins with a NULL formatter and the cursor at the header.
LEMMA InitViewType ==
    InitView \in Views /\ InitView.formatter = NULL /\ Placed(InitView)
BY ZeroCellType
   DEF InitView, NoPage, Pages, PageKinds, Views, Placed, ConfirmTransaction, Formatter,
       Formatters, Families

\* The review goes on exactly if a page has been found.
LEMMA ShowNextType ==
    ASSUME NEW v
    PROVE  /\ ShowNext(v) \in {"none", "6e10", "6900"}
           /\ ShowNext(v) = "none" <=> ScreenStatus(raw, v) = "9000"
BY StatusType DEF ShowNext, ScreenStatus

(***************************************************************************)
(* The review leaves a view of the transaction, and ends with one of two   *)
(* status words (ui_approve_tx_next_screen, next_formatter).               *)
(***************************************************************************)
THEOREM CarouselTypeCorrect == Spec => []TypeOK
<1>1. Init => TypeOK
  <2> SUFFICES ASSUME Init PROVE TypeOK
    OBVIOUS
  <2>1. raw \in Seq(Cells)
    BY TransactionsAssumption DEF Init
  <2> QED
    BY <2>1, InitViewType, NextScreenType, ShowNextType DEF Init, TypeOK
<1>2. TypeOK /\ [Next]_vars => TypeOK'
  <2> SUFFICES ASSUME TypeOK, [Next]_vars PROVE TypeOK'
    OBVIOUS
  <2>1. CASE Tick
    <3>1. NextScreen(raw, view) \in Views
      BY RawType, NextScreenType DEF TypeOK
    <3> QED
      BY <2>1, <3>1, ShowNextType DEF Tick, TypeOK
  <2>2. CASE UNCHANGED vars
    BY <2>2 DEF vars, TypeOK
  <2> QED
    BY <2>1, <2>2 DEF Next, Done
<1> QED
  BY <1>1, <1>2, PTL DEF Spec

(***************************************************************************)
(* Every chain of an action has at least two pages (formatters[8]).        *)
(***************************************************************************)
LEMMA ChainLength ==
    /\ \A type \in ActionTypes : Len(Chain(type)) \in Nat /\ Len(Chain(type)) >= 3
    /\ Len(Chain("confirm")) = 2
    /\ Len(Chain("voteproducer")) = 4
<1>1. \A type \in ActionTypes :
        Chain(type) = CASE type = "transfer" -> TransferChain
      [] type = "buyram" -> BuyRamChain
      [] type = "buyrambytes" -> BuyRamBytesChain
      [] type = "sellram" -> SellRamChain
      [] type = "delegatebw" -> DelegateBwChain
      [] type = "undelegatebw" -> UndelegateBwChain
      [] type = "voteproducer" -> VoteProducerChain
      [] type = "newaccount" -> NewAccountChain
  BY DEF Chain, ActionTypes
<1>2. /\ Len(TransferChain) = 4 /\ Len(BuyRamChain) = 4 /\ Len(BuyRamBytesChain) = 4
      /\ Len(SellRamChain) = 3 /\ Len(DelegateBwChain) = 6 /\ Len(UndelegateBwChain) = 5
      /\ Len(VoteProducerChain) = 4 /\ Len(NewAccountChain) = 5
  BY DEF TransferChain, BuyRamChain, BuyRamBytesChain, SellRamChain,
         DelegateBwChain, UndelegateBwChain, VoteProducerChain, NewAccountChain
<1>3. Chain("confirm") = ConfirmChain /\ Len(ConfirmChain) = 2
  BY DEF Chain, ConfirmChain
<1>4. \A type \in ActionTypes : Len(Chain(type)) \in {3, 4, 5, 6}
  BY <1>1, <1>2 DEF ActionTypes
<1>5. Chain("voteproducer") = VoteProducerChain
  BY DEF Chain
<1>6. ASSUME NEW type \in ActionTypes
      PROVE  Len(Chain(type)) \in Nat /\ Len(Chain(type)) >= 3
  <2>1. Len(Chain(type)) \in {3, 4, 5, 6}
    BY <1>4
  <2> QED
    BY <2>1
<1> QED
  BY <1>2, <1>3, <1>5, <1>6

\* The pages of action i.
Part(i) == Introduction(i) \o Details(i)

\* How many pages introduce the transaction, and the action.
Lead(i) == IF i = 1 THEN 1 ELSE 0
Opening(i) == Lead(i) + (IF Declared > 1 THEN 2 ELSE 1)

Known(i) == i \in Nat \ {0} /\ CellAt(raw, i + 1).type \in ActionTypes

Type(i) == CellAt(raw, i + 1).type

\* A page of an uploaded action is well formed.
LEMMA SlideType ==
    ASSUME NEW i \in Nat, CellAt(raw, i + 1) \in Ops, NEW kind \in PageKinds,
           NEW of \in Families, NEW at \in Nat \ {0}, NEW p \in Nat
    PROVE  Slide(i, kind, of, at, p) \in Pages
BY DEF Slide, Pages, Formatter, Formatters

\* The pages that introduce an action, one by one.
LEMMA IntroductionIs ==
    ASSUME NEW i \in Nat \ {0}
    PROVE  LET s == Introduction(i)
           IN  /\ Len(s) = Opening(i) /\ s = [k \in 1..Opening(i) |-> s[k]]
               /\ i = 1 => s[1] = Slide(i, "confirm", "confirm", 1, 0)
               /\ s[Lead(i) + 1] = Slide(i, IF Declared > 1 THEN "operation" ELSE "confirm",
                                         "confirm", 2, 0)
               /\ Declared > 1 => s[Lead(i) + 2] = Slide(i, "confirm", Type(i), 1, 0)
<1> DEFINE a == Slide(i, "confirm", "confirm", 1, 0)
           b == Slide(i, "operation", "confirm", 2, 0)
           c == Slide(i, "confirm", Type(i), 1, 0)
           d == Slide(i, "confirm", "confirm", 2, 0)
           s == Introduction(i)
<1>1. s = (IF i = 1 THEN <<a>> ELSE <<>>) \o (IF Declared > 1 THEN <<b, c>> ELSE <<d>>)
  BY DEF Introduction, Type
<1> HIDE DEF a, b, c, d, s
<1>2. CASE i = 1 /\ Declared > 1
  <2>1. s = <<a>> \o <<b, c>>
    BY <1>1, <1>2
  <2>2. Len(s) = 3 /\ s[1] = a /\ s[2] = b /\ s[3] = c /\ s = [k \in 1..3 |-> s[k]]
    BY <2>1
  <2> QED
    BY <1>2, <2>2 DEF Lead, Opening, a, b, c, s
<1>3. CASE i = 1 /\ ~(Declared > 1)
  <2>1. s = <<a>> \o <<d>>
    BY <1>1, <1>3
  <2>2. Len(s) = 2 /\ s[1] = a /\ s[2] = d /\ s = [k \in 1..2 |-> s[k]]
    BY <2>1
  <2> QED
    BY <1>3, <2>2 DEF Lead, Opening, a, d, s
<1>4. CASE i # 1 /\ Declared > 1
  <2>1. s = <<b, c>>
    BY <1>1, <1>4
  <2>2. Len(s) = 2 /\ s[1] = b /\ s[2] = c /\ s = [k \in 1..2 |-> s[k]]
    BY <2>1
  <2> QED
    BY <1>4, <2>2 DEF Lead, Opening, b, c, s
<1>5. CASE i # 1 /\ ~(Declared > 1)
  <2>1. s = <<d>>
    BY <1>1, <1>5
  <2>2. Len(s) = 1 /\ s[1] = d /\ s = [k \in 1..1 |-> s[k]]
    BY <2>1
  <2> QED
    BY <1>5, <2>2 DEF Lead, Opening, d, s
<1> QED
  BY <1>2, <1>3, <1>4, <1>5

\* How many pages show the action itself.
Fields(i) ==
    IF Type(i) # "voteproducer" THEN Len(Chain(Type(i))) - 1
    ELSE IF CellAt(raw, i + 1).proxy THEN 2
    ELSE IF CellAt(raw, i + 1).producers = 0 THEN 2
    ELSE 1 + CellAt(raw, i + 1).producers

Field(i, k) ==
    IF Type(i) # "voteproducer" THEN Slide(i, "detail", Type(i), k + 1, 0)
    ELSE IF k = 1 THEN Slide(i, "detail", "voteproducer", 2, 0)
    ELSE IF CellAt(raw, i + 1).proxy THEN Slide(i, "detail", "voteproducer", 3, 0)
    ELSE Slide(i, "detail", "voteproducer", 4, k - 2)

\* The pages of an action's own fields, one by one (format_voteproducer_producers).
LEMMA DetailsAre ==
    ASSUME raw \in Seq(Cells), NEW i \in Nat \ {0}, Type(i) \in ActionTypes
    PROVE  /\ Fields(i) \in Nat \ {0}
           /\ Details(i) = [k \in 1..Fields(i) |-> Field(i, k)]
<1> DEFINE n == Fields(i)
           s == Details(i)
<1>1. CellAt(raw, i + 1) \in Ops
  BY KnownIsUploaded DEF Type
<1>2. CASE Type(i) # "voteproducer"
  <2>1. n = Len(Chain(Type(i))) - 1 /\ n \in Nat \ {0}
    <3>1. Len(Chain(Type(i))) \in Nat /\ Len(Chain(Type(i))) >= 3
      BY ChainLength
    <3> QED
      BY <1>2, <3>1 DEF Fields
  <2>2. s = [k \in 1..n |-> Slide(i, "detail", Type(i), k + 1, 0)]
    BY <1>2, <2>1 DEF Details, Type
  <2> QED
    BY <1>2, <2>1, <2>2 DEF Field
<1>3. CASE Type(i) = "voteproducer"
  <2> DEFINE op == CellAt(raw, i + 1)
             voter == Slide(i, "detail", "voteproducer", 2, 0)
             proxy == Slide(i, "detail", "voteproducer", 3, 0)
             Name(k) == Slide(i, "detail", "voteproducer", 4, k)
             names == IF op.producers = 0 THEN 1 ELSE op.producers
  <2>1. op.producers \in Nat /\ op.proxy \in BOOLEAN
    BY <1>1 DEF Ops, Cells
  <2>2. s = <<voter>> \o (IF op.proxy THEN <<proxy>> ELSE [k \in 1..names |-> Name(k - 1)])
    BY <1>3 DEF Details, Ballot, Type
  <2>3. CASE op.proxy
    <3>1. n = 2
      BY <1>3, <2>3 DEF Fields
    <3>2. \A k \in 1..n : Field(i, k) = IF k = 1 THEN voter ELSE proxy
      BY <1>3, <2>3 DEF Field
    <3> HIDE DEF voter, proxy, n, s
    <3>3. s = <<voter>> \o <<proxy>>
      BY <2>2, <2>3
    <3>4. s = [k \in 1..n |-> IF k = 1 THEN voter ELSE proxy]
      <4>1. s[1] = voter /\ s[2] = proxy /\ s = [k \in 1..2 |-> s[k]]
        BY <3>3
      <4> QED
        BY <3>1, <4>1
    <3> QED
      BY <3>1, <3>2, <3>4 DEF n, s
  <2>4. CASE ~op.proxy
    <3>1. n = names + 1 /\ names \in Nat \ {0}
      BY <1>3, <2>1, <2>4 DEF Fields
    <3>2. \A k \in 1..n : Field(i, k) = IF k = 1 THEN voter ELSE Name(k - 2)
      BY <1>3, <2>4 DEF Field
    <3> HIDE DEF voter, names, n, s, Name
    <3>3. s = <<voter>> \o [k \in 1..names |-> Name(k - 1)]
      BY <2>2, <2>4
    <3>4. s = [k \in 1..n |-> IF k = 1 THEN voter ELSE Name(k - 2)]
      <4> DEFINE t == [k \in 1..names |-> Name(k - 1)]
      <4>1. Len(t) = names /\ \A k \in 1..names : t[k] = Name(k - 1)
        BY <3>1
      <4>2. \A k \in 1..n : k # 1 => k - 1 \in 1..names /\ t[k - 1] = Name(k - 2)
        BY <3>1, <4>1
      <4> HIDE DEF t
      <4>3. s = [k \in 1..n |-> IF k = 1 THEN voter ELSE t[k - 1]]
        BY <3>1, <3>3, <4>1 DEF t
      <4> QED
        BY <4>2, <4>3
    <3> QED
      BY <3>1, <3>2, <3>4 DEF n, s
  <2> QED
    BY <2>1, <2>3, <2>4
<1> QED
  BY <1>2, <1>3

\* The page of an action at a place.
Leaf(i, k) ==
    IF k <= Lead(i) THEN Slide(i, "confirm", "confirm", 1, 0)
    ELSE IF k = Lead(i) + 1
         THEN Slide(i, IF Declared > 1 THEN "operation" ELSE "confirm", "confirm", 2, 0)
    ELSE IF k <= Opening(i) THEN Slide(i, "confirm", Type(i), 1, 0)
    ELSE Field(i, k - Opening(i))

\* All pages of an action, by their place.
LEMMA PartIs ==
    ASSUME raw \in Seq(Cells), NEW i \in Nat \ {0}, Type(i) \in ActionTypes
    PROVE  Part(i) = [k \in 1..(Opening(i) + Fields(i)) |-> Leaf(i, k)]
<1> DEFINE a == Introduction(i)
           b == Details(i)
           m == Opening(i)
           n == Fields(i)
<1>1. n \in Nat \ {0} /\ b = [k \in 1..n |-> Field(i, k)]
  BY DetailsAre
<1>2. m \in {1, 2, 3} /\ m > Lead(i)
  BY DEF Opening, Lead
<1>3. Len(a) = m /\ a = [k \in 1..m |-> a[k]]
  BY IntroductionIs
<1>4. ASSUME NEW k \in 1..m PROVE a[k] = Leaf(i, k)
  <2>1. /\ i = 1 => a[1] = Slide(i, "confirm", "confirm", 1, 0)
        /\ a[Lead(i) + 1] = Slide(i, IF Declared > 1 THEN "operation" ELSE "confirm",
                                  "confirm", 2, 0)
        /\ Declared > 1 => a[Lead(i) + 2] = Slide(i, "confirm", Type(i), 1, 0)
    BY IntroductionIs
  <2> HIDE DEF a
  <2>2. CASE k <= Lead(i)
    BY <2>1, <2>2 DEF Leaf, Lead
  <2>3. CASE k = Lead(i) + 1
    BY <2>1, <2>3 DEF Leaf, Lead
  <2>4. CASE k > Lead(i) + 1
    <3>1. Declared > 1 /\ k = Lead(i) + 2 /\ k <= Opening(i)
      BY <2>4 DEF Lead, Opening
    <3> QED
      BY <2>1, <3>1 DEF Leaf, Lead
  <2> QED
    BY <2>2, <2>3, <2>4 DEF Lead
<1>5. ASSUME NEW k \in 1..n PROVE b[k] = Leaf(i, m + k)
  <2>1. m + k > Lead(i) + 1 \/ m + k = Lead(i) + 1
    BY <1>1, <1>2 DEF Lead
  <2>2. m + k > m /\ m + k - m = k /\ m + k # Lead(i) + 1 /\ ~(m + k <= Lead(i))
    BY <1>1, <1>2 DEF Lead
  <2>3. b[k] = Field(i, k)
    BY <1>1
  <2> QED
    BY <1>2, <2>2, <2>3 DEF Leaf
<1>6. Part(i) = a \o b
  BY DEF Part
<1> HIDE DEF a, b, m, n
<1>7. a \o b = [k \in 1..(m + n) |-> IF k <= m THEN a[k] ELSE b[k - m]]
  BY <1>1, <1>2, <1>3
<1>8. ASSUME NEW k \in 1..(m + n)
      PROVE  (IF k <= m THEN a[k] ELSE b[k - m]) = Leaf(i, k)
  <2>1. CASE k <= m
    BY <1>2, <1>4, <2>1
  <2>2. CASE ~(k <= m)
    <3>1. k - m \in 1..n /\ m + (k - m) = k
      BY <1>1, <1>2, <2>2
    <3> QED
      BY <1>5, <2>2, <3>1
  <2> QED
    BY <2>1, <2>2
<1> QED
  BY <1>6, <1>7, <1>8 DEF m, n

\* Each is a page of that action.
LEMMA LeafType ==
    ASSUME raw \in Seq(Cells), NEW i \in Nat \ {0}, Type(i) \in ActionTypes,
           NEW k \in 1..(Opening(i) + Fields(i))
    PROVE  Leaf(i, k) \in Pages /\ Leaf(i, k).idx = i
<1>1. CellAt(raw, i + 1) \in Ops
  BY KnownIsUploaded DEF Type
<1>2. Type(i) \in Families /\ "confirm" \in Families /\ "voteproducer" \in Families
  BY DEF Families, ActionTypes
<1>3. {"confirm", "operation", "detail"} \subseteq PageKinds
  BY DEF PageKinds
<1>4. \A kind \in PageKinds, of \in Families, at \in Nat \ {0}, p \in Nat :
        Slide(i, kind, of, at, p) \in Pages
  BY <1>1, SlideType
<1>5. \A kind, of, at, p : Slide(i, kind, of, at, p).idx = i
  BY DEF Slide
<1>6. Fields(i) \in Nat \ {0} /\ Opening(i) \in {1, 2, 3} /\ Lead(i) \in {0, 1}
  BY DetailsAre DEF Opening, Lead
<1>7. CASE k <= Opening(i)
  <2>1. Leaf(i, k) \in {Slide(i, "confirm", "confirm", 1, 0),
                        Slide(i, "operation", "confirm", 2, 0),
                        Slide(i, "confirm", "confirm", 2, 0),
                        Slide(i, "confirm", Type(i), 1, 0)}
    BY <1>7 DEF Leaf
  <2> QED
    BY <1>2, <1>3, <1>4, <1>5, <2>1
<1>8. CASE ~(k <= Opening(i))
  <2>1. Leaf(i, k) = Field(i, k - Opening(i)) /\ k - Opening(i) \in Nat \ {0}
    BY <1>6, <1>8 DEF Leaf, Opening
  <2> DEFINE m == k - Opening(i)
  <2>2. m \in Nat \ {0} /\ (m # 1 => m - 2 \in Nat)
    BY <2>1
  <2> HIDE DEF m
  <2>3. \/ Field(i, m) \in {Slide(i, "detail", Type(i), m + 1, 0),
                            Slide(i, "detail", "voteproducer", 2, 0),
                            Slide(i, "detail", "voteproducer", 3, 0)}
        \/ (m # 1 /\ Field(i, m) = Slide(i, "detail", "voteproducer", 4, m - 2))
    BY DEF Field
  <2>4. Field(i, m) \in Pages /\ Field(i, m).idx = i
    <3>1. CASE m # 1 /\ Field(i, m) = Slide(i, "detail", "voteproducer", 4, m - 2)
      BY <1>2, <1>3, <1>4, <1>5, <2>2, <3>1
    <3>2. CASE Field(i, m) \in {Slide(i, "detail", Type(i), m + 1, 0),
                                Slide(i, "detail", "voteproducer", 2, 0),
                                Slide(i, "detail", "voteproducer", 3, 0)}
      <4>1. m + 1 \in Nat \ {0}
        BY <2>2
      <4> QED
        BY <1>2, <1>3, <1>4, <1>5, <3>2, <4>1
    <3> QED
      BY <2>3, <3>1, <3>2
  <2> QED
    BY <2>1, <2>4 DEF m
<1> QED
  BY <1>7, <1>8

\* A page tells its place: its function, and for a producer the number.
LEMMA LeafTells ==
    ASSUME raw \in Seq(Cells), NEW i \in Nat \ {0}, Type(i) \in ActionTypes,
           NEW k \in 1..(Opening(i) + Fields(i)), NEW l \in 1..(Opening(i) + Fields(i)),
           k < l
    PROVE  Leaf(i, k) # Leaf(i, l)
<1>1. \A kind, of, at, p : /\ Slide(i, kind, of, at, p).by = Formatter(of, at)
                           /\ Slide(i, kind, of, at, p).producer = p
  BY DEF Slide
<1>2. /\ Fields(i) \in Nat \ {0} /\ Lead(i) \in {0, 1}
      /\ Opening(i) \in {Lead(i) + 1, Lead(i) + 2}
  BY DetailsAre DEF Opening, Lead
<1>3. \A of, at : Formatter(of, at).of = of /\ Formatter(of, at).at = at
  BY DEF Formatter
<1>4. Type(i) # "confirm"
  BY DEF ActionTypes
<1> DEFINE Of(n) == Leaf(i, n).by.of
           Place(n) == Leaf(i, n).by.at
           Count(n) == Leaf(i, n).producer
<1>5. ASSUME NEW n \in 1..(Opening(i) + Fields(i))
      PROVE  /\ n <= Lead(i) => Of(n) = "confirm" /\ Place(n) = 1
             /\ n = Lead(i) + 1 => Of(n) = "confirm" /\ Place(n) = 2
             /\ n > Lead(i) + 1 /\ n <= Opening(i) => Of(n) = Type(i) /\ Place(n) = 1
             /\ n > Opening(i) /\ Type(i) # "voteproducer" =>
                  Of(n) = Type(i) /\ Place(n) = n - Opening(i) + 1
             /\ n = Opening(i) + 1 => Of(n) = Type(i) /\ Place(n) = 2
             /\ n > Opening(i) + 1 => Of(n) = Type(i) /\ Place(n) > 2
             /\ n > Opening(i) + 1 /\ Type(i) = "voteproducer" =>
                  CellAt(raw, i + 1).proxy \/ Count(n) = n - Opening(i) - 2
  <2>1. CASE n <= Opening(i)
    <3>1. /\ n <= Lead(i) => Leaf(i, n) = Slide(i, "confirm", "confirm", 1, 0)
          /\ n > Lead(i) + 1 => Leaf(i, n) = Slide(i, "confirm", Type(i), 1, 0)
          /\ n = Lead(i) + 1 =>
               Leaf(i, n) = Slide(i, IF Declared > 1 THEN "operation" ELSE "confirm",
                                  "confirm", 2, 0)
      BY <1>2, <2>1 DEF Leaf
    <3>2. ~(n > Opening(i)) /\ ~(n > Opening(i) + 1) /\ ~(n = Opening(i) + 1)
      BY <1>2, <2>1
    <3> QED
      BY <1>1, <1>3, <3>1, <3>2
  <2>2. CASE n > Opening(i)
    <3> DEFINE m == n - Opening(i)
    <3>1. ~(n <= Lead(i)) /\ n # Lead(i) + 1 /\ ~(n <= Opening(i)) /\ m \in Nat \ {0}
      BY <1>2, <2>2
    <3>2. (n = Opening(i) + 1 <=> m = 1) /\ (n > Opening(i) + 1 <=> m > 1)
      BY <1>2
    <3>3. Leaf(i, n) = Field(i, m)
      BY <3>1 DEF Leaf
    <3> HIDE DEF m
    <3>4. /\ Type(i) # "voteproducer" => Field(i, m) = Slide(i, "detail", Type(i), m + 1, 0)
          /\ Type(i) = "voteproducer" /\ m = 1 =>
               Field(i, m) = Slide(i, "detail", "voteproducer", 2, 0)
          /\ Type(i) = "voteproducer" /\ m > 1 /\ CellAt(raw, i + 1).proxy =>
               Field(i, m) = Slide(i, "detail", "voteproducer", 3, 0)
          /\ Type(i) = "voteproducer" /\ m > 1 /\ ~CellAt(raw, i + 1).proxy =>
               Field(i, m) = Slide(i, "detail", "voteproducer", 4, m - 2)
      BY <3>1 DEF Field
    <3>5. /\ Field(i, m).by.of = Type(i)
          /\ Type(i) # "voteproducer" => Field(i, m).by.at = m + 1
          /\ m = 1 => Field(i, m).by.at = 2
          /\ m > 1 => Field(i, m).by.at > 2
          /\ Type(i) = "voteproducer" /\ m > 1 =>
               CellAt(raw, i + 1).proxy \/ Field(i, m).producer = m - 2
      BY <1>1, <1>3, <3>1, <3>4
    <3> QED
      BY <3>1, <3>2, <3>3, <3>5 DEF m
  <2> QED
    BY <1>2, <2>1, <2>2
<1>6. Type(i) = "voteproducer" /\ CellAt(raw, i + 1).proxy => Fields(i) = 2
  BY DEF Fields
<1> HIDE DEF Of, Place, Count
<1>7. ~(Of(k) = Of(l) /\ Place(k) = Place(l) /\ Count(k) = Count(l))
  <2>1. CASE k <= Lead(i) + 1
    BY <1>2, <1>4, <1>5, <2>1
  <2>2. CASE k > Lead(i) + 1
    <3>1. l > Opening(i)
      BY <1>2, <2>2
    <3>6. l = Opening(i) + 1 \/ l > Opening(i) + 1
      BY <1>2, <3>1
    <3>7. Place(l) = 2 \/ Place(l) > 2
      BY <1>5, <3>6
    <3>2. CASE k <= Opening(i)
      <4>1. Place(k) = 1
        BY <1>5, <2>2, <3>2
      <4> QED
        BY <3>7, <4>1
    <3>3. CASE k > Opening(i) /\ Type(i) # "voteproducer"
      BY <1>2, <1>5, <3>1, <3>3
    <3>4. CASE k = Opening(i) + 1 /\ Type(i) = "voteproducer"
      <4>1. Place(k) = 2 /\ Place(l) > 2
        BY <1>2, <1>5, <3>4
      <4> QED
        BY <4>1
    <3>5. CASE k > Opening(i) + 1 /\ Type(i) = "voteproducer"
      <4>1. ~CellAt(raw, i + 1).proxy
        BY <1>2, <1>6, <3>5
      <4>2. Count(k) = k - Opening(i) - 2 /\ Count(l) = l - Opening(i) - 2
        BY <1>2, <1>5, <3>5, <4>1
      <4> QED
        BY <1>2, <4>2
    <3> QED
      BY <1>2, <3>2, <3>3, <3>4, <3>5
  <2> QED
    BY <1>2, <2>1, <2>2
<1> QED
  BY <1>7 DEF Of, Place, Count

\* The view stands on action i.
On(v, i) ==
    /\ v.opCount = Declared /\ v.opIdx = i /\ v.op = CellAt(raw, i + 1)
    /\ v.offset = IF i = Declared THEN 0 ELSE i + 1

\* ... and the next page that it prints is the k-th of the action.
Ready(v, i, k) ==
    /\ v.formatter = Leaf(i, k).by
    /\ v.formatter = VoteVoter => v.producer = 0
    /\ v.formatter = VoteProducers => v.producer = Leaf(i, k).producer

\* A formatter is told by its chain and its place in it.
LEMMA FormatterNames ==
    /\ \A of, at : Formatter(of, at).of = of /\ Formatter(of, at).at = at
    /\ \A of, at, of2, at2 : Formatter(of, at) = Formatter(of2, at2) <=> of = of2 /\ at = at2
    /\ ConfirmTransaction = Formatter("confirm", 1)
    /\ ConfirmOperation = Formatter("confirm", 2)
    /\ VoteVoter = Formatter("voteproducer", 2)
    /\ VoteProxy = Formatter("voteproducer", 3)
    /\ VoteProducers = Formatter("voteproducer", 4)
BY DEF Formatter, ConfirmTransaction, ConfirmOperation, VoteVoter, VoteProxy, VoteProducers

\* A field of an action, behind its introduction.
LEMMA LeafIsField ==
    ASSUME raw \in Seq(Cells), NEW i \in Nat \ {0}, Type(i) \in ActionTypes,
           NEW m \in Nat \ {0}
    PROVE  Leaf(i, Opening(i) + m) = Field(i, m)
<1>1. Opening(i) \in {Lead(i) + 1, Lead(i) + 2} /\ Lead(i) \in {0, 1}
  BY DEF Opening, Lead
<1> DEFINE k == Opening(i) + m
<1>2. k = Opening(i) + m
  OBVIOUS
<1> HIDE DEF k
<1>3. ~(k <= Lead(i)) /\ k # Lead(i) + 1 /\ ~(k <= Opening(i)) /\ k - Opening(i) = m
  BY <1>1, <1>2
<1>4. Leaf(i, k) = Field(i, m)
  BY <1>3 DEF Leaf
<1> QED
  BY <1>4 DEF k

\* What the confirmation and the first formatter of an action print and store.
LEMMA IntroductionPrinted ==
    ASSUME raw \in Seq(Cells), NEW i \in Nat \ {0}, Type(i) \in ActionTypes,
           NEW k \in 1..Opening(i), NEW v \in Views, On(v, i), Ready(v, i, k)
    PROVE  Page(v) = Leaf(i, k) /\ Ready(PrintPage(v), i, k + 1)
<1> DEFINE f == v.formatter
           w == PrintPage(v)
           op == CellAt(raw, i + 1)
<1>1. /\ Fields(i) \in Nat \ {0} /\ Lead(i) \in {0, 1}
      /\ Opening(i) \in {Lead(i) + 1, Lead(i) + 2}
      /\ Opening(i) = Lead(i) + 1 <=> ~(Declared > 1)
  BY DetailsAre DEF Opening, Lead
<1>2. \A kind, of, at, p :
        Slide(i, kind, of, at, p) =
          [kind |-> kind, by |-> Formatter(of, at), idx |-> i, op |-> op, producer |-> p]
  BY DEF Slide
<1>3. /\ "confirm" \notin ActionTypes /\ "hash" \notin ActionTypes
      /\ Type(i) # "confirm" /\ Type(i) # "hash"
  BY DEF ActionTypes
<1>4. op.type = Type(i) /\ v.opCount = Declared /\ v.op = op /\ v.opIdx = i
  BY DEF On, Type
<1>5. Page(v) = [kind |-> Kind(f, Declared), by |-> f, idx |-> i, op |-> op,
                 producer |-> IF f = VoteProducers THEN v.producer ELSE 0]
  BY <1>4 DEF Page
<1>6. ASSUME f \in Formatters
      PROVE  w.formatter = NextFormatter(v) /\ w.producer = NextProducer(v)
  BY <1>6, PrintPageType
<1>7. Leaf(i, Opening(i) + 1).by = Formatter(Type(i), 2)
  <2>1. Leaf(i, Opening(i) + 1) = Field(i, 1)
    BY LeafIsField
  <2>2. Field(i, 1) = Slide(i, "detail", Type(i), 2, 0)
    BY DEF Field
  <2> QED
    BY <1>2, <2>1, <2>2
<1>8. CASE k <= Lead(i)
  <2>1. k = 1 /\ Lead(i) = 1
    BY <1>1, <1>8
  <2>2. /\ Leaf(i, k) = Slide(i, "confirm", "confirm", 1, 0)
        /\ Leaf(i, k + 1).by = Formatter("confirm", 2)
    BY <1>2, <2>1 DEF Leaf
  <2>3. f = Formatter("confirm", 1)
    BY <1>2, <2>2 DEF Ready
  <2>4. f \in Formatters
    BY <2>3 DEF Formatter, Formatters, Families
  <2>5. Kind(f, Declared) = "confirm" /\ f # VoteProducers
    BY <1>3, <2>3, FormatterNames DEF Kind
  <2>6. NextFormatter(v) = Formatter("confirm", 2)
    <3>1. NextFormatter(v) = NextInChain(f)
      BY <2>3, FormatterNames DEF NextFormatter
    <3>2. f.of = "confirm" /\ f.at = 1
      BY <2>3, FormatterNames
    <3>3. Len(Chain("confirm")) = 2
      BY ChainLength
    <3>4. ~IsLast(f) /\ f.at + 1 = 2
      <4>1. IsLast(f) <=> f.at >= Len(Chain("confirm"))
        BY <3>2 DEF IsLast
      <4> DEFINE n == Len(Chain("confirm"))
                 at == f.at
      <4> HIDE DEF n, at
      <4>2. n = 2 /\ at = 1
        BY <3>2, <3>3 DEF n, at
      <4>3. ~(at >= n) /\ at + 1 = 2
        BY <4>2
      <4> QED
        BY <4>1, <4>3 DEF n, at
    <3> QED
      BY <3>1, <3>2, <3>4 DEF NextInChain
  <2> QED
    BY <1>2, <1>5, <1>6, <2>2, <2>3, <2>4, <2>5, <2>6, FormatterNames DEF Ready
<1>9. CASE k = Lead(i) + 1
  <2>1. Leaf(i, k) = Slide(i, IF Declared > 1 THEN "operation" ELSE "confirm", "confirm", 2, 0)
    BY <1>1, <1>9 DEF Leaf
  <2>2. f = Formatter("confirm", 2)
    BY <1>2, <2>1 DEF Ready
  <2>3. f \in Formatters
    BY <2>2 DEF Formatter, Formatters, Families
  <2>4. Kind(f, Declared) = (IF Declared > 1 THEN "operation" ELSE "confirm")
        /\ f # VoteProducers
    BY <1>3, <2>2, FormatterNames DEF Kind
  <2>5. NextFormatter(v) = Formatter(Type(i), IF Declared > 1 THEN 1 ELSE 2)
    BY <1>4, <2>2, FormatterNames DEF NextFormatter, AfterConfirmOperation
  <2>6. Leaf(i, k + 1).by = Formatter(Type(i), IF Declared > 1 THEN 1 ELSE 2)
    <3>1. CASE Declared > 1
      <4>1. k + 1 = Opening(i) /\ ~(k + 1 <= Lead(i)) /\ k + 1 # Lead(i) + 1
        BY <1>1, <1>9, <3>1
      <4>2. Leaf(i, k + 1) = Slide(i, "confirm", Type(i), 1, 0)
        BY <4>1 DEF Leaf, Opening
      <4> QED
        BY <1>2, <3>1, <4>2
    <3>2. CASE ~(Declared > 1)
      BY <1>1, <1>7, <1>9, <3>2
    <3> QED
      BY <3>1, <3>2
  <2>7. w.formatter = VoteVoter => w.producer = 0
    <3>1. w.formatter = VoteVoter => AfterConfirmOperation(v) = VoteVoter
      BY <1>4, <1>6, <2>3, <2>5 DEF AfterConfirmOperation
    <3> QED
      BY <1>6, <2>2, <2>3, <3>1, FormatterNames DEF NextProducer
  <2>8. w.formatter # VoteProducers
    BY <1>6, <2>3, <2>5, FormatterNames
  <2> QED
    BY <1>2, <1>5, <1>6, <2>1, <2>2, <2>3, <2>4, <2>5, <2>6, <2>7, <2>8 DEF Ready
<1>10. CASE k > Lead(i) + 1
  <2>1. k = Opening(i) /\ ~(k <= Lead(i)) /\ k # Lead(i) + 1
    BY <1>1, <1>10
  <2>2. Leaf(i, k) = Slide(i, "confirm", Type(i), 1, 0)
    BY <1>1, <2>1 DEF Leaf
  <2>3. f = Formatter(Type(i), 1)
    BY <1>2, <2>2 DEF Ready
  <2>4. f \in Formatters
    BY <2>3 DEF Formatter, Formatters, Families
  <2>5. Kind(f, Declared) = "confirm" /\ f # VoteProducers
    BY <1>3, <2>3, FormatterNames DEF Kind
  <2>6. NextFormatter(v) = Formatter(Type(i), 2)
    <3>1. Len(Chain(Type(i))) \in Nat /\ Len(Chain(Type(i))) >= 3
      BY ChainLength
    <3> QED
      BY <1>3, <2>3, <3>1, FormatterNames DEF NextFormatter, NextInChain, IsLast
  <2>7. NextFormatter(v) = VoteVoter => NextProducer(v) = 0
    BY <2>3, <2>6, FormatterNames DEF NextProducer
  <2>8. NextFormatter(v) # VoteProducers
    BY <2>6, FormatterNames
  <2> QED
    BY <1>2, <1>5, <1>6, <1>7, <2>1, <2>2, <2>3, <2>4, <2>5, <2>6, <2>7, <2>8 DEF Ready
<1> QED
  BY <1>1, <1>8, <1>9, <1>10

\* What each formatter of an action prints and stores, up to NULL after the last.
LEMMA FieldPrinted ==
    ASSUME raw \in Seq(Cells), NEW i \in Nat \ {0}, Type(i) \in ActionTypes,
           NEW m \in 1..Fields(i), NEW v \in Views, On(v, i), Ready(v, i, Opening(i) + m)
    PROVE  /\ Page(v) = Field(i, m)
           /\ IF m = Fields(i) THEN PrintPage(v).formatter = NULL
              ELSE Ready(PrintPage(v), i, Opening(i) + m + 1)
<1> DEFINE f == v.formatter
           w == PrintPage(v)
           op == CellAt(raw, i + 1)
<1>1. Fields(i) \in Nat \ {0} /\ m \in Nat \ {0}
  BY DetailsAre
<1>2. \A kind, of, at, p :
        Slide(i, kind, of, at, p) =
          [kind |-> kind, by |-> Formatter(of, at), idx |-> i, op |-> op, producer |-> p]
  BY DEF Slide
<1>3. Type(i) # "confirm" /\ Type(i) # "hash"
  BY DEF ActionTypes
<1>4. op.type = Type(i) /\ v.opCount = Declared /\ v.op = op /\ v.opIdx = i
  BY DEF On, Type
<1>5. Page(v) = [kind |-> Kind(f, Declared), by |-> f, idx |-> i, op |-> op,
                 producer |-> IF f = VoteProducers THEN v.producer ELSE 0]
  BY <1>4 DEF Page
<1>6. ASSUME f \in Formatters
      PROVE  w.formatter = NextFormatter(v) /\ w.producer = NextProducer(v)
  BY <1>6, PrintPageType
<1>7. /\ Leaf(i, Opening(i) + m) = Field(i, m)
      /\ Leaf(i, Opening(i) + m + 1) = Field(i, m + 1)
  <2>1. Opening(i) + m + 1 = Opening(i) + (m + 1) /\ m + 1 \in Nat \ {0}
    BY <1>1 DEF Opening, Lead
  <2> QED
    BY <1>1, <2>1, LeafIsField
<1>8. f = Field(i, m).by
  BY <1>7 DEF Ready
<1>13. op \in Ops
  BY KnownIsUploaded DEF Type
<1>9. CASE Type(i) # "voteproducer"
  <2>1. /\ Field(i, m) = Slide(i, "detail", Type(i), m + 1, 0)
        /\ Field(i, m + 1).by = Formatter(Type(i), m + 1 + 1)
    BY <1>2, <1>9 DEF Field
  <2>2. f = Formatter(Type(i), m + 1)
    BY <1>2, <1>8, <2>1
  <2>3. f \in Formatters
    BY <1>1, <2>2 DEF Formatter, Formatters, Families
  <2>4. Kind(f, Declared) = "detail" /\ f # VoteProducers
    BY <1>1, <1>3, <1>9, <2>2, FormatterNames DEF Kind
  <2>5. NextFormatter(v) = NextInChain(f)
    BY <1>3, <1>9, <2>2, FormatterNames DEF NextFormatter
  <2>6. Fields(i) = Len(Chain(Type(i))) - 1 /\ Len(Chain(Type(i))) \in Nat
    BY <1>9, ChainLength DEF Fields
  <2>7. IsLast(f) <=> m = Fields(i)
    BY <1>1, <2>2, <2>6, FormatterNames DEF IsLast
  <2>8. NextInChain(f) = IF m = Fields(i) THEN NULL ELSE Formatter(Type(i), m + 1 + 1)
    BY <2>2, <2>7, FormatterNames DEF NextInChain
  <2>9. Formatter(Type(i), m + 1 + 1) # VoteVoter /\ Formatter(Type(i), m + 1 + 1) # VoteProducers
    BY <1>9, FormatterNames
  <2> QED
    BY <1>2, <1>5, <1>6, <1>7, <2>1, <2>2, <2>3, <2>4, <2>5, <2>8, <2>9 DEF Ready
<1>10. CASE Type(i) = "voteproducer" /\ m = 1
  <2>1. /\ Field(i, m) = Slide(i, "detail", "voteproducer", 2, 0)
        /\ Field(i, m + 1) = IF op.proxy THEN Slide(i, "detail", "voteproducer", 3, 0)
                             ELSE Slide(i, "detail", "voteproducer", 4, 0)
    BY <1>10 DEF Field
  <2>2. f = Formatter("voteproducer", 2)
    BY <1>2, <1>8, <2>1
  <2>3. f \in Formatters
    BY <2>2 DEF Formatter, Formatters, Families, ActionTypes
  <2>4. Kind(f, Declared) = "detail" /\ f # VoteProducers
    BY <2>2, FormatterNames DEF Kind, ActionTypes
  <2>5. NextFormatter(v) = (IF op.proxy THEN VoteProxy ELSE VoteProducers)
    BY <1>4, <2>2, FormatterNames DEF NextFormatter, AfterVoter
  <2>6. NextProducer(v) = 0
    <3>1. v.producer = 0
      BY <2>2, FormatterNames DEF Ready
    <3> QED
      BY <2>2, <3>1, FormatterNames DEF NextProducer
  <2>7. m # Fields(i)
    <3>1. op.producers \in Nat
      BY <1>13 DEF Ops, Cells
    <3> QED
      BY <1>10, <3>1 DEF Fields
  <2>8. (IF op.proxy THEN VoteProxy ELSE VoteProducers) # VoteVoter
        /\ (IF op.proxy THEN VoteProxy ELSE VoteProducers) = Field(i, m + 1).by
        /\ Field(i, m + 1).producer = 0
    BY <1>2, <2>1, FormatterNames
  <2> QED
    BY <1>2, <1>5, <1>6, <1>7, <2>1, <2>2, <2>3, <2>4, <2>5, <2>6, <2>7, <2>8 DEF Ready
<1>11. CASE Type(i) = "voteproducer" /\ m # 1 /\ op.proxy
  <2>1. Field(i, m) = Slide(i, "detail", "voteproducer", 3, 0)
    BY <1>11 DEF Field
  <2>2. f = Formatter("voteproducer", 3)
    BY <1>2, <1>8, <2>1
  <2>3. f \in Formatters
    BY <2>2 DEF Formatter, Formatters, Families, ActionTypes
  <2>4. Kind(f, Declared) = "detail" /\ f # VoteProducers
    BY <2>2, FormatterNames DEF Kind, ActionTypes
  <2>5. NextFormatter(v) = NULL
    BY <2>2, FormatterNames DEF NextFormatter
  <2>6. m = Fields(i)
    <3>1. Fields(i) = 2
      BY <1>11 DEF Fields
    <3> QED
      BY <1>1, <1>11, <3>1
  <2> QED
    BY <1>2, <1>5, <1>6, <2>1, <2>2, <2>3, <2>4, <2>5, <2>6
<1>12. CASE Type(i) = "voteproducer" /\ m # 1 /\ ~op.proxy
  <2>1. /\ Field(i, m) = Slide(i, "detail", "voteproducer", 4, m - 2)
        /\ Field(i, m + 1) = Slide(i, "detail", "voteproducer", 4, m + 1 - 2)
    BY <1>1, <1>12 DEF Field
  <2>2. f = Formatter("voteproducer", 4)
    BY <1>2, <1>8, <2>1
  <2>3. f \in Formatters
    BY <2>2 DEF Formatter, Formatters, Families, ActionTypes
  <2>4. Kind(f, Declared) = "detail" /\ f = VoteProducers
    BY <2>2, FormatterNames DEF Kind, ActionTypes
  <2>5. v.producer = m - 2
    BY <1>2, <1>7, <2>1, <2>4 DEF Ready
  <2>6. op.producers \in Nat
    BY <1>13 DEF Ops, Cells
  <2>7. m = Fields(i) <=> ~(v.producer + 1 < op.producers)
    BY <1>1, <1>12, <2>5, <2>6 DEF Fields
  <2>8. NextFormatter(v) = IF m = Fields(i) THEN NULL ELSE VoteProducers
    BY <1>4, <2>2, <2>7, FormatterNames DEF NextFormatter, AfterProducer
  <2>9. NextProducer(v) = m + 1 - 2
    BY <1>1, <2>4, <2>5 DEF NextProducer
  <2>10. Field(i, m + 1).by = VoteProducers /\ Field(i, m + 1).producer = m + 1 - 2
         /\ VoteProducers # VoteVoter
    BY <1>2, <2>1, FormatterNames
  <2> QED
    BY <1>2, <1>5, <1>6, <1>7, <2>1, <2>2, <2>3, <2>4, <2>5, <2>8, <2>9, <2>10 DEF Ready
<1> QED
  BY <1>9, <1>10, <1>11, <1>12

-----------------------------------------------------------------------------
\* The pages of an action are pages, at least two, and all different.
LEMMA PartType ==
    ASSUME raw \in Seq(Cells), NEW i \in Nat \ {0}, Type(i) \in ActionTypes
    PROVE  /\ Part(i) \in Seq(Pages)
           /\ Len(Part(i)) = Opening(i) + Fields(i) /\ Len(Part(i)) \in Nat \ {0, 1}
           /\ \A k \in 1..Len(Part(i)) : Part(i)[k] = Leaf(i, k) /\ Part(i)[k].idx = i
           /\ \A k, l \in 1..Len(Part(i)) : Part(i)[k] = Part(i)[l] => k = l
<1> DEFINE n == Opening(i) + Fields(i)
           s == Part(i)
<1>1. n \in Nat \ {0, 1}
  BY DetailsAre DEF Opening, Lead
<1>2. s = [k \in 1..n |-> Leaf(i, k)]
  BY PartIs
<1>3. \A k \in 1..n : Leaf(i, k) \in Pages /\ Leaf(i, k).idx = i
  BY LeafType
<1>4. \A k, l \in 1..n : k < l => Leaf(i, k) # Leaf(i, l)
  BY LeafTells
<1> HIDE DEF n, s
<1>5. s \in Seq(Pages) /\ Len(s) = n /\ \A k \in 1..n : s[k] = Leaf(i, k)
  BY <1>1, <1>2, <1>3
<1>6. \A k, l \in 1..n : s[k] = s[l] => k = l
  BY <1>1, <1>4, <1>5
<1> QED
  BY <1>1, <1>3, <1>5, <1>6 DEF n, s

\* The k-th page of action i is up, and the view is ready for the next.
Stands(v, i, k) ==
    /\ On(v, i) /\ v.page = Part(i)[k]
    /\ IF k = Len(Part(i)) THEN v.formatter = NULL ELSE Ready(v, i, k + 1)

\* One call of the formatter shows the page that is due.
LEMMA PartPrinted ==
    ASSUME raw \in Seq(Cells), NEW i \in Nat \ {0}, Type(i) \in ActionTypes,
           NEW k \in 1..Len(Part(i)), NEW v \in Views, On(v, i), Ready(v, i, k)
    PROVE  Stands(PrintPage(v), i, k)
<1> DEFINE w == PrintPage(v)
<1>1. Part(i)[k] = Leaf(i, k) /\ Part(i)[k] \in Pages
  BY PartType
<1>2. v.formatter \in Formatters
  BY <1>1 DEF Ready, Pages
<1>3. On(w, i) /\ w.page = Page(v)
  BY <1>2, PrintPageType DEF On
<1>4. Fields(i) \in Nat \ {0} /\ Opening(i) \in {1, 2, 3}
  BY DetailsAre DEF Opening, Lead
<1>5. Len(Part(i)) = Opening(i) + Fields(i)
  BY PartType
<1>6. CASE k <= Opening(i)
  <2>1. k \in 1..Opening(i) /\ k # Len(Part(i))
    BY <1>4, <1>5, <1>6
  <2>2. Page(v) = Leaf(i, k) /\ Ready(w, i, k + 1)
    BY <2>1, IntroductionPrinted
  <2> QED
    BY <1>1, <1>3, <2>1, <2>2 DEF Stands
<1>7. CASE k > Opening(i)
  <2> DEFINE m == k - Opening(i)
  <2>1. m \in 1..Fields(i) /\ k = Opening(i) + m /\ (m = Fields(i) <=> k = Len(Part(i)))
    BY <1>4, <1>5, <1>7
  <2> HIDE DEF m
  <2>2. Ready(v, i, Opening(i) + m)
    BY <2>1
  <2>3. Page(v) = Field(i, m)
        /\ IF m = Fields(i) THEN w.formatter = NULL ELSE Ready(w, i, Opening(i) + m + 1)
    BY <2>1, <2>2, FieldPrinted
  <2>4. Leaf(i, k) = Field(i, m)
    BY <1>4, <2>1, LeafIsField
  <2> QED
    BY <1>1, <1>3, <2>1, <2>3, <2>4 DEF Stands
<1> QED
  BY <1>4, <1>6, <1>7

(***************************************************************************)
(* Between two actions: the parser goes on with the action after the last  *)
(* one, or with the first, and refuses it if its name is not known         *)
(* (parse_tx, eos_parser.c:390-430).                                       *)
(***************************************************************************)
Between(v, n) ==
    /\ v.formatter = NULL
    /\ \/ v.offset = 0 /\ n = 1
       \/ v.offset = n /\ n # 0 /\ v.opIdx + 1 = n /\ v.opCount = Declared

LEMMA ActionFound ==
    ASSUME raw \in Seq(Cells), Len(raw) <= BYTE, Declared <= MAX_OPS,
           NEW v \in Views, NEW n \in Nat, Between(v, n)
    PROVE  IF Type(n) \in ActionTypes
           THEN ScreenStatus(raw, v) = "9000" /\ Stands(NextScreen(raw, v), n, 1)
           ELSE ScreenStatus(raw, v) = "6900"
<1> DEFINE s == Started(raw, v)
           w == ParseTx(raw, v)
           u == FirstOrNext(w)
<1>1. Declared = ReadOpCount(raw) /\ Declared \in Nat
  BY OpCountType DEF Declared, ReadOpCount
<1>2. s \in Views /\ s.offset = n /\ s.opIdx + 1 = n /\ s.opCount = Declared
  <2>1. CASE v.offset = 0
    BY <1>1, <2>1, HeaderType DEF Between, Started
  <2>2. CASE v.offset # 0
    BY <2>2, StartedType DEF Between
  <2> QED
    BY <2>1, <2>2
<1>3. ~TooManyOps(raw, v)
  BY <1>1, MaxOpsAssumption DEF TooManyOps
<1>4. KnownOp(raw, v) <=> Type(n) \in ActionTypes
  BY <1>2 DEF KnownOp, Type
<1>5. ScreenStatus(raw, v) = (IF Type(n) \in ActionTypes THEN "9000" ELSE "6900")
  BY <1>3, <1>4 DEF ScreenStatus, ParseStatus, Between
<1>6. ASSUME Type(n) \in ActionTypes
      PROVE  Stands(NextScreen(raw, v), n, 1)
  <2> DEFINE cell == CellAt(raw, n + 1)
             off == IF Declared = n THEN 0 ELSE n + 1
  <2>1. n + 1 \in 1..Len(raw) /\ cell \in Ops
    BY <1>6, KnownIsUploaded DEF Type
  <2>2. n \in Nat \ {0} /\ n % BYTE = n
    BY <1>2, <2>1, ByteAssumption DEF Views
  <2>3. ParseStatus(raw, v) = "9000" /\ NextScreen(raw, v) = PrintPage(u)
    BY <1>5, <1>6 DEF ScreenStatus, NextScreen, Between
  <2>4. w = [s EXCEPT !.op = cell, !.opIdx = n, !.offset = off]
    BY <1>2, <2>2, <2>3 DEF ParseTx, ReadOp, NextOffset
  <2>5. w \in Views
    BY ParseTxType
  <2> HIDE DEF s, w, cell, off
  <2>6. w.op = cell /\ w.opIdx = n /\ w.offset = off /\ w.opCount = Declared
    BY <1>2, <2>4 DEF Views
  <2>7. /\ u \in Views /\ u.op = cell /\ u.opIdx = n /\ u.offset = off
        /\ u.opCount = Declared
        /\ u.formatter = IF n = 1 THEN ConfirmTransaction ELSE ConfirmOperation
    BY <2>5, <2>6, FirstOrNextType
  <2> HIDE DEF u
  <2>8. On(u, n)
    BY <2>7 DEF On, cell, off
  <2>9. Ready(u, n, 1)
    <3>1. Leaf(n, 1).by = Formatter("confirm", IF n = 1 THEN 1 ELSE 2)
      BY <2>2 DEF Leaf, Lead, Slide
    <3> QED
      BY <2>7, <3>1, FormatterNames DEF Ready
  <2>10. 1 \in 1..Len(Part(n))
    BY <1>6, <2>2, PartType
  <2> QED
    BY <1>6, <2>2, <2>3, <2>7, <2>8, <2>9, <2>10, PartPrinted
<1> QED
  BY <1>5, <1>6

-----------------------------------------------------------------------------
(***************************************************************************)
(* How many actions can be shown, and what comes after them.               *)
(***************************************************************************)
LEMMA ShownIs ==
    ASSUME raw \in Seq(Cells), Declared <= MAX_OPS
    PROVE  /\ Shown \in Nat
           /\ \A i \in 1..Shown : Type(i) \in ActionTypes
           /\ Declared # 0 => Shown <= Declared
           /\ Complete \/ Type(Shown + 1) \notin ActionTypes
<1> DEFINE known == {n \in 0..Len(raw) : \A i \in 1..n : CellAt(raw, i + 1).type \in ActionTypes}
           longest == CHOOSE n \in known : \A k \in known : k <= n
           rest == {Len(raw) - n : n \in known}
<1>1. Len(raw) \in Nat /\ 0 \in known
  OBVIOUS
<1>2. rest \subseteq Nat /\ rest # {}
  BY <1>1
<1>3. PICK m \in rest : \A l \in rest : m <= l
  BY <1>2, LeastNatural
<1>4. PICK n \in known : m = Len(raw) - n
  BY <1>3
<1>5. ASSUME NEW k \in known PROVE k <= n
  <2>1. Len(raw) - n <= Len(raw) - k
    BY <1>3, <1>4
  <2>2. n \in Nat /\ k \in Nat
    OBVIOUS
  <2> QED
    BY <1>1, <2>1, <2>2
<1>6. longest \in known /\ \A k \in known : k <= longest
  BY <1>5
<1> HIDE DEF longest
<1>7. longest \in Nat /\ \A i \in 1..longest : Type(i) \in ActionTypes
  BY <1>6 DEF Type
<1>8. Type(longest + 1) \notin ActionTypes
  <2> SUFFICES ASSUME Type(longest + 1) \in ActionTypes PROVE FALSE
    OBVIOUS
  <2>1. longest + 1 \in 0..Len(raw)
    BY <1>7, KnownIsUploaded DEF Type
  <2>2. \A i \in 1..(longest + 1) : CellAt(raw, i + 1).type \in ActionTypes
    BY <1>7 DEF Type
  <2>3. longest + 1 \in known
    BY <2>1, <2>2
  <2> QED
    BY <1>6, <1>7, <2>3
<1>9. Declared \in Nat
  BY OpCountType DEF Declared, ReadOpCount
<1>10. Shown = IF Declared \in 1..longest THEN Declared ELSE longest
  BY <1>9, MaxOpsAssumption DEF Shown, longest
<1> HIDE DEF known
<1>11. CASE Declared \in 1..longest
  <2>1. Shown = Declared /\ Declared \in 1..MAX_OPS
    BY <1>9, <1>10, <1>11
  <2> QED
    BY <1>7, <1>9, <1>11, <2>1 DEF Complete
<1>12. CASE Declared \notin 1..longest
  BY <1>7, <1>8, <1>9, <1>10, <1>12
<1> QED
  BY <1>11, <1>12

\* The pages of the show, by action and place.
LEMMA ShowIs ==
    ASSUME raw \in Seq(Cells), Declared <= MAX_OPS, Shown # 0
    PROVE  /\ Show.pages \in Seq(Pages) /\ Show.pages # <<>>
           /\ \E offset : Spread(Show.pages, offset, [i \in 1..Shown |-> Part(i)], Shown)
<1> DEFINE s == [i \in 1..Shown |-> Part(i)]
<1>1. Shown \in Nat /\ \A i \in 1..Shown : i \in Nat \ {0} /\ Type(i) \in ActionTypes
  BY ShownIs
<1>2. \A i \in 1..Shown : Part(i) \in Seq(Pages)
  BY <1>1, PartType
<1>3. s \in Seq(Seq(Pages)) /\ Len(s) = Shown /\ s # <<>>
  BY <1>1, <1>2
<1>4. Show.pages = FlattenSeq(s)
  BY DEF Show, Part
<1> HIDE DEF s
<1>5. FlattenSeq(s) \in Seq(Pages) /\ \E offset : Spread(FlattenSeq(s), offset, s, Len(s))
  BY <1>3, FlattenedSpread
<1>6. Show.pages # <<>>
  <2>1. PICK offset : Spread(FlattenSeq(s), offset, s, Shown)
    BY <1>3, <1>5
  <2>2. Len(FlattenSeq(s)) = offset[Shown] + Len(s[Shown]) /\ offset[Shown] \in Nat
    BY <1>1, <2>1 DEF Spread
  <2>3. Len(s[Shown]) \in Nat \ {0}
    BY <1>1, PartType DEF s
  <2> QED
    BY <1>4, <1>5, <2>2, <2>3
<1> QED
  BY <1>3, <1>4, <1>5, <1>6 DEF s

\* Where the pages of an action begin, and how many there are in all.
LEMMA Layout ==
    ASSUME raw \in Seq(Cells), Declared <= MAX_OPS, Shown # 0,
           NEW offset, Spread(Show.pages, offset, [i \in 1..Shown |-> Part(i)], Shown)
    PROVE  /\ \A n \in 1..Shown : offset[n] \in Nat /\ Len(Part(n)) \in Nat
           /\ offset[1] = 0
           /\ \A n \in 1..(Shown - 1) : offset[n + 1] = offset[n] + Len(Part(n))
           /\ Len(Show.pages) = offset[Shown] + Len(Part(Shown))
           /\ \A n \in 1..Shown : \A m \in 1..Len(Part(n)) :
                offset[n] + m \in 1..Len(Show.pages)
<1> DEFINE s == [i \in 1..Shown |-> Part(i)]
<1>1. Shown \in Nat /\ \A n \in 1..Shown : n \in Nat \ {0} /\ Type(n) \in ActionTypes
  BY ShownIs
<1>2. \A n \in 1..Shown : s[n] = Part(n)
  OBVIOUS
<1>3. Spread(Show.pages, offset, s, Shown)
  OBVIOUS
<1> HIDE DEF s
<1>4. \A n \in 1..Shown : Len(Part(n)) \in Nat
  BY <1>1, PartType
<1>5. ASSUME NEW n \in 1..(Shown - 1)
      PROVE  offset[n + 1] = offset[n] + Len(Part(n))
  <2>1. offset[n + 1] = offset[n] + Len(s[n])
    BY <1>3 DEF Spread
  <2>2. n \in 1..Shown
    BY <1>1
  <2> QED
    BY <1>2, <2>1, <2>2
<1>6. Len(Show.pages) = offset[Shown] + Len(Part(Shown))
  <2>1. Shown \in 1..Shown
    BY <1>1
  <2> QED
    BY <1>2, <1>3, <2>1 DEF Spread
<1>7. \A n \in 1..Shown : offset[n] \in Nat
  BY <1>3 DEF Spread
<1>8. offset[1] = 0
  BY <1>3 DEF Spread
<1>9. ASSUME NEW n \in 1..Shown, NEW m \in 1..Len(Part(n))
      PROVE  offset[n] + m \in 1..Len(Show.pages)
  BY <1>2, <1>3 DEF Spread
<1> QED
  BY <1>4, <1>5, <1>6, <1>7, <1>8, <1>9

\* A page is at one place of the show only: that is where At finds it.
LEMMA PlaceOfPage ==
    ASSUME raw \in Seq(Cells), Declared <= MAX_OPS,
           NEW offset, Spread(Show.pages, offset, [i \in 1..Shown |-> Part(i)], Shown),
           NEW i \in 1..Shown, NEW k \in 1..Len(Part(i)), NEW q \in 1..Len(Show.pages),
           Show.pages[q] = Part(i)[k]
    PROVE  q = offset[i] + k
<1> DEFINE s == [j \in 1..Shown |-> Part(j)]
<1>1. Shown \in Nat /\ \A j \in 1..Shown : j \in Nat \ {0} /\ Type(j) \in ActionTypes
  BY ShownIs
<1>2. \A j \in 1..Shown : s[j] = Part(j)
  OBVIOUS
<1> HIDE DEF s
<1>3. Spread(Show.pages, offset, s, Shown)
  BY DEF s
<1>4. PICK j \in 1..Shown : \E l \in 1..Len(s[j]) : q = offset[j] + l
  BY <1>3 DEF Spread
<1>5. PICK l \in 1..Len(s[j]) : q = offset[j] + l
  BY <1>4
<1>6. l \in 1..Len(Part(j)) /\ Show.pages[q] = Part(j)[l]
  BY <1>2, <1>3, <1>5 DEF Spread
<1>7. Part(j)[l].idx = j /\ Part(i)[k].idx = i
  BY <1>1, <1>6, PartType
<1>8. j = i
  BY <1>6, <1>7
<1>9. k = l
  <2>1. \A m, n \in 1..Len(Part(i)) : Part(i)[m] = Part(i)[n] => m = n
    BY <1>1, PartType
  <2> QED
    BY <1>6, <1>8, <2>1
<1> QED
  BY <1>5, <1>8, <1>9

\* The pages of an action are in the show.
LEMMA SpreadPage ==
    ASSUME raw \in Seq(Cells), Declared <= MAX_OPS, Shown # 0,
           NEW offset, Spread(Show.pages, offset, [i \in 1..Shown |-> Part(i)], Shown),
           NEW i \in 1..Shown, NEW k \in 1..Len(Part(i))
    PROVE  /\ offset[i] + k \in 1..Len(Show.pages)
           /\ Show.pages[offset[i] + k] = Part(i)[k]
<1> DEFINE s == [j \in 1..Shown |-> Part(j)]
<1>1. s[i] = Part(i)
  OBVIOUS
<1>2. Spread(Show.pages, offset, s, Shown)
  OBVIOUS
<1> HIDE DEF s
<1> QED
  BY <1>1, <1>2 DEF Spread

\* ... so At is where the page that is up belongs.
LEMMA AtIs ==
    ASSUME raw \in Seq(Cells), Declared <= MAX_OPS,
           NEW offset, Spread(Show.pages, offset, [i \in 1..Shown |-> Part(i)], Shown),
           NEW i \in 1..Shown, NEW k \in 1..Len(Part(i)), view.page = Part(i)[k]
    PROVE  At = offset[i] + k /\ At \in 1..Len(Show.pages)
<1> DEFINE s == [j \in 1..Shown |-> Part(j)]
           q == offset[i] + k
<1>1. s[i] = Part(i) /\ Shown # 0
  BY ShownIs
<1> HIDE DEF s
<1>2. Spread(Show.pages, offset, s, Shown)
  BY DEF s
<1>3. q \in 1..Len(Show.pages) /\ Show.pages[q] = view.page
  BY <1>1, <1>2 DEF Spread
<1>4. \A r \in 1..Len(Show.pages) : Show.pages[r] = view.page => r = q
  BY PlaceOfPage
<1> HIDE DEF q
<1>5. At = q
  BY <1>1, <1>3, <1>4 DEF At
<1> QED
  BY <1>3, <1>5 DEF q

-----------------------------------------------------------------------------
(***************************************************************************)
(* The invariant.  Which page is up does not determine the step: the view  *)
(* must also be ready for the page that comes next, cursor, formatter and  *)
(* counter.                                                                *)
(***************************************************************************)
OnShow == \E i \in 1..Shown : \E k \in 1..Len(Part(i)) : Stands(view, i, k)

ReviewInv ==
    /\ TypeOK
    /\ refused = "none" => Declared <= MAX_OPS /\ OnShow

\* ui_approve_tx_init: the first page, or a refusal.
LEMMA FirstScreen ==
    ASSUME Init
    PROVE  /\ TypeOK /\ raw \in Seq(Cells) /\ Len(raw) <= BYTE
           /\ refused = "none" <=> Declared <= MAX_OPS /\ Shown # 0
           /\ refused = "none" => Stands(view, 1, 1) /\ 1 \in 1..Len(Part(1))
           /\ Declared > MAX_OPS => Shown = 0
<1>1. raw \in Seq(Cells) /\ Len(raw) <= BYTE
  BY TransactionsAssumption DEF Init
<1>2. TypeOK
  BY <1>1, InitViewType, NextScreenType, ShowNextType DEF Init, TypeOK
<1>3. Declared \in Nat /\ Declared = ReadOpCount(raw)
  BY <1>1, OpCountType DEF Declared, ReadOpCount
<1>4. InitView.offset = 0 /\ InitView.formatter = NULL /\ InitView \in Views
  BY InitViewType DEF InitView
<1>5. CASE Declared > MAX_OPS
  <2>1. ScreenStatus(raw, InitView) = "6e10"
    BY <1>3, <1>4, <1>5 DEF ScreenStatus, ParseStatus, TooManyOps
  <2>2. refused # "none" /\ Shown = 0
    BY <1>5, <2>1 DEF Init, ShowNext, Shown
  <2>3. ~(Declared <= MAX_OPS)
    BY <1>3, <1>5, MaxOpsAssumption
  <2> QED
    BY <1>1, <1>2, <2>2, <2>3
<1>6. CASE ~(Declared > MAX_OPS)
  <2>1. Declared <= MAX_OPS
    BY <1>3, <1>6, MaxOpsAssumption
  <2>2. Between(InitView, 1)
    BY <1>4 DEF Between
  <2>3. IF Type(1) \in ActionTypes
        THEN ScreenStatus(raw, InitView) = "9000" /\ Stands(view, 1, 1)
        ELSE ScreenStatus(raw, InitView) = "6900"
    BY <1>1, <1>4, <2>1, <2>2, ActionFound DEF Init
  <2>4. refused = "none" <=> Type(1) \in ActionTypes
    BY <2>3 DEF Init, ShowNext
  <2>5. Type(1) \in ActionTypes <=> Shown # 0
    <3>1. Shown \in Nat /\ (\A i \in 1..Shown : Type(i) \in ActionTypes)
          /\ (Complete \/ Type(Shown + 1) \notin ActionTypes)
      BY <1>1, <2>1, ShownIs
    <3>2. CASE Shown = 0
      <4>1. ~Complete
        BY <3>2 DEF Complete
      <4>2. Shown + 1 = 1
        BY <3>2
      <4> QED
        BY <3>1, <3>2, <4>1, <4>2
    <3>3. CASE Shown # 0
      BY <3>1, <3>3
    <3> QED
      BY <3>2, <3>3
  <2>6. Type(1) \in ActionTypes => 1 \in 1..Len(Part(1))
    BY <1>1, PartType
  <2> QED
    BY <1>1, <1>2, <1>6, <2>1, <2>3, <2>4, <2>5, <2>6
<1> QED
  BY <1>5, <1>6

\* One tick: the next page of the action, the first page of the action that
\* follows, or the end of what can be shown.
LEMMA TickIs ==
    ASSUME raw \in Seq(Cells), Len(raw) <= BYTE, view \in Views, Declared <= MAX_OPS, Tick,
           NEW i \in 1..Shown, NEW k \in 1..Len(Part(i)), Stands(view, i, k)
    PROVE  \/ /\ k # Len(Part(i)) /\ refused' = "none"
              /\ k + 1 \in 1..Len(Part(i)) /\ Stands(view', i, k + 1)
           \/ /\ k = Len(Part(i)) /\ i # Shown /\ refused' = "none"
              /\ i + 1 \in 1..Shown /\ 1 \in 1..Len(Part(i + 1)) /\ Stands(view', i + 1, 1)
           \/ /\ k = Len(Part(i)) /\ i = Shown /\ Complete /\ refused' = "none"
              /\ 1 \in 1..Shown /\ 1 \in 1..Len(Part(1)) /\ Stands(view', 1, 1)
           \/ /\ k = Len(Part(i)) /\ i = Shown /\ ~Complete /\ refused' = "6900"
              /\ view'.page = view.page
<1>1. /\ Shown \in Nat /\ \A j \in 1..Shown : Type(j) \in ActionTypes
      /\ Declared # 0 => Shown <= Declared
      /\ Complete \/ Type(Shown + 1) \notin ActionTypes
  BY ShownIs
<1>2. i \in Nat \ {0} /\ Type(i) \in ActionTypes /\ Declared \in Nat
  BY <1>1, OpCountType DEF Declared, ReadOpCount
<1>3. Len(Part(i)) \in Nat /\ \A j \in 1..Shown : 1 \in 1..Len(Part(j))
  <2>1. \A j \in 1..Shown : Len(Part(j)) \in Nat \ {0, 1}
    BY <1>1, PartType
  <2> QED
    BY <2>1
<1>4. view' = NextScreen(raw, view) /\ refused' = ShowNext(view)
  BY DEF Tick
<1>5. CASE k # Len(Part(i))
  <2>1. k + 1 \in 1..Len(Part(i)) /\ On(view, i) /\ Ready(view, i, k + 1)
    BY <1>3, <1>5 DEF Stands
  <2>2. Stands(PrintPage(view), i, k + 1)
    BY <1>2, <2>1, PartPrinted
  <2>3. view.formatter # NULL
    <3>1. Part(i)[k + 1] = Leaf(i, k + 1) /\ Part(i)[k + 1] \in Pages
      BY <1>2, <2>1, PartType
    <3>2. view.formatter \in Formatters
      BY <2>1, <3>1 DEF Ready, Pages
    <3> QED
      BY <3>2 DEF Formatters, NULL
  <2>4. view' = PrintPage(view) /\ refused' = "none"
    BY <1>4, <2>3 DEF NextScreen, ShowNext, ScreenStatus
  <2> QED
    BY <1>5, <2>1, <2>2, <2>4
<1>6. CASE k = Len(Part(i))
  <2> DEFINE n == IF i = Declared THEN 1 ELSE i + 1
  <2>1. Between(view, n) /\ n \in Nat
    BY <1>2, <1>6 DEF Between, Stands, On
  <2>2. IF Type(n) \in ActionTypes
        THEN ScreenStatus(raw, view) = "9000" /\ Stands(view', n, 1)
        ELSE ScreenStatus(raw, view) = "6900"
    BY <1>4, <2>1, ActionFound
  <2>3. CASE i = Declared
    <3>1. i = Shown /\ Complete /\ n = 1 /\ 1 \in 1..Shown
      BY <1>1, <1>2, <2>3 DEF Complete
    <3>2. Stands(view', 1, 1) /\ refused' = "none"
      BY <1>1, <1>4, <2>2, <3>1 DEF ShowNext
    <3> QED
      BY <1>3, <1>6, <3>1, <3>2
  <2>4. CASE i # Declared /\ i # Shown
    <3>1. n = i + 1 /\ i + 1 \in 1..Shown
      BY <1>1, <2>4
    <3>2. Stands(view', i + 1, 1) /\ refused' = "none"
      BY <1>1, <1>4, <2>2, <3>1 DEF ShowNext
    <3> QED
      BY <1>3, <1>6, <2>4, <3>1, <3>2
  <2>5. CASE i # Declared /\ i = Shown
    <3>1. n = Shown + 1 /\ ~Complete
      BY <2>5 DEF Complete
    <3>2. refused' = "6900" /\ view' = ParseTx(raw, view)
      BY <1>1, <1>4, <1>6, <2>2, <3>1 DEF ShowNext, NextScreen, ScreenStatus, Stands
    <3>3. view'.page = view.page
      BY <3>2, ParseTxType
    <3> QED
      BY <1>6, <2>5, <3>1, <3>2, <3>3
  <2> QED
    BY <2>3, <2>4, <2>5
<1> QED
  BY <1>5, <1>6

\* The show is a function of the transaction.
LEMMA SameRaw ==
    ASSUME raw' = raw
    PROVE  /\ Declared' = Declared /\ Shown' = Shown /\ Complete' = Complete
           /\ \A i : Part(i)' = Part(i)
           /\ Show' = Show
           /\ \A i, k : Stands(view, i, k)' <=> Stands(view', i, k)
<1>1. \A i : (CellAt(raw, i))' = CellAt(raw, i)
  OBVIOUS
<1>2. Declared' = Declared
  BY <1>1 DEF Declared
<1>3. Shown' = Shown
  BY <1>2 DEF Shown
<1>4. Complete' = Complete
  BY <1>2, <1>3 DEF Complete
<1>5. \A i, kind, of, at, p : Slide(i, kind, of, at, p)' = Slide(i, kind, of, at, p)
  BY DEF Slide
<1>6. \A i : Introduction(i)' = Introduction(i)
  BY <1>2, <1>5 DEF Introduction
<1>7. \A i : Ballot(i)' = Ballot(i)
  BY <1>5 DEF Ballot
<1>8. \A i : Details(i)' = Details(i)
  BY <1>5, <1>7 DEF Details
<1>9. \A i : Part(i)' = Part(i)
  BY <1>6, <1>8 DEF Part
<1>10. Show' = Show
  BY <1>3, <1>4, <1>6, <1>8 DEF Show
<1>11. \A i, k : Leaf(i, k)' = Leaf(i, k)
  BY <1>2, <1>5 DEF Leaf, Lead, Opening, Type, Field
<1>12. \A i, k : Stands(view, i, k)' <=> Stands(view', i, k)
  BY <1>2, <1>9, <1>11 DEF Stands, On, Ready
<1> QED
  BY <1>2, <1>3, <1>4, <1>9, <1>10, <1>12

\* Every tick keeps the invariant.
LEMMA ReviewInvNext == ReviewInv /\ [Next]_vars /\ TypeOK' => ReviewInv'
<1> SUFFICES ASSUME ReviewInv, [Next]_vars, TypeOK' PROVE ReviewInv'
  OBVIOUS
<1>1. CASE UNCHANGED vars
  <2>1. Declared' = Declared /\ (OnShow => OnShow')
    BY <1>1, SameRaw DEF vars, OnShow
  <2> QED
    BY <1>1, <2>1 DEF vars, ReviewInv
<1>2. CASE Tick
  <2>1. refused = "none" /\ raw' = raw
    BY <1>2 DEF Tick
  <2>2. raw \in Seq(Cells) /\ Len(raw) <= BYTE /\ view \in Views
    BY RawType DEF ReviewInv, TypeOK
  <2>3. Declared <= MAX_OPS /\ OnShow
    BY <2>1 DEF ReviewInv
  <2>4. PICK i \in 1..Shown : \E k \in 1..Len(Part(i)) : Stands(view, i, k)
    BY <2>3 DEF OnShow
  <2>5. PICK k \in 1..Len(Part(i)) : Stands(view, i, k)
    BY <2>4
  <2>6. refused' = "none" =>
          \E n \in 1..Shown : \E m \in 1..Len(Part(n)) : Stands(view', n, m)
    BY <1>2, <2>2, <2>3, <2>5, TickIs
  <2>7. /\ Declared' = Declared
        /\ refused' = "none" => OnShow'
    BY <2>1, <2>6, SameRaw DEF OnShow
  <2> QED
    BY <2>3, <2>7 DEF ReviewInv
<1> QED
  BY <1>1, <1>2 DEF Next, Done

\* The view always stands on a page of the show, ready for the next.
LEMMA ReviewInvariant == Spec => []ReviewInv
<1>1. Init => ReviewInv
  <2> SUFFICES ASSUME Init, refused = "none"
               PROVE  Declared <= MAX_OPS /\ OnShow
    BY FirstScreen DEF ReviewInv
  <2>1. /\ raw \in Seq(Cells) /\ Declared <= MAX_OPS /\ Shown # 0
        /\ Stands(view, 1, 1) /\ 1 \in 1..Len(Part(1))
    BY FirstScreen
  <2>2. 1 \in 1..Shown
    BY <2>1, ShownIs
  <2> QED
    BY <2>1, <2>2 DEF OnShow
<1> QED
  BY <1>1, ReviewInvNext, CarouselTypeCorrect, PTL DEF Spec

(***************************************************************************)
(* Whatever page is up was printed from an action of the transaction, at   *)
(* the place its caption says and by a function of that action             *)
(* (format_confirm_operation, opDetails).                                  *)
(***************************************************************************)
THEOREM PagesStayHonest == Spec => []PagesAreHonest
<1>1. ReviewInv => PagesAreHonest
  <2> SUFFICES ASSUME ReviewInv, refused = "none"
               PROVE  /\ view.page.idx \in 1..(Len(raw) - 1)
                      /\ view.page.op = CellAt(raw, view.page.idx + 1)
                      /\ view.page.by.of \in ActionTypes =>
                           view.page.by.of = view.page.op.type
    BY DEF PagesAreHonest
  <2>1. raw \in Seq(Cells) /\ Declared <= MAX_OPS /\ OnShow
    BY RawType DEF ReviewInv
  <2>2. PICK i \in 1..Shown : \E k \in 1..Len(Part(i)) : Stands(view, i, k)
    BY <2>1 DEF OnShow
  <2>3. PICK k \in 1..Len(Part(i)) : Stands(view, i, k)
    BY <2>2
  <2>4. i \in Nat \ {0} /\ Type(i) \in ActionTypes
    BY <2>1, ShownIs
  <2>5. i + 1 \in 1..Len(raw)
    BY <2>1, <2>4, KnownIsUploaded DEF Type
  <2>6. view.page = Leaf(i, k) /\ view.page.idx = i
    BY <2>1, <2>3, <2>4, PartType DEF Stands
  <2>7. Leaf(i, k).op = CellAt(raw, i + 1)
    BY DEF Leaf, Field, Slide
  <2>8. Leaf(i, k).by.of \in {"confirm", Type(i)}
    BY DEF Leaf, Field, Slide, Formatter
  <2>9. "confirm" \notin ActionTypes
    BY DEF ActionTypes
  <2> QED
    BY <2>4, <2>5, <2>6, <2>7, <2>8, <2>9 DEF Type
<1> QED
  BY <1>1, ReviewInvariant, PTL

(***************************************************************************)
(* One expiry of the interval is one step of the show: never none, unlike  *)
(* what a refinement would allow.                                          *)
(***************************************************************************)
LEMMA TickIsAPage ==
    ASSUME ReviewInv, Tick
    PROVE  /\ S!Next
           /\ Show' = Show /\ At \in 1..Len(Show.pages) /\ Len(Show.pages) \in Nat
<1>1. refused = "none" /\ raw' = raw
  BY DEF Tick
<1>2. raw \in Seq(Cells) /\ Len(raw) <= BYTE /\ view \in Views
  BY RawType DEF ReviewInv, TypeOK
<1>3. Declared <= MAX_OPS /\ OnShow
  BY <1>1 DEF ReviewInv
<1>4. PICK i \in 1..Shown : \E k \in 1..Len(Part(i)) : Stands(view, i, k)
  BY <1>3 DEF OnShow
<1>5. PICK k \in 1..Len(Part(i)) : Stands(view, i, k)
  BY <1>4
<1>6. Shown \in Nat /\ Shown # 0
  BY <1>2, <1>3, ShownIs
<1> DEFINE s == [n \in 1..Shown |-> Part(n)]
<1>7. PICK offset : Spread(Show.pages, offset, s, Shown)
  BY <1>2, <1>3, <1>6, ShowIs
<1>8. /\ \A n \in 1..Shown : offset[n] \in Nat /\ Len(Part(n)) \in Nat
      /\ offset[1] = 0
      /\ \A n \in 1..(Shown - 1) : offset[n + 1] = offset[n] + Len(Part(n))
      /\ Len(Show.pages) = offset[Shown] + Len(Part(Shown))
      /\ \A n \in 1..Shown : \A m \in 1..Len(Part(n)) :
           offset[n] + m \in 1..Len(Show.pages)
  BY <1>2, <1>3, <1>6, <1>7, Layout
<1> HIDE DEF s
<1>9. Show' = Show /\ Shown' = Shown /\ Show.cyclic = Complete /\ Show.cyclic' = Complete
  BY <1>1, SameRaw DEF Show
<1>10. At = offset[i] + k /\ At \in 1..Len(Show.pages)
  <2>1. view.page = Part(i)[k]
    BY <1>5 DEF Stands
  <2> QED
    BY <1>2, <1>3, <1>7, <2>1, AtIs DEF s
<1>11. ASSUME NEW n \in 1..Shown, NEW m \in 1..Len(Part(n)), Stands(view', n, m)
       PROVE  At' = offset[n] + m
  <2> DEFINE q == offset[n] + m
  <2>1. view'.page = Part(n)[m]
    BY <1>11 DEF Stands
  <2>2. q \in 1..Len(Show.pages) /\ Show.pages[q] = view'.page
    BY <1>2, <1>3, <1>6, <1>7, <2>1, SpreadPage DEF s
  <2>3. \A r \in 1..Len(Show.pages) : Show.pages[r] = view'.page => r = q
    BY <1>2, <1>3, <1>7, <2>1, PlaceOfPage DEF s
  <2> HIDE DEF q
  <2>4. At' = CHOOSE r \in 1..Len(Show.pages) : Show.pages[r] = view'.page
    BY <1>6, <1>9 DEF At
  <2>5. At' = q
    BY <2>2, <2>3, <2>4
  <2> QED
    BY <2>5 DEF q
<1>12. ASSUME /\ k # Len(Part(i)) /\ refused' = "none"
              /\ k + 1 \in 1..Len(Part(i)) /\ Stands(view', i, k + 1)
      PROVE  S!Next
  <2>1. At' = offset[i] + (k + 1) /\ offset[i] + (k + 1) \in 1..Len(Show.pages)
    BY <1>8, <1>11, <1>12
  <2>2. At < Len(Show.pages) /\ At' = At + 1
    BY <1>8, <1>10, <2>1
  <2> QED
    BY <1>1, <1>9, <1>12, <2>2 DEF S!Next, S!Advance
<1>13. ASSUME /\ k = Len(Part(i)) /\ i # Shown /\ refused' = "none"
              /\ i + 1 \in 1..Shown /\ 1 \in 1..Len(Part(i + 1))
              /\ Stands(view', i + 1, 1)
      PROVE  S!Next
  <2>1. At' = offset[i + 1] + 1 /\ offset[i + 1] + 1 \in 1..Len(Show.pages)
    BY <1>8, <1>11, <1>13
  <2>2. i \in 1..(Shown - 1)
    BY <1>6, <1>13
  <2>3. offset[i + 1] = At
    BY <1>8, <1>10, <1>13, <2>2
  <2>4. At < Len(Show.pages) /\ At' = At + 1
    BY <1>10, <2>1, <2>3
  <2> QED
    BY <1>1, <1>9, <1>13, <2>4 DEF S!Next, S!Advance
<1>14. ASSUME /\ k = Len(Part(i)) /\ i = Shown /\ Complete /\ refused' = "none"
              /\ 1 \in 1..Shown /\ 1 \in 1..Len(Part(1)) /\ Stands(view', 1, 1)
      PROVE  S!Next
  <2>1. At' = 1 /\ At = Len(Show.pages)
    BY <1>8, <1>10, <1>11, <1>14
  <2> QED
    BY <1>1, <1>9, <1>14, <2>1 DEF S!Next, S!StartOver
<1>15. ASSUME /\ k = Len(Part(i)) /\ i = Shown /\ ~Complete /\ refused' = "6900"
              /\ view'.page = view.page
      PROVE  S!Next
  <2>1. At = Len(Show.pages)
    BY <1>8, <1>10, <1>15
  <2>2. At' = At
    BY <1>9, <1>15 DEF At
  <2> QED
    BY <1>1, <1>9, <1>15, <2>1, <2>2 DEF S!Next, S!Stop
<1>16. Show.pages \in Seq(Pages)
  BY <1>2, <1>3, <1>6, ShowIs
<1>17. S!Next
  BY <1>2, <1>3, <1>5, <1>12, <1>13, <1>14, <1>15, TickIs
<1> QED
  BY <1>9, <1>10, <1>16, <1>17

-----------------------------------------------------------------------------
(***************************************************************************)
(* The review implements the order of Slideshow: every page of every       *)
(* action once, in order, none left out, from the start again only if the  *)
(* whole transaction has been shown, and a refusal otherwise               *)
(* (ui_approve_tx_next_screen, parse_tx and the chains of formatters).     *)
(* That the show goes on is S!Spec's fairness and stays with TLC.          *)
(***************************************************************************)
THEOREM ReviewIsASlideshow == Spec => S!Order
<1>1. Init => S!Init
  <2> SUFFICES ASSUME Init
               PROVE  /\ Show \in [pages : Seq(Pages), cyclic : BOOLEAN]
                      /\ (refused = "none") = (Show.pages # <<>>)
                      /\ At = IF refused = "none" THEN 1 ELSE 0
    BY DEF S!Init
  <2>1. Complete \in BOOLEAN
    BY DEF Complete
  <2>2. CASE refused = "none"
    <3>1. /\ raw \in Seq(Cells) /\ Declared <= MAX_OPS /\ Shown # 0
          /\ Stands(view, 1, 1) /\ 1 \in 1..Len(Part(1))
      BY <2>2, FirstScreen
    <3>2. Show.pages \in Seq(Pages) /\ Show.pages # <<>>
      BY <3>1, ShowIs
    <3>3. PICK offset : Spread(Show.pages, offset, [i \in 1..Shown |-> Part(i)], Shown)
      BY <3>1, ShowIs
    <3>4. 1 \in 1..Shown /\ view.page = Part(1)[1]
      BY <3>1, ShownIs DEF Stands
    <3>5. At = offset[1] + 1
      BY <3>1, <3>3, <3>4, AtIs
    <3>7. offset[1] = 0
      BY <3>3 DEF Spread
    <3>6. Show = [pages |-> Show.pages, cyclic |-> Complete]
      BY DEF Show
    <3> QED
      BY <2>1, <2>2, <3>2, <3>5, <3>6, <3>7
  <2>3. CASE refused # "none"
    <3>1. Shown = 0
      <4>1. Shown = 0 \/ ~(Declared <= MAX_OPS)
        BY <2>3, FirstScreen
      <4>2. ~(Declared <= MAX_OPS) => Declared > MAX_OPS
        BY FirstScreen, OpCountType, MaxOpsAssumption DEF Declared, ReadOpCount
      <4> QED
        BY <4>1, <4>2, FirstScreen
    <3>2. Show.pages = <<>>
      <4> DEFINE s == [i \in 1..Shown |-> Introduction(i) \o Details(i)]
      <4>1. s = <<>> /\ Len(s) = 0
        BY <3>1
      <4>2. Show.pages = FlattenSeq(s)
        BY DEF Show
      <4> HIDE DEF s
      <4> QED
        BY <4>1, <4>2 DEF FlattenSeq
    <3>3. At = 0
      BY <3>1 DEF At
    <3>4. Show = [pages |-> Show.pages, cyclic |-> Complete]
      BY DEF Show
    <3>5. Show.pages \in Seq(Pages)
      BY <3>2
    <3>6. Show \in [pages : Seq(Pages), cyclic : BOOLEAN]
      BY <2>1, <3>4, <3>5
    <3> QED
      BY <2>3, <3>2, <3>3, <3>6
  <2> QED
    BY <2>2, <2>3
<1>2. ReviewInv /\ [Next]_vars => [S!Next]_(S!vars)
  <2> SUFFICES ASSUME ReviewInv, [Next]_vars PROVE [S!Next]_(S!vars)
    OBVIOUS
  <2>1. CASE UNCHANGED vars
    <3>1. raw' = raw /\ view' = view /\ refused' = refused
      BY <2>1 DEF vars
    <3>2. Show' = Show /\ Shown' = Shown
      BY <3>1, SameRaw
    <3>3. At' = At
      BY <3>1, <3>2 DEF At
    <3> QED
      BY <3>1, <3>2, <3>3 DEF S!vars
  <2>2. CASE Tick
    BY <2>2, TickIsAPage
  <2> QED
    BY <2>1, <2>2 DEF Next, Done
<1> QED
  BY <1>1, <1>2, ReviewInvariant, PTL DEF Spec, S!Order

(***************************************************************************)
(* A transaction that cannot be shown entirely loses a page with every     *)
(* expiry of the interval, until it is refused: for every such transaction *)
(* its pages are no more than those of its show, and none of them comes    *)
(* back (parse_tx, next_formatter).                                        *)
(***************************************************************************)
THEOREM NoPageComesBack == Spec => RefusalComesNearer
<1>1. ReviewInv /\ [Next]_vars
        => [~Complete => PagesLeft' \in Nat /\ PagesLeft' < PagesLeft]_vars
  <2> SUFFICES ASSUME ReviewInv, Tick, ~Complete
               PROVE  PagesLeft' \in Nat /\ PagesLeft' < PagesLeft
    BY DEF Next, Done
  <2>1. S!Next /\ Show' = Show /\ At \in 1..Len(Show.pages) /\ Len(Show.pages) \in Nat
    BY TickIsAPage
  <2> DEFINE n == Len(Show.pages)
             left == n - At
  <2>2. /\ PagesLeft = left + (IF refused = "none" THEN 1 ELSE 0)
        /\ PagesLeft' = n - At' + (IF refused' = "none" THEN 1 ELSE 0)
    BY <2>1 DEF PagesLeft
  <2>3. n \in Nat /\ At \in 1..n /\ left \in Nat
    BY <2>1
  <2>4. CASE S!Advance
    <3>1. refused = "none" /\ refused' = "none" /\ At < n /\ At' = At + 1
      BY <2>4 DEF S!Advance
    <3>2. PagesLeft = left + 1 /\ PagesLeft' = n - (At + 1) + 1
      BY <2>2, <3>1
    <3> QED
      BY <2>3, <3>1, <3>2
  <2>5. CASE S!StartOver
    BY <2>5 DEF S!StartOver, Show
  <2>6. CASE S!Stop
    <3>1. refused = "none" /\ refused' # "none" /\ At' = At
      BY <2>6 DEF S!Stop
    <3>2. PagesLeft = left + 1 /\ PagesLeft' = left
      BY <2>2, <2>3, <3>1
    <3> QED
      BY <2>3, <3>2
  <2> QED
    BY <2>1, <2>4, <2>5, <2>6 DEF S!Next
<1> QED
  BY <1>1, ReviewInvariant, PTL DEF Spec, RefusalComesNearer
=============================================================================
