----------------------------- MODULE MCCarousel -----------------------------
(***************************************************************************)
(* A small instance of EosCarousel: under every declared count of Counts,  *)
(* every transaction of at most two actions of Actions, which has one      *)
(* action of each type, votes for nobody, for three producers and for a    *)
(* proxy, and an unknown name; and every transaction of three of Few.      *)
(***************************************************************************)
EXTENDS EosCarousel

CONSTANT Counts

Action(type, data) == [ZeroCell EXCEPT !.type = type, !.data = data]

Vote(proxy, producers) ==
    [ZeroCell EXCEPT !.type = "voteproducer", !.proxy = proxy,
                     !.producers = producers]

Actions ==
    {Action(type, 1) : type \in ActionTypes \ {"voteproducer"}}
    \cup {Action("transfer", 2), Action("unknown", 1),
          Vote(TRUE, 0), Vote(FALSE, 0), Vote(FALSE, 3)}

Few == {Action("transfer", 2), Vote(FALSE, 2), Action("unknown", 1)}

Header(count) == [ZeroCell EXCEPT !.count = count]

MCTransactions ==
    {<<Header(count)>> \o actions :
        count \in Counts,
        actions \in UNION {[1..n -> Actions] : n \in 0..2} \cup [1..3 -> Few]}
=============================================================================
