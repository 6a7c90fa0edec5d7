----------------------------- MODULE Slideshow -----------------------------
(***************************************************************************)
(* What the owner of the device is promised while a transaction waits for  *)
(* approval: its pages go by one at a time, in order, none left out.  The  *)
(* show of a transaction the application understands starts over after the *)
(* last page; any other show stops there and never resumes.                *)
(***************************************************************************)
EXTENDS Naturals, Sequences

CONSTANT Images      \* what a page can show

VARIABLES
    show,            \* the show that is on
    at,              \* the page that is up, 0 when there is none
    on               \* FALSE once the show has stopped

vars == <<show, at, on>>

Init ==
    /\ show \in [pages : Seq(Images), cyclic : BOOLEAN]
    /\ on = (show.pages # <<>>)
    /\ at = IF on THEN 1 ELSE 0

Advance ==
    /\ on
    /\ at < Len(show.pages)
    /\ at' = at + 1
    /\ UNCHANGED <<show, on>>

StartOver ==
    /\ on
    /\ at = Len(show.pages)
    /\ show.cyclic
    /\ at' = 1
    /\ UNCHANGED <<show, on>>

Stop ==
    /\ on
    /\ at = Len(show.pages)
    /\ ~show.cyclic
    /\ on' = FALSE
    /\ UNCHANGED <<show, at>>

Next == Advance \/ StartOver \/ Stop

\* One page at a time, in order, and after the last one as the show says.
Order == Init /\ [][Next]_vars

\* And it goes on.
Spec == Order /\ WF_vars(Next)
=============================================================================
