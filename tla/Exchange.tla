------------------------------ MODULE Exchange ------------------------------
(***************************************************************************)
(* What the host may rely on: a command is taken when none waits, and gets *)
(* one answer, one that such a command can have.  EosMain implements this. *)
(***************************************************************************)
CONSTANTS
    Commands,
    AnswersTo(_),  \* the answers that a command can have
    None,          \* no command
    NoAnswer       \* no answer yet

VARIABLES
    waiting,  \* the command that waits for its answer
    answer    \* the last answer

vars == <<waiting, answer>>

Init == waiting = None /\ answer = NoAnswer

Ask(command) ==
    /\ waiting = None
    /\ waiting' = command
    /\ answer' = NoAnswer

Reply ==
    /\ waiting # None
    /\ answer' \in AnswersTo(waiting)
    /\ waiting' = None

\* The device loses its power, or starts again.
Forget == waiting' = None /\ answer' = NoAnswer

Next == (\E command \in Commands : Ask(command)) \/ Reply \/ Forget

Spec == Init /\ [][Next]_vars
=============================================================================
