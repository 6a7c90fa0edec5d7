------------------------------ MODULE Approval ------------------------------
(***************************************************************************)
(* What the device promises its owner: a signature, and an address that is *)
(* to be confirmed, leave it only by a decision, and they are those of the *)
(* subject that the prompt has shown since it came up.  The host waits, is *)
(* answered, and may be told to ask again; the prompt stays.  EosApp       *)
(* implements this.                                                        *)
(***************************************************************************)
CONSTANTS
    Signatures,    \* the subjects: what a prompt is about, and what is sent
    Addresses,     \* of them; an address may also be asked for without a prompt
    NoSubject,
    Answer(_, _),  \* a status word and a subject
    NoAnswer,      \* no answer since the last command
    Refusals       \* the status words of what is not granted

VARIABLES
    subject,  \* what the prompt on the display is about
    waits,    \* a command waits for its answer
    answer    \* the last answer to the host

vars == <<subject, waits, answer>>

Refused == {Answer(sw, NoSubject) : sw \in Refusals}

Init == subject = NoSubject /\ waits = FALSE /\ answer = NoAnswer

\* A command that asks for a decision puts the prompt up.
Ask ==
    /\ ~waits /\ subject = NoSubject
    /\ subject' \in Signatures \cup Addresses
    /\ waits' = TRUE
    /\ answer' = NoAnswer

\* A command that does not: no signature without a prompt.
AnswerAtOnce ==
    /\ ~waits /\ subject = NoSubject
    /\ answer' \in Refused \cup {Answer("9000", s) : s \in Addresses \cup {NoSubject}}
    /\ UNCHANGED <<subject, waits>>

\* KEEP_ALIVE
Wait ==
    /\ ~waits
    /\ waits' = TRUE
    /\ answer' = NoAnswer
    /\ UNCHANGED subject

\* The host must ask again, and the prompt stays.
Busy ==
    /\ waits
    /\ waits' = FALSE
    /\ answer' \in Refused
    /\ UNCHANGED subject

\* The owner agrees.  Between two KEEP_ALIVE commands the answer is lost.
Approve ==
    /\ subject # NoSubject
    /\ subject' = NoSubject
    /\ waits' = FALSE
    /\ answer' = IF waits THEN Answer("9000", subject) ELSE answer

\* The owner does not agree, or the subject turns out not to be readable.
Refuse ==
    /\ subject # NoSubject
    /\ subject' = NoSubject
    /\ waits' = FALSE
    /\ answer' \in IF waits THEN Refused ELSE {answer}

Restart == subject' = NoSubject /\ waits' = FALSE /\ answer' = NoAnswer

Next == Ask \/ AnswerAtOnce \/ Wait \/ Busy \/ Approve \/ Refuse \/ Restart

Spec == Init /\ [][Next]_vars
=============================================================================
