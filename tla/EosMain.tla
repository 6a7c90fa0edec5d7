------------------------------ MODULE EosMain ------------------------------
(***************************************************************************)
(* main.c as its control flow: the loop of main, the loop of eos_main with *)
(* rx, tx and flags, the two nested TRY blocks that turn every exception   *)
(* into a status word, and io_event, which runs inside io_exchange and may *)
(* throw through it.  What a handler does is in EosApp; here it is what it *)
(* leaves in tx and flags, and what it throws.                             *)
(***************************************************************************)
EXTENDS Naturals, Sequences

CONSTANTS
    Media,      \* the transports, of {"usb", "u2f"}
    BodySizes   \* the lengths that a handler may leave in tx

ASSUME MediaAssumption == Media \subseteq {"usb", "u2f"}
ASSUME BodyAssumption == BodySizes \subseteq Nat

VARIABLES
    pc,          \* where main and eos_main stand
    initialized, \* N_eos_pstate->initialized, in NVRAM
    media,       \* G_io_apdu_media: none, or that of the command that waits
    command,     \* (history) that command, by what it will do
    asynch,      \* flags has IO_ASYNCH_REPLY
    tx,          \* the length of the answer
    word,        \* the status word at the end of G_io_apdu_buffer[0..tx-1]
    prompt,      \* a prompt is on the display
    answer       \* (history) the last answer: its length and its word

vars == <<pc, initialized, media, command, asynch, tx, word, prompt, answer>>

\* The commands, by what their handlers do: answer at once, ask the owner,
\* be refused while they ask (parse_tx throws), wait for the prompt of an
\* earlier command, be refused, or fail inside the SDK.
Commands ==
    {"answers", "asks", "asks_in_vain", "keep_alive", "refused", "fails", "empty"}

\* EXCEPTION_IO_RESET and the other exceptions of the SDK are below 0x1000.
Exceptions == {"9000", "6xxx", "io_reset", "sdk"}

None == "none"
NoAnswer == [length |-> 0, word |-> None]
Answer(length, sw) == [length |-> length, word |-> sw]

\* Fault: what is no status word is reported as a success.
AlwaysWell(e) == IF e = "6xxx" THEN e ELSE "9000"

\* switch (e & 0xF000), the same in handle_apdu and in eos_main
StatusWord(e) == IF e \in {"9000", "6xxx"} THEN e ELSE "68xx"

Init ==
    /\ pc = "boot" /\ initialized \in BOOLEAN
    /\ media = None /\ command = None
    /\ asynch = FALSE /\ tx = 0 /\ word = None
    /\ prompt = FALSE /\ answer = NoAnswer

-----------------------------------------------------------------------------
(***************************************************************************)
(* main.                                                                   *)
(***************************************************************************)
\* eos_nv_state_init writes the flag once in the life of the device; ui_idle
\* and eos_main follow.
Boot ==
    /\ pc = "boot"
    /\ initialized' = TRUE
    /\ pc' = "exchange"
    /\ media' = None /\ command' = None /\ answer' = NoAnswer
    /\ asynch' = FALSE /\ tx' = 0 /\ prompt' = FALSE
    /\ UNCHANGED word

\* An exception before eos_main: a reset starts over, any other one exits.
BootFails ==
    /\ pc = "boot"
    /\ \E e \in {"io_reset", "sdk"} : pc' = IF e = "io_reset" THEN "boot" ELSE "exit"
    /\ initialized' \in {initialized, TRUE}
    /\ UNCHANGED <<media, command, asynch, tx, word, prompt, answer>>

\* The device loses its power, and starts again.
PowerCycle ==
    /\ pc' = "boot"
    /\ media' = None /\ command' = None /\ answer' = NoAnswer
    /\ UNCHANGED <<initialized, asynch, tx, word, prompt>>

-----------------------------------------------------------------------------
(***************************************************************************)
(* eos_main.                                                               *)
(***************************************************************************)
\* io_exchange(CHANNEL_APDU | flags, rx) sends what the last turn of the loop
\* left, unless IO_ASYNCH_REPLY says that the answer is sent elsewhere.  What
\* the SDK does when no command waits is outside the repository: it is lost.
Sends == tx > 0 /\ ~asynch

\* Fault: tx keeps the length of the answer that was sent.
KeptLength == tx

\* tx = 0;
NoLength == 0

Exchange ==
    /\ pc = "exchange"
    /\ pc' = "waiting"
    /\ tx' = NoLength
    /\ IF Sends /\ media # None THEN media' = None /\ answer' = Answer(tx, word)
       ELSE UNCHANGED <<media, answer>>
    /\ UNCHANGED <<initialized, command, asynch, word, prompt>>

\* Fault: the flag of the last command is kept.
KeptFlag == asynch

\* flags = 0;
NoFlag == FALSE

\* io_exchange returns with a command.
Receive(m, c) ==
    /\ pc = "waiting" /\ media = None
    /\ media' = m /\ command' = c /\ answer' = NoAnswer
    /\ asynch' = NoFlag
    /\ pc' = "handle"
    /\ UNCHANGED <<initialized, tx, word, prompt>>

\* The CATCH_OTHER of eos_main and the one of handle_apdu: the word goes
\* behind what tx says is there.
Catch(e, length) ==
    /\ word' = StatusWord(e)
    /\ tx' = length + 2
    /\ pc' = "exchange"

\* "no apdu received": no handler runs.
NoApdu ==
    /\ pc = "handle" /\ command = "empty"
    /\ Catch("6xxx", tx)
    /\ UNCHANGED <<initialized, media, command, asynch, prompt, answer>>

\* *tx is set just before 0x9000 is thrown.
HandlerThrows ==
    /\ pc = "handle"
    /\ \/ /\ command = "answers"
          /\ \E length \in BodySizes : Catch("9000", length)
       \/ command = "refused" /\ Catch("6xxx", tx)
       \/ command = "fails" /\ Catch("sdk", tx)
    /\ UNCHANGED <<initialized, media, command, asynch, prompt, answer>>

\* *flags |= IO_ASYNCH_REPLY, behind a prompt.  KEEP_ALIVE puts none up: it
\* waits for the one that is there, if it still is.
HandlerReturns ==
    /\ pc = "handle" /\ command \in {"asks", "keep_alive"}
    /\ prompt' = (prompt \/ command = "asks")
    /\ asynch' = TRUE
    /\ pc' = "exchange"
    /\ UNCHANGED <<initialized, media, command, tx, word, answer>>

\* next_formatter has answered when the handler returns.
HandlerRefuses ==
    /\ pc = "handle" /\ command = "asks_in_vain"
    /\ answer' = Answer(2, "6xxx")
    /\ media' = None
    /\ prompt' = FALSE
    /\ asynch' = TRUE
    /\ pc' = "exchange"
    /\ UNCHANGED <<initialized, command, tx, word>>

-----------------------------------------------------------------------------
(***************************************************************************)
(* io_event, inside the io_exchange that waits for a command.              *)
(***************************************************************************)
\* io_seproxyhal_respond: its tx is a variable of its own.
Decide ==
    /\ pc = "waiting" /\ prompt
    /\ prompt' = FALSE
    /\ IF media = None THEN UNCHANGED answer
       ELSE \E a \in {Answer(length + 2, "9000") : length \in BodySizes}
                     \cup {Answer(2, "6xxx")} : answer' = a
    /\ media' = None
    /\ UNCHANGED <<pc, initialized, command, asynch, tx, word>>

\* Fault: ui_idle comes before the signature.
IdleFirst ==
    /\ pc = "waiting" /\ prompt
    /\ prompt' = FALSE
    /\ Catch("sdk", tx)
    /\ UNCHANGED <<initialized, media, command, asynch, answer>>

\* set_result_sign_tx throws: the SDK derives no key for a path outside of
\* what the Makefile asks for, and read_bip32 takes any.  The prompt stays.
DecideFails ==
    /\ pc = "waiting" /\ prompt
    /\ Catch("sdk", tx)
    /\ UNCHANGED <<initialized, media, command, asynch, prompt, answer>>

\* u2f_send_keep_alive: "6e02"
KeepAlive ==
    /\ pc = "waiting" /\ media = "u2f"
    /\ answer' = Answer(2, "6xxx")
    /\ media' = None
    /\ UNCHANGED <<pc, initialized, command, asynch, tx, word, prompt>>

\* A status event without USB power while a USB command waits: THROW goes
\* through io_exchange to the CATCH_OTHER of eos_main, past "flags = 0".
StatusEvent ==
    /\ pc = "waiting" /\ media = "usb"
    /\ Catch("io_reset", tx)
    /\ UNCHANGED <<initialized, media, command, asynch, prompt, answer>>

Next ==
    \/ Boot \/ BootFails \/ PowerCycle
    \/ Exchange
    \/ \E m \in Media, c \in Commands : Receive(m, c)
    \/ NoApdu \/ HandlerThrows \/ HandlerReturns \/ HandlerRefuses
    \/ Decide \/ DecideFails \/ KeepAlive \/ StatusEvent

Spec == Init /\ [][Next]_vars

-----------------------------------------------------------------------------
(***************************************************************************)
(* Properties.                                                             *)
(***************************************************************************)
\* The loops, and every value at its width: an answer is a body and a word.
Words == {"9000", "6xxx", "68xx", None}

TypeOK ==
    /\ pc \in {"boot", "exchange", "waiting", "handle", "exit"}
    /\ initialized \in BOOLEAN /\ asynch \in BOOLEAN /\ prompt \in BOOLEAN
    /\ media \in Media \cup {None} /\ command \in Commands \cup {None}
    /\ tx \in {0, 2} \cup {length + 2 : length \in BodySizes} /\ word \in Words
    /\ answer \in [length : Nat, word : Words]

\* What a command may be answered: its own word, with a body only after
\* success, and never the word of an exception that was not its own.
AnswersTo(c) ==
    LET done == {Answer(length + 2, "9000") : length \in BodySizes}
        refused == {Answer(2, "6xxx")}
    IN  CASE c = "answers" -> done
          [] c \in {"asks", "keep_alive"} -> done \cup refused
          [] c = "fails" -> {Answer(2, "68xx")}
          [] OTHER -> refused

Host == INSTANCE Exchange
    WITH waiting <- IF media = None THEN None ELSE command

\* rx, tx and flags pair every command with one answer, and with its own,
\* whatever is thrown through io_exchange while it waits (main.c:148-181).
OneAnswerEach == Host!Spec

(***************************************************************************)
(* A command that waits inside io_exchange is not left there by an         *)
(* exception: the word of one that is thrown through io_exchange is lost,  *)
(* because flags keeps IO_ASYNCH_REPLY, and then the prompt must be up     *)
(* still, for the owner to decide again (main.c:151, 177, 220;             *)
(* eos_ux_common.c:44).  KEEP_ALIVE has no prompt of its own: without one, *)
(* only the timer of U2F answers it (main.c:87, 236).                      *)
(***************************************************************************)
NoCommandIsLeft ==
    pc = "waiting" /\ media # None => prompt \/ command = "keep_alive"
=============================================================================
