--------------------------- MODULE EosMainProofs ---------------------------
(***************************************************************************)
(* Theorems about EosMain: the loop pairs every command with one answer,   *)
(* whatever lengths the handlers leave in tx.                              *)
(***************************************************************************)
EXTENDS EosMain, TLAPS

-----------------------------------------------------------------------------
(***************************************************************************)
(* The invariant.  What is about to be sent belongs to the command that    *)
(* waits, and tx is 0 whenever an exception may add its word to it.        *)
(***************************************************************************)
\* A handler starts with an empty answer.
Handling ==
    pc = "handle" => media # None /\ command \in Commands /\ tx = 0 /\ ~asynch

\* The owner is asked, or KEEP_ALIVE waits until he has decided.
WaitsForAnswer == (command = "asks" /\ prompt) \/ command = "keep_alive"

\* What io_exchange will send is an answer to the command.
ReadyToSend ==
    pc = "exchange" /\ media # None =>
        /\ command \in Commands
        /\ IF asynch THEN WaitsForAnswer
           ELSE tx > 0 /\ Answer(tx, word) \in AnswersTo(command)

\* A command that still waits inside io_exchange waits for the owner.
WaitsForOwner ==
    pc = "waiting" => tx = 0 /\ (media # None => asynch /\ WaitsForAnswer)

LoopInv == TypeOK /\ Handling /\ ReadyToSend /\ WaitsForOwner

-----------------------------------------------------------------------------
(***************************************************************************)
(* The answers (handle_apdu, u2f_send_keep_alive, io_seproxyhal_respond).  *)
(***************************************************************************)
LEMMA AnswersOfCommands ==
    /\ \A length \in BodySizes : /\ Answer(length + 2, "9000") \in AnswersTo("answers")
                                 /\ Answer(length + 2, "9000") \in AnswersTo("asks")
    /\ AnswersTo("keep_alive") = AnswersTo("asks")
    /\ Answer(2, "6xxx") \in AnswersTo("asks")
    /\ Answer(2, "6xxx") \in AnswersTo("refused")
    /\ Answer(2, "6xxx") \in AnswersTo("asks_in_vain")
    /\ Answer(2, "6xxx") \in AnswersTo("empty")
    /\ Answer(2, "68xx") \in AnswersTo("fails")
BY DEF AnswersTo

LEMMA AnswerTypes ==
    \A length \in Nat, sw \in Words : Answer(length, sw) \in [length : Nat, word : Words]
BY DEF Answer

\* An exception puts its word behind nothing, except behind a body of 9000.
LEMMA CaughtType ==
    ASSUME NEW e \in Exceptions, NEW length \in BodySizes \cup {0}, Catch(e, length)
    PROVE  /\ pc' = "exchange" /\ tx' = length + 2 /\ tx' > 0
           /\ word' \in Words
           /\ tx' \in {0, 2} \cup {size + 2 : size \in BodySizes}
           /\ word' = StatusWord(e)
<1>1. StatusWord(e) \in Words
  BY DEF StatusWord, Words
<1>2. length \in Nat
  BY BodyAssumption
<1> QED
  BY <1>1, <1>2 DEF Catch

LEMMA LoopInit == Init => LoopInv
<1> SUFFICES ASSUME Init
             PROVE  LoopInv
  OBVIOUS
<1>1. TypeOK
  BY AnswerTypes DEF Init, TypeOK, Words, NoAnswer, Answer, None
<1>2. Handling /\ ReadyToSend /\ WaitsForOwner
  BY DEF Init, Handling, ReadyToSend, WaitsForOwner
<1> QED
  BY <1>1, <1>2 DEF LoopInv

(***************************************************************************)
(* Before and after eos_main (main).                                       *)
(***************************************************************************)
LEMMA BootKeepsLoop ==
    ASSUME LoopInv, Boot \/ BootFails \/ PowerCycle
    PROVE  LoopInv'
<1>1. TypeOK'
  <2>1. NoAnswer \in [length : Nat, word : Words]
    BY DEF NoAnswer, Words
  <2>2. TypeOK
    BY DEF LoopInv
  <2>3. CASE Boot
    BY <2>1, <2>2, <2>3 DEF TypeOK, Boot
  <2>4. CASE BootFails
    <3>1. initialized' \in BOOLEAN
      BY <2>2, <2>4, Zenon DEF TypeOK, BootFails
    <3> QED
      BY <2>2, <2>4, <3>1 DEF TypeOK, BootFails
  <2>5. CASE PowerCycle
    BY <2>1, <2>2, <2>5 DEF TypeOK, PowerCycle
  <2> QED
    BY <2>3, <2>4, <2>5
<1>2. Handling' /\ ReadyToSend' /\ WaitsForOwner'
  BY DEF Boot, BootFails, PowerCycle, Handling, ReadyToSend, WaitsForOwner
<1> QED
  BY <1>1, <1>2 DEF LoopInv

(***************************************************************************)
(* One turn of the loop, from one io_exchange to the next (eos_main).      *)
(***************************************************************************)
LEMMA ExchangeKeepsLoop ==
    ASSUME LoopInv, Exchange
    PROVE  LoopInv'
<1>1. TypeOK /\ ReadyToSend
  BY DEF LoopInv
<1>2. tx \in Nat
  <2>1. \A length \in BodySizes : length + 2 \in Nat
    BY BodyAssumption
  <2> QED
    BY <1>1, <2>1 DEF TypeOK
<1>3. TypeOK'
  BY <1>1, <1>2, AnswerTypes DEF TypeOK, Exchange, NoLength
<1>4. Handling' /\ ReadyToSend'
  BY DEF Exchange, Handling, ReadyToSend
<1>5. WaitsForOwner'
  BY <1>1 DEF Exchange, ReadyToSend, WaitsForOwner, WaitsForAnswer, Sends, NoLength
<1> QED
  BY <1>3, <1>4, <1>5 DEF LoopInv

LEMMA ReceiveKeepsLoop ==
    ASSUME LoopInv, NEW m \in Media, NEW c \in Commands, Receive(m, c)
    PROVE  LoopInv'
<1>1. TypeOK /\ WaitsForOwner
  BY DEF LoopInv
<1>2. m # None
  BY MediaAssumption DEF None
<1>3. TypeOK'
  BY <1>1, AnswerTypes DEF TypeOK, Receive, NoFlag, NoAnswer, Words, None
<1>4. Handling'
  BY <1>1, <1>2 DEF Receive, Handling, WaitsForOwner, NoFlag
<1>5. ReadyToSend' /\ WaitsForOwner'
  BY DEF Receive, ReadyToSend, WaitsForOwner
<1> QED
  BY <1>3, <1>4, <1>5 DEF LoopInv

\* A caught exception answers the command that is being handled.
LEMMA CaughtInHandler ==
    ASSUME LoopInv, pc = "handle", NEW e \in Exceptions, NEW length \in BodySizes \cup {0},
           Catch(e, length), Answer(length + 2, StatusWord(e)) \in AnswersTo(command),
           UNCHANGED <<initialized, media, command, asynch, prompt, answer>>
    PROVE  LoopInv'
<1>1. TypeOK /\ Handling
  BY DEF LoopInv
<1>2. /\ pc' = "exchange" /\ tx' = length + 2 /\ tx' > 0 /\ word' = StatusWord(e)
      /\ word' \in Words /\ tx' \in {0, 2} \cup {size + 2 : size \in BodySizes}
  BY CaughtType
<1>3. TypeOK'
  BY <1>1, <1>2 DEF TypeOK
<1>4. ReadyToSend'
  BY <1>1, <1>2 DEF ReadyToSend, Handling, AnswersTo
<1>5. Handling' /\ WaitsForOwner'
  BY <1>2 DEF Handling, WaitsForOwner
<1> QED
  BY <1>3, <1>4, <1>5 DEF LoopInv

LEMMA HandlerKeepsLoop ==
    ASSUME LoopInv, NoApdu \/ HandlerThrows \/ HandlerReturns \/ HandlerRefuses
    PROVE  LoopInv'
<1>1. TypeOK /\ Handling /\ pc = "handle" /\ tx = 0
  BY DEF LoopInv, Handling, NoApdu, HandlerThrows, HandlerReturns, HandlerRefuses
<1>2. /\ StatusWord("9000") = "9000" /\ StatusWord("6xxx") = "6xxx"
      /\ StatusWord("sdk") = "68xx"
      /\ {"9000", "6xxx", "sdk"} \subseteq Exceptions
  BY DEF StatusWord, Exceptions
<1>3. CASE NoApdu
  <2>1. command = "empty" /\ Catch("6xxx", 0)
    BY <1>1, <1>3 DEF NoApdu
  <2>2. UNCHANGED <<initialized, media, command, asynch, prompt, answer>>
    BY <1>3 DEF NoApdu
  <2> QED
    BY <1>1, <1>2, <2>1, <2>2, AnswersOfCommands, CaughtInHandler
<1>4. CASE HandlerThrows
  <2>1. UNCHANGED <<initialized, media, command, asynch, prompt, answer>>
    BY <1>4 DEF HandlerThrows
  <2>2. ASSUME command = "answers", NEW length \in BodySizes, Catch("9000", length)
        PROVE  LoopInv'
    BY <1>1, <1>2, <2>1, <2>2, AnswersOfCommands, CaughtInHandler
  <2>3. CASE command = "refused" /\ Catch("6xxx", 0)
    BY <1>1, <1>2, <2>1, <2>3, AnswersOfCommands, CaughtInHandler
  <2>4. CASE command = "fails" /\ Catch("sdk", 0)
    BY <1>1, <1>2, <2>1, <2>4, AnswersOfCommands, CaughtInHandler
  <2> QED
    BY <1>1, <1>4, <2>2, <2>3, <2>4 DEF HandlerThrows
<1>5. CASE HandlerReturns
  <2>1. TypeOK'
    BY <1>1, <1>5 DEF TypeOK, HandlerReturns
  <2>2. Handling' /\ ReadyToSend' /\ WaitsForOwner'
    BY <1>5 DEF HandlerReturns, Handling, ReadyToSend, WaitsForOwner, WaitsForAnswer, Commands
  <2> QED
    BY <2>1, <2>2 DEF LoopInv
<1>6. CASE HandlerRefuses
  <2>1. TypeOK'
    BY <1>1, <1>6, AnswerTypes DEF TypeOK, HandlerRefuses, Words
  <2>2. Handling' /\ ReadyToSend' /\ WaitsForOwner'
    BY <1>6 DEF HandlerRefuses, Handling, ReadyToSend, WaitsForOwner
  <2> QED
    BY <2>1, <2>2 DEF LoopInv
<1> QED
  BY <1>3, <1>4, <1>5, <1>6

(***************************************************************************)
(* What is thrown through io_exchange comes while the command that waits,  *)
(* if any, waits for the owner: its flag keeps the word from being sent    *)
(* (io_event, eos_main).                                                   *)
(***************************************************************************)
LEMMA EventKeepsLoop ==
    ASSUME LoopInv, Decide \/ DecideFails \/ KeepAlive \/ StatusEvent
    PROVE  LoopInv'
<1>1. TypeOK /\ WaitsForOwner /\ pc = "waiting" /\ tx = 0
  BY DEF LoopInv, WaitsForOwner, Decide, DecideFails, KeepAlive, StatusEvent
<1>2. CASE Decide
  <2>1. answer' \in [length : Nat, word : Words]
    <3>1. \A length \in BodySizes : length + 2 \in Nat
      BY BodyAssumption
    <3> QED
      BY <1>1, <1>2, <3>1, AnswerTypes DEF TypeOK, Decide, Words
  <2>2. TypeOK'
    BY <1>1, <1>2, <2>1 DEF TypeOK, Decide
  <2>3. Handling' /\ ReadyToSend' /\ WaitsForOwner'
    BY <1>1, <1>2 DEF Decide, Handling, ReadyToSend, WaitsForOwner
  <2> QED
    BY <2>2, <2>3 DEF LoopInv
<1>3. CASE KeepAlive
  <2>1. TypeOK'
    BY <1>1, <1>3, AnswerTypes DEF TypeOK, KeepAlive, Words
  <2>2. Handling' /\ ReadyToSend' /\ WaitsForOwner'
    BY <1>1, <1>3 DEF KeepAlive, Handling, ReadyToSend, WaitsForOwner
  <2> QED
    BY <2>1, <2>2 DEF LoopInv
<1>4. ASSUME NEW e \in Exceptions, Catch(e, 0),
             UNCHANGED <<initialized, media, command, asynch, prompt, answer>>
      PROVE  LoopInv'
  <2>1. /\ pc' = "exchange" /\ word' \in Words
        /\ tx' \in {0, 2} \cup {size + 2 : size \in BodySizes}
    BY <1>4, CaughtType
  <2>2. TypeOK'
    BY <1>1, <1>4, <2>1 DEF TypeOK
  <2>3. Handling' /\ ReadyToSend' /\ WaitsForOwner'
    BY <1>1, <1>4, <2>1 DEF Handling, ReadyToSend, WaitsForOwner, WaitsForAnswer, Commands
  <2> QED
    BY <2>2, <2>3 DEF LoopInv
<1>5. CASE DecideFails
  BY <1>1, <1>4, <1>5 DEF DecideFails, Exceptions
<1>6. CASE StatusEvent
  BY <1>1, <1>4, <1>6 DEF StatusEvent, Exceptions
<1> QED
  BY <1>2, <1>3, <1>5, <1>6

LEMMA LoopNext == LoopInv /\ [Next]_vars => LoopInv'
<1> SUFFICES ASSUME LoopInv, [Next]_vars
             PROVE  LoopInv'
  OBVIOUS
<1>1. CASE UNCHANGED vars
  BY <1>1 DEF vars, LoopInv, TypeOK, Handling, ReadyToSend, WaitsForOwner, WaitsForAnswer,
              AnswersTo
<1>2. CASE Next
  BY <1>2, BootKeepsLoop, ExchangeKeepsLoop, ReceiveKeepsLoop, HandlerKeepsLoop,
     EventKeepsLoop DEF Next
<1> QED
  BY <1>1, <1>2

LEMMA LoopInvariant == Spec => []LoopInv
BY LoopInit, LoopNext, PTL DEF Spec

(***************************************************************************)
(* The loops of main.c and the lengths in tx are as TypeOK has them: a     *)
(* word is never put behind the rest of an answer (main.c:176, 177).       *)
(***************************************************************************)
THEOREM LoopTypes == Spec => []TypeOK
<1>1. LoopInv => TypeOK
  BY DEF LoopInv
<1> QED
  BY <1>1, LoopInvariant, PTL

(***************************************************************************)
(* No exception leaves a command behind: whatever is thrown through        *)
(* io_exchange, and however often, a command that waits has its prompt, or *)
(* is a KEEP_ALIVE (main.c:151, 177, eos_ux_common.c:44).                  *)
(***************************************************************************)
THEOREM CommandsCanBeAnswered == Spec => []NoCommandIsLeft
<1>1. LoopInv => NoCommandIsLeft
  BY DEF LoopInv, WaitsForOwner, WaitsForAnswer, NoCommandIsLeft
<1> QED
  BY <1>1, LoopInvariant, PTL

-----------------------------------------------------------------------------
(***************************************************************************)
(* The loop implements Exchange.                                           *)
(***************************************************************************)
HostStep == [Host!Next]_<<IF media = None THEN None ELSE command, answer>>

LEMMA HostNext ==
    ASSUME LoopInv, [Next]_vars
    PROVE  HostStep
<1>1. TypeOK /\ Handling /\ ReadyToSend /\ WaitsForOwner
  BY DEF LoopInv
<1>2. \A c \in Commands : c # None
  BY DEF Commands, None
<1>3. CASE UNCHANGED <<media, command, answer>>
  BY <1>3 DEF HostStep
<1>4. CASE Boot \/ PowerCycle
  <2>1. Host!Forget
    BY <1>4 DEF Boot, PowerCycle, Host!Forget
  <2> QED
    BY <2>1 DEF HostStep, Host!Next
<1>5. ASSUME NEW m \in Media, NEW c \in Commands, Receive(m, c)
      PROVE  HostStep
  <2>1. m # None
    BY MediaAssumption DEF None
  <2>2. Host!Ask(c)
    BY <1>5, <2>1 DEF Receive, Host!Ask
  <2> QED
    BY <2>2 DEF HostStep, Host!Next
<1>6. ASSUME media # None, command \in Commands, media' = None,
             answer' \in AnswersTo(command)
      PROVE  HostStep
  <2>1. Host!Reply
    BY <1>2, <1>6 DEF Host!Reply
  <2> QED
    BY <2>1 DEF HostStep, Host!Next
<1>7. CASE Exchange /\ Sends /\ media # None
  <2>1. media' = None /\ answer' = Answer(tx, word) /\ pc = "exchange" /\ ~asynch
    BY <1>7 DEF Exchange, Sends
  <2>2. command \in Commands /\ answer' \in AnswersTo(command)
    BY <1>1, <1>7, <2>1 DEF ReadyToSend
  <2> QED
    BY <1>6, <1>7, <2>1, <2>2
<1>8. CASE HandlerRefuses
  <2>1. answer' \in AnswersTo(command) /\ media' = None
    BY <1>8, AnswersOfCommands DEF HandlerRefuses
  <2>2. media # None /\ command \in Commands
    BY <1>1, <1>8 DEF HandlerRefuses, Handling
  <2> QED
    BY <1>6, <2>1, <2>2
<1>9. CASE (Decide \/ KeepAlive) /\ media # None
  <2>1. command \in {"asks", "keep_alive"} /\ command \in Commands
    BY <1>1, <1>9 DEF Decide, KeepAlive, WaitsForOwner, WaitsForAnswer, Commands
  <2>2. media' = None
    BY <1>9 DEF Decide, KeepAlive
  <2>3. answer' \in AnswersTo("asks")
    BY <1>9, AnswersOfCommands DEF Decide, KeepAlive
  <2> QED
    BY <1>6, <1>9, <2>1, <2>2, <2>3, AnswersOfCommands
<1>10. CASE (Decide \/ KeepAlive) /\ media = None
  <2>1. UNCHANGED <<media, command, answer>>
    BY <1>10 DEF Decide, KeepAlive, None
  <2> QED
    BY <1>3, <2>1
<1>11. CASE Exchange /\ ~(Sends /\ media # None)
  <2>1. UNCHANGED <<media, command, answer>>
    BY <1>11 DEF Exchange
  <2> QED
    BY <1>3, <2>1
<1>12. CASE BootFails \/ NoApdu \/ HandlerThrows \/ HandlerReturns \/ DecideFails
            \/ StatusEvent \/ UNCHANGED vars
  <2>1. UNCHANGED <<media, command, answer>>
    BY <1>12 DEF BootFails, NoApdu, HandlerThrows, HandlerReturns, DecideFails, StatusEvent, vars
  <2> QED
    BY <1>3, <2>1
<1> QED
  BY <1>4, <1>5, <1>7, <1>8, <1>9, <1>10, <1>11, <1>12 DEF Next

(***************************************************************************)
(* rx, tx and flags give each command one answer, and one of its own, for  *)
(* every length of a body: nothing that is thrown through io_exchange      *)
(* reaches a command it does not belong to (main.c:148-181).               *)
(***************************************************************************)
THEOREM OneAnswerForEach == Spec => OneAnswerEach
<1>1. Init => Host!Init
  BY DEF Init, Host!Init
<1>2. LoopInv /\ [Next]_vars => HostStep
  BY HostNext
<1> QED
  BY <1>1, <1>2, LoopInvariant, PTL DEF Spec, OneAnswerEach, Host!Spec, HostStep, Host!vars
=============================================================================
