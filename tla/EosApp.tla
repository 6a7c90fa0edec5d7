------------------------------- MODULE EosApp -------------------------------
(***************************************************************************)
(* The EOS application of the Ledger Nano S as its host and its owner see  *)
(* it: main.c (the command dispatcher and the event handler), eos.c (the   *)
(* command handlers), eos_ux_common.c (the answers to a decision) and      *)
(* eos_ux_nanos.c (menus and prompts), over the parser and the formatters  *)
(* of EosFormat.                                                           *)
(*                                                                         *)
(* The device runs one thread.  A command handler and an event handler are *)
(* each one action; what interleaves is their order, because events are    *)
(* served inside io_exchange while the application waits for a command or  *)
(* for the owner's decision on the current one.                            *)
(***************************************************************************)
EXTENDS EosFormat, Integers

CONSTANTS
    Paths,                \* the BIP 32 paths that the host uses
    NoPath,               \* no path: bip32Len is 0
    NoAddress,            \* pk.address when it has been cleared
    HostHashes,           \* the digests that the host submits for signing
    ZeroHash,             \* the hash field after MEMCLEAR
    Chunks,               \* the transaction data of one SIGN_TX command
    MAX_RAW_TX,           \* the size of the raw buffer, in cells
    RawLengthBound,       \* bound of the model: rawLength is a uint32_t
    U2F_REQUEST_TIMEOUT,  \* Makefile:59
    TICK,                 \* what one ticker event takes off u2fTimer
    UINT16,               \* number of values of a uint16_t
    MEDIA,                \* the transports in use, of {"usb", "u2f"}
    HostPolls,            \* the host answers "6e02" with KEEP_ALIVE and
                          \* sends KEEP_ALIVE at no other time
    HostUploads,          \* the host continues only an upload in progress
    IntervalSurvives      \* displaying a menu leaves the interval armed

ASSUME PathsAssumption == NoPath \notin Paths /\ NoAddress \notin Paths \cup {NoPath}
ASSUME HashesAssumption == ZeroHash \notin HostHashes
ASSUME ChunksAssumption ==
    /\ Chunks \subseteq Seq(Cells)
    /\ \A chunk \in Chunks : Len(chunk) <= MAX_RAW_TX
\* An action takes 18 bytes at least, so the 1540 of the buffer hold fewer than 256.
ASSUME RawAssumption ==
    MAX_RAW_TX \in 1..BYTE /\ RawLengthBound \in Nat
ASSUME TimerAssumption ==
    /\ UINT16 \in Nat \ {0} /\ TICK \in Nat \ {0}
    /\ U2F_REQUEST_TIMEOUT \in 1..(UINT16 - 1)
ASSUME MediaAssumption == MEDIA \subseteq {"usb", "u2f"}
ASSUME ModeAssumption == {HostPolls, HostUploads, IntervalSurvives} \subseteq BOOLEAN

VARIABLES
    link,         \* the transport: the command that waits and the last answer
    job,          \* (history) what the host asked for last
    screen,       \* what is on the display
    armed,        \* the UX interval is running
    reqType,      \* ctx.reqType
    hashSigning,  \* ctx.hashSigning
    u2fTimer,     \* ctx.u2fTimer
    tx,           \* ctx.req: the union of the two request contexts
    view          \* the review: see EosFormat

vars == <<link, job, screen, armed, reqType, hashSigning, u2fTimer, tx, view>>

Menus == {"menu_main", "menu_settings", "menu_settings_hash_signing", "menu_about"}
Prompts == {"address", "approve_tx", "approve_hash"}

-----------------------------------------------------------------------------
(***************************************************************************)
(* The request.  ctx.req is a union: pk.address lies over tx.bip32Len,     *)
(* tx.bip32 and the first bytes of tx.raw.  "head" is the bytes before     *)
(* raw, as the last writer left them, and "overlay" the path of the        *)
(* address that was written last over the first bytes of raw, NoAddress    *)
(* when they were only cleared for one, NoPath when they are raw's own.    *)
(***************************************************************************)
Overlays == Paths \cup {NoPath, NoAddress}

Heads == [by : {"zero", "path", "address"}, path : Paths \cup {NoPath}]
ZeroHead == [by |-> "zero", path |-> NoPath]
PathHead(path) == [by |-> "path", path |-> path]
AddressHead(path) == [by |-> "address", path |-> path]

\* SHA-256 is injective here: a digest is what was hashed.
Digests == [data : Seq(Cells), length : Nat, overlay : Overlays]
Hashes == Digests \cup HostHashes \cup {ZeroHash}

\* cx_hash_sha256(ctx.req.tx.raw, ctx.req.tx.rawLength, ...)
Sha256(t) == [data |-> t.raw, length |-> t.rawLength, overlay |-> t.overlay]

Requests == [head : Heads, raw : Seq(Cells), rawLength : Nat,
             overlay : Overlays, hash : Hashes]

\* MEMCLEAR(ctx.req.tx), and os_memset of the whole context at start.
ZeroRequest == [head |-> ZeroHead, raw |-> <<>>, rawLength |-> 0,
                overlay |-> NoPath, hash |-> ZeroHash]

\* Bytes that are written at a position of raw; the rest of the buffer holds
\* zeros or what an earlier write left.
Write(raw, position, chunk) ==
    [i \in 1..(position + Len(chunk)) |->
        IF i <= position THEN CellAt(raw, i) ELSE chunk[i - position]]

\* P1_FIRST
FirstChunk(path, chunk) ==
    [ZeroRequest EXCEPT !.head = PathHead(path), !.raw = chunk,
                        !.rawLength = Len(chunk)]

\* P1_MORE
MoreChunk(chunk) ==
    [tx EXCEPT !.raw = Write(@, tx.rawLength, chunk),
               !.rawLength = @ + Len(chunk),
               !.overlay = IF tx.rawLength = 0 /\ chunk # <<>> THEN NoPath ELSE @]

\* os_memset and eos_hash_and_encode_base58 on ctx.req.pk.address
WithAddress(path) ==
    [tx EXCEPT !.head = AddressHead(path), !.overlay = path]

-----------------------------------------------------------------------------
(***************************************************************************)
(* The transport.  The SDK takes no command while one waits for its        *)
(* answer, and forgets the medium once it has sent one.  What the SDK does *)
(* with an answer that no command waits for is outside the repository:     *)
(* here it is lost, and recorded in "stray".                               *)
(***************************************************************************)
NoBody == [kind |-> "none", head |-> ZeroHead, hash |-> ZeroHash]
AddressBody(head) == [kind |-> "address", head |-> head, hash |-> ZeroHash]
SignatureBody(t) == [kind |-> "signature", head |-> t.head, hash |-> t.hash]

Bodies == [kind : {"none", "address", "signature"}, head : Heads, hash : Hashes]

\* The status words of the two CATCH_OTHER blocks that follow a refused command.
HandlerErrors == {"6e00", "6982", "6d00", "6b00", "6a80", "6700", "6c66"}
StatusWords == HandlerErrors \cup {"none", "9000", "6985", "6e02", "6e10", "6900", "68xx"}

Answers == [sw : StatusWords, body : Bodies]
Answer(sw, body) == [sw |-> sw, body |-> body]
NoAnswer == Answer("none", NoBody)

Links == [media : MEDIA \cup {"none"}, reply : Answers, stray : BOOLEAN]

\* io_exchange(CHANNEL_APDU | IO_RETURN_AFTER_TX, ...)
Respond(l, sw, body) ==
    IF l.media = "none" THEN [l EXCEPT !.stray = TRUE]
    ELSE [l EXCEPT !.media = "none", !.reply = Answer(sw, body)]

\* A command has arrived.
Received(m) == [link EXCEPT !.media = m, !.reply = NoAnswer]

\* The transport is free, and the host keeps to its discipline, if any.
CanSend(m, ins) ==
    /\ m \in MEDIA
    /\ link.media = "none"
    /\ HostPolls => (ins = "KEEP_ALIVE") = (link.reply.sw = "6e02")

Jobs == [kind : {"none", "other", "address", "upload", "sign", "hash", "keep_alive"},
         path : Paths \cup {NoPath}, data : Seq(Cells), hash : HostHashes \cup {ZeroHash}]

Job(kind, path, data, hash) ==
    [kind |-> kind, path |-> path, data |-> data, hash |-> hash]
NoJob == Job("none", NoPath, <<>>, ZeroHash)
OtherJob == Job("other", NoPath, <<>>, ZeroHash)

-----------------------------------------------------------------------------
(***************************************************************************)
(* The display.  Every prompt arms the interval when it is drawn; menus do *)
(* not use it.                                                             *)
(***************************************************************************)
ShowPrompt(prompt) == screen' = prompt /\ armed' = TRUE

ShowMenu(menu) == screen' = menu /\ armed' = (armed /\ IntervalSurvives)

\* ui_idle
ui_idle == ShowMenu("menu_main")

Init ==
    /\ link = [media |-> "none", reply |-> NoAnswer, stray |-> FALSE]
    /\ job = NoJob
    /\ screen = "menu_main" /\ armed = FALSE
    /\ reqType = "CONFIRM_ADDRESS" /\ hashSigning = FALSE /\ u2fTimer = 0
    /\ tx = ZeroRequest /\ view = InitView

\* "Quit app", or the device loses power: eos_main wipes the context.
Restart ==
    /\ link' = [media |-> "none", reply |-> NoAnswer, stray |-> FALSE]
    /\ job' = NoJob
    /\ screen' = "menu_main" /\ armed' = FALSE
    /\ reqType' = "CONFIRM_ADDRESS" /\ hashSigning' = FALSE /\ u2fTimer' = 0
    /\ tx' = ZeroRequest /\ view' = InitView

TypeOK ==
    /\ link \in Links /\ job \in Jobs
    /\ screen \in Menus \cup Prompts /\ armed \in BOOLEAN
    /\ reqType \in {"CONFIRM_ADDRESS", "CONFIRM_TRANSACTION"}
    /\ hashSigning \in BOOLEAN /\ u2fTimer \in 0..(UINT16 - 1)
    /\ tx \in Requests /\ view \in Views

-----------------------------------------------------------------------------
(***************************************************************************)
(* Commands.  handle_apdu sets the keep-alive timer for every command of   *)
(* the right class, calls the handler, and answers with the status word    *)
(* that the handler throws; a handler that returns leaves the answer to    *)
(* the owner (IO_ASYNCH_REPLY).                                            *)
(***************************************************************************)
\* Fault: only a command that waits for the owner sets the timer.
TimerKept == u2fTimer

TimerSet == U2F_REQUEST_TIMEOUT

AnswerAtOnce(m, sw, body) ==
    /\ link' = Respond(Received(m), sw, body)
    /\ u2fTimer' = TimerSet
    /\ UNCHANGED <<screen, armed>>

\* Fault: the handler does not ask for an asynchronous answer.
AnsweredEarly(m) == Respond(Received(m), "9000", NoBody)

\* *flags |= IO_ASYNCH_REPLY
Waiting(m) == Received(m)

AnswerLater(m) ==
    /\ link' = Waiting(m)
    /\ u2fTimer' = TimerSet

\* An empty command (main.c:156) or one of another class never reaches a
\* handler.
NoCommand(m) ==
    /\ CanSend(m, "NONE")
    /\ \E sw \in {"6982", "6e00"} : link' = Respond(Received(m), sw, NoBody)
    /\ job' = OtherJob
    /\ UNCHANGED <<screen, armed, reqType, hashSigning, u2fTimer, tx, view>>

\* An unknown instruction, or p1 and p2 that the handler does not take.
BadCommand(m) ==
    /\ CanSend(m, "NONE")
    /\ \E sw \in {"6d00", "6b00"} : AnswerAtOnce(m, sw, NoBody)
    /\ job' = OtherJob
    /\ UNCHANGED <<reqType, hashSigning, tx, view>>

GetAppConfiguration(m) ==
    /\ CanSend(m, "GET_APP_CONFIGURATION")
    /\ AnswerAtOnce(m, "9000", NoBody)
    /\ job' = OtherJob
    /\ UNCHANGED <<reqType, hashSigning, tx, view>>

\* read_bip32 throws before anything is written.
GetPublicKeyBadPath(m) ==
    /\ CanSend(m, "GET_PUBLIC_KEY")
    /\ AnswerAtOnce(m, "6a80", NoBody)
    /\ job' = OtherJob
    /\ UNCHANGED <<reqType, hashSigning, tx, view>>

\* The SDK derives no key for a path outside of what the Makefile asks for:
\* the address has been cleared when os_perso_derive_node_bip32 throws.
GetPublicKeyFails(m) ==
    /\ CanSend(m, "GET_PUBLIC_KEY")
    /\ tx' = [tx EXCEPT !.head = ZeroHead, !.overlay = NoAddress]
    /\ AnswerAtOnce(m, "68xx", NoBody)
    /\ job' = OtherJob
    /\ UNCHANGED <<reqType, hashSigning, view>>

\* P2_NO_CONFIRM: the address is answered from the union, the request type
\* stays.
GetPublicKey(m, path) ==
    /\ CanSend(m, "GET_PUBLIC_KEY")
    /\ tx' = WithAddress(path)
    /\ AnswerAtOnce(m, "9000", AddressBody(WithAddress(path).head))
    /\ job' = Job("address", path, <<>>, ZeroHash)
    /\ UNCHANGED <<reqType, hashSigning, view>>

\* P2_CONFIRM
ConfirmPublicKey(m, path) ==
    /\ CanSend(m, "GET_PUBLIC_KEY")
    /\ tx' = WithAddress(path)
    /\ reqType' = "CONFIRM_ADDRESS"
    /\ ShowPrompt("address")
    /\ AnswerLater(m)
    /\ job' = Job("address", path, <<>>, ZeroHash)
    /\ UNCHANGED <<hashSigning, view>>

\* P2_MORE: t is the request with this chunk in it.
AcceptChunk(m, t, v, upload) ==
    /\ tx' = t
    /\ view' = v
    /\ job' = upload
    /\ AnswerAtOnce(m, "9000", NoBody)

\* Fault: the review resumes where the last one stopped.
Resumed(v) == v

\* ui_approve_tx_init
Rewound(v) == [v EXCEPT !.offset = 0, !.formatter = NULL]

\* Fault: the digest is the one of an earlier request.
Unhashed(t) == t

\* Fault: the digest is taken before the last chunk is copied.
HashedTooEarly(t) == [t EXCEPT !.hash = Sha256(tx)]

Hashed(t) == [t EXCEPT !.hash = Sha256(t)]

\* P2_LAST: hash, and show the first page.  When parse_tx throws,
\* next_formatter has answered before the handler sets IO_ASYNCH_REPLY.
AskApproval(m, t, v, request) ==
    LET sw == ScreenStatus(t.raw, Rewound(v))
    IN  /\ tx' = Hashed(t)
        /\ view' = NextScreen(t.raw, Rewound(v))
        /\ job' = request
        /\ u2fTimer' = TimerSet
        /\ \/ /\ sw = "9000"
              /\ link' = Waiting(m)
              /\ ShowPrompt("approve_tx")
           \/ /\ sw # "9000"
              /\ link' = Respond(Received(m), sw, NoBody)
              /\ ui_idle

\* The context is cleared and retyped before the path is read.
SignTxBadPath(m) ==
    /\ CanSend(m, "SIGN_TX")
    /\ tx' = ZeroRequest
    /\ view' = Cleared(view)
    /\ reqType' = "CONFIRM_TRANSACTION"
    /\ AnswerAtOnce(m, "6a80", NoBody)
    /\ job' = OtherJob
    /\ UNCHANGED hashSigning

\* Fault: the request keeps the type of the last one.
SameType == reqType

TransactionType == "CONFIRM_TRANSACTION"

\* P1_FIRST
SignTxFirst(m, path, chunk) ==
    /\ CanSend(m, "SIGN_TX")
    /\ reqType' = TransactionType
    /\ \/ AcceptChunk(m, FirstChunk(path, chunk), Cleared(view),
                      Job("upload", path, chunk, ZeroHash))
       \/ AskApproval(m, FirstChunk(path, chunk), Cleared(view),
                      Job("sign", path, chunk, ZeroHash))
    /\ UNCHANGED hashSigning

\* The data end before the path does: dataLength, a uint16_t, wraps to nearly
\* UINT16, and no memory of the device holds what is then moved into raw.  The
\* hardware stops the application: in this its end is that of Restart.
SignTxFirstShort(m) == CanSend(m, "SIGN_TX") /\ Restart

\* A host that uploads in order continues only what was just accepted.
CanContinue == HostUploads => job.kind = "upload"

Continued(kind, chunk) ==
    IF job.kind = "upload" THEN Job(kind, job.path, job.data \o chunk, ZeroHash)
    ELSE OtherJob

\* Fault: the length is checked before the chunk is added.
FitsBefore(chunk) == tx.rawLength <= MAX_RAW_TX

Fits(chunk) == tx.rawLength + Len(chunk) <= MAX_RAW_TX

\* P1_MORE.  Nothing requires a P1_FIRST before it, and the request type is
\* not set.
SignTxMore(m, chunk) ==
    /\ CanSend(m, "SIGN_TX")
    /\ CanContinue
    /\ Fits(chunk)
    /\ \/ AcceptChunk(m, MoreChunk(chunk), view, Continued("upload", chunk))
       \/ AskApproval(m, MoreChunk(chunk), view, Continued("sign", chunk))
    /\ UNCHANGED <<reqType, hashSigning>>

\* The length has been advanced when it is found too large, and stays so.
SignTxTooLong(m, chunk) ==
    /\ CanSend(m, "SIGN_TX")
    /\ CanContinue
    /\ ~Fits(chunk)
    /\ tx.rawLength + Len(chunk) <= RawLengthBound
    /\ tx' = [tx EXCEPT !.rawLength = @ + Len(chunk)]
    /\ AnswerAtOnce(m, "6700", NoBody)
    /\ job' = OtherJob
    /\ UNCHANGED <<reqType, hashSigning, view>>

\* Fault: the setting is shown but not asked.
HashSigningIgnored == TRUE

HashSigningOn == hashSigning

SignTxHashDisabled(m) ==
    /\ CanSend(m, "SIGN_TX_HASH")
    /\ ~HashSigningOn
    /\ AnswerAtOnce(m, "6c66", NoBody)
    /\ job' = OtherJob
    /\ UNCHANGED <<reqType, hashSigning, tx, view>>

\* A path that read_bip32 refuses, or a digest that is not 32 bytes long.
SignTxHashBadData(m) ==
    /\ CanSend(m, "SIGN_TX_HASH")
    /\ HashSigningOn
    /\ \/ tx' = ZeroRequest
       \/ \E path \in Paths : tx' = [ZeroRequest EXCEPT !.head = PathHead(path)]
    /\ view' = Cleared(view)
    /\ reqType' = "CONFIRM_TRANSACTION"
    /\ AnswerAtOnce(m, "6a80", NoBody)
    /\ job' = OtherJob
    /\ UNCHANGED hashSigning

\* format_confirm_hash, called by ui_approve_tx_hash_init
HashPage(v) == PrintPage([v EXCEPT !.formatter = Formatter("hash", 1)])

SignTxHash(m, path, hash) ==
    /\ CanSend(m, "SIGN_TX_HASH")
    /\ HashSigningOn
    /\ tx' = [ZeroRequest EXCEPT !.head = PathHead(path), !.hash = hash]
    /\ view' = HashPage(Cleared(view))
    /\ reqType' = "CONFIRM_TRANSACTION"
    /\ ShowPrompt("approve_hash")
    /\ AnswerLater(m)
    /\ job' = Job("hash", path, <<>>, hash)
    /\ UNCHANGED hashSigning

\* The handler does nothing: the answer is the next "6e02", or the decision.
KeepAlive(m) ==
    /\ CanSend(m, "KEEP_ALIVE")
    /\ AnswerLater(m)
    /\ job' = IF link.reply.sw = "6e02" THEN job
              ELSE Job("keep_alive", NoPath, <<>>, ZeroHash)
    /\ UNCHANGED <<screen, armed, reqType, hashSigning, tx, view>>

Command(m) ==
    \/ NoCommand(m)
    \/ BadCommand(m)
    \/ GetAppConfiguration(m)
    \/ GetPublicKeyBadPath(m) \/ GetPublicKeyFails(m)
    \/ \E path \in Paths : GetPublicKey(m, path) \/ ConfirmPublicKey(m, path)
    \/ SignTxBadPath(m)
    \/ \E path \in Paths, chunk \in Chunks : SignTxFirst(m, path, chunk)
    \/ \E chunk \in Chunks : SignTxMore(m, chunk) \/ SignTxTooLong(m, chunk)
    \/ SignTxHashDisabled(m)
    \/ SignTxHashBadData(m)
    \/ \E path \in Paths, hash \in HostHashes : SignTxHash(m, path, hash)
    \/ KeepAlive(m)

-----------------------------------------------------------------------------
(***************************************************************************)
(* The owner.  io_seproxyhal_respond answers, then shows the main menu.    *)
(***************************************************************************)
\* Fault: the prompt stays up after the answer.
PromptStays == UNCHANGED <<screen, armed>>

BackToIdle == ui_idle

Decide(sw, body) ==
    /\ link' = Respond(link, sw, body)
    /\ BackToIdle
    /\ UNCHANGED <<job, reqType, hashSigning, u2fTimer, tx, view>>

AddressOk == screen = "address" /\ Decide("9000", AddressBody(tx.head))
AddressCancel == screen = "address" /\ Decide("6985", NoBody)

\* The hash prompt has the buttons of the transaction prompt.
Approving == screen \in {"approve_tx", "approve_hash"}

\* When the SDK derives no key, the exception goes to eos_main before anything
\* is answered or drawn: see DecideFails in EosMain.  Nothing changes here.
TxOk == Approving /\ Decide("9000", SignatureBody(tx))
TxCancel == Approving /\ Decide("6985", NoBody)

OpenMenu(from, to) == screen = from /\ ShowMenu(to)

BrowseMenus ==
    /\ \/ OpenMenu("menu_main", "menu_settings")
       \/ OpenMenu("menu_main", "menu_about")
       \/ OpenMenu("menu_settings", "menu_settings_hash_signing")
       \/ OpenMenu("menu_settings", "menu_main")
       \/ OpenMenu("menu_about", "menu_main")
    /\ UNCHANGED <<link, job, reqType, hashSigning, u2fTimer, tx, view>>

\* menu_settings_hash_signing_change
ChangeHashSigning ==
    /\ OpenMenu("menu_settings_hash_signing", "menu_settings")
    /\ hashSigning' \in BOOLEAN
    /\ UNCHANGED <<link, job, reqType, u2fTimer, tx, view>>

-----------------------------------------------------------------------------
(***************************************************************************)
(* The ticker event: first the keep-alive timer of U2F, then the UX        *)
(* interval.  "<= 0" is a test of an unsigned number.                      *)
(***************************************************************************)
\* Fault: an event that finds the interval running is not counted.
CountingAlone == link.media = "u2f" /\ u2fTimer > 0 /\ ~armed

Counting == link.media = "u2f" /\ u2fTimer > 0

TimerLeft == IF Counting THEN (u2fTimer - TICK) % UINT16 ELSE u2fTimer

Expires == Counting /\ TimerLeft <= 0

\* u2f_send_keep_alive
LinkAfterTimer == IF Expires THEN Respond(link, "6e02", NoBody) ELSE link

\* The interval does not expire in this tick.
TickTimer ==
    /\ u2fTimer' = TimerLeft
    /\ link' = LinkAfterTimer
    /\ UNCHANGED <<screen, armed, view>>

\* It expires while the OS holds the display (UX_ALLOWED is false).
TickSuspended ==
    /\ armed
    /\ armed' = FALSE
    /\ u2fTimer' = TimerLeft
    /\ link' = LinkAfterTimer
    /\ UNCHANGED <<screen, view>>

\* UX_REDISPLAY: a prompt arms the interval again.
Redisplay == armed' = (screen \in Prompts) /\ UNCHANGED screen

TickAddress ==
    /\ armed
    /\ reqType # "CONFIRM_TRANSACTION"
    /\ u2fTimer' = TimerLeft
    /\ link' = LinkAfterTimer
    /\ Redisplay
    /\ UNCHANGED view

TickNextPage ==
    /\ armed
    /\ reqType = "CONFIRM_TRANSACTION"
    /\ ScreenStatus(tx.raw, view) = "9000"
    /\ view' = NextScreen(tx.raw, view)
    /\ u2fTimer' = TimerLeft
    /\ link' = LinkAfterTimer
    /\ Redisplay

\* Fault: the prompt stays up after the refusal.
RefusedInPlace == Redisplay

\* ui_idle, from io_seproxyhal_respond
RefusedToIdle == screen' = "menu_main" /\ armed' = FALSE

\* parse_tx throws in the middle of a review.
TickRefused ==
    /\ armed
    /\ reqType = "CONFIRM_TRANSACTION"
    /\ ScreenStatus(tx.raw, view) # "9000"
    /\ view' = NextScreen(tx.raw, view)
    /\ u2fTimer' = TimerLeft
    /\ link' = Respond(LinkAfterTimer, ScreenStatus(tx.raw, view), NoBody)
    /\ RefusedToIdle

Tick ==
    /\ TickTimer \/ TickSuspended \/ TickAddress \/ TickNextPage \/ TickRefused
    /\ UNCHANGED <<job, reqType, hashSigning, tx>>

\* The OS gives the display back: the prompt is drawn again.
RedrawByOs ==
    /\ screen \in Prompts
    /\ ~armed
    /\ armed' = TRUE
    /\ UNCHANGED <<link, job, screen, reqType, hashSigning, u2fTimer, tx, view>>

Owner == AddressOk \/ AddressCancel \/ TxOk \/ TxCancel \/ BrowseMenus \/ ChangeHashSigning

Next ==
    \/ \E m \in MEDIA : Command(m) \/ SignTxFirstShort(m)
    \/ Owner
    \/ Tick
    \/ RedrawByOs
    \/ Restart

Spec == Init /\ [][Next]_vars

\* The ticker of the device does not stop.
FairSpec == Spec /\ WF_vars(Tick)

-----------------------------------------------------------------------------
(***************************************************************************)
(* What is signed is what is shown.  While a transaction waits for         *)
(* approval, the hash to be signed is the hash of the transaction that the *)
(* pages are printed from, and the page that is up shows the action of     *)
(* that transaction which its caption names, through a formatter of that   *)
(* action's type (handle_sign_tx, ui_approve_tx_next_screen, parse_tx).    *)
(***************************************************************************)
WhatIsShownIsSigned ==
    screen = "approve_tx" =>
        /\ tx.hash = Sha256(tx)
        /\ view.page.op = CellAt(tx.raw, view.page.idx + 1)
        /\ view.page.by.of \in ActionTypes => view.page.by.of = view.page.op.type

(***************************************************************************)
(* The function pointer never outlives the action it was chosen for: while *)
(* a transaction waits for approval, the formatter that runs at the next   *)
(* tick reads the member of opDetails.op that parse_op has written         *)
(* (format_confirm_operation, eos_format_nanos.c:419).                     *)
(***************************************************************************)
FormatterFitsAction ==
    screen = "approve_tx" =>
        /\ view.formatter.of \in ActionTypes => view.formatter.of = view.op.type
        /\ view.formatter.of # "hash"
        /\ view.op = CellAt(tx.raw, view.opIdx + 1)

(***************************************************************************)
(* A digest is signed blindly only when the owner has allowed it and       *)
(* through the prompt that says so: that prompt shows only the pages of    *)
(* the hash chain, never parses a transaction, and the hash is the host's  *)
(* (handle_sign_tx_hash, format_confirm_hash).                             *)
(***************************************************************************)
HashPromptIsHonest ==
    screen = "approve_hash" =>
        /\ hashSigning
        /\ tx.hash \in HostHashes
        /\ view.formatter.of = "hash" /\ view.page.by.of = "hash"

(***************************************************************************)
(* On USB a prompt is up exactly while a command waits for the owner: no   *)
(* prompt is left without a command to answer, and no command is left      *)
(* without a prompt, whatever the parser throws before or during a review. *)
(* KEEP_ALIVE is the exception: on USB nothing ever answers it             *)
(* (handle_apdu, next_formatter, io_seproxyhal_respond).                   *)
(***************************************************************************)
PromptIffCommand ==
    (link.media # "none" /\ job.kind # "keep_alive") <=> screen \in Prompts

(***************************************************************************)
(* An answer is sent only while a command waits for one: none is sent      *)
(* twice, as when parse_tx throws in a handler that then asks for an       *)
(* asynchronous answer, or when a prompt outlives its command              *)
(* (eos_ux_nanos.c:256, eos.c:130).                                        *)
(***************************************************************************)
NoStrayAnswer == ~link.stray

(***************************************************************************)
(* Nothing changes the request under the owner's eyes: from the prompt to  *)
(* the decision the path, the data and the hash stay, and so do the type   *)
(* of the request and the setting that allowed it.  A step that shows      *)
(* another prompt, or the same one for another request, passes through a   *)
(* menu (io_exchange in eos_main, and no handler but KEEP_ALIVE's while a  *)
(* U2F host polls).                                                        *)
(***************************************************************************)
PromptIsFrozen ==
    [][(screen \in Prompts /\ screen' \in Prompts)
        => (screen' = screen /\ UNCHANGED <<tx, reqType, hashSigning>>)]_vars

(***************************************************************************)
(* The buffer holds what the length says: up to MAX_RAW_TX the length is   *)
(* that of the data received since the last P1_FIRST, and the data never   *)
(* pass the end of the buffer, although a refused chunk leaves the length  *)
(* behind that it would have had (eos.c:114).  This is of an application   *)
(* that runs on: it does not after a P1_FIRST that is shorter than its     *)
(* path (SignTxFirstShort, eos.c:106).                                     *)
(***************************************************************************)
LengthIsHonest ==
    /\ Len(tx.raw) <= MAX_RAW_TX
    /\ tx.rawLength <= MAX_RAW_TX => tx.rawLength = Len(tx.raw)

(***************************************************************************)
(* For a host that keeps to the protocol, the prompt is about what the     *)
(* host asked for last: its path, and the whole of the data it uploaded    *)
(* chunk by chunk, its digest, or the address of its path; and the review  *)
(* of a transaction does run (reqType, main.c:243).                        *)
(***************************************************************************)
PromptIsRequested ==
    /\ screen = "approve_tx" =>
         /\ tx.head = PathHead(job.path)
         /\ tx.hash = [data |-> job.data, length |-> Len(job.data), overlay |-> NoPath]
         /\ reqType = "CONFIRM_TRANSACTION"
    /\ screen = "approve_hash" =>
         tx.head = PathHead(job.path) /\ tx.hash = job.hash
    /\ screen = "address" =>
         tx.head = AddressHead(job.path) /\ reqType = "CONFIRM_ADDRESS"

(***************************************************************************)
(* For such a host, an answer that carries an address or a signature       *)
(* carries the one it asked for: of its path, over its data, although the  *)
(* union, the timer's "6e02" and a decision lost between two KEEP_ALIVE    *)
(* commands lie between the request and the answer (set_result_sign_tx,    *)
(* set_result_get_public_key).                                             *)
(***************************************************************************)
AnswerIsRequested ==
    LET body == link.reply.body
    IN  /\ body.kind = "address" =>
             job.kind = "address" /\ body.head = AddressHead(job.path)
        /\ body.kind = "signature" =>
             /\ job.kind \in {"sign", "hash"} /\ body.head = PathHead(job.path)
             /\ body.hash = IF job.kind = "hash" THEN job.hash
                            ELSE [data |-> job.data, length |-> Len(job.data),
                                  overlay |-> NoPath]

(***************************************************************************)
(* A U2F command that waits always has a "6e02" ahead of it: the timer is  *)
(* running, on a multiple of the tick, so the unsigned subtraction meets 0 *)
(* and does not wrap (main.c:234).                                         *)
(***************************************************************************)
KeepAliveIsDue ==
    link.media = "u2f" => u2fTimer > 0 /\ u2fTimer % TICK = 0

(***************************************************************************)
(* Nothing puts that "6e02" off: while a command waits every ticker event  *)
(* takes a tick off the timer, also when the OS has the display, the UX    *)
(* interval expires or a page is printed in the same event, and no button, *)
(* redraw or menu gives it back (io_event, main.c:234).                    *)
(***************************************************************************)
AnswerIsNotPutOff ==
    [][(link.media = "u2f" /\ link'.media = "u2f")
        => u2fTimer' = IF Tick THEN u2fTimer - TICK ELSE u2fTimer]_vars

(***************************************************************************)
(* Every U2F command is answered, if only with "6e02", whatever the owner  *)
(* does: the browser's 30 seconds never pass (main.c:66, eos.c:156).       *)
(***************************************************************************)
U2fIsAnswered == link.media = "u2f" ~> link.media # "u2f"

(***************************************************************************)
(* What the comment "Wipe the transaction context and report the           *)
(* exception" of main.c:97 says of a command that a handler refuses.       *)
(***************************************************************************)
ErrorWipesContext ==
    link.reply.sw \in HandlerErrors =>
        tx.head.by # "path" /\ tx.raw = <<>> /\ tx.hash = ZeroHash
=============================================================================
