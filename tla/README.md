# Verification of the EOS application for the Ledger Nano S

TLA+ models of the application in `src/src`, the TLC runs that check them on
small instances, and theorems about them proved with TLAPS for every value of
the constants.

The application signs EOSIO transactions.  A host sends a transaction in
chunks, the device shows it page by page, the owner presses a button, and the
device answers with a signature or a refusal.  The question behind all of this
project is whether what the owner approves is what is signed, and whether the
command that asked for it gets exactly one answer.

## 1. The system

### Components, their state and operations

| component | source | state it keeps | operations |
|---|---|---|---|
| dispatcher and event loop | `main.c` | `ctx.u2fTimer`, `flags`, `tx` | `handle_apdu`, `io_event` (buttons, ticker, status), `u2f_send_keep_alive`, `eos_main`, `main` |
| request handlers | `eos.c`, `eos_api.h` | `ctx.req` (a union of `pk` and `tx`), `ctx.reqType`, `ctx.hashSigning` | one handler per instruction, `set_result_sign_tx`, `set_result_get_public_key` |
| decisions and answers | `eos_ux_common.c` | none | `io_seproxyhal_respond` and the four touch functions |
| menus, prompts, review | `eos_ux_nanos.c` | the display, the UX interval | `ui_idle`, the menu callbacks, `ui_show_address_init`, `ui_approve_tx_init`, `ui_approve_tx_hash_init`, `ui_approve_tx_next_screen` |
| page formatters | `eos_format_nanos.c` | the global pointer `formatter`, the three captions, `current_producer_index` | 42 functions that print a page and store their successor |
| transaction parser | `eos_parser.c` | `offset`, `opCount`, `opIdx`, `opDetails` of `ctx.req.tx` | `parse_tx`, `parse_op` and one parser per action |
| context and types | `eos_types.h`, `eos_vars.h`, `eos_ram.c` | the globals above | none |
| text conversions | `eos_utils.c` | none | names, amounts, summaries |
| varint codec | `eos_varint.c` | none | `varint_encode`, `varint_decode` |
| key and signature encoding | `eos_helpers.c`, `eos_base58.c` | none | base58, canonical signatures |
| Ledger Blue screens | `eos_ux_blue.c`, `eos_format_blue.c` | | no program that can run at this commit |
| NVRAM image | `eos_nvram.c` | one flag | `eos_nv_state_init` |

### How they interact

There is one thread.  `eos_main` waits in `io_exchange` for a command; while it
waits, the SDK calls `io_event` for buttons and tickers.  A handler that throws
a status word is answered at once; one that sets `IO_ASYNCH_REPLY` leaves the
command unanswered, and the next answer comes from an event: a button
(`io_seproxyhal_respond`), the parser's refusal of a later action
(`next_formatter`), or, over U2F, the keep-alive timer, which answers `6e02`
after `U2F_REQUEST_TIMEOUT` so that the browser does not give up.  After `6e02`
the host sends KEEP_ALIVE, an empty command that waits in place of the first.

The review is a loop driven by the ticker.  Every page arms the UX interval;
when it expires, the function in `formatter` prints the next page and stores
its successor; when the pointer is NULL, `parse_tx` is called for the next
action.  The prompt, the request, the cursor of the parser and the pointer are
globals which handlers, buttons and ticks all touch.

### What is hard in it

* A command, a decision, a timeout and a page change can come in any order, and
  the request they are about is shared and overlaid (`ctx.req` is a union).
* Parsing goes on while the prompt is up: `parse_tx` may throw pages after the
  prompt appeared, or inside the handler that is about to show it.
* The pointer, the parsed action, the cursor and the raw buffer are four pieces
  of state in three files that have to agree at every tick.
* Over U2F the transport is freed by the timer while the prompt stays up.
* An upload spans several commands and nothing requires that they belong
  together.
* Ends are recognised by equality (`opIdx == opCount`, a timer that reaches 0),
  in counters of 8 and 16 bits.
* Every error is an exception, and exceptions are also thrown under
  `io_exchange`, out of an event into the loop that waits for a command.
* A text lies in the buffer of the text before it; lengths and ends are found by
  a NUL that some of the conversions do not write.

`PROJECT.json` lists each hazard with its line and the properties about it.

### What makes each component correct

* Review: every page of every action is shown, in order, over and over; a
  transaction that cannot be shown entirely is refused; a page shows the action
  its caption names.
* Handlers and dispatcher: what is signed is what is shown; the length is that
  of the data; a digest is signed only with the setting on; the answer carries
  what the host asked for.
* Answers: one per command, a prompt exactly while a command waits.
* Timer: every U2F command is answered before the timeout.
* Loop of `eos_main`: a command gets the answer and the word that belong to it,
  whatever is thrown where.
* Parser: each call stops where the next action starts, and has taken the fields
  of its own.
* Texts: what is on the page is the name, the number, the asset or the hash.
* Keys and signatures: the address denotes the key, the prompt shows the two ends
  of its base 32, and the signature sent is the one that was made and tested.

## 2. Modules

| module | what it is |
|---|---|
| `EosParser` | `parse_tx` and `parse_op` as operators on a cursor, over cells |
| `EosFormat` | the formatters, their successors, `next_formatter`, `ui_approve_tx_next_screen` as operators on a view (cursor, pointer, page) |
| `Slideshow` | abstract: a show whose pages go by in order, cyclic or stopping at its end |
| `EosCarousel` | the review of one transaction driven by the ticker; implements `Slideshow` |
| `EosApp` | the application: commands, owner, ticker, restart, over `EosFormat` |
| `Approval`, `AppApproval` | abstract: a signature, or an address to be confirmed, leaves only by a decision on its prompt; and the mapping by which `EosApp` implements it |
| `Exchange`, `EosMain` | abstract: one answer for each command, of those it can have; and the loops, exception handlers and events of `main.c` that implement it |
| `ParseLoop` | one call of `EosParser` after the other, on its own |
| `EosVarint`, `EosBytes` | the varint codec, and `parse_tx` on bytes; the second implements `ParseLoop` |
| `Powers` | the weight of a digit, for every encoding |
| `EosText` | names, numbers, assets and hashes as they are printed into a page's buffer |
| `EosBase58`, `EosAddress`, `EosPublicKey` | `b58enc`, and `print_public_key` with `base32_encode` and `print_summary`, loop by loop, and their composition: from the compressed key to the prompt |
| `EosSign` | the loop that signs until the signature is canonical, and what is sent of its DER encoding |
| `MCCarousel`, `MCApp`, `MCBytes`, `MCText`, `MCPublicKey`, `MCSign` | values of the constants for TLC |
| `DataProofs` | lemmas about data: functions defined by recursion, powers, division, bits, sequences |
| `EosFormatProofs` | lemmas about one page of the review, for the two modules that follow the review |
| `EosAppProofs`, `EosMainProofs`, `EosCarouselProofs`, `EosBytesProofs`, `EosTextProofs` | the theorems about each specification |
| `EosEncodingProofs` | those about `EosPublicKey` and about `EosSign`, whose specification therefore has names of its own (`SignSpec`, `SignTypeOK`) |

How they fit together: `EosCarousel` and `EosApp` use the same operators of
`EosFormat`: the first asks what the owner gets to see of a transaction, the
second what happens to a review in the middle of everything else.  `EosBytes`
says that the cells those two work on are what the parser makes of the bytes.
`EosText` says what a page shows of a cell's field.  `EosMain` takes a handler
for what it leaves in `tx` and `flags` and for what it throws; what it does
is in `EosApp`, whose transport is the one that `EosMain` implements
(`Exchange`).  `EosPublicKey` is what `ConfirmPublicKey` of `EosApp` writes and
shows, and `EosSign` what its `TxOk` sends.

### The abstraction of the data

* In `EosParser` the raw transaction is a sequence of cells: cell 1 is the
  header, the others are one action each.  A cell has both roles (the number a
  header declares and the fields of an action), because the parser gives the
  same bytes either meaning according to its offset.  Behind the uploaded cells
  are zeros (`eos.c:101`), which read as a header of no action or an unknown
  name.  An offset counts cells.  `EosBytes` has the bytes: sizes, varints, 64-bit
  names, and the `uint16_t` offset.
* `opCount` and `opIdx` keep the width of a byte: `% BYTE`.
* A formatter is a place in a chain, `[of, at]`; the chains follow
  `eos_format_nanos.c` function by function.  A page records its kind (which
  caption is set), its printer and the action it was printed from, instead of
  the text.
* SHA-256 is injective: a digest is the record of what was hashed.
* The union `ctx.req`: `pk.address` (50 bytes) lies over `bip32Len`, `bip32`
  (44 bytes) and the first 6 bytes of `raw`.  `tx.head` is the last thing that
  was written over the former, `tx.overlay` the address over the latter.  Those
  six bytes are the first of the 32 of the chain id (`eos_parser.c:392`), which
  the parser skips, so the overlay changes the digest but not the pages.
  `NoAddress` says that they were only cleared for an address.
* A path is a model value.  A path that `read_bip32` refuses, one that the SDK
  derives no key for, and a chunk that is shorter than its path are actions of
  their own.
* In `EosMain` a status word is its class: `9000`, `6xxx`, or the `68xx` that the
  handlers make of an exception which is no status word.
* In `EosText` a name is its 13 characters, which the charmap makes of the 64-bit
  value one for one.  A 64-bit integer wraps at `WORD`.
* In `EosPublicKey` and `EosSign` a byte has fewer values and a number fewer
  bytes, with the same borders (top bit, leading zero, number of digits): see
  the bounds below.  Keys, checksums and nonces are any values: what the curve,
  the hash functions and `crc16` compute is not looked into.

### EosApp and the code

| variable | code |
|---|---|
| `link` | the transport: `G_io_apdu_media` and the last answer (external); `stray` records an answer that no command waited for |
| `job` | history: what the host asked for last |
| `screen`, `armed` | the display, the UX interval |
| `reqType`, `hashSigning`, `u2fTimer` | the fields of `ctx` |
| `tx` | `ctx.req` |
| `view` | the cursor in `ctx.req.tx`, `formatter`, `current_producer_index`, the page |

A command handler, with everything it calls, is one action: `GetPublicKey` and
`ConfirmPublicKey`, `SignTxFirst`, `SignTxMore`, `SignTxHash`, `KeepAlive`,
`GetAppConfiguration`, and one action per refusal that leaves a different state
behind (`GetPublicKeyFails` has cleared the address when the SDK throws,
`SignTxBadPath` has cleared the context, `SignTxTooLong` has advanced the length,
`SignTxHashBadData` has cleared the context and perhaps read the path).
`AskApproval` is the common end of the `P2_LAST` commands: hash, rewind, first
page; if `parse_tx` throws, `next_formatter` answers and shows the menu, and
then the handler sets `IO_ASYNCH_REPLY` as usual.  The owner's actions are the
two buttons of each prompt, the menus, the setting, and quitting the
application.  `Tick` is the ticker event: the U2F timer first, then the
interval, in five disjuncts.

### EosMain and the code

`pc` is where `main` and `eos_main` stand: before `eos_main` ("boot"), at the call
of `io_exchange` ("exchange"), inside it ("waiting"), in `handle_apdu`
("handle"), or gone ("exit").  `tx` and `asynch` are the two local variables that
carry an answer from one turn of the loop to the next; `word` is what the
exception handlers put behind the `tx` bytes.  `Exchange` (the action) sends what
the last turn left.  An event runs under "waiting" and may leave it by `Catch`:
the status event without USB power (`StatusEvent`), and the approval whose path
the SDK refuses (`DecideFails`); both go past `flags = 0`, so that the word they
produce is not sent, and the command goes on waiting for its prompt
(`NoCommandIsLeft`).

### The other modules and the code

* `EosBytes`: one action, `parse_tx`, which throws (`TooManyOps`,
  `UnknownAction`) or reads one action (`parse_op`).  `raw` is what a host makes of
  `plan`, a list of cells, after the ABI that the comments of `eos_types.h` quote;
  `Contents` says what the data of a cell stand for: how many authorizations it has,
  how long its memo is, how many accounts and waits its authorities have.  A
  length that a parser adds up is cut to a `uint16_t` (`Moved`);
  the refinement maps an offset back to the number of cells that end before it.
* `EosText`: one action per page: `MEMCLEAR` of the buffer, then the printing of a
  value into it.  `Below` and `Behind` are the bytes around the local `str` of
  `parse_name`, which has no room for a NUL.
* `EosBase58` and `EosAddress`: one action per turn of a loop.  `Olens` is what
  the uninitialized `olen` may hold.  `Return` ends the text and writes its summary,
  12 characters, two dots and 12 characters on the device.
* `EosSign`: `Sign`, `SignAgain` and `Reply` are the loop and its end; the DER
  encoding is the SDK's.

### What is assumed about the outside

These are parts of the SDK or of the host, not of this repository:

* The transport takes no command while one waits for its answer, and what the
  application sends when none waits is lost.
* When the OS has taken the display an expired interval is consumed
  (`UX_ALLOWED`), and a redraw by the OS arms it again.
* `IntervalSurvives`: whether displaying a menu leaves an armed interval alone.
  The SDK's macros are not in the repository; `app_client` and `app_u2f` assume
  the unfavourable case, `app_usb` the other.
* `HostPolls`: the host answers `6e02` with KEEP_ALIVE and sends KEEP_ALIVE at
  no other time.  `HostUploads`: it continues only an upload in progress.
  Runs and theorems that need these say so.
* A P1_FIRST chunk that is shorter than its path makes the `uint16_t` of
  `eos.c:106` wrap, and the move of `eos.c:110` runs far past the memory of the
  application.  The hardware stops it there, and the application has ended
  (`SignTxFirstShort`): the theorems about `EosApp` rest on that, and none is about
  what the move overwrites first.
* The SDK may refuse a path that `read_bip32` has taken: in `GetPublicKeyFails`, and
  for an approval in `EosMain`.
* `EosBytes`: the host encodes a transaction as EOSIO does, so a declared size is
  the size of the data.  `CHAR_SIGNED`: the `char` of `eos_varint.c` is that of the
  host's tests, because the encoder runs nowhere else (see the list under
  Findings).
* `EosText`, `Printable`: at most one character lies between `str` and the next NUL,
  and no dot before it; names end in a dot at their 13th character; assets have
  no more decimals than `sizeof(char *)` and no negative amount; numbers keep off
  the two ends where `print_int` prints something else.  `Printable` holds of the
  values of `text`, and is the hypothesis of its theorem; the names of
  `text_name` have 13 characters.
* `EosSign`: `cx_ecdsa_sign` gives minimal DER, and a nonce of `CX_RND_TRNG` may be
  any.

### Disciplines, and why they are needed

Over U2F, the timer answers the command under a prompt.  A host that then sent
something other than KEEP_ALIVE would change the request under the owner's
eyes; nothing in the application prevents it, so the properties of the prompt
are stated for U2F hosts that poll, which is what KEEP_ALIVE is for.  Over USB
no assumption is made.  `PromptIsRequested` and `AnswerIsRequested` speak of
"the data the host uploaded", which is only defined for a host that continues
its own uploads: `HostUploads`.

## 3. Runs

| run | instance | what it asks |
|---|---|---|
| `carousel` | header counts 0, 1, 2, 3, 4 and 257 with MAX_OPS 3; all transactions of up to two actions over eleven (one of each type, votes for nobody, for three, for a proxy, an unknown name), and of three over a smaller set | does the review implement `Slideshow`; is every page honest; is a malformed transaction refused |
| `app_usb` | one path, one digest, two chunks, of one and of two cells, a buffer of three, USB only, host and owner unrestricted | what is shown is signed, the pointer fits, one answer per command, prompts are frozen, the length is honest |
| `app_client` | two paths, one digest, an upload in two pieces that just fill the buffer, U2F only, a host that polls and uploads in order, intervals that outlive prompts | is the prompt, and the answer, about what the host asked for; is a `6e02` always due; does the application implement `Approval` (the two paths are symmetric) |
| `app_u2f` | both transports, no discipline, fair ticker | is every U2F command answered |
| `main` | both transports, seven kinds of command, answers of 0, 4 and 101 bytes | does the loop implement `Exchange`; does a command whose exception is lost still have its prompt |
| `bytes` | every action, with 0, 1 or 2 authorizations, memos of 0, 2 and 200 bytes, 0 to 2 accounts and 0 to 11 waits, alone and before another, under counts that agree, fall short, exceed or are cut to a byte; numbers on both sides of every length of a varint | does the parser on bytes do what `EosParser` does on cells; do varints come back |
| `text` | names of up to 12 characters with a dot anywhere, numbers around the powers of ten, assets of 0, 1 and 4 decimals, hashes, one after the other in the same buffer | does the page show the value |
| `public_key` | all texts of up to six bytes of {0, 1, 8} in base 9, encoded in base 5, with no room and with plenty; 2 characters of a key, which make 8 of base 32, of which the prompt shows 2 at either end | do both converters stay inside their arrays and end; does the text denote the key; does the prompt show the ends of its base 32 |
| `sign` | all pairs of eight numbers of three bytes of two bits | is the answer the signature made last; does the loop end |
| `app_wipe`, `bytes_keys`, `text_name` | as `app_client` over USB; two keys in each authority; names of 13 characters | expected violations, see Findings |

The counts of `carousel` are the boundaries of `opCount`: no action, one (which
has no "Operation" page), several, MAX_OPS, one more, and one that is truncated
to a byte.  Three actions suffice for first, middle and last.  In `app_usb` the
chunks compose transactions of two actions, transactions refused half way,
uploads that overflow, and actions and headers that are read as
each other; three cells are what these need.  The timer is two or three ticks
long instead of 280: it still expires before, during and after every decision.
The request length stops at one cell past the buffer (`RawLengthBound`), where
no further chunk can be accepted; in `app_client` it stops at the buffer, so that
its host uploads no more than fits, and the refused chunks are those of the other
runs.

`bytes` has the real widths (`BYTE` 256, `UINT16` 65536) but for `UINT32`, which is
2^24: TLC's integers have 31 bits, and the numbers up to 2^28 are therefore cut
as the code cuts those beyond 32 bits.  Two actions suffice because a call
depends on the offset only.  The memo of 200 bytes has a length of two bytes, and so
has the size of its data.  `text` has 2^30 for the 64 bits of a number, no
amount is as large as half of that, and `print_int` has room for the nine digits
of the largest and a sign, as for the 19 of the code.  In `public_key` one byte of base 9 takes
1.365 digits of base 5, as one of base 256 takes 1.366 of base 58, so the
"138 / 100" of the code has the margin it has there.  In `sign` three bytes of two
bits give every combination of a number of full length with and without the
zero in front, and of shorter ones.

### Properties

| property | states | found false if |
|---|---|---|
| `ImplementsSlideshow` | the pages follow the contents, in order, complete, forever or until the refusal | a chain skips its last function |
| `PagesAreHonest` | the page is of the action at its place | `opIdx` is not reset with the header |
| `MalformedIsRefused`, `RefusalComesNearer` | a transaction that cannot be shown entirely ends in a refusal; no page of it comes twice | the end is tested with `>=` |
| `WhatIsShownIsSigned` | hash, buffer, page and formatter agree during a prompt | the digest is not recomputed; the review resumes |
| `FormatterFitsAction` | the pointer fits the action parsed last | the review resumes where an earlier one stopped |
| `HashPromptIsHonest` | a digest prompt needs the setting and shows only its chain | the setting is not asked |
| `PromptIffCommand` | over USB, prompt iff a command waits | the prompt stays after an answer |
| `NoStrayAnswer` | no answer without a command | the prompt stays after a refusal |
| `LengthIsHonest` | length and data agree up to MAX_RAW_TX | the length is checked too early |
| `PromptIsFrozen` | no step changes the request under a prompt | a handler answers at once under a prompt |
| `PromptIsRequested`, `AnswerIsRequested` | prompt and answer are about the host's own request | the request type is not set; the hash is taken too early |
| `ImplementsApproval` | no signature without the decision on its own prompt | the hash is taken before the last chunk |
| `KeepAliveIsDue`, `U2fIsAnswered` | the timer runs and lands on 0; every U2F command is answered | only commands that wait set the timer |
| `AnswerIsNotPutOff` | every ticker event, and nothing else, takes a tick off while a command waits | an event that finds the interval running is not counted |
| `OneAnswerEach` | one answer to each command, of those it can have | `flags` is not reset |
| `NoCommandIsLeft` | a command whose exception was lost in `io_exchange` has its prompt still, or is a KEEP_ALIVE | the menu comes before the signature |
| `ImplementsCells` | the bytes are read as the cells that were encoded | the active authority of a new account is read where the owner's is |
| `VarintsComeBack` | a varint decodes to its number, over its own bytes | a digit has eight bits |
| `ShowsTheValue` | the page's text is that of the value, whatever the buffer held | two characters of a name are dropped |
| `DigitsAreTheBytes`, `TextIsTheData` | base 58 loses no digit, or the text is empty | too little room for the digits; leading zeros are dropped |
| `ShowsEndsOfBase32` | the prompt shows the two ends of the base 32 of the address | the loop stops with the last byte, not the last bit |
| `Returns`, `EndComesNearer` | both converters end, each step bringing the end nearer | the byte does not advance |
| `AnswerLooksCanonical` | what is sent passes the test of the loop | the test looks at r only |
| `AnswerIsTheSignature` | r, s and the parity are those of the last attempt | the tag between r and s is forgotten |
| `EveryRequestIsSigned` | the signing loop ends | the nonce is a function of the request |

### Fairness

* `EosApp`, `EosCarousel`: `WF(Tick)` and nothing else: the device's ticker fires
  every 100 ms as long as the device runs.  No fairness is assumed of the host or
  of the owner, so a command is answered even if the owner never decides.
* `EosPublicKey` and `EosSign`: `WF(Next)`: a handler runs to its end.
* `EosSign`: `SF` of an attempt whose result is canonical.  The nonce is drawn
  from the TRNG on each turn (`eos.c:177`), independently of the ones before, so
  the loop does not avoid the canonical ones forever; with a deterministic nonce
  it would, which is the property's mutant.

### Findings

* `app_wipe`: the comment at `main.c:97` says that a refused command wipes the
  transaction context; the code only reports the status word.  After a first
  chunk and any refused command, the path and the data are still in the
  context, and a `P1_MORE` chunk continues them.  `LengthIsHonest` and
  `WhatIsShownIsSigned` hold nevertheless.
* `bytes_keys`: the comment at `eos_parser.c:258` says that the first key of an
  authority is what is displayed.  `parse_authority` takes an authority for one of
  one key; with two keys in the owner's, the active key on the page is not the
  first of the active authority.  The next action is found nevertheless: its
  place comes from the declared size of the data.
* `text_name`: `rtrim` is to "right trim extra character from string"
  (`eos_api.h:77`); it never examines the last character and drops it, so a name
  of 13 characters is shown with 12.

Seen while modelling, and not the subject of a run:

* An exception that is thrown under `io_exchange` while `flags` still has
  `IO_ASYNCH_REPLY` (`main.c:151`, `main.c:177`) produces a status word that is
  not sent: the next `io_exchange` takes it for an asynchronous answer.  `Exchange`
  allows it, since the command still waits.
* The flag at the end of `delegatebw` is a `bool` in the ABI and in the comment of
  `eos_types.h:241`, and `sizeof(int)` bytes are read for it (`eos_parser.c:150`).
* The bytes of `sellram` are unsigned and are printed by a function for signed
  numbers (`eos_format_nanos.c:193`).
* `print_binary_summary` writes 21 characters (`eos_utils.c:206`) where its
  declaration speaks of 19 (`eos_api.h:94`); its callers have more room than
  either.
* `b58enc` reads its caller's `olen`, which is not initialized
  (`eos_helpers.c:64`): the address is the whole text or empty.
* `eos_is_canonical` accepts an r or s that is short of 32 bytes in DER, and the
  encoding copies 32 bytes from there all the same (`eos_helpers.c:33`,
  `eos_helpers.c:102`): what is sent is no signature.  `FullLength`, the condition of
  `AnswerIsTheSignature`, leaves this case out.
* The offset that `parse_tx` keeps is a `uint16_t` to which a declared size of 32 bits
  is added (`eos_parser.c:343`): a buffer that declares more than its data have may
  bring it to 0, which means the header, before the last action.  Hosts that
  encode as EOSIO does declare no such size, and the models have only these.
* With the plain `char` of the device unsigned, `varint_encode` would stop at the
  first digit below 128 (`eos_varint.c:58`).  Nothing on the device calls it.
* The address prompt shows the two ends of the base 32 of the first 32 characters of
  the base 58 text that the host gets, not the text itself (`eos_ux_nanos.c:129`,
  `eos_utils.c:228`).

## 4. Proofs

`tlapm` on each of the modules `...Proofs.tla` checks the following, for every value
of the constants that the named assumptions allow: every set of paths, digests,
chunks and body lengths, every timeout and tick, every MAX_OPS, every
transaction, every key and every length of it, every signature, and every name,
number, asset and hash that the column "under" allows.

| theorem | under | property |
|---|---|---|
| `TypeCorrect` | | `TypeOK` |
| `LengthStaysHonest` | | `LengthIsHonest` |
| `WhatIsApprovedIsSigned` | `Discipline` | `WhatIsShownIsSigned` |
| `FormatterAlwaysFits` | `Discipline` | `FormatterFitsAction` |
| `HashPromptStaysHonest` | `Discipline` | `HashPromptIsHonest` |
| `PromptStaysFrozen` | `Discipline` | `PromptIsFrozen` |
| `ApprovalIsImplemented` | `Discipline` | `ImplementsApproval` |
| `PromptComesWithCommand` | `UsbOnly` | `PromptIffCommand` |
| `NoAnswerIsStray` | `UsbOnly` | `NoStrayAnswer` |
| `KeepAliveStaysDue` | `TimeoutInTicks` | `KeepAliveIsDue` |
| `KeepAliveIsPunctual` | `TimeoutInTicks` | `AnswerIsNotPutOff` |
| `PromptIsAlwaysRequested` | `Protocol` | `PromptIsRequested` |
| `AnswerIsAlwaysRequested` | `Protocol` | `AnswerIsRequested` |
| `LoopTypes` | | `TypeOK` of `EosMain` |
| `CommandsCanBeAnswered` | | `NoCommandIsLeft` |
| `OneAnswerForEach` | | `OneAnswerEach` |
| `CarouselTypeCorrect` | | `TypeOK` of `EosCarousel` |
| `PagesStayHonest` | | `PagesAreHonest` |
| `ReviewIsASlideshow` | | `S!Order`: `ImplementsSlideshow` but for its fairness |
| `NoPageComesBack` | | `RefusalComesNearer` |
| `BytesTypeCorrect` | | `TypeOK` of `EosBytes` |
| `VarintsAlwaysComeBack` | `CHAR_SIGNED` | `VarintsComeBack` |
| `BytesImplementCells` | `CHAR_SIGNED`, `KEYS = 1` | `ImplementsCells` |
| `TextTypeCorrect` | | `TypeOK` of `EosPublicKey` |
| `DigitsHoldTheBytes` | | `DigitsAreTheBytes` |
| `TextDenotesTheKey` | | `TextIsTheData` |
| `PromptShowsTheEnds` | | `ShowsEndsOfBase32` |
| `EveryStepCounts` | | `EndComesNearer` |
| `SignTypeCorrect` | | `SignTypeOK` |
| `TestedIsSent` | | `AnswerLooksCanonical` |
| `LastSignatureIsSent` | | `AnswerIsTheSignature` |
| `TextPagesTypeCorrect` | | `TypeOK` of `EosText` |
| `PagesShowTheValue` | `Printable` | `ShowsTheValue` |

`Discipline` is `"u2f" \in MEDIA => HostPolls`: nothing for USB.  `UsbOnly` is
`MEDIA \subseteq {"usb"} /\ ~IntervalSurvives`: over U2F the timer answers the
command of a prompt, and a stale interval could refuse a page after its command
was answered, so neither property holds there.  `Protocol` is `Discipline /\
HostUploads`.  `TimeoutInTicks` says that the
timeout is a multiple of the tick, as 28000 is of 100; otherwise the unsigned
timer would pass 0.  `CHAR_SIGNED` is the `char` of the host's tests, the only place
where `varint_encode` runs.  `KEYS = 1`: an authority has the one key that
`parse_authority` takes it to have; with two, `bytes_keys` finds the property
false of the key on the page.

`Printable` is described under the assumptions about the outside; outside of it a
page still ends where it should (`TextPagesTypeCorrect`), but may show another
text.

`LengthStaysHonest` and the other theorems about `EosApp` are about chunks no
shorter than their path; a shorter one ends the application (see the assumptions
about the outside).  `BytesImplementCells` is for all sizes of the memo and all
numbers of authorizations, accounts and waits, but for declared sizes that are
those of the data.  `LastSignatureIsSent` is about r and s of full length in DER.

What the constants are assumed to be, and why:

* `RawAssumption`, `TransactionsAssumption`: a buffer of at most 256 cells; an action
  takes 18 bytes at least and the buffer has 1540.
* `PlansAssumption`: the host's header has a number of at most ten varint bytes, as
  every `unsigned long long` has.  The fields that the host makes up for its
  actions tell each action apart: the kinds of data in `Contents`, the flag and the
  producers of a vote (up to 255), and zero for what the action does not have.
* `ContentsAssumption`: at most twenty kinds of data, as many as leave the bytes of
  the fields apart; of each, the numbers and the length of the memo are any.
* `ByteAssumption`, `LengthAssumption`: a byte has at least 256 values, 32 bits are a
  whole number of bytes and no fewer than 16, and a transaction is shorter than
  a `uint16_t` counts; the raw buffer has 1540 bytes (`eos_types.h`).
* `DataAssumption`, `MarginAssumption`: a key is bytes, and eight of them are not more
  than eleven digits: 256^8 <= 58^11, which is what "138 / 100" rests on
  (138/100 > 11/8).
* `PromptAssumption`: the characters of base 58 and the checksum are bytes; a key with
  its version and its checksum is whole groups of five bytes (35); and the room
  that `encode_key` grants (56, `eos_utils.c`) holds its text, which is longer than
  its summary.
* `BytesAssumption`, `SignaturesAssumption`, `SizeAssumption`: r and s are numbers below
  the order of the curve, so that they have at most `SIZE` bytes.
* `ValuesAssumption`, `LettersAssumption`, `StackAssumption`: a name has 13 characters
  and a hash 32 bytes; an amount is an `int64_t` and the bytes of `sellram` a
  `uint64_t`; the bytes around `str` are any characters but NUL, which ends them.
* `RoomAssumption`: `AMOUNT_MAX_SIZE` (21, `eos_types.h`) is two more than the digits of
  the largest `int64_t`, so that the loops of `print_int` stop at the number and not
  at the size.  `PointerAssumption`: a pointer has four bytes on the device, eight
  in the tests.

`LengthIsHonest` is inductive with `TypeOK`: a chunk that is accepted is written
at a length that is the data's, and a refused one takes the length where no
chunk fits.  So is `KeepAliveIsDue`, with one fact about division
(`OneTickLess`): from a positive multiple one tick can be taken.  The others are
not inductive.  Their invariant, `ReviewInv`, adds

* `PromptHeld`: under a prompt, a command waits or the host owes a KEEP_ALIVE.
  Without it any handler could run under the prompt.
* `ReviewFits`: the place from which the *next* action will be read.  Between
  two actions `offset` is 0 or one more than `opIdx` (in cells); `opDetails` is
  the action at `opIdx`; the pointer is one of its own formatters or of the
  confirmation's.  Without it a tick could find a NULL pointer with the cursor
  in the wrong place and print an action under the caption of another.

`UsbInv` is what `PromptIffCommand` and `NoStrayAnswer` need: they are proved
together, with the interval armed only under a prompt and no `6e02` ever sent.

The work on the review is in `EosFormatProofs`: `SuccessorFits` (a formatter stores only
formatters of the same action), `ParsedActionIsPlaced` (a call that returns
stands on an action of the buffer, and the byte `opIdx` has not wrapped,
because what lies behind the data is never a known action), and
`NextScreenFits`, which joins them into one step of the review.  The step lemmas
of `EosAppProofs` then have one case per action.

`ApprovalIsImplemented` is a step simulation over `ReviewInv`.  The subject of a
prompt is computed from what its pages are printed from: of a transaction, the
digest of the buffer, not the digest that the handler put aside.  A command
that puts a prompt up is `Ask`, any other is `AnswerAtOnce` (and comes only while
there is no subject, by `PromptHeld`), KEEP_ALIVE is `Wait`, the timer's `6e02` is
`Busy`, and a button is `Approve` or `Refuse`.  That the signature sent is the
subject's is where `ReviewFits` is used.  A refused page is `Refuse` under a
prompt and `Busy`, or nothing, under a menu.

`PromptIsAlwaysRequested` and `AnswerIsAlwaysRequested` relate the context to what
the host asked for over several commands, and neither property is inductive.
`HostInv` adds `DataInv` to `ReviewInv`: while `job` is an upload the buffer holds its
data behind its path, with no address over it, and the request type is the
transaction's.  The step is `WriteAppends`: a chunk lands at the end of the data,
because the length is that of the data.  Under the prompt `PromptHeld` leaves only
KEEP_ALIVE, which does not touch the request, and `ReviewFits` gives the digest.

The three theorems about `EosMain` share `LoopInv`: a handler starts with `tx` 0
(`Handling`), what `io_exchange` is about to send is an answer to the command that
waits (`ReadyToSend`), and a command that still waits inside it waits for the
owner (`WaitsForOwner`).  `OneAnswerForEach` is the refinement of `Exchange`, one
step of the loop at a time.

`PagesStayHonest` and `ReviewIsASlideshow` have one invariant, `ReviewInv` of
`EosCarouselProofs`.  The page that is up does not determine what the next tick
shows: that is in the cursor, the pointer and the counter of producers.
`Stands(view, i, k)` says that page k of action i is up and the view is ready for
the page after it, and the invariant that this is so for some i and k (or the
review was refused).  `PartPrinted` steps through the chain of each kind of
action.  The whole show is the concatenation of its parts (`FlattenSeq`), which
is recursion over the transaction; `FlattenedSpread` gives each page its place
in it, and the step of `Slideshow` is from one place to the next.

`KeyInv` is the invariant of `b58enc`.  Between two bytes the digits denote the bytes
so far and are zero above `high`; in the middle of a byte (`ByteUnderWay`) the
digits that it has reached, the carry, and those that it has not add up to the
number with the byte.  That nothing is carried out of the array is `EnoughDigits`,
from the margin of the bases.  `TextDenotesTheKey` is the conversion at the end:
leading zero digits are dropped, and one "1" is put for each zero byte.

`PromptShowsTheEnds` states the text behind the prompt by the bits of its data
(`EosAddress!Base32`), while the code shifts bytes through a buffer.  Its
invariant, `PromptInv`, says which bits the low `bitsLeft` bits of `buffer` are
(`HoldsBits`), and that the characters so far are those of the bits before; as the
data are whole groups, the loop ends with no bit left and every character
written.  `AboutTheKey` says that the data are those of the address that the host
gets.  The buffer is cut to twelve bits in the model; that nothing above is ever
read is `KeptBits`.

`TestedIsSent` and `LastSignatureIsSent` go through the layout of DER: the invariant
`SignInv` says that the buffer starts with the encoding of the last signature,
behind which longer ones may have left bytes, and that the answer was taken from
a buffer that passed the test.

`VarintsAlwaysComeBack` has no state to speak of: `Written` says that the buffer is
what the host wrote.  The rest is the codec: `IsCode` is what `varint_encode` writes
(`EncodeIsWritten`), whatever reads such a code finds its end (`BytesOfCode`) and its
number (`SumOfCode`), and the code has the promised length (`LengthOfCode`); and the
code stands behind 42 bytes in every transaction (`TransactionIs`), which is
typed part by part.  `BytesTypeCorrect` adds that wherever the parser is in the
buffer, a varint ends: zeros follow the bytes (`BytesIsNatural`).

`BytesImplementCells` rests on the invariant `OnABoundary`: between two calls the offset
is 0, or the end of the cell that `opIdx` counts, and `opIdx` has not passed
`opCount` unless that is 0.  The refinement alone is not inductive: an offset inside
an action would be followed by any other.  The step needs the whole layout:
`TransactionIsLaidOut` gives each action its place in the bytes, `ActionIsSkipped`
follows `parse_op` over the account, the name, the authorizations and the declared
size to exactly that end (`OpEnd`), and `KnownIsAction` says that behind the last
action there is none (`TrailerIsUnknown`: no name is eight zeros).

What was read on the way is the other part.  `ActionIsRead` is that every
field of `opDetails` begins with the field of the ABI, action by action: the plain
structs (`PlainActionIsRead`), a vote with its producers (`VoteIsRead`), a new account
with the first key of both authorities (`NewAccountIsRead`, over
`AuthorityIsSkipped`).  The refinement goes backwards, from an offset to a number of
cells and from fields to a cell, so it needs both to be unique: ends increase
(`OneOffset`), and fields tell the action (`Identified`).  The invariant `OpIsRead`
says that `opDetails` is always that of some action, or the zeros of `MEMCLEAR`;
`StartsAlike` and `CellsNext` are the step, with the number of actions cut to 32 bits
and then to eight on one side, and to eight on the other (`CutTwice`).

`PagesShowTheValue` needs no strengthening: each page begins with `MEMCLEAR`, so a
step owes nothing to the page before but its size (`NextPage`).  What there is to
prove is the text, one lemma for each kind.  `NameIs`: the search of `rtrim` over
the bytes around `str`, which starts one character late and may leave the name,
finds the last character that is no dot, if the 13th is one.  `PrintIntIs`: the
digits that the loop takes from the right are those that the weights of the
places give from the left (`DigitsAre`, by induction on the number).
`FractionIs`: behind the 1 that is printed in front of a fraction each zero keeps
its place, and the move by `sizeof(ptr) + 1` characters takes the NUL along.
`BinarySummaryIs`: the first and last four bytes are the ends of the 66
characters of a hash.  `SummaryIs` cuts a text of more than 14 characters, and
`TerminatedIsRead` finds the NUL that the cleared buffer has behind a short one.

The encodings are recursion over data: a number is the sum of its digits, a
transaction the concatenation of its actions.  The theorems of the library
that define functions by recursion, or prove by induction, take an operator
and cannot be instantiated.  `DataProofs` gets along with sets: `LeastNatural` is the
library's well-founded order of the naturals, `SetInduction` is induction for a
set of naturals, and `RecursionExists` shows that a function with a given step
exists, which is what makes a recursive definition mean its equation.

Model-checked only:

* Liveness (`U2fIsAnswered`, `MalformedIsRefused`, `Returns`, `EveryRequestIsSigned`, and
  the fairness in `Slideshow`), which TLAPS does not prove.

Of three of them the safety half is proved, a number that no step can take below
zero and that falls with each one: `KeepAliveIsPunctual` (the timer falls by a tick
with every ticker event and by nothing else, and `KeepAliveStaysDue` has it meet
0), `NoPageComesBack` (the pages before the refusal; its lemma `TickIsAPage` says
that an expiry is a step of `Slideshow`, never none) and `EveryStepCounts` (the turns
of the loops: a digit for each of a byte's, a character for each of the room).
What is left to TLC is that a step is taken: fairness, and that one is enabled.
`EveryRequestIsSigned` has no such number: how many attempts it takes is up to
the TRNG.

Every invariant and every action property of a passing run is a theorem.

## 5. Not modelled

* Ledger Blue: at this commit it is no program that can run.  It refers to a field
  that `pk_context_t` no longer has (`eos_ux_blue.c:219`), a formatter it names has
  no definition for that target, and its confirmation formatters are empty
  (`eos_format_blue.c:36`), so the loop that prepares the details would not end.
* What a P1_FIRST chunk shorter than its path overwrites: `dataLength` wraps in the
  unguarded subtraction of `eos.c:106`, and in the model the application ends
  there (`SignTxFirstShort`).
* Transactions whose declared sizes are not those of the data: `EosBytes` has a
  host that encodes as EOSIO does.  An offset that wraps to 0 before the last
  action (`eos_parser.c:343`) is therefore not reached.
* What lies behind a full buffer: `EosParser` has zeros there, the code reads
  `rawLength` and `hash`.
* The padding of `base32_encode`, which no caller reaches.
* An r or s shorter than 32 bytes in DER: the answer is then no signature.
* The captions of the pages ("Producer #1" is `print_uint`'s), glyphs and fonts;
  functions of `eos_utils.c` that nothing calls.
* `crc16`, the hashes, the curve, the display and the transports; the SDK's
  sample `io_exchange_al`.
* The sign of an amount: `format_asset` drops it (`llabs`), and amounts in `text`
  are not negative.

## 6. Plan

1. *(done)* `EosParser`, `EosFormat`, `Slideshow`, `EosCarousel`, `EosApp`, and
   the theorems about them.
2. *(done)* `Approval` and its refinement, checked and proved; `Exchange` and
   `EosMain`; `EosVarint` and `EosBytes`; `EosText`; `EosPublicKey` and its two
   converters; `EosSign`.
3. *(done)* The theorems about the host's view of `EosApp` and about `EosMain`.
4. *(done)* Proofs about `EosCarousel`, `EosSign`, `EosPublicKey` and `EosBytes`, its
   refinement of `ParseLoop` among them.
5. *(done)* Proofs about `EosText`.
6. `ConfirmPublicKey` of `EosApp` with the texts of `EosPublicKey`, and the captions.
