---------------------------- MODULE EosAppProofs ----------------------------
(***************************************************************************)
(* Theorems about EosApp, for every number of paths, digests, transactions *)
(* and cells, every timeout and tick, and every transport: its invariants, *)
(* that it implements Approval, and that a host which keeps to the         *)
(* protocol is shown and answered what it asked for.                       *)
(***************************************************************************)
EXTENDS AppApproval, EosFormatProofs

-----------------------------------------------------------------------------
(***************************************************************************)
(* The transport (io_exchange, io_seproxyhal_respond).                     *)
(***************************************************************************)
LEMMA NoAnswerType == NoBody \in Bodies /\ NoAnswer \in Answers
<1>1. NoBody \in Bodies
  BY DEF NoBody, Bodies, ZeroHead, Heads, Hashes
<1> QED
  BY <1>1 DEF NoAnswer, Answer, Answers, StatusWords

LEMMA RespondType ==
    ASSUME NEW l \in Links, NEW sw \in StatusWords, NEW body \in Bodies
    PROVE  /\ Respond(l, sw, body) \in Links
           /\ Respond(l, sw, body).media = "none"
           /\ l.media # "none" => Respond(l, sw, body).reply = Answer(sw, body)
           /\ l.media # "none" => Respond(l, sw, body).stray = l.stray
<1>1. Answer(sw, body) \in Answers
  BY DEF Answer, Answers
<1>2. CASE l.media = "none"
  BY <1>2 DEF Respond, Links
<1>3. CASE l.media # "none"
  <2> DEFINE a == Answer(sw, body)
  <2>1. Respond(l, sw, body) = [l EXCEPT !.media = "none", !.reply = a]
    BY <1>3 DEF Respond
  <2>2. a \in Answers
    BY <1>1
  <2> HIDE DEF a
  <2>3. Respond(l, sw, body).reply = a
    BY <2>1, <2>2 DEF Links
  <2>4. Respond(l, sw, body) \in Links
    BY <2>1, <2>2 DEF Links
  <2>5. /\ Respond(l, sw, body).media = "none"
        /\ Respond(l, sw, body).stray = l.stray
    BY <2>1, <2>2 DEF Links
  <2> QED
    BY <2>3, <2>4, <2>5 DEF a
<1> QED
  BY <1>2, <1>3

LEMMA ReceivedType ==
    ASSUME TypeOK, NEW m \in MEDIA
    PROVE  /\ Received(m) \in Links
           /\ Received(m).media = m /\ m # "none"
           /\ Received(m).reply = NoAnswer
           /\ Received(m).stray = link.stray
<1> DEFINE a == NoAnswer
<1>1. a \in Answers
  BY NoAnswerType
<1>2. Received(m) = [link EXCEPT !.media = m, !.reply = a]
  BY DEF Received
<1> HIDE DEF a
<1>3. Received(m) \in Links /\ Received(m).media = m /\ Received(m).stray = link.stray
  BY <1>1, <1>2 DEF TypeOK, Links
<1>4. Received(m).reply = a
  BY <1>1, <1>2 DEF TypeOK, Links
<1> QED
  BY <1>3, <1>4, MediaAssumption DEF a

LEMMA JobType ==
    ASSUME NEW kind \in {"none", "other", "address", "upload", "sign", "hash", "keep_alive"},
           NEW path \in Paths \cup {NoPath}, NEW data \in Seq(Cells),
           NEW hash \in HostHashes \cup {ZeroHash}
    PROVE  Job(kind, path, data, hash) \in Jobs
BY DEF Job, Jobs

LEMMA NoJobType == NoJob \in Jobs /\ OtherJob \in Jobs
<1>1. << >> \in Seq(Cells)
  OBVIOUS
<1> QED
  BY <1>1, JobType DEF NoJob, OtherJob

-----------------------------------------------------------------------------
(***************************************************************************)
(* The request.                                                            *)
(***************************************************************************)
LEMMA HeadType ==
    /\ ZeroHead \in Heads
    /\ \A path \in Paths : PathHead(path) \in Heads /\ AddressHead(path) \in Heads
BY DEF Heads, ZeroHead, PathHead, AddressHead

LEMMA ZeroRequestType == ZeroRequest \in Requests
<1>1. << >> \in Seq(Cells)
  OBVIOUS
<1> QED
  BY <1>1, HeadType DEF ZeroRequest, Requests, Hashes, Overlays

(***************************************************************************)
(* A write at the position rawLength leaves a buffer that ends with what   *)
(* was written (os_memmove in handle_sign_tx).                             *)
(***************************************************************************)
LEMMA WriteType ==
    ASSUME NEW raw \in Seq(Cells), NEW position \in Nat, NEW chunk \in Seq(Cells)
    PROVE  /\ Write(raw, position, chunk) \in Seq(Cells)
           /\ Len(Write(raw, position, chunk)) = position + Len(chunk)
<1> DEFINE n == position + Len(chunk)
           cell(i) == IF i <= position THEN CellAt(raw, i) ELSE chunk[i - position]
<1>1. n \in Nat
  OBVIOUS
<1>2. ASSUME NEW i \in 1..n
      PROVE  cell(i) \in Cells
  <2>1. CASE i <= position
    BY <2>1, CellAtType
  <2>2. CASE i > position
    BY <2>2
  <2> QED
    BY <2>1, <2>2
<1>3. Write(raw, position, chunk) = [i \in 1..n |-> cell(i)]
  BY DEF Write
<1> HIDE DEF n, cell
<1>4. Write(raw, position, chunk) \in Seq(Cells) /\ Len(Write(raw, position, chunk)) = n
  BY <1>1, <1>2, <1>3
<1> QED
  BY <1>4 DEF n

(***************************************************************************)
(* A first chunk starts the request anew; a chunk that follows is written  *)
(* behind the length, which is the length of the data if the chunk fits.   *)
(***************************************************************************)
LEMMA FirstChunkType ==
    ASSUME NEW path \in Paths, NEW chunk \in Chunks
    PROVE  /\ FirstChunk(path, chunk) \in Requests
           /\ Len(FirstChunk(path, chunk).raw) <= MAX_RAW_TX
           /\ FirstChunk(path, chunk).rawLength = Len(FirstChunk(path, chunk).raw)
<1> DEFINE head == PathHead(path)
           n == Len(chunk)
           t == FirstChunk(path, chunk)
<1>1. chunk \in Seq(Cells) /\ n \in Nat /\ n <= MAX_RAW_TX
  BY ChunksAssumption
<1>2. head \in Heads
  BY HeadType
<1>3. t = [ZeroRequest EXCEPT !.head = head, !.raw = chunk, !.rawLength = n]
  BY DEF FirstChunk
<1> HIDE DEF head, t
<1>4. t \in Requests
  BY <1>1, <1>2, <1>3, ZeroRequestType DEF Requests
<1>5. t.raw = chunk /\ t.rawLength = n
  BY <1>3, ZeroRequestType DEF Requests
<1> QED
  BY <1>1, <1>4, <1>5 DEF t

LEMMA MoreChunkType ==
    ASSUME TypeOK, NEW chunk \in Chunks
    PROVE  /\ MoreChunk(chunk) \in Requests
           /\ Fits(chunk) => /\ Len(MoreChunk(chunk).raw) <= MAX_RAW_TX
                             /\ MoreChunk(chunk).rawLength = Len(MoreChunk(chunk).raw)
<1> DEFINE raw == Write(tx.raw, tx.rawLength, chunk)
           n == tx.rawLength + Len(chunk)
           overlay == IF tx.rawLength = 0 /\ chunk # <<>> THEN NoPath ELSE tx.overlay
           t == MoreChunk(chunk)
<1>1. tx \in Requests
  BY DEF TypeOK
<1>2. chunk \in Seq(Cells)
  BY ChunksAssumption
<1>3. raw \in Seq(Cells) /\ Len(raw) = n
  BY <1>1, <1>2, WriteType DEF Requests
<1>4. n \in Nat
  BY <1>1, <1>2 DEF Requests
<1>5. overlay \in Overlays
  BY <1>1 DEF Requests, Overlays
<1>6. t = [tx EXCEPT !.raw = raw, !.rawLength = n, !.overlay = overlay]
  BY DEF MoreChunk
<1>7. Fits(chunk) => n <= MAX_RAW_TX
  BY DEF Fits
<1> HIDE DEF raw, n, overlay, t
<1>8. t \in Requests
  BY <1>1, <1>3, <1>4, <1>5, <1>6 DEF Requests
<1>9. t.raw = raw /\ t.rawLength = n
  BY <1>1, <1>6 DEF Requests
<1> QED
  BY <1>3, <1>7, <1>8, <1>9 DEF t

LEMMA WithAddressType ==
    ASSUME TypeOK, NEW path \in Paths
    PROVE  /\ WithAddress(path) \in Requests
           /\ WithAddress(path).raw = tx.raw
           /\ WithAddress(path).rawLength = tx.rawLength
<1> DEFINE head == AddressHead(path)
<1>1. WithAddress(path) = [tx EXCEPT !.head = head, !.overlay = path]
  BY DEF WithAddress
<1>2. head \in Heads
  BY HeadType
<1> HIDE DEF head
<1> QED
  BY <1>1, <1>2 DEF TypeOK, Requests, Overlays

(***************************************************************************)
(* cx_hash_sha256 stores the digest of what it leaves in the context.      *)
(***************************************************************************)
LEMMA HashedType ==
    ASSUME NEW t \in Requests
    PROVE  /\ Hashed(t) \in Requests
           /\ Hashed(t).raw = t.raw /\ Hashed(t).rawLength = t.rawLength
           /\ Hashed(t).hash = Sha256(Hashed(t))
<1> DEFINE hash == Sha256(t)
           u == Hashed(t)
<1>1. hash \in Hashes
  BY DEF Sha256, Hashes, Digests, Requests
<1>2. u = [t EXCEPT !.hash = hash]
  BY DEF Hashed
<1> HIDE DEF hash, u
<1>3. u \in Requests
  BY <1>1, <1>2 DEF Requests
<1>4. u.raw = t.raw /\ u.rawLength = t.rawLength /\ u.overlay = t.overlay /\ u.hash = hash
  BY <1>2 DEF Requests
<1>5. Sha256(u) = hash
  BY <1>4 DEF Sha256, hash
<1> QED
  BY <1>3, <1>4, <1>5 DEF u

LEMMA ClearedType ==
    ASSUME NEW v \in Views
    PROVE  Cleared(v) \in Views
<1> DEFINE op == ZeroOp
           w == Cleared(v)
<1>1. op \in Ops
  BY ZeroCellType
<1>2. w = [v EXCEPT !.offset = 0, !.opCount = 0, !.opIdx = 0, !.op = op]
  BY DEF Cleared
<1> HIDE DEF op, w
<1>3. w \in Views
  BY <1>1, <1>2 DEF Views
<1> QED
  BY <1>3 DEF w

(***************************************************************************)
(* A review begins at the header, with no formatter (ui_approve_tx_init).  *)
(***************************************************************************)
LEMMA RewoundType ==
    ASSUME NEW v \in Views
    PROVE  Rewound(v) \in Views /\ Rewound(v).formatter = NULL /\ Rewound(v).offset = 0
<1> DEFINE f == NULL
           w == Rewound(v)
<1>1. w = [v EXCEPT !.offset = 0, !.formatter = f]
  BY DEF Rewound
<1> HIDE DEF f, w
<1>2. f \in Formatters \cup {NULL}
  BY DEF f
<1>3. w \in Views /\ w.formatter = f /\ w.offset = 0
  BY <1>1, <1>2 DEF Views
<1> QED
  BY <1>3 DEF f, w

(***************************************************************************)
(* The pages of the hash chain lead to each other (format_confirm_hash).   *)
(***************************************************************************)
LEMMA HashChainCloses ==
    ASSUME NEW v \in Views, v.formatter \in Formatters, v.formatter.of = "hash"
    PROVE  NextFormatter(v).of = "hash"
<1>1. NextFormatter(v) = NextInHash(v.formatter)
  BY DEF NextFormatter, ConfirmOperation, VoteVoter, VoteProxy, VoteProducers, Formatter
<1> QED
  BY <1>1 DEF NextInHash, NextInChain, Formatter

LEMMA HashPageType ==
    ASSUME NEW v \in Views
    PROVE  /\ HashPage(v) \in Views
           /\ HashPage(v).formatter.of = "hash" /\ HashPage(v).page.by.of = "hash"
<1> DEFINE f == Formatter("hash", 1)
           u == [v EXCEPT !.formatter = f]
<1>1. f \in Formatters /\ f.of = "hash"
  BY DEF Formatter, Formatters, Families
<1> HIDE DEF f
<1>2. u \in Views /\ u.formatter = f
  BY <1>1 DEF Views
<1>3. HashPage(v) = PrintPage(u)
  BY DEF HashPage, f
<1> HIDE DEF u
<1> QED
  BY <1>1, <1>2, <1>3, PrintPageType, PageType, HashChainCloses

-----------------------------------------------------------------------------
(***************************************************************************)
(* What an answered command, a waiting one and a tick do to the transport, *)
(* to the timer and to the display (handle_apdu, io_event).                *)
(***************************************************************************)
LEMMA BodyType ==
    ASSUME TypeOK
    PROVE  /\ \A head \in Heads : AddressBody(head) \in Bodies
           /\ SignatureBody(tx) \in Bodies
           /\ NoBody \in Bodies
BY NoAnswerType DEF AddressBody, SignatureBody, Bodies, Hashes, TypeOK, Requests

LEMMA TimerSetType == TimerSet \in 0..(UINT16 - 1)
BY TimerAssumption DEF TimerSet

LEMMA AtOnceType ==
    ASSUME TypeOK, NEW m \in MEDIA, NEW sw \in StatusWords, NEW body \in Bodies,
           AnswerAtOnce(m, sw, body)
    PROVE  /\ link' \in Links /\ u2fTimer' \in 0..(UINT16 - 1)
           /\ screen' = screen /\ armed' = armed
BY TimerSetType, ReceivedType, RespondType DEF AnswerAtOnce

LEMMA LaterType ==
    ASSUME TypeOK, NEW m \in MEDIA, AnswerLater(m)
    PROVE  /\ link' \in Links /\ u2fTimer' \in 0..(UINT16 - 1)
           /\ link'.media # "none"
BY TimerSetType, ReceivedType DEF AnswerLater, Waiting

LEMMA ScreenType ==
    /\ \A prompt \in Prompts :
         ShowPrompt(prompt) => screen' \in Menus \cup Prompts /\ armed' \in BOOLEAN
    /\ TypeOK => \A menu \in Menus :
         ShowMenu(menu) => screen' \in Menus \cup Prompts /\ armed' \in BOOLEAN
    /\ ui_idle => ShowMenu("menu_main") /\ "menu_main" \in Menus
BY DEF ShowPrompt, ShowMenu, ui_idle, TypeOK, Menus

LEMMA TimerLeftType ==
    ASSUME TypeOK
    PROVE  /\ TimerLeft \in 0..(UINT16 - 1)
           /\ LinkAfterTimer \in Links
<1>1. TimerLeft \in 0..(UINT16 - 1)
  <2>1. u2fTimer \in Int /\ TICK \in Int /\ UINT16 \in Nat \ {0}
    BY TimerAssumption DEF TypeOK
  <2>2. (u2fTimer - TICK) % UINT16 \in 0..(UINT16 - 1)
    BY <2>1
  <2> QED
    BY <2>2 DEF TimerLeft, TypeOK
<1>2. LinkAfterTimer \in Links
  <2>1. "6e02" \in StatusWords
    BY DEF StatusWords
  <2> QED
    BY <2>1, RespondType, NoAnswerType DEF LinkAfterTimer, TypeOK
<1> QED
  BY <1>1, <1>2

(***************************************************************************)
(* The two ends of a SIGN_TX command, for any request t that fits the      *)
(* types (handle_sign_tx).                                                 *)
(***************************************************************************)
LEMMA AcceptChunkType ==
    ASSUME TypeOK, NEW m \in MEDIA, NEW t \in Requests, NEW v \in Views,
           NEW upload \in Jobs, AcceptChunk(m, t, v, upload)
    PROVE  /\ link' \in Links /\ u2fTimer' \in 0..(UINT16 - 1)
           /\ screen' = screen /\ armed' = armed
           /\ tx' \in Requests /\ view' \in Views /\ job' \in Jobs
<1>1. "9000" \in StatusWords
  BY DEF StatusWords
<1>2. AnswerAtOnce(m, "9000", NoBody)
  BY DEF AcceptChunk
<1> QED
  BY <1>1, <1>2, AtOnceType, NoAnswerType DEF AcceptChunk

LEMMA ScreenStatusType ==
    ASSUME NEW raw, NEW v
    PROVE  ScreenStatus(raw, v) \in {"9000", "6900", "6e10"}
BY StatusType DEF ScreenStatus

LEMMA AskApprovalType ==
    ASSUME TypeOK, NEW m \in MEDIA, NEW t \in Requests, NEW v \in Views,
           NEW request \in Jobs, AskApproval(m, t, v, request)
    PROVE  /\ link' \in Links /\ u2fTimer' \in 0..(UINT16 - 1)
           /\ screen' \in Menus \cup Prompts /\ armed' \in BOOLEAN
           /\ tx' \in Requests /\ view' \in Views /\ job' \in Jobs
<1> DEFINE sw == ScreenStatus(t.raw, Rewound(v))
<1>1. sw \in StatusWords
  BY ScreenStatusType DEF StatusWords
<1>2. t.raw \in Seq(Cells)
  BY DEF Requests
<1>3. tx' \in Requests /\ view' \in Views /\ job' \in Jobs
  BY <1>2, HashedType, RewoundType, NextScreenType DEF AskApproval
<1>4. u2fTimer' \in 0..(UINT16 - 1)
  BY TimerSetType DEF AskApproval
<1>5. CASE sw = "9000"
  <2>1. link' = Waiting(m) /\ ShowPrompt("approve_tx")
    BY <1>5 DEF AskApproval
  <2>2. link' \in Links
    BY <2>1, ReceivedType DEF Waiting
  <2>3. "approve_tx" \in Prompts
    BY DEF Prompts
  <2> QED
    BY <1>3, <1>4, <2>1, <2>2, <2>3, ScreenType
<1>6. CASE sw # "9000"
  <2>1. link' = Respond(Received(m), sw, NoBody) /\ ui_idle
    BY <1>6 DEF AskApproval
  <2>2. link' \in Links
    BY <1>1, <2>1, ReceivedType, RespondType, NoAnswerType
  <2> QED
    BY <1>3, <1>4, <2>1, <2>2, ScreenType
<1> QED
  BY <1>5, <1>6

LEMMA ContinuedType ==
    ASSUME TypeOK, NEW kind \in {"upload", "sign"}, NEW chunk \in Chunks
    PROVE  Continued(kind, chunk) \in Jobs
<1>1. CASE job.kind = "upload"
  <2>1. job.path \in Paths \cup {NoPath} /\ job.data \in Seq(Cells)
    BY DEF TypeOK, Jobs
  <2>2. chunk \in Seq(Cells)
    BY ChunksAssumption
  <2>3. job.data \o chunk \in Seq(Cells)
    BY <2>1, <2>2
  <2> QED
    BY <1>1, <2>1, <2>3, JobType DEF Continued
<1>2. CASE job.kind # "upload"
  BY <1>2, NoJobType DEF Continued
<1> QED
  BY <1>1, <1>2

-----------------------------------------------------------------------------
(***************************************************************************)
(* Type correctness: one lemma for the commands, then one step for each of *)
(* the other actions.                                                      *)
(***************************************************************************)
LEMMA CommandType ==
    ASSUME TypeOK, NEW m \in MEDIA, Command(m)
    PROVE  TypeOK'
<1> USE DEF TypeOK
<1> DEFINE AtOnce == \E sw \in StatusWords, body \in Bodies : AnswerAtOnce(m, sw, body)
<1>1. AtOnce => /\ link' \in Links /\ u2fTimer' \in 0..(UINT16 - 1)
                /\ screen' = screen /\ armed' = armed
  BY AtOnceType
<1>2. /\ {"6e00", "6982", "6d00", "6b00", "6a80", "6700", "6c66", "9000", "68xx"}
           \subseteq StatusWords
      /\ NoBody \in Bodies
  BY NoAnswerType DEF StatusWords, HandlerErrors
<1>3. OtherJob \in Jobs
  BY NoJobType
<1>4. << >> \in Seq(Cells)
  OBVIOUS
<1>5. CASE NoCommand(m)
  <2>1. Received(m) \in Links
    BY ReceivedType
  <2>2. PICK sw \in {"6982", "6e00"} : link' = Respond(Received(m), sw, NoBody)
    BY <1>5 DEF NoCommand
  <2>3. sw \in StatusWords
    BY <1>2, <2>2
  <2>4. link' \in Links
    BY <1>2, <2>1, <2>2, <2>3, RespondType
  <2>5. UNCHANGED <<screen, armed, reqType, hashSigning, u2fTimer, tx, view>>
    BY <1>5 DEF NoCommand
  <2>6. job' \in Jobs
    BY <1>3, <1>5 DEF NoCommand
  <2> QED
    BY <2>4, <2>5, <2>6
<1>6. CASE BadCommand(m)
  <2>1. AtOnce
    BY <1>2, <1>6 DEF BadCommand
  <2> QED
    BY <1>1, <1>3, <1>6, <2>1 DEF BadCommand
<1>7. CASE GetAppConfiguration(m)
  <2>1. AtOnce
    BY <1>2, <1>7 DEF GetAppConfiguration
  <2> QED
    BY <1>1, <1>3, <1>7, <2>1 DEF GetAppConfiguration
<1>8. CASE GetPublicKeyBadPath(m)
  <2>1. AtOnce
    BY <1>2, <1>8 DEF GetPublicKeyBadPath
  <2> QED
    BY <1>1, <1>3, <1>8, <2>1 DEF GetPublicKeyBadPath
<1>9. ASSUME NEW path \in Paths, GetPublicKey(m, path)
      PROVE  TypeOK'
  <2>1. WithAddress(path) \in Requests
    BY WithAddressType
  <2>2. AddressBody(WithAddress(path).head) \in Bodies
    BY <2>1, BodyType DEF Requests
  <2>3. AtOnce
    BY <1>2, <1>9, <2>2 DEF GetPublicKey
  <2>4. job' \in Jobs
    BY <1>4, <1>9, JobType DEF GetPublicKey
  <2> QED
    BY <1>1, <1>9, <2>1, <2>3, <2>4 DEF GetPublicKey
<1>10. ASSUME NEW path \in Paths, ConfirmPublicKey(m, path)
       PROVE  TypeOK'
  <2>1. link' \in Links /\ u2fTimer' \in 0..(UINT16 - 1)
    BY <1>10, LaterType DEF ConfirmPublicKey
  <2>2. screen' \in Menus \cup Prompts /\ armed' \in BOOLEAN
    BY <1>10 DEF ConfirmPublicKey, ShowPrompt, Prompts
  <2>3. job' \in Jobs
    BY <1>4, <1>10, JobType DEF ConfirmPublicKey
  <2> QED
    BY <1>10, <2>1, <2>2, <2>3, WithAddressType DEF ConfirmPublicKey
<1>11. CASE SignTxBadPath(m)
  <2>1. AtOnce
    BY <1>2, <1>11 DEF SignTxBadPath
  <2> QED
    BY <1>1, <1>3, <1>11, <2>1, ZeroRequestType, ClearedType DEF SignTxBadPath
<1>12. ASSUME NEW path \in Paths, NEW chunk \in Chunks, SignTxFirst(m, path, chunk)
       PROVE  TypeOK'
  <2>1. FirstChunk(path, chunk) \in Requests /\ Cleared(view) \in Views
    BY FirstChunkType, ClearedType
  <2>2. chunk \in Seq(Cells)
    BY ChunksAssumption
  <2>3. /\ Job("upload", path, chunk, ZeroHash) \in Jobs
        /\ Job("sign", path, chunk, ZeroHash) \in Jobs
    BY <2>2, JobType
  <2>4. reqType' = "CONFIRM_TRANSACTION" /\ hashSigning' = hashSigning
    BY <1>12 DEF SignTxFirst, TransactionType
  <2>5. /\ link' \in Links /\ u2fTimer' \in 0..(UINT16 - 1)
        /\ screen' \in Menus \cup Prompts /\ armed' \in BOOLEAN
        /\ tx' \in Requests /\ view' \in Views /\ job' \in Jobs
    BY <1>12, <2>1, <2>3, AcceptChunkType, AskApprovalType DEF SignTxFirst
  <2> QED
    BY <2>4, <2>5
<1>13. ASSUME NEW chunk \in Chunks, SignTxMore(m, chunk)
       PROVE  TypeOK'
  <2>1. MoreChunk(chunk) \in Requests
    BY MoreChunkType
  <2>2. Continued("upload", chunk) \in Jobs /\ Continued("sign", chunk) \in Jobs
    BY ContinuedType
  <2>3. /\ link' \in Links /\ u2fTimer' \in 0..(UINT16 - 1)
        /\ screen' \in Menus \cup Prompts /\ armed' \in BOOLEAN
        /\ tx' \in Requests /\ view' \in Views /\ job' \in Jobs
    BY <1>13, <2>1, <2>2, AcceptChunkType, AskApprovalType DEF SignTxMore
  <2> QED
    BY <1>13, <2>3 DEF SignTxMore
<1>14. ASSUME NEW chunk \in Chunks, SignTxTooLong(m, chunk)
       PROVE  TypeOK'
  <2>1. AtOnce
    BY <1>2, <1>14 DEF SignTxTooLong
  <2>2. chunk \in Seq(Cells)
    BY ChunksAssumption
  <2>3. tx' \in Requests
    BY <1>14, <2>2 DEF SignTxTooLong, Requests
  <2> QED
    BY <1>1, <1>3, <1>14, <2>1, <2>3 DEF SignTxTooLong
<1>15. CASE SignTxHashDisabled(m)
  <2>1. AtOnce
    BY <1>2, <1>15 DEF SignTxHashDisabled
  <2> QED
    BY <1>1, <1>3, <1>15, <2>1 DEF SignTxHashDisabled
<1>16. CASE SignTxHashBadData(m)
  <2>1. AtOnce
    BY <1>2, <1>16 DEF SignTxHashBadData
  <2>2. \A path \in Paths : [ZeroRequest EXCEPT !.head = PathHead(path)] \in Requests
    BY ZeroRequestType, HeadType DEF Requests
  <2>3. tx' \in Requests
    BY <1>16, <2>2, ZeroRequestType DEF SignTxHashBadData
  <2> QED
    BY <1>1, <1>3, <1>16, <2>1, <2>3, ClearedType DEF SignTxHashBadData
<1>17. ASSUME NEW path \in Paths, NEW hash \in HostHashes, SignTxHash(m, path, hash)
       PROVE  TypeOK'
  <2>1. link' \in Links /\ u2fTimer' \in 0..(UINT16 - 1)
    BY <1>17, LaterType DEF SignTxHash
  <2>2. screen' \in Menus \cup Prompts /\ armed' \in BOOLEAN
    BY <1>17 DEF SignTxHash, ShowPrompt, Prompts
  <2>3. job' \in Jobs
    BY <1>4, <1>17, JobType DEF SignTxHash
  <2>4. tx' \in Requests
    BY <1>17, ZeroRequestType, HeadType DEF SignTxHash, Requests, Hashes
  <2> QED
    BY <1>17, <2>1, <2>2, <2>3, <2>4, ClearedType, HashPageType DEF SignTxHash
<1>18. CASE KeepAlive(m)
  <2>1. link' \in Links /\ u2fTimer' \in 0..(UINT16 - 1)
    BY <1>18, LaterType DEF KeepAlive
  <2>2. job' \in Jobs
    BY <1>4, <1>18, JobType DEF KeepAlive
  <2> QED
    BY <1>18, <2>1, <2>2 DEF KeepAlive
<1>19. CASE GetPublicKeyFails(m)
  <2>1. AtOnce
    BY <1>2, <1>19 DEF GetPublicKeyFails
  <2>2. tx' \in Requests
    BY <1>19, HeadType DEF GetPublicKeyFails, Requests, Overlays
  <2> QED
    BY <1>1, <1>3, <1>19, <2>1, <2>2 DEF GetPublicKeyFails
<1> QED
  BY <1>5, <1>6, <1>7, <1>8, <1>9, <1>10, <1>11, <1>12, <1>13, <1>14, <1>15,
     <1>16, <1>17, <1>18, <1>19 DEF Command

LEMMA TickType ==
    ASSUME TypeOK, Tick
    PROVE  TypeOK'
<1>1. tx.raw \in Seq(Cells) /\ view \in Views
  BY DEF TypeOK, Requests
<1>2. TimerLeft \in 0..(UINT16 - 1) /\ LinkAfterTimer \in Links
  BY TimerLeftType
<1>3. NextScreen(tx.raw, view) \in Views
  BY <1>1, NextScreenType
<1>4. (screen \in Prompts) \in BOOLEAN
  OBVIOUS
<1>5. CASE TickTimer
  BY <1>2, <1>5 DEF TickTimer, Tick, TypeOK
<1>6. CASE TickSuspended
  BY <1>2, <1>6 DEF TickSuspended, Tick, TypeOK
<1>7. CASE TickAddress
  BY <1>2, <1>4, <1>7 DEF TickAddress, Redisplay, Tick, TypeOK
<1>8. CASE TickNextPage
  BY <1>2, <1>3, <1>4, <1>8 DEF TickNextPage, Redisplay, Tick, TypeOK
<1>9. CASE TickRefused
  <2>1. ScreenStatus(tx.raw, view) \in StatusWords
    BY ScreenStatusType DEF StatusWords
  <2>2. link' \in Links
    BY <1>2, <1>9, <2>1, RespondType, NoAnswerType DEF TickRefused
  <2> QED
    BY <1>2, <1>3, <1>9, <2>2 DEF TickRefused, RefusedToIdle, Menus, Tick, TypeOK
<1> QED
  BY <1>5, <1>6, <1>7, <1>8, <1>9 DEF Tick

LEMMA OwnerType ==
    ASSUME TypeOK, Owner
    PROVE  TypeOK'
<1>1. /\ AddressBody(tx.head) \in Bodies /\ SignatureBody(tx) \in Bodies
      /\ NoBody \in Bodies
  BY BodyType DEF TypeOK, Requests
<1>2. ASSUME NEW sw \in {"9000", "6985"}, NEW body \in Bodies, Decide(sw, body)
      PROVE  TypeOK'
  <2>1. sw \in StatusWords
    BY DEF StatusWords
  <2>2. link' \in Links
    BY <1>2, <2>1, RespondType DEF Decide, TypeOK
  <2>3. screen' \in Menus \cup Prompts /\ armed' \in BOOLEAN
    BY <1>2, ScreenType DEF Decide, BackToIdle
  <2> QED
    BY <1>2, <2>2, <2>3 DEF Decide, TypeOK
<1>3. CASE AddressOk \/ AddressCancel
  BY <1>1, <1>2, <1>3 DEF AddressOk, AddressCancel
<1>4. CASE TxOk \/ TxCancel
  BY <1>1, <1>2, <1>4 DEF TxOk, TxCancel
<1>5. \A from, to \in Menus :
        OpenMenu(from, to) => screen' \in Menus \cup Prompts /\ armed' \in BOOLEAN
  BY ScreenType DEF OpenMenu
<1>6. CASE BrowseMenus
  BY <1>5, <1>6 DEF BrowseMenus, Menus, TypeOK
<1>7. CASE ChangeHashSigning
  BY <1>5, <1>7 DEF ChangeHashSigning, Menus, TypeOK
<1> QED
  BY <1>3, <1>4, <1>6, <1>7 DEF Owner

LEMMA InitialTypes ==
    /\ [media |-> "none", reply |-> NoAnswer, stray |-> FALSE] \in Links
    /\ NoJob \in Jobs /\ ZeroRequest \in Requests /\ InitView \in Views
<1>1. [media |-> "none", reply |-> NoAnswer, stray |-> FALSE] \in Links
  BY NoAnswerType DEF Links
<1>2. NoPage \in Pages
  <2>1. ConfirmTransaction \in Formatters
    BY DEF ConfirmTransaction, Formatter, Formatters, Families
  <2> QED
    BY <2>1, ZeroCellType DEF NoPage, Pages, PageKinds
<1>3. InitView \in Views
  BY <1>2, ZeroCellType DEF InitView, Views
<1> QED
  BY <1>1, <1>3, NoJobType, ZeroRequestType

LEMMA RestartType ==
    ASSUME Restart
    PROVE  TypeOK'
<1>1. link' \in Links /\ job' \in Jobs /\ tx' \in Requests /\ view' \in Views
  BY InitialTypes DEF Restart
<1>2. armed' \in BOOLEAN /\ hashSigning' \in BOOLEAN
  BY Zenon DEF Restart
<1>3. u2fTimer' \in 0..(UINT16 - 1)
  BY TimerAssumption DEF Restart
<1>4. screen' \in Menus \cup Prompts /\ reqType' = "CONFIRM_ADDRESS"
  BY DEF Restart, Menus
<1> QED
  BY <1>1, <1>2, <1>3, <1>4 DEF TypeOK

LEMMA TypeInit == Init => TypeOK
<1> SUFFICES ASSUME Init
             PROVE  TypeOK
  OBVIOUS
<1>1. link \in Links /\ job \in Jobs /\ tx \in Requests /\ view \in Views
  BY InitialTypes DEF Init
<1>2. armed \in BOOLEAN /\ hashSigning \in BOOLEAN
  BY Zenon DEF Init
<1>3. u2fTimer \in 0..(UINT16 - 1)
  BY TimerAssumption DEF Init
<1>4. screen \in Menus \cup Prompts /\ reqType = "CONFIRM_ADDRESS"
  BY DEF Init, Menus
<1> QED
  BY <1>1, <1>2, <1>3, <1>4 DEF TypeOK

LEMMA TypeNext == TypeOK /\ [Next]_vars => TypeOK'
<1> SUFFICES ASSUME TypeOK, [Next]_vars
             PROVE  TypeOK'
  OBVIOUS
<1>1. ASSUME NEW m \in MEDIA, Command(m)
      PROVE  TypeOK'
  BY <1>1, CommandType
<1>2. CASE Owner
  BY <1>2, OwnerType
<1>3. CASE Tick
  BY <1>3, TickType
<1>4. CASE RedrawByOs
  BY <1>4 DEF RedrawByOs, TypeOK
<1>5. CASE Restart
  BY <1>5, RestartType
<1>6. CASE UNCHANGED vars
  BY <1>6 DEF vars, TypeOK
<1> QED
  BY <1>1, <1>2, <1>3, <1>4, <1>5, <1>6 DEF Next, SignTxFirstShort

(***************************************************************************)
(* Every variable keeps its type, whatever the host sends and the owner    *)
(* does: in particular no sequence of pages, parses and refusals leaves a  *)
(* function pointer that is not a formatter, and the timer stays a         *)
(* uint16_t.                                                               *)
(***************************************************************************)
THEOREM TypeCorrect == Spec => []TypeOK
<1>1. Init => TypeOK
  BY TypeInit
<1>2. TypeOK /\ [Next]_vars => TypeOK'
  BY TypeNext
<1> QED
  BY <1>1, <1>2, PTL DEF Spec

-----------------------------------------------------------------------------
(***************************************************************************)
(* The length of the data.  A chunk is accepted only if it fits            *)
(* (eos.c:114), a refused one takes the length past MAX_RAW_TX, where no   *)
(* later chunk fits, and an address may be written over the first bytes in *)
(* between.                                                                *)
(***************************************************************************)
LEMMA AskedLength ==
    ASSUME NEW m, NEW t \in Requests, NEW v, NEW request,
           Len(t.raw) <= MAX_RAW_TX, t.rawLength = Len(t.raw),
           AcceptChunk(m, t, v, request) \/ AskApproval(m, t, v, request)
    PROVE  LengthIsHonest'
<1>1. tx' = t \/ tx' = Hashed(t)
  BY DEF AcceptChunk, AskApproval
<1>2. Len(tx'.raw) <= MAX_RAW_TX /\ tx'.rawLength = Len(tx'.raw)
  BY <1>1, HashedType
<1> QED
  BY <1>2 DEF LengthIsHonest

LEMMA ZeroLength ==
    /\ ZeroRequest.raw = <<>> /\ ZeroRequest.rawLength = 0
    /\ \A path \in Paths, hash \in HostHashes :
         LET t == [ZeroRequest EXCEPT !.head = PathHead(path), !.hash = hash]
             u == [ZeroRequest EXCEPT !.head = PathHead(path)]
         IN  t.raw = <<>> /\ t.rawLength = 0 /\ u.raw = <<>> /\ u.rawLength = 0
BY DEF ZeroRequest

LEMMA LengthNext == TypeOK /\ LengthIsHonest /\ [Next]_vars => LengthIsHonest'
<1> SUFFICES ASSUME TypeOK, LengthIsHonest, [Next]_vars
             PROVE  LengthIsHonest'
  OBVIOUS
<1>1. tx' = tx => LengthIsHonest'
  BY DEF LengthIsHonest
<1>2. tx'.raw = <<>> /\ tx'.rawLength = 0 => LengthIsHonest'
  BY RawAssumption DEF LengthIsHonest
<1>3. ASSUME NEW m \in MEDIA, Command(m)
      PROVE  LengthIsHonest'
  <2>1. CASE \/ NoCommand(m) \/ BadCommand(m) \/ GetAppConfiguration(m)
             \/ GetPublicKeyBadPath(m) \/ SignTxHashDisabled(m) \/ KeepAlive(m)
    BY <1>1, <2>1 DEF NoCommand, BadCommand, GetAppConfiguration,
       GetPublicKeyBadPath, SignTxHashDisabled, KeepAlive
  <2>2. ASSUME NEW path \in Paths, GetPublicKey(m, path) \/ ConfirmPublicKey(m, path)
        PROVE  LengthIsHonest'
    BY <2>2, WithAddressType DEF GetPublicKey, ConfirmPublicKey, LengthIsHonest
  <2>3. CASE SignTxBadPath(m)
    BY <1>2, <2>3, ZeroLength DEF SignTxBadPath
  <2>4. ASSUME NEW path \in Paths, NEW chunk \in Chunks, SignTxFirst(m, path, chunk)
        PROVE  LengthIsHonest'
    BY <2>4, FirstChunkType, AskedLength DEF SignTxFirst
  <2>5. ASSUME NEW chunk \in Chunks, SignTxMore(m, chunk)
        PROVE  LengthIsHonest'
    BY <2>5, MoreChunkType, AskedLength DEF SignTxMore
  <2>6. ASSUME NEW chunk \in Chunks, SignTxTooLong(m, chunk)
        PROVE  LengthIsHonest'
    <3>1. tx \in Requests /\ Len(chunk) \in Nat
      BY ChunksAssumption DEF TypeOK
    <3>2. tx'.raw = tx.raw /\ tx'.rawLength = tx.rawLength + Len(chunk)
      BY <2>6, <3>1 DEF SignTxTooLong, Requests
    <3>3. ~(tx'.rawLength <= MAX_RAW_TX)
      BY <2>6, <3>2 DEF SignTxTooLong, Fits
    <3> QED
      BY <3>2, <3>3 DEF LengthIsHonest
  <2>7. CASE SignTxHashBadData(m)
    <3>1. tx'.raw = <<>> /\ tx'.rawLength = 0
      BY <2>7 DEF SignTxHashBadData, ZeroRequest
    <3> QED
      BY <1>2, <3>1
  <2>8. ASSUME NEW path \in Paths, NEW hash \in HostHashes, SignTxHash(m, path, hash)
        PROVE  LengthIsHonest'
    BY <1>2, <2>8, ZeroLength DEF SignTxHash
  <2>9. CASE GetPublicKeyFails(m)
    <3>1. tx'.raw = tx.raw /\ tx'.rawLength = tx.rawLength
      BY <2>9 DEF GetPublicKeyFails, TypeOK, Requests
    <3> QED
      BY <3>1 DEF LengthIsHonest
  <2> QED
    BY <1>3, <2>1, <2>2, <2>3, <2>4, <2>5, <2>6, <2>7, <2>8, <2>9 DEF Command
<1>4. CASE Owner
  <2>1. tx' = tx
    BY <1>4 DEF Owner, AddressOk, AddressCancel, TxOk, TxCancel, Decide,
       BrowseMenus, ChangeHashSigning
  <2> QED
    BY <1>1, <2>1
<1>5. CASE Tick \/ RedrawByOs \/ UNCHANGED vars
  BY <1>1, <1>5 DEF Tick, RedrawByOs, vars
<1>6. CASE Restart
  BY <1>2, <1>6, ZeroLength DEF Restart
<1> QED
  BY <1>3, <1>4, <1>5, <1>6 DEF Next, SignTxFirstShort

(***************************************************************************)
(* Up to MAX_RAW_TX the length is that of the data, and the data stay in   *)
(* the buffer, for every order of commands, chunks and refusals            *)
(* (eos.c:114).  The theorem is about chunks whose length is what is       *)
(* written: a P1_FIRST that ends before its path does, which makes the     *)
(* length wrap (eos.c:106), ends the application in the model, so what     *)
(* the buffer holds after one is not claimed.                              *)
(***************************************************************************)
THEOREM LengthStaysHonest == Spec => []LengthIsHonest
<1>1. Init => LengthIsHonest
  BY ZeroLength, RawAssumption DEF Init, LengthIsHonest
<1>2. TypeOK /\ LengthIsHonest /\ [Next]_vars => LengthIsHonest'
  BY LengthNext
<1> QED
  BY <1>1, <1>2, TypeCorrect, PTL DEF Spec

-----------------------------------------------------------------------------
(***************************************************************************)
(* The review.  What makes it safe is that no command but KEEP_ALIVE can   *)
(* arrive while a prompt is up.  Over USB the transport sees to that, a    *)
(* command is outstanding; over U2F, where the timer answers the command   *)
(* in the middle of the review, the host has to, by polling.               *)
(***************************************************************************)
Discipline == "u2f" \in MEDIA => HostPolls

\* A prompt has a command to answer, or a host that will send KEEP_ALIVE.
PromptHeld ==
    screen \in Prompts => \/ link.media # "none"
                          \/ HostPolls /\ link.reply.sw = "6e02"

\* WhatIsShownIsSigned and FormatterFitsAction are not inductive: the next
\* action is read where the offset points, so that place belongs to the
\* invariant.
ReviewFits ==
    screen = "approve_tx" =>
        /\ tx.hash = Sha256(tx)
        /\ OnAction(tx.raw, view)
        /\ PageOfAction(tx.raw, view)

PromptInv == PromptHeld /\ ReviewFits /\ HashPromptIsHonest

ReviewInv == TypeOK /\ LengthIsHonest /\ PromptInv

LEMMA NoPromptNoDuty == (screen \notin Prompts => PromptInv)'
BY DEF PromptInv, PromptHeld, ReviewFits, HashPromptIsHonest, Prompts

LEMMA MenusAreNoPrompts == \A menu \in Menus : menu \notin Prompts
BY DEF Menus, Prompts

(***************************************************************************)
(* No handler but KEEP_ALIVE's runs under a prompt (io_exchange).          *)
(***************************************************************************)
LEMMA NoSendUnderPrompt ==
    ASSUME PromptHeld, NEW m, NEW ins, ins # "KEEP_ALIVE", CanSend(m, ins)
    PROVE  screen \notin Prompts
BY DEF CanSend, PromptHeld

LEMMA OnlyKeepAliveUnderPrompt ==
    ASSUME PromptHeld, NEW m \in MEDIA, Command(m), screen \in Prompts
    PROVE  KeepAlive(m)
<1>1. \A ins : CanSend(m, ins) => ins = "KEEP_ALIVE"
  BY NoSendUnderPrompt
<1> QED
  BY <1>1 DEF Command, NoCommand, BadCommand, GetAppConfiguration, GetPublicKeyBadPath,
     GetPublicKey, ConfirmPublicKey, SignTxBadPath, SignTxFirst, SignTxMore,
     SignTxTooLong, SignTxHashDisabled, SignTxHashBadData, SignTxHash, GetPublicKeyFails

(***************************************************************************)
(* The prompt of a transaction goes up with the digest of what it shows    *)
(* (handle_sign_tx).                                                       *)
(***************************************************************************)
LEMMA ApprovalFits ==
    ASSUME TypeOK, NEW m \in MEDIA, NEW t \in Requests, NEW v \in Views, NEW request,
           Len(t.raw) <= MAX_RAW_TX, AskApproval(m, t, v, request)
    PROVE  PromptInv'
<1> DEFINE sw == ScreenStatus(t.raw, Rewound(v))
<1>1. CASE sw # "9000"
  <2>1. screen' = "menu_main"
    BY <1>1 DEF AskApproval, ui_idle, ShowMenu
  <2> QED
    BY <2>1, NoPromptNoDuty, MenusAreNoPrompts DEF Menus
<1>2. CASE sw = "9000"
  <2>1. screen' = "approve_tx" /\ link' = Received(m)
    BY <1>2 DEF AskApproval, ShowPrompt, Waiting
  <2>2. tx' = Hashed(t) /\ view' = NextScreen(t.raw, Rewound(v))
    BY DEF AskApproval
  <2>3. t.raw \in Seq(Cells) /\ Len(t.raw) \in Nat /\ Len(t.raw) <= BYTE
    BY RawAssumption, ByteAssumption DEF Requests
  <2>4. Rewound(v) \in Views /\ Rewound(v).formatter = NULL /\ Placed(Rewound(v))
    BY RewoundType DEF Placed
  <2>5. OnAction(t.raw, view') /\ PageOfAction(t.raw, view')
    BY <1>2, <2>2, <2>3, <2>4, NextScreenFits
  <2>6. tx'.raw = t.raw /\ tx'.hash = Sha256(tx')
    BY <2>2, HashedType
  <2>7. ReviewFits'
    BY <2>5, <2>6 DEF ReviewFits
  <2>8. link'.media # "none"
    BY <2>1, ReceivedType
  <2> QED
    BY <2>1, <2>7, <2>8 DEF PromptInv, PromptHeld, HashPromptIsHonest
<1> QED
  BY <1>1, <1>2

LEMMA CommandKeepsReview ==
    ASSUME ReviewInv, NEW m \in MEDIA, Command(m)
    PROVE  PromptInv'
<1>1. TypeOK /\ PromptHeld
  BY DEF ReviewInv, PromptInv
<1>2. ASSUME NEW ins, ins # "KEEP_ALIVE", CanSend(m, ins), screen' = screen
      PROVE  PromptInv'
  BY <1>1, <1>2, NoSendUnderPrompt, NoPromptNoDuty
<1>3. CASE \/ NoCommand(m) \/ BadCommand(m) \/ GetAppConfiguration(m)
           \/ GetPublicKeyBadPath(m) \/ SignTxBadPath(m) \/ SignTxHashDisabled(m)
           \/ SignTxHashBadData(m) \/ GetPublicKeyFails(m)
  BY <1>2, <1>3 DEF NoCommand, BadCommand, GetAppConfiguration, GetPublicKeyBadPath,
     SignTxBadPath, SignTxHashDisabled, SignTxHashBadData, GetPublicKeyFails, AnswerAtOnce
<1>4. ASSUME NEW path \in Paths, GetPublicKey(m, path)
      PROVE  PromptInv'
  BY <1>2, <1>4 DEF GetPublicKey, AnswerAtOnce
<1>5. ASSUME NEW chunk \in Chunks, SignTxTooLong(m, chunk)
      PROVE  PromptInv'
  BY <1>2, <1>5 DEF SignTxTooLong, AnswerAtOnce
<1>6. ASSUME NEW path \in Paths, ConfirmPublicKey(m, path)
      PROVE  PromptInv'
  <2>1. screen' = "address" /\ link'.media # "none"
    BY <1>1, <1>6, LaterType DEF ConfirmPublicKey, ShowPrompt
  <2> QED
    BY <2>1 DEF PromptInv, PromptHeld, ReviewFits, HashPromptIsHonest
<1>7. ASSUME NEW t \in Requests, NEW v \in Views, NEW upload, NEW request,
             Len(t.raw) <= MAX_RAW_TX, CanSend(m, "SIGN_TX"),
             AcceptChunk(m, t, v, upload) \/ AskApproval(m, t, v, request)
      PROVE  PromptInv'
  <2>1. CASE AcceptChunk(m, t, v, upload)
    BY <1>2, <1>7, <2>1 DEF AcceptChunk, AnswerAtOnce
  <2>2. CASE AskApproval(m, t, v, request)
    BY <1>1, <1>7, <2>2, ApprovalFits
  <2> QED
    BY <1>7, <2>1, <2>2
<1>8. ASSUME NEW path \in Paths, NEW chunk \in Chunks, SignTxFirst(m, path, chunk)
      PROVE  PromptInv'
  <2>1. FirstChunk(path, chunk) \in Requests /\ Len(FirstChunk(path, chunk).raw) <= MAX_RAW_TX
    BY FirstChunkType
  <2>2. Cleared(view) \in Views
    BY <1>1, ClearedType DEF TypeOK
  <2> QED
    BY <1>7, <1>8, <2>1, <2>2 DEF SignTxFirst
<1>9. ASSUME NEW chunk \in Chunks, SignTxMore(m, chunk)
      PROVE  PromptInv'
  <2>1. MoreChunk(chunk) \in Requests /\ Len(MoreChunk(chunk).raw) <= MAX_RAW_TX
    BY <1>1, <1>9, MoreChunkType DEF SignTxMore
  <2>2. view \in Views
    BY <1>1 DEF TypeOK
  <2> QED
    BY <1>7, <1>9, <2>1, <2>2 DEF SignTxMore
<1>10. ASSUME NEW path \in Paths, NEW hash \in HostHashes, SignTxHash(m, path, hash)
       PROVE  PromptInv'
  <2>1. screen' = "approve_hash" /\ link'.media # "none"
    BY <1>1, <1>10, LaterType DEF SignTxHash, ShowPrompt
  <2>2. hashSigning'
    BY <1>10 DEF SignTxHash, HashSigningOn
  <2>3. tx'.hash = hash
    BY <1>10 DEF SignTxHash, ZeroRequest
  <2>4. view'.formatter.of = "hash" /\ view'.page.by.of = "hash"
    <3>1. Cleared(view) \in Views
      BY <1>1, ClearedType DEF TypeOK
    <3> QED
      BY <1>10, <3>1, HashPageType DEF SignTxHash
  <2> QED
    BY <2>1, <2>2, <2>3, <2>4 DEF PromptInv, PromptHeld, ReviewFits, HashPromptIsHonest
<1>11. CASE KeepAlive(m)
  <2>1. UNCHANGED <<screen, hashSigning, tx, view>> /\ link'.media # "none"
    BY <1>1, <1>11, LaterType DEF KeepAlive
  <2> QED
    BY <2>1 DEF ReviewInv, PromptInv, PromptHeld, ReviewFits, HashPromptIsHonest
<1> QED
  BY <1>3, <1>4, <1>5, <1>6, <1>8, <1>9, <1>10, <1>11 DEF Command

(***************************************************************************)
(* The timer may answer the command of a prompt, but only with the "6e02"  *)
(* after which the host polls (u2f_send_keep_alive).                       *)
(***************************************************************************)
LEMMA TimerHoldsPrompt ==
    ASSUME Discipline, TypeOK, PromptHeld, screen \in Prompts
    PROVE  \/ LinkAfterTimer.media # "none"
           \/ HostPolls /\ LinkAfterTimer.reply.sw = "6e02"
<1>1. CASE Expires
  <2>1. link.media = "u2f" /\ link \in Links
    BY <1>1 DEF Expires, Counting, TypeOK
  <2>2. HostPolls
    BY <2>1 DEF Discipline, Links
  <2>3. LinkAfterTimer = Respond(link, "6e02", NoBody)
    BY <1>1 DEF LinkAfterTimer
  <2>4. LinkAfterTimer.reply = Answer("6e02", NoBody)
    BY <2>1, <2>3, RespondType, NoAnswerType DEF StatusWords
  <2> QED
    BY <2>2, <2>4 DEF Answer
<1>2. CASE ~Expires
  BY <1>2 DEF LinkAfterTimer, PromptHeld
<1> QED
  BY <1>1, <1>2

LEMMA TickKeepsReview ==
    ASSUME Discipline, ReviewInv, Tick
    PROVE  PromptInv'
<1>1. TypeOK /\ LengthIsHonest /\ PromptHeld /\ ReviewFits /\ HashPromptIsHonest
  BY DEF ReviewInv, PromptInv
<1>2. UNCHANGED <<hashSigning, tx>>
  BY DEF Tick
<1>3. screen' = screen /\ link' = LinkAfterTimer => PromptHeld'
  BY <1>1, TimerHoldsPrompt DEF PromptHeld
<1>4. screen' = screen /\ link' = LinkAfterTimer /\ view' = view => PromptInv'
  BY <1>1, <1>2, <1>3 DEF PromptInv, ReviewFits, HashPromptIsHonest
<1>5. CASE TickTimer \/ TickSuspended \/ TickAddress
  BY <1>4, <1>5 DEF TickTimer, TickSuspended, TickAddress, Redisplay
<1>6. CASE TickRefused
  BY <1>6, NoPromptNoDuty, MenusAreNoPrompts DEF TickRefused, RefusedToIdle, Menus
<1>7. CASE TickNextPage
  <2>1. tx.raw \in Seq(Cells) /\ Len(tx.raw) \in Nat /\ view \in Views
    BY <1>1 DEF TypeOK, Requests
  <2>2. Len(tx.raw) <= BYTE
    BY <1>1, <2>1, RawAssumption, ByteAssumption DEF LengthIsHonest
  <2>3. /\ screen' = screen /\ link' = LinkAfterTimer
        /\ ScreenStatus(tx.raw, view) = "9000" /\ view' = NextScreen(tx.raw, view)
    BY <1>7 DEF TickNextPage, Redisplay
  <2>4. ReviewFits'
    <3> SUFFICES ASSUME screen = "approve_tx"
                 PROVE  OnAction(tx.raw, view') /\ PageOfAction(tx.raw, view')
      BY <1>1, <1>2, <2>3 DEF ReviewFits
    <3>1. OnAction(tx.raw, view)
      BY <1>1 DEF ReviewFits
    <3> QED
      BY <2>1, <2>2, <2>3, <3>1, NextScreenFits
  <2>5. HashPromptIsHonest'
    <3> SUFFICES ASSUME screen = "approve_hash"
                 PROVE  view'.formatter.of = "hash" /\ view'.page.by.of = "hash"
      BY <1>1, <1>2, <2>3 DEF HashPromptIsHonest
    <3>1. view.formatter.of = "hash"
      BY <1>1 DEF HashPromptIsHonest
    <3>2. view.formatter # NULL /\ view.formatter \in Formatters
      BY <2>1, <3>1 DEF NULL, Views
    <3>3. view' = PrintPage(view)
      BY <2>3, <3>2 DEF NextScreen
    <3> QED
      BY <2>1, <3>1, <3>2, <3>3, PrintPageType, PageType, HashChainCloses
  <2> QED
    BY <1>3, <2>3, <2>4, <2>5 DEF PromptInv
<1> QED
  BY <1>5, <1>6, <1>7 DEF Tick

LEMMA OwnerKeepsReview ==
    ASSUME Owner
    PROVE  PromptInv'
<1>1. screen' \in Menus
  BY DEF Owner, AddressOk, AddressCancel, TxOk, TxCancel, Decide, BackToIdle, ui_idle,
     BrowseMenus, ChangeHashSigning, OpenMenu, ShowMenu, Menus
<1> QED
  BY <1>1, NoPromptNoDuty, MenusAreNoPrompts

LEMMA ReviewNext == Discipline /\ ReviewInv /\ [Next]_vars => ReviewInv'
<1> SUFFICES ASSUME Discipline, ReviewInv, [Next]_vars
             PROVE  ReviewInv'
  OBVIOUS
<1>1. TypeOK' /\ LengthIsHonest'
  BY TypeNext, LengthNext DEF ReviewInv
<1>2. PromptInv'
  <2>1. ASSUME NEW m \in MEDIA, Command(m)
        PROVE  PromptInv'
    BY <2>1, CommandKeepsReview
  <2>2. CASE Owner
    BY <2>2, OwnerKeepsReview
  <2>3. CASE Tick
    BY <2>3, TickKeepsReview
  <2>4. CASE RedrawByOs \/ UNCHANGED vars
    BY <2>4 DEF RedrawByOs, vars, ReviewInv, PromptInv, PromptHeld, ReviewFits,
       HashPromptIsHonest
  <2>5. CASE Restart
    BY <2>5, NoPromptNoDuty, MenusAreNoPrompts DEF Restart, Menus
  <2> QED
    BY <2>1, <2>2, <2>3, <2>4, <2>5 DEF Next, SignTxFirstShort
<1> QED
  BY <1>1, <1>2 DEF ReviewInv

LEMMA ReviewInit == Init => ReviewInv
<1> SUFFICES ASSUME Init
             PROVE  ReviewInv
  OBVIOUS
<1>1. PromptInv
  BY DEF Init, PromptInv, PromptHeld, ReviewFits, HashPromptIsHonest, Prompts
<1>2. LengthIsHonest
  BY ZeroLength, RawAssumption DEF Init, LengthIsHonest
<1> QED
  BY <1>1, <1>2, TypeInit DEF ReviewInv

LEMMA ReviewInvariant ==
    ASSUME Discipline
    PROVE  Spec => []ReviewInv
<1>1. Init => ReviewInv
  BY ReviewInit
<1>2. ReviewInv /\ [Next]_vars => ReviewInv'
  BY ReviewNext
<1> QED
  BY <1>1, <1>2, PTL DEF Spec

-----------------------------------------------------------------------------
(***************************************************************************)
(* What the owner approves is what is signed: over USB with no assumption  *)
(* about the host, over U2F if the host polls (handle_sign_tx, parse_tx,   *)
(* ui_approve_tx_next_screen).                                             *)
(***************************************************************************)
THEOREM WhatIsApprovedIsSigned ==
    ASSUME Discipline
    PROVE  Spec => []WhatIsShownIsSigned
<1>1. ReviewInv => WhatIsShownIsSigned
  BY DEF ReviewInv, PromptInv, ReviewFits, PageOfAction, WhatIsShownIsSigned
<1> QED
  BY <1>1, ReviewInvariant, PTL

(***************************************************************************)
(* The function pointer always fits the action that opDetails holds, so no *)
(* page is printed from the wrong member of its union (formatter).         *)
(***************************************************************************)
THEOREM FormatterAlwaysFits ==
    ASSUME Discipline
    PROVE  Spec => []FormatterFitsAction
<1>1. ReviewInv => FormatterFitsAction
  BY DEF ReviewInv, PromptInv, ReviewFits, OnAction, FormatterFitsAction
<1> QED
  BY <1>1, ReviewInvariant, PTL

(***************************************************************************)
(* A digest is signed blindly only while the setting allows it, and behind *)
(* the pages that say so (handle_sign_tx_hash, format_confirm_hash).       *)
(***************************************************************************)
THEOREM HashPromptStaysHonest ==
    ASSUME Discipline
    PROVE  Spec => []HashPromptIsHonest
<1>1. ReviewInv => HashPromptIsHonest
  BY DEF ReviewInv, PromptInv
<1> QED
  BY <1>1, ReviewInvariant, PTL

(***************************************************************************)
(* No step changes the request, its type or the setting under a prompt     *)
(* (io_exchange in eos_main).                                              *)
(***************************************************************************)
THEOREM PromptStaysFrozen ==
    ASSUME Discipline
    PROVE  Spec => PromptIsFrozen
<1> DEFINE Frozen == (screen \in Prompts /\ screen' \in Prompts)
                       => (screen' = screen /\ UNCHANGED <<tx, reqType, hashSigning>>)
<1>1. ReviewInv /\ [Next]_vars => [Frozen]_vars
  <2> SUFFICES ASSUME ReviewInv, [Next]_vars, screen \in Prompts, screen' \in Prompts
               PROVE  screen' = screen /\ UNCHANGED <<tx, reqType, hashSigning>>
    OBVIOUS
  <2>1. ASSUME NEW m \in MEDIA, Command(m)
        PROVE  screen' = screen /\ UNCHANGED <<tx, reqType, hashSigning>>
    BY <2>1, OnlyKeepAliveUnderPrompt DEF ReviewInv, PromptInv, KeepAlive
  <2>2. ~Owner /\ ~Restart
    BY MenusAreNoPrompts DEF Owner, AddressOk, AddressCancel, TxOk, TxCancel, Decide,
       BackToIdle, ui_idle, BrowseMenus, ChangeHashSigning, OpenMenu, ShowMenu, Restart,
       Menus
  <2>3. CASE Tick
    <3>1. ~TickRefused
      BY MenusAreNoPrompts DEF TickRefused, RefusedToIdle, Menus
    <3> QED
      BY <2>3, <3>1 DEF Tick, TickTimer, TickSuspended, TickAddress, TickNextPage, Redisplay
  <2>4. CASE RedrawByOs \/ UNCHANGED vars
    BY <2>4 DEF RedrawByOs, vars
  <2> QED
    BY <2>1, <2>2, <2>3, <2>4 DEF Next, SignTxFirstShort
<1> QED
  BY <1>1, ReviewInvariant, PTL DEF Spec, PromptIsFrozen

-----------------------------------------------------------------------------
(***************************************************************************)
(* One answer for each command, over USB: no timer answers there, so a     *)
(* prompt and its command come and go together.  What has to be excluded   *)
(* is an interval that goes on after its prompt, because a page that is    *)
(* then refused would be answered without a command: hence the assumption  *)
(* that displaying a menu disarms it.                                      *)
(***************************************************************************)
UsbOnly == MEDIA \subseteq {"usb"} /\ ~IntervalSurvives

AnswerInv ==
    /\ PromptIffCommand
    /\ NoStrayAnswer
    /\ armed => screen \in Prompts
    /\ link.reply.sw # "6e02"

UsbInv == TypeOK /\ AnswerInv

\* The device is idle, as far as prompts go.
Idle == screen \notin Prompts /\ ~armed

LEMMA SentWhileIdle ==
    ASSUME UsbInv, NEW m, NEW ins, CanSend(m, ins)
    PROVE  Idle
BY DEF UsbInv, AnswerInv, PromptIffCommand, CanSend, Idle

(***************************************************************************)
(* The two ways to leave a command: with an answer and no prompt, or with  *)
(* a prompt and no answer (handle_apdu).                                   *)
(***************************************************************************)
LEMMA AnsweredCommand ==
    ASSUME UsbInv, NEW m \in MEDIA, NEW sw \in StatusWords, NEW body \in Bodies,
           sw # "6e02", link' = Respond(Received(m), sw, body), Idle'
    PROVE  AnswerInv'
<1> DEFINE r == Respond(Received(m), sw, body)
<1>1. Received(m) \in Links /\ Received(m).media # "none" /\ Received(m).stray = link.stray
  BY ReceivedType DEF UsbInv
<1>2. r.media = "none" /\ r.reply = Answer(sw, body) /\ r.stray = link.stray
  BY <1>1, RespondType
<1> HIDE DEF r
<1>3. link' = r
  BY DEF r
<1>4. r.reply.sw # "6e02"
  BY <1>2 DEF Answer
<1> QED
  BY <1>2, <1>3, <1>4
     DEF UsbInv, AnswerInv, PromptIffCommand, NoStrayAnswer, Idle

LEMMA PromptedCommand ==
    ASSUME UsbInv, NEW m \in MEDIA, NEW prompt \in Prompts, link' = Received(m),
           ShowPrompt(prompt), job'.kind # "keep_alive"
    PROVE  AnswerInv'
<1>1. link'.media # "none" /\ link'.reply = NoAnswer /\ link'.stray = link.stray
  BY ReceivedType DEF UsbInv
<1>2. screen' \in Prompts
  BY DEF ShowPrompt
<1> QED
  BY <1>1, <1>2 DEF UsbInv, AnswerInv, PromptIffCommand, NoStrayAnswer, NoAnswer, Answer

LEMMA ApprovedOnce ==
    ASSUME UsbOnly, UsbInv, NEW m \in MEDIA, NEW t, NEW v, NEW request,
           request.kind # "keep_alive", AskApproval(m, t, v, request)
    PROVE  AnswerInv'
<1> DEFINE sw == ScreenStatus(t.raw, Rewound(v))
<1>1. CASE sw = "9000"
  <2>1. link' = Received(m) /\ ShowPrompt("approve_tx") /\ job'.kind # "keep_alive"
    BY <1>1 DEF AskApproval, Waiting
  <2> QED
    BY <2>1, PromptedCommand DEF Prompts
<1>2. CASE sw # "9000"
  <2>1. sw \in StatusWords /\ sw # "6e02"
    BY ScreenStatusType DEF StatusWords
  <2>2. link' = Respond(Received(m), sw, NoBody) /\ ui_idle
    BY <1>2 DEF AskApproval
  <2>3. Idle'
    BY <2>2 DEF UsbOnly, ui_idle, ShowMenu, Idle, Prompts
  <2> HIDE DEF sw
  <2> QED
    BY <2>1, <2>2, <2>3, NoAnswerType, AnsweredCommand
<1> QED
  BY <1>1, <1>2

LEMMA CommandIsAnsweredOnce ==
    ASSUME UsbOnly, UsbInv, NEW m \in MEDIA, Command(m)
    PROVE  AnswerInv'
<1>1. TypeOK
  BY DEF UsbInv
<1>2. Idle
  BY SentWhileIdle DEF Command, NoCommand, BadCommand, GetAppConfiguration,
     GetPublicKeyBadPath, GetPublicKey, ConfirmPublicKey, SignTxBadPath, SignTxFirst,
     SignTxMore, SignTxTooLong, SignTxHashDisabled, SignTxHashBadData, SignTxHash, KeepAlive,
     GetPublicKeyFails
<1>3. ASSUME NEW sw \in StatusWords, NEW body \in Bodies, sw # "6e02",
             AnswerAtOnce(m, sw, body)
      PROVE  AnswerInv'
  <2>1. link' = Respond(Received(m), sw, body) /\ Idle'
    BY <1>2, <1>3 DEF AnswerAtOnce, Idle
  <2> QED
    BY <1>3, <2>1, AnsweredCommand
<1>4. {"6e00", "6982", "6d00", "6b00", "6a80", "6700", "6c66", "9000", "68xx"}
        \subseteq StatusWords
  BY DEF StatusWords, HandlerErrors
<1>5. CASE NoCommand(m)
  <2>1. PICK sw \in {"6982", "6e00"} : link' = Respond(Received(m), sw, NoBody)
    BY <1>5 DEF NoCommand
  <2>2. Idle' /\ sw \in StatusWords /\ sw # "6e02"
    BY <1>2, <1>4, <1>5 DEF NoCommand, Idle
  <2> QED
    BY <2>1, <2>2, NoAnswerType, AnsweredCommand
<1>6. CASE \/ BadCommand(m) \/ GetAppConfiguration(m) \/ GetPublicKeyBadPath(m)
           \/ SignTxBadPath(m) \/ SignTxHashDisabled(m) \/ SignTxHashBadData(m)
           \/ GetPublicKeyFails(m) \/ \E chunk \in Chunks : SignTxTooLong(m, chunk)
  <2>1. \E sw \in {"6d00", "6b00", "9000", "6a80", "6c66", "6700", "68xx"} :
          AnswerAtOnce(m, sw, NoBody)
    BY <1>6 DEF BadCommand, GetAppConfiguration, GetPublicKeyBadPath, SignTxBadPath,
       SignTxHashDisabled, SignTxHashBadData, SignTxTooLong, GetPublicKeyFails
  <2> QED
    BY <1>3, <1>4, <2>1, NoAnswerType
<1>7. ASSUME NEW path \in Paths, GetPublicKey(m, path)
      PROVE  AnswerInv'
  <2>1. AddressBody(WithAddress(path).head) \in Bodies
    BY <1>1, WithAddressType, BodyType DEF Requests
  <2> QED
    BY <1>3, <1>4, <1>7, <2>1 DEF GetPublicKey
<1>8. ASSUME NEW path \in Paths, ConfirmPublicKey(m, path)
      PROVE  AnswerInv'
  BY <1>8, PromptedCommand DEF ConfirmPublicKey, AnswerLater, Waiting, Prompts, Job
<1>9. ASSUME NEW t, NEW v, NEW upload, NEW request, request.kind # "keep_alive",
             AcceptChunk(m, t, v, upload) \/ AskApproval(m, t, v, request)
      PROVE  AnswerInv'
  BY <1>3, <1>4, <1>9, NoAnswerType, ApprovedOnce DEF AcceptChunk
<1>10. ASSUME NEW path \in Paths, NEW chunk \in Chunks, SignTxFirst(m, path, chunk)
       PROVE  AnswerInv'
  <2>1. Job("sign", path, chunk, ZeroHash).kind # "keep_alive"
    BY DEF Job
  <2> QED
    BY <1>9, <1>10, <2>1 DEF SignTxFirst
<1>11. ASSUME NEW chunk \in Chunks, SignTxMore(m, chunk)
       PROVE  AnswerInv'
  <2>1. Continued("sign", chunk).kind # "keep_alive"
    BY DEF Continued, Job, OtherJob
  <2> QED
    BY <1>9, <1>11, <2>1 DEF SignTxMore
<1>12. ASSUME NEW path \in Paths, NEW hash \in HostHashes, SignTxHash(m, path, hash)
       PROVE  AnswerInv'
  BY <1>12, PromptedCommand DEF SignTxHash, AnswerLater, Waiting, Prompts, Job
<1>13. CASE KeepAlive(m)
  <2>1. link' = Received(m) /\ UNCHANGED <<screen, armed>>
    BY <1>13 DEF KeepAlive, AnswerLater, Waiting
  <2>2. job'.kind = "keep_alive"
    BY <1>13 DEF KeepAlive, Job, UsbInv, AnswerInv
  <2>3. link'.reply = NoAnswer /\ link'.stray = link.stray
    BY <1>1, <2>1, ReceivedType
  <2> QED
    BY <1>2, <2>1, <2>2, <2>3
       DEF UsbInv, AnswerInv, PromptIffCommand, NoStrayAnswer, NoAnswer, Answer, Idle
<1> QED
  BY <1>5, <1>6, <1>7, <1>8, <1>10, <1>11, <1>12, <1>13 DEF Command

LEMMA DecidedOnce ==
    ASSUME UsbOnly, UsbInv, Owner
    PROVE  AnswerInv'
<1>1. TypeOK
  BY DEF UsbInv
<1>2. ASSUME NEW sw \in {"9000", "6985"}, NEW body \in Bodies, screen \in Prompts,
             Decide(sw, body)
      PROVE  AnswerInv'
  <2>1. link \in Links /\ link.media # "none"
    BY <1>1, <1>2 DEF UsbInv, AnswerInv, PromptIffCommand, TypeOK
  <2>2. sw \in StatusWords /\ sw # "6e02"
    BY DEF StatusWords
  <2>3. link' = Respond(link, sw, body) /\ screen' = "menu_main" /\ ~armed'
    BY <1>2 DEF Decide, BackToIdle, ui_idle, ShowMenu, UsbOnly
  <2>4. link'.media = "none" /\ link'.reply = Answer(sw, body) /\ link'.stray = link.stray
    BY <2>1, <2>2, <2>3, RespondType
  <2>5. screen' \notin Prompts
    BY <2>3 DEF Prompts
  <2> QED
    BY <2>2, <2>3, <2>4, <2>5
       DEF UsbInv, AnswerInv, PromptIffCommand, NoStrayAnswer, Answer
<1>3. CASE AddressOk \/ AddressCancel \/ TxOk \/ TxCancel
  <2>1. AddressBody(tx.head) \in Bodies /\ SignatureBody(tx) \in Bodies /\ NoBody \in Bodies
    BY <1>1, BodyType DEF TypeOK, Requests
  <2> QED
    BY <1>2, <1>3, <2>1 DEF AddressOk, AddressCancel, TxOk, TxCancel, Approving, Prompts
<1>4. CASE BrowseMenus \/ ChangeHashSigning
  <2>1. /\ screen \in Menus /\ screen' \in Menus /\ ~armed'
        /\ link' = link /\ job' = job
    BY <1>4 DEF BrowseMenus, ChangeHashSigning, OpenMenu, ShowMenu, Menus, UsbOnly
  <2> QED
    BY <2>1, MenusAreNoPrompts DEF UsbInv, AnswerInv, PromptIffCommand, NoStrayAnswer
<1> QED
  BY <1>3, <1>4 DEF Owner

LEMMA RefusedOnce ==
    ASSUME UsbOnly, UsbInv, Tick
    PROVE  AnswerInv'
<1>1. link \in Links
  BY DEF UsbInv, TypeOK
<1>2. LinkAfterTimer = link
  BY <1>1 DEF LinkAfterTimer, Expires, Counting, UsbOnly, Links
<1>3. job' = job
  BY DEF Tick
<1>4. CASE TickTimer \/ TickSuspended \/ TickAddress \/ TickNextPage
  <2>1. screen' = screen /\ link' = link /\ (armed' => armed \/ screen \in Prompts)
    BY <1>2, <1>4 DEF TickTimer, TickSuspended, TickAddress, TickNextPage, Redisplay
  <2> QED
    BY <1>3, <2>1 DEF UsbInv, AnswerInv, PromptIffCommand, NoStrayAnswer
<1>5. CASE TickRefused
  <2> DEFINE sw == ScreenStatus(tx.raw, view)
  <2>1. link.media # "none"
    BY <1>5 DEF TickRefused, UsbInv, AnswerInv, PromptIffCommand
  <2>2. sw \in StatusWords /\ sw # "6e02"
    BY ScreenStatusType DEF StatusWords
  <2>3. link' = Respond(link, sw, NoBody) /\ screen' = "menu_main" /\ ~armed'
    BY <1>2, <1>5 DEF TickRefused, RefusedToIdle
  <2> HIDE DEF sw
  <2>4. link'.media = "none" /\ link'.reply = Answer(sw, NoBody) /\ link'.stray = link.stray
    BY <1>1, <2>1, <2>2, <2>3, RespondType, NoAnswerType
  <2>5. screen' \notin Prompts
    BY <2>3 DEF Prompts
  <2> QED
    BY <2>2, <2>3, <2>4, <2>5
       DEF UsbInv, AnswerInv, PromptIffCommand, NoStrayAnswer, Answer
<1> QED
  BY <1>4, <1>5 DEF Tick

LEMMA FreshAnswers == Init => AnswerInv
BY DEF Init, AnswerInv, PromptIffCommand, NoStrayAnswer, Prompts, NoAnswer, Answer

LEMMA UsbNext == UsbOnly /\ UsbInv /\ [Next]_vars => UsbInv'
<1> SUFFICES ASSUME UsbOnly, UsbInv, [Next]_vars
             PROVE  UsbInv'
  OBVIOUS
<1>1. TypeOK'
  BY TypeNext DEF UsbInv
<1>2. AnswerInv'
  <2>1. ASSUME NEW m \in MEDIA, Command(m)
        PROVE  AnswerInv'
    BY <2>1, CommandIsAnsweredOnce
  <2>2. CASE Owner
    BY <2>2, DecidedOnce
  <2>3. CASE Tick
    BY <2>3, RefusedOnce
  <2>4. CASE RedrawByOs \/ UNCHANGED vars
    BY <2>4 DEF RedrawByOs, vars, UsbInv, AnswerInv, PromptIffCommand, NoStrayAnswer
  <2>5. CASE Restart
    BY <2>5 DEF Restart, AnswerInv, PromptIffCommand, NoStrayAnswer, Prompts, NoAnswer, Answer
  <2> QED
    BY <2>1, <2>2, <2>3, <2>4, <2>5 DEF Next, SignTxFirstShort
<1> QED
  BY <1>1, <1>2 DEF UsbInv

LEMMA UsbInvariant ==
    ASSUME UsbOnly
    PROVE  Spec => []UsbInv
<1>1. Init => UsbInv
  BY TypeInit, FreshAnswers DEF UsbInv
<1>2. UsbInv /\ [Next]_vars => UsbInv'
  BY UsbNext
<1> QED
  BY <1>1, <1>2, PTL DEF Spec

(***************************************************************************)
(* Over USB a prompt is up exactly while a command waits for the owner,    *)
(* whatever the parser refuses, in the handler or later                    *)
(* (handle_apdu, next_formatter, io_seproxyhal_respond).                   *)
(***************************************************************************)
THEOREM PromptComesWithCommand ==
    ASSUME UsbOnly
    PROVE  Spec => []PromptIffCommand
<1>1. UsbInv => PromptIffCommand
  BY DEF UsbInv, AnswerInv
<1> QED
  BY <1>1, UsbInvariant, PTL

(***************************************************************************)
(* Over USB no answer is sent without a command that waits for it, and so  *)
(* none is sent twice (eos_ux_nanos.c:256, eos.c:130).                     *)
(***************************************************************************)
THEOREM NoAnswerIsStray ==
    ASSUME UsbOnly
    PROVE  Spec => []NoStrayAnswer
<1>1. UsbInv => NoStrayAnswer
  BY DEF UsbInv, AnswerInv
<1> QED
  BY <1>1, UsbInvariant, PTL

-----------------------------------------------------------------------------
(***************************************************************************)
(* The keep-alive timer counts down in ticks from a multiple of the tick,  *)
(* so it meets 0 before the unsigned subtraction wraps (io_event).         *)
(***************************************************************************)
TimeoutInTicks == U2F_REQUEST_TIMEOUT % TICK = 0

KeepAliveInv == TypeOK /\ KeepAliveIsDue

LEMMA OneTickLess ==
    ASSUME NEW n \in Nat, NEW d \in Nat \ {0}, n > 0, n % d = 0
    PROVE  n >= d /\ (n - d) % d = 0
<1> DEFINE k == n \div d
<1>1. k \in Nat /\ n = d * k
  <2>1. n = d * (n \div d) + (n % d) /\ n \div d \in Nat
    OBVIOUS
  <2> QED
    BY <2>1
<1> HIDE DEF k
<1>2. k >= 1
  BY <1>1, Z3
<1>3. k - 1 \in Nat /\ n - d = d * (k - 1) /\ n >= d
  BY <1>1, <1>2, Z3
<1>4. (d * (k - 1)) % d = 0
  <2> DEFINE c == k - 1
  <2>1. c \in Nat
    BY <1>3
  <2> HIDE DEF c
  <2>2. (d * c) % d = 0
    BY <2>1
  <2> QED
    BY <2>2 DEF c
<1> QED
  BY <1>3, <1>4

\* A command is answered, or waits behind a timer that has just been set
\* (handle_apdu).
LEMMA CommandSetsTimer ==
    ASSUME TypeOK, NEW m \in MEDIA, Command(m)
    PROVE  link'.media = "none" \/ u2fTimer' = U2F_REQUEST_TIMEOUT
<1>1. ASSUME NEW sw \in StatusWords, link' = Respond(Received(m), sw, NoBody)
      PROVE  link'.media = "none"
  BY <1>1, ReceivedType, RespondType, NoAnswerType
<1>2. CASE NoCommand(m)
  BY <1>1, <1>2 DEF NoCommand, StatusWords, HandlerErrors
<1>3. CASE \/ BadCommand(m) \/ GetAppConfiguration(m) \/ GetPublicKeyBadPath(m)
           \/ SignTxBadPath(m) \/ SignTxHashDisabled(m) \/ SignTxHashBadData(m)
           \/ KeepAlive(m) \/ GetPublicKeyFails(m)
  BY <1>3 DEF BadCommand, GetAppConfiguration, GetPublicKeyBadPath, SignTxBadPath,
     SignTxHashDisabled, SignTxHashBadData, KeepAlive, GetPublicKeyFails, AnswerAtOnce, AnswerLater, TimerSet
<1>4. ASSUME NEW path \in Paths, GetPublicKey(m, path) \/ ConfirmPublicKey(m, path)
      PROVE  u2fTimer' = U2F_REQUEST_TIMEOUT
  BY <1>4 DEF GetPublicKey, ConfirmPublicKey, AnswerAtOnce, AnswerLater, TimerSet
<1>5. ASSUME NEW path \in Paths, NEW chunk \in Chunks, SignTxFirst(m, path, chunk)
      PROVE  u2fTimer' = U2F_REQUEST_TIMEOUT
  BY <1>5 DEF SignTxFirst, AcceptChunk, AskApproval, AnswerAtOnce, TimerSet
<1>6. ASSUME NEW chunk \in Chunks, SignTxMore(m, chunk) \/ SignTxTooLong(m, chunk)
      PROVE  u2fTimer' = U2F_REQUEST_TIMEOUT
  BY <1>6 DEF SignTxMore, SignTxTooLong, AcceptChunk, AskApproval, AnswerAtOnce, TimerSet
<1>7. ASSUME NEW path \in Paths, NEW hash \in HostHashes, SignTxHash(m, path, hash)
      PROVE  u2fTimer' = U2F_REQUEST_TIMEOUT
  BY <1>7 DEF SignTxHash, AnswerLater, TimerSet
<1> QED
  BY <1>2, <1>3, <1>4, <1>5, <1>6, <1>7 DEF Command

LEMMA TickCountsDown ==
    ASSUME KeepAliveInv, Tick
    PROVE  KeepAliveIsDue'
<1>1. TypeOK /\ KeepAliveIsDue /\ link \in Links
  BY DEF KeepAliveInv, TypeOK
<1>2. "6e02" \in StatusWords
  BY DEF StatusWords
<1>3. LinkAfterTimer \in Links
  BY <1>1, <1>2, RespondType, NoAnswerType DEF LinkAfterTimer
<1>4. CASE TickRefused
  <2> DEFINE sw == ScreenStatus(tx.raw, view)
  <2>1. link' = Respond(LinkAfterTimer, sw, NoBody)
    BY <1>4 DEF TickRefused
  <2>2. sw \in StatusWords
    BY ScreenStatusType DEF StatusWords
  <2> HIDE DEF sw
  <2>3. link'.media = "none"
    BY <1>3, <2>1, <2>2, RespondType, NoAnswerType
  <2> QED
    BY <2>3 DEF KeepAliveIsDue
<1>5. CASE ~TickRefused
  <2>1. u2fTimer' = TimerLeft /\ link' = LinkAfterTimer
    BY <1>5 DEF Tick, TickTimer, TickSuspended, TickAddress, TickNextPage
  <2>2. CASE link.media # "u2f"
    <3>1. link' = link
      BY <2>1, <2>2 DEF LinkAfterTimer, Expires, Counting
    <3> QED
      BY <2>2, <3>1 DEF KeepAliveIsDue
  <2>3. CASE link.media = "u2f"
    <3>1. u2fTimer \in Nat /\ u2fTimer < UINT16 /\ u2fTimer > 0 /\ u2fTimer % TICK = 0
      BY <1>1, <2>3, TimerAssumption DEF KeepAliveIsDue, TypeOK
    <3>2. u2fTimer >= TICK /\ (u2fTimer - TICK) % TICK = 0
      BY <3>1, OneTickLess, TimerAssumption
    <3> DEFINE left == u2fTimer - TICK
    <3>3. left \in Nat /\ left < UINT16 /\ left % TICK = 0
      BY <3>1, <3>2, TimerAssumption
    <3>4. TimerLeft = left % UINT16
      BY <2>3, <3>1 DEF TimerLeft, Counting
    <3> HIDE DEF left
    <3>5. TimerLeft = left
      BY <3>3, <3>4, TimerAssumption
    <3>6. CASE left > 0
      BY <2>1, <3>3, <3>5, <3>6 DEF KeepAliveIsDue
    <3>7. CASE left = 0
      <4>1. Expires
        BY <2>3, <3>1, <3>5, <3>7 DEF Expires, Counting
      <4>2. link' = Respond(link, "6e02", NoBody)
        BY <2>1, <4>1 DEF LinkAfterTimer
      <4>3. link'.media = "none"
        BY <1>1, <1>2, <4>2, RespondType, NoAnswerType
      <4> QED
        BY <4>3 DEF KeepAliveIsDue
    <3> QED
      BY <3>3, <3>6, <3>7
  <2> QED
    BY <2>2, <2>3
<1> QED
  BY <1>4, <1>5

LEMMA KeepAliveNext ==
    ASSUME TimeoutInTicks, KeepAliveInv, [Next]_vars
    PROVE  KeepAliveIsDue'
<1>1. TypeOK /\ KeepAliveIsDue /\ link \in Links
  BY DEF KeepAliveInv, TypeOK
<1>2. ASSUME NEW m \in MEDIA, Command(m)
      PROVE  KeepAliveIsDue'
  BY <1>1, <1>2, CommandSetsTimer, TimerAssumption DEF TimeoutInTicks, KeepAliveIsDue
<1>3. CASE AddressOk \/ AddressCancel \/ TxOk \/ TxCancel
  <2>1. {"9000", "6985"} \subseteq StatusWords
    BY DEF StatusWords
  <2>2. \A body \in Bodies : /\ Respond(link, "9000", body).media = "none"
                              /\ Respond(link, "6985", body).media = "none"
    BY <1>1, <2>1, RespondType
  <2>3. /\ NoBody \in Bodies /\ SignatureBody(tx) \in Bodies
        /\ AddressBody(tx.head) \in Bodies
    BY <1>1, BodyType DEF TypeOK, Requests
  <2>4. link'.media = "none"
    BY <1>3, <2>2, <2>3 DEF AddressOk, AddressCancel, TxOk, TxCancel, Decide
  <2> QED
    BY <2>4 DEF KeepAliveIsDue
<1>4. CASE BrowseMenus \/ ChangeHashSigning \/ RedrawByOs \/ UNCHANGED vars
  BY <1>1, <1>4 DEF BrowseMenus, ChangeHashSigning, RedrawByOs, vars, KeepAliveIsDue
<1>5. CASE Tick
  BY <1>5, TickCountsDown
<1>6. CASE Restart
  BY <1>6 DEF Restart, KeepAliveIsDue
<1> QED
  BY <1>2, <1>3, <1>4, <1>5, <1>6 DEF Next, Owner, SignTxFirstShort

(***************************************************************************)
(* While a U2F command waits its "6e02" is always ahead: with a timeout of *)
(* whole ticks the timer never wraps past 0, whatever else happens between *)
(* two ticks (main.c:234).                                                 *)
(***************************************************************************)
THEOREM KeepAliveStaysDue ==
    ASSUME TimeoutInTicks
    PROVE  Spec => []KeepAliveIsDue
<1>1. Init => KeepAliveInv
  BY TypeInit DEF Init, KeepAliveInv, KeepAliveIsDue
<1>2. KeepAliveInv /\ [Next]_vars => KeepAliveInv'
  BY TypeNext, KeepAliveNext DEF KeepAliveInv
<1>3. KeepAliveInv => KeepAliveIsDue
  BY DEF KeepAliveInv
<1> QED
  BY <1>1, <1>2, <1>3, PTL DEF Spec

\* No command comes while one waits (CanSend).
LEMMA CommandFindsNone ==
    ASSUME NEW m \in MEDIA, Command(m)
    PROVE  link.media = "none"
<1>1. CASE \/ NoCommand(m) \/ BadCommand(m) \/ GetAppConfiguration(m)
           \/ GetPublicKeyBadPath(m) \/ SignTxBadPath(m) \/ SignTxHashDisabled(m)
           \/ SignTxHashBadData(m) \/ KeepAlive(m) \/ GetPublicKeyFails(m)
  BY <1>1 DEF NoCommand, BadCommand, GetAppConfiguration, GetPublicKeyBadPath,
     SignTxBadPath, SignTxHashDisabled, SignTxHashBadData, KeepAlive, GetPublicKeyFails,
     CanSend
<1>2. ASSUME NEW path \in Paths, GetPublicKey(m, path) \/ ConfirmPublicKey(m, path)
      PROVE  link.media = "none"
  BY <1>2 DEF GetPublicKey, ConfirmPublicKey, CanSend
<1>3. ASSUME NEW path \in Paths, NEW chunk \in Chunks, SignTxFirst(m, path, chunk)
      PROVE  link.media = "none"
  BY <1>3 DEF SignTxFirst, CanSend
<1>4. ASSUME NEW chunk \in Chunks, SignTxMore(m, chunk) \/ SignTxTooLong(m, chunk)
      PROVE  link.media = "none"
  BY <1>4 DEF SignTxMore, SignTxTooLong, CanSend
<1>5. ASSUME NEW path \in Paths, NEW hash \in HostHashes, SignTxHash(m, path, hash)
      PROVE  link.media = "none"
  BY <1>5 DEF SignTxHash, CanSend
<1> QED
  BY <1>1, <1>2, <1>3, <1>4, <1>5 DEF Command

\* A tick is taken off while a command waits, and nothing else is.
LEMMA TickTakesOne ==
    ASSUME KeepAliveInv, Tick, link.media = "u2f"
    PROVE  u2fTimer' = u2fTimer - TICK
<1>1. u2fTimer \in Nat /\ u2fTimer < UINT16 /\ u2fTimer > 0 /\ u2fTimer % TICK = 0
  BY TimerAssumption DEF KeepAliveInv, KeepAliveIsDue, TypeOK
<1>2. u2fTimer >= TICK
  BY <1>1, OneTickLess, TimerAssumption
<1>3. u2fTimer' = TimerLeft
  BY DEF Tick, TickTimer, TickSuspended, TickAddress, TickNextPage, TickRefused
<1> DEFINE left == u2fTimer - TICK
<1>4. left \in Nat /\ left < UINT16
  BY <1>1, <1>2, TimerAssumption
<1>5. TimerLeft = left % UINT16
  BY <1>1 DEF TimerLeft, Counting
<1> HIDE DEF left
<1>6. TimerLeft = left
  BY <1>4, <1>5, TimerAssumption
<1> QED
  BY <1>3, <1>6 DEF left

(***************************************************************************)
(* From the command to its "6e02" there are as many ticker events as the   *)
(* timeout has ticks, whatever the owner, the display and the parser do in *)
(* between: each takes one tick off, and no other step changes the timer   *)
(* (main.c:234).                                                           *)
(***************************************************************************)
THEOREM KeepAliveIsPunctual ==
    ASSUME TimeoutInTicks
    PROVE  Spec => AnswerIsNotPutOff
<1>1. Init => KeepAliveInv
  BY TypeInit DEF Init, KeepAliveInv, KeepAliveIsDue
<1>2. KeepAliveInv /\ [Next]_vars => KeepAliveInv'
  BY TypeNext, KeepAliveNext DEF KeepAliveInv
<1>3. KeepAliveInv /\ [Next]_vars
        => [(link.media = "u2f" /\ link'.media = "u2f")
              => u2fTimer' = IF Tick THEN u2fTimer - TICK ELSE u2fTimer]_vars
  <2> SUFFICES ASSUME KeepAliveInv, Next, link.media = "u2f", link'.media = "u2f"
               PROVE  u2fTimer' = IF Tick THEN u2fTimer - TICK ELSE u2fTimer
    OBVIOUS
  <2>1. CASE Tick
    BY <2>1, TickTakesOne
  <2>2. ASSUME NEW m \in MEDIA, Command(m)
        PROVE  FALSE
    BY <2>2, CommandFindsNone
  <2>3. ASSUME Owner \/ RedrawByOs, ~Tick
        PROVE  u2fTimer' = u2fTimer
    BY <2>3 DEF Owner, AddressOk, AddressCancel, TxOk, TxCancel, Decide, BrowseMenus,
       ChangeHashSigning, RedrawByOs
  <2>4. CASE Restart
    BY <2>4 DEF Restart
  <2> QED
    BY <2>1, <2>2, <2>3, <2>4 DEF Next, SignTxFirstShort
<1> QED
  BY <1>1, <1>2, <1>3, PTL DEF Spec, AnswerIsNotPutOff

-----------------------------------------------------------------------------
(***************************************************************************)
(* EosApp implements Approval: the step simulation, over the invariant.    *)
(***************************************************************************)
\* A step of Approval, or none.
PromiseStep == [Promise!Next]_<<Subject, link.media # "none", link.reply>>

-----------------------------------------------------------------------------
(***************************************************************************)
(* There is a subject exactly while a prompt is up, and it depends on the  *)
(* request and on nothing else (ui_show_address_init, ui_approve_tx_init,  *)
(* ui_approve_tx_hash_init).                                               *)
(***************************************************************************)
LEMMA SubjectOfPrompt == Subject = NoBody <=> screen \notin Prompts
BY DEF Subject, Prompts, NoBody, AddressBody, SignatureBody

LEMMA NoSubjectNext == screen' \notin Prompts => Subject' = NoBody
BY DEF Subject, Prompts

LEMMA SubjectStays == screen' = screen /\ tx' = tx => Subject' = Subject
BY DEF Subject

(***************************************************************************)
(* What the transport may do under a prompt that stays: nothing, or the    *)
(* "6e02" of the timer (u2f_send_keep_alive).                              *)
(***************************************************************************)
LEMMA TimerIsBusy ==
    ASSUME TypeOK, link' = LinkAfterTimer, Subject' = Subject
    PROVE  PromiseStep
<1>1. CASE Expires
  <2>1. link \in Links /\ link.media # "none"
    BY <1>1 DEF Expires, Counting, TypeOK
  <2>2. "6e02" \in StatusWords \ {"none", "9000"}
    BY DEF StatusWords
  <2>3. link' = Respond(link, "6e02", NoBody)
    BY <1>1 DEF LinkAfterTimer
  <2>4. link'.media = "none" /\ link'.reply = Answer("6e02", NoBody)
    BY <2>1, <2>2, <2>3, RespondType, NoAnswerType
  <2>5. Promise!Busy
    BY <2>1, <2>2, <2>4 DEF Promise!Busy, Promise!Refused
  <2> QED
    BY <2>5 DEF PromiseStep, Promise!Next
<1>2. CASE ~Expires
  BY <1>2 DEF LinkAfterTimer, PromiseStep
<1> QED
  BY <1>1, <1>2

-----------------------------------------------------------------------------
(***************************************************************************)
(* Commands.  One that does not ask for a decision is answered at once,    *)
(* with no signature (handle_apdu).                                        *)
(***************************************************************************)
LEMMA RefusedOnceSent ==
    ASSUME NEW sw \in StatusWords \ {"none", "9000"}
    PROVE  Answer(sw, NoBody) \in Promise!Refused
BY DEF Promise!Refused

LEMMA SentIsAnswered ==
    ASSUME TypeOK, NEW m \in MEDIA, NEW ins, CanSend(m, ins),
           NEW sw \in StatusWords, NEW body \in Bodies,
           link' = Respond(Received(m), sw, body),
           Answer(sw, body) \in
               Promise!Refused \cup
               {Answer("9000", s) : s \in {AddressBody(AddressHead(path)) : path \in Paths}
                                           \cup {NoBody}},
           Subject = NoBody, Subject' = NoBody
    PROVE  PromiseStep
<1>1. link'.media = "none" /\ link'.reply = Answer(sw, body)
  BY ReceivedType, RespondType
<1>2. link.media = "none"
  BY DEF CanSend
<1>3. Promise!AnswerAtOnce
  BY <1>1, <1>2 DEF Promise!AnswerAtOnce
<1> QED
  BY <1>3 DEF PromiseStep, Promise!Next

\* The same for an answer without a body, which most of them are.
LEMMA SentWithoutBody ==
    ASSUME TypeOK, NEW m \in MEDIA, NEW ins, CanSend(m, ins),
           NEW sw \in StatusWords \ {"none"},
           link' = Respond(Received(m), sw, NoBody),
           Subject = NoBody, Subject' = NoBody
    PROVE  PromiseStep
<1>1. CASE sw = "9000"
  <2>1. Answer(sw, NoBody) \in
            {Answer("9000", s) : s \in {AddressBody(AddressHead(path)) : path \in Paths}
                                        \cup {NoBody}}
    BY <1>1
  <2> QED
    BY <2>1, SentIsAnswered, NoAnswerType
<1>2. CASE sw # "9000"
  <2>1. Answer(sw, NoBody) \in Promise!Refused
    BY <1>2, RefusedOnceSent
  <2> QED
    BY <2>1, SentIsAnswered, NoAnswerType
<1> QED
  BY <1>1, <1>2

\* A command that puts a prompt up asks for its decision.
LEMMA PromptIsAsked ==
    ASSUME TypeOK, NEW m \in MEDIA, NEW ins, CanSend(m, ins), link' = Waiting(m),
           Subject = NoBody,
           Subject' \in [kind : {"signature"}, head : Heads, hash : Hashes]
                        \cup {AddressBody(AddressHead(path)) : path \in Paths}
    PROVE  PromiseStep
<1>1. link'.media # "none" /\ link'.reply = NoAnswer
  BY ReceivedType DEF Waiting
<1>2. link.media = "none"
  BY DEF CanSend
<1>3. Promise!Ask
  BY <1>1, <1>2 DEF Promise!Ask
<1> QED
  BY <1>3 DEF PromiseStep, Promise!Next

LEMMA SignatureSubject ==
    ASSUME TypeOK', screen' \in {"approve_tx", "approve_hash"}
    PROVE  Subject' \in [kind : {"signature"}, head : Heads, hash : Hashes]
<1>1. tx' \in Requests /\ tx'.head \in Heads /\ tx'.hash \in Hashes
  BY DEF TypeOK, Requests
<1>2. Sha256(tx') \in Hashes
  BY <1>1 DEF Sha256, Hashes, Digests, Requests
<1>3. CASE screen' = "approve_tx"
  <2> DEFINE digest == Sha256(tx')
             t == [tx' EXCEPT !.hash = digest]
  <2>1. Subject' = SignatureBody(t)
    BY <1>3 DEF Subject
  <2>2. t.head = tx'.head /\ t.hash = digest
    BY <1>1 DEF Requests
  <2> QED
    BY <1>1, <1>2, <2>1, <2>2 DEF SignatureBody
<1>4. CASE screen' = "approve_hash"
  <2>1. Subject' = SignatureBody(tx')
    BY <1>4 DEF Subject
  <2> QED
    BY <1>1, <2>1 DEF SignatureBody
<1> QED
  BY <1>3, <1>4

LEMMA UploadKeepsPromise ==
    ASSUME TypeOK, TypeOK', NEW m \in MEDIA, CanSend(m, "SIGN_TX"),
           screen \notin Prompts, NEW t, NEW v, NEW upload, NEW request,
           AcceptChunk(m, t, v, upload) \/ AskApproval(m, t, v, request)
    PROVE  PromiseStep
<1>1. Subject = NoBody
  BY SubjectOfPrompt
<1>2. CASE AcceptChunk(m, t, v, upload)
  <2>1. screen' = screen /\ link' = Respond(Received(m), "9000", NoBody)
    BY <1>2 DEF AcceptChunk, AnswerAtOnce
  <2>2. "9000" \in StatusWords \ {"none"}
    BY DEF StatusWords
  <2> QED
    BY <1>1, <2>1, <2>2, NoSubjectNext, SentWithoutBody
<1>3. CASE AskApproval(m, t, v, request)
  <2> DEFINE sw == ScreenStatus(t.raw, Rewound(v))
  <2>1. CASE sw = "9000"
    <3>1. link' = Waiting(m) /\ screen' = "approve_tx"
      BY <1>3, <2>1 DEF AskApproval, ShowPrompt
    <3> QED
      BY <1>1, <3>1, SignatureSubject, PromptIsAsked
  <2>2. CASE sw # "9000"
    <3>1. link' = Respond(Received(m), sw, NoBody) /\ screen' = "menu_main"
      BY <1>3, <2>2 DEF AskApproval, ui_idle, ShowMenu
    <3>2. Subject' = NoBody
      BY <3>1, NoSubjectNext, MenusAreNoPrompts DEF Menus
    <3>3. sw \in StatusWords \ {"none"}
      BY ScreenStatusType DEF StatusWords
    <3> HIDE DEF sw
    <3> QED
      BY <1>1, <3>1, <3>2, <3>3, SentWithoutBody
  <2> QED
    BY <2>1, <2>2
<1> QED
  BY <1>2, <1>3

LEMMA AddressHeadWritten ==
    ASSUME TypeOK, NEW path
    PROVE  WithAddress(path).head = AddressHead(path)
<1>1. tx \in Requests
  BY DEF TypeOK
<1> DEFINE head == AddressHead(path)
<1>2. WithAddress(path) = [tx EXCEPT !.head = head, !.overlay = path]
  BY DEF WithAddress
<1> HIDE DEF head
<1>3. WithAddress(path).head = head
  BY <1>1, <1>2 DEF Requests
<1> QED
  BY <1>3 DEF head

LEMMA CommandKeepsPromise ==
    ASSUME ReviewInv, TypeOK', NEW m \in MEDIA, Command(m)
    PROVE  PromiseStep
<1>1. TypeOK /\ PromptHeld
  BY DEF ReviewInv, PromptInv
<1>2. ASSUME NEW ins, ins # "KEEP_ALIVE", CanSend(m, ins)
      PROVE  screen \notin Prompts /\ Subject = NoBody
  BY <1>1, <1>2, NoSendUnderPrompt, SubjectOfPrompt
<1>3. ASSUME NEW ins, ins # "KEEP_ALIVE", CanSend(m, ins), screen' = screen,
             NEW sw \in StatusWords \ {"none"}, link' = Respond(Received(m), sw, NoBody)
      PROVE  PromiseStep
  <2>1. Subject = NoBody /\ Subject' = NoBody
    BY <1>2, <1>3, NoSubjectNext
  <2> QED
    BY <1>1, <1>3, <2>1, SentWithoutBody
<1>4. {"6982", "6e00", "6d00", "6b00", "9000", "6a80", "6c66", "6700", "68xx"}
        \subseteq StatusWords \ {"none"}
  BY DEF StatusWords, HandlerErrors
<1>5. CASE NoCommand(m) \/ BadCommand(m)
  BY <1>3, <1>4, <1>5 DEF NoCommand, BadCommand, AnswerAtOnce
<1>6. CASE GetAppConfiguration(m) \/ GetPublicKeyBadPath(m) \/ GetPublicKeyFails(m)
  BY <1>3, <1>4, <1>6 DEF GetAppConfiguration, GetPublicKeyBadPath, GetPublicKeyFails,
     AnswerAtOnce
<1>7. CASE SignTxBadPath(m) \/ SignTxHashDisabled(m) \/ SignTxHashBadData(m)
  BY <1>3, <1>4, <1>7 DEF SignTxBadPath, SignTxHashDisabled, SignTxHashBadData, AnswerAtOnce
<1>8. ASSUME NEW chunk \in Chunks, SignTxTooLong(m, chunk)
      PROVE  PromiseStep
  BY <1>3, <1>4, <1>8 DEF SignTxTooLong, AnswerAtOnce
<1>9. ASSUME NEW path \in Paths, GetPublicKey(m, path)
      PROVE  PromiseStep
  <2> DEFINE head == AddressHead(path)
             body == AddressBody(head)
  <2>1. head \in Heads
    BY HeadType
  <2>2. WithAddress(path).head = head
    BY <1>1, AddressHeadWritten
  <2>3. link' = Respond(Received(m), "9000", body) /\ screen' = screen
    BY <1>9, <2>2 DEF GetPublicKey, AnswerAtOnce
  <2>4. body \in Bodies
    BY <1>1, <2>1, BodyType
  <2>5. Subject = NoBody /\ Subject' = NoBody
    BY <1>2, <1>9, <2>3, NoSubjectNext DEF GetPublicKey
  <2>6. CanSend(m, "GET_PUBLIC_KEY")
    BY <1>9 DEF GetPublicKey
  <2>7. Answer("9000", body) \in
            {Answer("9000", s) : s \in {AddressBody(AddressHead(path1)) : path1 \in Paths}
                                        \cup {NoBody}}
    OBVIOUS
  <2>8. "9000" \in StatusWords
    BY DEF StatusWords
  <2> HIDE DEF body
  <2> QED
    BY <1>1, <2>3, <2>4, <2>5, <2>6, <2>7, <2>8, SentIsAnswered
<1>10. ASSUME NEW path \in Paths, ConfirmPublicKey(m, path)
       PROVE  PromiseStep
  <2>1. /\ CanSend(m, "GET_PUBLIC_KEY") /\ screen' = "address"
        /\ link' = Waiting(m) /\ tx' = WithAddress(path)
    BY <1>10 DEF ConfirmPublicKey, ShowPrompt, AnswerLater
  <2>2. Subject' = AddressBody(AddressHead(path))
    BY <1>1, <2>1, AddressHeadWritten DEF Subject
  <2> QED
    BY <1>1, <1>2, <2>1, <2>2, PromptIsAsked
<1>11. ASSUME NEW path \in Paths, NEW chunk \in Chunks, SignTxFirst(m, path, chunk)
       PROVE  PromiseStep
  BY <1>1, <1>2, <1>11, UploadKeepsPromise DEF SignTxFirst
<1>12. ASSUME NEW chunk \in Chunks, SignTxMore(m, chunk)
       PROVE  PromiseStep
  BY <1>1, <1>2, <1>12, UploadKeepsPromise DEF SignTxMore
<1>13. ASSUME NEW path \in Paths, NEW hash \in HostHashes, SignTxHash(m, path, hash)
       PROVE  PromiseStep
  <2>1. /\ CanSend(m, "SIGN_TX_HASH") /\ screen' = "approve_hash"
        /\ link' = Waiting(m)
    BY <1>13 DEF SignTxHash, ShowPrompt, AnswerLater
  <2> QED
    BY <1>1, <1>2, <2>1, SignatureSubject, PromptIsAsked
<1>14. CASE KeepAlive(m)
  <2>1. /\ CanSend(m, "KEEP_ALIVE") /\ link' = Received(m)
        /\ screen' = screen /\ tx' = tx
    BY <1>14 DEF KeepAlive, AnswerLater, Waiting
  <2>2. Subject' = Subject
    BY <2>1, SubjectStays
  <2>3. link'.media # "none" /\ link'.reply = NoAnswer /\ link.media = "none"
    BY <1>1, <2>1, ReceivedType DEF CanSend
  <2>4. Promise!Wait
    BY <2>2, <2>3 DEF Promise!Wait
  <2> QED
    BY <2>4 DEF PromiseStep, Promise!Next
<1> QED
  BY <1>5, <1>6, <1>7, <1>8, <1>9, <1>10, <1>11, <1>12, <1>13, <1>14 DEF Command

-----------------------------------------------------------------------------
(***************************************************************************)
(* The owner decides on what the prompt shows, and the answer is about     *)
(* that (io_seproxyhal_respond).                                           *)
(***************************************************************************)
LEMMA ApprovedSubject ==
    ASSUME ReviewInv, screen \in {"approve_tx", "approve_hash"}
    PROVE  Subject = SignatureBody(tx)
<1>1. CASE screen = "approve_hash"
  BY <1>1 DEF Subject
<1>2. CASE screen = "approve_tx"
  <2>1. tx.hash = Sha256(tx) /\ tx \in Requests
    BY <1>2 DEF ReviewInv, PromptInv, ReviewFits, TypeOK
  <2>2. [tx EXCEPT !.hash = tx.hash] = tx
    BY <2>1 DEF Requests
  <2> QED
    BY <1>2, <2>1, <2>2 DEF Subject
<1> QED
  BY <1>1, <1>2

\* What an answer does to the transport, with or without a command that waits.
LEMMA Responded ==
    ASSUME TypeOK, NEW sw \in StatusWords, NEW body \in Bodies
    PROVE  /\ Respond(link, sw, body).media = "none"
           /\ Respond(link, sw, body).reply =
                IF link.media # "none" THEN Answer(sw, body) ELSE link.reply
<1>1. link \in Links
  BY DEF TypeOK
<1>2. CASE link.media = "none"
  BY <1>1, <1>2 DEF Respond, Links
<1>3. CASE link.media # "none"
  BY <1>1, <1>3, RespondType
<1> QED
  BY <1>2, <1>3

LEMMA DecisionKeepsPromise ==
    ASSUME ReviewInv, AddressOk \/ AddressCancel \/ TxOk \/ TxCancel
    PROVE  PromiseStep
<1>1. TypeOK /\ screen \in Prompts
  BY DEF ReviewInv, AddressOk, AddressCancel, TxOk, TxCancel, Approving, Prompts
<1>2. Subject # NoBody
  BY <1>1, SubjectOfPrompt
<1>3. screen' = "menu_main"
  BY DEF AddressOk, AddressCancel, TxOk, TxCancel, Decide, BackToIdle, ui_idle, ShowMenu
<1>4. Subject' = NoBody
  BY <1>3, NoSubjectNext, MenusAreNoPrompts DEF Menus
<1>5. {"9000", "6985"} \subseteq StatusWords
  BY DEF StatusWords
<1>6. CASE AddressCancel \/ TxCancel
  <2>1. link' = Respond(link, "6985", NoBody)
    BY <1>6 DEF AddressCancel, TxCancel, Decide
  <2>2. /\ link'.media = "none"
        /\ link'.reply = IF link.media # "none" THEN Answer("6985", NoBody) ELSE link.reply
    BY <1>1, <1>5, <2>1, Responded, NoAnswerType
  <2>3. Answer("6985", NoBody) \in Promise!Refused
    BY RefusedOnceSent DEF StatusWords
  <2>4. Promise!Refuse
    BY <1>2, <1>4, <2>2, <2>3 DEF Promise!Refuse
  <2> QED
    BY <2>4 DEF PromiseStep, Promise!Next
<1>7. ASSUME NEW body \in Bodies, body = Subject, link' = Respond(link, "9000", body)
      PROVE  PromiseStep
  <2>1. /\ link'.media = "none"
        /\ link'.reply = IF link.media # "none" THEN Answer("9000", body) ELSE link.reply
    BY <1>1, <1>5, <1>7, Responded
  <2>2. Promise!Approve
    BY <1>2, <1>4, <1>7, <2>1 DEF Promise!Approve
  <2> QED
    BY <2>2 DEF PromiseStep, Promise!Next
<1>8. CASE AddressOk
  <2>1. Subject = AddressBody(tx.head) /\ link' = Respond(link, "9000", AddressBody(tx.head))
    BY <1>8 DEF Subject, AddressOk, Decide
  <2>2. AddressBody(tx.head) \in Bodies
    BY <1>1, BodyType DEF TypeOK, Requests
  <2> QED
    BY <1>7, <2>1, <2>2
<1>9. CASE TxOk
  <2>1. Subject = SignatureBody(tx) /\ link' = Respond(link, "9000", SignatureBody(tx))
    BY <1>9, ApprovedSubject DEF TxOk, Approving, Decide
  <2>2. SignatureBody(tx) \in Bodies
    BY <1>1, BodyType
  <2> QED
    BY <1>7, <2>1, <2>2
<1> QED
  BY <1>6, <1>8, <1>9

(***************************************************************************)
(* A page that cannot be parsed takes the prompt down with a refusal; the  *)
(* interval that a menu has left armed refuses what waits then, and no     *)
(* more than that (next_formatter, io_event).                              *)
(***************************************************************************)
LEMMA RefusalKeepsPromise ==
    ASSUME TypeOK, TickRefused
    PROVE  PromiseStep
<1> DEFINE sw == ScreenStatus(tx.raw, view)
           l == LinkAfterTimer
<1>1. sw \in StatusWords \ {"none", "9000"}
  BY ScreenStatusType DEF TickRefused, StatusWords
<1>2. link' = Respond(l, sw, NoBody) /\ screen' = "menu_main"
  BY DEF TickRefused, RefusedToIdle
<1>3. Subject' = NoBody
  BY <1>2, NoSubjectNext, MenusAreNoPrompts DEF Menus
<1> HIDE DEF sw
<1>4. /\ link'.media = "none"
      /\ link.media # "none" => link'.reply \in Promise!Refused
      /\ link.media = "none" => link'.reply = link.reply
  <2>1. CASE Expires
    <3>1. link \in Links /\ link.media # "none"
      BY <2>1 DEF Expires, Counting, TypeOK
    <3>2. "6e02" \in StatusWords \ {"none", "9000"}
      BY DEF StatusWords
    <3>3. l = Respond(link, "6e02", NoBody)
      BY <2>1 DEF LinkAfterTimer
    <3>4. l \in Links /\ l.media = "none" /\ l.reply = Answer("6e02", NoBody)
      BY <3>1, <3>2, <3>3, RespondType, NoAnswerType
    <3>5. link'.media = "none" /\ link'.reply = l.reply
      BY <1>2, <3>4 DEF Respond, Links
    <3> QED
      BY <3>1, <3>2, <3>4, <3>5, RefusedOnceSent
  <2>2. CASE ~Expires
    <3>1. link' = Respond(link, sw, NoBody)
      BY <1>2, <2>2 DEF LinkAfterTimer
    <3>2. /\ link'.media = "none"
          /\ link'.reply = IF link.media # "none" THEN Answer(sw, NoBody) ELSE link.reply
      BY <1>1, <3>1, Responded, NoAnswerType
    <3> QED
      BY <1>1, <3>2, RefusedOnceSent
  <2> QED
    BY <2>1, <2>2
<1>5. CASE Subject # NoBody
  <2>1. Promise!Refuse
    BY <1>3, <1>4, <1>5 DEF Promise!Refuse
  <2> QED
    BY <2>1 DEF PromiseStep, Promise!Next
<1>6. CASE Subject = NoBody /\ link.media # "none"
  <2>1. Promise!Busy
    BY <1>3, <1>4, <1>6 DEF Promise!Busy
  <2> QED
    BY <2>1 DEF PromiseStep, Promise!Next
<1>7. CASE Subject = NoBody /\ link.media = "none"
  BY <1>3, <1>4, <1>7 DEF PromiseStep
<1> QED
  BY <1>5, <1>6, <1>7

LEMMA TickKeepsPromise ==
    ASSUME TypeOK, Tick
    PROVE  PromiseStep
<1>1. CASE TickRefused
  BY <1>1, RefusalKeepsPromise
<1>2. CASE ~TickRefused
  <2>1. screen' = screen /\ tx' = tx /\ link' = LinkAfterTimer
    BY <1>2 DEF Tick, TickTimer, TickSuspended, TickAddress, TickNextPage, Redisplay
  <2> QED
    BY <2>1, SubjectStays, TimerIsBusy
<1> QED
  BY <1>1, <1>2

-----------------------------------------------------------------------------
LEMMA PromiseNext ==
    ASSUME ReviewInv, TypeOK', [Next]_vars
    PROVE  PromiseStep
<1>1. ASSUME NEW m \in MEDIA, Command(m)
      PROVE  PromiseStep
  BY <1>1, CommandKeepsPromise
<1>2. CASE AddressOk \/ AddressCancel \/ TxOk \/ TxCancel
  BY <1>2, DecisionKeepsPromise
<1>3. CASE BrowseMenus \/ ChangeHashSigning
  <2>1. screen \in Menus /\ screen' \in Menus /\ link' = link
    BY <1>3 DEF BrowseMenus, ChangeHashSigning, OpenMenu, ShowMenu, Menus
  <2>2. Subject = NoBody /\ Subject' = NoBody
    BY <2>1, SubjectOfPrompt, NoSubjectNext, MenusAreNoPrompts
  <2> QED
    BY <2>1, <2>2 DEF PromiseStep
<1>4. CASE Tick
  BY <1>4, TickKeepsPromise DEF ReviewInv
<1>5. CASE RedrawByOs \/ UNCHANGED vars
  BY <1>5, SubjectStays DEF RedrawByOs, vars, PromiseStep
<1>6. CASE Restart
  <2>1. Subject' = NoBody
    BY <1>6, NoSubjectNext, MenusAreNoPrompts DEF Restart, Menus
  <2>2. Promise!Restart
    BY <1>6, <2>1 DEF Restart, Promise!Restart
  <2> QED
    BY <2>2 DEF PromiseStep, Promise!Next
<1> QED
  BY <1>1, <1>2, <1>3, <1>4, <1>5, <1>6 DEF Next, Owner, SignTxFirstShort

(***************************************************************************)
(* The application keeps the promise of Approval: for every transaction,   *)
(* path and digest, over USB with no assumption about the host and over    *)
(* U2F if the host polls, a signature or a confirmed address leaves the    *)
(* device only by a decision on the prompt that has shown its subject all  *)
(* along (handle_apdu, io_event, io_seproxyhal_respond).                   *)
(***************************************************************************)
THEOREM ApprovalIsImplemented ==
    ASSUME Discipline
    PROVE  Spec => ImplementsApproval
<1>1. Init => Promise!Init
  BY SubjectOfPrompt DEF Init, Promise!Init, Prompts
<1>2. ReviewInv /\ ReviewInv' /\ [Next]_vars => PromiseStep
  BY PromiseNext DEF ReviewInv
<1> QED
  BY <1>1, <1>2, ReviewInvariant, PTL
     DEF Spec, ImplementsApproval, Promise!Spec, PromiseStep, Promise!vars

-----------------------------------------------------------------------------
(***************************************************************************)
(* For a host that keeps to the protocol, EosApp shows and answers what    *)
(* the host asked for, for every path, digest and number of chunks.        *)
(*                                                                         *)
(* The invariant.  PromptIsRequested is not inductive: what is uploaded    *)
(* chunk by chunk has to be in the buffer, behind its path, before the     *)
(* last chunk puts the prompt up.                                          *)
(***************************************************************************)
\* A host that polls (over U2F) and continues only its own uploads.
Protocol == Discipline /\ HostUploads

\* The buffer holds the data of the job.
DataRequested ==
    /\ tx.head = PathHead(job.path)
    /\ tx.raw = job.data /\ tx.rawLength = Len(job.data) /\ tx.overlay = NoPath
    /\ reqType = "CONFIRM_TRANSACTION"

DataInv == job.kind = "upload" \/ screen = "approve_tx" => DataRequested

PromptJob ==
    /\ screen = "approve_tx" => job.kind = "sign"
    /\ screen = "approve_hash" =>
         job.kind = "hash" /\ tx.head = PathHead(job.path) /\ tx.hash = job.hash
    /\ screen = "address" =>
         /\ job.kind = "address" /\ tx.head = AddressHead(job.path)
         /\ reqType = "CONFIRM_ADDRESS"

RequestInv == DataInv /\ PromptJob /\ AnswerIsRequested

HostInv == ReviewInv /\ RequestInv

-----------------------------------------------------------------------------
(***************************************************************************)
(* The frame: what keeps each part of the invariant.                       *)
(***************************************************************************)
LEMMA NoBodyRequested == link'.reply.body = NoBody => AnswerIsRequested'
BY DEF AnswerIsRequested, NoBody

LEMMA SameAnswerRequested ==
    AnswerIsRequested /\ link'.reply = link.reply /\ job' = job => AnswerIsRequested'
BY DEF AnswerIsRequested

LEMMA NothingPrompted ==
    screen' \notin Prompts /\ job'.kind # "upload" => DataInv' /\ PromptJob'
BY DEF DataInv, PromptJob, Prompts

\* The display stays or goes back to a menu, and the request stays.
LEMMA RequestStays ==
    ASSUME DataInv, PromptJob, screen' = screen \/ screen' \notin Prompts,
           UNCHANGED <<job, reqType, tx>>
    PROVE  DataInv' /\ PromptJob'
<1>1. DataRequested => DataRequested'
  BY DEF DataRequested
<1> QED
  BY <1>1 DEF DataInv, PromptJob, Prompts

LEMMA JobFields ==
    ASSUME NEW kind, NEW path, NEW data, NEW hash
    PROVE  /\ Job(kind, path, data, hash).kind = kind
           /\ Job(kind, path, data, hash).path = path
           /\ Job(kind, path, data, hash).data = data
           /\ Job(kind, path, data, hash).hash = hash
BY DEF Job

\* What a command finds in the transport once it is answered.
LEMMA SentReply ==
    ASSUME TypeOK, NEW m \in MEDIA, NEW sw \in StatusWords, NEW body \in Bodies,
           link' = Respond(Received(m), sw, body)
    PROVE  link'.reply.body = body
<1>1. link'.reply = Answer(sw, body)
  BY ReceivedType, RespondType
<1> QED
  BY <1>1 DEF Answer

LEMMA SentNoBody ==
    ASSUME TypeOK, NEW m \in MEDIA, NEW sw \in StatusWords,
           link' = Respond(Received(m), sw, NoBody)
    PROVE  AnswerIsRequested'
BY SentReply, NoAnswerType, NoBodyRequested

LEMMA WaitingReply ==
    ASSUME TypeOK, NEW m \in MEDIA, link' = Waiting(m)
    PROVE  AnswerIsRequested'
<1>1. link'.reply.body = NoBody
  BY ReceivedType DEF Waiting, NoAnswer, Answer
<1> QED
  BY <1>1, NoBodyRequested

-----------------------------------------------------------------------------
(***************************************************************************)
(* The data.  A chunk that continues an upload is appended to it: the      *)
(* position it is written at is the end of the data (os_memmove).          *)
(***************************************************************************)
LEMMA WriteAppends ==
    ASSUME NEW raw \in Seq(Cells), NEW chunk \in Seq(Cells)
    PROVE  Write(raw, Len(raw), chunk) = raw \o chunk
<1> DEFINE w == Write(raw, Len(raw), chunk)
           n == Len(raw) + Len(chunk)
<1>1. w \in Seq(Cells) /\ Len(w) = n
  BY WriteType
<1>2. raw \o chunk \in Seq(Cells) /\ Len(raw \o chunk) = n
  OBVIOUS
<1>3. ASSUME NEW i \in 1..n
      PROVE  w[i] = (raw \o chunk)[i]
  <2>1. w[i] = IF i <= Len(raw) THEN CellAt(raw, i) ELSE chunk[i - Len(raw)]
    BY <1>3 DEF Write
  <2>2. CASE i <= Len(raw)
    BY <1>3, <2>1, <2>2 DEF CellAt
  <2>3. CASE i > Len(raw)
    BY <1>3, <2>1, <2>3
  <2> QED
    BY <2>2, <2>3
<1> HIDE DEF w, n
<1>4. w = raw \o chunk
  BY <1>1, <1>2, <1>3
<1> QED
  BY <1>4 DEF w

LEMMA FirstData ==
    ASSUME NEW path \in Paths, NEW chunk \in Chunks
    PROVE  LET t == FirstChunk(path, chunk)
           IN  /\ t.head = PathHead(path) /\ t.raw = chunk
               /\ t.rawLength = Len(chunk) /\ t.overlay = NoPath
<1> DEFINE head == PathHead(path)
           n == Len(chunk)
           t == FirstChunk(path, chunk)
<1>1. t = [ZeroRequest EXCEPT !.head = head, !.raw = chunk, !.rawLength = n]
  BY DEF FirstChunk
<1>2. ZeroRequest.overlay = NoPath
  BY DEF ZeroRequest
<1> HIDE DEF head, n, t
<1>3. t.head = head /\ t.raw = chunk /\ t.rawLength = n /\ t.overlay = NoPath
  BY <1>1, <1>2, ZeroRequestType DEF Requests
<1> QED
  BY <1>3 DEF t, head, n

LEMMA MoreData ==
    ASSUME TypeOK, DataRequested, NEW chunk \in Chunks
    PROVE  LET t == MoreChunk(chunk)
           IN  /\ t.head = PathHead(job.path) /\ t.raw = job.data \o chunk
               /\ t.rawLength = Len(job.data \o chunk) /\ t.overlay = NoPath
<1> DEFINE raw == Write(tx.raw, tx.rawLength, chunk)
           n == tx.rawLength + Len(chunk)
           overlay == IF tx.rawLength = 0 /\ chunk # <<>> THEN NoPath ELSE tx.overlay
           t == MoreChunk(chunk)
<1>1. tx \in Requests /\ tx.raw \in Seq(Cells) /\ chunk \in Seq(Cells)
  BY ChunksAssumption DEF TypeOK, Requests
<1>2. raw = job.data \o chunk
  BY <1>1, WriteAppends DEF DataRequested
<1>3. n = Len(job.data \o chunk)
  BY <1>1 DEF DataRequested
<1>4. overlay = NoPath
  BY DEF DataRequested
<1>5. t = [tx EXCEPT !.raw = raw, !.rawLength = n, !.overlay = overlay]
  BY DEF MoreChunk
<1> HIDE DEF raw, n, overlay, t
<1>6. t.head = tx.head /\ t.raw = raw /\ t.rawLength = n /\ t.overlay = overlay
  BY <1>1, <1>5 DEF Requests
<1> QED
  BY <1>2, <1>3, <1>4, <1>6 DEF t, DataRequested

LEMMA HashedData ==
    ASSUME NEW t \in Requests
    PROVE  Hashed(t).head = t.head /\ Hashed(t).overlay = t.overlay
<1> DEFINE hash == Sha256(t)
<1>1. Hashed(t) = [t EXCEPT !.hash = hash]
  BY DEF Hashed
<1> HIDE DEF hash
<1> QED
  BY <1>1 DEF Requests

\* Both ends of a SIGN_TX command (handle_sign_tx).
LEMMA UploadIsRequested ==
    ASSUME TypeOK, NEW m \in MEDIA, screen \notin Prompts,
           NEW t \in Requests, NEW v, NEW path, NEW data,
           t.head = PathHead(path), t.raw = data, t.rawLength = Len(data),
           t.overlay = NoPath, reqType' = "CONFIRM_TRANSACTION",
           \/ AcceptChunk(m, t, v, Job("upload", path, data, ZeroHash))
           \/ AskApproval(m, t, v, Job("sign", path, data, ZeroHash))
    PROVE  RequestInv'
<1>1. CASE AcceptChunk(m, t, v, Job("upload", path, data, ZeroHash))
  <2>1. /\ tx' = t /\ job' = Job("upload", path, data, ZeroHash) /\ screen' = screen
        /\ link' = Respond(Received(m), "9000", NoBody)
    BY <1>1 DEF AcceptChunk, AnswerAtOnce
  <2>2. DataRequested'
    BY <2>1, JobFields DEF DataRequested
  <2>3. DataInv' /\ PromptJob'
    BY <2>1, <2>2 DEF DataInv, PromptJob, Prompts
  <2>4. AnswerIsRequested'
    BY <2>1, SentNoBody DEF StatusWords
  <2> QED
    BY <2>3, <2>4 DEF RequestInv
<1>2. CASE AskApproval(m, t, v, Job("sign", path, data, ZeroHash))
  <2> DEFINE sw == ScreenStatus(t.raw, Rewound(v))
  <2>1. tx' = Hashed(t) /\ job' = Job("sign", path, data, ZeroHash)
    BY <1>2 DEF AskApproval
  <2>2. job'.kind = "sign" /\ job'.path = path /\ job'.data = data
    BY <2>1, JobFields
  <2>3. DataRequested'
    BY <2>1, <2>2, HashedType, HashedData DEF DataRequested
  <2>4. CASE sw = "9000"
    <3>1. screen' = "approve_tx" /\ link' = Waiting(m)
      BY <1>2, <2>4 DEF AskApproval, ShowPrompt
    <3> QED
      BY <2>2, <2>3, <3>1, WaitingReply DEF RequestInv, DataInv, PromptJob
  <2>5. CASE sw # "9000"
    <3>1. screen' = "menu_main" /\ link' = Respond(Received(m), sw, NoBody)
      BY <1>2, <2>5 DEF AskApproval, ui_idle, ShowMenu
    <3>2. sw \in StatusWords
      BY ScreenStatusType DEF StatusWords
    <3> HIDE DEF sw
    <3>3. AnswerIsRequested'
      BY <3>1, <3>2, SentNoBody
    <3> QED
      BY <2>2, <3>1, <3>3, NothingPrompted, MenusAreNoPrompts DEF RequestInv, Menus
  <2> QED
    BY <2>4, <2>5
<1> QED
  BY <1>1, <1>2

-----------------------------------------------------------------------------
(***************************************************************************)
(* Commands (handle_apdu).                                                 *)
(***************************************************************************)
LEMMA CommandIsRequested ==
    ASSUME HostUploads, HostInv, NEW m \in MEDIA, Command(m)
    PROVE  RequestInv'
<1>1. TypeOK /\ PromptHeld /\ DataInv /\ PromptJob /\ AnswerIsRequested
  BY DEF HostInv, ReviewInv, PromptInv, RequestInv
<1>2. ASSUME NEW ins, ins # "KEEP_ALIVE", CanSend(m, ins)
      PROVE  screen \notin Prompts
  BY <1>1, <1>2, NoSendUnderPrompt
<1>3. ASSUME NEW ins, ins # "KEEP_ALIVE", CanSend(m, ins), screen' = screen,
             NEW sw \in StatusWords, link' = Respond(Received(m), sw, NoBody),
             job' = OtherJob
      PROVE  RequestInv'
  <2>1. screen' \notin Prompts
    BY <1>2, <1>3
  <2>2. job'.kind # "upload"
    BY <1>3, JobFields DEF OtherJob
  <2> QED
    BY <1>1, <1>3, <2>1, <2>2, NothingPrompted, SentNoBody DEF RequestInv
<1>4. {"6982", "6e00", "6d00", "6b00", "9000", "6a80", "6c66", "6700", "68xx"} \subseteq StatusWords
  BY DEF StatusWords, HandlerErrors
<1>5. CASE NoCommand(m) \/ BadCommand(m)
  BY <1>3, <1>4, <1>5 DEF NoCommand, BadCommand, AnswerAtOnce
<1>6. CASE GetAppConfiguration(m) \/ GetPublicKeyBadPath(m) \/ GetPublicKeyFails(m)
  BY <1>3, <1>4, <1>6 DEF GetAppConfiguration, GetPublicKeyBadPath, GetPublicKeyFails,
     AnswerAtOnce
<1>7. CASE SignTxBadPath(m) \/ SignTxHashDisabled(m) \/ SignTxHashBadData(m)
  BY <1>3, <1>4, <1>7 DEF SignTxBadPath, SignTxHashDisabled, SignTxHashBadData, AnswerAtOnce
<1>8. ASSUME NEW chunk \in Chunks, SignTxTooLong(m, chunk)
      PROVE  RequestInv'
  BY <1>3, <1>4, <1>8 DEF SignTxTooLong, AnswerAtOnce
<1>9. ASSUME NEW path \in Paths, GetPublicKey(m, path)
      PROVE  RequestInv'
  <2> DEFINE head == AddressHead(path)
             body == AddressBody(head)
             t == WithAddress(path)
  <2>1. t.head \in Heads /\ AddressBody(t.head) \in Bodies /\ t.head = head
    <3>1. t = [tx EXCEPT !.head = head, !.overlay = path]
      BY DEF WithAddress
    <3>2. head \in Heads
      BY HeadType
    <3> HIDE DEF head, t
    <3>3. t.head = head
      BY <1>1, <3>1 DEF TypeOK, Requests
    <3> QED
      BY <1>1, <3>2, <3>3, BodyType
  <2>2. /\ link' = Respond(Received(m), "9000", body) /\ screen' = screen
        /\ job' = Job("address", path, <<>>, ZeroHash) /\ CanSend(m, "GET_PUBLIC_KEY")
    BY <1>9, <2>1 DEF GetPublicKey, AnswerAtOnce
  <2>3. screen' \notin Prompts
    BY <1>2, <2>2
  <2>4. job'.kind = "address" /\ job'.path = path
    BY <2>2, JobFields
  <2>5. body \in Bodies
    BY <2>1
  <2> HIDE DEF body
  <2>6. link'.reply.body = body
    BY <1>1, <1>4, <2>2, <2>5, SentReply
  <2>7. body.kind = "address" /\ body.head = AddressHead(path)
    BY DEF body, AddressBody
  <2>8. AnswerIsRequested'
    BY <2>4, <2>6, <2>7 DEF AnswerIsRequested
  <2> QED
    BY <2>3, <2>4, <2>8, NothingPrompted DEF RequestInv
<1>10. ASSUME NEW path \in Paths, ConfirmPublicKey(m, path)
       PROVE  RequestInv'
  <2>1. /\ tx' = WithAddress(path) /\ screen' = "address" /\ reqType' = "CONFIRM_ADDRESS"
        /\ link' = Waiting(m) /\ job' = Job("address", path, <<>>, ZeroHash)
    BY <1>10 DEF ConfirmPublicKey, ShowPrompt, AnswerLater
  <2>2. tx'.head = AddressHead(path)
    <3> DEFINE head == AddressHead(path)
    <3>1. tx' = [tx EXCEPT !.head = head, !.overlay = path]
      BY <2>1 DEF WithAddress
    <3> HIDE DEF head
    <3>2. tx'.head = head
      BY <1>1, <3>1 DEF TypeOK, Requests
    <3> QED
      BY <3>2 DEF head
  <2>3. job'.kind = "address" /\ job'.path = path
    BY <2>1, JobFields
  <2>4. DataInv' /\ PromptJob'
    BY <2>1, <2>2, <2>3 DEF DataInv, PromptJob
  <2> QED
    BY <1>1, <2>1, <2>4, WaitingReply DEF RequestInv
<1>11. ASSUME NEW path \in Paths, NEW chunk \in Chunks, SignTxFirst(m, path, chunk)
       PROVE  RequestInv'
  <2> DEFINE t == FirstChunk(path, chunk)
  <2>1. /\ screen \notin Prompts /\ reqType' = "CONFIRM_TRANSACTION"
        /\ \/ AcceptChunk(m, t, Cleared(view), Job("upload", path, chunk, ZeroHash))
           \/ AskApproval(m, t, Cleared(view), Job("sign", path, chunk, ZeroHash))
    BY <1>2, <1>11 DEF SignTxFirst, TransactionType
  <2>2. t \in Requests
    BY FirstChunkType
  <2>3. t.head = PathHead(path) /\ t.raw = chunk /\ t.rawLength = Len(chunk) /\ t.overlay = NoPath
    BY FirstData
  <2> HIDE DEF t
  <2> QED
    BY <1>1, <2>1, <2>2, <2>3, UploadIsRequested
<1>12. ASSUME NEW chunk \in Chunks, SignTxMore(m, chunk)
       PROVE  RequestInv'
  <2>1. /\ job.kind = "upload" /\ screen \notin Prompts /\ reqType' = reqType
        /\ \/ AcceptChunk(m, MoreChunk(chunk), view, Continued("upload", chunk))
           \/ AskApproval(m, MoreChunk(chunk), view, Continued("sign", chunk))
    BY <1>2, <1>12 DEF SignTxMore, CanContinue
  <2>2. DataRequested
    BY <1>1, <2>1 DEF DataInv
  <2>3. \A kind : Continued(kind, chunk) = Job(kind, job.path, job.data \o chunk, ZeroHash)
    BY <2>1 DEF Continued
  <2>4. MoreChunk(chunk) \in Requests /\ reqType' = "CONFIRM_TRANSACTION"
    BY <1>1, <2>1, <2>2, MoreChunkType DEF DataRequested
  <2> QED
    BY <1>1, <2>1, <2>2, <2>3, <2>4, MoreData, UploadIsRequested
<1>13. ASSUME NEW path \in Paths, NEW hash \in HostHashes, SignTxHash(m, path, hash)
       PROVE  RequestInv'
  <2> DEFINE head == PathHead(path)
  <2>1. /\ tx' = [ZeroRequest EXCEPT !.head = head, !.hash = hash]
        /\ screen' = "approve_hash" /\ link' = Waiting(m)
        /\ job' = Job("hash", path, <<>>, hash)
    BY <1>13 DEF SignTxHash, ShowPrompt, AnswerLater
  <2> HIDE DEF head
  <2>2. tx'.head = head /\ tx'.hash = hash
    BY <2>1, ZeroRequestType DEF Requests
  <2>3. job'.kind = "hash" /\ job'.path = path /\ job'.hash = hash
    BY <2>1, JobFields
  <2>4. DataInv' /\ PromptJob'
    BY <2>1, <2>2, <2>3 DEF DataInv, PromptJob, head
  <2> QED
    BY <1>1, <2>1, <2>4, WaitingReply DEF RequestInv
<1>14. CASE KeepAlive(m)
  <2>1. /\ UNCHANGED <<screen, reqType, tx>> /\ link' = Waiting(m) /\ CanSend(m, "KEEP_ALIVE")
        /\ job' = IF link.reply.sw = "6e02" THEN job
                  ELSE Job("keep_alive", NoPath, <<>>, ZeroHash)
    BY <1>14 DEF KeepAlive, AnswerLater
  <2>2. CASE job' = job
    BY <1>1, <2>1, <2>2, RequestStays, WaitingReply DEF RequestInv
  <2>3. CASE job' # job
    <3>1. screen \notin Prompts
      BY <1>1, <2>1, <2>3 DEF PromptHeld, CanSend
    <3>2. job'.kind = "keep_alive"
      BY <2>1, <2>3, JobFields
    <3> QED
      BY <1>1, <2>1, <3>1, <3>2, NothingPrompted, WaitingReply DEF RequestInv
  <2> QED
    BY <2>2, <2>3
<1> QED
  BY <1>5, <1>6, <1>7, <1>8, <1>9, <1>10, <1>11, <1>12, <1>13, <1>14 DEF Command

-----------------------------------------------------------------------------
(***************************************************************************)
(* The owner's answer is that of the prompt, and the prompt is the job's   *)
(* (io_seproxyhal_respond).                                                *)
(***************************************************************************)
LEMMA RespondReply ==
    ASSUME NEW l \in Links, NEW sw \in StatusWords, NEW body \in Bodies
    PROVE  Respond(l, sw, body).reply.body \in {l.reply.body, body}
<1>1. CASE l.media = "none"
  BY <1>1 DEF Respond, Links
<1>2. CASE l.media # "none"
  <2>1. Respond(l, sw, body).reply = Answer(sw, body)
    BY <1>2, RespondType
  <2> QED
    BY <2>1 DEF Answer
<1> QED
  BY <1>1, <1>2

LEMMA DecisionIsRequested ==
    ASSUME HostInv, Owner
    PROVE  RequestInv'
<1>1. TypeOK /\ DataInv /\ PromptJob /\ AnswerIsRequested /\ ReviewFits /\ link \in Links
  BY DEF HostInv, ReviewInv, PromptInv, RequestInv, TypeOK
<1>2. UNCHANGED <<job, reqType, tx>> /\ screen' \in Menus
  BY DEF Owner, AddressOk, AddressCancel, TxOk, TxCancel, Decide, BackToIdle, ui_idle,
     BrowseMenus, ChangeHashSigning, OpenMenu, ShowMenu, Menus
<1>3. DataInv' /\ PromptJob'
  BY <1>1, <1>2, RequestStays, MenusAreNoPrompts
<1>4. {"9000", "6985"} \subseteq StatusWords
  BY DEF StatusWords
<1>5. ASSUME link'.reply.body = link.reply.body
      PROVE  AnswerIsRequested'
  BY <1>1, <1>2, <1>5 DEF AnswerIsRequested
<1>6. CASE BrowseMenus \/ ChangeHashSigning
  BY <1>3, <1>5, <1>6 DEF RequestInv, BrowseMenus, ChangeHashSigning
<1>7. CASE AddressCancel \/ TxCancel
  <2>1. link' = Respond(link, "6985", NoBody)
    BY <1>7 DEF AddressCancel, TxCancel, Decide
  <2>2. link'.reply.body \in {link.reply.body, NoBody}
    BY <1>1, <1>4, <2>1, RespondReply, NoAnswerType
  <2> QED
    BY <1>3, <1>5, <2>2, NoBodyRequested DEF RequestInv
<1>8. CASE AddressOk
  <2> DEFINE body == AddressBody(tx.head)
  <2>1. link' = Respond(link, "9000", body) /\ screen = "address"
    BY <1>8 DEF AddressOk, Decide
  <2>2. body \in Bodies
    BY <1>1, BodyType DEF TypeOK, Requests
  <2>3. body.kind = "address" /\ body.head = tx.head
    BY DEF AddressBody
  <2> HIDE DEF body
  <2>4. link'.reply.body \in {link.reply.body, body}
    BY <1>1, <1>4, <2>1, <2>2, RespondReply
  <2>5. link'.reply.body = body => AnswerIsRequested'
    BY <1>1, <1>2, <2>1, <2>3 DEF PromptJob, AnswerIsRequested
  <2> QED
    BY <1>3, <1>5, <2>4, <2>5 DEF RequestInv
<1>9. CASE TxOk
  <2> DEFINE body == SignatureBody(tx)
  <2>1. link' = Respond(link, "9000", body) /\ screen \in {"approve_tx", "approve_hash"}
    BY <1>9 DEF TxOk, Approving, Decide
  <2>2. body \in Bodies
    BY <1>1, BodyType
  <2>3. body.kind = "signature" /\ body.head = tx.head /\ body.hash = tx.hash
    BY DEF SignatureBody
  <2> HIDE DEF body
  <2>4. link'.reply.body \in {link.reply.body, body}
    BY <1>1, <1>4, <2>1, <2>2, RespondReply
  <2>5. /\ job.kind \in {"sign", "hash"} /\ tx.head = PathHead(job.path)
        /\ tx.hash = IF job.kind = "hash" THEN job.hash
                     ELSE [data |-> job.data, length |-> Len(job.data), overlay |-> NoPath]
    <3>1. CASE screen = "approve_tx"
      BY <1>1, <3>1 DEF PromptJob, DataInv, DataRequested, ReviewFits, Sha256
    <3>2. CASE screen = "approve_hash"
      BY <1>1, <3>2 DEF PromptJob
    <3> QED
      BY <2>1, <3>1, <3>2
  <2>6. link'.reply.body = body => AnswerIsRequested'
    BY <1>2, <2>3, <2>5 DEF AnswerIsRequested
  <2> QED
    BY <1>3, <1>5, <2>4, <2>6 DEF RequestInv
<1> QED
  BY <1>6, <1>7, <1>8, <1>9 DEF Owner

(***************************************************************************)
(* A tick answers without a body, if at all (io_event, next_formatter).    *)
(***************************************************************************)
LEMMA TickIsRequested ==
    ASSUME HostInv, Tick
    PROVE  RequestInv'
<1>1. TypeOK /\ DataInv /\ PromptJob /\ AnswerIsRequested /\ link \in Links
  BY DEF HostInv, ReviewInv, RequestInv, TypeOK
<1>2. UNCHANGED <<job, reqType, tx>>
  BY DEF Tick
<1>3. screen' = screen \/ screen' \notin Prompts
  BY MenusAreNoPrompts DEF Tick, TickTimer, TickSuspended, TickAddress, TickNextPage,
     TickRefused, Redisplay, RefusedToIdle, Menus
<1>4. LinkAfterTimer \in Links
  BY <1>1, TimerLeftType
<1>5. LinkAfterTimer.reply.body \in {link.reply.body, NoBody}
  BY <1>1, RespondReply, NoAnswerType DEF LinkAfterTimer, StatusWords
<1>6. link'.reply.body \in {link.reply.body, NoBody}
  <2>1. CASE TickRefused
    <3> DEFINE sw == ScreenStatus(tx.raw, view)
    <3>1. link' = Respond(LinkAfterTimer, sw, NoBody)
      BY <2>1 DEF TickRefused
    <3>2. sw \in StatusWords
      BY ScreenStatusType DEF StatusWords
    <3> HIDE DEF sw
    <3>3. link'.reply.body \in {LinkAfterTimer.reply.body, NoBody}
      BY <1>4, <3>1, <3>2, RespondReply, NoAnswerType
    <3> QED
      BY <1>5, <3>3
  <2>2. CASE ~TickRefused
    <3>1. link' = LinkAfterTimer
      BY <2>2 DEF Tick, TickTimer, TickSuspended, TickAddress, TickNextPage
    <3> QED
      BY <1>5, <3>1
  <2> QED
    BY <2>1, <2>2
<1>7. link'.reply.body = link.reply.body => AnswerIsRequested'
  BY <1>1, <1>2 DEF AnswerIsRequested
<1> QED
  BY <1>1, <1>2, <1>3, <1>6, <1>7, RequestStays, NoBodyRequested DEF RequestInv

-----------------------------------------------------------------------------
LEMMA RequestNext == Protocol /\ HostInv /\ [Next]_vars => HostInv'
<1> SUFFICES ASSUME Protocol, HostInv, [Next]_vars
             PROVE  HostInv'
  OBVIOUS
<1>1. ReviewInv'
  BY ReviewNext DEF Protocol, HostInv
<1>2. RequestInv'
  <2>1. ASSUME NEW m \in MEDIA, Command(m)
        PROVE  RequestInv'
    BY <2>1, CommandIsRequested DEF Protocol
  <2>2. CASE Owner
    BY <2>2, DecisionIsRequested
  <2>3. CASE Tick
    BY <2>3, TickIsRequested
  <2>4. CASE RedrawByOs \/ UNCHANGED vars
    <3>1. UNCHANGED <<link, job, screen, reqType, tx>>
      BY <2>4 DEF RedrawByOs, vars
    <3> QED
      BY <3>1, RequestStays, SameAnswerRequested DEF HostInv, RequestInv
  <2>5. CASE Restart
    <3>1. screen' \notin Prompts /\ link'.reply.body = NoBody /\ job'.kind = "none"
      BY <2>5, MenusAreNoPrompts, JobFields DEF Restart, Menus, NoAnswer, Answer, NoJob
    <3> QED
      BY <3>1, NothingPrompted, NoBodyRequested DEF RequestInv
  <2> QED
    BY <2>1, <2>2, <2>3, <2>4, <2>5 DEF Next, SignTxFirstShort
<1> QED
  BY <1>1, <1>2 DEF HostInv

LEMMA RequestInit == Init => HostInv
<1> SUFFICES ASSUME Init
             PROVE  HostInv
  OBVIOUS
<1>1. job.kind = "none"
  BY JobFields DEF Init, NoJob
<1>2. RequestInv
  BY <1>1 DEF Init, RequestInv, DataInv, PromptJob, AnswerIsRequested, NoAnswer, Answer, NoBody
<1> QED
  BY <1>2, ReviewInit DEF HostInv

LEMMA RequestInvariant ==
    ASSUME Protocol
    PROVE  Spec => []HostInv
<1>1. Init => HostInv
  BY RequestInit
<1>2. HostInv /\ [Next]_vars => HostInv'
  BY RequestNext
<1> QED
  BY <1>1, <1>2, PTL DEF Spec

(***************************************************************************)
(* For a host that keeps to the protocol, every prompt is about its last   *)
(* request, whole and with its path, however many chunks it came in        *)
(* (handle_sign_tx, handle_sign_tx_hash, handle_get_public_key).           *)
(***************************************************************************)
THEOREM PromptIsAlwaysRequested ==
    ASSUME Protocol
    PROVE  Spec => []PromptIsRequested
<1>1. HostInv => PromptIsRequested
  BY DEF HostInv, RequestInv, DataInv, DataRequested, PromptJob, PromptIsRequested,
     ReviewInv, PromptInv, ReviewFits, Sha256
<1> QED
  BY <1>1, RequestInvariant, PTL

(***************************************************************************)
(* For such a host, every address and every signature it gets is the one   *)
(* it asked for last, whatever the timer, the owner and KEEP_ALIVE do in   *)
(* between (set_result_sign_tx, set_result_get_public_key).                *)
(***************************************************************************)
THEOREM AnswerIsAlwaysRequested ==
    ASSUME Protocol
    PROVE  Spec => []AnswerIsRequested
<1>1. HostInv => AnswerIsRequested
  BY DEF HostInv, RequestInv
<1> QED
  BY <1>1, RequestInvariant, PTL
=============================================================================
