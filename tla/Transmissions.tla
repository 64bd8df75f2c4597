------------------------------ MODULE Transmissions ------------------------------
(***************************************************************************)
(* One direction of a session's connection.  A batch of messages is cut     *)
(* into transmissions (protocol::CreateTransmissions) that a TCP socket      *)
(* delivers in pieces of any size; the receiver keeps what it has got in the *)
(* working buffer of an IncomingBufferStitcher until a whole batch is there  *)
(* (SessionManager::ProcessPendingConnectionOperations).  The first batch is *)
(* the greeting: the handshake thread takes it from the same buffer, and the *)
(* encryption changes behind it.                                             *)
(*                                                                         *)
(* A unit stands for the bytes of one header or for some of the messages; a  *)
(* transmission begins with a CommonHeader and a MessageBatch, a unit each.  *)
(***************************************************************************)
EXTENDS Integers, Sequences

CONSTANTS
    Sizes,              \* bound: the size of each batch, the greeting's first
    MaxPayload,         \* maxMessageBytesPerTransmission
    MaxPrefetch         \* TCPIncomingBufferStream::mMaxPrefetchSize

ASSUME TransmissionsAssumption ==
    /\ Sizes \in Seq(Nat \ {0}) /\ Len(Sizes) > 0
    /\ MaxPayload \in Nat \ {0} /\ Sizes[1] <= MaxPayload
    /\ MaxPrefetch \in Nat \ {0}

VARIABLES
    next,               \* sender: the batch it sends next
    unstored,           \* sender: transmissions of the last one still to be stored
    closed,             \* sender: it has ended the connection
    network,            \* units on their way
    prefetched,         \* TCPIncomingBufferStream::mPrefetchBuffer
    working,            \* IncomingBufferStitcher::mWorkingBuffer
    socket,             \* the receiver's: "valid", "ended" by the sender, or "shut"
    greeted,            \* the receiver has its handshake
    reader,             \* the next step of the thread that reads
    invalid,            \* it has found bytes that are no batch
    batches             \* the batches it has received

sender == <<next, unstored, closed>>
buffers == <<network, prefetched, working>>
vars == <<sender, buffers, socket, greeted, reader, invalid, batches>>

Common == [kind |-> "common", total |-> 0, size |-> 0, encrypted |-> FALSE]

BatchHeader(total, size, encrypted) ==
    [kind |-> "batch", total |-> total, size |-> size, encrypted |-> encrypted]

\* The greeting is sent in the clear
Encrypted(b) == b > 1

\* The messages of batch b
Messages(b) ==
    [i \in 1 .. Sizes[b] |-> [kind |-> "message", total |-> b, size |-> i, encrypted |-> Encrypted(b)]]

Least(a, b) == IF a < b THEN a ELSE b

\* Each transmission takes what fits of what the ones before it left
CreateTransmissions(b) ==
    [k \in 1 .. (Sizes[b] + MaxPayload - 1) \div MaxPayload |->
        LET first == (k - 1) * MaxPayload + 1
            last == Least(k * MaxPayload, Sizes[b])
        IN  <<Common, BatchHeader(Sizes[b], last - first + 1, Encrypted(b))>>
                \o SubSeq(Messages(b), first, last)]

Init ==
    /\ next = 1 /\ unstored = <<>> /\ closed = FALSE
    /\ network = <<>> /\ prefetched = <<>> /\ working = <<>>
    /\ socket = "valid" /\ greeted = FALSE
    /\ reader = "idle" /\ invalid = FALSE /\ batches = <<>>

------------------------------------------------------------------------------
(* Sender *)

SendBatch ==
    /\ next <= Len(Sizes) /\ unstored = <<>> /\ ~closed
    /\ unstored' = CreateTransmissions(next)
    /\ next' = next + 1
    /\ UNCHANGED <<closed, buffers, socket, greeted, reader, invalid, batches>>

StoreNextBuffer ==
    /\ unstored # <<>> /\ ~closed
    /\ network' = IF socket = "valid" THEN network \o Head(unstored) ELSE network
    /\ unstored' = Tail(unstored)
    /\ UNCHANGED <<next, closed, prefetched, working, socket, greeted, reader, invalid, batches>>

\* In the middle of a batch, too
Close ==
    /\ ~closed
    /\ closed' = TRUE
    /\ UNCHANGED <<next, unstored, buffers, socket, greeted, reader, invalid, batches>>

------------------------------------------------------------------------------
(* Decoding *)

\* What a decoding knows after some transmissions: where it is in the bytes, the
\* messages it has found and their announced total
Decoding == [is |-> "incomplete", at |-> 0, found |-> <<>>, total |-> 0]

TryDecodeTransmission(bytes, encrypted, d) ==
    LET left == Len(bytes) - d.at
        header == bytes[d.at + 2]
        found == d.found \o SubSeq(bytes, d.at + 3, d.at + 2 + header.size)
        malformed == \/ left > 0 /\ bytes[d.at + 1].kind # "common"
                     \/ left > 1 /\ header.kind # "batch"
        short == left < 2 \/ left - 2 < header.size
        refused == \/ header.encrypted # encrypted
                   \/ d.total # 0 /\ header.total # d.total
    IN  CASE malformed -> [d EXCEPT !.is = "bad"]
          [] ~malformed /\ short -> [d EXCEPT !.is = "too small"]
          [] ~malformed /\ ~short /\ refused -> [d EXCEPT !.is = "bad"]
          [] OTHER -> [is |-> IF Len(found) < header.total THEN "incomplete" ELSE "success",
                       at |-> d.at + 2 + header.size, found |-> found, total |-> header.total]

\* One transmission after the other, as long as there is one to come.  (The sets
\* of one have TLC evaluate their element once.)
TryDecodeTransmissionsIntoFullBatch(bytes, encrypted) ==
    LET After[k \in 0 .. Len(bytes)] ==
            IF k = 0 THEN Decoding
            ELSE CHOOSE r \in {IF d.is = "incomplete" THEN TryDecodeTransmission(bytes, encrypted, d)
                               ELSE d : d \in {After[k - 1]}} : TRUE
    IN  CHOOSE r \in {IF d.is = "incomplete" THEN [d EXCEPT !.is = "too small"] ELSE d :
                        d \in {After[Len(bytes)]}} : TRUE

\* Hello and welcome are a transmission of their own
TryDecodeGreeting(bytes) ==
    LET d == TryDecodeTransmission(bytes, FALSE, Decoding) IN
        IF d.is = "success" /\ d.found # Messages(1) THEN [d EXCEPT !.is = "bad"] ELSE d

------------------------------------------------------------------------------
(* Receiver *)

\* TCPIncomingBufferStream::Prefetch fills its empty buffer, unless that would
\* block; that there is nothing to receive shows the end of the connection
Prefetch ==
    /\ IF socket = "valid" /\ network # <<>>
       THEN \E n \in 1 .. Least(Len(network), MaxPrefetch) :
                /\ prefetched' = SubSeq(network, 1, n)
                /\ network' = SubSeq(network, n + 1, Len(network))
       ELSE UNCHANGED <<prefetched, network>>
    /\ socket' = IF socket = "valid" /\ network = <<>> /\ closed THEN "ended" ELSE socket

\* The connection is among the valid ones, or untrusted and not terminated
BeginPass ==
    /\ reader = "idle" /\ socket = "valid"
    /\ reader' = "peek"
    /\ UNCHANGED <<sender, buffers, socket, greeted, invalid, batches>>

\* A mutant of PeekNextBufferSize that takes no size for some
PeekAnyway ==
    /\ reader = "peek"
    /\ IF working = <<>> /\ prefetched = <<>> THEN Prefetch
       ELSE UNCHANGED <<prefetched, network, socket>>
    /\ reader' = "decode"
    /\ UNCHANGED <<sender, working, greeted, invalid, batches>>

PeekNextBufferSize ==
    /\ reader = "peek"
    /\ IF working = <<>> /\ prefetched = <<>> THEN Prefetch
       ELSE UNCHANGED <<prefetched, network, socket>>
    /\ reader' = IF working = <<>> /\ prefetched' = <<>> THEN "idle" ELSE "decode"
    /\ UNCHANGED <<sender, working, greeted, invalid, batches>>

\* A mutant of Decode that fetches the whole buffer, not what was consumed
DecodeAndDrop ==
    /\ reader = "decode"
    /\ prefetched' = IF working = <<>> THEN <<>> ELSE prefetched
    /\ \E bytes \in {IF working = <<>> THEN prefetched ELSE working} :
       \E d \in {IF greeted THEN TryDecodeTransmissionsIntoFullBatch(bytes, TRUE)
                 ELSE TryDecodeGreeting(bytes)} :
        /\ working' = IF d.is = "success" THEN <<>> ELSE bytes
        /\ batches' = IF d.is = "success" THEN Append(batches, d.found) ELSE batches
        /\ greeted' = (greeted \/ d.is = "success")
        /\ invalid' = (invalid \/ d.is = "bad")
        /\ socket' = IF d.is = "bad" THEN "shut" ELSE socket
        /\ reader' = CASE d.is = "too small" -> "stitch"
                        [] d.is # "too small" /\ greeted -> "peek"
                        [] OTHER -> "idle"
    /\ UNCHANGED <<sender, network>>

\* CloneNextBuffer, the attempt to decode, and FetchNextBuffer of what it consumed.
\* The frame thread's loop goes on, after invalid bytes too
Decode ==
    /\ reader = "decode"
    /\ prefetched' = IF working = <<>> THEN <<>> ELSE prefetched
    /\ \E bytes \in {IF working = <<>> THEN prefetched ELSE working} :
       \E d \in {IF greeted THEN TryDecodeTransmissionsIntoFullBatch(bytes, TRUE)
                 ELSE TryDecodeGreeting(bytes)} :
        /\ working' = IF d.is = "success" THEN SubSeq(bytes, d.at + 1, Len(bytes)) ELSE bytes
        /\ batches' = IF d.is = "success" THEN Append(batches, d.found) ELSE batches
        /\ greeted' = (greeted \/ d.is = "success")
        /\ invalid' = (invalid \/ d.is = "bad")
        /\ socket' = IF d.is = "bad" THEN "shut" ELSE socket
        /\ reader' = CASE d.is = "too small" -> "stitch"
                        [] d.is # "too small" /\ greeted -> "peek"
                        [] OTHER -> "idle"
    /\ UNCHANGED <<sender, network>>

\* A mutant of TryStitchNextBuffer that does not ask the socket for more
StitchPrefetched ==
    /\ reader = "stitch"
    /\ working' = working \o prefetched
    /\ prefetched' = <<>>
    /\ reader' = IF working' # working /\ greeted THEN "peek" ELSE "idle"
    /\ UNCHANGED <<sender, network, socket, greeted, invalid, batches>>

\* The frame thread tries again at once, the handshake thread in its next pass
TryStitchNextBuffer ==
    /\ reader = "stitch"
    /\ IF prefetched = <<>> /\ socket = "valid" /\ network # <<>>
       THEN \E n \in 1 .. Least(Len(network), MaxPrefetch) :
                /\ working' = working \o SubSeq(network, 1, n)
                /\ network' = SubSeq(network, n + 1, Len(network))
                /\ UNCHANGED <<prefetched, socket>>
       ELSE /\ working' = working \o prefetched
            /\ prefetched' = <<>>
            /\ socket' = IF prefetched = <<>> /\ socket = "valid" /\ closed THEN "ended" ELSE socket
            /\ UNCHANGED network
    /\ reader' = IF working' # working /\ greeted THEN "peek" ELSE "idle"
    /\ UNCHANGED <<sender, greeted, invalid, batches>>

\* Terminate, by whoever found the connection broken
Terminate ==
    /\ socket = "valid"
    /\ socket' = "shut"
    /\ network' = <<>>
    /\ UNCHANGED <<sender, prefetched, working, greeted, reader, invalid, batches>>

------------------------------------------------------------------------------
Read == BeginPass \/ PeekNextBufferSize \/ Decode \/ TryStitchNextBuffer

Next == SendBatch \/ StoreNextBuffer \/ Close \/ Read \/ Terminate

\* Validator, handshaker and frames come back to a connection that is valid
Fairness == WF_vars(Read)

Spec == Init /\ [][Next]_vars

FairSpec == Spec /\ Fairness

------------------------------------------------------------------------------
(* Properties *)

TypeOK ==
    /\ next \in 1 .. Len(Sizes) + 1
    /\ closed \in BOOLEAN /\ greeted \in BOOLEAN /\ invalid \in BOOLEAN
    /\ socket \in {"valid", "ended", "shut"}
    /\ reader \in {"idle", "peek", "decode", "stitch"}

\* The batches of which every transmission has been stored
SentWhole == IF unstored = <<>> THEN next - 1 ELSE next - 2

(* However the network cuts the bytes, batches come out whole, once and in      *)
(* order, none invented and none split over the greeting.                       *)
Channel == INSTANCE BatchChannel
    WITH Batches <- {Messages(b) : b \in DOMAIN Sizes},
         sent <- [b \in 1 .. SentWhole |-> Messages(b)],
         received <- batches

ImplementsChannel == Channel!Spec

(* A fetch is only made where it can not block the frame or the handshake for   *)
(* a sender (the contract of BufferStream.h: a peeked size makes the fetch not  *)
(* block), and no bytes are fetched past those already stitched together.       *)
FetchNeverBlocks ==
    /\ reader = "decode" => working # <<>> \/ prefetched # <<>>
    /\ working # <<>> => prefetched = <<>>

(* A batch that has been sent whole arrives unless the receiver drops the        *)
(* connection: that the sender ends it loses nothing that was whole, and nothing *)
(* is taken for invalid, because both sides change their encryption behind the   *)
(* same byte, whatever arrives together.                                         *)
EverythingArrives ==
    /\ []~invalid
    /\ \A b \in DOMAIN Sizes : SentWhole >= b ~> Len(batches) >= b \/ socket = "shut"

================================================================================
