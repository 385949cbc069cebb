----------------------------- MODULE TabletLink -----------------------------
(***************************************************************************)
(* One connection: the byte stream between a tablet and the server's code  *)
(* for it, which is readTransactionData when no transaction is under way   *)
(* and internalRead or internalWrite when one is, all of them on top of    *)
(* readAllSocketData and sendToSocket.  The tablet is external: it follows *)
(* the exchange that the comments in internalRead and internalWrite give.  *)
(*                                                                         *)
(* What the tablet sends is a stream of bytes that carry where they come   *)
(* from, so that a byte taken for something else can be told; recv may     *)
(* return any part of what has arrived.  What the server sends is never    *)
(* more than the tablet waits for, and is kept as whole messages.          *)
(***************************************************************************)
EXTENDS Integers, Sequences, FiniteSets

CONSTANTS
    MaxTxn,             \* bound: transactions the tablet begins
    Sizes,              \* payload sizes
    READSIZE,           \* BT_EXPECTED_DATA_READSIZE: bytes of a length
    ACK_SIZE,           \* BT_TAB_ACK_SIZE
    Faults,             \* how the tablet may fail: "fin", "rst", "stall"
    AwaitsFinalAck      \* does the tablet wait for the comment's last ACK?

ASSUME MaxTxnAssumption == MaxTxn \in Nat
ASSUME SizesAssumption == Sizes \subseteq Nat /\ Sizes # {}
ASSUME WireAssumption == READSIZE \in Nat \ {0} /\ ACK_SIZE \in Nat \ {0}
ASSUME LinkFaultsAssumption == Faults \subseteq {"fin", "rst", "stall"}
ASSUME AckAssumption == AwaitsFinalAck \in BOOLEAN

VARIABLES
    spc,        \* server: where it is in readTransactionData / internalRead / internalWrite
    need,       \* server: bytesExpected by the readAllSocketData under way
    got,        \* server: what that call has received
    received,   \* server: the payloads internalRead returned with success
    tpc,        \* tablet: what it waits for
    txn,        \* tablet: transactions begun
    kind,       \* tablet: the code of each transaction
    size,       \* tablet: the payload size of each transaction
    up,         \* bytes on their way to the server
    down,       \* messages on their way to the tablet
    link,       \* "up", "fin" (closed by the tablet), "rst" (lost), or "stall" (the
                \* tablet is there and no longer reads)
    failed,     \* history: a transaction has failed on the server's side
    misread     \* history: a byte that is no code was taken for one

srvVars == <<spc, need, got, received>>
tabVars == <<tpc, txn, kind, size>>
vars == <<srvVars, tabVars, up, down, link, failed, misread>>

Kinds == {"read", "write", "close"}     \* what a tablet's code asks for
Txns == 1..MaxTxn

\* The bytes of a message of transaction n.
Bytes(what, n, len) == [k \in 1..len |-> [what |-> what, txn |-> n, pos |-> k]]
Code(n) == Bytes("code", n, 1)
Length(n) == Bytes("length", n, READSIZE)
Payload(n) == Bytes("payload", n, size[n])
Ack(n) == Bytes("ack", n, ACK_SIZE)

\* The states in which the server is inside readAllSocketData.
Reading == {"length", "payload", "writeAck1", "writeAck2"}

Init ==
    /\ spc = "idle"
    /\ need = 0
    /\ got = <<>>
    /\ received = <<>>
    /\ tpc = "idle"
    /\ txn = 0
    /\ kind = [n \in Txns |-> "close"]
    /\ size = [n \in Txns |-> 0]
    /\ up = <<>>
    /\ down = <<>>
    /\ link = "up"
    /\ failed = FALSE
    /\ misread = FALSE

-----------------------------------------------------------------------------
(* The tablet (external).                                                  *)

Begin(c, len) ==
    /\ tpc = "idle"
    /\ link \in {"up", "stall"}
    /\ txn < MaxTxn
    /\ txn' = txn + 1
    /\ kind' = [kind EXCEPT ![txn + 1] = c]
    /\ size' = [size EXCEPT ![txn + 1] = len]
    /\ up' = up \o Code(txn + 1)
    /\ tpc' = CASE c = "read" -> "codeAck" [] c = "write" -> "length" [] c = "close" -> "idle"
    /\ UNCHANGED <<srvVars, down, link, failed, misread>>

\* What the tablet sends, and waits for next, when the message it waits for
\* arrives.  Any other message ends its transaction.
Answer(m) ==
    CASE tpc = "codeAck" /\ m = "ACK" -> [send |-> Length(txn), next |-> "lengthAck"]
      [] tpc = "lengthAck" /\ m = "ACK" ->
            [send |-> Payload(txn), next |-> IF AwaitsFinalAck THEN "payloadAck" ELSE "idle"]
      [] tpc = "length" /\ m = "LENGTH" -> [send |-> Ack(txn), next |-> "payload"]
      [] tpc = "payload" /\ m = "PAYLOAD" -> [send |-> Ack(txn), next |-> "idle"]
      [] OTHER -> [send |-> <<>>, next |-> "idle"]

Receive ==
    /\ tpc # "idle"
    /\ link = "up"
    /\ down # <<>>
    /\ up' = up \o Answer(Head(down)).send
    /\ tpc' = Answer(Head(down)).next
    /\ down' = Tail(down)
    /\ UNCHANGED <<srvVars, txn, kind, size, link, failed, misread>>

\* What the tablet has sent can still be read unless the link is lost.
Leave(how) ==
    /\ link \in {"up", "stall"} \ {how}
    /\ link' = how
    /\ up' = IF how = "rst" THEN <<>> ELSE up
    /\ UNCHANGED <<srvVars, tabVars, down, failed, misread>>

-----------------------------------------------------------------------------
(* The server.                                                             *)

\* sendToSocket fails on a lost link only.  To a tablet that does not read it may
\* still send what the buffers hold; when they are full it tries without end, see
\* Blocked.
Sent(m) == IF link = "rst" THEN down ELSE Append(down, m)

\* readAllSocketData(n): a size below 1 is no read at all.
Expect(state, n) == spc' = state /\ need' = n /\ got' = <<>>

Ended == Expect("idle", 0)

\* The transaction failed.  The socket stays open.
Fails(reply) ==
    /\ Ended
    /\ down' = reply
    /\ failed' = TRUE
    /\ UNCHANGED received

\* Where initReadyTransaction leads for each code.  TRANS_CLOSE_SOCKET and
\* TRANS_SOCKET_ERROR, which a NACK answers, make the conductor close the socket; a
\* negative code without a case starts nothing, or ends the program when the object
\* has no future.
After ==
    [read |-> {"codeAck"}, write |-> {"writeLength"}, close |-> {"closed"},
     error |-> {"closed"}, unknown |-> {"idle", "closed"}]
Meanings == DOMAIN After

\* readTransactionData: the next byte is the code, whatever it was sent as.
ReadCode(c) ==
    /\ spc = "idle"
    /\ up # <<>>
    /\ LET b == Head(up)
       IN  /\ b.what = "code" => c = kind[b.txn]
           /\ misread' = (misread \/ b.what # "code")
    /\ up' = Tail(up)
    /\ \E state \in After[c] : Expect(state, 0)
    /\ down' = IF c = "error" THEN Sent("NACK") ELSE down
    /\ UNCHANGED <<received, tabVars, link, failed>>

\* The socket is not ready for writing (TRANS_CLOSE_SOCKET, and nothing is read),
\* or recv returned 0 or, on a lost link that select still reports, an error
\* (TRANS_SOCKET_ERROR): the conductor closes the socket.  No tablet is there to read
\* the NACK of the latter.
ReadEnd ==
    /\ spc = "idle"
    /\ up # <<>> \/ link \in {"fin", "rst"}
    /\ Expect("closed", 0)
    /\ UNCHANGED <<received, tabVars, up, down, link, failed, misread>>

\* internalRead up to its first readAllSocketData.
AckCode ==
    /\ spc = "codeAck"
    /\ IF link = "rst" THEN Fails(down)
       ELSE /\ down' = Append(down, "ACK")
            /\ Expect("length", READSIZE)
            /\ UNCHANGED <<received, failed>>
    /\ UNCHANGED <<tabVars, up, link, misread>>

\* internalWrite up to its first readAck.
WriteLength ==
    /\ spc = "writeLength"
    /\ IF link = "rst" THEN Fails(down)
       ELSE /\ down' = Append(down, "LENGTH")
            /\ Expect("writeAck1", ACK_SIZE)
            /\ UNCHANGED <<received, failed>>
    /\ UNCHANGED <<tabVars, up, link, misread>>

\* recv inside readAllSocketData returns the next k bytes.
MutantWanted == Len(up)         \* as if recv were offered more than the buffer's rest
Wanted == need - Len(got)

Recv(k) ==
    /\ spc \in Reading
    /\ k <= Len(up)
    /\ k <= Wanted
    /\ got' = got \o SubSeq(up, 1, k)
    /\ up' = SubSeq(up, k + 1, Len(up))
    /\ UNCHANGED <<spc, need, received, tabVars, down, link, failed, misread>>

\* Nothing has arrived: recv reports the end or an error, or ten seconds pass.
\* internalRead answers with a NACK, internalWrite does not.
Reply == IF spc \in {"length", "payload"} THEN Sent("NACK") ELSE down

RecvFails ==
    /\ spc \in Reading
    /\ Len(got) < need
    /\ up = <<>>
    /\ Fails(Reply)
    /\ UNCHANGED <<tabVars, up, link, misread>>

\* The lengths that READSIZE bytes may denote: the one sent if they are the
\* bytes of a length, otherwise anything, a negative number or one beyond all
\* that is ever sent too.
Huge == 1000
Lengths == Sizes \cup {-1, Huge}
MutantDenotes ==
    LET n == Head(got).txn
    IN  IF got = Length(n) THEN {0} ELSE Lengths     \* as if only the high byte counted
Denotes ==
    LET n == Head(got).txn
    IN  IF got = Length(n) THEN {size[n]} ELSE Lengths

\* The length is there: sendAck, then the second readAllSocketData, for which
\* a negative number is a size_t that malloc refuses.
LengthRead(len) ==
    /\ spc = "length"
    /\ Len(got) = need
    /\ len \in Denotes
    /\ IF link = "rst" THEN Fails(down)
       ELSE IF len < 0 THEN Fails(Append(Append(down, "ACK"), "NACK"))
       ELSE /\ down' = Append(down, "ACK")
            /\ Expect("payload", len)
            /\ UNCHANGED <<received, failed>>
    /\ UNCHANGED <<tabVars, up, link, misread>>

\* The payload is there and is returned; nothing more is sent.
PayloadRead ==
    /\ spc = "payload"
    /\ Len(got) = need
    /\ received' = Append(received, got)
    /\ Ended
    /\ UNCHANGED <<tabVars, up, down, link, failed, misread>>

\* readAck compares what it read with "ACK".
IsAck == got = Ack(Head(got).txn)

AckRead ==
    /\ spc \in {"writeAck1", "writeAck2"}
    /\ Len(got) = need
    /\ IF ~IsAck \/ (spc = "writeAck1" /\ link = "rst") THEN Fails(down)
       ELSE /\ IF spc = "writeAck1"
                 THEN down' = Append(down, "PAYLOAD") /\ Expect("writeAck2", ACK_SIZE)
                 ELSE UNCHANGED down /\ Ended
            /\ UNCHANGED <<received, failed>>
    /\ UNCHANGED <<tabVars, up, link, misread>>

Server ==
    \/ \E c \in Meanings : ReadCode(c)
    \/ ReadEnd \/ AckCode \/ WriteLength \/ RecvFails \/ PayloadRead \/ AckRead
    \/ \E k \in 1..(READSIZE + ACK_SIZE) : Recv(k)
    \/ \E len \in Lengths : LengthRead(len)

Tablet ==
    \/ \E c \in Kinds, len \in Sizes : Begin(c, len)
    \/ Receive
    \/ \E how \in Faults : Leave(how)

Next == Server \/ Tablet

Spec == Init /\ [][Next]_vars

\* What the server does next is a call of sendToSocket: an ACK, the length, the
\* payload or, once a read has timed out, a NACK.
Sending ==
    \/ spc \in {"codeAck", "writeLength"}
    \/ spc = "length" /\ Len(got) = need
    \/ spc = "writeAck1" /\ Len(got) = need /\ IsAck
    \/ spc \in {"length", "payload"} /\ Len(got) < need /\ up = <<>>

\* Nothing makes send take what a tablet that does not read has no room for, and
\* sendToSocket tries again on WSAEWOULDBLOCK for as long as that lasts.
Blocked == link = "stall" /\ Sending

\* The server's threads keep running, and get on unless a send is refused; a tablet
\* that has not stalled reads what it is sent.  Nothing makes a tablet begin a
\* transaction, leave or stall.
LiveSpec == Spec /\ WF_vars(~Blocked /\ Server) /\ WF_vars(Receive)

-----------------------------------------------------------------------------
(* Properties.                                                             *)

Byte == [what : {"code", "length", "payload", "ack"}, txn : Txns, pos : Nat \ {0}]
Message == {"ACK", "NACK", "LENGTH", "PAYLOAD"}

LinkTypeOK ==
    /\ spc \in Reading \cup {"idle", "codeAck", "writeLength", "closed"}
    /\ need \in Nat
    /\ got \in Seq(Byte)
    /\ Len(got) <= need
    /\ received \in Seq(Seq(Byte))
    /\ tpc \in {"idle", "codeAck", "lengthAck", "payloadAck", "length", "payload"}
    /\ txn \in 0..MaxTxn
    /\ kind \in [Txns -> Kinds]
    /\ size \in [Txns -> Sizes \cup {0}]
    /\ up \in Seq(Byte)
    /\ down \in Seq(Message)
    /\ link \in {"up", "fin", "rst", "stall"}
    /\ failed \in BOOLEAN
    /\ misread \in BOOLEAN

\* As long as no transaction has failed, readTransactionData takes the first
\* byte of a transaction, and nothing else, for a transaction code: internalRead
\* and internalWrite leave no byte of theirs behind and take none that follows.
AlignedUntilFailure == misread => failed

\* The first n transactions in which the tablet sends data.
Reads(n) == {m \in 1..n : kind[m] = "read"}

\* As long as no transaction has failed, internalRead returns the payloads
\* themselves, whole, in the order they were sent and each once, however recv
\* splits them; when both sides have come to rest every payload was returned.
PayloadsInOrder ==
    ~failed =>
        \E last \in 0..txn, of \in [1..Len(received) -> 1..txn] :
            /\ {of[j] : j \in 1..Len(received)} = Reads(last)
            /\ \A j, k \in 1..Len(received) : j < k => of[j] < of[k]
            /\ \A j \in 1..Len(received) : received[j] = Payload(of[j])
            /\ (spc = "idle" /\ tpc = "idle" /\ up = <<>> /\ link # "rst")
                  => Reads(last) = Reads(txn)

\* A transaction, once begun, comes to its end on the server's side, so that its worker
\* ends too: with a tablet that falls silent at any point, closes, or is lost, because
\* every readAllSocketData ends; with one that stops reading unless it is
\* sendToSocket that the worker is in, which has no limit.  A stall is an exception only
\* as long as it lasts: closing or losing the link ends the transaction.
ServerReturns ==
    spc \in Reading \cup {"codeAck", "writeLength"} ~> (spc \in {"idle", "closed"} \/ Blocked)

\* The two sides do not wait for each other forever: a transaction in which
\* the tablet sends data ends with its payload received or with a failure that
\* the server has noticed.
ReadCompletes ==
    \A n \in Txns :
        (n <= txn /\ kind[n] = "read") ~>
            \/ Len(received) >= Cardinality({m \in 1..n : kind[m] = "read"})
            \/ failed
            \/ link # "up"
            \/ spc = "closed"

\* btTabObj.hpp, internalRead: "T: all data" is followed by "C: (ACK)", so a
\* tablet waiting for that ACK gets it unless the transaction fails.
FinalAck == (tpc = "payloadAck") ~> (tpc # "payloadAck" \/ failed \/ link # "up")
=============================================================================
