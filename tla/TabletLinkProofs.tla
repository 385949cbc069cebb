-------------------------- MODULE TabletLinkProofs --------------------------
(***************************************************************************)
(* Theorems about TabletLink, for any number of transactions, any payload, *)
(* length and ACK sizes, and however recv splits the stream.               *)
(***************************************************************************)
EXTENDS TabletLink, SequenceTheorems, TLAPS

\* Types, and what holds of a call of readAllSocketData and of a lost link.
LinkInv ==
    /\ LinkTypeOK
    /\ tpc # "idle" => txn > 0
    /\ link = "rst" => up = <<>>
    /\ spc \notin Reading => need = 0 /\ got = <<>>

-----------------------------------------------------------------------------
(* As long as no transaction has failed, both sides are at matching places *)
(* of transaction n, the last whose code the server has taken.             *)

\* The message of which the server reads the bytes.
Wire(state) == IF state \in {"writeAck1", "writeAck2"} THEN "ack" ELSE state

\* The bytes got, and then those that are still on their way: first the rest of the
\* message, then the codes of the transactions that follow.
Stream(n) ==
    /\ spc \in Reading =>
          \A k \in 1..Len(got) : got[k] = [what |-> Wire(spc), txn |-> n, pos |-> k]
    /\ \A k \in 1..Len(up) :
          up[k] = IF Len(got) + k <= need
                    THEN [what |-> Wire(spc), txn |-> n, pos |-> Len(got) + k]
                    ELSE [what |-> "code", txn |-> n + ((Len(got) + k) - need), pos |-> 1]

\* The tablet has yet to receive message m, or has answered it.
Asked(n, m, t) == down = <<m>> /\ tpc = t /\ txn = n /\ up = <<>> /\ got = <<>>
Answered(n) ==
    /\ down = <<>>
    /\ Len(got) + Len(up) >= need
    /\ txn = n + ((Len(got) + Len(up)) - need)

\* The tablet is through with transaction n, and may have begun others: only the last of
\* them may wait for the server.
First(c) == CASE c = "read" -> "codeAck" [] c = "write" -> "length" [] c = "close" -> "idle"
Ahead(n) ==
    /\ \A m \in n + 1..txn - 1 : kind[m] = "close"
    /\ IF txn = n THEN tpc \in {"idle", "payloadAck"} ELSE tpc = First(kind[txn])

\* Where both sides are, on a link that is not lost.
Place(n) ==
    \/ spc = "idle" /\ Answered(n) /\ Ahead(n)
    \/ spc = "idle" /\ Asked(n, "ACK", "lengthAck") /\ size[n] = 0
    \/ spc = "codeAck" /\ Answered(n) /\ txn = n /\ tpc = "codeAck"
    \/ spc = "length" /\ Asked(n, "ACK", "codeAck")
    \/ spc = "length" /\ Answered(n) /\ txn = n /\ tpc = "lengthAck"
    \/ spc = "payload" /\ Asked(n, "ACK", "lengthAck")
    \/ spc = "payload" /\ Answered(n) /\ Ahead(n)
    \/ spc = "writeLength" /\ Answered(n) /\ txn = n /\ tpc = "length"
    \/ spc = "writeAck1" /\ Asked(n, "LENGTH", "length")
    \/ spc = "writeAck1" /\ Answered(n) /\ txn = n /\ tpc = "payload"
    \/ spc = "writeAck2" /\ Asked(n, "PAYLOAD", "payload")
    \/ spc = "writeAck2" /\ Answered(n) /\ Ahead(n)

Synced(n) ==
    /\ spc \notin {"idle", "closed"} => n > 0
    /\ spc \in {"codeAck", "length", "payload"} => kind[n] = "read"
    /\ spc \in {"writeLength", "writeAck1", "writeAck2"} => kind[n] = "write"
    /\ spc = "length" => need = READSIZE
    /\ spc = "payload" => need = size[n]
    /\ spc \in {"writeAck1", "writeAck2"} => need = ACK_SIZE
    /\ spc # "closed" => Stream(n)
    /\ spc # "closed" /\ link # "rst" => Place(n)

\* The payloads returned are those of the first n transactions, as of says.
Returned(n, of) ==
    /\ {of[j] : j \in 1..Len(received)} = Reads(n)
    /\ \A j, k \in 1..Len(received) : j < k => of[j] < of[k]
    /\ \A j \in 1..Len(received) : received[j] = Payload(of[j])

\* The last transaction that is over.
Over(n) == IF spc \in {"idle", "closed"} THEN n ELSE n - 1

SyncInv ==
    ~failed =>
        /\ ~misread
        /\ \E n \in 0..txn :
              /\ Synced(n)
              /\ \E of \in [1..Len(received) -> 1..txn] : Returned(Over(n), of)

-----------------------------------------------------------------------------
(* Types.                                                                  *)

\* A message is a sequence of bytes, as long as it says.
LEMMA BytesType ==
    ASSUME NEW what \in {"code", "length", "payload", "ack"}, NEW n \in Txns, NEW len \in Nat
    PROVE  /\ Bytes(what, n, len) \in Seq(Byte)
           /\ Len(Bytes(what, n, len)) = len
           /\ \A k \in 1..len : Bytes(what, n, len)[k] = [what |-> what, txn |-> n, pos |-> k]
  <1>1. Bytes(what, n, len) \in [1..len -> Byte]
    BY DEF Bytes, Byte
  <1>2. Bytes(what, n, len) \in Seq(Byte) /\ Len(Bytes(what, n, len)) = len
    BY <1>1, SeqDef
  <1> QED BY <1>2 DEF Bytes

\* A size is a number.
LEMMA SizeType ==
    ASSUME LinkInv, NEW n \in Txns
    PROVE  size[n] \in Nat
  <1>1. size \in [Txns -> Sizes \cup {0}]
    BY DEF LinkInv, LinkTypeOK
  <1>2. size[n] \in Sizes \cup {0}
    BY <1>1, Zenon
  <1>3. size[n] \in Sizes \/ size[n] = 0
    BY <1>2, Zenon
  <1>4. \A s \in Sizes : s \in Nat
    BY SizesAssumption, Zenon
  <1> QED BY <1>3, <1>4

\* The bytes of a payload and of a code.
LEMMA PayloadBytes ==
    ASSUME LinkInv, NEW n \in Txns
    PROVE  /\ Payload(n) \in Seq(Byte) /\ Len(Payload(n)) = size[n]
           /\ \A k \in 1..size[n] : Payload(n)[k] = [what |-> "payload", txn |-> n, pos |-> k]
  <1>1. size[n] \in Nat
    BY SizeType
  <1>2. Payload(n) \in Seq(Byte) /\ Len(Payload(n)) = size[n]
    BY <1>1, BytesType DEF Payload
  <1> QED BY <1>1, <1>2 DEF Payload, Bytes

\* A code is one byte.
LEMMA CodeBytes ==
    ASSUME NEW n \in Txns
    PROVE  /\ Code(n) \in Seq(Byte) /\ Len(Code(n)) = 1
           /\ Code(n)[1] = [what |-> "code", txn |-> n, pos |-> 1]
  <1>1. Code(n) \in Seq(Byte) /\ Len(Code(n)) = 1
    <2>1. Code(n) = Bytes("code", n, 1)
      BY DEF Code
    <2>2. PICK len \in Nat : len = 1
      OBVIOUS
    <2>3. Bytes("code", n, len) \in Seq(Byte) /\ Len(Bytes("code", n, len)) = len
      BY BytesType
    <2> QED BY <2>1, <2>2, <2>3
  <1> QED BY <1>1 DEF Code, Bytes

\* What a tablet sends is a sequence of bytes of its transaction.
LEMMA AnswerType ==
    ASSUME LinkInv, tpc # "idle", NEW m
    PROVE  /\ Answer(m).send \in Seq(Byte)
           /\ Answer(m).next \in {"idle", "codeAck", "lengthAck", "payloadAck", "length", "payload"}
  <1>0. txn \in 0..MaxTxn /\ txn > 0
    BY DEF LinkInv, LinkTypeOK
  <1>1. txn \in Txns
    BY <1>0, MaxTxnAssumption DEF Txns
  <1>2. size[txn] \in Nat
    BY <1>1, SizeType
  <1>3. Length(txn) \in Seq(Byte) /\ Payload(txn) \in Seq(Byte) /\ Ack(txn) \in Seq(Byte)
    BY <1>1, <1>2, BytesType, WireAssumption DEF Length, Payload, Ack
  <1>4. <<>> \in Seq(Byte)
    BY EmptySeq
  <1> QED BY <1>3, <1>4, Zenon DEF Answer

\* The server's waiting and giving up.
LEMMA FailsType ==
    ASSUME LinkInv, NEW reply \in Seq(Message), Fails(reply)
    PROVE  /\ spc' = "idle" /\ need' = 0 /\ got' = <<>> /\ Len(got') = 0 /\ got' \in Seq(Byte)
           /\ received' = received /\ down' \in Seq(Message) /\ failed' = TRUE
  BY EmptySeq DEF Fails, Ended, Expect

\* At the start nothing is on the link.
LEMMA InitLink == Init => LinkInv
  <1> SUFFICES ASSUME Init PROVE LinkInv
    OBVIOUS
  <1>1. kind \in [Txns -> Kinds] /\ size \in [Txns -> Sizes \cup {0}] /\ txn \in 0..MaxTxn
    BY MaxTxnAssumption DEF Init, Kinds
  <1>2. got \in Seq(Byte) /\ up \in Seq(Byte) /\ received \in Seq(Seq(Byte)) /\ down \in Seq(Message)
        /\ Len(got) = 0
    BY EmptySeq DEF Init
  <1>3. failed \in BOOLEAN /\ misread \in BOOLEAN
    BY Zenon DEF Init
  <1>4. /\ spc = "idle" /\ need = 0 /\ got = <<>> /\ Len(got) <= need
        /\ tpc = "idle" /\ up = <<>> /\ link = "up"
    BY <1>2 DEF Init
  <1> QED BY <1>1, <1>2, <1>3, <1>4 DEF LinkInv, LinkTypeOK, Reading

\* What one action of the tablet keeps.
LEMMA TabletLinkInv ==
    ASSUME LinkInv, Tablet
    PROVE  LinkInv'
  <1>1. ASSUME NEW c \in Kinds, NEW len \in Sizes, Begin(c, len) PROVE LinkInv'
    <2>0. txn \in 0..MaxTxn /\ txn < MaxTxn /\ txn' = txn + 1
      BY <1>1 DEF Begin, LinkInv, LinkTypeOK
    <2>1. txn' \in 0..MaxTxn /\ txn' > 0 /\ txn + 1 \in Txns
      BY ONLY <2>0, MaxTxnAssumption DEF Txns
    <2>2. Code(txn + 1) \in Seq(Byte)
      BY <2>1, BytesType DEF Code
    <2>3. up' \in Seq(Byte)
      BY <1>1, <2>2, ConcatProperties DEF Begin, LinkInv, LinkTypeOK
    <2>4. kind' \in [Txns -> Kinds] /\ size' \in [Txns -> Sizes \cup {0}]
      BY <1>1, <2>1 DEF Begin, LinkInv, LinkTypeOK
    <2>5. tpc' \in {"idle", "codeAck", "lengthAck", "payloadAck", "length", "payload"}
      BY <1>1 DEF Begin, Kinds
    <2>6. link' # "rst" /\ UNCHANGED <<spc, need, got, received, down, link, failed, misread>>
      BY <1>1 DEF Begin, srvVars
    <2> QED BY <2>1, <2>3, <2>4, <2>5, <2>6 DEF LinkInv, LinkTypeOK, Reading
  <1>2. ASSUME Receive PROVE LinkInv'
    <2>1. down' \in Seq(Message)
      BY <1>2, HeadTailProperties DEF Receive, LinkInv, LinkTypeOK
    <2>2. /\ Answer(Head(down)).send \in Seq(Byte)
          /\ tpc' \in {"idle", "codeAck", "lengthAck", "payloadAck", "length", "payload"}
      BY <1>2, AnswerType DEF Receive
    <2>3. up' \in Seq(Byte)
      BY <1>2, <2>2, ConcatProperties DEF Receive, LinkInv, LinkTypeOK
    <2>4. link' = "up" /\ txn' > 0
      BY <1>2 DEF Receive, LinkInv
    <2>5. UNCHANGED <<spc, need, got, received, txn, kind, size, link, failed, misread>>
      BY <1>2 DEF Receive, srvVars
    <2> QED BY <2>1, <2>2, <2>3, <2>4, <2>5 DEF LinkInv, LinkTypeOK, Reading
  <1>3. ASSUME NEW how \in Faults, Leave(how) PROVE LinkInv'
    <2>1. up' \in Seq(Byte) /\ (link' = "rst" => up' = <<>>) /\ link' \in {"fin", "rst", "stall"}
      BY <1>3, EmptySeq, LinkFaultsAssumption DEF Leave, LinkInv, LinkTypeOK
    <2>2. UNCHANGED <<spc, need, got, received, tpc, txn, kind, size, down, failed, misread>>
      BY <1>3 DEF Leave, srvVars, tabVars
    <2> QED BY <2>1, <2>2 DEF LinkInv, LinkTypeOK, Reading
  <1> QED BY <1>1, <1>2, <1>3 DEF Tablet

\* Where each code leads.
LEMMA AfterCode ==
    /\ Meanings = {"read", "write", "close", "error", "unknown"}
    /\ After["read"] = {"codeAck"} /\ After["write"] = {"writeLength"}
    /\ After["close"] = {"closed"} /\ After["error"] = {"closed"}
    /\ After["unknown"] = {"idle", "closed"}
  BY DEF Meanings, After

\* readTransactionData leaves the server idle or at the first step of a transaction.
LEMMA CodeLeads ==
    ASSUME NEW c \in Meanings, ReadCode(c)
    PROVE  /\ spc' \in {"codeAck", "writeLength", "closed", "idle"}
           /\ need' = 0 /\ got' = <<>>
           /\ c = "read" => spc' = "codeAck"
           /\ c = "write" => spc' = "writeLength"
           /\ c = "close" => spc' = "closed"
  <1>1. PICK state \in After[c] : Expect(state, 0)
    BY DEF ReadCode
  <1>2. spc' = state /\ need' = 0 /\ got' = <<>>
    BY <1>1 DEF Expect
  <1> QED BY <1>1, <1>2, AfterCode

\* What one action of the server keeps.
LEMMA ServerLinkInv ==
    ASSUME LinkInv, Server
    PROVE  LinkInv'
  <1>e. <<>> \in Seq(Byte) /\ Len(<<>>) = 0
    BY EmptySeq
  <1>s. /\ Append(down, "ACK") \in Seq(Message) /\ Append(down, "NACK") \in Seq(Message)
        /\ Append(down, "LENGTH") \in Seq(Message) /\ Append(down, "PAYLOAD") \in Seq(Message)
        /\ Append(Append(down, "ACK"), "NACK") \in Seq(Message)
    BY AppendProperties DEF LinkInv, LinkTypeOK, Message
  <1>d. down \in Seq(Message)
    BY DEF LinkInv, LinkTypeOK
  <1>f. failed \in BOOLEAN
    BY DEF LinkInv, LinkTypeOK
  <1>1. ASSUME NEW c \in Meanings, ReadCode(c) PROVE LinkInv'
    <2>1. up' \in Seq(Byte)
      BY <1>1, HeadTailProperties DEF ReadCode, LinkInv, LinkTypeOK
    <2>2. link # "rst"
      BY <1>1 DEF ReadCode, LinkInv
    <2>3. /\ spc' \in {"codeAck", "writeLength", "closed", "idle"}
          /\ need' = 0 /\ got' = <<>>
      BY <1>1, CodeLeads
    <2>4. UNCHANGED <<received, tpc, txn, kind, size, link, failed>> /\ misread' \in BOOLEAN
      BY <1>1 DEF ReadCode, tabVars
    <2>5. down' \in Seq(Message)
      BY <1>1, <1>s, <1>d DEF ReadCode, Sent
    <2> QED BY <1>e, <2>1, <2>2, <2>3, <2>4, <2>5 DEF LinkInv, LinkTypeOK, Reading
  <1>2. ASSUME ReadEnd PROVE LinkInv'
    BY <1>e, <1>2 DEF ReadEnd, Expect, tabVars, LinkInv, LinkTypeOK, Reading
  <1>3. ASSUME AckCode PROVE LinkInv'
    <2>1. /\ spc' \in {"idle", "length"} /\ need' \in Nat /\ got' = <<>>
          /\ spc' = "idle" => need' = 0
          /\ down' \in Seq(Message) /\ (failed' = failed \/ failed' = TRUE)
      BY <1>s, <1>d, <1>3, WireAssumption DEF AckCode, Fails, Ended, Expect
    <2>2. UNCHANGED <<received, tpc, txn, kind, size, up, link, misread>>
      BY <1>3 DEF AckCode, Fails, tabVars
    <2>3. failed' \in BOOLEAN
      BY <1>f, <2>1, Zenon
    <2> QED BY <1>e, <2>1, <2>2, <2>3 DEF LinkInv, LinkTypeOK, Reading
  <1>4. ASSUME WriteLength PROVE LinkInv'
    <2>1. /\ spc' \in {"idle", "writeAck1"} /\ need' \in Nat /\ got' = <<>>
          /\ spc' = "idle" => need' = 0
          /\ down' \in Seq(Message) /\ (failed' = failed \/ failed' = TRUE)
      BY <1>s, <1>d, <1>4, WireAssumption DEF WriteLength, Fails, Ended, Expect
    <2>2. UNCHANGED <<received, tpc, txn, kind, size, up, link, misread>>
      BY <1>4 DEF WriteLength, Fails, tabVars
    <2>3. failed' \in BOOLEAN
      BY <1>f, <2>1, Zenon
    <2> QED BY <1>e, <2>1, <2>2, <2>3 DEF LinkInv, LinkTypeOK, Reading
  <1>5. ASSUME RecvFails PROVE LinkInv'
    <2>1. Reply \in Seq(Message)
      BY <1>s, <1>d, Zenon DEF Reply, Sent
    <2>2. /\ spc' = "idle" /\ need' = 0 /\ got' = <<>> /\ Len(got') = 0 /\ got' \in Seq(Byte)
          /\ received' = received /\ down' \in Seq(Message) /\ failed' = TRUE
      BY <1>5, <2>1, FailsType DEF RecvFails
    <2> QED BY <1>5, <2>2 DEF RecvFails, tabVars, LinkInv, LinkTypeOK, Reading
  <1>6. ASSUME PayloadRead PROVE LinkInv'
    <2>1. received' \in Seq(Seq(Byte))
      BY <1>6, AppendProperties DEF PayloadRead, LinkInv, LinkTypeOK
    <2> QED BY <1>e, <1>6, <2>1 DEF PayloadRead, Ended, Expect, tabVars, LinkInv, LinkTypeOK, Reading
  <1>7. ASSUME AckRead PROVE LinkInv'
    <2>1. /\ spc' \in {"idle", "writeAck2"} /\ need' \in Nat /\ got' = <<>>
          /\ spc' = "idle" => need' = 0
          /\ down' \in Seq(Message) /\ (failed' = failed \/ failed' = TRUE)
      <3>1. CASE Fails(down)
        BY <1>d, <3>1 DEF Fails, Ended, Expect
      <3>2. CASE ~Fails(down)
        BY <1>s, <1>d, <1>7, <3>2, WireAssumption DEF AckRead, Ended, Expect
      <3> QED BY <3>1, <3>2
    <2>2. UNCHANGED <<received, tpc, txn, kind, size, up, link, misread>>
      BY <1>7 DEF AckRead, Fails, tabVars
    <2>3. failed' \in BOOLEAN
      BY <1>f, <2>1, Zenon
    <2> QED BY <1>e, <2>1, <2>2, <2>3 DEF LinkInv, LinkTypeOK, Reading
  <1>8. ASSUME NEW k \in 1..(READSIZE + ACK_SIZE), Recv(k) PROVE LinkInv'
    <2>1. k \in Nat \ {0} /\ k <= Len(up) /\ Len(up) \in Nat /\ Len(got) \in Nat /\ need \in Nat
      BY <1>8, WireAssumption, LenProperties DEF Recv, LinkInv, LinkTypeOK
    <2>u. \A i \in 1..Len(up) : up[i] \in Byte
      BY LenProperties, ElementOfSeq DEF LinkInv, LinkTypeOK
    <2>v. (\A i \in 1..k : up[i] \in Byte) /\ (\A i \in k + 1..Len(up) : up[i] \in Byte)
      BY <2>1, <2>u
    <2>2. /\ SubSeq(up, 1, k) \in Seq(Byte) /\ Len(SubSeq(up, 1, k)) = k
          /\ SubSeq(up, k + 1, Len(up)) \in Seq(Byte)
      BY <2>1, <2>v, SubSeqProperties
    <2>3. got' \in Seq(Byte) /\ Len(got') = Len(got) + k
      BY <1>8, <2>2, ConcatProperties DEF Recv, LinkInv, LinkTypeOK
    <2>4. Len(got') <= need
      BY <1>8, <2>1, <2>3 DEF Recv, Wanted
    <2>5. link # "rst"
      <3> SUFFICES ASSUME link = "rst" PROVE FALSE
        OBVIOUS
      <3> QED BY <2>1, <1>e DEF LinkInv
    <2>6. UNCHANGED <<spc, need, received, tpc, txn, kind, size, down, link, failed, misread>>
          /\ up' \in Seq(Byte) /\ spc \in Reading
      BY <1>8, <2>2 DEF Recv, tabVars
    <2> QED BY <2>3, <2>4, <2>5, <2>6 DEF LinkInv, LinkTypeOK
  <1>9. ASSUME NEW len \in Lengths, LengthRead(len) PROVE LinkInv'
    <2>1. len \in Int
      BY SizesAssumption DEF Lengths, Huge
    <2>2. /\ spc' \in {"idle", "payload"} /\ need' \in Nat /\ got' = <<>>
          /\ spc' = "idle" => need' = 0
          /\ down' \in Seq(Message) /\ (failed' = failed \/ failed' = TRUE)
      BY <1>s, <1>d, <1>9, <2>1 DEF LengthRead, Fails, Ended, Expect
    <2>3. UNCHANGED <<received, tpc, txn, kind, size, up, link, misread>>
      BY <1>9 DEF LengthRead, Fails, tabVars
    <2>4. failed' \in BOOLEAN
      BY <1>f, <2>2, Zenon
    <2> QED BY <1>e, <2>2, <2>3, <2>4 DEF LinkInv, LinkTypeOK, Reading
  <1> QED BY <1>1, <1>2, <1>3, <1>4, <1>5, <1>6, <1>7, <1>8, <1>9 DEF Server

\* Every step of either side keeps the types.
LEMMA NextLinkInv == LinkInv /\ [Next]_vars => LinkInv'
  <1> SUFFICES ASSUME LinkInv, [Next]_vars PROVE LinkInv'
    OBVIOUS
  <1>1. CASE UNCHANGED vars
    BY <1>1 DEF vars, srvVars, tabVars, LinkInv, LinkTypeOK
  <1> QED BY <1>1, TabletLinkInv, ServerLinkInv DEF Next

\* What the server and a tablet keep has its type: a read never has more bytes than it
\* asked for, and bytes and messages are what the exchange knows.
THEOREM LinkTypeCorrect == Spec => []LinkTypeOK
  <1>1. Spec => []LinkInv
    BY InitLink, NextLinkInv, PTL DEF Spec
  <1>2. LinkInv => LinkTypeOK
    BY DEF LinkInv
  <1> QED BY <1>1, <1>2, PTL

-----------------------------------------------------------------------------
(* The steps, as long as none fails: both sides stay at matching places.   *)

\* What the steps use of the types.
LEMMA Naturals ==
    ASSUME LinkInv
    PROVE  /\ Len(got) \in Nat /\ Len(up) \in Nat /\ need \in Nat /\ txn \in Nat
           /\ Len(got) <= need
           /\ got = <<>> <=> Len(got) = 0
           /\ up = <<>> <=> Len(up) = 0
           /\ spc \notin Reading => need = 0 /\ Len(got) = 0
           /\ up # <<>> => link # "rst"
  <1>1. got \in Seq(Byte) /\ up \in Seq(Byte)
    BY DEF LinkInv, LinkTypeOK
  <1>2. /\ Len(got) \in Nat /\ Len(up) \in Nat
        /\ got = <<>> <=> Len(got) = 0
        /\ up = <<>> <=> Len(up) = 0
    BY <1>1, EmptySeq, LenProperties
  <1>3. need \in Nat /\ txn \in 0..MaxTxn /\ Len(got) <= need
    BY DEF LinkInv, LinkTypeOK
  <1>4. txn \in Nat
    BY <1>3, MaxTxnAssumption
  <1>5. (spc \notin Reading => need = 0 /\ got = <<>>) /\ (up # <<>> => link # "rst")
    BY DEF LinkInv
  <1> QED BY <1>2, <1>3, <1>4, <1>5

\* readTransactionData takes the code of transaction n + 1, and knows what it asks for.
LEMMA CodeSynced ==
    ASSUME LinkInv, NEW n \in 0..txn, Synced(n), NEW c \in Meanings, ReadCode(c)
    PROVE  /\ misread' = misread
           /\ n + 1 \in 0..txn
           /\ c = kind[n + 1] /\ c \in Kinds
           /\ Synced(n + 1)'
  <1>n. /\ Len(got) = 0 /\ Len(up) \in Nat \ {0} /\ need = 0 /\ txn \in Nat
        /\ link # "rst" /\ spc = "idle" /\ n \in Nat
    BY Naturals DEF ReadCode, Reading
  <1>u. up \in Seq(Byte) /\ up # <<>>
    BY DEF LinkInv, LinkTypeOK, ReadCode
  <1>1. Answered(n) /\ Ahead(n)
    BY <1>n, <1>u DEF Synced, Place, Asked
  <1>2. \A k \in 1..Len(up) : up[k] = [what |-> "code", txn |-> n + k, pos |-> 1]
    <2>1. Stream(n)
      BY <1>n DEF Synced
    <2> SUFFICES ASSUME NEW k \in 1..Len(up)
                 PROVE  up[k] = [what |-> "code", txn |-> n + k, pos |-> 1]
      OBVIOUS
    <2>2. ~(Len(got) + k <= need) /\ n + ((Len(got) + k) - need) = n + k
      BY <1>n
    <2> QED BY <2>1, <2>2 DEF Stream
  <1>3. Head(up) = [what |-> "code", txn |-> n + 1, pos |-> 1]
    <2>1. 1 \in 1..Len(up) /\ Head(up) = up[1]
      BY <1>n, <1>u
    <2> QED BY <1>2, <2>1
  <1>4. c = kind[n + 1]
    BY <1>3 DEF ReadCode
  <1>5. misread' = misread
    <2>1. Head(up).what = "code" /\ misread' = (misread \/ Head(up).what # "code")
      BY <1>3 DEF ReadCode
    <2> QED BY <2>1, Zenon DEF LinkInv, LinkTypeOK
  <1>6. down = <<>> /\ txn = n + Len(up)
    BY <1>n, <1>1 DEF Answered
  <1>7. Len(up') = Len(up) - 1 /\ \A k \in 1..Len(up') : up'[k] = up[k + 1]
    BY <1>u, HeadTailProperties DEF ReadCode
  <1>k. c \in Kinds
    <2>1. n + 1 \in Txns
      BY <1>n, <1>6, MaxTxnAssumption DEF LinkInv, LinkTypeOK, Txns
    <2> QED BY <1>4, <2>1 DEF LinkInv, LinkTypeOK
  <1>8. /\ c = "read" => spc' = "codeAck"
        /\ c = "write" => spc' = "writeLength"
        /\ c = "close" => spc' = "closed"
        /\ need' = 0 /\ got' = <<>> /\ Len(got') = 0
        /\ UNCHANGED <<tpc, txn, kind, size, down, link>>
    <2>1. need' = 0 /\ got' = <<>> /\ Len(got') = 0
      BY CodeLeads, EmptySeq
    <2>2. UNCHANGED <<tpc, txn, kind, size, down, link>>
      BY <1>k DEF ReadCode, tabVars, Kinds
    <2> QED BY <2>1, <2>2, CodeLeads
  <1>9. Stream(n + 1)'
    <2>1. \A k \in 1..Len(up') : up'[k] = [what |-> "code", txn |-> n + 1 + k, pos |-> 1]
      <3> SUFFICES ASSUME NEW k \in 1..Len(up')
                   PROVE  up'[k] = [what |-> "code", txn |-> n + 1 + k, pos |-> 1]
        OBVIOUS
      <3>1. Len(up) \in Nat \ {0} /\ Len(up') = Len(up) - 1 /\ up'[k] = up[k + 1]
        BY <1>n, <1>7
      <3>2. k + 1 \in 1..Len(up) /\ n + (k + 1) = n + 1 + k
        BY ONLY <1>n, <3>1, k \in 1..Len(up')
      <3> QED BY <1>2, <3>1, <3>2
    <2>2. spc' \notin Reading
      BY <1>k, <1>8 DEF Kinds, Reading
    <2>3. ASSUME NEW k \in 1..Len(up')
          PROVE  ~(Len(got') + k <= need') /\ (n + 1) + ((Len(got') + k) - need') = n + 1 + k
      <3>1. need' = 0 /\ Len(got') = 0
        BY <1>8
      <3>2. Len(up') \in Nat /\ k \in Nat /\ k > 0
        BY <1>n, <1>7
      <3> QED BY ONLY <3>1, <3>2, <1>n
    <2> QED BY <2>1, <2>2, <2>3 DEF Stream
  <1>10. Answered(n + 1)'
    BY <1>n, <1>6, <1>7, <1>8 DEF Answered
  <1>11. c # "close" => txn = n + 1 /\ tpc = First(c)
    <2>1. txn > n /\ (\A m \in n + 1..txn - 1 : kind[m] = "close") /\ tpc = First(kind[txn])
      BY <1>n, <1>1, <1>6 DEF Ahead
    <2> QED BY <1>n, <1>4, <2>1
  <1>12. n + 1 \in 0..txn
    BY <1>n, <1>6
  <1>13. CASE c = "read"
    <2>1. spc' = "codeAck" /\ kind'[n + 1] = "read" /\ tpc' = "codeAck" /\ txn' = n + 1
      BY <1>4, <1>8, <1>11, <1>13 DEF First
    <2> QED BY <1>k, <1>4, <1>5, <1>9, <1>10, <1>12, <1>n, <2>1 DEF Synced, Place
  <1>14. CASE c = "write"
    <2>1. spc' = "writeLength" /\ kind'[n + 1] = "write" /\ tpc' = "length" /\ txn' = n + 1
      BY <1>4, <1>8, <1>11, <1>14 DEF First
    <2> QED BY <1>k, <1>4, <1>5, <1>9, <1>10, <1>12, <1>n, <2>1 DEF Synced, Place
  <1>15. CASE c = "close"
    <2>1. spc' = "closed"
      BY <1>8, <1>15
    <2> QED BY <1>k, <1>4, <1>5, <1>12, <2>1 DEF Synced
  <1> QED BY <1>k, <1>13, <1>14, <1>15 DEF Kinds

\* The server answers a code: it asks for a length, or announces one.
LEMMA OpenedSynced ==
    ASSUME LinkInv, NEW n \in 0..txn, Synced(n), AckCode \/ WriteLength, ~failed'
    PROVE  Synced(n)'
  <1>n. /\ Len(got) = 0 /\ Len(up) \in Nat /\ need = 0 /\ txn \in Nat /\ n \in Nat
        /\ up = <<>> <=> Len(up) = 0
    BY Naturals DEF AckCode, WriteLength, Reading
  <1>1. link # "rst"
    BY DEF AckCode, WriteLength, Fails
  <1>2. CASE AckCode
    <2>1. /\ spc = "codeAck" /\ down' = Append(down, "ACK") /\ spc' = "length" /\ need' = READSIZE
          /\ got' = <<>> /\ UNCHANGED <<tpc, txn, kind, size, up, link>>
      BY <1>1, <1>2 DEF AckCode, Expect, tabVars
    <2>2. Answered(n) /\ txn = n /\ tpc = "codeAck" /\ n > 0 /\ kind[n] = "read"
      BY <1>1, <2>1 DEF Synced, Place
    <2>3. up = <<>> /\ down = <<>>
      BY <1>n, <2>2 DEF Answered
    <2>4. down' = <<"ACK">>
      BY <2>1, <2>3
    <2>5. Stream(n)'
      BY <2>1, <2>3, EmptySeq DEF Stream
    <2>6. Asked(n, "ACK", "codeAck")'
      BY <2>1, <2>2, <2>3, <2>4 DEF Asked
    <2> QED BY <2>1, <2>2, <2>5, <2>6 DEF Synced, Place
  <1>3. CASE WriteLength
    <2>1. /\ spc = "writeLength" /\ down' = Append(down, "LENGTH") /\ spc' = "writeAck1"
          /\ need' = ACK_SIZE /\ got' = <<>> /\ UNCHANGED <<tpc, txn, kind, size, up, link>>
      BY <1>1, <1>3 DEF WriteLength, Expect, tabVars
    <2>2. Answered(n) /\ txn = n /\ tpc = "length" /\ n > 0 /\ kind[n] = "write"
      BY <1>1, <2>1 DEF Synced, Place
    <2>3. up = <<>> /\ down = <<>>
      BY <1>n, <2>2 DEF Answered
    <2>4. down' = <<"LENGTH">>
      BY <2>1, <2>3
    <2>5. Stream(n)'
      BY <2>1, <2>3, EmptySeq DEF Stream
    <2>6. Asked(n, "LENGTH", "length")'
      BY <2>1, <2>2, <2>3, <2>4 DEF Asked
    <2> QED BY <2>1, <2>2, <2>5, <2>6 DEF Synced, Place
  <1> QED BY <1>2, <1>3

\* recv moves bytes of the stream from the one part to the other.
LEMMA RecvSynced ==
    ASSUME LinkInv, NEW n \in 0..txn, Synced(n), NEW k \in Nat \ {0}, Recv(k)
    PROVE  Synced(n)'
  <1>n. /\ Len(got) \in Nat /\ Len(up) \in Nat /\ need \in Nat /\ txn \in Nat /\ n \in Nat
        /\ up = <<>> <=> Len(up) = 0
    BY Naturals
  <1>k. k <= Len(up) /\ k <= need - Len(got) /\ spc \in Reading
    BY DEF Recv, Wanted
  <1>0. UNCHANGED <<spc, need, tpc, txn, kind, size, down, link>>
    BY DEF Recv, tabVars
  <1>1. got \in Seq(Byte) /\ up \in Seq(Byte) /\ \A i \in 1..Len(up) : up[i] \in Byte
    BY LenProperties, ElementOfSeq DEF LinkInv, LinkTypeOK
  <1>2. /\ SubSeq(up, 1, k) \in Seq(Byte) /\ Len(SubSeq(up, 1, k)) = k
        /\ \A i \in 1..k : SubSeq(up, 1, k)[i] = up[i]
    <2>1. \A i \in 1..k : up[i] \in Byte
      BY <1>n, <1>k, <1>1
    <2>2. \A i \in 1..k : SubSeq(up, 1, k)[i] = up[1 + i - 1]
      BY <2>1, SubSeqProperties
    <2> QED BY <2>1, <2>2, SubSeqProperties
  <1>3. /\ Len(got') = Len(got) + k
        /\ \A i \in 1..Len(got) + k : got'[i] = IF i <= Len(got) THEN got[i] ELSE up[i - Len(got)]
    <2>1. /\ Len(got') = Len(got) + k
          /\ \A i \in 1..Len(got) + k :
                got'[i] = IF i <= Len(got) THEN got[i] ELSE SubSeq(up, 1, k)[i - Len(got)]
      BY <1>1, <1>2, ConcatProperties DEF Recv
    <2> QED BY <1>2, <1>n, <2>1
  <1>4. Len(up') = Len(up) - k /\ \A i \in 1..Len(up) - k : up'[i] = up[k + i]
    <2>1. \A i \in k + 1..Len(up) : up[i] \in Byte
      BY <1>n, <1>k, <1>1
    <2>2. /\ Len(up') = IF k + 1 <= Len(up) THEN Len(up) - (k + 1) + 1 ELSE 0
          /\ \A i \in 1..Len(up) - (k + 1) + 1 : up'[i] = up[k + 1 + i - 1]
      BY <1>n, <2>1, SubSeqProperties DEF Recv
    <2> QED BY <1>n, <1>k, <2>2
  <1>s. Stream(n)
    BY <1>k DEF Synced, Reading
  <1>5. \A i \in 1..Len(got') : got'[i] = [what |-> Wire(spc), txn |-> n, pos |-> i]
    <2> SUFFICES ASSUME NEW i \in 1..Len(got) + k
                 PROVE  got'[i] = [what |-> Wire(spc), txn |-> n, pos |-> i]
      BY <1>3
    <2>1. CASE i <= Len(got)
      <3>1. i \in 1..Len(got) /\ got'[i] = got[i]
        BY <1>n, <1>3, <2>1
      <3> QED BY <1>k, <1>s, <3>1 DEF Stream
    <2>2. CASE ~(i <= Len(got))
      <3>1. /\ i - Len(got) \in 1..Len(up) /\ got'[i] = up[i - Len(got)]
            /\ Len(got) + (i - Len(got)) = i /\ i <= need
        BY <1>n, <1>k, <1>3, <2>2
      <3> QED BY <1>s, <3>1 DEF Stream
    <2> QED BY <2>1, <2>2
  <1>6. Stream(n)'
    <2>1. ASSUME NEW i \in 1..Len(up')
          PROVE  up'[i] = IF Len(got') + i <= need
                            THEN [what |-> Wire(spc), txn |-> n, pos |-> Len(got') + i]
                            ELSE [what |-> "code", txn |-> n + ((Len(got') + i) - need), pos |-> 1]
      <3>1. /\ k + i \in 1..Len(up) /\ up'[i] = up[k + i]
            /\ Len(got) + (k + i) = Len(got') + i
        BY <1>n, <1>k, <1>3, <1>4
      <3> DEFINE At(p) == IF p <= need THEN [what |-> Wire(spc), txn |-> n, pos |-> p]
                          ELSE [what |-> "code", txn |-> n + (p - need), pos |-> 1]
      <3>2. up[k + i] = At(Len(got) + (k + i))
        BY <1>s, <3>1 DEF Stream
      <3>3. up'[i] = At(Len(got') + i)
        <4> HIDE DEF At
        <4> QED BY <3>1, <3>2
      <3> QED BY <3>3, Zenon
    <2>2. spc' = spc /\ need' = need
      BY <1>0
    <2>3. /\ \A i \in 1..Len(got') : got'[i] = [what |-> Wire(spc'), txn |-> n, pos |-> i]
          /\ \A i \in 1..Len(up') :
                up'[i] = IF Len(got') + i <= need'
                           THEN [what |-> Wire(spc'), txn |-> n, pos |-> Len(got') + i]
                           ELSE [what |-> "code", txn |-> n + ((Len(got') + i) - need'), pos |-> 1]
      BY ONLY <1>5, <2>1, <2>2, Zenon
    <2> QED BY ONLY <2>3, Zenon DEF Stream, Wire
  <1>7. Answered(n) => Answered(n)'
    <2>1. Len(got') + Len(up') = Len(got) + Len(up)
      <3>1. Len(got') = Len(got) + k /\ Len(up') = Len(up) - k
        BY <1>3, <1>4
      <3> QED BY ONLY <3>1, <1>n, k \in Nat
    <2>2. UNCHANGED <<down, need, txn>>
      BY <1>0
    <2> QED BY ONLY <2>1, <2>2, <1>n DEF Answered
  <1>8. Ahead(n) => Ahead(n)'
    BY <1>0 DEF Ahead
  <1>9. Place(n) => Place(n)'
    <2>1. up # <<>>
      BY <1>n, <1>k
    <2> QED BY <1>0, <1>7, <1>8, <1>k, <2>1 DEF Place, Asked, Reading
  <1>10. link # "rst"
    BY <1>n, <1>k, Naturals
  <1> QED BY <1>0, <1>6, <1>9, <1>10, <1>k DEF Synced, Reading

\* The length that was read is that of payload n: the server asks for as many bytes.
LEMMA LengthSynced ==
    ASSUME LinkInv, NEW n \in 0..txn, Synced(n), NEW len \in Lengths, LengthRead(len), ~failed'
    PROVE  Synced(n)'
  <1>n. /\ Len(got) \in Nat /\ Len(up) \in Nat /\ need \in Nat /\ txn \in Nat /\ n \in Nat
        /\ up = <<>> <=> Len(up) = 0
        /\ got = <<>> <=> Len(got) = 0
    BY Naturals
  <1>1. /\ spc = "length" /\ Len(got) = need /\ need = READSIZE /\ n > 0 /\ kind[n] = "read"
        /\ READSIZE \in Nat \ {0}
    BY WireAssumption DEF LengthRead, Synced
  <1>2. link # "rst"
    BY DEF LengthRead, Fails
  <1>3. Answered(n) /\ txn = n /\ tpc = "lengthAck"
    BY <1>n, <1>1, <1>2 DEF Synced, Place, Asked
  <1>4. up = <<>> /\ down = <<>>
    BY <1>n, <1>1, <1>3 DEF Answered
  <1>t. n \in Txns
    <2>1. txn \in 0..MaxTxn
      BY DEF LinkInv, LinkTypeOK
    <2> QED BY <1>1, <1>3, <2>1, MaxTxnAssumption DEF Txns
  <1>5. \A k \in 1..Len(got) : got[k] = [what |-> "length", txn |-> n, pos |-> k]
    BY <1>1 DEF Synced, Stream, Wire, Reading
  <1>6. got = Length(n)
    <2>1. got \in Seq(Byte)
      BY DEF LinkInv, LinkTypeOK
    <2>2. /\ Length(n) \in Seq(Byte) /\ Len(Length(n)) = READSIZE
          /\ \A k \in 1..READSIZE : Length(n)[k] = [what |-> "length", txn |-> n, pos |-> k]
      BY <1>1, <1>t, BytesType DEF Length
    <2> QED BY <1>1, <1>5, <2>1, <2>2, SeqEqual
  <1>7. Head(got).txn = n
    <2>1. 1 \in 1..Len(got) /\ Head(got) = got[1]
      BY <1>n, <1>1
    <2>2. got[1] = [what |-> "length", txn |-> n, pos |-> 1]
      BY <1>5, <2>1, Zenon
    <2> QED BY <2>1, <2>2
  <1>8. len = size[n] /\ len \in Nat
    <2>1. Denotes = {size[n]}
      BY <1>6, <1>7 DEF Denotes
    <2>2. len = size[n]
      BY <2>1 DEF LengthRead
    <2> QED BY <1>t, <2>2, SizeType
  <1>9. /\ down' = Append(down, "ACK") /\ spc' = "payload" /\ need' = size[n] /\ got' = <<>>
        /\ UNCHANGED <<tpc, txn, kind, size, up, link>>
    BY <1>2, <1>8 DEF LengthRead, Expect, tabVars
  <1>10. Asked(n, "ACK", "lengthAck")'
    <2>1. down' = <<"ACK">>
      BY <1>4, <1>9
    <2> QED BY <1>3, <1>4, <1>9, <2>1 DEF Asked
  <1>11. Stream(n)'
    BY <1>4, <1>9, EmptySeq DEF Stream
  <1> QED BY <1>1, <1>9, <1>10, <1>11 DEF Synced, Place

\* Once the bytes of a message have been read, what is on its way begins with a code.
LEMMA MessageOver ==
    ASSUME LinkInv, NEW n \in 0..txn, Stream(n), Len(got) = need, Ended, UNCHANGED up
    PROVE  Stream(n)'
  <1>n. Len(got) \in Nat /\ Len(up) \in Nat /\ need \in Nat /\ n \in Nat
    BY Naturals
  <1>1. spc' = "idle" /\ need' = 0 /\ got' = <<>> /\ Len(got') = 0 /\ up' = up
    BY EmptySeq DEF Ended, Expect
  <1>2. ASSUME NEW k \in 1..Len(up)
        PROVE  up[k] = [what |-> "code", txn |-> n + k, pos |-> 1]
    <2>1. ~(Len(got) + k <= need) /\ n + ((Len(got) + k) - need) = n + k
      BY <1>n
    <2> QED BY <2>1 DEF Stream
  <1>3. ASSUME NEW k \in 1..Len(up)
        PROVE  ~(0 + k <= 0) /\ n + ((0 + k) - 0) = n + k
    BY <1>n
  <1>4. spc' \notin Reading
    BY <1>1 DEF Reading
  <1> QED BY <1>1, <1>2, <1>3, <1>4 DEF Stream

\* The payload has been read, and it is that of transaction n.
LEMMA PayloadSynced ==
    ASSUME LinkInv, NEW n \in 0..txn, Synced(n), PayloadRead
    PROVE  Synced(n)' /\ n \in Txns /\ kind[n] = "read" /\ got = Payload(n)
  <1>n. /\ Len(got) \in Nat /\ Len(up) \in Nat /\ need \in Nat /\ txn \in Nat /\ n \in Nat
        /\ got = <<>> <=> Len(got) = 0
    BY Naturals
  <1>1. spc = "payload" /\ Len(got) = need /\ need = size[n] /\ n > 0 /\ kind[n] = "read" /\ Stream(n)
    BY DEF PayloadRead, Synced
  <1>t. n \in Txns
    <2>1. txn \in 0..MaxTxn
      BY DEF LinkInv, LinkTypeOK
    <2> QED BY <1>n, <1>1, <2>1, MaxTxnAssumption DEF Txns
  <1>2. got = Payload(n)
    <2>1. got \in Seq(Byte)
      BY DEF LinkInv, LinkTypeOK
    <2>2. size[n] \in Nat
      BY <1>t, SizeType
    <2>3. /\ Payload(n) \in Seq(Byte) /\ Len(Payload(n)) = size[n]
          /\ \A k \in 1..size[n] : Payload(n)[k] = [what |-> "payload", txn |-> n, pos |-> k]
      BY <1>t, PayloadBytes
    <2>4. \A k \in 1..Len(got) : got[k] = [what |-> "payload", txn |-> n, pos |-> k]
      BY <1>1 DEF Stream, Wire, Reading
    <2> QED BY <1>1, <2>1, <2>3, <2>4, SeqEqual
  <1>3. Stream(n)'
    BY <1>1, MessageOver DEF PayloadRead
  <1>4. /\ spc' = "idle" /\ need' = 0 /\ got' = <<>> /\ Len(got') = 0
        /\ UNCHANGED <<tpc, txn, kind, size, up, down, link>>
    BY EmptySeq DEF PayloadRead, Ended, Expect, tabVars
  <1>5. ASSUME link # "rst" PROVE Place(n)'
    <2>1. Asked(n, "ACK", "lengthAck") \/ (Answered(n) /\ Ahead(n))
      BY <1>1, <1>5 DEF Synced, Place
    <2>2. CASE Asked(n, "ACK", "lengthAck")
      <3>1. size'[n] = 0
        BY <1>n, <1>1, <1>4, <2>2 DEF Asked
      <3>2. Asked(n, "ACK", "lengthAck")'
        BY <1>4, <2>2 DEF Asked
      <3> QED BY <1>4, <3>1, <3>2 DEF Place
    <2>3. CASE Answered(n) /\ Ahead(n)
      <3>1. Answered(n)'
        BY <1>n, <1>1, <1>4, <2>3 DEF Answered
      <3>2. Ahead(n)'
        BY <1>4, <2>3 DEF Ahead
      <3> QED BY <1>4, <3>1, <3>2 DEF Place
    <2> QED BY <2>1, <2>2, <2>3
  <1>6. Synced(n)'
    BY <1>3, <1>4, <1>5 DEF Synced
  <1> QED BY <1>1, <1>2, <1>6, <1>t

\* An ACK has been read: the data follow, or the transaction is over.
LEMMA AckSynced ==
    ASSUME LinkInv, NEW n \in 0..txn, Synced(n), AckRead, ~failed'
    PROVE  Synced(n)' /\ kind[n] = "write" /\ n > 0
  <1>n. /\ Len(got) \in Nat /\ Len(up) \in Nat /\ need \in Nat /\ txn \in Nat /\ n \in Nat
        /\ got = <<>> <=> Len(got) = 0
        /\ up = <<>> <=> Len(up) = 0
    BY Naturals
  <1>1. /\ spc \in {"writeAck1", "writeAck2"} /\ Len(got) = need /\ need = ACK_SIZE
        /\ n > 0 /\ kind[n] = "write" /\ Stream(n)
    BY DEF AckRead, Synced
  <1>2. ~Fails(down)
    BY DEF Fails
  <1>w. ACK_SIZE # 0
    BY WireAssumption
  <1>3. CASE spc = "writeAck1"
    <2>1. /\ link # "rst" /\ down' = Append(down, "PAYLOAD") /\ spc' = "writeAck2"
          /\ need' = ACK_SIZE /\ got' = <<>> /\ UNCHANGED <<tpc, txn, kind, size, up, link>>
      BY <1>2, <1>3 DEF AckRead, Expect, tabVars
    <2>2. Answered(n) /\ txn = n /\ tpc = "payload"
      BY <1>n, <1>1, <1>3, <1>w, <2>1 DEF Synced, Place, Asked
    <2>3. up = <<>> /\ down = <<>>
      BY <1>n, <1>1, <2>2 DEF Answered
    <2>4. down' = <<"PAYLOAD">>
      BY <2>1, <2>3
    <2>5. Stream(n)'
      BY <2>1, <2>3, EmptySeq DEF Stream
    <2>6. Asked(n, "PAYLOAD", "payload")'
      BY <2>1, <2>2, <2>3, <2>4 DEF Asked
    <2> QED BY <1>1, <2>1, <2>5, <2>6 DEF Synced, Place
  <1>4. CASE spc = "writeAck2"
    <2>1. /\ UNCHANGED <<down, tpc, txn, kind, size, up, link>> /\ Ended
      BY <1>2, <1>4 DEF AckRead, tabVars
    <2>2. Stream(n)'
      BY <1>1, <2>1, MessageOver
    <2>3. spc' = "idle" /\ need' = 0 /\ Len(got') = 0
      BY <2>1, EmptySeq DEF Ended, Expect
    <2>4. ASSUME link # "rst" PROVE Place(n)'
      <3>1. Answered(n) /\ Ahead(n)
        BY <1>n, <1>1, <1>4, <1>w, <2>4 DEF Synced, Place, Asked
      <3>2. Answered(n)'
        BY <1>n, <1>1, <2>1, <2>3, <3>1 DEF Answered
      <3>3. Ahead(n)'
        BY <2>1, <3>1 DEF Ahead
      <3> QED BY <2>3, <3>2, <3>3 DEF Place
    <2> QED BY <1>1, <2>1, <2>2, <2>3, <2>4 DEF Synced
  <1> QED BY <1>1, <1>3, <1>4

\* The tablet begins a transaction only when it waits for nothing.
LEMMA BeginSynced ==
    ASSUME LinkInv, NEW n \in 0..txn, Synced(n), NEW c \in Kinds, NEW len \in Sizes, Begin(c, len)
    PROVE  Synced(n)'
  <1>n. /\ Len(got) \in Nat /\ Len(up) \in Nat /\ need \in Nat /\ txn \in Nat /\ n \in Nat
        /\ Len(got) <= need
    BY Naturals
  <1>0. /\ tpc = "idle" /\ link # "rst" /\ txn' = txn + 1 /\ txn < MaxTxn
        /\ tpc' = First(c)
        /\ UNCHANGED <<spc, need, got, down, link>>
    BY DEF Begin, First, srvVars
  <1>t. txn + 1 \in Txns
    BY <1>0, <1>n, MaxTxnAssumption DEF Txns
  <1>1. /\ kind'[txn + 1] = c
        /\ \A m \in 1..txn : kind'[m] = kind[m] /\ size'[m] = size[m]
    <2>1. kind \in [Txns -> Kinds] /\ size \in [Txns -> Sizes \cup {0}]
      BY DEF LinkInv, LinkTypeOK
    <2>2. kind' = [kind EXCEPT ![txn + 1] = c] /\ size' = [size EXCEPT ![txn + 1] = len]
      BY DEF Begin
    <2>3. \A m \in 1..txn : m \in Txns /\ m # txn + 1
      BY <1>0, <1>n, MaxTxnAssumption DEF Txns
    <2> QED BY <1>t, <2>1, <2>2, <2>3
  <1>2. CASE spc = "closed"
    BY <1>0, <1>2 DEF Synced
  <1>3. CASE spc # "closed"
    <2>1. /\ spc \in {"idle", "payload", "writeAck2"} /\ Answered(n) /\ Ahead(n) /\ Stream(n)
      BY <1>0, <1>3 DEF Synced, Place, Asked
    <2>2. /\ Len(up') = Len(up) + 1
          /\ \A k \in 1..Len(up) : up'[k] = up[k]
          /\ up'[Len(up) + 1] = [what |-> "code", txn |-> txn + 1, pos |-> 1]
      <3>1. up \in Seq(Byte) /\ up' = up \o Code(txn + 1)
        BY DEF LinkInv, LinkTypeOK, Begin
      <3>2. /\ Code(txn + 1) \in Seq(Byte) /\ Len(Code(txn + 1)) = 1
            /\ Code(txn + 1)[1] = [what |-> "code", txn |-> txn + 1, pos |-> 1]
        BY <1>t, CodeBytes
      <3>3. PICK d : d = Code(txn + 1)
        OBVIOUS
      <3>4. /\ Len(up') = Len(up) + 1
            /\ \A k \in 1..Len(up) + 1 : up'[k] = IF k <= Len(up) THEN up[k] ELSE d[k - Len(up)]
        <4>1. d \in Seq(Byte) /\ Len(d) = 1 /\ up' = up \o d
          BY <3>1, <3>2, <3>3
        <4>2. /\ Len(up \o d) = Len(up) + Len(d)
              /\ \A k \in 1..Len(up) + Len(d) : (up \o d)[k] = IF k <= Len(up) THEN up[k] ELSE d[k - Len(up)]
          BY <3>1, <4>1, ConcatProperties
        <4> QED BY <4>1, <4>2
      <3>5. (Len(up) + 1) - Len(up) = 1 /\ ~(Len(up) + 1 <= Len(up)) /\ Len(up) + 1 \in 1..Len(up) + 1
        BY <1>n
      <3>6. \A k \in 1..Len(up) : k \in 1..Len(up) + 1 /\ k <= Len(up)
        BY <1>n
      <3> QED BY <3>2, <3>3, <3>4, <3>5, <3>6
    <2>3. Answered(n)'
      BY <1>0, <1>n, <2>1, <2>2 DEF Answered
    <2>4. Ahead(n)'
      <3>1. \A m \in n + 1..txn - 1 : kind[m] = "close"
        BY <2>1 DEF Ahead
      <3>2. txn # n => First(kind[txn]) = "idle" /\ txn \in Txns
        BY <1>0, <1>n, <2>1, MaxTxnAssumption DEF Ahead, Txns
      <3>k. txn # n => kind[txn] \in Kinds
        BY <3>2 DEF LinkInv, LinkTypeOK
      <3>3. txn # n => kind[txn] = "close"
        BY <3>2, <3>k DEF First, Kinds
      <3>4. \A m \in n + 1..txn : kind[m] = "close" /\ m \in 1..txn
        BY <1>n, <3>1, <3>3
      <3>5. \A m \in n + 1..txn' - 1 : kind'[m] = "close"
        BY <1>0, <1>1, <1>n, <3>4
      <3>6. txn' # n /\ kind'[txn'] = c
        BY <1>0, <1>1, <1>n
      <3> QED BY <1>0, <3>5, <3>6 DEF Ahead
    <2>5. Stream(n)'
      <3>1. Len(got) + (Len(up) + 1) > need /\ txn + 1 = n + ((Len(got) + (Len(up) + 1)) - need)
        BY <1>n, <2>1 DEF Answered
      <3>2. ASSUME NEW k \in 1..Len(up')
            PROVE  up'[k] = IF Len(got) + k <= need
                              THEN [what |-> Wire(spc), txn |-> n, pos |-> Len(got) + k]
                              ELSE [what |-> "code", txn |-> n + ((Len(got) + k) - need), pos |-> 1]
        <4>1. CASE k \in 1..Len(up)
          BY <2>1, <2>2, <4>1 DEF Stream
        <4>2. CASE k = Len(up) + 1
          <5>1. ~(Len(got) + k <= need) /\ txn + 1 = n + ((Len(got) + k) - need)
            BY <1>n, <3>1, <4>2
          <5> QED BY <2>2, <4>2, <5>1
        <4> QED BY <1>n, <2>2, <4>1, <4>2
      <3>3. spc' = spc /\ need' = need /\ got' = got
        BY <1>0
      <3>4. spc \in Reading => \A k \in 1..Len(got) : got[k] = [what |-> Wire(spc), txn |-> n, pos |-> k]
        BY <2>1 DEF Stream
      <3> QED BY <3>2, <3>3, <3>4, Zenon DEF Stream
    <2>6. n > 0 => kind'[n] = kind[n] /\ size'[n] = size[n]
      BY <1>1, <1>n
    <2> QED BY <1>0, <2>1, <2>3, <2>4, <2>5, <2>6 DEF Synced, Place
  <1> QED BY <1>2, <1>3

\* The tablet answers what the server asked for, with the bytes that the server waits for.
LEMMA ReceiveSynced ==
    ASSUME LinkInv, NEW n \in 0..txn, Synced(n), Receive
    PROVE  Synced(n)'
  <1>0. /\ tpc # "idle" /\ link = "up" /\ down # <<>>
        /\ UNCHANGED <<spc, need, got, txn, kind, size, link>>
    BY DEF Receive, srvVars
  <1>1. CASE spc = "closed"
    BY <1>0, <1>1 DEF Synced
  <1>2. CASE spc # "closed"
    <2>n. /\ need \in Nat /\ txn \in Nat /\ n \in Nat /\ up \in Seq(Byte)
          /\ spc \notin Reading => need = 0
      BY Naturals DEF LinkInv, LinkTypeOK
    <2>1. PICK m, t : /\ Asked(n, m, t)
                      /\ \/ spc = "idle" /\ m = "ACK" /\ t = "lengthAck" /\ size[n] = 0
                         \/ spc = "length" /\ m = "ACK" /\ t = "codeAck"
                         \/ spc = "payload" /\ m = "ACK" /\ t = "lengthAck"
                         \/ spc = "writeAck1" /\ m = "LENGTH" /\ t = "length"
                         \/ spc = "writeAck2" /\ m = "PAYLOAD" /\ t = "payload"
      <3>1. Place(n)
        BY <1>0, <1>2 DEF Synced
      <3> QED BY <1>0, <3>1 DEF Place, Answered
    <2>2. /\ down = <<m>> /\ tpc = t /\ txn = n /\ up = <<>> /\ got = <<>>
          /\ Head(down) = m /\ down' = <<>> /\ Len(got) = 0
      <3>1. down = <<m>> /\ tpc = t /\ txn = n /\ up = <<>> /\ got = <<>>
        BY <2>1 DEF Asked
      <3>2. Head(<<m>>) = m /\ Tail(<<m>>) = <<>>
        OBVIOUS
      <3>3. down' = Tail(down)
        BY DEF Receive
      <3> QED BY <3>1, <3>2, <3>3, EmptySeq
    <2>t. n \in Txns
      <3>1. txn \in 0..MaxTxn /\ txn > 0
        BY <1>0 DEF LinkInv, LinkTypeOK
      <3> QED BY <2>2, <3>1, MaxTxnAssumption DEF Txns
    <2>s. size[n] \in Nat
      BY <2>t, SizeType
    <2>3. PICK w \in {"length", "payload", "ack"} :
             /\ Answer(m).send = Bytes(w, n, need)
             /\ spc \in Reading => w = Wire(spc)
      <3>1. CASE spc = "idle" /\ m = "ACK" /\ t = "lengthAck" /\ size[n] = 0
        <4>1. Answer(m).send = Payload(n) /\ size[n] = need /\ spc \notin Reading
          BY <2>2, <2>n, <3>1 DEF Answer, Reading
        <4> QED BY <4>1 DEF Payload
      <3>2. CASE spc = "length" /\ m = "ACK" /\ t = "codeAck"
        <4>1. Answer(m).send = Length(n) /\ READSIZE = need /\ Wire(spc) = "length"
          BY <2>2, <3>2 DEF Answer, Synced, Wire
        <4> QED BY <4>1 DEF Length
      <3>3. CASE spc = "payload" /\ m = "ACK" /\ t = "lengthAck"
        <4>1. Answer(m).send = Payload(n) /\ size[n] = need /\ Wire(spc) = "payload"
          BY <2>2, <3>3 DEF Answer, Synced, Wire
        <4> QED BY <4>1 DEF Payload
      <3>4. CASE spc = "writeAck1" /\ m = "LENGTH" /\ t = "length"
        <4>1. Answer(m).send = Ack(n) /\ ACK_SIZE = need /\ Wire(spc) = "ack"
          BY <2>2, <3>4 DEF Answer, Synced, Wire
        <4> QED BY <4>1 DEF Ack
      <3>5. CASE spc = "writeAck2" /\ m = "PAYLOAD" /\ t = "payload"
        <4>1. Answer(m).send = Ack(n) /\ ACK_SIZE = need /\ Wire(spc) = "ack"
          BY <2>2, <3>5 DEF Answer, Synced, Wire
        <4> QED BY <4>1 DEF Ack
      <3> QED BY <2>1, <3>1, <3>2, <3>3, <3>4, <3>5
    <2>4. /\ Len(up') = need
          /\ \A k \in 1..Len(up') : up'[k] = [what |-> w, txn |-> n, pos |-> k]
      <3>1. /\ Bytes(w, n, need) \in Seq(Byte) /\ Len(Bytes(w, n, need)) = need
            /\ \A k \in 1..need : Bytes(w, n, need)[k] = [what |-> w, txn |-> n, pos |-> k]
        BY <2>n, <2>t, BytesType
      <3>2. up' = <<>> \o Bytes(w, n, need)
        BY <2>2, <2>3 DEF Receive
      <3>3. up' = Bytes(w, n, need)
        BY <3>1, <3>2, ConcatEmptySeq
      <3> QED BY <3>1, <3>3
    <2>5. Stream(n)'
      <3>1. ASSUME NEW k \in 1..Len(up')
            PROVE  up'[k] = [what |-> Wire(spc), txn |-> n, pos |-> 0 + k] /\ 0 + k <= need
        <4>1. k \in 1..need /\ need # 0 /\ 0 + k = k /\ k <= need
          BY <2>n, <2>4
        <4>2. w = Wire(spc)
          BY <2>n, <2>3, <4>1
        <4> QED BY <2>4, <4>1, <4>2
      <3>2. spc' = spc /\ need' = need /\ got' = got /\ Len(got') = 0 /\ 1..0 = {}
        BY <1>0, <2>2
      <3> QED BY <3>1, <3>2 DEF Stream
    <2>6. Answered(n)'
      BY <1>0, <2>2, <2>4, <2>n DEF Answered
    <2>7. Place(n)'
      <3>1. CASE tpc = "lengthAck"
        <4>1. tpc' \in {"payloadAck", "idle"}
          BY <2>1, <2>2, <3>1 DEF Receive, Answer
        <4>2. Ahead(n)'
          BY <1>0, <2>2, <2>n, <4>1 DEF Ahead
        <4>3. spc' \in {"idle", "payload"}
          BY <1>0, <2>1, <2>2, <3>1
        <4> QED BY <2>6, <4>2, <4>3 DEF Place
      <3>2. CASE tpc = "codeAck"
        <4>1. tpc' = "lengthAck" /\ spc' = "length" /\ txn' = n
          BY <1>0, <2>1, <2>2, <3>2 DEF Receive, Answer
        <4> QED BY <2>6, <4>1 DEF Place
      <3>3. CASE tpc = "length"
        <4>1. tpc' = "payload" /\ spc' = "writeAck1" /\ txn' = n
          BY <1>0, <2>1, <2>2, <3>3 DEF Receive, Answer
        <4> QED BY <2>6, <4>1 DEF Place
      <3>4. CASE tpc = "payload"
        <4>1. tpc' = "idle" /\ spc' = "writeAck2"
          BY <1>0, <2>1, <2>2, <3>4 DEF Receive, Answer
        <4>2. Ahead(n)'
          BY <1>0, <2>2, <2>n, <4>1 DEF Ahead
        <4> QED BY <2>6, <4>1, <4>2 DEF Place
      <3> QED BY <2>1, <2>2, <3>1, <3>2, <3>3, <3>4
    <2> QED BY <1>0, <2>5, <2>7 DEF Synced
  <1> QED BY <1>1, <1>2

\* A tablet that leaves takes back what it has sent, or does not.
LEMMA LeaveSynced ==
    ASSUME LinkInv, NEW n \in 0..txn, Synced(n), NEW how \in Faults, Leave(how)
    PROVE  Synced(n)'
  <1>0. /\ UNCHANGED <<spc, need, got, tpc, txn, kind, size, down>> /\ link # "rst"
        /\ link' = how /\ up' = IF how = "rst" THEN <<>> ELSE up
    BY DEF Leave, srvVars, tabVars
  <1>1. CASE how # "rst"
    <2>1. up' = up
      BY <1>0, <1>1
    <2>2. Stream(n) => Stream(n)'
      BY <1>0, <2>1 DEF Stream
    <2>3. Place(n) => Place(n)'
      <3>1. (Answered(n) <=> Answered(n)') /\ (Ahead(n) <=> Ahead(n)')
        BY <1>0, <2>1 DEF Answered, Ahead
      <3> QED BY <1>0, <2>1, <3>1 DEF Place, Asked
    <2> QED BY <1>0, <1>1, <2>2, <2>3 DEF Synced
  <1>2. CASE how = "rst"
    <2>1. link' = "rst" /\ up' = <<>> /\ Len(up') = 0 /\ 1..0 = {}
      BY <1>0, <1>2, EmptySeq, LinkFaultsAssumption
    <2>2. Stream(n) => Stream(n)'
      BY <1>0, <2>1 DEF Stream
    <2> QED BY <1>0, <2>1, <2>2 DEF Synced
  <1> QED BY <1>1, <1>2

-----------------------------------------------------------------------------
(* The payloads that were returned.                                        *)

\* A step that returns no payload keeps those that were returned.
LEMMA ReturnedKept ==
    ASSUME LinkInv, NEW p, NEW q, NEW of \in [1..Len(received) -> 1..txn], Returned(p, of),
           received' = received, txn' \in Nat, txn <= txn',
           \A m \in 1..txn : size'[m] = size[m], Reads(q)' = Reads(p)
    PROVE  \E g \in [1..Len(received') -> 1..txn'] : Returned(q, g)'
  <1>n. txn \in Nat
    BY Naturals
  <1>1. of \in [1..Len(received') -> 1..txn']
    <2>1. \A j \in 1..Len(received) : of[j] \in 1..txn'
      BY <1>n
    <2> QED BY <2>1
  <1>2. \A j \in 1..Len(received) : of[j] \in 1..txn
    OBVIOUS
  <1>3. \A j \in 1..Len(received) : Payload(of[j])' = Payload(of[j])
    BY <1>2 DEF Payload
  <1>4. Returned(q, of)'
    BY <1>3 DEF Returned
  <1> QED BY <1>1, <1>4

\* internalRead returns payload n, and the payloads before it were returned already.
LEMMA ReturnedOneMore ==
    ASSUME LinkInv, NEW n \in 1..txn, NEW of \in [1..Len(received) -> 1..txn], Returned(n - 1, of),
           kind[n] = "read", received' = Append(received, Payload(n)), Payload(n) \in Seq(Byte),
           UNCHANGED <<txn, kind, size>>
    PROVE  \E g \in [1..Len(received') -> 1..txn'] : Returned(n, g)'
  <1>n. txn \in Nat /\ n \in Nat \ {0}
    BY Naturals
  <1>r. received \in Seq(Seq(Byte))
    BY DEF LinkInv, LinkTypeOK
  <1> DEFINE L == Len(received)
  <1>l. L \in Nat
    BY <1>r, LenProperties
  <1>1. /\ Len(received') = L + 1
        /\ \A j \in 1..L : received'[j] = received[j]
        /\ received'[L + 1] = Payload(n)
    BY <1>r, AppendProperties
  <1> DEFINE g == [j \in 1..L + 1 |-> IF j \in 1..L THEN of[j] ELSE n]
  <1>2. /\ \A j \in 1..L : g[j] = of[j] /\ of[j] \in 1..txn
        /\ g[L + 1] = n
    BY <1>l
  <1>3. \A j \in 1..L + 1 : j \in 1..L \/ j = L + 1
    BY <1>l
  <1>4. g \in [1..Len(received') -> 1..txn']
    BY <1>1, <1>2, <1>3
  <1>5. \A j \in 1..L : of[j] < n /\ kind[of[j]] = "read"
    <2>1. \A j \in 1..L : of[j] \in Reads(n - 1)
      BY DEF Returned
    <2> QED BY <1>n, <2>1 DEF Reads
  <1> HIDE DEF g, L
  <1>6. {g[j] : j \in 1..L + 1} = Reads(n)
    <2>1. ASSUME NEW m \in Reads(n) PROVE \E j \in 1..L + 1 : m = g[j]
      <3>1. CASE m = n
        BY <1>2, <1>l, <3>1
      <3>2. CASE m # n
        <4>1. m \in Reads(n - 1)
          BY <1>n, <2>1, <3>2 DEF Reads
        <4>2. PICK j \in 1..L : m = of[j]
          BY <4>1 DEF Returned, L
        <4> QED BY <1>2, <1>l, <4>2
      <3> QED BY <3>1, <3>2
    <2>2. ASSUME NEW j \in 1..L + 1 PROVE g[j] \in Reads(n)
      <3>1. CASE j \in 1..L
        BY <1>2, <1>5, <1>n, <3>1 DEF Reads
      <3>2. CASE j = L + 1
        BY <1>2, <1>n, <3>2 DEF Reads
      <3> QED BY <1>3, <3>1, <3>2
    <2> QED BY <2>1, <2>2
  <1>7. \A j, k \in 1..L + 1 : j < k => g[j] < g[k]
    <2> SUFFICES ASSUME NEW j \in 1..L + 1, NEW k \in 1..L + 1, j < k PROVE g[j] < g[k]
      OBVIOUS
    <2>1. j \in 1..L
      BY <1>l
    <2>2. CASE k \in 1..L
      <3>1. of[j] < of[k]
        BY <2>1, <2>2 DEF Returned, L
      <3> QED BY <1>2, <2>1, <2>2, <3>1
    <2>3. CASE k = L + 1
      BY <1>2, <1>5, <2>1, <2>3
    <2> QED BY <1>3, <2>2, <2>3
  <1>8. \A j \in 1..L + 1 : received'[j] = Payload(g[j])
    <2> SUFFICES ASSUME NEW j \in 1..L + 1 PROVE received'[j] = Payload(g[j])
      OBVIOUS
    <2>1. CASE j \in 1..L
      <3>1. received[j] = Payload(of[j])
        BY <2>1 DEF Returned, L
      <3> QED BY <1>1, <1>2, <2>1, <3>1
    <2>2. CASE j = L + 1
      BY <1>1, <1>2, <2>2
    <2> QED BY <1>3, <2>1, <2>2
  <1>9. PICK h : h = g
    OBVIOUS
  <1>10. Returned(n, h)'
    <2>1. Reads(n)' = Reads(n) /\ \A j \in 1..L + 1 : Payload(h[j])' = Payload(h[j])
      BY DEF Reads, Payload
    <2>2. \A j \in 1..Len(received') : received'[j] = Payload(h[j])'
      BY <1>1, <1>8, <1>9, <2>1
    <2>3. {h[j] : j \in 1..Len(received')} = Reads(n)'
      BY <1>1, <1>6, <1>9, <2>1
    <2>4. \A j, k \in 1..Len(received') : j < k => h[j] < h[k]
      BY <1>1, <1>7, <1>9
    <2> QED BY <2>2, <2>3, <2>4 DEF Returned
  <1> QED BY <1>4, <1>9, <1>10

-----------------------------------------------------------------------------
(* The invariant.                                                          *)

\* At the start both sides are before the first transaction.
LEMMA InitSync == Init => SyncInv
  <1> SUFFICES ASSUME Init PROVE SyncInv
    OBVIOUS
  <1>1. /\ spc = "idle" /\ Len(got) = 0 /\ Len(up) = 0 /\ need = 0 /\ tpc = "idle" /\ txn = 0
        /\ down = <<>> /\ Len(received) = 0 /\ ~misread
    BY EmptySeq DEF Init
  <1>e. 1..0 = {}
    OBVIOUS
  <1>2. Stream(0)
    BY <1>1, <1>e DEF Stream, Reading
  <1>3. Answered(0)
    BY <1>1 DEF Answered
  <1>4. Ahead(0)
    BY <1>1 DEF Ahead
  <1>5. Synced(0)
    BY <1>1, <1>2, <1>3, <1>4 DEF Synced, Place
  <1>6. \E of \in [1..Len(received) -> 1..txn] : Returned(Over(0), of)
    <2>1. PICK of : of = [j \in 1..0 |-> 0]
      OBVIOUS
    <2>2. of \in [1..Len(received) -> 1..txn]
      BY <1>1, <1>e, <2>1
    <2>3. Over(0) = 0 /\ Reads(0) = {}
      BY <1>1, <1>e DEF Over, Reads
    <2>4. Returned(Over(0), of)
      BY <1>1, <1>e, <2>3 DEF Returned
    <2> QED BY <2>2, <2>4
  <1>7. 0 \in 0..txn
    BY <1>1
  <1> QED BY <1>1, <1>5, <1>6, <1>7 DEF SyncInv

\* A transaction that has failed is never forgotten.
LEMMA FailedStays == ASSUME [Next]_vars, ~failed' PROVE ~failed
  <1>1. CASE UNCHANGED vars
    BY <1>1 DEF vars
  <1>2. CASE Tablet
    BY <1>2 DEF Tablet, Begin, Receive, Leave
  <1>3. CASE Server
    BY <1>3 DEF Server, ReadCode, ReadEnd, AckCode, WriteLength, RecvFails, PayloadRead, AckRead, Recv,
                LengthRead, Fails
  <1> QED BY <1>1, <1>2, <1>3 DEF Next

\* One step, from places that match at transaction n.
LEMMA NextSync ==
    ASSUME LinkInv, LinkInv', SyncInv, [Next]_vars
    PROVE  SyncInv'
  <1> DEFINE Goal == /\ ~misread'
                     /\ \E p \in 0..txn' :
                           /\ Synced(p)'
                           /\ \E g \in [1..Len(received') -> 1..txn'] : Returned(Over(p), g)'
  <1> SUFFICES ASSUME ~failed' PROVE Goal
    BY DEF SyncInv
  <1>m. ~misread
    BY FailedStays DEF SyncInv
  <1>1. PICK n \in 0..txn :
           Synced(n) /\ \E of \in [1..Len(received) -> 1..txn] : Returned(Over(n), of)
    BY FailedStays DEF SyncInv
  <1>2. PICK of \in [1..Len(received) -> 1..txn] : Returned(Over(n), of)
    BY <1>1
  <1>n. txn \in Nat /\ n \in Nat /\ txn' \in Nat
    BY Naturals, MaxTxnAssumption DEF LinkInv, LinkTypeOK
  <1>k. ASSUME NEW q, UNCHANGED <<received, txn, size>>, Reads(q)' = Reads(Over(n))
        PROVE  \E g \in [1..Len(received') -> 1..txn'] : Returned(q, g)'
    <2>1. txn <= txn'
      BY <1>k, <1>n
    <2>2. \A m \in 1..txn : size'[m] = size[m]
      BY <1>k
    <2> QED BY <1>2, <1>k, <1>n, <2>1, <2>2, ReturnedKept
  \* A step within a transaction, or that returns none.
  <1>w. ASSUME Synced(n)', UNCHANGED <<received, txn, kind, size, misread>>,
               Over(n)' = Over(n) \/ (Over(n) = n - 1 /\ Over(n)' = n /\ kind[n] # "read" /\ n > 0)
        PROVE  Goal
    <2>1. \A q : Reads(q)' = Reads(q)
      BY <1>w DEF Reads
    <2>2. Over(n)' # Over(n) => Reads(n) = Reads(n - 1)
      <3> SUFFICES ASSUME n > 0, kind[n] # "read" PROVE Reads(n) = Reads(n - 1)
        BY <1>w
      <3> QED BY <1>n DEF Reads
    <2>3. Reads(Over(n)') = Reads(Over(n))
      BY <1>w, <2>2
    <2>4. PICK q : q = Over(n)'
      OBVIOUS
    <2>5. Reads(q)' = Reads(Over(n))
      BY <2>1, <2>3, <2>4
    <2>6. PICK g \in [1..Len(received') -> 1..txn'] : Returned(q, g)'
      BY <1>k, <1>w, <2>5
    <2>7. Returned(Over(n), g)'
      BY <2>4, <2>6 DEF Returned, Reads
    <2>8. n \in 0..txn' /\ ~misread'
      BY <1>m, <1>w
    <2> QED BY <1>w, <2>6, <2>7, <2>8
  <1>3. ASSUME NEW c \in Meanings, ReadCode(c)
        PROVE  Goal
    <2>1. misread' = misread /\ n + 1 \in 0..txn /\ c = kind[n + 1] /\ c \in Kinds /\ Synced(n + 1)'
      BY <1>1, <1>3, CodeSynced
    <2>2. UNCHANGED <<received, txn, kind, size>> /\ spc = "idle"
      BY <1>3 DEF ReadCode, tabVars
    <2>3. Over(n) = n
      BY <2>2 DEF Over
    <2>4. PICK q : q = Over(n + 1)'
      OBVIOUS
    <2>5. q = n \/ (q = n + 1 /\ kind[n + 1] # "read")
      <3>1. CASE c = "close"
        <4>1. spc' = "closed" /\ kind[n + 1] # "read"
          BY <1>3, <2>1, <3>1, CodeLeads
        <4> QED BY <2>4, <4>1 DEF Over
      <3>2. CASE c # "close"
        <4>1. spc' \in {"codeAck", "writeLength"}
          BY <1>3, <2>1, <3>2, CodeLeads DEF Kinds
        <4>2. q = (n + 1) - 1
          BY <2>4, <4>1 DEF Over
        <4> QED BY <1>n, <4>2
      <3> QED BY <3>1, <3>2
    <2>6. Reads(q) = Reads(n)
      <3> SUFFICES ASSUME kind[n + 1] # "read" PROVE Reads(n + 1) = Reads(n)
        BY <2>5
      <3> QED BY <1>n DEF Reads
    <2>7. Reads(q)' = Reads(Over(n))
      BY <2>2, <2>3, <2>6 DEF Reads
    <2>8. PICK g \in [1..Len(received') -> 1..txn'] : Returned(q, g)'
      BY <1>k, <2>2, <2>7
    <2>9. Returned(Over(n + 1), g)'
      BY <2>4, <2>8 DEF Returned, Reads
    <2>10. ~misread' /\ n + 1 \in 0..txn'
      BY <1>m, <2>1, <2>2
    <2> QED BY <2>1, <2>8, <2>9, <2>10
  <1>4. ASSUME PayloadRead
        PROVE  Goal
    <2>1. Synced(n)' /\ n \in Txns /\ kind[n] = "read" /\ got = Payload(n)
      BY <1>1, <1>4, PayloadSynced
    <2>2. /\ UNCHANGED <<txn, kind, size, misread>> /\ received' = Append(received, got)
          /\ spc = "payload" /\ spc' = "idle" /\ got \in Seq(Byte)
      BY <1>4 DEF PayloadRead, Ended, Expect, tabVars, LinkInv, LinkTypeOK
    <2>3. Over(n) = n - 1
      BY <2>2 DEF Over
    <2>4. n \in 1..txn
      BY <1>n, <2>1, MaxTxnAssumption DEF Txns
    <2>5. PICK g \in [1..Len(received') -> 1..txn'] : Returned(n, g)'
      BY <1>2, <2>1, <2>2, <2>3, <2>4, ReturnedOneMore
    <2>6. Over(n)' = n
      BY <2>2 DEF Over
    <2>7. Returned(Over(n), g)'
      BY <2>5, <2>6 DEF Returned, Reads
    <2>8. ~misread' /\ n \in 0..txn'
      BY <1>m, <2>2
    <2> QED BY <2>1, <2>5, <2>7, <2>8
  <1>5. ASSUME NEW c \in Kinds, NEW len \in Sizes, Begin(c, len)
        PROVE  Goal
    <2>1. Synced(n)'
      BY <1>1, <1>5, BeginSynced
    <2>2. UNCHANGED <<spc, received, misread>> /\ txn' = txn + 1 /\ txn < MaxTxn
      BY <1>5 DEF Begin, srvVars
    <2>3. \A m \in 1..txn : kind'[m] = kind[m] /\ size'[m] = size[m]
      <3>1. kind \in [Txns -> Kinds] /\ size \in [Txns -> Sizes \cup {0}]
        BY DEF LinkInv, LinkTypeOK
      <3>2. kind' = [kind EXCEPT ![txn + 1] = c] /\ size' = [size EXCEPT ![txn + 1] = len]
        BY <1>5 DEF Begin
      <3>3. \A m \in 1..txn : m \in Txns /\ m # txn + 1
        BY <1>n, <2>2, MaxTxnAssumption DEF Txns
      <3> QED BY <3>1, <3>2, <3>3
    <2>4. PICK q : q = Over(n)
      OBVIOUS
    <2>5. Over(n)' = q /\ q \in Int /\ q <= n
      BY <1>n, <2>2, <2>4 DEF Over
    <2>6. Reads(q)' = Reads(q)
      BY <1>n, <2>3, <2>5 DEF Reads
    <2>7. txn <= txn' /\ n \in 0..txn' /\ ~misread' /\ received' = received
      BY <1>m, <1>n, <2>2
    <2>8. PICK g \in [1..Len(received') -> 1..txn'] : Returned(q, g)'
      BY <1>2, <1>n, <2>3, <2>4, <2>6, <2>7, ReturnedKept
    <2>9. Returned(Over(n), g)'
      BY <2>5, <2>8 DEF Returned, Reads
    <2> QED BY <2>1, <2>7, <2>8, <2>9
  <1>6. ASSUME ReadEnd PROVE Goal
    <2>1. spc = "idle" /\ spc' = "closed" /\ UNCHANGED <<received, txn, kind, size, misread>>
      BY <1>6 DEF ReadEnd, Expect, tabVars
    <2>2. Synced(n)' /\ Over(n)' = Over(n)
      BY <2>1 DEF Synced, Over
    <2> QED BY <1>w, <2>1, <2>2
  <1>7. ASSUME AckCode \/ WriteLength PROVE Goal
    <2>1. /\ spc \in {"codeAck", "writeLength"} /\ spc' \in {"length", "writeAck1"}
          /\ UNCHANGED <<received, txn, kind, size, misread>>
      BY <1>7 DEF AckCode, WriteLength, Expect, Fails, tabVars
    <2>2. Over(n)' = Over(n)
      BY <2>1 DEF Over
    <2>3. Synced(n)'
      BY <1>1, <1>7, OpenedSynced
    <2> QED BY <1>w, <2>1, <2>2, <2>3
  <1>8. ASSUME NEW k \in 1..(READSIZE + ACK_SIZE), Recv(k) PROVE Goal
    <2>1. UNCHANGED <<spc, received, txn, kind, size, misread>>
      BY <1>8 DEF Recv, tabVars
    <2>2. Over(n)' = Over(n)
      BY <2>1 DEF Over
    <2>3. k \in Nat \ {0}
      BY WireAssumption
    <2>4. Synced(n)'
      BY <1>1, <1>8, <2>3, RecvSynced
    <2> QED BY <1>w, <2>1, <2>2, <2>4
  <1>9. ASSUME NEW len \in Lengths, LengthRead(len) PROVE Goal
    <2>1. /\ spc = "length" /\ spc' = "payload"
          /\ UNCHANGED <<received, txn, kind, size, misread>>
      BY <1>9 DEF LengthRead, Expect, Fails, tabVars
    <2>2. Over(n)' = Over(n)
      BY <2>1 DEF Over
    <2>3. Synced(n)'
      BY <1>1, <1>9, LengthSynced
    <2> QED BY <1>w, <2>1, <2>2, <2>3
  <1>10. ASSUME AckRead PROVE Goal
    <2>1. Synced(n)' /\ kind[n] # "read" /\ n > 0
      BY <1>1, <1>10, AckSynced
    <2>2. /\ spc \in {"writeAck1", "writeAck2"} /\ spc' \in {"writeAck2", "idle"}
          /\ UNCHANGED <<received, txn, kind, size, misread>>
      BY <1>10 DEF AckRead, Ended, Expect, Fails, tabVars
    <2>3. Over(n)' = Over(n) \/ (Over(n) = n - 1 /\ Over(n)' = n)
      BY <2>2 DEF Over
    <2> QED BY <1>w, <2>1, <2>2, <2>3
  <1>11. ASSUME Receive PROVE Goal
    <2>1. UNCHANGED <<spc, received, txn, kind, size, misread>>
      BY <1>11 DEF Receive, srvVars
    <2>2. Over(n)' = Over(n)
      BY <2>1 DEF Over
    <2>3. Synced(n)'
      BY <1>1, <1>11, ReceiveSynced
    <2> QED BY <1>w, <2>1, <2>2, <2>3
  <1>12. ASSUME NEW how \in Faults, Leave(how) PROVE Goal
    <2>1. UNCHANGED <<spc, received, txn, kind, size, misread>>
      BY <1>12 DEF Leave, srvVars, tabVars
    <2>2. Over(n)' = Over(n)
      BY <2>1 DEF Over
    <2>3. Synced(n)'
      BY <1>1, <1>12, LeaveSynced
    <2> QED BY <1>w, <2>1, <2>2, <2>3
  <1>13. ASSUME UNCHANGED vars PROVE Goal
    <2>1. UNCHANGED <<spc, need, got, received, tpc, txn, kind, size, up, down, link, misread>>
      BY <1>13 DEF vars, srvVars, tabVars
    <2>2. Over(n)' = Over(n)
      BY <2>1 DEF Over
    <2>3. Synced(n)'
      BY <1>1, <2>1 DEF Synced, Stream, Place, Asked, Answered, Ahead
    <2> QED BY <1>w, <2>1, <2>2, <2>3
  <1>14. ~RecvFails
    BY DEF RecvFails, Fails
  <1> HIDE DEF Goal
  <1>15. CASE Server
    BY <1>3, <1>4, <1>6, <1>7, <1>8, <1>9, <1>10, <1>14, <1>15 DEF Server, Goal
  <1>16. CASE Tablet
    BY <1>5, <1>11, <1>12, <1>16 DEF Tablet, Goal
  <1>17. Goal
    BY <1>13, <1>15, <1>16 DEF Next
  <1> QED BY <1>17 DEF Goal

\* Both invariants hold whatever the split of the stream.
LEMMA LinkInvariant == Spec => [](LinkInv /\ SyncInv)
  <1>1. LinkInv /\ SyncInv /\ [Next]_vars => (LinkInv /\ SyncInv)'
    BY NextLinkInv, NextSync
  <1> QED BY InitLink, InitSync, <1>1, PTL DEF Spec

\* As long as no transaction has failed readTransactionData takes nothing but the first
\* byte of a transaction for a code: whatever the sizes of lengths, payloads and ACKs,
\* however many transactions there are and however recv splits the stream, internalRead
\* and internalWrite consume exactly the bytes of their transaction.
THEOREM StaysAligned == Spec => []AlignedUntilFailure
  <1>1. SyncInv => AlignedUntilFailure
    BY DEF SyncInv, AlignedUntilFailure
  <1> QED BY LinkInvariant, <1>1, PTL

\* As long as no transaction has failed internalRead returns the payloads of the read
\* transactions, whole, in order and once each, and all of them once both sides rest.
THEOREM PayloadsReturned == Spec => []PayloadsInOrder
  <1>1. ASSUME LinkInv, SyncInv PROVE PayloadsInOrder
    <2> SUFFICES ASSUME ~failed
                 PROVE  \E last \in 0..txn, of \in [1..Len(received) -> 1..txn] :
                           /\ {of[j] : j \in 1..Len(received)} = Reads(last)
                           /\ \A j, k \in 1..Len(received) : j < k => of[j] < of[k]
                           /\ \A j \in 1..Len(received) : received[j] = Payload(of[j])
                           /\ (spc = "idle" /\ tpc = "idle" /\ up = <<>> /\ link # "rst")
                                 => Reads(last) = Reads(txn)
      BY DEF PayloadsInOrder
    <2>1. PICK n \in 0..txn :
             Synced(n) /\ \E of \in [1..Len(received) -> 1..txn] : Returned(Over(n), of)
      BY <1>1 DEF SyncInv
    <2>2. PICK of \in [1..Len(received) -> 1..txn] : Returned(Over(n), of)
      BY <2>1
    <2>n. txn \in Nat /\ n \in Nat
      BY <1>1, Naturals
    <2>3. Over(n) \in 0..txn
      <3>1. spc \notin {"idle", "closed"} => n > 0
        BY <2>1 DEF Synced
      <3> QED BY <2>n, <3>1 DEF Over
    <2>4. ASSUME spc = "idle", tpc = "idle", up = <<>>, link # "rst" PROVE Over(n) = txn
      <3>1. Answered(n)
        BY <2>1, <2>4 DEF Synced, Place, Asked
      <3>2. Len(got) = 0 /\ Len(up) = 0 /\ need = 0
        BY <1>1, <2>4, Naturals DEF Reading
      <3> QED BY <2>4, <2>n, <3>1, <3>2 DEF Answered, Over
    <2>5. (spc = "idle" /\ tpc = "idle" /\ up = <<>> /\ link # "rst") => Reads(Over(n)) = Reads(txn)
      BY <2>4
    <2> QED BY <2>2, <2>3, <2>5 DEF Returned
  <1> QED BY LinkInvariant, <1>1, PTL
=============================================================================
