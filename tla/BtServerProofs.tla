--------------------------- MODULE BtServerProofs ---------------------------
(***************************************************************************)
(* Theorems about BtServer, for any number of tablets and requests.        *)
(***************************************************************************)
EXTENDS BtServer, SequenceTheorems, TLAPS

\* A code waiting to be read is one the tablet sent and the server has not
\* counted yet; so the number of a new task is at most MaxReq.
Counted ==
    \A s \in Sockets :
        /\ nread[s] <= sent[s]
        /\ code[s] # NoByte => nread[s] < sent[s]

TypeInv == TypeOK /\ Counted

\* What vector::erase leaves: the elements in front of slot k stay where they
\* are and the later ones come one slot forward.
LEMMA EraseLemma ==
    ASSUME NEW S, NEW q \in Seq(S), NEW k \in 1..Len(q)
    PROVE  /\ Erase(q, k) \in Seq(S)
           /\ Len(Erase(q, k)) = Len(q) - 1
           /\ \A j \in 1..(k - 1) : Erase(q, k)[j] = q[j]
           /\ \A j \in k..(Len(q) - 1) : Erase(q, k)[j] = q[j + 1]
  <1> DEFINE l == SubSeq(q, 1, k - 1)
             r == SubSeq(q, k + 1, Len(q))
  <1>0. Len(q) \in Nat /\ k \in Nat
    BY LenProperties
  <1>1. /\ l \in Seq(S)
        /\ Len(l) = k - 1
        /\ \A j \in 1..(k - 1) : l[j] = q[j]
    <2>1. 1 \in 1..(Len(q) + 1) /\ k - 1 \in 0..Len(q)
      BY <1>0
    <2>2. \A j \in 1..(k - 1) : j \in 1..Len(q)
      BY <1>0
    <2>3. \A j \in 1..(k - 1) : q[j] \in S
      BY <2>2, ElementOfSeq
    <2> QED BY <1>0, <2>1, <2>2, <2>3, SubSeqProperties
  <1>2. /\ r \in Seq(S)
        /\ Len(r) = Len(q) - k
        /\ \A j \in 1..(Len(q) - k) : r[j] = q[k + j]
    BY <1>0, SubSeqProperties
  <1>3. Erase(q, k) = l \o r
    BY DEF Erase
  <1> HIDE DEF l, r
  <1>4. /\ l \o r \in Seq(S)
        /\ Len(l \o r) = Len(l) + Len(r)
        /\ \A j \in 1..(Len(l) + Len(r)) :
              (l \o r)[j] = IF j <= Len(l) THEN l[j] ELSE r[j - Len(l)]
    BY <1>1, <1>2, ConcatProperties
  <1>5. \A j \in k..(Len(q) - 1) : (l \o r)[j] = q[j + 1]
    <2> TAKE j \in k..(Len(q) - 1)
    <2>1. j \in 1..(Len(l) + Len(r)) /\ ~(j <= Len(l)) /\ j - Len(l) \in 1..(Len(q) - k)
      BY <1>0, <1>1, <1>2
    <2>2. (l \o r)[j] = r[j - Len(l)]
      BY <1>4, <2>1
    <2>3. r[j - Len(l)] = q[k + (j - Len(l))]
      BY <1>2, <2>1
    <2>4. k + (j - Len(l)) = j + 1
      BY <1>0, <1>1
    <2> QED BY <2>2, <2>3, <2>4
  <1>6. \A j \in 1..(k - 1) : (l \o r)[j] = q[j]
    <2> TAKE j \in 1..(k - 1)
    <2>1. j \in 1..(Len(l) + Len(r)) /\ j <= Len(l)
      BY <1>0, <1>1, <1>2
    <2> QED BY <1>1, <1>4, <2>1
  <1> QED BY <1>0, <1>1, <1>2, <1>3, <1>4, <1>5, <1>6

-----------------------------------------------------------------------------
(* Types.                                                                  *)

\* The calls of sockSuicide that end a connection whose tablet closes it or fails.
KillPath == <<"initReadyTransaction", "killSocket">>

\* They are a list of callers.
LEMMA KillPathType == KillPath \in Seq(Closers)
  BY DEF KillPath, Closers

\* A part of the state that a step leaves alone keeps its type.
LEMMA Kept ==
    /\ RegType /\ UNCHANGED <<regVars, running>> => RegType'
    /\ ObjType /\ UNCHANGED objVars => ObjType'
    /\ NetType /\ UNCHANGED <<sock, netVars, nread>> => NetType'
    /\ TaskType /\ UNCHANGED taskVars => TaskType'
    /\ Counted /\ UNCHANGED <<netVars, nread>> => Counted'
  <1>1. RegType /\ UNCHANGED <<regVars, running>> => RegType'
    BY DEF RegType, regVars, startVars
  <1>2. ObjType /\ UNCHANGED objVars => ObjType'
    BY DEF ObjType, objVars, transVars
  <1>3. NetType /\ UNCHANGED <<sock, netVars, nread>> => NetType'
    BY DEF NetType, netVars
  <1>4. TaskType /\ UNCHANGED taskVars => TaskType'
    BY DEF TaskType, taskVars, outVars
  <1>5. Counted /\ UNCHANGED <<netVars, nread>> => Counted'
    BY DEF Counted, netVars
  <1> QED BY <1>1, <1>2, <1>3, <1>4, <1>5

\* An address leads to an object or to none.
LEMMA AtType ==
    ASSUME RegType, NEW a
    PROVE  At(a) \in Sockets \cup {None}
  BY ElementOfSeq DEF RegType, At, Stored

\* The address of a slot is an address.
LEMMA SlotType ==
    ASSUME MainType, RegType
    PROVE  Slot(i) \in Addr
  BY DEF MainType, RegType, Slot, Addr

\* Having nothing to join is no task.
LEMMA NoTaskLemma == NoTask \notin Tasks
  BY NoneAssumption DEF NoTask, Tasks

\* A future that has a shared state holds a task.
LEMMA FutType ==
    ASSUME ObjType, NEW s \in Sockets, data[s] # 0
    PROVE  Fut(s) \in Tasks
  BY DEF ObjType, Fut, Tasks

\* What the destructor of a future waits for is a task or nothing.
LEMMA UnfinishedType ==
    ASSUME ObjType, NEW s \in Sockets
    PROVE  Unfinished(s) \in Tasks \cup {NoTask}
  BY FutType DEF Unfinished

\* A worker uses the socket of some tablet object.
LEMMA SourceType ==
    ASSUME RegType, NEW t \in Tasks
    PROVE  Source(t) \in Sockets
  BY AtType DEF Source, Tasks

\* A worker's write to success leaves a flag for every object.
LEMMA SuccessSetType ==
    ASSUME ObjType, NEW t \in Tasks, NEW ok \in BOOLEAN
    PROVE  SuccessSet(t, ok) \in [Sockets -> BOOLEAN]
  BY DEF ObjType, SuccessSet

\* The end of internalRead or internalWrite keeps the types it touches.
LEMMA TaskEndsType ==
    ASSUME TypeOK, NEW t \in Tasks, NEW ok \in BOOLEAN, TaskEnds(t, ok)
    PROVE  /\ tstate' \in [Tasks -> {"none", "active", "deferred", "done"}]
           /\ tok' \in [Tasks -> BOOLEAN]
           /\ tfrom' \in [Tasks -> Sockets \cup {None}]
           /\ success' \in [Sockets -> BOOLEAN]
  BY SourceType, SuccessSetType DEF TypeOK, TaskType, TaskEnds

\* handleTransResult keeps the types it touches.
LEMMA HandleType ==
    ASSUME TypeOK, NEW s \in Sockets, data[s] # 0, NEW ok \in BOOLEAN,
           HandleTransResult(s, ok)
    PROVE  /\ tstate' \in [Tasks -> {"none", "active", "deferred", "done"}]
           /\ tok' \in [Tasks -> BOOLEAN]
           /\ tfrom' \in [Tasks -> Sockets \cup {None}]
           /\ success' \in [Sockets -> BOOLEAN]
           /\ data' \in [Sockets -> 0..MaxReq]
           /\ rows' \in [Tasks -> Nat]
           /\ tabScoutingName' \in [Sockets -> Sockets \cup {None}]
  <1>1. Fut(s) \in Tasks
    BY FutType DEF TypeOK
  <1>2. /\ tstate' \in [Tasks -> {"none", "active", "deferred", "done"}]
        /\ tok' \in [Tasks -> BOOLEAN]
        /\ tfrom' \in [Tasks -> Sockets \cup {None}]
        /\ success' \in [Sockets -> BOOLEAN]
    BY <1>1, TaskEndsType DEF HandleTransResult, TypeOK, TaskType, ObjType, outVars
  <1>3. data' \in [Sockets -> 0..MaxReq]
    BY MaxReqAssumption DEF HandleTransResult, TypeOK, ObjType
  <1>4. rows' \in [Tasks -> Nat]
    BY <1>1 DEF HandleTransResult, TypeOK, TaskType
  <1>5. tabScoutingName' \in [Sockets -> Sockets \cup {None}]
    BY <1>1, <1>2 DEF HandleTransResult, TypeOK, ObjType
  <1> QED BY <1>2, <1>3, <1>4, <1>5

\* The server starts in a state of the right types.
LEMMA InitType == Init => TypeInv
  <1> SUFFICES ASSUME Init PROVE TypeInv
    OBVIOUS
  <1> USE MaxReqAssumption DEF Init
  <1>1. MainType
    <2>1. pc = "start" /\ i = 1 /\ joining = NoTask /\ disturbed = FALSE
      OBVIOUS
    <2> HIDE DEF Init
    <2>2. disturbed \in BOOLEAN
      BY <2>1, Zenon
    <2>3. joining \in Tasks \cup {NoTask}
      BY <2>1, Zenon
    <2>4. i \in Nat \ {0}
      BY <2>1
    <2>5. pc \in {"start", "accept", "ready", "check", "running", "scene", "clear", "exitClear",
                  "closed", "terminated", "undefined"}
      BY <2>1
    <2> QED BY <2>2, <2>3, <2>4, <2>5 DEF MainType
  <1>2. RegType
    BY EmptySeq DEF RegType
  <1>3. ObjType
    BY DEF ObjType, Nowhere, Addr, TRANS_CLOSE_SOCKET
  <1>4. NetType
    BY DEF NetType, NoByte
  <1>5. TaskType
    BY DEF TaskType, Nowhere, Addr, TRANS_CLOSE_SOCKET
  <1>6. Counted
    BY DEF Counted, NoByte
  <1>7. ClosesType
    BY EmptySeq DEF ClosesType
  <1> QED BY <1>1, <1>2, <1>3, <1>4, <1>5, <1>6, <1>7 DEF TypeInv, TypeOK

\* killSocket and killAllSockets add themselves to the list of closes, and no other
\* step changes it.
LEMMA NextCloses == ClosesType /\ [Next]_vars => ClosesType'
  <1> SUFFICES ASSUME ClosesType, [Next]_vars PROVE ClosesType'
    OBVIOUS
  <1>0. closes \in [Sockets -> Seq(Closers)]
    BY DEF ClosesType
  <1>1. ASSUME NEW s \in Sockets, NEW c \in CloseTypes, ReadyKill(s, c) PROVE ClosesType'
    <2>1. closes' = [closes EXCEPT ![s] = @ \o KillPath]
      BY <1>1 DEF ReadyKill, KillSocket, KillPath
    <2>2. closes[s] \o KillPath \in Seq(Closers)
      BY <1>0, KillPathType, ConcatProperties
    <2> QED BY <1>0, <2>1, <2>2 DEF ClosesType
  <1>2. ASSUME NEW next, CloseAll(next) PROVE ClosesType'
    <2>1. \A s \in Sockets : Append(closes[s], "killAllSockets") \in Seq(Closers)
      BY <1>0, AppendProperties DEF Closers
    <2> QED BY <1>0, <1>2, <2>1 DEF CloseAll, ClosesType
  <1>3. CASE UNCHANGED closes
    BY <1>3 DEF ClosesType
  <1>4. CASE UNCHANGED vars \/ Workers \/ Tablets \/ Halted
    <2>1. UNCHANGED closes
      BY <1>4 DEF vars, Workers, Tablets, Halted, WorkerBegins, WorkerEnds, Connect, Send,
                  PeerGone
    <2> QED BY <1>3, <2>1
  <1>5. CASE MainStep
    <2>1. CASE AcceptNone \/ ReadyDone \/ Joined \/ RunningDone \/ RunningDead \/ Clear
               \/ NextFrame
      BY <1>3, <2>1
      DEF AcceptNone, ReadyDone, Joined, RunningDone, RunningDead, Clear, NextFrame
    <2>2. CASE ResetTabs \/ CloseWindow
      BY <1>2, <2>2 DEF ResetTabs, CloseWindow
    <2>3. ASSUME NEW failed, NEW seen, Start(failed, seen) PROVE UNCHANGED closes
      BY <2>3 DEF Start
    <2>4. ASSUME NEW s \in Sockets,
                 AcceptConn(s) \/ ReadySkip(s) \/ CheckEmpty(s) \/ CheckRunning(s)
                    \/ RunningWait(s) \/ RunningEmpty(s)
          PROVE UNCHANGED closes
      BY <2>4 DEF AcceptConn, ReadySkip, CheckEmpty, CheckRunning, RunningWait, RunningEmpty
    <2>5. ASSUME NEW s \in Sockets, NEW mode, ReadyStart(s, mode) PROVE UNCHANGED closes
      BY <2>5 DEF ReadyStart
    <2>6. ASSUME NEW s \in Sockets, NEW ok, CheckReady(s, ok) \/ RunningReady(s, ok)
          PROVE UNCHANGED closes
      BY <2>6 DEF CheckReady, RunningReady
    <2> QED BY <1>1, <1>3, <1>5, <2>1, <2>2, <2>3, <2>4, <2>5, <2>6 DEF MainStep
  <1> QED BY <1>4, <1>5 DEF Next


\* Every step, of the main thread, a worker or a tablet, keeps the types.
LEMMA NextType == TypeInv /\ [Next]_vars => TypeInv'
  <1> SUFFICES ASSUME TypeInv, [Next]_vars PROVE TypeInv'
    OBVIOUS
  <1> USE MaxReqAssumption
  <1>0. /\ TypeOK /\ MainType /\ RegType /\ ObjType /\ NetType /\ TaskType
        /\ Counted
    BY DEF TypeInv, TypeOK
  <1>00. ClosesType'
    BY NextCloses DEF TypeInv, TypeOK
  <1>1. CASE UNCHANGED vars
    <2>1. UNCHANGED <<regVars, running, objVars, sock, netVars, nread, closes, taskVars>>
      BY <1>1 DEF vars, mainVars
    <2>2. MainType'
      BY <1>0, <1>1 DEF vars, MainType, mainVars
    <2> QED BY <1>0, <1>00, <2>1, <2>2, Kept DEF TypeInv, TypeOK
  <1>2. ASSUME NEW s \in Sockets, Connect(s) PROVE TypeInv'
    <2>1. UNCHANGED <<regVars, running, objVars, taskVars>>
      BY <1>2 DEF Connect, mainVars
    <2>2. MainType'
      BY <1>0, <1>2 DEF Connect, MainType, mainVars
    <2>3. NetType'
      BY <1>0, <1>2 DEF Connect, NetType, netVars
    <2>4. Counted'
      BY <1>0, <1>2 DEF Connect, Counted, netVars
    <2> QED BY <1>0, <1>00, <2>1, <2>2, <2>3, <2>4, Kept DEF TypeInv, TypeOK
  <1>3. ASSUME NEW s \in Sockets, NEW c \in Codes, Send(s, c) PROVE TypeInv'
    <2>1. c \in -128..127
      BY CodesAssumption
    <2>2. UNCHANGED <<regVars, running, objVars, taskVars>>
      BY <1>3 DEF Send, mainVars
    <2>3. MainType'
      BY <1>0, <1>3 DEF Send, MainType, mainVars
    <2>4. NetType'
      BY <1>0, <1>3, <2>1 DEF Send, NetType, netVars
    <2>5. Counted'
      BY <1>0, <1>3, <2>1 DEF Send, Counted, netVars, NetType, NoByte
    <2> QED BY <1>0, <1>00, <2>2, <2>3, <2>4, <2>5, Kept DEF TypeInv, TypeOK
  <1>4. ASSUME NEW s \in Sockets, NEW how \in Faults, PeerGone(s, how) PROVE TypeInv'
    <2>1. how \in {"fin", "rst", "stall"}
      BY FaultsAssumption
    <2>2. UNCHANGED <<regVars, running, objVars, taskVars>>
      BY <1>4 DEF PeerGone, mainVars
    <2>3. MainType'
      BY <1>0, <1>4 DEF PeerGone, MainType, mainVars
    <2>4. NetType'
      BY <1>0, <1>4, <2>1 DEF PeerGone, NetType, netVars, NoByte
    <2>5. Counted'
      BY <1>0, <1>4, <2>1 DEF PeerGone, Counted, netVars, NetType, NoByte
    <2> QED BY <1>0, <1>00, <2>2, <2>3, <2>4, <2>5, Kept DEF TypeInv, TypeOK
  <1>5. ASSUME NEW s \in Sockets, AcceptConn(s) PROVE TypeInv'
    <2>1. UNCHANGED <<objVars, taskVars, netVars, nread>>
      BY <1>5 DEF AcceptConn, mainVars
    <2>2. MainType'
      BY <1>0, <1>5 DEF AcceptConn, MainType, mainVars
    <2>3. RegType'
      BY <1>0, <1>5, AppendProperties DEF AcceptConn, RegType, regVars, startVars
    <2>4. NetType'
      BY <1>0, <1>5 DEF AcceptConn, NetType, netVars
    <2> QED BY <1>0, <1>00, <2>1, <2>2, <2>3, <2>4, Kept DEF TypeInv, TypeOK
  <1>6. CASE AcceptNone
    <2>1. UNCHANGED <<regVars, running, objVars, sock, netVars, nread, closes, taskVars>>
      BY <1>6 DEF AcceptNone, mainVars
    <2>2. MainType'
      BY <1>0, <1>6 DEF AcceptNone, MainType, mainVars
    <2> QED BY <1>0, <1>00, <2>1, <2>2, Kept DEF TypeInv, TypeOK
  <1>7. CASE ReadyDone
    <2>1. UNCHANGED <<regVars, running, objVars, sock, netVars, nread, closes, taskVars>>
      BY <1>7 DEF ReadyDone, mainVars
    <2>2. MainType'
      BY <1>0, <1>7 DEF ReadyDone, MainType, mainVars
    <2> QED BY <1>0, <1>00, <2>1, <2>2, Kept DEF TypeInv, TypeOK
  <1>8. ASSUME NEW s \in Sockets, ReadySkip(s) PROVE TypeInv'
    <2>1. UNCHANGED <<regVars, running, objVars, sock, netVars, nread, closes, taskVars>>
      BY <1>8 DEF ReadySkip, mainVars
    <2>2. MainType'
      BY <1>0, <1>8 DEF ReadySkip, MainType, mainVars
    <2> QED BY <1>0, <1>00, <2>1, <2>2, Kept DEF TypeInv, TypeOK
  <1>9. ASSUME NEW s \in Sockets, NEW c \in CloseTypes, ReadyKill(s, c) PROVE TypeInv'
    <2>1. c \in -128..127 /\ c # NoByte
      BY DEF CloseTypes, TRANS_SOCKET_ERROR, TRANS_CLOSE_SOCKET, NoByte
    <2>2. tabs' \in Seq(Sockets)
      BY <1>0, <1>9, EraseLemma DEF ReadyKill, KillSocket, AtReady, RegType
    <2>3. nread' \in [Sockets -> 0..MaxReq]
      BY <1>0, <1>9, <2>1 DEF ReadyKill, ReadTransactionData, NetType, Counted
    <2>4. UNCHANGED <<taskVars>>
      BY <1>9 DEF ReadyKill, mainVars
    <2>5. MainType'
      BY <1>0, <1>9, UnfinishedType DEF ReadyKill, KillSocket, MainType, mainVars
    <2>6. RegType'
      BY <1>0, <1>9, <2>2 DEF ReadyKill, KillSocket, RegType, regVars, startVars
    <2>7. ObjType'
      <3>1. /\ parent' = [parent EXCEPT ![s] = Slot(i)]
            /\ transactionType' = [transactionType EXCEPT ![s] = c]
        BY <1>9 DEF ReadyKill, ReadTransactionData
      <3>2. /\ success' = [success EXCEPT ![s] = FALSE]
            /\ batmanTrans' = [batmanTrans EXCEPT ![s] = TRUE]
            /\ UNCHANGED <<transactionState, tabScoutingName>>
        BY <1>9 DEF ReadyKill
      <3>3. data' = [data EXCEPT ![s] = 0]
        BY <1>9 DEF ReadyKill, KillSocket
      <3> QED BY <1>0, SlotType, <2>1, <3>1, <3>2, <3>3 DEF ObjType
    <2>8. NetType'
      <3>1. /\ sock' \in [Sockets -> {"none", "queued", "open", "closed"}]
            /\ code' \in [Sockets -> -128..128]
        <4>1. sock' = [sock EXCEPT ![s] = "closed"]
          BY <1>9 DEF ReadyKill, KillSocket
        <4>2. code' = [code EXCEPT ![s] = NoByte]
          BY <1>9 DEF ReadyKill, ReadTransactionData
        <4> QED BY <1>0, <4>1, <4>2 DEF NetType, NoByte
      <3>2. UNCHANGED <<link, sent>>
        BY <1>9 DEF ReadyKill, ReadTransactionData, KillSocket
      <3> QED BY <1>0, <2>3, <3>1, <3>2 DEF NetType
    <2>9. Counted'
      BY <1>0, <1>9, <2>1
      DEF ReadyKill, ReadTransactionData, KillSocket, Counted, netVars, NetType, NoByte
    <2> QED BY <1>0, <1>00, <2>4, <2>5, <2>6, <2>7, <2>8, <2>9, Kept DEF TypeInv, TypeOK
  <1>10. ASSUME NEW s \in Sockets, NEW mode \in LaunchModes, ReadyStart(s, mode)
         PROVE TypeInv'
    <2>1. code[s] \in -128..127
      BY <1>0, <1>10 DEF ReadyStart, ReadTransactionData, NetType, NoByte
    <2>2. nread[s] + 1 \in 1..MaxReq /\ nread[s] < sent[s]
      BY <1>0, <1>10 DEF ReadyStart, ReadTransactionData, NetType, Counted
    <2>3. <<s, nread[s] + 1>> \in Tasks
      BY <2>2 DEF Tasks
    <2>4. UNCHANGED <<regVars, running>>
      BY <1>10 DEF ReadyStart, mainVars
    <2>5. MainType'
      BY <1>0, <1>10, UnfinishedType DEF ReadyStart, MainType, mainVars
    <2>6. ObjType'
      <3>1. /\ parent' \in [Sockets -> Addr]
            /\ transactionType' \in [Sockets -> -128..127]
            /\ data' \in [Sockets -> 0..MaxReq]
        BY <1>0, <1>10, SlotType, <2>1, <2>2 DEF ReadyStart, ReadTransactionData, ObjType
      <3>2. success' \in [Sockets -> BOOLEAN] /\ batmanTrans' \in [Sockets -> BOOLEAN]
        BY <1>0, <1>10 DEF ReadyStart, ObjType
      <3>3. UNCHANGED <<transactionState, tabScoutingName>>
        BY <1>10 DEF ReadyStart
      <3> QED BY <1>0, <3>1, <3>2, <3>3 DEF ObjType
    <2>7. NetType'
      BY <1>0, <1>10, <2>2 DEF ReadyStart, ReadTransactionData, NetType, netVars, NoByte
    <2>8. TaskType'
      <3>1. tstate' \in [Tasks -> {"none", "active", "deferred", "done"}]
        BY <1>0, <1>10, <2>3 DEF ReadyStart, TaskType
      <3>2. tcode' \in [Tasks -> -128..127]
        BY <1>0, <1>10, <2>1, <2>3 DEF ReadyStart, TaskType
      <3>3. tself' \in [Tasks -> Addr]
        BY <1>0, <1>10, SlotType, <2>3 DEF ReadyStart, TaskType
      <3>4. UNCHANGED <<tok, tfrom, rows>>
        BY <1>10 DEF ReadyStart
      <3> QED BY <1>0, <3>1, <3>2, <3>3, <3>4 DEF TaskType
    <2>9. Counted'
      BY <1>0, <1>10, <2>2
      DEF ReadyStart, ReadTransactionData, Counted, netVars, NetType, NoByte
    <2> QED BY <1>0, <1>00, <2>4, <2>5, <2>6, <2>7, <2>8, <2>9, Kept DEF TypeInv, TypeOK
  <1>11. CASE Joined
    <2>1. UNCHANGED <<regVars, running, objVars, sock, netVars, nread, closes, taskVars>>
      BY <1>11 DEF Joined, mainVars
    <2>2. MainType'
      BY <1>0, <1>11 DEF Joined, MainType, mainVars
    <2> QED BY <1>0, <1>00, <2>1, <2>2, Kept DEF TypeInv, TypeOK
  <1>12. ASSUME NEW t \in Tasks, WorkerBegins(t) PROVE TypeInv'
    <2>1. UNCHANGED <<regVars, running, sock, netVars, nread, closes, taskVars>>
      BY <1>12 DEF WorkerBegins, mainVars
    <2>2. MainType'
      BY <1>0, <1>12 DEF WorkerBegins, MainType, mainVars
    <2>3. ObjType'
      BY <1>0, <1>12, SuccessSetType DEF WorkerBegins, ObjType, objVars, transVars
    <2> QED BY <1>0, <1>00, <2>1, <2>2, <2>3, Kept DEF TypeInv, TypeOK
  <1>13. ASSUME NEW t \in Tasks, NEW ok \in BOOLEAN, WorkerEnds(t, ok) PROVE TypeInv'
    <2>1. /\ tstate' \in [Tasks -> {"none", "active", "deferred", "done"}]
          /\ tok' \in [Tasks -> BOOLEAN]
          /\ tfrom' \in [Tasks -> Sockets \cup {None}]
          /\ success' \in [Sockets -> BOOLEAN]
      BY <1>0, <1>13, TaskEndsType DEF WorkerEnds, TypeInv
    <2>2. UNCHANGED <<regVars, running, sock, netVars, nread, closes>>
      BY <1>13 DEF WorkerEnds, mainVars
    <2>3. MainType'
      BY <1>0, <1>13 DEF WorkerEnds, MainType, mainVars
    <2>4. ObjType'
      BY <1>0, <1>13, <2>1 DEF WorkerEnds, ObjType, objVars, transVars
    <2>5. TaskType'
      BY <1>0, <1>13, <2>1 DEF WorkerEnds, TaskType, taskVars, outVars
    <2> QED BY <1>0, <1>00, <2>2, <2>3, <2>4, <2>5, Kept DEF TypeInv, TypeOK
  <1>14. ASSUME NEW s \in Sockets, CheckEmpty(s) PROVE TypeInv'
    <2>1. UNCHANGED <<regVars, running, objVars, sock, netVars, nread, closes, taskVars>>
      BY <1>14 DEF CheckEmpty, mainVars
    <2>2. MainType'
      BY <1>0, <1>14 DEF CheckEmpty, MainType, mainVars
    <2> QED BY <1>0, <1>00, <2>1, <2>2, Kept DEF TypeInv, TypeOK
  <1>15. ASSUME NEW s \in Sockets, NEW ok \in BOOLEAN, CheckReady(s, ok) PROVE TypeInv'
    <2>1. /\ tstate' \in [Tasks -> {"none", "active", "deferred", "done"}]
          /\ tok' \in [Tasks -> BOOLEAN]
          /\ tfrom' \in [Tasks -> Sockets \cup {None}]
          /\ success' \in [Sockets -> BOOLEAN]
          /\ data' \in [Sockets -> 0..MaxReq]
          /\ rows' \in [Tasks -> Nat]
          /\ tabScoutingName' \in [Sockets -> Sockets \cup {None}]
      BY <1>0, <1>15, HandleType DEF CheckReady, TypeInv
    <2>2. UNCHANGED <<regVars, running, sock, netVars, nread, closes>>
      BY <1>15 DEF CheckReady, mainVars
    <2>3. MainType'
      BY <1>0, <1>15 DEF CheckReady, MainType, mainVars
    <2>4. ObjType'
      BY <1>0, <1>15, <2>1 DEF CheckReady, ObjType, objVars, transVars
    <2>5. TaskType'
      BY <1>0, <1>15, <2>1 DEF CheckReady, TaskType, taskVars, outVars
    <2> QED BY <1>0, <1>00, <2>2, <2>3, <2>4, <2>5, Kept DEF TypeInv, TypeOK
  <1>16. ASSUME NEW s \in Sockets, CheckRunning(s) PROVE TypeInv'
    <2>1. UNCHANGED <<sock, netVars, nread, closes, taskVars>>
      BY <1>16 DEF CheckRunning, mainVars
    <2>2. MainType'
      BY <1>0, <1>16 DEF CheckRunning, MainType, mainVars
    <2>3. RegType'
      BY <1>0, <1>16, SlotType, AppendProperties DEF CheckRunning, RegType, regVars, startVars, Tracked
    <2>4. ObjType'
      BY <1>0, <1>16 DEF CheckRunning, ObjType, objVars, transVars
    <2> QED BY <1>0, <1>00, <2>1, <2>2, <2>3, <2>4, Kept DEF TypeInv, TypeOK
  <1>17. CASE RunningDone
    <2>1. UNCHANGED <<regVars, running, objVars, sock, netVars, nread, closes, taskVars>>
      BY <1>17 DEF RunningDone, mainVars
    <2>2. MainType'
      BY <1>0, <1>17 DEF RunningDone, MainType, mainVars
    <2> QED BY <1>0, <1>00, <2>1, <2>2, Kept DEF TypeInv, TypeOK
  <1>18. ASSUME NEW s \in Sockets, RunningWait(s) PROVE TypeInv'
    <2>1. UNCHANGED <<regVars, running, objVars, sock, netVars, nread, closes, taskVars>>
      BY <1>18 DEF RunningWait, mainVars
    <2>2. MainType'
      BY <1>0, <1>18 DEF RunningWait, MainType, mainVars
    <2> QED BY <1>0, <1>00, <2>1, <2>2, Kept DEF TypeInv, TypeOK
  <1>19. ASSUME NEW s \in Sockets, RunningEmpty(s) PROVE TypeInv'
    <2>1. UNCHANGED <<regVars, running, objVars, sock, netVars, nread, closes, taskVars>>
      BY <1>19 DEF RunningEmpty, mainVars
    <2>2. MainType'
      BY <1>0, <1>19 DEF RunningEmpty, MainType, mainVars
    <2> QED BY <1>0, <1>00, <2>1, <2>2, Kept DEF TypeInv, TypeOK
  <1>20. ASSUME NEW s \in Sockets, NEW ok \in BOOLEAN, RunningReady(s, ok) PROVE TypeInv'
    <2>1. /\ tstate' \in [Tasks -> {"none", "active", "deferred", "done"}]
          /\ tok' \in [Tasks -> BOOLEAN]
          /\ tfrom' \in [Tasks -> Sockets \cup {None}]
          /\ success' \in [Sockets -> BOOLEAN]
          /\ data' \in [Sockets -> 0..MaxReq]
          /\ rows' \in [Tasks -> Nat]
          /\ tabScoutingName' \in [Sockets -> Sockets \cup {None}]
      BY <1>0, <1>20, HandleType DEF RunningReady, TypeInv
    <2>2. UNCHANGED <<sock, netVars, nread, closes>>
      BY <1>20 DEF RunningReady, mainVars
    <2>3. MainType'
      BY <1>0, <1>20 DEF RunningReady, MainType, mainVars
    <2>4. RegType'
      BY <1>0, <1>20, EraseLemma DEF RunningReady, RegType, regVars, startVars, AtRunning, Untracked
    <2>5. ObjType'
      BY <1>0, <1>20, <2>1 DEF RunningReady, ObjType, objVars, transVars, Released
    <2>6. TaskType'
      BY <1>0, <1>20, <2>1 DEF RunningReady, TaskType, taskVars, outVars
    <2> QED BY <1>0, <1>00, <2>2, <2>3, <2>4, <2>5, <2>6, Kept DEF TypeInv, TypeOK
  <1>21. CASE RunningDead
    <2>1. UNCHANGED <<regVars, running, objVars, sock, netVars, nread, closes, taskVars>>
      BY <1>21 DEF RunningDead, mainVars
    <2>2. MainType'
      BY <1>0, <1>21 DEF RunningDead, MainType, mainVars
    <2> QED BY <1>0, <1>00, <2>1, <2>2, Kept DEF TypeInv, TypeOK
  <1>22. CASE NextFrame
    <2>1. UNCHANGED <<regVars, running, objVars, sock, netVars, nread, closes, taskVars>>
      BY <1>22 DEF NextFrame, mainVars
    <2>2. MainType'
      BY <1>0, <1>22 DEF NextFrame, MainType, mainVars
    <2> QED BY <1>0, <1>00, <2>1, <2>2, Kept DEF TypeInv, TypeOK
  <1>23. ASSUME NEW next \in {"clear", "exitClear"}, CloseAll(next) PROVE TypeInv'
    <2>1. UNCHANGED <<regVars, running, objVars, taskVars>>
      BY <1>23 DEF CloseAll, mainVars
    <2>2. MainType'
      BY <1>0, <1>23 DEF CloseAll, MainType, mainVars
    <2>3. NetType'
      BY <1>0, <1>23 DEF CloseAll, NetType, netVars, NoByte
    <2>4. Counted'
      BY <1>0, <1>23 DEF CloseAll, Counted, netVars, NoByte
    <2> QED BY <1>0, <1>00, <2>1, <2>2, <2>3, <2>4, Kept DEF TypeInv, TypeOK
  <1>24. CASE Clear
    <2>1. UNCHANGED <<sock, netVars, nread, closes, taskVars>>
      BY <1>24 DEF Clear, mainVars
    <2>2. MainType'
      BY <1>0, <1>24 DEF Clear, MainType, mainVars
    <2>3. RegType'
      BY <1>0, <1>24, EmptySeq DEF Clear, RegType, regVars, startVars
    <2>4. ObjType'
      BY <1>0, <1>24 DEF Clear, ObjType, objVars, transVars
    <2> QED BY <1>0, <1>00, <2>1, <2>2, <2>3, <2>4, Kept DEF TypeInv, TypeOK
  <1>25. ASSUME NEW failed \in SUBSET StartFailures, NEW seen \in BOOLEAN,
                Start(failed, seen)
         PROVE TypeInv'
    <2>1. UNCHANGED <<running, objVars, sock, netVars, nread, closes, taskVars>>
      BY <1>25 DEF Start
    <2>2. MainType'
      BY <1>0, <1>25 DEF Start, MainType
    <2>3. RegType'
      <3>1. UNCHANGED <<tabs, buf, cap, running>>
        BY <1>25 DEF Start
      <3>2. reachable' \in BOOLEAN /\ blocking' \in BOOLEAN
        BY <1>25, Zenon DEF Start, Listening, Advertised
      <3> QED BY <1>0, <3>1, <3>2 DEF RegType
    <2> QED BY <1>0, <1>00, <2>1, <2>2, <2>3, Kept DEF TypeInv, TypeOK
  <1> QED
    BY <1>1, <1>2, <1>3, <1>4, <1>5, <1>6, <1>7, <1>8, <1>9, <1>10, <1>11, <1>12,
       <1>13, <1>14, <1>15, <1>16, <1>17, <1>18, <1>19, <1>20, <1>21, <1>22, <1>23, <1>24,
       <1>25
    DEF Next, MainStep, Workers, Tablets, Halted, ResetTabs, CloseWindow

\* Every variable keeps its type; in particular no object's task number, and no
\* count of codes read, exceeds the number of codes its tablet may send.
THEOREM TypeCorrect == Spec => []TypeOK
  <1>1. Spec => []TypeInv
    BY InitType, NextType, PTL DEF Spec
  <1>2. TypeInv => TypeOK
    BY DEF TypeInv
  <1> QED BY <1>1, <1>2, PTL

-----------------------------------------------------------------------------
(* The registry of connections.                                            *)

InClear == pc \in {"clear", "exitClear"}

\* NoSocketLeak is inductive once it is known that the sockets cleared away are
\* closed, and that a connection that was never made has no socket.
LeakInv ==
    /\ NoSocketLeak
    /\ InClear => \A s \in Registered : sock[s] = "closed"
    /\ \A s \in Sockets : link[s] = "down" => sock[s] = "none"

\* A step that leaves the registry and the sockets alone loses no socket.
LEMMA LeakKept ==
    ASSUME LeakInv, UNCHANGED <<tabs, sock>>, InClear' = InClear,
           \A s \in Sockets : link'[s] = "down" => link[s] = "down"
    PROVE  LeakInv'
  BY DEF LeakInv, NoSocketLeak, Registered, InClear

\* push_back registers one more tablet.
LEMMA RegisteredAppend ==
    ASSUME NEW s \in Sockets, tabs \in Seq(Sockets), tabs' = Append(tabs, s)
    PROVE  /\ Registered' = Registered \cup {s}
           /\ Len(tabs') = Len(tabs) + 1
           /\ \A k \in 1..Len(tabs) : tabs'[k] = tabs[k]
           /\ tabs'[Len(tabs) + 1] = s
  BY AppendProperties, LenProperties DEF Registered

\* erase unregisters the tablet in slot i, and that tablet only, when no tablet
\* is registered twice.
LEMMA RegisteredErase ==
    ASSUME NEW s, tabs \in Seq(Sockets), i \in 1..Len(tabs), s = tabs[i],
           \A k, l \in 1..Len(tabs) : tabs[k] = tabs[l] => k = l,
           tabs' = Erase(tabs, i)
    PROVE  /\ Registered' = Registered \ {s}
           /\ \A k, l \in 1..Len(tabs') : tabs'[k] = tabs'[l] => k = l
  <1>1. Len(tabs) \in Nat
    BY LenProperties
  <1>2. /\ Len(tabs') = Len(tabs) - 1
        /\ \A j \in 1..(i - 1) : tabs'[j] = tabs[j]
        /\ \A j \in i..(Len(tabs) - 1) : tabs'[j] = tabs[j + 1]
    BY EraseLemma
  <1> DEFINE old(j) == IF j < i THEN j ELSE j + 1
  <1>3. \A j \in 1..Len(tabs') :
           old(j) \in 1..Len(tabs) /\ old(j) # i /\ tabs'[j] = tabs[old(j)]
    BY <1>1, <1>2
  <1>4. \A j, l \in 1..Len(tabs') : old(j) = old(l) => j = l
    BY <1>1, <1>2
  <1>5. \A k \in 1..Len(tabs) : k # i => \E j \in 1..Len(tabs') : old(j) = k
    <2> SUFFICES ASSUME NEW k \in 1..Len(tabs), k # i
                 PROVE  \E j \in 1..Len(tabs') : old(j) = k
      OBVIOUS
    <2>1. CASE k < i
      <3>1. k \in 1..Len(tabs') /\ old(k) = k
        BY <1>1, <1>2, <2>1
      <3> QED BY <3>1
    <2>2. CASE k > i
      <3>1. k - 1 \in 1..Len(tabs') /\ old(k - 1) = k
        BY <1>1, <1>2, <2>2
      <3> QED BY <3>1
    <2> QED BY <1>1, <2>1, <2>2
  <1> HIDE DEF old
  <1>6. \A k, l \in 1..Len(tabs') : tabs'[k] = tabs'[l] => k = l
    BY <1>3, <1>4
  <1>7. ASSUME NEW x \in Registered' PROVE x \in Registered \ {s}
    <2>1. PICK j \in 1..Len(tabs') : x = tabs'[j]
      BY <1>7 DEF Registered
    <2> QED BY <1>3, <2>1 DEF Registered
  <1>8. ASSUME NEW x \in Registered \ {s} PROVE x \in Registered'
    <2>1. PICK k \in 1..Len(tabs) : x = tabs[k]
      BY <1>8 DEF Registered
    <2>2. k # i
      BY <1>8, <2>1
    <2>3. PICK j \in 1..Len(tabs') : old(j) = k
      BY <1>5, <2>2
    <2> QED BY <1>3, <2>1, <2>3 DEF Registered
  <1> QED BY <1>6, <1>7, <1>8

\* At the start no socket is open.
LEMMA InitLeak == Init => LeakInv
  BY EmptySeq DEF Init, LeakInv, NoSocketLeak, Registered, InClear

\* No step of acceptConn, killSocket, killAllSockets or any other loses a socket.
LEMMA NextLeak == TypeInv /\ LeakInv /\ [Next]_vars => LeakInv'
  <1> SUFFICES ASSUME TypeInv, LeakInv, [Next]_vars PROVE LeakInv'
    OBVIOUS
  <1>0. tabs \in Seq(Sockets) /\ sock \in [Sockets -> {"none", "queued", "open", "closed"}]
        /\ link \in [Sockets -> {"down", "up", "fin", "rst", "stall"}]
    BY DEF TypeInv, TypeOK, RegType, NetType
  <1>1. CASE UNCHANGED vars
    BY <1>1, LeakKept DEF InClear, vars, mainVars, regVars, netVars
  <1>2. ASSUME NEW s \in Sockets, Connect(s) PROVE LeakInv'
    <2>1. sock[s] = "none" /\ s \notin Registered
      BY <1>2 DEF Connect, LeakInv, NoSocketLeak, InClear
    <2>2. /\ Registered' = Registered /\ UNCHANGED <<tabs, pc>>
          /\ \A r \in Sockets \ {s} : sock'[r] = sock[r] /\ link'[r] = link[r]
          /\ sock'[s] = "queued" /\ link'[s] = "up"
      BY <1>0, <1>2 DEF Connect, Registered, regVars, mainVars
    <2> QED BY <1>0, <2>1, <2>2 DEF LeakInv, NoSocketLeak, InClear, Registered
  <1>3. ASSUME NEW s \in Sockets, NEW c \in Codes, Send(s, c) PROVE LeakInv'
    BY <1>3, LeakKept DEF InClear, Send, mainVars, regVars
  <1>4. ASSUME NEW s \in Sockets, NEW how \in Faults, PeerGone(s, how) PROVE LeakInv'
    <2>1. how # "down"
      BY FaultsAssumption
    <2> QED BY <1>0, <1>4, <2>1, LeakKept DEF InClear, PeerGone, mainVars, regVars
  <1>5. ASSUME NEW s \in Sockets, AcceptConn(s) PROVE LeakInv'
    <2>1. s \notin Registered
      BY <1>5 DEF AcceptConn, LeakInv, NoSocketLeak, InClear
    <2>2. /\ Registered' = Registered \cup {s}
          /\ Len(tabs') = Len(tabs) + 1
          /\ \A n \in 1..Len(tabs) : tabs'[n] = tabs[n]
          /\ tabs'[Len(tabs) + 1] = s
      BY <1>0, <1>5, RegisteredAppend DEF AcceptConn
    <2>3. /\ ~InClear /\ ~InClear' /\ UNCHANGED link
          /\ sock[s] = "queued" /\ sock'[s] = "open"
          /\ \A r \in Sockets \ {s} : sock'[r] = sock[r]
      BY <1>0, <1>5 DEF AcceptConn, InClear, netVars
    <2>4. \A m, n \in 1..Len(tabs') : tabs'[m] = tabs'[n] => m = n
      <3>1. \A m, n \in 1..Len(tabs) : tabs[m] = tabs[n] => m = n
        BY DEF LeakInv, NoSocketLeak
      <3>2. \A n \in 1..Len(tabs) : tabs[n] # s
        BY <2>1 DEF Registered
      <3>3. Len(tabs) \in Nat
        BY <1>0, LenProperties
      <3> QED BY <2>2, <3>1, <3>2, <3>3
    <2>5. NoSocketLeak'
      <3>1. \A r \in Registered : r \in Sockets /\ sock[r] = "open"
        BY <1>0, <2>3, ElementOfSeq DEF Registered, LeakInv, NoSocketLeak, InClear
      <3>2. \A r \in Sockets : sock[r] = "open" => r \in Registered
        BY DEF LeakInv, NoSocketLeak
      <3>3. \A r \in Sockets : sock'[r] = "open" => r \in Registered'
        BY <2>2, <2>3, <3>2
      <3>4. \A r \in Registered' : sock'[r] = "open"
        BY <2>2, <2>3, <3>1
      <3> QED BY <2>4, <3>3, <3>4 DEF NoSocketLeak
    <2> QED BY <2>3, <2>5 DEF LeakInv
  <1>6. CASE AcceptNone
    BY <1>6, LeakKept DEF InClear, AcceptNone, regVars, netVars
  <1>7. CASE ReadyDone
    BY <1>7, LeakKept DEF InClear, ReadyDone, regVars, netVars
  <1>8. ASSUME NEW s \in Sockets, ReadySkip(s) PROVE LeakInv'
    BY <1>8, LeakKept DEF InClear, ReadySkip, regVars, netVars
  <1>9. ASSUME NEW s \in Sockets, NEW c \in CloseTypes, ReadyKill(s, c) PROVE LeakInv'
    <2>1. \A m, n \in 1..Len(tabs) : tabs[m] = tabs[n] => m = n
      BY DEF LeakInv, NoSocketLeak
    <2>2. /\ Registered' = Registered \ {s}
          /\ \A m, n \in 1..Len(tabs') : tabs'[m] = tabs'[n] => m = n
      BY <1>0, <1>9, <2>1, RegisteredErase DEF ReadyKill, KillSocket, AtReady
    <2>3. /\ ~InClear /\ ~InClear' /\ UNCHANGED link
          /\ sock'[s] = "closed"
          /\ \A r \in Sockets \ {s} : sock'[r] = sock[r]
          /\ s \in Registered
      BY <1>0, <1>9 DEF ReadyKill, KillSocket, AtReady, InClear, Registered
    <2>4. sock[s] = "open"
      BY <2>3 DEF LeakInv, NoSocketLeak, InClear
    <2>5. NoSocketLeak'
      <3>1. \A r \in Registered : r \in Sockets /\ sock[r] = "open"
        BY <1>0, <2>3, ElementOfSeq DEF Registered, LeakInv, NoSocketLeak, InClear
      <3>2. \A r \in Sockets : sock[r] = "open" => r \in Registered
        BY DEF LeakInv, NoSocketLeak
      <3>3. \A r \in Sockets : sock'[r] = "open" => r \in Registered'
        BY <2>2, <2>3, <3>2
      <3>4. \A r \in Registered' : sock'[r] = "open"
        BY <2>2, <2>3, <3>1
      <3> QED BY <2>2, <3>3, <3>4 DEF NoSocketLeak
    <2>6. \A r \in Sockets : link'[r] = "down" => sock'[r] = "none"
      BY <2>3, <2>4 DEF LeakInv
    <2> QED BY <2>3, <2>5, <2>6 DEF LeakInv
  <1>10. ASSUME NEW s \in Sockets, NEW mode \in LaunchModes, ReadyStart(s, mode)
         PROVE LeakInv'
    BY <1>10, LeakKept DEF InClear, ReadyStart, AtReady, regVars
  <1>11. CASE Joined
    BY <1>11, LeakKept DEF InClear, Joined, regVars, netVars
  <1>12. ASSUME NEW t \in Tasks, WorkerBegins(t) PROVE LeakInv'
    BY <1>12, LeakKept DEF InClear, WorkerBegins, mainVars, regVars, netVars
  <1>13. ASSUME NEW t \in Tasks, NEW ok \in BOOLEAN, WorkerEnds(t, ok) PROVE LeakInv'
    BY <1>13, LeakKept DEF InClear, WorkerEnds, mainVars, regVars, netVars
  <1>14. ASSUME NEW s \in Sockets, CheckEmpty(s) PROVE LeakInv'
    BY <1>14, LeakKept DEF InClear, CheckEmpty, AtCheck, regVars, netVars
  <1>15. ASSUME NEW s \in Sockets, NEW ok \in BOOLEAN, CheckReady(s, ok) PROVE LeakInv'
    BY <1>15, LeakKept DEF InClear, CheckReady, AtCheck, regVars, netVars
  <1>16. ASSUME NEW s \in Sockets, CheckRunning(s) PROVE LeakInv'
    BY <1>16, LeakKept DEF InClear, CheckRunning, AtCheck, regVars, netVars
  <1>17. CASE RunningDone
    BY <1>17, LeakKept DEF InClear, RunningDone, regVars, netVars
  <1>18. ASSUME NEW s \in Sockets, RunningWait(s) PROVE LeakInv'
    BY <1>18, LeakKept DEF InClear, RunningWait, regVars, netVars
  <1>19. ASSUME NEW s \in Sockets, RunningEmpty(s) PROVE LeakInv'
    BY <1>19, LeakKept DEF InClear, RunningEmpty, AtRunning, regVars, netVars
  <1>20. ASSUME NEW s \in Sockets, NEW ok \in BOOLEAN, RunningReady(s, ok) PROVE LeakInv'
    BY <1>20, LeakKept DEF InClear, RunningReady, regVars, netVars
  <1>21. CASE RunningDead
    BY <1>21, LeakKept DEF InClear, RunningDead, regVars, netVars
  <1>22. CASE NextFrame
    BY <1>22, LeakKept DEF InClear, NextFrame, regVars, netVars
  <1>23. ASSUME NEW next \in {"clear", "exitClear"}, pc = "scene", CloseAll(next)
         PROVE LeakInv'
    <2>1. /\ UNCHANGED <<tabs, link>> /\ Registered' = Registered
          /\ ~InClear /\ InClear'
          /\ \A r \in Sockets : sock'[r] = IF r \in Registered THEN "closed" ELSE sock[r]
      BY <1>23 DEF CloseAll, InClear, Registered, regVars
    <2>2. \A r \in Registered : r \in Sockets /\ sock[r] = "open"
      BY <1>0, <2>1, ElementOfSeq DEF Registered, LeakInv, NoSocketLeak, InClear
    <2> QED BY <2>1, <2>2 DEF LeakInv, NoSocketLeak, InClear
  <1>24. CASE Clear
    <2>1. /\ Registered' = {} /\ Len(tabs') = 0 /\ ~InClear'
          /\ UNCHANGED <<sock, link>> /\ InClear
      BY <1>24 DEF Clear, Registered, InClear, netVars
    <2>2. \A r \in Sockets : sock[r] # "open"
      BY <2>1 DEF LeakInv, NoSocketLeak
    <2> QED BY <2>1, <2>2 DEF LeakInv, NoSocketLeak
  <1>25. ASSUME NEW failed \in SUBSET StartFailures, NEW seen \in BOOLEAN,
                Start(failed, seen)
         PROVE LeakInv'
    BY <1>25, LeakKept DEF InClear, Start, netVars
  <1> QED
    BY <1>1, <1>2, <1>3, <1>4, <1>5, <1>6, <1>7, <1>8, <1>9, <1>10, <1>11, <1>12,
       <1>13, <1>14, <1>15, <1>16, <1>17, <1>18, <1>19, <1>20, <1>21, <1>22, <1>23, <1>24,
       <1>25
    DEF Next, MainStep, Workers, Tablets, Halted, ResetTabs, CloseWindow

\* The server never loses track of an accepted connection, however many tablets
\* connect, close, break and are reset in whatever order.
THEOREM SocketsTracked == Spec => []NoSocketLeak
  <1>1. Init => TypeInv /\ LeakInv
    BY InitType, InitLeak
  <1>2. TypeInv /\ LeakInv /\ [Next]_vars => TypeInv' /\ LeakInv'
    BY NextType, NextLeak
  <1>3. LeakInv => NoSocketLeak
    BY DEF LeakInv
  <1> QED BY <1>1, <1>2, <1>3, PTL DEF Spec

\* A step that closes nothing and opens nothing keeps the list of closes.
LEMMA RetiredKept == RetiredOnce /\ UNCHANGED <<sock, closes>> => RetiredOnce'
  BY DEF RetiredOnce

\* A registered socket has not been closed yet when killSocket or killAllSockets
\* closes it: that is NoSocketLeak.
LEMMA NextRetired == TypeInv /\ LeakInv /\ RetiredOnce /\ [Next]_vars => RetiredOnce'
  <1> SUFFICES ASSUME TypeInv, LeakInv, RetiredOnce, [Next]_vars PROVE RetiredOnce'
    OBVIOUS
  <1>0. /\ tabs \in Seq(Sockets)
        /\ sock \in [Sockets -> {"none", "queued", "open", "closed"}]
        /\ closes \in [Sockets -> Seq(Closers)]
    BY DEF TypeInv, TypeOK, RegType, NetType, ClosesType
  <1>1. CASE UNCHANGED vars
    BY <1>1, RetiredKept DEF vars
  <1>2. ASSUME NEW s \in Sockets, Connect(s) PROVE RetiredOnce'
    <2>1. sock[s] # "closed"
      BY <1>2 DEF Connect, LeakInv
    <2>2. /\ UNCHANGED closes
          /\ \A r \in Sockets : sock'[r] = IF r = s THEN "queued" ELSE sock[r]
      BY <1>0, <1>2 DEF Connect
    <2> QED BY <2>1, <2>2 DEF RetiredOnce
  <1>3. ASSUME NEW s \in Sockets, AcceptConn(s) PROVE RetiredOnce'
    <2>1. /\ sock[s] # "closed" /\ UNCHANGED closes
          /\ \A r \in Sockets : sock'[r] = IF r = s THEN "open" ELSE sock[r]
      BY <1>0, <1>3 DEF AcceptConn
    <2> QED BY <2>1 DEF RetiredOnce
  <1>4. ASSUME NEW s \in Sockets, NEW c \in CloseTypes, ReadyKill(s, c) PROVE RetiredOnce'
    <2>1. s \in Registered /\ ~InClear
      BY <1>0, <1>4 DEF ReadyKill, AtReady, Registered, InClear
    <2>2. closes[s] = <<>>
      BY <2>1 DEF LeakInv, NoSocketLeak, InClear, RetiredOnce
    <2>3. \A r \in Sockets : /\ sock'[r] = IF r = s THEN "closed" ELSE sock[r]
                             /\ closes'[r] = IF r = s THEN closes[s] \o KillPath
                                                      ELSE closes[r]
      BY <1>0, <1>4 DEF ReadyKill, KillSocket, KillPath
    <2>4. closes[s] \o KillPath = KillPath
      BY <2>2, KillPathType, ConcatEmptySeq
    <2> QED BY <2>2, <2>3, <2>4 DEF RetiredOnce, KillPath
  <1>5. ASSUME NEW next \in {"clear", "exitClear"}, pc = "scene", CloseAll(next)
        PROVE RetiredOnce'
    <2>1. \A r \in Registered : r \in Sockets /\ closes[r] = <<>>
      BY <1>0, <1>5, ElementOfSeq
      DEF Registered, LeakInv, NoSocketLeak, InClear, RetiredOnce
    <2>2. \A r \in Sockets :
             /\ sock'[r] = IF r \in Registered THEN "closed" ELSE sock[r]
             /\ closes'[r] = IF r \in Registered THEN Append(closes[r], "killAllSockets")
                                                 ELSE closes[r]
      BY <1>5 DEF CloseAll
    <2>3. Append(<<>>, "killAllSockets") = <<"killAllSockets">>
      OBVIOUS
    <2> QED BY <2>1, <2>2, <2>3 DEF RetiredOnce
  <1>6. CASE AcceptNone \/ ReadyDone \/ Joined \/ RunningDone \/ RunningDead \/ Clear
             \/ NextFrame
    BY <1>6, RetiredKept
    DEF AcceptNone, ReadyDone, Joined, RunningDone, RunningDead, Clear, NextFrame
  <1>7. ASSUME NEW s \in Sockets, ReadySkip(s) \/ CheckEmpty(s) \/ CheckRunning(s)
                                    \/ RunningWait(s) \/ RunningEmpty(s)
        PROVE RetiredOnce'
    BY <1>7, RetiredKept DEF ReadySkip, CheckEmpty, CheckRunning, RunningWait, RunningEmpty
  <1>8. ASSUME NEW s \in Sockets, NEW mode \in LaunchModes, ReadyStart(s, mode)
        PROVE RetiredOnce'
    BY <1>8, RetiredKept DEF ReadyStart
  <1>9. ASSUME NEW s \in Sockets, NEW ok \in BOOLEAN,
               CheckReady(s, ok) \/ RunningReady(s, ok)
        PROVE RetiredOnce'
    BY <1>9, RetiredKept DEF CheckReady, RunningReady
  <1>10. ASSUME NEW t \in Tasks, NEW ok \in BOOLEAN, WorkerBegins(t) \/ WorkerEnds(t, ok)
         PROVE RetiredOnce'
    BY <1>10, RetiredKept DEF WorkerBegins, WorkerEnds
  <1>11. ASSUME NEW s \in Sockets, NEW c \in Codes, Send(s, c) PROVE RetiredOnce'
    BY <1>11, RetiredKept DEF Send
  <1>12. ASSUME NEW s \in Sockets, NEW how \in Faults, PeerGone(s, how) PROVE RetiredOnce'
    BY <1>12, RetiredKept DEF PeerGone
  <1>13. ASSUME NEW failed \in SUBSET StartFailures, NEW seen \in BOOLEAN,
                Start(failed, seen)
         PROVE RetiredOnce'
    BY <1>13, RetiredKept DEF Start
  <1> QED
    BY <1>1, <1>2, <1>3, <1>4, <1>5, <1>6, <1>7, <1>8, <1>9, <1>10, <1>11, <1>12,
       <1>13
    DEF Next, MainStep, Workers, Tablets, Halted, ResetTabs, CloseWindow

\* However tablets come, close and are reset, closesocket is called on a socket
\* within the one operation that retires it (killSocket or killAllSockets), and
\* never by a later one.
THEOREM SocketsRetiredOnce == Spec => []RetiredOnce
  <1>1. Init => TypeInv /\ LeakInv /\ RetiredOnce
    BY InitType, InitLeak DEF Init, RetiredOnce
  <1>2. TypeInv /\ LeakInv /\ RetiredOnce /\ [Next]_vars
          => TypeInv' /\ LeakInv' /\ RetiredOnce'
    BY NextType, NextLeak, NextRetired
  <1> QED BY <1>1, <1>2, PTL DEF Spec

-----------------------------------------------------------------------------
(* The workers.                                                            *)

\* WorkersOwned is inductive once it is known where the main thread can be
\* waiting for a worker.
OwnInv ==
    /\ WorkersOwned
    /\ joining # NoTask => pc \in {"ready", "check"}

\* A step that leaves the tasks and their futures alone leaves no worker behind.
LEMMA OwnKept ==
    ASSUME OwnInv, UNCHANGED <<data, joining>>, Registered \subseteq Registered',
           \A t \in Tasks : tstate'[t] = "active" => tstate[t] = "active",
           joining # NoTask => pc' \in {"ready", "check"}
    PROVE  OwnInv'
  BY DEF OwnInv, WorkersOwned, Fut, Tasks

\* handleTransResult starts no task, and the future it consumes has ended.
LEMMA HandleOwns ==
    ASSUME TypeInv, OwnInv, NEW s \in Sockets, NEW ok \in BOOLEAN, data[s] # 0,
           IsReady(s), HandleTransResult(s, ok), UNCHANGED <<tabs, joining>>,
           joining = NoTask
    PROVE  OwnInv'
  <1>0. ObjType /\ TaskType /\ Fut(s) \in Tasks
    BY FutType DEF TypeInv, TypeOK
  <1>1. tstate[Fut(s)] # "active"
    BY DEF IsReady
  <1>2. \A t \in Tasks : tstate'[t] = "active" => tstate[t] = "active"
    BY <1>0 DEF HandleTransResult, TaskEnds, outVars, TaskType
  <1>3. \A r \in Sockets \ {s} : data'[r] = data[r]
    BY <1>0 DEF HandleTransResult, ObjType
  <1>4. ASSUME NEW t \in Tasks, tstate'[t] = "active"
        PROVE  t[1] \in Registered' /\ Fut(t[1])' = t
    <2>1. tstate[t] = "active" /\ t # Fut(s)
      BY <1>1, <1>2, <1>4
    <2>2. t[1] \in Registered /\ Fut(t[1]) = t
      BY <2>1, NoTaskLemma DEF OwnInv, WorkersOwned
    <2>3. t[1] \in Sockets \ {s}
      BY <2>1, <2>2 DEF Tasks
    <2> QED BY <1>3, <2>2, <2>3 DEF Registered, Fut
  <1> QED BY <1>4 DEF OwnInv, WorkersOwned

\* At the start no worker runs.
LEMMA InitOwn == Init => OwnInv
  BY DEF Init, OwnInv, WorkersOwned

\* No step leaves a worker behind.
LEMMA NextOwn == TypeInv /\ LeakInv /\ OwnInv /\ [Next]_vars => OwnInv'
  <1> SUFFICES ASSUME TypeInv, LeakInv, OwnInv, [Next]_vars PROVE OwnInv'
    OBVIOUS
  <1>0. ObjType /\ TaskType /\ tabs \in Seq(Sockets)
    BY DEF TypeInv, TypeOK, RegType
  <1>reg. ASSUME UNCHANGED tabs PROVE Registered' = Registered
    BY <1>reg DEF Registered
  <1>join. joining # NoTask => pc \in {"ready", "check"}
    BY DEF OwnInv
  <1>1. CASE UNCHANGED vars
    BY <1>1, <1>reg, <1>join, OwnKept DEF vars, mainVars, regVars, objVars, taskVars, outVars
  <1>2. ASSUME NEW s \in Sockets, Connect(s) PROVE OwnInv'
    BY <1>2, <1>reg, <1>join, OwnKept DEF Connect, mainVars, regVars, objVars, taskVars, outVars
  <1>3. ASSUME NEW s \in Sockets, NEW c \in Codes, Send(s, c) PROVE OwnInv'
    BY <1>3, <1>reg, <1>join, OwnKept DEF Send, mainVars, regVars, objVars, taskVars, outVars
  <1>4. ASSUME NEW s \in Sockets, NEW how \in Faults, PeerGone(s, how) PROVE OwnInv'
    BY <1>4, <1>reg, <1>join, OwnKept DEF PeerGone, mainVars, regVars, objVars, taskVars, outVars
  <1>5. ASSUME NEW s \in Sockets, AcceptConn(s) PROVE OwnInv'
    <2>1. Registered' = Registered \cup {s}
      BY <1>5, <1>0, RegisteredAppend DEF AcceptConn
    <2> QED BY <1>5, <1>join, <2>1, OwnKept DEF AcceptConn, objVars, taskVars, outVars
  <1>6. CASE AcceptNone
    BY <1>6, <1>reg, <1>join, OwnKept DEF AcceptNone, mainVars, regVars, objVars, taskVars, outVars
  <1>7. CASE ReadyDone
    BY <1>7, <1>reg, <1>join, OwnKept DEF ReadyDone, mainVars, regVars, objVars, taskVars, outVars
  <1>8. ASSUME NEW s \in Sockets, ReadySkip(s) PROVE OwnInv'
    BY <1>8, <1>reg, <1>join, OwnKept DEF ReadySkip, AtReady, mainVars, regVars, objVars, taskVars, outVars
  <1>9. ASSUME NEW s \in Sockets, NEW c \in CloseTypes, ReadyKill(s, c) PROVE OwnInv'
    <2>1. Registered' = Registered \ {s}
      <3>1. \A m, n \in 1..Len(tabs) : tabs[m] = tabs[n] => m = n
        BY DEF LeakInv, NoSocketLeak
      <3> QED BY <1>0, <1>9, <3>1, RegisteredErase DEF ReadyKill, KillSocket, AtReady
    <2>2. /\ joining = NoTask /\ joining' = Unfinished(s) /\ pc' = "ready"
          /\ UNCHANGED tstate
          /\ \A r \in Sockets \ {s} : data'[r] = data[r]
      BY <1>0, <1>9 DEF ReadyKill, KillSocket, AtReady, ObjType, taskVars, outVars
    <2>3. ASSUME NEW t \in Tasks, tstate'[t] = "active"
          PROVE  t = joining' \/ (t[1] \in Registered' /\ Fut(t[1])' = t)
      <3>1. t[1] \in Registered /\ Fut(t[1]) = t /\ tstate[t] = "active"
        BY <2>2, <2>3, NoTaskLemma DEF OwnInv, WorkersOwned
      <3>2. CASE t[1] = s
        BY <2>2, <3>1, <3>2 DEF Unfinished, Fut, Tasks
      <3>3. CASE t[1] # s
        BY <2>1, <2>2, <3>1, <3>3 DEF Fut, Tasks
      <3> QED BY <3>2, <3>3
    <2> QED BY <2>2, <2>3 DEF OwnInv, WorkersOwned
  <1>10. ASSUME NEW s \in Sockets, NEW mode \in LaunchModes, ReadyStart(s, mode)
         PROVE OwnInv'
    <2> DEFINE n == nread[s] + 1
    <2>1. /\ joining = NoTask /\ pc' = "check" /\ UNCHANGED tabs
          /\ s \in Registered
      BY <1>0, <1>10 DEF ReadyStart, AtReady, Registered, regVars
    <2>2. CASE UNCHANGED <<data, joining, tstate>>
      BY <1>reg, <2>1, <2>2, OwnKept
    <2>3. CASE /\ data' = [data EXCEPT ![s] = n]
               /\ joining' = Unfinished(s)
               /\ \A t \in Tasks : t # <<s, n>> => tstate'[t] = tstate[t]
      <3>1. ASSUME NEW t \in Tasks, tstate'[t] = "active"
            PROVE  t = joining' \/ (t[1] \in Registered' /\ Fut(t[1])' = t)
        <4>1. CASE t = <<s, n>>
          BY <1>0, <1>reg, <2>1, <2>3, <4>1 DEF Fut, ObjType
        <4>2. CASE t # <<s, n>>
          <5>1. t[1] \in Registered /\ Fut(t[1]) = t /\ tstate[t] = "active"
            BY <2>1, <2>3, <3>1, <4>2, NoTaskLemma DEF OwnInv, WorkersOwned
          <5>2. CASE t[1] = s
            BY <2>3, <5>1, <5>2 DEF Unfinished, Fut, Tasks
          <5>3. CASE t[1] # s
            BY <1>0, <1>reg, <2>1, <2>3, <5>1, <5>3 DEF Fut, Tasks, ObjType
          <5> QED BY <5>2, <5>3
        <4> QED BY <4>1, <4>2
      <3> QED BY <2>1, <3>1 DEF OwnInv, WorkersOwned
    <2>4. \/ UNCHANGED <<data, joining, tstate>>
          \/ /\ data' = [data EXCEPT ![s] = n]
             /\ joining' = Unfinished(s)
             /\ \A t \in Tasks : t # <<s, n>> => tstate'[t] = tstate[t]
      BY <1>0, <1>10 DEF ReadyStart, TaskType
    <2> QED BY <2>2, <2>3, <2>4
  <1>11. CASE Joined
    <2>1. tstate[joining] # "active" /\ joining' = NoTask
          /\ UNCHANGED <<data, tabs, tstate>>
      BY <1>11 DEF Joined, objVars, taskVars, outVars, regVars
    <2>2. \A t \in Tasks : tstate[t] = "active" => t[1] \in Registered /\ Fut(t[1]) = t
      BY <2>1 DEF OwnInv, WorkersOwned
    <2> QED BY <1>reg, <2>1, <2>2 DEF OwnInv, WorkersOwned, Fut
  <1>12. ASSUME NEW t \in Tasks, WorkerBegins(t) PROVE OwnInv'
    BY <1>12, <1>reg, <1>join, OwnKept DEF WorkerBegins, mainVars, regVars, objVars, taskVars, outVars
  <1>13. ASSUME NEW t \in Tasks, NEW ok \in BOOLEAN, WorkerEnds(t, ok) PROVE OwnInv'
    <2>1. \A r \in Tasks : tstate'[r] = "active" => tstate[r] = "active"
      BY <1>0, <1>13 DEF WorkerEnds, TaskEnds, TaskType
    <2>2. UNCHANGED <<data, joining, tabs, pc>>
      BY <1>13 DEF WorkerEnds, mainVars, regVars
    <2> QED BY <1>reg, <1>join, <2>1, <2>2, OwnKept
  <1>14. ASSUME NEW s \in Sockets, CheckEmpty(s) PROVE OwnInv'
    BY <1>14, <1>reg, <1>join, OwnKept DEF CheckEmpty, AtCheck, mainVars, regVars, objVars, taskVars, outVars
  <1>15. ASSUME NEW s \in Sockets, NEW ok \in BOOLEAN, CheckReady(s, ok) PROVE OwnInv'
    BY <1>15, HandleOwns DEF CheckReady, AtCheck, regVars
  <1>16. ASSUME NEW s \in Sockets, CheckRunning(s) PROVE OwnInv'
    BY <1>16, <1>reg, <1>join, OwnKept DEF CheckRunning, AtCheck, mainVars, regVars, objVars, taskVars, outVars
  <1>17. CASE RunningDone
    BY <1>17, <1>reg, <1>join, OwnKept DEF RunningDone, mainVars, regVars, objVars, taskVars, outVars
  <1>18. ASSUME NEW s \in Sockets, RunningWait(s) PROVE OwnInv'
    BY <1>18, <1>reg, <1>join, OwnKept DEF RunningWait, AtRunning, mainVars, regVars, objVars, taskVars, outVars
  <1>19. ASSUME NEW s \in Sockets, RunningEmpty(s) PROVE OwnInv'
    BY <1>19, <1>reg, <1>join, OwnKept DEF RunningEmpty, AtRunning, mainVars, regVars, objVars, taskVars, outVars
  <1>20. ASSUME NEW s \in Sockets, NEW ok \in BOOLEAN, RunningReady(s, ok) PROVE OwnInv'
    BY <1>20, <1>join, HandleOwns DEF RunningReady, AtRunning, regVars
  <1>21. CASE RunningDead
    BY <1>21, <1>reg, <1>join, OwnKept DEF RunningDead, mainVars, regVars, objVars, taskVars, outVars
  <1>22. CASE NextFrame
    BY <1>22, <1>reg, <1>join, OwnKept DEF NextFrame, mainVars, regVars, objVars, taskVars, outVars
  <1>23. ASSUME NEW next \in {"clear", "exitClear"}, pc = "scene", CloseAll(next)
         PROVE OwnInv'
    BY <1>23, <1>reg, <1>join, OwnKept DEF CloseAll, mainVars, regVars, objVars, taskVars, outVars
  <1>24. CASE Clear
    <2>1. joining = NoTask /\ joining' = NoTask /\ UNCHANGED tstate
      BY <1>24, <1>join DEF Clear, taskVars, outVars
    <2>2. ASSUME NEW t \in Tasks, tstate[t] = "active" PROVE FALSE
      <3>1. t[1] \in Registered /\ Fut(t[1]) = t
        BY <2>1, <2>2, NoTaskLemma DEF OwnInv, WorkersOwned
      <3>2. data[t[1]] # 0
        BY <3>1 DEF Fut, Tasks
      <3>3. Unfinished(t[1]) = t
        BY <2>2, <3>1, <3>2 DEF Unfinished
      <3> QED BY <1>24, <3>1, <3>3, NoTaskLemma DEF Clear
    <2> QED BY <2>1, <2>2 DEF OwnInv, WorkersOwned
  <1>25. ASSUME NEW failed \in SUBSET StartFailures, NEW seen \in BOOLEAN,
                Start(failed, seen)
         PROVE OwnInv'
    BY <1>25, <1>reg, <1>join, OwnKept DEF Start, objVars, taskVars, outVars
  <1> QED
    BY <1>1, <1>2, <1>3, <1>4, <1>5, <1>6, <1>7, <1>8, <1>9, <1>10, <1>11, <1>12,
       <1>13, <1>14, <1>15, <1>16, <1>17, <1>18, <1>19, <1>20, <1>21, <1>22, <1>23, <1>24,
       <1>25
    DEF Next, MainStep, Workers, Tablets, Halted, ResetTabs, CloseWindow

\* No worker outlives the future that stands for it: while it runs, its future
\* is in a registered object or the main thread waits for it.  So closing,
\* resetting and shutting down leave no worker behind, and moving objects about
\* never makes the server lose one.
THEOREM NoWorkerLeftBehind == Spec => []WorkersOwned
  <1>1. Init => TypeInv /\ LeakInv /\ OwnInv
    BY InitType, InitLeak, InitOwn
  <1>2. TypeInv /\ LeakInv /\ OwnInv /\ [Next]_vars => TypeInv' /\ LeakInv' /\ OwnInv'
    BY NextType, NextLeak, NextOwn
  <1>3. OwnInv => WorkersOwned
    BY DEF OwnInv
  <1> QED BY <1>1, <1>2, <1>3, PTL DEF Spec

=============================================================================
