------------------------ MODULE BtTransactionProofs ------------------------
(***************************************************************************)
(* Theorems about BtServer's transactions, for any number of tablets and   *)
(* requests, as long as no object with a running transaction has been      *)
(* moved or destroyed.                                                     *)
(***************************************************************************)
EXTENDS BtServerProofs

\* The object whose transaction has just begun: handleReadyConnections is about to ask
\* isReady of it.  An unknown negative code has begun none.
Unknown(c) == WriteTransaction(c) /\ c \notin WriteTypes
Fresh(s) == pc = "check" /\ s = tabs[i] /\ ~Unknown(transactionType[s])

\* The object has a transaction whose result has not been handled.
Busy(s) == Undergoing(s) \/ Fresh(s)

\* runningTransactions and the flags agree.
Tracking ==
    /\ \A k \in 1..Len(running) :
          /\ At(running[k]) # None
          /\ Undergoing(At(running[k]))
          /\ parent[At(running[k])] = running[k]
    /\ \A k, l \in 1..Len(running) : running[k] = running[l] => k = l
    /\ \A s \in Registered : Undergoing(s) => \E k \in 1..Len(running) : At(running[k]) = s

Checking ==
    pc = "check" =>
        /\ i \in 1..Len(tabs)
        /\ ~Undergoing(tabs[i])
        /\ transactionType[tabs[i]] \notin CloseTypes
        /\ parent[tabs[i]] = Slot(i)

\* The future of an object with a transaction is that of this transaction's worker.
BusyFuture(s) ==
    /\ data[s] # 0
    /\ tself[Fut(s)] = parent[s]
    /\ tcode[Fut(s)] = transactionType[s]
    /\ tstate[Fut(s)] = "done" => success[s] = tok[Fut(s)]

\* One that an object without a transaction still holds has been dealt with.
IdleFuture(s) ==
    data[s] # 0 => tstate[Fut(s)] # "active" /\ tcode[Fut(s)] \notin ResultTypes

ObjectOK(s) ==
    /\ s \in Registered => IF Busy(s) THEN BusyFuture(s) ELSE IdleFuture(s)
    /\ sock[s] \in {"none", "queued"} => ~Undergoing(s) /\ data[s] = 0
    /\ data[s] # 0 =>
          data[s] <= nread[s] /\ tstate[Fut(s)] # "none" /\ rows[Fut(s)] = 0
    /\ tabScoutingName[s] \in {None, s}

TaskOK(t) ==
    /\ t[2] > nread[t[1]] => tstate[t] = "none"
    /\ tstate[t] = "done" => tfrom[t] = t[1]
    /\ tstate[t] = "deferred" /\ tcode[t] \in ResultTypes =>
          t[1] \in Registered /\ Busy(t[1]) /\ Fut(t[1]) = t
    /\ rows[t] # 0 => rows[t] = 1 /\ tstate[t] = "done" /\ tok[t] /\ tcode[t] = TRANS_RECV_MATCH
    /\ tstate[t] = "done" /\ tok[t] /\ tcode[t] = TRANS_RECV_MATCH =>
          rows[t] = 1 \/ (t[1] \in Registered /\ Busy(t[1]) /\ Fut(t[1]) = t)

Ending ==
    /\ pc # "undefined"
    /\ pc = "terminated" => transactionType[tabs[i]] \notin EnumCodes

TransInv ==
    ~disturbed =>
        /\ joining = NoTask
        /\ Tracking
        /\ Checking
        /\ \A s \in Sockets : ObjectOK(s)
        /\ \A t \in Tasks : TaskOK(t)
        /\ Ending

\* What the steps start from.
Before == TypeInv /\ LeakInv /\ OwnInv /\ TransInv /\ ~disturbed

-----------------------------------------------------------------------------
(* What the invariant says of an address.                                  *)

\* A pointer to an object leads to a registered one.
LEMMA AtRegistered ==
    ASSUME NEW a, At(a) # None
    PROVE  At(a) \in Registered
  BY DEF At, Stored, Registered

\* What is registered is a socket.
LEMMA RegisteredType ==
    ASSUME TypeInv
    PROVE  \A s \in Registered : s \in Sockets
  BY ElementOfSeq DEF TypeInv, TypeOK, RegType, Registered

\* The parent of an object with a transaction leads back to it.
LEMMA BusyAt ==
    ASSUME Before, NEW s \in Registered, Busy(s)
    PROVE  At(parent[s]) = s
  <1>0. Tracking /\ Checking
    BY DEF Before, TransInv
  <1>1. CASE Undergoing(s)
    BY <1>0, <1>1 DEF Tracking
  <1>2. CASE ~Undergoing(s)
    <2>1. /\ i \in 1..Len(tabs) /\ parent[s] = Slot(i) /\ s = tabs[i]
      BY <1>0, <1>2 DEF Busy, Fresh, Checking
    <2> QED BY <2>1 DEF At, Stored, Slot
  <1> QED BY <1>1, <1>2

\* A worker that runs is that of a registered object with a transaction, and works on it.
LEMMA ActiveOwn ==
    ASSUME Before, NEW t \in Tasks, tstate[t] = "active"
    PROVE  /\ t[1] \in Registered /\ t[1] \in Sockets /\ Fut(t[1]) = t /\ Busy(t[1])
           /\ At(tself[t]) = t[1] /\ Source(t) = t[1]
  <1>1. joining = NoTask /\ \A s \in Sockets : ObjectOK(s)
    BY DEF Before, TransInv
  <1>2. t[1] \in Registered /\ Fut(t[1]) = t /\ t[1] \in Sockets /\ data[t[1]] # 0
    BY <1>1, NoTaskLemma DEF Before, OwnInv, WorkersOwned, Tasks, Fut
  <1>3. Busy(t[1]) /\ BusyFuture(t[1])
    BY <1>1, <1>2 DEF ObjectOK, IdleFuture
  <1>4. At(tself[t]) = t[1]
    BY <1>2, <1>3, BusyAt DEF BusyFuture
  <1> QED BY <1>2, <1>3, <1>4, NoneAssumption DEF Source

-----------------------------------------------------------------------------
(* What a step leaves alone.                                               *)

SameObject(s) ==
    /\ transactionState'[s] = transactionState[s]
    /\ parent'[s] = parent[s]
    /\ transactionType'[s] = transactionType[s]
    /\ success'[s] = success[s]
    /\ data'[s] = data[s]
    /\ tabScoutingName'[s] = tabScoutingName[s]

SameTask(t) ==
    /\ tstate'[t] = tstate[t]
    /\ tcode'[t] = tcode[t]
    /\ tself'[t] = tself[t]
    /\ tok'[t] = tok[t]
    /\ tfrom'[t] = tfrom[t]
    /\ rows'[t] = rows[t]

\* An object that a step leaves alone.
LEMMA ObjectKept ==
    ASSUME NEW s \in Sockets, ObjectOK(s), SameObject(s), nread[s] \in Nat, nread'[s] \in Nat,
           nread[s] <= nread'[s], data[s] \in Nat,
           data[s] # 0 => SameTask(Fut(s)),
           s \in Registered' => s \in Registered,
           s \in Registered => (Busy(s)' <=> Busy(s)),
           sock'[s] \in {"none", "queued"} => sock[s] \in {"none", "queued"}
    PROVE  ObjectOK(s)'
  <1>1. Fut(s)' = Fut(s)
    BY DEF SameObject, Fut
  <1>2. s \in Registered' => IF Busy(s)' THEN BusyFuture(s)' ELSE IdleFuture(s)'
    <2> SUFFICES ASSUME s \in Registered'
                 PROVE  IF Busy(s)' THEN BusyFuture(s)' ELSE IdleFuture(s)'
      OBVIOUS
    <2>1. Busy(s) => BusyFuture(s)'
      BY <1>1 DEF ObjectOK, BusyFuture, SameObject, SameTask
    <2>2. ~Busy(s) => IdleFuture(s)'
      BY <1>1 DEF ObjectOK, IdleFuture, SameObject, SameTask
    <2> QED BY <2>1, <2>2
  <1>3. sock'[s] \in {"none", "queued"} => ~Undergoing(s)' /\ data'[s] = 0
    BY DEF ObjectOK, SameObject, Undergoing
  <1>4. data'[s] # 0 => data'[s] <= nread'[s] /\ tstate'[Fut(s)'] # "none" /\ rows'[Fut(s)'] = 0
    BY <1>1 DEF ObjectOK, SameObject, SameTask
  <1>5. tabScoutingName'[s] \in {None, s}
    BY DEF ObjectOK, SameObject
  <1> QED BY <1>2, <1>3, <1>4, <1>5 DEF ObjectOK

\* A task that a step leaves alone.
LEMMA TaskKept ==
    ASSUME NEW t \in Tasks, TaskOK(t), SameTask(t),
           t[2] > nread'[t[1]] => t[2] > nread[t[1]],
           (t[1] \in Registered /\ Busy(t[1]) /\ Fut(t[1]) = t)
               => (t[1] \in Registered' /\ Busy(t[1])' /\ Fut(t[1])' = t)
    PROVE  TaskOK(t)'
  BY DEF TaskOK, SameTask

\* A step that leaves objects, tasks and pointers alone.
LEMMA TransSame ==
    ASSUME Before,
           UNCHANGED <<joining, tabs, buf, running, nread, tstate, tcode, tself, tok, tfrom, rows>>,
           \A s \in Sockets : SameObject(s) /\ (Busy(s)' <=> Busy(s)),
           \A s \in Sockets : sock'[s] \in {"none", "queued"} => sock[s] \in {"none", "queued"},
           Checking', Ending'
    PROVE  TransInv'
  <1>0. /\ joining = NoTask /\ Tracking /\ TypeInv
        /\ \A s \in Sockets : ObjectOK(s)
        /\ \A t \in Tasks : TaskOK(t)
    BY DEF Before, TransInv
  <1>1. Registered' = Registered /\ \A a : At(a)' = At(a)
    BY DEF Registered, At, Stored
  <1>2. ASSUME NEW s \in Sockets PROVE ObjectOK(s)'
    <2>1. nread[s] \in Nat /\ nread'[s] \in Nat /\ nread[s] <= nread'[s] /\ data[s] \in Nat
      BY <1>0, MaxReqAssumption DEF TypeInv, TypeOK, NetType, ObjType
    <2>2. SameTask(Fut(s))
      BY DEF SameTask
    <2> QED BY <1>0, <1>1, <2>1, <2>2, ObjectKept
  <1>3. ASSUME NEW t \in Tasks PROVE TaskOK(t)'
    <2>1. SameTask(t) /\ nread' = nread /\ t[1] \in Sockets
      BY DEF SameTask, Tasks
    <2>2. Fut(t[1])' = Fut(t[1])
      BY <2>1 DEF Fut, SameObject
    <2> QED BY <1>0, <1>1, <2>1, <2>2, TaskKept
  <1>4. Tracking'
    <2>1. \A s \in Sockets : parent'[s] = parent[s] /\ transactionState'[s] = transactionState[s]
      BY DEF SameObject
    <2>2. \A k \in 1..Len(running) : At(running[k]) \in Sockets
      BY <1>0, AtRegistered, RegisteredType DEF Tracking
    <2>3. \A s \in Registered : s \in Sockets
      BY <1>0, RegisteredType
    <2> QED BY <1>0, <1>1, <2>1, <2>2, <2>3 DEF Tracking, Undergoing
  <1> QED BY <1>0, <1>2, <1>3, <1>4 DEF TransInv

\* The same of a step that begins and ends no check.
LEMMA TransKept ==
    ASSUME Before,
           UNCHANGED <<joining, tabs, buf, running, objVars, nread, taskVars>>,
           \/ UNCHANGED <<pc, i>>
           \/ pc # "check" /\ pc' \notin {"check", "undefined", "terminated"},
           \A s \in Sockets : sock'[s] \in {"none", "queued"} => sock[s] \in {"none", "queued"}
    PROVE  TransInv'
  <1>0. Checking /\ Ending
    BY DEF Before, TransInv
  <1>1. \A s : SameObject(s)
    BY DEF SameObject, objVars, transVars
  <1>2. \A s : Busy(s)' <=> Busy(s)
    BY DEF Busy, Fresh, Undergoing, objVars, transVars
  <1>3. Checking' /\ Ending'
    BY <1>0 DEF Checking, Ending, Undergoing, objVars, transVars, Slot
  <1>4. UNCHANGED <<tstate, tcode, tself, tok, tfrom, rows>>
    BY DEF taskVars, outVars
  <1> QED BY <1>1, <1>2, <1>3, <1>4, TransSame

\* What the steps use of the types.
LEMMA Numbers ==
    ASSUME TypeInv
    PROVE  \A s \in Sockets : nread[s] \in Nat /\ data[s] \in Nat /\ data[s] \in 0..MaxReq
  BY MaxReqAssumption DEF TypeInv, TypeOK, NetType, ObjType

\* A step that leaves one object and its tasks to be looked at, and every other one alone.
LEMMA OthersKept ==
    ASSUME Before, NEW s,
           \A r \in Sockets \ {s} : /\ SameObject(r)
                                    /\ nread'[r] = nread[r]
                                    /\ r \in Registered' <=> r \in Registered
                                    /\ Busy(r)' <=> Busy(r)
                                    /\ sock'[r] = sock[r],
           \A t \in Tasks : t[1] # s => SameTask(t)
    PROVE  /\ \A r \in Sockets \ {s} : ObjectOK(r)'
           /\ \A t \in Tasks : t[1] # s => TaskOK(t)'
  <1>0. (\A r \in Sockets : ObjectOK(r)) /\ (\A t \in Tasks : TaskOK(t)) /\ TypeInv
    BY DEF Before, TransInv
  <1>1. ASSUME NEW r \in Sockets \ {s} PROVE ObjectOK(r)'
    <2>1. nread[r] \in Nat /\ nread'[r] \in Nat /\ nread[r] <= nread'[r] /\ data[r] \in Nat
      BY <1>0, Numbers
    <2>2. data[r] # 0 => SameTask(Fut(r))
      <3> SUFFICES ASSUME data[r] # 0 PROVE SameTask(Fut(r))
        OBVIOUS
      <3>1. Fut(r) \in Tasks /\ Fut(r)[1] # s
        BY <1>0, FutType DEF TypeInv, TypeOK, Fut
      <3> QED BY <3>1
    <2> QED BY <1>0, <2>1, <2>2, ObjectKept
  <1>2. ASSUME NEW t \in Tasks, t[1] # s PROVE TaskOK(t)'
    <2>1. t[1] \in Sockets \ {s}
      BY <1>2 DEF Tasks
    <2>2. Fut(t[1])' = Fut(t[1])
      BY <2>1 DEF Fut, SameObject
    <2> QED BY <1>0, <1>2, <2>1, <2>2, TaskKept
  <1> QED BY <1>1, <1>2

-----------------------------------------------------------------------------
(* The registry.                                                           *)

\* push_back moves no object with a transaction, and the new object has none.
LEMMA AcceptTrans ==
    ASSUME Before, NEW s \in Sockets, AcceptConn(s), ~disturbed'
    PROVE  TransInv'
  <1>0. /\ joining = NoTask /\ Tracking /\ ObjectOK(s) /\ TypeInv /\ LeakInv
        /\ \A t \in Tasks : TaskOK(t)
    BY DEF Before, TransInv
  <1>1. /\ sock[s] = "queued" /\ sock' = [sock EXCEPT ![s] = "open"] /\ tabs' = Append(tabs, s)
        /\ pc = "accept" /\ pc' = "ready" /\ ~Moves
        /\ UNCHANGED <<joining, running, objVars, nread, taskVars>>
    BY DEF AcceptConn
  <1>2. Registered' = Registered \cup {s}
    BY <1>0, <1>1, RegisteredAppend DEF TypeInv, TypeOK, RegType
  <1>3. s \notin Registered
    BY <1>0, <1>1 DEF LeakInv, NoSocketLeak
  <1>4. /\ sock'[s] = "open" /\ \A r \in Sockets \ {s} : sock'[r] = sock[r]
    BY <1>0, <1>1 DEF TypeInv, TypeOK, NetType
  <1>5. \A r : /\ SameObject(r) /\ nread'[r] = nread[r] /\ (Busy(r)' <=> Busy(r))
    BY <1>1 DEF SameObject, Busy, Fresh, Undergoing, objVars, transVars
  <1>6. \A t : SameTask(t)
    BY <1>1 DEF SameTask, taskVars, outVars
  <1>7. ~Undergoing(s) /\ data[s] = 0 /\ tabScoutingName[s] \in {None, s}
    BY <1>0, <1>1 DEF ObjectOK
  <1>8. ObjectOK(s)'
    <2>1. ~Busy(s)' /\ data'[s] = 0 /\ tabScoutingName'[s] \in {None, s}
      BY <1>1, <1>5, <1>7 DEF Busy, Fresh, SameObject
    <2> QED BY <1>4, <2>1 DEF ObjectOK, IdleFuture
  <1>9. \A r \in Sockets : ObjectOK(r)'
    BY <1>2, <1>4, <1>5, <1>6, <1>8, OthersKept
  <1>10. ASSUME NEW t \in Tasks PROVE TaskOK(t)'
    <2>1. Fut(t[1])' = Fut(t[1])
      BY <1>5 DEF Fut, SameObject
    <2> QED BY <1>0, <1>2, <1>5, <1>6, <2>1, TaskKept
  <1>11. \A k \in 1..Len(running) : At(running[k])' = At(running[k])
    BY <1>1 DEF Moves, At
  <1>12. Tracking'
    <2>1. UNCHANGED <<running, transactionState, parent>>
      BY <1>1 DEF objVars, transVars
    <2> QED BY <1>0, <1>2, <1>7, <1>11, <2>1 DEF Tracking, Undergoing
  <1>13. Checking' /\ Ending'
    BY <1>1 DEF Checking, Ending
  <1> QED BY <1>0, <1>1, <1>9, <1>10, <1>12, <1>13 DEF TransInv

\* killSocket destroys an object without a transaction; its future is not waited for.
LEMMA KillTrans ==
    ASSUME Before, NEW s \in Sockets, NEW c \in CloseTypes, ReadyKill(s, c), ~disturbed'
    PROVE  TransInv'
  <1>0. /\ joining = NoTask /\ Tracking /\ ObjectOK(s) /\ TypeInv /\ LeakInv
        /\ \A t \in Tasks : TaskOK(t)
    BY DEF Before, TransInv
  <1>1. /\ pc = "ready" /\ pc' = "ready" /\ i \in 1..Len(tabs) /\ s = tabs[i] /\ ~Undergoing(s)
        /\ tabs' = Erase(tabs, i) /\ sock' = [sock EXCEPT ![s] = "closed"]
        /\ joining' = Unfinished(s) /\ data' = [data EXCEPT ![s] = 0] /\ ~Moves
        /\ UNCHANGED <<running, transactionState, tabScoutingName, taskVars>>
    BY DEF ReadyKill, AtReady, KillSocket
  <1>2. /\ parent' = [parent EXCEPT ![s] = Slot(i)]
        /\ transactionType' = [transactionType EXCEPT ![s] = c]
        /\ success' = [success EXCEPT ![s] = FALSE]
        /\ (nread' = nread \/ nread' = [nread EXCEPT ![s] = @ + 1])
    BY DEF ReadyKill, ReadTransactionData
  <1>3. Registered' = Registered \ {s} /\ s \in Registered
    <2>1. \A m, n \in 1..Len(tabs) : tabs[m] = tabs[n] => m = n
      BY <1>0 DEF LeakInv, NoSocketLeak
    <2>2. tabs \in Seq(Sockets)
      BY <1>0 DEF TypeInv, TypeOK, RegType
    <2>3. Registered' = Registered \ {s}
      BY <1>1, <2>1, <2>2, RegisteredErase
    <2> QED BY <1>1, <2>3 DEF Registered
  <1>4. ~Busy(s) /\ IdleFuture(s)
    BY <1>0, <1>1, <1>3 DEF Busy, Fresh, ObjectOK
  <1>5. joining' = NoTask
    BY <1>1, <1>4 DEF Unfinished, IdleFuture
  <1>6. \A r : Busy(r)' <=> Busy(r)
    BY <1>1 DEF Busy, Fresh, Undergoing
  <1>7. ASSUME NEW r \in Sockets \ {s} PROVE SameObject(r) /\ nread'[r] = nread[r] /\ sock'[r] = sock[r]
    BY <1>0, <1>1, <1>2 DEF SameObject, TypeInv, TypeOK, ObjType, NetType
  <1>8. \A t : SameTask(t)
    BY <1>1 DEF SameTask, taskVars, outVars
  <1>9. data'[s] = 0 /\ sock'[s] = "closed" /\ s \notin Registered' /\ tabScoutingName'[s] \in {None, s}
    BY <1>0, <1>1, <1>3 DEF TypeInv, TypeOK, ObjType, NetType, ObjectOK
  <1>10. ObjectOK(s)'
    BY <1>9 DEF ObjectOK
  <1>11. /\ \A r \in Sockets \ {s} : ObjectOK(r)'
         /\ \A t \in Tasks : t[1] # s => TaskOK(t)'
    BY <1>3, <1>6, <1>7, <1>8, OthersKept
  <1>12. ASSUME NEW t \in Tasks, t[1] = s PROVE TaskOK(t)'
    <2>1. t[2] > nread'[t[1]] => t[2] > nread[t[1]]
      <3>1. nread[s] \in Nat /\ t[2] \in Int /\ nread' \in [Sockets -> Int]
            /\ (nread'[s] = nread[s] \/ nread'[s] = nread[s] + 1)
        BY <1>0, <1>2, MaxReqAssumption DEF TypeInv, TypeOK, NetType, Tasks
      <3> QED BY <1>12, <3>1
    <2> QED BY <1>0, <1>4, <1>8, <1>12, <2>1, TaskKept
  <1>13. \A k \in 1..Len(running) : At(running[k])' = At(running[k])
    BY <1>1 DEF Moves, At
  <1>14. Tracking'
    <2>1. ASSUME NEW k \in 1..Len(running), NEW r, r = At(running[k])
          PROVE  r # None /\ transactionState'[r] /\ parent'[r] = running[k]
      <3>1. /\ r # None /\ transactionState[r] /\ parent[r] = running[k] /\ r \in Sockets \ {s}
        BY <1>0, <1>1, <2>1, AtRegistered, RegisteredType DEF Tracking, Undergoing
      <3> QED BY <1>1, <1>7, <3>1 DEF SameObject
    <2>2. \A r \in Registered' : Undergoing(r)' => \E k \in 1..Len(running) : At(running[k])' = r
      BY <1>0, <1>1, <1>3, <1>13 DEF Tracking, Undergoing
    <2>3. \A k, l \in 1..Len(running) : running[k] = running[l] => k = l
      BY <1>0 DEF Tracking
    <2>4. running' = running
      BY <1>1
    <2> QED BY <1>13, <2>1, <2>2, <2>3, <2>4 DEF Tracking, Undergoing
  <1>15. Checking' /\ Ending'
    BY <1>1 DEF Checking, Ending
  <1> QED BY <1>5, <1>10, <1>11, <1>12, <1>14, <1>15 DEF TransInv

\* clear() destroys no object with a transaction.
LEMMA ClearTrans ==
    ASSUME Before, Clear, ~disturbed'
    PROVE  TransInv'
  <1>0. /\ joining = NoTask /\ Tracking /\ TypeInv
        /\ \A s \in Sockets : ObjectOK(s)
        /\ \A t \in Tasks : TaskOK(t)
    BY DEF Before, TransInv
  <1>1. /\ pc \in {"clear", "exitClear"} /\ pc' \in {"accept", "closed"} /\ tabs' = <<>> /\ ~Moves
        /\ data' = [s \in Sockets |-> IF s \in Registered THEN 0 ELSE data[s]]
        /\ UNCHANGED <<joining, running, transactionState, parent, transactionType, success,
                       tabScoutingName, sock, nread, taskVars>>
    BY DEF Clear, transVars
  <1>2. Len(tabs') = 0 /\ Registered' = {}
    BY <1>1 DEF Registered
  <1>3. ASSUME NEW k \in 1..Len(running) PROVE FALSE
    <2>1. At(running[k])' = At(running[k])
      BY <1>1, <1>3 DEF Moves, At
    <2>2. At(running[k])' = None
      BY <1>2 DEF At, Stored
    <2> QED BY <1>0, <2>1, <2>2 DEF Tracking
  <1>4. \A s \in Registered : ~Busy(s)
    BY <1>0, <1>1, <1>3 DEF Tracking, Busy, Fresh
  <1>5. ASSUME NEW s \in Sockets PROVE ObjectOK(s)'
    <2>1. data'[s] = 0 \/ data'[s] = data[s]
      BY <1>1
    <2>2. Fut(s)' = <<s, data'[s]>>
      BY DEF Fut
    <2>3. UNCHANGED <<tstate, rows>>
      BY <1>1 DEF taskVars, outVars
    <2> QED BY <1>0, <1>1, <1>2, <2>1, <2>2, <2>3 DEF ObjectOK, Undergoing, Fut
  <1>6. ASSUME NEW t \in Tasks PROVE TaskOK(t)'
    <2>1. SameTask(t)
      BY <1>1 DEF SameTask, taskVars, outVars
    <2> QED BY <1>0, <1>1, <1>4, <2>1, TaskKept
  <1>7. Tracking' /\ Checking' /\ Ending'
    BY <1>1, <1>2, <1>3 DEF Tracking, Checking, Ending
  <1> QED BY <1>0, <1>1, <1>5, <1>6, <1>7 DEF TransInv

-----------------------------------------------------------------------------
(* A transaction begins.                                                   *)

\* What every code read does, whether or not it is one the server knows.
LEMMA StartShape ==
    ASSUME Before, NEW s \in Sockets, NEW mode \in LaunchModes, ReadyStart(s, mode)
    PROVE  /\ pc = "ready" /\ pc' = "check" /\ i \in 1..Len(tabs) /\ s = tabs[i]
           /\ s \in Registered /\ sock[s] = "open" /\ ~Undergoing(s) /\ ~Busy(s)
           /\ code[s] \notin CloseTypes
           /\ nread' = [nread EXCEPT ![s] = nread[s] + 1]
           /\ parent' = [parent EXCEPT ![s] = Slot(i)]
           /\ transactionType' = [transactionType EXCEPT ![s] = code[s]]
           /\ nread[s] + 1 \in 1..MaxReq
           /\ UNCHANGED <<i, tabs, buf, running, transactionState, tabScoutingName, sock, tok,
                          tfrom, rows>>
  <1>0. TypeInv /\ LeakInv
    BY DEF Before
  <1>1. /\ pc = "ready" /\ pc' = "check" /\ i \in 1..Len(tabs) /\ s = tabs[i] /\ ~Undergoing(s)
        /\ code[s] \notin CloseTypes /\ code[s] # NoByte
        /\ UNCHANGED <<i, tabs, buf, running, transactionState, tabScoutingName, sock, tok,
                       tfrom, rows>>
    BY DEF ReadyStart, AtReady, regVars
  <1>2. /\ parent' = [parent EXCEPT ![s] = Slot(i)]
        /\ transactionType' = [transactionType EXCEPT ![s] = code[s]]
        /\ nread' = [nread EXCEPT ![s] = nread[s] + 1]
    BY <1>1 DEF ReadyStart, ReadTransactionData, CloseTypes
  <1>3. s \in Registered /\ ~Busy(s)
    BY <1>1 DEF Registered, Busy, Fresh
  <1>4. sock[s] = "open"
    BY <1>0, <1>1, <1>3 DEF LeakInv, NoSocketLeak
  <1>5. nread[s] + 1 \in 1..MaxReq
    BY <1>0, <1>1, MaxReqAssumption DEF TypeInv, TypeOK, NetType, Counted
  <1> QED BY <1>1, <1>2, <1>3, <1>4, <1>5

\* What is neither the object nor the new task stays as it was.
LEMMA StartOthers ==
    ASSUME Before, NEW s \in Sockets, NEW mode \in LaunchModes, ReadyStart(s, mode)
    PROVE  /\ \A r \in Sockets \ {s} : ObjectOK(r)'
           /\ \A t \in Tasks : t[1] # s => TaskOK(t)'
           /\ Tracking' /\ Checking' /\ Ending'
  <1>0. TypeInv /\ Tracking
    BY DEF Before, TransInv
  <1>1. /\ pc = "ready" /\ pc' = "check" /\ i \in 1..Len(tabs) /\ s = tabs[i]
        /\ s \in Registered /\ sock[s] = "open" /\ ~Undergoing(s) /\ ~Busy(s)
        /\ code[s] \notin CloseTypes
        /\ nread' = [nread EXCEPT ![s] = nread[s] + 1]
        /\ parent' = [parent EXCEPT ![s] = Slot(i)]
        /\ transactionType' = [transactionType EXCEPT ![s] = code[s]]
        /\ UNCHANGED <<i, tabs, buf, running, transactionState, tabScoutingName, sock, tok,
                       tfrom, rows>>
    BY StartShape
  <1>2. Registered' = Registered /\ \A a : At(a)' = At(a)
    BY <1>1 DEF Registered, At, Stored
  <1>3. \A r : r # s => (Busy(r)' <=> Busy(r))
    BY <1>1 DEF Busy, Fresh, Undergoing
  <1>4. ASSUME NEW r \in Sockets \ {s}
        PROVE  SameObject(r) /\ nread'[r] = nread[r] /\ sock'[r] = sock[r]
    <2>1. data'[r] = data[r] /\ success'[r] = success[r]
      BY <1>0 DEF ReadyStart, TypeInv, TypeOK, ObjType
    <2>2. parent'[r] = parent[r] /\ transactionType'[r] = transactionType[r] /\ nread'[r] = nread[r]
      BY <1>0, <1>1 DEF TypeInv, TypeOK, ObjType, NetType
    <2> QED BY <1>1, <2>1, <2>2 DEF SameObject
  <1>5. ASSUME NEW t \in Tasks, t[1] # s PROVE SameTask(t)
    <2>1. tstate'[t] = tstate[t] /\ tcode'[t] = tcode[t] /\ tself'[t] = tself[t]
      <3>1. t # <<s, nread[s] + 1>>
        BY <1>5
      <3> QED BY <1>0, <3>1 DEF ReadyStart, TypeInv, TypeOK, TaskType
    <2> QED BY <1>1, <2>1 DEF SameTask
  <1>6. /\ \A r \in Sockets \ {s} : ObjectOK(r)'
        /\ \A t \in Tasks : t[1] # s => TaskOK(t)'
    BY <1>2, <1>3, <1>4, <1>5, OthersKept
  <1>7. Tracking'
    <2>1. ASSUME NEW k \in 1..Len(running), NEW r, r = At(running[k])
          PROVE  r # None /\ transactionState'[r] /\ parent'[r] = running[k]
      <3>1. /\ r # None /\ transactionState[r] /\ parent[r] = running[k] /\ r \in Sockets \ {s}
        BY <1>0, <1>1, <2>1, AtRegistered, RegisteredType DEF Tracking, Undergoing
      <3> QED BY <1>1, <1>4, <3>1 DEF SameObject
    <2>2. \A r \in Registered' : Undergoing(r)' => \E k \in 1..Len(running) : At(running[k])' = r
      BY <1>0, <1>1, <1>2 DEF Tracking, Undergoing
    <2>3. \A k, l \in 1..Len(running) : running[k] = running[l] => k = l
      BY <1>0 DEF Tracking
    <2>4. running' = running
      BY <1>1
    <2> QED BY <1>2, <2>1, <2>2, <2>3, <2>4 DEF Tracking, Undergoing
  <1>8. Checking' /\ Ending'
    <2>1. parent'[s] = Slot(i)' /\ transactionType'[s] = code[s]
      BY <1>0, <1>1 DEF TypeInv, TypeOK, ObjType, Slot
    <2> QED BY <1>1, <2>1 DEF Checking, Ending, Undergoing
  <1> QED BY <1>6, <1>7, <1>8

\* The object's future becomes that of the new transaction's worker, and nothing that
\* ran for it before is still running.  A code that is no write type leaves it alone.
LEMMA StartTrans ==
    ASSUME Before, NEW s \in Sockets, NEW mode \in LaunchModes, ReadyStart(s, mode)
    PROVE  TransInv'
  <1>0. /\ TypeInv /\ joining = NoTask /\ ObjectOK(s)
        /\ \A t \in Tasks : TaskOK(t)
    BY DEF Before, TransInv
  <1>1. /\ pc = "ready" /\ pc' = "check" /\ i \in 1..Len(tabs) /\ s = tabs[i]
        /\ s \in Registered /\ sock[s] = "open" /\ ~Undergoing(s) /\ ~Busy(s)
        /\ nread' = [nread EXCEPT ![s] = nread[s] + 1]
        /\ parent' = [parent EXCEPT ![s] = Slot(i)]
        /\ transactionType' = [transactionType EXCEPT ![s] = code[s]]
        /\ nread[s] + 1 \in 1..MaxReq
        /\ UNCHANGED <<i, tabs, buf, running, transactionState, tabScoutingName, sock, tok,
                       tfrom, rows>>
    BY StartShape
  <1>2. /\ \A r \in Sockets \ {s} : ObjectOK(r)'
        /\ \A t \in Tasks : t[1] # s => TaskOK(t)'
        /\ Tracking' /\ Checking' /\ Ending'
    BY StartOthers
  <1>3. /\ nread[s] \in Nat /\ nread'[s] = nread[s] + 1 /\ data[s] \in Nat
        /\ parent'[s] = Slot(i) /\ transactionType'[s] = code[s]
        /\ Registered' = Registered
    BY <1>0, <1>1, Numbers DEF TypeInv, TypeOK, ObjType, NetType, Registered
  <1>4. IdleFuture(s) /\ tabScoutingName[s] \in {None, s}
        /\ (data[s] # 0 => data[s] <= nread[s] /\ tstate[Fut(s)] # "none" /\ rows[Fut(s)] = 0)
    BY <1>0, <1>1 DEF ObjectOK
  <1>5. \A t \in Tasks : t[1] = s =>
           t[2] \in Nat /\ (t[2] > nread'[t[1]] => t[2] > nread[t[1]])
    BY <1>3 DEF Tasks
  <1>6. ASSUME Unknown(code[s])
        PROVE  ObjectOK(s)' /\ joining' = NoTask /\ \A t \in Tasks : t[1] = s => TaskOK(t)'
    <2>1. UNCHANGED <<data, joining, tstate, tcode, tself>>
      BY <1>6 DEF ReadyStart, Unknown
    <2>2. ~Busy(s)'
      BY <1>1, <1>3, <1>6 DEF Busy, Fresh, Undergoing
    <2>3. \A t : SameTask(t)
      BY <1>1, <2>1 DEF SameTask
    <2>4. ObjectOK(s)'
      <3>1. Fut(s)' = Fut(s)
        BY <2>1 DEF Fut
      <3>2. IdleFuture(s)'
        BY <1>4, <2>1, <3>1 DEF IdleFuture
      <3>3. data'[s] # 0 => data'[s] <= nread'[s] /\ tstate'[Fut(s)'] # "none" /\ rows'[Fut(s)'] = 0
        BY <1>1, <1>3, <1>4, <2>1, <3>1
      <3> QED BY <1>1, <1>4, <2>2, <3>2, <3>3 DEF ObjectOK
    <2>5. \A t \in Tasks : t[1] = s => TaskOK(t)'
      BY <1>0, <1>1, <1>5, <2>3, TaskKept
    <2> QED BY <1>0, <2>1, <2>4, <2>5
  <1>7. ASSUME ~Unknown(code[s])
        PROVE  ObjectOK(s)' /\ joining' = NoTask /\ \A t \in Tasks : t[1] = s => TaskOK(t)'
    <2>1. PICK t0 : t0 = <<s, nread[s] + 1>>
      OBVIOUS
    <2>2. /\ data' = [data EXCEPT ![s] = nread[s] + 1] /\ joining' = Unfinished(s)
          /\ tstate' = [tstate EXCEPT ![t0] = IF mode = "async" THEN "active" ELSE "deferred"]
          /\ tcode' = [tcode EXCEPT ![t0] = code[s]]
          /\ tself' = [tself EXCEPT ![t0] = Slot(i)]
      BY <1>7, <2>1 DEF ReadyStart, Unknown
    <2>3. t0 \in Tasks /\ t0[1] = s /\ t0[2] = nread[s] + 1
      BY <1>1, <2>1 DEF Tasks
    <2>4. /\ tstate'[t0] \in {"active", "deferred"} /\ tcode'[t0] = code[s] /\ tself'[t0] = Slot(i)
          /\ data'[s] = nread[s] + 1
          /\ \A t \in Tasks : t # t0 => /\ tstate'[t] = tstate[t] /\ tcode'[t] = tcode[t]
                                        /\ tself'[t] = tself[t]
      BY <1>0, <2>2, <2>3 DEF TypeInv, TypeOK, TaskType, ObjType
    <2>5. Fut(s)' = t0 /\ data'[s] # 0 /\ data'[s] <= nread'[s]
      BY <1>3, <2>1, <2>4 DEF Fut
    <2>6. rows[t0] = 0
      BY <1>0, <1>3, <2>3 DEF TaskOK
    <2>7. Busy(s)'
      BY <1>1, <1>3, <1>7 DEF Busy, Fresh
    <2>8. BusyFuture(s)'
      <3>1. tself'[t0] = parent'[s] /\ tcode'[t0] = transactionType'[s] /\ tstate'[t0] # "done"
        BY <1>3, <2>4
      <3> QED BY <2>5, <3>1 DEF BusyFuture
    <2>9. ObjectOK(s)'
      BY <1>1, <1>4, <2>4, <2>5, <2>6, <2>7, <2>8 DEF ObjectOK
    <2>10. joining' = NoTask
      BY <1>4, <2>2 DEF Unfinished, IdleFuture
    <2>11. ASSUME NEW t \in Tasks, t[1] = s PROVE TaskOK(t)'
      <3>1. CASE t = t0
        <4>1. ~(t0[2] > nread'[t0[1]])
          BY <1>3, <2>3
        <4>2. rows'[t0] = 0 /\ tstate'[t0] # "done" /\ t0[1] \in Registered' /\ Busy(t0[1])'
              /\ Fut(t0[1])' = t0
          BY <1>1, <1>3, <2>3, <2>4, <2>5, <2>6, <2>7
        <4> QED BY <3>1, <4>1, <4>2 DEF TaskOK
      <3>2. CASE t # t0
        <4>1. SameTask(t)
          BY <1>1, <2>4, <3>2 DEF SameTask
        <4> QED BY <1>0, <1>1, <1>5, <2>11, <4>1, TaskKept
      <3> QED BY <3>1, <3>2
    <2> QED BY <2>9, <2>10, <2>11
  <1> QED BY <1>2, <1>6, <1>7 DEF TransInv

-----------------------------------------------------------------------------
(* The workers.                                                            *)

\* A worker that begins or ends writes to no object but its own.
LEMMA WorkerTrans ==
    ASSUME Before, NEW t \in Tasks, NEW ok \in BOOLEAN, WorkerBegins(t) \/ WorkerEnds(t, ok)
    PROVE  TransInv'
  <1>0. /\ TypeInv /\ joining = NoTask /\ Tracking /\ Checking /\ Ending
        /\ \A s \in Sockets : ObjectOK(s)
        /\ \A r \in Tasks : TaskOK(r)
    BY DEF Before, TransInv
  <1>1. tstate[t] = "active"
    BY DEF WorkerBegins, WorkerEnds
  <1>2. PICK s \in Sockets : s = t[1]
    BY DEF Tasks
  <1>3. /\ s \in Registered /\ Fut(s) = t /\ Busy(s) /\ At(tself[t]) = s /\ Source(t) = s
        /\ s # None
    BY <1>1, <1>2, ActiveOwn, NoneAssumption
  <1>4. /\ UNCHANGED <<pc, i, joining, tabs, buf, running, transactionState, parent,
                       transactionType, data, tabScoutingName, sock, nread, tcode, tself, rows>>
        /\ \E v \in BOOLEAN : success' = [success EXCEPT ![s] = v]
    BY <1>3 DEF WorkerBegins, WorkerEnds, TaskEnds, SuccessSet, mainVars, regVars, transVars,
                taskVars
  <1>5. \A r \in Tasks \ {t} : SameTask(r)
    BY <1>0, <1>4 DEF WorkerBegins, WorkerEnds, TaskEnds, taskVars, outVars, SameTask, TypeInv,
                      TypeOK, TaskType
  <1>6. \/ SameTask(t)
        \/ /\ tstate'[t] = "done" /\ tfrom'[t] = s /\ success'[s] = tok'[t]
           /\ tcode'[t] = tcode[t] /\ tself'[t] = tself[t] /\ rows'[t] = rows[t]
    <2>1. CASE WorkerBegins(t)
      BY <2>1 DEF WorkerBegins, taskVars, outVars, SameTask
    <2>2. CASE WorkerEnds(t, ok)
      BY <1>0, <1>3, <2>2 DEF WorkerEnds, TaskEnds, SuccessSet, TypeInv, TypeOK, TaskType, ObjType
    <2> QED BY <2>1, <2>2
  <1>7. Registered' = Registered /\ (\A a : At(a)' = At(a)) /\ (\A r : Busy(r)' <=> Busy(r))
        /\ \A r : Fut(r)' = Fut(r)
    BY <1>4 DEF Registered, At, Stored, Busy, Fresh, Undergoing, Fut
  <1>8. \A r \in Sockets \ {s} : SameObject(r) /\ nread'[r] = nread[r] /\ sock'[r] = sock[r]
    BY <1>0, <1>4 DEF SameObject, TypeInv, TypeOK, ObjType
  <1>9. /\ \A r \in Sockets \ {s} : ObjectOK(r)'
    BY <1>2, <1>5, <1>7, <1>8, OthersKept
  <1>10. ObjectOK(s)'
    <2>1. BusyFuture(s) /\ ObjectOK(s)
      BY <1>0, <1>3 DEF ObjectOK
    <2>2. BusyFuture(s)'
      BY <1>1, <1>3, <1>4, <1>6, <1>7, <2>1 DEF BusyFuture, SameTask
    <2>3. tstate'[t] # "none" /\ rows'[t] = rows[t]
      BY <1>1, <1>6 DEF SameTask
    <2> QED BY <1>3, <1>4, <1>7, <2>1, <2>2, <2>3 DEF ObjectOK, Undergoing
  <1>11. ASSUME NEW r \in Tasks \ {t} PROVE TaskOK(r)'
    BY <1>0, <1>4, <1>5, <1>7, TaskKept
  <1>12. TaskOK(t)'
    <2>1. CASE SameTask(t)
      BY <1>0, <1>4, <1>7, <2>1, TaskKept
    <2>2. CASE /\ tstate'[t] = "done" /\ tfrom'[t] = s /\ success'[s] = tok'[t]
               /\ tcode'[t] = tcode[t] /\ tself'[t] = tself[t] /\ rows'[t] = rows[t]
      <3>1. rows[t] = 0 /\ ~(t[2] > nread[t[1]])
        BY <1>0, <1>1 DEF TaskOK
      <3> QED BY <1>2, <1>3, <1>4, <1>7, <2>2, <3>1 DEF TaskOK
    <2> QED BY <1>6, <2>1, <2>2
  <1>13. Tracking' /\ Checking' /\ Ending'
    BY <1>0, <1>4, <1>7 DEF Tracking, Checking, Ending, Undergoing, Slot
  <1> QED BY <1>0, <1>4, <1>9, <1>10, <1>11, <1>12, <1>13 DEF TransInv

-----------------------------------------------------------------------------
(* isReady is asked of a new transaction.                                  *)

\* The object that handleReadyConnections is at.
LEMMA CheckShape ==
    ASSUME Before, NEW s \in Sockets, AtCheck(s)
    PROVE  /\ pc = "check" /\ i \in 1..Len(tabs) /\ s = tabs[i] /\ s \in Registered
           /\ ~Undergoing(s) /\ transactionType[s] \notin CloseTypes /\ parent[s] = Slot(i)
           /\ sock[s] = "open"
           /\ \A r : r # s => (Busy(r) <=> Undergoing(r))
  <1>0. Checking /\ LeakInv
    BY DEF Before, TransInv
  <1>1. /\ pc = "check" /\ s = tabs[i] /\ i \in 1..Len(tabs) /\ s \in Registered
        /\ ~Undergoing(s) /\ transactionType[s] \notin CloseTypes /\ parent[s] = Slot(i)
    BY <1>0 DEF AtCheck, Checking, Registered
  <1>2. sock[s] = "open"
    BY <1>0, <1>1 DEF LeakInv, NoSocketLeak
  <1> QED BY <1>1, <1>2 DEF Busy, Fresh

\* An empty future is that of a code no case of the switch knows.
LEMMA CheckEmptyTrans ==
    ASSUME Before, NEW s \in Sockets, CheckEmpty(s)
    PROVE  TransInv'
  <1>0. ObjectOK(s)
    BY DEF Before, TransInv
  <1>1. /\ AtCheck(s) /\ data[s] = 0 /\ pc' = "terminated"
        /\ UNCHANGED <<i, joining, tabs, buf, running, objVars, nread, taskVars, sock>>
    BY DEF CheckEmpty, regVars
  <1>2. /\ pc = "check" /\ s = tabs[i] /\ s \in Registered
        /\ ~Undergoing(s) /\ transactionType[s] \notin CloseTypes
        /\ \A r : r # s => (Busy(r) <=> Undergoing(r))
    BY <1>1, CheckShape
  <1>3. ~Busy(s)
    BY <1>0, <1>1, <1>2 DEF ObjectOK, BusyFuture
  <1>4. Unknown(transactionType[s])
    BY <1>2, <1>3 DEF Busy, Fresh
  <1>5. transactionType[s] \notin EnumCodes
    BY <1>2, <1>4 DEF Unknown, WriteTransaction, EnumCodes, ResultTypes, TRANS_RECV_MATCH,
                      TRANS_RECV_TABLET_INFO
  <1>6. UNCHANGED <<transactionState, parent, transactionType, success, data, tabScoutingName,
                    tstate, tcode, tself, tok, tfrom, rows>>
    BY <1>1 DEF objVars, transVars, taskVars, outVars
  <1>7. Checking' /\ Ending'
    BY <1>1, <1>2, <1>5, <1>6 DEF Checking, Ending
  <1>8. \A r : SameObject(r)
    BY <1>6 DEF SameObject
  <1>9. ASSUME NEW r PROVE Busy(r)' <=> Busy(r)
    BY <1>1, <1>2, <1>3, <1>6 DEF Busy, Fresh, Undergoing
  <1> QED BY <1>1, <1>6, <1>7, <1>8, <1>9, TransSame

\* A transaction whose worker runs is entered into runningTransactions.
LEMMA CheckRunningTrans ==
    ASSUME Before, NEW s \in Sockets, CheckRunning(s)
    PROVE  TransInv'
  <1>0. /\ TypeInv /\ joining = NoTask /\ Tracking /\ ObjectOK(s)
        /\ \A t \in Tasks : TaskOK(t)
    BY DEF Before, TransInv
  <1>1. /\ AtCheck(s) /\ data[s] # 0 /\ tstate[Fut(s)] = "active" /\ pc' = "ready"
        /\ running' = Append(running, Slot(i))
        /\ transactionState' = [transactionState EXCEPT ![s] = TRUE]
        /\ UNCHANGED <<joining, tabs, buf, parent, transactionType, success, data,
                       tabScoutingName, sock, nread, tstate, tcode, tself, tok, tfrom, rows>>
    BY DEF CheckRunning, IsReady, Tracked, regVars, transVars, taskVars, outVars
  <1>2. /\ pc = "check" /\ i \in 1..Len(tabs) /\ s = tabs[i] /\ s \in Registered
        /\ ~Undergoing(s) /\ parent[s] = Slot(i) /\ sock[s] = "open"
        /\ \A r : r # s => (Busy(r) <=> Undergoing(r))
    BY <1>1, CheckShape
  <1>3. Busy(s)
    BY <1>0, <1>1, <1>2 DEF ObjectOK, IdleFuture
  <1>4. transactionState'[s] /\ \A r \in Sockets \ {s} : transactionState'[r] = transactionState[r]
    BY <1>0, <1>1 DEF TypeInv, TypeOK, ObjType
  <1>5. \A r \in Sockets : Busy(r)' <=> Busy(r)
    BY <1>1, <1>2, <1>3, <1>4 DEF Busy, Fresh, Undergoing
  <1>6. Registered' = Registered /\ (\A a : At(a)' = At(a)) /\ \A r : Fut(r)' = Fut(r)
    BY <1>1 DEF Registered, At, Stored, Fut
  <1>7. \A t : SameTask(t)
    BY <1>1 DEF SameTask
  <1>8. \A r \in Sockets \ {s} : ObjectOK(r)'
    BY <1>1, <1>4, <1>5, <1>6, <1>7, OthersKept DEF SameObject
  <1>9. ObjectOK(s)'
    BY <1>0, <1>1, <1>2, <1>3, <1>5, <1>6 DEF ObjectOK, BusyFuture
  <1>10. ASSUME NEW t \in Tasks PROVE TaskOK(t)'
    <2>1. t[1] \in Sockets
      BY DEF Tasks
    <2> QED BY <1>0, <1>1, <1>5, <1>6, <1>7, <2>1, TaskKept
  <1>11. /\ Len(running') = Len(running) + 1 /\ Len(running) \in Nat
         /\ \A k \in 1..Len(running) : running'[k] = running[k]
         /\ running'[Len(running) + 1] = Slot(i)
    BY <1>0, <1>1, AppendProperties, LenProperties DEF TypeInv, TypeOK, RegType
  <1>12. At(Slot(i)) = s
    BY <1>2 DEF At, Stored, Slot
  <1>13. \A k \in 1..Len(running) : At(running[k]) \in Sockets \ {s}
    BY <1>0, <1>2, AtRegistered, RegisteredType DEF Tracking
  <1>14. Tracking'
    <2>1. ASSUME NEW k \in 1..Len(running'), NEW r, r = At(running'[k])
          PROVE  r # None /\ transactionState'[r] /\ parent'[r] = running'[k]
      <3>1. CASE k \in 1..Len(running)
        BY <1>0, <1>1, <1>4, <1>11, <1>13, <2>1, <3>1 DEF Tracking, Undergoing
      <3>2. CASE k = Len(running) + 1
        BY <1>1, <1>2, <1>4, <1>11, <1>12, <2>1, <3>2, NoneAssumption
      <3> QED BY <1>11, <3>1, <3>2
    <2>2. \A k, l \in 1..Len(running') : running'[k] = running'[l] => k = l
      <3>1. \A k \in 1..Len(running') : k \in 1..Len(running) \/ k = Len(running) + 1
        BY <1>11
      <3>2. \A k \in 1..Len(running) : running[k] # Slot(i)
        BY <1>12, <1>13
      <3>3. \A k, l \in 1..Len(running) : running[k] = running[l] => k = l
        BY <1>0 DEF Tracking
      <3> QED BY <1>11, <3>1, <3>2, <3>3
    <2>3. ASSUME NEW r \in Registered, transactionState'[r]
          PROVE  \E k \in 1..Len(running') : At(running'[k]) = r
      <3>1. CASE r = s
        BY <1>11, <1>12, <3>1
      <3>2. CASE r # s
        <4>1. r \in Sockets
          BY <1>0, RegisteredType
        <4>2. PICK k \in 1..Len(running) : At(running[k]) = r
          BY <1>0, <1>4, <2>3, <3>2, <4>1 DEF Tracking, Undergoing
        <4>3. k \in 1..Len(running') /\ running'[k] = running[k]
          BY <1>11
        <4> QED BY <4>2, <4>3
      <3> QED BY <3>1, <3>2
    <2>4. \A k \in 1..Len(running') : At(running[k])' = At(running'[k])
      BY <1>1 DEF At, Stored
    <2> QED BY <1>6, <2>1, <2>2, <2>3, <2>4 DEF Tracking, Undergoing
  <1>15. Checking' /\ Ending'
    BY <1>1 DEF Checking, Ending
  <1> QED BY <1>0, <1>1, <1>8, <1>9, <1>10, <1>14, <1>15 DEF TransInv

-----------------------------------------------------------------------------
(* The result of a transaction is handled.                                 *)

\* A ready future that get() is called on holds the tablet's own payload, and success
\* says whether all of it is there: also when the read is carried out only now.
LEMMA HandleEffect ==
    ASSUME Before, NEW s \in Sockets, s \in Registered, Busy(s), IsReady(s), Consumes(s),
           NEW ok \in BOOLEAN, HandleTransResult(s, ok),
           UNCHANGED <<parent, transactionType, tcode, tself>>,
           NEW f, f = Fut(s)
    PROVE  /\ f \in Tasks /\ tstate'[f] = "done" /\ tfrom'[f] = s /\ success'[s] = tok'[f]
           /\ data' = [data EXCEPT ![s] = 0]
           /\ rows'[f] = (IF tcode[f] = TRANS_RECV_MATCH /\ tok'[f] THEN 1 ELSE 0)
           /\ \A t \in Tasks \ {f} : SameTask(t)
           /\ \A r \in Sockets \ {s} : success'[r] = success[r]
           /\ \A r \in Sockets \ {s} : tabScoutingName'[r] = tabScoutingName[r]
           /\ tabScoutingName'[s] \in {None, s}
  <1>0. TypeInv /\ ObjectOK(s) /\ (\A t \in Tasks : TaskOK(t))
    BY DEF Before, TransInv
  <1>1. BusyFuture(s) /\ At(parent[s]) = s /\ s # None /\ tabScoutingName[s] \in {None, s}
    BY <1>0, BusyAt, NoneAssumption DEF ObjectOK
  <1>2. /\ f \in Tasks /\ f[1] = s /\ data[s] # 0 /\ tself[f] = parent[s]
        /\ tcode[f] = transactionType[s] /\ (tstate[f] = "done" => success[s] = tok[f])
        /\ tstate[f] \notin {"active", "none"} /\ rows[f] = 0
    <2>1. data[s] # 0
      BY <1>1 DEF BusyFuture
    <2>2. f \in Tasks /\ f[1] = s
      BY <1>0, <2>1, FutType DEF TypeInv, TypeOK, Fut
    <2> QED BY <1>0, <1>1, <2>1, <2>2 DEF BusyFuture, ObjectOK, IsReady
  <1>3. At(tself[f]) = s /\ Source(f) = s
    BY <1>1, <1>2 DEF Source
  <1>4. /\ tstate'[f] = "done" /\ tfrom'[f] = s /\ success'[s] = tok'[f]
        /\ \A t \in Tasks \ {f} : tstate'[t] = tstate[t] /\ tok'[t] = tok[t] /\ tfrom'[t] = tfrom[t]
        /\ \A r \in Sockets \ {s} : success'[r] = success[r]
    <2>0. /\ tstate \in [Tasks -> {"none", "active", "deferred", "done"}]
          /\ tok \in [Tasks -> BOOLEAN]
          /\ tfrom \in [Tasks -> Sockets \cup {None}]
          /\ success \in [Sockets -> BOOLEAN]
      BY <1>0 DEF TypeInv, TypeOK, TaskType, ObjType
    <2>1. CASE tstate[f] = "deferred"
      <3>1. TaskEnds(f, ok)
        BY <2>1 DEF HandleTransResult, RunsNow
      <3> QED BY <1>1, <1>2, <1>3, <2>0, <3>1 DEF TaskEnds, SuccessSet
    <2>2. CASE tstate[f] # "deferred"
      <3>1. UNCHANGED <<tstate, tok, tfrom, success>>
        BY <2>2 DEF HandleTransResult, RunsNow, outVars
      <3>2. tstate[f] = "done"
        BY <1>2, <2>0, <2>2
      <3>3. tfrom[f] = s
        BY <1>0, <1>2, <3>2 DEF TaskOK
      <3> QED BY <1>2, <3>1, <3>2, <3>3
    <2> QED BY <2>1, <2>2
  <1>5. data' = [data EXCEPT ![s] = 0]
    BY DEF HandleTransResult
  <1>6. /\ rows'[f] = (IF tcode[f] = TRANS_RECV_MATCH /\ tok'[f] THEN 1 ELSE 0)
        /\ \A t \in Tasks \ {f} : rows'[t] = rows[t]
    <2>1. rows \in [Tasks -> Nat]
      BY <1>0 DEF TypeInv, TypeOK, TaskType
    <2>2. rows' = IF transactionType[s] = TRANS_RECV_MATCH /\ success'[s]
                    THEN [rows EXCEPT ![f] = @ + 1] ELSE rows
      BY DEF HandleTransResult, Inserts
    <2> QED BY <1>2, <1>4, <2>1, <2>2
  <1>7. \A t \in Tasks \ {f} : SameTask(t)
    BY <1>4, <1>6 DEF SameTask
  <1>8. /\ \A r \in Sockets \ {s} : tabScoutingName'[r] = tabScoutingName[r]
        /\ tabScoutingName'[s] \in {None, s}
    <2>1. tabScoutingName \in [Sockets -> Sockets \cup {None}]
      BY <1>0 DEF TypeInv, TypeOK, ObjType
    <2>2. \/ tabScoutingName' = tabScoutingName
          \/ tabScoutingName' = [tabScoutingName EXCEPT ![s] = s]
      BY <1>1, <1>4 DEF HandleTransResult, Named
    <2> QED BY <1>1, <2>1, <2>2
  <1> QED BY <1>2, <1>4, <1>5, <1>6, <1>7, <1>8

\* Handling a result leaves the object without a transaction, and everything else alone.
LEMMA HandleTrans ==
    ASSUME Before, NEW s \in Sockets, s \in Registered, Busy(s), IsReady(s), sock[s] = "open",
           NEW ok \in BOOLEAN, HandleTransResult(s, ok),
           UNCHANGED <<tabs, parent, transactionType, sock, nread, tcode, tself>>,
           ~Busy(s)',
           \A r \in Sockets \ {s} : /\ transactionState'[r] = transactionState[r]
                                    /\ Busy(r)' <=> Busy(r)
    PROVE  /\ \A r \in Sockets : ObjectOK(r)'
           /\ \A t \in Tasks : TaskOK(t)'
  <1>0. TypeInv /\ ObjectOK(s) /\ (\A t \in Tasks : TaskOK(t))
    BY DEF Before, TransInv
  <1>1. BusyFuture(s) /\ tabScoutingName[s] \in {None, s} /\ ~Undergoing(s)'
    BY <1>0 DEF ObjectOK, Busy
  <1>2. Registered' = Registered
    BY DEF Registered
  <1>3. PICK f : f = Fut(s)
    OBVIOUS
  <1>4. /\ f \in Tasks /\ f[1] = s /\ data[s] # 0 /\ tcode[f] = transactionType[s]
        /\ tstate[f] # "active" /\ f[2] = data[s] /\ data[s] <= nread[s] /\ tstate[f] # "none"
        /\ rows[f] = 0
    <2>1. data[s] # 0
      BY <1>1 DEF BusyFuture
    <2>2. f \in Tasks /\ f[1] = s /\ f[2] = data[s]
      BY <1>0, <1>3, <2>1, FutType DEF TypeInv, TypeOK, Fut
    <2> QED BY <1>0, <1>1, <1>3, <2>1, <2>2 DEF BusyFuture, ObjectOK, IsReady
  <1>5. data[s] \in Nat /\ nread[s] \in Nat
    BY <1>0, Numbers
  <1>6. CASE Consumes(s)
    <2>1. /\ tstate'[f] = "done" /\ tfrom'[f] = s /\ success'[s] = tok'[f]
          /\ data' = [data EXCEPT ![s] = 0]
          /\ rows'[f] = (IF tcode[f] = TRANS_RECV_MATCH /\ tok'[f] THEN 1 ELSE 0)
          /\ \A t \in Tasks \ {f} : SameTask(t)
          /\ \A r \in Sockets \ {s} : success'[r] = success[r]
          /\ \A r \in Sockets \ {s} : tabScoutingName'[r] = tabScoutingName[r]
          /\ tabScoutingName'[s] \in {None, s}
      BY <1>3, <1>6, HandleEffect
    <2>2. data'[s] = 0 /\ \A r \in Sockets \ {s} : data'[r] = data[r]
      BY <1>0, <2>1 DEF TypeInv, TypeOK, ObjType
    <2>3. ObjectOK(s)'
      BY <2>1, <2>2 DEF ObjectOK, IdleFuture
    <2>4. \A r \in Sockets \ {s} : SameObject(r)
      BY <2>1, <2>2 DEF SameObject
    <2>5. \A t \in Tasks : t[1] # s => SameTask(t)
      BY <1>4, <2>1
    <2>6. /\ \A r \in Sockets \ {s} : ObjectOK(r)'
          /\ \A t \in Tasks : t[1] # s => TaskOK(t)'
      BY <1>2, <2>4, <2>5, OthersKept
    <2>7. ASSUME NEW t \in Tasks, t[1] = s, t # f PROVE TaskOK(t)'
      BY <1>0, <1>3, <2>1, <2>7, TaskKept
    <2>8. TaskOK(f)'
      <3>1. ~(f[2] > nread'[f[1]]) /\ tcode'[f] = tcode[f]
        BY <1>4, <1>5
      <3> QED BY <1>4, <2>1, <3>1 DEF TaskOK
    <2> QED BY <2>3, <2>6, <2>7, <2>8
  <1>7. CASE ~Consumes(s)
    <2>1. UNCHANGED <<tstate, tok, tfrom, success, data, rows, tabScoutingName>>
      BY <1>7 DEF HandleTransResult, Consumes, RunsNow, Inserts, ResultTypes, outVars
    <2>2. \A t : SameTask(t)
      BY <2>1 DEF SameTask
    <2>3. \A r \in Sockets \ {s} : SameObject(r)
      BY <2>1 DEF SameObject
    <2>4. /\ \A r \in Sockets \ {s} : ObjectOK(r)'
          /\ \A t \in Tasks : t[1] # s => TaskOK(t)'
      BY <1>2, <2>2, <2>3, OthersKept
    <2>5. ObjectOK(s)'
      <3>1. Fut(s)' = f
        BY <1>3, <2>1 DEF Fut
      <3>2. IdleFuture(s)'
        BY <1>4, <1>7, <2>1, <3>1 DEF IdleFuture, Consumes
      <3> QED BY <1>1, <1>4, <2>1, <3>1, <3>2 DEF ObjectOK
    <2>6. ASSUME NEW t \in Tasks, t[1] = s, t # f PROVE TaskOK(t)'
      BY <1>0, <1>3, <2>2, <2>6, TaskKept
    <2>7. TaskOK(f)'
      <3>1. tcode[f] \notin ResultTypes /\ tcode[f] # TRANS_RECV_MATCH
        BY <1>4, <1>7 DEF Consumes, ResultTypes
      <3> QED BY <1>0, <1>4, <2>2, <3>1 DEF TaskOK, SameTask
    <2> QED BY <2>4, <2>5, <2>6, <2>7
  <1> QED BY <1>6, <1>7

\* In handleReadyConnections, for a transaction that had nothing to wait for.
LEMMA CheckReadyTrans ==
    ASSUME Before, NEW s \in Sockets, NEW ok \in BOOLEAN, CheckReady(s, ok)
    PROVE  TransInv'
  <1>0. /\ TypeInv /\ joining = NoTask /\ Tracking /\ ObjectOK(s)
    BY DEF Before, TransInv
  <1>1. /\ AtCheck(s) /\ data[s] # 0 /\ IsReady(s) /\ HandleTransResult(s, ok) /\ pc' = "ready"
        /\ UNCHANGED <<joining, tabs, buf, running, transactionState, parent, transactionType,
                       sock, nread, tcode, tself>>
    BY DEF CheckReady, regVars, transVars
  <1>2. /\ pc = "check" /\ s = tabs[i] /\ s \in Registered /\ ~Undergoing(s) /\ sock[s] = "open"
        /\ \A r : r # s => (Busy(r) <=> Undergoing(r))
    BY <1>1, CheckShape
  <1>3. \A r : Busy(r)' <=> Undergoing(r)
    BY <1>1 DEF Busy, Fresh, Undergoing
  <1>4. Checking' /\ Ending'
    BY <1>1 DEF Checking, Ending
  <1>5. CASE Busy(s)
    <2>1. /\ \A r \in Sockets : ObjectOK(r)'
          /\ \A t \in Tasks : TaskOK(t)'
      BY <1>1, <1>2, <1>3, <1>5, HandleTrans
    <2>2. \A a : At(a)' = At(a)
      BY <1>1 DEF At, Stored
    <2>3. Tracking'
      BY <1>0, <1>1, <2>2 DEF Tracking, Registered, Undergoing
    <2> QED BY <1>0, <1>1, <1>4, <2>1, <2>3 DEF TransInv
  <1>6. CASE ~Busy(s)
    <2>1. transactionType[s] \notin ResultTypes
      BY <1>2, <1>6 DEF Busy, Fresh, Unknown, WriteTransaction, ResultTypes, TRANS_RECV_MATCH,
                        TRANS_RECV_TABLET_INFO
    <2>2. UNCHANGED <<tstate, tok, tfrom, success, data, rows, tabScoutingName>>
      BY <1>1, <2>1 DEF HandleTransResult, Consumes, RunsNow, Inserts, ResultTypes, outVars
    <2>3. \A r : SameObject(r) /\ (Busy(r)' <=> Busy(r))
      BY <1>1, <1>2, <1>3, <1>6, <2>2 DEF SameObject
    <2> QED BY <1>1, <1>4, <2>2, <2>3, TransSame
  <1> QED BY <1>5, <1>6

\* What vector::erase leaves of a vector without repetitions: the other elements.
LEMMA EraseOthers ==
    ASSUME NEW S, NEW q \in Seq(S), NEW k \in 1..Len(q),
           \A m, n \in 1..Len(q) : q[m] = q[n] => m = n,
           NEW e, e = Erase(q, k)
    PROVE  /\ \A j \in 1..Len(e) : \E m \in 1..Len(q) : m # k /\ e[j] = q[m]
           /\ \A m \in 1..Len(q) : m # k => \E j \in 1..Len(e) : e[j] = q[m]
           /\ \A j, l \in 1..Len(e) : e[j] = e[l] => j = l
  <1>1. Len(q) \in Nat
    BY LenProperties
  <1>2. /\ Len(e) = Len(q) - 1
        /\ \A j \in 1..(k - 1) : e[j] = q[j]
        /\ \A j \in k..(Len(q) - 1) : e[j] = q[j + 1]
    BY EraseLemma
  <1> DEFINE old(j) == IF j < k THEN j ELSE j + 1
  <1>3. \A j \in 1..Len(e) : old(j) \in 1..Len(q) /\ old(j) # k /\ e[j] = q[old(j)]
    BY <1>1, <1>2
  <1>4. \A j, l \in 1..Len(e) : old(j) = old(l) => j = l
    BY <1>1, <1>2
  <1>5. ASSUME NEW m \in 1..Len(q), m # k PROVE \E j \in 1..Len(e) : old(j) = m
    <2>1. CASE m < k
      <3>1. m \in 1..Len(e) /\ old(m) = m
        BY <1>1, <1>2, <2>1
      <3> QED BY <3>1
    <2>2. CASE m > k
      <3>1. m - 1 \in 1..Len(e) /\ old(m - 1) = m
        BY <1>1, <1>2, <2>2
      <3> QED BY <3>1
    <2> QED BY <1>1, <1>5, <2>1, <2>2
  <1> HIDE DEF old
  <1> QED BY <1>3, <1>4, <1>5

\* The same of runningTransactions.
LEMMA RunningErased ==
    ASSUME running \in Seq(Addr), i \in 1..Len(running), running' = Erase(running, i),
           \A m, n \in 1..Len(running) : running[m] = running[n] => m = n
    PROVE  /\ \A j \in 1..Len(running') : \E m \in 1..Len(running) : m # i /\ running'[j] = running[m]
           /\ \A m \in 1..Len(running) : m # i => \E j \in 1..Len(running') : running'[j] = running[m]
           /\ \A j, l \in 1..Len(running') : running'[j] = running'[l] => j = l
  <1>1. PICK q : q = running
    OBVIOUS
  <1>2. PICK k : k = i
    OBVIOUS
  <1>3. PICK e : e = running'
    OBVIOUS
  <1>4. q \in Seq(Addr) /\ k \in 1..Len(q) /\ e = Erase(q, k)
        /\ \A m, n \in 1..Len(q) : q[m] = q[n] => m = n
    BY <1>1, <1>2, <1>3
  <1>5. /\ \A j \in 1..Len(e) : \E m \in 1..Len(q) : m # k /\ e[j] = q[m]
        /\ \A m \in 1..Len(q) : m # k => \E j \in 1..Len(e) : e[j] = q[m]
        /\ \A j, l \in 1..Len(e) : e[j] = e[l] => j = l
    BY ONLY <1>4, EraseOthers
  <1> QED BY <1>1, <1>2, <1>3, <1>5

\* In handleRunningTransactions, for one whose worker has ended since.
LEMMA RunningReadyTrans ==
    ASSUME Before, NEW s \in Sockets, NEW ok \in BOOLEAN, RunningReady(s, ok)
    PROVE  TransInv'
  <1>0. /\ TypeInv /\ LeakInv /\ joining = NoTask /\ Tracking
    BY DEF Before, TransInv
  <1>1. /\ pc = "running" /\ i \in 1..Len(running) /\ s = At(running[i]) /\ IsReady(s)
        /\ HandleTransResult(s, ok) /\ pc' = "running"
        /\ transactionState' = [transactionState EXCEPT ![At(parent[s])] = FALSE]
        /\ running' = Erase(running, i)
        /\ UNCHANGED <<joining, tabs, buf, parent, transactionType, sock, nread, tcode, tself>>
    BY DEF RunningReady, AtRunning, Released, Untracked, regVars, transVars
  <1>2. s \in Registered /\ Undergoing(s) /\ parent[s] = running[i]
    BY <1>0, <1>1, AtRegistered DEF Tracking
  <1>3. Busy(s) /\ At(parent[s]) = s /\ sock[s] = "open"
    BY <1>0, <1>1, <1>2, BusyAt DEF Busy, LeakInv, NoSocketLeak
  <1>4. ~transactionState'[s] /\ \A r \in Sockets \ {s} : transactionState'[r] = transactionState[r]
    BY <1>0, <1>1, <1>3 DEF TypeInv, TypeOK, ObjType
  <1>5. ~Busy(s)' /\ \A r \in Sockets \ {s} : Busy(r)' <=> Busy(r)
    BY <1>1, <1>4 DEF Busy, Fresh, Undergoing
  <1>6. /\ \A r \in Sockets : ObjectOK(r)'
        /\ \A t \in Tasks : TaskOK(t)'
    BY <1>1, <1>2, <1>3, <1>4, <1>5, HandleTrans
  <1>7. /\ \A j \in 1..Len(running') : \E m \in 1..Len(running) : m # i /\ running'[j] = running[m]
        /\ \A m \in 1..Len(running) : m # i => \E j \in 1..Len(running') : running'[j] = running[m]
        /\ \A j, l \in 1..Len(running') : running'[j] = running'[l] => j = l
    <2>1. running \in Seq(Addr) /\ \A m, n \in 1..Len(running) : running[m] = running[n] => m = n
      BY <1>0 DEF TypeInv, TypeOK, RegType, Tracking
    <2>2. i \in 1..Len(running) /\ running' = Erase(running, i)
      BY <1>1
    <2> QED BY <2>1, <2>2, RunningErased
  <1>8. Registered' = Registered /\ \A j : At(running[j])' = At(running'[j])
    BY <1>1 DEF Registered, At, Stored
  <1>9. Tracking'
    <2>1. ASSUME NEW j \in 1..Len(running'), NEW r, r = At(running'[j])
          PROVE  r # None /\ transactionState'[r] /\ parent'[r] = running'[j]
      <3>1. PICK m \in 1..Len(running) : m # i /\ running'[j] = running[m]
        BY <1>7
      <3>2. r # None /\ transactionState[r] /\ parent[r] = running[m]
        BY <1>0, <2>1, <3>1 DEF Tracking, Undergoing
      <3>3. r # s
        BY <1>0, <1>1, <1>2, <3>1, <3>2 DEF Tracking
      <3>4. r \in Sockets
        BY <1>0, <2>1, <3>2, AtRegistered, RegisteredType
      <3> QED BY <1>1, <1>4, <3>1, <3>2, <3>3, <3>4
    <2>2. ASSUME NEW r \in Registered, transactionState'[r]
          PROVE  \E j \in 1..Len(running') : At(running'[j]) = r
      <3>1. r \in Sockets \ {s}
        BY <1>0, <1>4, <2>2, RegisteredType
      <3>2. PICK m \in 1..Len(running) : At(running[m]) = r
        BY <1>0, <1>4, <2>2, <3>1 DEF Tracking, Undergoing
      <3>3. PICK j \in 1..Len(running') : running'[j] = running[m]
        BY <1>1, <1>7, <3>1, <3>2
      <3> QED BY <3>2, <3>3
    <2> QED BY <1>7, <1>8, <2>1, <2>2 DEF Tracking, Undergoing
  <1>10. Checking' /\ Ending'
    BY <1>1 DEF Checking, Ending
  <1> QED BY <1>0, <1>1, <1>6, <1>9, <1>10 DEF TransInv

\* A pointer in runningTransactions leads to an object whose future has a shared state
\* and whose parent leads back.
LEMMA RunningSound ==
    ASSUME Before, NEW k \in 1..Len(running), NEW s, s = At(running[k])
    PROVE  s # None /\ s \in Registered /\ data[s] # 0 /\ At(parent[s]) = s
  <1>0. Tracking /\ TypeInv /\ \A r \in Sockets : ObjectOK(r)
    BY DEF Before, TransInv
  <1>1. s # None /\ s \in Registered /\ Busy(s) /\ s \in Sockets
    BY <1>0, AtRegistered, RegisteredType DEF Tracking, Busy
  <1>2. BusyFuture(s)
    BY <1>0, <1>1 DEF ObjectOK
  <1> QED BY <1>1, <1>2, BusyAt DEF BusyFuture

-----------------------------------------------------------------------------
(* All steps.                                                              *)

\* Nothing has begun at the start.
LEMMA InitTrans == Init => TransInv
  <1> SUFFICES ASSUME Init PROVE TransInv
    OBVIOUS
  <1>1. /\ pc = "start" /\ joining = NoTask /\ Len(running) = 0 /\ Len(tabs) = 0
        /\ \A s \in Sockets : ~transactionState[s] /\ data[s] = 0 /\ tabScoutingName[s] = None
        /\ \A t \in Tasks : tstate[t] = "none" /\ rows[t] = 0
    BY DEF Init
  <1>2. Registered = {}
    BY <1>1 DEF Registered
  <1>3. Tracking /\ Checking /\ Ending
    BY <1>1, <1>2 DEF Tracking, Checking, Ending
  <1>4. ASSUME NEW s \in Sockets PROVE ObjectOK(s)
    BY <1>1, <1>2 DEF ObjectOK, Undergoing
  <1>5. ASSUME NEW t \in Tasks PROVE TaskOK(t)
    BY <1>1 DEF TaskOK
  <1> QED BY <1>1, <1>3, <1>4, <1>5 DEF TransInv

\* An object that was moved or destroyed in its transaction is not forgotten.
LEMMA DisturbedStays ==
    ASSUME [Next]_vars, disturbed
    PROVE  disturbed'
  <1>1. disturbed' = disturbed \/ disturbed' = (disturbed \/ Moves)
    BY DEF Next, MainStep, Workers, Tablets, Halted, ResetTabs, CloseWindow, vars, Connect, Send,
           PeerGone, Start, AcceptConn, AcceptNone, ReadyDone, ReadySkip, ReadyKill, KillSocket,
           ReadyStart, Joined, WorkerBegins, WorkerEnds, CheckEmpty, CheckReady, CheckRunning,
           RunningDone, RunningWait, RunningEmpty, RunningReady, RunningDead, NextFrame,
           CloseAll, Clear
  <1> QED BY <1>1

\* Every step keeps transactions and their objects in agreement.
LEMMA NextTrans == TypeInv /\ LeakInv /\ OwnInv /\ TransInv /\ [Next]_vars => TransInv'
  <1> SUFFICES ASSUME TypeInv, LeakInv, OwnInv, TransInv, [Next]_vars, ~disturbed'
               PROVE  TransInv'
    BY DEF TransInv
  <1>0. Before
    BY DisturbedStays DEF Before
  <1>x. joining = NoTask
    BY <1>0 DEF Before, TransInv
  <1>1. CASE UNCHANGED vars
    BY <1>0, <1>1, TransKept DEF vars, mainVars, regVars
  <1>2. ASSUME NEW s \in Sockets, Connect(s) PROVE TransInv'
    <2>1. \A r \in Sockets : sock'[r] \in {"none", "queued"} => sock[r] \in {"none", "queued"}
      <3>1. sock[s] \in {"none", "queued"}
        BY <1>2 DEF Connect, LeakInv
      <3> QED BY <1>2, <3>1 DEF Connect, TypeInv, TypeOK, NetType
    <2> QED BY <1>0, <1>2, <2>1, TransKept DEF Connect, mainVars, regVars
  <1>3. ASSUME NEW s \in Sockets, NEW c \in Codes, Send(s, c) PROVE TransInv'
    BY <1>0, <1>3, TransKept DEF Send, mainVars, regVars
  <1>4. ASSUME NEW s \in Sockets, NEW how \in Faults, PeerGone(s, how) PROVE TransInv'
    BY <1>0, <1>4, TransKept DEF PeerGone, mainVars, regVars
  <1>5. ASSUME NEW failed \in SUBSET StartFailures, NEW seen \in BOOLEAN, Start(failed, seen)
        PROVE TransInv'
    BY <1>0, <1>5, TransKept DEF Start
  <1>6. ASSUME NEW s \in Sockets, AcceptConn(s) PROVE TransInv'
    BY <1>0, <1>6, AcceptTrans
  <1>7. CASE AcceptNone \/ ReadyDone \/ RunningDone \/ NextFrame
    BY <1>0, <1>7, TransKept DEF AcceptNone, ReadyDone, RunningDone, NextFrame, regVars
  <1>8. ASSUME NEW s \in Sockets, ReadySkip(s) \/ RunningWait(s) PROVE TransInv'
    <2>1. /\ pc \in {"ready", "running"} /\ pc' = pc
          /\ UNCHANGED <<joining, tabs, buf, running, objVars, nread, taskVars, sock>>
      BY <1>8 DEF ReadySkip, AtReady, RunningWait, AtRunning, regVars
    <2> QED BY <1>0, <2>1, TransKept
  <1>9. ASSUME NEW s \in Sockets, NEW c \in CloseTypes, ReadyKill(s, c) PROVE TransInv'
    BY <1>0, <1>9, KillTrans
  <1>10. ASSUME NEW s \in Sockets, NEW mode \in LaunchModes, ReadyStart(s, mode) PROVE TransInv'
    BY <1>0, <1>10, StartTrans
  <1>11. CASE Joined
    BY <1>x, <1>11 DEF Joined
  <1>12. ASSUME NEW t \in Tasks, NEW ok \in BOOLEAN, WorkerBegins(t) \/ WorkerEnds(t, ok)
         PROVE TransInv'
    BY <1>0, <1>12, WorkerTrans
  <1>13. ASSUME NEW s \in Sockets, CheckEmpty(s) PROVE TransInv'
    BY <1>0, <1>13, CheckEmptyTrans
  <1>14. ASSUME NEW s \in Sockets, NEW ok \in BOOLEAN, CheckReady(s, ok) PROVE TransInv'
    BY <1>0, <1>14, CheckReadyTrans
  <1>15. ASSUME NEW s \in Sockets, CheckRunning(s) PROVE TransInv'
    BY <1>0, <1>15, CheckRunningTrans
  <1>16. ASSUME NEW s \in Sockets, RunningEmpty(s) PROVE TransInv'
    <2>1. i \in 1..Len(running) /\ s = At(running[i]) /\ data[s] = 0
      BY <1>16 DEF RunningEmpty, AtRunning
    <2> QED BY <1>0, <2>1, RunningSound
  <1>17. ASSUME NEW s \in Sockets, NEW ok \in BOOLEAN, RunningReady(s, ok) PROVE TransInv'
    BY <1>0, <1>17, RunningReadyTrans
  <1>18. CASE RunningDead
    <2>1. /\ i \in 1..Len(running)
          /\ \/ At(running[i]) = None
             \/ \E s \in Sockets : s = At(running[i]) /\ At(parent[s]) = None
      BY <1>18 DEF RunningDead, AtRunning
    <2>2. \A s : s = At(running[i]) => s # None /\ At(parent[s]) = s
      BY <1>0, <2>1, RunningSound
    <2> QED BY <2>1, <2>2
  <1>19. ASSUME NEW next \in {"clear", "exitClear"}, pc = "scene", CloseAll(next) PROVE TransInv'
    <2>1. \A r \in Sockets : sock'[r] \in {"none", "queued"} => sock[r] \in {"none", "queued"}
      BY <1>19 DEF CloseAll
    <2> QED BY <1>0, <1>19, <2>1, TransKept DEF CloseAll, regVars
  <1>20. CASE Clear
    BY <1>0, <1>20, ClearTrans
  <1> QED
    BY <1>1, <1>2, <1>3, <1>4, <1>5, <1>6, <1>7, <1>8, <1>9, <1>10, <1>11, <1>12, <1>13, <1>14,
       <1>15, <1>16, <1>17, <1>18, <1>19, <1>20
    DEF Next, MainStep, Workers, Tablets, Halted, ResetTabs, CloseWindow

\* The whole inductive invariant of the server.
ServerInv == TypeInv /\ LeakInv /\ OwnInv /\ TransInv

\* It holds whatever the interleaving of frames, workers and tablets.
LEMMA ServerInvariant == Spec => []ServerInv
  <1>1. Init => ServerInv
    BY InitType, InitLeak, InitOwn, InitTrans DEF ServerInv
  <1>2. ServerInv /\ [Next]_vars => ServerInv'
    BY NextType, NextLeak, NextOwn, NextTrans DEF ServerInv
  <1> QED BY <1>1, <1>2, PTL DEF Spec

\* As long as no object with a running transaction has been moved or destroyed,
\* runningTransactions holds exactly one pointer to each object that is flagged as
\* undergoing a transaction, and the object's parent pointer leads back to it.
THEOREM PointersAgree == Spec => []TransactionsTracked
  <1>1. ServerInv => TransactionsTracked
    <2> SUFFICES ASSUME ServerInv, ~disturbed PROVE TransactionsTracked
      BY DEF TransactionsTracked
    <2>1. Before /\ Tracking
      BY DEF ServerInv, Before, TransInv
    <2>2. \A k \in 1..Len(running) : data[At(running[k])] # 0
      BY <2>1, RunningSound
    <2> QED BY <2>1, <2>2 DEF TransactionsTracked, Tracking
  <1> QED BY <1>1, ServerInvariant, PTL

\* The frame loop never joins a worker in killSocket or initReadyTransaction: the
\* futures they destroy or replace belong to transactions that were dealt with.
THEOREM FramesNeverWait == Spec => []NeverWaits
  <1>1. ServerInv => NeverWaits
    BY DEF ServerInv, TransInv, NeverWaits
  <1> QED BY <1>1, ServerInvariant, PTL

\* handleRunningTransactions follows no pointer to dead memory and asks no future
\* without shared state; only a code outside the enumeration makes isReady throw.
THEOREM OnlyUnknownCodesAbort == Spec => []NoAbort
  <1>1. ServerInv => NoAbort
    BY DEF ServerInv, TransInv, NoAbort, Ending
  <1> QED BY <1>1, ServerInvariant, PTL

\* The payload of a transaction comes from the tablet that asked for it, and a tablet
\* is shown under its MAC address or a name it has sent.
THEOREM PayloadsAreOwn == Spec => []PayloadIsOwn
  <1>1. ServerInv => PayloadIsOwn
    <2> SUFFICES ASSUME ServerInv, ~disturbed PROVE PayloadIsOwn
      BY DEF PayloadIsOwn
    <2>1. /\ \A s \in Sockets : ObjectOK(s)
          /\ \A t \in Tasks : TaskOK(t)
          /\ \A s \in Registered : s \in Sockets
      BY RegisteredType DEF ServerInv, TransInv
    <2> QED BY <2>1 DEF PayloadIsOwn, ObjectOK, TaskOK
  <1> QED BY <1>1, ServerInvariant, PTL

\* A match received in full is inserted once, by whichever of the two loops sees it
\* ready, and is held by its object until then; one not received in full never is.
THEOREM MatchesConserved == Spec => []MatchConservation
  <1>1. ServerInv => MatchConservation
    <2> SUFFICES ASSUME ServerInv, ~disturbed PROVE MatchConservation
      BY DEF MatchConservation
    <2>1. \A t \in Tasks : TaskOK(t)
      BY DEF ServerInv, TransInv
    <2> QED BY <2>1 DEF MatchConservation, TaskOK
  <1> QED BY <1>1, ServerInvariant, PTL

\* The main thread reads a transaction code from a socket only when no worker reads or
\* writes that socket: undergoingTransaction is flag enough to keep them apart.
THEOREM ReadsExclude == Spec => ExclusiveRead
  <1> DEFINE Apart == \A s \in Sockets :
                 nread'[s] # nread[s] /\ ~disturbed =>
                     \A t \in Tasks : tstate[t] = "active" => Source(t) # s
  <1>1. ServerInv /\ [Next]_vars => [Apart]_vars
    <2> SUFFICES ASSUME ServerInv, [Next]_vars, NEW s \in Sockets, nread'[s] # nread[s],
                        ~disturbed, NEW t \in Tasks, tstate[t] = "active", Source(t) = s
                 PROVE  FALSE
      BY DEF Apart
    <2>1. Before
      BY DEF ServerInv, Before
    <2>2. Busy(s)
      BY <2>1, ActiveOwn
    <2>3. nread \in [Sockets -> 0..MaxReq]
      BY DEF ServerInv, TypeInv, TypeOK, NetType
    <2>4. \E r \in Sockets : AtReady(r) /\ ~Undergoing(r) /\ nread' = [nread EXCEPT ![r] = @ + 1]
      BY DEF Next, MainStep, Workers, Tablets, Halted, ResetTabs, CloseWindow, vars, Connect, Send,
             PeerGone, Start, AcceptConn, AcceptNone, ReadyDone, ReadySkip, ReadyKill,
             ReadyStart, ReadTransactionData, Joined, WorkerBegins, WorkerEnds, CheckEmpty,
             CheckReady, CheckRunning, RunningDone, RunningWait, RunningEmpty, RunningReady,
             RunningDead, NextFrame, CloseAll, Clear
    <2> QED BY <2>2, <2>3, <2>4 DEF AtReady, Busy, Fresh
  <1> QED BY <1>1, ServerInvariant, PTL DEF Spec, ExclusiveRead

-----------------------------------------------------------------------------
(* The server implements TabletService.                                    *)

\* The phases, case by case.
LEMMA PhaseNone ==
    ASSUME NEW t, tstate[t] = "none"
    PROVE  PhaseOf(t) = "idle"
  BY DEF PhaseOf

\* A deferred task that nobody asks is taken and never carried out.
LEMMA PhaseSkipped ==
    ASSUME NEW t, tstate[t] = "deferred", tcode[t] \notin ResultTypes
    PROVE  PhaseOf(t) = "skipped"
  BY DEF PhaseOf

\* One that runs, or that get() will run.
LEMMA PhaseWorking ==
    ASSUME NEW t, tstate[t] = "active" \/ (tstate[t] = "deferred" /\ tcode[t] \in ResultTypes)
    PROVE  PhaseOf(t) = IF tcode[t] = TRANS_RECV_MATCH THEN "receiving" ELSE "serving"
  BY DEF PhaseOf

\* One that has ended.
LEMMA PhaseEnded ==
    ASSUME NEW t, tstate[t] = "done", rows[t] = 0
    PROVE  PhaseOf(t) = IF ~tok[t] THEN "failed"
                        ELSE IF tcode[t] = TRANS_RECV_MATCH THEN "received" ELSE "served"
  BY DEF PhaseOf

\* A match in the database.
LEMMA PhaseStored ==
    ASSUME NEW t, tstate[t] = "done", rows[t] = 1, tok[t], tcode[t] = TRANS_RECV_MATCH
    PROVE  PhaseOf(t) = "stored"
  BY DEF PhaseOf

\* A task that a step leaves alone stays in its phase.
LEMMA PhaseSame ==
    ASSUME NEW t, SameTask(t)
    PROVE  PhaseOf(t)' = PhaseOf(t)
  BY DEF SameTask, PhaseOf

\* A step of one task is a move of one transaction.
LEMMA PhaseMoves ==
    ASSUME NEW x \in Tasks, NEW from, NEW to, PhaseOf(x) \in from, PhaseOf(x)' = to,
           \A t \in Tasks \ {x} : PhaseOf(t)' = PhaseOf(t)
    PROVE  Service!Moves(x, from, to)
  BY DEF Service!Moves

\* What the steps of the service are in terms of the server's.
SameConns == \A s \in Sockets : ConnOf(s)' = ConnOf(s)
SamePhases == \A t \in Tasks : PhaseOf(t)' = PhaseOf(t)

\* A step that takes or closes connections is one of the service.
LEMMA ConnRefines ==
    ASSUME Service!ConnStep, SamePhases, disturbed => disturbed'
    PROVE  Service!Next
  <1>1. CASE disturbed'
    BY <1>1 DEF Service!Next
  <1>2. CASE ~disturbed'
    <2>1. (~disturbed)' = ~disturbed
      BY <1>2
    <2>2. [t \in Tasks |-> PhaseOf(t)]' = [t \in Tasks |-> PhaseOf(t)]
      BY DEF SamePhases
    <2> QED BY <2>1, <2>2 DEF Service!Next
  <1> QED BY <1>1, <1>2

\* A step that does neither, and changes no phase or moves one transaction.
LEMMA PhaseRefines ==
    ASSUME SameConns, disturbed => disturbed',
           ~disturbed' => SamePhases \/ Service!PhaseStep
    PROVE  [Service!Next]_Service!vars
  <1>1. [s \in Sockets |-> ConnOf(s)]' = [s \in Sockets |-> ConnOf(s)]
    BY DEF SameConns
  <1>2. CASE disturbed'
    BY <1>1, <1>2 DEF Service!Next
  <1>3. CASE ~disturbed'
    <2>1. (~disturbed)' = ~disturbed /\ ~disturbed
      BY <1>3
    <2>2. CASE SamePhases
      <3>1. [t \in Tasks |-> PhaseOf(t)]' = [t \in Tasks |-> PhaseOf(t)]
        BY <2>2 DEF SamePhases
      <3> QED BY <1>1, <2>1, <3>1 DEF Service!vars
    <2>3. CASE Service!PhaseStep
      BY <1>1, <2>1, <2>3 DEF Service!Next
    <2> QED BY <1>3, <2>2, <2>3
  <1> QED BY <1>2, <1>3

\* acceptConn takes a connection that was away.
LEMMA AcceptRefines ==
    ASSUME TypeInv, NEW s \in Sockets, AcceptConn(s), disturbed => disturbed'
    PROVE  Service!Next
  <1>1. /\ sock[s] = "queued" /\ sock'[s] = "open" /\ \A r \in Sockets \ {s} : sock'[r] = sock[r]
        /\ \A t : SameTask(t)
    BY DEF AcceptConn, TypeInv, TypeOK, NetType, taskVars, outVars, SameTask
  <1>2. /\ ConnOf(s) = "away" /\ ConnOf(s)' = "open"
        /\ \A r \in Sockets \ {s} : ConnOf(r)' = ConnOf(r)
    BY <1>1 DEF ConnOf
  <1>3. Service!ConnStep
    BY <1>2 DEF Service!ConnStep, Service!Admit
  <1>4. SamePhases
    BY <1>1, PhaseSame DEF SamePhases
  <1> QED BY <1>3, <1>4, ConnRefines

\* Closing the connections in S, all of them open.
LEMMA DropRefines ==
    ASSUME TypeInv, NEW S \in SUBSET Sockets, \A s \in S : sock[s] = "open",
           \A s \in Sockets : sock'[s] = IF s \in S THEN "closed" ELSE sock[s],
           UNCHANGED taskVars, disturbed => disturbed'
    PROVE  Service!Next
  <1>1. \A s \in S : ConnOf(s) = "open"
    BY DEF ConnOf
  <1>2. \A s \in Sockets : ConnOf(s)' = IF s \in S THEN "closed" ELSE ConnOf(s)
    BY DEF ConnOf, TypeInv, TypeOK, NetType
  <1>3. Service!Drop(S)
    BY <1>1, <1>2 DEF Service!Drop
  <1>4. Service!ConnStep
    BY <1>3 DEF Service!ConnStep
  <1>5. SamePhases
    <2>1. \A t : SameTask(t)
      BY DEF SameTask, taskVars, outVars
    <2> QED BY <2>1, PhaseSame DEF SamePhases
  <1> QED BY <1>4, <1>5, ConnRefines

\* killSocket closes the connection of the tablet that asked for it.
LEMMA KillRefines ==
    ASSUME TypeInv, LeakInv, NEW s \in Sockets, NEW c \in CloseTypes, ReadyKill(s, c),
           disturbed => disturbed'
    PROVE  Service!Next
  <1>1. s \in Registered /\ pc = "ready"
    BY DEF ReadyKill, AtReady, Registered
  <1>2. sock[s] = "open"
    BY <1>1 DEF LeakInv, NoSocketLeak
  <1>3. \A r \in Sockets : sock'[r] = IF r \in {s} THEN "closed" ELSE sock[r]
    BY DEF ReadyKill, KillSocket, TypeInv, TypeOK, NetType
  <1>4. UNCHANGED taskVars
    BY DEF ReadyKill
  <1> QED BY <1>2, <1>3, <1>4, DropRefines

\* killAllSockets closes those of all registered tablets.
LEMMA CloseAllRefines ==
    ASSUME TypeInv, LeakInv, NEW next, pc = "scene", CloseAll(next), disturbed => disturbed'
    PROVE  Service!Next
  <1>1. Registered \in SUBSET Sockets
    BY RegisteredType
  <1>2. \A s \in Registered : sock[s] = "open"
    BY DEF LeakInv, NoSocketLeak
  <1>3. /\ \A s \in Sockets : sock'[s] = IF s \in Registered THEN "closed" ELSE sock[s]
        /\ UNCHANGED taskVars
    BY DEF CloseAll
  <1> QED BY <1>1, <1>2, <1>3, DropRefines

\* A transaction begins when those before it are over and no later one has begun.
LEMMA StartRefines ==
    ASSUME Before, NEW s \in Sockets, NEW mode \in LaunchModes, ReadyStart(s, mode)
    PROVE  SamePhases \/ Service!PhaseStep
  <1>0. TypeInv /\ \A t \in Tasks : TaskOK(t)
    BY DEF Before, TransInv
  <1>1. /\ sock[s] = "open" /\ ~Busy(s) /\ nread[s] + 1 \in 1..MaxReq
        /\ UNCHANGED <<tok, tfrom, rows>>
    BY StartShape
  <1>2. CASE Unknown(code[s])
    <2>1. UNCHANGED <<tstate, tcode, tself>>
      BY <1>2 DEF ReadyStart, Unknown
    <2>2. \A t : SameTask(t)
      BY <1>1, <2>1 DEF SameTask
    <2> QED BY <2>2, PhaseSame DEF SamePhases
  <1>3. CASE ~Unknown(code[s])
    <2>1. PICK n \in 1..MaxReq : n = nread[s] + 1
      BY <1>1
    <2>2. PICK t0 \in Tasks : t0 = <<s, n>>
      BY DEF Tasks
    <2>3. /\ tstate' = [tstate EXCEPT ![t0] = IF mode = "async" THEN "active" ELSE "deferred"]
          /\ tcode' = [tcode EXCEPT ![t0] = code[s]]
          /\ tself' = [tself EXCEPT ![t0] = Slot(i)]
      BY <1>3, <2>1, <2>2 DEF ReadyStart, Unknown
    <2>4. /\ tstate'[t0] \in {"active", "deferred"}
          /\ \A t \in Tasks \ {t0} : SameTask(t)
      BY <1>0, <1>1, <2>3 DEF TypeInv, TypeOK, TaskType, SameTask
    <2>5. nread[s] \in Nat
      BY <1>0, Numbers
    <2>6. ASSUME NEW m \in 1..MaxReq, m < n
          PROVE  PhaseOf(<<s, m>>) \in {"idle", "skipped", "served", "failed", "stored"}
      <3>1. PICK t \in Tasks : t = <<s, m>>
        BY DEF Tasks
      <3>2. t[1] = s
        BY <3>1
      <3>3. tstate[t] # "active"
        BY <1>1, <3>2, ActiveOwn
      <3>4. TaskOK(t) /\ tstate[t] \in {"none", "deferred", "done"} /\ rows[t] \in Nat
        BY <1>0, <3>3 DEF TypeInv, TypeOK, TaskType
      <3>5. CASE tstate[t] = "none"
        BY <3>1, <3>5, PhaseNone
      <3>6. CASE tstate[t] = "deferred"
        <4>1. tcode[t] \notin ResultTypes
          BY <1>1, <3>2, <3>4, <3>6 DEF TaskOK
        <4> QED BY <3>1, <3>6, <4>1, PhaseSkipped
      <3>7. CASE tstate[t] = "done" /\ rows[t] = 0
        <4>1. ~(tok[t] /\ tcode[t] = TRANS_RECV_MATCH)
          BY <1>1, <3>2, <3>4, <3>7 DEF TaskOK
        <4> QED BY <3>1, <3>7, <4>1, PhaseEnded
      <3>8. CASE tstate[t] = "done" /\ rows[t] # 0
        <4>1. rows[t] = 1 /\ tok[t] /\ tcode[t] = TRANS_RECV_MATCH
          BY <3>4, <3>8 DEF TaskOK
        <4> QED BY <3>1, <3>8, <4>1, PhaseStored
      <3> QED BY <3>4, <3>5, <3>6, <3>7, <3>8
    <2>7. ASSUME NEW m \in 1..MaxReq, ~(m < n)
          PROVE  PhaseOf(<<s, m>>) = "idle"
      <3>1. PICK t \in Tasks : t = <<s, m>>
        BY DEF Tasks
      <3>2. t[2] > nread[t[1]]
        BY <2>1, <2>5, <2>7, <3>1
      <3> QED BY <1>0, <3>1, <3>2, PhaseNone DEF TaskOK
    <2>8. PhaseOf(t0) = "idle"
      BY <2>2, <2>7
    <2>9. PICK p : p = PhaseOf(t0)'
      OBVIOUS
    <2>10. p \in {"receiving", "serving", "skipped"}
      <3>1. CASE tstate'[t0] = "active" \/ tcode'[t0] \in ResultTypes
        <4>1. PhaseOf(t0)' = IF tcode'[t0] = TRANS_RECV_MATCH THEN "receiving" ELSE "serving"
          BY <2>4, <3>1 DEF PhaseOf
        <4> QED BY <2>9, <4>1
      <3>2. CASE tstate'[t0] = "deferred" /\ tcode'[t0] \notin ResultTypes
        <4>1. PhaseOf(t0)' = "skipped"
          BY <3>2 DEF PhaseOf
        <4> QED BY <2>9, <4>1
      <3> QED BY <2>4, <3>1, <3>2
    <2>11. \A t \in Tasks \ {t0} : PhaseOf(t)' = PhaseOf(t)
      BY <2>4, PhaseSame
    <2>12. Service!Moves(t0, {"idle"}, p)
      BY <2>8, <2>9, <2>11, PhaseMoves
    <2>13. Service!Begin(s, n)
      <3>1. ConnOf(s) = "open"
        BY <1>1 DEF ConnOf
      <3>2. \A m \in 1..MaxReq : <<s, m>> \in Tasks
        BY DEF Tasks
      <3> QED BY <2>2, <2>6, <2>7, <2>10, <2>12, <3>1, <3>2 DEF Service!Begin, Service!Over
    <2> QED BY <2>13 DEF Service!PhaseStep
  <1> QED BY <1>2, <1>3

\* The end of a task: its transaction has received its match, been served or failed.
LEMMA EndRefines ==
    ASSUME NEW t \in Tasks, NEW p, PhaseOf(t)' = p,
           PhaseOf(t) \in {"receiving", "serving"},
           \A r \in Tasks \ {t} : PhaseOf(r)' = PhaseOf(r),
           \/ p = "failed"
           \/ p \in {"received", "stored"} /\ PhaseOf(t) = "receiving" /\ sock[t[1]] = "open"
           \/ p = "served" /\ PhaseOf(t) = "serving" /\ sock[t[1]] = "open"
    PROVE  Service!PhaseStep
  <1>1. t \in Service!Transactions /\ t[1] \in Sockets
    BY DEF Service!Transactions, Tasks
  <1>2. sock[t[1]] = "open" => [s \in Sockets |-> ConnOf(s)][t[1]] = "open"
    BY <1>1 DEF ConnOf
  <1>3. CASE p = "failed"
    <2>1. Service!Moves(t, {"receiving", "serving"}, "failed")
      BY <1>3, PhaseMoves
    <2> QED BY <1>1, <2>1 DEF Service!PhaseStep, Service!Fail
  <1>4. CASE p = "received" /\ PhaseOf(t) = "receiving" /\ sock[t[1]] = "open"
    <2>1. Service!Moves(t, {"receiving"}, "received")
      BY <1>4, PhaseMoves
    <2> QED BY <1>1, <1>2, <1>4, <2>1 DEF Service!PhaseStep, Service!Receive
  <1>5. CASE p = "stored" /\ PhaseOf(t) = "receiving" /\ sock[t[1]] = "open"
    <2>1. Service!Moves(t, {"receiving", "received"}, "stored")
      BY <1>5, PhaseMoves
    <2> QED BY <1>1, <1>2, <1>5, <2>1 DEF Service!PhaseStep, Service!Store
  <1>6. CASE p = "served" /\ PhaseOf(t) = "serving" /\ sock[t[1]] = "open"
    <2>1. Service!Moves(t, {"serving"}, "served")
      BY <1>6, PhaseMoves
    <2> QED BY <1>1, <1>2, <1>6, <2>1 DEF Service!PhaseStep, Service!Serve
  <1> QED BY <1>3, <1>4, <1>5, <1>6

\* A worker that ends in success has had its tablet's socket open to the end.
LEMMA WorkerRefines ==
    ASSUME Before, NEW t \in Tasks, NEW ok \in BOOLEAN, WorkerEnds(t, ok)
    PROVE  Service!PhaseStep
  <1>0. TypeInv /\ TaskOK(t) /\ tstate[t] = "active" /\ Source(t) = t[1]
    BY ActiveOwn DEF Before, TransInv, WorkerEnds
  <1>1. /\ tstate'[t] = "done" /\ tok'[t] = ok /\ UNCHANGED <<tcode, tself, rows>>
        /\ \A r \in Tasks \ {t} : SameTask(r)
    BY <1>0 DEF WorkerEnds, TaskEnds, SameTask, TypeInv, TypeOK, TaskType
  <1>2. ok => sock[t[1]] = "open"
    BY <1>0 DEF WorkerEnds, Outcomes
  <1>3. PhaseOf(t) = IF tcode[t] = TRANS_RECV_MATCH THEN "receiving" ELSE "serving"
    BY <1>0, PhaseWorking
  <1>4. rows[t] = 0
    BY <1>0 DEF TaskOK
  <1>5. PhaseOf(t)' = IF ~ok THEN "failed"
                      ELSE IF tcode[t] = TRANS_RECV_MATCH THEN "received" ELSE "served"
    BY <1>1, <1>4 DEF PhaseOf
  <1>6. \A r \in Tasks \ {t} : PhaseOf(r)' = PhaseOf(r)
    BY <1>1, PhaseSame
  <1>7. PICK p : p = PhaseOf(t)'
    OBVIOUS
  <1> QED BY <1>2, <1>3, <1>5, <1>6, <1>7, EndRefines

\* Handling a result stores a match that was received, or carries out a deferred read
\* and stores what it received; nothing else of it shows.
LEMMA HandleRefines ==
    ASSUME Before, NEW s \in Sockets, s \in Registered, Busy(s), IsReady(s), sock[s] = "open",
           NEW ok \in BOOLEAN, HandleTransResult(s, ok),
           UNCHANGED <<parent, transactionType, tcode, tself>>
    PROVE  SamePhases \/ Service!PhaseStep
  <1>0. TypeInv /\ ObjectOK(s)
    BY DEF Before, TransInv
  <1>1. CASE ~Consumes(s)
    <2>1. UNCHANGED <<tstate, tok, tfrom, rows>>
      BY <1>1 DEF HandleTransResult, Consumes, RunsNow, Inserts, ResultTypes, outVars
    <2>2. \A t : SameTask(t)
      BY <2>1 DEF SameTask
    <2> QED BY <2>2, PhaseSame DEF SamePhases
  <1>2. CASE Consumes(s)
    <2>1. PICK f : f = Fut(s)
      OBVIOUS
    <2>2. /\ f \in Tasks /\ tstate'[f] = "done"
          /\ rows'[f] = (IF tcode[f] = TRANS_RECV_MATCH /\ tok'[f] THEN 1 ELSE 0)
          /\ \A t \in Tasks \ {f} : SameTask(t)
      BY <1>2, <2>1, HandleEffect
    <2>3. /\ f[1] = s /\ tcode[f] \in ResultTypes /\ rows[f] = 0
          /\ tstate[f] \in {"deferred", "done"}
      <3>1. BusyFuture(s) /\ data[s] # 0
        BY <1>0 DEF ObjectOK, BusyFuture
      <3> QED BY <1>0, <1>2, <2>1, <2>2, <3>1 DEF BusyFuture, ObjectOK, Consumes, IsReady, Fut,
                                                  TypeInv, TypeOK, TaskType
    <2>4. \A t \in Tasks \ {f} : PhaseOf(t)' = PhaseOf(t)
      BY <2>2, PhaseSame
    <2>5. PhaseOf(f)' = IF ~tok'[f] THEN "failed"
                        ELSE IF tcode[f] = TRANS_RECV_MATCH THEN "stored" ELSE "served"
      BY <2>2 DEF PhaseOf
    <2>6. CASE tstate[f] = "deferred"
      <3>1. PhaseOf(f) = IF tcode[f] = TRANS_RECV_MATCH THEN "receiving" ELSE "serving"
        BY <2>3, <2>6, PhaseWorking
      <3>2. PICK p : p = PhaseOf(f)'
        OBVIOUS
      <3>3. Service!PhaseStep
        BY <2>2, <2>3, <2>4, <2>5, <3>1, <3>2, EndRefines
      <3> QED BY <3>3
    <2>7. CASE tstate[f] = "done"
      <3>1. tok'[f] = tok[f]
        BY <2>1, <2>7 DEF HandleTransResult, RunsNow, outVars
      <3>2. PhaseOf(f) = IF ~tok[f] THEN "failed"
                         ELSE IF tcode[f] = TRANS_RECV_MATCH THEN "received" ELSE "served"
        BY <2>3, <2>7, PhaseEnded
      <3>3. CASE tok[f] /\ tcode[f] = TRANS_RECV_MATCH
        <4>1. Service!Moves(f, {"receiving", "received"}, "stored")
          BY <2>2, <2>4, <2>5, <3>1, <3>2, <3>3, PhaseMoves
        <4>2. f \in Service!Transactions
          BY <2>2 DEF Service!Transactions, Tasks
        <4>3. [r \in Sockets |-> ConnOf(r)][f[1]] = "open"
          BY <2>3 DEF ConnOf
        <4> QED BY <4>1, <4>2, <4>3 DEF Service!PhaseStep, Service!Store
      <3>4. CASE ~(tok[f] /\ tcode[f] = TRANS_RECV_MATCH)
        BY <2>2, <2>4, <2>5, <3>1, <3>2, <3>4 DEF SamePhases
      <3> QED BY <3>3, <3>4
    <2> QED BY <2>3, <2>6, <2>7
  <1> QED BY <1>1, <1>2

\* The same of the two loops that do it.
LEMMA ReadyRefines ==
    ASSUME Before, NEW s \in Sockets, NEW ok \in BOOLEAN, CheckReady(s, ok) \/ RunningReady(s, ok)
    PROVE  SamePhases \/ Service!PhaseStep
  <1>0. Tracking /\ LeakInv
    BY DEF Before, TransInv
  <1>1. /\ IsReady(s) /\ HandleTransResult(s, ok)
        /\ UNCHANGED <<parent, transactionType, tcode, tself>>
    BY DEF CheckReady, RunningReady, transVars
  <1>2. CASE CheckReady(s, ok)
    <2>1. AtCheck(s)
      BY <1>2 DEF CheckReady
    <2>2. pc = "check" /\ s = tabs[i] /\ s \in Registered /\ sock[s] = "open"
      BY <2>1, CheckShape
    <2>3. CASE Busy(s)
      BY <1>1, <2>2, <2>3, HandleRefines
    <2>4. CASE ~Busy(s)
      <3>1. transactionType[s] \notin ResultTypes
        BY <2>2, <2>4 DEF Busy, Fresh, Unknown, WriteTransaction, ResultTypes, TRANS_RECV_MATCH,
                          TRANS_RECV_TABLET_INFO
      <3>2. UNCHANGED <<tstate, tok, tfrom, rows>>
        BY <1>1, <3>1 DEF HandleTransResult, Consumes, RunsNow, Inserts, ResultTypes, outVars
      <3>3. \A t : SameTask(t)
        BY <1>1, <3>2 DEF SameTask
      <3> QED BY <3>3, PhaseSame DEF SamePhases
    <2> QED BY <2>3, <2>4
  <1>3. CASE RunningReady(s, ok)
    <2>1. pc = "running" /\ i \in 1..Len(running) /\ s = At(running[i])
      BY <1>3 DEF RunningReady, AtRunning
    <2>2. s \in Registered /\ Busy(s)
      BY <1>0, <2>1, AtRegistered DEF Tracking, Busy
    <2>3. sock[s] = "open"
      BY <1>0, <2>1, <2>2 DEF LeakInv, NoSocketLeak
    <2> QED BY <1>1, <2>2, <2>3, HandleRefines
  <1> QED BY <1>2, <1>3

\* A step that leaves connections and tasks alone does not show.
LEMMA QuietRefines ==
    ASSUME UNCHANGED taskVars, SameConns, disturbed => disturbed'
    PROVE  [Service!Next]_Service!vars
  <1>1. \A t : SameTask(t)
    BY DEF SameTask, taskVars, outVars
  <1>2. SamePhases
    BY <1>1, PhaseSame DEF SamePhases
  <1> QED BY <1>2, PhaseRefines

\* Every step of the server is a step of the service or does not show.
LEMMA NextRefines == ServerInv /\ [Next]_vars => [Service!Next]_Service!vars
  <1> SUFFICES ASSUME ServerInv, [Next]_vars PROVE [Service!Next]_Service!vars
    OBVIOUS
  <1>0. TypeInv /\ LeakInv /\ (disturbed => disturbed')
    BY DisturbedStays DEF ServerInv
  <1>b. ~disturbed => Before
    BY DEF ServerInv, Before
  <1>c. UNCHANGED sock => SameConns
    BY DEF SameConns, ConnOf
  <1>1. CASE UNCHANGED vars
    BY <1>0, <1>1, <1>c, QuietRefines DEF vars
  <1>2. ASSUME NEW s \in Sockets, Connect(s) PROVE [Service!Next]_Service!vars
    <2>1. /\ sock[s] \in {"none", "queued"} /\ UNCHANGED taskVars
          /\ sock'[s] = "queued" /\ \A r \in Sockets \ {s} : sock'[r] = sock[r]
      BY <1>0, <1>2 DEF Connect, LeakInv, TypeInv, TypeOK, NetType
    <2>2. SameConns
      <3>1. ConnOf(s) = "away" /\ ConnOf(s)' = "away"
        BY <2>1 DEF ConnOf
      <3>2. \A r \in Sockets \ {s} : ConnOf(r)' = ConnOf(r)
        BY <2>1 DEF ConnOf
      <3> QED BY <3>1, <3>2 DEF SameConns
    <2> QED BY <1>0, <2>1, <2>2, QuietRefines
  <1>3. ASSUME NEW s \in Sockets, NEW c \in Codes, Send(s, c)
        PROVE  [Service!Next]_Service!vars
    BY <1>0, <1>3, <1>c, QuietRefines DEF Send
  <1>4. ASSUME NEW s \in Sockets, NEW how \in Faults, PeerGone(s, how)
        PROVE  [Service!Next]_Service!vars
    BY <1>0, <1>4, <1>c, QuietRefines DEF PeerGone
  <1>5. ASSUME NEW failed \in SUBSET StartFailures, NEW seen \in BOOLEAN, Start(failed, seen)
        PROVE  [Service!Next]_Service!vars
    BY <1>0, <1>5, <1>c, QuietRefines DEF Start
  <1>6. ASSUME NEW s \in Sockets, AcceptConn(s) PROVE [Service!Next]_Service!vars
    BY <1>0, <1>6, AcceptRefines
  <1>7. CASE AcceptNone \/ ReadyDone \/ Joined \/ RunningDone \/ RunningDead \/ NextFrame \/ Clear
    <2>1. UNCHANGED <<sock, taskVars>>
      BY <1>7 DEF AcceptNone, ReadyDone, Joined, RunningDone, RunningDead, NextFrame, Clear
    <2> QED BY <1>0, <1>c, <2>1, QuietRefines
  <1>8. ASSUME NEW s \in Sockets, ReadySkip(s) \/ CheckEmpty(s) \/ CheckRunning(s)
                                    \/ RunningWait(s) \/ RunningEmpty(s)
        PROVE  [Service!Next]_Service!vars
    <2>1. UNCHANGED <<sock, taskVars>>
      BY <1>8 DEF ReadySkip, CheckEmpty, CheckRunning, RunningWait, RunningEmpty
    <2> QED BY <1>0, <1>c, <2>1, QuietRefines
  <1>9. ASSUME NEW s \in Sockets, NEW c \in CloseTypes, ReadyKill(s, c)
        PROVE  [Service!Next]_Service!vars
    BY <1>0, <1>9, KillRefines
  <1>10. ASSUME NEW s \in Sockets, NEW mode \in LaunchModes, ReadyStart(s, mode)
         PROVE  [Service!Next]_Service!vars
    <2>1. UNCHANGED <<sock, disturbed>>
      BY <1>10 DEF ReadyStart
    <2>2. ~disturbed' => SamePhases \/ Service!PhaseStep
      BY <1>b, <1>10, <2>1, StartRefines
    <2> QED BY <1>0, <1>c, <2>1, <2>2, PhaseRefines
  <1>11. ASSUME NEW t \in Tasks, WorkerBegins(t) PROVE [Service!Next]_Service!vars
    BY <1>0, <1>11, <1>c, QuietRefines DEF WorkerBegins
  <1>12. ASSUME NEW t \in Tasks, NEW ok \in BOOLEAN, WorkerEnds(t, ok)
         PROVE  [Service!Next]_Service!vars
    <2>1. UNCHANGED <<sock, disturbed>>
      BY <1>12 DEF WorkerEnds
    <2>2. ~disturbed' => SamePhases \/ Service!PhaseStep
      BY <1>b, <1>12, <2>1, WorkerRefines
    <2> QED BY <1>0, <1>c, <2>1, <2>2, PhaseRefines
  <1>13. ASSUME NEW s \in Sockets, NEW ok \in BOOLEAN, CheckReady(s, ok) \/ RunningReady(s, ok)
         PROVE  [Service!Next]_Service!vars
    <2>1. UNCHANGED <<sock, disturbed>>
      BY <1>13 DEF CheckReady, RunningReady
    <2>2. ~disturbed' => SamePhases \/ Service!PhaseStep
      BY <1>b, <1>13, <2>1, ReadyRefines
    <2> QED BY <1>0, <1>c, <2>1, <2>2, PhaseRefines
  <1>14. ASSUME NEW next \in {"clear", "exitClear"}, pc = "scene", CloseAll(next)
         PROVE  [Service!Next]_Service!vars
    BY <1>0, <1>14, CloseAllRefines
  <1> QED
    BY <1>1, <1>2, <1>3, <1>4, <1>5, <1>6, <1>7, <1>8, <1>9, <1>10, <1>11, <1>12, <1>13, <1>14
    DEF Next, MainStep, Workers, Tablets, Halted, ResetTabs, CloseWindow

\* The server implements the abstract service: for any number of tablets and requests,
\* however frames, workers and tablets interleave, connections are taken and closed
\* once, and while no object with a running transaction is moved or destroyed a
\* tablet's transactions follow one another and each match received in full over an
\* open connection is stored once, before the tablet's next transaction begins.
THEOREM ImplementsService == Spec => ServiceSpec
  <1>1. Init => Service!Init
    <2> SUFFICES ASSUME Init PROVE Service!Init
      OBVIOUS
    <2>1. /\ \A s \in Sockets : sock[s] = "none"
          /\ \A t \in Tasks : tstate[t] = "none"
          /\ disturbed = FALSE
      BY DEF Init
    <2>2. [s \in Sockets |-> ConnOf(s)] = [s \in Sockets |-> "away"]
      BY <2>1 DEF ConnOf
    <2>3. [t \in Tasks |-> PhaseOf(t)] = [t \in Sockets \X (1..MaxReq) |-> "idle"]
      BY <2>1, PhaseNone DEF Tasks
    <2>4. (~disturbed) = TRUE
      BY <2>1
    <2> QED BY <2>2, <2>3, <2>4 DEF Service!Init, Service!Transactions
  <1> QED BY <1>1, NextRefines, ServerInvariant, PTL DEF Spec, ServiceSpec, Service!Spec

=============================================================================
