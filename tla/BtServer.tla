------------------------------ MODULE BtServer ------------------------------
(***************************************************************************)
(* The Bluetooth server of the scouting program: class Bluetooth with its  *)
(* vector connectedTablets of BtTabObj and its vector runningTransactions  *)
(* of pointers into them, the BluetoothConductor that starts and finishes  *)
(* transactions, the std::async workers that carry them out, and the part  *)
(* of main()'s loop that drives and shuts down the server.                 *)
(*                                                                         *)
(* A tablet object is identified with the socket it was accepted with.     *)
(* Where the object is stored is a different matter: push_back may move    *)
(* every object to a new buffer and erase moves the later ones down, while *)
(* runningTransactions, TABTRANSACTION::parent and a worker's this and     *)
(* success reference stay the addresses they were.  An address is a        *)
(* buffer's generation and a slot, and At says what is stored there.       *)
(***************************************************************************)
EXTENDS Integers, Sequences, FiniteSets

CONSTANTS
    Sockets,        \* connections that tablets may open; a reconnect is a new one
    Codes,          \* transaction codes a tablet may send, as signed chars
    MaxReq,         \* bound: codes sent over one connection
    Faults,         \* how a tablet may go away: "fin" (a close), "rst" (link lost),
                    \* "stall" (it stops reading)
    StartFailures,  \* calls of the start-up that may fail
    LaunchModes,    \* how std::async may run a task: "async", "deferred"
    None            \* no socket: a dead address, a name never received

ASSUME CodesAssumption == Codes \subseteq -128..127
ASSUME MaxReqAssumption == MaxReq \in Nat
ASSUME LaunchAssumption == LaunchModes \subseteq {"async", "deferred"}
ASSUME FaultsAssumption == Faults \subseteq {"fin", "rst", "stall"}
ASSUME StartAssumption ==
    StartFailures \subseteq {"WSAStartup", "socket", "bind", "getsockname", "WSASetService",
        "listen", "ioctlsocket", "BluetoothFindFirstRadio", "BluetoothEnableDiscovery"}
ASSUME NoneAssumption == None \notin Sockets

VARIABLES
    pc,         \* where the main thread is in its frame
    i,          \* loop index of handleReadyConnections / handleRunningTransactions
    joining,    \* task whose future the main thread is destroying, or NoTask
    reachable,  \* can tablets connect to the listener?
    blocking,   \* does accept wait for one?
    tabs,       \* connectedTablets: the objects in slot order
    buf, cap,   \* generation and capacity of connectedTablets' buffer
    running,    \* runningTransactions: addresses of tablet objects
    \* The fields of a BtTabObj and its TABTRANSACTION, by the object's socket.
    \* data is the number of the task whose shared state the future holds, 0
    \* for an empty future; tabScoutingName is the tablet whose name is shown,
    \* None for the MAC address.
    transactionState, parent, transactionType, success, batmanTrans, data,
    tabScoutingName,
    \* The connections: the server's end, and for the tablet's end the link,
    \* the byte the server would next take for a code and how many were sent.
    sock, link, code, sent,
    nread,      \* codes read from each socket
    \* The std::async tasks; the n-th code read from s starts task <<s, n>>:
    \* its progress, its code, the this pointer it was given, its outcome and
    \* the socket it really used, and how often its payload was inserted.
    tstate, tcode, tself, tok, tfrom, rows,
    closes,     \* history: who called sockSuicide on each socket, in order
    disturbed   \* history: an object with a running transaction was moved or destroyed

mainVars == <<pc, i, joining>>
startVars == <<reachable, blocking>>
regVars == <<startVars, tabs, buf, cap>>
transVars == <<parent, transactionType, batmanTrans>>
objVars == <<transactionState, transVars, success, data, tabScoutingName>>
netVars == <<link, code, sent>>
outVars == <<tstate, tok, tfrom>>
taskVars == <<outVars, tcode, tself, rows>>
vars == <<mainVars, regVars, running, objVars, sock, netVars, nread, taskVars, closes,
          disturbed>>

-----------------------------------------------------------------------------
(* Transaction types (bluetoothTransactionType.hpp).  A negative one asks  *)
(* the server to write, a positive one announces data for it to read.      *)

TRANS_SOCKET_ERROR == -128
TRANS_SEND_LOCAL_DB == -2
TRANS_SEND_LOCAL_DB_HASH == -1
TRANS_CLOSE_SOCKET == 0
TRANS_RECV_MATCH == 1
TRANS_RECV_TABLET_INFO == 2
WriteTypes == {TRANS_SEND_LOCAL_DB, TRANS_SEND_LOCAL_DB_HASH}
CloseTypes == {TRANS_SOCKET_ERROR, TRANS_CLOSE_SOCKET}
ResultTypes == {TRANS_RECV_MATCH, TRANS_RECV_TABLET_INFO}
EnumCodes == WriteTypes \cup CloseTypes \cup ResultTypes

\* writeTransaction: readTransactionData computes it from the sign.
WriteTransaction(c) == c < 0

NoByte == 128       \* nothing to read (not a char)

-----------------------------------------------------------------------------
(* Addresses, futures and vectors.  A definition named Mutant... is a       *)
(* plausible bug in the definition below it; nothing uses it.               *)

Tasks == Sockets \X (1..MaxReq)
NoTask == <<None, 0>>

Addr == [buf : Nat, idx : Nat \ {0}]
Nowhere == [buf |-> 0, idx |-> 1]       \* no buffer has generation 0

\* What is stored at an address when the objects ts are in buffer b, and now.
Stored(a, b, ts) == IF a.buf = b /\ a.idx \in 1..Len(ts) THEN ts[a.idx] ELSE None
At(a) == Stored(a, buf, tabs)

\* The address of slot k of connectedTablets.
Slot(k) == [buf |-> buf, idx |-> k]

Registered == {tabs[k] : k \in 1..Len(tabs)}

\* The task whose shared state data holds.
Fut(s) == <<s, data[s]>>

\* The task that destroying or replacing data waits for: std::async's future
\* joins its thread.
MutantUnfinished(s) == NoTask
Unfinished(s) == IF data[s] # 0 /\ tstate[Fut(s)] = "active" THEN Fut(s) ELSE NoTask

\* Does some pointer in runningTransactions no longer lead where it did?
Moves == \E k \in 1..Len(running) : Stored(running[k], buf', tabs') # At(running[k])

\* vector::erase at slot k, of either vector.
MutantErase(q, k) == SubSeq(q, 1, k) \o SubSeq(q, k + 2, Len(q))
Erase(q, k) == SubSeq(q, 1, k - 1) \o SubSeq(q, k + 1, Len(q))

\* undergoingTransaction: the object's transaction is left to its worker.
MutantUndergoing(s) == FALSE
Undergoing(s) == transactionState[s]

-----------------------------------------------------------------------------
Init ==
    /\ pc = "start"
    /\ i = 1
    /\ joining = NoTask
    /\ reachable = FALSE
    /\ blocking = FALSE
    /\ tabs = <<>>
    /\ buf = 0
    /\ cap = 0
    /\ running = <<>>
    /\ transactionState = [s \in Sockets |-> FALSE]
    /\ parent = [s \in Sockets |-> Nowhere]
    /\ transactionType = [s \in Sockets |-> TRANS_CLOSE_SOCKET]
    /\ success = [s \in Sockets |-> TRUE]
    /\ batmanTrans = [s \in Sockets |-> FALSE]
    /\ data = [s \in Sockets |-> 0]
    /\ tabScoutingName = [s \in Sockets |-> None]
    /\ sock = [s \in Sockets |-> "none"]
    /\ link = [s \in Sockets |-> "down"]
    /\ code = [s \in Sockets |-> NoByte]
    /\ sent = [s \in Sockets |-> 0]
    /\ nread = [s \in Sockets |-> 0]
    /\ tstate = [t \in Tasks |-> "none"]
    /\ tcode = [t \in Tasks |-> TRANS_CLOSE_SOCKET]
    /\ tself = [t \in Tasks |-> Nowhere]
    /\ tok = [t \in Tasks |-> FALSE]
    /\ tfrom = [t \in Tasks |-> None]
    /\ rows = [t \in Tasks |-> 0]
    /\ closes = [s \in Sockets |-> <<>>]
    /\ disturbed = FALSE

-----------------------------------------------------------------------------
(* The tablets (external).                                                 *)

Connect(s) ==
    /\ reachable
    /\ link[s] = "down"
    /\ link' = [link EXCEPT ![s] = "up"]
    /\ sock' = [sock EXCEPT ![s] = "queued"]
    /\ UNCHANGED <<mainVars, regVars, running, objVars, code, sent, nread, taskVars,
                   closes, disturbed>>

Send(s, c) ==
    /\ link[s] \in {"up", "stall"}
    /\ sock[s] # "closed"
    /\ code[s] = NoByte
    /\ sent[s] < MaxReq
    /\ code' = [code EXCEPT ![s] = c]
    /\ sent' = [sent EXCEPT ![s] = @ + 1]
    /\ UNCHANGED <<mainVars, regVars, running, objVars, sock, link, nread, taskVars,
                   closes, disturbed>>

\* The tablet closes gracefully ("fin": what it sent can still be read), the link
\* is lost ("rst"), or the tablet stays and no longer reads ("stall").
PeerGone(s, how) ==
    /\ link[s] \in {"up", "stall"} \ {how}
    /\ sock[s] # "closed"
    /\ link' = [link EXCEPT ![s] = how]
    /\ code' = IF how = "rst" THEN [code EXCEPT ![s] = NoByte] ELSE code
    /\ UNCHANGED <<mainVars, regVars, running, objVars, sock, sent, nread, taskVars,
                   closes, disturbed>>

-----------------------------------------------------------------------------
(* initWinsock and initAccept: one call after the other, whatever became of *)
(* the ones before.  A failure is logged and nothing is tried again.        *)

\* Without these there is no listening socket, and accept fails at once.
Listening(failed) == failed \cap {"WSAStartup", "socket", "bind", "listen"} = {}

\* Without these the service's record does not lead to the socket.
Advertised(failed) == failed \cap {"getsockname", "WSASetService"} = {}

\* makeDiscoverable: a computer that is not discoverable may be known to the
\* tablets from before.
Visible(failed) ==
    IF failed \cap {"BluetoothFindFirstRadio", "BluetoothEnableDiscovery"} = {}
      THEN {TRUE} ELSE BOOLEAN

Start(failed, seen) ==
    /\ pc = "start"
    /\ seen \in Visible(failed)
    /\ reachable' = (Listening(failed) /\ Advertised(failed) /\ seen)
    /\ blocking' = (Listening(failed) /\ "ioctlsocket" \in failed)
    /\ pc' = "accept"
    /\ UNCHANGED <<i, joining, tabs, buf, cap, running, objVars, sock, netVars, nread,
                   taskVars, closes, disturbed>>

-----------------------------------------------------------------------------
(* acceptConn.                                                             *)

\* push_back: a full buffer is replaced by one of twice the size.
AcceptConn(s) ==
    /\ pc = "accept"
    /\ sock[s] = "queued"
    /\ sock' = [sock EXCEPT ![s] = "open"]
    /\ tabs' = Append(tabs, s)
    /\ IF Len(tabs) = cap
         THEN buf' = buf + 1 /\ cap' = (IF cap = 0 THEN 1 ELSE 2 * cap)
         ELSE UNCHANGED <<buf, cap>>
    /\ disturbed' = (disturbed \/ Moves)
    /\ pc' = "ready"
    /\ i' = 1
    /\ UNCHANGED <<joining, startVars, running, objVars, netVars, nread, taskVars, closes>>

\* accept returned INVALID_SOCKET, which a blocking one does not do for want of a
\* connection.
AcceptNone ==
    /\ pc = "accept"
    /\ ~blocking
    /\ \A s \in Sockets : sock[s] # "queued"
    /\ pc' = "ready"
    /\ i' = 1
    /\ UNCHANGED <<joining, regVars, running, objVars, sock, netVars, nread, taskVars,
                   closes, disturbed>>

-----------------------------------------------------------------------------
(* handleReadyConnections.                                                 *)

\* What readyToRead's select may answer.  For a link lost without a close the
\* code says "always false" and Winsock says otherwise: both are allowed.
MutantReadable(s) == {FALSE}
Readable(s) ==
    IF code[s] # NoByte \/ link[s] = "fin" THEN {TRUE}
    ELSE IF link[s] = "rst" THEN BOOLEAN ELSE {FALSE}

AtReady(s) ==
    /\ pc = "ready"
    /\ joining = NoTask
    /\ i \in 1..Len(tabs)
    /\ s = tabs[i]

ReadyDone ==
    /\ pc = "ready"
    /\ joining = NoTask
    /\ i > Len(tabs)
    /\ pc' = "running"
    /\ i' = 1
    /\ UNCHANGED <<joining, regVars, running, objVars, sock, netVars, nread, taskVars,
                   closes, disturbed>>

ReadySkip(s) ==
    /\ AtReady(s)
    /\ Undergoing(s) \/ FALSE \in Readable(s)
    /\ i' = i + 1
    /\ UNCHANGED <<pc, joining, regVars, running, objVars, sock, netVars, nread,
                   taskVars, closes, disturbed>>

\* readTransactionData gives type c: the select for writing says no (nothing is
\* consumed), recv reports the end or an error, or c is the code read.
ReadTransactionData(s, c) ==
    /\ \/ c = TRANS_CLOSE_SOCKET /\ UNCHANGED nread
       \/ c = TRANS_SOCKET_ERROR /\ code[s] = NoByte /\ UNCHANGED nread
       \/ code[s] = c /\ nread' = [nread EXCEPT ![s] = @ + 1]
    /\ code' = [code EXCEPT ![s] = NoByte]
    /\ parent' = [parent EXCEPT ![s] = Slot(i)]
    /\ transactionType' = [transactionType EXCEPT ![s] = c]

\* initReadyTransaction has closed the socket, and killSocket closes it again.  It then
\* erases the object, which destroys its future and moves the later objects.
KillSocket(s) ==
    /\ sock' = [sock EXCEPT ![s] = "closed"]
    /\ closes' = [closes EXCEPT ![s] = @ \o <<"initReadyTransaction", "killSocket">>]
    /\ joining' = Unfinished(s)
    /\ data' = [data EXCEPT ![s] = 0]
    /\ tabs' = Erase(tabs, i)
    /\ UNCHANGED buf
    /\ disturbed' = (disturbed \/ Moves)

\* A closing type.  After killSocket the for loop steps over the object that
\* took the slot.
ReadyKill(s, c) ==
    /\ AtReady(s)
    /\ ~Undergoing(s)
    /\ TRUE \in Readable(s)
    /\ ReadTransactionData(s, c)
    /\ success' = [success EXCEPT ![s] = FALSE]
    /\ batmanTrans' = [batmanTrans EXCEPT ![s] = TRUE]
    /\ KillSocket(s)
    /\ i' = i + 1
    /\ UNCHANGED <<pc, startVars, cap, running, transactionState, tabScoutingName, link,
                   sent, taskVars>>

\* A code that starts a transaction.  initReadyTransaction launches
\* internalWrite or internalRead; replacing an unfinished future waits for it.
\* For a negative code that is no write type the switch in
\* handleWriteTransactions has no case and data keeps what it held.
ReadyStart(s, mode) ==
    LET c == code[s]
        n == nread[s] + 1
    IN  /\ AtReady(s)
        /\ ~Undergoing(s)
        /\ TRUE \in Readable(s)
        /\ c \notin CloseTypes \cup {NoByte}
        /\ ReadTransactionData(s, c)
        /\ IF WriteTransaction(c) /\ c \notin WriteTypes
             THEN UNCHANGED <<success, batmanTrans, data, joining, tstate, tcode, tself>>
             ELSE /\ success' = [success EXCEPT ![s] = @ \/ ~WriteTransaction(c)]
                  /\ batmanTrans' = [batmanTrans EXCEPT ![s] = FALSE]
                  /\ data' = [data EXCEPT ![s] = n]
                  /\ joining' = Unfinished(s)
                  /\ tstate' = [tstate EXCEPT ![<<s, n>>] =
                                   IF mode = "async" THEN "active" ELSE "deferred"]
                  /\ tcode' = [tcode EXCEPT ![<<s, n>>] = c]
                  /\ tself' = [tself EXCEPT ![<<s, n>>] = Slot(i)]
        /\ pc' = "check"
        /\ UNCHANGED <<i, regVars, running, transactionState, tabScoutingName, sock, link,
                       sent, tok, tfrom, rows, closes, disturbed>>

\* The main thread's wait for a task to end is over.
Joined ==
    /\ joining # NoTask
    /\ tstate[joining] # "active"
    /\ joining' = NoTask
    /\ UNCHANGED <<pc, i, regVars, running, objVars, sock, netVars, nread, taskVars,
                   closes, disturbed>>

-----------------------------------------------------------------------------
(* Workers: internalRead and internalWrite, here one step that ends with    *)
(* success or failure.  A worker uses the socket and the success flag of    *)
(* whatever object is stored at its this pointer; memory that holds no      *)
(* object still reads as the socket the worker began with, or as garbage,   *)
(* on which every call fails.                                               *)

Source(t) == IF At(tself[t]) = None THEN t[1] ELSE At(tself[t])

MutantOutcomes(t) ==
    IF sock[Source(t)] = "open" /\ link[Source(t)] # "rst" THEN BOOLEAN ELSE {}
Outcomes(t) ==
    IF sock[Source(t)] = "open" /\ link[Source(t)] # "rst" THEN BOOLEAN ELSE {FALSE}

SuccessSet(t, ok) ==
    IF At(tself[t]) = None THEN success ELSE [success EXCEPT ![At(tself[t])] = ok]

TaskEnds(t, ok) ==
    /\ tstate' = [tstate EXCEPT ![t] = "done"]
    /\ tok' = [tok EXCEPT ![t] = ok]
    /\ tfrom' = [tfrom EXCEPT ![t] = Source(t)]
    /\ success' = SuccessSet(t, ok)

\* success = true, the first thing both functions and every read do.
WorkerBegins(t) ==
    /\ tstate[t] = "active"
    /\ success' = SuccessSet(t, TRUE)
    /\ UNCHANGED <<mainVars, regVars, running, transactionState, transVars, data,
                   tabScoutingName, sock, netVars, nread, taskVars, closes, disturbed>>

WorkerEnds(t, ok) ==
    /\ tstate[t] = "active"
    /\ ok \in Outcomes(t)
    /\ TaskEnds(t, ok)
    /\ UNCHANGED <<mainVars, regVars, running, transactionState, transVars, data,
                   tabScoutingName, sock, netVars, nread, tcode, tself, rows, closes,
                   disturbed>>

-----------------------------------------------------------------------------
(* handleTransResult on the object of s, whose future is ready.  The two    *)
(* known reads consume their future with get(), which first runs a deferred *)
(* task on this thread; ok is its outcome.  Any other future is left alone. *)

Consumes(s) == transactionType[s] \in ResultTypes
RunsNow(s) == Consumes(s) /\ tstate[Fut(s)] = "deferred"
ResultChoices(s) == IF RunsNow(s) THEN Outcomes(Fut(s)) ELSE {TRUE}

\* addMatchDatapoints inserts the payload when success holds after get().
MutantInserts(s) == transactionType[s] = TRANS_RECV_MATCH
Inserts(s) == transactionType[s] = TRANS_RECV_MATCH /\ success'[s]

\* setScoutingName goes to the object at parent.
MutantNamed(s) == tabs[1]
Named(s) == At(parent[s])

HandleTransResult(s, ok) ==
    /\ IF RunsNow(s) THEN TaskEnds(Fut(s), ok) ELSE UNCHANGED <<outVars, success>>
    /\ data' = IF Consumes(s) THEN [data EXCEPT ![s] = 0] ELSE data
    /\ rows' = IF Inserts(s) THEN [rows EXCEPT ![Fut(s)] = @ + 1] ELSE rows
    /\ tabScoutingName' =
          IF transactionType[s] = TRANS_RECV_TABLET_INFO /\ success'[s]
            THEN [tabScoutingName EXCEPT ![Named(s)] = tfrom'[Fut(s)]]
            ELSE tabScoutingName

-----------------------------------------------------------------------------
(* The rest of handleReadyConnections: isReady on the transaction just      *)
(* begun.                                                                   *)

AtCheck(s) ==
    /\ pc = "check"
    /\ joining = NoTask
    /\ s = tabs[i]

\* isReady, for a future that has a shared state.
MutantIsReady(s) == tstate[Fut(s)] = "deferred"
IsReady(s) == tstate[Fut(s)] # "active"

\* wait_for on a future without shared state throws; nothing catches it.
CheckEmpty(s) ==
    /\ AtCheck(s)
    /\ data[s] = 0
    /\ pc' = "terminated"
    /\ UNCHANGED <<i, joining, regVars, running, objVars, sock, netVars, nread, taskVars,
                   closes, disturbed>>

CheckReady(s, ok) ==
    /\ AtCheck(s)
    /\ data[s] # 0
    /\ IsReady(s)
    /\ ok \in ResultChoices(s)
    /\ HandleTransResult(s, ok)
    /\ pc' = "ready"
    /\ i' = i + 1
    /\ UNCHANGED <<joining, regVars, running, transactionState, transVars, sock, netVars,
                   nread, tcode, tself, closes, disturbed>>

MutantTracked == running
MutantTrackedZero == Append(running, [buf |-> buf, idx |-> i - 1])
Tracked == Append(running, Slot(i))

CheckRunning(s) ==
    /\ AtCheck(s)
    /\ data[s] # 0
    /\ ~IsReady(s)
    /\ running' = Tracked
    /\ transactionState' = [transactionState EXCEPT ![s] = TRUE]
    /\ pc' = "ready"
    /\ i' = i + 1
    /\ UNCHANGED <<joining, regVars, transVars, success, data, tabScoutingName, sock,
                   netVars, nread, taskVars, closes, disturbed>>

-----------------------------------------------------------------------------
(* handleRunningTransactions.                                              *)

\* The element at i, stored in the object of s.
AtRunning(s) ==
    /\ pc = "running"
    /\ i \in 1..Len(running)
    /\ s = At(running[i])

RunningDone ==
    /\ pc = "running"
    /\ i > Len(running)
    /\ pc' = "scene"
    /\ i' = 1
    /\ UNCHANGED <<joining, regVars, running, objVars, sock, netVars, nread, taskVars,
                   closes, disturbed>>

RunningWait(s) ==
    /\ AtRunning(s)
    /\ data[s] # 0
    /\ ~IsReady(s)
    /\ i' = i + 1
    /\ UNCHANGED <<pc, joining, regVars, running, objVars, sock, netVars, nread, taskVars,
                   closes, disturbed>>

RunningEmpty(s) ==
    /\ AtRunning(s)
    /\ data[s] = 0
    /\ pc' = "terminated"
    /\ UNCHANGED <<i, joining, regVars, running, objVars, sock, netVars, nread, taskVars,
                   closes, disturbed>>

\* setTransactionState(false) through parent, then erase.
MutantReleased(p) == transactionState
Released(p) == [transactionState EXCEPT ![p] = FALSE]
MutantUntracked == running
Untracked == Erase(running, i)

\* The erase moves the next element to i, and the loop steps over it.
RunningReady(s, ok) ==
    /\ AtRunning(s)
    /\ data[s] # 0
    /\ IsReady(s)
    /\ At(parent[s]) # None
    /\ ok \in ResultChoices(s)
    /\ HandleTransResult(s, ok)
    /\ transactionState' = Released(At(parent[s]))
    /\ running' = Untracked
    /\ i' = i + 1
    /\ UNCHANGED <<pc, joining, regVars, transVars, sock, netVars, nread, tcode, tself,
                   closes, disturbed>>

\* The pointer, or the parent it leads to, is an address that holds no object:
\* the behaviour is undefined from here on.
RunningDead ==
    /\ pc = "running"
    /\ i \in 1..Len(running)
    /\ \/ At(running[i]) = None
       \/ \E s \in Sockets : /\ AtRunning(s)
                             /\ data[s] # 0
                             /\ IsReady(s)
                             /\ At(parent[s]) = None
    /\ pc' = "undefined"
    /\ UNCHANGED <<i, joining, regVars, running, objVars, sock, netVars, nread, taskVars,
                   closes, disturbed>>

-----------------------------------------------------------------------------
(* The rest of main()'s loop.                                              *)

NextFrame ==
    /\ pc = "scene"
    /\ pc' = "accept"
    /\ UNCHANGED <<i, joining, regVars, running, objVars, sock, netVars, nread, taskVars,
                   closes, disturbed>>

\* killAllSockets, up to connectedTablets.clear(), which goes on from next.
CloseAll(next) ==
    /\ sock' = [s \in Sockets |-> IF s \in Registered THEN "closed" ELSE sock[s]]
    /\ closes' = [s \in Sockets |->
          IF s \in Registered THEN Append(closes[s], "killAllSockets") ELSE closes[s]]
    /\ code' = [s \in Sockets |-> IF s \in Registered THEN NoByte ELSE code[s]]
    /\ pc' = next
    /\ UNCHANGED <<i, joining, regVars, running, objVars, link, sent, nread, taskVars,
                   disturbed>>

\* The "Reset Tabs" button.
ResetTabs == pc = "scene" /\ CloseAll("clear")

\* The window is closed: the loop ends and main closes the sockets.
CloseWindow == pc = "scene" /\ CloseAll("exitClear")

\* clear() destroys every object, and their futures join their workers.  The
\* buffer and its capacity stay.
Clear ==
    /\ pc \in {"clear", "exitClear"}
    /\ \A s \in Registered : Unfinished(s) = NoTask
    /\ data' = [s \in Sockets |-> IF s \in Registered THEN 0 ELSE data[s]]
    /\ tabs' = <<>>
    /\ UNCHANGED buf
    /\ disturbed' = (disturbed \/ Moves)
    /\ pc' = IF pc = "clear" THEN "accept" ELSE "closed"
    /\ UNCHANGED <<i, joining, startVars, cap, running, transactionState, transVars,
                   success, tabScoutingName, sock, netVars, nread, taskVars, closes>>

\* The program has ended.
Over == pc \in {"closed", "terminated", "undefined"}

Halted == Over /\ UNCHANGED vars

-----------------------------------------------------------------------------
MainStep ==
    \/ AcceptNone \/ ReadyDone \/ Joined \/ RunningDone \/ RunningDead \/ Clear
    \/ NextFrame \/ ResetTabs \/ CloseWindow
    \/ \E failed \in SUBSET StartFailures, seen \in BOOLEAN : Start(failed, seen)
    \/ \E s \in Sockets :
         \/ AcceptConn(s)
         \/ ReadySkip(s)
         \/ \E c \in CloseTypes : ReadyKill(s, c)
         \/ \E mode \in LaunchModes : ReadyStart(s, mode)
         \/ CheckEmpty(s)
         \/ CheckRunning(s)
         \/ RunningWait(s)
         \/ RunningEmpty(s)
         \/ \E ok \in BOOLEAN : CheckReady(s, ok) \/ RunningReady(s, ok)

Workers ==
    ~Over /\ \E t \in Tasks : WorkerBegins(t) \/ \E ok \in BOOLEAN : WorkerEnds(t, ok)

Tablets ==
    ~Over /\ \E s \in Sockets :
        \/ Connect(s)
        \/ \E c \in Codes : Send(s, c)
        \/ \E how \in Faults : PeerGone(s, how)

Next == MainStep \/ Workers \/ Tablets \/ Halted

Spec == Init /\ [][Next]_vars

\* The operating system runs every thread, so the main thread and each worker
\* keep going.  A worker ends because every read times out, but a send is tried
\* again for as long as the tablet does not read: then it is the closing of the
\* socket that ends it.  Nothing is assumed of the tablets.
Bounded(t) == link[Source(t)] # "stall" \/ sock[Source(t)] # "open"

Fairness ==
    /\ WF_vars(MainStep)
    /\ \A t \in Tasks :
          WF_vars(~Over /\ Bounded(t) /\ \E ok \in BOOLEAN : WorkerEnds(t, ok))

LiveSpec == Spec /\ Fairness

-----------------------------------------------------------------------------
(* Properties.                                                             *)

MainType ==
    /\ pc \in {"start", "accept", "ready", "check", "running", "scene", "clear", "exitClear",
               "closed", "terminated", "undefined"}
    /\ i \in Nat \ {0}
    /\ joining \in Tasks \cup {NoTask}
    /\ disturbed \in BOOLEAN

RegType ==
    /\ reachable \in BOOLEAN
    /\ blocking \in BOOLEAN
    /\ tabs \in Seq(Sockets)
    /\ buf \in Nat
    /\ cap \in Nat
    /\ running \in Seq(Addr)

ObjType ==
    /\ transactionState \in [Sockets -> BOOLEAN]
    /\ parent \in [Sockets -> Addr]
    /\ transactionType \in [Sockets -> -128..127]
    /\ success \in [Sockets -> BOOLEAN]
    /\ batmanTrans \in [Sockets -> BOOLEAN]
    /\ data \in [Sockets -> 0..MaxReq]
    /\ tabScoutingName \in [Sockets -> Sockets \cup {None}]

NetType ==
    /\ sock \in [Sockets -> {"none", "queued", "open", "closed"}]
    /\ link \in [Sockets -> {"down", "up", "fin", "rst", "stall"}]
    /\ code \in [Sockets -> -128..128]
    /\ sent \in [Sockets -> 0..MaxReq]
    /\ nread \in [Sockets -> 0..MaxReq]

TaskType ==
    /\ tstate \in [Tasks -> {"none", "active", "deferred", "done"}]
    /\ tcode \in [Tasks -> -128..127]
    /\ tself \in [Tasks -> Addr]
    /\ tok \in [Tasks -> BOOLEAN]
    /\ tfrom \in [Tasks -> Sockets \cup {None}]
    /\ rows \in [Tasks -> Nat]

Closers == {"initReadyTransaction", "killSocket", "killAllSockets"}
ClosesType == closes \in [Sockets -> Seq(Closers)]

TypeOK == MainType /\ RegType /\ ObjType /\ NetType /\ TaskType /\ ClosesType

\* No accepted connection is lost track of: a socket the server has open is
\* in connectedTablets, exactly once, and outside killAllSockets every socket
\* in connectedTablets is open.
NoSocketLeak ==
    /\ \A s \in Sockets : sock[s] = "open" => s \in Registered
    /\ pc \notin {"clear", "exitClear"} => \A s \in Registered : sock[s] = "open"
    /\ \A k, l \in 1..Len(tabs) : tabs[k] = tabs[l] => k = l

\* A socket that was accepted is closed by exactly one operation, whatever the order
\* of codes, resets, errors and the exit: by the erasure of its object, which closes it
\* in initReadyTransaction and at once again in killSocket, or by one killAllSockets.
\* No later operation closes a handle that the system may by then have given to
\* another connection.
RetiredOnce ==
    \A s \in Sockets :
        IF sock[s] = "closed"
          THEN closes[s] \in {<<"initReadyTransaction", "killSocket">>, <<"killAllSockets">>}
          ELSE closes[s] = <<>>

\* No worker is left behind: a worker that has not ended belongs to a future
\* of a registered object, or the main thread is waiting for it.  In
\* particular no worker runs once the program has shut down.
WorkersOwned ==
    \A t \in Tasks :
        tstate[t] = "active" =>
            t = joining \/ (t[1] \in Registered /\ Fut(t[1]) = t)

\* While no object with a running transaction has been moved or destroyed,
\* runningTransactions and the transactionState flags agree: every pointer
\* leads to a different object that is flagged, and whose parent pointer leads
\* back to it, and every flagged object has its pointer.
TransactionsTracked ==
    ~disturbed =>
        /\ \A k \in 1..Len(running) :
              /\ At(running[k]) # None
              /\ Undergoing(At(running[k]))
              /\ data[At(running[k])] # 0
              /\ parent[At(running[k])] = running[k]
        /\ \A k, l \in 1..Len(running) : running[k] = running[l] => k = l
        /\ \A s \in Registered :
              Undergoing(s) => \E k \in 1..Len(running) : At(running[k]) = s

\* A match received in full reaches the database exactly once, whichever of
\* the two loops notices that it is there; until then its object still holds it.
\* A match not received in full does not reach the database.
MatchConservation ==
    ~disturbed =>
        \A t \in Tasks :
            /\ rows[t] > 0 => /\ rows[t] = 1
                              /\ tok[t]
                              /\ tcode[t] = TRANS_RECV_MATCH
            /\ (tstate[t] = "done" /\ tok[t] /\ tcode[t] = TRANS_RECV_MATCH)
                  => rows[t] = 1 \/ (t[1] \in Registered /\ Fut(t[1]) = t)

\* A payload comes from the tablet whose transaction it is, and the name shown
\* for a tablet is its MAC address or one it sent itself.
PayloadIsOwn ==
    ~disturbed =>
        /\ \A t \in Tasks : tstate[t] = "done" => tfrom[t] = t[1]
        /\ \A s \in Registered : tabScoutingName[s] \in {None, s}

\* The server does not follow a pointer to dead memory, and the only thing
\* that makes it abort is a code outside the enumeration.
NoAbort ==
    ~disturbed => /\ pc # "undefined"
                  /\ pc = "terminated" => transactionType[tabs[i]] \notin EnumCodes

\* The main thread takes a byte from a socket for a transaction code only when
\* no worker is using that socket.
ExclusiveRead ==
    [][\A s \in Sockets :
          nread'[s] # nread[s] /\ ~disturbed =>
              \A t \in Tasks : tstate[t] = "active" => Source(t) # s]_vars

\* Outside shutdown and "Reset Tabs" the frame loop does not stop for a tablet:
\* the futures that killSocket destroys and initReadyTransaction replaces, whose
\* destructor would join a worker, have none that still runs.
NeverWaits == ~disturbed => joining = NoTask

\* The frame loop waits for a connection: start-up could not make accept return.
Waiting == pc = "accept" /\ blocking

\* A code that has arrived is read, or its connection closed, although some other
\* tablet may have stalled.
RequestServed ==
    \A s \in Sockets :
        (sock[s] = "open" /\ code[s] # NoByte) ~>
            (code[s] = NoByte \/ sock[s] = "closed" \/ link[s] = "stall" \/ Waiting
                \/ disturbed \/ Over)

\* A tablet that goes on reading does not stay marked as undergoing a transaction.
TransactionEnds ==
    \A s \in Sockets :
        Undergoing(s) ~> (~Undergoing(s) \/ link[s] = "stall" \/ Waiting \/ disturbed \/ Over)

\* A match received in full is eventually in the database.
MatchDelivered ==
    \A t \in Tasks :
        (tstate[t] = "done" /\ tok[t] /\ tcode[t] = TRANS_RECV_MATCH)
            ~> (rows[t] = 1 \/ Waiting \/ disturbed \/ Over)

\* Whatever the tablets do and whichever calls of the start-up failed, the window
\* is drawn again and again until it is closed.  Of what the main thread does with the
\* server, two things may hold a frame up for good: a listener that could not be made
\* non-blocking, and a worker joined by killSocket, which NeverWaits rules out while no
\* object has been moved.  (The calls of MySQL and curl return, with an error if need
\* be, and the NACK that initReadyTransaction sends follows a select that found the
\* socket writable.)
FramesGoOn == []<>(pc = "scene" \/ Waiting \/ joining # NoTask \/ Over)

\* Closing the window ends the program, also when a tablet has stopped reading and
\* its worker sends to it without end.
ShutdownCompletes == (pc = "exitClear") ~> (pc = "closed")

-----------------------------------------------------------------------------
(* What the server promises: TabletService, while undisturbed.             *)

ConnOf(s) ==
    CASE sock[s] \in {"none", "queued"} -> "away"
      [] sock[s] = "open" -> "open"
      [] sock[s] = "closed" -> "closed"

\* A task that was deferred and is not a read whose result get() asks for is
\* never carried out.  A match inserted twice or without having been received,
\* or anything else inserted, is no phase the service has.
PhaseOf(t) ==
    LET match == tcode[t] = TRANS_RECV_MATCH
        asked == tcode[t] \in ResultTypes
    IN  CASE tstate[t] = "none" -> "idle"
          [] tstate[t] = "deferred" /\ ~asked -> "skipped"
          [] tstate[t] = "active" \/ (tstate[t] = "deferred" /\ asked) ->
                IF match THEN "receiving" ELSE "serving"
          [] tstate[t] = "done" /\ rows[t] = 0 ->
                IF ~tok[t] THEN "failed" ELSE IF match THEN "received" ELSE "served"
          [] tstate[t] = "done" /\ rows[t] = 1 /\ tok[t] /\ match -> "stored"
          [] OTHER -> "corrupt"

Service ==
    INSTANCE TabletService WITH
        conn <- [s \in Sockets |-> ConnOf(s)],
        phase <- [t \in Tasks |-> PhaseOf(t)],
        sound <- ~disturbed

\* The server implements the abstract service: whatever the interleaving of frames,
\* workers and tablets, connections are taken and closed once, transactions of a
\* tablet follow one another, and matches are stored once, complete and in the order
\* in which their tablet sent them.
ServiceSpec == Service!Spec

-----------------------------------------------------------------------------
(* What the code's comments say and the code does not do.                  *)

\* bluetoothTransaction.hpp, isReady: "If the data is async, this will return
\* false until done", here asked of every transaction in runningTransactions.
AsyncNotReadyUntilDone ==
    \A k \in 1..Len(running) :
        (\E t \in Tasks : tstate[t] = "active" /\ tself[t] = running[k]) =>
            /\ At(running[k]) # None
            /\ data[At(running[k])] # 0
            /\ ~IsReady(At(running[k]))

\* btTabObj.hpp, sockSuicide: "should only ever be called once".
SuicideOnce == \A s \in Sockets : Len(closes[s]) <= 1

=============================================================================
