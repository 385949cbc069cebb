----------------------------- MODULE MCBtServer -----------------------------
(* Instances of BtServer for TLC. *)
EXTENDS BtServer, TLC

\* The tablets are interchangeable.
Symmetry == Permutations(Sockets)

\* Every code of the enumeration.
AllEnumCodes == EnumCodes

\* A read, a write and the request to close.
FewCodes == {TRANS_CLOSE_SOCKET, TRANS_RECV_MATCH, TRANS_SEND_LOCAL_DB_HASH}

\* A read, whose future is consumed, a write, whose future is not, and a code
\* below the enumeration's, which starts nothing.
RequestCodes == {TRANS_RECV_MATCH, TRANS_SEND_LOCAL_DB, -3}

\* A match only.
MatchCode == {TRANS_RECV_MATCH}

\* A frame well into an event: four tablets are registered, in slots in the order
\* of q, none has left, the first has delivered a match, the next two are sending
\* theirs and the fourth has not sent anything.
Delivered == 1
Busy == {2, 3}
BusyInit(q) ==
    LET slot(s) == CHOOSE k \in 1..4 : q[k] = s
        addr(s) == [buf |-> 3, idx |-> slot(s)]
        over(t) == slot(t[1]) = Delivered
        active(t) == slot(t[1]) \in Busy
        begun(s) == slot(s) \in {Delivered} \cup Busy
    IN  /\ pc = "accept"
        /\ i = 1
        /\ joining = NoTask
        /\ reachable = TRUE
        /\ blocking = FALSE
        /\ tabs = q
        /\ buf = 3
        /\ cap = 4
        /\ running = <<addr(q[2]), addr(q[3])>>
        /\ transactionState = [s \in Sockets |-> slot(s) \in Busy]
        /\ parent = [s \in Sockets |-> IF begun(s) THEN addr(s) ELSE Nowhere]
        /\ transactionType = [s \in Sockets |->
              IF begun(s) THEN TRANS_RECV_MATCH ELSE TRANS_CLOSE_SOCKET]
        /\ success = [s \in Sockets |-> TRUE]
        /\ batmanTrans = [s \in Sockets |-> FALSE]
        /\ data = [s \in Sockets |-> IF slot(s) \in Busy THEN 1 ELSE 0]
        /\ tabScoutingName = [s \in Sockets |-> None]
        /\ sock = [s \in Sockets |-> "open"]
        /\ link = [s \in Sockets |-> "up"]
        /\ code = [s \in Sockets |-> NoByte]
        /\ sent = [s \in Sockets |-> IF begun(s) THEN 1 ELSE 0]
        /\ nread = sent
        /\ tstate = [t \in Tasks |->
              IF over(t) THEN "done" ELSE IF active(t) THEN "active" ELSE "none"]
        /\ tcode = [t \in Tasks |-> transactionType[t[1]]]
        /\ tself = [t \in Tasks |-> parent[t[1]]]
        /\ tok = [t \in Tasks |-> over(t)]
        /\ tfrom = [t \in Tasks |-> IF over(t) THEN t[1] ELSE None]
        /\ rows = [t \in Tasks |-> IF over(t) THEN 1 ELSE 0]
        /\ closes = [s \in Sockets |-> <<>>]
        /\ disturbed = FALSE

BusySpec ==
    /\ \E q \in {f \in [1..4 -> Sockets] : \A k, l \in 1..4 : f[k] = f[l] => k = l} :
          BusyInit(q)
    /\ [][Next]_vars

=============================================================================
