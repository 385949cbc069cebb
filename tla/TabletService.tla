---------------------------- MODULE TabletService ----------------------------
(***************************************************************************)
(* What the Bluetooth server promises the tablets and the database: a      *)
(* connection is taken once and closed once, a tablet has one transaction  *)
(* at a time, and a match is stored once, only when all of it has been     *)
(* received over a connection that was still open, before the next         *)
(* transaction of its tablet begins.  BtServer is shown to implement it.   *)
(*                                                                         *)
(* The promise about transactions lasts as long as sound holds, and        *)
(* nothing here says how long that is; the one about connections has no    *)
(* such condition.                                                         *)
(***************************************************************************)
EXTENDS Integers

CONSTANTS
    Sockets,        \* connections that tablets may open
    MaxReq          \* bound: requests over one connection

VARIABLES
    conn,           \* per connection: "away", "open" or "closed"
    phase,          \* per transaction, the n-th of a connection being <<s, n>>
    sound           \* does the promise about transactions still hold?

vars == <<conn, phase, sound>>

Transactions == Sockets \X (1..MaxReq)

Init ==
    /\ conn = [s \in Sockets |-> "away"]
    /\ phase = [t \in Transactions |-> "idle"]
    /\ sound = TRUE

\* Taking a connection, and closing one (a tablet's request) or several (a reset).
Admit(s) == conn[s] = "away" /\ conn' = [conn EXCEPT ![s] = "open"]

Drop(S) ==
    /\ \A s \in S : conn[s] = "open"
    /\ conn' = [s \in Sockets |-> IF s \in S THEN "closed" ELSE conn[s]]

ConnStep == (\E s \in Sockets : Admit(s)) \/ (\E S \in SUBSET Sockets : Drop(S))

\* The phases that end a transaction.
Over == {"idle", "skipped", "served", "failed", "stored"}

Moves(t, from, to) == phase[t] \in from /\ phase' = [phase EXCEPT ![t] = to]

\* A transaction begins with every earlier one of its tablet behind it and every
\* later one ahead.  One that is no match may be taken and never carried out.
Begin(s, n) ==
    /\ conn[s] = "open"
    /\ \A m \in 1..MaxReq :
          IF m < n THEN phase[<<s, m>>] \in Over ELSE phase[<<s, m>>] = "idle"
    /\ \E p \in {"receiving", "serving", "skipped"} : Moves(<<s, n>>, {"idle"}, p)

\* The whole of a match is there; the transaction fails; an answer has been sent.
Receive(t) == conn[t[1]] = "open" /\ Moves(t, {"receiving"}, "received")
Fail(t) == Moves(t, {"receiving", "serving"}, "failed")
Serve(t) == conn[t[1]] = "open" /\ Moves(t, {"serving"}, "served")

\* The match is stored, at once or some time after its receipt.
Store(t) == conn[t[1]] = "open" /\ Moves(t, {"receiving", "received"}, "stored")

PhaseStep ==
    \/ \E s \in Sockets, n \in 1..MaxReq : Begin(s, n)
    \/ \E t \in Transactions : Receive(t) \/ Fail(t) \/ Serve(t) \/ Store(t)

Next ==
    \/ ConnStep /\ UNCHANGED <<phase, sound>>
    \/ sound /\ PhaseStep /\ UNCHANGED <<conn, sound>>
    \/ ~sound' /\ (ConnStep \/ UNCHANGED conn)

Spec == Init /\ [][Next]_vars
=============================================================================
