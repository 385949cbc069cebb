------------------------------- MODULE Toasts -------------------------------
(***************************************************************************)
(* Toasts: any part of the program adds one to the queue, and the end of   *)
(* each frame shows the current one or, when its time is over, the next.   *)
(* A frame may be long: a request to The Blue Alliance runs within one.    *)
(***************************************************************************)
EXTENDS Integers, Sequences

CONSTANTS
    MaxToasts,      \* bound: toasts added
    MaxFrame        \* bound: seconds between two updates

ASSUME ToastsAssumption == MaxToasts \in Nat /\ MaxFrame \in Nat \ {0}

\* Seconds; LENGTH_NULL lies in the past.
Length ==
    [LENGTH_NULL |-> -1, LENGTH_SHORT |-> 1, LENGTH_NORMAL |-> 2, LENGTH_LONG |-> 4]
Lengths == DOMAIN Length

VARIABLES
    toastQueue,     \* toasts waiting, by number
    currentToast,   \* the toast last shown, 0 for the one there at the start
    left,           \* its setTime, counted from now and down to 0
    length,         \* the length of each toast added
    shown           \* history: the toasts that have been shown, and for how many seconds

toastVars == <<toastQueue, currentToast, left, length, shown>>

ToastsInit ==
    /\ toastQueue = <<>>
    /\ currentToast = 0
    /\ left = 0
    /\ length = <<>>
    /\ shown = <<>>

Add(len) ==
    /\ Len(length) < MaxToasts
    /\ length' = Append(length, len)
    /\ toastQueue' = Append(toastQueue, Len(length) + 1)
    /\ UNCHANGED <<currentToast, left, shown>>

\* isDone, with t seconds left.
IsDone(t) == t <= 0

MutantPopped == toastQueue
MutantCleared == <<>>           \* as if the toasts waiting were dropped with the one taken
Popped == Tail(toastQueue)

\* init.
MutantSetTime(n) == Length[length[n]] - 1
SetTime(n) == Length[length[n]]

\* update, dt seconds after the last one.  The toast shown then has been on
\* the screen meanwhile.
Update(dt) ==
    LET t == IF left > dt THEN left - dt ELSE IF left < 0 THEN left ELSE 0
        seen == IF currentToast = 0 \/ IsDone(left) THEN shown
                ELSE [shown EXCEPT ![Len(shown)].secs = @ + dt]
    IN  IF IsDone(t) /\ toastQueue # <<>>
          THEN /\ currentToast' = Head(toastQueue)
               /\ toastQueue' = Popped
               /\ left' = SetTime(Head(toastQueue))
               /\ shown' = Append(seen, [toast |-> Head(toastQueue), secs |-> 0])
               /\ UNCHANGED length
          ELSE /\ left' = t
               /\ shown' = seen
               /\ UNCHANGED <<toastQueue, currentToast, length>>

Updates == \E dt \in 1..MaxFrame : Update(dt)

ToastsNext == Updates \/ \E len \in Lengths : Add(len)

ToastsSpec == ToastsInit /\ [][ToastsNext]_toastVars

\* The loop goes on until the window is closed.
ToastsLiveSpec == ToastsSpec /\ WF_toastVars(Updates)

-----------------------------------------------------------------------------
(* Properties.                                                             *)

\* Every toast is shown once, in the order in which they were added, whoever
\* added them and however long a frame takes.
ToastsInOrder ==
    [k \in 1..Len(shown) |-> shown[k].toast] \o toastQueue = [k \in 1..Len(length) |-> k]

\* A toast that has given way to the next was on the screen for its whole time.
FullTime ==
    \A k \in 1..Len(shown) - 1 : shown[k].secs >= Length[length[shown[k].toast]]

\* Every toast is shown in the end.
ToastShown ==
    \A n \in 1..MaxToasts :
        (Len(length) >= n) ~> \E k \in 1..Len(shown) : shown[k].toast = n
=============================================================================
