---------------------------- MODULE ToastsProofs ----------------------------
(***************************************************************************)
(* Theorems about Toasts, for any number of toasts and any length of the   *)
(* frames.                                                                 *)
(***************************************************************************)
EXTENDS Toasts, SequenceTheorems, TLAPS

Shown == [toast : Nat, secs : Nat]

ToastsType ==
    /\ toastQueue \in Seq(Nat)
    /\ currentToast \in Nat
    /\ left \in Int
    /\ length \in Seq(Lengths)
    /\ shown \in Seq(Shown)

\* The toasts are numbered as they are added: those that were shown come first, then
\* those that wait, and the one on the screen is the last that was shown.
Numbered ==
    /\ Len(shown) + Len(toastQueue) = Len(length)
    /\ currentToast = Len(shown)
    /\ \A k \in 1..Len(shown) : shown[k].toast = k
    /\ \A k \in 1..Len(toastQueue) : toastQueue[k] = Len(shown) + k

\* Until its time is over, what is left of it and what has been seen of the toast add
\* up to it at least; all earlier toasts had theirs.
Timed ==
    \A k \in 1..Len(shown) :
        IF k = Len(shown) THEN shown[k].secs + left >= Length[length[k]]
        ELSE shown[k].secs >= Length[length[k]]

ToastsInv == ToastsType /\ Numbered /\ Timed

\* A toast's time is a number of seconds.
LEMMA LengthType == \A len \in Lengths : Length[len] \in Int
  BY DEF Lengths, Length

\* At the start no toast was added.
LEMMA InitInv == ToastsInit => ToastsInv
  BY DEF ToastsInit, ToastsInv, ToastsType, Numbered, Timed, Shown

-----------------------------------------------------------------------------
(* Adding a toast.                                                         *)

\* add numbers the new toast behind the others.
LEMMA AddInv ==
    ASSUME ToastsInv, NEW len \in Lengths, Add(len)
    PROVE  ToastsInv'
  <1> USE DEF ToastsInv, ToastsType
  <1>1. UNCHANGED <<currentToast, left, shown>>
    BY DEF Add
  <1>2. /\ length' \in Seq(Lengths) /\ Len(length') = Len(length) + 1
        /\ \A k \in 1..Len(length) : length'[k] = length[k]
    BY AppendProperties DEF Add
  <1>n. Len(length) + 1 \in Nat
    OBVIOUS
  <1>3. /\ toastQueue' \in Seq(Nat) /\ Len(toastQueue') = Len(toastQueue) + 1
        /\ \A k \in 1..Len(toastQueue) : toastQueue'[k] = toastQueue[k]
        /\ toastQueue'[Len(toastQueue) + 1] = Len(length) + 1
    BY <1>n, AppendProperties DEF Add
  <1>4. ToastsType'
    BY <1>1, <1>2, <1>3
  <1>5. Numbered'
    <2>1. /\ Len(shown) \in Nat /\ Len(toastQueue) \in Nat /\ Len(length) \in Nat
          /\ Len(shown) + Len(toastQueue) = Len(length)
      BY LenProperties DEF Numbered
    <2>2. \A k \in 1..Len(toastQueue') : toastQueue'[k] = Len(shown) + k
      <3> SUFFICES ASSUME NEW k \in 1..Len(toastQueue')
                   PROVE  toastQueue'[k] = Len(shown) + k
        OBVIOUS
      <3>1. CASE k \in 1..Len(toastQueue)
        BY <1>3, <3>1 DEF Numbered
      <3>2. CASE k = Len(toastQueue) + 1
        <4>1. toastQueue'[k] = Len(length) + 1
          BY <1>3, <3>2
        <4> HIDE DEF ToastsInv, ToastsType
        <4> QED BY <2>1, <3>2, <4>1
      <3> QED BY <1>3, <2>1, <3>1, <3>2
    <2> QED BY <1>1, <1>2, <1>3, <2>1, <2>2 DEF Numbered
  <1>6. Timed'
    <2>1. \A k \in 1..Len(shown) : length'[k] = length[k]
      BY <1>2 DEF Numbered
    <2> QED BY <1>1, <2>1 DEF Timed
  <1> QED BY <1>4, <1>5, <1>6

-----------------------------------------------------------------------------
(* A frame.                                                                *)

\* What is left of the current toast's time dt seconds later, and the toasts with what
\* has been seen of them.
Later(dt) == IF left > dt THEN left - dt ELSE IF left < 0 THEN left ELSE 0
Seen(dt) ==
    IF currentToast = 0 \/ IsDone(left) THEN shown
    ELSE [shown EXCEPT ![Len(shown)].secs = @ + dt]

\* A frame adds its length to what was seen of a toast.
LEMMA MoreSeconds ==
    ASSUME NEW s \in Shown, NEW dt \in Nat
    PROVE  LET e == [s EXCEPT !.secs = @ + dt]
           IN  e \in Shown /\ e.toast = s.toast /\ e.secs = s.secs + dt
  BY DEF Shown

\* What has been seen, and what is left, after a frame of dt seconds.
LEMMA SeenSoFar ==
    ASSUME ToastsInv, NEW dt \in Nat
    PROVE  /\ Later(dt) \in Int
           /\ Seen(dt) \in Seq(Shown)
           /\ Len(Seen(dt)) = Len(shown)
           /\ \A k \in 1..Len(shown) : Seen(dt)[k].toast = k
           /\ \A k \in 1..Len(shown) :
                IF k = Len(shown) THEN Seen(dt)[k].secs + Later(dt) >= Length[length[k]]
                ELSE Seen(dt)[k].secs >= Length[length[k]]
  <1> USE DEF ToastsInv, ToastsType
  <1>1. Later(dt) \in Int
    BY DEF Later
  <1>l. \A k \in 1..Len(shown) : Length[length[k]] \in Int
    BY LengthType, ElementOfSeq DEF Numbered
  <1>2. CASE currentToast = 0 \/ IsDone(left)
    <2>1. Seen(dt) = shown
      BY <1>2 DEF Seen
    <2>2. currentToast = 0 \/ Later(dt) = left
      BY <1>2 DEF Later, IsDone
    <2>3. Len(shown) = 0 \/ Later(dt) = left
      BY <2>2 DEF Numbered
    <2> QED BY <1>1, <2>1, <2>3 DEF Numbered, Timed
  <1>3. CASE ~(currentToast = 0 \/ IsDone(left))
    <2> DEFINE n == Len(shown)
               e == [shown[n] EXCEPT !.secs = @ + dt]
    <2>1. n \in 1..Len(shown) /\ n \in Nat
      BY <1>3 DEF Numbered
    <2>2. shown[n] \in Shown
      BY <2>1, ElementOfSeq
    <2>3. e \in Shown /\ e.toast = shown[n].toast /\ e.secs = shown[n].secs + dt
      BY <2>2, MoreSeconds
    <2>4. Seen(dt) = [shown EXCEPT ![n] = e]
      BY <1>3, <2>1 DEF Seen
    <2> HIDE DEF n, e
    <2>5. /\ Seen(dt) \in Seq(Shown) /\ Len(Seen(dt)) = Len(shown)
          /\ \A j \in 1..Len(shown) : Seen(dt)[j] = IF j = n THEN e ELSE shown[j]
      BY <2>1, <2>3, <2>4, ExceptSeq
    <2>6. left > 0
      BY <1>3 DEF IsDone
    <2>7. left <= dt + Later(dt)
      BY <2>6 DEF Later
    <2>8. \A k \in 1..Len(shown) : Seen(dt)[k].toast = k
      BY <2>3, <2>5 DEF Numbered
    <2>9. shown[n].secs \in Nat /\ shown[n].secs + left >= Length[length[n]] /\ n = Len(shown)
      BY <2>1, <2>2 DEF Timed, Shown, n
    <2>10. e.secs + Later(dt) >= Length[length[n]]
      BY <1>1, <1>l, <2>1, <2>3, <2>7, <2>9
    <2>11. ASSUME NEW k \in 1..Len(shown)
           PROVE  IF k = Len(shown) THEN Seen(dt)[k].secs + Later(dt) >= Length[length[k]]
                  ELSE Seen(dt)[k].secs >= Length[length[k]]
      BY <2>5, <2>9, <2>10 DEF Timed
    <2> QED BY <1>1, <2>5, <2>8, <2>11
  <1> QED BY <1>2, <1>3

\* update keeps the order and gives a toast its whole time.
LEMMA UpdateInv ==
    ASSUME ToastsInv, NEW dt \in Nat, Update(dt)
    PROVE  ToastsInv'
  <1> USE DEF ToastsInv, ToastsType
  <1>0. length' = length
    BY DEF Update
  <1>l. \A k \in 1..Len(length) : Length[length[k]] \in Int
    BY LengthType, ElementOfSeq
  <1>1. CASE IsDone(Later(dt)) /\ toastQueue # <<>>
    <2>1. /\ currentToast' = Head(toastQueue)
          /\ toastQueue' = Tail(toastQueue)
          /\ left' = Length[length[Head(toastQueue)]]
          /\ shown' = Append(Seen(dt), [toast |-> Head(toastQueue), secs |-> 0])
      BY <1>1 DEF Update, Later, Seen, Popped, SetTime
    <2>2. Head(toastQueue) = Len(shown) + 1 /\ Len(toastQueue) >= 1
      BY <1>1 DEF Numbered
    <2>3. /\ toastQueue' \in Seq(Nat) /\ Len(toastQueue') = Len(toastQueue) - 1
          /\ \A k \in 1..Len(toastQueue') : toastQueue'[k] = toastQueue[k + 1]
      BY <1>1, <2>1, HeadTailProperties
    <2>4. [toast |-> Head(toastQueue), secs |-> 0] \in Shown
      BY <2>2 DEF Shown
    <2>s. PICK seen \in Seq(Shown) :
            /\ seen = Seen(dt) /\ Len(seen) = Len(shown)
            /\ \A k \in 1..Len(shown) : seen[k].toast = k
            /\ \A k \in 1..Len(shown) :
                 IF k = Len(shown) THEN seen[k].secs + Later(dt) >= Length[length[k]]
                 ELSE seen[k].secs >= Length[length[k]]
      BY SeenSoFar
    <2>5. /\ shown' \in Seq(Shown) /\ Len(shown') = Len(shown) + 1
          /\ \A k \in 1..Len(shown) : shown'[k] = seen[k]
          /\ shown'[Len(shown) + 1] = [toast |-> Head(toastQueue), secs |-> 0]
      <3>1. shown' = Append(seen, [toast |-> Head(toastQueue), secs |-> 0])
        BY <2>1, <2>s
      <3> QED BY <2>4, <2>s, <3>1, AppendProperties
    <2>6. Len(shown) \in Nat /\ Len(shown) + 1 <= Len(length)
      BY <2>2 DEF Numbered
    <2>7. left' = Length[length[Len(shown) + 1]] /\ left' \in Int
      BY <1>l, <2>1, <2>2, <2>6
    <2>8. ToastsType'
      BY <1>0, <2>1, <2>2, <2>3, <2>5, <2>6, <2>7
    <2>9. Numbered'
      <3>1. \A k \in 1..Len(shown') : shown'[k].toast = k
        <4> SUFFICES ASSUME NEW k \in 1..Len(shown') PROVE shown'[k].toast = k
          OBVIOUS
        <4>1. k \in 1..Len(shown) \/ k = Len(shown) + 1
          BY <2>5, <2>6
        <4>2. shown'[Len(shown) + 1].toast = Len(shown) + 1
          BY <2>2, <2>5
        <4> QED BY <2>s, <2>5, <4>1, <4>2
      <3>2. \A k \in 1..Len(toastQueue') : toastQueue'[k] = Len(shown') + k
        <4> SUFFICES ASSUME NEW k \in 1..Len(toastQueue')
                     PROVE  toastQueue'[k] = Len(shown') + k
          OBVIOUS
        <4>1. k + 1 \in 1..Len(toastQueue)
          BY <2>3, LenProperties
        <4>2. toastQueue[k + 1] = Len(shown) + (k + 1)
          BY <4>1 DEF Numbered
        <4>3. toastQueue'[k] = toastQueue[k + 1] /\ Len(shown') = Len(shown) + 1
          BY <2>3, <2>5
        <4> HIDE DEF ToastsInv, ToastsType
        <4> QED BY <2>6, <4>1, <4>2, <4>3
      <3>3. Len(shown') + Len(toastQueue') = Len(length') /\ currentToast' = Len(shown')
        <4>1. Len(shown) + Len(toastQueue) = Len(length) /\ Len(toastQueue) \in Nat
          BY LenProperties DEF Numbered
        <4>2. Len(shown') = Len(shown) + 1 /\ Len(toastQueue') = Len(toastQueue) - 1
          BY <2>3, <2>5
        <4>3. currentToast' = Len(shown')
          BY <2>1, <2>2, <4>2
        <4> HIDE DEF ToastsInv, ToastsType
        <4> QED BY <1>0, <2>6, <4>1, <4>2, <4>3
      <3> QED BY <3>1, <3>2, <3>3 DEF Numbered
    <2>10. Timed'
      <3>1. Later(dt) \in Int /\ Later(dt) <= 0
        BY <1>1, SeenSoFar DEF IsDone
      <3>2. ASSUME NEW k \in 1..Len(shown) PROVE shown'[k].secs >= Length[length[k]]
        <4>1. seen[k] \in Shown
          BY <2>s, ElementOfSeq
        <4>2. seen[k].secs \in Nat
          BY <4>1 DEF Shown
        <4>3. Length[length[k]] \in Int
          BY <1>l, <2>6
        <4>4. \/ seen[k].secs + Later(dt) >= Length[length[k]]
              \/ seen[k].secs >= Length[length[k]]
          BY <2>s
        <4>5. seen[k].secs >= Length[length[k]]
          BY <3>1, <4>2, <4>3, <4>4
        <4> QED BY <2>5, <4>5
      <3>3. shown'[Len(shown) + 1].secs + left' >= Length[length[Len(shown) + 1]]
        BY <2>5, <2>7
      <3>4. ASSUME NEW k \in 1..Len(shown')
            PROVE  IF k = Len(shown') THEN shown'[k].secs + left' >= Length[length'[k]]
                   ELSE shown'[k].secs >= Length[length'[k]]
        BY <1>0, <2>5, <2>6, <3>2, <3>3
      <3> QED BY <3>4 DEF Timed
    <2> QED BY <2>8, <2>9, <2>10
  <1>2. CASE ~(IsDone(Later(dt)) /\ toastQueue # <<>>)
    <2>1. /\ left' = Later(dt)
          /\ shown' = Seen(dt)
          /\ UNCHANGED <<toastQueue, currentToast>>
      BY <1>2 DEF Update, Later, Seen
    <2>2. ToastsType'
      BY <1>0, <2>1, SeenSoFar
    <2>3. Numbered'
      BY <1>0, <2>1, SeenSoFar DEF Numbered
    <2>4. Timed'
      BY <1>0, <2>1, SeenSoFar DEF Timed
    <2> QED BY <2>2, <2>3, <2>4
  <1> QED BY <1>1, <1>2

\* Every step keeps the numbers and the times.
THEOREM ToastsInvariant == ToastsSpec => []ToastsInv
  <1>1. ToastsInv /\ [ToastsNext]_toastVars => ToastsInv'
    <2> SUFFICES ASSUME ToastsInv, [ToastsNext]_toastVars PROVE ToastsInv'
      OBVIOUS
    <2>1. ASSUME NEW dt \in 1..MaxFrame, Update(dt) PROVE ToastsInv'
      BY <2>1, UpdateInv, ToastsAssumption
    <2>2. ASSUME NEW len \in Lengths, Add(len) PROVE ToastsInv'
      BY <2>2, AddInv
    <2>3. CASE UNCHANGED toastVars
      BY <2>3 DEF toastVars, ToastsInv, ToastsType, Numbered, Timed
    <2> QED BY <2>1, <2>2, <2>3 DEF ToastsNext, Updates
  <1> QED BY <1>1, InitInv, PTL DEF ToastsSpec

\* Every toast is shown once, in the order in which they were added.
THEOREM InOrder == ToastsSpec => []ToastsInOrder
  <1>1. ToastsInv => ToastsInOrder
    <2> SUFFICES ASSUME ToastsInv PROVE ToastsInOrder
      OBVIOUS
    <2> USE DEF ToastsInv, ToastsType
    <2> DEFINE past == [k \in 1..Len(shown) |-> shown[k].toast]
               all == [k \in 1..Len(length) |-> k]
    <2>1. past \in Seq(Nat) /\ Len(past) = Len(shown)
      BY DEF Numbered
    <2>2. all \in Seq(Nat) /\ Len(all) = Len(length)
      OBVIOUS
    <2>3. \A k \in 1..Len(shown) : past[k] = k
      BY DEF Numbered
    <2>4. \A k \in 1..Len(length) : all[k] = k
      OBVIOUS
    <2> HIDE DEF past, all
    <2>5. /\ past \o toastQueue \in Seq(Nat)
          /\ Len(past \o toastQueue) = Len(shown) + Len(toastQueue)
          /\ \A i \in 1..Len(shown) + Len(toastQueue) : (past \o toastQueue)[i] =
                IF i <= Len(shown) THEN past[i] ELSE toastQueue[i - Len(shown)]
      <3>1. toastQueue \in Seq(Nat)
        OBVIOUS
      <3> HIDE DEF ToastsInv, ToastsType
      <3>2. /\ past \o toastQueue \in Seq(Nat)
            /\ Len(past \o toastQueue) = Len(past) + Len(toastQueue)
            /\ \A i \in 1..Len(past) + Len(toastQueue) : (past \o toastQueue)[i] =
                  IF i <= Len(past) THEN past[i] ELSE toastQueue[i - Len(past)]
        BY <2>1, <3>1, ConcatProperties, Zenon
      <3> QED BY <2>1, <3>2, Zenon
    <2>6. ASSUME NEW i \in 1..Len(length) PROVE (past \o toastQueue)[i] = i
      <3>1. /\ Len(shown) \in Nat /\ Len(toastQueue) \in Nat
            /\ Len(shown) + Len(toastQueue) = Len(length)
        BY DEF Numbered
      <3>2. CASE i <= Len(shown)
        BY <2>3, <2>5, <3>1, <3>2
      <3>3. CASE i > Len(shown)
        <4>1. i - Len(shown) \in 1..Len(toastQueue)
          BY <3>1, <3>3
        <4>2. toastQueue[i - Len(shown)] = i
          BY <3>1, <4>1 DEF Numbered
        <4> QED BY <2>5, <3>1, <3>3, <4>2
      <3>4. i <= Len(shown) \/ i > Len(shown)
        BY <3>1
      <3> QED BY <3>2, <3>3, <3>4
    <2>7. past \o toastQueue = all
      BY <2>2, <2>4, <2>5, <2>6, SeqEqual DEF Numbered
    <2> QED BY <2>7 DEF ToastsInOrder, past, all
  <1> QED BY <1>1, ToastsInvariant, PTL

\* A toast that has given way to the next was on the screen for its whole time.
THEOREM WholeTime == ToastsSpec => []FullTime
  <1>1. ToastsInv => FullTime
    BY DEF ToastsInv, ToastsType, Numbered, Timed, FullTime
  <1> QED BY <1>1, ToastsInvariant, PTL
=============================================================================
