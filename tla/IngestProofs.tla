---------------------------- MODULE IngestProofs ----------------------------
(***************************************************************************)
(* Theorems about Ingest, for any payloads, pages, batches and bounds.     *)
(***************************************************************************)
EXTENDS Ingest, SequenceTheorems, FiniteSetTheorems, TLAPS

Tables == {"matchtransaction", "scmatch"}

\* What todo holds where the program stands.
TodoType ==
    /\ pc \in {"idle", "match", "pages", "teams", "batch"}
    /\ pc = "match" => todo \in Seq(Row)
    /\ pc = "teams" => todo \in Seq(Teams)
    /\ pc = "batch" => todo \in Seq(Tables)
    /\ pc \in {"idle", "pages"} => todo = <<>>

StateType ==
    /\ page \in 0..Pages
    /\ pc = "pages" => page < Pages
    /\ pc = "teams" => page > 0
    /\ matchConn \in BOOLEAN /\ restConn \in BOOLEAN /\ mainConn \in BOOLEAN /\ up \in BOOLEAN
    /\ matchtransaction \in Seq(Row \cup {ButtonRow})
    /\ team \subseteq Teams
    /\ scmatch \in Nat
    /\ submitted \in Seq(Payloads)
    /\ lost \subseteq 1..Len(submitted)
    /\ pc = "match" => submitted # <<>>
    /\ before \subseteq Teams
    /\ cleared \in BOOLEAN /\ clean \in BOOLEAN
    /\ refreshes \in 0..MaxRefresh
    /\ presses \in 0..MaxPress
    /\ outages \in 0..MaxOutage

-----------------------------------------------------------------------------
(* The parser.                                                             *)

\* The elements before the first malformed one.
Good(s) == {k \in 1..Len(s) : \A j \in 1..k : s[j] # "bad"}

\* A set of numbers that has all smaller ones is an interval.
LEMMA DownClosed ==
    ASSUME NEW n \in Nat, NEW D \in SUBSET (1..n), \A k \in D : 1..k \subseteq D
    PROVE  Cardinality(D) \in 0..n /\ D = 1..Cardinality(D)
  <1>1. IsFiniteSet(1..n) /\ Cardinality(1..n) = n
    BY FS_Interval
  <1>2. IsFiniteSet(D) /\ Cardinality(D) <= n
    BY <1>1, FS_Subset
  <1>3. PICK c \in Nat : c = Cardinality(D)
    BY <1>2, FS_CardinalityType
  <1>4. ASSUME NEW k \in D PROVE k \in 1..c
    <2>1. k \in 1..n /\ 1..k \in SUBSET D
      BY <1>4
    <2>2. Cardinality(1..k) <= Cardinality(D)
      BY <1>2, <2>1, FS_Subset
    <2>3. Cardinality(1..k) = k
      BY <2>1, FS_Interval
    <2> QED BY <1>3, <2>1, <2>2, <2>3
  <1>5. IsFiniteSet(1..c) /\ Cardinality(1..c) = c
    BY FS_Interval
  <1>6. D = 1..c
    BY <1>3, <1>4, <1>5, FS_Subset
  <1> QED BY <1>2, <1>3, <1>6

\* The parse loop keeps exactly the elements before the first malformed one.
LEMMA BeforeIsGood ==
    ASSUME NEW s \in Seq(Kinds)
    PROVE  /\ Before(s) \in Seq(Kinds)
           /\ Len(Before(s)) \in 0..Len(s)
           /\ Good(s) = 1..Len(Before(s))
  <1>1. Len(s) \in Nat
    OBVIOUS
  <1>2. \A k \in Good(s) : 1..k \subseteq Good(s)
    BY <1>1 DEF Good
  <1>3. Good(s) \in SUBSET (1..Len(s))
    BY DEF Good
  <1>4. PICK c \in 0..Len(s) : c = Cardinality(Good(s)) /\ Good(s) = 1..c
    BY <1>1, <1>2, <1>3, DownClosed
  <1>5. Before(s) = SubSeq(s, 1, c)
    BY <1>4 DEF Before, Good
  <1>6. \A i \in 1..c : s[i] \in Kinds
    BY <1>1, ElementOfSeq
  <1>7. SubSeq(s, 1, c) \in Seq(Kinds) /\ Len(SubSeq(s, 1, c)) = IF 1 <= c THEN c - 1 + 1 ELSE 0
    BY <1>1, <1>6, SubSeqProperties
  <1>8. Before(s) \in Seq(Kinds) /\ Len(Before(s)) = c
    <2>1. (IF 1 <= c THEN c - 1 + 1 ELSE 0) = c
      BY <1>1
    <2> QED BY <1>5, <1>7, <2>1, Zenon
  <1> QED BY <1>4, <1>8

\* The rows that parseMatch makes of payload p as submission n.
LEMMA ParsedRows ==
    ASSUME NEW n \in Nat \ {0}, NEW p \in Seq(Kinds)
    PROVE  /\ ParseMatch(n, p) \in Seq(Row)
           /\ Len(ParseMatch(n, p)) = Len(Before(p))
           /\ \A k \in 1..Len(Before(p)) : ParseMatch(n, p)[k] =
                 [sub |-> n, pos |-> k, DCTimestamp |-> DCTimestamp(p[k])]
  <1>1. PICK c \in Nat : c = Len(Before(p))
    BY BeforeIsGood
  <1>2. \A k \in 1..c : [sub |-> n, pos |-> k, DCTimestamp |-> DCTimestamp(p[k])] \in Row
    BY DEF Row, DCTimestamp
  <1>3. ParseMatch(n, p) = [k \in 1..c |-> [sub |-> n, pos |-> k, DCTimestamp |-> DCTimestamp(p[k])]]
    BY <1>1 DEF ParseMatch
  <1>4. ParseMatch(n, p) \in [1..c -> Row]
    BY <1>2, <1>3
  <1>5. ParseMatch(n, p) \in Seq(Row) /\ Len(ParseMatch(n, p)) = c
    BY <1>3, <1>4
  <1> QED BY <1>1, <1>3, <1>5

-----------------------------------------------------------------------------
(* The invariant.                                                          *)

\* The datapoints of the submission under way, and how many of them are behind.
Parsed == Len(Before(submitted[Len(submitted)]))
Tried == Parsed - Len(todo)

\* The row of datapoint k of submission n.
Datapoint(n, k) == [sub |-> n, pos |-> k, DCTimestamp |-> DCTimestamp(submitted[n][k])]
Inserted(n, k) ==
    \E i \in 1..Len(matchtransaction) :
        matchtransaction[i].sub = n /\ matchtransaction[i].pos = k

\* A submission under way has its last datapoints in todo, and no row beyond them.
UnderWay ==
    pc = "match" =>
        /\ Len(todo) <= Parsed
        /\ \A k \in 1..Len(todo) : todo[k] = Datapoint(Len(submitted), Tried + k)
        /\ \A i \in 1..Len(matchtransaction) :
              matchtransaction[i].sub = Len(submitted) => matchtransaction[i].pos <= Tried

\* Datapoints that are not in the database were lost or are still to be tried.
NoneMissing ==
    \A n \in 1..Len(submitted) : n \notin lost =>
        \A k \in Good(submitted[n]) :
            Inserted(n, k) \/ (pc = "match" /\ n = Len(submitted) /\ k > Tried)

IngestInv == TodoType /\ StateType /\ UnderWay /\ MatchRowsSound /\ NoneMissing

\* At the start nothing has been submitted.
LEMMA InitInv == Init => IngestInv
  <1> SUFFICES ASSUME Init PROVE IngestInv
    OBVIOUS
  <1>1. TodoType
    BY DEF Init, TodoType
  <1>2. StateType
    BY PagesAssumption, IngestBoundsAssumption DEF Init, StateType
  <1>3. UnderWay /\ MatchRowsSound /\ NoneMissing
    BY DEF Init, UnderWay, MatchRowsSound, NoneMissing
  <1> QED BY <1>1, <1>2, <1>3 DEF IngestInv

\* The submission under way.
LEMMA MatchFacts ==
    ASSUME IngestInv, pc = "match"
    PROVE  /\ Len(submitted) \in Nat \ {0}
           /\ submitted[Len(submitted)] \in Seq(Kinds)
           /\ Parsed \in 0..Len(submitted[Len(submitted)])
           /\ Good(submitted[Len(submitted)]) = 1..Parsed
           /\ todo \in Seq(Row) /\ Len(todo) \in 0..Parsed /\ Tried \in 0..Parsed
  <1>1. submitted \in Seq(Payloads) /\ submitted # <<>>
    BY DEF IngestInv, StateType
  <1>2. Len(submitted) \in Nat \ {0}
    BY <1>1, EmptySeq
  <1>3. submitted[Len(submitted)] \in Payloads
    BY <1>1, <1>2, ElementOfSeq
  <1>4. submitted[Len(submitted)] \in Seq(Kinds)
    BY <1>3, PayloadsAssumption
  <1>5. /\ Parsed \in 0..Len(submitted[Len(submitted)])
        /\ Good(submitted[Len(submitted)]) = 1..Parsed
    BY <1>4, BeforeIsGood DEF Parsed
  <1>6. todo \in Seq(Row)
    BY DEF IngestInv, TodoType
  <1>7. Len(todo) \in Nat /\ Len(todo) <= Parsed
    BY <1>6, LenProperties DEF IngestInv, UnderWay
  <1>8. Len(submitted[Len(submitted)]) \in Nat
    BY <1>4, LenProperties
  <1>9. Tried \in 0..Parsed /\ Len(todo) \in 0..Parsed
    BY <1>5, <1>7, <1>8 DEF Tried
  <1> QED BY <1>2, <1>4, <1>5, <1>6, <1>9

-----------------------------------------------------------------------------
(* Steps that leave the submissions alone.                                 *)

\* A step that tries no datapoint and adds at most a row of a button.
LEMMA OtherRow ==
    ASSUME IngestInv, pc # "match", pc' # "match", submitted' = submitted, lost' = lost,
           \/ matchtransaction' = matchtransaction
           \/ matchtransaction' = Append(matchtransaction, ButtonRow)
    PROVE  /\ UnderWay' /\ MatchRowsSound' /\ NoneMissing'
           /\ matchtransaction' \in Seq(Row \cup {ButtonRow})
  <1>1. matchtransaction \in Seq(Row \cup {ButtonRow}) /\ Len(matchtransaction) \in Nat
    BY LenProperties DEF IngestInv, StateType
  <1>2. UnderWay'
    BY DEF UnderWay
  <1>3. CASE matchtransaction' = matchtransaction
    BY <1>1, <1>2, <1>3 DEF IngestInv, MatchRowsSound, NoneMissing, Inserted
  <1>4. CASE matchtransaction' = Append(matchtransaction, ButtonRow)
    <2>1. /\ matchtransaction' \in Seq(Row \cup {ButtonRow})
          /\ Len(matchtransaction') = Len(matchtransaction) + 1
          /\ \A i \in 1..Len(matchtransaction) : matchtransaction'[i] = matchtransaction[i]
          /\ matchtransaction'[Len(matchtransaction) + 1].sub = 0
      BY <1>1, <1>4, AppendProperties DEF ButtonRow
    <2>2. MatchRowsSound'
      <3> SUFFICES ASSUME NEW i \in 1..Len(matchtransaction'), matchtransaction'[i].sub # 0
                   PROVE  LET r == matchtransaction'[i]
                              p == submitted[r.sub]
                          IN  /\ r.sub <= Len(submitted)
                              /\ r.pos <= Len(p)
                              /\ \A k \in 1..r.pos : p[k] # "bad"
                              /\ r.DCTimestamp = "NULL" <=> p[r.pos] = "noShow"
                              /\ \A j \in 1..i - 1 :
                                    matchtransaction'[j].sub = r.sub
                                      => matchtransaction'[j].pos < r.pos
        BY DEF MatchRowsSound
      <3>1. i \in 1..Len(matchtransaction) /\ matchtransaction'[i] = matchtransaction[i]
        BY <1>1, <2>1
      <3>2. \A j \in 1..i - 1 : matchtransaction'[j] = matchtransaction[j]
        BY <1>1, <2>1, <3>1
      <3> QED BY <3>1, <3>2 DEF IngestInv, MatchRowsSound
    <2>3. \A n, k : Inserted(n, k) => Inserted(n, k)'
      BY <1>1, <2>1 DEF Inserted
    <2>4. NoneMissing'
      BY <2>3 DEF IngestInv, NoneMissing
    <2> QED BY <1>2, <2>1, <2>2, <2>4
  <1> QED BY <1>3, <1>4

\* A step that changes nothing but the connections and the refresh.
LEMMA SameMatch ==
    ASSUME IngestInv, pc' = pc, todo' = todo, submitted' = submitted, lost' = lost,
           matchtransaction' = matchtransaction
    PROVE  UnderWay' /\ MatchRowsSound' /\ NoneMissing'
  BY DEF IngestInv, UnderWay, MatchRowsSound, NoneMissing, Inserted, Parsed, Tried, Datapoint

-----------------------------------------------------------------------------
(* The steps of a submission.                                              *)

\* A submission is parsed, and its rows wait for their inserts.
LEMMA ReceiveInv ==
    ASSUME IngestInv, NEW p \in Payloads, ReceiveMatch(p)
    PROVE  IngestInv'
  <1> DEFINE N == Len(submitted)
  <1>0. /\ pc = "idle" /\ pc' = "match" /\ lost' = lost /\ matchtransaction' = matchtransaction
        /\ submitted' = Append(submitted, p) /\ todo' = ParseMatch(N + 1, p)
    BY DEF ReceiveMatch, tables
  <1>1. submitted \in Seq(Payloads) /\ N \in Nat
    BY LenProperties DEF IngestInv, StateType
  <1>2. /\ submitted' \in Seq(Payloads) /\ Len(submitted') = N + 1 /\ submitted' # <<>>
        /\ \A n \in 1..N : submitted'[n] = submitted[n]
        /\ submitted'[N + 1] = p
    BY <1>0, <1>1, AppendProperties
  <1>3. p \in Seq(Kinds)
    BY PayloadsAssumption
  <1>4. /\ todo' \in Seq(Row) /\ Len(todo') = Len(Before(p))
        /\ \A k \in 1..Len(Before(p)) :
              todo'[k] = [sub |-> N + 1, pos |-> k, DCTimestamp |-> DCTimestamp(p[k])]
    BY <1>0, <1>1, <1>3, ParsedRows
  <1>5. Len(Before(p)) \in Nat /\ Good(p) = 1..Len(Before(p))
    BY <1>3, BeforeIsGood, LenProperties
  <1>6. Parsed' = Len(Before(p)) /\ Tried' = 0
    <2>1. Parsed' = Len(Before(p))
      BY <1>2 DEF Parsed
    <2> QED BY <1>4, <1>5, <2>1 DEF Tried
  <1>m. matchtransaction \in Seq(Row \cup {ButtonRow}) /\ Len(matchtransaction) \in Nat
    BY LenProperties DEF IngestInv, StateType
  <1>7. \A i \in 1..Len(matchtransaction) : matchtransaction[i].sub \in 0..N
    <2> SUFFICES ASSUME NEW i \in 1..Len(matchtransaction) PROVE matchtransaction[i].sub \in 0..N
      OBVIOUS
    <2>1. matchtransaction[i] \in Row \cup {ButtonRow}
      BY <1>m, ElementOfSeq
    <2>2. matchtransaction[i].sub \in Nat
      BY <2>1 DEF Row, ButtonRow
    <2> QED BY <1>1, <2>2 DEF IngestInv, MatchRowsSound
  <1>8. TodoType'
    BY <1>0, <1>4 DEF TodoType
  <1>9. StateType'
    <2>1. lost \subseteq 1..Len(submitted')
      BY <1>1, <1>2 DEF IngestInv, StateType
    <2> QED BY <1>0, <1>2, <2>1 DEF IngestInv, StateType, ReceiveMatch, tables, refreshHist
  <1>10. UnderWay'
    <2>1. \A k \in 1..Len(todo') : todo'[k] = Datapoint(Len(submitted), Tried + k)'
      <3> SUFFICES ASSUME NEW k \in 1..Len(todo')
                   PROVE  todo'[k] = Datapoint(Len(submitted), Tried + k)'
        OBVIOUS
      <3>1. k \in 1..Len(Before(p)) /\ (Tried + k)' = k
        BY <1>4, <1>5, <1>6
      <3> QED BY <1>2, <1>4, <3>1 DEF Datapoint
    <2>2. \A i \in 1..Len(matchtransaction') : matchtransaction'[i].sub # Len(submitted')
      BY <1>0, <1>1, <1>2, <1>7
    <2> QED BY <1>4, <1>5, <1>6, <2>1, <2>2 DEF UnderWay
  <1>11. MatchRowsSound'
    BY <1>0, <1>1, <1>2, <1>7 DEF IngestInv, MatchRowsSound
  <1>12. NoneMissing'
    <2> SUFFICES ASSUME NEW n \in 1..N + 1, n \notin lost, NEW k \in Good(submitted'[n])
                 PROVE  Inserted(n, k)' \/ (n = N + 1 /\ k > Tried')
      BY <1>0, <1>2 DEF NoneMissing
    <2>1. CASE n = N + 1
      BY <1>2, <1>5, <1>6, <2>1
    <2>2. CASE n \in 1..N
      <3>1. k \in Good(submitted[n])
        BY <1>2, <2>2
      <3>2. Inserted(n, k)
        BY <1>0, <2>2, <3>1 DEF IngestInv, NoneMissing
      <3> QED BY <1>0, <3>2 DEF Inserted
    <2> QED BY <1>1, <2>1, <2>2
  <1> QED BY <1>8, <1>9, <1>10, <1>11, <1>12 DEF IngestInv

\* One insert of a match: the row is in the table or its submission is marked.
LEMMA InsertInv ==
    ASSUME IngestInv, NEW ok \in BOOLEAN, InsertMatch(ok)
    PROVE  IngestInv'
  <1> DEFINE N == Len(submitted)
             M == Len(matchtransaction)
             r == Head(todo)
  <1>0. /\ pc = "match" /\ pc' = "match" /\ todo # <<>> /\ submitted' = submitted
        /\ todo' = Tail(todo)
        /\ matchtransaction' = IF ok THEN Append(matchtransaction, r) ELSE matchtransaction
        /\ lost' = IF ok THEN lost ELSE lost \cup {r.sub}
    BY DEF InsertMatch
  <1>1. /\ N \in Nat \ {0} /\ submitted[N] \in Seq(Kinds)
        /\ Parsed \in 0..Len(submitted[N]) /\ Good(submitted[N]) = 1..Parsed
        /\ todo \in Seq(Row) /\ Len(todo) \in 0..Parsed /\ Tried \in 0..Parsed
    BY <1>0, MatchFacts
  <1>m. matchtransaction \in Seq(Row \cup {ButtonRow}) /\ M \in Nat
    BY LenProperties DEF IngestInv, StateType
  <1>l. Len(submitted[N]) \in Nat /\ Parsed \in Nat /\ Len(todo) \in Nat
    BY <1>1, LenProperties
  <1>2. /\ Len(todo) >= 1 /\ todo' \in Seq(Row) /\ Len(todo') = Len(todo) - 1
        /\ \A k \in 1..Len(todo') : todo'[k] = todo[k + 1]
        /\ r = todo[1] /\ r \in Row
    BY <1>0, <1>1, HeadTailProperties, EmptySeq
  <1>3. Parsed' = Parsed /\ Tried' = Tried + 1
    <2>1. Parsed' = Parsed
      BY <1>0 DEF Parsed
    <2> QED BY <1>1, <1>l, <1>2, <2>1 DEF Tried
  <1>4. r = Datapoint(N, Tried + 1)
    BY <1>0, <1>2, <1>l DEF IngestInv, UnderWay
  <1>5. r.sub = N /\ r.pos = Tried + 1 /\ r.DCTimestamp = DCTimestamp(submitted[N][Tried + 1])
    BY <1>4 DEF Datapoint
  <1>6. Tried + 1 \in 1..Parsed
    BY <1>1, <1>l, <1>2 DEF Tried
  <1>7. /\ matchtransaction' \in Seq(Row \cup {ButtonRow})
        /\ Len(matchtransaction') = IF ok THEN M + 1 ELSE M
        /\ \A i \in 1..M : matchtransaction'[i] = matchtransaction[i]
        /\ ok => matchtransaction'[M + 1] = r
    <2>1. CASE ok
      BY <1>0, <1>m, <1>2, <2>1, AppendProperties
    <2>2. CASE ~ok
      BY <1>0, <1>m, <2>2
    <2> QED BY <2>1, <2>2
  <1>8. TodoType'
    BY <1>0, <1>2 DEF TodoType
  <1>9. StateType'
    <2>1. lost' \subseteq 1..Len(submitted')
      BY <1>0, <1>1, <1>5 DEF IngestInv, StateType
    <2> QED BY <1>0, <1>7, <2>1 DEF IngestInv, StateType, InsertMatch, conns, refreshHist
  <1>10. UnderWay'
    <2>1. \A k \in 1..Len(todo') : todo'[k] = Datapoint(Len(submitted), Tried + k)'
      <3> SUFFICES ASSUME NEW k \in 1..Len(todo')
                   PROVE  todo'[k] = Datapoint(Len(submitted), Tried + k)'
        OBVIOUS
      <3>1. k + 1 \in 1..Len(todo) /\ (Tried + k)' = Tried + (k + 1)
        BY <1>1, <1>l, <1>2, <1>3
      <3>2. todo[k + 1] = Datapoint(N, Tried + (k + 1))
        BY <1>0, <3>1 DEF IngestInv, UnderWay
      <3> QED BY <1>0, <1>2, <3>1, <3>2 DEF Datapoint
    <2>2. ASSUME NEW i \in 1..Len(matchtransaction'), matchtransaction'[i].sub = N
          PROVE  matchtransaction'[i].pos <= Tried + 1
      <3>1. CASE i \in 1..M
        <4>1. matchtransaction[i].pos <= Tried
          BY <1>0, <1>7, <2>2, <3>1 DEF IngestInv, UnderWay
        <4>2. matchtransaction[i] \in Row \cup {ButtonRow}
          BY <1>m, <3>1, ElementOfSeq
        <4>3. matchtransaction[i].pos \in Nat
          BY <4>2 DEF Row, ButtonRow
        <4> QED BY <1>1, <1>l, <1>7, <3>1, <4>1, <4>3
      <3>2. CASE ok /\ i = M + 1
        BY <1>5, <1>6, <1>l, <1>7, <3>2
      <3> QED BY <1>m, <1>7, <3>1, <3>2
    <2>3. Len(todo') <= Parsed'
      BY <1>1, <1>l, <1>2, <1>3
    <2> QED BY <1>0, <1>3, <2>1, <2>2, <2>3 DEF UnderWay
  <1>11. MatchRowsSound'
    <2> SUFFICES ASSUME NEW i \in 1..Len(matchtransaction'), matchtransaction'[i].sub # 0
                 PROVE  LET q == matchtransaction'[i]
                            p == submitted[q.sub]
                        IN  /\ q.sub <= Len(submitted)
                            /\ q.pos <= Len(p)
                            /\ \A k \in 1..q.pos : p[k] # "bad"
                            /\ q.DCTimestamp = "NULL" <=> p[q.pos] = "noShow"
                            /\ \A j \in 1..i - 1 :
                                  matchtransaction'[j].sub = q.sub
                                    => matchtransaction'[j].pos < q.pos
      BY <1>0 DEF MatchRowsSound
    <2>1. CASE i \in 1..M
      <3>1. \A j \in 1..i - 1 : matchtransaction'[j] = matchtransaction[j]
        BY <1>m, <1>7, <2>1
      <3>2. matchtransaction'[i] = matchtransaction[i]
        BY <1>7, <2>1
      <3> QED BY <2>1, <3>1, <3>2 DEF IngestInv, MatchRowsSound
    <2>2. CASE ok /\ i = M + 1
      <3>1. matchtransaction'[i] = r
        BY <1>7, <2>2
      <3>2. \A k \in 1..Tried + 1 : submitted[N][k] # "bad"
        BY <1>1, <1>6, <1>l DEF Good
      <3>3. ASSUME NEW j \in 1..M, matchtransaction[j].sub = N
            PROVE  matchtransaction[j].pos < Tried + 1
        <4>1. matchtransaction[j].pos <= Tried
          BY <1>0, <3>3 DEF IngestInv, UnderWay
        <4>2. matchtransaction[j] \in Row \cup {ButtonRow}
          BY <1>m, ElementOfSeq
        <4>3. matchtransaction[j].pos \in Nat
          BY <4>2 DEF Row, ButtonRow
        <4> QED BY <1>1, <1>l, <4>1, <4>3
      <3>4. \A j \in 1..i - 1 : j \in 1..M /\ matchtransaction'[j] = matchtransaction[j]
        BY <1>m, <1>7, <2>2
      <3>5. r.DCTimestamp = "NULL" <=> submitted[N][Tried + 1] = "noShow"
        BY <1>5 DEF DCTimestamp
      <3>6. r.sub <= N /\ Tried + 1 <= Len(submitted[N])
        BY <1>1, <1>5, <1>6, <1>l
      <3> QED BY <1>5, <3>1, <3>2, <3>3, <3>4, <3>5, <3>6
    <2> QED BY <1>m, <1>7, <2>1, <2>2
  <1>12. NoneMissing'
    <2> SUFFICES ASSUME NEW n \in 1..N, n \notin lost', NEW k \in Good(submitted[n])
                 PROVE  Inserted(n, k)' \/ (n = N /\ k > Tried')
      BY <1>0 DEF NoneMissing
    <2>1. n \notin lost /\ (n = N => ok)
      BY <1>0, <1>5
    <2>2. Inserted(n, k) => Inserted(n, k)'
      BY <1>m, <1>7 DEF Inserted
    <2>3. CASE n = N /\ k > Tried
      <3>1. k \in Nat
        BY DEF Good
      <3>2. k = Tried + 1 \/ k > Tried'
        BY <1>1, <1>l, <1>3, <2>3, <3>1
      <3>3. CASE k = Tried + 1
        <4>1. ok /\ M + 1 \in 1..Len(matchtransaction')
          BY <1>m, <1>7, <2>1, <2>3
        <4>2. matchtransaction'[M + 1].sub = n /\ matchtransaction'[M + 1].pos = k
          BY <1>5, <1>7, <2>3, <3>3, <4>1
        <4> QED BY <4>1, <4>2 DEF Inserted
      <3> QED BY <2>3, <3>2, <3>3
    <2>4. CASE Inserted(n, k)
      BY <2>2, <2>4
    <2> QED BY <2>1, <2>3, <2>4 DEF IngestInv, NoneMissing
  <1> QED BY <1>8, <1>9, <1>10, <1>11, <1>12 DEF IngestInv

\* addMatchDatapoints returns when nothing is left to insert.
LEMMA MatchDoneInv ==
    ASSUME IngestInv, MatchDone
    PROVE  IngestInv'
  <1>0. /\ pc = "match" /\ todo = <<>> /\ pc' = "idle" /\ todo' = todo
        /\ UNCHANGED <<submitted, lost, matchtransaction>>
    BY DEF MatchDone, tables, matchHist
  <1>1. /\ Good(submitted[Len(submitted)]) = 1..Parsed /\ Tried \in 0..Parsed
        /\ Parsed \in 0..Len(submitted[Len(submitted)])
    BY <1>0, MatchFacts
  <1>2. Parsed \in Nat /\ Tried = Parsed
    BY <1>0, <1>1 DEF Tried
  <1>3. TodoType'
    BY <1>0 DEF TodoType
  <1>4. StateType'
    BY <1>0 DEF IngestInv, StateType, MatchDone, tables, matchHist, refreshHist
  <1>5. UnderWay' /\ MatchRowsSound'
    BY <1>0 DEF IngestInv, UnderWay, MatchRowsSound
  <1>6. NoneMissing'
    <2> SUFFICES ASSUME NEW n \in 1..Len(submitted), n \notin lost, NEW k \in Good(submitted[n])
                 PROVE  Inserted(n, k)
      BY <1>0 DEF NoneMissing, Inserted
    <2>1. ~(n = Len(submitted) /\ k > Tried)
      BY <1>1, <1>2
    <2> QED BY <2>1 DEF IngestInv, NoneMissing
  <1> QED BY <1>3, <1>4, <1>5, <1>6 DEF IngestInv

-----------------------------------------------------------------------------
(* The other steps.                                                        *)

\* The steps of a refresh leave the matches alone.
LEMMA RefreshSteps ==
    ASSUME IngestInv, NEW ok \in BOOLEAN, NEW n \in Nat,
           PressRest(ok) \/ GetTeamData(n) \/ InsertTeam(ok) \/ PageDone
    PROVE  IngestInv'
  <1>1. /\ pc # "match" /\ pc' # "match"
        /\ UNCHANGED <<submitted, lost, matchtransaction>>
    BY DEF PressRest, GetTeamData, InsertTeam, PageDone, matchHist, tables
  <1>2. UnderWay' /\ MatchRowsSound' /\ NoneMissing'
    BY <1>1, OtherRow
  <1>t. TodoType /\ StateType
    BY DEF IngestInv
  <1>3. CASE PressRest(ok)
    <2>1. TodoType'
      BY <1>t, <1>3 DEF PressRest, TodoType
    <2>2. StateType'
      BY <1>t, <1>3, PagesAssumption, IngestBoundsAssumption
      DEF PressRest, StateType, Deleted, matchHist, conns
    <2> QED BY <1>2, <2>1, <2>2 DEF IngestInv
  <1>4. CASE GetTeamData(n)
    <2>1. page \in 0..Pages - 1 /\ Published[page] \in Seq(Teams)
      BY <1>t, <1>4, PagesAssumption DEF GetTeamData, StateType
    <2>2. \A j \in 1..n : Published[page][j] \in Teams
      BY <1>4, <2>1, ElementOfSeq, LenProperties DEF GetTeamData, MakeTBAReq
    <2>3. todo' \in Seq(Teams)
      BY <1>4, <2>2, SubSeqProperties DEF GetTeamData, ParseTeams
    <2>4. TodoType'
      BY <1>4, <2>3 DEF GetTeamData, TodoType
    <2>5. page' \in 1..Pages
      BY <1>4, <2>1, PagesAssumption DEF GetTeamData
    <2>6. clean' \in BOOLEAN
      BY <1>4 DEF GetTeamData
    <2>7. StateType'
      BY <1>t, <1>4, <2>5, <2>6, PagesAssumption DEF GetTeamData, StateType, conns, tables, matchHist
    <2> QED BY <1>2, <2>4, <2>7 DEF IngestInv
  <1>5. CASE InsertTeam(ok)
    <2>1. todo \in Seq(Teams) /\ todo # <<>>
      BY <1>t, <1>5 DEF InsertTeam, TodoType
    <2>2. Head(todo) \in Teams /\ todo' \in Seq(Teams)
      BY <1>5, <2>1, HeadTailProperties DEF InsertTeam
    <2>3. TodoType'
      BY <1>5, <2>2 DEF InsertTeam, TodoType
    <2>4. clean' \in BOOLEAN /\ team' \subseteq Teams
      BY <1>t, <1>5, <2>2 DEF InsertTeam, StateType
    <2>5. StateType'
      BY <1>t, <1>5, <2>4 DEF InsertTeam, StateType, conns, matchHist
    <2> QED BY <1>2, <2>3, <2>5 DEF IngestInv
  <1>6. CASE PageDone
    <2>1. TodoType'
      BY <1>6 DEF PageDone, TodoType
    <2>2. pc' = "pages" => page < Pages
      BY <1>t, <1>6, PagesAssumption DEF PageDone, StateType
    <2>3. StateType'
      BY <1>t, <1>6, <2>2 DEF PageDone, StateType, conns, tables, matchHist, refreshHist
    <2> QED BY <1>2, <2>1, <2>3 DEF IngestInv
  <1> QED BY <1>3, <1>4, <1>5, <1>6

\* The rows of the other buttons are not those of a submission.
LEMMA ButtonSteps ==
    ASSUME IngestInv, NEW ok \in BOOLEAN,
           (\E b \in Batches : PressButton(b)) \/ InsertRow(ok) \/ ButtonDone
    PROVE  IngestInv'
  <1>t. TodoType /\ StateType
    BY DEF IngestInv
  <1>1. /\ pc # "match" /\ pc' # "match" /\ submitted' = submitted /\ lost' = lost
        /\ \/ matchtransaction' = matchtransaction
           \/ matchtransaction' = Append(matchtransaction, ButtonRow)
    BY DEF PressButton, InsertRow, ButtonDone, matchHist, tables
  <1>2. /\ UnderWay' /\ MatchRowsSound' /\ NoneMissing'
        /\ matchtransaction' \in Seq(Row \cup {ButtonRow})
    BY <1>1, OtherRow
  <1>3. ASSUME NEW b \in Batches, PressButton(b) PROVE IngestInv'
    <2>1. TodoType'
      BY <1>3, BatchesAssumption DEF PressButton, TodoType, Tables
    <2>2. StateType'
      BY <1>t, <1>2, <1>3, IngestBoundsAssumption
      DEF PressButton, StateType, conns, tables, matchHist, refreshHist
    <2> QED BY <1>2, <2>1, <2>2 DEF IngestInv
  <1>4. CASE InsertRow(ok)
    <2>1. todo' \in Seq(Tables)
      BY <1>t, <1>4, HeadTailProperties DEF InsertRow, TodoType
    <2>2. TodoType'
      BY <1>4, <2>1 DEF InsertRow, TodoType
    <2>3. scmatch' \in Nat
      BY <1>t, <1>4 DEF InsertRow, StateType
    <2>4. StateType'
      BY <1>t, <1>2, <1>4, <2>3 DEF InsertRow, StateType, conns, matchHist, refreshHist
    <2> QED BY <1>2, <2>2, <2>4 DEF IngestInv
  <1>5. CASE ButtonDone
    <2>1. TodoType'
      BY <1>5 DEF ButtonDone, TodoType
    <2>2. StateType'
      BY <1>t, <1>5 DEF ButtonDone, StateType, conns, tables, matchHist, refreshHist
    <2> QED BY <1>2, <2>1, <2>2 DEF IngestInv
  <1> QED BY <1>3, <1>4, <1>5

\* The database going down or coming back changes no table.
LEMMA ServerSteps ==
    ASSUME IngestInv, DbDown \/ DbUp \/ UNCHANGED vars
    PROVE  IngestInv'
  <1>1. UNCHANGED <<pc, todo, page, tables, matchHist, refreshHist, presses>>
    BY DEF DbDown, DbUp, vars
  <1>2. UnderWay' /\ MatchRowsSound' /\ NoneMissing'
    BY <1>1, SameMatch DEF tables, matchHist
  <1>3. TodoType'
    BY <1>1 DEF IngestInv, TodoType
  <1>4. /\ {matchConn', restConn', mainConn', up'} \subseteq BOOLEAN
        /\ outages' \in 0..MaxOutage
    <2>t. StateType
      BY DEF IngestInv
    <2>1. CASE DbDown
      <3>1. {matchConn', restConn', mainConn', up'} \subseteq BOOLEAN
        BY <2>1 DEF DbDown
      <3>2. MaxOutage \in Nat /\ outages \in 0..MaxOutage
        BY <2>t, IngestBoundsAssumption DEF StateType
      <3>3. outages' \in 0..MaxOutage
        BY <2>1, <3>2 DEF DbDown
      <3> QED BY <3>1, <3>3
    <2>2. CASE DbUp
      BY <2>t, <2>2 DEF StateType, DbUp, Reconnected
    <2>3. CASE UNCHANGED vars
      BY <2>t, <2>3 DEF StateType, vars, conns
    <2> QED BY <2>1, <2>2, <2>3
  <1>5. StateType'
    BY <1>1, <1>4 DEF IngestInv, StateType, tables, matchHist, refreshHist
  <1> QED BY <1>2, <1>3, <1>5 DEF IngestInv

\* The number of pages in an answer is a number.
LEMMA PageCount == \A n \in 0..MaxPage : n \in Nat
  OBVIOUS

\* The steps of the specification.
LEMMA StepCases ==
    ASSUME [Next]_vars
    PROVE  \/ \E p \in Payloads : ReceiveMatch(p)
           \/ \E ok \in BOOLEAN : InsertMatch(ok)
           \/ MatchDone
           \/ \E ok \in BOOLEAN, n \in Nat :
                 PressRest(ok) \/ GetTeamData(n) \/ InsertTeam(ok) \/ PageDone
           \/ \E b \in Batches : PressButton(b)
           \/ \E ok \in BOOLEAN : InsertRow(ok)
           \/ ButtonDone
           \/ DbDown \/ DbUp \/ UNCHANGED vars
  BY PageCount DEF Next, MainStep

\* Every step keeps the invariant.
LEMMA StepInv == IngestInv /\ [Next]_vars => IngestInv'
  <1> SUFFICES ASSUME IngestInv, [Next]_vars PROVE IngestInv'
    OBVIOUS
  <1>1. ASSUME NEW p \in Payloads, ReceiveMatch(p) PROVE IngestInv'
    BY <1>1, ReceiveInv
  <1>2. ASSUME NEW ok \in BOOLEAN, InsertMatch(ok) PROVE IngestInv'
    BY <1>2, InsertInv
  <1>3. CASE MatchDone
    BY <1>3, MatchDoneInv
  <1>4. ASSUME NEW ok \in BOOLEAN, NEW n \in Nat,
               PressRest(ok) \/ GetTeamData(n) \/ InsertTeam(ok) \/ PageDone
        PROVE  IngestInv'
    BY <1>4, RefreshSteps
  <1>5. ASSUME NEW b \in Batches, PressButton(b) PROVE IngestInv'
    BY <1>5, ButtonSteps
  <1>6. ASSUME NEW ok \in BOOLEAN, InsertRow(ok) PROVE IngestInv'
    BY <1>6, ButtonSteps
  <1>7. CASE ButtonDone
    BY <1>7, ButtonSteps
  <1>8. CASE DbDown \/ DbUp \/ UNCHANGED vars
    BY <1>8, ServerSteps
  <1> QED BY <1>1, <1>2, <1>3, <1>4, <1>5, <1>6, <1>7, <1>8, StepCases

\* Every step keeps the invariant.
THEOREM IngestInvariant == Spec => []IngestInv
  BY InitInv, StepInv, PTL DEF Spec

-----------------------------------------------------------------------------
(* What it gives.                                                          *)

\* The state keeps its types; in particular the main thread works on datapoints, teams
\* or fixed rows exactly where it inserts them, and no page beyond the last is asked for.
THEOREM IngestTypeCorrect == Spec => []IngestTypeOK
  <1>1. IngestInv => IngestTypeOK
    <2> SUFFICES ASSUME TodoType, StateType PROVE IngestTypeOK
      BY DEF IngestInv
    <2>1. todo \in CASE pc = "match" -> Seq(Row)
                     [] pc = "teams" -> Seq(Teams)
                     [] pc = "batch" -> Seq({"matchtransaction", "scmatch"})
                     [] OTHER -> {<<>>}
      BY DEF TodoType, Tables
    <2> QED BY <2>1 DEF IngestTypeOK, TodoType, StateType
  <1> QED BY <1>1, IngestInvariant, PTL

\* Whatever inserts fail, a submission contributes each datapoint at most once, in order,
\* with its own time, and nothing from a malformed element on.
THEOREM RowsSound == Spec => []MatchRowsSound
  <1>1. IngestInv => MatchRowsSound
    BY DEF IngestInv
  <1> QED BY <1>1, IngestInvariant, PTL

\* A submission none of whose inserts failed is there up to its first malformed element
\* once addMatchDatapoints has returned.
THEOREM RowsComplete == Spec => []MatchRowsComplete
  <1>1. IngestInv => MatchRowsComplete
    <2> SUFFICES ASSUME IngestInv,
                        NEW n \in 1..Len(submitted), n \notin lost,
                        pc # "match" \/ n < Len(submitted),
                        NEW k \in 1..Len(submitted[n]),
                        \A j \in 1..k : submitted[n][j] # "bad"
                 PROVE  Inserted(n, k)
      BY DEF MatchRowsComplete, Inserted
    <2>1. k \in Good(submitted[n])
      BY DEF Good
    <2>2. Len(submitted) \in Nat
      BY LenProperties DEF IngestInv, StateType
    <2> QED BY <2>1, <2>2 DEF IngestInv, NoneMissing
  <1> QED BY <1>1, IngestInvariant, PTL

-----------------------------------------------------------------------------
(* The refresh.                                                            *)

\* The published teams are those of the pages.
LEMMA InAllTeams ==
    \A t : t \in AllTeams <=> \E q \in 0..Pages - 1 : \E k \in 1..Len(Published[q]) : t = Published[q][k]
  BY DEF AllTeams

\* A team that a clean refresh has still to insert.
Awaited(q, t) ==
    \/ pc \in {"pages", "teams"} /\ q >= page
    \/ pc = "teams" /\ \E i \in 1..Len(todo) : todo[i] = t

RefreshInv ==
    /\ ~cleared => before \subseteq team
    /\ team \subseteq before \cup AllTeams
    /\ cleared => team \subseteq AllTeams
    /\ clean => cleared
    /\ pc = "teams" => \A i \in 1..Len(todo) : todo[i] \in AllTeams
    /\ clean => \A q \in 0..Pages - 1 : \A k \in 1..Len(Published[q]) :
                   Published[q][k] \in team \/ Awaited(q, Published[q][k])

\* At the start no refresh has been made.
LEMMA InitRefresh == Init => RefreshInv
  BY DEF Init, RefreshInv

\* What is outside a refresh changes neither the teams nor its history.
LEMMA SameRefresh ==
    ASSUME RefreshInv, UNCHANGED <<team, refreshHist>>,
           pc \notin {"pages", "teams"}, pc' \notin {"pages", "teams"}
    PROVE  RefreshInv'
  BY DEF RefreshInv, Awaited, refreshHist

\* Every step keeps what is known of the refresh under way.
LEMMA StepRefresh == IngestInv /\ RefreshInv /\ [Next]_vars => RefreshInv'
  <1> SUFFICES ASSUME IngestInv, RefreshInv, [Next]_vars PROVE RefreshInv'
    OBVIOUS
  <1>t. TodoType /\ StateType
    BY DEF IngestInv
  <1>1. ASSUME NEW p \in Payloads, ReceiveMatch(p) PROVE RefreshInv'
    BY <1>1, SameRefresh DEF ReceiveMatch, tables
  <1>2. ASSUME NEW ok \in BOOLEAN, InsertMatch(ok) \/ InsertRow(ok) PROVE RefreshInv'
    BY <1>2, SameRefresh DEF InsertMatch, InsertRow
  <1>3. CASE MatchDone \/ ButtonDone \/ \E b \in Batches : PressButton(b)
    BY <1>3, SameRefresh DEF MatchDone, ButtonDone, PressButton, tables
  <1>4. ASSUME NEW ok \in BOOLEAN, PressRest(ok) PROVE RefreshInv'
    <2>1. /\ pc' = "pages" /\ page' = 0 /\ before' = team /\ cleared' = ok /\ clean' = ok
          /\ team' = IF ok THEN {} ELSE team
      BY <1>4 DEF PressRest, Deleted
    <2>2. \A q \in 0..Pages - 1 : \A k \in 1..Len(Published[q]) : Awaited(q, Published[q][k])'
      BY <2>1, PagesAssumption DEF Awaited
    <2> QED BY <2>1, <2>2 DEF RefreshInv
  <1>5. ASSUME NEW n \in Nat, GetTeamData(n) PROVE RefreshInv'
    <2>1. /\ pc = "pages" /\ pc' = "teams" /\ page' = page + 1 /\ n <= Len(Published[page])
          /\ todo' = SubSeq(Published[page], 1, n)
          /\ clean' = (clean /\ n = Len(Published[page]))
          /\ UNCHANGED <<team, before, cleared>>
      BY <1>5 DEF GetTeamData, MakeTBAReq, ParseTeams, tables
    <2>2. page \in 0..Pages - 1 /\ Published[page] \in Seq(Teams)
      BY <1>t, <2>1, PagesAssumption DEF StateType
    <2>3. \A i \in 1..n : Published[page][i] \in Teams
      BY <2>1, <2>2, ElementOfSeq, LenProperties
    <2>4. Len(todo') = n /\ \A i \in 1..n : todo'[i] = Published[page][i]
      BY <2>1, <2>3, SubSeqProperties
    <2>5. \A i \in 1..Len(todo') : todo'[i] \in AllTeams
      BY <2>1, <2>2, <2>4, InAllTeams, LenProperties
    <2>6. ASSUME clean', NEW q \in 0..Pages - 1, NEW k \in 1..Len(Published[q])
          PROVE  Published[q][k] \in team' \/ Awaited(q, Published[q][k])'
      <3>1. CASE Published[q][k] \in team
        BY <2>1, <3>1
      <3>2. CASE q = page
        <4>1. k \in 1..Len(todo') /\ todo'[k] = Published[q][k]
          BY <2>1, <2>4, <2>6, <3>2
        <4> QED BY <2>1, <4>1 DEF Awaited
      <3>3. CASE q >= page /\ q # page
        BY <2>1, <2>2, <3>3 DEF Awaited
      <3> QED BY <2>1, <2>6, <3>1, <3>2, <3>3 DEF RefreshInv, Awaited
    <2>7. clean' => clean
      BY <2>1
    <2> QED BY <2>1, <2>5, <2>6, <2>7 DEF RefreshInv
  <1>6. ASSUME NEW ok \in BOOLEAN, InsertTeam(ok) PROVE RefreshInv'
    <2>1. /\ pc = "teams" /\ pc' = "teams" /\ todo # <<>> /\ page' = page
          /\ team' = IF ok THEN team \cup {Head(todo)} ELSE team
          /\ clean' = (clean /\ ok) /\ todo' = Tail(todo)
          /\ UNCHANGED <<before, cleared>>
      BY <1>6 DEF InsertTeam
    <2>2. todo \in Seq(Teams)
      BY <1>t, <2>1 DEF TodoType
    <2>3. /\ Len(todo) \in Nat \ {0} /\ Head(todo) = todo[1] /\ Len(todo') = Len(todo) - 1
          /\ \A i \in 1..Len(todo') : todo'[i] = todo[i + 1]
      BY <2>1, <2>2, HeadTailProperties, EmptySeq
    <2>4. \A i \in 1..Len(todo') : i + 1 \in 1..Len(todo)
      BY <2>3
    <2>5. Head(todo) \in AllTeams
      BY <2>1, <2>3 DEF RefreshInv
    <2>6. \A i \in 1..Len(todo') : todo'[i] \in AllTeams
      BY <2>1, <2>3, <2>4 DEF RefreshInv
    <2>7. ASSUME clean', NEW q \in 0..Pages - 1, NEW k \in 1..Len(Published[q])
          PROVE  Published[q][k] \in team' \/ Awaited(q, Published[q][k])'
      <3>1. ok /\ clean /\ team' = team \cup {Head(todo)}
        BY <2>1, <2>7
      <3>2. CASE Published[q][k] \in team
        BY <3>1, <3>2
      <3>3. CASE q >= page
        BY <2>1, <3>3 DEF Awaited
      <3>4. ASSUME NEW i \in 1..Len(todo), todo[i] = Published[q][k]
            PROVE  Published[q][k] \in team' \/ Awaited(q, Published[q][k])'
        <4>1. CASE i = 1
          BY <2>3, <3>1, <3>4, <4>1
        <4>2. CASE i # 1
          <5>1. i - 1 \in 1..Len(todo') /\ (i - 1) + 1 = i
            BY <2>3, <4>2
          <5>2. todo'[i - 1] = Published[q][k]
            BY <2>3, <3>4, <5>1
          <5> QED BY <2>1, <5>1, <5>2 DEF Awaited
        <4> QED BY <4>1, <4>2
      <3> QED BY <3>1, <3>2, <3>3, <3>4 DEF RefreshInv, Awaited
    <2>8. clean' => clean
      BY <2>1
    <2> QED BY <2>1, <2>5, <2>6, <2>7, <2>8 DEF RefreshInv
  <1>7. CASE PageDone
    <2>1. /\ pc = "teams" /\ todo = <<>> /\ pc' = (IF page = Pages THEN "idle" ELSE "pages")
          /\ UNCHANGED <<todo, page, team, before, cleared, clean>>
      BY <1>7 DEF PageDone, tables, refreshHist
    <2>2. ASSUME clean', NEW q \in 0..Pages - 1, NEW k \in 1..Len(Published[q])
          PROVE  Published[q][k] \in team' \/ Awaited(q, Published[q][k])'
      <3>1. Published[q][k] \in team \/ q >= page
        BY <2>1, <2>2 DEF RefreshInv, Awaited
      <3>2. page = Pages => ~(q >= page)
        BY PagesAssumption
      <3> QED BY <2>1, <3>1, <3>2 DEF Awaited
    <2> QED BY <2>1, <2>2 DEF RefreshInv
  <1>8. CASE DbDown \/ DbUp \/ UNCHANGED vars
    BY <1>8 DEF DbDown, DbUp, vars, tables, refreshHist, RefreshInv, Awaited
  <1> QED BY <1>1, <1>2, <1>3, <1>4, <1>5, <1>6, <1>7, <1>8, StepCases

\* A refresh in which nothing failed leaves the teams that were published; teams go only
\* when the delete succeeded, and none appears from anywhere else.
THEOREM RefreshIsSound == Spec => []RefreshSound
  <1>1. IngestInv /\ RefreshInv => RefreshSound
    <2> SUFFICES ASSUME RefreshInv PROVE RefreshSound
      OBVIOUS
    <2>1. ASSUME pc = "idle", clean PROVE AllTeams \subseteq team
      BY <2>1, InAllTeams DEF RefreshInv, Awaited
    <2> QED BY <2>1 DEF RefreshInv, RefreshSound
  <1> QED BY <1>1, InitRefresh, StepRefresh, IngestInvariant, PTL DEF Spec

-----------------------------------------------------------------------------
(* A lost connection.                                                      *)

ConnsGone == outages > 0 => ~restConn /\ ~mainConn

\* After one loss of the database server only matches reach the database.
THEOREM MatchesOnly == Spec => OnlyMatchesAfterLoss
  <1>1. Init => ConnsGone
    BY DEF Init, ConnsGone
  <1>2. IngestInv /\ ConnsGone /\ [Next]_vars => ConnsGone'
    <2> SUFFICES ASSUME IngestInv, ConnsGone, [Next]_vars PROVE ConnsGone'
      OBVIOUS
    <2>1. CASE DbDown
      BY <2>1 DEF DbDown, ConnsGone
    <2>2. CASE DbUp
      BY <2>2 DEF DbUp, ConnsGone, Reconnected
    <2>3. CASE ~DbDown /\ ~DbUp
      <3>1. UNCHANGED <<restConn, mainConn, outages>>
        BY <2>3, StepCases
        DEF ReceiveMatch, InsertMatch, MatchDone, PressRest, GetTeamData, InsertTeam, PageDone,
            PressButton, InsertRow, ButtonDone, vars, conns
      <3> QED BY <3>1 DEF ConnsGone
    <2> QED BY <2>1, <2>2, <2>3
  <1>3. IngestInv /\ ConnsGone /\ [Next]_vars =>
          [outages > 0 => /\ team' = team
                          /\ scmatch' = scmatch
                          /\ \A i \in 1..Len(matchtransaction') :
                               matchtransaction'[i].sub = 0 => i <= Len(matchtransaction)]_vars
    <2> SUFFICES ASSUME IngestInv, ConnsGone, Next, outages > 0
                 PROVE  /\ team' = team /\ scmatch' = scmatch
                        /\ \A i \in 1..Len(matchtransaction') :
                             matchtransaction'[i].sub = 0 => i <= Len(matchtransaction)
      OBVIOUS
    <2>0. ~restConn /\ ~mainConn
      BY DEF ConnsGone
    <2>m. matchtransaction \in Seq(Row \cup {ButtonRow}) /\ Len(matchtransaction) \in Nat
      BY LenProperties DEF IngestInv, StateType
    <2>1. ASSUME NEW ok \in BOOLEAN, InsertMatch(ok)
          PROVE  \A i \in 1..Len(matchtransaction') :
                    matchtransaction'[i].sub = 0 => i <= Len(matchtransaction)
      <3>1. todo \in Seq(Row) /\ todo # <<>>
        BY <2>1 DEF InsertMatch, IngestInv, TodoType
      <3>2. Head(todo) \in Row
        BY <3>1, HeadTailProperties
      <3>3. CASE ok
        <4>1. /\ Len(matchtransaction') = Len(matchtransaction) + 1
              /\ matchtransaction'[Len(matchtransaction) + 1] = Head(todo)
          BY <2>m, <2>1, <3>2, <3>3, AppendProperties DEF InsertMatch
        <4>2. Head(todo).sub # 0
          BY <3>2 DEF Row
        <4> QED BY <2>m, <4>1, <4>2
      <3>4. CASE ~ok
        BY <2>m, <2>1, <3>4 DEF InsertMatch
      <3> QED BY <3>3, <3>4
    <2>2. ASSUME NEW ok \in BOOLEAN, InsertMatch(ok) PROVE UNCHANGED <<team, scmatch>>
      BY <2>2 DEF InsertMatch
    <2>3. CASE ~(\E ok \in BOOLEAN : InsertMatch(ok))
      <3>1. UNCHANGED <<team, scmatch, matchtransaction>>
        BY <2>0, <2>3, StepCases
        DEF ReceiveMatch, MatchDone, PressRest, Deleted, ExecQuery, Query, GetTeamData,
            InsertTeam, PageDone, PressButton, InsertRow, ButtonDone, DbDown, DbUp, tables, vars
      <3> QED BY <2>m, <3>1
    <2> QED BY <2>1, <2>2, <2>3
  <1> QED BY <1>1, <1>2, <1>3, IngestInvariant, PTL DEF Spec, OnlyMatchesAfterLoss

=============================================================================
