---------------------------- MODULE LocalDbProofs ----------------------------
(***************************************************************************)
(* Theorems about LocalDb, for any number of tablets, versions and faults, *)
(* and for any hash.                                                       *)
(***************************************************************************)
EXTENDS LocalDb, TLAPS

Lists == {"scouters", "teams"}

DbType ==
    /\ scouter \in Version
    /\ event \in Version
    /\ scouterList \in Contents
    /\ teamCompList \in Contents
    /\ writing = None \/ writing \in [list : Lists, text : Contents \ {Empty}]
    /\ request \in [Tablets -> {"idle", "hash", "stale", "db"}]
    /\ payload \in [Tablets -> Snapshot \cup {None}]
    /\ local \in [Tablets -> Snapshot \cup {None}]
    /\ told \in [Tablets -> Snapshot \cup {None}]
    /\ asked \in [Tablets -> Snapshot \cup {None}]
    /\ killed \in BOOLEAN
    /\ cut \in BOOLEAN

\* A worker holds what the files were when its transaction began.
PayloadAsAsked ==
    \A t \in Tablets :
        request[t] \in {"hash", "db"} => payload[t] # None /\ asked[t] = payload[t]

\* A list that is not whole is the work of a fault.
Accounted(list) == list.size = Whole \/ killed \/ (cut /\ list.size = Part)

\* Where entries are missing: in the list being written, which is empty, and in
\* what a fault has left, from where it comes into workers and copies.
TornInv ==
    /\ \A f \in Lists : Accounted(Current[f]) \/ (writing # None /\ writing.list = f)
    /\ writing # None => writing.text.size = Whole \/ cut
    /\ \A t \in Tablets, f \in Lists :
          /\ payload[t] # None => Accounted(payload[t][f])
          /\ local[t] # None => Accounted(local[t][f])

\* The version of the data that a list is written from.
Source(f) == IF f = "scouters" THEN scouter ELSE event

\* What a list holds, or is about to hold.
Pending(f) == IF writing # None /\ writing.list = f THEN writing.text ELSE Current[f]

\* new may take the place of old.
Follows(old, new) == old.ver <= new.ver \/ (new = Empty /\ killed)

\* No list in a worker or a copy is newer than its source, nor, unless that was
\* lost, than the file; and none in a copy is newer than in the worker's answer.
VersionInv ==
    /\ \A f \in Lists : Current[f].ver <= Source(f) /\ Pending(f).ver <= Source(f)
    /\ \A t \in Tablets, f \in Lists :
          /\ payload[t] # None =>
                payload[t][f].ver <= Source(f) /\ Follows(payload[t][f], Pending(f))
          /\ local[t] # None =>
                local[t][f].ver <= Source(f) /\ Follows(local[t][f], Pending(f))
          /\ local[t] # None /\ payload[t] # None => Follows(local[t][f], payload[t][f])

DbInv == DbType /\ PayloadAsAsked /\ TornInv /\ VersionInv

-----------------------------------------------------------------------------
(* The invariant.                                                          *)

\* At the start both files are whole and no tablet has a copy.
LEMMA InitInv == Init => DbInv
  <1> SUFFICES ASSUME Init PROVE DbInv
    OBVIOUS
  <1> USE DEF Init
  <1>1. DbType
    <2>1. 0 \in Version
      BY MaxVerAssumption DEF Version
    <2>2. [ver |-> 0, size |-> Whole] \in Contents
      BY <2>1 DEF Contents
    <2> QED BY <2>1, <2>2 DEF DbType
  <1>2. PayloadAsAsked
    BY DEF PayloadAsAsked
  <1>3. TornInv
    BY DEF TornInv, Accounted, Current, Lists
  <1>4. VersionInv
    BY DEF VersionInv, Source, Pending, Current, Lists
  <1> QED BY <1>1, <1>2, <1>3, <1>4 DEF DbInv

\* The two lists as fields of what readWholeFile returns.
LEMMA CurrentType ==
    ASSUME DbType
    PROVE  /\ Current \in Snapshot
           /\ Current["scouters"] = scouterList
           /\ Current["teams"] = teamCompList
  BY DEF DbType, Current, Snapshot

\* The versions and sizes of a list.
LEMMA ContentsType ==
    ASSUME NEW c \in Contents
    PROVE  c.ver \in Nat /\ c.size \in 0..2
  BY MaxVerAssumption DEF Contents, Empty, Version, Part, Whole

\* A list with an entry is cut short or whole.
LEMMA NonEmptySize ==
    ASSUME NEW c \in Contents, c # Empty
    PROVE  c.size \in {Part, Whole} /\ c.ver \in Version
  BY DEF Contents

\* Every step keeps the types.
LEMMA StepType == DbInv /\ [Next]_vars => DbType'
  <1> SUFFICES ASSUME DbInv, [Next]_vars PROVE DbType'
    OBVIOUS
  <1> USE DEF DbInv, DbType, history, files, external, tabletVars
  <1>1. CASE EditScouters
    BY <1>1, MaxVerAssumption DEF EditScouters, Version
  <1>2. CASE EditEvent
    BY <1>2, MaxVerAssumption DEF EditEvent, Version
  <1>3. CASE WriteList
    <2>1. writing.text \in Contents
      BY <1>3 DEF WriteList
    <2> QED BY <1>3, <2>1 DEF WriteList, Holds, Written
  <1>4. CASE Crash
    <2>1. CASE writing = None
      BY <1>4, <2>1 DEF Crash
    <2>2. CASE writing # None
      <3>1. writing.text \in Contents
        BY <2>2
      <3>2. PICK text \in WrittenParts(writing.text) : Holds(text)
        BY <1>4, <2>2 DEF Crash
      <3>3. text \in Contents
        BY <3>1, <3>2 DEF WrittenParts, Contents, Empty, Part, Whole
      <3> QED BY <1>4, <2>2, <3>2, <3>3 DEF Crash, Holds
    <2> QED BY <2>1, <2>2
  <1>5. ASSUME NEW got \in Contents, ScouterUpdate(got) \/ TournamentSubmit(got) PROVE DbType'
    <2>1. PICK list \in Lists : Open(list, got)
      BY <1>5 DEF ScouterUpdate, TournamentSubmit, Lists
    <2>2. Empty \in Contents
      BY DEF Contents
    <2>3. writing' = None \/ writing' \in [list : Lists, text : Contents \ {Empty}]
      BY <2>1 DEF Open, Opens
    <2>4. scouterList' \in Contents /\ teamCompList' \in Contents
      BY <2>1, <2>2 DEF Open
    <2> QED BY <2>1, <2>3, <2>4 DEF Open
  <1>6. ASSUME NEW t \in Tablets, AskHash(t) \/ AskDb(t) PROVE DbType'
    BY <1>6, CurrentType DEF AskHash, AskDb, Start
  <1>7. ASSUME NEW t \in Tablets, GotHash(t) PROVE DbType'
    BY <1>7 DEF GotHash
  <1>8. ASSUME NEW t \in Tablets, GotDb(t) PROVE DbType'
    BY <1>8 DEF GotDb, Sent
  <1>9. ASSUME NEW t \in Tablets, Fails(t) PROVE DbType'
    BY <1>9 DEF Fails
  <1>10. CASE UNCHANGED vars
    BY <1>10 DEF vars
  <1> QED BY <1>1, <1>2, <1>3, <1>4, <1>5, <1>6, <1>7, <1>8, <1>9, <1>10 DEF Next

\* An answer opens the list, if it has an entry, and is as old as its source.
LEMMA OpenEffect ==
    ASSUME DbType, NEW got \in Contents, ScouterUpdate(got) \/ TournamentSubmit(got)
    PROVE  \E list \in Lists :
              /\ Open(list, got)
              /\ got # Empty => got.ver = Source(list)
  BY DEF ScouterUpdate, TournamentSubmit, Lists, Answers, Source

\* Every step keeps a worker's answer what the files were when it was asked.
LEMMA StepAsked == DbInv /\ [Next]_vars => PayloadAsAsked'
  <1> SUFFICES ASSUME DbInv, [Next]_vars PROVE PayloadAsAsked'
    OBVIOUS
  <1> USE DEF DbInv, PayloadAsAsked, history, files, external, tabletVars
  <1>1. CASE EditScouters \/ EditEvent \/ WriteList
    BY <1>1 DEF EditScouters, EditEvent, WriteList
  <1>2. CASE Crash
    BY <1>2 DEF Crash
  <1>3. ASSUME NEW got \in Contents, ScouterUpdate(got) \/ TournamentSubmit(got)
        PROVE  PayloadAsAsked'
    BY <1>3 DEF ScouterUpdate, TournamentSubmit, Open
  <1>4. ASSUME NEW t \in Tablets, AskHash(t) \/ AskDb(t) PROVE PayloadAsAsked'
    BY <1>4, CurrentType, NoCopyAssumption DEF AskHash, AskDb, Start, BetweenFrames, DbType
  <1>5. ASSUME NEW t \in Tablets, GotHash(t) \/ GotDb(t) \/ Fails(t) PROVE PayloadAsAsked'
    BY <1>5 DEF GotHash, GotDb, Fails, DbType
  <1>6. CASE UNCHANGED vars
    BY <1>6 DEF vars
  <1> QED BY <1>1, <1>2, <1>3, <1>4, <1>5, <1>6 DEF Next

\* Every step accounts for the entries it loses.
LEMMA StepTorn == DbInv /\ [Next]_vars => TornInv'
  <1> SUFFICES ASSUME DbInv, [Next]_vars PROVE TornInv'
    OBVIOUS
  <1> USE DEF DbInv, TornInv, Accounted, history, files, external, tabletVars
  <1>0. DbType /\ DbType'
    BY StepType
  <1>c. /\ Current["scouters"] = scouterList /\ Current["teams"] = teamCompList
        /\ Current["scouters"]' = scouterList' /\ Current["teams"]' = teamCompList'
    BY DEF Current
  <1>1. CASE EditScouters \/ EditEvent
    BY <1>1 DEF EditScouters, EditEvent, Current
  <1>2. CASE WriteList
    <2>0. writing # None /\ writing.text \in Contents /\ writing.text # Empty
      BY <1>0, <1>2 DEF WriteList, DbType
    <2>1. writing.text.size = Whole \/ (cut /\ writing.text.size = Part)
      BY <2>0, NonEmptySize
    <2> QED BY <1>0, <1>2, <1>c, <2>1 DEF WriteList, Holds, Written, Lists, DbType
  <1>3. CASE Crash
    <2>1. CASE writing = None
      BY <1>3, <2>1, <1>c DEF Crash, Lists
    <2>2. CASE writing # None
      <3>1. killed' /\ writing' = None
        BY <1>3, <2>2 DEF Crash
      <3> QED BY <3>1
    <2> QED BY <2>1, <2>2
  <1>4. ASSUME NEW got \in Contents, ScouterUpdate(got) \/ TournamentSubmit(got) PROVE TornInv'
    <2>1. PICK list \in Lists : Open(list, got)
      BY <1>0, <1>4, OpenEffect
    <2>2. CASE got = Empty
      BY <2>1, <2>2, <1>c DEF Open, Opens, Empty, Part, Lists
    <2>3. CASE got # Empty
      <3>1. got.size = Whole \/ cut'
        BY <2>1, <2>3 DEF Open, Contents
      <3>2. writing = None /\ writing' = [list |-> list, text |-> got]
        BY <2>1, <2>3 DEF Open, Opens, BetweenFrames
      <3>3. writing' # None /\ writing'.list = list /\ writing'.text = got
        BY <3>2, NotWritingAssumption DEF Lists
      <3>4. \A f \in Lists : f # list => Current[f]' = Current[f]
        BY <2>1, <2>3, <1>c DEF Open, Opens, Lists
      <3>5. killed' = killed /\ payload' = payload /\ local' = local /\ (cut => cut')
        BY <2>1 DEF Open
      <3>6. \A f \in Lists : f # list => Accounted(Current[f])'
        BY <3>2, <3>4, <3>5
      <3> QED BY <3>1, <3>3, <3>5, <3>6
    <2> QED BY <2>2, <2>3
  <1>5. ASSUME NEW t \in Tablets, AskHash(t) \/ AskDb(t) PROVE TornInv'
    BY <1>0, <1>5, <1>c DEF AskHash, AskDb, Start, BetweenFrames, DbType, Lists
  <1>6. ASSUME NEW t \in Tablets, GotHash(t) \/ Fails(t) PROVE TornInv'
    BY <1>0, <1>6, <1>c DEF GotHash, Fails, DbType, Lists
  <1>7. ASSUME NEW t \in Tablets, GotDb(t) PROVE TornInv'
    BY <1>0, <1>7, <1>c DEF GotDb, Sent, DbType, Lists
  <1>8. CASE UNCHANGED vars
    BY <1>8 DEF vars, Current
  <1> QED BY <1>1, <1>2, <1>3, <1>4, <1>5, <1>6, <1>7, <1>8 DEF Next

\* The list that an action leaves behind is in the line of succession.
LEMMA StepVersion == DbInv /\ [Next]_vars => VersionInv'
  <1> SUFFICES ASSUME DbInv, [Next]_vars PROVE VersionInv'
    OBVIOUS
  <1> USE DEF DbInv
  <1>0. DbType /\ DbType'
    BY StepType
  <1>c. /\ Current["scouters"] = scouterList /\ Current["teams"] = teamCompList
        /\ Current["scouters"]' = scouterList' /\ Current["teams"]' = teamCompList'
    BY DEF Current
  <1>n. /\ \A f \in Lists : /\ Source(f) \in Nat /\ Source(f)' \in Nat
                            /\ Current[f] \in Contents /\ Current[f]' \in Contents
                            /\ Pending(f) \in Contents /\ Pending(f)' \in Contents
    BY <1>0, <1>c, MaxVerAssumption DEF DbType, Lists, Source, Version, Pending
  <1>p. \A t \in Tablets, f \in Lists :
          /\ payload[t] # None => payload[t][f] \in Contents
          /\ local[t] # None => local[t][f] \in Contents
    BY <1>0 DEF DbType, Snapshot, Lists
  <1>e. Empty.ver = 0
    BY DEF Empty
  \* Nothing that a tablet or a worker holds changes, and the file moves on.
  <1>s. ASSUME UNCHANGED <<payload, local>>, killed => killed',
               \A f \in Lists : /\ Source(f) <= Source(f)'
                                /\ Current[f]'.ver <= Source(f)'
                                /\ Pending(f)'.ver <= Source(f)'
                                /\ Pending(f)' = Pending(f) \/ Pending(f)'.ver = Source(f)
        PROVE  VersionInv'
    <2>1. ASSUME NEW f \in Lists, NEW old \in Contents, Follows(old, Pending(f)),
                 old.ver <= Source(f)
          PROVE  Follows(old, Pending(f))'
      BY <1>s, <1>n, <2>1, ContentsType DEF Follows
    <2>2. ASSUME NEW f \in Lists, NEW old \in Contents, old.ver <= Source(f)
          PROVE  old.ver <= Source(f)'
      BY <1>s, <1>n, <2>2, ContentsType
    <2>3. ASSUME NEW f \in Lists
          PROVE  Current[f]'.ver <= Source(f)' /\ Pending(f)'.ver <= Source(f)'
      BY <1>s
    <2>4. ASSUME NEW t \in Tablets, NEW f \in Lists, payload[t] # None
          PROVE  payload[t][f].ver <= Source(f)' /\ Follows(payload[t][f], Pending(f))'
      BY <1>s, <1>p, <2>1, <2>2, <2>4 DEF VersionInv, Follows
    <2>5. ASSUME NEW t \in Tablets, NEW f \in Lists, local[t] # None
          PROVE  local[t][f].ver <= Source(f)' /\ Follows(local[t][f], Pending(f))'
      BY <1>s, <1>p, <2>1, <2>2, <2>5 DEF VersionInv, Follows
    <2>6. ASSUME NEW t \in Tablets, NEW f \in Lists, local[t] # None, payload[t] # None
          PROVE  Follows(local[t][f], payload[t][f])'
      BY <1>s, <2>6 DEF VersionInv, Follows
    <2> QED BY <1>s, <2>3, <2>4, <2>5, <2>6 DEF VersionInv
  <1>1. CASE EditScouters \/ EditEvent
    <2>1. \A f \in Lists : Current[f]' = Current[f] /\ Pending(f)' = Pending(f)
      BY <1>1 DEF EditScouters, EditEvent, Current, Pending, files
    <2>2. \A f \in Lists : Source(f) <= Source(f)'
      BY <1>0, <1>1, MaxVerAssumption
      DEF EditScouters, EditEvent, Source, DbType, Version
    <2>3. UNCHANGED <<payload, local, killed>>
      BY <1>1 DEF EditScouters, EditEvent, tabletVars, history
    <2>4. \A f \in Lists : Current[f].ver \in Nat /\ Pending(f).ver \in Nat
      BY <1>n, ContentsType
    <2> QED BY <1>s, <1>n, <2>1, <2>2, <2>3, <2>4 DEF VersionInv
  <1>2. CASE WriteList
    <2>1. \A f \in Lists : Source(f)' = Source(f)
      BY <1>2 DEF WriteList, external, Source
    <2>2. UNCHANGED <<payload, local, killed>>
      BY <1>2 DEF WriteList, tabletVars, history
    <2>3. writing # None /\ writing' = None /\ writing.list \in Lists
      BY <1>0, <1>2 DEF WriteList, DbType
    <2>4. \A f \in Lists : Pending(f)' = Pending(f) /\ Current[f]' = Pending(f)
      BY <1>2, <1>c, <2>3 DEF WriteList, Holds, Written, Pending, Lists
    <2>5. \A f \in Lists : Pending(f).ver \in Nat
      BY <1>n, ContentsType
    <2> QED BY <1>s, <1>n, <2>1, <2>2, <2>4, <2>5 DEF VersionInv
  <1>3. CASE Crash
    <2>1. \A f \in Lists : Source(f)' = Source(f)
      BY <1>3 DEF Crash, external, Source
    <2>2. local' = local /\ (killed => killed') /\ writing' = None
      BY <1>3 DEF Crash
    <2>3. \A t \in Tablets : payload'[t] = None
      BY <1>3 DEF Crash
    <2>4. \A f \in Lists : /\ Pending(f)' = Current[f]'
                           /\ Current[f]'.ver <= Source(f)
                           /\ \/ Pending(f)' = Pending(f)
                              \/ Pending(f) # Empty /\ Pending(f)'.ver = Pending(f).ver
                              \/ Pending(f)' = Empty /\ killed'
      <3>1. CASE writing = None
        <4>1. \A f \in Lists : Current[f]' = Current[f]
          BY <1>3, <1>c, <3>1 DEF Crash, files, Lists
        <4> QED BY <1>n, <2>2, <3>1, <4>1, ContentsType DEF VersionInv, Pending
      <3>2. CASE writing # None
        <4>1. PICK text \in WrittenParts(writing.text) : Holds(text)
          BY <1>3, <3>2 DEF Crash
        <4>2. text = Empty \/ text.ver = writing.text.ver
          BY <4>1 DEF WrittenParts
        <4>3. killed'
          BY <1>3, <3>2 DEF Crash
        <4>4. writing.list \in Lists
          BY <1>0, <3>2 DEF DbType
        <4>5. \A f \in Lists : Current[f]' = IF f = writing.list THEN text ELSE Current[f]
          BY <4>1, <4>4, <1>c DEF Holds, Lists
        <4>6. \A f \in Lists : Pending(f)' = Current[f]'
          BY <2>2 DEF Pending
        <4>7. Pending(writing.list) = writing.text
          BY <3>2 DEF Pending
        <4>8. ASSUME NEW f \in Lists, f # writing.list
              PROVE  Current[f]' = Current[f] /\ Pending(f) = Current[f]
          BY <4>5, <4>8 DEF Pending
        <4>9. \A f \in Lists : Pending(f).ver \in Nat /\ Current[f].ver \in Nat
          BY <1>n, ContentsType
        <4>10. ASSUME NEW f \in Lists, f = writing.list
               PROVE  /\ Current[f]'.ver <= Source(f)
                      /\ \/ Pending(f) # Empty /\ Current[f]'.ver = Pending(f).ver
                         \/ Current[f]' = Empty
          <5>1. Pending(f) # Empty
            BY <1>0, <3>2, <4>7, <4>10 DEF DbType
          <5> QED BY <5>1, <4>10, <4>2, <4>5, <4>7, <4>9, <1>e, <1>n DEF VersionInv
        <4> QED BY <4>3, <4>6, <4>8, <4>9, <4>10 DEF VersionInv
      <3> QED BY <3>1, <3>2
    <2>5. ASSUME NEW f \in Lists, NEW old \in Contents, Follows(old, Pending(f))
          PROVE  Follows(old, Pending(f))'
      BY <1>n, <2>2, <2>4, <2>5, ContentsType DEF Follows
    <2> QED BY <1>n, <1>p, <2>1, <2>2, <2>3, <2>4, <2>5 DEF VersionInv
  <1>4. ASSUME NEW got \in Contents, ScouterUpdate(got) \/ TournamentSubmit(got)
        PROVE  VersionInv'
    <2>1. PICK list \in Lists : Open(list, got) /\ (got # Empty => got.ver = Source(list))
      BY <1>0, <1>4, OpenEffect
    <2>2. \A f \in Lists : Source(f)' = Source(f)
      BY <2>1 DEF Open, external, Source
    <2>3. UNCHANGED <<payload, local, killed>>
      BY <2>1 DEF Open, tabletVars
    <2>4. CASE got = Empty
      <3>1. \A f \in Lists : Current[f]' = Current[f] /\ Pending(f)' = Pending(f)
        BY <2>1, <2>4 DEF Open, Opens, files, Current, Pending
      <3> QED BY <1>s, <1>n, <2>2, <2>3, <3>1, ContentsType DEF VersionInv
    <2>5. CASE got # Empty
      <3>1. writing = None /\ writing' = [list |-> list, text |-> got]
        BY <2>1, <2>5 DEF Open, Opens, BetweenFrames
      <3>2. writing' # None /\ writing'.list = list /\ writing'.text = got
        BY <3>1, NotWritingAssumption DEF Lists
      <3>3. \A f \in Lists : Current[f]' = IF f = list THEN Empty ELSE Current[f]
        BY <2>1, <2>5, <1>c DEF Open, Opens, Lists
      <3>4. \A f \in Lists : /\ Pending(f)' = IF f = list THEN got ELSE Current[f]
                             /\ Pending(f) = Current[f]
        BY <3>1, <3>2, <3>3 DEF Pending
      <3>5. \A f \in Lists : Current[f].ver \in Nat /\ Current[f].ver <= Source(f)
        BY <1>n, ContentsType DEF VersionInv
      <3> QED BY <1>s, <1>n, <1>e, <2>1, <2>2, <2>3, <2>5, <3>3, <3>4, <3>5
    <2> QED BY <2>4, <2>5
  <1>5. ASSUME NEW t \in Tablets, AskHash(t) \/ AskDb(t) PROVE VersionInv'
    <2>1. /\ writing = None /\ UNCHANGED <<external, files, writing, local, history>>
          /\ payload' = [payload EXCEPT ![t] = Current]
      BY <1>5 DEF AskHash, AskDb, Start, BetweenFrames
    <2>2. \A f \in Lists : /\ Source(f)' = Source(f) /\ Current[f]' = Current[f]
                           /\ Pending(f)' = Pending(f) /\ Pending(f) = Current[f]
      BY <2>1 DEF external, files, Source, Current, Pending
    <2>3. killed' = killed /\ local' = local
      BY <2>1 DEF history
    <2>4. \A u \in Tablets : payload'[u] = IF u = t THEN Current ELSE payload[u]
      BY <1>0, <2>1 DEF DbType
    <2>5. \A f \in Lists : Current[f].ver \in Nat
      BY <1>n, ContentsType
    <2> QED BY <2>2, <2>3, <2>4, <2>5 DEF VersionInv, Follows
  <1>6. ASSUME NEW t \in Tablets, GotHash(t) \/ GotDb(t) \/ Fails(t) PROVE VersionInv'
    <2>1. UNCHANGED <<external, files, writing, history>>
      BY <1>6 DEF GotHash, GotDb, Fails
    <2>2. \A f \in Lists : /\ Source(f)' = Source(f) /\ Current[f]' = Current[f]
                           /\ Pending(f)' = Pending(f)
      BY <2>1 DEF external, files, Source, Current, Pending
    <2>3. killed' = killed
      BY <2>1 DEF history
    <2>4. \A u \in Tablets : payload'[u] = IF u = t THEN None ELSE payload[u]
      BY <1>0, <1>6 DEF GotHash, GotDb, Fails, DbType
    <2>5. \A u \in Tablets : local'[u] = local[u] \/ (payload[u] # None /\ local'[u] = payload[u] /\ u = t)
      BY <1>0, <1>6 DEF GotHash, GotDb, Fails, Sent, DbType, PayloadAsAsked
    <2> QED BY <2>2, <2>3, <2>4, <2>5 DEF VersionInv, Follows
  <1>7. CASE UNCHANGED vars
    BY <1>7 DEF vars, files, external, tabletVars, history, VersionInv, Current, Pending,
               Source, Follows
  <1> QED BY <1>1, <1>2, <1>3, <1>4, <1>5, <1>6, <1>7 DEF Next

\* Every step keeps the invariant.
THEOREM DbInvariant == Spec => []DbInv
  <1>1. DbInv /\ [Next]_vars => DbInv'
    BY StepType, StepAsked, StepTorn, StepVersion DEF DbInv
  <1> QED BY <1>1, InitInv, PTL DEF Spec

-----------------------------------------------------------------------------
(* What it gives.                                                          *)

\* A list that a tablet has is empty or cut short only after a fault that
\* explains it: no query that fails and no exchange loses an entry.
THEOREM TornByFault == Spec => []TornOnlyByFault
  <1>1. DbInv => TornOnlyByFault
    BY DEF DbInv, TornInv, TornOnlyByFault, Accounted, Lists
  <1> QED BY <1>1, DbInvariant, PTL

\* A tablet's copy changes only when it has received the database it asked for.
LEMMA OnlyGotDb ==
    ASSUME DbInv, Next, NEW t \in Tablets, local'[t] # local[t]
    PROVE  GotDb(t)
  <1> USE DEF tabletVars
  <1>1. CASE EditScouters \/ EditEvent \/ WriteList \/ Crash
    BY <1>1 DEF EditScouters, EditEvent, WriteList, Crash
  <1>2. CASE \E got \in Contents : ScouterUpdate(got) \/ TournamentSubmit(got)
    BY <1>2 DEF ScouterUpdate, TournamentSubmit, Open
  <1>3. CASE \E u \in Tablets : AskHash(u) \/ AskDb(u) \/ GotHash(u) \/ Fails(u)
    BY <1>3 DEF AskHash, AskDb, Start, GotHash, Fails
  <1>4. ASSUME NEW u \in Tablets, GotDb(u) PROVE u = t
    BY <1>4 DEF GotDb, DbInv, DbType
  <1> QED BY <1>1, <1>2, <1>3, <1>4 DEF Next

\* The copy that GotDb stores is both files as they were when handleWriteTransactions
\* read them for this request.
THEOREM CopiesWhole == Spec => CopyIsWhole
  <1>1. DbInv /\ [Next]_vars
          => [\A t \in Tablets : local'[t] # local[t] => local'[t] = asked[t]]_vars
    <2> SUFFICES ASSUME DbInv, Next, NEW t \in Tablets, local'[t] # local[t]
                 PROVE  local'[t] = asked[t]
      OBVIOUS
    <2>1. GotDb(t)
      BY OnlyGotDb
    <2> QED BY <2>1 DEF GotDb, Sent, DbInv, DbType, PayloadAsAsked
  <1> QED BY <1>1, DbInvariant, PTL DEF Spec, CopyIsWhole

\* A copy gives way only to one that is as new in both lists, except that a list may
\* be lost to a program killed while it wrote it.
THEOREM NeverBack == Spec => NoRollback
  <1>1. DbInv /\ DbInv' /\ [Next]_vars
          => [\A t \in Tablets, f \in {"scouters", "teams"} :
                local[t] # None =>
                   \/ local'[t][f].ver >= local[t][f].ver
                   \/ local'[t][f] = Empty /\ killed]_vars
    <2> SUFFICES ASSUME DbInv, Next, NEW t \in Tablets, NEW f \in Lists, local[t] # None
                 PROVE  \/ local'[t][f].ver >= local[t][f].ver
                        \/ local'[t][f] = Empty /\ killed
      BY DEF Lists
    <2>1. local[t][f] \in Contents
      BY DEF DbInv, DbType, Snapshot, Lists
    <2>2. local[t][f].ver \in Nat
      BY <2>1, ContentsType
    <2>3. CASE local'[t] = local[t]
      BY <2>2, <2>3
    <2>4. CASE local'[t] # local[t]
      <3>1. GotDb(t)
        BY <2>4, OnlyGotDb
      <3>2. local'[t] = payload[t] /\ payload[t] # None
        BY <2>4, <3>1 DEF GotDb, Sent, DbInv, DbType, PayloadAsAsked
      <3>3. payload[t][f] \in Contents
        BY <3>2 DEF DbInv, DbType, Snapshot, Lists
      <3>4. payload[t][f].ver \in Nat
        BY <3>3, ContentsType
      <3> QED BY <2>2, <3>2, <3>4 DEF DbInv, VersionInv, Follows
    <2> QED BY <2>3, <2>4
  <1> QED BY <1>1, DbInvariant, PTL DEF Spec, NoRollback

\* What a tablet was told: the hash of its copy is the hash of what the files held
\* when it asked, whatever the hash function.
ToldSameHash == \A t \in Tablets :
    told[t] # None => local[t] # None /\ HashOf[local[t]] = HashOf[told[t]]

\* A tablet is told that its copy is current only if the hashes agreed when it asked.
THEOREM HashAgrees == Spec => []ToldSameHash
  <1>1. Init => ToldSameHash
    BY DEF Init, ToldSameHash
  <1>2. DbInv /\ ToldSameHash /\ [Next]_vars => ToldSameHash'
    <2> SUFFICES ASSUME DbInv, ToldSameHash, [Next]_vars PROVE ToldSameHash'
      OBVIOUS
    <2> USE DEF ToldSameHash, tabletVars
    <2>1. CASE EditScouters \/ EditEvent \/ WriteList \/ Crash
      BY <2>1 DEF EditScouters, EditEvent, WriteList, Crash
    <2>2. CASE \E got \in Contents : ScouterUpdate(got) \/ TournamentSubmit(got)
      BY <2>2 DEF ScouterUpdate, TournamentSubmit, Open
    <2>3. CASE \E t \in Tablets : AskHash(t) \/ AskDb(t) \/ Fails(t)
      BY <2>3 DEF AskHash, AskDb, Start, Fails
    <2>4. ASSUME NEW t \in Tablets, GotHash(t) PROVE ToldSameHash'
      BY <2>4 DEF GotHash, SameHash, Hashed, Sent, DbInv, DbType, PayloadAsAsked
    <2>5. ASSUME NEW t \in Tablets, GotDb(t) PROVE ToldSameHash'
      BY <2>5 DEF GotDb, DbInv, DbType
    <2>6. CASE UNCHANGED vars
      BY <2>6 DEF vars
    <2> QED BY <2>1, <2>2, <2>3, <2>4, <2>5, <2>6 DEF Next
  <1> QED BY <1>1, <1>2, DbInvariant, PTL DEF Spec

\* With a hash that tells the contents of the files apart, a tablet that was told its
\* copy is current had what the files held when it asked.
THEOREM HashConfirmsCopy ==
    ASSUME \A x, y \in Snapshot : HashOf[x] = HashOf[y] => x = y
    PROVE  Spec => []HashConfirms
  <1>1. DbInv /\ ToldSameHash => HashConfirms
    BY DEF DbInv, DbType, ToldSameHash, HashConfirms
  <1> QED BY <1>1, DbInvariant, HashAgrees, PTL
=============================================================================
