------------------------------- MODULE Ingest -------------------------------
(***************************************************************************)
(* What reaches the MySQL database: the datapoints of the matches that     *)
(* tablets submit (handleTransResult, JsonParser, DatabaseMan, Database),  *)
(* the teams of The Blue Alliance that the "rest" button fetches           *)
(* (RestReqHandler), and the fixed rows that the Amplify, DB and           *)
(* tournament buttons insert.  Everything runs on the main thread, one     *)
(* query after the other, without a database transaction; a query that     *)
(* fails is logged and the next one is tried.  A match submission opens a  *)
(* connection of its own; the refresh and the buttons each use one that    *)
(* was made at start-up.  MySQL and The Blue Alliance are external.        *)
(*                                                                         *)
(* An element of a JSON array is of a kind: what the parser can tell.  A   *)
(* row is identified by the submission, or the team, that it stands for.   *)
(***************************************************************************)
EXTENDS Integers, Sequences, FiniteSets

CONSTANTS
    Payloads,       \* match submissions: sequences over Kinds
    MaxSub,         \* bound: submissions received
    Pages,          \* number of team pages fetched (23 in main.cpp)
    Published,      \* the teams of each page: sequences over Teams
    Teams,
    MaxRefresh,     \* bound: presses of "rest"
    Batches,        \* what a press of the other buttons inserts: sequences of table names
    MaxPress,       \* bound: presses of those buttons
    MaxOutage       \* bound: losses of the database server

Kinds == {"timed", "noShow", "bad"}     \* "bad": a field is missing or has the wrong type

ASSUME PayloadsAssumption == Payloads \subseteq Seq(Kinds)
ASSUME PagesAssumption ==
    /\ Pages \in Nat \ {0}
    /\ Published \in [0..Pages - 1 -> Seq(Teams)]
ASSUME BatchesAssumption == Batches \subseteq Seq({"matchtransaction", "scmatch"})
ASSUME IngestBoundsAssumption == {MaxSub, MaxRefresh, MaxPress, MaxOutage} \subseteq Nat

VARIABLES
    pc,             \* "idle", "match" (addMatchDatapoints), "pages" or "teams" (addTeams),
                    \* or "batch" (a button's fixed rows)
    todo,           \* the datapoints, teams or fixed rows still to be inserted
    page,           \* the next page of the refresh
    matchConn,      \* connection of the DatabaseMan of this submission
    restConn,       \* connection of the RestReqHandler's DatabaseMan, made once
    mainConn,       \* connection of main()'s own Database, made once
    up,             \* is the database server there?
    matchtransaction, team, scmatch,    \* the tables; of scmatch, the number of rows
    submitted,      \* history: the payloads received
    lost,           \* history: submissions with an insert that failed
    before,         \* history: team when the last refresh began
    cleared,        \* history: the last refresh's delete succeeded
    clean,          \* history: no request or query of the last refresh failed
    refreshes, presses, outages

tables == <<matchtransaction, team, scmatch>>
conns == <<matchConn, restConn, mainConn, up, outages>>
matchHist == <<submitted, lost>>
refreshHist == <<before, cleared, clean, refreshes>>
vars == <<pc, todo, page, conns, tables, matchHist, refreshHist, presses>>

-----------------------------------------------------------------------------
(* JsonParser.                                                             *)

\* The parse loops stop at the first element that throws and return what they
\* have: the elements before it.
MutantSkips(s) == SelectSeq(s, LAMBDA e : e # "bad")
MutantShort(s) == SubSeq(s, 1, Len(s) - 1)
Before(s) == SubSeq(s, 1, Cardinality({k \in 1..Len(s) : \A j \in 1..k : s[j] # "bad"}))

\* parseMatch.  A "noShow" time becomes the SQL word NULL, any other is quoted.
DCTimestamp(e) == IF e = "noShow" THEN "NULL" ELSE "quoted"
MutantParseMatch(n, p) ==
    [k \in 1..Len(Before(p)) |-> [sub |-> n, pos |-> k - 1, DCTimestamp |-> DCTimestamp(p[k])]]
ParseMatch(n, p) ==
    [k \in 1..Len(Before(p)) |-> [sub |-> n, pos |-> k, DCTimestamp |-> DCTimestamp(p[k])]]

\* makeTBAReq and parseTeams: a failed request gives no teams, or those before
\* the element at which what was received stops being what it should be; n of
\* them arrive.
MakeTBAReq(n) == n <= Len(Published[page])
ParseTeams(n) == SubSeq(Published[page], 1, n)

\* A query of either kind may fail for any reason, and does on a connection that
\* is gone; nothing more than a line of log tells.
ExecQuery(conn, ok) == ok => conn
Query(conn, ok) == ok => conn

-----------------------------------------------------------------------------
Init ==
    /\ pc = "idle"
    /\ todo = <<>>
    /\ page = 0
    /\ matchConn = FALSE
    /\ restConn \in BOOLEAN
    /\ mainConn = restConn
    /\ up = restConn
    /\ matchtransaction = <<>>
    /\ scmatch = 0
    /\ team \in SUBSET Teams
    /\ submitted = <<>>
    /\ lost = {}
    /\ before = team
    /\ cleared = FALSE
    /\ clean = FALSE
    /\ refreshes = 0
    /\ presses = 0
    /\ outages = 0

\* The database server stops, which ends the connections to it, and comes back.
DbDown ==
    /\ up
    /\ outages < MaxOutage
    /\ up' = FALSE
    /\ matchConn' = FALSE
    /\ restConn' = FALSE
    /\ mainConn' = FALSE
    /\ outages' = outages + 1
    /\ UNCHANGED <<pc, todo, page, tables, matchHist, refreshHist, presses>>

\* Database asks for no automatic reconnection.
MutantReconnected(conn) == TRUE
Reconnected(conn) == conn

DbUp ==
    /\ ~up
    /\ up' = TRUE
    /\ restConn' = Reconnected(restConn)
    /\ mainConn' = Reconnected(mainConn)
    /\ UNCHANGED <<pc, todo, page, matchConn, outages, tables, matchHist,
                   refreshHist, presses>>

-----------------------------------------------------------------------------
(* A match from a tablet.                                                  *)

\* handleTransResult up to addMatchDatapoints: a payload that is no JSON at all
\* parses to nothing, and a Database that cannot connect is used all the same.
ReceiveMatch(p) ==
    /\ pc = "idle"
    /\ Len(submitted) < MaxSub
    /\ submitted' = Append(submitted, p)
    /\ todo' = ParseMatch(Len(submitted) + 1, p)
    /\ matchConn' = up
    /\ pc' = "match"
    /\ UNCHANGED <<page, restConn, mainConn, up, outages, tables, lost, refreshHist,
                   presses>>

\* One insert of addMatchDatapoints; a failed one is logged and left out.
InsertMatch(ok) ==
    /\ pc = "match"
    /\ todo # <<>>
    /\ ExecQuery(matchConn, ok)
    /\ matchtransaction' =
          IF ok THEN Append(matchtransaction, Head(todo)) ELSE matchtransaction
    /\ lost' = IF ok THEN lost ELSE lost \cup {Head(todo).sub}
    /\ todo' = Tail(todo)
    /\ UNCHANGED <<pc, page, conns, team, scmatch, submitted, refreshHist, presses>>

\* The DatabaseMan is destroyed, and its connection with it.
MatchDone ==
    /\ pc = "match"
    /\ todo = <<>>
    /\ pc' = "idle"
    /\ matchConn' = FALSE
    /\ UNCHANGED <<todo, page, restConn, mainConn, up, outages, tables, matchHist,
                   refreshHist, presses>>

-----------------------------------------------------------------------------
(* The "rest" button.                                                      *)

MutantDeleted(ok) == team
Deleted(ok) == IF ok THEN {} ELSE team

\* deleteteams.
PressRest(ok) ==
    /\ pc = "idle"
    /\ refreshes < MaxRefresh
    /\ ExecQuery(restConn, ok)
    /\ team' = Deleted(ok)
    /\ page' = 0
    /\ pc' = "pages"
    /\ before' = team
    /\ cleared' = ok
    /\ clean' = ok
    /\ refreshes' = refreshes + 1
    /\ UNCHANGED <<todo, conns, matchtransaction, scmatch, matchHist, presses>>

MaxPage == CHOOSE n \in {Len(Published[q]) : q \in DOMAIN Published} :
              \A q \in DOMAIN Published : Len(Published[q]) <= n

\* getteamdata(page) up to addTeams.
GetTeamData(n) ==
    /\ pc = "pages"
    /\ MakeTBAReq(n)
    /\ todo' = ParseTeams(n)
    /\ clean' = (clean /\ n = Len(Published[page]))
    /\ page' = page + 1
    /\ pc' = "teams"
    /\ UNCHANGED <<conns, tables, matchHist, before, cleared, refreshes, presses>>

\* One insert of addTeams.
InsertTeam(ok) ==
    /\ pc = "teams"
    /\ todo # <<>>
    /\ Query(restConn, ok)
    /\ team' = IF ok THEN team \cup {Head(todo)} ELSE team
    /\ clean' = (clean /\ ok)
    /\ todo' = Tail(todo)
    /\ UNCHANGED <<pc, page, conns, matchtransaction, scmatch, matchHist, before, cleared,
                   refreshes, presses>>

PageDone ==
    /\ pc = "teams"
    /\ todo = <<>>
    /\ pc' = IF page = Pages THEN "idle" ELSE "pages"
    /\ UNCHANGED <<todo, page, conns, tables, matchHist, refreshHist, presses>>

-----------------------------------------------------------------------------
(* The other buttons.                                                      *)

\* A row of matchtransaction that no tablet sent.
ButtonRow == [sub |-> 0, pos |-> 0, DCTimestamp |-> "NULL"]

\* AmplifyBlue, AmplifyRed, DB, or "Submit" after getteamsatcomphdata (module LocalDb).
PressButton(b) ==
    /\ pc = "idle"
    /\ presses < MaxPress
    /\ todo' = b
    /\ pc' = "batch"
    /\ presses' = presses + 1
    /\ UNCHANGED <<page, conns, tables, matchHist, refreshHist>>

\* One of its inserts.  execQuery throws nothing, so a failed one changes neither
\* what the button does next nor the toast that says it has started.
InsertRow(ok) ==
    /\ pc = "batch"
    /\ todo # <<>>
    /\ ExecQuery(mainConn, ok)
    /\ matchtransaction' = IF ok /\ Head(todo) = "matchtransaction"
                             THEN Append(matchtransaction, ButtonRow) ELSE matchtransaction
    /\ scmatch' = IF ok /\ Head(todo) = "scmatch" THEN scmatch + 1 ELSE scmatch
    /\ todo' = Tail(todo)
    /\ UNCHANGED <<pc, page, conns, team, matchHist, refreshHist, presses>>

ButtonDone ==
    /\ pc = "batch"
    /\ todo = <<>>
    /\ pc' = "idle"
    /\ UNCHANGED <<todo, page, conns, tables, matchHist, refreshHist, presses>>

-----------------------------------------------------------------------------
MainStep ==
    \/ \E p \in Payloads : ReceiveMatch(p)
    \/ \E ok \in BOOLEAN : InsertMatch(ok) \/ PressRest(ok) \/ InsertTeam(ok) \/ InsertRow(ok)
    \/ \E b \in Batches : PressButton(b)
    \/ MatchDone \/ ButtonDone
    \/ \E n \in 0..MaxPage : GetTeamData(n)
    \/ PageDone

Next == MainStep \/ DbDown \/ DbUp

Spec == Init /\ [][Next]_vars

-----------------------------------------------------------------------------
(* Properties.                                                             *)

Row == [sub : Nat \ {0}, pos : Nat \ {0}, DCTimestamp : {"NULL", "quoted"}]

IngestTypeOK ==
    /\ pc \in {"idle", "match", "pages", "teams", "batch"}
    /\ todo \in CASE pc = "match" -> Seq(Row)
                  [] pc = "teams" -> Seq(Teams)
                  [] pc = "batch" -> Seq({"matchtransaction", "scmatch"})
                  [] OTHER -> {<<>>}
    /\ page \in 0..Pages
    /\ {matchConn, restConn, mainConn, up} \subseteq BOOLEAN
    /\ matchtransaction \in Seq(Row \cup {ButtonRow})
    /\ team \subseteq Teams
    /\ scmatch \in Nat
    /\ submitted \in Seq(Payloads)
    /\ lost \subseteq 1..Len(submitted)
    /\ before \subseteq Teams
    /\ cleared \in BOOLEAN /\ clean \in BOOLEAN
    /\ refreshes \in 0..MaxRefresh
    /\ presses \in 0..MaxPress
    /\ outages \in 0..MaxOutage

\* However many inserts fail and whenever the database goes away, a submission
\* contributes each datapoint at most once, in the order of the payload, with
\* its own timestamp, and nothing that stands after a malformed element.
MatchRowsSound ==
    \A i \in 1..Len(matchtransaction) :
        LET r == matchtransaction[i]
            p == submitted[r.sub]
        IN  r.sub # 0 =>
                /\ r.sub <= Len(submitted)
                /\ r.pos <= Len(p)
                /\ \A k \in 1..r.pos : p[k] # "bad"
                /\ r.DCTimestamp = "NULL" <=> p[r.pos] = "noShow"
                /\ \A j \in 1..i - 1 :
                      matchtransaction[j].sub = r.sub => matchtransaction[j].pos < r.pos

\* A submission none of whose inserts failed is in the database up to its first
\* malformed element once addMatchDatapoints has returned.
MatchRowsComplete ==
    \A n \in 1..Len(submitted) :
        (n \notin lost /\ (pc # "match" \/ n < Len(submitted))) =>
            \A k \in 1..Len(submitted[n]) :
                (\A j \in 1..k : submitted[n][j] # "bad") =>
                    \E i \in 1..Len(matchtransaction) :
                        matchtransaction[i].sub = n /\ matchtransaction[i].pos = k

AllTeams == UNION {{Published[q][k] : k \in 1..Len(Published[q])} : q \in 0..Pages - 1}

\* The team table after a refresh in which nothing failed is what was published;
\* teams disappear only when the refresh's delete succeeded, and none appears
\* that was neither there before nor published.
RefreshSound ==
    /\ (pc = "idle" /\ clean) => team = AllTeams
    /\ ~cleared => before \subseteq team
    /\ team \subseteq before \cup AllTeams
    /\ cleared => team \subseteq AllTeams

\* The connections made at start-up are not made again: after one loss neither a
\* refresh nor a button puts anything into the database for the rest of the run,
\* whatever their toasts say, whereas the next match submission connects anew.
OnlyMatchesAfterLoss ==
    [][outages > 0 => /\ team' = team
                      /\ scmatch' = scmatch
                      /\ \A i \in 1..Len(matchtransaction') :
                            matchtransaction'[i].sub = 0 => i <= Len(matchtransaction)]_vars
=============================================================================
