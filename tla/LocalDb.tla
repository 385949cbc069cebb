------------------------------ MODULE LocalDb -------------------------------
(***************************************************************************)
(* The local database: the files scouterList.csv and teamCompList.csv that *)
(* the "Update Scouter List" and tournament "Submit" buttons write, and    *)
(* their copies on the tablets, which ask for its hash and, when the hash  *)
(* is not that of their copy, for the whole of it.                         *)
(*                                                                         *)
(* handleWriteTransactions reads both files on the main thread, which is   *)
(* also the only one that writes them, before it starts the worker that    *)
(* sends them.  A file is opened, which empties it, and then written; the  *)
(* program may be killed at any moment, and is then started again.  The    *)
(* contents of a file are a version of the external data and how much of   *)
(* it there is.                                                            *)
(***************************************************************************)
EXTENDS Integers

CONSTANTS
    Tablets,
    MaxVer,         \* bound: versions of the scouters and of the event's teams
    MaxFault,       \* bound: times the program is killed or an answer is cut short
    HashOf,         \* murmurHash of the two files' contents
    None            \* no copy, no answer, no file being written

Part == 1
Whole == 2
Empty == [ver |-> 0, size |-> 0]
Version == 0..MaxVer
Contents == {Empty} \cup [ver : Version, size : {Part, Whole}]
Snapshot == [scouters : Contents, teams : Contents]

ASSUME MaxVerAssumption == MaxVer \in Nat /\ MaxFault \in Nat
ASSUME HashAssumption == DOMAIN HashOf = Snapshot
ASSUME NoCopyAssumption == None \notin Snapshot
ASSUME NotWritingAssumption == None \notin [list : {"scouters", "teams"}, text : Contents]

VARIABLES
    scouter, event,             \* external: versions of the scouter table and the event's teams
    scouterList, teamCompList,  \* the files
    writing,    \* the list the main thread is writing and what it writes, or None
    request,    \* per tablet: the transaction under way, "hash" or "db", "idle", or
                \* "stale" once the hash has turned out to be another
    payload,    \* per tablet: what the worker of that transaction sends
    local,      \* per tablet: its copy
    told,       \* history: the files when a tablet asked for the hash it then found its own
    asked,      \* history, per tablet: the files when its transaction began, None if one
                \* of them was just being written
    faults,     \* history: times the program was killed or an answer was cut short
    killed,     \* history: the program was killed while it wrote a list
    cut         \* history: part of an answer was taken for the whole

external == <<scouter, event>>
files == <<scouterList, teamCompList>>
tabletVars == <<request, payload, local, told, asked>>
history == <<faults, killed, cut>>
vars == <<external, files, writing, tabletVars, history>>

-----------------------------------------------------------------------------
(* The server.                                                             *)

\* readWholeFile of both: what std::async copies into the worker.
Current == [scouters |-> scouterList, teams |-> teamCompList]

\* What the worker sends: its own copy, whatever the files have become.
MutantNoTeams(t) == [payload[t] EXCEPT !.teams = Empty]
MutantSent(t) == [payload[t] EXCEPT !.teams = teamCompList]
Sent(t) == payload[t]

\* The hash it sends, of what was read when the transaction began.
MutantHashed(t) == HashOf[Current]
Hashed(t) == HashOf[Sent(t)]

Init ==
    /\ scouter = 0
    /\ event = 0
    /\ scouterList = [ver |-> 0, size |-> Whole]
    /\ teamCompList = [ver |-> 0, size |-> Whole]
    /\ writing = None
    /\ request = [t \in Tablets |-> "idle"]
    /\ payload = [t \in Tablets |-> None]
    /\ local = [t \in Tablets |-> None]
    /\ told = [t \in Tablets |-> None]
    /\ asked = [t \in Tablets |-> None]
    /\ faults = 0
    /\ killed = FALSE
    /\ cut = FALSE

\* Somebody edits the scouter table; the event's team list changes.
EditScouters ==
    /\ scouter < MaxVer
    /\ scouter' = scouter + 1
    /\ UNCHANGED <<event, files, writing, tabletVars, history>>

EditEvent ==
    /\ event < MaxVer
    /\ event' = event + 1
    /\ UNCHANGED <<scouter, files, writing, tabletVars, history>>

\* What a query for version v may give: nothing, when it fails or there is nothing;
\* the rows before the connection broke; all of it.  The Blue Alliance's answer gives a
\* part when an element is not as parseTeams wants it, and nothing when it breaks off,
\* since json::parse throws then; a part is allowed for both, which the code does not do.
Answers(v) == {Empty} \cup {[ver |-> v, size |-> k] : k \in {Part, Whole}}

\* A list is opened for writing, and so emptied, only if there is an entry to write.
MutantOpens(got) == TRUE
Opens(got) == got # Empty

\* The main thread is not inside one of the two buttons' code.
MutantBetweenFrames == TRUE
BetweenFrames == writing = None

Open(list, got) ==
    /\ BetweenFrames
    /\ IF Opens(got)
         THEN /\ scouterList' = IF list = "scouters" THEN Empty ELSE scouterList
              /\ teamCompList' = IF list = "teams" THEN Empty ELSE teamCompList
              /\ writing' = [list |-> list, text |-> got]
         ELSE UNCHANGED <<files, writing>>
    /\ IF got.size = Part
         THEN /\ faults < MaxFault
              /\ faults' = faults + 1
              /\ cut' = TRUE
         ELSE UNCHANGED <<faults, cut>>
    /\ UNCHANGED <<external, tabletVars, killed>>

\* "Update Scouter List", and getteamsatcomphdata of the tournament's "Submit".
ScouterUpdate(got) == got \in Answers(scouter) /\ Open("scouters", got)
TournamentSubmit(got) == got \in Answers(event) /\ Open("teams", got)

\* The file being written holds text.
Holds(text) ==
    IF writing.list = "scouters"
      THEN scouterList' = text /\ UNCHANGED teamCompList
      ELSE teamCompList' = text /\ UNCHANGED scouterList

\* The entries are written and the stream is closed.
Written == writing.text

WriteList ==
    /\ writing # None
    /\ Holds(Written)
    /\ writing' = None
    /\ UNCHANGED <<external, tabletVars, history>>

\* The program is killed and started again.  Of a list it was writing some part,
\* which may be nothing or everything, has reached the file; the transactions
\* under way fail.
WrittenParts(text) == {Empty} \cup {[ver |-> text.ver, size |-> k] : k \in 1..text.size}

Crash ==
    /\ faults < MaxFault
    /\ IF writing = None THEN UNCHANGED <<files, killed>>
       ELSE /\ \E text \in WrittenParts(writing.text) : Holds(text)
            /\ killed' = TRUE
    /\ writing' = None
    /\ request' = [t \in Tablets |-> "idle"]
    /\ payload' = [t \in Tablets |-> None]
    /\ asked' = [t \in Tablets |-> None]
    /\ faults' = faults + 1
    /\ UNCHANGED <<external, local, told, cut>>

\* handleWriteTransactions, in the main thread's updateAllBt.
Start(t, r) ==
    /\ BetweenFrames
    /\ request' = [request EXCEPT ![t] = r]
    /\ payload' = [payload EXCEPT ![t] = Current]
    /\ asked' = [asked EXCEPT ![t] = IF writing = None THEN Current ELSE None]
    /\ UNCHANGED <<external, files, writing, local, told, history>>

-----------------------------------------------------------------------------
(* The tablets (external): the hash first, and the database if it differs. *)

AskHash(t) == request[t] = "idle" /\ Start(t, "hash")
AskDb(t) == request[t] = "stale" /\ Start(t, "db")

SameHash(t) == local[t] # None /\ HashOf[local[t]] = Hashed(t)

GotHash(t) ==
    /\ request[t] = "hash"
    /\ request' = [request EXCEPT ![t] = IF SameHash(t) THEN "idle" ELSE "stale"]
    /\ told' = IF SameHash(t) THEN [told EXCEPT ![t] = asked[t]] ELSE told
    /\ payload' = [payload EXCEPT ![t] = None]
    /\ asked' = [asked EXCEPT ![t] = None]
    /\ UNCHANGED <<external, files, writing, local, history>>

GotDb(t) ==
    /\ request[t] = "db"
    /\ local' = [local EXCEPT ![t] = Sent(t)]
    /\ request' = [request EXCEPT ![t] = "idle"]
    /\ payload' = [payload EXCEPT ![t] = None]
    /\ told' = [told EXCEPT ![t] = None]
    /\ asked' = [asked EXCEPT ![t] = None]
    /\ UNCHANGED <<external, files, writing, history>>

\* The transaction fails; the tablet keeps its copy.
Fails(t) ==
    /\ request[t] \in {"hash", "db"}
    /\ request' = [request EXCEPT ![t] = "idle"]
    /\ payload' = [payload EXCEPT ![t] = None]
    /\ asked' = [asked EXCEPT ![t] = None]
    /\ UNCHANGED <<external, files, writing, local, told, history>>

-----------------------------------------------------------------------------
Next ==
    \/ EditScouters \/ EditEvent \/ WriteList \/ Crash
    \/ \E got \in Contents : ScouterUpdate(got) \/ TournamentSubmit(got)
    \/ \E t \in Tablets : AskHash(t) \/ AskDb(t) \/ GotHash(t) \/ GotDb(t) \/ Fails(t)

Spec == Init /\ [][Next]_vars

\* The main thread goes on; a tablet keeps asking, and not every transaction fails.
\* Asking competes with the writing of lists for the main thread, which takes
\* turns (strong fairness).
LiveSpec ==
    /\ Spec
    /\ WF_vars(WriteList)
    /\ \A t \in Tablets : /\ SF_vars(AskHash(t)) /\ SF_vars(AskDb(t))
                          /\ SF_vars(GotHash(t)) /\ SF_vars(GotDb(t))

-----------------------------------------------------------------------------
(* Properties.                                                             *)

\* The copy a tablet receives is the two files as they were together when it asked:
\* never one file from before an update and the other from after it, whatever is
\* written while the worker sends, and never a file that was just being written.
CopyIsWhole ==
    [][\A t \in Tablets : local'[t] # local[t] => local'[t] = asked[t]]_vars

\* A tablet has a list that is empty only if the program was killed while it wrote
\* one, and one that is cut short only if it was, or if the database or The Blue
\* Alliance stopped in the middle of an answer: a query that fails, and the exchange
\* itself, lose no entry.
TornOnlyByFault ==
    \A t \in Tablets, f \in {"scouters", "teams"} :
        local[t] # None /\ local[t][f].size # Whole =>
            killed \/ (cut /\ local[t][f].size = Part)

\* A tablet that was told its copy's hash is current had exactly what the files held
\* when it asked.  (The hash does not collide on the contents of the instance;
\* module Murmur shows where it can.)
HashConfirms == \A t \in Tablets : told[t] # None => local[t] = told[t]

\* A new copy is no older than the one it replaces, in either list: neither a failed
\* query or request nor a cut answer sets back a list that a tablet has.  What may
\* happen is that a list is lost, to a program killed while it wrote it.
NoRollback ==
    [][\A t \in Tablets, f \in {"scouters", "teams"} :
          local[t] # None =>
              \/ local'[t][f].ver >= local[t][f].ver
              \/ local'[t][f] = Empty /\ killed]_vars

\* Unless the files go on being rewritten, every tablet comes to hold what they hold.
Converges ==
    \A t \in Tablets : ([]<><<TRUE>>_files) \/ (<>[](local[t] = Current))
=============================================================================
