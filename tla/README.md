# Verification of the scouting server

The repository is the desktop program of an FRC scouting system: a raylib window
that runs a Bluetooth server for the scouts' tablets, stores what they send in a
MySQL database, fetches team data from The Blue Alliance and hands a local list
of scouters and teams back to the tablets. This directory holds TLA+ models of
its parts, TLC configurations that check them on small instances, and TLAPS
proofs of the properties that matter most, for every size.

`PROJECT.json` lists the parts, the runs, the source lines each definition
stands for, the mutants, the findings, the hazards and the theorems.

## 1. Inventory

Paths are relative to `src/src/`; `bt/` stands for `myincludes/bluetooth/`.

| Part | State | Operations | What makes it correct |
|---|---|---|---|
| Bluetooth server, `bt/bluetooth.hpp` | listener, `connectedTablets` (vector of objects), `runningTransactions` (vector of pointers into them) | `initWinsock`, `initAccept`, `makeDiscoverable`, `acceptConn`, `handleReadyConnections`, `handleRunningTransactions`, `killSocket`, `killAllSockets` | every open socket is registered once; pointers and flags agree; no worker outlives its object |
| Conductor, `bt/bluetoothConductor.hpp` | none of its own | `initReadyTransaction`, `handleWriteTransactions`, `handleTransResult` | every received match is inserted exactly once; the main thread never aborts |
| Tablet object, `bt/btTabObj.hpp`, `bt/bluetoothTransaction.hpp` | socket, flags, name, `TABTRANSACTION` with a future | `readTransactionData`, `internalRead`, `internalWrite`, `readAllSocketData`, ACKs | payloads arrive whole; both sides stay in step; every worker ends |
| Parser and database, `myincludes/jsonParser.hpp`, `DatabaseMan.hpp`, `database.hpp` | MySQL connections and tables | `parseMatch`, `parseTeams`, `addMatchDatapoints`, `clearTeams`, `addTeams`, the inserts in `main.cpp` | rows come from a submission, once, in order, all of them if nothing failed |
| The Blue Alliance, `restReqHandler.hpp` | one `DatabaseMan` made at start-up | `deleteteams`, `getteamdata`, `getteamsatcomphdata` | a refresh without a failure leaves what is published |
| Local database, two csv files, `murmurHash2Neutral.hpp` | the files | the two buttons that write them, `readWholeFile`, `murmurHash` | a tablet's copy is one consistent snapshot, loses entries only to a fault and never goes back |
| Main loop and buttons, `main.cpp`, `button.hpp`, `tabHandler.hpp` | scene, disabled tabs, each button's last click state and last place | one frame, a change of the window's size | tabs agree with the scene, clicks are neither lost nor doubled |
| Text boxes, `textBox.hpp` | a C string of limited size | `updateText` | the string is terminated within its buffer |
| Toasts, `toast.hpp`, `toastHandler.hpp` | queue, current toast, its end time | `add`, `update` | each is shown once, in order, long enough |
| Pong, QR display, drawing, error texts, console | drawing state | | not modelled |
| `myincludes/bluetooth.hpp`, `bthSocketHandler.hpp` | | | commented out as a whole |
| `include/` | | | vendored |

How the parts interact: `main` calls `updateAllBt` in every frame, before it polls
the buttons of the scene. `handleReadyConnections` starts `std::async` workers,
which run `internalRead` or `internalWrite` on a `this` pointer into
`connectedTablets`, concurrently with the main thread; the main thread looks at
their futures with `isReady` and hands results to the conductor, which calls the
parser and the database on the main thread. The buttons write the csv files that
the conductor reads. Every part adds toasts.

What is hard here: threads that hold pointers into a vector the main thread
changes; index loops that erase while they run; a byte stream on which a timeout
leaves both sides at different places; sends without a time limit; several inserts
without a database transaction; lists that are emptied before they are written; and
buttons that poll a level and remember it, and keep the place at which they were last drawn.
The hazards in
`PROJECT.json` list these at their lines.

## 2. Modules

| Module | Models | Used with |
|---|---|---|
| `TabletService` | what the server promises each tablet and the database | `BtServer` implements it |
| `BtServer` | start-up, server, conductor, tablet objects, workers, reset and shutdown | `MCBtServer`, `BtServerProofs`, `BtTransactionProofs` |
| `TabletLink` | one connection's byte stream and the two transfer protocols on it | `MCTabletLink`, `TabletLinkProofs` |
| `Ingest` | matches, teams and the buttons' rows on their way into the database | `MCIngest`, `IngestProofs` |
| `LocalDb` | the csv files and the tablets' copies | `MCLocalDb`, `LocalDbProofs` |
| `Murmur` | `murmurHash` on 32-bit words; for TLC only | `MCLocalDb` |
| `Ui` | scenes, tabs, buttons | `UiProofs` |
| `TextField`, `TextBox` | what a text box promises; what it does | `MCWidgets`, `TextBoxProofs` |
| `Toasts` | the toast queue | `MCWidgets`, `ToastsProofs` |

A definition called `Mutant...` is a plausible bug in the definition below it. It
is used by nothing; putting it in that definition's place makes the property named
in `PROJECT.json` fail.

### BtServer

A tablet object is named by its socket; where it is stored is a separate matter.
An address is a buffer generation and a slot. `push_back` on a full vector starts
a new generation of twice the capacity, `erase` shifts the later objects down,
`clear` leaves an empty buffer; `running` (the code's `runningTransactions`),
`parent` and a worker's `tself` keep the addresses they were given. `At(a)` is what
is stored there now, `None` when nothing is. Following an address that holds no
object ends in the state `undefined`; following one that holds *another* object is
carried out on that object, as the program would.

The main thread is a program counter `pc` with a loop index `i`: `accept`, `ready`
(one step per element of `handleReadyConnections`), `check` (its `isReady`, apart
from the start because the worker may end in between), `running`, `scene`. The
skip that an erase causes in both loops is there. Workers are the tasks
`<<socket, n>>`. A worker's work is one step here, with success or failure
(`Outcomes`), since `TabletLink` has the details; the write `success = true` at
its start is another one, because another object may be at its address by then.
`joining` is the task whose future the main thread is destroying: `std::async`
futures block in their destructor.

Start-up is one step, `Start`, in which any set of its calls may fail: the code logs a
failure and makes the next call. What is left behind is whether a tablet can find and
reach the listener (`reachable`) and whether `accept` blocks (`blocking`, when the
listener could not be made non-blocking). A tablet may go away with a close, vanish
without one, or stall, that is, stay connected and read no more; `sendToSocket` has no
time limit, so the worker of a stalled tablet ends only when its socket is closed.

`TabletService` says what this amounts to for a tablet: its connection is taken and
closed once, its transactions follow one another, each of them fails, is served or, for
a match, received and then stored, once, before the next one begins and before the
connection is closed. A deferred write is the one transaction that may be taken and
never carried out (`skipped`). The refinement mapping reads the state of a transaction
from its task (`PhaseOf`) and `sound` from `~disturbed`; a task in a state the service
does not know is mapped to `corrupt`, which no step of the service leads to. The
connections refine theirs without the restriction to `sound`.

`closes` lists, for every socket, the functions that have called `sockSuicide` on it, in
order. A tablet that closes has it called twice, in `initReadyTransaction` and at once again
in `killSocket`; that is one step of the main thread here, and `RetiredOnce` says that a
socket is closed by this pair or by one `killAllSockets` and by nothing else, ever. The
comment that wants one call is refuted by `BtServer_suicide`. The `sendNack` by which the
main thread answers a `TRANS_SOCKET_ERROR` is left out: it has no time limit either, and
`FramesGoOn` is about the other things that may hold up a frame.

`disturbed` records that an object with a running transaction has been moved or
destroyed. The program reaches such states (see the finding of
`BtServer_ready`), and what happens from there on is undefined in C++. The properties
about pointers are therefore stated for runs in which this has not happened;
`NoSocketLeak`, `RetiredOnce` and `WorkersOwned` are stated, checked and proved without that
restriction. Both launch modes of `std::async` are in the model; the library the
Makefile's compiler comes with always starts a thread, and liveness is checked for
that mode.

### TabletLink

The tablet's stream is a sequence of bytes that remember what they are part of, so
that a byte taken for something else is noticed. `recv` returns any part of what
has arrived; a timeout is possible whenever nothing has. The tablet follows the
exchanges described in the comments of `internalRead` and `internalWrite`.
A transaction that fails leaves the connection open, so the rest of what the tablet
sends is read as codes: `AlignedUntilFailure` and `PayloadsInOrder` say that this is
the only way in which the two get out of step. A server whose `readAck` fails sends
nothing, so a tablet that asked for data may then wait for good; only the direction
from the tablet has a completeness property (`ReadCompletes`). A byte of something else
may denote any code: one of the three the tablet sends, the error code, which is answered
with a NACK and a close, or a negative one that has no case (`After`). A tablet may close, be
lost, or stall, that is, stay connected and read no more. `sendToSocket` then fills the
buffers and tries again without end: `Blocked` says that the server's next call is a send to
such a tablet, fairness promises nothing there, and `ServerReturns` makes that exception and
no other. The code's ten-second
timeout is a possibility, not a clock.

### Ingest, LocalDb

In `Ingest` every query may fail, and fails on a connection that is gone; elements of
a submission are of three kinds, of which the parser distinguishes `noShow`, which
becomes SQL's `NULL`, and malformed ones, at which the loop stops. The connection of
a match submission is made for it; those of the refreshes and of the buttons in
`main.cpp` are made once, at start-up, and `OnlyMatchesAfterLoss` says what that means
after an outage. The buttons' inserts (Amplify, the DB test rows, the `scmatch` rows of
the tournament button) are batches of rows without an identity. A match that a tablet
sends again is one more submission: nothing in the code recognises it.

`LocalDb` abstracts the contents of a list to the version of the data they were written
from and how much of it there is: nothing, a part, all. A list is opened, which empties
it, and written in a later step, between which the program may be killed; the restart
finds some prefix of the list. An answer of the database or of The Blue Alliance may
break off: `query` takes a `NULL` row for the end, so the part replaces the whole list. A part
of The Blue Alliance's list comes from an element that `parseTeams` does not take; an answer
that is cut short makes `json::parse` throw and gives no team at all, and the model allows a
part there too (`Answers`), more than the code does. `TornOnlyByFault` and `NoRollback` say
that these two faults are all that a tablet can lose entries to, and that it never gets
an older list back. Both files are read on the main thread, which also writes them,
before the worker starts: that is why a copy is a consistent snapshot (`CopyIsWhole`).

The hash is a constant `HashOf` of `LocalDb`, which only asks whether two hashes are
equal. `Murmur` is the function itself: words of four bytes, multiplication modulo
2^32, arithmetic shifts and signed chars. It is checked on values that the compiled
function returns (`TestVectors`). `MCLocalDb` evaluates that it has no collision on the contents of
the instance, which lets the contents stand for their hashes there, and `AccentsCollide`
shows where it has one: a byte above 127 hides the rest of its block of four, so that
changing an accent may leave the hash as it is. `HashConfirms` and `Converges` hold
for contents without such a collision. Signed overflow is undefined in C++; the
model wraps, as compilers do here.

### Ui, TextBox, Toasts

`Ui` has the loop's body as one action, `Frame`: tabs first, then the buttons of the scene,
then drawing, which is when a button learns its place. The other action, `Resize`, is the
user changing the size of the window, or F11: everything is laid out anew, but a button
keeps `lastX` and `lastY` until it is drawn again, and a scene is drawn only after its buttons
were polled. `placed` is the set of buttons drawn since the last resize. Any other button,
whether it has garbage coordinates because it was never drawn or those of the old window,
may be under the mouse wherever that is (`Clicked`). In a window smaller than the first one
the gaps and texts that do not scale push buttons over each other; its frames are those after
each of which there is a `Resize`, so that no button has a known place there.

Two pairs of buttons share a corner in different scenes, and a click that changes the scene
goes on to the button below it: `OneActionPerClick` states these two exceptions, the first of
which disconnects all tablets when the user leaves pong. Buttons left behind by a resize are
the third: visit the database scene, go back, maximise, and a click on the Database tab that
falls where `rest` was in the small window refreshes the team table as well. The model has this
behaviour, and both click properties are therefore about placed buttons: what they say is that
outdated ones neither take a click away from a placed one nor make it report twice.
`TabsMatchScene` holds without any restriction.

`TextBox` is the buffer of
`sizeLimit + 1` characters with `updateText` as its action and is shown to implement
`TextField`. `Toasts` counts the current toast's time down instead of keeping a clock. `MCWidgets` checks
the two side by side; neither reads what the other keeps.

## 3. Runs

Passing runs:

| Run | Instance | Shows |
|---|---|---|
| `BtServer_two` | 2 tablets, 1 request each, all codes, both launch modes, tablets that close or vanish | registry, pointers and matches stay consistent; the server implements `TabletService` |
| `BtServer_requests` | 2 tablets, 2 requests each, a read, a write and an unknown code | reuse of a tablet's transaction record; the frame loop does not stop for a tablet; the only abort is that of an unknown negative code; `TabletService` again |
| `BtServer_busy` | 4 tablets, from a frame in which two are sending a match | no worker is left behind, even where `killSocket` destroys a future whose worker runs |
| `BtServer_live` | 2 tablets that may stall, failing start-up calls, fairness | frames go on, requests served, transactions ended, matches delivered, shutdown |
| `TabletLink_stream` | 3 transactions, payloads of 0 and 3 bytes, a tablet that may close, be lost or stall, fairness | both sides in step until a failure, workers end unless a send is blocked, no mutual wait for data |
| `Ingest_small` | 2 submissions of up to 2 elements, 2 refreshes of 2 pages, 1 press of another button, 1 outage | rows are sound and complete, the team table after failures, what start-up connections do after a loss |
| `LocalDb_small` | 1 tablet, 2 versions of each list, 2 crashes or cut answers, fairness | snapshots, losses only by a fault, no going back, copies converge; `murmurHash` on test vectors |
| `Ui_frames` | all buttons, any number of frames and resizes, one outdated button under the mouse at a time | tabs and scene agree; placed buttons neither lose nor double a click |
| `Widgets_small` | a text box of 3 characters, up to 2 typed per frame; 3 toasts, frames of up to 2 seconds, fairness | termination, refinement of `TextField`; order, duration and progress of toasts |

Violations, each a finding that quotes the comment it contradicts:

| Run | What the comment says | What the code does |
|---|---|---|
| `BtServer_ready` | asynchronous data is not ready until done | after a reallocation the pointer asked is not that of the transaction |
| `BtServer_suicide` | `sockSuicide` should only ever be called once | `initReadyTransaction` and `killSocket` both call it on the same object |
| `TabletLink_finalack` | the exchange ends with an ACK from the server | none is sent |

Smaller differences between comments and code, seen while modelling: "a non-initialized
data obj will cause UB" (`bluetoothTransaction.hpp:29`), but the switch in
`handleWriteTransactions` has no default and `handleReadyConnections` asks `isReady` of
such an object after an unknown negative code (`NoAbort` states the exception); `batmanTrans` is
said to be "true if the parent was killed in the middle of a transaction"
(`bluetoothTransaction.hpp:19`), but a reset in the middle of one leaves it false;
the timeout of `readAllSocketData` is said to be 5 s and is 10 s; of `acceptConn` it is
said that "this call is non-blocking" (`bluetooth.hpp:235`), which is not so when the
`ioctlsocket` of the listener failed, since that is only logged (`FramesGoOn` states the
exception).

**Bounds.** Two tablets are what it takes for one to disturb another's transaction,
by growth (capacity 1 to 2) or by erasure in front of it. Two requests per tablet are
what it takes for an object to be reused, after a consumed future (a read), one left
in place (a write) or none. Four tablets are what it takes for the main thread to join a
worker in `killSocket`: one that leaves, one whose finished transaction has moved a slot
down, one to whose object its stale `parent` now leads, and the pointer of the tablet
between them; `BtServer_busy` starts from a frame in which all four are registered, since
from the start-up this instance is out of reach. Three transactions on a link let one fail, a second be
misread and a third follow. A payload of 3 has the size of an ACK, 0 skips the read,
and lengths outside what is sent include a negative one. Two elements of a submission
put a malformed one before or behind a good one; two refreshes let the second start
from what a failed first one left. Tablets do not interact in `LocalDb`, so one is enough; two
faults let a crash follow a cut answer or another crash. Its lists of zero, one and two
entries take the hash through its loop and every case of its switch. In `BtServer_live` one
failing call stands for each kind of consequence: no listener, no way to it, a blocking
one. `MaxStray` in `Ui` is how many outdated buttons the mouse is on at once; one is enough
for each of them to be pressed alone, beside a placed button and after another one, and the
proofs are for any number. A text box of three characters with two typed per frame meets
its limit in the middle of a frame; frames of two seconds end before, with and after a toast. The tablets of `BtServer` are interchangeable, which is used as a symmetry in the safety runs only.

**Deadlock** is checked except for `TabletLink`, where a connection on which nobody
has anything to say is at rest, `Ingest`, whose bounded inputs run out, and
`BtServer_live`, where a blocking listener may wait for good.

**Fairness.** `BtServer`: weak fairness of the main thread (its loop always goes on)
and of every worker's end (each read in it times out) unless its tablet has stalled: then a send may be tried
again forever, and the end is assumed only once the socket is closed, which makes the
send fail (`Bounded`). `TabletLink`: weak fairness of the
server's threads unless they are `Blocked` in a send, and of the receiving of a tablet that has not
stalled. `LocalDb`: the tablet keeps asking,
and a transaction that is attempted again and again eventually succeeds (strong
fairness): an assumption about tablets and radio; the list being written is written to
its end unless the program is killed. `Toasts`: the loop goes on. Nothing
makes a tablet send, close or leave.

## 4. Proofs

`BtServerProofs`, for any sets of sockets and codes and any number of requests:

- `TypeCorrect`: `Spec => []TypeOK`. The inductive invariant `TypeInv` adds `Counted`:
  the number of codes read from a socket never exceeds the number sent, and is below
  it while one is waiting. Without it the task `<<s, nread + 1>>` of a new
  transaction could not be shown to exist.
- `SocketsTracked`: `Spec => []NoSocketLeak`. The invariant `LeakInv` adds that inside
  `killAllSockets` the registered sockets are closed, so that `clear` loses no open one,
  and that a connection that was never made has no socket. The argument is about
  `Erase` and `Append`: `RegisteredErase` shows that erasing slot `i` of a vector
  without duplicates removes exactly one tablet.
- `SocketsRetiredOnce`: `Spec => []RetiredOnce`, inductive given `LeakInv`: what is
  registered is open, so what is closed had an empty list of closing calls before.
- `NoWorkerLeftBehind`: `Spec => []WorkersOwned`. `OwnInv` adds where the main thread can
  be while it waits for a worker, so that no second future is destroyed during the wait.

`BtTransactionProofs`, on the same footing, proves everything that the runs check of
transactions while no object with a running one has been moved or destroyed. The
inductive invariant is `TransInv`, and it needs more than the properties say:

- an object is `Busy` from the start of a transaction to the handling of its result, which
  is longer than it is flagged: between `initReadyTransaction` and `isReady` the
  transaction is begun and not yet in `runningTransactions` (`Fresh`, `Checking`);
- the future of a busy object is that of *this* transaction's worker, whose `this` pointer
  is the object's `parent`, and `success` is that worker's outcome once it has ended
  (`BusyFuture`); a future that an idle object still holds has ended or was deferred and
  has no result to be asked for (`IdleFuture`);
- a task that is ready and not yet inserted, or deferred and yet to be run by `get()`, is
  the future of a busy registered object (`TaskOK`).

`BusyAt` and `ActiveOwn` draw from it that a worker works on its own object, which is what
every other argument uses. The theorems: `PointersAgree` (`TransactionsTracked`),
`FramesNeverWait` (`NeverWaits`), `OnlyUnknownCodesAbort` (`NoAbort`), `PayloadsAreOwn`
(`PayloadIsOwn`), `MatchesConserved` (`MatchConservation`), `ReadsExclude` (the action
property `ExclusiveRead`) and `ImplementsService` (`Spec => ServiceSpec`): each step of the
server takes or closes connections, moves one transaction from one phase to the next, or
does not show. That a new transaction begins only when the earlier ones of its tablet are
over (`StartRefines`) is where `TaskOK` is needed in full. Once an object is disturbed only
the connections are claimed, and these follow from `LeakInv`.

`TextBoxProofs`, for every `sizeLimit`, character set and input:

- `TextTerminated`: the buffer holds a string that ends within it, with length `currentChar`.
  The two conjuncts are inductive together.
- `ImplementsField`: `Spec => FieldSpec`, the refinement of `TextField` by the mapping `GetText`.

`TabletLinkProofs`, for any sizes of codes' payloads, lengths and ACKs and any number of
transactions: `LinkTypeCorrect`, `StaysAligned` (`AlignedUntilFailure`) and
`PayloadsReturned` (`PayloadsInOrder`). `SyncInv` says that until a transaction fails there
is a transaction `n` such that the bytes got and those on their way are the rest of the
message the server reads, followed only by codes of later transactions (`Stream`), that
the tablet is at the matching place of its exchange (`Place`), and that the payloads
returned are those of the read transactions up to `n`, in order (`Returned`). Neither
property is inductive without it: which byte `recv` gets next depends on all that was sent.

`LocalDbProofs`, for any number of tablets, versions and faults: `TornByFault`
(`TornOnlyByFault`), `CopiesWhole` (`CopyIsWhole`), `NeverBack` (`NoRollback`), `HashAgrees`
(a tablet told it is current has a copy with the hash the files had when it asked, for
any hash function) and `HashConfirmsCopy` (`HashConfirms`), which assumes that the hash tells
the contents of the files apart: `murmurHash` does so on the contents of the instance,
which `MCLocalDb` evaluates, and not in general (`AccentsCollide`). `DbInv` adds what a list
holds or *is about to hold* while it is being written (`Pending`), since the file itself is
empty then, and that no worker's answer is older than the tablet's copy.

`IngestProofs`, for submissions, pages and batches of any length: `IngestTypeCorrect`,
`RowsSound` (`MatchRowsSound`), `RowsComplete` (`MatchRowsComplete`), `RefreshIsSound`
(`RefreshSound`) and `MatchesOnly` (`OnlyMatchesAfterLoss`). `UnderWay` says which rows of the
submission the loop has still to insert, `NoneMissing` that those it has passed are in the
table unless the submission is marked as having lost one; `RefreshInv` that a team a clean
refresh has passed is in the table; `ConnsGone` that one outage ends both start-up
connections for good. `DownClosed` shows that the elements before the first malformed one
are an initial segment of the submission.

`UiProofs`: `TabsAndScene` (`TabsMatchScene`), `ClickNotLost` (the action property
`FreshClickFires`) and `OneAction` (`OneActionPerClick`), over any number of frames and resizes and
for any number of outdated buttons under the mouse. `NoneRemembered` says that no visible
button remembers a click while the mouse is up, `PlacedByScene` and `TabsPlaced` that the
buttons of a scene, and the tabs, are placed together, and `FiredInv` follows a click through the two
corners that scenes share.

`ToastsProofs`, for any number of toasts and any frame lengths: `InOrder` (`ToastsInOrder`) and
`WholeTime` (`FullTime`), from `Numbered` (shown, then queued, are all toasts in order) and
`Timed` (what was seen and what is left add up to a toast's time).

The assumptions are those of the constants (`CodesAssumption`, `MaxReqAssumption`,
`NoneAssumption`, `SizeLimitAssumption`, `WireAssumption`, `PagesAssumption`,
`NotWritingAssumption`, ...), which the runs evaluate on their instances, and
the hypothesis of `HashConfirmsCopy`.

Every invariant, every action property and every refinement that a passing run checks is
proved. Only model-checked: all liveness (`FramesGoOn`, `RequestServed`, `TransactionEnds`,
`MatchDelivered`, `ShutdownCompletes`, `ServerReturns`, `ReadCompletes`, `Converges`,
`ToastShown`), since fairness is beyond the prover, and `Murmur`, whose recursive operators
are.

## 5. Plan

1. Done: the server from its start-up on, with its workers, shown to implement the
   abstract service; the link, ingestion with all writes to the database, the local
   database with crashes and cut answers, the hash, the window's navigation, text boxes
   and toasts; the safety properties and the refinements of all of them proved.
2. Nothing of the program's own protocol or persistent state is left to model; see below.
3. Next: what the server still guarantees once an object has been disturbed, beyond its
   sockets and workers; and a proof of the safety half of the liveness properties, that
   is, of the measure each of them decreases.

## 6. Not modelled

Most of the repository is not its own code: of its lines of C and C++, all but about
3800 are vendored libraries under `include/` (json, curl and its dependencies, MySQL,
raylib), which the program uses through a few calls that the models treat as external.
Of its own code, drawing, layout, scaling and animation are left out but for what the
buttons take from them, the place each was last drawn at, which is in `Ui`; the QR code, the
console and the table of Winsock errors have no state that another part depends on. Pong computes in
single-precision floats with random factors. The list of names (`getNameList`), the team
query of the database scene and the frame rate only show what is there. A newly accepted
socket that cannot be made non-blocking is not modelled: its reads would not time
out, and its worker would behave like that of a stalled tablet. Memory that is allocated and not
freed, the text of SQL statements and of JSON are outside the models. Dead code
(`invertEndianness`, `getmatchdata`, `parseMatchList`, `addMatchList`, the commented-out
headers) is not modelled.
