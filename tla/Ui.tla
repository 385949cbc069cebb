--------------------------------- MODULE Ui ---------------------------------
(***************************************************************************)
(* Navigation: the scenes of main()'s loop, its tabs, and the buttons that *)
(* each scene polls.  A frame is one pass through the loop: the tabs are   *)
(* polled, then the buttons of the scene, and then the scene is drawn,     *)
(* which is when a button learns where it is.  A button polls the level of *)
(* the mouse button and keeps the last one itself, so what it remembers is *)
(* as old as the last frame in which it was polled.  Where it takes itself *)
(* to be is as old as the last frame in which it was drawn, and the window *)
(* can be resized between any two frames.                                  *)
(*                                                                         *)
(* Positions are regions of the window, each with the buttons drawn there; *)
(* what a pressed button does outside navigation is the other modules'.    *)
(***************************************************************************)
EXTENDS Integers, Sequences, FiniteSets

CONSTANT MaxStray   \* bound: buttons with an outdated position that the mouse is on at once

ASSUME MaxStrayAssumption == MaxStray \in Nat

VARIABLES
    scene,          \* currentScene
    disabled,       \* the tabs that are disabled
    lastClickState, \* the buttons whose lastClickState is true
    placed,         \* the buttons drawn since the window was last resized: the lastX, lastY
                    \* of the others are garbage, or where they were in the old window
    begun,          \* a frame has been drawn
    held,           \* the region where the last frame found the mouse button held down, or "up"
    fired           \* history: the placed buttons that reported a press since the mouse button
                    \* is held there, frame by frame

vars == <<scene, disabled, lastClickState, placed, begun, held, fired>>

Tabs == {"mainTab", "databaseTab", "bluetoothTab"}
Scenes == {"SCANNING", "DATABASE", "BLUETOOTH", "PONG"}

\* The buttons polled in each scene.
Polled ==
    [SCANNING |-> {"AmplifyBlue", "AmplifyRed"},
     DATABASE |-> {"rest", "DB", "tournamentSubmit", "scouterUpdate", "submit"},
     BLUETOOTH |-> {"disconnectAllTabs", "pong"},
     PONG |-> {"pongback", "pongreset"}]

Buttons == Tabs \cup UNION {Polled[c] : c \in Scenes}

\* The buttons at each region, in a window no smaller than the first one, 1280 by 720.
\* Two pairs share a corner: pongback lies inside disconnectAllTabs at the bottom right,
\* pong inside pongreset at the top right.  In a smaller window the buttons and gaps
\* that do not scale reach over others; its frames are covered by a Resize after each,
\* which leaves no button in a known place.
Layout ==
    [mainTab |-> {"mainTab"}, databaseTab |-> {"databaseTab"},
     bluetoothTab |-> {"bluetoothTab"},
     centerLeft |-> {"AmplifyBlue"}, centerRight |-> {"AmplifyRed"},
     topCenter |-> {"rest"}, bottomLeft |-> {"DB"}, teamList |-> {"submit"},
     tournament |-> {"tournamentSubmit"}, scouters |-> {"scouterUpdate"},
     bottomRight |-> {"disconnectAllTabs", "pongback"},
     nearBottomRight |-> {"disconnectAllTabs"},
     topRight |-> {"pong", "pongreset"}, nearTopRight |-> {"pongreset"},
     elsewhere |-> {}]

Regions == DOMAIN Layout

TabOf == [SCANNING |-> "mainTab", DATABASE |-> "databaseTab", BLUETOOTH |-> "bluetoothTab"]
SceneOf(tab) == CHOOSE c \in DOMAIN TabOf : TabOf[c] = tab

Init ==
    /\ scene = "SCANNING"
    /\ disabled = {"mainTab"}
    /\ lastClickState = {}
    /\ placed = {}
    /\ begun = FALSE
    /\ held = "up"
    /\ fired = <<>>

-----------------------------------------------------------------------------
\* isHovering and IsMouseButtonDown: m is where the mouse button is held and g the
\* buttons whose outdated position happens to be there.
Clicked(m, g) == IF m = "up" THEN {} ELSE (Layout[m] \cap placed) \cup g

\* isPressed, of the buttons bs that are polled and not disabled: those that
\* report a press, and all that remember one afterwards.
MutantPressed(bs, clicked) == bs \cap clicked
Pressed(bs, clicked) == (bs \cap clicked) \ lastClickState

MutantRemembered(bs, clicked) == lastClickState \cup (bs \cap clicked)
Remembered(bs, clicked) == (lastClickState \ bs) \cup (bs \cap clicked)

\* The else-if chain polls a tab only when none before it reported a press.
Chain == <<"mainTab", "databaseTab", "bluetoothTab">>
TabsPolled(clicked) ==
    {Chain[k] : k \in {k \in 1..3 :
        /\ Chain[k] \notin disabled
        /\ \A j \in 1..k - 1 : Chain[j] \in disabled \/ Pressed({Chain[j]}, clicked) = {}}}

\* The tab that reports a press, if any, and the scene that is polled then.
TabPressed(clicked) == Pressed(TabsPolled(clicked), clicked)
SceneAfter(tab) == IF tab = {} THEN scene ELSE SceneOf(CHOOSE t \in tab : TRUE)

\* Back enables the tabs again, but for that of the scene it leads to.
MutantBackTabs == {}
BackTabs == {"bluetoothTab"}

\* The loop's body; t and g are the tabs and the buttons with an outdated position
\* that the mouse is on.
Frame(m, t, g) ==
    LET clicked == Clicked(m, t \cup g)
        tab == TabPressed(clicked)
        scene1 == SceneAfter(tab)
        pressed == Pressed(Polled[scene1], clicked)
        seen == (tab \cup pressed) \cap placed
        before == IF m = held /\ m # "up" THEN fired ELSE <<>>
    IN  /\ g \subseteq Polled[scene1] \ placed
        /\ Cardinality(t \cup g) <= MaxStray
        /\ scene' = CASE "pong" \in pressed -> "PONG"
                      [] "pongback" \in pressed -> "BLUETOOTH"
                      [] OTHER -> scene1
        /\ disabled' = CASE "pongback" \in pressed -> BackTabs
                         [] scene1 = "PONG" /\ "pongback" \notin pressed -> Tabs
                         [] tab # {} -> tab
                         [] OTHER -> disabled
        /\ lastClickState' = Remembered(TabsPolled(clicked) \cup Polled[scene1], clicked)
        /\ placed' = placed \cup Polled[scene1] \cup (IF scene' # "PONG" THEN Tabs ELSE {})
        /\ begun' = TRUE
        /\ held' = m
        /\ fired' = IF seen = {} THEN before ELSE Append(before, seen)

\* The user resizes the window, or F11 does at the top of the loop: the layout is
\* another one, and the mouse is somewhere else in it.  The events that say so are
\* read at the end of a frame.
Resize ==
    /\ begun
    /\ placed' = {}
    /\ fired' = <<>>
    /\ UNCHANGED <<scene, disabled, lastClickState, begun, held>>

\* A tab has no size before it is drawn.
StrayTabs == IF begun THEN Tabs \ (disabled \cup placed) ELSE {}

Next ==
    \/ Frame("up", {}, {})
    \/ \E m \in Regions, t \in SUBSET StrayTabs :
         \E g \in SUBSET (Polled[SceneAfter(TabPressed(Clicked(m, t)))] \ placed) : Frame(m, t, g)
    \/ Resize

Spec == Init /\ [][Next]_vars

-----------------------------------------------------------------------------
(* Properties.                                                             *)

\* The tab that is disabled is the one of the scene shown, whatever way led
\* there, so that the other two scenes are a click away; only the pong scene
\* takes all tabs away, and it has its Back button.
TabsMatchScene ==
    /\ scene # "PONG" => disabled = {TabOf[scene]}
    /\ scene = "PONG" => disabled \in {{"bluetoothTab"}, Tabs}

\* A click with the mouse at rest, however many frames it lasts, is taken by one of the
\* buttons that are where they were last drawn, in a window that keeps its size meanwhile.  The exceptions among them are the two
\* corners that two scenes share: the click on Back is also taken by Reset Tabs, and the
\* one that opens pong by Reset.  The buttons that a resize has left behind, until
\* their scene is drawn again, may take it too, wherever it is.
OneActionPerClick ==
    \/ Len(fired) <= 1 /\ \A k \in 1..Len(fired) : \E b \in Buttons : fired[k] = {b}
    \/ fired = <<{"pongback"}, {"disconnectAllTabs"}>>
    \/ fired = <<{"pong"}, {"pongreset"}>>

Visible(b) ==
    \/ b \in Tabs \ disabled /\ scene # "PONG"
    \/ b \in Polled[scene]

\* No click is lost: a button that is on the screen, where it was last drawn, reports a
\* press in the frame in which the mouse button goes down on it, and no other such button
\* does, although it may last have been polled long ago and still remember a press.
FreshClickFires ==
    [][held = "up" /\ held' # "up" =>
          \A b \in placed \cap Layout[held'] : Visible(b) => fired' = <<{b}>>]_vars
=============================================================================
