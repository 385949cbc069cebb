------------------------------ MODULE UiProofs ------------------------------
(***************************************************************************)
(* Theorems about Ui.  A frame is taken apart once, in FrameParts; what    *)
(* the layout and the scenes say is stated as facts about their buttons.   *)
(***************************************************************************)
EXTENDS Ui, SequenceTheorems, TLAPS

UiType ==
    /\ scene \in Scenes
    /\ disabled \subseteq Tabs
    /\ held \in Regions \cup {"up"}

\* The scene that is polled when the mouse is held on the buttons clicked.
Scene1(clicked) == SceneAfter(TabPressed(clicked))

-----------------------------------------------------------------------------
(* Tabs, scenes and regions.                                               *)

\* The scene each tab leads to.
LEMMA SceneOfTab ==
    /\ SceneOf("mainTab") = "SCANNING"
    /\ SceneOf("databaseTab") = "DATABASE"
    /\ SceneOf("bluetoothTab") = "BLUETOOTH"
  BY DEF SceneOf, TabOf

\* No scene polls a tab, and which scenes poll the buttons that change it.
LEMMA PolledParts ==
    /\ \A c \in Scenes : Polled[c] \cap Tabs = {}
    /\ \A c \in Scenes : "pong" \in Polled[c] <=> c = "BLUETOOTH"
    /\ \A c \in Scenes : "pongback" \in Polled[c] <=> c = "PONG"
  BY DEF Polled, Scenes, Tabs

\* A region with a tab has no other button.
LEMMA TabRegion ==
    ASSUME NEW m \in Regions, NEW t \in Tabs, t \in Layout[m]
    PROVE  Layout[m] = {t}
  BY DEF Regions, Layout, Tabs

\* No region is called "up".
LEMMA UpNoRegion == "up" \notin Regions
  BY DEF Regions, Layout

\* What is under the mouse is a button.
LEMMA LayoutButtons == \A m \in Regions : Layout[m] \subseteq Buttons
  <1>1. UNION {Polled[c] : c \in Scenes} =
          Polled["SCANNING"] \cup Polled["DATABASE"] \cup Polled["BLUETOOTH"] \cup Polled["PONG"]
    BY DEF Scenes
  <1>2. Buttons = Tabs \cup {"AmplifyBlue", "AmplifyRed",
                   "rest", "DB", "tournamentSubmit", "scouterUpdate", "submit",
                   "disconnectAllTabs", "pong", "pongback", "pongreset"}
    BY <1>1 DEF Buttons, Polled
  <1> QED BY <1>2 DEF Regions, Layout, Tabs

\* At most one tab reports a press: the else-if chain stops there.
LEMMA OneTab ==
    ASSUME NEW clicked
    PROVE  \/ TabPressed(clicked) = {}
           \/ \E t \in Tabs : t \notin disabled /\ TabPressed(clicked) = {t}
  <1>1. TabPressed(clicked) \subseteq Tabs \ disabled
    BY DEF TabPressed, Pressed, TabsPolled, Chain, Tabs
  <1>2. ASSUME NEW s \in TabPressed(clicked), NEW t \in TabPressed(clicked) PROVE s = t
    <2>1. PICK j \in 1..3 : s = Chain[j] /\ Chain[j] \notin disabled
            /\ \A i \in 1..j - 1 : Chain[i] \in disabled \/ Pressed({Chain[i]}, clicked) = {}
      BY <1>2 DEF TabPressed, Pressed, TabsPolled
    <2>2. PICK k \in 1..3 : t = Chain[k] /\ Chain[k] \notin disabled
            /\ \A i \in 1..k - 1 : Chain[i] \in disabled \/ Pressed({Chain[i]}, clicked) = {}
      BY <1>2 DEF TabPressed, Pressed, TabsPolled
    <2>3. s \in Pressed({s}, clicked) /\ t \in Pressed({t}, clicked)
      BY <1>2 DEF TabPressed, Pressed
    <2>4. ~ (j < k) /\ ~ (k < j)
      BY <2>1, <2>2, <2>3
    <2> QED BY <2>1, <2>2, <2>4
  <1> QED BY <1>1, <1>2

\* The scene that is polled is the one shown or that of the tab pressed.
LEMMA Scene1Cases ==
    ASSUME UiType, NEW clicked
    PROVE  \/ TabPressed(clicked) = {} /\ Scene1(clicked) = scene
           \/ /\ Scene1(clicked) \in Scenes \ {"PONG"}
              /\ TabPressed(clicked) = {TabOf[Scene1(clicked)]}
              /\ TabOf[Scene1(clicked)] \in Tabs \ disabled
  <1>1. CASE TabPressed(clicked) = {}
    BY <1>1 DEF Scene1, SceneAfter
  <1>2. CASE TabPressed(clicked) # {}
    <2>1. PICK t \in Tabs : t \notin disabled /\ TabPressed(clicked) = {t}
      BY <1>2, OneTab
    <2>2. Scene1(clicked) = SceneOf(t)
      BY <1>2, <2>1 DEF Scene1, SceneAfter
    <2> QED BY <2>1, <2>2, SceneOfTab DEF Tabs, Scenes, TabOf
  <1> QED BY <1>1, <1>2

-----------------------------------------------------------------------------
(* A frame.                                                                *)

Hit(c, clicked) == Pressed(Polled[c], clicked)

\* Only the buttons of the scene polled report a press there.
LEMMA HitPolled ==
    ASSUME NEW c \in Scenes, NEW clicked
    PROVE  /\ Hit(c, clicked) \subseteq Polled[c] \cap clicked
           /\ "pong" \in Hit(c, clicked) => c = "BLUETOOTH"
           /\ "pongback" \in Hit(c, clicked) => c = "PONG"
  BY PolledParts DEF Hit, Pressed

\* The buttons that report a press from where they were last drawn.
Seen(clicked, c) == (TabPressed(clicked) \cup Hit(c, clicked)) \cap placed

\* A frame with the mouse button held at m, or up, in which the buttons clicked are held
\* and scene c is polled.
Framed(m, clicked, c) ==
    /\ c \in Scenes
    /\ c = Scene1(clicked)
    /\ m # "up" => \E s \in SUBSET (StrayTabs \cup Polled[c]) :
                     s \cap placed = {} /\ clicked = (Layout[m] \cap placed) \cup s
    /\ m = "up" => clicked = {}
    /\ scene' = IF "pong" \in Hit(c, clicked) THEN "PONG"
                ELSE IF "pongback" \in Hit(c, clicked) THEN "BLUETOOTH" ELSE c
    /\ disabled' = IF "pongback" \in Hit(c, clicked) THEN {"bluetoothTab"}
                   ELSE IF c = "PONG" THEN Tabs
                   ELSE IF TabPressed(clicked) # {} THEN TabPressed(clicked) ELSE disabled
    /\ lastClickState' = Remembered(TabsPolled(clicked) \cup Polled[c], clicked)
    /\ placed' = placed \cup Polled[c] \cup (IF scene' # "PONG" THEN Tabs ELSE {})
    /\ held' = m
    /\ LET seen == Seen(clicked, c)
           before == IF m = held /\ m # "up" THEN fired ELSE <<>>
       IN  fired' = IF seen = {} THEN before ELSE Append(before, seen)

\* A frame consists of the parts named above.
LEMMA FrameIsFramed ==
    ASSUME UiType, NEW m \in Regions \cup {"up"}, NEW t \in SUBSET StrayTabs, NEW g, Frame(m, t, g),
           NEW clicked, clicked = Clicked(m, t \cup g), NEW c, c = Scene1(clicked)
    PROVE  Framed(m, clicked, c)
  <1>1. c \in Scenes
    BY Scene1Cases DEF UiType
  <1>2. g \subseteq Polled[c] \ placed
    BY DEF Frame, Scene1
  <1>s. StrayTabs \cap placed = {}
    BY DEF StrayTabs
  <1>3. /\ m # "up" => \E s \in SUBSET (StrayTabs \cup Polled[c]) :
                         s \cap placed = {} /\ clicked = (Layout[m] \cap placed) \cup s
        /\ m = "up" => clicked = {}
    <2>1. t \cup g \in SUBSET (StrayTabs \cup Polled[c]) /\ (t \cup g) \cap placed = {}
      BY <1>2, <1>s
    <2> QED BY <2>1 DEF Clicked
  <1>h. /\ "pong" \in Hit(c, clicked) => c = "BLUETOOTH"
        /\ "pongback" \in Hit(c, clicked) => c = "PONG"
        /\ c = "PONG" => TabPressed(clicked) = {}
    BY <1>1, HitPolled, Scene1Cases
  <1>4. scene' = IF "pong" \in Hit(c, clicked) THEN "PONG"
                 ELSE IF "pongback" \in Hit(c, clicked) THEN "BLUETOOTH" ELSE c
    <2>1. scene' = CASE "pong" \in Hit(c, clicked) -> "PONG"
                     [] "pongback" \in Hit(c, clicked) -> "BLUETOOTH"
                     [] OTHER -> c
      BY DEF Frame, Scene1, Hit
    <2> QED BY <1>h, <2>1
  <1>5. disabled' = IF "pongback" \in Hit(c, clicked) THEN {"bluetoothTab"}
                    ELSE IF c = "PONG" THEN Tabs
                    ELSE IF TabPressed(clicked) # {} THEN TabPressed(clicked) ELSE disabled
    <2>1. disabled' = CASE "pongback" \in Hit(c, clicked) -> {"bluetoothTab"}
                        [] c = "PONG" /\ "pongback" \notin Hit(c, clicked) -> Tabs
                        [] TabPressed(clicked) # {} -> TabPressed(clicked)
                        [] OTHER -> disabled
      BY DEF Frame, Scene1, Hit, BackTabs
    <2> QED BY <1>h, <2>1
  <1>6. /\ lastClickState' = Remembered(TabsPolled(clicked) \cup Polled[c], clicked)
        /\ placed' = placed \cup Polled[c] \cup (IF scene' # "PONG" THEN Tabs ELSE {})
        /\ held' = m
    BY DEF Frame, Scene1
  <1>7. LET seen == Seen(clicked, c)
            before == IF m = held /\ m # "up" THEN fired ELSE <<>>
        IN  fired' = IF seen = {} THEN before ELSE Append(before, seen)
    BY DEF Frame, Scene1, Hit, Seen
  <1> QED BY <1>1, <1>3, <1>4, <1>5, <1>6, <1>7 DEF Framed

\* Every step is a frame or a resizing of the window.
LEMMA FrameParts ==
    ASSUME UiType, Next, ~Resize
    PROVE  \E m \in Regions \cup {"up"}, clicked \in SUBSET Buttons, c \in Scenes :
             Framed(m, clicked, c)
  <1>0. PICK m \in Regions \cup {"up"}, t \in SUBSET StrayTabs : \E g : Frame(m, t, g)
    BY DEF Next
  <1>1. PICK g : Frame(m, t, g)
    BY <1>0
  <1>2. Framed(m, Clicked(m, t \cup g), Scene1(Clicked(m, t \cup g)))
    BY <1>1, FrameIsFramed
  <1>3. Scene1(Clicked(m, t \cup g)) \in Scenes
    BY <1>2 DEF Framed
  <1>4. Clicked(m, t \cup g) \in SUBSET Buttons
    <2>1. g \subseteq Polled[Scene1(Clicked(m, t \cup g))]
      BY <1>1 DEF Frame, Scene1
    <2>2. t \subseteq Buttons /\ g \subseteq Buttons
      BY <1>3, <2>1 DEF Buttons, StrayTabs
    <2>3. m # "up" => Layout[m] \subseteq Buttons
      BY LayoutButtons
    <2> QED BY <2>2, <2>3 DEF Clicked
  <1> QED BY <1>2, <1>3, <1>4

\* Every frame keeps the types.
LEMMA StepType == UiType /\ [Next]_vars => UiType'
  <1> SUFFICES ASSUME UiType, [Next]_vars PROVE UiType'
    OBVIOUS
  <1>1. CASE UNCHANGED vars
    BY <1>1 DEF vars, UiType
  <1>r. CASE Resize
    BY <1>r DEF Resize, UiType
  <1>2. CASE Next /\ ~Resize
    <2>1. PICK m \in Regions \cup {"up"}, clicked \in SUBSET Buttons, c \in Scenes :
            Framed(m, clicked, c)
      BY <1>2, FrameParts
    <2>2. held' = m /\ scene' \in Scenes
      BY <2>1 DEF Framed, Scenes
    <2>3. TabPressed(clicked) \subseteq Tabs
      BY OneTab
    <2>4. disabled' \in {{"bluetoothTab"}, Tabs, TabPressed(clicked), disabled}
      BY <2>1 DEF Framed
    <2>5. disabled' \subseteq Tabs
      BY <2>3, <2>4 DEF UiType, Tabs
    <2> QED BY <2>2, <2>5 DEF UiType
  <1> QED BY <1>1, <1>r, <1>2

-----------------------------------------------------------------------------
(* The tabs and the scene.                                                 *)

\* At the start the first scene's tab is disabled.
LEMMA InitTabs == Init => UiType /\ TabsMatchScene
  <1> SUFFICES ASSUME Init PROVE UiType /\ TabsMatchScene
    OBVIOUS
  <1>1. scene \in Scenes /\ disabled \subseteq Tabs
    BY DEF Init, Scenes, Tabs
  <1>2. held \in Regions \cup {"up"}
    BY DEF Init
  <1>3. TabsMatchScene
    BY DEF Init, TabsMatchScene, TabOf
  <1> QED BY <1>1, <1>2, <1>3 DEF UiType

\* Every frame keeps tabs and scene in agreement.
LEMMA StepTabs == UiType /\ TabsMatchScene /\ [Next]_vars => TabsMatchScene'
  <1> SUFFICES ASSUME UiType, TabsMatchScene, [Next]_vars PROVE TabsMatchScene'
    OBVIOUS
  <1>1. CASE UNCHANGED vars
    BY <1>1 DEF vars, TabsMatchScene
  <1>r. CASE Resize
    BY <1>r DEF Resize, TabsMatchScene
  <1>2. CASE Next /\ ~Resize
    <2>1. PICK m \in Regions \cup {"up"}, clicked \in SUBSET Buttons, c \in Scenes :
            Framed(m, clicked, c)
      BY <1>2, FrameParts
    <2>3. c = Scene1(clicked)
      BY <2>1 DEF Framed
    <2>4. /\ c \in Scenes
          /\ scene' = IF "pong" \in Hit(c, clicked) THEN "PONG"
                      ELSE IF "pongback" \in Hit(c, clicked) THEN "BLUETOOTH" ELSE c
          /\ disabled' = IF "pongback" \in Hit(c, clicked) THEN {"bluetoothTab"}
                         ELSE IF c = "PONG" THEN Tabs
                         ELSE IF TabPressed(clicked) # {} THEN TabPressed(clicked) ELSE disabled
      BY <2>1 DEF Framed
    <2>5. CASE c = "PONG"
      BY <2>4, <2>5, HitPolled DEF TabsMatchScene, TabOf
    <2>6. CASE c # "PONG"
      <3>1. ~ ("pongback" \in Hit(c, clicked))
        BY <2>4, <2>6, HitPolled
      <3>2. disabled' = {TabOf[c]}
        BY <2>3, <2>4, <2>6, <3>1, Scene1Cases DEF TabsMatchScene
      <3>3. CASE "pong" \in Hit(c, clicked)
        <4>1. c = "BLUETOOTH" /\ scene' = "PONG"
          BY <2>4, <3>3, HitPolled
        <4> QED BY <3>2, <4>1 DEF TabsMatchScene, TabOf
      <3>4. CASE ~ ("pong" \in Hit(c, clicked))
        BY <2>4, <2>6, <3>1, <3>2, <3>4 DEF TabsMatchScene
      <3> QED BY <3>3, <3>4
    <2> QED BY <2>5, <2>6
  <1> QED BY <1>1, <1>r, <1>2

\* Whatever the user does, the tab of the scene shown is the one that is disabled,
\* and the other scenes stay within reach.
THEOREM TabsAndScene == Spec => []TabsMatchScene
  BY InitTabs, StepType, StepTabs, PTL DEF Spec

-----------------------------------------------------------------------------
(* A press is forgotten while the mouse button is up.                      *)

\* With the mouse button up no button on the screen remembers a press: those that
\* became visible during the click that led here have been polled since it ended.
NoneRemembered == held = "up" => \A b \in Buttons : Visible(b) => b \notin lastClickState

\* An enabled tab that alone is clicked is polled.
LEMMA TabPolled ==
    ASSUME NEW t \in Tabs, t \notin disabled, NEW clicked, clicked \cap Tabs \subseteq {t}
    PROVE  t \in TabsPolled(clicked)
  <1>1. PICK k \in 1..3 : t = Chain[k]
    BY DEF Tabs, Chain
  <1>2. \A j \in 1..3 : Chain[j] \in Tabs /\ (j # k => Chain[j] # t)
    BY <1>1 DEF Tabs, Chain
  <1>3. \A j \in 1..k - 1 : Pressed({Chain[j]}, clicked) = {}
    <2> SUFFICES ASSUME NEW j \in 1..k - 1 PROVE Pressed({Chain[j]}, clicked) = {}
      OBVIOUS
    <2>1. j \in 1..3 /\ j # k
      OBVIOUS
    <2>2. Chain[j] \notin clicked
      BY <1>2, <2>1
    <2> QED BY <2>2 DEF Pressed
  <1> QED BY <1>1, <1>3 DEF TabsPolled

\* A frame with the mouse up leaves no click remembered by a visible button.
LEMMA StepRemembered ==
    ASSUME UiType, UiType', NoneRemembered, [Next]_vars
    PROVE  NoneRemembered'
  <1>1. CASE UNCHANGED vars
    BY <1>1 DEF vars, NoneRemembered, Visible
  <1>r. CASE Resize
    BY <1>r DEF Resize, NoneRemembered, Visible
  <1>2. CASE Next /\ ~Resize
    <2>1. PICK m \in Regions \cup {"up"}, clicked \in SUBSET Buttons, c \in Scenes :
            Framed(m, clicked, c)
      BY <1>2, FrameParts
    <2>2. CASE m # "up"
      BY <2>1, <2>2 DEF Framed, NoneRemembered
    <2>3. CASE m = "up"
      <3>1. clicked = {}
        BY <2>1, <2>3 DEF Framed
      <3>2. TabPressed(clicked) = {} /\ Hit(c, clicked) = {}
        BY <3>1 DEF TabPressed, Hit, Pressed
      <3>3. c = scene /\ scene' = scene
        BY <2>1, <3>2 DEF Framed, Scene1, SceneAfter
      <3>4. scene # "PONG" => disabled' = disabled
        BY <2>1, <3>2, <3>3 DEF Framed
      <3>5. \A t \in Tabs : t \notin disabled => t \in TabsPolled(clicked)
        BY <3>1, TabPolled
      <3>6. \A b \in TabsPolled(clicked) \cup Polled[scene] : b \notin lastClickState'
        BY <2>1, <3>1, <3>3 DEF Framed, Remembered
      <3> QED BY <3>3, <3>4, <3>5, <3>6 DEF NoneRemembered, Visible
    <2> QED BY <2>2, <2>3
  <1> QED BY <1>1, <1>r, <1>2

-----------------------------------------------------------------------------
(* One action per click.                                                   *)

\* The buttons of a scene are placed together.
PlacedByScene == \A c \in Scenes : Polled[c] \cap placed # {} => Polled[c] \subseteq placed

\* Where a tab that is enabled is: known, unless nothing is known, or pong was opened from
\* an outdated place, before the first frame of which the tabs are polled once more.
TabsPlaced ==
    /\ placed = {} => fired = <<>>
    /\ \/ placed = {} \/ Tabs \subseteq placed \/ disabled = Tabs
       \/ placed = Polled["BLUETOOTH"] /\ scene = "PONG" /\ fired = <<>>

\* What a click has fired so far, and that it cannot fire again: the buttons under
\* the mouse remember it, and of the two corners with two buttons the scene shown
\* is the one in which the other button of the pair is not polled, or both have fired.
Corner(m, b1, b2) ==
    /\ held = m
    /\ {b1, b2} \subseteq placed \cap lastClickState
    /\ fired = <<{b1}, {b2}>>

FiredInv ==
    \/ fired = <<>>
    \/ held # "up" /\ \E b \in Layout[held] :
          /\ b \in placed /\ b \in lastClickState
          /\ fired = <<{b}>>
          /\ b = "disconnectAllTabs" => scene = "BLUETOOTH"
          /\ b = "pongreset" => scene = "PONG"
    \/ Corner("bottomRight", "pongback", "disconnectAllTabs")
    \/ Corner("topRight", "pong", "pongreset")

\* Scenes have no button in common.
LEMMA PolledApart ==
    /\ \A c, e \in Scenes : c # e => Polled[c] \cap Polled[e] = {}
    /\ \A c \in Scenes : "disconnectAllTabs" \in Polled[c] <=> c = "BLUETOOTH"
    /\ \A c \in Scenes : "pongreset" \in Polled[c] <=> c = "PONG"
  BY DEF Polled, Scenes

\* A region has one button, or it is one of the two corners.
LEMMA RegionButtons ==
    ASSUME NEW m \in Regions
    PROVE  \/ \A b, e \in Layout[m] : b = e
           \/ m = "bottomRight" /\ Layout[m] = {"disconnectAllTabs", "pongback"}
           \/ m = "topRight" /\ Layout[m] = {"pong", "pongreset"}
  BY DEF Regions, Layout

\* No region has the button that leaves a scene beside the ones below.
LEMMA RegionApart ==
    ASSUME NEW m \in Regions
    PROVE  /\ "disconnectAllTabs" \in Layout[m] => "pong" \notin Layout[m]
           /\ "pongreset" \in Layout[m] => "pongback" \notin Layout[m]
  BY DEF Regions, Layout

\* A frame draws all buttons of its scene.
LEMMA StepPlaced ==
    ASSUME UiType, PlacedByScene, [Next]_vars
    PROVE  PlacedByScene'
  <1>1. CASE UNCHANGED vars
    BY <1>1 DEF vars, PlacedByScene
  <1>r. CASE Resize
    BY <1>r DEF Resize, PlacedByScene
  <1>2. CASE Next /\ ~Resize
    <2>1. PICK m \in Regions \cup {"up"}, clicked \in SUBSET Buttons, c \in Scenes :
            Framed(m, clicked, c)
      BY <1>2, FrameParts
    <2>2. placed' \subseteq placed \cup Polled[c] \cup Tabs /\ placed \cup Polled[c] \subseteq placed'
      BY <2>1 DEF Framed
    <2> SUFFICES ASSUME NEW e \in Scenes, Polled[e] \cap placed' # {}
                 PROVE  Polled[e] \subseteq placed'
      BY DEF PlacedByScene
    <2>3. CASE e = c
      BY <2>2, <2>3
    <2>4. CASE e # c
      <3>1. Polled[e] \cap placed # {}
        BY <2>2, <2>4, PolledApart, PolledParts
      <3> QED BY <2>2, <3>1 DEF PlacedByScene
    <2> QED BY <2>3, <2>4
  <1> QED BY <1>1, <1>r, <1>2

\* A frame in pong leaves the tabs disabled, and one in another scene draws them, unless
\* it opens pong.
LEMMA StepTabsPlaced ==
    ASSUME UiType, TabsMatchScene, TabsPlaced, [Next]_vars
    PROVE  TabsPlaced'
  <1>1. CASE UNCHANGED vars
    BY <1>1 DEF vars, TabsPlaced
  <1>r. CASE Resize
    BY <1>r DEF Resize, TabsPlaced
  <1>2. CASE Next /\ ~Resize
    <2>1. PICK m \in Regions \cup {"up"}, clicked \in SUBSET Buttons, c \in Scenes :
            Framed(m, clicked, c)
      BY <1>2, FrameParts
    <2>2. placed' = placed \cup Polled[c] \cup (IF scene' # "PONG" THEN Tabs ELSE {})
      BY <2>1 DEF Framed
    <2>3. Polled[c] # {}
      BY DEF Polled, Scenes
    <2>4. placed' # {}
      BY <2>2, <2>3
    <2>5. CASE scene' # "PONG"
      BY <2>2, <2>4, <2>5 DEF TabsPlaced
    <2>6. CASE scene' = "PONG"
      <3>1. CASE c = "PONG"
        <4>1. disabled' = Tabs
          BY <2>1, <2>6, <3>1, HitPolled DEF Framed
        <4> QED BY <2>4, <4>1 DEF TabsPlaced
      <3>2. CASE c # "PONG"
        <4>1. c = "BLUETOOTH"
          BY <2>1, <2>6, <3>2, HitPolled DEF Framed
        <4>2. disabled # Tabs
          <5> SUFFICES ASSUME disabled = Tabs PROVE FALSE
            OBVIOUS
          <5>1. scene = "BLUETOOTH"
            BY <2>1, <4>1, Scene1Cases DEF Framed
          <5> QED BY <5>1 DEF TabsMatchScene, TabOf, Tabs
        <4>3. scene # "PONG"
          <5> SUFFICES ASSUME scene = "PONG" PROVE FALSE
            OBVIOUS
          <5>0. Scene1(clicked) = "BLUETOOTH"
            BY <2>1, <4>1 DEF Framed
          <5>2. TabOf["BLUETOOTH"] = "bluetoothTab"
            BY DEF TabOf
          <5>1. "bluetoothTab" \notin disabled
            BY <5>0, <5>2, Scene1Cases
          <5> QED BY <5>1 DEF TabsMatchScene, Tabs
        <4>4. CASE Tabs \subseteq placed
          BY <2>2, <2>4, <4>4 DEF TabsPlaced
        <4>5. CASE placed = {}
          <5>1. placed' = Polled["BLUETOOTH"]
            BY <2>2, <2>6, <4>1, <4>5
          <5>2. Seen(clicked, c) = {} /\ fired = <<>>
            BY <4>5 DEF Seen, TabsPlaced
          <5>3. fired' = <<>>
            BY <2>1, <5>2 DEF Framed
          <5> QED BY <2>4, <2>6, <5>1, <5>3 DEF TabsPlaced
        <4> QED BY <4>2, <4>3, <4>4, <4>5 DEF TabsPlaced
      <3> QED BY <3>1, <3>2
    <2> QED BY <2>5, <2>6
  <1> QED BY <1>1, <1>r, <1>2

\* No tab with an outdated place is polled in a frame that a button of the scene has
\* a known place in.
LEMMA NoStrayTab ==
    ASSUME TabsPlaced, placed # {},
           fired # <<>> \/ scene # "PONG" \/ placed # Polled["BLUETOOTH"]
    PROVE  StrayTabs = {}
  BY DEF TabsPlaced, StrayTabs

\* What a frame with the mouse button down fires among the buttons that are placed, and
\* what it makes them remember.
LEMMA FiredNow ==
    ASSUME UiType, NEW m \in Regions, NEW clicked, NEW c \in Scenes,
           Framed(m, clicked, c)
    PROVE  /\ Seen(clicked, c) \subseteq (Layout[m] \cap placed) \ lastClickState
           /\ Seen(clicked, c) \subseteq Tabs \cup Polled[c]
           /\ Layout[m] \cap placed \cap (lastClickState \cup Seen(clicked, c)) \subseteq lastClickState'
           /\ placed \subseteq placed'
           /\ StrayTabs = {} => \A b \in Layout[m] : b \notin Tabs => c = scene
  <1>1. PICK g \in SUBSET (StrayTabs \cup Polled[c]) :
          g \cap placed = {} /\ clicked = (Layout[m] \cap placed) \cup g
    BY UpNoRegion DEF Framed
  <1>2. Seen(clicked, c) = (TabPressed(clicked) \cup Hit(c, clicked)) \cap placed
    BY DEF Seen
  <1>3. TabPressed(clicked) \subseteq (clicked \cap TabsPolled(clicked)) \ lastClickState
    BY DEF TabPressed, Pressed
  <1>4. Hit(c, clicked) \subseteq (clicked \cap Polled[c]) \ lastClickState
    BY DEF Hit, Pressed
  <1>5. TabPressed(clicked) \subseteq Tabs
    BY OneTab
  <1>6. lastClickState' = (lastClickState \ (TabsPolled(clicked) \cup Polled[c]))
                            \cup ((TabsPolled(clicked) \cup Polled[c]) \cap clicked)
    BY DEF Framed, Remembered
  <1>7. Layout[m] \cap placed \cap (lastClickState \cup Seen(clicked, c)) \subseteq lastClickState'
    BY <1>1, <1>2, <1>3, <1>4, <1>6
  <1>8. placed \subseteq placed'
    BY DEF Framed
  <1>9. ASSUME StrayTabs = {}, NEW b \in Layout[m], b \notin Tabs PROVE c = scene
    <2>1. clicked \cap Tabs = {}
      BY <1>1, <1>9, TabRegion, PolledParts
    <2>2. TabPressed(clicked) = {}
      BY <1>3, <1>5, <2>1
    <2> QED BY <2>2 DEF Framed, Scene1, SceneAfter
  <1> QED BY <1>1, <1>2, <1>3, <1>4, <1>5, <1>7, <1>8, <1>9

\* At most one button that is placed fires in a frame.
LEMMA OneNow ==
    ASSUME UiType, NEW m \in Regions, NEW clicked, NEW c \in Scenes,
           Framed(m, clicked, c),
           NEW b \in Seen(clicked, c), NEW e \in Seen(clicked, c)
    PROVE  b = e
  <1>1. {b, e} \subseteq Layout[m] \cap (Tabs \cup Polled[c])
    BY FiredNow
  <1>2. CASE \A x, y \in Layout[m] : x = y
    BY <1>1, <1>2
  <1>3. CASE Layout[m] = {"disconnectAllTabs", "pongback"}
    BY <1>1, <1>3, PolledApart, PolledParts DEF Tabs
  <1>4. CASE Layout[m] = {"pong", "pongreset"}
    BY <1>1, <1>4, PolledApart, PolledParts DEF Tabs
  <1> QED BY <1>2, <1>3, <1>4, RegionButtons

\* With the mouse on a button of the Bluetooth scene or of pong that does not lead away,
\* the scene polled is also the one shown next.
LEMMA SceneStays ==
    ASSUME UiType, PlacedByScene, NEW m \in Regions, NEW clicked, NEW c \in Scenes,
           Framed(m, clicked, c)
    PROVE  /\ "disconnectAllTabs" \in Layout[m] \cap placed /\ c = "BLUETOOTH"
                => scene' = "BLUETOOTH"
           /\ "pongreset" \in Layout[m] \cap placed /\ c = "PONG" => scene' = "PONG"
  <1>1. PICK g \in SUBSET (StrayTabs \cup Polled[c]) :
          g \cap placed = {} /\ clicked = (Layout[m] \cap placed) \cup g
    BY UpNoRegion DEF Framed
  <1>2. ASSUME "disconnectAllTabs" \in Layout[m] \cap placed, c = "BLUETOOTH"
        PROVE  scene' = "BLUETOOTH"
    <2>1. "pong" \in placed
      BY <1>2, PolledParts, PolledApart DEF PlacedByScene
    <2>2. "pong" \notin clicked
      BY <1>1, <1>2, <2>1, RegionApart
    <2> QED BY <1>2, <2>2, HitPolled DEF Framed
  <1>3. ASSUME "pongreset" \in Layout[m] \cap placed, c = "PONG"
        PROVE  scene' = "PONG"
    <2>1. "pongback" \in placed
      BY <1>3, PolledParts, PolledApart DEF PlacedByScene
    <2>2. "pongback" \notin clicked
      BY <1>1, <1>3, <2>1, RegionApart
    <2> QED BY <1>3, <2>2, HitPolled DEF Framed
  <1> QED BY <1>2, <1>3

\* Append to an empty and to a single-element sequence.
LEMMA AppendShort ==
    ASSUME NEW x, NEW y
    PROVE  Append(<<>>, x) = <<x>> /\ Append(<<y>>, x) = <<y, x>>
  <1> DEFINE S == {x, y}
  <1>1. <<>> \in Seq(S) /\ <<y>> \in Seq(S)
    OBVIOUS
  <1>2. Append(<<>>, x) = <<x>>
    BY <1>1, AppendProperties
  <1>3. Append(<<y>>, x) = <<y, x>>
    <2>1. Append(<<y>>, x) \in Seq(S) /\ <<y, x>> \in Seq(S)
      BY <1>1, AppendProperties
    <2>2. Len(Append(<<y>>, x)) = 2 /\ Append(<<y>>, x)[1] = y /\ Append(<<y>>, x)[2] = x
      BY <1>1, AppendProperties
    <2>3. Len(<<y, x>>) = 2 /\ <<y, x>>[1] = y /\ <<y, x>>[2] = x
      OBVIOUS
    <2>4. \A i \in 1..2 : Append(<<y>>, x)[i] = <<y, x>>[i]
      BY <2>2, <2>3
    <2> QED BY <2>1, <2>2, <2>3, <2>4, SeqEqual
  <1> QED BY <1>2, <1>3

\* Every frame keeps what is known of the buttons that fired during a click.
LEMMA StepFired ==
    ASSUME UiType, PlacedByScene, TabsPlaced, FiredInv, [Next]_vars
    PROVE  FiredInv'
  <1>1. CASE UNCHANGED vars
    BY <1>1 DEF vars, FiredInv, Corner
  <1>r. CASE Resize
    BY <1>r DEF Resize, FiredInv
  <1>2. CASE Next /\ ~Resize
    <2>1. PICK m \in Regions \cup {"up"}, clicked \in SUBSET Buttons, c \in Scenes :
            Framed(m, clicked, c)
      BY <1>2, FrameParts
    <2>2. CASE m = "up"
      <3>1. TabPressed(clicked) = {} /\ Hit(c, clicked) = {}
        BY <2>1, <2>2 DEF Framed, TabPressed, Hit, Pressed
      <3>2. fired' = <<>>
        BY <2>1, <2>2, <3>1 DEF Framed, Seen
      <3> QED BY <3>2 DEF FiredInv
    <2>3. CASE m # "up"
      <3>0. Framed(m, clicked, c) /\ held' = m /\ m \in Regions
        BY <2>1, <2>3 DEF Framed
      <3> DEFINE seen == Seen(clicked, c)
                 before == IF m = held THEN fired ELSE <<>>
      <3>1. fired' = IF seen = {} THEN before ELSE Append(before, seen)
        BY <2>3, <3>0 DEF Framed
      <3>2. /\ seen \subseteq (Layout[m] \cap placed) \ lastClickState
            /\ seen \subseteq Tabs \cup Polled[c]
            /\ Layout[m] \cap placed \cap (lastClickState \cup seen) \subseteq lastClickState'
            /\ placed \subseteq placed'
        BY <3>0, FiredNow
      <3>c. ASSUME before # <<>> PROVE \A b \in Layout[m] : b \notin Tabs => c = scene
        <4>1. fired # <<>> /\ placed # {}
          BY <3>c DEF TabsPlaced
        <4>2. StrayTabs = {}
          BY <4>1, NoStrayTab
        <4> QED BY <3>0, <4>2, FiredNow
      <3>3. seen = {} \/ \E b \in seen : seen = {b}
        BY <3>0, OneNow
      <3>4. CASE before = <<>>
        <4>1. CASE seen = {}
          BY <3>1, <3>4, <4>1 DEF FiredInv
        <4>2. CASE seen # {}
          <5>1. PICK b \in seen : seen = {b}
            BY <3>3, <4>2
          <5>2. fired' = <<{b}>>
            <6>1. fired' = Append(<<>>, {b})
              BY <3>1, <3>4, <4>2, <5>1
            <6> QED BY <6>1, AppendShort
          <5>3. b \in Layout[m] /\ b \in placed /\ b \in placed' /\ b \in lastClickState'
            BY <3>2, <5>1
          <5>4. b = "disconnectAllTabs" => scene' = "BLUETOOTH"
            BY <3>0, <3>2, <5>1, <5>3, SceneStays, PolledApart DEF Tabs
          <5>5. b = "pongreset" => scene' = "PONG"
            BY <3>0, <3>2, <5>1, <5>3, SceneStays, PolledApart DEF Tabs
          <5> QED BY <2>3, <3>0, <5>2, <5>3, <5>4, <5>5 DEF FiredInv
        <4> QED BY <4>1, <4>2
      <3>5. CASE before # <<>>
        <4>1. m = held /\ before = fired
          BY <3>5
        <4>2. ASSUME NEW b \in Layout[held], b \in placed, b \in lastClickState,
                     fired = <<{b}>>,
                     b = "disconnectAllTabs" => scene = "BLUETOOTH",
                     b = "pongreset" => scene = "PONG"
              PROVE  FiredInv'
          <5>1. b \in placed' /\ b \in lastClickState' /\ b \notin seen
            BY <3>2, <4>1, <4>2
          <5>2. CASE seen = {}
            <6>1. fired' = <<{b}>>
              BY <3>1, <4>1, <4>2, <5>2
            <6>2. b = "disconnectAllTabs" => scene' = "BLUETOOTH"
              BY <3>0, <3>5, <3>c, <4>1, <4>2, SceneStays DEF Tabs
            <6>3. b = "pongreset" => scene' = "PONG"
              BY <3>0, <3>5, <3>c, <4>1, <4>2, SceneStays DEF Tabs
            <6> QED BY <2>3, <3>0, <4>1, <4>2, <5>1, <6>1, <6>2, <6>3 DEF FiredInv
          <5>3. CASE seen # {}
            <6>1. PICK e \in seen : seen = {e}
              BY <3>3, <5>3
            <6>2. e \in Layout[m] /\ e \in placed' /\ e \in lastClickState' /\ e # b
              BY <3>2, <5>1, <6>1
            <6>3. fired' = <<{b}, {e}>>
              <7>1. fired' = Append(<<{b}>>, {e})
                BY <3>1, <4>1, <4>2, <5>3, <6>1
              <7> QED BY <7>1, AppendShort
            <6>4. e \notin Tabs => (e \in Polled[scene] /\ c = scene)
              BY <3>2, <3>5, <3>c, <6>1, <6>2
            <6>5. CASE m = "bottomRight" /\ Layout[m] = {"disconnectAllTabs", "pongback"}
              <7>1. b = "pongback" /\ e = "disconnectAllTabs"
                BY <4>1, <4>2, <6>2, <6>4, <6>5, PolledParts DEF Tabs, Scenes
              <7> QED BY <3>0, <5>1, <6>2, <6>3, <6>5, <7>1 DEF FiredInv, Corner
            <6>6. CASE m = "topRight" /\ Layout[m] = {"pong", "pongreset"}
              <7>1. b = "pong" /\ e = "pongreset"
                BY <4>1, <4>2, <6>2, <6>4, <6>6, PolledParts DEF Tabs, Scenes
              <7> QED BY <3>0, <5>1, <6>2, <6>3, <6>6, <7>1 DEF FiredInv, Corner
            <6> QED BY <3>0, <4>1, <4>2, <6>2, <6>5, <6>6, RegionButtons
          <5> QED BY <5>2, <5>3
        <4>3. ASSUME NEW b1, NEW b2, Corner(m, b1, b2), Layout[m] = {b1, b2}
              PROVE  Corner(m, b1, b2)'
          <5>1. seen = {}
            BY <3>2, <4>3 DEF Corner
          <5>2. fired' = fired
            BY <3>1, <4>1, <5>1
          <5>3. {b1, b2} \subseteq placed' \cap lastClickState'
            BY <3>2, <4>3 DEF Corner
          <5> QED BY <3>0, <4>3, <5>2, <5>3 DEF Corner
        <4>4. CASE Corner("bottomRight", "pongback", "disconnectAllTabs")
          <5>1. m = "bottomRight" /\ Layout[m] = {"pongback", "disconnectAllTabs"}
            BY <4>1, <4>4 DEF Corner, Layout
          <5> QED BY <4>3, <4>4, <5>1 DEF FiredInv
        <4>5. CASE Corner("topRight", "pong", "pongreset")
          <5>1. m = "topRight" /\ Layout[m] = {"pong", "pongreset"}
            BY <4>1, <4>5 DEF Corner, Layout
          <5> QED BY <4>3, <4>5, <5>1 DEF FiredInv
        <4> QED BY <3>5, <4>1, <4>2, <4>4, <4>5 DEF FiredInv
      <3> QED BY <3>4, <3>5
    <2> QED BY <2>2, <2>3
  <1> QED BY <1>1, <1>r, <1>2

\* What holds at the start.
LEMMA InitUi == Init => UiType /\ TabsMatchScene /\ PlacedByScene /\ TabsPlaced /\ FiredInv
  BY InitTabs DEF Init, PlacedByScene, TabsPlaced, FiredInv

\* A click with the mouse at rest, in a window that keeps its size, is taken by one of the
\* buttons that are where they were last drawn, but for the two corners that two scenes
\* share: however many frames it lasts, whatever was resized before and whatever
\* the buttons do that a resize has left behind.
THEOREM OneAction == Spec => []OneActionPerClick
  <1>1. UiType /\ FiredInv => OneActionPerClick
    <2> SUFFICES ASSUME UiType, FiredInv PROVE OneActionPerClick
      OBVIOUS
    <2>1. CASE fired = <<>>
      BY <2>1 DEF OneActionPerClick
    <2>2. ASSUME held # "up", NEW b \in Layout[held], fired = <<{b}>> PROVE OneActionPerClick
      <3>1. b \in Buttons
        BY <2>2, LayoutButtons DEF UiType
      <3> QED BY <2>2, <3>1 DEF OneActionPerClick
    <2> QED BY <2>1, <2>2 DEF FiredInv, Corner, OneActionPerClick
  <1> QED BY <1>1, InitUi, StepType, StepTabs, StepPlaced, StepTabsPlaced, StepFired, PTL DEF Spec

\* No click is lost: a button on the screen that is where it was last drawn reports a
\* press, alone among such buttons, in the frame in which the mouse button goes down on it.
THEOREM ClickNotLost == Spec => FreshClickFires
  <1>1. Init => NoneRemembered
    BY DEF Init, NoneRemembered
  <1>2. UiType /\ TabsPlaced /\ NoneRemembered /\ [Next]_vars =>
          [held = "up" /\ held' # "up" =>
             \A b \in placed \cap Layout[held'] : Visible(b) => fired' = <<{b}>>]_vars
    <2> SUFFICES ASSUME UiType, TabsPlaced, NoneRemembered, Next, held = "up", held' # "up",
                        NEW b \in placed \cap Layout[held'], Visible(b)
                 PROVE  fired' = <<{b}>>
      OBVIOUS
    <2>0. ~Resize
      BY DEF Resize
    <2>1. PICK m \in Regions \cup {"up"}, clicked \in SUBSET Buttons, c \in Scenes :
            Framed(m, clicked, c)
      BY <2>0, FrameParts
    <2>m. m \in Regions /\ b \in Layout[m] /\ m # held
      BY <2>1 DEF Framed
    <2>2. PICK g \in SUBSET (StrayTabs \cup Polled[c]) :
            g \cap placed = {} /\ clicked = (Layout[m] \cap placed) \cup g
      BY <2>1, <2>m DEF Framed
    <2>3. b \in clicked /\ b \in placed
      BY <2>2, <2>m
    <2>4. b \notin lastClickState
      BY DEF NoneRemembered, Visible, Buttons, UiType
    <2>f. b \in Seen(clicked, c) => fired' = <<{b}>>
      <3> SUFFICES ASSUME b \in Seen(clicked, c) PROVE fired' = <<{b}>>
        OBVIOUS
      <3>1. Seen(clicked, c) = {b}
        BY <2>1, <2>m, OneNow
      <3>2. fired' = Append(<<>>, {b})
        BY <2>1, <2>m, <3>1 DEF Framed
      <3> QED BY <3>2, AppendShort
    <2>s. StrayTabs = {}
      <3>1. CASE scene # "PONG"
        BY <2>3, <3>1, NoStrayTab
      <3>2. CASE scene = "PONG"
        <4>1. b \in Polled["PONG"]
          BY <3>2 DEF Visible
        <4>2. placed # Polled["BLUETOOTH"]
          BY <2>3, <4>1, PolledApart DEF Scenes
        <4> QED BY <2>3, <4>2, NoStrayTab
      <3> QED BY <3>1, <3>2
    <2>5. g \cap Tabs = {}
      BY <2>2, <2>s, PolledParts
    <2>6. CASE b \in Tabs \ disabled
      <3>1. clicked \cap Tabs \subseteq {b}
        BY <2>2, <2>m, <2>5, <2>6, TabRegion
      <3>2. b \in TabsPolled(clicked)
        BY <2>6, <3>1, TabPolled
      <3> QED BY <2>3, <2>4, <3>2, <2>f DEF Seen, TabPressed, Pressed
    <2>7. CASE b \in Polled[scene]
      <3>1. b \notin Tabs
        BY <2>7, PolledParts DEF UiType
      <3>2. c = scene
        BY <2>1, <2>m, <2>s, <3>1, FiredNow
      <3> QED BY <2>3, <2>4, <2>7, <3>2, <2>f DEF Seen, Hit, Pressed
    <2> QED BY <2>6, <2>7 DEF Visible
  <1> QED BY <1>1, <1>2, InitUi, StepType, StepTabs, StepTabsPlaced, StepRemembered, PTL
       DEF Spec, FreshClickFires
=============================================================================
