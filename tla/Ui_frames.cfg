\* Every sequence of frames and resizings of the window.  A button whose position is
\* outdated may be under the mouse wherever it is, one such button at a time.
SPECIFICATION Spec
CONSTANT MaxStray = 1
INVARIANTS
    TabsMatchScene
    OneActionPerClick
PROPERTIES
    FreshClickFires
