----------------------------- MODULE MCWidgets ------------------------------
(***************************************************************************)
(* What a window holds besides its buttons: a text box, which is updated   *)
(* in the frames that draw its scene, and the toasts, which are updated at *)
(* the end of every frame.  Neither reads what the other keeps.            *)
(***************************************************************************)
EXTENDS TextBox, Toasts

MCChars == {"a", "b"}
MCOdd == {"~"}

WidgetsInit == Init /\ ToastsInit

WidgetsNext ==
    \/ Next /\ UNCHANGED toastVars
    \/ ToastsNext /\ UNCHANGED vars

\* The loop goes on until the window is closed, and shows toasts in every frame; nothing
\* makes the user type.
WidgetsSpec ==
    /\ WidgetsInit
    /\ [][WidgetsNext]_<<vars, toastVars>>
    /\ WF_toastVars(Updates /\ UNCHANGED vars)
=============================================================================
