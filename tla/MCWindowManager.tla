-------------------------- MODULE MCWindowManager --------------------------
(* Instances of WindowManager for TLC: windows, tags and command sets.      *)
EXTENDS WindowManager

ClientSymmetry == Permutations(Client)

Plain == [ transient |-> FALSE, tags |-> {}, isfloating |-> FALSE,
           isLeft |-> FALSE, fullscreen |-> FALSE, dialog |-> FALSE,
           isfixed |-> FALSE, urgent |-> FALSE, neverfocus |-> FALSE ]

OtherTag == [Plain EXCEPT !.tags = {1}]
Shy == [Plain EXCEPT !.neverfocus = TRUE]
Transient == [Plain EXCEPT !.transient = TRUE]
Left == [Plain EXCEPT !.isLeft = TRUE]
Urgent == [Plain EXCEPT !.urgent = TRUE]
Splash == [Plain EXCEPT !.fullscreen = TRUE, !.dialog = TRUE, !.isfixed = TRUE]
Dialog == [Plain EXCEPT !.dialog = TRUE]

\* Chords of the tag keys.
ChordKinds == {Plain}
ChordOps == {"comboview", "combotag", "map"}

\* The view and tag commands of keys and IPC messages, and the input focus.
TagKinds == {Plain, OtherTag, Shy}
TagOps == {"view", "toggleview", "tag", "toggletag", "focusstack", "map",
           "close", "take focus"}

\* Two monitors, the second comes and goes.
MonitorKinds == {Plain, OtherTag, Transient}
MonitorOps == {"focusmon", "tagmon", "enter", "motion", "button", "geometry",
               "toggleview", "map", "close"}

\* The order of the client list on a wide monitor.
ListKinds == {Plain, Left}
ListOps == {"focusstack", "zoom", "pushdown", "pushup", "pushleft",
            "incnmaster", "setlayout", "togglefloating", "map", "close"}

\* Window types, hints and messages.
HintKinds == {Plain, Urgent, Splash, Transient}
HintOps == {"fullscreen message", "active message", "window type", "wm hints",
            "size hints", "transient", "togglefloating", "togglefullscr",
            "view", "map", "close"}

\* Three clients on two monitors.
HistoryOps == {"focusmon", "tagmon", "button", "geometry", "toggletag", "map",
               "close"}

\* The smallest sets of operations that show a divergence.
DialogOps == {"fullscreen message", "togglefullscr", "map"}
PushUpOps == {"pushup", "map"}

DialogKinds == {Dialog, [Dialog EXCEPT !.fullscreen = TRUE]}

\* "Dialog windows are always managed floating" (dwm.1): where every window is
\* a dialog and no key toggles floating, none is ever tiled
\* (updatewindowtype(), setfullscreen()).
DialogsManagedFloating == \A c \in Managed(wm) : wm.isfloating[c]
=============================================================================
