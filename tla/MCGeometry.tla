----------------------------- MODULE MCGeometry -----------------------------
(* Three workloads of Geometry in one run of TLC: one window on two          *)
(* monitors with everything that happens to a floating, fullscreen or        *)
(* dragged window; two windows on two monitors that are dragged and sent     *)
(* about; and three windows in the layouts of one monitor.                   *)
EXTENDS Geometry, TLC

VARIABLE workload

ClientSymmetry == Permutations(Client)

R(x, y, w, h) == [x |-> x, y |-> y, w |-> w, h |-> h]

\* A large monitor, and a small one (no gaps) to its right.
TwoModes == << {R(0, 0, 2560, 1440), R(0, 0, 2048, 1152)},
               {R(2560, 0, 1024, 768)} >>

Plain == [ transient |-> FALSE, tags |-> {}, isfloating |-> FALSE,
           isLeft |-> FALSE, fullscreen |-> FALSE, dialog |-> FALSE,
           isfixed |-> FALSE, urgent |-> FALSE, neverfocus |-> FALSE ]

Terminal ==
  [kind |-> Plain, rect |-> R(2300, 100, 400, 300), hints |-> NoHints]
Menu == [Terminal EXCEPT !.kind.isfloating = TRUE]
\* A window with a largest size and a step.
Film == [Menu EXCEPT !.hints = [NoHints EXCEPT
           !.basew = 10, !.baseh = 20, !.incw = 8, !.inch = 6,
           !.maxw = 900, !.maxh = 800]]
Windows == {Terminal, Menu, Film}

AllOps == {"toggleview", "setlayout", "incnmaster", "incncols", "setcfact",
           "setcolfact", "setmfact", "pushleft", "bar", "togglefloating",
           "fullscreen", "configure", "tagmon", "screen", "button", "drag",
           "map", "close"}
DragOps == {"drag", "map"}
Asked == {[move |-> TRUE, size |-> TRUE, rect |-> R(-1000, 100, 1000, 700)]}
DragPlaces == {<<20, 100>>, <<2600, 100>>}
DragSizes == {<<1000, 700>>}

Drag == StartDrag \/ MoveMotion \/ ResizeMotion \/ ButtonRelease

\* What the commands of the third workload have changed: two settings at a time.
Changed ==
  {<<"cfact", c>> : c \in {d \in Client : geo.win[d].cfact # 4}}
    \cup {<<"left", c>> : c \in {d \in Client : wm.isLeft[d]}}
    \cup {<<"colfact", i>> : i \in {j \in 1 .. 3 :
             geo.mons[1].colfact[j] # NewMonitor(0).colfact[j]}}
    \cup {<<f, 1>> : f \in {e \in {"mfact", "nmastercols", "nrightcols"} :
             geo.mons[1][e] # NewMonitor(0)[e]}}
    \cup (IF wm.nmaster[1] # 1 THEN {<<"nmaster", 1>>} ELSE {})
    \cup (IF wm.sellt[1] # 0 \/ wm.lt[1][0] # "varcol" THEN {<<"lt", 1>>} ELSE {})
    \cup (IF geo.bh # 0 \/ ~geo.mons[1].showbar THEN {<<"bar", 1>>} ELSE {})

OpenTerminal ==
  MapRequestEvent /\ \A c \in Managed(wm') : ~wm'.isfloating[c]

One ==
  \/ ToggleViewCmd \/ ToggleFloatingCmd \/ FullscreenMessage
  \/ \E c \in Client, req \in Requests : ConfigureRequestEvent(c, req)
  \/ TagMonCmd \/ ConfigureNotifyEvent \/ Drag \/ DestroyNotifyEvent
  \/ MapRequestEvent
OpenPlainWindow ==
  MapRequestEvent /\ \A c \in Managed(wm') : geo'.win[c].hints = NoHints
Two ==
  TagMonCmd \/ Drag \/ OpenPlainWindow \/ DestroyNotifyEvent
Three ==
  \/ SetLayoutCmd \/ IncNMasterCmd \/ IncNColsCmd \/ SetCFactCmd
  \/ SetColFactCmd \/ SetMFactCmd \/ PushLeftCmd
  \/ ToggleBarCmd \/ BarMapped \/ BarUnmapped
  \/ ButtonPressEvent \/ OpenTerminal

MCInit ==
  /\ Init /\ workload \in 1 .. 3
  /\ workload # 1 => geo.mode[1].w = 2560
  /\ workload = 2 => wm.nmon = 2
  /\ workload = 3 => wm.nmon = 1
MCNext ==
  /\ workload' = workload
  /\ \/ workload = 1 /\ One
     \/ workload = 2 /\ Two
     \/ workload = 3 /\ Three /\ Cardinality(Changed') <= 2
MCSpec == MCInit /\ [][MCNext]_<<vars, workload>>

\* A tiled window that is not in view shrinks each time it leaves fullscreen:
\* once is enough.
ShrunkOnce(c) ==
  \E height \in {300, 700, 768, 1152, 1440} :
    geo.win[c].rect.h \in {height, height - 1, height - 25}

\* Views change on the first monitor only; a film is shown on one large monitor.
Bounds ==
  /\ (\E c \in Client : geo.win[c].hints # NoHints)
       => wm.nmon = 1 /\ geo.mode[1].w = 2560
  /\ Cardinality(Managed(wm)) <= workload
  /\ ViewOf(wm, 2) = {0}
  /\ \A c \in Managed(wm) : wm.isfloating[c] \/ Visible(wm, c) \/ ShrunkOnce(c)
=============================================================================
