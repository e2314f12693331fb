------------------------------ MODULE Geometry ------------------------------
(***************************************************************************)
(* The handlers of dwm.c and varcol.c that place windows, as one machine:  *)
(* wm is the state of the lists, views and flags (DwmState), changed by    *)
(* the handlers of DwmHandlers; geo is the geometry, changed by what the   *)
(* same handler places; drag is the loop that movemouse() or resizemouse() *)
(* runs while a button is down, which handles only some of the events.     *)
(***************************************************************************)
EXTENDS Layouts

CONSTANTS
  Modes,      \* [Mon -> SUBSET Rect]: the geometries a monitor may have
  BarHeight,  \* of the alternative bar
  Shapes,     \* windows that ask to be mapped: [kind, rect, hints]
  Requests,   \* what clients ask for: [move : BOOLEAN, size : BOOLEAN, rect]
  Places,     \* where the pointer drags a window: <<x, y>>
  Sizes,      \* to what the pointer resizes a window: <<w, h>>
  CFactSteps, ColFactSteps, MFactSteps,  \* the arguments keys are bound to
  MaxCols,    \* bound on nmastercols and nrightcols
  Ops         \* the commands and events this configuration exercises

ASSUME GeometryAssumption ==
  /\ BarHeight \in Nat
  /\ Modes \in [Mon -> SUBSET Rect]
  /\ \A m \in Mon : \A r \in Modes[m] :
       /\ m \in Wide <=> r.w > 2000
       /\ r.w > 0 /\ r.h > BarHeight
  /\ \A s \in Shapes :
       /\ s.kind \in Kind /\ s.rect \in Rect /\ s.hints \in Hints
       /\ s.kind.isfixed = IsFixed(s.hints)
       /\ s.rect.w > 0 /\ s.rect.h > 0
  /\ \A req \in Requests :
       /\ req.move \in BOOLEAN /\ req.size \in BOOLEAN /\ req.rect \in Rect
       /\ req.rect.w > 0 /\ req.rect.h > 0
  /\ Places \subseteq Int \X Int /\ Sizes \subseteq Int \X Int
  /\ CFactSteps \cup ColFactSteps \cup MFactSteps \subseteq Int

VARIABLES wm, geo, drag

vars == <<wm, geo, drag>>

NoDrag == [c |-> NULL, resize |-> FALSE]

Init ==
  /\ \E n \in Mon : \E m \in 1 .. n : wm = InitialState(n, m)
  /\ \E mode \in {f \in [Mon -> UNION {Modes[m] : m \in Mon}] :
                    \A m \in Mon : f[m] \in Modes[m]} :
       geo = [ mode |-> mode, bh |-> 0,
               mons |-> [m \in Mon |-> NewMonitor(0)],
               win |-> [c \in Client |-> NewWindow] ]
  /\ drag = NoDrag

\* Commands and events of run(); the loop of a drag handles few of them.
Idle(op) == op \in Ops /\ drag.c = NULL

Selected(w) == w.sel[w.selmon]

-----------------------------------------------------------------------------
(* Commands of the layouts                                                 *)

\* A handler that changes wm and then arranges the selected monitor.
Do(w) == wm' = w /\ geo' = Arranged(wm', geo, wm'.selmon) /\ drag' = drag

\* A handler that changes settings of monitor m and then arranges it.
DoWith(w, g, m) ==
  wm' = Arrange(w, m) /\ geo' = Arranged(wm', g, m) /\ drag' = drag

ToggleViewCmd ==
  \E t \in Tag :
    /\ Idle("toggleview") /\ wm' = ToggleView(wm, {t}) /\ drag' = drag
    /\ geo' = IF ViewOf(wm, wm.selmon) = {t} THEN geo
              ELSE Arranged(wm', geo, wm'.selmon)

SetLayoutCmd ==
  \E l \in Layout :
    /\ Idle("setlayout") /\ wm' = SetLayout(wm, l) /\ drag' = drag
    /\ geo' = IF Selected(wm') = NULL THEN geo
              ELSE Arranged(wm', geo, wm'.selmon)

IncNMasterCmd ==
  \E i \in {1, -1} :
    /\ Idle("incnmaster")
    /\ wm.nmaster[wm.selmon] + i <= MaxMaster
    /\ Do(IncNMaster(wm, i))

PushLeftCmd == Idle("pushleft") /\ Do(PushLeft(wm))

\* ismaster(): the selected client is one of the first nmaster tiled ones.
IsMaster(w) ==
  LET i == IndexOf(TiledOn(w, w.selmon), Selected(w))
  IN i # 0 /\ i <= w.nmaster[w.selmon]

\* incncols(): the columns of the category the selected client is in. More
\* master columns than masters also raise nmaster.
IncNColsCmd ==
  \E i \in {1, -1} :
    LET m == wm.selmon
        cols == geo.mons[m]
        n == Bigger(cols.nmastercols + i, 0)
        w == IF IsMaster(wm) THEN [wm EXCEPT !.nmaster[m] = Bigger(@, n)] ELSE wm
        g == IF IsMaster(wm) THEN [geo EXCEPT !.mons[m].nmastercols = n]
             ELSE IF IsLeft(wm, Selected(wm)) THEN geo
             ELSE [geo EXCEPT !.mons[m].nrightcols = Bigger(@ + i, 0)]
    IN /\ Idle("incncols") /\ Selected(wm) # NULL
       /\ g.mons[m].nmastercols <= MaxCols /\ g.mons[m].nrightcols <= MaxCols
       /\ w.nmaster[m] <= MaxMaster
       /\ DoWith(w, g, m)

\* setcolfact(): the width of that category, between 10 and 90 percent.
SetColFactCmd ==
  \E f \in ColFactSteps :
    LET m == wm.selmon
        i == IF IsMaster(wm) THEN 2 ELSE IF IsLeft(wm, Selected(wm)) THEN 1 ELSE 3
        fact == IF f >= 100 THEN f - 100 ELSE geo.mons[m].colfact[i] + f
        g == [geo EXCEPT !.mons[m].colfact[i] = Bigger(10, Smaller(fact, 90))]
    IN /\ Idle("setcolfact") /\ Selected(wm) # NULL
       /\ DoWith(wm, g, m)

\* setcfact(): the height of the selected client in its column.
SetCFactCmd ==
  \E f \in CFactSteps :
    LET c == Selected(wm)
        fact == IF f = 0 THEN 4 ELSE geo.win[c].cfact + f
    IN /\ Idle("setcfact") /\ c # NULL /\ fact \in 1 .. 16
       /\ DoWith(wm, [geo EXCEPT !.win[c].cfact = fact], wm.selmon)

\* setmfact(): the width of the master area of tile().
SetMFactCmd ==
  \E f \in MFactSteps :
    LET m == wm.selmon
        fact == IF f < 100 THEN geo.mons[m].mfact + f ELSE f - 100
    IN /\ Idle("setmfact") /\ fact \in 5 .. 95
       /\ DoWith(wm, [geo EXCEPT !.mons[m].mfact = fact], m)

-----------------------------------------------------------------------------
(* The alternative bar                                                     *)

ToggleBarCmd ==
  LET m == wm.selmon
  IN Idle("bar") /\ DoWith(wm, [geo EXCEPT !.mons[m].showbar = ~@], m)

\* managealtbar(): the bar's window is mapped on monitor m.
BarMapped ==
  \E m \in Mons(wm) :
    /\ Idle("bar") /\ ~geo.mons[m].barwin
    /\ DoWith(wm, [geo EXCEPT !.bh = BarHeight, !.mons[m].bar = BarHeight,
                              !.mons[m].barwin = TRUE], m)

\* unmanagealtbar(); bh keeps its value.
BarUnmapped ==
  \E m \in Mons(wm) :
    /\ Idle("bar") /\ geo.mons[m].barwin
    /\ DoWith(wm, [geo EXCEPT !.mons[m].bar = 0,
                              !.mons[m].barwin = FALSE], m)

-----------------------------------------------------------------------------
(* Floating and fullscreen                                                 *)

\* togglefloating() of the selected client c, whoever calls it; f is the state
\* of the flags afterwards.
Floated(w, g, c, f) ==
  IF c = NULL \/ w.isfullscreen[c] THEN g
  ELSE Arranged(f, [g EXCEPT !.win[c] =
                      IF f.isfloating[c] THEN Resize(f, g, c, @.rect, FALSE)
                      ELSE @], f.selmon)

ToggleFloatingCmd ==
  /\ Idle("togglefloating") /\ drag' = drag
  /\ wm' = ToggleFloating(wm) /\ geo' = Floated(wm, geo, Selected(wm), wm')

\* setfullscreen(c, TRUE) covers the monitor; the geometry from before is kept
\* in old.
Covering(f, g, c) ==
  [g EXCEPT !.win[c] = ResizeClient(f, g, c, g.mode[f.mon[c]])]

\* setfullscreen(c, FALSE): what was before is in old.
Uncovered(f, g, c, old) ==
  Arranged(f, [g EXCEPT !.win[c] =
                 ResizeClient(f, [g EXCEPT !.win[c].rect = old], c, old)],
           f.mon[c])

\* Fault: what leaves fullscreen keeps the size it had there.
FullscreenKeepsSize(g, c, f) ==
  IF f.isfullscreen[c] THEN Covering(f, g, c)
  ELSE Uncovered(f, g, c, g.win[c].rect)

\* setfullscreen() of a client that is not as it is to be; f is the state of
\* the flags afterwards.
Fullscreened(g, c, f) ==
  IF f.isfullscreen[c] THEN Covering(f, g, c)
  ELSE Uncovered(f, g, c, g.win[c].old)

\* togglefullscr() by a key, or _NET_WM_STATE_FULLSCREEN by the client.
FullscreenMessage ==
  \E c \in Managed(wm) :
    /\ Idle("fullscreen") /\ drag' = drag
    /\ wm' = SetFullscreen(wm, c, ~wm.isfullscreen[c])
    /\ geo' = Fullscreened(geo, c, wm')

\* Fault: the X server is not told.
ConfiguredQuietly(w, g, c, req) ==
  LET M == g.mode[w.mon[c]]
      r == g.win[c].rect
      asked == [ x |-> IF req.move THEN M.x + req.rect.x ELSE r.x,
                 y |-> IF req.move THEN M.y + req.rect.y ELSE r.y,
                 w |-> IF req.size THEN req.rect.w ELSE r.w,
                 h |-> IF req.size THEN req.rect.h ELSE r.h ]
  IN IF w.isfloating[c] THEN [g EXCEPT !.win[c].rect = asked] ELSE g

\* configurerequest() on a managed window: a floating client gets what it asks
\* for, centred where it would leave its monitor; the request of a tiled one
\* has no effect. The X server resizes the window only if it is in view.
Configured(w, g, c, req) ==
  LET M == g.mode[w.mon[c]]
      r == g.win[c].rect
      asked == [ x |-> IF req.move THEN M.x + req.rect.x ELSE r.x,
                 y |-> IF req.move THEN M.y + req.rect.y ELSE r.y,
                 w |-> IF req.size THEN req.rect.w ELSE r.w,
                 h |-> IF req.size THEN req.rect.h ELSE r.h ]
      q == [asked EXCEPT
             !.x = IF @ + asked.w <= M.x + M.w THEN @
                   ELSE M.x + (M.w \div 2 - asked.w \div 2),
             !.y = IF @ + asked.h <= M.y + M.h THEN @
                   ELSE M.y + (M.h \div 2 - asked.h \div 2)]
      \* oldx, oldy, oldw and oldh, as far as they will be read.
      old == IF ~w.isfullscreen[c] THEN NoRect
             ELSE [ x |-> IF req.move THEN r.x ELSE g.win[c].old.x,
                    y |-> IF req.move THEN r.y ELSE g.win[c].old.y,
                    w |-> IF req.size THEN r.w ELSE g.win[c].old.w,
                    h |-> IF req.size THEN r.h ELSE g.win[c].old.h ]
  IN IF ~w.isfloating[c] THEN g
     ELSE [g EXCEPT !.win[c].rect = q, !.win[c].old = old,
                    !.win[c].size = IF Visible(w, c) THEN <<q.w, q.h>> ELSE @]

\* Handled in run() and in the loop of a drag.
ConfigureRequestEvent(c, req) ==
  /\ "configure" \in Ops /\ c \in Managed(wm)
  /\ geo' = Configured(wm, geo, c, req)
  /\ UNCHANGED <<wm, drag>>

-----------------------------------------------------------------------------
(* Windows come and go                                                     *)

\* manage(): a new window is moved onto its monitor, made fullscreen when it
\* asks for that, and its monitor arranged.
Placed(w, g, c, shape) ==
  LET m == w.mon[c]
      M == g.mode[m]
      area == Work(g, m)
      r == shape.rect
      x == Bigger(Smaller(r.x, M.x + M.w - r.w), M.x)
      middle == x + r.w \div 2
      \* The bar is at the top of the monitor: by = my.
      atBar == /\ g.mons[m].showbar \/ g.mons[m].bar = -M.y
               /\ middle >= area.x /\ middle < area.x + area.w
      y == Bigger(Smaller(r.y, M.y + M.h - r.h), IF atBar THEN g.bh ELSE M.y)
      born == [g EXCEPT !.win[c] =
                 [NewWindow EXCEPT !.rect = [r EXCEPT !.x = x, !.y = y],
                                   !.size = <<r.w, r.h>>,
                                   !.hints = shape.hints]]
      typed == IF w.isfullscreen[c] THEN Covering(w, born, c) ELSE born
  IN Arranged(w, typed, m)

\* Handled in run() and in the loop of a drag.
MapRequestEvent ==
  /\ "map" \in Ops
  /\ \E c \in Client \ Managed(wm), shape \in Shapes :
       wm' = Manage(wm, c, shape.kind, NULL) /\ geo' = Placed(wm', geo, c, shape)
  /\ drag' = drag

\* The window of c is destroyed.
DestroyNotifyEvent ==
  \E c \in Managed(wm) :
    /\ Idle("close") /\ wm' = Unmanage(wm, c) /\ drag' = drag
    /\ geo' = Arranged(wm', [geo EXCEPT !.win[c] = NewWindow], wm.mon[c])

-----------------------------------------------------------------------------
(* Monitors                                                                *)

TagMonCmd ==
  /\ Idle("tagmon") /\ wm' = TagMon(wm, 1) /\ drag' = drag
  /\ geo' = IF wm' = wm THEN geo ELSE ArrangedAll(wm', geo)

\* A button pressed on a window selects it.
ButtonPressEvent ==
  /\ Idle("button") /\ \E c \in Managed(wm) : wm' = ButtonPress(wm, c)
  /\ UNCHANGED <<geo, drag>>

\* updategeom(): monitors that stay get their new geometry, unless one is
\* removed; those that are created start anew.
Regeometry(w, g, n, mode) ==
  [g EXCEPT !.mode = [m \in Mon |-> IF n < w.nmon /\ m <= n THEN @[m] ELSE mode[m]],
            !.mons = [m \in Mon |-> IF m > Smaller(n, w.nmon)
                                    THEN NewMonitor(g.bh) ELSE @[m]]]

\* Fault: fullscreen windows keep the geometry of the old screen.
WindowedOn(v, g) == g

\* configurenotify(): fullscreen windows cover their monitors again.
FullscreenOn(v, g) ==
  [g EXCEPT !.win = [c \in Client |->
     IF v.isfullscreen[c] THEN ResizeClient(v, g, c, g.mode[v.mon[c]]) ELSE @[c]]]

ConfigureNotifyEvent ==
  \E n \in Mon : \E p \in 1 .. n, m \in Mon : \E r \in Modes[m] :
    /\ Idle("screen") /\ <<n, r>> # <<wm.nmon, geo.mode[m]>>
    /\ wm' = ConfigureNotify(wm, n, p)
    /\ geo' = ArrangedAll(wm', FullscreenOn(wm',
                Regeometry(wm, geo, n, [geo.mode EXCEPT ![m] = r])))
    /\ drag' = drag

-----------------------------------------------------------------------------
(* Dragging a window with the mouse                                        *)

\* movemouse() and resizemouse(), after buttonpress() has selected the window.
StartDrag ==
  \E c \in Managed(wm), resize \in BOOLEAN :
    /\ Idle("drag") /\ ~wm.isfullscreen[c]
    /\ wm' = ButtonPress(wm, c) /\ geo' = geo
    /\ Visible(wm, c)
    /\ drag' = [c |-> c, resize |-> resize]

Far(a, b) == Abs(a - b) > snap

\* The window sticks to an edge of the selected monitor that is near.
Snapped(p, len, from, to) ==
  IF Abs(from - p) < snap THEN from
  ELSE IF Abs(to - (p + len)) < snap THEN to - len ELSE p

\* A motion of either: a tiled window is made floating by togglefloating(),
\* which acts on the selected client, and a floating one gets what is asked.
Toggles(far) == far /\ ~wm.isfloating[drag.c]
DragTo(g, r) == [g EXCEPT !.win[drag.c] = Resize(wm', g, drag.c, r, TRUE)]
MoveTo(g, p) == DragTo(g, [g.win[drag.c].rect EXCEPT !.x = p[1], !.y = p[2]])
ResizeTo(g, size) ==
  DragTo(g, [g.win[drag.c].rect EXCEPT !.w = size[1], !.h = size[2]])
ToggledOnDrag(far) ==
  IF Toggles(far) THEN Floated(wm, geo, Selected(wm), wm') ELSE geo

\* A motion of movemouse().
MoveBy(p, r) ==
  LET far == Far(p[1], r.x) \/ Far(p[2], r.y)
  IN /\ wm' = IF Toggles(far) THEN ToggleFloating(wm) ELSE wm
     /\ geo' = IF wm'.isfloating[drag.c] THEN MoveTo(ToggledOnDrag(far), p)
               ELSE ToggledOnDrag(far)
MoveMotion ==
  \E p \in Places :
    /\ drag.c # NULL /\ ~drag.resize /\ drag' = drag
    /\ LET area == Work(geo, wm.selmon)
           r == geo.win[drag.c].rect
       IN MoveBy(<< Snapped(p[1], r.w, area.x, area.x + area.w),
                    Snapped(p[2], r.h, area.y, area.y + area.h) >>, r)

\* A motion of resizemouse().
ResizeBy(size, r, mine, area) ==
  LET far == /\ mine.x + size[1] \in area.x .. area.x + area.w
             /\ mine.y + size[2] \in area.y .. area.y + area.h
             /\ Far(size[1], r.w) \/ Far(size[2], r.h)
  IN /\ wm' = IF Toggles(far) THEN ToggleFloating(wm) ELSE wm
     /\ geo' = IF wm'.isfloating[drag.c] THEN ResizeTo(ToggledOnDrag(far), size)
               ELSE ToggledOnDrag(far)
ResizeMotion ==
  \E size \in Sizes :
    /\ drag.c # NULL /\ drag.resize /\ drag' = drag
    /\ ResizeBy(size, geo.win[drag.c].rect, Work(geo, wm.mon[drag.c]),
                Work(geo, wm.selmon))

\* INTERSECT
Overlap(r, M) ==
  Bigger(0, Smaller(r.x + r.w, M.x + M.w) - Bigger(r.x, M.x))
    * Bigger(0, Smaller(r.y + r.h, M.y + M.h) - Bigger(r.y, M.y))

\* recttomon(): the first monitor that holds most of r, or the selected one.
RectToMon(w, g, r) ==
  LET area(m) == Overlap(r, g.mode[m])
      best == {m \in Mons(w) : \A k \in Mons(w) : area(k) <= area(m)}
  IN IF \A m \in Mons(w) : area(m) = 0 THEN w.selmon ELSE Min(best)

\* Fault: the monitor the window was taken from stays selected.
DroppedBehind(c, m) == wm' = SendMon(wm, c, m)

\* The end of movemouse() and resizemouse(), when another monitor than the
\* selected one shows most of the window.
Dropped(c, m) == wm' = Focus([SendMon(wm, c, m) EXCEPT !.selmon = m], NULL)

ReleasedOn(c, m) ==
  /\ c # NULL /\ drag' = NoDrag
  /\ IF m = wm.selmon THEN wm' = wm ELSE Dropped(c, m)
  /\ geo' = IF m \in {wm.selmon, wm.mon[c]} THEN geo ELSE ArrangedAll(wm', geo)
ButtonRelease ==
  ReleasedOn(drag.c, RectToMon(wm, geo, geo.win[drag.c].rect))

-----------------------------------------------------------------------------

Next ==
  \/ ToggleViewCmd \/ SetLayoutCmd \/ IncNMasterCmd \/ PushLeftCmd
  \/ IncNColsCmd \/ SetColFactCmd \/ SetCFactCmd \/ SetMFactCmd
  \/ ToggleBarCmd \/ BarMapped \/ BarUnmapped
  \/ ToggleFloatingCmd \/ FullscreenMessage
  \/ \E c \in Client, req \in Requests : ConfigureRequestEvent(c, req)
  \/ MapRequestEvent \/ DestroyNotifyEvent
  \/ TagMonCmd  \/ ButtonPressEvent \/ ConfigureNotifyEvent
  \/ StartDrag \/ MoveMotion \/ ResizeMotion \/ ButtonRelease

Spec == Init /\ [][Next]_vars

-----------------------------------------------------------------------------
(* Properties                                                              *)

RectOf(c) == geo.win[c].rect
Within(r, area) ==
  /\ r.w > 0 /\ r.h > 0
  /\ r.x >= area.x /\ r.x + r.w <= area.x + area.w
  /\ r.y >= area.y /\ r.y + r.h <= area.y + area.h

\* Tiled windows cover each other nowhere and are inside the area their
\* monitor has for windows, whatever the columns, factors, gaps and bar
\* (tile(), varcol(), resizeclient()). Size hints may ask for anything else,
\* and varcol() places nothing when there is no master.
TilesFit ==
  \A m \in Mons(wm) :
    LET tiled == ToSet(TiledOn(wm, m))
        layout == wm.lt[m][wm.sellt[m]]
    IN /\ layout # "monocle" /\ ~(layout = "varcol" /\ wm.nmaster[m] = 0)
       /\ \A c \in tiled : geo.win[c].hints = NoHints
       => /\ \A c \in tiled : Within(RectOf(c), Work(geo, m))
          /\ \A c, d \in tiled : c # d => Overlap(RectOf(c), RectOf(d)) = 0

\* From every reachable geometry, arranging brings each floating window that
\* is in view and has no size hints back to its monitor (showhide(),
\* applysizehints()): a window can be lost off screen only until then.
ArrangeBringsBack ==
  LET g == ArrangedAll(wm, geo)
  IN \A c \in Managed(wm) :
       /\ Visible(wm, c) /\ wm.isfloating[c] /\ ~wm.isfullscreen[c]
       /\ g.win[c].hints = NoHints
       => Overlap(g.win[c].rect, Work(g, wm.mon[c])) > 0

-----------------------------------------------------------------------------
(* What a step may not do                                                  *)

Requested(c) == \E req \in Requests : ConfigureRequestEvent(c, req)

\* A fullscreen window covers its monitor, also after the screen changed or
\* its monitor was removed, unless it asks for another geometry itself or
\* tagmon() takes it to another monitor (setfullscreen(), configurenotify()).
FullscreenCovers ==
  [][ \A c \in Managed(wm') :
        LET Covers(w, g) == g.win[c].rect = g.mode[w.mon[c]]
        IN wm'.isfullscreen[c] =>
             \/ Covers(wm', geo')
             \/ wm.isfullscreen[c] /\ ~Covers(wm, geo)
             \/ Requested(c) \/ TagMonCmd ]_vars

\* A floating window leaves fullscreen with the geometry it had before, as far
\* as its hints allow it, unless it asked for another one, or the screen
\* changed, while it was fullscreen (oldx, oldy, oldw, oldh).
FullscreenRestores ==
  [][ \A c \in Managed(wm) \cap Managed(wm') :
        LET was == wm.isfullscreen[c]
            is == wm'.isfullscreen[c]
        IN /\ is /\ ~was => geo'.win[c].old = RectOf(c)
           /\ is /\ was /\ geo'.win[c].old # geo.win[c].old =>
                Requested(c) \/ ConfigureNotifyEvent
           /\ ~is /\ was /\ wm.oldstate[c] /\ Visible(wm, c) =>
                LET old == geo.win[c].old
                    back == [geo EXCEPT !.win[c].rect = old]
                IN geo'.win[c].rect =
                     ApplySizeHints(wm', back, c, old, FALSE) ]_vars

\* The X server and dwm agree on the size of a window, with two exceptions: it
\* asked for another one while it was out of view (configurerequest() keeps the
\* size for later, and showhide() only moves the window), or it is tiled and
\* varcol() fixes its height by its hints: placeColumn() stores that height
\* before resize() looks whether anything has changed.
ServerKnowsSize ==
  [][ \A c \in Managed(wm') :
        LET Agrees(g) == g.win[c].size = <<g.win[c].rect.w, g.win[c].rect.h>>
        IN Visible(wm', c) /\ ~Agrees(geo') =>
             \/ c \in Managed(wm) /\ ~Agrees(geo)
             \/ Requested(c) /\ ~Visible(wm, c)
             \/ ~wm'.isfloating[c] /\ geo'.win[c].hints # NoHints ]_vars

\* A window that is dropped belongs to the monitor that shows most of it. When
\* that is another monitor, both the monitor and the window are selected.
DropFollowsWindow ==
  [][ ButtonRelease =>
        LET c == drag.c
            m == RectToMon(wm, geo, RectOf(c))
        IN /\ wm'.mon[c] = m
           /\ m # wm.mon[c] => wm'.selmon = m /\ Selected(wm') = c ]_vars

\* Only the window that is dragged becomes floating (movemouse()).
DragFloatsDragged ==
  [][ MoveMotion \/ ResizeMotion =>
        \A c \in Managed(wm) :
          wm'.isfloating[c] # wm.isfloating[c] => c = drag.c ]_vars
=============================================================================
