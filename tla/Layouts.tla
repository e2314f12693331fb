------------------------------ MODULE Layouts ------------------------------
(***************************************************************************)
(* Where windows are placed: size hints and gaps (applysizehints(),        *)
(* resizeclient()), the three layouts (varcol(), monocle(), tile()) and    *)
(* arrange(), in pixels. The lists, views and flags they read are those of *)
(* DwmState; the geometry is a record of its own, g.                       *)
(*                                                                         *)
(* Factors are whole percents and quarters and the divisions are exact:    *)
(* the floats of the code may give one pixel less. Borders are left out    *)
(* (borderpx is 0), and so is the old geometry of clients that are not     *)
(* fullscreen: only leaving fullscreen reads it.                           *)
(***************************************************************************)
EXTENDS DwmHandlers

gappx == 24
snap == 32

Rect == [x : Int, y : Int, w : Int, h : Int]
NoRect == [x |-> 0, y |-> 0, w |-> 0, h |-> 0]

\* What updatesizehints() reads; mina and maxa are fractions <<n, d>>.
Hints == [ basew : Int, baseh : Int, minw : Int, minh : Int,
           maxw : Int, maxh : Int, incw : Int, inch : Int,
           mina : Int \X (Nat \ {0}), maxa : Int \X (Nat \ {0}) ]
NoHints == [ basew |-> 0, baseh |-> 0, minw |-> 0, minh |-> 0,
             maxw |-> 0, maxh |-> 0, incw |-> 0, inch |-> 0,
             mina |-> <<0, 1>>, maxa |-> <<0, 1>> ]
IsFixed(hints) ==
  /\ hints.maxw # 0 /\ hints.maxw = hints.minw
  /\ hints.maxh # 0 /\ hints.maxh = hints.minh

\* A window as dwm sees it (rect, old) and as the X server does (size).
NewWindow == [ rect |-> NoRect, old |-> NoRect, size |-> <<0, 0>>,
               cfact |-> 4, hints |-> NoHints ]

\* createmon(); bh is the height of the last bar that was mapped.
NewMonitor(bh) ==
  [ bar |-> bh, barwin |-> FALSE, showbar |-> TRUE, mfact |-> 55,
    colfact |-> <<10, 60, 30>>, nmastercols |-> 1, nrightcols |-> 1 ]

\* The area updatebarpos() leaves to the windows: wx, wy, ww, wh.
Work(g, m) ==
  LET bar == IF g.mons[m].showbar THEN g.mons[m].bar ELSE 0
  IN [g.mode[m] EXCEPT !.y = @ + bar, !.h = @ - bar]

Bigger(a, b) == IF a > b THEN a ELSE b
Smaller(a, b) == IF a < b THEN a ELSE b
Abs(a) == Bigger(a, -a)

\* C's integer division truncates towards zero.
CMod(a, b) == IF a >= 0 THEN a % Abs(b) ELSE -((-a) % Abs(b))

-----------------------------------------------------------------------------
(* Size hints                                                              *)

\* The base size is taken off before the aspect limits, or after them when it
\* is the minimum size.
BaseIsMin(hints) == hints.basew = hints.minw /\ hints.baseh = hints.minh
EarlyBase(hints, base) == IF BaseIsMin(hints) THEN 0 ELSE base

Scaled(n, ratio) == (2 * n * ratio[1] + ratio[2]) \div (2 * ratio[2])

\* The aspect limits: too wide, or too tall.
Aspect(hints, w, h) ==
  IF hints.mina[1] = 0 \/ hints.maxa[1] = 0 THEN <<w, h>>
  ELSE IF hints.maxa[1] * h < w * hints.maxa[2] THEN <<Scaled(h, hints.maxa), h>>
  ELSE IF hints.mina[1] * w < h * hints.mina[2] THEN <<w, Scaled(w, hints.mina)>>
  ELSE <<w, h>>

\* Whole increments over the base size, between minimum and maximum.
AtMost(len, max) == IF max = 0 THEN len ELSE Smaller(len, max)
WholeSteps(len, inc) == IF inc = 0 THEN len ELSE len - CMod(len, inc)
Stepped(len, late, base, inc, min, max) ==
  AtMost(Bigger(WholeSteps(len - late, inc) + base, min), max)

SteppedSize(hints, size) ==
  << Stepped(size[1], hints.basew - EarlyBase(hints, hints.basew), hints.basew,
             hints.incw, hints.minw, hints.maxw),
     Stepped(size[2], hints.baseh - EarlyBase(hints, hints.baseh), hints.baseh,
             hints.inch, hints.minh, hints.maxh) >>

\* The size hints of ICCCM 4.1.2.3.
HintedSize(hints, w, h) ==
  SteppedSize(hints, Aspect(hints, w - EarlyBase(hints, hints.basew),
                                   h - EarlyBase(hints, hints.baseh)))

\* The span of the screen: sw and sh.
Width(w, g) == Max({g.mode[m].x + g.mode[m].w : m \in Mons(w)})
Height(w, g) == Max({g.mode[m].y + g.mode[m].h : m \in Mons(w)})

\* Fault: a window left of or above its monitor stays there.
NotBeforeNever(p, len, from) == p

\* One coordinate of a window that starts at p and is len long: on its monitor,
\* or, when the mouse moves it, on the screen; mine is its length so far.
NotBefore(p, len, from) == IF p + len <= from THEN from ELSE p
OnMonitor(p, len, from, to, mine) ==
  NotBefore(IF p >= to THEN to - mine ELSE p, len, from)
NotOff(p, len) == IF p + len < 0 THEN 0 ELSE p
StartsOnScreen(p, len, to, mine) == NotOff(IF p > to THEN to - mine ELSE p, len)

\* The geometry applysizehints() makes of r, a rectangle of at least one pixel.
HintedRect(w, g, c, r, area, now, interact, size) ==
  [ x |-> IF interact THEN StartsOnScreen(r.x, r.w, Width(w, g), now.w)
          ELSE OnMonitor(r.x, r.w, area.x, area.x + area.w, now.w),
    y |-> IF interact THEN StartsOnScreen(r.y, r.h, Height(w, g), now.h)
          ELSE OnMonitor(r.y, r.h, area.y, area.y + area.h, now.h),
    w |-> size[1], h |-> size[2] ]

ApplySizeHints(w, g, c, r, interact) ==
  HintedRect(w, g, c, [r EXCEPT !.w = Bigger(1, @), !.h = Bigger(1, @)],
             Work(g, w.mon[c]), g.win[c].rect, interact,
             HintedSize(g.win[c].hints, Bigger(Bigger(1, g.bh), r.w),
                        Bigger(Bigger(1, g.bh), r.h)))

-----------------------------------------------------------------------------
(* Gaps                                                                    *)

Gap(M) == IF M.w <= 1024 \/ M.h <= 1024 THEN 0 ELSE gappx

\* Which edges of r are next to the edge of the monitor.
Edges(r, M, margin) ==
  [ E |-> (M.x + M.w) - (r.x + r.w) < margin,
    S |-> (M.y + M.h) - (r.y + r.h) < margin,
    W |-> r.x - M.x < margin,
    N |-> r.y - M.y < margin ]

\* Tiled windows keep a gap to their neighbours, and leave one row of pixels
\* for their shadow.
Apart(r, at, gap) ==
  LET N == IF at.N THEN 0 ELSE gap
      E == IF at.E THEN 0 ELSE gap \div 2
      W == IF at.W THEN 0 ELSE gap - gap \div 2
  IN IF at.N /\ at.E /\ at.S /\ at.W THEN r
     ELSE [ x |-> r.x + W, y |-> r.y + N, w |-> r.w - (W + E),
            h |-> r.h - 1 - N ]

\* The window of c with the geometry r, dwm's and the X server's; what was
\* before is kept for a client that is fullscreen.
SetGeometry(w, g, c, r) ==
  [g.win[c] EXCEPT !.rect = r, !.size = <<r.w, r.h>>,
                   !.old = IF w.isfullscreen[c] THEN g.win[c].rect ELSE NoRect]

ResizeClient(w, g, c, r) ==
  SetGeometry(w, g, c,
    IF w.isfloating[c] THEN r
    ELSE LET M == g.mode[w.mon[c]]
         IN Apart(r, Edges(r, M, 2 * Gap(M)), Gap(M)))

ResizeIfNew(w, g, c, r) ==
  IF r = g.win[c].rect THEN g.win[c] ELSE ResizeClient(w, g, c, r)
Resize(w, g, c, r, interact) ==
  ResizeIfNew(w, g, c, ApplySizeHints(w, g, c, r, interact))

-----------------------------------------------------------------------------
(* The layouts, for the tiled clients q of monitor m. Where a client goes   *)
(* depends on how much room those before it have taken, and on nothing else *)
(* about them.                                                              *)

TiledOn(w, m) == Keep(w.clients[m], {c \in Client : Tiled(w, c)})

Monocle(w, g, area, q) ==
  [g EXCEPT !.win = [c \in Client |->
     IF Contains(q, c) THEN Resize(w, g, c, area, FALSE) ELSE @[c]]]

\* The sum of the factors of the first i clients of q.
CFactSums(g, q) ==
  LET sum[i \in 0 .. Len(q)] ==
        IF i = 0 THEN 0 ELSE sum[i - 1] + g.win[q[i]].cfact
  IN sum

Rectangle(x, y, w, h) == [x |-> x, y |-> y, w |-> w, h |-> h]

\* A column has clients q, and a place x and width w on the screen. Each client
\* is in one column at most, which says where it goes (Place).
ColumnOf(columns, c) ==
  SelectInSeq(columns, LAMBDA column : Contains(column.q, c))
InColumns(g, columns, Place(_, _)) ==
  [g EXCEPT !.win = [c \in Client |->
     LET k == ColumnOf(columns, c)
     IN IF k = 0 THEN @[c] ELSE Place(columns[k], IndexOf(columns[k].q, c))]]

\* One column of tile(): the first y pixels are used, and client i shares the
\* rest with those after it by their factors.
TileClient(w, g, area, column, i, y) ==
  LET c == column.q[i]
      sum == CFactSums(g, column.q)
      facts == sum[Len(column.q)] - sum[i - 1]
  IN Resize(w, g, c,
            Rectangle(column.x, area.y + y, column.w,
                      ((area.h - y) * g.win[c].cfact) \div facts), FALSE)
TileBelow(y, r, area) == IF y + r.h < area.h THEN y + r.h ELSE y
TileColumn(w, g, area, column) ==
  LET used[i \in 0 .. Len(column.q)] ==
        IF i = 0 THEN 0
        ELSE TileBelow(used[i - 1],
               TileClient(w, g, area, column, i, used[i - 1]).rect, area)
  IN used

\* The master area, and the stack beside it.
MasterWidth(w, g, m, area, n) ==
  IF n <= w.nmaster[m] THEN area.w
  ELSE IF w.nmaster[m] = 0 THEN 0 ELSE (area.w * g.mons[m].mfact) \div 100
TileColumns(q, n, area, mw) ==
  << [q |-> SubSeq(q, 1, Smaller(n, Len(q))), x |-> area.x, w |-> mw],
     [q |-> SubSeq(q, n + 1, Len(q)), x |-> area.x + mw, w |-> area.w - mw] >>
Tile(w, g, m, area, q) ==
  InColumns(g,
    TileColumns(q, w.nmaster[m], area, MasterWidth(w, g, m, area, Len(q))),
    LAMBDA column, i :
      TileClient(w, g, area, column, i, TileColumn(w, g, area, column)[i - 1]))

\* The height varcol() fixes for a client by its hints, or 0.
FixedHeight(hints, share) ==
  IF hints.maxh # 0 /\ share > hints.maxh THEN hints.maxh
  ELSE IF hints.minh # 0 /\ share < hints.minh THEN hints.minh
  ELSE 0

\* The first passes of placeColumn(), over the first i clients: what is left of
\* the height wh for those without a fixed one, and the height of client i.
FixHeight(rest, win) ==
  LET height == FixedHeight(win.hints, (rest.wh * win.cfact) \div rest.facts)
  IN [ facts |-> rest.facts - (IF height = 0 THEN 0 ELSE win.cfact),
       wh |-> rest.wh - height, height |-> height ]
FixHeights(g, q, wh) ==
  LET rest[i \in 0 .. Len(q)] ==
        IF i = 0
        THEN [facts |-> CFactSums(g, q)[Len(q)], wh |-> wh, height |-> 0]
        ELSE FixHeight(rest[i - 1], g.win[q[i]])
  IN rest

\* The last pass: one below the other, as wide as the column and the hints say.
ColumnWidth(hints, width) ==
  IF hints.maxw # 0 /\ width > hints.maxw THEN hints.maxw
  ELSE IF hints.minw # 0 /\ width < hints.minw THEN hints.minw
  ELSE width
ColumnHeight(height, rest, cfact) ==
  IF height # 0 THEN height ELSE (rest.wh * cfact) \div rest.facts
ColumnClient(w, g, area, column, i, y) ==
  LET c == column.q[i]
      rest == FixHeights(g, column.q, area.h)
  IN Resize(w, [g EXCEPT !.win[c].rect.h = rest[i].height], c,
            Rectangle(column.x, y, ColumnWidth(g.win[c].hints, column.w),
                      ColumnHeight(rest[i].height, rest[Len(column.q)],
                                   g.win[c].cfact)), FALSE)
ColumnBelow(y, r, area) == IF r.h < area.h THEN r.y + r.h ELSE y
PlaceColumn(w, g, area, column) ==
  LET below[i \in 0 .. Len(column.q)] ==
        IF i = 0 THEN area.y
        ELSE ColumnBelow(below[i - 1],
               ColumnClient(w, g, area, column, i, below[i - 1]).rect, area)
  IN below

\* Fault: the last column gets no more than the others.
ColumnSameSize(q, n, i) ==
  SubSeq(q, (i - 1) * (Len(q) \div n) + 1, i * (Len(q) \div n))

\* The i-th of n columns for the clients q; the last one takes the remainder.
Column(q, n, i) ==
  SubSeq(q, (i - 1) * (Len(q) \div n) + 1,
            IF i = n THEN Len(q) ELSE i * (Len(q) \div n))

\* n columns for q from x on, each of width w.
Columns(q, n, x, w) ==
  [i \in 1 .. n |-> [q |-> Column(q, n, i), x |-> x + (i - 1) * w, w |-> w]]

\* Master columns, right columns, and the left column in front of them;
\* wide[i] is the width of a column of each sort.
AllColumns(masters, right, left, nm, nr, x, wide) ==
  LET x1 == IF left = << >> THEN x ELSE x + wide[1]
  IN Columns(masters, nm, x1, wide[2])
       \o Columns(right, nr, x1 + nm * wide[2], wide[3])
       \o << [q |-> left, x |-> x, w |-> wide[1]] >>

SumOfColFacts(fact, right, left, nm, nr) ==
  (IF left = << >> THEN 0 ELSE fact[1]) + nm * fact[2]
    + (IF right = << >> THEN 0 ELSE nr * fact[3])

Widths(fact, ww, sum) == [i \in 1 .. 3 |-> (ww * fact[i]) \div sum]

\* At least one column of a sort, and no more than it has clients.
NumberOfColumns(n, len) == Bigger(Smaller(len, n), 1)

PlaceColumns(w, g, mon, area, masters, right, left, nm, nr) ==
  InColumns(g,
    AllColumns(masters, right, left, nm, nr, area.x,
      Widths(mon.colfact, area.w,
             SumOfColFacts(mon.colfact, right, left, nm, nr))),
    LAMBDA column, i :
      ColumnClient(w, g, area, column, i, PlaceColumn(w, g, area, column)[i - 1]))

\* varcol() once the left clients are at the end of the list (VarCol in
\* DwmState). Without a master it places nothing.
VarColumns(w, g, mon, area, masters, others) ==
  LET left == Keep(others, {c \in Client : IsLeft(w, c)})
      right == Keep(others, {c \in Client : ~IsLeft(w, c)})
  IN IF masters = << >> THEN g
     ELSE PlaceColumns(w, g, mon, area, masters, right, left,
                       NumberOfColumns(mon.nmastercols, Len(masters)),
                       NumberOfColumns(mon.nrightcols, Len(right)))

ArrangeTiled(w, g, m, area, q) ==
  CASE w.lt[m][w.sellt[m]] = "varcol" ->
         VarColumns(w, g, g.mons[m], area,
                    SubSeq(q, 1, Smaller(w.nmaster[m], Len(q))),
                    SubSeq(q, w.nmaster[m] + 1, Len(q)))
    [] w.lt[m][w.sellt[m]] = "monocle" -> Monocle(w, g, area, q)
    [] OTHER -> Tile(w, g, m, area, q)

ArrangeMonitor(w, g, m) == ArrangeTiled(w, g, m, Work(g, m), TiledOn(w, m))

\* showhide() on the monitors ms: floating clients in view are brought back to
\* their monitor.
ShowFloating(w, g, ms) ==
  [g EXCEPT !.win = [c \in Client |->
     IF /\ \E m \in ms : Contains(w.stack[m], c)
        /\ Visible(w, c) /\ w.isfloating[c] /\ ~w.isfullscreen[c]
     THEN Resize(w, g, c, @[c].rect, FALSE) ELSE @[c]]]

\* arrange() for the monitors ms, which have no client in common.
ArrangedIn(w, g, ms) ==
  LET h == ShowFloating(w, g, ms)
      laid == [m \in ms |-> ArrangeMonitor(w, h, m).win]
  IN [h EXCEPT !.win = [c \in Client |->
        IF w.mon[c] \in ms THEN laid[w.mon[c]][c] ELSE @[c]]]
Arranged(w, g, m) == ArrangedIn(w, g, {m})
ArrangedAll(w, g) == ArrangedIn(w, g, Mons(w))
=============================================================================
