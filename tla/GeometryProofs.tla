--------------------------- MODULE GeometryProofs ---------------------------
(***************************************************************************)
(* Where windows are, for any monitors, windows, hints and commands: a     *)
(* fullscreen window covers its monitor and gives back the geometry it had *)
(* before, the X server knows the size of a window, arranging brings       *)
(* windows back to their monitors, and a window that is dropped belongs to *)
(* the monitor that shows most of it.                                      *)
(***************************************************************************)
EXTENDS Geometry, ClientInvariant

-----------------------------------------------------------------------------
(* Types                                                                   *)

\* The records of a window and of a monitor, and the geometry.
Window == [ rect : Rect, old : Rect, size : Int \X Int, cfact : Nat \ {0},
            hints : Hints ]
Screen == [ bar : Nat, barwin : BOOLEAN, showbar : BOOLEAN, mfact : Int,
            colfact : [1 .. 3 -> Nat \ {0}], nmastercols : Nat,
            nrightcols : Nat ]
Screens == [ mode : [Mon -> Rect], bh : Nat, mons : [Mon -> Screen],
             win : [Client -> Window] ]

\* A rectangle with something in it.
Solid(r) == r.w >= 1 /\ r.h >= 1

\* The X server has the size dwm has.
SizeKnown(v) == v.size = <<v.rect.w, v.rect.h>>

LEMMA RectFields ==
  ASSUME NEW r \in Rect
  PROVE  r.x \in Int /\ r.y \in Int /\ r.w \in Int /\ r.h \in Int
BY DEF Rect

LEMMA WorkType ==
  ASSUME NEW g \in Screens, NEW m \in Mon
  PROVE  Work(g, m) \in Rect
<1> DEFINE bar == IF g.mons[m].showbar THEN g.mons[m].bar ELSE 0
<1>1. g.mode[m] \in Rect /\ bar \in Int
  BY DEF Screens, Screen
<1>2. Work(g, m) = [g.mode[m] EXCEPT !.y = @ + bar, !.h = @ - bar]
  BY DEF Work
<1>3. ASSUME NEW r \in Rect, NEW b \in Int
      PROVE  [r EXCEPT !.y = @ + b, !.h = @ - b] \in Rect
  <2>1. r.y + b \in Int /\ r.h - b \in Int
    BY RectFields
  <2> DEFINE y == r.y + b
             h == r.h - b
  <2>2. y \in Int /\ h \in Int
    BY <2>1
  <2> HIDE DEF y, h
  <2>3. [r EXCEPT !.y = y, !.h = h] \in Rect
    BY <2>2 DEF Rect
  <2> QED BY <2>3 DEF y, h
<1> HIDE DEF bar
<1> QED BY <1>1, <1>2, <1>3

LEMMA WindowFields ==
  ASSUME NEW v \in Window
  PROVE  /\ v.rect \in Rect /\ v.old \in Rect /\ v.cfact \in Nat \ {0}
         /\ v.hints \in Hints /\ v.size \in Int \X Int
BY DEF Window

LEMMA ScreensFields ==
  ASSUME NEW g \in Screens
  PROVE  /\ \A c \in Client : g.win[c] \in Window
         /\ \A m \in Mon : g.mode[m] \in Rect /\ g.mons[m] \in Screen
         /\ g.bh \in Nat
BY DEF Screens

-----------------------------------------------------------------------------
(* Numbers                                                                 *)

\* One of finitely many integers is the greatest.
LEMMA Greatest ==
  ASSUME NEW n \in Nat, n # 0, NEW f, \A i \in 1 .. n : f[i] \in Int
  PROVE  \E k \in 1 .. n : \A i \in 1 .. n : f[i] <= f[k]
<1> DEFINE T == {j \in 0 .. n :
                   j = 0 \/ \E k \in 1 .. j : \A i \in 1 .. j : f[i] <= f[k]}
<1>1. 0 \in T
  OBVIOUS
<1>2. ASSUME NEW j \in 1 .. n, j - 1 \in T
      PROVE  j \in T
  <2>1. CASE j = 1
    BY <2>1
  <2>2. CASE j # 1
    <3>1. j - 1 \in 1 .. n /\ j - 1 # 0
      BY <2>2
    <3>2. PICK k \in 1 .. j - 1 : \A i \in 1 .. j - 1 : f[i] <= f[k]
      BY <1>2, <3>1
    <3>3. k \in 1 .. n /\ f[k] \in Int /\ f[j] \in Int
      BY <3>1, <3>2
    <3>4. \A i \in 1 .. j : i \in 1 .. j - 1 \/ i = j
      OBVIOUS
    <3>5. CASE f[k] <= f[j]
      <4>1. \A i \in 1 .. j - 1 : f[i] \in Int
        BY <3>1
      <4>2. \A i \in 1 .. j : f[i] <= f[j]
        BY <3>2, <3>3, <3>4, <3>5, <4>1
      <4> QED BY <4>2
    <3>6. CASE ~(f[k] <= f[j])
      <4>1. \A i \in 1 .. j : f[i] <= f[k]
        BY <3>2, <3>3, <3>4, <3>6
      <4> QED BY <3>2, <4>1
    <3> QED BY <3>5, <3>6
  <2> QED BY <2>1, <2>2
<1>3. \A j \in 0 .. n : j \in T
  <2> HIDE DEF T
  <2> QED BY <1>1, <1>2, InductionUpTo
<1>4. n \in T
  BY <1>3
<1> QED BY <1>4

\* The span of the screen.
LEMMA SpanType ==
  ASSUME NEW g \in Screens, NEW w, w.nmon \in Mon
  PROVE  Width(w, g) \in Int /\ Height(w, g) \in Int
<1> DEFINE n == w.nmon
           wide == [m \in 1 .. n |-> g.mode[m].x + g.mode[m].w]
           high == [m \in 1 .. n |-> g.mode[m].y + g.mode[m].h]
<1>1. n \in Nat /\ n # 0 /\ \A m \in 1 .. n : m \in Mon
  BY ConstantsAssumption DEF Mon
<1>2. \A m \in 1 .. n : g.mode[m] \in Rect
  BY <1>1, ScreensFields
<1>3. \A m \in 1 .. n : wide[m] \in Int /\ high[m] \in Int
  BY <1>2, RectFields
<1>4. Mons(w) = 1 .. n
  BY DEF Mons
<1>5. ASSUME NEW f, \A m \in 1 .. n : f[m] \in Int
      PROVE  Max({f[m] : m \in 1 .. n}) \in Int
  <2> HIDE DEF n
  <2>1. PICK k \in 1 .. n : \A i \in 1 .. n : f[i] <= f[k]
    BY <1>1, <1>5, Greatest
  <2>2. \E x \in {f[m] : m \in 1 .. n} : \A y \in {f[m] : m \in 1 .. n} : x >= y
    BY <1>5, <2>1
  <2> QED BY <1>5, <2>2 DEF Max
<1>6. /\ Width(w, g) = Max({wide[m] : m \in 1 .. n})
      /\ Height(w, g) = Max({high[m] : m \in 1 .. n})
  <2>1. {wide[m] : m \in 1 .. n} = {g.mode[m].x + g.mode[m].w : m \in 1 .. n}
    OBVIOUS
  <2>2. {high[m] : m \in 1 .. n} = {g.mode[m].y + g.mode[m].h : m \in 1 .. n}
    OBVIOUS
  <2> QED BY <1>4, <2>1, <2>2 DEF Width, Height
<1> HIDE DEF wide, high
<1> QED BY <1>3, <1>5, <1>6

-----------------------------------------------------------------------------
(* Size hints                                                              *)

LEMMA HintFields ==
  ASSUME NEW h \in Hints
  PROVE  /\ h.basew \in Int /\ h.baseh \in Int /\ h.minw \in Int
         /\ h.minh \in Int /\ h.maxw \in Int /\ h.maxh \in Int
         /\ h.incw \in Int /\ h.inch \in Int
         /\ h.mina[1] \in Int /\ h.mina[2] \in Nat \ {0}
         /\ h.maxa[1] \in Int /\ h.maxa[2] \in Nat \ {0}
BY DEF Hints

LEMMA BiggerType ==
  ASSUME NEW a \in Int, NEW b \in Int
  PROVE  /\ Bigger(a, b) \in Int /\ Bigger(a, b) >= a /\ Bigger(a, b) >= b
         /\ Smaller(a, b) \in Int /\ Smaller(a, b) <= a /\ Smaller(a, b) <= b
         /\ Bigger(a, b) \in {a, b} /\ Smaller(a, b) \in {a, b}
BY DEF Bigger, Smaller

LEMMA SteppedType ==
  ASSUME NEW len \in Int, NEW late \in Int, NEW base \in Int, NEW inc \in Int,
         NEW min \in Int, NEW max \in Int
  PROVE  Stepped(len, late, base, inc, min, max) \in Int
<1> DEFINE l == len - late
<1>1. l \in Int
  OBVIOUS
<1> HIDE DEF l
<1>2. inc # 0 => CMod(l, inc) \in Int
  <2>1. SUFFICES ASSUME inc # 0
                 PROVE  CMod(l, inc) \in Int
    OBVIOUS
  <2>2. Abs(inc) \in Int /\ Abs(inc) > 0
    BY <2>1 DEF Abs, Bigger
  <2>3. l % Abs(inc) \in Int /\ (-l) % Abs(inc) \in Int
    BY <1>1, <2>2
  <2> QED BY <2>3 DEF CMod
<1>3. WholeSteps(l, inc) \in Int
  BY <1>1, <1>2 DEF WholeSteps
<1>4. Bigger(WholeSteps(l, inc) + base, min) \in Int
  BY <1>3, BiggerType
<1>5. AtMost(Bigger(WholeSteps(l, inc) + base, min), max) \in Int
  BY <1>4, BiggerType DEF AtMost
<1> QED BY <1>5 DEF Stepped, l

LEMMA HintedSizeType ==
  ASSUME NEW hints \in Hints, NEW w \in Int, NEW h \in Int
  PROVE  HintedSize(hints, w, h) \in Int \X Int
<1> DEFINE bw == EarlyBase(hints, hints.basew)
           bh == EarlyBase(hints, hints.baseh)
           size == Aspect(hints, w - bw, h - bh)
<1>1. bw \in Int /\ bh \in Int
  BY HintFields DEF EarlyBase
<1>2. w - bw \in Int /\ h - bh \in Int
  BY <1>1
<1>3. size[1] \in Int /\ size[2] \in Int
  <2>1. ASSUME NEW n \in Int, NEW ratio, ratio[1] \in Int, ratio[2] \in Nat \ {0}
        PROVE  Scaled(n, ratio) \in Int
    <3>1. 2 * n * ratio[1] + ratio[2] \in Int /\ 2 * ratio[2] \in Nat \ {0}
      BY <2>1
    <3> QED BY <3>1 DEF Scaled
  <2> HIDE DEF bw, bh
  <2> QED BY <1>2, <2>1, HintFields DEF Aspect
<1> HIDE DEF size
<1>4. SteppedSize(hints, size) \in Int \X Int
  <2>1. /\ Stepped(size[1], hints.basew - bw, hints.basew, hints.incw,
                  hints.minw, hints.maxw) \in Int
        /\ Stepped(size[2], hints.baseh - bh, hints.baseh, hints.inch,
                  hints.minh, hints.maxh) \in Int
    <3>1. hints.basew - bw \in Int /\ hints.baseh - bh \in Int
      BY <1>1, HintFields
    <3> HIDE DEF bw, bh
    <3>2. /\ hints.basew \in Int /\ hints.incw \in Int /\ hints.minw \in Int
          /\ hints.maxw \in Int
      BY HintFields
    <3>3. /\ hints.baseh \in Int /\ hints.inch \in Int /\ hints.minh \in Int
          /\ hints.maxh \in Int
      BY HintFields
    <3>4. Stepped(size[1], hints.basew - bw, hints.basew, hints.incw,
                  hints.minw, hints.maxw) \in Int
      BY <1>3, <3>1, <3>2, SteppedType
    <3>5. Stepped(size[2], hints.baseh - bh, hints.baseh, hints.inch,
                  hints.minh, hints.maxh) \in Int
      BY <1>3, <3>1, <3>3, SteppedType
    <3> QED BY <3>4, <3>5
  <2> QED BY <2>1 DEF SteppedSize
<1> QED BY <1>4 DEF HintedSize, size

\* Without hints any size will do.
LEMMA HintedSizePlain ==
  ASSUME NEW w \in Nat, NEW h \in Nat
  PROVE  HintedSize(NoHints, w, h) = <<w, h>>
<1>1. /\ NoHints.basew = 0 /\ NoHints.baseh = 0 /\ NoHints.minw = 0
      /\ NoHints.minh = 0 /\ NoHints.maxw = 0 /\ NoHints.maxh = 0
      /\ NoHints.incw = 0 /\ NoHints.inch = 0 /\ NoHints.mina[1] = 0
  BY DEF NoHints
<1>2. EarlyBase(NoHints, 0) = 0
  BY DEF EarlyBase
<1>3. Aspect(NoHints, w, h) = <<w, h>>
  BY <1>1 DEF Aspect
<1>4. \A len \in Nat : Stepped(len, 0, 0, 0, 0, 0) = len
  BY DEF Stepped, WholeSteps, AtMost, Bigger
<1>5. SteppedSize(NoHints, <<w, h>>) = <<w, h>>
  BY <1>1, <1>2, <1>4 DEF SteppedSize
<1> QED BY <1>1, <1>2, <1>3, <1>5 DEF HintedSize

\* applysizehints() gives a rectangle, of at least one pixel when there are no
\* hints.
LEMMA ApplyType ==
  ASSUME NEW w \in State, NEW g \in Screens, NEW c \in Client, NEW r \in Rect,
         NEW interact \in BOOLEAN
  PROVE  LET a == ApplySizeHints(w, g, c, r, interact)
         IN a \in Rect /\ (g.win[c].hints = NoHints => Solid(a))
<1> DEFINE area == Work(g, w.mon[c])
           now == g.win[c].rect
           lw == Bigger(Bigger(1, g.bh), r.w)
           lh == Bigger(Bigger(1, g.bh), r.h)
           size == HintedSize(g.win[c].hints, lw, lh)
           q == [r EXCEPT !.w = Bigger(1, @), !.h = Bigger(1, @)]
           a == HintedRect(w, g, c, q, area, now, interact, size)
<1>1. /\ w.mon[c] \in Mon /\ w.nmon \in Mon /\ g.win[c] \in Window
      /\ g.bh \in Nat
  BY StateFields, ScreensFields
<1>2. area \in Rect /\ now \in Rect /\ g.win[c].hints \in Hints
  BY <1>1, WorkType, WindowFields
<1>3. lw \in Nat /\ lw >= 1 /\ lh \in Nat /\ lh >= 1
  <2>1. Bigger(1, g.bh) \in Nat /\ Bigger(1, g.bh) >= 1
    BY <1>1 DEF Bigger
  <2> DEFINE b == Bigger(1, g.bh)
  <2>2. \A n \in Int : Bigger(b, n) \in Nat /\ Bigger(b, n) >= 1
    <3> HIDE DEF b
    <3> QED BY <2>1 DEF Bigger, b
  <2> QED BY <2>2, RectFields
<1> HIDE DEF lw, lh
<1>4. size \in Int \X Int
  BY <1>2, <1>3, HintedSizeType
<1>5. g.win[c].hints = NoHints => size[1] >= 1 /\ size[2] >= 1
  BY <1>3, HintedSizePlain
<1>6. Width(w, g) \in Int /\ Height(w, g) \in Int
  BY <1>1, SpanType
<1>7. q.x \in Int /\ q.y \in Int /\ q.w \in Int /\ q.h \in Int
  <2>1. q.x = r.x /\ q.y = r.y /\ q.w = Bigger(1, r.w) /\ q.h = Bigger(1, r.h)
    BY DEF Rect
  <2> QED BY <2>1, RectFields, BiggerType
<1> HIDE DEF size, q, area, now
<1>8. \A p \in Int, len \in Int, from \in Int, to \in Int, mine \in Int :
        OnMonitor(p, len, from, to, mine) \in Int
  BY DEF OnMonitor, NotBefore
<1>9. \A p \in Int, len \in Int, to \in Int, mine \in Int :
        StartsOnScreen(p, len, to, mine) \in Int
  BY DEF StartsOnScreen, NotOff
<1>10. a.x \in Int /\ a.y \in Int
  <2>1. /\ area.x \in Int /\ area.y \in Int
        /\ area.x + area.w \in Int /\ area.y + area.h \in Int
        /\ now.w \in Int /\ now.h \in Int
    BY <1>2, RectFields
  <2>2. /\ OnMonitor(q.x, q.w, area.x, area.x + area.w, now.w) \in Int
        /\ OnMonitor(q.y, q.h, area.y, area.y + area.h, now.h) \in Int
    BY <1>7, <1>8, <2>1
  <2>3. /\ StartsOnScreen(q.x, q.w, Width(w, g), now.w) \in Int
        /\ StartsOnScreen(q.y, q.h, Height(w, g), now.h) \in Int
    BY <1>6, <1>7, <1>9, <2>1
  <2>4. /\ a.x = IF interact THEN StartsOnScreen(q.x, q.w, Width(w, g), now.w)
                 ELSE OnMonitor(q.x, q.w, area.x, area.x + area.w, now.w)
        /\ a.y = IF interact THEN StartsOnScreen(q.y, q.h, Height(w, g), now.h)
                 ELSE OnMonitor(q.y, q.h, area.y, area.y + area.h, now.h)
    BY DEF HintedRect
  <2> QED BY <2>2, <2>3, <2>4
<1>11. /\ a = [x |-> a.x, y |-> a.y, w |-> size[1], h |-> size[2]]
       /\ a.w = size[1] /\ a.h = size[2]
  BY DEF HintedRect
<1> HIDE DEF a
<1>12. a \in Rect
  BY <1>4, <1>10, <1>11 DEF Rect
<1>13. g.win[c].hints = NoHints => Solid(a)
  BY <1>5, <1>11 DEF Solid
<1> QED BY <1>12, <1>13 DEF ApplySizeHints, a, area, now, q, size, lw, lh

\* The window of c with another geometry, which the X server knows of.
Reshaped(w, g, c, v) ==
  /\ v \in Window /\ SizeKnown(v)
  /\ v.cfact = g.win[c].cfact /\ v.hints = g.win[c].hints
  /\ v.old = IF w.isfullscreen[c] THEN g.win[c].rect ELSE NoRect

LEMMA SetGeometryType ==
  ASSUME NEW w, NEW g \in Screens, NEW c \in Client, NEW r \in Rect
  PROVE  /\ Reshaped(w, g, c, SetGeometry(w, g, c, r))
         /\ SetGeometry(w, g, c, r).rect = r
<1> DEFINE old == IF w.isfullscreen[c] THEN g.win[c].rect ELSE NoRect
           u == g.win[c]
<1>1. u \in Window /\ u.rect \in Rect
  BY ScreensFields, WindowFields
<1>2. old \in Rect
  BY <1>1 DEF NoRect, Rect
<1>3. SetGeometry(w, g, c, r) =
        [u EXCEPT !.rect = r, !.size = <<r.w, r.h>>, !.old = old]
  BY DEF SetGeometry
<1>4. <<r.w, r.h>> \in Int \X Int
  BY RectFields
<1> HIDE DEF u, old
<1> DEFINE v == [u EXCEPT !.rect = r, !.size = <<r.w, r.h>>, !.old = old]
<1>5. /\ v.rect = r /\ v.size = <<r.w, r.h>> /\ v.old = old
      /\ v.cfact = u.cfact /\ v.hints = u.hints
  BY <1>1 DEF Window
<1>6. v \in Window
  BY <1>1, <1>2, <1>4 DEF Window
<1> HIDE DEF v
<1> QED BY <1>3, <1>5, <1>6 DEF Reshaped, SizeKnown, u, old, v

LEMMA ApartType ==
  ASSUME NEW r \in Rect, NEW M \in Rect
  PROVE  Apart(r, Edges(r, M, 2 * Gap(M)), Gap(M)) \in Rect
<1> DEFINE at == Edges(r, M, 2 * Gap(M))
           gap == Gap(M)
           N == IF at.N THEN 0 ELSE gap
           E == IF at.E THEN 0 ELSE gap \div 2
           W == IF at.W THEN 0 ELSE gap - gap \div 2
<1>1. gap \in Int
  BY DEF Gap, gappx
<1> HIDE DEF at, gap
<1>2. N \in Int /\ E \in Int /\ W \in Int
  BY <1>1
<1>3. Apart(r, at, gap) = r \/
      Apart(r, at, gap) = [x |-> r.x + W, y |-> r.y + N, w |-> r.w - (W + E),
                           h |-> r.h - 1 - N]
  BY DEF Apart
<1> HIDE DEF N, E, W
<1>4. [x |-> r.x + W, y |-> r.y + N, w |-> r.w - (W + E), h |-> r.h - 1 - N]
        \in Rect
  BY <1>2, RectFields DEF Rect
<1>5. Apart(r, at, gap) \in Rect
  BY <1>3, <1>4
<1> QED BY <1>5 DEF at, gap

\* resizeclient() tells the X server, and gives a floating client what it is
\* asked for.
LEMMA ResizeClientType ==
  ASSUME NEW w \in State, NEW g \in Screens, NEW c \in Client, NEW r \in Rect
  PROVE  /\ Reshaped(w, g, c, ResizeClient(w, g, c, r))
         /\ w.isfloating[c] => ResizeClient(w, g, c, r).rect = r
<1> DEFINE M == g.mode[w.mon[c]]
           a == IF w.isfloating[c] THEN r
                ELSE Apart(r, Edges(r, M, 2 * Gap(M)), Gap(M))
<1>1. M \in Rect
  BY StateFields, ScreensFields
<1>2. a \in Rect
  BY <1>1, ApartType
<1>3. ResizeClient(w, g, c, r) = SetGeometry(w, g, c, a)
  BY DEF ResizeClient
<1>4. w.isfloating[c] => a = r
  OBVIOUS
<1> HIDE DEF a
<1> QED BY <1>2, <1>3, <1>4, SetGeometryType

\* resize(): nothing, or resizeclient().
LEMMA ResizeFacts ==
  ASSUME NEW w \in State, NEW g \in Screens, NEW c \in Client, NEW r \in Rect,
         NEW interact \in BOOLEAN
  PROVE  LET v == Resize(w, g, c, r, interact)
             a == ApplySizeHints(w, g, c, r, interact)
         IN /\ v \in Window /\ v.cfact = g.win[c].cfact
            /\ v.hints = g.win[c].hints
            /\ (v = g.win[c] /\ a = g.win[c].rect) \/ SizeKnown(v)
            /\ w.isfloating[c] => v.rect = a
            /\ a \in Rect /\ (g.win[c].hints = NoHints => Solid(a))
<1> DEFINE a == ApplySizeHints(w, g, c, r, interact)
<1>1. a \in Rect /\ (g.win[c].hints = NoHints => Solid(a))
  BY ApplyType
<1>2. Resize(w, g, c, r, interact) =
        IF a = g.win[c].rect THEN g.win[c] ELSE ResizeClient(w, g, c, a)
  BY DEF Resize, ResizeIfNew
<1>3. g.win[c] \in Window
  BY ScreensFields
<1> HIDE DEF a
<1>4. CASE a = g.win[c].rect
  BY <1>1, <1>2, <1>3, <1>4 DEF a
<1>5. CASE a # g.win[c].rect
  BY <1>1, <1>2, <1>5, ResizeClientType DEF Reshaped, a
<1> QED BY <1>4, <1>5

-----------------------------------------------------------------------------
(* Sharing a column                                                        *)

LEMMA ProductGrows ==
  ASSUME NEW a \in Nat, NEW b \in Nat, NEW k \in Nat, a <= b
  PROVE  a * k \in Nat /\ a * k <= b * k
<1>1. b - a \in Nat
  OBVIOUS
<1>2. (b - a) * k \in Nat /\ a * k \in Nat /\ b * k \in Nat
  BY <1>1
<1>3. b * k = a * k + (b - a) * k
  OBVIOUS
<1> QED BY <1>2, <1>3

LEMMA QuotientFits ==
  ASSUME NEW len \in Nat, NEW n \in Nat \ {0}
  PROVE  len \div n \in Nat /\ n * (len \div n) <= len
OBVIOUS

LEMMA QuotientType ==
  ASSUME NEW a \in Int, NEW b \in Int, NEW n \in Nat, n # 0
  PROVE  (a * b) \div n \in Int
<1>1. a * b \in Int
  OBVIOUS
<1> QED BY <1>1

\* The sums of the factors, which are at least 1.
SumsOf(sum, g, q) ==
  /\ sum[0] = 0
  /\ \A i \in 1 .. Len(q) : sum[i] = sum[i - 1] + g.win[q[i]].cfact
  /\ \A i \in 0 .. Len(q) : sum[i] \in Nat

LEMMA CFactSumsUnfold ==
  ASSUME NEW g \in Screens, NEW q \in Seq(Client)
  PROVE  SumsOf(CFactSums(g, q), g, q)
<1> DEFINE n == Len(q)
           Up(f) == f = [i \in 0 .. n |->
                           IF i = 0 THEN 0 ELSE f[i - 1] + g.win[q[i]].cfact]
           sum == CHOOSE f : Up(f)
<1>1. CFactSums(g, q) = sum
  BY Zenon DEF CFactSums
<1>2. n \in Nat /\ \A i \in 1 .. n : q[i] \in Client
  BY LenProperties, ElementOfSeq
<1>3. \A i \in 1 .. n : g.win[q[i]].cfact \in Nat
  BY <1>2, ScreensFields, WindowFields
<1> HIDE DEF n
<1> DEFINE step == [p \in (1 .. n) \X Nat |-> p[2] + g.win[q[p[1]]].cfact]
<1>4. PICK f : Recursion(f, Nat, n, 0, step)
  <2>1. step \in [(1 .. n) \X Nat -> Nat]
    BY <1>3
  <2> HIDE DEF step
  <2> QED BY <1>2, <2>1, RecursionExists
<1>5. /\ f \in [0 .. n -> Nat] /\ f[0] = 0
      /\ \A i \in 1 .. n : f[i] = f[i - 1] + g.win[q[i]].cfact
  <2>1. \A i \in 1 .. n : i - 1 \in 0 .. n
    BY <1>2
  <2> QED BY <1>4, <2>1 DEF Recursion
<1>6. Up(f)
  <2>1. \A i \in 0 .. n : i # 0 => i \in 1 .. n
    BY <1>2
  <2> QED BY <1>5, <2>1
<1>7. Up(sum)
  BY <1>6
<1>8. \A i \in 0 .. n :
        sum[i] = IF i = 0 THEN 0 ELSE sum[i - 1] + g.win[q[i]].cfact
  BY <1>7, Zenon
<1> HIDE DEF sum
<1>9. sum[0] = 0 /\ \A i \in 1 .. n : sum[i] = sum[i - 1] + g.win[q[i]].cfact
  <2>1. 0 \in 0 .. n /\ \A i \in 1 .. n : i \in 0 .. n /\ i # 0
    BY <1>2
  <2> QED BY <1>8, <2>1, Zenon
<1>10. \A i \in 0 .. n : sum[i] \in Nat
  <2> DEFINE T == {i \in 0 .. n : sum[i] \in Nat}
  <2>1. 0 \in T
    BY <1>2, <1>9
  <2>2. ASSUME NEW i \in 1 .. n, i - 1 \in T
        PROVE  i \in T
    BY <1>3, <1>9, <2>2
  <2>3. \A i \in 0 .. n : i \in T
    <3> HIDE DEF T
    <3> QED BY <1>2, <2>1, <2>2, InductionUpTo
  <2> QED BY <2>3
<1> QED BY <1>1, <1>9, <1>10 DEF SumsOf, n

\* Later sums are no smaller: something is left for every client.
LEMMA SumsGrow ==
  ASSUME NEW g \in Screens, NEW q \in Seq(Client), NEW sum, SumsOf(sum, g, q),
         NEW i \in 1 .. Len(q)
  PROVE  /\ \A k \in i .. Len(q) : sum[k] >= sum[i]
         /\ sum[Len(q)] - sum[i - 1] >= g.win[q[i]].cfact
         /\ sum[Len(q)] - sum[i - 1] \in Nat \ {0}
         /\ g.win[q[i]].cfact \in Nat \ {0}
<1> DEFINE n == Len(q)
<1>1. n \in Nat /\ \A k \in 1 .. n : q[k] \in Client
  BY LenProperties, ElementOfSeq
<1>2. \A k \in 1 .. n : g.win[q[k]].cfact \in Nat \ {0}
  BY <1>1, ScreensFields, WindowFields
<1>3. /\ \A k \in 0 .. n : sum[k] \in Nat
      /\ \A k \in 1 .. n : sum[k] = sum[k - 1] + g.win[q[k]].cfact
      /\ i \in 1 .. n
  BY DEF SumsOf
<1> HIDE DEF n
<1> DEFINE T == {k \in 0 .. n : k >= i => sum[k] >= sum[i]}
<1>4. 0 \in T
  BY <1>1, <1>3
<1>5. ASSUME NEW k \in 1 .. n, k - 1 \in T
      PROVE  k \in T
  <2>1. sum[k] = sum[k - 1] + g.win[q[k]].cfact
    BY <1>3
  <2>2. k \in 0 .. n /\ k - 1 \in 0 .. n /\ i \in 0 .. n
    BY <1>1, <1>3
  <2>3. sum[k] \in Nat /\ sum[k - 1] \in Nat /\ sum[i] \in Nat
    BY <1>3, <2>2
  <2>4. CASE k - 1 >= i
    BY <1>2, <1>5, <2>1, <2>2, <2>3, <2>4
  <2>5. CASE k = i
    BY <2>2, <2>3, <2>5
  <2>6. CASE k < i
    BY <1>3, <2>2, <2>6
  <2> QED BY <1>3, <2>4, <2>5, <2>6
<1>6. \A k \in 0 .. n : k \in T
  <2> HIDE DEF T
  <2> QED BY <1>1, <1>4, <1>5, InductionUpTo
<1>7. \A k \in i .. n : sum[k] >= sum[i]
  BY <1>1, <1>3, <1>6
<1>8. sum[n] >= sum[i] /\ sum[i] = sum[i - 1] + g.win[q[i]].cfact
  BY <1>1, <1>3, <1>7
<1>9. /\ sum[n] \in Nat /\ sum[i] \in Nat /\ sum[i - 1] \in Nat
      /\ g.win[q[i]].cfact \in Nat \ {0}
  BY <1>1, <1>2, <1>3
<1>10. /\ sum[n] - sum[i - 1] >= g.win[q[i]].cfact
       /\ sum[n] - sum[i - 1] \in Nat \ {0}
  <2> DEFINE last == sum[n]
             here == sum[i]
             before == sum[i - 1]
             part == g.win[q[i]].cfact
  <2>1. /\ last \in Nat /\ here \in Nat /\ before \in Nat /\ part \in Nat \ {0}
        /\ last >= here /\ here = before + part
    BY <1>8, <1>9
  <2> HIDE DEF last, here, before, part
  <2>2. last - before >= part /\ last - before \in Nat \ {0}
    BY <2>1
  <2> QED BY <2>2 DEF last, before, part
<1> QED BY <1>7, <1>9, <1>10 DEF n

-----------------------------------------------------------------------------
(* What a layout may do                                                    *)

\* A layout moves tiled windows only, and the X server learns the size it
\* gives a window, unless that has hints.
Laid(w, g, c, v) ==
  /\ v \in Window /\ v.cfact = g.win[c].cfact /\ v.hints = g.win[c].hints
  /\ v # g.win[c] => /\ ~w.isfloating[c]
                     /\ SizeKnown(v) \/ v.hints # NoHints

\* The monitors stay as they are.
SameScreens(g, h) ==
  h \in Screens /\ h.mode = g.mode /\ h.bh = g.bh /\ h.mons = g.mons

AllLaid(w, g, h) == SameScreens(g, h) /\ \A c \in Client : Laid(w, g, c, h.win[c])

LEMMA LaidSame ==
  ASSUME NEW w, NEW g \in Screens
  PROVE  AllLaid(w, g, g)
BY ScreensFields DEF AllLaid, SameScreens, Laid

LEMMA NewWindows ==
  ASSUME NEW g \in Screens, NEW win \in [Client -> Window]
  PROVE  /\ SameScreens(g, [g EXCEPT !.win = win])
         /\ [g EXCEPT !.win = win].win = win
<1>1. [g EXCEPT !.win = win] \in Screens
  BY DEF Screens
<1>2. {"mode", "bh", "mons", "win"} \subseteq DOMAIN g
  BY DEF Screens
<1> QED BY <1>1, <1>2 DEF SameScreens

LEMMA WindowsLaid ==
  ASSUME NEW w, NEW g \in Screens, NEW f,
         \A c \in Client : Laid(w, g, c, f[c])
  PROVE  AllLaid(w, g, [g EXCEPT !.win = [c \in Client |-> f[c]]])
<1> DEFINE win == [c \in Client |-> f[c]]
           h == [g EXCEPT !.win = win]
<1>1. win \in [Client -> Window]
  BY DEF Laid
<1>2. \A c \in Client : win[c] = f[c]
  OBVIOUS
<1> HIDE DEF win
<1>3. SameScreens(g, h) /\ h.win = win
  BY <1>1, NewWindows
<1> HIDE DEF h
<1> QED BY <1>2, <1>3 DEF AllLaid, h, win

LEMMA ResizeLaid ==
  ASSUME NEW w \in State, NEW g \in Screens, NEW c \in Client, NEW r \in Rect,
         ~w.isfloating[c]
  PROVE  Laid(w, g, c, Resize(w, g, c, r, FALSE))
BY ResizeFacts DEF Laid

\* A column of tiled clients.
IsColumn(w, column) ==
  /\ column.q \in Seq(Client) /\ column.x \in Int /\ column.w \in Int
  /\ \A c \in ToSet(column.q) : ~w.isfloating[c]

LEMMA ColumnClients ==
  ASSUME NEW w, NEW column, IsColumn(w, column)
  PROVE  /\ Len(column.q) \in Nat
         /\ \A i \in 1 .. Len(column.q) : /\ column.q[i] \in Client
                                          /\ ~w.isfloating[column.q[i]]
<1>1. column.q \in Seq(Client)
  BY DEF IsColumn
<1>2. /\ Len(column.q) \in Nat /\ DOMAIN column.q = 1 .. Len(column.q)
      /\ \A i \in 1 .. Len(column.q) : column.q[i] \in Client
  BY <1>1, LenProperties, ElementOfSeq
<1>3. \A i \in 1 .. Len(column.q) : column.q[i] \in ToSet(column.q)
  BY <1>2 DEF ToSet
<1> QED BY <1>2, <1>3 DEF IsColumn

\* The column in which a client is found, and its place in it.
Found(columns, c, k, i) ==
  /\ k \in 1 .. Len(columns) /\ i \in 1 .. Len(columns[k].q)
  /\ columns[k].q[i] = c

LEMMA ColumnFound ==
  ASSUME NEW w, NEW columns, Len(columns) \in Nat,
         \A j \in 1 .. Len(columns) : IsColumn(w, columns[j]),
         NEW c, NEW k, k = ColumnOf(columns, c), k # 0
  PROVE  Found(columns, c, k, IndexOf(columns[k].q, c))
<1> DEFINE n == Len(columns)
           I == {j \in 1 .. n : Contains(columns[j].q, c)}
           i == IndexOf(columns[k].q, c)
<1>1. k = IF I # {} THEN Min(I) ELSE 0
  BY DEF SelectInSeq, ColumnOf
<1>2. I \in SUBSET Nat
  OBVIOUS
<1>3. k \in I
  BY <1>1, <1>2, MinNat
<1>4. k \in 1 .. n /\ Contains(columns[k].q, c) /\ columns[k].q \in Seq(Client)
  BY <1>3 DEF IsColumn
<1>5. i \in 0 .. Len(columns[k].q) /\ i # 0 /\ columns[k].q[i] = c
  BY <1>4, IndexOfRange
<1>6. Len(columns[k].q) \in Nat
  BY <1>4, LenProperties
<1> QED BY <1>4, <1>5, <1>6 DEF Found

-----------------------------------------------------------------------------
(* tile()                                                                  *)

LEMMA RectangleType ==
  ASSUME NEW x \in Int, NEW y \in Int, NEW a \in Int, NEW b \in Int
  PROVE  Rectangle(x, y, a, b) \in Rect
BY DEF Rectangle, Rect

LEMMA TileClientLaid ==
  ASSUME NEW w \in State, NEW g \in Screens, NEW area \in Rect,
         NEW column, IsColumn(w, column), NEW i \in 1 .. Len(column.q),
         NEW y \in Int
  PROVE  Laid(w, g, column.q[i], TileClient(w, g, area, column, i, y))
<1> DEFINE c == column.q[i]
           q == column.q
           sum == CFactSums(g, q)
           facts == sum[Len(q)] - sum[i - 1]
           high == ((area.h - y) * g.win[c].cfact) \div facts
           r == Rectangle(column.x, area.y + y, column.w, high)
<1>1. c \in Client /\ ~w.isfloating[c] /\ q \in Seq(Client)
  BY ColumnClients DEF IsColumn
<1>2. facts \in Nat \ {0} /\ g.win[c].cfact \in Nat \ {0}
  BY <1>1, CFactSumsUnfold, SumsGrow
<1>3. area.h - y \in Int /\ area.y + y \in Int /\ g.win[c].cfact \in Int
  BY <1>2, RectFields
<1>4. TileClient(w, g, area, column, i, y) = Resize(w, g, c, r, FALSE)
  BY DEF TileClient
<1> HIDE DEF facts
<1>5. high \in Int
  BY <1>2, <1>3, QuotientType
<1> HIDE DEF high
<1>6. r \in Rect
  BY <1>3, <1>5, RectangleType DEF IsColumn
<1> HIDE DEF r, c
<1>7. Laid(w, g, c, Resize(w, g, c, r, FALSE))
  BY <1>1, <1>6, ResizeLaid
<1> QED BY <1>4, <1>7 DEF c

LEMMA TileColumnType ==
  ASSUME NEW w \in State, NEW g \in Screens, NEW area \in Rect,
         NEW column, IsColumn(w, column)
  PROVE  \A i \in 0 .. Len(column.q) : TileColumn(w, g, area, column)[i] \in Int
<1> DEFINE n == Len(column.q)
           Below(i, y) ==
             TileBelow(y, TileClient(w, g, area, column, i, y).rect, area)
           Up(f) == f = [i \in 0 .. n |->
                           IF i = 0 THEN 0 ELSE Below(i, f[i - 1])]
           used == CHOOSE f : Up(f)
<1>1. TileColumn(w, g, area, column) = used
  BY Zenon DEF TileColumn
<1>2. n \in Nat
  BY ColumnClients
<1>3. ASSUME NEW i \in 1 .. n, NEW y \in Int
      PROVE  Below(i, y) \in Int
  <2> DEFINE v == TileClient(w, g, area, column, i, y)
  <2>1. v \in Window
    BY TileClientLaid DEF Laid
  <2> HIDE DEF v
  <2>2. v.rect.h \in Int
    BY <2>1, WindowFields, RectFields
  <2>3. TileBelow(y, v.rect, area) \in Int
    BY <2>2 DEF TileBelow
  <2> QED BY <2>3 DEF v
<1> HIDE DEF n, Below
<1> DEFINE step == [p \in (1 .. n) \X Int |-> Below(p[1], p[2])]
<1>4. PICK f : Recursion(f, Int, n, 0, step)
  <2>1. step \in [(1 .. n) \X Int -> Int] /\ 0 \in Int
    BY <1>3
  <2> HIDE DEF step, Up, used
  <2> QED BY <1>2, <2>1, RecursionExists
<1>5. /\ f \in [0 .. n -> Int] /\ f[0] = 0
      /\ \A i \in 1 .. n : f[i] = Below(i, f[i - 1])
  <2>1. \A i \in 1 .. n : i - 1 \in 0 .. n
    BY <1>2
  <2> QED BY <1>4, <2>1 DEF Recursion
<1>6. Up(f)
  <2>1. \A i \in 0 .. n : i # 0 => i \in 1 .. n
    BY <1>2
  <2> QED BY <1>5, <2>1
<1>7. Up(used)
  BY <1>6
<1>8. \A i \in 0 .. n : used[i] = IF i = 0 THEN 0 ELSE Below(i, used[i - 1])
  BY <1>7, Zenon
<1> HIDE DEF used
<1> DEFINE T == {i \in 0 .. n : used[i] \in Int}
<1>9. 0 \in T
  BY <1>2, <1>8
<1>10. ASSUME NEW i \in 1 .. n, i - 1 \in T
       PROVE  i \in T
  BY <1>3, <1>8, <1>10
<1>11. \A i \in 0 .. n : i \in T
  <2> HIDE DEF T
  <2> QED BY <1>2, <1>9, <1>10, InductionUpTo
<1> QED BY <1>1, <1>11 DEF n

\* A part of the tiled clients q.
LEMMA PartOfColumn ==
  ASSUME NEW w, NEW q, List(q), \A c \in ToSet(q) : ~w.isfloating[c],
         NEW a \in Nat, NEW b \in Nat, 1 <= a, b <= Len(q),
         NEW x \in Int, NEW wide \in Int
  PROVE  IsColumn(w, [q |-> SubSeq(q, a, b), x |-> x, w |-> wide])
<1>1. List(SubSeq(q, a, b)) /\ ToSet(SubSeq(q, a, b)) = {q[i] : i \in a .. b}
  BY SubList
<1>2. ToSet(q) = {q[i] : i \in 1 .. Len(q)} /\ Len(q) \in Nat
  BY ListFacts
<1>3. \A i \in a .. b : i \in 1 .. Len(q)
  BY <1>2
<1>4. ToSet(SubSeq(q, a, b)) \subseteq ToSet(q)
  BY <1>1, <1>2, <1>3
<1> QED BY <1>1, <1>4 DEF IsColumn, List

LEMMA TileLaid ==
  ASSUME NEW w \in State, NEW g \in Screens, NEW m \in Mon, NEW area \in Rect,
         NEW q, List(q), \A c \in ToSet(q) : ~w.isfloating[c]
  PROVE  AllLaid(w, g, Tile(w, g, m, area, q))
<1> DEFINE mw == MasterWidth(w, g, m, area, Len(q))
           columns == TileColumns(q, w.nmaster[m], area, mw)
           Goes(c) == TileClient(w, g, area, columns[ColumnOf(columns, c)],
                        IndexOf(columns[ColumnOf(columns, c)].q, c),
                        TileColumn(w, g, area, columns[ColumnOf(columns, c)])
                          [IndexOf(columns[ColumnOf(columns, c)].q, c) - 1])
           f == [c \in Client |->
                   IF ColumnOf(columns, c) = 0 THEN g.win[c] ELSE Goes(c)]
<1>1. Len(q) \in Nat /\ w.nmaster[m] \in Nat /\ g.mons[m].mfact \in Int
  <2>1. Len(q) \in Nat
    BY ListFacts
  <2>2. w.nmaster[m] \in Nat
    BY DEF State
  <2>3. g.mons[m].mfact \in Int
    BY ScreensFields DEF Screen
  <2> QED BY <2>1, <2>2, <2>3
<1>2. mw \in Int
  <2>1. area.w \in Int
    BY RectFields
  <2>2. (area.w * g.mons[m].mfact) \div 100 \in Int
    BY <1>1, <2>1, QuotientType
  <2> QED BY <2>1, <2>2 DEF MasterWidth
<1>3. Len(columns) = 2
  BY DEF TileColumns
<1>4. \A j \in 1 .. 2 : IsColumn(w, columns[j])
  <2> HIDE DEF mw
  <2>1. /\ area.x \in Int /\ area.x + mw \in Int /\ area.w - mw \in Int
    BY <1>2, RectFields
  <2> DEFINE nm == Smaller(w.nmaster[m], Len(q))
             right == area.x + mw
             rest == area.w - mw
             from == w.nmaster[m] + 1
  <2>2. /\ nm \in Nat /\ nm <= Len(q) /\ from \in Nat /\ 1 <= from
        /\ 1 \in Nat /\ 1 <= 1 /\ Len(q) <= Len(q)
    BY <1>1 DEF Smaller
  <2>3. columns = << [q |-> SubSeq(q, 1, nm), x |-> area.x, w |-> mw],
                     [q |-> SubSeq(q, from, Len(q)), x |-> right, w |-> rest] >>
    BY DEF TileColumns
  <2>4. right \in Int /\ rest \in Int /\ area.x \in Int
    BY <2>1
  <2> HIDE DEF columns, nm, right, rest, from
  <2>5. IsColumn(w, [q |-> SubSeq(q, 1, nm), x |-> area.x, w |-> mw])
    BY <1>2, <2>2, <2>4, PartOfColumn
  <2>6. IsColumn(w, [q |-> SubSeq(q, from, Len(q)), x |-> right, w |-> rest])
    BY <1>1, <2>2, <2>4, PartOfColumn
  <2>7. columns[1] = [q |-> SubSeq(q, 1, nm), x |-> area.x, w |-> mw]
    BY <2>3
  <2>8. columns[2] = [q |-> SubSeq(q, from, Len(q)), x |-> right, w |-> rest]
    BY <2>3
  <2> QED BY <2>5, <2>6, <2>7, <2>8
<1>5. Tile(w, g, m, area, q) = [g EXCEPT !.win = [c \in Client |-> f[c]]]
  BY DEF Tile, InColumns
<1> HIDE DEF columns
<1>6. ASSUME NEW c \in Client
      PROVE  Laid(w, g, c, f[c])
  <2> DEFINE k == ColumnOf(columns, c)
             i == IndexOf(columns[k].q, c)
             col == columns[k]
             y == TileColumn(w, g, area, col)[i - 1]
  <2>1. CASE k = 0
    BY <2>1, LaidSame DEF AllLaid
  <2>2. CASE k # 0
    <3>1. f[c] = TileClient(w, g, area, col, i, y)
      BY <2>2
    <3>2. k = ColumnOf(columns, c)
      OBVIOUS
    <3> HIDE DEF k, f
    <3>3. Found(columns, c, k, i)
      <4>1. /\ Len(columns) \in Nat
            /\ \A j \in 1 .. Len(columns) : IsColumn(w, columns[j])
        BY <1>3, <1>4
      <4> QED BY <2>2, <3>2, <4>1, ColumnFound, Zenon
    <3>4. IsColumn(w, col) /\ i \in 1 .. Len(col.q) /\ col.q[i] = c
      BY <1>3, <1>4, <3>3 DEF Found
    <3> HIDE DEF i, col
    <3>5. y \in Int
      <4>1. i - 1 \in 0 .. Len(col.q)
        BY <3>4, ColumnClients
      <4> QED BY <3>4, <4>1, TileColumnType
    <3> HIDE DEF y
    <3>6. Laid(w, g, col.q[i], TileClient(w, g, area, col, i, y))
      BY <3>4, <3>5, TileClientLaid
    <3> QED BY <3>1, <3>4, <3>6
  <2> QED BY <2>1, <2>2
<1> HIDE DEF f
<1> QED BY <1>5, <1>6, WindowsLaid
-----------------------------------------------------------------------------
(* varcol()                                                                *)

\* What the passes of placeColumn() keep: the factors that share what is left
\* are no less than those of the clients still to come.
Rest == [facts : Int, wh : Int, height : Int]

HeightsOf(rest, g, q, wh) ==
  /\ \A i \in 0 .. Len(q) :
       /\ rest[i] \in Rest
       /\ rest[i].facts >= CFactSums(g, q)[Len(q)] - CFactSums(g, q)[i]
  /\ \A i \in 1 .. Len(q) : rest[i] = FixHeight(rest[i - 1], g.win[q[i]])

LEMMA FixHeightType ==
  ASSUME NEW rest \in Rest, rest.facts > 0, NEW win \in Window
  PROVE  /\ FixHeight(rest, win) \in Rest
         /\ FixHeight(rest, win).facts >= rest.facts - win.cfact
         /\ FixHeight(rest, win).height = 0 =>
              FixHeight(rest, win).facts = rest.facts
         /\ win.hints = NoHints => FixHeight(rest, win).height = 0
<1> DEFINE share == (rest.wh * win.cfact) \div rest.facts
           height == FixedHeight(win.hints, share)
           taken == IF height = 0 THEN 0 ELSE win.cfact
<1>1. /\ rest.facts \in Nat /\ rest.facts # 0 /\ rest.wh \in Int
      /\ win.cfact \in Nat /\ win.hints \in Hints
  BY WindowFields DEF Rest
<1>2. share \in Int
  BY <1>1, QuotientType
<1> HIDE DEF share
<1>3. height \in Int
  BY <1>1, <1>2, HintFields DEF FixedHeight
<1>4. win.hints = NoHints => height = 0
  BY DEF FixedHeight, NoHints
<1>5. FixHeight(rest, win) = [ facts |-> rest.facts - taken,
                               wh |-> rest.wh - height, height |-> height ]
  BY DEF FixHeight, share
<1> HIDE DEF height
<1>6. taken \in Nat /\ taken <= win.cfact /\ (height = 0 => taken = 0)
  BY <1>1
<1> HIDE DEF taken
<1>7. rest.facts - taken \in Int /\ rest.wh - height \in Int
  BY <1>1, <1>3, <1>6
<1>8. rest.facts - taken >= rest.facts - win.cfact
  BY <1>1, <1>6
<1>9. height = 0 => rest.facts - taken = rest.facts
  BY <1>1, <1>6
<1> QED BY <1>3, <1>4, <1>5, <1>7, <1>8, <1>9 DEF Rest

LEMMA FixHeightsUnfold ==
  ASSUME NEW g \in Screens, NEW q \in Seq(Client), NEW wh \in Int
  PROVE  HeightsOf(FixHeights(g, q, wh), g, q, wh)
<1> DEFINE n == Len(q)
           sum == CFactSums(g, q)
           first == [facts |-> sum[n], wh |-> wh, height |-> 0]
           Up(f) == f = [i \in 0 .. n |-> IF i = 0 THEN first
                                          ELSE FixHeight(f[i - 1], g.win[q[i]])]
           rest == CHOOSE f : Up(f)
           Guarded(i, r) ==
             IF r.facts > 0 THEN FixHeight(r, g.win[q[i]]) ELSE r
           step == [p \in (1 .. n) \X Rest |-> Guarded(p[1], p[2])]
<1>1. FixHeights(g, q, wh) = rest
  BY Zenon DEF FixHeights
<1>2. n \in Nat /\ \A i \in 1 .. n : q[i] \in Client
  BY LenProperties, ElementOfSeq
<1>3. \A i \in 1 .. n : g.win[q[i]] \in Window
  BY <1>2, ScreensFields
<1>4. /\ \A i \in 0 .. n : sum[i] \in Nat
      /\ \A i \in 1 .. n : /\ sum[i] = sum[i - 1] + g.win[q[i]].cfact
                           /\ sum[n] - sum[i - 1] \in Nat \ {0}
                           /\ g.win[q[i]].cfact \in Nat \ {0}
      /\ sum[0] = 0
  <2>1. SumsOf(sum, g, q)
    BY CFactSumsUnfold
  <2> QED BY <2>1, SumsGrow DEF SumsOf
<1>5. first \in Rest /\ first.facts = sum[n]
  BY <1>2, <1>4 DEF Rest
<1>6. ASSUME NEW i \in 1 .. n, NEW r \in Rest
      PROVE  Guarded(i, r) \in Rest
  BY <1>3, FixHeightType
<1> HIDE DEF n, sum, first, rest
<1>7. PICK f : Recursion(f, Rest, n, first, step)
  <2> HIDE DEF Guarded
  <2>1. step \in [(1 .. n) \X Rest -> Rest]
    BY <1>6
  <2> HIDE DEF step, Up
  <2> QED BY <1>2, <1>5, <2>1, RecursionExists
<1>8. /\ f \in [0 .. n -> Rest] /\ f[0] = first
      /\ \A i \in 1 .. n : f[i] = Guarded(i, f[i - 1])
  <2>1. \A i \in 1 .. n : i - 1 \in 0 .. n
    BY <1>2
  <2> HIDE DEF Guarded
  <2> QED BY <1>7, <2>1 DEF Recursion
<1> DEFINE T == {i \in 0 .. n : f[i].facts >= sum[n] - sum[i]}
<1>9. 0 \in T
  BY <1>2, <1>4, <1>5, <1>8
<1>10. ASSUME NEW i \in 1 .. n, i - 1 \in T
       PROVE  /\ i \in T
              /\ f[i - 1].facts > 0
  <2>1. f[i - 1] \in Rest /\ i \in 0 .. n /\ i - 1 \in 0 .. n
    BY <1>2, <1>8
  <2>2. f[i - 1].facts \in Int /\ f[i - 1].facts >= sum[n] - sum[i - 1]
    BY <1>10, <2>1 DEF Rest
  <2>3. f[i - 1].facts > 0
    BY <1>4, <2>2
  <2>4. f[i] = FixHeight(f[i - 1], g.win[q[i]])
    BY <1>8, <2>3
  <2>5. f[i].facts >= f[i - 1].facts - g.win[q[i]].cfact
    BY <1>3, <2>1, <2>3, <2>4, FixHeightType
  <2>6. f[i].facts \in Int
    BY <1>8, <2>1 DEF Rest
  <2>7. sum[i] \in Int /\ sum[i - 1] \in Int /\ sum[n] \in Int
    <3>1. n \in 0 .. n
      BY <1>2
    <3> QED BY <1>4, <2>1, <3>1
  <2>8. f[i].facts >= sum[n] - sum[i]
    <3>1. g.win[q[i]].cfact \in Int /\ sum[i] = sum[i - 1] + g.win[q[i]].cfact
      BY <1>4
    <3> DEFINE was == f[i - 1].facts
               is == f[i].facts
               s == sum[i - 1]
               t == sum[i]
               all == sum[n]
               fact == g.win[q[i]].cfact
    <3>2. /\ was \in Int /\ is \in Int /\ s \in Int /\ t \in Int /\ all \in Int
          /\ fact \in Int /\ was >= all - s /\ is >= was - fact /\ t = s + fact
      BY <2>2, <2>5, <2>6, <2>7, <3>1
    <3> HIDE DEF was, is, s, t, all, fact
    <3>3. is >= all - t
      BY <3>2
    <3> QED BY <3>3 DEF is, t, all
  <2> QED BY <2>1, <2>3, <2>8
<1>11. \A i \in 0 .. n : i \in T
  <2> HIDE DEF T
  <2> QED BY <1>2, <1>9, <1>10, InductionUpTo
<1>12. \A i \in 1 .. n : f[i] = FixHeight(f[i - 1], g.win[q[i]])
  <2> SUFFICES ASSUME NEW i \in 1 .. n
               PROVE  f[i] = FixHeight(f[i - 1], g.win[q[i]])
    OBVIOUS
  <2>1. i - 1 \in T
    <3>1. i - 1 \in 0 .. n
      BY <1>2
    <3> QED BY <1>11, <3>1
  <2> HIDE DEF T
  <2>2. f[i - 1].facts > 0
    BY <1>10, <2>1
  <2> QED BY <1>8, <2>2
<1>13. Up(f)
  <2>1. \A i \in 0 .. n : i # 0 => i \in 1 .. n
    BY <1>2
  <2> QED BY <1>8, <1>12, <2>1
<1>14. Up(rest)
  BY <1>13 DEF rest
<1>15. \A i \in 0 .. n :
         rest[i] = IF i = 0 THEN first ELSE FixHeight(rest[i - 1], g.win[q[i]])
  BY <1>14, Zenon
<1> DEFINE R == {i \in 0 .. n : rest[i] = f[i]}
<1>16. 0 \in R
  BY <1>2, <1>8, <1>15
<1>17. ASSUME NEW i \in 1 .. n, i - 1 \in R
       PROVE  i \in R
  <2>1. i \in 0 .. n /\ i # 0
    BY <1>2
  <2> QED BY <1>12, <1>15, <1>17, <2>1
<1>18. \A i \in 0 .. n : i \in R
  <2> HIDE DEF R
  <2> QED BY <1>2, <1>16, <1>17, InductionUpTo
<1>19. \A i \in 0 .. n : rest[i] \in Rest /\ rest[i].facts >= sum[n] - sum[i]
  BY <1>8, <1>11, <1>18
<1>20. \A i \in 1 .. n : rest[i] = FixHeight(rest[i - 1], g.win[q[i]])
  <2>1. \A i \in 1 .. n : i \in 0 .. n /\ i # 0
    BY <1>2
  <2> QED BY <1>15, <2>1, Zenon
<1> QED BY <1>1, <1>19, <1>20 DEF HeightsOf, n, sum

\* A client whose height is not fixed shares what is left, which is then not
\* for nobody.
LEMMA HeightsShare ==
  ASSUME NEW g \in Screens, NEW q \in Seq(Client), NEW wh \in Int,
         NEW rest, HeightsOf(rest, g, q, wh), NEW i \in 1 .. Len(q)
  PROVE  /\ rest[i] \in Rest /\ rest[Len(q)] \in Rest
         /\ rest[i].height = 0 => rest[Len(q)].facts \in Nat \ {0}
         /\ g.win[q[i]].hints = NoHints => rest[i].height = 0
<1> DEFINE n == Len(q)
           sum == CFactSums(g, q)
           mine == g.win[q[i]].cfact
<1>1. n \in Nat /\ \A k \in 1 .. n : q[k] \in Client
  BY LenProperties, ElementOfSeq
<1>2. \A k \in 1 .. n : g.win[q[k]] \in Window
  BY <1>1, ScreensFields
<1>3. /\ \A k \in 0 .. n : sum[k] \in Nat
      /\ \A k \in 1 .. n : /\ sum[k] = sum[k - 1] + g.win[q[k]].cfact
                           /\ sum[n] - sum[k - 1] \in Nat \ {0}
                           /\ g.win[q[k]].cfact \in Nat \ {0}
  <2>1. SumsOf(sum, g, q)
    BY CFactSumsUnfold
  <2> QED BY <2>1, SumsGrow DEF SumsOf
<1>4. /\ \A k \in 0 .. n : rest[k] \in Rest /\ rest[k].facts >= sum[n] - sum[k]
      /\ \A k \in 1 .. n : rest[k] = FixHeight(rest[k - 1], g.win[q[k]])
      /\ i \in 1 .. n
  BY DEF HeightsOf
<1> HIDE DEF n, sum
<1>5. ASSUME NEW k \in 1 .. n
      PROVE  /\ k \in 0 .. n /\ k - 1 \in 0 .. n
             /\ rest[k].facts \in Int /\ rest[k - 1].facts \in Int
             /\ sum[k] \in Nat /\ sum[k - 1] \in Nat /\ sum[n] \in Nat
             /\ g.win[q[k]].cfact \in Nat
             /\ rest[k - 1].facts > 0
  <2>1. k \in 0 .. n /\ k - 1 \in 0 .. n /\ n \in 0 .. n
    BY <1>1
  <2>2. rest[k].facts \in Int /\ rest[k - 1].facts \in Int
    BY <1>4, <2>1 DEF Rest
  <2>3. /\ sum[k] \in Nat /\ sum[k - 1] \in Nat /\ sum[n] \in Nat
        /\ g.win[q[k]].cfact \in Nat
    BY <1>3, <2>1
  <2>4. rest[k - 1].facts > 0
    <3>1. sum[n] - sum[k - 1] \in Nat \ {0}
      BY <1>3
    <3>2. rest[k - 1].facts >= sum[n] - sum[k - 1]
      BY <1>4, <2>1
    <3> QED BY <2>2, <2>3, <3>1, <3>2
  <2> QED BY <2>1, <2>2, <2>3, <2>4
<1>6. ASSUME NEW k \in 1 .. n
      PROVE  /\ rest[k].facts >= rest[k - 1].facts - g.win[q[k]].cfact
             /\ rest[k].height = 0 => rest[k].facts = rest[k - 1].facts
             /\ g.win[q[k]].hints = NoHints => rest[k].height = 0
  <2>1. rest[k - 1] \in Rest /\ rest[k - 1].facts > 0 /\ g.win[q[k]] \in Window
    BY <1>2, <1>4, <1>5
  <2>2. rest[k] = FixHeight(rest[k - 1], g.win[q[k]])
    BY <1>4
  <2> QED BY <2>1, <2>2, FixHeightType
<1>7. ASSUME rest[i].height = 0
      PROVE  rest[n].facts \in Nat \ {0}
  <2> DEFINE T == {k \in 0 .. n : k >= i => rest[k].facts >= sum[n] - sum[k] + mine}
  <2>1. mine \in Nat \ {0}
    BY <1>3, <1>4
  <2> HIDE DEF mine
  <2>2. 0 \in T
    BY <1>1, <1>4
  <2>3. ASSUME NEW k \in 1 .. n, k - 1 \in T
        PROVE  k \in T
    <3>1. CASE k < i
      <4>1. ~(k >= i)
        BY <1>4, <3>1
      <4> QED BY <1>5, <4>1
    <3>2. CASE k = i
      <4>1. rest[k].facts = rest[k - 1].facts /\ rest[k - 1].facts >= sum[n] - sum[k - 1]
        BY <1>4, <1>5, <1>6, <1>7, <3>2
      <4>2. sum[k] = sum[k - 1] + mine
        BY <1>3, <3>2 DEF mine
      <4>3. rest[k].facts >= sum[n] - sum[k] + mine
        BY <1>5, <2>1, <4>1, <4>2
      <4> QED BY <1>5, <4>3
    <3>3. CASE k > i
      <4>1. rest[k - 1].facts >= sum[n] - sum[k - 1] + mine
        <5>1. k - 1 >= i
          BY <1>4, <3>3
        <5> QED BY <2>3, <5>1
      <4>2. sum[k] = sum[k - 1] + g.win[q[k]].cfact
        BY <1>3
      <4>3. rest[k].facts >= rest[k - 1].facts - g.win[q[k]].cfact
        BY <1>6
      <4>4. rest[k].facts >= sum[n] - sum[k] + mine
        <5> DEFINE was == rest[k - 1].facts
                   is == rest[k].facts
                   s == sum[k - 1]
                   t == sum[k]
                   all == sum[n]
                   fact == g.win[q[k]].cfact
        <5>1. was \in Int /\ is \in Int /\ s \in Nat /\ t \in Nat /\ all \in Nat
          BY <1>5
        <5>2. fact \in Nat /\ mine \in Nat
          BY <1>5, <2>1
        <5>3. was >= all - s + mine /\ is >= was - fact /\ t = s + fact
          BY <4>1, <4>2, <4>3, Zenon
        <5> HIDE DEF was, is, s, t, all, fact
        <5>4. is >= all - t + mine
          BY <5>1, <5>2, <5>3
        <5> QED BY <5>4 DEF is, t, all
      <4> QED BY <1>5, <4>4
    <3> QED BY <1>4, <3>1, <3>2, <3>3
  <2>4. \A k \in 0 .. n : k \in T
    <3> HIDE DEF T
    <3> QED BY <1>1, <2>2, <2>3, InductionUpTo
  <2>5. n \in 0 .. n /\ n >= i
    BY <1>1, <1>4
  <2>6. rest[n].facts >= sum[n] - sum[n] + mine
    BY <2>4, <2>5
  <2>7. rest[n].facts \in Int /\ sum[n] \in Nat
    BY <1>3, <1>4, <2>5 DEF Rest
  <2> QED BY <2>1, <2>6, <2>7
<1>8. n \in 0 .. n /\ i \in 0 .. n
  BY <1>1, <1>4
<1> QED BY <1>4, <1>6, <1>7, <1>8 DEF n

LEMMA OneWindow ==
  ASSUME NEW g \in Screens, NEW c \in Client, NEW v \in Window
  PROVE  /\ SameScreens(g, [g EXCEPT !.win[c] = v])
         /\ [g EXCEPT !.win[c] = v].win[c] = v
         /\ \A d \in Client : d # c => [g EXCEPT !.win[c] = v].win[d] = g.win[d]
<1> DEFINE win == [g.win EXCEPT ![c] = v]
<1>1. [g EXCEPT !.win[c] = v] = [g EXCEPT !.win = win]
  BY DEF Screens
<1>2. /\ win \in [Client -> Window] /\ win[c] = v
      /\ \A d \in Client : d # c => win[d] = g.win[d]
  BY DEF Screens
<1> HIDE DEF win
<1> QED BY <1>1, <1>2, NewWindows

\* placeColumn() stores the height it fixes before it calls resize().
LEMMA WithHeight ==
  ASSUME NEW g \in Screens, NEW c \in Client, NEW h \in Int
  PROVE  LET k == [g EXCEPT !.win[c].rect.h = h]
         IN /\ k \in Screens /\ k.win[c].rect.h = h
            /\ k.win[c].cfact = g.win[c].cfact /\ k.win[c].hints = g.win[c].hints
<1> DEFINE r == [g.win[c].rect EXCEPT !.h = h]
           v == [g.win[c] EXCEPT !.rect = r]
<1>1. g.win[c] \in Window /\ g.win[c].rect \in Rect
  BY ScreensFields, WindowFields
<1>2. r \in Rect /\ r.h = h
  BY <1>1 DEF Rect
<1> HIDE DEF r
<1>3. /\ v \in Window /\ v.rect = r /\ v.cfact = g.win[c].cfact
      /\ v.hints = g.win[c].hints
  BY <1>1, <1>2 DEF Window
<1>4. [g EXCEPT !.win[c].rect.h = h] = [g EXCEPT !.win[c] = v]
  BY DEF r
<1> HIDE DEF v
<1> QED BY <1>2, <1>3, <1>4, OneWindow DEF SameScreens

LEMMA ColumnClientLaid ==
  ASSUME NEW w \in State, NEW g \in Screens, NEW area \in Rect,
         NEW column, IsColumn(w, column), NEW i \in 1 .. Len(column.q),
         NEW y \in Int
  PROVE  Laid(w, g, column.q[i], ColumnClient(w, g, area, column, i, y))
<1> DEFINE c == column.q[i]
           q == column.q
           rest == FixHeights(g, q, area.h)
           k == [g EXCEPT !.win[c].rect.h = rest[i].height]
           wide == ColumnWidth(g.win[c].hints, column.w)
           high == ColumnHeight(rest[i].height, rest[Len(q)], g.win[c].cfact)
           r == Rectangle(column.x, y, wide, high)
           v == Resize(w, k, c, r, FALSE)
           a == ApplySizeHints(w, k, c, r, FALSE)
<1>1. c \in Client /\ ~w.isfloating[c] /\ q \in Seq(Client) /\ column.x \in Int
      /\ column.w \in Int
  BY ColumnClients DEF IsColumn
<1>2. HeightsOf(rest, g, q, area.h)
  <2>1. area.h \in Int
    BY RectFields
  <2> QED BY <1>1, <2>1, FixHeightsUnfold
<1>3. ColumnClient(w, g, area, column, i, y) = v
  BY DEF ColumnClient
<1> HIDE DEF rest, q
<1>4. /\ rest[i] \in Rest /\ rest[Len(q)] \in Rest
      /\ rest[i].height = 0 => rest[Len(q)].facts \in Nat \ {0}
      /\ g.win[c].hints = NoHints => rest[i].height = 0
  <2>1. area.h \in Int
    BY RectFields
  <2> QED BY <1>1, <1>2, <2>1, HeightsShare DEF q
<1>5. rest[i].height \in Int /\ rest[Len(q)].wh \in Int
  BY <1>4 DEF Rest
<1> HIDE DEF c
<1>6. /\ g.win[c] \in Window /\ g.win[c].hints \in Hints
      /\ g.win[c].cfact \in Int
  BY <1>1, ScreensFields, WindowFields
<1>7. wide \in Int
  BY <1>1, <1>6, HintFields DEF ColumnWidth
<1>8. high \in Int
  <2>1. CASE rest[i].height = 0
    BY <1>4, <1>5, <1>6, <2>1, QuotientType DEF ColumnHeight
  <2>2. CASE rest[i].height # 0
    BY <1>5, <2>2 DEF ColumnHeight
  <2> QED BY <2>1, <2>2
<1> HIDE DEF wide, high
<1>9. r \in Rect
  BY <1>1, <1>7, <1>8, RectangleType
<1>10. /\ k \in Screens /\ k.win[c].rect.h = rest[i].height
       /\ k.win[c].cfact = g.win[c].cfact /\ k.win[c].hints = g.win[c].hints
  BY <1>1, <1>5, WithHeight
<1> HIDE DEF r, k
<1>11. /\ v \in Window /\ v.cfact = k.win[c].cfact /\ v.hints = k.win[c].hints
       /\ (v = k.win[c] /\ a = k.win[c].rect) \/ SizeKnown(v)
       /\ k.win[c].hints = NoHints => Solid(a)
  BY <1>1, <1>9, <1>10, ResizeFacts
<1>12. v.hints = NoHints => SizeKnown(v)
  <2>1. SUFFICES ASSUME v.hints = NoHints, a = k.win[c].rect
                 PROVE  FALSE
    BY <1>11
  <2>2. Solid(a) /\ a.h = 0
    BY <1>4, <1>10, <1>11, <2>1
  <2> HIDE DEF a
  <2>3. a.h >= 1
    BY <2>2 DEF Solid
  <2> QED BY <2>2, <2>3
<1> HIDE DEF v, a
<1>13. Laid(w, g, c, v)
  BY <1>1, <1>10, <1>11, <1>12 DEF Laid
<1> QED BY <1>3, <1>13 DEF c

LEMMA PlaceColumnType ==
  ASSUME NEW w \in State, NEW g \in Screens, NEW area \in Rect,
         NEW column, IsColumn(w, column)
  PROVE  \A i \in 0 .. Len(column.q) : PlaceColumn(w, g, area, column)[i] \in Int
<1> DEFINE n == Len(column.q)
           Below(i, y) ==
             ColumnBelow(y, ColumnClient(w, g, area, column, i, y).rect, area)
           Up(f) == f = [i \in 0 .. n |->
                           IF i = 0 THEN area.y ELSE Below(i, f[i - 1])]
           below == CHOOSE f : Up(f)
<1>1. PlaceColumn(w, g, area, column) = below
  BY Zenon DEF PlaceColumn
<1>2. n \in Nat /\ area.y \in Int
  BY ColumnClients, RectFields
<1>3. ASSUME NEW i \in 1 .. n, NEW y \in Int
      PROVE  Below(i, y) \in Int
  <2> DEFINE v == ColumnClient(w, g, area, column, i, y)
  <2>1. v \in Window
    BY ColumnClientLaid DEF Laid
  <2> HIDE DEF v
  <2>2. v.rect.h \in Int /\ v.rect.y \in Int
    BY <2>1, WindowFields, RectFields
  <2>3. ColumnBelow(y, v.rect, area) \in Int
    BY <2>2 DEF ColumnBelow
  <2> QED BY <2>3 DEF v
<1> HIDE DEF n, Below
<1> DEFINE step == [p \in (1 .. n) \X Int |-> Below(p[1], p[2])]
<1>4. PICK f : Recursion(f, Int, n, area.y, step)
  <2>1. step \in [(1 .. n) \X Int -> Int]
    BY <1>3
  <2> HIDE DEF step, Up, below
  <2> QED BY <1>2, <2>1, RecursionExists
<1>5. /\ f \in [0 .. n -> Int] /\ f[0] = area.y
      /\ \A i \in 1 .. n : f[i] = Below(i, f[i - 1])
  <2>1. \A i \in 1 .. n : i - 1 \in 0 .. n
    BY <1>2
  <2> QED BY <1>4, <2>1 DEF Recursion
<1>6. Up(f)
  <2>1. \A i \in 0 .. n : i # 0 => i \in 1 .. n
    BY <1>2
  <2> QED BY <1>5, <2>1
<1>7. Up(below)
  BY <1>6
<1>8. \A i \in 0 .. n : below[i] = IF i = 0 THEN area.y ELSE Below(i, below[i - 1])
  BY <1>7, Zenon
<1> HIDE DEF below
<1> DEFINE T == {i \in 0 .. n : below[i] \in Int}
<1>9. 0 \in T
  BY <1>2, <1>8
<1>10. ASSUME NEW i \in 1 .. n, i - 1 \in T
       PROVE  i \in T
  BY <1>3, <1>8, <1>10
<1>11. \A i \in 0 .. n : i \in T
  <2> HIDE DEF T
  <2> QED BY <1>2, <1>9, <1>10, InductionUpTo
<1> QED BY <1>1, <1>11 DEF n

\* The columns of tiled clients.
ColumnSet(w) ==
  {column \in [q : Seq(Client), x : Int, w : Int] : IsColumn(w, column)}

LEMMA ColumnsType ==
  ASSUME NEW w, NEW q, List(q), \A c \in ToSet(q) : ~w.isfloating[c],
         NEW n \in Nat \ {0}, NEW x \in Int, NEW wide \in Int
  PROVE  Columns(q, n, x, wide) \in Seq(ColumnSet(w))
<1> DEFINE len == Len(q)
           k == len \div n
           Col(i) == [q |-> Column(q, n, i), x |-> x + (i - 1) * wide, w |-> wide]
<1>1. len \in Nat
  BY ListFacts
<1> HIDE DEF len
<1>2. k \in Nat /\ n * k <= len
  BY <1>1, QuotientFits
<1>3. ASSUME NEW i \in 1 .. n
      PROVE  Col(i) \in ColumnSet(w)
  <2> DEFINE a == (i - 1) * k + 1
             b == IF i = n THEN len ELSE i * k
             left == x + (i - 1) * wide
  <2>1. i - 1 \in Nat /\ i \in Nat /\ i <= n
    OBVIOUS
  <2> HIDE DEF k
  <2>2. (i - 1) * k \in Nat /\ i * k \in Nat /\ i * k <= n * k /\ n * k \in Int
    BY <1>2, <2>1, ProductGrows
  <2>3. a \in Nat /\ 1 <= a /\ b \in Nat /\ b <= len
    BY <1>1, <1>2, <2>2
  <2>4. left \in Int
    <3>1. (i - 1) * wide \in Int
      BY <2>1
    <3> QED BY <3>1
  <2>5. Column(q, n, i) = SubSeq(q, a, b)
    BY DEF Column, len, k
  <2> HIDE DEF a, b, left
  <2>6. IsColumn(w, [q |-> SubSeq(q, a, b), x |-> left, w |-> wide])
    BY <2>3, <2>4, PartOfColumn DEF len
  <2>7. SubSeq(q, a, b) \in Seq(Client)
    BY <2>6 DEF IsColumn
  <2> QED BY <2>4, <2>5, <2>6, <2>7 DEF ColumnSet, left
<1>4. Columns(q, n, x, wide) = [i \in 1 .. n |-> Col(i)]
  BY DEF Columns
<1> HIDE DEF Col
<1> QED BY <1>3, <1>4, SeqDef

LEMMA ProductType ==
  ASSUME NEW a \in Int, NEW b \in Int
  PROVE  a * b \in Int
OBVIOUS

\* All the columns of varcol().
LEMMA AllColumnsType ==
  ASSUME NEW w, NEW masters, List(masters), NEW right, List(right),
         NEW left, List(left),
         \A c \in ToSet(masters) \cup ToSet(right) \cup ToSet(left) :
           ~w.isfloating[c],
         NEW nm \in Nat \ {0}, NEW nr \in Nat \ {0}, NEW x \in Int,
         NEW wide, wide[1] \in Int, wide[2] \in Int, wide[3] \in Int
  PROVE  AllColumns(masters, right, left, nm, nr, x, wide) \in Seq(ColumnSet(w))
<1> DEFINE x1 == IF left = << >> THEN x ELSE x + wide[1]
           x2 == x1 + nm * wide[2]
           last == [q |-> left, x |-> x, w |-> wide[1]]
           one == Columns(masters, nm, x1, wide[2])
           two == Columns(right, nr, x2, wide[3])
           S == ColumnSet(w)
<1>1. AllColumns(masters, right, left, nm, nr, x, wide) = one \o two \o <<last>>
  BY DEF AllColumns
<1>2. x1 \in Int
  OBVIOUS
<1>3. x2 \in Int
  <2>1. nm * wide[2] \in Int
    BY ProductType
  <2> HIDE DEF x1
  <2> QED BY <1>2, <2>1
<1> HIDE DEF x1, x2
<1>4. one \in Seq(S)
  BY <1>2, ColumnsType
<1>5. two \in Seq(S)
  BY <1>3, ColumnsType
<1>6. last \in S
  <2>1. left \in Seq(Client)
    BY ListFacts
  <2> QED BY <2>1 DEF ColumnSet, IsColumn
<1> HIDE DEF one, two, last, S
<1>7. <<last>> \in Seq(S)
  BY <1>6
<1>8. one \o two \in Seq(S)
  BY <1>4, <1>5, ConcatProperties
<1>9. (one \o two) \o <<last>> \in Seq(S)
  BY <1>7, <1>8, ConcatProperties
<1> QED BY <1>1, <1>9 DEF S

LEMMA WidthsType ==
  ASSUME NEW fact \in [1 .. 3 -> Nat \ {0}], NEW ww \in Int, NEW right, NEW left,
         NEW nm \in Nat \ {0}, NEW nr \in Nat \ {0}, NEW i \in 1 .. 3
  PROVE  Widths(fact, ww, SumOfColFacts(fact, right, left, nm, nr))[i] \in Int
<1> DEFINE sum == SumOfColFacts(fact, right, left, nm, nr)
<1>1. /\ fact[1] \in Nat \ {0} /\ fact[2] \in Nat \ {0} /\ fact[3] \in Nat \ {0}
      /\ fact[i] \in Nat \ {0}
  OBVIOUS
<1> DEFINE a == IF left = << >> THEN 0 ELSE fact[1]
           b == nm * fact[2]
           d == IF right = << >> THEN 0 ELSE nr * fact[3]
<1>2. a \in Nat
  BY <1>1
<1>3. b \in Nat /\ b >= 1
  <2>1. 1 * fact[2] <= nm * fact[2] /\ nm * fact[2] \in Nat
    BY <1>1, ProductGrows
  <2> QED BY <1>1, <2>1
<1>4. d \in Nat
  <2>1. nr * fact[3] \in Nat
    BY <1>1, ProductGrows
  <2> QED BY <2>1
<1>5. sum = a + b + d
  BY DEF SumOfColFacts
<1> HIDE DEF a, b, d, sum
<1>6. sum \in Nat /\ sum # 0
  BY <1>2, <1>3, <1>4, <1>5
<1>7. (ww * fact[i]) \div sum \in Int
  BY <1>1, <1>6, QuotientType
<1>8. Widths(fact, ww, sum)[i] = (ww * fact[i]) \div sum
  BY DEF Widths
<1> QED BY <1>7, <1>8 DEF sum

\* Each tiled client in a column is moved by placeColumn(), the others stay.
LEMMA PlaceColumnsLaid ==
  ASSUME NEW w \in State, NEW g \in Screens, NEW area \in Rect,
         NEW mon, mon.colfact \in [1 .. 3 -> Nat \ {0}],
         NEW masters, List(masters), NEW right, List(right),
         NEW left, List(left),
         \A c \in ToSet(masters) \cup ToSet(right) \cup ToSet(left) :
           ~w.isfloating[c],
         NEW nm \in Nat \ {0}, NEW nr \in Nat \ {0}
  PROVE  AllLaid(w, g, PlaceColumns(w, g, mon, area, masters, right, left, nm, nr))
<1> DEFINE wide == Widths(mon.colfact, area.w,
                          SumOfColFacts(mon.colfact, right, left, nm, nr))
           columns == AllColumns(masters, right, left, nm, nr, area.x, wide)
           Goes(c) == ColumnClient(w, g, area, columns[ColumnOf(columns, c)],
                        IndexOf(columns[ColumnOf(columns, c)].q, c),
                        PlaceColumn(w, g, area, columns[ColumnOf(columns, c)])
                          [IndexOf(columns[ColumnOf(columns, c)].q, c) - 1])
           f == [c \in Client |->
                   IF ColumnOf(columns, c) = 0 THEN g.win[c] ELSE Goes(c)]
<1>1. area.w \in Int /\ area.x \in Int
  BY RectFields
<1>2. wide[1] \in Int /\ wide[2] \in Int /\ wide[3] \in Int
  <2>1. 1 \in 1 .. 3 /\ 2 \in 1 .. 3 /\ 3 \in 1 .. 3
    OBVIOUS
  <2> QED BY <1>1, <2>1, WidthsType
<1>3. PlaceColumns(w, g, mon, area, masters, right, left, nm, nr)
        = [g EXCEPT !.win = [c \in Client |-> f[c]]]
  BY DEF PlaceColumns, InColumns
<1> HIDE DEF wide
<1>4. columns \in Seq(ColumnSet(w))
  BY <1>1, <1>2, AllColumnsType
<1> HIDE DEF columns
<1>5. /\ Len(columns) \in Nat
      /\ \A j \in 1 .. Len(columns) : IsColumn(w, columns[j])
  <2>1. Len(columns) \in Nat /\ \A j \in 1 .. Len(columns) : columns[j] \in ColumnSet(w)
    BY <1>4, LenProperties, ElementOfSeq
  <2> QED BY <2>1 DEF ColumnSet
<1>6. ASSUME NEW c \in Client
      PROVE  Laid(w, g, c, f[c])
  <2> DEFINE k == ColumnOf(columns, c)
             i == IndexOf(columns[k].q, c)
             col == columns[k]
             y == PlaceColumn(w, g, area, col)[i - 1]
  <2>1. CASE k = 0
    BY <2>1, LaidSame DEF AllLaid
  <2>2. CASE k # 0
    <3>1. f[c] = ColumnClient(w, g, area, col, i, y)
      BY <2>2
    <3>2. k = ColumnOf(columns, c)
      OBVIOUS
    <3> HIDE DEF k, f
    <3>3. Found(columns, c, k, i)
      BY <1>5, <2>2, <3>2, ColumnFound, Zenon
    <3>4. IsColumn(w, col) /\ i \in 1 .. Len(col.q) /\ col.q[i] = c
      BY <1>5, <3>3 DEF Found
    <3> HIDE DEF i, col
    <3>5. y \in Int
      <4>1. i - 1 \in 0 .. Len(col.q)
        BY <3>4, ColumnClients
      <4> QED BY <3>4, <4>1, PlaceColumnType
    <3> HIDE DEF y
    <3>6. Laid(w, g, col.q[i], ColumnClient(w, g, area, col, i, y))
      BY <3>4, <3>5, ColumnClientLaid
    <3> QED BY <3>1, <3>4, <3>6
  <2> QED BY <2>1, <2>2
<1> HIDE DEF f
<1> QED BY <1>3, <1>6, WindowsLaid

LEMMA VarColumnsLaid ==
  ASSUME NEW w \in State, NEW g \in Screens, NEW area \in Rect,
         NEW mon \in Screen, NEW masters, List(masters), NEW others, List(others),
         \A c \in ToSet(masters) \cup ToSet(others) : ~w.isfloating[c]
  PROVE  AllLaid(w, g, VarColumns(w, g, mon, area, masters, others))
<1> DEFINE left == Keep(others, {c \in Client : IsLeft(w, c)})
           right == Keep(others, {c \in Client : ~IsLeft(w, c)})
           nm == NumberOfColumns(mon.nmastercols, Len(masters))
           nr == NumberOfColumns(mon.nrightcols, Len(right))
<1>1. /\ List(left) /\ ToSet(left) \subseteq ToSet(others)
      /\ List(right) /\ ToSet(right) \subseteq ToSet(others)
  <2>1. List(left) /\ ToSet(left) = ToSet(others) \cap {c \in Client : IsLeft(w, c)}
    BY KeepList
  <2>2. List(right) /\ ToSet(right) = ToSet(others) \cap {c \in Client : ~IsLeft(w, c)}
    BY KeepList
  <2> HIDE DEF left, right
  <2> QED BY <2>1, <2>2
<1>2. /\ mon.colfact \in [1 .. 3 -> Nat \ {0}] /\ mon.nmastercols \in Nat
      /\ mon.nrightcols \in Nat
  BY DEF Screen
<1>3. VarColumns(w, g, mon, area, masters, others) =
        IF masters = << >> THEN g
        ELSE PlaceColumns(w, g, mon, area, masters, right, left, nm, nr)
  BY DEF VarColumns
<1>4. \A a \in Nat, b \in Nat : NumberOfColumns(a, b) \in Nat \ {0}
  BY DEF NumberOfColumns, Bigger, Smaller
<1> HIDE DEF left, right
<1>5. nm \in Nat \ {0} /\ nr \in Nat \ {0}
  BY <1>1, <1>2, <1>4, ListFacts
<1> HIDE DEF nm, nr
<1>6. AllLaid(w, g, PlaceColumns(w, g, mon, area, masters, right, left, nm, nr))
  BY <1>1, <1>2, <1>5, PlaceColumnsLaid
<1> QED BY <1>3, <1>6, LaidSame

-----------------------------------------------------------------------------
(* arrange()                                                               *)

LEMMA MonocleLaid ==
  ASSUME NEW w \in State, NEW g \in Screens, NEW area \in Rect,
         NEW q, List(q), \A c \in ToSet(q) : ~w.isfloating[c]
  PROVE  AllLaid(w, g, Monocle(w, g, area, q))
<1> DEFINE f == [c \in Client |-> IF Contains(q, c) THEN Resize(w, g, c, area, FALSE)
                                  ELSE g.win[c]]
<1>1. Monocle(w, g, area, q) = [g EXCEPT !.win = [c \in Client |-> f[c]]]
  BY DEF Monocle
<1>2. ASSUME NEW c \in Client
      PROVE  Laid(w, g, c, f[c])
  <2>1. CASE Contains(q, c)
    <3>1. ~w.isfloating[c]
      BY <2>1, ListFacts DEF Contains
    <3> QED BY <2>1, <3>1, ResizeLaid
  <2>2. CASE ~Contains(q, c)
    BY <2>2, LaidSame DEF AllLaid
  <2> QED BY <2>1, <2>2
<1> HIDE DEF f
<1> QED BY <1>1, <1>2, WindowsLaid

\* arrangemon() moves tiled windows only.
LEMMA ArrangeMonitorLaid ==
  ASSUME NEW w \in State, NEW g \in Screens, NEW m \in Mon, List(w.clients[m])
  PROVE  AllLaid(w, g, ArrangeMonitor(w, g, m))
<1> DEFINE q == TiledOn(w, m)
           area == Work(g, m)
           n == Smaller(w.nmaster[m], Len(q))
           from == w.nmaster[m] + 1
<1>1. List(q) /\ ToSet(q) = ToSet(w.clients[m]) \cap {c \in Client : Tiled(w, c)}
  BY KeepList DEF TiledOn
<1>2. area \in Rect /\ g.mons[m] \in Screen
  BY WorkType, ScreensFields
<1> HIDE DEF q, area
<1>3. \A c \in ToSet(q) : ~w.isfloating[c]
  BY <1>1 DEF Tiled
<1>4. w.nmaster[m] \in Nat /\ Len(q) \in Nat
  BY <1>1, ListFacts DEF State
<1>5. /\ n \in Nat /\ n <= Len(q) /\ from \in Nat /\ 1 <= from
      /\ 1 \in Nat /\ 1 <= 1 /\ Len(q) <= Len(q)
  BY <1>4 DEF Smaller
<1>6. AllLaid(w, g, Monocle(w, g, area, q)) /\ AllLaid(w, g, Tile(w, g, m, area, q))
  BY <1>1, <1>2, <1>3, MonocleLaid, TileLaid
<1>7. AllLaid(w, g, VarColumns(w, g, g.mons[m], area, SubSeq(q, 1, n),
                               SubSeq(q, from, Len(q))))
  <2> HIDE DEF n, from
  <2>1. List(SubSeq(q, 1, n)) /\ ToSet(SubSeq(q, 1, n)) = {q[i] : i \in 1 .. n}
    BY <1>1, <1>5, SubList
  <2>2. /\ List(SubSeq(q, from, Len(q)))
        /\ ToSet(SubSeq(q, from, Len(q))) = {q[i] : i \in from .. Len(q)}
    BY <1>1, <1>4, <1>5, SubList
  <2>3. ToSet(q) = {q[i] : i \in 1 .. Len(q)}
    BY <1>1, ListFacts
  <2>4. \A i \in 1 .. n : i \in 1 .. Len(q)
    BY <1>4, <1>5
  <2>5. \A i \in from .. Len(q) : i \in 1 .. Len(q)
    BY <1>4, <1>5
  <2>6. ToSet(SubSeq(q, 1, n)) \cup ToSet(SubSeq(q, from, Len(q))) \subseteq ToSet(q)
    BY <2>1, <2>2, <2>3, <2>4, <2>5
  <2> DEFINE masters == SubSeq(q, 1, n)
             others == SubSeq(q, from, Len(q))
  <2>7. /\ List(masters) /\ List(others)
        /\ \A c \in ToSet(masters) \cup ToSet(others) : ~w.isfloating[c]
    BY <1>3, <2>1, <2>2, <2>6
  <2> HIDE DEF masters, others
  <2>8. AllLaid(w, g, VarColumns(w, g, g.mons[m], area, masters, others))
    BY <1>2, <2>7, VarColumnsLaid
  <2> QED BY <2>8 DEF masters, others
<1>8. ArrangeMonitor(w, g, m) = ArrangeTiled(w, g, m, area, q)
  BY DEF ArrangeMonitor, q, area
<1>9. \/ ArrangeTiled(w, g, m, area, q)
           = VarColumns(w, g, g.mons[m], area, SubSeq(q, 1, n), SubSeq(q, from, Len(q)))
      \/ ArrangeTiled(w, g, m, area, q) = Monocle(w, g, area, q)
      \/ ArrangeTiled(w, g, m, area, q) = Tile(w, g, m, area, q)
  BY Zenon DEF ArrangeTiled, n, from
<1> QED BY <1>6, <1>7, <1>8, <1>9

\* What a handler does to a window of a client with the flags in w: the hints
\* stay, the X server learns of another size unless the client is tiled and has
\* hints, a fullscreen client keeps its geometry, and a floating one without
\* hints never becomes empty.
Treated(w, c, u, v) ==
  /\ v \in Window /\ v.hints = u.hints
  /\ \/ v.rect = u.rect /\ v.size = u.size
     \/ SizeKnown(v)
     \/ v.hints # NoHints /\ ~w.isfloating[c]
  /\ w.isfullscreen[c] => v.rect = u.rect /\ v.old = u.old
  /\ w.isfloating[c] /\ u.hints = NoHints /\ v.rect # u.rect => Solid(v.rect)

LEMMA TreatedSame ==
  ASSUME NEW w, NEW c, NEW u \in Window
  PROVE  Treated(w, c, u, u)
BY DEF Treated

LEMMA TreatedTwice ==
  ASSUME NEW w, NEW c, NEW u, NEW v, NEW x, Treated(w, c, u, v), Treated(w, c, v, x)
  PROVE  Treated(w, c, u, x)
BY DEF Treated, SizeKnown

LEMMA LaidTreated ==
  ASSUME NEW w, NEW g, NEW c, FloatsIfFull(w, c), NEW v, Laid(w, g, c, v)
  PROVE  Treated(w, c, g.win[c], v)
BY DEF Treated, Laid, FloatsIfFull

LEMMA ResizeTreated ==
  ASSUME NEW w \in State, NEW g \in Screens, NEW c \in Client, NEW r \in Rect,
         NEW interact \in BOOLEAN, ~w.isfullscreen[c]
  PROVE  Treated(w, c, g.win[c], Resize(w, g, c, r, interact))
<1> DEFINE v == Resize(w, g, c, r, interact)
           a == ApplySizeHints(w, g, c, r, interact)
<1>1. /\ v \in Window /\ v.hints = g.win[c].hints
      /\ v = g.win[c] \/ SizeKnown(v)
      /\ w.isfloating[c] => v.rect = a
      /\ g.win[c].hints = NoHints => Solid(a)
  BY ResizeFacts
<1> HIDE DEF v, a
<1>2. Treated(w, c, g.win[c], v)
  BY <1>1 DEF Treated
<1> QED BY <1>2 DEF v

\* The floating clients arrange() brings back.
Back(w, ms, c) ==
  /\ \E m \in ms : Contains(w.stack[m], c)
  /\ Visible(w, c) /\ w.isfloating[c] /\ ~w.isfullscreen[c]

Rearranged(w, ms, g, h) ==
  /\ SameScreens(g, h)
  /\ \A c \in Client : Treated(w, c, g.win[c], h.win[c])
  /\ \A c \in Client :
       Back(w, ms, c) => h.win[c] = Resize(w, g, c, g.win[c].rect, FALSE)

LEMMA ArrangedInTreats ==
  ASSUME NEW w \in State, NEW g \in Screens, NEW ms \in SUBSET Mon,
         \A m \in ms : List(w.clients[m]), \A c \in Client : FloatsIfFull(w, c)
  PROVE  Rearranged(w, ms, g, ArrangedIn(w, g, ms))
<1> DEFINE s == [c \in Client |-> IF Back(w, ms, c)
                                  THEN Resize(w, g, c, g.win[c].rect, FALSE)
                                  ELSE g.win[c]]
           h == ShowFloating(w, g, ms)
           laid == [m \in ms |-> ArrangeMonitor(w, h, m).win]
           f == [c \in Client |-> IF w.mon[c] \in ms THEN laid[w.mon[c]][c]
                                  ELSE h.win[c]]
           k == ArrangedIn(w, g, ms)
<1>1. ASSUME NEW c \in Client
      PROVE  s[c] \in Window /\ Treated(w, c, g.win[c], s[c])
  <2>1. g.win[c] \in Window /\ g.win[c].rect \in Rect
    BY ScreensFields, WindowFields
  <2>2. CASE Back(w, ms, c)
    <3>1. ~w.isfullscreen[c] /\ s[c] = Resize(w, g, c, g.win[c].rect, FALSE)
      BY <2>2 DEF Back
    <3>2. Treated(w, c, g.win[c], Resize(w, g, c, g.win[c].rect, FALSE))
      BY <2>1, <3>1, ResizeTreated
    <3> QED BY <3>1, <3>2 DEF Treated
  <2>3. CASE ~Back(w, ms, c)
    BY <2>1, <2>3, TreatedSame
  <2> QED BY <2>2, <2>3
<1>2. h = [g EXCEPT !.win = s]
  BY DEF ShowFloating, Back
<1>3. s \in [Client -> Window]
  BY <1>1
<1>4. SameScreens(g, h) /\ h.win = s
  <2> HIDE DEF s, h
  <2> QED BY <1>2, <1>3, NewWindows
<1>5. h \in Screens
  BY <1>4 DEF SameScreens
<1>6. \A c \in Client : Back(w, ms, c) =>
        s[c] = Resize(w, g, c, g.win[c].rect, FALSE)
  BY DEF s
<1> HIDE DEF h, s
<1>7. ASSUME NEW c \in Client
      PROVE  Laid(w, h, c, f[c])
  <2>1. CASE w.mon[c] \in ms
    <3>1. AllLaid(w, h, ArrangeMonitor(w, h, w.mon[c]))
      BY <1>5, <2>1, ArrangeMonitorLaid
    <3> QED BY <2>1, <3>1 DEF AllLaid
  <2>2. CASE w.mon[c] \notin ms
    BY <1>5, <2>2, LaidSame DEF AllLaid
  <2> QED BY <2>1, <2>2
<1>8. k = [h EXCEPT !.win = [c \in Client |-> f[c]]]
  BY DEF ArrangedIn, h
<1> HIDE DEF f, k
<1>9. AllLaid(w, h, k)
  BY <1>5, <1>7, <1>8, WindowsLaid
<1>10. SameScreens(g, k)
  BY <1>4, <1>9 DEF AllLaid, SameScreens
<1>11. ASSUME NEW c \in Client
       PROVE  /\ Treated(w, c, g.win[c], k.win[c])
              /\ Back(w, ms, c) => k.win[c] = Resize(w, g, c, g.win[c].rect, FALSE)
  <2>1. Laid(w, h, c, k.win[c])
    BY <1>9 DEF AllLaid
  <2>2. Treated(w, c, h.win[c], k.win[c])
    BY <2>1, LaidTreated
  <2>3. Treated(w, c, g.win[c], h.win[c])
    BY <1>1, <1>4
  <2>4. Treated(w, c, g.win[c], k.win[c])
    BY <2>2, <2>3, TreatedTwice
  <2>5. Back(w, ms, c) => k.win[c] = h.win[c]
    BY <2>1 DEF Laid, Back
  <2> QED BY <1>4, <1>6, <2>4, <2>5
<1>12. Rearranged(w, ms, g, k)
  BY <1>10, <1>11 DEF Rearranged
<1> QED BY <1>12 DEF k

\* The lists are in order when a monitor is arranged.
LEMMA ArrangedTreats ==
  ASSUME NEW w, Good(w), NEW g \in Screens, NEW m \in Mon
  PROVE  /\ Rearranged(w, {m}, g, Arranged(w, g, m))
         /\ Rearranged(w, Mons(w), g, ArrangedAll(w, g))
<1>1. w \in State /\ ListInv(w) /\ Proper(w)
  BY GoodFacts
<1>2. \A i \in Mon : List(w.clients[i])
  BY <1>1 DEF ListInv, Linked
<1>3. \A c \in Client : FloatsIfFull(w, c)
  BY <1>1 DEF Proper, FloatsIfFull
<1>4. Mons(w) \in SUBSET Mon /\ {m} \in SUBSET Mon
  BY <1>1, ConstantsAssumption DEF State, Mons, Mon
<1> QED BY <1>1, <1>2, <1>3, <1>4, ArrangedInTreats DEF Arranged, ArrangedAll

\* What is brought back.
LEMMA BackIn ==
  ASSUME NEW w, Good(w), NEW c, In(w, c), Visible(w, c), w.isfloating[c],
         ~w.isfullscreen[c]
  PROVE  Back(w, {w.mon[c]}, c) /\ Back(w, Mons(w), c)
<1>1. ListInv(w) /\ w \in State
  BY GoodFacts
<1>2. /\ c \in Client /\ w.mon[c] \in Mon /\ w.mon[c] <= w.nmon
      /\ c \in ToSet(w.stack[w.mon[c]])
  BY <1>1, InFacts
<1>3. w.mon[c] \in Mons(w)
  BY <1>1, <1>2, ConstantsAssumption DEF Mons, Mon, State
<1>4. Contains(w.stack[w.mon[c]], c)
  <2>1. w.stack[w.mon[c]] \in Seq(Client)
    BY <1>1, <1>2 DEF State
  <2> QED BY <1>2, <2>1 DEF Contains, ToSet
<1> QED BY <1>3, <1>4 DEF Back

-----------------------------------------------------------------------------
(* The invariant                                                           *)

\* The monitors have geometries they may have, and bars of the height of a bar.
Framed(g) ==
  /\ g \in Screens /\ g.bh \in {0, BarHeight}
  /\ \A m \in Mon : g.mode[m] \in Modes[m] /\ g.mons[m].bar \in {0, BarHeight}

\* A floating client without hints is not empty, nor was it before it became
\* fullscreen.
SizedAt(w, g, c) ==
  g.win[c].hints = NoHints =>
    /\ w.isfloating[c] => Solid(g.win[c].rect)
    /\ w.isfullscreen[c] /\ w.oldstate[c] => Solid(g.win[c].old)

InOrder(w, g) ==
  Good(w) /\ Framed(g) /\ \A c : In(w, c) => SizedAt(w, g, c)

\* Only a client of the selected monitor that is not fullscreen is dragged.
DragInv(w, d) ==
  /\ d \in [c : ClientOrNull, resize : BOOLEAN]
  /\ d.c # NULL => /\ In(w, d.c) /\ w.mon[d.c] = w.selmon
                   /\ ~w.isfullscreen[d.c]

GeometryInv == InOrder(wm, geo) /\ DragInv(wm, drag)

-----------------------------------------------------------------------------
(* What a step does to one client                                          *)

Covers(w, g, c) == g.win[c].rect = g.mode[w.mon[c]]

\* From lists s and geometry g to t and h, c covers its monitor if it did.
StillCovers(s, g, t, h, c) ==
  t.isfullscreen[c] => Covers(t, h, c) \/ (s.isfullscreen[c] /\ ~Covers(s, g, c))

\* What c had before it became fullscreen is kept, and comes back.
Remembers(s, g, t, h, c) ==
  In(s, c) =>
    /\ t.isfullscreen[c] /\ ~s.isfullscreen[c] => h.win[c].old = g.win[c].rect
    /\ t.isfullscreen[c] /\ s.isfullscreen[c] => h.win[c].old = g.win[c].old
    /\ ~t.isfullscreen[c] /\ s.isfullscreen[c] /\ s.oldstate[c] /\ Visible(s, c) =>
         LET old == g.win[c].old
         IN h.win[c].rect =
              ApplySizeHints(t, [g EXCEPT !.win[c].rect = old], c, old, FALSE)

\* The X server knows the size of c if it did, or c is tiled and has hints.
StaysKnown(s, g, t, h, c) ==
  Visible(t, c) /\ ~SizeKnown(h.win[c]) =>
    \/ In(s, c) /\ ~SizeKnown(g.win[c])
    \/ ~t.isfloating[c] /\ h.win[c].hints # NoHints

Continued(s, g, t, h, c) ==
  SizedAt(t, h, c) /\ Remembers(s, g, t, h, c) /\ StaysKnown(s, g, t, h, c)

\* The usual case: c does not enter or leave fullscreen, and is not empty when
\* it starts to float.
Usual(s, g, t, h, c) ==
  /\ In(s, c) /\ t.isfullscreen[c] = s.isfullscreen[c]
  /\ t.oldstate[c] = s.oldstate[c]
  /\ Treated(t, c, g.win[c], h.win[c])
  /\ t.isfloating[c] /\ h.win[c].hints = NoHints =>
       s.isfloating[c] \/ Solid(h.win[c].rect)

LEMMA UsualContinued ==
  ASSUME NEW s, NEW g, NEW t, NEW h, NEW c, SizedAt(s, g, c), Usual(s, g, t, h, c)
  PROVE  Continued(s, g, t, h, c)
<1>1. SizedAt(t, h, c)
  BY DEF SizedAt, Usual, Treated
<1>2. Remembers(s, g, t, h, c)
  BY DEF Remembers, Usual, Treated
<1>3. StaysKnown(s, g, t, h, c)
  BY DEF StaysKnown, Usual, Treated, SizeKnown
<1> QED BY <1>1, <1>2, <1>3 DEF Continued

LEMMA UsualCovers ==
  ASSUME NEW s, NEW g, NEW t, NEW h, NEW c, Usual(s, g, t, h, c),
         t.mon[c] = s.mon[c], h.mode = g.mode
  PROVE  StillCovers(s, g, t, h, c)
<1>1. t.isfullscreen[c] = s.isfullscreen[c]
  BY DEF Usual
<1>2. t.isfullscreen[c] => h.win[c].rect = g.win[c].rect
  BY DEF Usual, Treated
<1>3. t.isfullscreen[c] => (Covers(t, h, c) <=> Covers(s, g, c))
  BY <1>2, Zenon DEF Covers
<1> QED BY <1>1, <1>3, Zenon DEF StillCovers

\* The clients stay where they are, and none changes its flags.
Quiet(s, t) ==
  /\ Good(t) /\ SameFlags(s, t) /\ t.mon = s.mon
  /\ \A c : In(t, c) <=> In(s, c)

\* Windows of g become those of h, on the same screen.
SameModes(g, h) == Framed(h) /\ h.mode = g.mode
AllTreated(w, g, h) == \A c \in Client : Treated(w, c, g.win[c], h.win[c])

\* The usual step.
Fine(s, g, t, h) ==
  /\ InOrder(t, h)
  /\ \A c : In(t, c) => StillCovers(s, g, t, h, c) /\ Continued(s, g, t, h, c)

LEMMA QuietFine ==
  ASSUME NEW s, NEW g, InOrder(s, g), NEW t, Quiet(s, t), NEW h, SameModes(g, h),
         AllTreated(t, g, h)
  PROVE  Fine(s, g, t, h)
<1>1. ASSUME NEW c, In(t, c)
      PROVE  /\ SizedAt(t, h, c) /\ StillCovers(s, g, t, h, c)
             /\ Continued(s, g, t, h, c)
  <2>1. In(s, c) /\ c \in Client
    BY <1>1 DEF Quiet, In
  <2>2. Usual(s, g, t, h, c)
    BY <2>1 DEF Usual, Quiet, SameFlags, AllTreated
  <2>3. SizedAt(s, g, c) /\ t.mon[c] = s.mon[c] /\ h.mode = g.mode
    BY <2>1 DEF InOrder, Quiet, SameModes
  <2>4. Continued(s, g, t, h, c) /\ StillCovers(s, g, t, h, c)
    BY <2>2, <2>3, UsualContinued, UsualCovers
  <2> QED BY <2>4 DEF Continued
<1> QED BY <1>1 DEF Fine, InOrder, Quiet, SameModes

\* Arranging afterwards is part of it.
LEMMA RearrangedTreats ==
  ASSUME NEW w, NEW ms, NEW g, NEW k, SameModes(g, k), AllTreated(w, g, k),
         NEW h, Rearranged(w, ms, k, h)
  PROVE  SameModes(g, h) /\ AllTreated(w, g, h)
<1>1. SameModes(g, h)
  BY DEF Rearranged, SameScreens, SameModes, Framed
<1>2. ASSUME NEW c \in Client
      PROVE  Treated(w, c, g.win[c], h.win[c])
  <2>1. Treated(w, c, g.win[c], k.win[c]) /\ Treated(w, c, k.win[c], h.win[c])
    BY DEF Rearranged, AllTreated
  <2> QED BY <2>1, TreatedTwice
<1> QED BY <1>1, <1>2 DEF AllTreated

LEMMA ArrangedFine ==
  ASSUME NEW s, NEW g, InOrder(s, g), NEW t, Quiet(s, t), NEW k, SameModes(g, k),
         AllTreated(t, g, k), NEW m \in Mon
  PROVE  Fine(s, g, t, Arranged(t, k, m))
<1>1. k \in Screens /\ Good(t)
  BY DEF SameModes, Framed, Quiet
<1>2. Rearranged(t, {m}, k, Arranged(t, k, m))
  BY <1>1, ArrangedTreats
<1>3. SameModes(g, Arranged(t, k, m)) /\ AllTreated(t, g, Arranged(t, k, m))
  BY <1>2, RearrangedTreats
<1> QED BY <1>3, QuietFine

LEMMA UnchangedTreated ==
  ASSUME NEW w, NEW g, Framed(g)
  PROVE  SameModes(g, g) /\ AllTreated(w, g, g)
BY ScreensFields, TreatedSame DEF SameModes, AllTreated, Framed

-----------------------------------------------------------------------------
(* What the handlers do to the flags                                       *)

LEMMA CalmQuiet ==
  ASSUME NEW s, Good(s), NEW t, Calm(s, t) \/ Steady(s, t), SameFlags(s, t)
  PROVE  Quiet(s, t)
<1>1. ListInv(s)
  BY GoodFacts
<1>2. Good(t) /\ Reordered(s, t)
  BY DEF Calm, Steady
<1> QED BY <1>1, <1>2, ReorderedSameIn DEF Quiet, Reordered, SamePlaces

LEMMA QuietSame ==
  ASSUME NEW s, Good(s)
  PROVE  Quiet(s, s)
BY DEF Quiet, SameFlags

LEMMA ToggleViewQuiet ==
  ASSUME NEW s, Good(s), NEW ui \in SUBSET Tag
  PROVE  Quiet(s, ToggleView(s, ui))
<1> DEFINE m == s.selmon
           k == s.seltags[m]
           new == SymDiff(ViewOf(s, m), ui)
           u == [s EXCEPT !.tagset[m][k] = new]
<1>1. s \in State /\ m \in Mon /\ k \in Slot /\ new \in SUBSET Tag
  BY GoodFacts, StateFields, SymDiffType
<1>2. ToggleView(s, ui) = s \/ ToggleView(s, ui) = Refresh(u)
  BY DEF ToggleView
<1> HIDE DEF m, k, new
<1>3. u \in State /\ SameFlags(s, u)
  BY <1>1, SetViewType, StateDomain, ZenonT(60) DEF SameFlags
<1> HIDE DEF u
<1>4. SameFlags(s, Refresh(u))
  BY <1>3, FlagsKept DEF SameFlags
<1>5. SameFlags(s, ToggleView(s, ui))
  BY <1>2, <1>4 DEF SameFlags
<1> QED BY <1>5, ViewSteady, CalmQuiet

LEMMA LayoutQuiet ==
  ASSUME NEW s, Good(s), NEW i \in Int, NEW layout \in Layout \cup {"toggle"}
  PROVE  Quiet(s, IncNMaster(s, i)) /\ Quiet(s, SetLayout(s, layout))
<1> DEFINE m == s.selmon
           n == s.nmaster[m] + i
           newn == IF n > 0 THEN n ELSE 0
           t == [s EXCEPT !.nmaster[m] = newn]
           flip == layout = "toggle" \/ layout # s.lt[m][s.sellt[m]]
           k == IF flip THEN 1 - s.sellt[m] ELSE s.sellt[m]
           newl == IF layout = "toggle" THEN s.lt[m][k] ELSE layout
           u == [s EXCEPT !.sellt[m] = k, !.lt[m][k] = newl]
<1>1. s \in State /\ m \in Mon
  BY GoodFacts, StateFields
<1>2. newn \in Nat
  <2>1. s.nmaster[m] \in Nat
    BY <1>1 DEF State
  <2> QED BY <2>1
<1>3. k \in Slot
  BY <1>1 DEF State, Slot
<1>4. IncNMaster(s, i) = Arrange(t, m)
  BY DEF IncNMaster
<1>5. SetLayout(s, layout) = u \/ SetLayout(s, layout) = Arrange(u, m)
  BY DEF SetLayout
<1> HIDE DEF m, k, newn
<1>6. newl \in Layout
  BY <1>1, <1>3 DEF State
<1> HIDE DEF newl
<1>7. t \in State /\ u \in State
  BY <1>1, <1>2, <1>3, <1>6, SetNMasterType, SetLtType
<1>8. SameFlags(s, t) /\ SameFlags(s, u)
  BY <1>1 DEF SameFlags, State
<1> HIDE DEF t, u
<1>9. SameFlags(s, Arrange(t, m)) /\ SameFlags(s, Arrange(u, m))
  BY <1>7, <1>8, FlagsKept DEF SameFlags
<1>10. SameFlags(s, IncNMaster(s, i)) /\ SameFlags(s, SetLayout(s, layout))
  BY <1>4, <1>5, <1>8, <1>9
<1>11. Calm(s, IncNMaster(s, i)) /\ Calm(s, SetLayout(s, layout))
  BY LayoutCalm
<1> QED BY <1>10, <1>11, CalmQuiet

LEMMA PushLeftQuiet ==
  ASSUME NEW s, Good(s)
  PROVE  Quiet(s, PushLeft(s))
<1> DEFINE c == s.sel[s.selmon]
           left == ~s.isLeft[c]
           t == [s EXCEPT !.isLeft[c] = left]
           f == Focus(t, c)
<1>1. s \in State /\ c \in ClientOrNull
  BY GoodFacts, StateFields
<1>2. left \in BOOLEAN
  OBVIOUS
<1>3. PushLeft(s) = IF c = NULL THEN Arrange(s, s.selmon) ELSE Arrange(f, f.selmon)
  BY DEF PushLeft
<1> HIDE DEF c, left
<1>4. ASSUME c # NULL
      PROVE  t \in State /\ SameFlags(s, t)
  BY <1>1, <1>2, <1>4, SetIsLeftType, StateDomain, ZenonT(60)
     DEF SameFlags, ClientOrNull
<1> HIDE DEF t
<1>5. SameFlags(s, PushLeft(s))
  <2>1. CASE c = NULL
    <3>1. PushLeft(s) = Arrange(s, s.selmon)
      BY <1>3, <2>1
    <3> QED BY <1>1, <3>1, FlagsKept DEF SameFlags
  <2>2. CASE c # NULL
    <3>1. t \in State /\ SameFlags(s, t)
      BY <1>4, <2>2
    <3>2. f \in State /\ SameFlags(t, f)
      BY <1>1, <3>1, FocusType, FlagsKept DEF SameFlags
    <3> HIDE DEF f
    <3>3. SameFlags(f, Arrange(f, f.selmon))
      BY <3>2, FlagsKept DEF SameFlags
    <3>4. PushLeft(s) = Arrange(f, f.selmon)
      BY <1>3, <2>2
    <3> QED BY <3>1, <3>2, <3>3, <3>4 DEF SameFlags
  <2> QED BY <2>1, <2>2
<1> QED BY <1>5, PushLeftCalm, CalmQuiet

\* arrange() of a monitor after a change of the number of its masters, or of
\* none.
LEMMA ArrangeQuiet ==
  ASSUME NEW s, Good(s), NEW m
  PROVE  /\ Quiet(s, Arrange(s, m))
         /\ \A n \in Nat, i \in Mon : Quiet(s, Arrange([s EXCEPT !.nmaster[i] = n], m))
<1>1. s \in State
  BY GoodFacts
<1>2. Quiet(s, Arrange(s, m))
  BY <1>1, ArrangeGood, FlagsKept, CalmQuiet
<1>3. ASSUME NEW n \in Nat, NEW i \in Mon
      PROVE  Quiet(s, Arrange([s EXCEPT !.nmaster[i] = n], m))
  <2> DEFINE t == [s EXCEPT !.nmaster[i] = n]
  <2>1. t \in State
    BY <1>1, SetNMasterType
  <2>2. /\ SameLists(s, t) /\ Untouched(s, t) /\ t.isurgent = s.isurgent
        /\ SameFlags(s, t)
    BY <1>1 DEF SameLists, Untouched, SameFlags, State
  <2> HIDE DEF t
  <2>3. Calm(s, Arrange(t, m)) /\ SameFlags(s, Arrange(t, m))
    BY <2>1, <2>2, FieldsCalm, FlagsKept DEF SameFlags
  <2>4. Quiet(s, Arrange(t, m))
    BY <2>3, CalmQuiet
  <2> QED BY <2>4 DEF t
<1> QED BY <1>2, <1>3

LEMMA ButtonPressQuiet ==
  ASSUME NEW s, Good(s), NEW c, In(s, c)
  PROVE  Quiet(s, ButtonPress(s, c))
<1> DEFINE m == s.mon[c]
           sel == SelectMon(s, m)
           f == IF m = s.selmon THEN s ELSE Focus(sel, NULL)
<1>1. s \in State /\ c \in Client /\ m \in Mon /\ NULL \in ClientOrNull
  BY GoodFacts, InFacts DEF ClientOrNull
<1>2. sel \in State /\ SameFlags(s, sel)
  BY <1>1, SelectMonUntouched DEF Untouched, SameFlags
<1>3. ButtonPress(s, c) = Focus(f, c)
  BY DEF ButtonPress
<1> HIDE DEF sel, m
<1>4. f \in State /\ SameFlags(s, f)
  BY <1>1, <1>2, FocusType, FlagsKept DEF SameFlags
<1> HIDE DEF f
<1>5. SameFlags(s, ButtonPress(s, c))
  BY <1>1, <1>3, <1>4, FlagsKept DEF SameFlags, ClientOrNull
<1> QED BY <1>5, EnterCalm, CalmQuiet

\* Only c starts to float, or stops to.
Toggled(s, t, c) ==
  /\ Good(t) /\ t.mon = s.mon /\ t.selmon = s.selmon
  /\ t.isfullscreen = s.isfullscreen /\ t.oldstate = s.oldstate
  /\ \A d \in Client \ {c} : t.isfloating[d] = s.isfloating[d]
  /\ \A d : In(t, d) <=> In(s, d)

LEMMA ToggleFloatingToggles ==
  ASSUME NEW s, Good(s)
  PROVE  Toggled(s, ToggleFloating(s), SelOf(s))
<1> DEFINE c == s.sel[s.selmon]
           float == ~s.isfloating[c] \/ s.isfixed[c]
           t == [s EXCEPT !.isfloating[c] = float]
           a == Arrange(t, s.selmon)
<1>1. s \in State /\ c \in ClientOrNull /\ ListInv(s)
  BY GoodFacts, StateFields
<1>2. ToggleFloating(s) = IF c = NULL \/ s.isfullscreen[c] THEN s ELSE a
  BY DEF ToggleFloating
<1>3. float \in BOOLEAN
  BY <1>1, StateFlags
<1> HIDE DEF c, float
<1>4. CASE c = NULL \/ s.isfullscreen[c]
  BY <1>2, <1>4 DEF Toggled
<1>5. CASE ~(c = NULL \/ s.isfullscreen[c])
  <2>1. c \in Client
    BY <1>1, <1>5 DEF ClientOrNull
  <2>2. t \in State
    BY <1>1, <1>3, <2>1, SetFloatingType
  <2>3. /\ t.isfullscreen = s.isfullscreen /\ t.oldstate = s.oldstate
        /\ t.isfloating = [s.isfloating EXCEPT ![c] = float]
        /\ t.selmon = s.selmon
    BY <1>1, <2>1, StateDomain, ZenonT(60)
  <2>4. s.isfloating \in [Client -> BOOLEAN]
    BY <1>1 DEF State
  <2> HIDE DEF t
  <2>5. SameFlags(t, a) /\ a.selmon = t.selmon
    BY <2>2, FlagsKept, ArrangeFields DEF Arrange
  <2>6. Good(a) /\ Reordered(s, a)
    BY <1>2, <1>5, ToggleCalm DEF Calm
  <2> HIDE DEF a
  <2>7. a.mon = s.mon /\ \A d : In(a, d) <=> In(s, d)
    BY <1>1, <2>6, ReorderedSameIn DEF Reordered, SamePlaces
  <2>8. \A d \in Client \ {c} : a.isfloating[d] = s.isfloating[d]
    BY <2>3, <2>4, <2>5 DEF SameFlags
  <2>9. Toggled(s, a, c)
    BY <2>3, <2>5, <2>6, <2>7, <2>8 DEF Toggled, SameFlags
  <2> QED BY <1>2, <1>5, <2>9 DEF c, SelOf
<1> QED BY <1>4, <1>5 DEF c, SelOf

\* c enters fullscreen and floats, or leaves it and floats as it did before.
FullscreenSet(s, t, c) ==
  /\ Good(t) /\ t.mon = s.mon /\ \A d : In(t, d) <=> In(s, d)
  /\ Visible(t, c) = Visible(s, c)
  /\ \A d \in Client \ {c} : /\ t.isfloating[d] = s.isfloating[d]
                             /\ t.isfullscreen[d] = s.isfullscreen[d]
                             /\ t.oldstate[d] = s.oldstate[d]
  /\ t.isfullscreen[c] = ~s.isfullscreen[c]
  /\ t.isfullscreen[c] => t.isfloating[c] /\ t.oldstate[c] = s.isfloating[c]
  /\ ~t.isfullscreen[c] => t.isfloating[c] = s.oldstate[c]

LEMMA SetFullscreenSets ==
  ASSUME NEW s, Good(s), NEW c, In(s, c)
  PROVE  FullscreenSet(s, SetFullscreen(s, c, ~s.isfullscreen[c]), c)
<1> DEFINE old == s.oldstate[c]
           float == s.isfloating[c]
           on == [s EXCEPT !.isfullscreen[c] = TRUE, !.oldstate[c] = float,
                           !.isfloating[c] = TRUE, !.shown[c] = TRUE]
           off == [s EXCEPT !.isfullscreen[c] = FALSE,
                            !.isfloating[c] = old, !.shown[c] = TRUE]
           t == SetFullscreen(s, c, ~s.isfullscreen[c])
           same == IF s.isfullscreen[c] THEN off ELSE on
<1>1. s \in State /\ c \in Client /\ float \in BOOLEAN /\ old \in BOOLEAN /\ ListInv(s)
  BY GoodFacts, StateFlags DEF In
<1>2. /\ s.isfullscreen \in [Client -> BOOLEAN] /\ s.isfloating \in [Client -> BOOLEAN]
      /\ s.oldstate \in [Client -> BOOLEAN]
  BY <1>1 DEF State
<1>3. t = IF s.isfullscreen[c] THEN Arrange(off, s.mon[c]) ELSE on
  <2>1. CASE s.isfullscreen[c]
    <3>1. t = Arrange(off, s.mon[c])
      BY <2>1, Zenon DEF SetFullscreen
    <3> QED BY <2>1, <3>1, Zenon
  <2>2. CASE ~s.isfullscreen[c]
    <3>1. t = on
      BY <2>2, Zenon DEF SetFullscreen
    <3> QED BY <2>2, <3>1, Zenon
  <2> QED BY <2>1, <2>2, Zenon
<1>4. on \in State /\ off \in State
  <2> HIDE DEF old, float
  <2> QED BY <1>1, SetFullscreenFieldsType
<1>5. /\ on.isfullscreen = [s.isfullscreen EXCEPT ![c] = TRUE]
      /\ on.isfloating = [s.isfloating EXCEPT ![c] = TRUE]
      /\ on.oldstate = [s.oldstate EXCEPT ![c] = float]
  <2> HIDE DEF old, float
  <2> QED BY <1>1 DEF State
<1>6. /\ off.isfullscreen = [s.isfullscreen EXCEPT ![c] = FALSE]
      /\ off.isfloating = [s.isfloating EXCEPT ![c] = old]
      /\ off.oldstate = s.oldstate
  <2> HIDE DEF old, float
  <2> QED BY <1>1 DEF State
<1> HIDE DEF on, off
<1>7. same \in State /\ SameFlags(same, t)
  BY <1>3, <1>4, FlagsKept DEF SameFlags
<1>8. Calm(s, t)
  BY <1>1, <1>2, SetFullscreenCalm
<1> HIDE DEF t
<1>9. Good(t) /\ t.mon = s.mon /\ \A d : In(t, d) <=> In(s, d)
  BY <1>1, <1>8, ReorderedSameIn DEF Calm, Reordered, SamePlaces
<1>10. Visible(t, c) = Visible(s, c)
  <2>1. SameView(s, t)
    BY <1>8, <1>9 DEF Calm, SameTags, SameView
  <2> QED BY <2>1, SameVisible
<1>11. \A d \in Client \ {c} : /\ same.isfloating[d] = s.isfloating[d]
                               /\ same.isfullscreen[d] = s.isfullscreen[d]
                               /\ same.oldstate[d] = s.oldstate[d]
  BY <1>2, <1>5, <1>6
<1>12. /\ same.isfullscreen[c] = ~s.isfullscreen[c]
       /\ same.isfullscreen[c] => same.isfloating[c] /\ same.oldstate[c] = float
       /\ ~same.isfullscreen[c] => same.isfloating[c] = old
  BY <1>1, <1>2, <1>5, <1>6
<1> HIDE DEF same
<1>13. FullscreenSet(s, t, c)
  BY <1>7, <1>9, <1>10, <1>11, <1>12 DEF FullscreenSet, SameFlags
<1> QED BY <1>13 DEF t

-----------------------------------------------------------------------------
(* Commands that only set something and arrange                            *)

LEMMA OneMonitor ==
  ASSUME NEW g, Framed(g), NEW m \in Mon, NEW mon \in Screen,
         mon.bar \in {0, BarHeight}
  PROVE  LET h == [g EXCEPT !.mons[m] = mon]
             k == [g EXCEPT !.bh = BarHeight, !.mons[m] = mon]
         IN /\ SameModes(g, h) /\ \A w : AllTreated(w, g, h)
            /\ SameModes(g, k) /\ \A w : AllTreated(w, g, k)
<1> DEFINE mons == [g.mons EXCEPT ![m] = mon]
           h == [g EXCEPT !.mons[m] = mon]
           k == [g EXCEPT !.bh = BarHeight, !.mons[m] = mon]
<1>1. g \in Screens /\ BarHeight \in Nat
  BY GeometryAssumption DEF Framed
<1>2. /\ mons \in [Mon -> Screen]
      /\ \A i \in Mon : mons[i] = IF i = m THEN mon ELSE g.mons[i]
  BY <1>1 DEF Screens
<1>3. h = [g EXCEPT !.mons = mons] /\ k = [g EXCEPT !.bh = BarHeight, !.mons = mons]
  BY <1>1 DEF Screens
<1> HIDE DEF mons, h, k
<1>4. /\ h \in Screens /\ h.mode = g.mode /\ h.bh = g.bh /\ h.mons = mons
      /\ h.win = g.win
  BY <1>1, <1>2, <1>3 DEF Screens
<1>5. /\ k \in Screens /\ k.mode = g.mode /\ k.bh = BarHeight /\ k.mons = mons
      /\ k.win = g.win
  BY <1>1, <1>2, <1>3 DEF Screens
<1>6. SameModes(g, h) /\ SameModes(g, k)
  BY <1>2, <1>4, <1>5 DEF SameModes, Framed
<1>7. ASSUME NEW w
      PROVE  AllTreated(w, g, h) /\ AllTreated(w, g, k)
  BY <1>1, <1>4, <1>5, ScreensFields, TreatedSame DEF AllTreated
<1> QED BY <1>6, <1>7 DEF h, k

LEMMA DoWithFine ==
  ASSUME InOrder(wm, geo), NEW w, NEW g, NEW m \in Mon, Quiet(wm, Arrange(w, m)),
         SameModes(geo, g), \A x : AllTreated(x, geo, g),
         wm' = Arrange(w, m), geo' = Arranged(wm', g, m)
  PROVE  Fine(wm, geo, wm', geo')
<1>1. Quiet(wm, wm') /\ AllTreated(wm', geo, g)
  OBVIOUS
<1> QED BY <1>1, ArrangedFine

\* A handler that leaves the flags alone, and what it arranges.
LEMMA DoFine ==
  ASSUME InOrder(wm, geo), Quiet(wm, wm'),
         geo' = geo \/ geo' = Arranged(wm', geo, wm'.selmon)
  PROVE  Fine(wm, geo, wm', geo')
<1>1. Framed(geo)
  BY DEF InOrder
<1>2. SameModes(geo, geo) /\ AllTreated(wm', geo, geo)
  BY <1>1, UnchangedTreated
<1>3. wm' \in State
  BY GoodFacts DEF Quiet
<1>4. wm'.selmon \in Mon
  BY <1>3 DEF State
<1>5. CASE geo' = geo
  BY <1>2, <1>5, QuietFine
<1>6. CASE geo' = Arranged(wm', geo, wm'.selmon)
  BY <1>2, <1>4, <1>6, ArrangedFine
<1> QED BY <1>5, <1>6

LEMMA LayoutSteps ==
  ASSUME InOrder(wm, geo), ToggleViewCmd \/ SetLayoutCmd \/ IncNMasterCmd \/ PushLeftCmd
  PROVE  Fine(wm, geo, wm', geo')
<1>1. Good(wm)
  BY DEF InOrder
<1>2. \A t \in Tag : {t} \in SUBSET Tag
  OBVIOUS
<1>3. CASE ToggleViewCmd
  BY <1>1, <1>2, <1>3, ToggleViewQuiet, DoFine DEF ToggleViewCmd
<1>4. CASE SetLayoutCmd
  <2>1. 1 \in Int
    OBVIOUS
  <2>2. Quiet(wm, wm')
    BY <1>1, <1>4, <2>1, LayoutQuiet DEF SetLayoutCmd
  <2> QED BY <1>4, <2>2, DoFine DEF SetLayoutCmd
<1>5. CASE IncNMasterCmd
  <2>1. PICK i \in {1, -1} : Do(IncNMaster(wm, i))
    BY <1>5 DEF IncNMasterCmd
  <2>2. i \in Int /\ "toggle" \in Layout \cup {"toggle"}
    OBVIOUS
  <2>3. Quiet(wm, wm')
    BY <1>1, <2>1, <2>2, LayoutQuiet DEF Do
  <2> QED BY <2>1, <2>3, DoFine DEF Do
<1>6. CASE PushLeftCmd
  BY <1>1, <1>6, PushLeftQuiet, DoFine DEF PushLeftCmd, Do
<1> QED BY <1>3, <1>4, <1>5, <1>6

\* The numbers of columns, and the factors.
LEMMA ColumnSteps ==
  ASSUME InOrder(wm, geo), IncNColsCmd \/ SetColFactCmd \/ SetMFactCmd
  PROVE  Fine(wm, geo, wm', geo')
<1> DEFINE m == wm.selmon
           mon == geo.mons[m]
<1>1. /\ Good(wm) /\ Framed(geo) /\ wm \in State /\ m \in Mon /\ mon \in Screen
      /\ mon.bar \in {0, BarHeight} /\ wm.nmaster[m] \in Nat
  <2>1. Good(wm) /\ Framed(geo) /\ wm \in State
    BY GoodFacts DEF InOrder
  <2>2. m \in Mon /\ wm.nmaster[m] \in Nat
    BY <2>1 DEF State
  <2> QED BY <2>1, <2>2, ScreensFields DEF Framed
<1>2. SameModes(geo, geo) /\ \A x : AllTreated(x, geo, geo)
  BY <1>1, UnchangedTreated
<1>3. CASE IncNColsCmd
  <2>1. PICK i \in {1, -1} :
          LET n == Bigger(geo.mons[wm.selmon].nmastercols + i, 0)
              w == IF IsMaster(wm)
                   THEN [wm EXCEPT !.nmaster[wm.selmon] = Bigger(@, n)] ELSE wm
              g == IF IsMaster(wm) THEN [geo EXCEPT !.mons[wm.selmon].nmastercols = n]
                   ELSE IF IsLeft(wm, Selected(wm)) THEN geo
                   ELSE [geo EXCEPT !.mons[wm.selmon].nrightcols = Bigger(@ + i, 0)]
          IN DoWith(w, g, wm.selmon)
    BY <1>3 DEF IncNColsCmd
  <2> DEFINE n == Bigger(mon.nmastercols + i, 0)
             k == Bigger(mon.nrightcols + i, 0)
             masters == Bigger(wm.nmaster[m], n)
             w == IF IsMaster(wm) THEN [wm EXCEPT !.nmaster[m] = masters] ELSE wm
             monn == [mon EXCEPT !.nmastercols = n]
             monk == [mon EXCEPT !.nrightcols = k]
             g == IF IsMaster(wm) THEN [geo EXCEPT !.mons[m] = monn]
                  ELSE IF IsLeft(wm, Selected(wm)) THEN geo
                  ELSE [geo EXCEPT !.mons[m] = monk]
  <2>2. DoWith(w, g, m)
    BY <2>1, Zenon
  <2>3. n \in Nat /\ k \in Nat /\ masters \in Nat
    BY <1>1 DEF Screen, Bigger
  <2> HIDE DEF mon, n, k, masters
  <2>4. monn \in Screen /\ monk \in Screen /\ monn.bar = mon.bar /\ monk.bar = mon.bar
    BY <1>1, <2>3 DEF Screen
  <2> HIDE DEF monn, monk, m
  <2>5. SameModes(geo, g) /\ \A x : AllTreated(x, geo, g)
    BY <1>1, <1>2, <2>4, OneMonitor
  <2>6. Quiet(wm, Arrange(w, m))
    BY <1>1, <2>3, ArrangeQuiet
  <2> HIDE DEF w, g
  <2> QED BY <1>1, <2>2, <2>5, <2>6, DoWithFine DEF DoWith
<1>4. CASE SetColFactCmd
  <2>1. PICK f \in ColFactSteps :
          LET i == IF IsMaster(wm) THEN 2
                   ELSE IF IsLeft(wm, Selected(wm)) THEN 1 ELSE 3
              fact == IF f >= 100 THEN f - 100
                      ELSE geo.mons[wm.selmon].colfact[i] + f
          IN DoWith(wm, [geo EXCEPT !.mons[wm.selmon].colfact[i] =
                                      Bigger(10, Smaller(fact, 90))], wm.selmon)
    BY <1>4 DEF SetColFactCmd
  <2> DEFINE i == IF IsMaster(wm) THEN 2 ELSE IF IsLeft(wm, Selected(wm)) THEN 1 ELSE 3
             fact == IF f >= 100 THEN f - 100 ELSE mon.colfact[i] + f
             new == Bigger(10, Smaller(fact, 90))
             colfact == [mon.colfact EXCEPT ![i] = new]
             monn == [mon EXCEPT !.colfact = colfact]
  <2>2. DoWith(wm, [geo EXCEPT !.mons[m] = monn], m)
    BY <2>1, Zenon
  <2>3. i \in 1 .. 3 /\ f \in Int /\ mon.colfact \in [1 .. 3 -> Nat \ {0}]
    BY <1>1, GeometryAssumption DEF Screen
  <2> HIDE DEF i, mon
  <2>4. fact \in Int
    BY <2>3
  <2> HIDE DEF fact
  <2>5. new \in Nat \ {0}
    BY <2>4 DEF Bigger, Smaller
  <2> HIDE DEF new
  <2>6. colfact \in [1 .. 3 -> Nat \ {0}]
    BY <2>3, <2>5
  <2> HIDE DEF colfact
  <2>7. monn \in Screen /\ monn.bar = mon.bar
    BY <1>1, <2>6 DEF Screen
  <2> HIDE DEF monn, m
  <2> DEFINE g == [geo EXCEPT !.mons[m] = monn]
  <2>8. SameModes(geo, g) /\ \A x : AllTreated(x, geo, g)
    BY <1>1, <2>7, OneMonitor
  <2>9. Quiet(wm, Arrange(wm, m))
    BY <1>1, ArrangeQuiet
  <2> HIDE DEF g
  <2> QED BY <1>1, <2>2, <2>8, <2>9, DoWithFine DEF DoWith, g
<1>5. CASE SetMFactCmd
  <2>1. PICK f \in MFactSteps :
          LET fact == IF f < 100 THEN geo.mons[wm.selmon].mfact + f ELSE f - 100
          IN fact \in 5 .. 95
             /\ DoWith(wm, [geo EXCEPT !.mons[wm.selmon].mfact = fact], wm.selmon)
    BY <1>5 DEF SetMFactCmd
  <2> DEFINE fact == IF f < 100 THEN mon.mfact + f ELSE f - 100
             monn == [mon EXCEPT !.mfact = fact]
  <2>2. fact \in 5 .. 95 /\ DoWith(wm, [geo EXCEPT !.mons[m] = monn], m)
    BY <2>1, Zenon
  <2> HIDE DEF mon, fact
  <2>3. fact \in Int
    BY <2>2
  <2>4. monn \in Screen /\ monn.bar = mon.bar
    BY <1>1, <2>3 DEF Screen
  <2> HIDE DEF monn, m
  <2> DEFINE g == [geo EXCEPT !.mons[m] = monn]
  <2>5. SameModes(geo, g) /\ \A x : AllTreated(x, geo, g)
    BY <1>1, <2>4, OneMonitor
  <2>6. Quiet(wm, Arrange(wm, m))
    BY <1>1, ArrangeQuiet
  <2> HIDE DEF g
  <2> QED BY <1>1, <2>2, <2>5, <2>6, DoWithFine DEF DoWith, g
<1> QED BY <1>3, <1>4, <1>5

\* The bar.
LEMMA BarSteps ==
  ASSUME InOrder(wm, geo), ToggleBarCmd \/ BarMapped \/ BarUnmapped
  PROVE  Fine(wm, geo, wm', geo')
<1>1. /\ Good(wm) /\ Framed(geo) /\ wm \in State /\ wm.selmon \in Mon
      /\ Mons(wm) \subseteq Mon /\ BarHeight \in Nat
  <2>1. Good(wm) /\ Framed(geo) /\ wm \in State
    BY GoodFacts DEF InOrder
  <2>2. wm.selmon \in Mon /\ Mons(wm) \subseteq Mon
    BY <2>1, ConstantsAssumption DEF State, Mons, Mon
  <2> QED BY <2>1, <2>2, GeometryAssumption
<1>2. PICK m \in Mon :
        \/ DoWith(wm, [geo EXCEPT !.mons[m].showbar = ~@], m)
        \/ DoWith(wm, [geo EXCEPT !.bh = BarHeight, !.mons[m].bar = BarHeight,
                                  !.mons[m].barwin = TRUE], m)
        \/ DoWith(wm, [geo EXCEPT !.mons[m].bar = 0,
                                  !.mons[m].barwin = FALSE], m)
  BY <1>1 DEF ToggleBarCmd, BarMapped, BarUnmapped
<1> DEFINE mon == geo.mons[m]
           shows == ~mon.showbar
           mon1 == [mon EXCEPT !.showbar = shows]
           mon2 == [mon EXCEPT !.bar = BarHeight, !.barwin = TRUE]
           mon3 == [mon EXCEPT !.bar = 0, !.barwin = FALSE]
           g1 == [geo EXCEPT !.mons[m] = mon1]
           g2 == [geo EXCEPT !.bh = BarHeight, !.mons[m] = mon2]
           g3 == [geo EXCEPT !.mons[m] = mon3]
<1>3. DoWith(wm, g1, m) \/ DoWith(wm, g2, m) \/ DoWith(wm, g3, m)
  <2>1. geo \in Screens
    BY <1>1 DEF Framed
  <2>2. /\ [geo EXCEPT !.mons[m].showbar = ~@] = g1
        /\ [geo EXCEPT !.bh = BarHeight, !.mons[m].bar = BarHeight,
                       !.mons[m].barwin = TRUE] = g2
        /\ [geo EXCEPT !.mons[m].bar = 0, !.mons[m].barwin = FALSE] = g3
    BY <2>1 DEF Screens, Screen
  <2> QED BY <1>2, <2>2
<1>4. mon \in Screen /\ mon.bar \in {0, BarHeight}
  BY <1>1, ScreensFields DEF Framed
<1> HIDE DEF mon
<1>5. shows \in BOOLEAN
  OBVIOUS
<1> HIDE DEF shows
<1>6. /\ mon1 \in Screen /\ mon1.bar = mon.bar /\ mon2 \in Screen
      /\ mon2.bar = BarHeight /\ mon3 \in Screen /\ mon3.bar = 0
  BY <1>1, <1>4, <1>5 DEF Screen
<1> HIDE DEF mon1, mon2, mon3
<1>7. /\ SameModes(geo, g1) /\ \A x : AllTreated(x, geo, g1)
      /\ SameModes(geo, g2) /\ \A x : AllTreated(x, geo, g2)
      /\ SameModes(geo, g3) /\ \A x : AllTreated(x, geo, g3)
  BY <1>1, <1>4, <1>6, OneMonitor
<1>8. Quiet(wm, Arrange(wm, m))
  BY <1>1, ArrangeQuiet
<1> HIDE DEF g1, g2, g3
<1> QED BY <1>3, <1>7, <1>8, DoWithFine DEF DoWith

\* The factor of the selected client.
LEMMA CFactStep ==
  ASSUME InOrder(wm, geo), SetCFactCmd
  PROVE  Fine(wm, geo, wm', geo')
<1> DEFINE m == wm.selmon
           c == Selected(wm)
<1>1. /\ Good(wm) /\ Framed(geo) /\ geo \in Screens /\ m \in Mon /\ c \in ClientOrNull
  BY GoodFacts, StateFields DEF InOrder, Framed, Selected
<1>2. PICK f \in CFactSteps :
        LET fact == IF f = 0 THEN 4 ELSE geo.win[Selected(wm)].cfact + f
        IN /\ Selected(wm) # NULL /\ fact \in 1 .. 16
           /\ DoWith(wm, [geo EXCEPT !.win[Selected(wm)].cfact = fact], wm.selmon)
  BY DEF SetCFactCmd
<1> DEFINE fact == IF f = 0 THEN 4 ELSE geo.win[c].cfact + f
           v == [geo.win[c] EXCEPT !.cfact = fact]
           g == [geo EXCEPT !.win[c] = v]
<1>3. c # NULL /\ fact \in 1 .. 16 /\ DoWith(wm, g, m)
  BY <1>2, Zenon
<1> HIDE DEF fact
<1>4. c \in Client /\ geo.win[c] \in Window
  BY <1>1, <1>3, ScreensFields DEF ClientOrNull
<1> HIDE DEF c, m
<1>5. /\ v \in Window /\ v.rect = geo.win[c].rect /\ v.old = geo.win[c].old
      /\ v.size = geo.win[c].size /\ v.hints = geo.win[c].hints
  <2>1. fact \in Nat \ {0}
    BY <1>3
  <2> QED BY <1>4, <2>1 DEF Window
<1> HIDE DEF v
<1>6. /\ SameScreens(geo, g) /\ g.win[c] = v
      /\ \A d \in Client : d # c => g.win[d] = geo.win[d]
  BY <1>1, <1>4, <1>5, OneWindow
<1> HIDE DEF g
<1>7. SameModes(geo, g)
  BY <1>1, <1>6 DEF SameScreens, SameModes, Framed
<1>8. ASSUME NEW x, NEW d \in Client
      PROVE  Treated(x, d, geo.win[d], g.win[d])
  <2>1. geo.win[d] \in Window
    BY <1>1, ScreensFields
  <2>2. CASE d = c
    BY <1>5, <1>6, <2>2 DEF Treated
  <2>3. CASE d # c
    BY <1>6, <2>1, <2>3, TreatedSame
  <2> QED BY <2>2, <2>3
<1>9. \A x : AllTreated(x, geo, g)
  BY <1>8 DEF AllTreated
<1>10. Quiet(wm, Arrange(wm, m))
  BY <1>1, ArrangeQuiet
<1> QED BY <1>1, <1>3, <1>7, <1>9, <1>10, DoWithFine DEF DoWith

-----------------------------------------------------------------------------
(* Steps that move one window, or none                                     *)

LEMMA GoodManaged ==
  ASSUME NEW s, Good(s), NEW c
  PROVE  c \in Managed(s) <=> In(s, c)
<1>1. ListInv(s) /\ s \in State
  BY GoodFacts
<1>2. CASE c \in Managed(s)
  <2>1. c \in Client
    BY <1>2 DEF Managed
  <2> QED BY <1>1, <1>2, <2>1, ManagedIn
<1>3. CASE c \notin Managed(s)
  <2>1. c \in Client => ~In(s, c)
    BY <1>1, <1>3, ManagedIn, OutNotIn
  <2> QED BY <1>3, <2>1 DEF In
<1> QED BY <1>2, <1>3

\* What a step may do to the window of one client, with the exceptions that
\* FullscreenCovers, FullscreenRestores and ServerKnowsSize name.
Sound(c) ==
  /\ StillCovers(wm, geo, wm', geo', c) \/ Requested(c) \/ TagMonCmd
  /\ \/ Remembers(wm, geo, wm', geo', c)
     \/ /\ Requested(c) \/ ConfigureNotifyEvent
        /\ wm'.isfullscreen[c] = wm.isfullscreen[c]
  /\ \/ StaysKnown(wm, geo, wm', geo', c)
     \/ Requested(c) /\ ~Visible(wm, c)

AllSound == InOrder(wm', geo') /\ \A c : In(wm', c) => Sound(c)

LEMMA FineSound ==
  ASSUME Fine(wm, geo, wm', geo')
  PROVE  AllSound
BY DEF AllSound, Fine, Sound, Continued

\* A button selects a window; nothing is moved.
LEMMA ButtonFine ==
  ASSUME InOrder(wm, geo), NEW c \in Managed(wm), wm' = ButtonPress(wm, c),
         geo' = geo
  PROVE  Fine(wm, geo, wm', geo')
<1>1. Good(wm)
  BY DEF InOrder
<1>2. In(wm, c)
  BY <1>1, GoodManaged
<1> QED BY <1>1, <1>2, ButtonPressQuiet, DoFine

\* k is g with another window record v for c.
Changed(g, c, v, k) == k = [g EXCEPT !.win[c] = v]

\* One window is treated, and then the monitor is arranged.
LEMMA OneTreated ==
  ASSUME NEW w, NEW g, Framed(g), NEW c \in Client, NEW v,
         Treated(w, c, g.win[c], v), NEW k, Changed(g, c, v, k)
  PROVE  SameModes(g, k) /\ AllTreated(w, g, k) /\ k.win[c] = v
<1>1. g \in Screens /\ v \in Window /\ k = [g EXCEPT !.win[c] = v]
  BY DEF Framed, Treated, Changed
<1>2. /\ SameScreens(g, k) /\ k.win[c] = v
      /\ \A d \in Client : d # c => k.win[d] = g.win[d]
  BY <1>1, OneWindow
<1>3. SameModes(g, k)
  BY <1>2 DEF SameScreens, SameModes, Framed
<1>4. ASSUME NEW d \in Client
      PROVE  Treated(w, d, g.win[d], k.win[d])
  <2>1. CASE d = c
    BY <1>2, <2>1
  <2>2. CASE d # c
    BY <1>1, <1>2, <2>2, ScreensFields, TreatedSame
  <2> QED BY <2>1, <2>2
<1> QED BY <1>2, <1>3, <1>4 DEF AllTreated

\* togglefloating(): the selected client c, if any.
LEMMA FloatedFine ==
  ASSUME NEW s, NEW g, InOrder(s, g)
  PROVE  LET t == ToggleFloating(s)
         IN Fine(s, g, t, Floated(s, g, SelOf(s), t))
<1> DEFINE c == SelOf(s)
           t == ToggleFloating(s)
           v == IF t.isfloating[c] THEN Resize(t, g, c, g.win[c].rect, FALSE)
                ELSE g.win[c]
           k == [g EXCEPT !.win[c] = v]
           h == Arranged(t, k, t.selmon)
<1>1. /\ Good(s) /\ Framed(g) /\ ListInv(s) /\ s \in State /\ g \in Screens
      /\ c \in ClientOrNull
  BY GoodFacts, StateFields DEF InOrder, Framed, SelOf
<1>2. CASE c = NULL \/ s.isfullscreen[c]
  <2>1. t = s /\ Floated(s, g, c, t) = g
    BY <1>2 DEF ToggleFloating, Floated, SelOf
  <2>2. Fine(s, g, s, g)
    BY <1>1, QuietSame, UnchangedTreated, QuietFine
  <2> QED BY <2>1, <2>2
<1>3. CASE ~(c = NULL \/ s.isfullscreen[c])
  <2>1. c \in Client
    BY <1>1, <1>3 DEF ClientOrNull
  <2>2. Floated(s, g, c, t) = h
    <3>1. [g EXCEPT !.win[c] = IF t.isfloating[c]
                               THEN Resize(t, g, c, @.rect, FALSE) ELSE @] = k
      BY <1>1, <2>1, Zenon DEF Screens
    <3> QED BY <1>3, <3>1 DEF Floated
  <2>3. Toggled(s, t, c)
    BY <1>1, ToggleFloatingToggles
  <2> HIDE DEF t, c
  <2>4. /\ Good(t) /\ t \in State /\ ~t.isfullscreen[c] /\ t.selmon \in Mon
        /\ g.win[c] \in Window /\ g.win[c].rect \in Rect
    <3>1. Good(t) /\ ~t.isfullscreen[c]
      BY <1>3, <2>3 DEF Toggled
    <3>2. t \in State
      BY <3>1, GoodFacts
    <3> QED BY <1>1, <2>1, <3>1, <3>2, ScreensFields, WindowFields DEF State
  <2>5. Treated(t, c, g.win[c], v)
    <3>1. Treated(t, c, g.win[c], Resize(t, g, c, g.win[c].rect, FALSE))
      BY <1>1, <2>1, <2>4, ResizeTreated
    <3>2. Treated(t, c, g.win[c], g.win[c])
      BY <2>4, TreatedSame
    <3> QED BY <3>1, <3>2
  <2>6. t.isfloating[c] /\ v.hints = NoHints => Solid(v.rect)
    <3>1. LET x == Resize(t, g, c, g.win[c].rect, FALSE)
          IN /\ t.isfloating[c] /\ g.win[c].hints = NoHints => Solid(x.rect)
             /\ x.hints = g.win[c].hints
      BY <1>1, <2>1, <2>4, ResizeFacts
    <3> QED BY <3>1
  <2> HIDE DEF v
  <2>6a. Changed(g, c, v, k) /\ Framed(g)
    BY <1>1 DEF Changed
  <2> HIDE DEF k
  <2>7. SameModes(g, k) /\ AllTreated(t, g, k) /\ k.win[c] = v
    BY <2>1, <2>5, <2>6a, OneTreated
  <2>8. k \in Screens
    BY <2>7 DEF SameModes, Framed
  <2>9. Rearranged(t, {t.selmon}, k, h)
    BY <2>4, <2>8, ArrangedTreats
  <2> HIDE DEF h
  <2>10. SameModes(g, h) /\ AllTreated(t, g, h)
    BY <2>7, <2>9, RearrangedTreats
  <2>11. t.isfloating[c] /\ h.win[c].hints = NoHints => Solid(h.win[c].rect)
    <3>1. Treated(t, c, v, h.win[c])
      BY <2>1, <2>7, <2>9 DEF Rearranged
    <3> QED BY <2>6, <3>1 DEF Treated
  <2>12. ASSUME NEW d, In(t, d)
         PROVE  Usual(s, g, t, h, d)
    <3>1. In(s, d) /\ d \in Client
      BY <2>3, <2>12 DEF Toggled, In
    <3>2. CASE d = c
      BY <2>3, <2>10, <2>11, <3>1, <3>2 DEF Usual, Toggled, AllTreated
    <3>3. CASE d # c
      BY <2>3, <2>10, <3>1, <3>3 DEF Usual, Toggled, AllTreated
    <3> QED BY <3>2, <3>3
  <2>13. ASSUME NEW d, In(t, d)
         PROVE  StillCovers(s, g, t, h, d) /\ Continued(s, g, t, h, d)
    <3>1. In(s, d) /\ t.mon[d] = s.mon[d] /\ h.mode = g.mode
      BY <2>3, <2>10, <2>13 DEF Toggled, SameModes
    <3>2. SizedAt(s, g, d)
      BY <3>1 DEF InOrder
    <3> QED BY <2>12, <2>13, <3>1, <3>2, UsualContinued, UsualCovers
  <2>14. Fine(s, g, t, h)
    BY <2>4, <2>10, <2>13 DEF Fine, InOrder, SameModes, Continued
  <2> QED BY <2>2, <2>14 DEF t, c
<1> QED BY <1>2, <1>3

LEMMA FloatingStep ==
  ASSUME InOrder(wm, geo), ToggleFloatingCmd
  PROVE  Fine(wm, geo, wm', geo')
<1>1. wm' = ToggleFloating(wm) /\ geo' = Floated(wm, geo, SelOf(wm), wm')
  BY DEF ToggleFloatingCmd, Selected, SelOf
<1> QED BY <1>1, FloatedFine

\* A motion gives the window that is dragged another rectangle.
LEMMA DragToFine ==
  ASSUME NEW s, NEW g, NEW t, NEW k, Fine(s, g, t, k), NEW c, In(t, c),
         ~s.isfullscreen[c], ~t.isfullscreen[c], NEW r \in Rect
  PROVE  Fine(s, g, t, [k EXCEPT !.win[c] = Resize(t, k, c, r, TRUE)])
<1> DEFINE v == Resize(t, k, c, r, TRUE)
           h == [k EXCEPT !.win[c] = v]
<1>1. /\ Good(t) /\ Framed(k) /\ t \in State /\ k \in Screens /\ c \in Client
      /\ \A d : In(t, d) => SizedAt(t, k, d)
  BY GoodFacts DEF Fine, InOrder, Framed, In
<1>2. TRUE \in BOOLEAN
  OBVIOUS
<1>3. Treated(t, c, k.win[c], v)
  BY <1>1, <1>2, ResizeTreated
<1> HIDE DEF v
<1>4. v \in Window
  BY <1>3 DEF Treated
<1>5. /\ SameScreens(k, h) /\ h.win[c] = v
      /\ \A d \in Client : d # c => h.win[d] = k.win[d]
  BY <1>1, <1>4, OneWindow
<1> HIDE DEF h
<1>6. Framed(h) /\ h.mode = k.mode
  BY <1>1, <1>5 DEF SameScreens, Framed
<1>7. ASSUME NEW d, In(t, d)
      PROVE  StillCovers(s, g, t, h, d) /\ Continued(s, g, t, h, d)
  <2>1. StillCovers(s, g, t, k, d) /\ Continued(s, g, t, k, d) /\ d \in Client
    BY <1>7 DEF Fine, In
  <2>2. CASE d # c
    <3>1. h.win[d] = k.win[d]
      BY <1>5, <2>1, <2>2
    <3>2. StillCovers(s, g, t, h, d)
      BY <1>6, <2>1, <3>1 DEF StillCovers, Covers
    <3>3. SizedAt(t, h, d)
      BY <2>1, <3>1 DEF Continued, SizedAt
    <3>4. Remembers(s, g, t, h, d)
      BY <2>1, <3>1 DEF Continued, Remembers
    <3>5. StaysKnown(s, g, t, h, d)
      BY <2>1, <3>1 DEF Continued, StaysKnown
    <3> QED BY <3>2, <3>3, <3>4, <3>5 DEF Continued
  <2>3. CASE d = c
    <3>1. StillCovers(s, g, t, h, c) /\ Remembers(s, g, t, h, c)
      BY DEF StillCovers, Remembers
    <3>2. SizedAt(t, h, c)
      BY <1>3, <1>5, <2>1, <2>3 DEF SizedAt, Continued, Treated
    <3>3. StaysKnown(s, g, t, h, c)
      BY <1>3, <1>5, <2>1, <2>3 DEF StaysKnown, Continued, Treated, SizeKnown
    <3> QED BY <2>3, <3>1, <3>2, <3>3 DEF Continued
  <2> QED BY <2>2, <2>3
<1>8. Fine(s, g, t, h)
  BY <1>1, <1>6, <1>7 DEF Fine, InOrder, Continued
<1> QED BY <1>8 DEF h, v

LEMMA SnappedType ==
  ASSUME NEW p \in Int, NEW len \in Int, NEW from \in Int, NEW to \in Int
  PROVE  Snapped(p, len, from, to) \in Int
BY DEF Snapped

\* What a motion makes of the lists, and of the geometry before the window is
\* placed.
LEMMA MotionFine ==
  ASSUME InOrder(wm, geo), DragInv(wm, drag), drag.c # NULL, drag' = drag,
         NEW far, NEW r \in Rect,
         wm' = IF Toggles(far) THEN ToggleFloating(wm) ELSE wm,
         geo' = IF wm'.isfloating[drag.c] THEN DragTo(ToggledOnDrag(far), r)
                ELSE ToggledOnDrag(far)
  PROVE  Fine(wm, geo, wm', geo') /\ DragInv(wm', drag')
<1> DEFINE c == drag.c
           k == ToggledOnDrag(far)
<1>1. Good(wm) /\ Framed(geo) /\ In(wm, c) /\ ~wm.isfullscreen[c]
  BY DEF InOrder, DragInv
<1>2. CASE Toggles(far)
  <2>1. wm' = ToggleFloating(wm) /\ k = Floated(wm, geo, SelOf(wm), wm')
    BY <1>2 DEF ToggledOnDrag, Selected, SelOf
  <2>2. Toggled(wm, wm', SelOf(wm))
    BY <1>1, <2>1, ToggleFloatingToggles
  <2>3. Fine(wm, geo, wm', k)
    BY <2>1, FloatedFine
  <2>4. /\ In(wm', c) /\ ~wm'.isfullscreen[c] /\ wm'.mon = wm.mon
        /\ wm'.selmon = wm.selmon
    BY <1>1, <2>2 DEF Toggled
  <2> HIDE DEF k
  <2>5. Fine(wm, geo, wm', [k EXCEPT !.win[c] = Resize(wm', k, c, r, TRUE)])
    BY <1>1, <2>3, <2>4, DragToFine
  <2>6. Fine(wm, geo, wm', geo')
    BY <2>3, <2>5 DEF DragTo, k
  <2> QED BY <2>4, <2>6 DEF DragInv
<1>3. CASE ~Toggles(far)
  <2>1. wm' = wm /\ k = geo
    BY <1>3 DEF ToggledOnDrag
  <2>2. Fine(wm, geo, wm', geo)
    BY <1>1, <2>1, QuietSame, UnchangedTreated, QuietFine
  <2>3. Fine(wm, geo, wm', [geo EXCEPT !.win[c] = Resize(wm', geo, c, r, TRUE)])
    BY <1>1, <2>1, <2>2, DragToFine
  <2>4. Fine(wm, geo, wm', geo')
    BY <2>1, <2>2, <2>3 DEF DragTo
  <2> QED BY <2>1, <2>4 DEF DragInv
<1> QED BY <1>2, <1>3

LEMMA MotionStep ==
  ASSUME InOrder(wm, geo), DragInv(wm, drag), MoveMotion \/ ResizeMotion
  PROVE  Fine(wm, geo, wm', geo') /\ DragInv(wm', drag')
<1> DEFINE now == geo.win[drag.c].rect
<1>1. drag.c # NULL /\ drag' = drag
  BY DEF MoveMotion, ResizeMotion
<1>2. /\ Good(wm) /\ wm \in State /\ geo \in Screens /\ drag.c \in Client
      /\ wm.selmon \in Mon
  <2>1. Good(wm) /\ wm \in State /\ geo \in Screens /\ drag.c \in Client
    BY <1>1, GoodFacts DEF InOrder, Framed, DragInv, In
  <2> QED BY <2>1 DEF State
<1>3. now \in Rect
  BY <1>2, ScreensFields, WindowFields
<1>4. CASE MoveMotion
  <2> DEFINE area == Work(geo, wm.selmon)
  <2>1. PICK p \in Places :
          MoveBy(<< Snapped(p[1], now.w, area.x, area.x + area.w),
                    Snapped(p[2], now.h, area.y, area.y + area.h) >>, now)
    BY <1>4 DEF MoveMotion
  <2>2. area \in Rect
    BY <1>2, WorkType
  <2>3. p[1] \in Int /\ p[2] \in Int
    BY GeometryAssumption
  <2> DEFINE x == Snapped(p[1], now.w, area.x, area.x + area.w)
             y == Snapped(p[2], now.h, area.y, area.y + area.h)
  <2>4. x \in Int /\ y \in Int
    <3> HIDE DEF now, area
    <3>1. /\ area.x \in Int /\ area.x + area.w \in Int /\ now.w \in Int
          /\ area.y \in Int /\ area.y + area.h \in Int /\ now.h \in Int
      BY <1>3, <2>2 DEF Rect
    <3> QED BY <2>3, <3>1, SnappedType
  <2>5. MoveBy(<<x, y>>, now)
    BY <2>1
  <2> HIDE DEF x, y, area
  <2> DEFINE far == Far(x, now.x) \/ Far(y, now.y)
  <2>6. /\ wm' = IF Toggles(far) THEN ToggleFloating(wm) ELSE wm
        /\ geo' = IF wm'.isfloating[drag.c] THEN MoveTo(ToggledOnDrag(far), <<x, y>>)
                  ELSE ToggledOnDrag(far)
    BY <2>5 DEF MoveBy
  <2> DEFINE k == ToggledOnDrag(far)
             r == [k.win[drag.c].rect EXCEPT !.x = x, !.y = y]
  <2>7. k \in Screens
    <3>1. CASE Toggles(far)
      <4>1. k = Floated(wm, geo, SelOf(wm), ToggleFloating(wm))
        BY <2>6, <3>1 DEF ToggledOnDrag, Selected, SelOf
      <4> QED BY <4>1, FloatedFine DEF Fine, InOrder, Framed
    <3>2. CASE ~Toggles(far)
      BY <1>2, <3>2 DEF ToggledOnDrag
    <3> QED BY <3>1, <3>2
  <2>8. geo' = IF wm'.isfloating[drag.c] THEN DragTo(k, r) ELSE k
    BY <2>6 DEF MoveTo
  <2> HIDE DEF k
  <2>9. k.win[drag.c].rect \in Rect
    BY <1>2, <2>7, ScreensFields, WindowFields
  <2>10. r \in Rect
    BY <2>4, <2>9 DEF Rect
  <2> HIDE DEF r, far
  <2> QED BY <1>1, <2>6, <2>8, <2>10, MotionFine DEF k
<1>5. CASE ResizeMotion
  <2>1. PICK size \in Sizes :
          ResizeBy(size, now, Work(geo, wm.mon[drag.c]), Work(geo, wm.selmon))
    BY <1>5 DEF ResizeMotion
  <2>2. size[1] \in Int /\ size[2] \in Int
    BY GeometryAssumption
  <2> DEFINE mine == Work(geo, wm.mon[drag.c])
             area == Work(geo, wm.selmon)
             far == /\ mine.x + size[1] \in area.x .. area.x + area.w
                    /\ mine.y + size[2] \in area.y .. area.y + area.h
                    /\ Far(size[1], now.w) \/ Far(size[2], now.h)
  <2>3. /\ wm' = IF Toggles(far) THEN ToggleFloating(wm) ELSE wm
        /\ geo' = IF wm'.isfloating[drag.c] THEN ResizeTo(ToggledOnDrag(far), size)
                  ELSE ToggledOnDrag(far)
    BY <2>1 DEF ResizeBy
  <2> HIDE DEF far
  <2> DEFINE k == ToggledOnDrag(far)
             r == [k.win[drag.c].rect EXCEPT !.w = size[1], !.h = size[2]]
  <2>4. k \in Screens
    <3>1. CASE Toggles(far)
      <4>1. k = Floated(wm, geo, SelOf(wm), ToggleFloating(wm))
        BY <2>3, <3>1 DEF ToggledOnDrag, Selected, SelOf
      <4> QED BY <4>1, FloatedFine DEF Fine, InOrder, Framed
    <3>2. CASE ~Toggles(far)
      BY <1>2, <3>2 DEF ToggledOnDrag
    <3> QED BY <3>1, <3>2
  <2>5. geo' = IF wm'.isfloating[drag.c] THEN DragTo(k, r) ELSE k
    BY <2>3 DEF ResizeTo
  <2> HIDE DEF k
  <2>6. k.win[drag.c].rect \in Rect
    BY <1>2, <2>4, ScreensFields, WindowFields
  <2>7. r \in Rect
    BY <2>2, <2>6 DEF Rect
  <2> HIDE DEF r
  <2> QED BY <1>1, <2>3, <2>5, <2>7, MotionFine DEF k
<1> QED BY <1>4, <1>5

\* A button on a window in view selects its monitor.
LEMMA ButtonPressSelects ==
  ASSUME NEW s, Good(s), NEW c, In(s, c), Visible(s, c)
  PROVE  ButtonPress(s, c).selmon = s.mon[c]
<1> DEFINE m == s.mon[c]
           u == SelectMon(s, m)
           f == IF m = s.selmon THEN s ELSE Focus(u, NULL)
<1>1. /\ s \in State /\ c \in Client /\ m \in Mon /\ NULL \in ClientOrNull
      /\ c # NULL
  BY GoodFacts, InFacts DEF ClientOrNull
<1>2. u \in State /\ Untouched(s, u) /\ u.mon = s.mon
  <2>1. u \in State /\ Untouched(s, u)
    BY <1>1, SelectMonUntouched
  <2>2. u.mon = s.mon
    <3> DEFINE v == Unfocus(s, s.sel[s.selmon])
    <3>1. v \in State /\ v.mon = s.mon
      BY <1>1, SetFocusFields, UnfocusType, StateFields DEF SameLists
    <3>2. u = [v EXCEPT !.selmon = m]
      BY DEF SelectMon
    <3> HIDE DEF v
    <3> QED BY <3>1, <3>2 DEF State
  <2> QED BY <2>1, <2>2
<1>3. ButtonPress(s, c) = Focus(f, c)
  BY DEF ButtonPress
<1> HIDE DEF u
<1>4. f \in State /\ SameView(s, f) /\ f.mon = s.mon
  <2>1. Focus(u, NULL) \in State /\ Untouched(u, Focus(u, NULL))
        /\ Focus(u, NULL).mon = u.mon
    BY <1>1, <1>2, FocusType, FocusLeaves
  <2> QED BY <1>1, <1>2, <2>1 DEF Untouched, SameView
<1> HIDE DEF f
<1>5. Visible(f, c)
  BY <1>4, SameVisible
<1>6. Chosen(f, c) = c
  BY <1>1, <1>5 DEF Chosen
<1>7. Focus(f, c).selmon = f.mon[c]
  <2>1. f \in State /\ Chosen(f, c) \in Client
    BY <1>1, <1>4, <1>6
  <2>2. Focus(f, c).selmon = f.mon[Chosen(f, c)]
    BY <2>1, FocusFields, Zenon
  <2> QED BY <1>6, <2>2
<1> QED BY <1>3, <1>4, <1>7

LEMMA ButtonSteps ==
  ASSUME InOrder(wm, geo), ButtonPressEvent \/ StartDrag
  PROVE  Fine(wm, geo, wm', geo') /\ (StartDrag => DragInv(wm', drag'))
<1>1. CASE ButtonPressEvent /\ ~StartDrag
  BY <1>1, ButtonFine DEF ButtonPressEvent
<1>2. CASE StartDrag
  <2>1. PICK c \in Managed(wm), resize \in BOOLEAN :
          /\ ~wm.isfullscreen[c] /\ Visible(wm, c) /\ geo' = geo
          /\ wm' = ButtonPress(wm, c) /\ drag' = [c |-> c, resize |-> resize]
    BY <1>2 DEF StartDrag
  <2>2. Good(wm) /\ In(wm, c) /\ c \in Client
    BY GoodManaged DEF InOrder, In
  <2>3. Quiet(wm, wm') /\ wm'.selmon = wm.mon[c]
    BY <2>1, <2>2, ButtonPressQuiet, ButtonPressSelects
  <2>4. In(wm', c) /\ wm'.mon[c] = wm'.selmon /\ ~wm'.isfullscreen[c]
    BY <2>1, <2>2, <2>3 DEF Quiet, SameFlags
  <2>5. DragInv(wm', drag')
    BY <2>1, <2>2, <2>4 DEF DragInv, ClientOrNull
  <2>6. Fine(wm, geo, wm', geo')
    BY <2>1, ButtonFine
  <2> QED BY <2>5, <2>6
<1> QED BY <1>1, <1>2

-----------------------------------------------------------------------------
(* Fullscreen                                                              *)

\* Any geometry a monitor may have holds a window.
LEMMA ModeSolid ==
  ASSUME NEW g, Framed(g), NEW m \in Mon
  PROVE  Solid(g.mode[m]) /\ g.mode[m] \in Rect /\ g.mode[m].h > BarHeight
<1>1. /\ g.mode[m] \in Modes[m] /\ g.mode[m] \in Rect /\ BarHeight \in Nat
  BY ScreensFields, GeometryAssumption DEF Framed
<1>2. g.mode[m].w > 0 /\ g.mode[m].h > BarHeight
  BY <1>1, GeometryAssumption
<1>3. Solid(g.mode[m])
  <2>1. g.mode[m].w \in Int /\ g.mode[m].h \in Int
    BY <1>1, RectFields
  <2> QED BY <1>1, <1>2, <2>1 DEF Solid
<1> QED BY <1>1, <1>2, <1>3

\* Entering fullscreen.
LEMMA CoveringFine ==
  ASSUME NEW s, NEW g, InOrder(s, g), NEW c, In(s, c), NEW t, FullscreenSet(s, t, c),
         ~s.isfullscreen[c]
  PROVE  Fine(s, g, t, Covering(t, g, c))
<1> DEFINE v == ResizeClient(t, g, c, g.mode[t.mon[c]])
           h == [g EXCEPT !.win[c] = v]
<1>1. /\ Good(s) /\ Framed(g) /\ g \in Screens /\ c \in Client /\ SizedAt(s, g, c)
      /\ Good(t) /\ t \in State /\ t.mon[c] \in Mon
  <2>1. Good(t) /\ t \in State
    BY GoodFacts DEF FullscreenSet
  <2> QED BY <2>1 DEF InOrder, Framed, In, State
<1>2. /\ t.isfullscreen[c] /\ t.isfloating[c] /\ t.oldstate[c] = s.isfloating[c]
      /\ t.mon = s.mon
  BY DEF FullscreenSet
<1>3. g.mode[t.mon[c]] \in Rect /\ Solid(g.mode[t.mon[c]])
  BY <1>1, ModeSolid
<1>4. /\ v \in Window /\ SizeKnown(v) /\ v.hints = g.win[c].hints
      /\ v.old = g.win[c].rect /\ v.rect = g.mode[t.mon[c]]
  BY <1>1, <1>2, <1>3, ResizeClientType DEF Reshaped
<1>5. Covering(t, g, c) = h
  BY DEF Covering
<1> HIDE DEF v
<1>6. /\ SameScreens(g, h) /\ h.win[c] = v
      /\ \A d \in Client : d # c => h.win[d] = g.win[d]
  BY <1>1, <1>4, OneWindow
<1> HIDE DEF h
<1>7. SameModes(g, h)
  BY <1>1, <1>6 DEF SameScreens, SameModes, Framed
<1>8. ASSUME NEW d, In(t, d)
      PROVE  StillCovers(s, g, t, h, d) /\ Continued(s, g, t, h, d)
  <2>1. In(s, d) /\ d \in Client /\ SizedAt(s, g, d)
    BY <1>8 DEF FullscreenSet, In, InOrder
  <2>2. CASE d = c
    <3>1. StillCovers(s, g, t, h, c)
      BY <1>4, <1>6, <1>7 DEF StillCovers, Covers, SameModes
    <3>2. SizedAt(t, h, c)
      BY <1>1, <1>2, <1>3, <1>4, <1>6 DEF SizedAt
    <3>3. Remembers(s, g, t, h, c)
      BY <1>2, <1>4, <1>6 DEF Remembers
    <3>4. StaysKnown(s, g, t, h, c)
      BY <1>4, <1>6 DEF StaysKnown
    <3> QED BY <2>2, <3>1, <3>2, <3>3, <3>4 DEF Continued
  <2>3. CASE d # c
    <3>1. h.win[d] = g.win[d] /\ g.win[d] \in Window
      BY <1>1, <1>6, <2>1, <2>3, ScreensFields
    <3>2. Usual(s, g, t, h, d)
      BY <2>1, <2>3, <3>1, TreatedSame DEF Usual, FullscreenSet
    <3>3. t.mon[d] = s.mon[d] /\ h.mode = g.mode
      BY <1>2, <1>7 DEF SameModes
    <3> QED BY <2>1, <3>2, <3>3, UsualContinued, UsualCovers
  <2> QED BY <2>2, <2>3
<1>9. Fine(s, g, t, h)
  BY <1>1, <1>7, <1>8 DEF Fine, InOrder, SameModes, Continued
<1> QED BY <1>5, <1>9

\* applysizehints() of a window looks at the screen and at that window.
\* Of two changes to a window the last one counts.
LEMMA ChangedTwice ==
  ASSUME NEW g \in Screens, NEW c \in Client, NEW u, NEW k, Changed(g, c, u, k)
  PROVE  /\ k.win[c] = u
         /\ \A v, h : Changed(k, c, v, h) => Changed(g, c, v, h)
BY DEF Screens, Changed

HintedAlike(w, g, h, c, r) ==
  ApplySizeHints(w, h, c, r, FALSE) = ApplySizeHints(w, g, c, r, FALSE)

SameAround(g, h, c) ==
  /\ h.mode = g.mode /\ h.bh = g.bh /\ h.mons = g.mons
  /\ h.win[c].rect = g.win[c].rect /\ h.win[c].hints = g.win[c].hints

LEMMA SameHinted ==
  ASSUME NEW w, NEW g, NEW h, NEW c, NEW r, SameAround(g, h, c)
  PROVE  HintedAlike(w, g, h, c, r)
<1> USE DEF SameAround
<1>1. Work(h, w.mon[c]) = Work(g, w.mon[c])
  BY DEF Work
<1>2. \A a, b, d, e : HintedRect(w, h, c, a, b, d, FALSE, e)
                        = HintedRect(w, g, c, a, b, d, FALSE, e)
  BY DEF HintedRect
<1> QED BY <1>1, <1>2 DEF ApplySizeHints, HintedAlike

\* Leaving fullscreen.
LEMMA UncoveredFine ==
  ASSUME NEW s, NEW g, InOrder(s, g), NEW c, In(s, c), NEW t, FullscreenSet(s, t, c),
         s.isfullscreen[c]
  PROVE  Fine(s, g, t, Uncovered(t, g, c, g.win[c].old))
<1> DEFINE old == g.win[c].old
           u == [g.win[c] EXCEPT !.rect = old]
           b == [g EXCEPT !.win[c].rect = old]
           v == ResizeClient(t, b, c, old)
           k == [g EXCEPT !.win[c] = v]
           m == t.mon[c]
           h == Arranged(t, k, m)
<1>1. /\ Good(s) /\ Framed(g) /\ g \in Screens /\ c \in Client /\ SizedAt(s, g, c)
      /\ Good(t) /\ t \in State /\ m \in Mon
  <2>1. Good(t) /\ t \in State
    BY GoodFacts DEF FullscreenSet
  <2> QED BY <2>1 DEF InOrder, Framed, In, State
<1>2. /\ ~t.isfullscreen[c] /\ t.isfloating[c] = s.oldstate[c]
      /\ t.mon = s.mon /\ Visible(t, c) = Visible(s, c) /\ In(t, c)
  BY DEF FullscreenSet
<1>3. g.win[c] \in Window /\ old \in Rect
  BY <1>1, ScreensFields, WindowFields
<1>4. b = [g EXCEPT !.win[c] = u]
  BY <1>1 DEF Screens
<1>5. u \in Window /\ u.rect = old /\ u.hints = g.win[c].hints
  <2> HIDE DEF old
  <2> QED BY <1>3 DEF Window
<1> HIDE DEF u
<1>6. SameScreens(g, b) /\ b.win[c] = u
  <2> HIDE DEF b
  <2> QED BY <1>1, <1>4, <1>5, OneWindow
<1>7. b \in Screens
  BY <1>6 DEF SameScreens
<1>8. Uncovered(t, g, c, old) = h
  <2>1. [g EXCEPT !.win[c] = ResizeClient(t, b, c, old)] = k
    OBVIOUS
  <2> QED BY <2>1 DEF Uncovered
<1> HIDE DEF b, old
<1>9. /\ v \in Window /\ SizeKnown(v) /\ v.hints = g.win[c].hints
      /\ t.isfloating[c] => v.rect = old
  BY <1>1, <1>3, <1>5, <1>6, <1>7, ResizeClientType DEF Reshaped
<1>10. t.isfloating[c] /\ g.win[c].hints = NoHints => Solid(old)
  BY <1>1, <1>2 DEF SizedAt, old
<1> HIDE DEF v
<1>11. Treated(t, c, g.win[c], v)
  BY <1>2, <1>9, <1>10 DEF Treated
<1>12. SameModes(g, k) /\ AllTreated(t, g, k) /\ k.win[c] = v
  <2>1. Framed(g) /\ c \in Client /\ Changed(g, c, v, k)
    BY <1>1 DEF Changed
  <2> HIDE DEF k
  <2> QED BY <1>11, <2>1, OneTreated
<1>13. SameScreens(g, k) /\ \A d \in Client : d # c => k.win[d] = g.win[d]
  BY <1>1, <1>9, OneWindow
<1> HIDE DEF k
<1>14. k \in Screens
  BY <1>13 DEF SameScreens
<1>15. Rearranged(t, {m}, k, h)
  BY <1>1, <1>14, ArrangedTreats
<1> HIDE DEF h
<1>16. SameModes(g, h) /\ AllTreated(t, g, h)
  BY <1>12, <1>15, RearrangedTreats
<1>17. Treated(t, c, v, h.win[c])
  BY <1>1, <1>12, <1>15 DEF Rearranged
<1>18. t.isfloating[c] /\ Visible(t, c) =>
         h.win[c].rect = ApplySizeHints(t, [g EXCEPT !.win[c].rect = old], c, old, FALSE)
  <2> SUFFICES ASSUME t.isfloating[c], Visible(t, c)
               PROVE  h.win[c].rect =
                        ApplySizeHints(t, [g EXCEPT !.win[c].rect = old], c, old, FALSE)
    OBVIOUS
  <2>1. Back(t, {m}, c)
    BY <1>1, <1>2, BackIn
  <2>2. h.win[c] = Resize(t, k, c, old, FALSE)
    BY <1>1, <1>9, <1>12, <1>15, <2>1 DEF Rearranged
  <2>3. h.win[c].rect = ApplySizeHints(t, k, c, old, FALSE)
    <3>1. t \in State /\ k \in Screens /\ c \in Client /\ old \in Rect /\ FALSE \in BOOLEAN
      BY <1>1, <1>3, <1>14
    <3>2. t.isfloating[c] =>
            Resize(t, k, c, old, FALSE).rect = ApplySizeHints(t, k, c, old, FALSE)
      BY <3>1, ResizeFacts, Zenon
    <3> QED BY <2>2, <3>2, Zenon
  <2>4. SameAround(b, k, c)
    BY <1>5, <1>6, <1>9, <1>12, <1>13 DEF SameScreens, SameAround
  <2>5. ApplySizeHints(t, k, c, old, FALSE) = ApplySizeHints(t, b, c, old, FALSE)
    <3>1. HintedAlike(t, b, k, c, old)
      BY <2>4, SameHinted
    <3> QED BY <3>1, Zenon DEF HintedAlike
  <2> QED BY <2>3, <2>5 DEF b
<1>19. ASSUME NEW d, In(t, d)
       PROVE  StillCovers(s, g, t, h, d) /\ Continued(s, g, t, h, d)
  <2>1. In(s, d) /\ d \in Client /\ SizedAt(s, g, d)
    BY <1>19 DEF FullscreenSet, In, InOrder
  <2>2. CASE d = c
    <3>1. StillCovers(s, g, t, h, c)
      BY <1>2 DEF StillCovers
    <3>2. SizedAt(t, h, c)
      BY <1>2, <1>9, <1>10, <1>17 DEF SizedAt, Treated
    <3>3. Remembers(s, g, t, h, c)
      BY <1>2, <1>18 DEF Remembers, old
    <3>4. StaysKnown(s, g, t, h, c)
      BY <1>9, <1>17 DEF StaysKnown, Treated, SizeKnown
    <3> QED BY <2>2, <3>1, <3>2, <3>3, <3>4 DEF Continued
  <2>3. CASE d # c
    <3>1. Usual(s, g, t, h, d)
      BY <1>16, <2>1, <2>3 DEF Usual, FullscreenSet, AllTreated
    <3>2. t.mon[d] = s.mon[d] /\ h.mode = g.mode
      BY <1>2, <1>16 DEF SameModes
    <3> QED BY <2>1, <3>1, <3>2, UsualContinued, UsualCovers
  <2> QED BY <2>2, <2>3
<1>20. Fine(s, g, t, h)
  BY <1>1, <1>16, <1>19 DEF Fine, InOrder, SameModes, Continued
<1> QED BY <1>8, <1>20 DEF old

LEMMA FullscreenStep ==
  ASSUME InOrder(wm, geo), FullscreenMessage
  PROVE  Fine(wm, geo, wm', geo')
<1>1. PICK c \in Managed(wm) :
        /\ wm' = SetFullscreen(wm, c, ~wm.isfullscreen[c])
        /\ geo' = Fullscreened(geo, c, wm')
  BY DEF FullscreenMessage
<1>2. Good(wm) /\ In(wm, c)
  BY GoodManaged DEF InOrder
<1>3. FullscreenSet(wm, wm', c)
  BY <1>1, <1>2, SetFullscreenSets
<1>4. wm'.isfullscreen[c] = ~wm.isfullscreen[c]
  BY <1>3 DEF FullscreenSet
<1>5. CASE wm.isfullscreen[c]
  BY <1>1, <1>2, <1>3, <1>4, <1>5, UncoveredFine DEF Fullscreened
<1>6. CASE ~wm.isfullscreen[c]
  BY <1>1, <1>2, <1>3, <1>4, <1>6, CoveringFine DEF Fullscreened
<1> QED BY <1>5, <1>6

-----------------------------------------------------------------------------
(* configurerequest()                                                      *)

\* A floating client gets a geometry of its own wish.
LEMMA ConfigureStep ==
  ASSUME InOrder(wm, geo), NEW c \in Client, NEW req \in Requests,
         ConfigureRequestEvent(c, req)
  PROVE  AllSound
<1> DEFINE M == geo.mode[wm.mon[c]]
           r == geo.win[c].rect
           o == geo.win[c].old
           asked == [ x |-> IF req.move THEN M.x + req.rect.x ELSE r.x,
                      y |-> IF req.move THEN M.y + req.rect.y ELSE r.y,
                      w |-> IF req.size THEN req.rect.w ELSE r.w,
                      h |-> IF req.size THEN req.rect.h ELSE r.h ]
           q == [asked EXCEPT
                  !.x = IF @ + asked.w <= M.x + M.w THEN @
                        ELSE M.x + (M.w \div 2 - asked.w \div 2),
                  !.y = IF @ + asked.h <= M.y + M.h THEN @
                        ELSE M.y + (M.h \div 2 - asked.h \div 2)]
           old == IF ~wm.isfullscreen[c] THEN NoRect
                  ELSE [ x |-> IF req.move THEN r.x ELSE o.x,
                         y |-> IF req.move THEN r.y ELSE o.y,
                         w |-> IF req.size THEN r.w ELSE o.w,
                         h |-> IF req.size THEN r.h ELSE o.h ]
           size == IF Visible(wm, c) THEN <<q.w, q.h>> ELSE geo.win[c].size
           v == [geo.win[c] EXCEPT !.rect = q, !.old = old, !.size = size]
           h == [geo EXCEPT !.win[c] = v]
<1>1. /\ wm' = wm /\ geo' = Configured(wm, geo, c, req) /\ Requested(c)
      /\ c \in Managed(wm)
  BY DEF ConfigureRequestEvent, Requested
<1>2. /\ Good(wm) /\ wm \in State /\ Framed(geo) /\ geo \in Screens /\ In(wm, c)
      /\ SizedAt(wm, geo, c)
  BY <1>1, GoodManaged, GoodFacts DEF InOrder, Framed
<1>3. CASE ~wm.isfloating[c]
  <2>1. geo' = geo
    BY <1>1, <1>3 DEF Configured
  <2>2. Fine(wm, geo, wm', geo')
    BY <1>1, <1>2, <2>1, QuietSame, UnchangedTreated, QuietFine
  <2> QED BY <2>2, FineSound
<1>4. CASE wm.isfloating[c]
  <2>1. geo' = h
    <3>1. geo' = [geo EXCEPT !.win[c].rect = q, !.win[c].old = old,
                             !.win[c].size = IF Visible(wm, c) THEN <<q.w, q.h>> ELSE @]
      BY <1>1, <1>4, Zenon DEF Configured
    <3> HIDE DEF q, old
    <3>2. geo.win[c] \in Window
      BY <1>2, ScreensFields
    <3> DEFINE u1 == [geo.win[c] EXCEPT !.rect = q]
               u2 == [u1 EXCEPT !.old = old]
               k1 == [geo EXCEPT !.win[c].rect = q]
               k2 == [k1 EXCEPT !.win[c].old = old]
    <3>2a. Changed(geo, c, u1, k1)
      BY Zenon DEF Changed
    <3>3. k1.win[c] = u1 /\ \A x, y : Changed(k1, c, x, y) => Changed(geo, c, x, y)
      <4> HIDE DEF k1, u1
      <4> QED BY <1>2, <3>2a, ChangedTwice
    <3>4. Changed(geo, c, u2, k2)
      <4>1. Changed(k1, c, u2, k2)
        BY <3>3, Zenon DEF Changed
      <4> HIDE DEF k1, k2, u1, u2
      <4> QED BY <3>3, <4>1
    <3>4a. k2.win[c] = u2 /\ \A x, y : Changed(k2, c, x, y) => Changed(geo, c, x, y)
      <4> HIDE DEF k2, u2
      <4> QED BY <1>2, <3>4, ChangedTwice
    <3>5. u2.size = geo.win[c].size
      BY <3>2 DEF Window
    <3>6. geo' = [k2 EXCEPT !.win[c].size = IF Visible(wm, c) THEN <<q.w, q.h>> ELSE @]
      BY <3>1, Zenon
    <3>7. v = [u2 EXCEPT !.size = size]
      BY Zenon
    <3> HIDE DEF k1, k2, u1, u2, v
    <3>8. Changed(k2, c, v, geo')
      BY <3>4a, <3>5, <3>6, <3>7, Zenon DEF size, Changed
    <3>9. Changed(geo, c, v, geo')
      BY <3>4a, <3>8
    <3> QED BY <3>9, Zenon DEF Changed
  <2>2. /\ M \in Rect /\ r \in Rect /\ o \in Rect /\ geo.win[c] \in Window
        /\ geo.win[c].size \in Int \X Int
    <3>1. wm.mon[c] \in Mon
      BY <1>2 DEF State
    <3> QED BY <1>2, <3>1, ScreensFields, WindowFields
  <2>3. req.move \in BOOLEAN /\ req.size \in BOOLEAN /\ req.rect \in Rect
        /\ req.rect.w > 0 /\ req.rect.h > 0
    BY GeometryAssumption
  <2> HIDE DEF M, r, o
  <2>4. /\ asked \in Rect
        /\ asked.w = IF req.size THEN req.rect.w ELSE r.w
        /\ asked.h = IF req.size THEN req.rect.h ELSE r.h
    BY <2>2, <2>3 DEF Rect
  <2> HIDE DEF asked
  <2>5. q \in Rect /\ q.w = asked.w /\ q.h = asked.h
    <3> DEFINE qx == IF asked.x + asked.w <= M.x + M.w THEN asked.x
                     ELSE M.x + M.w \div 2 - asked.w \div 2
               qy == IF asked.y + asked.h <= M.y + M.h THEN asked.y
                     ELSE M.y + M.h \div 2 - asked.h \div 2
    <3>1. qx \in Int /\ qy \in Int
      BY <2>2, <2>4 DEF Rect
    <3>2. q = [asked EXCEPT !.x = qx, !.y = qy]
      BY Zenon
    <3> HIDE DEF qx, qy, q
    <3> QED BY <2>4, <3>1, <3>2 DEF Rect
  <2>6. /\ old \in Rect
        /\ wm.isfullscreen[c] => /\ old.w = IF req.size THEN r.w ELSE o.w
                                 /\ old.h = IF req.size THEN r.h ELSE o.h
    BY <2>2, <2>3 DEF Rect, NoRect
  <2> HIDE DEF q, old
  <2>7. size \in Int \X Int
    BY <2>2, <2>5 DEF Rect
  <2> HIDE DEF size
  <2>8. /\ v \in Window /\ v.rect = q /\ v.old = old /\ v.size = size
        /\ v.hints = geo.win[c].hints
    BY <2>2, <2>5, <2>6, <2>7 DEF Window
  <2> HIDE DEF v
  <2>9. /\ SameScreens(geo, h) /\ h.win[c] = v
        /\ \A d \in Client : d # c => h.win[d] = geo.win[d]
    BY <1>2, <2>8, OneWindow
  <2> HIDE DEF h
  <2>10. SameModes(geo, h)
    BY <1>2, <2>9 DEF SameScreens, SameModes, Framed
  <2>11. SizedAt(wm, h, c)
    <3> SUFFICES ASSUME geo.win[c].hints = NoHints
                 PROVE  /\ Solid(q)
                        /\ wm.isfullscreen[c] /\ wm.oldstate[c] => Solid(old)
      BY <2>8, <2>9 DEF SizedAt
    <3>1. Solid(r) /\ (wm.isfullscreen[c] /\ wm.oldstate[c] => Solid(o))
      BY <1>2, <1>4 DEF SizedAt, r, o
    <3>2. Solid(req.rect)
      BY <2>3 DEF Solid, Rect
    <3> QED BY <2>4, <2>5, <2>6, <3>1, <3>2 DEF Solid
  <2>12. ASSUME NEW d, In(wm, d)
         PROVE  SizedAt(wm, h, d) /\ (wm' = wm /\ geo' = h => Sound(d))
    <3>1. CASE d = c
      <4>1. Visible(wm, c) => SizeKnown(h.win[c])
        BY <2>8, <2>9 DEF SizeKnown, size
      <4>2. wm' = wm /\ geo' = h =>
              StaysKnown(wm, geo, wm', geo', c) \/ (Requested(c) /\ ~Visible(wm, c))
        BY <1>1, <4>1 DEF StaysKnown
      <4> QED BY <1>1, <2>11, <3>1, <4>2 DEF Sound
    <3>2. CASE d # c
      <4>1. d \in Client /\ SizedAt(wm, geo, d)
        BY <2>12 DEF In, InOrder
      <4>2. h.win[d] = geo.win[d] /\ geo.win[d] \in Window
        BY <1>2, <2>9, <3>2, <4>1, ScreensFields
      <4>3. Usual(wm, geo, wm, h, d)
        BY <2>12, <4>2, TreatedSame DEF Usual
      <4>4. h.mode = geo.mode
        BY <2>10 DEF SameModes
      <4>5. Continued(wm, geo, wm, h, d) /\ StillCovers(wm, geo, wm, h, d)
        BY <4>1, <4>3, <4>4, UsualContinued, UsualCovers
      <4> QED BY <4>5 DEF Continued, Sound
    <3> QED BY <3>1, <3>2
  <2>13. InOrder(wm, h)
    BY <1>2, <2>10, <2>12 DEF InOrder, SameModes
  <2> QED BY <1>1, <2>1, <2>12, <2>13 DEF AllSound
<1> QED BY <1>3, <1>4

-----------------------------------------------------------------------------
(* Windows come and go                                                     *)

\* The other clients, when one comes or goes and its monitor is arranged.
LEMMA OthersFine ==
  ASSUME NEW s, NEW g, InOrder(s, g), NEW c, NEW t, Good(t), OthersKept(s, t, c),
         NEW k, SameScreens(g, k), \A d \in Client : d # c => k.win[d] = g.win[d],
         NEW m \in Mon, NEW h, h = Arranged(t, k, m)
  PROVE  /\ Rearranged(t, {m}, k, h) /\ SameModes(g, h)
         /\ \A d : In(t, d) /\ d # c =>
              StillCovers(s, g, t, h, d) /\ Continued(s, g, t, h, d)
<1>1. k \in Screens /\ Framed(g)
  BY DEF SameScreens, InOrder
<1>2. Rearranged(t, {m}, k, h)
  BY <1>1, ArrangedTreats
<1>3. SameModes(g, h)
  BY <1>1, <1>2 DEF Rearranged, SameScreens, SameModes, Framed
<1>4. ASSUME NEW d, In(t, d), d # c
      PROVE  StillCovers(s, g, t, h, d) /\ Continued(s, g, t, h, d)
  <2>1. d \in Client /\ In(s, d) /\ t.mon[d] = s.mon[d]
    BY <1>4 DEF OthersKept, In
  <2>2. SizedAt(s, g, d)
    BY <2>1 DEF InOrder
  <2>3. Treated(t, d, g.win[d], h.win[d])
    BY <1>2, <1>4, <2>1 DEF Rearranged
  <2>4. Usual(s, g, t, h, d)
    BY <1>4, <2>1, <2>3 DEF Usual, OthersKept
  <2>5. h.mode = g.mode
    BY <1>3 DEF SameModes
  <2> QED BY <2>1, <2>2, <2>4, <2>5, UsualContinued, UsualCovers
<1> QED BY <1>2, <1>3, <1>4

\* manage() gives a new client a window that is not empty, and covers the
\* monitor when it is fullscreen.
Born(w, g, c, shape, k) ==
  /\ SameScreens(g, k) /\ \A d \in Client : d # c => k.win[d] = g.win[d]
  /\ SizeKnown(k.win[c]) /\ k.win[c].hints = shape.hints
  /\ Solid(k.win[c].rect)
  /\ w.isfullscreen[c] => Covers(w, k, c) /\ Solid(k.win[c].old)

LEMMA PlacedBorn ==
  ASSUME NEW w, Good(w), NEW g, Framed(g), NEW c, In(w, c), NEW shape \in Shapes
  PROVE  \E k : Placed(w, g, c, shape) = Arranged(w, k, w.mon[c])
                /\ Born(w, g, c, shape, k)
<1> DEFINE m == w.mon[c]
           M == g.mode[m]
           area == Work(g, m)
           r == shape.rect
           x == Bigger(Smaller(r.x, M.x + M.w - r.w), M.x)
           middle == x + r.w \div 2
           atBar == /\ g.mons[m].showbar \/ g.mons[m].bar = -M.y
                    /\ middle >= area.x /\ middle < area.x + area.w
           from == IF atBar THEN g.bh ELSE M.y
           y == Bigger(Smaller(r.y, M.y + M.h - r.h), from)
           at == [r EXCEPT !.x = x, !.y = y]
           hints == shape.hints
           size == <<r.w, r.h>>
           u == [NewWindow EXCEPT !.rect = at, !.size = size, !.hints = hints]
           born == [g EXCEPT !.win[c] = u]
           v == ResizeClient(w, born, c, born.mode[m])
           typed == IF w.isfullscreen[c] THEN [born EXCEPT !.win[c] = v] ELSE born
<1>1. /\ w \in State /\ c \in Client /\ m \in Mon /\ g \in Screens
      /\ M \in Rect /\ Solid(M) /\ g.bh \in Nat /\ Proper(w)
  <2>1. w \in State /\ c \in Client /\ m \in Mon /\ Proper(w)
    BY GoodFacts, InFacts
  <2>2. M \in Rect /\ Solid(M)
    BY <2>1, ModeSolid
  <2> QED BY <2>1, <2>2, ScreensFields DEF Framed
<1>2. r \in Rect /\ hints \in Hints /\ Solid(r)
  <2>1. r \in Rect /\ hints \in Hints /\ r.w > 0 /\ r.h > 0
    BY GeometryAssumption
  <2> QED BY <2>1, RectFields DEF Solid
<1>3. Placed(w, g, c, shape) = Arranged(w, typed, m)
  BY Zenon DEF Placed, Covering
<1>4. x \in Int /\ y \in Int
  <2> HIDE DEF M, r, atBar
  <2>1. M.x \in Int /\ M.y \in Int /\ M.w \in Int /\ M.h \in Int
    BY <1>1, RectFields
  <2>2. r.x \in Int /\ r.y \in Int /\ r.w \in Int /\ r.h \in Int
    BY <1>2, RectFields
  <2>3. from \in Int
    BY <1>1, <2>1
  <2> HIDE DEF from
  <2> QED BY <2>1, <2>2, <2>3 DEF Bigger, Smaller
<1> HIDE DEF x, y, M, r, hints
<1>5. at \in Rect /\ at.w = r.w /\ at.h = r.h /\ size \in Int \X Int
  BY <1>2, <1>4 DEF Rect
<1> HIDE DEF at
<1>6. size = <<at.w, at.h>>
  BY <1>5
<1> HIDE DEF size
<1>7. u \in Window /\ u.rect = at /\ u.size = size /\ u.hints = hints
  <2>1. NewWindow \in Window
    BY DEF NewWindow, Window, NoRect, Rect, NoHints, Hints
  <2> QED BY <1>2, <1>5, <2>1 DEF Window
<1> HIDE DEF u
<1>8. /\ SameScreens(g, born) /\ born.win[c] = u
      /\ \A d \in Client : d # c => born.win[d] = g.win[d]
  BY <1>1, <1>7, OneWindow
<1> HIDE DEF born
<1>9. born \in Screens /\ born.mode = g.mode
  BY <1>8 DEF SameScreens
<1>10. SizeKnown(u) /\ Solid(u.rect)
  BY <1>2, <1>5, <1>6, <1>7 DEF SizeKnown, Solid
<1>11. CASE ~w.isfullscreen[c]
  <2>1. Born(w, g, c, shape, typed)
    BY <1>7, <1>8, <1>10, <1>11 DEF Born, hints
  <2> QED BY <1>3, <2>1
<1>12. CASE w.isfullscreen[c]
  <2>1. w.isfloating[c]
    BY <1>1, <1>12 DEF Proper
  <2>2. born.mode[m] = M
    BY <1>9 DEF M
  <2>3. /\ v \in Window /\ SizeKnown(v) /\ v.hints = hints /\ v.old = at
        /\ v.rect = M
    BY <1>1, <1>7, <1>8, <1>9, <1>12, <2>1, <2>2, ResizeClientType DEF Reshaped
  <2> HIDE DEF v
  <2>4. /\ SameScreens(born, typed) /\ typed.win[c] = v
        /\ \A d \in Client : d # c => typed.win[d] = born.win[d]
    BY <1>1, <1>9, <1>12, <2>3, OneWindow
  <2> HIDE DEF typed
  <2>5. SameScreens(g, typed)
    BY <1>8, <2>4 DEF SameScreens
  <2>6. Covers(w, typed, c)
    BY <2>3, <2>4, <2>5 DEF Covers, SameScreens, M
  <2>7. Born(w, g, c, shape, typed)
    BY <1>1, <1>7, <1>8, <1>10, <2>3, <2>4, <2>5, <2>6 DEF Born, hints
  <2> QED BY <1>3, <2>7
<1> QED BY <1>11, <1>12

LEMMA MapStep ==
  ASSUME InOrder(wm, geo), DragInv(wm, drag), MapRequestEvent
  PROVE  Fine(wm, geo, wm', geo') /\ DragInv(wm', drag')
<1>1. PICK c \in Client \ Managed(wm), shape \in Shapes :
        wm' = Manage(wm, c, shape.kind, NULL) /\ geo' = Placed(wm', geo, c, shape)
  BY DEF MapRequestEvent
<1>2. Good(wm) /\ Framed(geo) /\ ListInv(wm) /\ Out(wm, c) /\ ~In(wm, c)
  <2>1. Good(wm) /\ Framed(geo) /\ ListInv(wm)
    BY GoodFacts DEF InOrder
  <2> QED BY <2>1, ManagedIn, GoodManaged
<1>3. shape.kind \in Kind
  BY GeometryAssumption
<1>4. Good(wm') /\ In(wm', c) /\ OthersKept(wm, wm', c)
  BY <1>1, <1>2, <1>3, ManageOrderly DEF Orderly
<1>5. PICK k : geo' = Arranged(wm', k, wm'.mon[c]) /\ Born(wm', geo, c, shape, k)
  BY <1>1, <1>2, <1>4, PlacedBorn
<1>6. wm'.mon[c] \in Mon /\ c \in Client
  BY <1>4, GoodFacts, InFacts
<1>7. /\ Rearranged(wm', {wm'.mon[c]}, k, geo') /\ SameModes(geo, geo')
      /\ \A d : In(wm', d) /\ d # c =>
           StillCovers(wm, geo, wm', geo', d) /\ Continued(wm, geo, wm', geo', d)
  <2> DEFINE m == wm'.mon[c]
  <2>1. /\ m \in Mon /\ Good(wm') /\ OthersKept(wm, wm', c) /\ SameScreens(geo, k)
        /\ geo' = Arranged(wm', k, m)
        /\ \A d \in Client : d # c => k.win[d] = geo.win[d]
    BY <1>4, <1>5, <1>6 DEF Born
  <2> HIDE DEF m
  <2>2. /\ Rearranged(wm', {m}, k, geo') /\ SameModes(geo, geo')
        /\ \A d : In(wm', d) /\ d # c =>
             StillCovers(wm, geo, wm', geo', d) /\ Continued(wm, geo, wm', geo', d)
    BY <2>1, OthersFine
  <2> QED BY <2>2 DEF m
<1>8. Treated(wm', c, k.win[c], geo'.win[c])
  BY <1>6, <1>7 DEF Rearranged
<1>9. StillCovers(wm, geo, wm', geo', c)
  <2>1. k.mode = geo'.mode
    BY <1>7 DEF Rearranged, SameScreens
  <2> QED BY <1>5, <1>8, <2>1 DEF StillCovers, Covers, Treated, Born
<1>10. SizedAt(wm', geo', c)
  BY <1>5, <1>8 DEF SizedAt, Treated, Born
<1>11. Remembers(wm, geo, wm', geo', c)
  BY <1>2 DEF Remembers
<1>12. StaysKnown(wm, geo, wm', geo', c)
  BY <1>5, <1>8 DEF StaysKnown, Treated, Born, SizeKnown
<1>13. Fine(wm, geo, wm', geo')
  BY <1>4, <1>7, <1>9, <1>10, <1>11, <1>12 DEF Fine, InOrder, SameModes, Continued
<1>14. DragInv(wm', drag')
  <2>1. drag' = drag
    BY DEF MapRequestEvent
  <2>2. ASSUME drag.c # NULL
        PROVE  /\ In(wm', drag.c) /\ wm'.mon[drag.c] = wm'.selmon
               /\ ~wm'.isfullscreen[drag.c]
    <3>1. /\ In(wm, drag.c) /\ wm.mon[drag.c] = wm.selmon
          /\ ~wm.isfullscreen[drag.c]
      BY <2>2 DEF DragInv
    <3>2. drag.c \in Client \ {c}
      BY <1>2, <3>1 DEF In
    <3> QED BY <1>4, <3>1, <3>2 DEF OthersKept
  <2> QED BY <2>1, <2>2 DEF DragInv
<1> QED BY <1>13, <1>14

LEMMA DestroyStep ==
  ASSUME InOrder(wm, geo), DestroyNotifyEvent
  PROVE  Fine(wm, geo, wm', geo')
<1>1. PICK c \in Managed(wm) :
        /\ wm' = Unmanage(wm, c)
        /\ geo' = Arranged(wm', [geo EXCEPT !.win[c] = NewWindow], wm.mon[c])
  BY DEF DestroyNotifyEvent
<1> DEFINE k == [geo EXCEPT !.win[c] = NewWindow]
<1>2. Good(wm) /\ Framed(geo) /\ geo \in Screens /\ In(wm, c)
  BY GoodManaged DEF InOrder, Framed
<1>3. c \in Client /\ wm.mon[c] \in Mon
  BY <1>2, GoodFacts, InFacts
<1>4. Dropping(wm, wm', c)
  BY <1>1, <1>2, UnmanageDrops
<1>5. NewWindow \in Window
  BY DEF NewWindow, Window, NoRect, Rect, NoHints, Hints
<1>6. SameScreens(geo, k) /\ \A d \in Client : d # c => k.win[d] = geo.win[d]
  BY <1>2, <1>3, <1>5, OneWindow
<1> HIDE DEF k
<1>7. geo' = Arranged(wm', k, wm.mon[c])
  BY <1>1 DEF k
<1>8. /\ SameModes(geo, geo')
      /\ \A d : In(wm', d) /\ d # c =>
           StillCovers(wm, geo, wm', geo', d) /\ Continued(wm, geo, wm', geo', d)
  <2> DEFINE m == wm.mon[c]
  <2>1. m \in Mon /\ Good(wm') /\ OthersKept(wm, wm', c) /\ geo' = Arranged(wm', k, m)
    BY <1>3, <1>4, <1>7 DEF Dropping
  <2> HIDE DEF m
  <2>2. /\ Rearranged(wm', {m}, k, geo') /\ SameModes(geo, geo')
        /\ \A d : In(wm', d) /\ d # c =>
             StillCovers(wm, geo, wm', geo', d) /\ Continued(wm, geo, wm', geo', d)
    BY <1>6, <2>1, OthersFine
  <2> QED BY <2>2, Zenon
<1>9. \A d : In(wm', d) => d # c
  BY <1>4 DEF Dropping
<1> QED BY <1>4, <1>8, <1>9 DEF Fine, InOrder, SameModes, Continued, Dropping

-----------------------------------------------------------------------------
(* Monitors                                                                *)

\* Clients go to other monitors, or none does, and all monitors are arranged.
LEMMA AllArranged ==
  ASSUME NEW s, NEW g, InOrder(s, g), NEW t, Good(t), SameFlags(s, t),
         \A c : In(t, c) <=> In(s, c)
  PROVE  LET h == ArrangedAll(t, g)
         IN /\ InOrder(t, h) /\ h.mode = g.mode
            /\ \A c : In(t, c) => Usual(s, g, t, h, c) /\ Continued(s, g, t, h, c)
<1> DEFINE h == ArrangedAll(t, g)
<1>1. Framed(g) /\ g \in Screens /\ 1 \in Mon
  BY ConstantsAssumption DEF InOrder, Framed, Mon
<1>2. Rearranged(t, Mons(t), g, h)
  BY <1>1, ArrangedTreats
<1> HIDE DEF h
<1>3. Framed(h) /\ h.mode = g.mode
  BY <1>1, <1>2 DEF Rearranged, SameScreens, Framed
<1>4. ASSUME NEW c, In(t, c)
      PROVE  Usual(s, g, t, h, c) /\ Continued(s, g, t, h, c)
  <2>1. In(s, c) /\ c \in Client /\ SizedAt(s, g, c)
    BY <1>4 DEF In, InOrder
  <2>2. Treated(t, c, g.win[c], h.win[c])
    BY <1>2, <2>1 DEF Rearranged
  <2>3. Usual(s, g, t, h, c)
    BY <2>1, <2>2 DEF Usual, SameFlags
  <2> QED BY <2>1, <2>3, UsualContinued
<1>5. InOrder(t, h)
  BY <1>3, <1>4 DEF InOrder, Continued
<1> QED BY <1>3, <1>4, <1>5 DEF h

LEMMA TagMonStep ==
  ASSUME InOrder(wm, geo), TagMonCmd
  PROVE  AllSound
<1> DEFINE c == SelOf(wm)
           m == DirToMon(wm, 1)
<1>1. /\ wm' = TagMon(wm, 1) /\ Good(wm)
      /\ geo' = IF wm' = wm THEN geo ELSE ArrangedAll(wm', geo)
  BY DEF TagMonCmd, InOrder
<1>2. wm' = wm \/ (c # NULL /\ wm' = SendMon(wm, c, m))
  BY <1>1 DEF TagMon, SelOf
<1>3. ListInv(wm) /\ m \in Mon /\ m <= wm.nmon /\ (c # NULL => In(wm, c))
  BY <1>1, GoodFacts, DirToMonConnected, SelmonFacts DEF SelOf
<1> HIDE DEF c, m
<1>4. CASE wm' = wm
  <2>1. Framed(geo)
    BY DEF InOrder
  <2>2. Fine(wm, geo, wm', geo')
    BY <1>1, <1>4, <2>1, QuietSame, UnchangedTreated, QuietFine
  <2> QED BY <2>2, FineSound
<1>5. CASE wm' # wm
  <2>1. wm.mon[c] # m
    BY <1>2, <1>5 DEF SendMon
  <2>2. Sent(wm, wm', c, m)
    BY <1>1, <1>2, <1>3, <1>5, <2>1, SendMonMoves
  <2>3. geo' = ArrangedAll(wm', geo)
    BY <1>1, <1>5
  <2>4. /\ InOrder(wm', geo')
        /\ \A d : In(wm', d) => Continued(wm, geo, wm', geo', d)
    BY <2>2, <2>3, AllArranged DEF Sent
  <2> QED BY <2>4 DEF AllSound, Sound, Continued
<1> QED BY <1>4, <1>5

\* updategeom() gives every monitor a geometry it may have, and a bar or none.
LEMMA RegeometryFramed ==
  ASSUME NEW w, NEW g, Framed(g), NEW n \in Mon, NEW mode,
         mode \in [Mon -> Rect], \A m \in Mon : mode[m] \in Modes[m]
  PROVE  /\ Framed(Regeometry(w, g, n, mode))
         /\ Regeometry(w, g, n, mode).win = g.win
<1> DEFINE r == Regeometry(w, g, n, mode)
           modes == [m \in Mon |-> IF n < w.nmon /\ m <= n THEN g.mode[m] ELSE mode[m]]
           mons == [m \in Mon |-> IF m > Smaller(n, w.nmon) THEN NewMonitor(g.bh)
                                  ELSE g.mons[m]]
<1>1. g \in Screens /\ BarHeight \in Nat
  BY GeometryAssumption DEF Framed
<1>2. r = [g EXCEPT !.mode = modes, !.mons = mons]
  BY <1>1 DEF Regeometry, Screens
<1>3. /\ modes \in [Mon -> Rect] /\ \A m \in Mon : modes[m] \in Modes[m]
  BY <1>1 DEF Framed, Screens
<1>4. NewMonitor(g.bh) \in Screen /\ NewMonitor(g.bh).bar = g.bh
  <2>1. g.bh \in Nat
    BY <1>1, ScreensFields
  <2>2. <<10, 60, 30>> \in [1 .. 3 -> Nat \ {0}]
    OBVIOUS
  <2> QED BY <2>1, <2>2 DEF NewMonitor, Screen
<1>5. mons \in [Mon -> Screen] /\ \A m \in Mon : mons[m].bar \in {0, BarHeight}
  BY <1>1, <1>4, ScreensFields DEF Framed, Screens
<1> HIDE DEF modes, mons
<1>6. r \in Screens /\ r.mode = modes /\ r.mons = mons /\ r.bh = g.bh /\ r.win = g.win
  <2>1. [g EXCEPT !.mode = modes, !.mons = mons] \in Screens
    BY <1>1, <1>3, <1>5 DEF Screens
  <2> QED BY <1>1, <1>2, <2>1 DEF Screens
<1> HIDE DEF r
<1>7. Framed(r)
  BY <1>3, <1>5, <1>6 DEF Framed
<1> QED BY <1>6, <1>7 DEF r

\* configurenotify() makes fullscreen windows cover their monitors again.
LEMMA FullscreenOnFrames ==
  ASSUME NEW t, Good(t), NEW r, Framed(r)
  PROVE  LET k == FullscreenOn(t, r)
         IN /\ SameScreens(r, k)
            /\ \A c \in Client :
                 IF t.isfullscreen[c]
                 THEN /\ SizeKnown(k.win[c]) /\ k.win[c].hints = r.win[c].hints
                      /\ k.win[c].old = r.win[c].rect
                      /\ k.win[c].rect = r.mode[t.mon[c]]
                 ELSE k.win[c] = r.win[c]
<1> DEFINE f == [c \in Client |-> IF t.isfullscreen[c]
                                  THEN ResizeClient(t, r, c, r.mode[t.mon[c]])
                                  ELSE r.win[c]]
           k == FullscreenOn(t, r)
<1>1. t \in State /\ r \in Screens /\ Proper(t)
  BY GoodFacts DEF Framed
<1>2. k = [r EXCEPT !.win = f]
  BY DEF FullscreenOn
<1>3. ASSUME NEW c \in Client
      PROVE  /\ f[c] \in Window
             /\ IF t.isfullscreen[c]
                THEN /\ SizeKnown(f[c]) /\ f[c].hints = r.win[c].hints
                     /\ f[c].old = r.win[c].rect /\ f[c].rect = r.mode[t.mon[c]]
                ELSE f[c] = r.win[c]
  <2>1. t.mon[c] \in Mon
    BY <1>1 DEF State
  <2>2. r.mode[t.mon[c]] \in Rect /\ r.win[c] \in Window
    BY <1>1, <2>1, ScreensFields
  <2>3. CASE t.isfullscreen[c]
    <3> DEFINE v == ResizeClient(t, r, c, r.mode[t.mon[c]])
    <3>1. t.isfloating[c]
      BY <1>1, <2>3 DEF Proper
    <3>2. Reshaped(t, r, c, v) /\ v.rect = r.mode[t.mon[c]]
      BY <1>1, <2>2, <3>1, ResizeClientType
    <3>3. f[c] = v
      BY <2>3
    <3> HIDE DEF v, f
    <3> QED BY <2>3, <3>2, <3>3 DEF Reshaped
  <2>4. CASE ~t.isfullscreen[c]
    BY <2>2, <2>4
  <2> QED BY <2>3, <2>4
<1> HIDE DEF f, k
<1>4. f \in [Client -> Window]
  BY <1>3 DEF f
<1>5. SameScreens(r, k) /\ k.win = f
  BY <1>1, <1>2, <1>4, NewWindows
<1>6. \A c \in Client :
        IF t.isfullscreen[c]
        THEN /\ SizeKnown(k.win[c]) /\ k.win[c].hints = r.win[c].hints
             /\ k.win[c].old = r.win[c].rect
             /\ k.win[c].rect = r.mode[t.mon[c]]
        ELSE k.win[c] = r.win[c]
  BY <1>3, <1>5
<1> QED BY <1>5, <1>6 DEF k

LEMMA ScreenStep ==
  ASSUME InOrder(wm, geo), ConfigureNotifyEvent
  PROVE  AllSound
<1>1. PICK n \in Mon : \E p \in 1 .. n, m \in Mon : \E r \in Modes[m] :
        /\ wm' = ConfigureNotify(wm, n, p)
        /\ geo' = ArrangedAll(wm', FullscreenOn(wm',
                    Regeometry(wm, geo, n, [geo.mode EXCEPT ![m] = r])))
  BY DEF ConfigureNotifyEvent
<1>2. PICK p \in 1 .. n, m \in Mon : \E r \in Modes[m] :
      /\ wm' = ConfigureNotify(wm, n, p)
      /\ geo' = ArrangedAll(wm', FullscreenOn(wm',
                  Regeometry(wm, geo, n, [geo.mode EXCEPT ![m] = r])))
  BY <1>1
<1>3. PICK r \in Modes[m] :
        /\ wm' = ConfigureNotify(wm, n, p)
        /\ geo' = ArrangedAll(wm', FullscreenOn(wm',
                    Regeometry(wm, geo, n, [geo.mode EXCEPT ![m] = r])))
  BY <1>2
<1> DEFINE mode == [geo.mode EXCEPT ![m] = r]
           g == Regeometry(wm, geo, n, mode)
           k == FullscreenOn(wm', g)
<1>4. Good(wm) /\ Framed(geo) /\ geo \in Screens
  BY DEF InOrder, Framed
<1>5. /\ Good(wm') /\ SameFlags(wm, wm') /\ \A c : In(wm', c) <=> In(wm, c)
  BY <1>3, <1>4, ConfigureNotifyOrderly DEF Orderly
<1>6. mode \in [Mon -> Rect] /\ \A i \in Mon : mode[i] \in Modes[i]
  <2>1. r \in Rect
    BY GeometryAssumption
  <2> QED BY <1>4, <2>1 DEF Framed, Screens
<1> HIDE DEF mode
<1>7. Framed(g) /\ g.win = geo.win
  BY <1>4, <1>6, RegeometryFramed
<1> HIDE DEF g
<1>8. /\ SameScreens(g, k)
      /\ \A c \in Client :
           IF wm'.isfullscreen[c]
           THEN /\ SizeKnown(k.win[c]) /\ k.win[c].hints = g.win[c].hints
                /\ k.win[c].old = g.win[c].rect
                /\ k.win[c].rect = g.mode[wm'.mon[c]]
           ELSE k.win[c] = g.win[c]
  BY <1>5, <1>7, FullscreenOnFrames
<1>9. geo' = ArrangedAll(wm', k)
  BY <1>3 DEF k, g, mode
<1> HIDE DEF k
<1>10. Rearranged(wm', Mons(wm'), k, geo')
  <2>1. k \in Screens /\ 1 \in Mon
    BY <1>8, ConstantsAssumption DEF SameScreens, Mon
  <2> QED BY <1>5, <1>9, <2>1, ArrangedTreats
<1>11. Framed(geo') /\ geo'.mode = g.mode
  BY <1>7, <1>8, <1>10 DEF Rearranged, SameScreens, Framed
<1>12. ASSUME NEW c, In(wm', c)
       PROVE  SizedAt(wm', geo', c) /\ Sound(c)
  <2>1. /\ In(wm, c) /\ c \in Client /\ SizedAt(wm, geo, c) /\ wm'.mon[c] \in Mon
        /\ wm'.isfullscreen[c] => wm'.isfloating[c]
    <3>1. wm' \in State /\ Proper(wm')
      BY <1>5, GoodFacts
    <3>2. In(wm, c) /\ c \in Client
      BY <1>5, <1>12 DEF In
    <3> QED BY <3>1, <3>2 DEF InOrder, State, Proper
  <2>2. Treated(wm', c, k.win[c], geo'.win[c])
    BY <1>10, <2>1 DEF Rearranged
  <2>3. CASE wm'.isfullscreen[c]
    <3>1. /\ SizeKnown(k.win[c]) /\ k.win[c].hints = geo.win[c].hints
          /\ k.win[c].old = geo.win[c].rect /\ k.win[c].rect = g.mode[wm'.mon[c]]
      BY <1>7, <1>8, <2>1, <2>3
    <3>2. Covers(wm', geo', c)
      BY <1>11, <2>2, <2>3, <3>1 DEF Covers, Treated
    <3>3. Solid(g.mode[wm'.mon[c]])
      BY <1>7, <2>1, ModeSolid
    <3>4. SizedAt(wm', geo', c)
      BY <1>5, <2>1, <2>2, <2>3, <3>1, <3>3 DEF SizedAt, Treated, SameFlags
    <3>5. StaysKnown(wm, geo, wm', geo', c)
      BY <2>2, <3>1 DEF StaysKnown, Treated, SizeKnown
    <3>6. wm'.isfullscreen[c] = wm.isfullscreen[c]
      BY <1>5 DEF SameFlags
    <3> QED BY <3>2, <3>4, <3>5, <3>6 DEF Sound, StillCovers
  <2>4. CASE ~wm'.isfullscreen[c]
    <3>1. Treated(wm', c, geo.win[c], geo'.win[c])
      BY <1>7, <1>8, <2>1, <2>2, <2>4
    <3>2. Usual(wm, geo, wm', geo', c)
      BY <1>5, <2>1, <3>1 DEF Usual, SameFlags
    <3>3. Continued(wm, geo, wm', geo', c)
      BY <2>1, <3>2, UsualContinued
    <3> QED BY <2>4, <3>3 DEF Continued, Sound, StillCovers
  <2> QED BY <2>3, <2>4
<1> QED BY <1>5, <1>11, <1>12 DEF AllSound, InOrder

-----------------------------------------------------------------------------
(* Dropping a window                                                       *)

LEMMA OverlapType ==
  ASSUME NEW r \in Rect, NEW M \in Rect
  PROVE  Overlap(r, M) \in Int
<1> DEFINE a == Bigger(0, Smaller(r.x + r.w, M.x + M.w) - Bigger(r.x, M.x))
           b == Bigger(0, Smaller(r.y + r.h, M.y + M.h) - Bigger(r.y, M.y))
<1>1. a \in Int /\ b \in Int
  BY DEF Rect, Bigger, Smaller
<1> HIDE DEF a, b
<1>2. a * b \in Int
  BY <1>1, ProductType
<1> QED BY <1>2 DEF Overlap, a, b

\* recttomon() finds a monitor that is there.
LEMMA RectToMonFound ==
  ASSUME NEW w, Good(w), NEW g \in Screens, NEW r \in Rect
  PROVE  RectToMon(w, g, r) \in Mons(w) /\ Mons(w) \subseteq Mon
<1> DEFINE n == w.nmon
           area == [m \in 1 .. n |-> Overlap(r, g.mode[m])]
           best == {m \in 1 .. n : \A k \in 1 .. n : area[k] <= area[m]}
<1>1. w \in State /\ ListInv(w)
  BY GoodFacts
<1>2. /\ n \in Nat /\ n # 0 /\ \A m \in 1 .. n : m \in Mon
      /\ w.selmon \in 1 .. n
  <2>1. n \in Mon /\ w.selmon \in Mon /\ w.selmon <= n
    BY <1>1 DEF State, ListInv, Connected
  <2> QED BY <2>1, ConstantsAssumption DEF Mon
<1>3. \A m \in 1 .. n : area[m] \in Int
  BY <1>2, ScreensFields, OverlapType
<1>4. best # {}
  <2> HIDE DEF n, area
  <2>1. PICK k \in 1 .. n : \A i \in 1 .. n : area[i] <= area[k]
    BY <1>2, <1>3, Greatest
  <2> QED BY <2>1
<1>5. best \in SUBSET Nat
  BY <1>2
<1>6. Min(best) \in best
  <2> HIDE DEF best
  <2> QED BY <1>4, <1>5, MinNat
<1>7. RectToMon(w, g, r) = IF \A m \in 1 .. n : area[m] = 0 THEN w.selmon
                           ELSE Min(best)
  <2>1. \A m \in 1 .. n : area[m] = Overlap(r, g.mode[m])
    OBVIOUS
  <2>2. best = {m \in 1 .. n :
                  \A k \in 1 .. n : Overlap(r, g.mode[k]) <= Overlap(r, g.mode[m])}
    OBVIOUS
  <2> HIDE DEF area, best
  <2> QED BY <2>1, <2>2 DEF RectToMon, Mons
<1> QED BY <1>2, <1>6, <1>7 DEF Mons

\* The window goes to that monitor, and both are selected.
LEMMA DroppedSelects ==
  ASSUME NEW s, Good(s), NEW c, In(s, c), NEW m \in Mon, m <= s.nmon,
         s.mon[c] # m, m # s.selmon
  PROVE  LET t == Focus([SendMon(s, c, m) EXCEPT !.selmon = m], NULL)
         IN /\ Good(t) /\ SameFlags(s, t) /\ \A d : In(t, d) <=> In(s, d)
            /\ t.mon[c] = m /\ t.selmon = m /\ t.sel[m] = c
            /\ \A d \in Client \ {c} : t.mon[d] = s.mon[d]
<1> DEFINE u == SendMon(s, c, m)
           v == [u EXCEPT !.selmon = m]
           t == Focus(v, NULL)
<1>1. Sent(s, u, c, m)
  BY SendMonMoves
<1> HIDE DEF u
<1>2. /\ Good(u) /\ u \in State /\ ListInv(u) /\ Whole(u) /\ m <= u.nmon
      /\ c \in Client /\ c # NULL /\ NULL \in ClientOrNull
  <2>1. c \in Client /\ c # NULL
    BY GoodFacts, InFacts
  <2>2. Good(u) /\ m <= u.nmon
    BY <1>1 DEF Sent
  <2> QED BY <2>1, <2>2, GoodFacts DEF ClientOrNull
<1>3. Reordered(u, v) /\ v \in State /\ Untouched(u, v)
  BY <1>2, SetSelmonInv, SelectMonUntouched
<1>4. v.selmon = m /\ v.stack = u.stack /\ v.mon = u.mon
  BY <1>2 DEF State
<1> HIDE DEF v
<1>5. Whole(v) /\ ListInv(v)
  BY <1>2, <1>3, UntouchedReady DEF Reordered
<1>6. Good(t) /\ Reordered(v, t)
  BY <1>5, FocusGood, FocusInv
<1>7. SameFlags(v, t) /\ t.mon = v.mon
  BY <1>2, <1>3, FlagsKept, FocusLeaves
<1>8. SameFlags(s, t)
  BY <1>1, <1>3, <1>7 DEF Sent, SameFlags, Untouched
<1>9. \A d : In(t, d) <=> In(s, d)
  <2>1. \A d : In(t, d) <=> In(v, d)
    BY <1>5, <1>6, ReorderedSameIn
  <2>2. \A d : In(v, d) <=> In(u, d)
    BY <1>2, <1>3, ReorderedSameIn
  <2> QED BY <1>1, <2>1, <2>2 DEF Sent
<1>10. Visible(v, c)
  <2>1. v.mon[c] = m /\ v.tags[c] = ViewOf(s, m) /\ ViewOf(v, m) = ViewOf(s, m)
    BY <1>1, <1>3, <1>4 DEF Sent, Untouched, ViewOf
  <2>2. ViewOf(s, m) # {}
    <3>1. Proper(s) /\ s \in State
      BY GoodFacts
    <3>2. s.seltags[m] \in Slot
      BY <3>1 DEF State
    <3> QED BY <3>1, <3>2 DEF Proper, ViewOf
  <2> QED BY <2>1, <2>2 DEF Visible
<1>11. Chosen(v, NULL) = c
  <2>1. PICK q \in Seq(Client) : u.stack[m] = <<c>> \o q
    BY <1>1 DEF Sent
  <2> QED BY <1>2, <1>4, <1>10, <2>1, FirstVisibleFront DEF Chosen
<1>12. t.sel = [v.sel EXCEPT ![m] = c] /\ t.selmon = m
  <2>1. v.mon[c] = m
    BY <1>1, <1>4 DEF Sent
  <2> HIDE DEF t
  <2>2. LET d == Chosen(v, NULL)
        IN t.sel = [v.sel EXCEPT ![v.mon[d]] = d] /\ t.selmon = v.mon[d]
    BY <1>2, <1>3, <1>11, FocusFields DEF t
  <2> QED BY <1>11, <2>1, <2>2
<1>13. t.sel[m] = c
  BY <1>3, <1>12 DEF State
<1>14. t.mon[c] = m /\ \A d \in Client \ {c} : t.mon[d] = s.mon[d]
  BY <1>1, <1>4, <1>7 DEF Sent
<1> HIDE DEF t
<1> QED BY <1>6, <1>8, <1>9, <1>12, <1>13, <1>14 DEF t, v, u

\* What a release makes of the window, and of the selection.
Follows ==
  LET c == drag.c
      m == RectToMon(wm, geo, RectOf(c))
  IN wm'.mon[c] = m /\ (m # wm.mon[c] => wm'.selmon = m /\ Selected(wm') = c)

LEMMA ReleaseStep ==
  ASSUME InOrder(wm, geo), DragInv(wm, drag), ButtonRelease
  PROVE  AllSound /\ DragInv(wm', drag') /\ Follows
<1> DEFINE c == drag.c
           r == geo.win[c].rect
           m == RectToMon(wm, geo, r)
<1>1. /\ c # NULL /\ drag' = NoDrag
      /\ IF m = wm.selmon THEN wm' = wm ELSE Dropped(c, m)
      /\ geo' = IF m \in {wm.selmon, wm.mon[c]} THEN geo ELSE ArrangedAll(wm', geo)
  BY DEF ButtonRelease, ReleasedOn
<1>2. /\ Good(wm) /\ Framed(geo) /\ geo \in Screens /\ In(wm, c)
      /\ wm.mon[c] = wm.selmon /\ ~wm.isfullscreen[c] /\ c \in Client
  BY <1>1 DEF InOrder, DragInv, Framed, In
<1>3. r \in Rect
  BY <1>2, ScreensFields, WindowFields
<1>4. m \in Mons(wm) /\ Mons(wm) \subseteq Mon
  BY <1>2, <1>3, RectToMonFound
<1>5. m \in Mon /\ m <= wm.nmon
  BY <1>4, ConstantsAssumption DEF Mons, Mon
<1>6. DragInv(wm', drag')
  BY <1>1 DEF DragInv, NoDrag, ClientOrNull
<1>7. Follows <=> /\ wm'.mon[c] = m
                  /\ m # wm.mon[c] => wm'.selmon = m /\ wm'.sel[wm'.selmon] = c
  BY DEF Follows, RectOf, Selected
<1> HIDE DEF c, m
<1>8. CASE m = wm.selmon
  <2>1. wm' = wm /\ geo' = geo
    BY <1>1, <1>8
  <2>2. Fine(wm, geo, wm', geo')
    BY <1>2, <2>1, QuietSame, UnchangedTreated, QuietFine
  <2>3. Follows
    BY <1>2, <1>7, <1>8, <2>1
  <2> QED BY <1>6, <2>2, <2>3, FineSound
<1>9. CASE m # wm.selmon
  <2>1. /\ wm' = Focus([SendMon(wm, c, m) EXCEPT !.selmon = m], NULL)
        /\ geo' = ArrangedAll(wm', geo)
    BY <1>1, <1>2, <1>9 DEF Dropped
  <2>2. /\ Good(wm') /\ SameFlags(wm, wm') /\ \A d : In(wm', d) <=> In(wm, d)
        /\ wm'.mon[c] = m /\ wm'.selmon = m /\ wm'.sel[m] = c
        /\ \A d \in Client \ {c} : wm'.mon[d] = wm.mon[d]
    BY <1>2, <1>5, <1>9, <2>1, DroppedSelects
  <2>3. Follows
    BY <1>7, <2>2
  <2>4. /\ InOrder(wm', geo') /\ geo'.mode = geo.mode
        /\ \A d : In(wm', d) =>
             Usual(wm, geo, wm', geo', d) /\ Continued(wm, geo, wm', geo', d)
    BY <2>1, <2>2, AllArranged
  <2>5. ASSUME NEW d, In(wm', d)
        PROVE  StillCovers(wm, geo, wm', geo', d)
    <3>1. CASE d = c
      BY <1>2, <2>2, <3>1 DEF StillCovers, SameFlags
    <3>2. CASE d # c
      <4>1. wm'.mon[d] = wm.mon[d]
        BY <2>2, <2>5, <3>2 DEF In
      <4> QED BY <2>4, <2>5, <4>1, UsualCovers
    <3> QED BY <3>1, <3>2
  <2> QED BY <1>6, <2>3, <2>4, <2>5 DEF AllSound, Sound, Continued
<1> QED BY <1>8, <1>9
-----------------------------------------------------------------------------
(* Every step                                                              *)

\* A step that starts and ends without a drag.
LEMMA IdleDrag ==
  ASSUME DragInv(wm, drag), drag' = drag, drag.c = NULL
  PROVE  DragInv(wm', drag')
BY DEF DragInv

\* Nothing moves, and no client comes or goes.
LEMMA StutterSound ==
  ASSUME GeometryInv, UNCHANGED vars
  PROVE  AllSound /\ DragInv(wm', drag')
<1>1. Quiet(wm, wm)
  BY QuietSame DEF GeometryInv, InOrder
<1>2. SameModes(geo, geo) /\ AllTreated(wm, geo, geo)
  BY UnchangedTreated DEF GeometryInv, InOrder
<1>3. Fine(wm, geo, wm, geo)
  BY <1>1, <1>2, QuietFine DEF GeometryInv
<1>4. wm' = wm /\ geo' = geo /\ drag' = drag
  BY DEF vars
<1>5. Fine(wm, geo, wm', geo')
  BY <1>3, <1>4
<1>6. DragInv(wm', drag')
  BY <1>4 DEF GeometryInv
<1> QED BY <1>5, <1>6, FineSound

LEMMA NextSound ==
  ASSUME GeometryInv, Next
  PROVE  AllSound /\ DragInv(wm', drag')
<1>1. InOrder(wm, geo) /\ DragInv(wm, drag)
  BY DEF GeometryInv
<1>2. CASE ToggleViewCmd \/ SetLayoutCmd \/ IncNMasterCmd \/ PushLeftCmd
  <2>1. drag' = drag /\ drag.c = NULL
    BY <1>2 DEF ToggleViewCmd, SetLayoutCmd, IncNMasterCmd, PushLeftCmd, Idle, Do
  <2> QED BY <1>1, <1>2, <2>1, IdleDrag, LayoutSteps, FineSound
<1>3. CASE IncNColsCmd \/ SetColFactCmd \/ SetMFactCmd
  <2>1. drag' = drag /\ drag.c = NULL
    BY <1>3 DEF IncNColsCmd, SetColFactCmd, SetMFactCmd, Idle, DoWith
  <2> QED BY <1>1, <1>3, <2>1, IdleDrag, ColumnSteps, FineSound
<1>4. CASE SetCFactCmd
  <2>1. drag' = drag /\ drag.c = NULL
    BY <1>4 DEF SetCFactCmd, Idle, DoWith
  <2> QED BY <1>1, <1>4, <2>1, IdleDrag, CFactStep, FineSound
<1>5. CASE ToggleBarCmd \/ BarMapped \/ BarUnmapped
  <2>1. drag' = drag /\ drag.c = NULL
    BY <1>5 DEF ToggleBarCmd, BarMapped, BarUnmapped, Idle, DoWith
  <2> QED BY <1>1, <1>5, <2>1, IdleDrag, BarSteps, FineSound
<1>6. CASE ToggleFloatingCmd
  <2>1. drag' = drag /\ drag.c = NULL
    BY <1>6 DEF ToggleFloatingCmd, Idle
  <2> QED BY <1>1, <1>6, <2>1, IdleDrag, FloatingStep, FineSound
<1>7. CASE FullscreenMessage
  <2>1. drag' = drag /\ drag.c = NULL
    BY <1>7 DEF FullscreenMessage, Idle
  <2> QED BY <1>1, <1>7, <2>1, IdleDrag, FullscreenStep, FineSound
<1>8. CASE \E c \in Client, req \in Requests : ConfigureRequestEvent(c, req)
  <2>1. wm' = wm /\ drag' = drag
    BY <1>8 DEF ConfigureRequestEvent
  <2> QED BY <1>1, <1>8, <2>1, ConfigureStep
<1>9. CASE MapRequestEvent
  BY <1>1, <1>9, MapStep, FineSound
<1>10. CASE DestroyNotifyEvent
  <2>1. drag' = drag /\ drag.c = NULL
    BY <1>10 DEF DestroyNotifyEvent, Idle
  <2> QED BY <1>1, <1>10, <2>1, IdleDrag, DestroyStep, FineSound
<1>11. CASE TagMonCmd
  <2>1. drag' = drag /\ drag.c = NULL
    BY <1>11 DEF TagMonCmd, Idle
  <2> QED BY <1>1, <1>11, <2>1, IdleDrag, TagMonStep
<1>12. CASE ButtonPressEvent
  <2>1. drag' = drag /\ drag.c = NULL
    BY <1>12 DEF ButtonPressEvent, Idle
  <2> QED BY <1>1, <1>12, <2>1, IdleDrag, ButtonSteps, FineSound
<1>13. CASE ConfigureNotifyEvent
  <2>1. drag' = drag /\ drag.c = NULL
    BY <1>13 DEF ConfigureNotifyEvent, Idle
  <2> QED BY <1>1, <1>13, <2>1, IdleDrag, ScreenStep
<1>14. CASE StartDrag
  BY <1>1, <1>14, ButtonSteps, FineSound
<1>15. CASE MoveMotion \/ ResizeMotion
  BY <1>1, <1>15, MotionStep, FineSound
<1>16. CASE ButtonRelease
  BY <1>1, <1>16, ReleaseStep
<1> QED BY <1>2, <1>3, <1>4, <1>5, <1>6, <1>7, <1>8, <1>9, <1>10, <1>11, <1>12,
           <1>13, <1>14, <1>15, <1>16 DEF Next

\* At the start there is no client, and no bar.
LEMMA InitialGood ==
  ASSUME NEW n \in Mon, NEW m \in 1 .. n
  PROVE  LET s == InitialState(n, m) IN Good(s) /\ \A c : ~In(s, c)
<1> DEFINE s == InitialState(n, m)
<1>1. m \in Mon /\ m <= n /\ m \in Nat /\ n \in Nat
  BY ConstantsAssumption DEF Mon
<1>2. s \in State
  BY <1>1, InitialStateType
<1>3. /\ s.clients = [i \in Mon |-> << >>] /\ s.stack = [i \in Mon |-> << >>]
      /\ s.sel = [i \in Mon |-> NULL] /\ s.selmon = m /\ s.nmon = n
      /\ s.tagset = [i \in Mon |-> [k \in Slot |-> {0}]]
      /\ s.isfullscreen = [c \in Client |-> FALSE]
  BY DEF InitialState
<1> HIDE DEF s
<1>4. ListInv(s)
  <2>1. Linked(s)
    BY <1>3, EmptyList DEF Linked
  <2>2. Owned(s)
    BY <1>3 DEF Owned
  <2>3. Connected(s)
    BY <1>1, <1>3, EmptyList DEF Connected
  <2> QED BY <1>2, <2>1, <2>2, <2>3 DEF ListInv
<1>5. \A c : ~In(s, c)
  <2>1. \A c \in Client : s.mon[c] \in Mon
    BY <1>2 DEF State
  <2> QED BY <1>3, <2>1, EmptyList DEF In
<1>6. Proper(s)
  BY <1>3, <1>5 DEF Proper
<1>7. Settled(s)
  <2>1. s.sel[s.selmon] = NULL /\ s.stack[s.selmon] = << >>
    BY <1>1, <1>3
  <2>2. FirstVisible(s, << >>) = NULL
    <3>1. << >> \in Seq(Client) /\ ToSet(<< >>) = {}
      BY EmptyList, EmptySeq
    <3> QED BY <3>1, FirstVisibleType
  <2> QED BY <1>2, <2>1, <2>2 DEF Settled
<1>8. Good(s)
  BY <1>4, <1>5, <1>6, <1>7 DEF Good, Whole
<1> QED BY <1>5, <1>8 DEF s

LEMMA InitGeometry == Init => GeometryInv
<1> SUFFICES ASSUME Init
             PROVE  GeometryInv
  OBVIOUS
<1>1. Good(wm) /\ \A c : ~In(wm, c)
  BY InitialGood DEF Init
<1>2. Framed(geo)
  <2>1. PICK mode \in [Mon -> UNION {Modes[m] : m \in Mon}] :
          /\ \A m \in Mon : mode[m] \in Modes[m]
          /\ geo = [ mode |-> mode, bh |-> 0,
                     mons |-> [m \in Mon |-> NewMonitor(0)],
                     win |-> [c \in Client |-> NewWindow] ]
    BY DEF Init
  <2>2. mode \in [Mon -> Rect]
    BY <2>1, GeometryAssumption
  <2>3. NewMonitor(0) \in Screen /\ NewMonitor(0).bar = 0
    BY DEF NewMonitor, Screen
  <2>4. NewWindow \in Window
    BY DEF NewWindow, Window, NoRect, NoHints, Rect, Hints
  <2>5. geo \in Screens
    BY <2>1, <2>2, <2>3, <2>4 DEF Screens
  <2> QED BY <2>1, <2>3, <2>5 DEF Framed
<1>3. DragInv(wm, drag)
  BY DEF Init, NoDrag, DragInv, ClientOrNull
<1> QED BY <1>1, <1>2, <1>3 DEF GeometryInv, InOrder

LEMMA NextGeometry == GeometryInv /\ [Next]_vars => AllSound /\ GeometryInv'
<1> SUFFICES ASSUME GeometryInv, [Next]_vars
             PROVE  AllSound /\ GeometryInv'
  OBVIOUS
<1>1. AllSound /\ DragInv(wm', drag')
  BY NextSound, StutterSound
<1>2. InOrder(wm', geo')
  BY <1>1 DEF AllSound
<1>3. GeometryInv'
  BY <1>1, <1>2 DEF GeometryInv
<1> QED BY <1>1, <1>3

\* The lists are in order and each client has a geometry; the monitors have
\* geometries they may have; a floating window without size hints is not empty,
\* nor is what it comes back to after fullscreen; and only a client of the
\* selected monitor that is not fullscreen is dragged (dwm.c, varcol.c).
THEOREM GeometryInOrder == Spec => []GeometryInv
BY InitGeometry, NextGeometry, PTL DEF Spec

-----------------------------------------------------------------------------
(* What a step may not do                                                  *)

LEMMA NextCovers ==
  GeometryInv /\ [Next]_vars =>
    \A c \in Managed(wm') :
      wm'.isfullscreen[c] =>
        \/ geo'.win[c].rect = geo'.mode[wm'.mon[c]]
        \/ wm.isfullscreen[c] /\ ~(geo.win[c].rect = geo.mode[wm.mon[c]])
        \/ Requested(c) \/ TagMonCmd
<1> SUFFICES ASSUME GeometryInv, [Next]_vars, NEW c \in Managed(wm'),
                    wm'.isfullscreen[c], ~Requested(c), ~TagMonCmd
             PROVE  \/ geo'.win[c].rect = geo'.mode[wm'.mon[c]]
                    \/ wm.isfullscreen[c] /\ ~(geo.win[c].rect = geo.mode[wm.mon[c]])
  OBVIOUS
<1>1. AllSound
  BY NextGeometry
<1>2. Good(wm')
  BY <1>1 DEF AllSound, InOrder
<1>3. In(wm', c)
  BY <1>2, GoodManaged
<1>4. StillCovers(wm, geo, wm', geo', c)
  BY <1>1, <1>3 DEF AllSound, Sound
<1> QED BY <1>4 DEF StillCovers, Covers

\* A fullscreen window covers its monitor in every state from setfullscreen()
\* or manage() on, whatever is arranged, toggled, dragged, mapped or closed, and
\* when configurenotify() changes, adds or removes monitors; only a geometry it
\* asks for itself, and tagmon(), can make a step leave it elsewhere.
THEOREM FullscreenKeepsCovering == Spec => FullscreenCovers
<1>1. GeometryInv /\ [Next]_vars =>
        [ \A c \in Managed(wm') :
            wm'.isfullscreen[c] =>
              \/ geo'.win[c].rect = geo'.mode[wm'.mon[c]]
              \/ wm.isfullscreen[c] /\ ~(geo.win[c].rect = geo.mode[wm.mon[c]])
              \/ Requested(c) \/ TagMonCmd ]_vars
  BY NextCovers
<1> QED BY <1>1, GeometryInOrder, PTL DEF Spec, FullscreenCovers

LEMMA NextRestores ==
  GeometryInv /\ [Next]_vars =>
    \A c \in Managed(wm) \cap Managed(wm') :
      LET was == wm.isfullscreen[c]
          is == wm'.isfullscreen[c]
      IN /\ is /\ ~was => geo'.win[c].old = RectOf(c)
         /\ is /\ was /\ geo'.win[c].old # geo.win[c].old =>
              Requested(c) \/ ConfigureNotifyEvent
         /\ ~is /\ was /\ wm.oldstate[c] /\ Visible(wm, c) =>
              LET old == geo.win[c].old
                  back == [geo EXCEPT !.win[c].rect = old]
              IN geo'.win[c].rect =
                   ApplySizeHints(wm', back, c, old, FALSE)
<1> SUFFICES ASSUME GeometryInv, [Next]_vars,
                    NEW c \in Managed(wm) \cap Managed(wm')
             PROVE  LET was == wm.isfullscreen[c]
                        is == wm'.isfullscreen[c]
                    IN /\ is /\ ~was => geo'.win[c].old = RectOf(c)
                       /\ is /\ was /\ geo'.win[c].old # geo.win[c].old =>
                            Requested(c) \/ ConfigureNotifyEvent
                       /\ ~is /\ was /\ wm.oldstate[c] /\ Visible(wm, c) =>
                            LET old == geo.win[c].old
                                back == [geo EXCEPT !.win[c].rect = old]
                            IN geo'.win[c].rect =
                                 ApplySizeHints(wm', back, c, old, FALSE)
  OBVIOUS
<1>1. AllSound
  BY NextGeometry
<1>2. Good(wm') /\ Good(wm)
  BY <1>1 DEF AllSound, InOrder, GeometryInv
<1>3. In(wm', c) /\ In(wm, c)
  BY <1>2, GoodManaged
<1>4. \/ Remembers(wm, geo, wm', geo', c)
      \/ /\ Requested(c) \/ ConfigureNotifyEvent
         /\ wm'.isfullscreen[c] = wm.isfullscreen[c]
  BY <1>1, <1>3 DEF AllSound, Sound
<1>5. CASE Remembers(wm, geo, wm', geo', c)
  BY <1>3, <1>5 DEF Remembers, RectOf
<1>6. CASE /\ Requested(c) \/ ConfigureNotifyEvent
           /\ wm'.isfullscreen[c] = wm.isfullscreen[c]
  BY <1>6
<1> QED BY <1>4, <1>5, <1>6

\* oldx, oldy, oldw and oldh hold what a window was before it became fullscreen
\* for as long as it is, and setfullscreen() gives a floating window in view
\* exactly that back, as applysizehints() makes it; a request of the window and
\* a change of the screen meanwhile are the only exceptions.
THEOREM FullscreenGivesBack == Spec => FullscreenRestores
<1>1. GeometryInv /\ [Next]_vars =>
        [ \A c \in Managed(wm) \cap Managed(wm') :
            LET was == wm.isfullscreen[c]
                is == wm'.isfullscreen[c]
            IN /\ is /\ ~was => geo'.win[c].old = RectOf(c)
               /\ is /\ was /\ geo'.win[c].old # geo.win[c].old =>
                    Requested(c) \/ ConfigureNotifyEvent
               /\ ~is /\ was /\ wm.oldstate[c] /\ Visible(wm, c) =>
                    LET old == geo.win[c].old
                        back == [geo EXCEPT !.win[c].rect = old]
                    IN geo'.win[c].rect =
                         ApplySizeHints(wm', back, c, old, FALSE) ]_vars
  BY NextRestores
<1> QED BY <1>1, GeometryInOrder, PTL DEF Spec, FullscreenRestores

LEMMA NextKnows ==
  GeometryInv /\ [Next]_vars =>
    \A c \in Managed(wm') :
      Visible(wm', c) /\ ~(geo'.win[c].size = <<geo'.win[c].rect.w, geo'.win[c].rect.h>>) =>
        \/ /\ c \in Managed(wm)
           /\ ~(geo.win[c].size = <<geo.win[c].rect.w, geo.win[c].rect.h>>)
        \/ Requested(c) /\ ~Visible(wm, c)
        \/ ~wm'.isfloating[c] /\ geo'.win[c].hints # NoHints
<1> SUFFICES ASSUME GeometryInv, [Next]_vars, NEW c \in Managed(wm'),
                    Visible(wm', c), ~SizeKnown(geo'.win[c])
             PROVE  \/ c \in Managed(wm) /\ ~SizeKnown(geo.win[c])
                    \/ Requested(c) /\ ~Visible(wm, c)
                    \/ ~wm'.isfloating[c] /\ geo'.win[c].hints # NoHints
  BY DEF SizeKnown
<1>1. AllSound
  BY NextGeometry
<1>2. Good(wm') /\ Good(wm)
  BY <1>1 DEF AllSound, InOrder, GeometryInv
<1>3. In(wm', c) /\ (In(wm, c) => c \in Managed(wm))
  BY <1>2, GoodManaged
<1>4. StaysKnown(wm, geo, wm', geo', c) \/ (Requested(c) /\ ~Visible(wm, c))
  BY <1>1, <1>3 DEF AllSound, Sound
<1> QED BY <1>3, <1>4 DEF StaysKnown

\* Whatever resizeclient(), showhide(), setfullscreen() and the layouts do, the
\* X server ends up with the size dwm has, but for the two exceptions of
\* configurerequest() and placeColumn() that the property names.
THEOREM SizesAgree == Spec => ServerKnowsSize
<1>1. GeometryInv /\ [Next]_vars =>
        [ \A c \in Managed(wm') :
            LET Agrees(g) == g.win[c].size = <<g.win[c].rect.w, g.win[c].rect.h>>
            IN Visible(wm', c) /\ ~Agrees(geo') =>
                 \/ c \in Managed(wm) /\ ~Agrees(geo)
                 \/ Requested(c) /\ ~Visible(wm, c)
                 \/ ~wm'.isfloating[c] /\ geo'.win[c].hints # NoHints ]_vars
  BY NextKnows
<1> QED BY <1>1, GeometryInOrder, PTL DEF Spec, ServerKnowsSize

LEMMA NextFollows ==
  GeometryInv /\ [Next]_vars =>
    (ButtonRelease =>
       LET c == drag.c
           m == RectToMon(wm, geo, RectOf(c))
       IN /\ wm'.mon[c] = m
          /\ m # wm.mon[c] => wm'.selmon = m /\ Selected(wm') = c)
<1> SUFFICES ASSUME GeometryInv, ButtonRelease
             PROVE  Follows
  BY DEF Follows
<1> QED BY ReleaseStep DEF GeometryInv

\* movemouse() and resizemouse() leave the window with the monitor that shows
\* most of it, by recttomon(), and both of them selected when that is another
\* one, wherever windows were mapped and clients asked to be in the meantime.
THEOREM DropsFollow == Spec => DropFollowsWindow
<1>1. GeometryInv /\ [Next]_vars =>
        [ ButtonRelease =>
            LET c == drag.c
                m == RectToMon(wm, geo, RectOf(c))
            IN /\ wm'.mon[c] = m
               /\ m # wm.mon[c] => wm'.selmon = m /\ Selected(wm') = c ]_vars
  BY NextFollows
<1> QED BY <1>1, GeometryInOrder, PTL DEF Spec, DropFollowsWindow

-----------------------------------------------------------------------------
(* Arranging brings windows back                                           *)

\* One coordinate of a window of at least one pixel that applysizehints() keeps
\* on its monitor: they have a pixel in common.
LEMMA OnMonitorMeets ==
  ASSUME NEW p \in Int, NEW len \in Int, NEW from \in Int, NEW to \in Int,
         NEW size \in Int, len >= 1, size >= len, from < to
  PROVE  LET q == OnMonitor(p, len, from, to, len)
         IN Bigger(0, Smaller(q + size, to) - Bigger(q, from)) \in Nat \ {0}
<1> DEFINE q == OnMonitor(p, len, from, to, len)
<1>1. q \in Int /\ q < to /\ q + size > from
  BY DEF OnMonitor, NotBefore
<1> HIDE DEF q
<1>2. /\ Smaller(q + size, to) \in Int /\ Bigger(q, from) \in Int
      /\ Smaller(q + size, to) > Bigger(q, from)
  BY <1>1 DEF Smaller, Bigger
<1> DEFINE a == Smaller(q + size, to)
           b == Bigger(q, from)
<1> HIDE DEF a, b
<1>3. Bigger(0, a - b) \in Nat \ {0}
  BY <1>2 DEF a, b, Bigger
<1> QED BY <1>3 DEF a, b, q

LEMMA ProductPositive ==
  ASSUME NEW a \in Nat \ {0}, NEW b \in Nat \ {0}
  PROVE  a * b > 0
<1>1. 1 * b \in Nat /\ 1 * b <= a * b /\ a * b \in Nat
  <2>1. a \in Nat /\ b \in Nat /\ 1 \in Nat /\ 1 <= a
    OBVIOUS
  <2> QED BY <2>1, ProductGrows
<1>2. 1 * b = b
  OBVIOUS
<1> DEFINE ab == a * b
<1> HIDE DEF ab
<1>3. ab > 0
  BY <1>1, <1>2 DEF ab
<1> QED BY <1>3 DEF ab

\* A window without hints that is brought back overlaps its monitor.
LEMMA HintedOverlaps ==
  ASSUME NEW w \in State, NEW g, Framed(g), NEW c \in Client, w.mon[c] \in Mon,
         g.win[c].hints = NoHints, Solid(g.win[c].rect)
  PROVE  Overlap(ApplySizeHints(w, g, c, g.win[c].rect, FALSE),
                 Work(g, w.mon[c])) > 0
<1> DEFINE r == g.win[c].rect
           M == Work(g, w.mon[c])
           bw == Bigger(Bigger(1, g.bh), r.w)
           bh == Bigger(Bigger(1, g.bh), r.h)
           a == ApplySizeHints(w, g, c, r, FALSE)
<1>1. g \in Screens /\ r \in Rect /\ g.bh \in Nat
  BY ScreensFields, WindowFields DEF Framed
<1>2. r.x \in Int /\ r.y \in Int /\ r.w \in Int /\ r.h \in Int /\ r.w >= 1 /\ r.h >= 1
  BY <1>1, RectFields DEF Solid
<1>3. M \in Rect /\ M.w >= 1 /\ M.h >= 1
  <2> DEFINE m == w.mon[c]
             bar == IF g.mons[m].showbar THEN g.mons[m].bar ELSE 0
  <2>1. Solid(g.mode[m]) /\ g.mode[m] \in Rect /\ g.mode[m].h > BarHeight
    BY ModeSolid
  <2>2. bar \in {0, BarHeight} /\ BarHeight \in Nat
    BY GeometryAssumption DEF Framed
  <2>3. M = [g.mode[m] EXCEPT !.y = @ + bar, !.h = @ - bar]
    BY DEF Work
  <2> HIDE DEF bar, M, m
  <2>4. M.w = g.mode[m].w /\ M.h = g.mode[m].h - bar
    BY <2>1, <2>3 DEF Rect
  <2>5. g.mode[m].h \in Int
    BY <2>1, RectFields
  <2>6. M \in Rect
    BY <1>1, WorkType DEF M, m
  <2> QED BY <2>1, <2>2, <2>4, <2>5, <2>6 DEF Solid
<1>4. M.x \in Int /\ M.y \in Int /\ M.w \in Int /\ M.h \in Int
  BY <1>3, RectFields
<1>5. bw \in Nat /\ bw >= r.w /\ bh \in Nat /\ bh >= r.h
  BY <1>1, <1>2 DEF Bigger
<1>6. a.x = OnMonitor(r.x, r.w, M.x, M.x + M.w, r.w)
      /\ a.y = OnMonitor(r.y, r.h, M.y, M.y + M.h, r.h)
      /\ a.w = bw /\ a.h = bh
  <2>1. Bigger(1, r.w) = r.w /\ Bigger(1, r.h) = r.h
    BY <1>2 DEF Bigger
  <2>2. [r EXCEPT !.w = Bigger(1, @), !.h = Bigger(1, @)] = r
    <3> HIDE DEF r
    <3> QED BY <1>1, <2>1 DEF Rect
  <2>3. HintedSize(NoHints, bw, bh) = <<bw, bh>>
    BY <1>5, HintedSizePlain
  <2>4. a = HintedRect(w, g, c, r, M, r, FALSE, <<bw, bh>>)
    BY <2>2, <2>3 DEF ApplySizeHints
  <2> HIDE DEF a, r, M, bw, bh
  <2> QED BY <2>4 DEF HintedRect
<1> HIDE DEF a, r, M, bw, bh
<1>7. /\ M.x < M.x + M.w /\ M.y < M.y + M.h
      /\ M.x + M.w \in Int /\ M.y + M.h \in Int /\ bw \in Int /\ bh \in Int
  BY <1>3, <1>4, <1>5
<1> DEFINE across == Bigger(0, Smaller(a.x + a.w, M.x + M.w) - Bigger(a.x, M.x))
           down == Bigger(0, Smaller(a.y + a.h, M.y + M.h) - Bigger(a.y, M.y))
<1>8. across \in Nat \ {0}
  BY <1>2, <1>4, <1>5, <1>6, <1>7, OnMonitorMeets
<1>9. down \in Nat \ {0}
  BY <1>2, <1>4, <1>5, <1>6, <1>7, OnMonitorMeets
<1>10. Overlap(a, M) = across * down
  BY DEF Overlap
<1> HIDE DEF across, down
<1>11. Overlap(a, M) > 0
  BY <1>8, <1>9, <1>10, ProductPositive
<1> QED BY <1>11 DEF a, r, M

LEMMA ArrangedOverlaps == GeometryInv => ArrangeBringsBack
<1> DEFINE h == ArrangedAll(wm, geo)
<1> SUFFICES ASSUME GeometryInv, NEW c \in Managed(wm), Visible(wm, c),
                    wm.isfloating[c], ~wm.isfullscreen[c], h.win[c].hints = NoHints
             PROVE  Overlap(h.win[c].rect, Work(h, wm.mon[c])) > 0
  BY DEF ArrangeBringsBack
<1>1. /\ Good(wm) /\ Framed(geo) /\ geo \in Screens
      /\ \A d : In(wm, d) => SizedAt(wm, geo, d)
  BY DEF GeometryInv, InOrder, Framed
<1>2. In(wm, c) /\ wm \in State /\ ListInv(wm)
  BY <1>1, GoodManaged, GoodFacts
<1>3. c \in Client /\ wm.mon[c] \in Mon
  BY <1>2, InFacts
<1>4. Rearranged(wm, Mons(wm), geo, h)
  BY <1>1, <1>3, ArrangedTreats
<1>5. Back(wm, Mons(wm), c)
  BY <1>1, <1>2, BackIn
<1> HIDE DEF h
<1>6. /\ h.win[c] = Resize(wm, geo, c, geo.win[c].rect, FALSE)
      /\ h.win[c].hints = geo.win[c].hints
      /\ h.mode = geo.mode /\ h.mons = geo.mons
  BY <1>3, <1>4, <1>5 DEF Rearranged, Treated, SameScreens
<1>7. geo.win[c].rect \in Rect
  BY <1>1, <1>3, ScreensFields, WindowFields
<1>8. h.win[c].rect = ApplySizeHints(wm, geo, c, geo.win[c].rect, FALSE)
  <2>1. LET v == Resize(wm, geo, c, geo.win[c].rect, FALSE)
        IN v.rect = ApplySizeHints(wm, geo, c, geo.win[c].rect, FALSE)
    BY <1>1, <1>2, <1>3, <1>7, ResizeFacts
  <2> QED BY <1>6, <2>1
<1>9. Work(h, wm.mon[c]) = Work(geo, wm.mon[c])
  BY <1>6 DEF Work
<1>10. Solid(geo.win[c].rect)
  BY <1>1, <1>2, <1>6 DEF SizedAt
<1> QED BY <1>1, <1>2, <1>3, <1>6, <1>8, <1>9, <1>10, HintedOverlaps

\* A floating window without size hints is lost off screen only until its
\* monitor is arranged: showhide() gives it to applysizehints(), which puts at
\* least a pixel of it back on the part of the monitor the bar leaves. That
\* works for every window and any place it was dragged to or asked for, because
\* it is never empty: each handler passes it a size of at least one pixel.
THEOREM WindowsComeBack == Spec => []ArrangeBringsBack
BY GeometryInOrder, ArrangedOverlaps, PTL
=============================================================================
