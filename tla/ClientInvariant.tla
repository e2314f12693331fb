-------------------------- MODULE ClientInvariant ---------------------------
(***************************************************************************)
(* What every command and event handler keeps of the clients and of the    *)
(* views: fullscreen clients float, nothing is left without tags, what is  *)
(* in view is on the screen, no client is forgotten, clients that are not  *)
(* selected are left alone, and the keyboard follows the selection; and    *)
(* what they keep of the order of the tiled clients and of remembered      *)
(* views.                                                                  *)
(***************************************************************************)
EXTENDS ListInvariant

-----------------------------------------------------------------------------
(* The invariant                                                           *)

\* Views and clients have tags; only clients in the lists are fullscreen, and
\* they float.
Proper(s) ==
  /\ \A m \in Mon, k \in Slot : s.tagset[m][k] # {}
  /\ \A c \in Client : s.isfullscreen[c] => s.isfloating[c] /\ In(s, c)
  /\ \A c : In(s, c) => s.tags[c] # {}

\* The part of this that swallow() keeps as well.
Based(s) ==
  /\ \A m \in Mon, k \in Slot : s.tagset[m][k] # {}
  /\ \A c \in Client : s.isfullscreen[c] => In(s, c)
  /\ \A c : In(s, c) => s.tags[c] # {}

OnScreen(s, c) ==
  IF Visible(s, c) THEN s.shown[c] ELSE s.shown[c] => s.isfullscreen[c]

\* Monitor m, if any, has yet to be arranged.
Ready(s, m) ==
  /\ ListInv(s) /\ Proper(s)
  /\ \A c : In(s, c) /\ s.mon[c] # m => OnScreen(s, c)

Whole(s) ==
  /\ ListInv(s) /\ Proper(s)
  /\ \A c : In(s, c) => OnScreen(s, c)

Good(s) == Whole(s) /\ Settled(s)

\* No client starts to float or to be fullscreen, or stops to.
SameFlags(s, t) ==
  /\ t.isfloating = s.isfloating /\ t.isfullscreen = s.isfullscreen
  /\ t.oldstate = s.oldstate

LEMMA ProperBased ==
  ASSUME NEW s, Proper(s)
  PROVE  Based(s) /\ \A t : Based(t) /\ SameFlags(s, t) => Proper(t)
BY DEF Proper, Based, SameFlags

\* What OthersUndisturbed says of a step.
SameTags(s, t) ==
  t.tags = s.tags /\ t.tagset = s.tagset /\ t.seltags = s.seltags

OnlySelf(s, t) ==
  /\ \A c \in Client : t.tags[c] # s.tags[c] => c = SelOf(s)
  /\ \A m \in Mon : ViewOf(t, m) # ViewOf(s, m) => m = s.selmon

\* A command or a property change: the clients stay on their monitors, and
\* only the selected client and monitor change their tags.
Steady(s, t) == Good(t) /\ Reordered(s, t) /\ OnlySelf(s, t)

\* No client or monitor changes its tags.
Calm(s, t) == Good(t) /\ Reordered(s, t) /\ SameTags(s, t)

LEMMA OnlySelfThen ==
  ASSUME NEW s, NEW t, NEW u, OnlySelf(s, t), SameTags(t, u)
  PROVE  OnlySelf(s, u)
BY DEF OnlySelf, SameTags, ViewOf

LEMMA SameTagsOnly ==
  ASSUME NEW s, NEW t, SameTags(s, t)
  PROVE  OnlySelf(s, t)
BY DEF OnlySelf, SameTags, ViewOf

LEMMA CalmTwice ==
  ASSUME NEW s, NEW t, NEW u, Calm(s, t), Calm(t, u)
  PROVE  Calm(s, u)
BY ReorderedTwice DEF Calm, SameTags

LEMMA CalmSteady ==
  ASSUME NEW s, NEW t, Calm(s, t)
  PROVE  Steady(s, t)
BY SameTagsOnly DEF Calm, Steady

LEMMA GoodFacts ==
  ASSUME NEW s, Good(s)
  PROVE  /\ ListInv(s) /\ s \in State /\ Proper(s) /\ Whole(s) /\ Settled(s)
         /\ \A m : Ready(s, m)
BY DEF Good, Whole, Ready, ListInv

LEMMA SteadySelf ==
  ASSUME NEW s, Good(s)
  PROVE  Steady(s, s) /\ Calm(s, s)
BY GoodFacts, ReorderedSelf DEF Steady, OnlySelf, Calm, SameTags

-----------------------------------------------------------------------------
(* Focusing and arranging                                                  *)

\* focus() and the helpers for the lists leave alone what Whole is about.
LEMMA UntouchedReady ==
  ASSUME NEW s, NEW t, ListInv(s), Reordered(s, t), Untouched(s, t)
  PROVE  /\ Proper(s) => Proper(t)
         /\ Whole(s) => Whole(t)
         /\ \A m : Ready(s, m) => Ready(t, m)
<1>1. SameView(s, t)
  BY DEF Untouched, Reordered, SamePlaces, SameView
<1>2. \A c : In(t, c) <=> In(s, c)
  BY ReorderedSameIn
<1>3. Proper(s) => Proper(t)
  BY <1>2 DEF Proper, Untouched
<1>4. \A c : OnScreen(t, c) <=> OnScreen(s, c)
  BY <1>1, SameVisible DEF OnScreen, Untouched
<1>5. ListInv(t) /\ t.mon = s.mon
  BY DEF Reordered, SamePlaces
<1> QED BY <1>2, <1>3, <1>4, <1>5 DEF Whole, Ready

LEMMA FocusGood ==
  ASSUME NEW s, NEW want, want = NULL \/ In(s, want)
  PROVE  /\ Whole(s) => Good(Focus(s, want))
         /\ \A m : Ready(s, m) => Ready(Focus(s, want), m)
<1> SUFFICES ASSUME ListInv(s)
             PROVE  /\ Whole(s) => Good(Focus(s, want))
                    /\ \A m : Ready(s, m) => Ready(Focus(s, want), m)
  BY DEF Whole, Ready
<1>1. s \in State /\ want \in ClientOrNull
  BY DEF ListInv, In, ClientOrNull
<1>2. Reordered(s, Focus(s, want)) /\ Untouched(s, Focus(s, want))
  BY <1>1, FocusInv, FocusLeaves
<1>3. Settled(Focus(s, want))
  BY <1>1, FocusSettles
<1> QED BY <1>2, <1>3, UntouchedReady DEF Good

\* Arranging the monitors of ms, when all others are in order.
LEMMA ArrangeMonsWhole ==
  ASSUME NEW s, NEW ms, ListInv(s), Proper(s),
         \A c : In(s, c) /\ s.mon[c] \notin ms => OnScreen(s, c)
  PROVE  LET t == ArrangeMon(ShowHide(s, ms), ms)
         IN Whole(t) /\ Reordered(s, t) /\ SameTags(s, t)
<1> DEFINE t == ArrangeMon(ShowHide(s, ms), ms)
<1>1. s \in State
  BY DEF ListInv
<1>2. /\ t.tags = s.tags /\ t.tagset = s.tagset /\ t.seltags = s.seltags
      /\ t.isfloating = s.isfloating /\ t.isfullscreen = s.isfullscreen
      /\ t.mon = s.mon
      /\ t.shown = [c \in Client |->
                      IF \E m \in ms : Contains(s.stack[m], c)
                      THEN Visible(s, c) ELSE s.shown[c]]
  BY <1>1, ArrangeFields
<1>3. Reordered(s, t)
  BY ShowHideInv, ArrangeMonInv, ReorderedTwice DEF Reordered
<1> HIDE DEF t
<1>4. \A c : In(t, c) <=> In(s, c)
  BY <1>3, ReorderedSameIn
<1>5. Proper(t)
  BY <1>2, <1>4 DEF Proper
<1>6. SameView(s, t)
  BY <1>2 DEF SameView
<1>7. ASSUME NEW c, In(t, c)
      PROVE  OnScreen(t, c)
  <2>1. c \in Client /\ In(s, c) /\ c \in ToSet(s.stack[s.mon[c]])
        /\ s.mon[c] \in Mon
    BY <1>4, <1>7, InFacts
  <2>2. Visible(t, c) = Visible(s, c)
    BY <1>6, SameVisible
  <2>3. s.mon[c] \in ms => Contains(s.stack[s.mon[c]], c)
    <3>1. s.stack[s.mon[c]] \in Seq(Client)
      BY <1>1, <2>1 DEF State
    <3> QED BY <2>1, <3>1, LenProperties DEF Contains, ToSet
  <2>4. t.shown[c] = Visible(s, c) \/ t.shown[c] = s.shown[c]
    BY <1>2, <2>1
  <2>5. s.mon[c] \in ms => t.shown[c] = Visible(s, c)
    BY <1>2, <2>1, <2>3
  <2>6. s.mon[c] \notin ms => OnScreen(s, c)
    BY <2>1
  <2> QED BY <1>2, <2>2, <2>4, <2>5, <2>6, VisibleType DEF OnScreen
<1>8. ListInv(t)
  BY <1>3 DEF Reordered
<1> QED BY <1>2, <1>3, <1>5, <1>7, <1>8 DEF Whole, SameTags, t

LEMMA ArrangeWhole ==
  ASSUME NEW s, NEW m, Ready(s, m)
  PROVE  /\ Whole(Arrange(s, m)) /\ Reordered(s, Arrange(s, m))
         /\ SameTags(s, Arrange(s, m))
BY ArrangeMonsWhole DEF Arrange, Ready

LEMMA ArrangeAllWhole ==
  ASSUME NEW s, ListInv(s), Proper(s)
  PROVE  /\ Whole(ArrangeAll(s)) /\ Reordered(s, ArrangeAll(s))
         /\ SameTags(s, ArrangeAll(s))
<1>1. \A c : In(s, c) => s.mon[c] \in Mons(s)
  <2>1. s.nmon \in Mon
    BY DEF ListInv, State
  <2> QED BY <2>1, InFacts, ConstantsAssumption DEF Mons, Mon
<1> QED BY <1>1, ArrangeMonsWhole DEF ArrangeAll

\* The tails of commands.
LEMMA ArrangeGood ==
  ASSUME NEW s, Good(s), NEW m
  PROVE  Calm(s, Arrange(s, m))
<1>1. Ready(s, m) /\ Settled(s)
  BY GoodFacts
<1>2. /\ Whole(Arrange(s, m)) /\ Reordered(s, Arrange(s, m))
      /\ SameTags(s, Arrange(s, m))
  BY <1>1, ArrangeWhole
<1> QED BY <1>1, <1>2, ArrangeSettled DEF Good, Calm

\* focus() and arrange() write none of the flags.
LEMMA FlagsKept ==
  ASSUME NEW s \in State
  PROVE  /\ \A m : SameFlags(s, Arrange(s, m))
         /\ SameFlags(s, ArrangeAll(s))
         /\ \A want \in ClientOrNull : SameFlags(s, Focus(s, want))
         /\ \A m, want \in ClientOrNull : SameFlags(s, Arrange(Focus(s, want), m))
         /\ SameFlags(s, Refresh(s)) /\ SameFlags(s, ArrangeAll(Focus(s, NULL)))
<1>1. ASSUME NEW u \in State
      PROVE  (\A m : SameFlags(u, Arrange(u, m))) /\ SameFlags(u, ArrangeAll(u))
  BY ArrangeFields DEF Arrange, ArrangeAll, SameFlags
<1>2. ASSUME NEW want \in ClientOrNull
      PROVE  SameFlags(s, Focus(s, want)) /\ Focus(s, want) \in State
  BY FocusLeaves, FocusType DEF Untouched, SameFlags
<1>3. NULL \in ClientOrNull
  BY DEF ClientOrNull
<1>4. \A m, want \in ClientOrNull : SameFlags(s, Arrange(Focus(s, want), m))
  BY <1>1, <1>2 DEF SameFlags
<1>5. SameFlags(s, Refresh(s)) /\ SameFlags(s, ArrangeAll(Focus(s, NULL)))
  BY <1>1, <1>2, <1>3 DEF Refresh, SameFlags
<1> QED BY <1>1, <1>2, <1>4, <1>5

\* focus(NULL) keeps the selected monitor, and the history of the others.
LEMMA FocusNullStays ==
  ASSUME NEW s, ListInv(s)
  PROVE  /\ Focus(s, NULL).selmon = s.selmon
         /\ \A m \in Mon \ {s.selmon} : Focus(s, NULL).stack[m] = s.stack[m]
<1> DEFINE c == Chosen(s, NULL)
           none == [s EXCEPT !.xfocus = NULL, !.sel[s.selmon] = NULL]
<1>1. s \in State /\ s.selmon \in Mon /\ s.stack[s.selmon] \in Seq(Client)
  BY SMTT(60) DEF ListInv, State
<1>2. c = FirstVisible(s, s.stack[s.selmon])
  BY DEF Chosen
<1>3. c \in ToSet(s.stack[s.selmon]) \cup {NULL}
  BY <1>1, <1>2, FirstVisibleType
<1>4. CASE c = NULL
  <2>1. Focus(s, NULL) = none
    BY <1>4, ZenonT(60) DEF Focus, Chosen
  <2>2. none.selmon = s.selmon /\ none.stack = s.stack
    BY <1>1 DEF State
  <2> QED BY <2>1, <2>2
<1>5. CASE c # NULL
  <2>1. c \in ToSet(s.clients[s.selmon])
    BY <1>1, <1>3, <1>5 DEF ListInv, Linked
  <2>2. c \in Client /\ s.mon[c] = s.selmon
    BY <1>1, <2>1, InOfMonitor
  <2> HIDE DEF c
  <2>3. /\ Focus(s, NULL).selmon = s.mon[c]
        /\ Focus(s, NULL).stack =
             [s.stack EXCEPT ![s.mon[c]] = <<c>> \o RemoveFirst(@, c)]
    BY <1>1, <2>2, FocusFields DEF c
  <2>4. s.stack \in [Mon -> Seq(Client)]
    BY <1>1 DEF State
  <2> QED BY <1>1, <2>2, <2>3, <2>4
<1> QED BY <1>4, <1>5

LEMMA RefreshGood ==
  ASSUME NEW s, Ready(s, s.selmon)
  PROVE  /\ Good(Refresh(s)) /\ Reordered(s, Refresh(s))
         /\ SameTags(s, Refresh(s)) /\ Refresh(s).selmon = s.selmon
<1> DEFINE t == Focus(s, NULL)
           u == Arrange(t, t.selmon)
<1>1. ListInv(s) /\ s \in State
  BY DEF Ready, ListInv
<1>2. t.selmon = s.selmon
  BY <1>1, FocusNullStays
<1>3. Ready(t, t.selmon)
  BY <1>2, FocusGood
<1>4. Reordered(s, t) /\ SameTags(s, t) /\ Settled(t)
  BY <1>1, FocusInv, FocusLeaves, FocusSettles
     DEF SameTags, Untouched, ClientOrNull
<1>5. u.selmon = t.selmon
  BY <1>4, ArrangeFields DEF Arrange, Settled
<1> HIDE DEF t
<1>6. Whole(u) /\ Reordered(t, u) /\ SameTags(t, u) /\ Settled(u)
  BY <1>3, <1>4, ArrangeWhole, ArrangeSettled
<1>7. Good(u) /\ Reordered(s, u) /\ SameTags(s, u)
  BY <1>4, <1>6, ReorderedTwice DEF Good, SameTags
<1> QED BY <1>2, <1>5, <1>7 DEF Refresh, t

-----------------------------------------------------------------------------
(* Views and tags                                                          *)

\* What the clients are drawn as.
SameDrawing(s, t) ==
  /\ t.isfloating = s.isfloating /\ t.isfullscreen = s.isfullscreen
  /\ t.shown = s.shown

\* The selected monitor is given another view.
NewView(s, t) ==
  /\ t \in State /\ SameLists(s, t) /\ SameDrawing(s, t) /\ t.tags = s.tags
  /\ \A m \in Mon \ {s.selmon} : ViewOf(t, m) = ViewOf(s, m)
  /\ \A m \in Mon, k \in Slot : t.tagset[m][k] # {}

LEMMA NewViewReady ==
  ASSUME NEW s, Good(s), NEW t, NewView(s, t)
  PROVE  /\ Ready(t, t.selmon) /\ Reordered(s, t) /\ OnlySelf(s, t)
         /\ t.selmon = s.selmon
<1>1. ListInv(s) /\ Proper(s) /\ Whole(s)
  BY GoodFacts
<1>2. ListInv(t) /\ Reordered(s, t) /\ t.selmon = s.selmon /\ t.mon = s.mon
  BY <1>1, ReorderedSame DEF NewView, Reordered, SameLists
<1>3. \A c : In(t, c) <=> In(s, c)
  BY <1>1, <1>2, ReorderedSameIn
<1>4. Proper(t)
  BY <1>1, <1>3 DEF Proper, NewView, SameDrawing
<1>5. ASSUME NEW c, In(t, c), t.mon[c] # t.selmon
      PROVE  OnScreen(t, c)
  <2>1. In(s, c) /\ OnScreen(s, c) /\ s.mon[c] \in Mon \ {s.selmon}
    BY <1>1, <1>2, <1>3, <1>5, InFacts DEF Whole
  <2>2. Visible(t, c) = Visible(s, c)
    BY <1>2, <2>1 DEF Visible, NewView
  <2> QED BY <2>1, <2>2 DEF OnScreen, NewView, SameDrawing
<1>6. OnlySelf(s, t)
  BY DEF OnlySelf, NewView
<1> QED BY <1>2, <1>4, <1>5, <1>6 DEF Ready

\* The tail of view() and its like.
LEMMA RefreshSteady ==
  ASSUME NEW s, NEW t, Ready(t, t.selmon), Reordered(s, t), OnlySelf(s, t)
  PROVE  Steady(s, Refresh(t))
BY RefreshGood, ReorderedTwice, OnlySelfThen DEF Steady

LEMMA ViewSteady ==
  ASSUME NEW s, Good(s), NEW ui \in SUBSET Tag
  PROVE  Steady(s, View(s, ui)) /\ Steady(s, ToggleView(s, ui))
<1> DEFINE m == s.selmon
           k == s.seltags[m]
           l == 1 - k
           new == IF ui = {} THEN s.tagset[m][l] ELSE ui
           sym == SymDiff(ViewOf(s, m), ui)
           t == [s EXCEPT !.seltags[m] = l, !.tagset[m][l] = new]
           u == [s EXCEPT !.tagset[m][k] = sym]
<1>1. /\ s \in State /\ m \in Mon /\ k \in Slot /\ l \in Slot
      /\ sym \in SUBSET Tag
      /\ s.tagset \in [Mon -> [Slot -> SUBSET Tag]]
      /\ s.seltags \in [Mon -> Slot]
  <2>1. s \in State
    BY GoodFacts
  <2> QED BY <2>1, StateFields, SymDiffType DEF State
<1>2. new \in SUBSET Tag /\ new # {}
  BY <1>1, GoodFacts DEF Proper
<1> HIDE DEF m, k, l, new, sym
<1>3. t \in State /\ u \in State
  BY <1>1, <1>2, SetViewType
<1>4. /\ SameLists(s, t) /\ SameDrawing(s, t) /\ t.tags = s.tags
      /\ t.seltags = [s.seltags EXCEPT ![m] = l]
      /\ t.tagset = [s.tagset EXCEPT ![m][l] = new]
  BY <1>1 DEF SameLists, SameDrawing, State
<1>5. /\ SameLists(s, u) /\ SameDrawing(s, u) /\ u.tags = s.tags
      /\ u.seltags = s.seltags
      /\ u.tagset = [s.tagset EXCEPT ![m][k] = sym]
  BY <1>1 DEF SameLists, SameDrawing, State
<1> HIDE DEF t, u
<1>6. \A i \in Mon, j \in Slot : s.tagset[i][j] # {}
  BY GoodFacts DEF Proper
<1>7. NewView(s, t)
  <2>1. \A i \in Mon \ {m} : ViewOf(t, i) = ViewOf(s, i)
    BY <1>1, <1>4 DEF ViewOf
  <2>2. \A i \in Mon, j \in Slot : t.tagset[i][j] # {}
    BY <1>1, <1>2, <1>4, <1>6
  <2> QED BY <1>3, <1>4, <2>1, <2>2 DEF NewView, m
<1>8. sym # {} => NewView(s, u)
  <2>1. \A i \in Mon \ {m} : ViewOf(u, i) = ViewOf(s, i)
    BY <1>1, <1>5 DEF ViewOf
  <2>2. sym # {} => \A i \in Mon, j \in Slot : u.tagset[i][j] # {}
    BY <1>1, <1>5, <1>6
  <2> QED BY <1>3, <1>5, <2>1, <2>2 DEF NewView, m
<1>9. Steady(s, Refresh(t)) /\ (sym # {} => Steady(s, Refresh(u)))
  BY <1>7, <1>8, NewViewReady, RefreshSteady
<1>10. View(s, ui) = s \/ View(s, ui) = Refresh(t)
  BY DEF View, m, k, l, new, t
<1>11. ToggleView(s, ui) = s \/ (sym # {} /\ ToggleView(s, ui) = Refresh(u))
  BY DEF ToggleView, m, k, sym, u
<1> QED BY <1>9, <1>10, <1>11, SteadySelf

\* pop() of a client of the monitor that has yet to be arranged.
LEMMA PopGood ==
  ASSUME NEW s, NEW c, In(s, c), Ready(s, s.mon[c])
  PROVE  Good(Pop(s, c)) /\ Reordered(s, Pop(s, c)) /\ SameTags(s, Pop(s, c))
<1> DEFINE d == Detach(s, c)
           a == Attach(d, c)
           f == Focus(a, c)
           m == s.mon[c]
<1>1. ListInv(s) /\ s \in State /\ c \in Client
  BY DEF Ready, ListInv, In
<1>2. d \in State /\ a \in State /\ Reordered(s, a)
  BY <1>1, DetachType, AttachType, ToFrontInv
<1>3. Untouched(s, a)
  BY <1>1, <1>2, LinksUntouched, UntouchedTwice
<1> HIDE DEF d, a
<1>4. Ready(a, m) /\ In(a, c)
  BY <1>1, <1>2, <1>3, UntouchedReady, ReorderedIn
<1>5. Ready(f, m) /\ Reordered(a, f) /\ Settled(f) /\ Untouched(a, f)
  BY <1>1, <1>2, <1>4, FocusGood, FocusInv, FocusSettles, FocusLeaves
     DEF Ready, ClientOrNull
<1> HIDE DEF f
<1>6. f.mon[c] = m
  BY <1>2, <1>5 DEF Reordered, SamePlaces
<1>7. /\ Whole(Arrange(f, m)) /\ Reordered(f, Arrange(f, m))
      /\ SameTags(f, Arrange(f, m)) /\ Settled(Arrange(f, m))
  BY <1>5, ArrangeWhole, ArrangeSettled
<1>8. /\ Good(Arrange(f, m)) /\ Reordered(s, Arrange(f, m))
      /\ SameTags(s, Arrange(f, m))
  BY <1>2, <1>3, <1>5, <1>7, ReorderedTwice DEF Good, SameTags, Untouched
<1>9. Pop(s, c) = Arrange(f, m)
  BY <1>6 DEF Pop, f, a, d
<1> QED BY <1>8, <1>9

\* The selected monitor sees another view of what it had.
LEMMA NewViewTwice ==
  ASSUME NEW s, NEW t, NEW u, NewView(s, t), NewView(t, u)
  PROVE  NewView(s, u)
BY DEF NewView, SameLists, SameDrawing

LEMMA RememberTagView ==
  ASSUME NEW s, Good(s)
  PROVE  NewView(s, RememberTag(s))
<1> DEFINE r == RememberTag(s)
           Fields == {"tags", "tagset", "seltags", "isfloating",
                      "isfullscreen", "shown", "clients", "stack", "mon",
                      "sel", "selmon", "nmon", "lost"}
<1>1. s \in State /\ Fields \subseteq DOMAIN s /\ r \in State
  BY GoodFacts, StateDomain, RememberTagType
<1>2. \A f \in Fields : r[f] = s[f]
  BY <1>1, ZenonT(60) DEF RememberTag
<1>3. \A i \in Mon, j \in Slot : s.tagset[i][j] # {}
  BY GoodFacts DEF Proper
<1> HIDE DEF r
<1>4. NewView(s, r)
  BY <1>1, <1>2, <1>3 DEF NewView, SameLists, SameDrawing, ViewOf
<1> QED BY <1>4 DEF r

LEMMA SelectTagView ==
  ASSUME NEW s \in State, NEW t \in Tag,
         \A m \in Mon, k \in Slot : s.tagset[m][k] # {}
  PROVE  NewView(s, SelectTag(s, t))
<1> DEFINE m == s.selmon
           k == 1 - s.seltags[m]
           again == s.createtag[m][s.seltags[m]] = t
           view == {t} \cup (IF again THEN {} ELSE s.remtagset[m][t])
           zoomed == IF again THEN s.zoomed[m][k] ELSE s.remzoomed[m][t]
           u == [s EXCEPT !.seltags[m] = k, !.combo = TRUE,
                          !.tagset[m][k] = view, !.zoomed[m][k] = zoomed,
                          !.createtag[m][k] = t]
<1>1. /\ m \in Mon /\ k \in Slot /\ view # {}
      /\ s.tagset \in [Mon -> [Slot -> SUBSET Tag]]
      /\ s.seltags \in [Mon -> Slot]
  BY StateFields DEF State
<1>2. SelectTag(s, t) = u
  BY DEF SelectTag
<1>3. u \in State
  BY <1>2, SelectTagType
<1> HIDE DEF m, k, view, zoomed
<1>4. /\ SameLists(s, u) /\ SameDrawing(s, u) /\ u.tags = s.tags
      /\ u.seltags = [s.seltags EXCEPT ![m] = k]
      /\ u.tagset = [s.tagset EXCEPT ![m][k] = view]
  BY DEF SameLists, SameDrawing, State
<1> HIDE DEF u
<1>5. \A i \in Mon \ {m} : ViewOf(u, i) = ViewOf(s, i)
  BY <1>1, <1>4 DEF ViewOf
<1>6. \A i \in Mon, j \in Slot : u.tagset[i][j] # {}
  BY <1>1, <1>4
<1> QED BY <1>2, <1>3, <1>4, <1>5, <1>6 DEF NewView, m

LEMMA ComboViewSteady ==
  ASSUME NEW s, Good(s), NEW t \in Tag
  PROVE  Steady(s, ComboView(s, t))
<1> DEFINE m == s.selmon
           k == s.seltags[m]
           r == RememberTag(s)
           selected == SelectTag(r, t)
           zoomed == selected.zoomed[m][selected.seltags[m]]
           view == r.tagset[m][k] \cup {t}
           added == [r EXCEPT !.tagset[m][k] = view]
           popped == Pop(selected, zoomed)
<1>1. s \in State /\ m \in Mon /\ k \in Slot /\ ListInv(s)
  BY GoodFacts, StateFields
<1>2. NewView(s, r)
  BY RememberTagView
<1>3. NewView(r, selected)
  BY <1>2, SelectTagView DEF NewView
<1>4. NewView(s, selected)
  BY <1>2, <1>3, NewViewTwice
<1>5. NewView(s, added)
  <2>1. r \in State /\ r.tagset \in [Mon -> [Slot -> SUBSET Tag]]
    BY <1>2 DEF NewView, State
  <2> HIDE DEF r, m, k
  <2>2. view \in SUBSET Tag /\ view # {}
    <3>1. r.tagset[m][k] \in SUBSET Tag
      BY <1>1, <2>1
    <3> QED BY <3>1
  <2> HIDE DEF view
  <2>3. added \in State
    BY <1>1, <2>1, <2>2, SetViewType
  <2>4. /\ SameLists(r, added) /\ SameDrawing(r, added) /\ added.tags = r.tags
        /\ added.seltags = r.seltags
        /\ added.tagset = [r.tagset EXCEPT ![m][k] = view]
    BY <2>1 DEF SameLists, SameDrawing, State
  <2> HIDE DEF added
  <2>5. \A i \in Mon \ {m} : ViewOf(added, i) = ViewOf(r, i)
    BY <1>1, <2>1, <2>4 DEF ViewOf
  <2>6. \A i \in Mon, j \in Slot : added.tagset[i][j] # {}
    BY <1>1, <1>2, <2>1, <2>2, <2>4 DEF NewView
  <2>7. r.selmon = m
    BY <1>2 DEF NewView, SameLists, m
  <2>8. NewView(r, added)
    BY <2>3, <2>4, <2>5, <2>6, <2>7 DEF NewView
  <2> QED BY <1>2, <2>8, NewViewTwice
<1> HIDE DEF r, selected, m, k
<1>6. Steady(s, Refresh(added)) /\ Steady(s, Refresh(selected))
  BY <1>4, <1>5, NewViewReady, RefreshSteady
<1>7. ASSUME Contains(s.clients[m], zoomed)
      PROVE  Steady(s, Refresh(popped))
  <2>1. zoomed \in ToSet(s.clients[m])
    BY <1>1, <1>7, LenProperties DEF Contains, ToSet, State
  <2>2. In(s, zoomed) /\ s.mon[zoomed] = m
    BY <1>1, <2>1, InOfMonitor
  <2> HIDE DEF zoomed
  <2>3. /\ Ready(selected, m) /\ Reordered(s, selected)
        /\ OnlySelf(s, selected) /\ selected.mon[zoomed] = m
    BY <1>4, <2>2, NewViewReady DEF Reordered, SamePlaces, m
  <2>4. In(selected, zoomed)
    BY <1>1, <2>2, <2>3, ReorderedIn
  <2>5. Good(popped) /\ Reordered(selected, popped) /\ SameTags(selected, popped)
    BY <2>3, <2>4, PopGood
  <2> HIDE DEF popped
  <2> QED BY <2>3, <2>5, GoodFacts, ReorderedTwice, OnlySelfThen, RefreshSteady
<1>8. \/ ComboView(s, t) = Refresh(added)
      \/ ComboView(s, t) = Refresh(selected)
      \/ /\ Contains(s.clients[m], zoomed)
         /\ ComboView(s, t) = Refresh(popped)
  BY DEF ComboView, m, k, r, selected, view, added
<1> QED BY <1>6, <1>7, <1>8

\* The selected client is given other tags.
LEMMA SelTagsReady ==
  ASSUME NEW s, Good(s), SelOf(s) # NULL, NEW t \in State, SameLists(s, t),
         SameDrawing(s, t), t.tagset = s.tagset, t.seltags = s.seltags,
         NEW new, new # {}, t.tags = [s.tags EXCEPT ![SelOf(s)] = new]
  PROVE  Steady(s, Refresh(t))
<1>1. ListInv(s) /\ Proper(s) /\ Whole(s)
  BY GoodFacts
<1>2. /\ In(s, SelOf(s)) /\ s.mon[SelOf(s)] = s.selmon
      /\ SelOf(s) \in Client /\ s.tags \in [Client -> SUBSET Tag]
  BY <1>1, SelmonFacts DEF SelOf, State
<1>3. ListInv(t) /\ Reordered(s, t) /\ t.selmon = s.selmon /\ t.mon = s.mon
  BY <1>1, ReorderedSame DEF Reordered, SameLists
<1>4. \A c : In(t, c) <=> In(s, c)
  BY <1>1, <1>3, ReorderedSameIn
<1>5. t.tags[SelOf(s)] = new
      /\ \A c \in Client : c # SelOf(s) => t.tags[c] = s.tags[c]
  BY <1>2
<1>6. Proper(t)
  BY <1>1, <1>4, <1>5 DEF Proper, SameDrawing, In
<1>7. ASSUME NEW c, In(t, c), t.mon[c] # t.selmon
      PROVE  OnScreen(t, c)
  <2>1. In(s, c) /\ OnScreen(s, c) /\ c # SelOf(s) /\ c \in Client
    BY <1>1, <1>2, <1>3, <1>4, <1>7 DEF Whole, In
  <2>2. Visible(t, c) = Visible(s, c)
    BY <1>3, <1>5, <2>1 DEF Visible, ViewOf
  <2> QED BY <2>1, <2>2 DEF OnScreen, SameDrawing
<1>8. OnlySelf(s, t)
  BY <1>5 DEF OnlySelf, ViewOf
<1> QED BY <1>3, <1>6, <1>7, <1>8, RefreshSteady DEF Ready

LEMMA TagsSteady ==
  ASSUME NEW s, Good(s), NEW ui \in SUBSET Tag
  PROVE  /\ Steady(s, ComboTag(s, ui)) /\ Steady(s, TagSel(s, ui))
         /\ Steady(s, ToggleTag(s, ui))
<1> DEFINE c == s.sel[s.selmon]
           new == IF s.combo THEN s.tags[c] \cup ui ELSE ui
           sym == SymDiff(s.tags[c], ui)
           t == [s EXCEPT !.combo = TRUE, !.tags[c] = new]
           u == [s EXCEPT !.tags[c] = ui]
           v == [s EXCEPT !.tags[c] = sym]
<1>1. s \in State
  BY GoodFacts
<1>2. ASSUME c # NULL
      PROVE  /\ ui # {} => Steady(s, Refresh(t)) /\ Steady(s, Refresh(u))
             /\ sym # {} => Steady(s, Refresh(v))
  <2>1. c \in Client /\ c = SelOf(s)
    BY <1>1, <1>2, StateFields DEF ClientOrNull, SelOf
  <2>2. new \in SUBSET Tag /\ sym \in SUBSET Tag /\ (ui # {} => new # {})
    BY <1>1, <2>1, StateFields, SymDiffType
  <2> HIDE DEF c, new, sym
  <2>3. t \in State /\ u \in State /\ v \in State
    BY <1>1, <2>1, <2>2, SetComboTagsType, SetTagsType
  <2>4. /\ SameLists(s, t) /\ SameDrawing(s, t) /\ t.tagset = s.tagset
        /\ t.seltags = s.seltags /\ t.tags = [s.tags EXCEPT ![c] = new]
    BY <1>1 DEF SameLists, SameDrawing, State
  <2>5. /\ SameLists(s, u) /\ SameDrawing(s, u) /\ u.tagset = s.tagset
        /\ u.seltags = s.seltags /\ u.tags = [s.tags EXCEPT ![c] = ui]
    BY <1>1 DEF SameLists, SameDrawing, State
  <2>6. /\ SameLists(s, v) /\ SameDrawing(s, v) /\ v.tagset = s.tagset
        /\ v.seltags = s.seltags /\ v.tags = [s.tags EXCEPT ![c] = sym]
    BY <1>1 DEF SameLists, SameDrawing, State
  <2> HIDE DEF t, u, v
  <2>7. SelOf(s) # NULL
    BY <1>2, <2>1
  <2> QED BY <2>1, <2>2, <2>3, <2>4, <2>5, <2>6, <2>7, SelTagsReady
<1>3. \/ ComboTag(s, ui) = s
      \/ c # NULL /\ ui # {} /\ ComboTag(s, ui) = Refresh(t)
  BY DEF ComboTag
<1>4. \/ TagSel(s, ui) = s
      \/ c # NULL /\ ui # {} /\ TagSel(s, ui) = Refresh(u)
  BY DEF TagSel
<1>5. \/ ToggleTag(s, ui) = s
      \/ c # NULL /\ sym # {} /\ ToggleTag(s, ui) = Refresh(v)
  BY DEF ToggleTag
<1> HIDE DEF c, new, sym, t, u, v
<1> QED BY <1>2, <1>3, <1>4, <1>5, SteadySelf

-----------------------------------------------------------------------------
(* Moving the focus and reordering the list                                *)

\* A change of fields, or of a list that keeps its clients, then focus(), and
\* arrange() where the command calls it.
LEMMA RelinkCalm ==
  ASSUME NEW s, Good(s), NEW t \in State, Untouched(s, t),
         NEW c \in ClientOrNull
  PROVE  /\ Reordered(s, Focus(t, c)) => Calm(s, Focus(t, c))
         /\ \A m : /\ Settled(Arrange(Focus(t, c), m))
                   /\ SameTags(s, Arrange(Focus(t, c), m))
                   /\ Reordered(s, Arrange(Focus(t, c), m)) =>
                        Calm(s, Arrange(Focus(t, c), m))
<1> DEFINE f == Focus(t, c)
<1>1. f \in State /\ Untouched(t, f) /\ Settled(f)
  BY FocusType, FocusLeaves, FocusSettles
<1> HIDE DEF f
<1>2. Untouched(s, f)
  BY <1>1, UntouchedTwice
<1>3. ListInv(s) /\ Whole(s) /\ Proper(s)
  BY GoodFacts
<1>4. Reordered(s, f) => Calm(s, f)
  BY <1>1, <1>2, <1>3, UntouchedReady DEF Calm, Good, SameTags, Untouched
<1>5. ASSUME NEW m
      PROVE  /\ Settled(Arrange(f, m)) /\ SameTags(s, Arrange(f, m))
             /\ Reordered(s, Arrange(f, m)) => Calm(s, Arrange(f, m))
  <2> DEFINE a == Arrange(f, m)
  <2>1. Settled(a)
    BY <1>1, ArrangeSettled
  <2>2. /\ a.tags = f.tags /\ a.tagset = f.tagset /\ a.seltags = f.seltags
        /\ a.isfloating = f.isfloating /\ a.isfullscreen = f.isfullscreen
        /\ a.mon = f.mon
        /\ a.shown = [d \in Client |->
                        IF \E i \in {m} : Contains(f.stack[i], d)
                        THEN Visible(f, d) ELSE f.shown[d]]
    BY <1>1, ArrangeFields DEF Arrange
  <2> HIDE DEF a
  <2>3. SameTags(s, a)
    BY <1>2, <2>2 DEF SameTags, Untouched
  <2>4. ASSUME Reordered(s, a)
        PROVE  Calm(s, a)
    <3>1. \A d : In(a, d) <=> In(s, d)
      BY <1>3, <2>4, ReorderedSameIn
    <3>2. Proper(a)
      BY <1>2, <1>3, <2>2, <3>1 DEF Proper, Untouched
    <3>3. SameView(s, a) /\ SameView(f, a)
      BY <1>2, <2>2, <2>4 DEF SameView, Untouched, Reordered, SamePlaces
    <3>4. ASSUME NEW d, In(a, d)
          PROVE  OnScreen(a, d)
      <4>1. In(s, d) /\ OnScreen(s, d) /\ d \in Client
        BY <1>3, <3>1, <3>4 DEF Whole, In
      <4>2. Visible(a, d) = Visible(s, d) /\ Visible(a, d) = Visible(f, d)
        BY <3>3, SameVisible
      <4>3. a.shown[d] = Visible(f, d) \/ a.shown[d] = s.shown[d]
        BY <1>2, <2>2, <4>1 DEF Untouched
      <4> QED BY <1>2, <2>2, <4>1, <4>2, <4>3, VisibleType
              DEF OnScreen, Untouched
    <3> QED BY <2>1, <2>3, <2>4, <3>2, <3>4 DEF Calm, Good, Whole, Reordered
  <2> QED BY <2>1, <2>3, <2>4 DEF a
<1> QED BY <1>4, <1>5 DEF f

LEMMA FocusStackCalm ==
  ASSUME NEW s, Good(s), NEW dir
  PROVE  Calm(s, FocusStack(s, dir))
<1> DEFINE q == s.clients[s.selmon]
<1>1. s \in State /\ ListInv(s) /\ Untouched(s, s) /\ q \in Seq(Client)
  BY GoodFacts, StateFields DEF Untouched
<1>2. Reordered(s, FocusStack(s, dir))
  BY <1>1, FocusStackInv
<1>3. FocusStack(s, dir) = s
      \/ \E i \in 1 .. Len(q) : FocusStack(s, dir) = Focus(s, q[i])
  BY <1>1, FocusStackStep
<1>4. \A i \in 1 .. Len(q) : q[i] \in ClientOrNull
  BY <1>1, ElementOfSeq, LenProperties DEF ClientOrNull
<1> QED BY <1>1, <1>2, <1>3, <1>4, RelinkCalm, SteadySelf

\* pop(), whether or not it changes the list.
LEMMA PopCalm ==
  ASSUME NEW s, Good(s), NEW c \in Client, Reordered(s, Pop(s, c))
  PROVE  Calm(s, Pop(s, c))
<1> DEFINE d == Detach(s, c)
           a == Attach(d, c)
<1>1. s \in State
  BY GoodFacts
<1>2. d \in State /\ a \in State
  BY <1>1, DetachType, AttachType
<1>3. Untouched(s, a)
  BY <1>1, <1>2, LinksUntouched, UntouchedTwice
<1>4. Pop(s, c) = Arrange(Focus(a, c), Focus(a, c).mon[c])
  BY DEF Pop
<1> HIDE DEF a
<1> QED BY <1>2, <1>3, <1>4, RelinkCalm DEF ClientOrNull

LEMMA ZoomCalm ==
  ASSUME NEW s, Good(s)
  PROVE  Calm(s, Zoom(s))
<1> DEFINE m == s.selmon
           q == s.clients[m]
           c == s.sel[m]
           first == NextTiled(s, q, 1)
           second == IF first = 0 THEN 0 ELSE NextTiled(s, q, first + 1)
           to == IF c = At(q, first) THEN At(q, second) ELSE c
<1>1. /\ s \in State /\ ListInv(s) /\ q \in Seq(Client) /\ Len(q) \in Nat
      /\ c \in ClientOrNull
  BY GoodFacts, StateFields, LenProperties
<1>2. first \in 0 .. Len(q)
  <2> HIDE DEF q
  <2> QED BY <1>1, NextTiledRange
<1>3. second \in 0 .. Len(q)
  <2> HIDE DEF q, first
  <2>1. first # 0 => first + 1 \in 1 .. Len(q) + 1
    BY <1>1, <1>2
  <2> QED BY <1>1, <1>2, <2>1, NextTiledRange DEF first
<1> HIDE DEF first, second, q, c
<1>4. to \in ClientOrNull
  BY <1>1, <1>3, AtType
<1>5. Zoom(s) = s \/ (to # NULL /\ Zoom(s) = Pop(s, to))
  BY DEF Zoom, m, q, c, first, second, to
<1>6. Reordered(s, Zoom(s))
  BY <1>1, ZoomInv
<1> HIDE DEF to
<1> QED BY <1>4, <1>5, <1>6, PopCalm, SteadySelf DEF ClientOrNull

\* Replacing a list leaves alone what focus() and arrange() look at.
LEMMA NewListUntouched ==
  ASSUME NEW s \in State, NEW m, NEW q, NEW lost
  PROVE  /\ Untouched(s, [s EXCEPT !.clients[m] = q])
         /\ Untouched(s, [s EXCEPT !.clients[m] = q, !.lost = lost])
<1>1. {"tags", "tagset", "seltags", "isfloating", "isfullscreen", "oldstate",
       "shown"} \subseteq DOMAIN s
  BY StateDomain
<1>2. Untouched(s, [s EXCEPT !.clients[m] = q])
  BY <1>1, ZenonT(60) DEF Untouched
<1>3. Untouched(s, [s EXCEPT !.clients[m] = q, !.lost = lost])
  BY <1>1, ZenonT(60) DEF Untouched
<1> QED BY <1>2, <1>3

LEMMA PushDownCalm ==
  ASSUME NEW s, Good(s)
  PROVE  Calm(s, PushDown(s))
<1> DEFINE m == s.selmon
           c == s.sel[m]
           q == s.clients[m]
           i == IndexOf(q, c)
           next == NextTiled(s, q, i + 1)
           linked == [s EXCEPT !.clients[m] = InsertAt(RemoveAt(q, i), next, c)]
           moved == IF next # 0 THEN linked ELSE Attach(Detach(s, c), c)
<1>1. /\ s \in State /\ ListInv(s) /\ m \in Mon /\ q \in Seq(Client)
      /\ Len(q) \in Nat /\ c \in ClientOrNull
  BY GoodFacts, StateFields, LenProperties
<1>2. i \in 0 .. Len(q)
  BY <1>1, IndexOfRange
<1>3. next \in {0} \cup (i + 1) .. Len(q)
  <2>1. i + 1 \in 1 .. Len(q) + 1
    BY <1>1, <1>2
  <2> QED BY <1>1, <2>1, NextTiledRange
<1>4. \/ PushDown(s) = s
      \/ c # NULL /\ PushDown(s) = Arrange(Focus(moved, c), m)
  BY DEF PushDown
<1> HIDE DEF m, c, q, i, next
<1>5. RemoveAt(q, i) \in Seq(Client) /\ Len(RemoveAt(q, i)) >= Len(q) - 1
  BY <1>1, <1>2, RemoveAtType
<1>6. ASSUME c # NULL
      PROVE  moved \in State /\ Untouched(s, moved)
  <2>1. c \in Client
    BY <1>1, <1>6 DEF ClientOrNull
  <2>2. ASSUME next # 0
        PROVE  linked \in State /\ Untouched(s, linked)
    <3>1. next \in 1 .. Len(RemoveAt(q, i)) + 1
      BY <1>1, <1>2, <1>3, <1>5, <2>2, LenProperties
    <3>2. InsertAt(RemoveAt(q, i), next, c) \in Seq(Client)
      BY <1>5, <2>1, <3>1, InsertAtType
    <3>3. linked \in State
      BY <1>1, <3>2, SetClientsType
    <3> QED BY <1>1, <3>3, NewListUntouched
  <2>3. Attach(Detach(s, c), c) \in State
    BY <1>1, <2>1, DetachType, AttachType
  <2>4. Untouched(s, Attach(Detach(s, c), c))
    BY <1>1, <2>1, DetachType, LinksUntouched, UntouchedTwice
  <2> QED BY <2>2, <2>3, <2>4
<1> HIDE DEF moved
<1>7. Reordered(s, PushDown(s))
  BY <1>1, PushDownInv
<1> QED BY <1>1, <1>4, <1>6, <1>7, RelinkCalm, SteadySelf

\* What is left once pushup() has lost a client.
Ended(s) ==
  /\ Settled(s)
  /\ \A m \in Mon, k \in Slot : s.tagset[m][k] # {}
  /\ \A c \in Client : s.isfullscreen[c] => s.isfloating[c]
  /\ \A m \in Mon : \A c \in ToSet(s.clients[m]) : s.tags[c] # {}

LEMMA ArrangeClients ==
  ASSUME NEW s \in State, \A i \in Mon : List(s.clients[i]), NEW m
  PROVE  \A i \in Mon : ToSet(Arrange(s, m).clients[i]) = ToSet(s.clients[i])
<1> DEFINE h == ShowHide(s, {m})
<1>1. h \in State /\ h.clients = s.clients
  BY ShowHideType, StateDomain, ZenonT(60) DEF ShowHide
<1> HIDE DEF h
<1>2. ArrangeMon(h, {m}).clients =
        [i \in Mon |-> IF i \in {m} /\ h.lt[i][h.sellt[i]] = "varcol"
                       THEN VarCol(h, i) ELSE h.clients[i]]
  BY <1>1 DEF ArrangeMon, State
<1>3. \A i \in Mon : ToSet(VarCol(h, i)) = ToSet(s.clients[i])
  BY <1>1, VarColList
<1> QED BY <1>1, <1>2, <1>3 DEF Arrange, h

LEMMA PushUpEnds ==
  ASSUME NEW s, Good(s), ~s.lost
  PROVE  /\ ~PushUp(s).lost => Calm(s, PushUp(s))
         /\ PushUp(s).lost => Ended(PushUp(s)) /\ SameTags(s, PushUp(s))
<1> DEFINE m == s.selmon
           c == s.sel[m]
           q == s.clients[m]
           i == IndexOf(q, c)
           J == {j \in 1 .. i - 1 : Tiled(s, q[j])}
           prev == IF J # {} THEN Max(J) ELSE 0
           rest == RemoveAt(q, i)
           new == IF prev # 0 THEN InsertAt(rest, prev, c)
                  ELSE IF i = Len(q) THEN rest ELSE Append(rest, c)
           lost == s.lost \/ (prev = 0 /\ i = Len(q))
           t == [s EXCEPT !.clients[m] = new, !.lost = lost]
           a == Arrange(Focus(t, c), m)
<1>1. /\ s \in State /\ ListInv(s) /\ Proper(s) /\ m \in Mon
      /\ q \in Seq(Client) /\ List(q) /\ Len(q) \in Nat /\ c \in ClientOrNull
  BY GoodFacts, SelmonFacts, StateFields, LenProperties
<1>2. PushUp(s) = IF c = NULL \/ s.isfloating[c] THEN s ELSE a
  BY DEF PushUp, SelectLastInSubSeq
<1>3. CASE c = NULL \/ s.isfloating[c]
  BY <1>2, <1>3, SteadySelf
<1>4. CASE ~(c = NULL \/ s.isfloating[c])
  <2>1. c \in Client
    BY <1>1, <1>4 DEF ClientOrNull
  <2>2. i \in 1 .. Len(q)
    BY <1>1, <1>4, SelIndex
  <2> HIDE DEF m, c, q, i
  <2>3. prev \in 0 .. Len(q) /\ (prev # 0 => prev <= i - 1)
    <3>1. /\ J \in SUBSET (0 .. Len(q))
          /\ \A j \in J : j \in 0 .. Len(q) /\ j <= i - 1
      BY <1>1, <2>2
    <3> HIDE DEF J
    <3>2. CASE J # {}
      <4>1. prev = Max(J) /\ Max(J) \in J
        BY <1>1, <3>1, <3>2, MaxNat
      <4> HIDE DEF prev
      <4> QED BY <3>1, <4>1
    <3>3. CASE J = {}
      BY <1>1, <3>3
    <3> QED BY <3>2, <3>3
  <2> HIDE DEF J
  <2>4. /\ rest \in Seq(Client) /\ Len(rest) = Len(q) - 1 /\ List(rest)
        /\ ToSet(rest) \subseteq ToSet(q)
    <3>1. i \in 0 .. Len(q) /\ i # 0
      BY <2>2
    <3> QED BY <1>1, <2>2, <3>1, RemoveAtType, RemoveAtList
  <2> HIDE DEF prev, rest
  <2>5. new \in Seq(Client)
    <3>1. prev # 0 => prev \in 1 .. Len(rest) + 1
      BY <1>1, <2>2, <2>3, <2>4
    <3>2. prev # 0 => InsertAt(rest, prev, c) \in Seq(Client)
      BY <2>1, <2>4, <3>1, InsertAtType
    <3> QED BY <2>1, <2>4, <3>2, AppendProperties
  <2>6. lost \in BOOLEAN /\ (lost => new = rest)
    BY <1>1 DEF State
  <2> HIDE DEF new, lost
  <2>7. t \in State /\ Untouched(s, t)
    BY <1>1, <2>5, <2>6, SetLostType, NewListUntouched
  <2>8. t.clients = [s.clients EXCEPT ![m] = new] /\ t.lost = lost
    BY <1>1 DEF State
  <2> HIDE DEF t
  <2>9. /\ Settled(a) /\ SameTags(s, a) /\ (Reordered(s, a) => Calm(s, a))
        /\ a.lost = lost
    BY <1>1, <2>1, <2>7, <2>8, RelinkCalm, LostStays
  <2>10. ASSUME lost
         PROVE  Ended(a)
    <3> DEFINE f == Focus(t, c)
    <3>1. f \in State /\ Untouched(t, f) /\ f.clients = t.clients
      BY <1>1, <2>7, FocusType, FocusLeaves
    <3>2. f.clients = [s.clients EXCEPT ![m] = rest]
      BY <2>6, <2>8, <2>10, <3>1
    <3> HIDE DEF f
    <3>3. s.clients \in [Mon -> Seq(Client)]
      BY <1>1 DEF State
    <3>4. \A k \in Mon : /\ List(f.clients[k])
                         /\ ToSet(f.clients[k]) \subseteq ToSet(s.clients[k])
      BY <1>1, <2>4, <3>2, <3>3 DEF q, ListInv, Linked
    <3>5. \A k \in Mon : ToSet(Arrange(f, m).clients[k]) = ToSet(f.clients[k])
      BY <3>1, <3>4, ArrangeClients
    <3>6. \A k \in Mon : \A d \in ToSet(a.clients[k]) : s.tags[d] # {}
      BY <1>1, <3>4, <3>5, InOfMonitor DEF f, Proper
    <3>7. a.isfullscreen = s.isfullscreen /\ a.isfloating = s.isfloating
      <4>1. /\ Arrange(f, m).isfullscreen = f.isfullscreen
            /\ Arrange(f, m).isfloating = f.isfloating
        BY <3>1, ArrangeFields DEF Arrange
      <4> QED BY <2>7, <3>1, <4>1 DEF Untouched, f
    <3> QED BY <1>1, <2>9, <3>6, <3>7 DEF Ended, SameTags, Proper
  <2> HIDE DEF a
  <2>11. ~lost => Reordered(s, PushUp(s))
    BY <1>1, <1>2, <1>4, <2>9, PushUpInv DEF c
  <2> QED BY <1>2, <1>4, <2>6, <2>9, <2>10, <2>11 DEF c
<1> QED BY <1>3, <1>4

\* Fields that the invariant does not mention.
LEMMA FieldsCalm ==
  ASSUME NEW s, Good(s), NEW t \in State, SameLists(s, t), Untouched(s, t),
         t.isurgent = s.isurgent
  PROVE  Calm(s, t) /\ \A m : Calm(s, Arrange(t, m))
<1>1. ListInv(s) /\ Whole(s) /\ Settled(s)
  BY GoodFacts
<1>2. Reordered(s, t)
  BY <1>1, ReorderedSame
<1>3. Whole(t)
  BY <1>1, <1>2, UntouchedReady
<1>4. Settled(t)
  BY <1>1, SettledKept DEF SameLists, SameView, Untouched
<1>5. Calm(s, t)
  BY <1>2, <1>3, <1>4 DEF Calm, Good, SameTags, Untouched
<1> QED BY <1>5, ArrangeGood, CalmTwice DEF Calm

LEMMA PushLeftCalm ==
  ASSUME NEW s, Good(s)
  PROVE  Calm(s, PushLeft(s))
<1> DEFINE c == s.sel[s.selmon]
           left == ~s.isLeft[c]
           t == [s EXCEPT !.isLeft[c] = left]
           f == Focus(t, c)
<1>1. s \in State /\ ListInv(s) /\ c \in ClientOrNull
  BY GoodFacts, StateFields
<1>2. left \in BOOLEAN
  OBVIOUS
<1> HIDE DEF c, left
<1>3. ASSUME c # NULL
      PROVE  t \in State /\ Untouched(s, t)
  BY <1>1, <1>2, <1>3, SetIsLeftType, StateDomain, ZenonT(60)
     DEF Untouched, ClientOrNull
<1> HIDE DEF t
<1>4. PushLeft(s) = IF c = NULL THEN Arrange(s, s.selmon) ELSE Arrange(f, f.selmon)
  BY DEF PushLeft, t, c, left
<1>5. Reordered(s, PushLeft(s))
  BY <1>1, PushLeftInv
<1> QED BY <1>1, <1>3, <1>4, <1>5, RelinkCalm, ArrangeGood

-----------------------------------------------------------------------------
(* Layout, floating and fullscreen                                         *)

LEMMA LayoutCalm ==
  ASSUME NEW s, Good(s), NEW i \in Int, NEW layout \in Layout \cup {"toggle"}
  PROVE  Calm(s, IncNMaster(s, i)) /\ Calm(s, SetLayout(s, layout))
<1> DEFINE m == s.selmon
           n == s.nmaster[m] + i
           newn == IF n > 0 THEN n ELSE 0
           t == [s EXCEPT !.nmaster[m] = newn]
           flip == layout = "toggle" \/ layout # s.lt[m][s.sellt[m]]
           k == IF flip THEN 1 - s.sellt[m] ELSE s.sellt[m]
           newl == IF layout = "toggle" THEN s.lt[m][k] ELSE layout
           u == [s EXCEPT !.sellt[m] = k, !.lt[m][k] = newl]
<1>1. s \in State /\ m \in Mon
  BY GoodFacts, StateFields
<1>2. newn \in Nat
  <2>1. s.nmaster[m] \in Nat
    BY <1>1 DEF State
  <2> QED BY <2>1
<1>3. k \in Slot
  BY <1>1 DEF State, Slot
<1> HIDE DEF m, k, newn
<1>4. newl \in Layout
  BY <1>1, <1>3 DEF State
<1> HIDE DEF newl
<1>5. t \in State /\ u \in State
  BY <1>1, <1>2, <1>3, <1>4, SetNMasterType, SetLtType
<1>6. /\ SameLists(s, t) /\ Untouched(s, t) /\ t.isurgent = s.isurgent
      /\ SameLists(s, u) /\ Untouched(s, u) /\ u.isurgent = s.isurgent
  BY <1>1 DEF SameLists, Untouched, State
<1>7. Calm(s, u) /\ Calm(s, Arrange(u, m)) /\ Calm(s, Arrange(t, m))
  BY <1>5, <1>6, FieldsCalm
<1>8. IncNMaster(s, i) = Arrange(t, m)
  BY DEF IncNMaster, m, newn
<1>9. SetLayout(s, layout) = u \/ SetLayout(s, layout) = Arrange(u, m)
  BY DEF SetLayout, m, k, newl
<1> QED BY <1>7, <1>8, <1>9

LEMMA KeyReleaseCalm ==
  ASSUME NEW s, Good(s)
  PROVE  Calm(s, KeyRelease(s))
<1>1. s \in State /\ KeyRelease(s) \in State
  BY GoodFacts, KeyReleaseType
<1>2. /\ SameLists(s, KeyRelease(s)) /\ Untouched(s, KeyRelease(s))
      /\ KeyRelease(s).isurgent = s.isurgent
  BY <1>1 DEF SameLists, Untouched, KeyRelease, State
<1> QED BY <1>1, <1>2, FieldsCalm

\* Fullscreen clients float, whatever else does.
LEMMA SetFloatingCalm ==
  ASSUME NEW s, Good(s), NEW c \in Client, NEW float \in BOOLEAN,
         s.isfullscreen[c] => float
  PROVE  LET t == [s EXCEPT !.isfloating[c] = float]
         IN Calm(s, t) /\ \A m : Calm(s, Arrange(t, m))
<1> DEFINE t == [s EXCEPT !.isfloating[c] = float]
<1>1. s \in State /\ ListInv(s) /\ Whole(s) /\ Proper(s) /\ Settled(s)
  BY GoodFacts
<1>2. t \in State
  BY <1>1, SetFloatingType
<1>3. SameLists(s, t)
  BY <1>1 DEF SameLists, State
<1>4. /\ t.tags = s.tags /\ t.tagset = s.tagset /\ t.seltags = s.seltags
      /\ t.isfullscreen = s.isfullscreen /\ t.shown = s.shown
      /\ t.isurgent = s.isurgent
      /\ t.isfloating = [s.isfloating EXCEPT ![c] = float]
      /\ s.isfloating \in [Client -> BOOLEAN]
  BY <1>1 DEF State
<1> HIDE DEF t
<1>5. Reordered(s, t)
  BY <1>1, <1>2, <1>3, ReorderedSame
<1>6. \A d : In(t, d) <=> In(s, d)
  BY <1>1, <1>5, ReorderedSameIn
<1>7. SameView(s, t)
  BY <1>3, <1>4 DEF SameView, SameLists
<1>8. Proper(t)
  BY <1>1, <1>4, <1>6 DEF Proper
<1>9. \A d : In(t, d) => OnScreen(t, d)
  BY <1>1, <1>4, <1>6, <1>7, SameVisible DEF Whole, OnScreen
<1>10. Settled(t)
  BY <1>1, <1>2, <1>3, <1>4, <1>7, SettledKept DEF SameLists
<1>11. Calm(s, t)
  BY <1>4, <1>5, <1>8, <1>9, <1>10
     DEF Calm, Good, Whole, SameTags, Reordered
<1>12. \A m : Calm(s, Arrange(t, m))
  BY <1>11, ArrangeGood, CalmTwice DEF Calm
<1> QED BY <1>11, <1>12 DEF t

LEMMA SetFullscreenCalm ==
  ASSUME NEW s, Good(s), NEW c, In(s, c), NEW on \in BOOLEAN
  PROVE  Calm(s, SetFullscreen(s, c, on))
<1> DEFINE old == s.oldstate[c]
           float == s.isfloating[c]
           t == [s EXCEPT !.isfullscreen[c] = TRUE, !.oldstate[c] = float,
                          !.isfloating[c] = TRUE, !.shown[c] = TRUE]
           u == [s EXCEPT !.isfullscreen[c] = FALSE,
                          !.isfloating[c] = old, !.shown[c] = TRUE]
<1>1. /\ s \in State /\ ListInv(s) /\ Whole(s) /\ Proper(s) /\ Settled(s)
      /\ c \in Client /\ float \in BOOLEAN /\ old \in BOOLEAN
  <2>1. s \in State /\ ListInv(s) /\ Whole(s) /\ Proper(s) /\ Settled(s)
    BY GoodFacts
  <2>2. c \in Client
    BY DEF In
  <2>3. /\ s.isfloating \in [Client -> BOOLEAN]
        /\ s.oldstate \in [Client -> BOOLEAN]
    BY <2>1, StateFlags
  <2> QED BY <2>1, <2>2, <2>3
<1> HIDE DEF old, float
<1>2. t \in State /\ u \in State
  BY <1>1, SetFullscreenFieldsType
<1>3. /\ SameLists(s, t) /\ t.isurgent = s.isurgent
      /\ t.tags = s.tags /\ t.tagset = s.tagset /\ t.seltags = s.seltags
      /\ t.isfullscreen = [s.isfullscreen EXCEPT ![c] = TRUE]
      /\ t.isfloating = [s.isfloating EXCEPT ![c] = TRUE]
      /\ t.shown = [s.shown EXCEPT ![c] = TRUE]
  BY <1>1 DEF SameLists, State
<1>4. /\ SameLists(s, u) /\ u.isurgent = s.isurgent
      /\ u.tags = s.tags /\ u.tagset = s.tagset /\ u.seltags = s.seltags
      /\ u.isfullscreen = [s.isfullscreen EXCEPT ![c] = FALSE]
      /\ u.isfloating = [s.isfloating EXCEPT ![c] = old]
      /\ u.shown = [s.shown EXCEPT ![c] = TRUE]
  BY <1>1 DEF SameLists, State
<1> HIDE DEF t, u
<1>5. /\ s.isfullscreen \in [Client -> BOOLEAN]
      /\ s.isfloating \in [Client -> BOOLEAN]
      /\ s.shown \in [Client -> BOOLEAN]
  BY <1>1 DEF State
<1>6. Reordered(s, t) /\ Reordered(s, u)
  BY <1>1, <1>2, <1>3, <1>4, ReorderedSame
<1>7. \A d : (In(t, d) <=> In(s, d)) /\ (In(u, d) <=> In(s, d))
  BY <1>1, <1>6, ReorderedSameIn
<1>8. SameView(s, t) /\ SameView(s, u)
  BY <1>3, <1>4 DEF SameView, SameLists
<1>9. Proper(t) /\ Proper(u)
  BY <1>1, <1>3, <1>4, <1>5, <1>7 DEF Proper
<1>10. Settled(t) /\ Settled(u)
  BY <1>1, <1>2, <1>3, <1>4, <1>8, SettledKept DEF SameLists
<1>11. ASSUME NEW d, In(s, d)
       PROVE  /\ OnScreen(t, d)
              /\ d # c => OnScreen(u, d)
  <2>1. OnScreen(s, d) /\ d \in Client
    BY <1>1, <1>11 DEF Whole, In
  <2>2. Visible(t, d) = Visible(s, d) /\ Visible(u, d) = Visible(s, d)
    BY <1>8, SameVisible
  <2> QED BY <1>1, <1>3, <1>4, <1>5, <2>1, <2>2 DEF OnScreen
<1>12. Calm(s, t)
  BY <1>3, <1>6, <1>7, <1>9, <1>10, <1>11
     DEF Calm, Good, Whole, SameTags, Reordered
<1>13. Ready(u, s.mon[c])
  <2>1. \A d : u.mon[d] # s.mon[c] => d # c
    BY <1>4 DEF SameLists
  <2> QED BY <1>6, <1>7, <1>9, <1>11, <2>1 DEF Ready, Reordered
<1>14. Calm(s, Arrange(u, s.mon[c]))
  <2> DEFINE a == Arrange(u, s.mon[c])
  <2>1. Whole(a) /\ Reordered(u, a) /\ SameTags(u, a) /\ Settled(a)
    BY <1>10, <1>13, ArrangeWhole, ArrangeSettled
  <2> HIDE DEF a
  <2>2. Calm(s, a)
    BY <1>4, <1>6, <2>1, ReorderedTwice DEF Calm, Good, SameTags
  <2> QED BY <2>2 DEF a
<1>15. \/ SetFullscreen(s, c, on) = s \/ SetFullscreen(s, c, on) = t
       \/ SetFullscreen(s, c, on) = Arrange(u, s.mon[c])
  BY DEF SetFullscreen, old, float, t, u
<1> QED BY <1>12, <1>14, <1>15, SteadySelf

LEMMA ToggleCalm ==
  ASSUME NEW s, Good(s)
  PROVE  Calm(s, ToggleFloating(s)) /\ Calm(s, ToggleFullscr(s))
<1> DEFINE c == s.sel[s.selmon]
           float == ~s.isfloating[c] \/ s.isfixed[c]
           full == ~s.isfullscreen[c]
<1>1. c # NULL => c \in Client /\ In(s, c)
  BY GoodFacts, SelmonFacts
<1>2. float \in BOOLEAN /\ full \in BOOLEAN
  OBVIOUS
<1>3. ToggleFloating(s) = s \/ (c # NULL /\ ~s.isfullscreen[c] /\
        ToggleFloating(s) = Arrange([s EXCEPT !.isfloating[c] = float], s.selmon))
  BY DEF ToggleFloating
<1>4. ToggleFullscr(s) = s
      \/ (c # NULL /\ ToggleFullscr(s) = SetFullscreen(s, c, full))
  BY DEF ToggleFullscr
<1> HIDE DEF c, float, full
<1> QED BY <1>1, <1>2, <1>3, <1>4, SetFloatingCalm, SetFullscreenCalm,
           SteadySelf

-----------------------------------------------------------------------------
(* Monitors                                                                *)

LEMMA SelectMonUntouched ==
  ASSUME NEW s \in State, NEW m \in Mon
  PROVE  /\ [s EXCEPT !.selmon = m] \in State
         /\ Untouched(s, [s EXCEPT !.selmon = m])
         /\ SelectMon(s, m) \in State /\ Untouched(s, SelectMon(s, m))
<1> DEFINE u == Unfocus(s, s.sel[s.selmon])
<1>1. ASSUME NEW r \in State
      PROVE  [r EXCEPT !.selmon = m] \in State
             /\ Untouched(r, [r EXCEPT !.selmon = m])
  BY SetSelmonType, StateDomain, ZenonT(60) DEF Untouched
<1>2. u \in State
  BY UnfocusType
<1>3. Untouched(s, u)
  BY StateDomain, ZenonT(60) DEF Untouched, Unfocus
<1> HIDE DEF u
<1>4. Untouched(s, [u EXCEPT !.selmon = m])
  BY <1>1, <1>2, <1>3, UntouchedTwice
<1> QED BY <1>1, <1>2, <1>4 DEF SelectMon, u

LEMMA FocusMonCalm ==
  ASSUME NEW s, Good(s), NEW dir
  PROVE  Calm(s, FocusMon(s, dir))
<1> DEFINE m == DirToMon(s, dir)
<1>1. s \in State /\ ListInv(s) /\ m \in Mon /\ NULL \in ClientOrNull
  BY GoodFacts, DirToMonType DEF ClientOrNull
<1>2. Reordered(s, FocusMon(s, dir))
  BY <1>1, FocusMonInv
<1>3. FocusMon(s, dir) = s
      \/ FocusMon(s, dir) = Focus([s EXCEPT !.selmon = m], NULL)
  BY DEF FocusMon
<1> HIDE DEF m
<1> QED BY <1>1, <1>2, <1>3, SelectMonUntouched, RelinkCalm, SteadySelf

\* Selecting a monitor, then a client in the lists or none.
LEMMA SelectAndFocusCalm ==
  ASSUME NEW s, Good(s), NEW m \in Mon, m <= s.nmon,
         NEW c, c = NULL \/ In(s, c)
  PROVE  Calm(s, Focus(SelectMon(s, m), c)) /\ Calm(s, Focus(s, c))
<1>1. s \in State /\ ListInv(s) /\ c \in ClientOrNull /\ Untouched(s, s)
  BY GoodFacts DEF ClientOrNull, In, Untouched
<1>2. Reordered(s, Focus(SelectMon(s, m), c)) /\ Reordered(s, Focus(s, c))
  BY <1>1, SelectAndFocusInv, FocusInv
<1> QED BY <1>1, <1>2, SelectMonUntouched, RelinkCalm

LEMMA EnterCalm ==
  ASSUME NEW s, Good(s), NEW c, In(s, c)
  PROVE  Calm(s, EnterClient(s, c)) /\ Calm(s, ButtonPress(s, c))
<1>1. ListInv(s) /\ s \in State /\ s.mon[c] \in Mon /\ s.mon[c] <= s.nmon
  BY GoodFacts, InFacts
<1>2. Calm(s, Focus(s, c)) /\ Calm(s, Focus(SelectMon(s, s.mon[c]), c))
  BY <1>1, SelectAndFocusCalm
<1> DEFINE t == Focus(SelectMon(s, s.mon[c]), NULL)
<1>3. Calm(s, t)
  BY <1>1, SelectAndFocusCalm
<1> HIDE DEF t
<1>4. In(t, c) /\ Good(t)
  BY <1>1, <1>3, ReorderedIn DEF Calm
<1>5. t.mon[c] \in Mon /\ t.mon[c] <= t.nmon
  BY <1>4, GoodFacts, InFacts
<1>6. Calm(t, Focus(t, c))
  BY <1>4, <1>5, SelectAndFocusCalm
<1>7. Calm(s, Focus(t, c))
  BY <1>3, <1>6, CalmTwice
<1> QED BY <1>2, <1>7, SteadySelf DEF EnterClient, ButtonPress, t

LEMMA PointerCalm ==
  ASSUME NEW s, Good(s), NEW m \in Mon, m <= s.nmon
  PROVE  Calm(s, EnterRoot(s, m)) /\ Calm(s, MotionNotify(s, m))
<1> DEFINE t == IF m # s.motionmon /\ s.motionmon # NULL
                THEN Focus(SelectMon(s, m), NULL) ELSE s
           u == [t EXCEPT !.motionmon = m]
<1>1. Calm(s, Focus(SelectMon(s, m), NULL)) /\ Calm(s, s)
  BY SelectAndFocusCalm, SteadySelf
<1>2. Calm(s, t)
  BY <1>1
<1> HIDE DEF t
<1>3. t \in State /\ Good(t)
  BY <1>2, GoodFacts DEF Calm
<1>4. u \in State
  BY <1>3, SetMotionMonType
<1>5. SameLists(t, u) /\ Untouched(t, u) /\ u.isurgent = t.isurgent
  BY <1>3 DEF SameLists, Untouched, State
<1> HIDE DEF u
<1>6. Calm(s, u)
  BY <1>2, <1>3, <1>4, <1>5, FieldsCalm, CalmTwice
<1> QED BY <1>1, <1>6 DEF EnterRoot, MotionNotify, t, u

-----------------------------------------------------------------------------
(* Clients change their properties                                         *)

\* Any client but the selected one may ask for attention.
LEMMA UrgencyCalm ==
  ASSUME NEW s, Good(s), NEW t \in State, SameLists(s, t), Untouched(s, t),
         SelOf(s) # NULL => ~t.isurgent[SelOf(s)]
  PROVE  Calm(s, t)
<1>1. ListInv(s) /\ Whole(s) /\ Settled(s)
  BY GoodFacts
<1>2. Reordered(s, t)
  BY <1>1, ReorderedSame
<1>3. Whole(t)
  BY <1>1, <1>2, UntouchedReady
<1>4. Settled(t)
  <2>1. SameView(s, t)
    BY DEF SameView, SameLists, Untouched
  <2> QED BY <1>1, <2>1, SameVisible DEF Settled, SameLists, SelOf
<1> QED BY <1>2, <1>3, <1>4 DEF Calm, Good, SameTags, Untouched

LEMMA HintsCalm ==
  ASSUME NEW s, Good(s), NEW c \in Client, NEW a \in BOOLEAN, NEW b \in BOOLEAN
  PROVE  Calm(s, UpdateWmHints(s, c, a, b)) /\ Calm(s, ActiveWindowMessage(s, c))
<1> DEFINE new == IF a /\ c = s.sel[s.selmon] THEN s.isurgent[c] ELSE a
           t == [s EXCEPT !.isurgent[c] = new, !.neverfocus[c] = b]
           u == [s EXCEPT !.isurgent[c] = TRUE]
<1>1. /\ s \in State /\ s.isurgent \in [Client -> BOOLEAN]
      /\ SelOf(s) # NULL => ~s.isurgent[SelOf(s)] /\ SelOf(s) \in Client
  <2>1. s \in State /\ Settled(s)
    BY GoodFacts
  <2>2. SelOf(s) \in ClientOrNull
    BY <2>1, StateFields DEF SelOf
  <2> QED BY <2>1, <2>2 DEF Settled, SelOf, State, ClientOrNull
<1>2. new \in BOOLEAN /\ (c = SelOf(s) => ~new)
  BY <1>1, ConstantsAssumption DEF SelOf
<1> HIDE DEF new
<1>3. t \in State /\ u \in State
  BY <1>1, <1>2, ZenonT(60) DEF State
<1>4. /\ SameLists(s, t) /\ Untouched(s, t)
      /\ t.isurgent = [s.isurgent EXCEPT ![c] = new]
      /\ SameLists(s, u) /\ Untouched(s, u)
      /\ u.isurgent = [s.isurgent EXCEPT ![c] = TRUE]
  BY <1>1 DEF SameLists, Untouched, State
<1> HIDE DEF t, u
<1>5. Calm(s, t)
  BY <1>1, <1>2, <1>3, <1>4, UrgencyCalm
<1>6. c # SelOf(s) => Calm(s, u)
  BY <1>1, <1>3, <1>4, UrgencyCalm
<1>7. UpdateWmHints(s, c, a, b) = t
  BY DEF UpdateWmHints, t, new
<1>8. ActiveWindowMessage(s, c) = s
      \/ (c # SelOf(s) /\ ActiveWindowMessage(s, c) = u)
  BY DEF ActiveWindowMessage, u, SelOf
<1> QED BY <1>5, <1>6, <1>7, <1>8, SteadySelf

LEMMA FocusInCalm ==
  ASSUME NEW s, Good(s), NEW c \in Client
  PROVE  Calm(s, FocusIn(s, c))
<1> DEFINE rest == s.focusin \ {c}
           t == [s EXCEPT !.focusin = rest]
           sel == s.sel[s.selmon]
<1>1. s \in State /\ rest \in SUBSET Client
  BY GoodFacts DEF State
<1> HIDE DEF rest, sel
<1>2. t \in State
  BY <1>1, SetFocusInType
<1>3. SameLists(s, t) /\ Untouched(s, t) /\ t.isurgent = s.isurgent
  BY <1>1 DEF SameLists, Untouched, State
<1> HIDE DEF t
<1>4. \/ FocusIn(s, c) = t \/ FocusIn(s, c) = [t EXCEPT !.xfocus = sel]
  BY DEF FocusIn, SetFocus, t, rest, sel
<1>5. FocusIn(s, c) \in State
  BY <1>1, FocusInType
<1>6. LET u == [t EXCEPT !.xfocus = sel]
      IN SameLists(t, u) /\ Untouched(t, u) /\ u.isurgent = t.isurgent
  BY <1>2 DEF SameLists, Untouched, State
<1>7. /\ SameLists(s, FocusIn(s, c)) /\ Untouched(s, FocusIn(s, c))
      /\ FocusIn(s, c).isurgent = s.isurgent
  BY <1>3, <1>4, <1>6 DEF SameLists, Untouched
<1> QED BY <1>5, <1>7, FieldsCalm

LEMMA PropertiesCalm ==
  ASSUME NEW s, Good(s), NEW c, In(s, c), NEW a \in BOOLEAN, NEW b \in BOOLEAN
  PROVE  /\ Calm(s, UpdateWindowType(s, c, a, b))
         /\ Calm(s, TransientFor(s, c, a))
         /\ Calm(s, [s EXCEPT !.isfixed[c] = a])
<1>1. s \in State /\ c \in Client
  BY GoodFacts DEF In
<1>2. Calm(s, UpdateWindowType(s, c, a, b))
  <2> DEFINE t == IF a THEN SetFullscreen(s, c, TRUE) ELSE s
  <2>1. Calm(s, t)
    BY SetFullscreenCalm, SteadySelf
  <2> HIDE DEF t
  <2>2. Calm(s, [t EXCEPT !.isfloating[c] = TRUE])
    BY <1>1, <2>1, SetFloatingCalm, CalmTwice DEF Calm
  <2> QED BY <2>1, <2>2 DEF UpdateWindowType, t
<1>3. Calm(s, TransientFor(s, c, a))
  BY <1>1, SetFloatingCalm, SteadySelf DEF TransientFor
<1>4. Calm(s, [s EXCEPT !.isfixed[c] = a])
  <2> DEFINE t == [s EXCEPT !.isfixed[c] = a]
  <2>1. t \in State
    BY <1>1, SetFixedType
  <2>2. SameLists(s, t) /\ Untouched(s, t) /\ t.isurgent = s.isurgent
    BY <1>1 DEF SameLists, Untouched, State
  <2> HIDE DEF t
  <2>3. Calm(s, t)
    BY <2>1, <2>2, FieldsCalm
  <2> QED BY <2>3 DEF t
<1> QED BY <1>2, <1>3, <1>4

-----------------------------------------------------------------------------
(* Clients come and go                                                     *)

\* What ClientsKept and OthersUndisturbed say of a step.
Undisturbed(s, t) ==
  /\ \A c : In(s, c) /\ In(t, c) /\ t.tags[c] # s.tags[c] =>
       /\ c = SelOf(s)
       /\ t.mon[c] # s.mon[c] => t.tags[c] = ViewOf(t, t.mon[c])
  /\ \A m \in Mon :
       m <= s.nmon /\ m <= t.nmon /\ ViewOf(t, m) # ViewOf(s, m) => m = s.selmon

Orderly(s, t) ==
  /\ Good(t) /\ Undisturbed(s, t)
  /\ \A c : In(s, c) => s.gone[c] \/ In(t, c)

LEMMA SteadyOrderly ==
  ASSUME NEW s, Good(s), NEW t, Steady(s, t)
  PROVE  Orderly(s, t)
<1>1. ListInv(s)
  BY GoodFacts
<1>2. (\A c : In(t, c) <=> In(s, c)) /\ t.mon = s.mon
  BY <1>1, ReorderedSameIn DEF Steady, Reordered, SamePlaces
<1>3. Undisturbed(s, t)
  BY <1>2 DEF Undisturbed, Steady, OnlySelf, In
<1> QED BY <1>2, <1>3 DEF Orderly, Steady

\* A client is moved, linked or unlinked; the others are left alone.
LEMMA OthersReady ==
  ASSUME NEW s, Whole(s), NEW c \in Client, NEW t, ListInv(t),
         OthersStay(s, t, c), SameOthers(s, t, c), FloatsIfFull(t, c),
         t.isfullscreen[c] => In(t, c), In(t, c) => t.tags[c] # {}
  PROVE  /\ Proper(t)
         /\ \A d : d # c => (In(t, d) <=> In(s, d))
         /\ \A d : In(t, d) /\ d # c => OnScreen(t, d)
<1>1. ListInv(s) /\ s \in State /\ Proper(s)
  BY DEF Whole, ListInv
<1>2. \A d : d # c => (In(t, d) <=> In(s, d))
  BY <1>1, OthersIn
<1>3. Proper(t)
  <2>1. \A m \in Mon, k \in Slot : t.tagset[m][k] # {}
    BY <1>1 DEF Proper, SameOthers
  <2>2. \A d \in Client : t.isfullscreen[d] => t.isfloating[d] /\ In(t, d)
    BY <1>1, <1>2 DEF Proper, SameOthers, FloatsIfFull
  <2>3. \A d : In(t, d) => t.tags[d] # {}
    BY <1>1, <1>2 DEF Proper, SameOthers, In
  <2> QED BY <2>1, <2>2, <2>3 DEF Proper
<1>4. ASSUME NEW d, In(t, d), d # c
      PROVE  OnScreen(t, d)
  <2>1. d \in Client \ {c} /\ OnScreen(s, d)
    BY <1>2, <1>4 DEF Whole, In
  <2>2. t.tags[d] = s.tags[d] /\ t.mon[d] = s.mon[d]
    BY <2>1 DEF SameOthers, OthersStay
  <2>3. Visible(t, d) = Visible(s, d)
    BY <2>2 DEF Visible, ViewOf, SameOthers
  <2> QED BY <2>1, <2>3 DEF OnScreen, SameOthers
<1> QED BY <1>2, <1>3, <1>4

\* focus(NULL), with nothing arranged yet.
LEMMA FocusNullProper ==
  ASSUME NEW s, ListInv(s), Proper(s)
  PROVE  LET t == Focus(s, NULL)
         IN Reordered(s, t) /\ Proper(t) /\ Settled(t) /\ SameTags(s, t)
<1>1. s \in State /\ NULL \in ClientOrNull
  BY DEF ListInv, ClientOrNull
<1>2. Reordered(s, Focus(s, NULL)) /\ Untouched(s, Focus(s, NULL))
  BY <1>1, FocusInv, FocusLeaves
<1> QED BY <1>1, <1>2, FocusSettles, UntouchedReady DEF SameTags, Untouched

\* focus(NULL) and arrange(NULL) put any state in order.
LEMMA FocusArrangeAll ==
  ASSUME NEW s, ListInv(s), Proper(s)
  PROVE  Calm(s, ArrangeAll(Focus(s, NULL)))
<1> DEFINE t == Focus(s, NULL)
<1>1. Reordered(s, t) /\ Proper(t) /\ Settled(t) /\ SameTags(s, t)
  BY FocusNullProper
<1> HIDE DEF t
<1>2. /\ Whole(ArrangeAll(t)) /\ Reordered(t, ArrangeAll(t))
      /\ SameTags(t, ArrangeAll(t)) /\ Settled(ArrangeAll(t))
  BY <1>1, ArrangeAllWhole, ArrangeSettled DEF Reordered
<1>3. Calm(s, ArrangeAll(t))
  BY <1>1, <1>2, ReorderedTwice DEF Calm, Good, SameTags
<1> QED BY <1>3 DEF t

\* arrange() of the client's monitor and focus(NULL), after a client was
\* linked or unlinked.
LEMMA ArrangeFocusNull ==
  ASSUME NEW s, NEW m, Ready(s, m)
  PROVE  Calm(s, Focus(Arrange(s, m), NULL))
<1> DEFINE t == Arrange(s, m)
<1>1. Whole(t) /\ Reordered(s, t) /\ SameTags(s, t)
  BY ArrangeWhole
<1> HIDE DEF t
<1>2. /\ Good(Focus(t, NULL)) /\ Reordered(t, Focus(t, NULL))
      /\ SameTags(t, Focus(t, NULL))
  BY <1>1, FocusGood, FocusNullProper DEF Whole
<1>3. Calm(s, Focus(t, NULL))
  BY <1>1, <1>2, ReorderedTwice DEF Calm, SameTags
<1> QED BY <1>3 DEF t

\* The same tail keeps the flags and the selected monitor.
LEMMA ArrangedFocusKept ==
  ASSUME NEW s, NEW m, Ready(s, m)
  PROVE  LET r == Focus(Arrange(s, m), NULL)
         IN SameFlags(s, r) /\ r.selmon = s.selmon
<1> DEFINE a == Arrange(s, m)
<1>1. ListInv(s) /\ s \in State
  BY DEF Ready, ListInv
<1>2. ListInv(a) /\ a \in State /\ SameFlags(s, a) /\ a.selmon = s.selmon
  BY <1>1, ArrangeInv, FlagsKept, ArrangeFields DEF Reordered, ListInv, Arrange
<1> HIDE DEF a
<1>3. SameFlags(a, Focus(a, NULL)) /\ Focus(a, NULL).selmon = a.selmon
  BY <1>2, FlagsKept, FocusNullStays DEF ClientOrNull
<1>4. SameFlags(s, Focus(a, NULL)) /\ Focus(a, NULL).selmon = s.selmon
  BY <1>2, <1>3 DEF SameFlags
<1> QED BY <1>4 DEF a

\* No client but c moves, or changes its flags.
OthersKept(s, r, c) ==
  /\ r.selmon = s.selmon
  /\ \A d \in Client \ {c} :
       /\ In(r, d) <=> In(s, d)
       /\ r.mon[d] = s.mon[d] /\ r.isfloating[d] = s.isfloating[d]
       /\ r.isfullscreen[d] = s.isfullscreen[d] /\ r.oldstate[d] = s.oldstate[d]

\* c is moved from another monitor to m, in front of its focus history.
Sent(s, r, c, m) ==
  /\ Good(r) /\ SameFlags(s, r) /\ r.nmon = s.nmon /\ r.selmon = s.selmon
  /\ \A d : In(r, d) <=> In(s, d)
  /\ r.mon[c] = m /\ \A d \in Client \ {c} : r.mon[d] = s.mon[d]
  /\ r.tags[c] = ViewOf(s, m) /\ \A d \in Client \ {c} : r.tags[d] = s.tags[d]
  /\ \A i : ViewOf(r, i) = ViewOf(s, i)
  /\ m # s.selmon => \E q \in Seq(Client) : r.stack[m] = <<c>> \o q

\* sendmon() gives a client the tags in view on its new monitor.
LEMMA SendMonMoves ==
  ASSUME NEW s, Good(s), NEW c, In(s, c), NEW m \in Mon, m <= s.nmon,
         s.mon[c] # m
  PROVE  Sent(s, SendMon(s, c, m), c, m)
<1> DEFINE u == Unfocus(s, c)
           out == Unlink(u, c)
           view == ViewOf(s, m)
           t == [out EXCEPT !.mon[c] = m, !.tags[c] = view]
           l == Link(t, c)
           r == ArrangeAll(Focus(l, NULL))
<1>1. /\ s \in State /\ ListInv(s) /\ Whole(s) /\ Proper(s) /\ c \in Client
      /\ s.seltags[m] \in Slot
  <2>1. s \in State /\ ListInv(s) /\ Whole(s) /\ Proper(s) /\ c \in Client
    BY GoodFacts DEF In
  <2>2. s.seltags[m] \in Slot
    BY <2>1 DEF State
  <2> QED BY <2>1, <2>2
<1>2. Reordered(s, u) /\ Untouched(s, u) /\ u.selmon = s.selmon
  <2>1. Reordered(s, u) /\ u.selmon = s.selmon
    BY <1>1, UnfocusType, SetFocusFields, ReorderedSame DEF SameLists
  <2>2. Untouched(s, u)
    BY <1>1, StateDomain, ZenonT(60) DEF Untouched, Unfocus
  <2> QED BY <2>1, <2>2
<1>3. ListInv(u) /\ In(u, c) /\ u.nmon = s.nmon /\ u \in State
  BY <1>1, <1>2, ReorderedIn DEF Reordered, SamePlaces, ListInv
<1> HIDE DEF u
<1>4. out \in State /\ Untouched(s, out)
  BY <1>1, <1>2, <1>3, DetachType, DetachStackType, UnlinkUntouched,
     UntouchedTwice DEF Unlink
<1>5. view \in SUBSET Tag /\ view # {}
  BY <1>1, ViewOfType DEF Proper, ViewOf
<1> HIDE DEF view
<1>6. t \in State
  <2> HIDE DEF out
  <2> QED BY <1>1, <1>4, <1>5, MoveRetagType
<1>7. /\ t.clients = out.clients /\ t.stack = out.stack /\ t.sel = out.sel
      /\ t.selmon = out.selmon /\ t.nmon = out.nmon /\ t.lost = out.lost
      /\ t.mon = [out.mon EXCEPT ![c] = m]
  <2> HIDE DEF out
  <2> QED BY <1>4 DEF State
<1>8. /\ SameOthers(out, t, c) /\ t.tags[c] = view
      /\ SameFlags(out, t)
  <2> HIDE DEF out
  <2> QED BY <1>1, <1>4 DEF SameOthers, SameFlags, State
<1>9. ListInv(t) /\ Out(t, c) /\ t.mon[c] = m
  <2>1. ListInv(out) /\ Out(out, c)
    BY <1>3, UnlinkInv
  <2> HIDE DEF out, t
  <2>2. t.mon[c] = m /\ \A d \in Client \ {c} : t.mon[d] = out.mon[d]
    BY <1>1, <1>4, <1>7 DEF State
  <2>3. ListInv(t) /\ Out(t, c) /\ OthersStay(out, t, c)
    BY <1>6, <1>7, <2>1, <2>2, OutFieldsInv
  <2> QED BY <2>2, <2>3
<1> HIDE DEF t
<1>10. /\ ListInv(l) /\ In(l, c) /\ l.mon[c] = m /\ OthersStay(u, l, c)
       /\ l.selmon = u.selmon
  BY <1>3, <1>6, <1>7, MoveInv
<1>11. Untouched(t, l)
  BY <1>1, <1>6, LinkUntouched
<1>12. \E q \in Seq(Client) : l.stack[m] = <<c>> \o q
  <2> DEFINE a == AttachBelow(t, c)
  <2>1. a \in State
    BY <1>1, <1>6, AttachBelowType
  <2>2. a.mon[c] = m
    BY <1>9, AttachBelowFields
  <2>3. a.stack \in [Mon -> Seq(Client)]
    BY <2>1 DEF State
  <2> HIDE DEF a
  <2>4. l.stack[m] = <<c>> \o a.stack[m]
    BY <1>1, <2>1, <2>2, <2>3, AttachStackFields DEF l, Link, a
  <2>5. a.stack[m] \in Seq(Client)
    BY <2>3
  <2> QED BY <2>4, <2>5
<1> HIDE DEF l, out
<1>13. OthersStay(s, l, c)
  BY <1>2, <1>10, ReorderedStay, OthersStayTwice
<1>14. SameOthers(s, l, c) /\ l.tags[c] = view /\ SameFlags(s, l)
  BY <1>4, <1>8, <1>11 DEF Untouched, SameOthers, SameFlags
<1>15. FloatsIfFull(l, c)
  BY <1>1, <1>14 DEF FloatsIfFull, Proper, SameFlags
<1>16. Proper(l) /\ \A d : In(l, d) <=> In(s, d)
  BY <1>1, <1>5, <1>10, <1>13, <1>14, <1>15, OthersReady
<1>17. Calm(l, r)
  BY <1>10, <1>16, FocusArrangeAll
<1>18. SameFlags(l, r) /\ l \in State
  BY <1>10, FlagsKept DEF ListInv
<1>19. r.selmon = l.selmon /\ (m # l.selmon => r.stack[m] = l.stack[m])
  <2> DEFINE f == Focus(l, NULL)
  <2>1. f.selmon = l.selmon /\ (m # l.selmon => f.stack[m] = l.stack[m])
    BY <1>10, FocusNullStays
  <2>2. f \in State
    BY <1>10, FocusInv DEF Reordered, ListInv
  <2> HIDE DEF f
  <2>3. r.selmon = f.selmon /\ r.stack = f.stack
    BY <2>2, ArrangeFields DEF r, f, ArrangeAll
  <2> QED BY <2>1, <2>3
<1> HIDE DEF r
<1>20. /\ Good(r) /\ r.mon = l.mon /\ r.tags = l.tags /\ r.nmon = s.nmon
       /\ \A i : ViewOf(r, i) = ViewOf(s, i)
       /\ \A d : In(r, d) <=> In(s, d)
  BY <1>10, <1>13, <1>14, <1>16, <1>17, ReorderedSameIn
     DEF Calm, Reordered, SamePlaces, SameTags, SameOthers, ViewOf, OthersStay
<1>21. SameFlags(s, r) /\ r.selmon = s.selmon
  BY <1>2, <1>10, <1>14, <1>18, <1>19 DEF SameFlags
<1>22. \A d \in Client \ {c} : r.tags[d] = s.tags[d] /\ r.mon[d] = s.mon[d]
  BY <1>13, <1>14, <1>20 DEF SameOthers, OthersStay
<1>23. Sent(s, r, c, m)
  BY <1>2, <1>10, <1>12, <1>14, <1>19, <1>20, <1>21, <1>22 DEF Sent, view
<1>24. SendMon(s, c, m) = r
  BY DEF SendMon, Unlink, Link, r, l, t, out, u, view
<1> QED BY <1>23, <1>24

LEMMA SendMonOrderly ==
  ASSUME NEW s, Good(s), NEW c, In(s, c), c = SelOf(s),
         NEW m \in Mon, m <= s.nmon
  PROVE  Orderly(s, SendMon(s, c, m)) /\ SendMon(s, c, m).nmon = s.nmon
<1> DEFINE r == SendMon(s, c, m)
<1>1. CASE s.mon[c] = m
  <2>1. r = s
    BY <1>1 DEF SendMon
  <2> QED BY <2>1, SteadySelf, SteadyOrderly
<1>2. CASE s.mon[c] # m
  <2>1. Sent(s, r, c, m)
    BY <1>2, SendMonMoves
  <2> HIDE DEF r
  <2>2. \A d : In(s, d) => d \in Client
    BY DEF In
  <2>3. Undisturbed(s, r)
    BY <2>1, <2>2 DEF Sent, Undisturbed
  <2>4. Orderly(s, r) /\ r.nmon = s.nmon
    BY <2>1, <2>3 DEF Orderly, Sent
  <2> QED BY <2>4 DEF r
<1> QED BY <1>1, <1>2

LEMMA TagMonOrderly ==
  ASSUME NEW s, Good(s), NEW dir
  PROVE  Orderly(s, TagMon(s, dir)) /\ TagMon(s, dir).nmon = s.nmon
BY GoodFacts, SelmonFacts, DirToMonConnected, SendMonOrderly, SteadySelf,
   SteadyOrderly DEF TagMon, SelOf

\* manage(): the new client has tags, and floats when it is fullscreen.
LEMMA ManageOrderly ==
  ASSUME NEW s, Good(s), NEW c, Out(s, c), NEW kind \in Kind,
         NEW p, p = NULL \/ In(s, p)
  PROVE  /\ Orderly(s, Manage(s, c, kind, p)) /\ In(Manage(s, c, kind, p), c)
         /\ OthersKept(s, Manage(s, c, kind, p), c)
<1>1. /\ s \in State /\ ListInv(s) /\ Whole(s) /\ Proper(s) /\ c \in Client
      /\ ~In(s, c) /\ ~s.isfullscreen[c]
  <2>1. s \in State /\ ListInv(s) /\ Whole(s) /\ Proper(s) /\ c \in Client
    BY GoodFacts DEF Out
  <2>2. s.mon[c] \in Mon
    BY <2>1 DEF State
  <2>3. ~In(s, c)
    BY <2>2 DEF In, Out
  <2> QED BY <2>1, <2>3 DEF Proper
<1>2. PICK t : /\ ManageArranged(s, c, kind, p) = Arrange(t, t.mon[c])
               /\ ListInv(t) /\ In(t, c) /\ OthersStay(s, t, c)
               /\ SameOthers(s, t, c) /\ t.selmon = s.selmon
               /\ ~s.isfullscreen[c] => FloatsIfFull(t, c)
               /\ t.tags[c] = IF p = NULL THEN RuleTags(s, s.selmon, kind)
                                          ELSE s.tags[p]
  BY <1>1, ManageLinks
<1> DEFINE m == t.mon[c]
           r == Focus(Arrange(t, m), NULL)
<1>3. t.tags[c] # {}
  <2>1. RuleTags(s, s.selmon, kind) # {}
    BY DEF RuleTags
  <2> QED BY <1>1, <1>2, <2>1 DEF Proper
<1>4. /\ Proper(t) /\ \A d : d # c => (In(t, d) <=> In(s, d))
      /\ \A d : In(t, d) /\ d # c => OnScreen(t, d)
  BY <1>1, <1>2, <1>3, OthersReady
<1>5. Ready(t, m)
  BY <1>2, <1>4 DEF Ready
<1>6. Calm(t, r)
  BY <1>5, ArrangeFocusNull
<1>7. SameFlags(t, r) /\ r.selmon = t.selmon
  BY <1>5, ArrangedFocusKept
<1> HIDE DEF m, r
<1>8. /\ Good(r) /\ r.tags = t.tags /\ r.mon = t.mon
      /\ \A i : ViewOf(r, i) = ViewOf(s, i)
      /\ \A d : In(r, d) <=> In(t, d)
  BY <1>2, <1>6, ReorderedSameIn
     DEF Calm, SameTags, SameOthers, ViewOf, Reordered, SamePlaces
<1>9. Undisturbed(s, r)
  BY <1>1, <1>2, <1>8 DEF Undisturbed, SameOthers, In
<1>10. OthersKept(s, r, c)
  BY <1>2, <1>4, <1>7, <1>8 DEF OthersKept, OthersStay, SameOthers, SameFlags
<1>11. Manage(s, c, kind, p) = r
  BY <1>2 DEF Manage, r, m
<1> QED BY <1>1, <1>2, <1>4, <1>8, <1>9, <1>10, <1>11 DEF Orderly

LEMMA FreeClientOthers ==
  ASSUME NEW s \in State, NEW c \in Client
  PROVE  SameOthers(s, FreeClient(s, c), c) /\ ~FreeClient(s, c).isfullscreen[c]
<1> DEFINE t == FreeClient(s, c)
<1>1. {"tags", "tagset", "seltags", "isfloating", "isfullscreen", "oldstate",
       "shown"} \subseteq DOMAIN s
  BY StateDomain
<1>2. t.tagset = s.tagset /\ t.seltags = s.seltags
  BY <1>1, ZenonT(60) DEF FreeClient
<1>3. t.tags = [s.tags EXCEPT ![c] = {}] /\ t.shown = [s.shown EXCEPT ![c] = FALSE]
  BY <1>1, ZenonT(60) DEF FreeClient
<1>4. /\ t.isfloating = [s.isfloating EXCEPT ![c] = FALSE]
      /\ t.isfullscreen = [s.isfullscreen EXCEPT ![c] = FALSE]
      /\ t.oldstate = [s.oldstate EXCEPT ![c] = FALSE]
  BY <1>1, ZenonT(60) DEF FreeClient
<1> HIDE DEF t
<1>5. /\ s.tags \in [Client -> SUBSET Tag] /\ s.shown \in [Client -> BOOLEAN]
      /\ s.isfloating \in [Client -> BOOLEAN]
      /\ s.isfullscreen \in [Client -> BOOLEAN]
      /\ s.oldstate \in [Client -> BOOLEAN]
  BY DEF State
<1>6. SameOthers(s, t, c) /\ ~t.isfullscreen[c]
  BY <1>2, <1>3, <1>4, <1>5 DEF SameOthers
<1> QED BY <1>6 DEF t

\* unmanage() forgets its client, and no other.
Dropping(s, r, c) ==
  /\ Good(r) /\ Undisturbed(s, r) /\ ~In(r, c) /\ OthersKept(s, r, c)

LEMMA UnmanageDrops ==
  ASSUME NEW s, Good(s), NEW c, In(s, c)
  PROVE  Dropping(s, Unmanage(s, c), c)
<1> DEFINE u == Unlink(s, c)
           t == FreeClient(u, c)
           m == s.mon[c]
           r == Focus(Arrange(t, m), NULL)
<1>1. s \in State /\ ListInv(s) /\ Whole(s) /\ Proper(s) /\ c \in Client
  BY GoodFacts DEF In
<1>2. ListInv(u) /\ Out(u, c) /\ OthersStay(s, u, c) /\ Untouched(s, u)
  BY <1>1, UnlinkInv, UnlinkUntouched
<1>3. u \in State
  BY <1>2 DEF ListInv
<1> HIDE DEF u
<1>4. /\ t \in State /\ SameOthers(u, t, c) /\ ~t.isfullscreen[c]
      /\ t.clients = u.clients /\ t.stack = u.stack /\ t.sel = u.sel
      /\ t.selmon = u.selmon /\ t.nmon = u.nmon /\ t.lost = u.lost
      /\ t.mon = [u.mon EXCEPT ![c] = 1]
  BY <1>1, <1>3, FreeClientType, FreeClientFields, FreeClientOthers
<1> HIDE DEF t
<1>5. \A d \in Client \ {c} : t.mon[d] = u.mon[d]
  BY <1>3, <1>4 DEF State
<1>6. ListInv(t) /\ Out(t, c) /\ OthersStay(s, t, c)
  <2>1. ListInv(t) /\ Out(t, c) /\ OthersStay(u, t, c)
    BY <1>2, <1>4, <1>5, OutFieldsInv
  <2> QED BY <1>2, <2>1, OthersStayTwice
<1>7. SameOthers(s, t, c) /\ FloatsIfFull(t, c)
  BY <1>2, <1>4, UntouchedOthers, SameOthersTwice DEF FloatsIfFull
<1>8. ~In(t, c)
  <2>1. t.mon[c] \in Mon
    BY <1>1, <1>4 DEF State
  <2> QED BY <1>6, <2>1 DEF In, Out
<1>9. /\ Proper(t) /\ \A d : d # c => (In(t, d) <=> In(s, d))
      /\ \A d : In(t, d) /\ d # c => OnScreen(t, d)
  BY <1>1, <1>4, <1>6, <1>7, <1>8, OthersReady
<1>10. Ready(t, m)
  BY <1>6, <1>8, <1>9 DEF Ready
<1>11. Calm(t, r) /\ SameFlags(t, r) /\ r.selmon = t.selmon
  BY <1>10, ArrangeFocusNull, ArrangedFocusKept
<1> HIDE DEF m, r
<1>12. /\ Good(r) /\ r.tags = t.tags /\ r.mon = t.mon
       /\ \A i : ViewOf(r, i) = ViewOf(s, i)
       /\ \A d : In(r, d) <=> In(t, d)
  BY <1>6, <1>7, <1>11, ReorderedSameIn
     DEF Calm, SameTags, SameOthers, ViewOf, Reordered, SamePlaces
<1>13. Undisturbed(s, r)
  BY <1>7, <1>8, <1>12 DEF Undisturbed, SameOthers, In
<1>14. t.selmon = s.selmon
  BY <1>1, <1>4, UnlinkFields DEF u
<1>15. OthersKept(s, r, c)
  BY <1>6, <1>7, <1>9, <1>11, <1>12, <1>14
     DEF OthersKept, OthersStay, SameOthers, SameFlags
<1>16. Dropping(s, r, c)
  BY <1>8, <1>12, <1>13, <1>15 DEF Dropping
<1> QED BY <1>16 DEF Unmanage, Unlink, r, t, u, m

\* Here the client is one whose window is gone.
LEMMA UnmanageOrderly ==
  ASSUME NEW s, Good(s), NEW c, In(s, c), s.gone[c]
  PROVE  Orderly(s, Unmanage(s, c))
<1>1. Dropping(s, Unmanage(s, c), c)
  BY UnmanageDrops
<1>2. \A d : In(s, d) /\ d # c => In(Unmanage(s, c), d)
  BY <1>1 DEF Dropping, OthersKept, In
<1> QED BY <1>1, <1>2 DEF Orderly, Dropping

-----------------------------------------------------------------------------
(* Monitors are connected and disconnected                                 *)

\* updategeom() keeps all clients with their tags, and the views of the
\* monitors that are left.
Regrouped(s, t) ==
  /\ ListInv(t) /\ Based(t) /\ t.tags = s.tags /\ SameFlags(s, t)
  /\ t.lost = s.lost /\ \A c : In(t, c) <=> In(s, c)
  /\ \A m \in Mon : m <= s.nmon /\ m <= t.nmon => ViewOf(t, m) = ViewOf(s, m)

\* cleanupmon() writes the fields of monitor m only.
LEMMA CleanupMonFields ==
  ASSUME NEW s \in State, NEW m \in Mon
  PROVE  LET t == CleanupMon(s, m)
         IN /\ t.tags = s.tags /\ t.shown = s.shown /\ SameFlags(s, t)
            /\ t.clients = s.clients /\ t.mon = s.mon /\ t.lost = s.lost
            /\ \A k \in Slot : t.tagset[m][k] # {}
            /\ \A i \in Mon \ {m} : /\ t.tagset[i] = s.tagset[i]
                                    /\ t.seltags[i] = s.seltags[i]
<1> DEFINE t == CleanupMon(s, m)
           view == InitialState(1, 1).tagset[m]
<1>1. {"tags", "shown", "isfloating", "isfullscreen", "oldstate", "clients",
       "mon", "lost", "tagset", "seltags"} \subseteq DOMAIN s
  BY StateDomain
<1>2. /\ t.tags = s.tags /\ t.shown = s.shown /\ SameFlags(s, t)
      /\ t.clients = s.clients /\ t.mon = s.mon /\ t.lost = s.lost
  BY <1>1, ZenonT(60) DEF CleanupMon, SameFlags
<1>3. t.tagset = [s.tagset EXCEPT ![m] = view]
  BY <1>1, ZenonT(60) DEF CleanupMon
<1>4. t.seltags = [s.seltags EXCEPT ![m] = 0]
  BY <1>1, ZenonT(60) DEF CleanupMon
<1>5. \A k \in Slot : view[k] = {0}
  BY DEF InitialState
<1> HIDE DEF t, view
<1>6. /\ s.tagset \in [Mon -> [Slot -> SUBSET Tag]]
      /\ s.seltags \in [Mon -> Slot]
  BY DEF State
<1>7. t.tagset[m] = view
  BY <1>3, <1>6
<1>8. \A k \in Slot : t.tagset[m][k] # {}
  BY <1>5, <1>7
<1>9. \A i \in Mon \ {m} : t.tagset[i] = s.tagset[i] /\ t.seltags[i] = s.seltags[i]
  BY <1>3, <1>4, <1>6
<1> QED BY <1>2, <1>8, <1>9 DEF t

LEMMA RemoveMonRegroups ==
  ASSUME NEW s, ListInv(s), Based(s), s.nmon # 1
  PROVE  Regrouped(s, RemoveMon(s))
<1> DEFINE m == s.nmon
           k == m - 1
           empty == MoveAll(s, m)
           sel == IF empty.selmon = m THEN 1 ELSE empty.selmon
           left == [empty EXCEPT !.selmon = sel, !.nmon = k]
           t == CleanupMon(left, m)
<1>1. /\ s \in State /\ m \in Mon /\ k \in Mon /\ 1 \in Mon /\ m # 1
  BY StateFields, ConstantsAssumption DEF ListInv, Mon
<1>2. /\ ListInv(empty) /\ Untouched(s, empty) /\ empty.lost = s.lost
      /\ \A c : In(empty, c) <=> In(s, c)
  BY <1>1, MoveAllInv
<1>3. empty \in State /\ sel \in Mon
  BY <1>1, <1>2, StateFields DEF ListInv
<1> HIDE DEF empty, sel
<1>4. left \in State
  <2> HIDE DEF k, m
  <2> QED BY <1>1, <1>3, ZenonT(60) DEF State
<1>5. /\ Untouched(empty, left) /\ left.clients = empty.clients
      /\ left.mon = empty.mon /\ left.lost = empty.lost
  BY <1>3 DEF Untouched, State
<1> HIDE DEF left
<1>6. /\ t.tags = left.tags /\ t.shown = left.shown /\ SameFlags(left, t)
      /\ t.clients = left.clients /\ t.mon = left.mon /\ t.lost = left.lost
      /\ \A i \in Slot : t.tagset[m][i] # {}
      /\ \A i \in Mon \ {m} : /\ t.tagset[i] = left.tagset[i]
                              /\ t.seltags[i] = left.seltags[i]
  BY <1>1, <1>4, CleanupMonFields
<1>7. RemoveMon(s) = t
  BY DEF RemoveMon, t, left, sel, empty, k, m
<1>8. ListInv(t) /\ t.nmon = k
  <2>1. ListInv(t)
    BY <1>7, RemoveMonInv
  <2>2. t.nmon = k
    BY <1>1, <1>7, RemoveMonType
  <2> QED BY <2>1, <2>2
<1> HIDE DEF t
<1>9. \A c : In(t, c) <=> In(s, c)
  BY <1>2, <1>5, <1>6 DEF In
<1>10. Untouched(s, left)
  BY <1>2, <1>5, UntouchedTwice
<1>11. \A i \in Mon, j \in Slot : t.tagset[i][j] # {}
  BY <1>6, <1>10 DEF Based, Untouched
<1>12. Based(t) /\ SameFlags(s, t)
  BY <1>6, <1>9, <1>10, <1>11 DEF Based, Untouched, SameFlags
<1>13. \A i \in Mon : i <= k => i # m
  BY <1>1, ConstantsAssumption DEF Mon
<1>14. \A i \in Mon : i <= t.nmon => ViewOf(t, i) = ViewOf(s, i)
  <2> HIDE DEF m, k
  <2> QED BY <1>6, <1>8, <1>10, <1>13 DEF ViewOf, Untouched
<1>15. t.tags = s.tags /\ t.lost = s.lost
  BY <1>2, <1>5, <1>6, <1>10 DEF Untouched
<1> QED BY <1>7, <1>8, <1>9, <1>12, <1>14, <1>15 DEF Regrouped

LEMMA RemoveMonsRegroup ==
  ASSUME NEW s, ListInv(s), Based(s), NEW k \in Nat, k < s.nmon
  PROVE  Regrouped(s, RemoveMons(s, k))
<1>1. s \in State /\ s.nmon \in Nat /\ \A m \in Mon : m \in Nat
  BY StateFields, ConstantsAssumption DEF ListInv, Mon
<1>2. PICK removed : /\ RemoveMons(s, k) = removed[k]
                     /\ RemovedSoFar(removed, s, k)
  BY <1>1, RemoveMonsUnfolds
<1> DEFINE T == {i \in 0 .. k : Regrouped(s, removed[i])}
<1>3. 0 \in T
  BY <1>2 DEF RemovedSoFar, Regrouped, SameFlags
<1>4. ASSUME NEW i \in 1 .. k, i - 1 \in T
      PROVE  i \in T
  <2> DEFINE r == removed[i - 1]
  <2>1. /\ removed[i] = RemoveMon(r) /\ r.nmon = s.nmon - (i - 1)
        /\ removed[i].nmon = s.nmon - i
    BY <1>2 DEF RemovedSoFar
  <2>2. r.nmon # 1
    BY <1>1, <2>1
  <2>3. Regrouped(s, r)
    BY <1>4
  <2> HIDE DEF r
  <2>4. Regrouped(r, removed[i])
    BY <2>1, <2>2, <2>3, RemoveMonRegroups DEF Regrouped
  <2>5. \A m \in Mon : m <= removed[i].nmon => m <= r.nmon
    BY <1>1, <2>1
  <2>6. Regrouped(s, removed[i])
    BY <2>3, <2>4, <2>5 DEF Regrouped, SameFlags
  <2> QED BY <2>6
<1>5. \A i \in 0 .. k : i \in T
  <2> HIDE DEF T
  <2> QED BY <1>3, <1>4, InductionUpTo
<1> QED BY <1>2, <1>5

LEMMA ConfigureNotifyRegroups ==
  ASSUME NEW s, ListInv(s), Based(s), NEW n \in Mon, NEW p \in 1 .. n
  PROVE  \E u : /\ ConfigureNotify(s, n, p) = ArrangeAll(Focus(u, NULL))
                /\ Regrouped(s, u) /\ u.nmon = n
<1> DEFINE more == [s EXCEPT !.nmon = n]
           t == IF n >= s.nmon THEN more ELSE RemoveMons(s, s.nmon - n)
           dirty == n >= s.nmon \/ \E m \in n + 1 .. s.nmon : s.clients[m] # << >>
           sel == IF dirty THEN p ELSE t.selmon
           u == [t EXCEPT !.selmon = sel]
<1>1. /\ s \in State /\ s.nmon \in Mon /\ s.nmon \in Nat /\ n \in Nat
      /\ p \in Mon /\ p <= n
  BY StateFields, ConstantsAssumption DEF ListInv, Mon
<1>2. ASSUME n >= s.nmon
      PROVE  Regrouped(s, more) /\ more.nmon = n
  <2>1. more \in State
    BY <1>1, SetNMonType
  <2>2. /\ more.clients = s.clients /\ more.stack = s.stack
        /\ more.mon = s.mon /\ more.sel = s.sel /\ more.selmon = s.selmon
        /\ more.nmon = n /\ more.lost = s.lost /\ Untouched(s, more)
    BY <1>1 DEF State, Untouched
  <2> HIDE DEF more
  <2>3. Connected(more)
    <3>1. s.selmon <= s.nmon /\ s.selmon \in Nat
      BY <1>1, StateFields, ConstantsAssumption DEF ListInv, Connected, Mon
    <3>2. \A i \in Mon : n < i => s.nmon < i
      BY <1>1, <1>2, ConstantsAssumption DEF Mon
    <3>3. more.selmon \in Mon /\ more.selmon <= more.nmon
      BY <1>1, <1>2, <2>2, <3>1, StateFields
    <3> QED BY <2>2, <3>2, <3>3 DEF ListInv, Connected
  <2>4. ListInv(more)
    BY <1>1, <2>1, <2>2, <2>3 DEF ListInv, Linked, Owned
  <2>5. \A c : In(more, c) <=> In(s, c)
    BY <2>2 DEF In
  <2>6. Based(more)
    BY <1>1, <2>2, <2>5 DEF Based, Untouched
  <2> QED BY <2>2, <2>4, <2>5, <2>6 DEF Regrouped, Untouched, SameFlags, ViewOf
<1>3. ASSUME ~(n >= s.nmon)
      PROVE  /\ Regrouped(s, RemoveMons(s, s.nmon - n))
             /\ RemoveMons(s, s.nmon - n).nmon = n
  <2> DEFINE k == s.nmon - n
  <2>1. k \in Nat /\ k < s.nmon /\ s.nmon - k = n
    BY <1>1, <1>3
  <2> HIDE DEF k
  <2>2. Regrouped(s, RemoveMons(s, k)) /\ RemoveMons(s, k).nmon = s.nmon - k
    BY <1>1, <2>1, RemoveMonsRegroup, RemoveMonsType
  <2> QED BY <2>1, <2>2 DEF k
<1>4. Regrouped(s, t) /\ t.nmon = n
  BY <1>2, <1>3
<1> HIDE DEF t, dirty
<1>5. t \in State /\ sel \in Mon /\ sel <= n
  BY <1>1, <1>4, StateFields DEF ListInv, Connected, Regrouped
<1> HIDE DEF sel
<1>6. /\ u \in State /\ u.clients = t.clients /\ u.stack = t.stack
      /\ u.mon = t.mon /\ u.sel = t.sel /\ u.selmon = sel /\ u.nmon = n
      /\ u.lost = t.lost /\ Untouched(t, u)
  <2>1. u \in State
    BY <1>5, SetSelmonType
  <2> QED BY <1>4, <1>5, <2>1 DEF Untouched, State
<1>7. ConfigureNotify(s, n, p) = ArrangeAll(Focus(u, NULL))
  BY DEF ConfigureNotify, u, sel, dirty, t, more
<1> HIDE DEF u
<1>8. ListInv(u)
  BY <1>4, <1>5, <1>6 DEF Regrouped, ListInv, Linked, Owned, Connected
<1>9. \A c : In(u, c) <=> In(t, c)
  BY <1>6 DEF In
<1>10. Based(u)
  BY <1>4, <1>6, <1>9 DEF Regrouped, Based, Untouched
<1>11. Regrouped(s, u)
  BY <1>4, <1>6, <1>8, <1>9, <1>10 DEF Regrouped, Untouched, SameFlags, ViewOf
<1> QED BY <1>6, <1>7, <1>11

LEMMA ConfigureNotifyOrderly ==
  ASSUME NEW s, Good(s), NEW n \in Mon, NEW p \in 1 .. n
  PROVE  /\ Orderly(s, ConfigureNotify(s, n, p))
         /\ SameFlags(s, ConfigureNotify(s, n, p))
         /\ \A c : In(ConfigureNotify(s, n, p), c) <=> In(s, c)
<1> DEFINE r == ConfigureNotify(s, n, p)
<1>1. ListInv(s) /\ Proper(s) /\ Based(s)
  BY GoodFacts, ProperBased
<1>2. PICK u : r = ArrangeAll(Focus(u, NULL)) /\ Regrouped(s, u) /\ u.nmon = n
  BY <1>1, ConfigureNotifyRegroups
<1> HIDE DEF r
<1>3. ListInv(u) /\ u \in State /\ Proper(u)
  BY <1>1, <1>2, ProperBased DEF Regrouped, ListInv
<1>4. Calm(u, r) /\ SameFlags(u, r)
  BY <1>2, <1>3, FocusArrangeAll, FlagsKept
<1>5. /\ Good(r) /\ r.tags = s.tags /\ r.nmon = n
      /\ \A m \in Mon : m <= s.nmon /\ m <= r.nmon => ViewOf(r, m) = ViewOf(s, m)
  BY <1>2, <1>4
     DEF Calm, Reordered, SamePlaces, SameTags, Regrouped, ViewOf
<1>6. \A c : In(r, c) <=> In(s, c)
  <2>1. \A c : In(r, c) <=> In(u, c)
    BY <1>3, <1>4, ReorderedSameIn DEF Calm
  <2> QED BY <1>2, <2>1 DEF Regrouped
<1>7. Orderly(s, r)
  BY <1>5, <1>6 DEF Orderly, Undisturbed
<1>8. SameFlags(s, r)
  BY <1>2, <1>4 DEF Regrouped, SameFlags
<1> QED BY <1>6, <1>7, <1>8 DEF r

LEMMA GoodEnds ==
  ASSUME NEW s, Good(s)
  PROVE  Ended(s)
<1>1. ListInv(s) /\ Proper(s) /\ Settled(s)
  BY GoodFacts
<1>2. \A m \in Mon : \A c \in ToSet(s.clients[m]) : s.tags[c] # {}
  BY <1>1, InOfMonitor DEF Proper
<1> QED BY <1>1, <1>2 DEF Ended, Proper
-----------------------------------------------------------------------------
(* The input focus                                                         *)

\* The X server sends keys to the selected client, or to the root window.
Keyed(s) ==
  LET c == SelOf(s)
  IN IF c = NULL THEN s.xfocus = NULL
     ELSE s.neverfocus[c] \/ s.gone[c] \/ s.xfocus = c

SameKeys(s, t) ==
  /\ t.sel = s.sel /\ t.selmon = s.selmon /\ t.xfocus = s.xfocus
  /\ t.neverfocus = s.neverfocus /\ t.gone = s.gone

\* The fields of SameKeys exist.
LEMMA KeyFields ==
  ASSUME NEW s \in State
  PROVE  {"sel", "selmon", "xfocus", "neverfocus", "gone"} \subseteq DOMAIN s
BY StateDomain

LEMMA SameKeysKeyed ==
  ASSUME NEW s, NEW t, SameKeys(s, t), Keyed(s)
  PROVE  Keyed(t)
BY DEF SameKeys, Keyed, SelOf

\* setfocus() on the selected client.
LEMMA SetFocusKeyed ==
  ASSUME NEW s \in State, NEW c \in Client, SelOf(s) = c
  PROVE  Keyed(SetFocus(s, c))
<1>1. c # NULL
  BY ConstantsAssumption
<1>2. CASE s.neverfocus[c] \/ s.gone[c]
  BY <1>1, <1>2 DEF SetFocus, Keyed
<1>3. CASE ~(s.neverfocus[c] \/ s.gone[c])
  <2> DEFINE t == [s EXCEPT !.xfocus = c]
  <2>1. {"xfocus", "sel", "selmon"} \subseteq DOMAIN s
    BY StateDomain
  <2>2. t.xfocus = c /\ t.sel = s.sel /\ t.selmon = s.selmon
    BY <2>1
  <2>3. SetFocus(s, c) = t
    BY <1>3 DEF SetFocus
  <2> HIDE DEF t
  <2> QED BY <1>1, <2>2, <2>3 DEF Keyed, SelOf
<1> QED BY <1>2, <1>3

\* focus() always leaves the keyboard with what it selects.
LEMMA FocusKeyed ==
  ASSUME NEW s \in State, NEW want \in ClientOrNull
  PROVE  Keyed(Focus(s, want))
<1> DEFINE c == IF want # NULL /\ Visible(s, want)
                THEN want ELSE FirstVisible(s, s.stack[s.selmon])
           none == [s EXCEPT !.xfocus = NULL, !.sel[s.selmon] = NULL]
           u == [s EXCEPT !.selmon = s.mon[c], !.isurgent[c] = FALSE]
           a == AttachStack(DetachStack(u, c), c)
           v == SetFocus(a, c)
           t == [v EXCEPT !.sel[v.selmon] = c]
<1>1. s.selmon \in Mon /\ s.stack[s.selmon] \in Seq(Client)
  BY DEF State
<1>2. c \in ClientOrNull
  BY <1>1, FirstVisibleType, ToSetOfSeq DEF ClientOrNull
<1>3. Focus(s, want) = IF c = NULL THEN none ELSE t
  BY DEF Focus
<1>4. Keyed(none)
  <2>1. none.xfocus = NULL /\ none.selmon = s.selmon
        /\ none.sel = [s.sel EXCEPT ![s.selmon] = NULL]
    BY DEF State
  <2> HIDE DEF none
  <2>2. SelOf(none) = NULL
    BY <1>1, <2>1 DEF SelOf, State
  <2> QED BY <2>1, <2>2 DEF Keyed
<1> HIDE DEF c, none
<1>5. ASSUME c # NULL
      PROVE  Keyed(t)
  <2>1. c \in Client /\ s.mon[c] \in Mon
    BY <1>2, <1>5 DEF ClientOrNull, State
  <2>2. u \in State
    BY <2>1, ZenonT(60) DEF State
  <2> HIDE DEF u
  <2>3. a \in State
    BY <2>1, <2>2, DetachStackType, AttachStackType
  <2> HIDE DEF a
  <2>4. v \in State /\ v.selmon \in Mon
    BY <2>1, <2>3, SetFocusType DEF State
  <2>5. v.neverfocus[c] \/ v.gone[c] \/ v.xfocus = c
    <3>1. "xfocus" \in DOMAIN a
      BY <2>3, StateDomain
    <3> QED BY <3>1 DEF SetFocus
  <2> HIDE DEF v
  <2>6. {"sel", "selmon", "xfocus", "neverfocus", "gone"} \subseteq DOMAIN v
    BY <2>4, StateDomain
  <2>7. /\ t.selmon = v.selmon /\ t.xfocus = v.xfocus
        /\ t.neverfocus = v.neverfocus /\ t.gone = v.gone
        /\ t.sel = [v.sel EXCEPT ![v.selmon] = c]
    BY <2>6
  <2> HIDE DEF t
  <2>8. SelOf(t) = c
    BY <2>4, <2>7 DEF SelOf, State
  <2> QED BY <1>5, <2>5, <2>7, <2>8 DEF Keyed
<1> QED BY <1>3, <1>4, <1>5

\* arrange() leaves the focus alone.
LEMMA ArrangeKeys ==
  ASSUME NEW s \in State, NEW m
  PROVE  SameKeys(s, Arrange(s, m)) /\ SameKeys(s, ArrangeAll(s))
<1> SUFFICES ASSUME NEW ms
             PROVE  SameKeys(s, ArrangeMon(ShowHide(s, ms), ms))
  BY DEF Arrange, ArrangeAll
<1>1. {"sel", "selmon", "xfocus", "neverfocus", "gone"} \subseteq DOMAIN s
  BY StateDomain
<1> QED BY <1>1, ZenonT(60) DEF SameKeys, ArrangeMon, ShowHide

\* What most commands end in.
LEMMA FocusArrangeKeyed ==
  ASSUME NEW s \in State, NEW want \in ClientOrNull, NEW m
  PROVE  /\ Keyed(Arrange(Focus(s, want), m))
         /\ Keyed(ArrangeAll(Focus(s, want)))
BY FocusType, FocusKeyed, ArrangeKeys, SameKeysKeyed

LEMMA RefreshKeyed ==
  ASSUME NEW s \in State
  PROVE  Keyed(Refresh(s))
<1>1. NULL \in ClientOrNull
  BY DEF ClientOrNull
<1> QED BY <1>1, FocusArrangeKeyed DEF Refresh

LEMMA PopKeyed ==
  ASSUME NEW s \in State, NEW c \in Client
  PROVE  Keyed(Pop(s, c))
<1>1. c \in ClientOrNull /\ Attach(Detach(s, c), c) \in State
  BY DetachType, AttachType DEF ClientOrNull
<1> QED BY <1>1, FocusArrangeKeyed DEF Pop

\* The commands for views and tags end in Refresh() or pop(), or do nothing.
LEMMA ViewKeyed ==
  ASSUME NEW s \in State, Keyed(s), NEW ui \in SUBSET Tag
  PROVE  Keyed(View(s, ui)) /\ Keyed(ToggleView(s, ui))
<1> DEFINE m == s.selmon
           k == s.seltags[m]
           old == IF ui = {} THEN s.tagset[m][1 - k] ELSE ui
           new == SymDiff(ViewOf(s, m), ui)
<1>1. m \in Mon /\ k \in Slot /\ 1 - k \in Slot /\ new \in SUBSET Tag
  BY StateFields, SymDiffType
<1>2. old \in SUBSET Tag
  BY <1>1 DEF State
<1> HIDE DEF m, k, old, new
<1>3. /\ [s EXCEPT !.seltags[m] = 1 - k, !.tagset[m][1 - k] = old] \in State
      /\ [s EXCEPT !.tagset[m][k] = new] \in State
  BY <1>1, <1>2, SetViewType
<1>4. Keyed(View(s, ui))
  BY <1>3, RefreshKeyed DEF View, m, k, old
<1>5. Keyed(ToggleView(s, ui))
  BY <1>3, RefreshKeyed DEF ToggleView, m, k, new
<1> QED BY <1>4, <1>5

LEMMA ComboViewKeyed ==
  ASSUME NEW s \in State, NEW t \in Tag
  PROVE  Keyed(ComboView(s, t))
BY ComboViewStep, RefreshKeyed

LEMMA TagsKeyed ==
  ASSUME NEW s \in State, Keyed(s), NEW ui \in SUBSET Tag
  PROVE  /\ Keyed(ComboTag(s, ui)) /\ Keyed(TagSel(s, ui))
         /\ Keyed(ToggleTag(s, ui))
<1> DEFINE c == s.sel[s.selmon]
           new == IF s.combo THEN s.tags[c] \cup ui ELSE ui
           diff == SymDiff(s.tags[c], ui)
<1>1. ASSUME c # NULL
      PROVE  c \in Client /\ new \in SUBSET Tag /\ diff \in SUBSET Tag
  BY <1>1, StateFields, SymDiffType DEF ClientOrNull
<1> HIDE DEF c, new, diff
<1>2. ASSUME c # NULL
      PROVE  /\ [s EXCEPT !.combo = TRUE, !.tags[c] = new] \in State
             /\ [s EXCEPT !.tags[c] = ui] \in State
             /\ [s EXCEPT !.tags[c] = diff] \in State
  BY <1>1, <1>2, SetComboTagsType, SetTagsType
<1>3. Keyed(ComboTag(s, ui))
  BY <1>2, RefreshKeyed DEF ComboTag, c, new
<1>4. Keyed(TagSel(s, ui))
  BY <1>2, RefreshKeyed DEF TagSel, c
<1>5. Keyed(ToggleTag(s, ui))
  BY <1>2, RefreshKeyed DEF ToggleTag, c, diff
<1> QED BY <1>3, <1>4, <1>5

\* The commands that reorder the list focus the client they move.
LEMMA FocusStackKeyed ==
  ASSUME NEW s \in State, Keyed(s), NEW dir
  PROVE  Keyed(FocusStack(s, dir))
<1>1. \A i \in 1 .. Len(s.clients[s.selmon]) :
        s.clients[s.selmon][i] \in ClientOrNull
  BY StateFields DEF ClientOrNull
<1> QED BY <1>1, FocusStackStep, FocusKeyed

LEMMA RelinkKeyed ==
  ASSUME NEW s \in State, Keyed(s)
  PROVE  Keyed(Zoom(s)) /\ Keyed(PushDown(s)) /\ Keyed(PushUp(s))
<1>1. \A t : RelinkStep(s, t) => Keyed(t)
  BY FocusArrangeKeyed DEF RelinkStep, ClientOrNull
<1> QED BY <1>1, ZoomStep, PopKeyed, PushDownStep, PushUpStep

\* Without a selection pushleft() only arranges the monitor.
LEMMA PushLeftKeyed ==
  ASSUME NEW s \in State, Keyed(s)
  PROVE  Keyed(PushLeft(s))
<1> DEFINE c == s.sel[s.selmon]
           left == ~s.isLeft[c]
           t == [s EXCEPT !.isLeft[c] = left]
<1>1. c \in ClientOrNull /\ left \in BOOLEAN
  BY StateFields
<1> HIDE DEF c, left
<1>2. c # NULL => t \in State
  BY <1>1, SetIsLeftType DEF ClientOrNull
<1> HIDE DEF t
<1>3. \A m : Keyed(Arrange(s, m)) /\ (c # NULL => Keyed(Arrange(Focus(t, c), m)))
  BY <1>1, <1>2, FocusArrangeKeyed, ArrangeKeys, SameKeysKeyed
<1> QED BY <1>3 DEF PushLeft, c, t, left

\* Fields that decide nothing about the focus, and arrange().
LEMMA FieldsKeyed ==
  ASSUME NEW s, Keyed(s), NEW t \in State, SameKeys(s, t)
  PROVE  Keyed(t) /\ \A m : Keyed(Arrange(t, m))
BY SameKeysKeyed, ArrangeKeys

LEMMA LayoutKeyed ==
  ASSUME NEW s \in State, Keyed(s), NEW i \in Int,
         NEW layout \in Layout \cup {"toggle"}
  PROVE  Keyed(IncNMaster(s, i)) /\ Keyed(SetLayout(s, layout))
<1> DEFINE n == s.nmaster[s.selmon] + i
           new == IF n > 0 THEN n ELSE 0
           masters == [s EXCEPT !.nmaster[s.selmon] = new]
           m == s.selmon
           flip == layout = "toggle" \/ layout # s.lt[m][s.sellt[m]]
           k == IF flip THEN 1 - s.sellt[m] ELSE s.sellt[m]
           lt == IF layout = "toggle" THEN s.lt[m][k] ELSE layout
           t == [s EXCEPT !.sellt[m] = k, !.lt[m][k] = lt]
<1>1. m \in Mon /\ k \in Slot
  BY DEF State, Slot
<1>2. new \in Nat
  BY DEF State
<1>3. lt \in Layout
  <2> HIDE DEF m, k
  <2> QED BY <1>1 DEF State
<1> HIDE DEF k, lt, new
<1>4. masters \in State /\ t \in State
  BY <1>1, <1>2, <1>3, SetNMasterType, SetLtType
<1>5. SameKeys(s, masters) /\ SameKeys(s, t)
  BY KeyFields, ZenonT(60) DEF SameKeys
<1> HIDE DEF masters, t
<1>6. /\ Keyed(Arrange(masters, m)) /\ Keyed(t) /\ Keyed(Arrange(t, m))
  BY <1>4, <1>5, FieldsKeyed
<1>7. Keyed(IncNMaster(s, i))
  BY <1>6 DEF IncNMaster, masters, new
<1>8. Keyed(SetLayout(s, layout))
  BY <1>6 DEF SetLayout, t, k, lt
<1> QED BY <1>7, <1>8

LEMMA SetFullscreenKeyed ==
  ASSUME NEW s \in State, Keyed(s), NEW c \in Client, NEW on \in BOOLEAN
  PROVE  Keyed(SetFullscreen(s, c, on))
<1> DEFINE float == s.isfloating[c]
           old == s.oldstate[c]
           in == [s EXCEPT !.isfullscreen[c] = TRUE, !.oldstate[c] = float,
                           !.isfloating[c] = TRUE, !.shown[c] = TRUE]
           out == [s EXCEPT !.isfullscreen[c] = FALSE, !.isfloating[c] = old,
                            !.shown[c] = TRUE]
<1>1. float \in BOOLEAN /\ old \in BOOLEAN
  BY StateFlags
<1> HIDE DEF float, old
<1>2. in \in State /\ out \in State
  BY <1>1, SetFullscreenFieldsType
<1>3. SameKeys(s, in) /\ SameKeys(s, out)
  BY KeyFields, ZenonT(60) DEF SameKeys
<1> HIDE DEF in, out
<1>4. Keyed(in) /\ \A m : Keyed(Arrange(out, m))
  BY <1>2, <1>3, FieldsKeyed
<1> QED BY <1>4 DEF SetFullscreen, in, out, float, old

LEMMA SetFloatingKeyed ==
  ASSUME NEW s \in State, Keyed(s), NEW c \in Client, NEW float \in BOOLEAN
  PROVE  LET t == [s EXCEPT !.isfloating[c] = float]
         IN Keyed(t) /\ \A m : Keyed(Arrange(t, m))
<1> DEFINE t == [s EXCEPT !.isfloating[c] = float]
<1>1. t \in State
  BY SetFloatingType
<1>2. SameKeys(s, t)
  BY KeyFields, ZenonT(60) DEF SameKeys
<1> HIDE DEF t
<1>3. Keyed(t) /\ \A m : Keyed(Arrange(t, m))
  BY <1>1, <1>2, FieldsKeyed
<1> QED BY <1>3 DEF t

LEMMA ToggleKeyed ==
  ASSUME NEW s \in State, Keyed(s)
  PROVE  Keyed(ToggleFloating(s)) /\ Keyed(ToggleFullscr(s))
<1> DEFINE c == s.sel[s.selmon]
           float == ~s.isfloating[c] \/ s.isfixed[c]
           on == ~s.isfullscreen[c]
<1>1. c \in ClientOrNull /\ float \in BOOLEAN /\ on \in BOOLEAN
  BY StateFields
<1> HIDE DEF c, float, on
<1>2. c # NULL => /\ \A m : Keyed(Arrange([s EXCEPT !.isfloating[c] = float], m))
                  /\ Keyed(SetFullscreen(s, c, on))
  BY <1>1, SetFloatingKeyed, SetFullscreenKeyed DEF ClientOrNull
<1>3. Keyed(ToggleFloating(s))
  BY <1>2 DEF ToggleFloating, c, float
<1>4. Keyed(ToggleFullscr(s))
  BY <1>2 DEF ToggleFullscr, c, on
<1> QED BY <1>3, <1>4

\* Whatever selects a monitor ends in focus().
LEMMA FocusMonKeyed ==
  ASSUME NEW s \in State, Keyed(s), NEW dir
  PROVE  Keyed(FocusMon(s, dir))
BY DirToMonType, SetSelmonType, FocusKeyed DEF FocusMon, ClientOrNull

LEMMA SendMonKeyed ==
  ASSUME NEW s \in State, Keyed(s), NEW c \in Client, NEW m \in Mon
  PROVE  Keyed(SendMon(s, c, m))
<1> DEFINE out == DetachStack(Detach(Unfocus(s, c), c), c)
           view == ViewOf(s, m)
           moved == [out EXCEPT !.mon[c] = m, !.tags[c] = view]
<1>1. out \in State /\ view \in SUBSET Tag
  BY UnfocusType, DetachType, DetachStackType, ViewOfType
<1> HIDE DEF out, view
<1>2. AttachStack(AttachBelow(moved, c), c) \in State
  BY <1>1, MoveRetagType, AttachBelowType, AttachStackType
<1>3. Keyed(ArrangeAll(Focus(AttachStack(AttachBelow(moved, c), c), NULL)))
  BY <1>2, FocusArrangeKeyed DEF ClientOrNull
<1> QED BY <1>3 DEF SendMon, out, moved, view

LEMMA TagMonKeyed ==
  ASSUME NEW s \in State, Keyed(s), NEW dir
  PROVE  Keyed(TagMon(s, dir))
BY StateFields, DirToMonType, SendMonKeyed DEF TagMon, ClientOrNull

LEMMA PointerKeyed ==
  ASSUME NEW s \in State, Keyed(s), NEW c \in Client
  PROVE  Keyed(EnterClient(s, c)) /\ Keyed(ButtonPress(s, c))
<1>1. NULL \in ClientOrNull /\ c \in ClientOrNull /\ s.mon[c] \in Mon
  BY StateFields DEF ClientOrNull
<1>2. \A i \in Mon : /\ Focus(SelectMon(s, i), NULL) \in State
                     /\ Keyed(Focus(SelectMon(s, i), c))
  BY <1>1, SelectMonType, FocusType, FocusKeyed
<1>3. /\ Keyed(Focus(s, c))
      /\ \A i \in Mon : Keyed(Focus(Focus(SelectMon(s, i), NULL), c))
  BY <1>1, <1>2, FocusKeyed
<1> QED BY <1>1, <1>2, <1>3 DEF EnterClient, ButtonPress

LEMMA RootPointerKeyed ==
  ASSUME NEW s \in State, Keyed(s), NEW m \in Mon
  PROVE  Keyed(EnterRoot(s, m)) /\ Keyed(MotionNotify(s, m))
<1>1. NULL \in ClientOrNull
  BY DEF ClientOrNull
<1>2. /\ Focus(SelectMon(s, m), NULL) \in State
      /\ Keyed(Focus(SelectMon(s, m), NULL))
  BY <1>1, SelectMonType, FocusType, FocusKeyed
<1> DEFINE t == IF m # s.motionmon /\ s.motionmon # NULL
                THEN Focus(SelectMon(s, m), NULL) ELSE s
<1>3. t \in State /\ Keyed(t)
  BY <1>2
<1> HIDE DEF t
<1>4. SameKeys(t, [t EXCEPT !.motionmon = m])
  BY <1>3, KeyFields, ZenonT(60) DEF SameKeys
<1>5. Keyed(MotionNotify(s, m))
  BY <1>3, <1>4, SameKeysKeyed DEF MotionNotify, t
<1> QED BY <1>2, <1>5 DEF EnterRoot

\* Properties of a client, but for the hints that say whether it takes the
\* focus at all.
LEMMA PropertiesKeyed ==
  ASSUME NEW s \in State, Keyed(s), NEW c \in Client, NEW a \in BOOLEAN,
         NEW b \in BOOLEAN
  PROVE  /\ Keyed(UpdateWindowType(s, c, a, b)) /\ Keyed(TransientFor(s, c, a))
         /\ Keyed(ActiveWindowMessage(s, c))
         /\ Keyed([s EXCEPT !.isfixed[c] = a])
<1> DEFINE full == SetFullscreen(s, c, TRUE)
<1>1. full \in State /\ Keyed(full)
  BY SetFullscreenType, SetFullscreenKeyed
<1> HIDE DEF full
<1>2. Keyed(UpdateWindowType(s, c, a, b))
  BY <1>1, SetFloatingKeyed DEF UpdateWindowType, full
<1>3. Keyed(TransientFor(s, c, a))
  BY SetFloatingKeyed DEF TransientFor
<1>4. /\ SameKeys(s, [s EXCEPT !.isurgent[c] = TRUE])
      /\ SameKeys(s, [s EXCEPT !.isfixed[c] = a])
  BY KeyFields, ZenonT(60) DEF SameKeys
<1>5. Keyed(ActiveWindowMessage(s, c))
  BY <1>4, SameKeysKeyed DEF ActiveWindowMessage
<1> QED BY <1>2, <1>3, <1>4, <1>5, SameKeysKeyed

LEMMA KeyReleaseKeyed ==
  ASSUME NEW s \in State, Keyed(s)
  PROVE  Keyed(KeyRelease(s))
<1>1. SameKeys(s, KeyRelease(s))
  BY KeyFields, ZenonT(60) DEF SameKeys, KeyRelease
<1> QED BY <1>1, SameKeysKeyed

\* focusin(): the selected client takes the focus back.
LEMMA FocusInKeyed ==
  ASSUME NEW s \in State, Keyed(s), NEW c \in Client
  PROVE  Keyed(FocusIn(s, c))
<1> DEFINE rest == s.focusin \ {c}
           t == [s EXCEPT !.focusin = rest]
<1>1. rest \in SUBSET Client
  BY DEF State
<1> HIDE DEF rest
<1>2. t \in State
  BY <1>1, SetFocusInType
<1>3. SameKeys(s, t) /\ Keyed(t)
  BY KeyFields, SameKeysKeyed, ZenonT(60) DEF SameKeys
<1> HIDE DEF t
<1>4. SelOf(s) # NULL => Keyed(SetFocus(t, SelOf(s)))
  <2>1. SelOf(t) = SelOf(s) /\ SelOf(s) \in ClientOrNull
    BY <1>3, StateFields DEF SameKeys, SelOf
  <2> QED BY <1>2, <2>1, SetFocusKeyed DEF ClientOrNull
<1> QED BY <1>3, <1>4 DEF FocusIn, t, rest, SelOf

\* A window that is unmapped or destroyed loses the focus to the root window.
LEMMA GoneKeyed ==
  ASSUME NEW s \in State, Keyed(s), NEW c \in Client
  PROVE  Keyed([s EXCEPT !.gone[c] = TRUE,
                         !.xfocus = IF @ = c THEN NULL ELSE @])
<1> DEFINE t == [s EXCEPT !.gone[c] = TRUE,
                          !.xfocus = IF @ = c THEN NULL ELSE @]
           d == SelOf(s)
<1> SUFFICES Keyed(t)
  BY DEF t
<1>1. /\ t.gone = [s.gone EXCEPT ![c] = TRUE]
      /\ t.xfocus = IF s.xfocus = c THEN NULL ELSE s.xfocus
      /\ t.sel = s.sel /\ t.selmon = s.selmon /\ t.neverfocus = s.neverfocus
  BY DEF State
<1> HIDE DEF t
<1>2. SelOf(t) = d /\ d \in ClientOrNull
  BY <1>1, StateFields DEF SelOf
<1>3. c # NULL
  BY ConstantsAssumption
<1>4. CASE d = NULL
  BY <1>1, <1>2, <1>4 DEF Keyed
<1>5. CASE d = c
  <2>1. t.gone[c]
    BY <1>1 DEF State
  <2> QED BY <1>2, <1>3, <1>5, <2>1 DEF Keyed
<1>6. CASE d # NULL /\ d # c
  <2>1. d \in Client /\ t.gone[d] = s.gone[d]
    BY <1>1, <1>2, <1>6 DEF State, ClientOrNull
  <2>2. s.xfocus = d => t.xfocus = d
    BY <1>1, <1>6
  <2>3. t.neverfocus[d] = s.neverfocus[d]
    BY <1>1
  <2> HIDE DEF d
  <2>4. s.neverfocus[d] \/ s.gone[d] \/ s.xfocus = d
    BY <1>6 DEF Keyed, d
  <2> QED BY <1>2, <1>6, <2>1, <2>2, <2>3, <2>4 DEF Keyed
<1> QED BY <1>4, <1>5, <1>6

\* Clients and monitors come and go.
LEMMA ManageKeyed ==
  ASSUME NEW s \in State, NEW c \in Client, NEW kind \in Kind,
         NEW p \in ClientOrNull
  PROVE  Keyed(Manage(s, c, kind, p))
BY ManageArrangedType, FocusKeyed DEF Manage, ClientOrNull

LEMMA UnmanageKeyed ==
  ASSUME NEW s \in State, NEW c \in Client
  PROVE  Keyed(Unmanage(s, c))
<1>1. NULL \in ClientOrNull
  BY DEF ClientOrNull
<1>2. FreeClient(DetachStack(Detach(s, c), c), c) \in State
  BY DetachType, DetachStackType, FreeClientType
<1>3. \A m : Arrange(FreeClient(DetachStack(Detach(s, c), c), c), m) \in State
  BY <1>2, ArrangeType
<1> QED BY <1>1, <1>3, FocusKeyed DEF Unmanage

LEMMA ConfigureNotifyKeyed ==
  ASSUME NEW s \in State, NEW n \in Mon, NEW p \in Mon
  PROVE  Keyed(ConfigureNotify(s, n, p))
<1>1. PICK u \in State : ConfigureNotify(s, n, p) = ArrangeAll(Focus(u, NULL))
  BY ConfigureNotifyStep
<1>2. NULL \in ClientOrNull
  BY DEF ClientOrNull
<1> QED BY <1>1, <1>2, FocusArrangeKeyed

-----------------------------------------------------------------------------
(* Tiled clients                                                           *)

TiledClients(s) == {c \in Client : Tiled(s, c)}

NoneLeft(s) == \A c \in Client : ~IsLeft(s, c)

\* s and t agree on what decides which clients are tiled, and where.
SameTiled(s, t) ==
  SameView(s, t) /\ t.isfloating = s.isfloating /\ t.isLeft = s.isLeft

LEMMA SameTiledClients ==
  ASSUME NEW s, NEW t, SameTiled(s, t)
  PROVE  /\ TiledClients(t) = TiledClients(s) /\ NoneLeft(s) = NoneLeft(t)
         /\ \A c : Tiled(t, c) = Tiled(s, c) /\ Visible(t, c) = Visible(s, c)
<1>1. \A c : Visible(t, c) = Visible(s, c)
  BY DEF SameTiled, SameView, Visible, ViewOf
<1>2. \A c : Tiled(t, c) = Tiled(s, c)
  BY <1>1 DEF SameTiled, Tiled
<1>3. \A c : IsLeft(t, c) = IsLeft(s, c)
  BY DEF SameTiled, SameView, IsLeft
<1> QED BY <1>1, <1>2, <1>3 DEF TiledClients, NoneLeft

LEMMA SameTiledTwice ==
  ASSUME NEW s, NEW t, NEW u, SameTiled(s, t), SameTiled(t, u)
  PROVE  SameTiled(s, u)
BY DEF SameTiled, SameView

\* nexttiled() stops at the first tiled client.
LEMMA NextTiledStops ==
  ASSUME NEW s, NEW q \in Seq(Client), NEW i \in 1 .. Len(q) + 1
  PROVE  LET n == NextTiled(s, q, i)
         IN /\ n = 0 => \A j \in i .. Len(q) : ~Tiled(s, q[j])
            /\ n # 0 => /\ n \in i .. Len(q) /\ Tiled(s, q[n])
                        /\ \A j \in i .. n - 1 : ~Tiled(s, q[j])
<1> DEFINE I == {j \in i .. Len(q) : Tiled(s, q[j])}
           n == NextTiled(s, q, i)
<1>1. n = IF I # {} THEN Min(I) ELSE 0
  BY DEF NextTiled, SelectInSubSeq
<1>2. Len(q) \in Nat /\ I \in SUBSET Nat /\ 0 \notin I
  BY LenProperties
<1>3. I # {} => Min(I) \in I /\ \A j \in I : Min(I) <= j
  <2> HIDE DEF I
  <2> QED BY <1>2, MinNat
<1> HIDE DEF n
<1>4. n = 0 => I = {}
  BY <1>1, <1>2, <1>3
<1>5. ASSUME n # 0
      PROVE  /\ n \in i .. Len(q) /\ Tiled(s, q[n])
             /\ \A j \in i .. n - 1 : ~Tiled(s, q[j])
  <2>1. n \in I /\ \A j \in I : n <= j
    BY <1>1, <1>3, <1>5
  <2>2. \A j \in i .. n - 1 : j \in i .. Len(q) /\ ~(n <= j)
    BY <1>2, <2>1
  <2> QED BY <2>1, <2>2
<1> QED BY <1>4, <1>5 DEF n

-----------------------------------------------------------------------------
(* Arranging and focusing again                                            *)

\* varcol() moves no client when none belongs to the left column.
LEMMA VarColStays ==
  ASSUME NEW s, NoneLeft(s), NEW m, s.clients[m] \in Seq(Client)
  PROVE  VarCol(s, m) = s.clients[m]
<1> DEFINE q == s.clients[m]
           tiled == Keep(q, {c \in Client : Tiled(s, c)})
           left == {tiled[i] : i \in {j \in DOMAIN tiled :
                       j > s.nmaster[m] /\ IsLeft(s, tiled[j])}}
<1>1. VarCol(s, m) = Keep(q, Client \ left) \o Keep(q, left)
  BY DEF VarCol
<1>2. tiled \in Seq(Client)
  BY KeepType
<1> HIDE DEF tiled
<1>3. \A j \in DOMAIN tiled : tiled[j] \in Client
  BY <1>2, LenProperties, ElementOfSeq
<1>4. left = {}
  BY <1>3 DEF NoneLeft
<1> HIDE DEF left, q
<1>5. q \in Seq(Client)
  BY DEF q
<1>6. \A i \in 1 .. Len(q) : q[i] \in Client
  BY <1>5, ElementOfSeq
<1>7. Keep(q, Client \ left) = q
  BY <1>4, <1>5, <1>6, KeepAll
<1>8. Keep(q, left) = << >>
  BY <1>4, <1>5, KeepNone
<1> QED BY <1>1, <1>5, <1>7, <1>8, ConcatEmptySeq DEF q

LEMMA ArrangeStays ==
  ASSUME NEW s \in State, NoneLeft(s), NEW m
  PROVE  Arrange(s, m).clients = s.clients /\ Arrange(s, m).isLeft = s.isLeft
<1> DEFINE h == ShowHide(s, {m})
<1>1. /\ h \in State /\ h.clients = s.clients /\ h.mon = s.mon
      /\ h.isLeft = s.isLeft
  BY ShowHideType, StateDomain, ZenonT(60) DEF ShowHide
<1> HIDE DEF h
<1>2. NoneLeft(h)
  BY <1>1 DEF NoneLeft, IsLeft
<1>3. {"clients", "isLeft"} \subseteq DOMAIN h
  BY <1>1, StateDomain
<1>4. /\ ArrangeMon(h, {m}).clients =
           [i \in Mon |-> IF i \in {m} /\ h.lt[i][h.sellt[i]] = "varcol"
                          THEN VarCol(h, i) ELSE h.clients[i]]
      /\ ArrangeMon(h, {m}).isLeft = h.isLeft
  BY <1>3 DEF ArrangeMon
<1>5. h.clients \in [Mon -> Seq(Client)]
  BY <1>1 DEF State
<1>6. \A i \in Mon : VarCol(h, i) = h.clients[i]
  BY <1>2, <1>5, VarColStays
<1>7. ArrangeMon(h, {m}).clients = h.clients
  BY <1>4, <1>5, <1>6
<1> QED BY <1>1, <1>4, <1>7 DEF Arrange, h

\* s and t view the same and remember the same of their tags.
SameMemory(s, t) ==
  /\ t.tagset = s.tagset /\ t.seltags = s.seltags /\ t.createtag = s.createtag
  /\ t.remtagset = s.remtagset /\ t.remzoomed = s.remzoomed
  /\ t.mon = s.mon /\ t.isLeft = s.isLeft

LEMMA FocusMemory ==
  ASSUME NEW s \in State, NEW want \in ClientOrNull
  PROVE  SameMemory(s, Focus(s, want))
<1> DEFINE c == Chosen(s, want)
           Fields == {"createtag", "remtagset", "remzoomed", "isLeft"}
           none == [s EXCEPT !.xfocus = NULL, !.sel[s.selmon] = NULL]
           u == [s EXCEPT !.selmon = s.mon[c], !.isurgent[c] = FALSE]
           d == DetachStack(u, c)
           a == AttachStack(d, c)
           v == SetFocus(a, c)
           t == [v EXCEPT !.sel[v.selmon] = c]
<1>1. Fields \subseteq DOMAIN s
  BY StateDomain
<1>2. Focus(s, want) = IF c = NULL THEN none ELSE t
  BY DEF Focus, Chosen
<1> HIDE DEF c
<1>3. \A f \in Fields : none[f] = s[f]
  BY <1>1
<1>4. (\A f \in Fields : u[f] = s[f]) /\ Fields \subseteq DOMAIN u
  BY <1>1
<1> HIDE DEF u
<1>5. (\A f \in Fields : d[f] = u[f]) /\ Fields \subseteq DOMAIN d
  BY <1>4 DEF DetachStack
<1> HIDE DEF d
<1>6. (\A f \in Fields : a[f] = d[f]) /\ Fields \subseteq DOMAIN a
  BY <1>5 DEF AttachStack
<1> HIDE DEF a
<1>7. (\A f \in Fields : v[f] = a[f]) /\ Fields \subseteq DOMAIN v
  BY <1>6 DEF SetFocus
<1> HIDE DEF v
<1>8. \A f \in Fields : t[f] = v[f]
  BY <1>7
<1> HIDE DEF none, t
<1>9. \A f \in Fields : Focus(s, want)[f] = s[f]
  BY <1>2, <1>3, <1>4, <1>5, <1>6, <1>7, <1>8
<1>10. Untouched(s, Focus(s, want)) /\ Focus(s, want).mon = s.mon
  BY FocusLeaves
<1> QED BY <1>9, <1>10 DEF SameMemory, Untouched

\* t is s with r for the list of the selected monitor.
WithList(s, t, r) ==
  /\ t \in State /\ t.clients = [s.clients EXCEPT ![s.selmon] = r]
  /\ t.stack = s.stack /\ t.sel = s.sel /\ t.mon = s.mon
  /\ t.selmon = s.selmon /\ t.nmon = s.nmon /\ t.lost = s.lost
  /\ SameTiled(s, t)

LEMMA WithNewList ==
  ASSUME NEW s \in State, NEW r \in Seq(Client)
  PROVE  /\ WithList(s, [s EXCEPT !.clients[s.selmon] = r], r)
         /\ WithList(s, [s EXCEPT !.clients[s.selmon] = r, !.lost = s.lost], r)
<1> DEFINE t == [s EXCEPT !.clients[s.selmon] = r]
           u == [s EXCEPT !.clients[s.selmon] = r, !.lost = s.lost]
           Fields == {"clients", "stack", "sel", "mon", "selmon", "nmon", "lost",
                      "tags", "tagset", "seltags", "isfloating", "isLeft"}
<1>1. s.selmon \in Mon /\ s.lost \in BOOLEAN /\ Fields \subseteq DOMAIN s
  BY StateDomain DEF State
<1>2. t \in State /\ u \in State
  BY <1>1, SetClientsType, SetLostType
<1>3. /\ t.clients = [s.clients EXCEPT ![s.selmon] = r]
      /\ u.clients = [s.clients EXCEPT ![s.selmon] = r]
  BY <1>1
<1>4. /\ t.stack = s.stack /\ t.sel = s.sel /\ t.mon = s.mon
      /\ t.selmon = s.selmon /\ t.nmon = s.nmon /\ t.lost = s.lost
      /\ SameTiled(s, t)
  BY <1>1 DEF SameTiled, SameView
<1>5. /\ u.stack = s.stack /\ u.sel = s.sel /\ u.mon = s.mon
      /\ u.selmon = s.selmon /\ u.nmon = s.nmon /\ u.lost = s.lost
      /\ SameTiled(s, u)
  BY <1>1 DEF SameTiled, SameView
<1> QED BY <1>2, <1>3, <1>4, <1>5 DEF WithList

\* To the front of the list: detach() and attach().
LEMMA WithFront ==
  ASSUME NEW s \in State, NEW c \in Client, s.mon[c] = s.selmon
  PROVE  WithList(s, Attach(Detach(s, c), c),
                  <<c>> \o RemoveFirst(s.clients[s.selmon], c))
<1> DEFINE m == s.selmon
           p == RemoveFirst(s.clients[m], c)
           d == Detach(s, c)
           t == Attach(d, c)
           Fields == {"clients", "stack", "sel", "mon", "selmon", "nmon", "lost",
                      "tags", "tagset", "seltags", "isfloating", "isLeft"}
<1>1. m \in Mon /\ Fields \subseteq DOMAIN s /\ s.clients \in [Mon -> Seq(Client)]
  BY StateDomain DEF State
<1>2. d \in State /\ t \in State /\ Fields \subseteq DOMAIN d
  BY DetachType, AttachType, StateDomain
<1>3. d = [s EXCEPT !.clients[m] = p]
  BY DEF Detach
<1>4. t = [d EXCEPT !.clients[d.mon[c]] = <<c>> \o @]
  BY DEF Attach
<1> HIDE DEF t, p
<1>5. /\ d.clients = [s.clients EXCEPT ![m] = p]
      /\ \A f \in Fields \ {"clients"} : d[f] = s[f]
  BY <1>1, <1>3
<1> HIDE DEF d
<1>6. d.mon[c] = m /\ d.selmon = m
  BY <1>5
<1>7. /\ t.clients = [d.clients EXCEPT ![m] = <<c>> \o d.clients[m]]
      /\ \A f \in Fields \ {"clients"} : t[f] = d[f]
  BY <1>2, <1>4, <1>6
<1>8. t.clients = [s.clients EXCEPT ![m] = <<c>> \o p]
  BY <1>1, <1>5, <1>7
<1>9. \A f \in Fields \ {"clients"} : t[f] = s[f]
  BY <1>5, <1>7
<1>10. /\ t.stack = s.stack /\ t.sel = s.sel /\ t.mon = s.mon
       /\ t.selmon = s.selmon /\ t.nmon = s.nmon /\ t.lost = s.lost
       /\ SameTiled(s, t)
  BY <1>9 DEF SameTiled, SameView
<1> QED BY <1>2, <1>8, <1>10 DEF WithList, t, d, p, m

-----------------------------------------------------------------------------
(* Remembered views                                                        *)

LEMMA SameMemoryTwice ==
  ASSUME NEW s, NEW t, NEW u, SameMemory(s, t), SameMemory(t, u)
  PROVE  SameMemory(s, u)
BY DEF SameMemory

LEMMA SameMemoryLeft ==
  ASSUME NEW s, NEW t, SameMemory(s, t), NoneLeft(s)
  PROVE  NoneLeft(t)
BY DEF SameMemory, NoneLeft, IsLeft

LEMMA ArrangeMemory ==
  ASSUME NEW s \in State, NEW m
  PROVE  SameMemory(s, Arrange(s, m))
<1> DEFINE Fields == {"tagset", "seltags", "createtag", "remtagset", "remzoomed",
                      "mon", "isLeft"}
           h == ShowHide(s, {m})
           t == ArrangeMon(h, {m})
<1>1. Fields \subseteq DOMAIN s
  BY StateDomain
<1>2. (\A f \in Fields : h[f] = s[f]) /\ Fields \subseteq DOMAIN h
  BY <1>1 DEF ShowHide
<1> HIDE DEF h
<1>3. \A f \in Fields : t[f] = h[f]
  BY <1>2 DEF ArrangeMon
<1>4. Arrange(s, m) = t
  BY DEF Arrange, h
<1> HIDE DEF t
<1>5. \A f \in Fields : t[f] = s[f]
  BY <1>2, <1>3
<1> QED BY <1>4, <1>5 DEF SameMemory

\* What a command ends with leaves the list, the views and the memory alone.
SameScene(s, t) ==
  /\ ListInv(t) /\ SameMemory(s, t) /\ t.selmon = s.selmon
  /\ t.clients = s.clients

LEMMA RefreshScene ==
  ASSUME NEW s, ListInv(s), NoneLeft(s)
  PROVE  SameScene(s, Refresh(s))
<1> DEFINE f == Focus(s, NULL)
           u == Arrange(f, f.selmon)
<1>1. s \in State /\ NULL \in ClientOrNull
  BY DEF ListInv, ClientOrNull
<1>2. /\ f \in State /\ f.clients = s.clients /\ f.selmon = s.selmon
      /\ SameMemory(s, f)
  BY <1>1, FocusType, FocusLeaves, FocusNullStays, FocusMemory
<1> HIDE DEF f
<1>3. NoneLeft(f)
  BY <1>2, SameMemoryLeft
<1>4. u.clients = f.clients /\ SameMemory(f, u) /\ u.selmon = f.selmon
  BY <1>2, <1>3, ArrangeStays, ArrangeMemory, ArrangeFields DEF Arrange
<1>5. ListInv(Refresh(s)) /\ Refresh(s) = u
  BY RefreshInv DEF Refresh, Reordered, f
<1> HIDE DEF u
<1> QED BY <1>2, <1>4, <1>5, SameMemoryTwice DEF SameScene

\* focus() of a client of the selected monitor, in view or not.
LEMMA FocusHere ==
  ASSUME NEW s, ListInv(s), NEW c \in Client, s.mon[c] = s.selmon
  PROVE  Focus(s, c).selmon = s.selmon
<1> DEFINE b == Chosen(s, c)
           none == [s EXCEPT !.xfocus = NULL, !.sel[s.selmon] = NULL]
<1>1. s \in State /\ s.selmon \in Mon /\ s.stack[s.selmon] \in Seq(Client)
  BY SMTT(60) DEF ListInv, State
<1>2. b = c \/ b = FirstVisible(s, s.stack[s.selmon])
  BY DEF Chosen
<1>3. b = c \/ b \in ToSet(s.stack[s.selmon]) \cup {NULL}
  BY <1>1, <1>2, FirstVisibleType
<1>4. CASE b = NULL
  <2>1. Focus(s, c) = none
    BY <1>4, ZenonT(60) DEF Focus, Chosen
  <2>2. none.selmon = s.selmon
    BY <1>1 DEF State
  <2> QED BY <2>1, <2>2
<1>5. CASE b # NULL
  <2>1. b = c \/ b \in ToSet(s.clients[s.selmon])
    BY <1>1, <1>3, <1>5 DEF ListInv, Linked
  <2>2. b \in Client /\ s.mon[b] = s.selmon
    BY <1>1, <2>1, InOfMonitor
  <2>3. c \in ClientOrNull
    BY DEF ClientOrNull
  <2> HIDE DEF b
  <2>4. Focus(s, c).selmon = s.mon[b]
    BY <1>1, <2>2, <2>3, FocusFields DEF b
  <2> QED BY <2>2, <2>4
<1> QED BY <1>4, <1>5

\* pop() puts a client in front, in view or not.
LEMMA PopFront ==
  ASSUME NEW s, ListInv(s), NoneLeft(s), NEW c \in ToSet(s.clients[s.selmon])
  PROVE  LET u == Pop(s, c)
         IN /\ ListInv(u) /\ SameMemory(s, u) /\ u.selmon = s.selmon
            /\ u.clients[s.selmon] = <<c>> \o RemoveFirst(s.clients[s.selmon], c)
<1> DEFINE m == s.selmon
           r == <<c>> \o RemoveFirst(s.clients[m], c)
           a == Attach(Detach(s, c), c)
           f == Focus(a, c)
           u == Arrange(f, f.mon[c])
<1>1. s \in State /\ m \in Mon
  BY SelmonFacts
<1>2. In(s, c) /\ s.mon[c] = m /\ c \in Client
  BY <1>1, InOfMonitor
<1>3. WithList(s, a, r)
  BY <1>1, <1>2, WithFront
<1>4. SameMemory(s, a)
  <2> DEFINE Fields == {"tagset", "seltags", "createtag", "remtagset",
                        "remzoomed", "mon", "isLeft"}
             d == Detach(s, c)
  <2>1. Fields \subseteq DOMAIN s
    BY <1>1, StateDomain
  <2>2. (\A g \in Fields : d[g] = s[g]) /\ Fields \subseteq DOMAIN d
    BY <2>1 DEF Detach
  <2> HIDE DEF d
  <2>3. \A g \in Fields : Attach(d, c)[g] = d[g]
    BY <2>2 DEF Attach
  <2>4. \A g \in Fields : a[g] = s[g]
    BY <2>2, <2>3 DEF d
  <2> HIDE DEF a
  <2> QED BY <2>4 DEF SameMemory
<1>5. ListInv(a)
  BY <1>2, ToFrontInv DEF Reordered
<1>6. /\ a \in State /\ a.clients = [s.clients EXCEPT ![m] = r]
      /\ a.selmon = m /\ a.mon = s.mon
  BY <1>3 DEF WithList
<1> HIDE DEF a, r
<1>7. /\ f \in State /\ f.clients = a.clients /\ f.selmon = m
      /\ SameMemory(a, f)
  <2>1. c \in ClientOrNull /\ a.mon[c] = a.selmon
    BY <1>2, <1>6 DEF ClientOrNull
  <2> QED BY <1>2, <1>5, <1>6, <2>1, FocusType, FocusLeaves, FocusHere, FocusMemory
<1> HIDE DEF f
<1>8. SameMemory(s, f)
  BY <1>4, <1>7, SameMemoryTwice
<1>9. NoneLeft(f)
  BY <1>8, SameMemoryLeft
<1>10. u.clients = f.clients /\ SameMemory(f, u) /\ u.selmon = f.selmon
  BY <1>7, <1>9, ArrangeStays, ArrangeMemory, ArrangeFields DEF Arrange
<1>11. Pop(s, c) = u /\ ListInv(Pop(s, c))
  BY <1>2, PopInv DEF Pop, Reordered, f, a
<1> HIDE DEF u
<1>12. SameMemory(s, u)
  BY <1>8, <1>10, SameMemoryTwice
<1>13. u.clients[m] = r
  <2>1. s.clients \in [Mon -> Seq(Client)]
    BY <1>1 DEF State
  <2> QED BY <1>1, <1>6, <1>7, <1>10, <2>1
<1> QED BY <1>7, <1>10, <1>11, <1>12, <1>13 DEF r

\* What remembertag() remembers: the first client of the list.
FirstOf(q) == At(q, IF q = << >> THEN 0 ELSE 1)

\* s goes to tag t from another, and u is there: with what was remembered of t,
\* remembering what it comes from.
Went(s, u, t) ==
  LET m == s.selmon
      k == s.seltags[m]
      home == s.createtag[m][k]
  IN /\ ListInv(u) /\ NoneLeft(u) /\ u.selmon = m /\ u.seltags[m] = 1 - k
     /\ u.createtag[m][1 - k] = t
     /\ ViewOf(u, m) = {t} \cup s.remtagset[m][t]
     /\ u.remtagset[m][home] = ViewOf(s, m)
     /\ u.remzoomed[m][home] = FirstOf(s.clients[m])
     /\ ToSet(u.clients[m]) = ToSet(s.clients[m])
     /\ s.remzoomed[m][t] \in ToSet(s.clients[m]) =>
          u.clients[m][1] = s.remzoomed[m][t]

LEMMA ComboViewGoes ==
  ASSUME NEW s, ListInv(s), NoneLeft(s), ~s.combo, NEW t \in Tag,
         t # s.createtag[s.selmon][s.seltags[s.selmon]]
  PROVE  Went(s, ComboView(s, t), t)
<1> DEFINE m == s.selmon
           k == s.seltags[m]
           l == 1 - k
           home == s.createtag[m][k]
           q == s.clients[m]
           r == RememberTag(s)
           sel == SelectTag(r, t)
           z == s.remzoomed[m][t]
           view == {t} \cup s.remtagset[m][t]
           old == {"clients", "stack", "sel", "mon", "nmon", "selmon", "lost",
                   "isLeft", "tagset", "seltags", "createtag"}
<1>1. /\ s \in State /\ m \in Mon /\ k \in Slot /\ l \in Slot /\ l # k
      /\ home \in Tag /\ List(q) /\ t # home
  <2>1. s \in State /\ m \in Mon /\ List(q)
    BY SelmonFacts
  <2>2. k \in Slot /\ l \in Slot /\ home \in Tag
    BY <2>1, StateFields
  <2>3. l # k
    BY <2>2 DEF Slot
  <2> QED BY <2>1, <2>2, <2>3
<1>2. /\ s.remtagset \in [Mon -> [Tag -> SUBSET Tag]]
      /\ s.remzoomed \in [Mon -> [Tag -> ClientOrNull]]
      /\ s.tagset \in [Mon -> [Slot -> SUBSET Tag]]
      /\ s.createtag \in [Mon -> [Slot -> Tag]]
      /\ s.zoomed \in [Mon -> [Slot -> ClientOrNull]]
      /\ s.seltags \in [Mon -> Slot]
  BY <1>1 DEF State
<1>3. r \in State /\ sel \in State
  BY <1>1, RememberTagType, SelectTagType
<1>4. old \subseteq DOMAIN s /\ {"remtagset", "remzoomed", "zoomed"} \subseteq DOMAIN s
  BY <1>1, StateDomain
<1> HIDE DEF old
<1>5. /\ \A f \in old : r[f] = s[f]
      /\ r.remtagset = [s.remtagset EXCEPT ![m][home] = s.tagset[m][k]]
      /\ r.remzoomed = [s.remzoomed EXCEPT ![m][home] = FirstOf(q)]
      /\ r.zoomed = s.zoomed
  BY <1>4 DEF RememberTag, FirstOf, old
<1>6. /\ r.remtagset[m][home] = ViewOf(s, m) /\ r.remtagset[m][t] = s.remtagset[m][t]
      /\ r.remzoomed[m][home] = FirstOf(q) /\ r.remzoomed[m][t] = z
  <2>1. ViewOf(s, m) = s.tagset[m][k]
    BY DEF ViewOf
  <2> HIDE DEF r, m, k, home, q
  <2> QED BY <1>1, <1>2, <1>5, <2>1
<1>7. /\ r.clients = s.clients /\ r.stack = s.stack /\ r.sel = s.sel
      /\ r.mon = s.mon /\ r.nmon = s.nmon /\ r.selmon = m /\ r.lost = s.lost
      /\ r.isLeft = s.isLeft /\ r.tagset = s.tagset /\ r.seltags = s.seltags
      /\ r.createtag = s.createtag
  BY <1>5 DEF old
<1> HIDE DEF r
<1>8. sel = [r EXCEPT !.seltags[m] = l, !.combo = TRUE, !.tagset[m][l] = view,
                      !.zoomed[m][l] = z, !.createtag[m][l] = t]
  <2> DEFINE i == r.selmon
             j == 1 - r.seltags[i]
             again == r.createtag[i][r.seltags[i]] = t
             new == {t} \cup (IF again THEN {} ELSE r.remtagset[i][t])
             first == IF again THEN r.zoomed[i][j] ELSE r.remzoomed[i][t]
  <2>1. sel = [r EXCEPT !.seltags[i] = j, !.combo = TRUE, !.tagset[i][j] = new,
                        !.zoomed[i][j] = first, !.createtag[i][j] = t]
    BY Zenon DEF SelectTag
  <2>2. i = m /\ j = l /\ ~again
    BY <1>1, <1>7
  <2>3. new = view /\ first = z
    <3> HIDE DEF again, i, j
    <3> QED BY <1>6, <2>2
  <2> HIDE DEF sel, i, j, again, new, first, view, z, l, m
  <2> QED BY <2>1, <2>2, <2>3, Zenon
<1> HIDE DEF view, z, l
<1>9. /\ sel.seltags = [s.seltags EXCEPT ![m] = l]
      /\ sel.tagset = [s.tagset EXCEPT ![m][l] = view]
      /\ sel.zoomed = [s.zoomed EXCEPT ![m][l] = z]
      /\ sel.createtag = [s.createtag EXCEPT ![m][l] = t]
      /\ sel.remtagset = r.remtagset /\ sel.remzoomed = r.remzoomed
      /\ sel.isLeft = s.isLeft
  <2>1. {"seltags", "tagset", "zoomed", "createtag", "remtagset", "remzoomed",
         "isLeft"} \subseteq DOMAIN r
    BY <1>3, StateDomain
  <2> HIDE DEF sel, m
  <2>2. /\ sel.seltags = [r.seltags EXCEPT ![m] = l]
        /\ sel.tagset = [r.tagset EXCEPT ![m][l] = view]
        /\ sel.zoomed = [r.zoomed EXCEPT ![m][l] = z]
        /\ sel.createtag = [r.createtag EXCEPT ![m][l] = t]
        /\ sel.remtagset = r.remtagset /\ sel.remzoomed = r.remzoomed
        /\ sel.isLeft = r.isLeft
    BY <1>8, <2>1
  <2> QED BY <1>5, <1>7, <2>2
<1>10. SameLists(s, sel)
  <2>1. SameLists(r, sel)
    BY <1>1, <1>3, SelectTagLists
  <2> HIDE DEF sel
  <2> QED BY <1>7, <2>1 DEF SameLists
<1> HIDE DEF sel
<1>11. /\ sel.seltags[m] = l /\ sel.tagset[m][l] = view /\ sel.zoomed[m][l] = z
       /\ sel.createtag[m][l] = t
  BY <1>1, <1>2, <1>9
<1>12. ListInv(sel) /\ sel.selmon = m /\ sel.clients = s.clients
  <2>1. ListInv(sel)
    BY <1>3, <1>10, SameRefreshInv DEF Reordered
  <2> QED BY <1>10, <2>1 DEF SameLists
<1>13. NoneLeft(sel)
  BY <1>9, <1>10 DEF SameLists, NoneLeft, IsLeft
<1> DEFINE zooms == z # NULL /\ Contains(q, z)
           u == IF zooms THEN Pop(sel, z) ELSE sel
<1>14. ComboView(s, t) = Refresh(u)
  <2>1. sel.zoomed[m][sel.seltags[m]] = z
    BY <1>11
  <2> QED BY <2>1 DEF ComboView, sel, r
<1>15. z \in ToSet(q) <=> zooms
  <2>1. Contains(q, z) <=> z \in ToSet(q)
    BY <1>1, ListFacts DEF Contains
  <2>2. z \in ToSet(q) => z # NULL
    BY <1>1, ListFacts, ConstantsAssumption
  <2> HIDE DEF q
  <2> QED BY <2>1, <2>2
<1>16. /\ ListInv(u) /\ SameMemory(sel, u) /\ u.selmon = m
       /\ z \in ToSet(q) => u.clients[m][1] = z
  <2>1. CASE ~(z \in ToSet(q))
    <3>1. u = sel
      BY <1>15, <2>1
    <3> QED BY <1>12, <2>1, <3>1 DEF SameMemory
  <2>2. CASE z \in ToSet(q)
    <3>1. u = Pop(sel, z)
      BY <1>15, <2>2
    <3>2. z \in ToSet(sel.clients[sel.selmon])
      BY <1>12, <2>2
    <3> HIDE DEF u
    <3>3. /\ ListInv(u) /\ SameMemory(sel, u) /\ u.selmon = m
          /\ u.clients[m] = <<z>> \o RemoveFirst(q, z)
      BY <1>12, <1>13, <3>1, <3>2, PopFront
    <3>4. RemoveFirst(q, z) \in Seq(Client) /\ z \in Client
      <4>1. List(RemoveFirst(q, z))
        BY <1>1, RemoveFirstList
      <4>2. z \in Client
        BY <1>1, <2>2, ListFacts
      <4> QED BY <4>1, <4>2 DEF List
    <3> DEFINE p == RemoveFirst(q, z)
    <3> HIDE DEF p
    <3>5. (<<z>> \o p)[1] = z
      BY <3>4 DEF p
    <3> QED BY <3>3, <3>5 DEF p
  <2> QED BY <2>1, <2>2
<1> HIDE DEF u, q
<1>17. NoneLeft(u) /\ SameScene(u, Refresh(u))
  BY <1>13, <1>16, SameMemoryLeft, RefreshScene
<1> DEFINE v == Refresh(u)
<1>18. /\ ListInv(v) /\ SameMemory(sel, v) /\ v.selmon = m
       /\ z \in ToSet(q) => v.clients[m][1] = z
  BY <1>16, <1>17, SameMemoryTwice DEF SameScene
<1> HIDE DEF v
<1>19. NoneLeft(v)
  BY <1>13, <1>18, SameMemoryLeft
<1>20. /\ v.seltags[m] = l /\ v.createtag[m][l] = t /\ ViewOf(v, m) = view
       /\ v.remtagset[m][home] = ViewOf(s, m) /\ v.remzoomed[m][home] = FirstOf(q)
  <2>1. /\ v.seltags = sel.seltags /\ v.createtag = sel.createtag
        /\ v.tagset = sel.tagset /\ v.remtagset = r.remtagset
        /\ v.remzoomed = r.remzoomed
    BY <1>9, <1>18 DEF SameMemory
  <2>2. v.seltags[m] = l /\ v.createtag[m][l] = t /\ v.tagset[m][l] = view
    BY <1>11, <2>1
  <2> QED BY <1>6, <2>1, <2>2 DEF ViewOf, q
<1>21. ToSet(v.clients[m]) = ToSet(q)
  <2>1. Reordered(s, v)
    BY <1>14, ComboViewInv DEF v
  <2> QED BY <1>1, <2>1 DEF Reordered, SamePlaces, q
<1> QED BY <1>14, <1>18, <1>19, <1>20, <1>21 DEF Went, v, q, z, view, l

LEMMA KeyReleaseScene ==
  ASSUME NEW s, ListInv(s), NoneLeft(s)
  PROVE  LET u == KeyRelease(s)
         IN /\ SameScene(s, u) /\ NoneLeft(u) /\ ~u.combo
<1> DEFINE u == KeyRelease(s)
           Fields == {"tagset", "seltags", "createtag", "remtagset", "remzoomed",
                      "mon", "isLeft", "clients", "stack", "sel", "nmon",
                      "selmon", "lost"}
<1>1. s \in State /\ Fields \subseteq DOMAIN s /\ "combo" \in DOMAIN s
  BY StateDomain DEF ListInv
<1>2. u \in State
  BY <1>1, KeyReleaseType
<1>3. (\A f \in Fields : u[f] = s[f]) /\ ~u.combo
  BY <1>1 DEF KeyRelease
<1> HIDE DEF u
<1>4. SameLists(s, u) /\ SameMemory(s, u)
  BY <1>3 DEF SameLists, SameMemory
<1>5. ListInv(u)
  BY <1>2, <1>4, SameRefreshInv DEF Reordered
<1>6. SameScene(s, u) /\ NoneLeft(u) /\ ~u.combo
  BY <1>3, <1>4, <1>5, SameMemoryLeft DEF SameScene, SameLists
<1> QED BY <1>6 DEF u

LEMMA FirstOfList ==
  ASSUME NEW q, List(q), q # << >>
  PROVE  FirstOf(q) = q[1] /\ q[1] \in ToSet(q)
<1>1. q \in Seq(Client) /\ Len(q) \in Nat /\ ToSet(q) = {q[i] : i \in 1 .. Len(q)}
  BY ListFacts
<1>2. 1 \in 1 .. Len(q)
  BY <1>1, EmptySeq
<1> QED BY <1>1, <1>2 DEF FirstOf, At

\* A chord away from a tag, and one back.
LEMMA ThereAndBack ==
  ASSUME NEW s, ListInv(s), NoneLeft(s), NEW t \in Tag,
         t # s.createtag[s.selmon][s.seltags[s.selmon]]
  PROVE  LET m == s.selmon
             home == s.createtag[m][s.seltags[m]]
             back == ComboView(KeyRelease(ComboView(KeyRelease(s), t)), home)
         IN /\ ViewOf(back, m) = ViewOf(s, m) \cup {home}
            /\ s.clients[m] # << >> => back.clients[m][1] = s.clients[m][1]
<1> DEFINE m == s.selmon
           k == s.seltags[m]
           home == s.createtag[m][k]
           a == KeyRelease(s)
           b == ComboView(a, t)
           c == KeyRelease(b)
           d == ComboView(c, home)
<1>1. /\ s \in State /\ m \in Mon /\ k \in Slot /\ home \in Tag
      /\ List(s.clients[m]) /\ 1 - (1 - k) = k
  <2>1. s \in State /\ m \in Mon /\ List(s.clients[m])
    BY SelmonFacts
  <2>2. k \in Slot /\ home \in Tag
    BY <2>1, StateFields
  <2>3. 1 - (1 - k) = k
    BY <2>2 DEF Slot
  <2> QED BY <2>1, <2>2, <2>3
<1>2. /\ ListInv(a) /\ NoneLeft(a) /\ ~a.combo /\ a.selmon = m
      /\ a.clients = s.clients /\ SameMemory(s, a)
  BY KeyReleaseScene DEF SameScene
<1> HIDE DEF a, home, k, m
<1>3. /\ a.seltags[m] = k /\ a.createtag[m][k] = home /\ ViewOf(a, m) = ViewOf(s, m)
      /\ t # home
  BY <1>2 DEF SameMemory, ViewOf, m, k, home
<1>4. Went(a, b, t)
  BY <1>2, <1>3, ComboViewGoes
<1> HIDE DEF b
<1>5. /\ ListInv(b) /\ NoneLeft(b) /\ b.selmon = m /\ b.seltags[m] = 1 - k
      /\ b.createtag[m][1 - k] = t
      /\ b.remtagset[m][home] = ViewOf(s, m)
      /\ b.remzoomed[m][home] = FirstOf(s.clients[m])
      /\ ToSet(b.clients[m]) = ToSet(s.clients[m])
  BY <1>2, <1>3, <1>4 DEF Went
<1>6. /\ ListInv(c) /\ NoneLeft(c) /\ ~c.combo /\ c.selmon = m
      /\ c.clients = b.clients /\ SameMemory(b, c)
  BY <1>5, KeyReleaseScene DEF SameScene
<1> HIDE DEF c
<1>7. /\ c.seltags[m] = 1 - k /\ c.createtag[m][1 - k] = t
      /\ c.remtagset[m][home] = ViewOf(s, m)
      /\ c.remzoomed[m][home] = FirstOf(s.clients[m])
      /\ ToSet(c.clients[m]) = ToSet(s.clients[m])
  BY <1>5, <1>6 DEF SameMemory
<1>8. Went(c, d, home)
  BY <1>1, <1>3, <1>6, <1>7, ComboViewGoes
<1> HIDE DEF d
<1>9. /\ ViewOf(d, m) = {home} \cup ViewOf(s, m)
      /\ FirstOf(s.clients[m]) \in ToSet(s.clients[m]) =>
           d.clients[m][1] = FirstOf(s.clients[m])
  BY <1>6, <1>7, <1>8 DEF Went
<1>10. ASSUME s.clients[m] # << >>
       PROVE  d.clients[m][1] = s.clients[m][1]
  BY <1>1, <1>9, <1>10, FirstOfList
<1> QED BY <1>9, <1>10 DEF d, c, b, a, home, k, m
=============================================================================
